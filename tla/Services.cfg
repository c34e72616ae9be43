SPECIFICATION Spec
CONSTANTS
  Plugins = {plugin}
  NoPlugin = noPlugin
  Threads = {game, worker}
  Game = game
  NoThread = noThread
  Names = {name}
  Owners = {p, q}
  Workers = {u, w}
SYMMETRY Symmetry
CHECK_DEADLOCK FALSE
INVARIANTS
  TypeOK
  NoSelfWait
  RecordsInUse
  QuietIsSilent
  HostImageInUse
  HostClosedWhileReleasing
  OneOwner
  ConstructionsEnd
  ReachesItsEntity
  EventsPair
PROPERTIES
  FactoryImplementsLayer
