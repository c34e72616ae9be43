SPECIFICATION Spec
CONSTANTS
  core = core
  addon = addon
  game = game
  worker = worker
  NoPlugin = NoPlugin
  Plugins = {core, addon}
  Threads = {game, worker}
  Dispatchers = {game, worker}
  MaxSubscriptions = 2
  MaxDepth = 3
  RecursionLimit = 1
  Overlaps = FALSE
CHECK_DEADLOCK FALSE
INVARIANTS
  TypeOK
  ActiveBalanced
  QuietIsSilent
  ErasedIsSilent
  ShutdownIsFinal
PROPERTIES
  ImplementsLayer
