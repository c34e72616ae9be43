SPECIFICATION Spec
CONSTANTS
  core = core
  addon = addon
  game = game
  worker = worker
  NoPlugin = NoPlugin
  Plugins = {core}
  Threads = {game, worker}
  Dispatchers = {game}
  MaxSubscriptions = 1
  MaxDepth = 2
  RecursionLimit = 2
  Overlaps = TRUE
CHECK_DEADLOCK FALSE
INVARIANTS
  ErasedIsSilent
