SPECIFICATION FairSpec
CONSTANTS
  core = core
  addon = addon
  game = game
  worker = worker
  NoPlugin = NoPlugin
  Plugins = {core, addon}
  Threads = {game}
  Dispatchers = {game}
  MaxSubscriptions = 2
  MaxDepth = 3
  RecursionLimit = 2
  Overlaps = FALSE
CHECK_DEADLOCK FALSE
PROPERTIES
  CallsReturn
