SPECIFICATION FairSpec
CONSTANTS
  core = core
  addon = addon
  extra = extra
  game = game
  worker = worker
  console = console
  deferred = deferred
  caller = caller
  other = other
  NoPlugin = NoPlugin
  Plugins = {core, addon, extra}
  Deps <- CycleDeps
  Actors = {console}
  Threads = {game, worker}
  ThreadOf <- OneThread
  Kind <- Kinds
  CallbackLayers = {"lifecycle", "events"}
  MaxDepth = 2
CHECK_DEADLOCK FALSE
INVARIANTS
  CycleIsReal
PROPERTIES
  OperationsEnd
