SPECIFICATION Spec
CONSTANTS
  core = core
  addon = addon
  extra = extra
  game = game
  worker = worker
  console = console
  deferred = deferred
  caller = caller
  other = other
  NoPlugin = NoPlugin
  Plugins = {core, addon}
  Deps <- ChainDeps
  Actors = {console}
  Threads = {game}
  ThreadOf <- OneThread
  Kind <- Kinds
  CallbackLayers = {"source2"}
  MaxDepth = 2
CHECK_DEADLOCK FALSE
INVARIANTS RunningIsFullyDispatched
