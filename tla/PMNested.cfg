SPECIFICATION Spec
CONSTANTS
  core = core
  addon = addon
  extra = extra
  game = game
  worker = worker
  console = console
  deferred = deferred
  caller = caller
  other = other
  NoPlugin = NoPlugin
  Plugins = {core, addon}
  Deps <- ChainDeps
  Actors = {console, deferred}
  Threads = {game}
  ThreadOf <- OneThread
  Kind <- Kinds
  CallbackLayers = {"commands", "keelhook"}
  MaxDepth = 3
CHECK_DEADLOCK FALSE
INVARIANTS 
  ExclusiveOwnership
  ImageClosure
  TransitionOwned
  PausedIsSilent
  RunningIsFullyDispatched
