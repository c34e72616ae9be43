SPECIFICATION Spec
CONSTANTS
  core = core
  addon = addon
  extra = extra
  game = game
  worker = worker
  console = console
  deferred = deferred
  caller = caller
  other = other
  NoPlugin = NoPlugin
  Plugins = {core, addon}
  Deps <- ChainDeps
  Actors = {console, caller}
  Threads = {game, worker}
  ThreadOf <- TwoThreads
  Kind <- Kinds
  CallbackLayers = {"lifecycle"}
  MaxDepth = 2
CHECK_DEADLOCK FALSE
INVARIANTS 
  TypeOK
  DependencyClosure
  NoCallbackIntoClosedImage
  LeasesPinProviders
  NoLeaseAtRelease
