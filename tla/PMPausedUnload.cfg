SPECIFICATION Spec
CONSTANTS
  core = core
  addon = addon
  extra = extra
  game = game
  worker = worker
  console = console
  deferred = deferred
  caller = caller
  other = other
  NoPlugin = NoPlugin
  Plugins = {core, addon}
  Deps <- ChainDeps
  Actors = {console, caller}
  Threads = {game}
  ThreadOf <- OneThread
  Kind <- Kinds
  CallbackLayers = {"factories"}
  MaxDepth = 3
CHECK_DEADLOCK FALSE
INVARIANTS PausedIsSilent
