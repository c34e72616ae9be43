SPECIFICATION Spec
CONSTANTS
  core = core
  addon = addon
  extra = extra
  game = game
  worker = worker
  console = console
  deferred = deferred
  caller = caller
  other = other
  NoPlugin = NoPlugin
  Plugins = {core}
  Deps <- NoDeps
  Actors = {console}
  Threads = {game}
  ThreadOf <- OneThread
  Kind <- Kinds
  CallbackLayers = {}
  MaxDepth = 1
CHECK_DEADLOCK FALSE
INVARIANTS QuarantineIsSilent
