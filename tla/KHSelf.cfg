SPECIFICATION Spec
CONSTANTS
  core = core
  addon = addon
  game = game
  worker = worker
  damage = damage
  spawn = spawn
  NoPlugin = NoPlugin
  Plugins = {addon}
  Threads = {game, worker}
  Callers = {game}
  Functions = {damage, spawn}
  Detours = {damage}
  ModuleOf <- Images
  MaxTargets = 1
  MaxCallbacks = 2
  MaxCalls = 2
  MaxDepth = 2
  Refusals = TRUE
  Risks = {"self"}
CHECK_DEADLOCK FALSE
INVARIANTS QuietIsSilent
