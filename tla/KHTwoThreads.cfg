SPECIFICATION Spec
CONSTANTS
  core = core
  addon = addon
  game = game
  worker = worker
  damage = damage
  spawn = spawn
  NoPlugin = NoPlugin
  Plugins = {addon}
  Threads = {game, worker}
  Callers = {game, worker}
  Functions = {damage, spawn}
  Detours = {damage}
  ModuleOf <- Images
  MaxTargets = 1
  MaxCallbacks = 2
  MaxCalls = 1
  MaxDepth = 2
  Refusals = TRUE
  Risks = {}
SYMMETRY Alike
CHECK_DEADLOCK FALSE
INVARIANTS
  GoneForGood
  TypeOK
  StorageInUse
  ActiveBalanced
  InstalledIffUsed
  TransitionHeld
  OriginalOnce
  DirectEntryStable
  QuietIsSilent
PROPERTIES
  ImplementsLayer
