# KeelS2: specification and proofs

KeelS2 hosts native plugins inside a Source 2 game server. These modules model
the parts of it where mistakes are expensive and tests are weak: the plugin
lifecycle, which releases its lock around every call into a plugin; the services
that call plugins while the lifecycle changes under them; the hooks in engine
code and the memory they run in; the handles plugins hold of engine objects; and
what the SDK keeps inside a plugin.

Paths below are relative to `src/`; a bare `x.cpp` is `host/src/x.cpp`, a bare
`x.hpp` is `sdk/include/keels2/x.hpp`.

## The system

| Part | State | Operations | Talks to |
| --- | --- | --- | --- |
| Bootstrap (`bootstrap/src/bootstrap.cpp`) | patched slots of the server's virtual table, host library | Init, Disconnect, StartHost, StopHost with a deadline | engine, host |
| Host (`host.cpp`) | `HostState`, `lifecycle_mutex_`, `state_mutex_`, dispatch entries, commands, the services | Start, Stop, ReleaseResources, DispatchCommand, Register, Unregister, QueryService | everything |
| Plugin manager (`plugin_manager.cpp`) | `PluginRecord` per plugin: state, library, `accepting_resources`, `loading`, `transitioning`, `cleanup_pending`, dependencies | LoadPlugins, Load, Retry, Pause, Resume, Unload, Reload, Refresh | every service: Deactivate and ReleasePlugin; plugins: query, load, prepare, unload |
| Published services (`published_service_registry.cpp`) | publications and their consumers (leases) | Publish, Withdraw, Query, Release, ReleasePlugin | plugin manager |
| Core console commands (`core_command.cpp`) | deferred queue | `keel plugins ...`, DispatchDeferredPluginCommands | plugin manager |
| Lifecycle events (`lifecycle_service.cpp`), Source 2 callbacks, plugin events | subscriptions, each with atomics `enabled` and `active`; a thread's callback stack | Subscribe, Unsubscribe, Activate, Deactivate, ReleasePlugin, Shutdown, Dispatch | engine events in, plugin callbacks out |
| Factory subscriptions (`factory_service.cpp`) | chain of factory callbacks, `queries_`, `pinned_` | Subscribe, Query, Deactivate, ReleasePlugin | bootstrap |
| KeelHook (`keelhook_service.cpp`) | targets, callbacks, physical hooks, leases, direct calls | Resolve, AddCallback, Enable, Invoke, Release, collection | hooking library |
| Virtual table hooks (`hooking/src/vtable.cpp`) | class and object tables, shadow tables | Create, Enable, Disable, rollback, collect | engine, other modules |
| ConVars (`convar_service.cpp`) | records and definitions, counted by service and adapter | Create, Find, Observe, Set, Release | CS2 adapter |
| Schema, entities (`schema_entity_service.cpp`) | entity handles with an epoch | capture, calls on a handle | CS2 adapter |
| Construction, inputs, outputs | records of created entities, output subscriptions and invocations | create, change, spawn, cancel; subscribe, pre, post | CS2 adapter |
| Players (`player_registry.cpp`, `player_service.cpp`) | one entry per slot with a generation | Connected, Disconnected, Missing, Get | CS2 adapter |
| Runtime service (`source2_runtime_service.cpp`) | calls counted per plugin | engine calls | engine |
| CS2 adapter (`games/cs2/src`) | engine hooks, event listener, commands, entity epoch | start, stop, forward | engine |
| SDK (`keels2.hpp`, `plugin.hpp`, `keelhook.hpp`) | bindings, handles and references of a plugin | Load, Unload, create and remove | all services |
| Platform, tools, tests | | | |

What is hard: `Host::state_mutex_` is dropped for every callback and every
Deactivate and ReleasePlugin; callbacks run on any thread and may start new
operations from inside; services dispatch snapshots without a lock; a refusal
in the middle of a transition has to undo what was done; the engine holds raw
pointers to records and re-enters the host inside almost every call; maps,
slots, user IDs and addresses are used again. There is no persistence and no
network, so crash recovery and message loss do not arise. What can be lost is a
report of the engine, before the hook that reports it is installed.

The properties each part owes:

- plugin manager: dependencies run as long as their dependents; nobody works on
  one plugin twice at a time; no callback into a closed image; refused
  operations leave a plugin fully running or fully silent; operations end;
- published services: a leased provider runs, a consumer's leases end with it;
- every dispatch layer: after Deactivate answered OK nothing is called until the
  next activation; what was unsubscribed is not called;
- host: Stop can be refused and retried, and releases in an order in which no
  service is called after it is gone;
- hooks: a closure or trampoline is freed only when nobody runs it and nothing
  calls it; what another module installed is kept;
- records the engine holds: freed only when the engine no longer has them;
- handles: they reach the object they were made for or are refused;
- SDK: a binding lives as long as the host may call it.

## Modules

| Module | Models | Source |
| --- | --- | --- |
| `PluginManager`, `PluginManagerProofs`, `PluginManagerCallbackProofs` | plugin manager and published services | `plugin_manager.cpp`, `published_service_registry.cpp` |
| `DispatchLayer` | the contract of a layer that calls plugins (its proof is in `ServiceProofs`) | |
| `LifecycleService`, `LifecycleServiceProofs` | lifecycle events | `lifecycle_service.cpp` |
| `KeelHook`, `KeelHookProofs`, `KeelHookTransitionProofs`, `KeelHookSilentProofs` | function hooks | `keelhook_service.cpp` |
| `FactoryService`, `ServiceProofs` | factory subscriptions | `factory_service.cpp` |
| `HostLifecycle`, `HostLifecycleProofs` | bootstrap, host start and stop, commands | `bootstrap.cpp`, `host.cpp` |
| `ConVars` | console variables | `convar_service.cpp`, `cs2_adapter.cpp` |
| `EventServices` | Source 2 callbacks and plugin events | `source2_callbacks_service.cpp`, `plugin_service.cpp` |
| `Constructions` | entities plugins create | `entity_construction_service.cpp`, `owned_construction.cpp` |
| `Entities` | entity handles over changes of the map (proofs in `ServiceProofs`) | `schema_entity_service.cpp`, `cs2_adapter.cpp`, `native_bridge.cpp` |
| `Outputs` | entity outputs | `entity_outputs_service.cpp`, `native_outputs.cpp` |
| `Players` | connections and players (proofs in `ServiceProofs`) | `player_registry.cpp`, `player_service.cpp` |
| `GameAdapter` | the adapter's library, and its hooks in the engine | `game_adapter_loader.cpp`, `cs2_adapter.cpp` |
| `Authoring` | what the SDK keeps for a plugin | `keels2.hpp`, `plugin.hpp` |
| `HookHandles` | the SDK's handles of hooked functions | `keelhook.hpp` |
| `HookValues` | objects that hooked functions take and return by value | `keelhook_service.cpp`, `keelhook.hpp` |
| `Vtables` | hooks of virtual functions | `vtable.cpp`, `keelhook_service.cpp` |
| `NativeCalls` | service lookup and calls into the engine | `host.cpp`, `source2_runtime_service.cpp` |
| `MC*` + `.cfg` | the instances TLC checks | |

How they fit: `PluginManager` decides when a plugin may be called and asks its
layers to stop; `DispatchLayer` is what it relies on; `LifecycleService`,
`KeelHook` and `FactoryService` are shown to implement it (`ImplementsLayer`).
The other services have the same duty with other data and state it directly
(`QuietIsSilent`). Each of these modules keeps a small `host`
variable, which stands for what the plugin manager does with a plugin; the
actions on it are those `PluginManager` allows: one operation at a time on a
plugin, Deactivate before ReleasePlugin, a release only after OK.

### PluginManager

An operation occupies a slot (`Actors`), which runs on a thread and has a kind:
console commands, commands deferred to a game frame, or `PluginService` calls
from plugin code. `op[a]` is its program counter and locals. One action is one
segment between two lock releases, whatever that segment does: for instance
`BeginUnload` is everything `UnloadPluginCommand` checks and sets before
`factories_->Deactivate`. Segments that go on without releasing the lock end at
one of `HeldPoints`, during which `LockFree` keeps the others out.

`plugin[p]` is the record. `live` is the set of layers in which the plugin's
registrations are enabled; `EnterCallback` begins a callback in one of them, on
any thread whose innermost frame may call out. `stack` holds the callbacks and
operations of a thread, so operations nest in callbacks of other operations and
the BUSY answers of the services (`OwnCallback`, `MayBeBusy`) are decided by
what the calling thread is really in. `Drained` is `WaitForZero`: it counts
every thread.

A plugin is known by its file; file names and friendly names are one-to-one.
`Querying` is the window in which the record exists but its dependencies are
unknown. A prepare callback may answer either way, so may a query and a load;
releases in `EngineLayers` may fail. A load callback runs with
`accepting_resources` and without enabled registrations, as in the code.

Left out: renames and duplicate names, factory replacements pinned for the
lifetime of the process, the wait of a nested console command for
`lifecycle_mutex_` (see the hazards), and loops over the modelled operations
(`unload_all`, the reloads of `refresh`). The LOADED and PAUSED events of one
transition are one `publish` point.

### DispatchLayer and LifecycleService

`DispatchLayer` has three variables: the plugins a callback may begin for, the
plugin each depth of each thread is inside, and the plugins whose Deactivate
answered OK. `LifecycleService` models the code that keeps the promise:
`enabled` and `active` per subscription, the snapshot a dispatch takes, the
loops that run under `registry_mutex_` (one step per store, because dispatches
read `enabled` without the lock), the waits, BUSY for the caller's own
callbacks, the recursion limit and Shutdown. Atomics are sequentially
consistent: the code uses acquire and release only, but every store of
`enabled` is followed by a mutex operation and every increment of `active` is a
locked instruction on x86-64, the only target. `phase` is what the plugin
manager does with a plugin, one operation at a time (`OwnershipHolds` below).
All subscriptions are to one event.

`ImplementsLayer` is the refinement: `open` are the owners of enabled
subscriptions, `inside` the owners of running ones, `stopped` the plugins that
are quiet or gone, or all after Shutdown.

`Overlaps` says whether a plugin may be activated while an Unsubscribe of its
has not returned. The passing runs assume it is not; `ls_overlap` shows what
happens if it is.

### KeelHook

Targets, callbacks, leases and direct calls are records under `registry_mutex_`;
whether a hook is installed and whether its closure and trampoline exist is
separate state under the target's `physical_mutex`. A dispatch takes a snapshot,
raises counts, runs pre and post callbacks, original, recalls and superseding
answers as in `Dispatch`; a direct call reads its entry under the mutex and runs
it after. Installing and restoring may be refused (`Refusals`). `Risks` names
three things the model can leave out or let happen: a callback that removes
itself ("self", shown wrong by `kh_self`), an activation that overlaps a
RemoveCallback ("overlap"), and a kept hook that cannot be reinstalled
("reinstall"). The passing runs have none of them; most of the proofs allow some
or all (see Proofs). A caller (`Callers`) is a thread that runs hooked functions;
`MaxDepth` bounds its frames with recalled dispatches, `MaxCalls` those without,
and any other thread makes one call at a time.

`ImplementsLayer` is the refinement: `open` are the owners of enabled callbacks
that are registered or in the snapshot of a dispatch (`Opened`), `inside` the owner
of the callback that runs at each depth (`InsideOf`), `stopped` the plugins whose
Deactivate or ReleasePlugin answered OK (`quiet`).

Two places are described here and not checked: the failure path of
`EnablePhysical` (`keelhook_service.cpp:2739`) frees closure and trampoline
without looking whether a rollback really took the hook out, and a refused
removal gives `enabled` the value it had when the removal began (line 1768),
which a call in between may have changed.

### The components of MCServices

`MCServices` joins fourteen smaller modules into one instance. `part` is chosen
at the start and never changes; only the variables of that component move, so a
run explores every component on its own and the states add up instead of
multiplying. Some components are there twice, as two instances with different
bounds: calls nested in callbacks of one thread, and two threads without nesting.
`KeelHook` is there too, with one callback on one caller and dispatches and calls
nested in its dispatches, which `kh_two_threads` leaves out. Components take turns with the same variables (`s1` to `s11`);
`FactoryService` has its own, since its refinement is a temporal property. A
property of the run is a conjunction over components, each conjunct under its
`part`.

- `FactoryService`: subscriptions with their snapshots, `queries_`, pins, and
  replacements handed out to the engine.
- `HostLifecycle`: the patched slots of the server's table, Init and Disconnect,
  the host's states, `lifecycle_mutex_` as a variable (a thread may reach it
  twice through the engine), `dispatch_open_` and the entry count, a core command
  and a plugin's command with its `active` count, and the layers
  `ReleaseResources` shuts down one after the other and again after a refusal. A
  dispatch is counted under `state_mutex_` (`Dispatch`) and reads the callback
  without it (`Called`); "torn" is one that finds it cleared.
- `ConVars`: a record is counted by the service (`active`) and by the adapter
  (`provider_active`); the engine's change callback reaches it as a raw pointer.
  ObserveEntry and QueueSet hold `state_mutex_` over several steps (`StateFree`),
  a release takes it only for its first look, so releases on another thread go on
  between these steps. `late` is history: the observer was registered in an entry
  that a release had already taken out.
- `EventServices`: one module for two services of one structure; the variable
  `service` says which differences apply.
- `Constructions`: the service's handle and the adapter's record of an entity,
  with create, change, visit, spawn, cancel, and release inside any of them.
- `Entities`: engine loops and their entity systems, whose addresses and serial
  numbers are used again, the loop-mode hooks that advance the epoch, and calls
  on handles that run engine and plugin code. Not covered, and excluded in the
  properties: a level that is not hooked, and a handle made between the levels.
- `Outputs`: subscriptions, the invocation with pre and post callbacks, the hook
  that follows the engine's function, its start and stop.
- `Players`: arrival and departure are told by two hooks that are installed
  separately. The history variable `missed` marks slots whose event came before
  the hook; for these the registry is wrong: a missed departure leaves a phantom
  entry that is pending, and a tombstone with a missed arrival makes a player
  invisible until he reconnects. The properties are about the other slots.
- `GameAdapter`: Load and Reset of the library with optional interfaces; start
  and stop of Source 2 hooks, lifecycle hooks, event listener and commands.
- `Authoring`: the adapter object behind KeelPlugin_Load and KeelPlugin_Unload,
  the lists of bindings with their mutexes, and the host that calls bindings by
  address.
- `HookHandles`: references of `Target`, `Callback` and `Hook` to shared target
  states, and the host's lease behind them.
- `HookValues`: the storage of an argument and of the result, and their copies
  from before a callback, through the loop of `Dispatch`: a callback writes,
  calls the original or recalls, answers, leaves values malformed; what it may
  not change is put back. An object is known by its writer. Copies and default
  objects may fail (`MaxFailures`). `argBy`, `resBy` and `left` are history: the
  callbacks whose answer let their changes stand, and what SUPERSEDE left.
- `Vtables`: slots of a class and of one object, hooks of both, another module
  that writes and restores the same places, and the rollback of a failed write.
  `lost` are hooks whose rollback was refused since another module had written in
  between.
- `NativeCalls`: what QueryService creates on demand, in which order Stop shuts
  it down, calls into the engine with and without `state_mutex_`, and the count
  that refuses an unload or a stop inside such a call.

## Runs

| Run | Shows | Bounds |
| --- | --- | --- |
| `pm_two_threads` | TypeOK, DependencyClosure, NoCallbackIntoClosedImage, LeasesPinProviders, NoLeaseAtRelease | console slot on the game thread, API slot on a worker; two plugins, one depends on the other; lifecycle callbacks; 2 frames per thread |
| `pm_nested` | ExclusiveOwnership, ImageClosure, TransitionOwned, PausedIsSilent, RunningIsFullyDispatched | console and deferred slots nested on one thread, command and hook callbacks, reload with candidate and rollback, 3 frames |
| `pm_live` | CycleIsReal, OperationsEnd | three plugins, two of them in a cycle, one operation at a time, 2 frames, with fairness |
| `ls_two_threads` | TypeOK, ActiveBalanced, QuietIsSilent, ErasedIsSilent, ShutdownIsFinal, ImplementsLayer | two plugins, two subscriptions, two threads, three deep, recursion limit 1 |
| `ls_live` | CallsReturn | two plugins, one dispatching thread, three deep, with fairness |
| `kh_two_threads` | TypeOK, StorageInUse, ActiveBalanced, InstalledIffUsed, TransitionHeld, OriginalOnce, DirectEntryStable, QuietIsSilent, GoneForGood, ImplementsLayer | one plugin, two functions (one of its own image), one target, two callbacks, two threads that both call hooked functions, no call inside another but recalls, refusals of the hooking library; up to permutations of the threads |
| `services` | TypeOK, NoSelfWait, RecordsInUse, QuietIsSilent, HostImageInUse, HostClosedWhileReleasing, OneOwner, ConstructionsEnd, ReachesItsEntity, EventsPair, FactoryImplementsLayer | see the next table |
| `pm_paused_unload`, `pm_source2_busy`, `pm_quarantine`, `ls_overlap`, `kh_self` | violations, see below | one or two plugins, one layer |

| Component of `services` | Bounds |
| --- | --- |
| `FactoryService` | two owners' subscriptions, one name, two threads, two deep, one native query at a time |
| `HostLifecycle` | two layers to release; one thread four deep, or two threads two deep |
| `ConVars` | two plugins and one thread two deep, or one plugin and two threads; two records of one variable |
| `EventServices` | two plugins and one thread, or one plugin and two threads; two subscriptions, two deep, recursion limit 1 |
| `Constructions` | two plugins, two records, two deep |
| `Entities` | one handle, one address; two maps with every hook placed, or one map with hooks that fail; one plugin call deep |
| `Outputs` | two subscriptions in one epoch, one invocation the hook follows, two deep; or one subscription over two epochs, two invocations, three deep (an output inside a callback of another), with the depth limit at one |
| `Players` | one slot, two user IDs, two clients, two pawns |
| `GameAdapter` | two optional interfaces, five Source 2 hooks, two lifecycle events, two event names, two managers, two commands |
| `Authoring` | two bindings of one name; one thread two deep, or two threads |
| `HookHandles` | two callbacks, one handle destroyed against BUSY, two deep; two handles on one thread, or one handle and two threads |
| `KeelHook` | one plugin, one function of its image, one target, one callback, one caller and another thread, two deep |
| `Vtables` | two slots, or one slot that another module writes too |
| `NativeCalls` | five kinds of service, one worker, three deep |
| `HookValues` | two callbacks without a recall, or one callback, a recall and two failures; both phases |

Why the bounds are enough: every conflict in the plugin manager is between two
operations, or an operation and a callback, on a plugin and one it depends on,
so two slots, two plugins and the two placements of the slots (two threads, or
nested on one) reach each pair of segments. Layers are alike up to their order
and their BUSY rule, so one or two of them are explored at a time
(`CallbackLayers`). In the services the conflicts are between a dispatch and one
call, with a second call nested in a callback; two subscriptions distinguish the
one whose callback runs from another, and the depth allows a dispatch, a call
from its callback and what that call runs into. Identities that are used again
(maps, slots, records) need two generations, which every bound leaves room for.
Plugins are alike, and so are the threads that ask factories: `services` is checked
up to their permutations. Larger instances were checked once by hand: most of the
components with both of their bounds at once, `Vtables` with another module at both
slots (4.0 million states), `NativeCalls` five deep, and `KeelHook` with two
threads and calls inside calls.

Deadlock is not checked: the bounded instances stop when subscriptions, slots
or frames are used up.

### Fairness

`PluginManager!Fairness` assumes that callbacks return and that an operation
whose next segment is possible infinitely often takes it (mutexes and atomic
waits are acquired eventually). Each depth of a thread has its own condition,
since an outer callback returns only between inner ones. Nothing is assumed
about commands being given, callbacks being entered, or plugins answering
prepare callbacks in any way. `LifecycleService!Fairness` is the same
assumption. `CallsReturn` needs events on one thread; `OperationsEnd` needs no
second thread whose callback itself transitions plugins: two callbacks on two
threads that stop each other's plugin wait for ever, and nothing in the code
prevents it. The other modules state no liveness; where a thread could wait for
itself, `NoSelfWait` says as an invariant that it does not, with the one exception
of a release inside QueueSet (below).

### What the violations show

- `pm_paused_unload`: `UnloadPluginCommand` restores dispatch when the factory
  service is busy, also of a paused plugin, which then receives events while
  paused.
- `pm_source2_busy`: when the Source 2 layer is busy, the same function restores
  only some layers; the plugin's factory callbacks stay disabled.
- `pm_quarantine`: a quarantined plugin can be resumed.
- `ls_overlap`: an Unsubscribe that overlaps an activation erases a subscription
  whose callback is running; Deactivate no longer sees that callback.
- `kh_self`: a callback that removes itself is erased while it runs, and a
  Deactivate on another thread answers OK without waiting for it.

### Where the properties make an exception

Reading the code for the models turned up cases the passing properties leave
out on purpose. They are not runs of their own.

- `RemoveConVar` (`keels2.hpp:1931`) and an adoption that failed (2892, 2960)
  free the binding when the host answers NOT_READY, while the host keeps the
  variable with its address. `Authoring` counts these as lost bindings.
- StopListeningForGameEvent in the event's own callback: the host answers BUSY
  with the subscription switched off (`source2_callbacks_service.cpp:357`) while
  the binding is active again: the plugin believes that it still listens.
- StopListeningForGameEvent and ResetResources hold `game_events_mutex_` while
  the host waits for callbacks on other threads; one that calls
  ListenForGameEvent never returns. `WaitsUnlocked` leaves this call out.
- QueueSet raises `active` of its record and leaves `callback_stack_` alone
  (`convar_service.cpp:1186`). On the game thread the engine calls back from inside:
  a callback of another variable, or a command, that releases the record waits at
  line 1353 for the count its own thread holds; a Deactivate or a Shutdown does so at
  lines 504 and 578. `NoSelfWait` counts the record of a QueueSet among those its
  thread holds (`Held`) and leaves only the waits for it out; the model reaches them.
- ObserveEntry looks at `release_state` (line 222), and the adapter finds the entry
  and registers the observer under another mutex (`cs2_adapter.cpp:1657`, 1672). A
  release on another thread may take the entry out in between and wait, while nobody
  is counted yet: the observer then stays registered with the address of an erased
  record. `ConVars` marks the record as `late`, and `RecordInUse` leaves it out.
- UnregisterCommand on another thread clears the callback and the user data
  (`host.cpp:1961`) between the unlock of a dispatch that counted itself
  (line 1662) and its read of them: the dispatch calls null, or the callback without
  its user data. `HostLifecycle` reaches this ("torn"); its RecordsInUse says that the
  record is there, not that the callback is.
- A plugin-service callback that unsubscribes itself is erased while it runs
  (`plugin_service.cpp:533`), as in `kh_self`, so that a Deactivate does not wait for it.
  QuietIsSilent of `EventServices` leaves it out.
- ResetResources resets neither `players_service_` nor `native_runtime_`.
- `~Callback` after BUSY frees its binding while the host goes on calling it, and
  `~Target` after BUSY leaves its reference, so that the lease stays until the
  plugin is unloaded; a callback reset in its own call frees its binding while
  another thread may be in it (`keelhook.hpp:1955`, 2027). `HookHandles` counts
  them as `drops`.
- An object's table made while a shared hook of another slot is installed copies
  that hook's closure (`vtable.cpp:355`; `VirtualScopeConflictLocked` looks only
  at the same slot): the object calls it after it is freed, and does not see
  shared hooks made later.
- Objects whose default constructor fails (`hopeless` in `HookValues`). CallOriginal
  and Recall overwrite an object the callback has made in the empty result and
  the host has not adopted; Recall adopts a result that could not be constructed
  (`keelhook_service.cpp:4319`); and after an explicit call the callback's object
  is kept, but the result still says there is none (line 3384), so that the next
  write constructs over it.
- Another module writes a slot between the write of a hook and its rollback: the
  rollback is refused, Enable reports a failure, and the closure is freed while
  the other module still chains to it (`lost` in `Vtables`).
- A VisitEntities callback that pauses another plugin: `PausePlugin` unlocks
  `state_mutex_` once, VisitEntities holds it a second time
  (`schema_entity_service.cpp:382`), and the wait for that plugin's callbacks on
  other threads may never end.
- `PlayerAction` (`native_bridge.cpp:1240`) validates the handle again after
  Teleport ran game code, without the epoch, and goes on with the instance it
  had.

## Proofs

All checked by TLAPS for arbitrary plugins, dependencies, slots, threads and
bounds, under the assumptions named with each module; the plugin manager's are
`ConstantsAssumption` (manifests name other plugins; slots and callback frames are
distinct) and `LayerAssumption`.

`PluginManagerProofs`:

- `Invariance`: `Spec => [](TypeOK /\ IInv)`;
- `TypeCorrect`, `ClosureHolds`, `OwnershipHolds`, `LeasesHold`, `NoLateLease`:
  TypeOK, DependencyClosure, ExclusiveOwnership, LeasesPinProviders and
  NoLeaseAtRelease are invariants.

None of these is inductive alone. DependencyClosure needs that a plugin being
stopped has no running dependent (`DepartInv`), which survives other
operations' steps only because a plugin being stopped is marked transitioning
and DependenciesReady refuses it; that mark is trustworthy only if whoever
stops the plugin holds it alone (`HoldInv`), with the record in the state its
program counter implies (`Consistent`). NoLeaseAtRelease needs the same for
leases, and LeasesPinProviders that a consumer whose image closes has released
its leases (`ReleasedInv`). `IInv` is the conjunction.

The proof has two layers. `LocalStepInv` shows once that a step which changes
one slot and one record, under conditions listed in `LocalStep`, preserves
`IInv`; `QuietStepInv` does it for steps that change no record. Each action is
then shown to be such a step; `RejectCycle` and `Query`, which are not, are
proved directly. `Free` shows that a closed or settled plugin is held by
nobody, which is what the checks at the start of an operation establish.

`PluginManagerCallbackProofs`:

- `CallbackInvariance`: `Spec => []CallbackInv`;
- `CallbacksHold`, `MarksHold`: NoCallbackIntoClosedImage and TransitionOwned are
  invariants.

That no thread is in a callback of a closed image says nothing of how it came
about. `QuietInv` follows the layers: a layer is quiet when it is disabled and no
thread is inside. A plugin has no callback before it is loaded, an unload begins
with commands quiet (HasRunningDependent asks for it and `Closing` disables them)
and makes each layer of `ReleaseOrder` quiet in turn; the proof shows that commands
and these eight steps leave out no layer. What Deactivate did is not part of the
argument: a paused plugin's unload deactivates factories only. `MarkInv` says that
the mark of a plugin belongs to an operation on its way to stop it or about to
publish its pause or resume. Both need `HoldInv`: nobody else touches what an
operation counts on. `MuteStep` states what a step must respect, for any set of
records it writes, so `RejectCycle` is an ordinary case; `NoneEnters` (operations
push and pop frames of their own) is shown once for all operations. `CallbackInv`
holds in the instances of `pm_two_threads` and `pm_nested` too.

The same module proves what `pm_nested` and `pm_live` check of the plugin manager.
These properties do not hold for every instance, so each comes in two parts: an
invariant or an action property without assumption that says who can break the
property, and the property under the assumption that there is no such step.

| Theorems | Assumption | Inductive invariant |
| --- | --- | --- |
| `ProgressInvariance`, `PausedIsWokenOnlySo` (`OnlyBusyUnloadWakes`), `RunningIsMutedOnlySo` (`OnlySource2BusyMutes`) | none | `ProgressInv` |
| `PausedHolds` (PausedIsSilent) | no operation in a factory callback, one thread | the above |
| `RunningHolds` (RunningIsFullyDispatched) | no operation in a Source 2 callback | the above |
| `ImageInvariance`, `ImagesHold` (ImageClosure) | `OneCommandThread` | `ImageInv` |
| `CycleInvariance`, `CycleIsMisjudgedOnlySo` (`OnlyOvertakenMisjudges`) | none | `CycleInv` |
| `CyclesAreReal` (CycleIsReal) | `OneCommandKind` | `CycleInv` |

- Pause and unload disable layers one after the other, each with its own wait, and
  restore them when one refuses. `ProgressInv` says what an operation has disabled at
  each step and what it knows of `was_running`. By the action properties the
  exceptions of `pm_paused_unload` and `pm_source2_busy` are the only ones: nothing
  else wakes a paused plugin or takes layers from a running one that no transition
  works on. `PausedHolds` and `RunningHolds` exclude just these two.
- ImageClosure needs `OneCommandThread`: `StartDiscovered` looks only at the state of a
  dependency, not at its mark, so a load on another thread could start a plugin whose
  dependency is being unloaded. In the code console commands and deferred ones run on
  the game thread, and plugins can only pause and resume. On one thread the load runs
  inside a call of the unload, and the unload's `HasRunningDependent` looks again when
  that call has returned; `ClosingInv` says that such a load then fails, and
  `NestInv` that an operation is above another on the stack exactly while it runs in it.
- "dependency cycle detected" is wrong in one case only: a batch gives up waiting for
  a dependency that an operation outside the batch is loading (`Overtaken`). The code
  allows this case: a console load and a deferred refresh, one inside the other.
  `CyclesAreReal` is the property for the commands of one kind, which exclude one
  another (`lifecycle_mutex_` and the flag of the deferred queue). `CycleInv` says that
  a loading plugin is in somebody's hands and that a batch keeps what it discovered
  until it has started or rejected it.

`LifecycleServiceProofs`, under `ServiceAssumption` (finitely many threads; the
bounds are any naturals) and `~Overlaps`, the assumption `ls_overlap` shows to be
necessary:

- `ServiceInvariance`: `Spec => [](TypeOK /\ IInv)`; `ServiceTypeCorrect`: TypeOK is
  an invariant;
- `ActiveIsBalanced`, `QuietStaysSilent`, `ErasedStaysSilent`,
  `ShutdownStaysFinal`: ActiveBalanced, QuietIsSilent, ErasedIsSilent and
  ShutdownIsFinal are invariants;
- `ImplementsTheLayer`: `Spec => ImplementsLayer`. With `StoppedStaysSilent` the
  plugin manager may rely on a Deactivate that answered OK, whatever the other
  threads dispatch, subscribe or unsubscribe.

A plugin becomes quiet when its subscriptions were disabled one after the other
and then waited for one after the other, while other threads go on. The
invariant says what holds in between:

- `StackOK`, `HandlesOK`: a thread's frames below the innermost one are
  callbacks, and only handles that were given out are used anywhere;
- `CallsOK`: what each call has achieved. What its disabling loop has passed is
  disabled; of what it waits for, everything is disabled, and what has been
  waited for runs nowhere. A dispatch that holds an old snapshot cannot undo
  this, since it reads `enabled` after it has raised `active` (`Calm` in the
  proofs: nothing is entered that was not enabled);
- `ActiveBalanced`: that `active` is zero means that nobody is inside;
- `OneAtATime`: an activation and a deactivation of one plugin exclude each
  other, and loops under `registry_mutex_` exclude each other;
- `NoOverlap`: an activation does not enable what an Unsubscribe waits for. This
  is the part that fails with `Overlaps`;
- `ShutdownOK`: after `shutting_down_` is set nothing is enabled but what
  Shutdown's loop has still to disable.

Each action is shown to preserve `IInv`; most are calm steps of one frame, for
which `SetTopStep`, `PushStep` and `PopStep` do the common part. `Enable`,
`Subscribe` and `DeactivateBusy` are not calm and are proved directly. For the
refinement, every action is a step of the layer or leaves it unchanged; the
steps that stop a plugin need QuietIsSilent or ShutdownIsFinal of the state they
lead to (`StoppedSilent`), and `Enable` and `Subscribe` need that the plugin is
running.

`KeelHookProofs`, `KeelHookTransitionProofs` and `KeelHookSilentProofs`, each of which
extends the one before, prove everything `kh_two_threads` checks, under `HookAssumption`
(finitely many threads; `NoPlugin` is not a plugin; a function is of one plugin's image
or of none; the bounds are any naturals, at least one call deep) and what follows of
`Risks`:

| Theorems | Assumption | Inductive invariant |
| --- | --- | --- |
| `HookCountInvariant`, `HookTypeCorrect` (TypeOK), `HookActiveBalanced` (ActiveBalanced), `HookOriginalOnce` (OriginalOnce) | none | `CountInv` |
| `HookTransitionInvariant`, `HookTransitionHeld` (TransitionHeld), `HookInstalledIffUsed` (InstalledIffUsed) | none | `HookInv` = `CountInv`, `TransitionInv`, `InstalledOK` |
| `HookStorageInvariant`, `HookStorageInUse` (StorageInUse), `HookDirectEntryStable` (DirectEntryStable), `HookGoneForGood` (GoneForGood) | kept hooks can be installed again | `StorageInv` = `HookInv`, `StorageOK` |
| `HookSilentInvariant`, `HookQuietIsSilent` (QuietIsSilent), `HookImplementsLayer` (`Spec => ImplementsLayer`) | no risks | `SilentInv` = `StorageInv`, `SilentOK` |

The four invariants are at the end of `KeelHook`, and each needs those before it:

- `CountInv`: which call a thread is in at each depth and what its frame may name
  there. `active` and `direct` of a target, and `active` of a callback, are the
  numbers of frames that are inside; so zero means that nobody is, which is what
  `WaitForZero` goes by. A step changes one frame (two for a recall), and
  `CountedSetTop`, `CountedPush` and `CountedPop` do the common part.
- `TransitionInv`: between the locks a call relies on `transition` alone. A target
  in transition has exactly one call that changes it (`OneChange`, `Marked`,
  `Ended`), and what that call named stays registered (`ReliesOn`). `InstalledOK`
  says at each point of such a call whether the hook is there, the refused
  restorations of a release included: only then does it follow that a hook is
  installed exactly while its target has callbacks.
- `StorageOK`: a thread inside a dispatch, or in a direct call through the hook, has
  the closure to run. Storage is freed only with `active` zero and made only with
  `direct` zero, and no direct call begins while the target is in transition
  (`StorageSafe`). If a kept hook may fail to be installed again, its storage goes
  while a direct call has read the entry, and the argument ends there.
- `SilentOK`: what each wait has achieved. What is waited for is disabled, and what
  has been waited for runs nowhere (`SilentFor`); a dispatch may have it in its
  snapshot still, but `Check` reads `enabled` after `active` was raised. Erased
  callbacks run nowhere (`ErasedIsSilent`) and quiet plugins have nothing enabled
  (`QuietIsOff`). `CallsApart` is the part that needs the assumption: a
  RemoveCallback of the callback that is running, or one next to an activation,
  would break it. `kh_self` shows that "self" is needed; no run shows it of
  "overlap" and "reinstall".

A step is shown to preserve `SilentInv` by what it does to others: `Promises` lists it
(a callback stays or its plugin opens, what is erased is `Gone`, who becomes quiet
`Quiets`), `SilentStep` is the one place where it meets the calls in progress, and
dispatches, which change no record of a callback but its count, are `Turns`.

For the refinement, `OpenedIs` removes the dispatches from the mapping: no snapshot
holds a callback that was erased while enabled, so whom KeelHook may call is read
from the registered callbacks alone. Then every action is one of five things
(`Admitted`, or a dispatch): it disables and erases, it adds or enables callbacks of a
plugin that is not quiet, it restarts a plugin, it answers OK, or it moves one frame
into or out of a callback. The last but one needs QuietIsSilent of the state it leads
to; a dispatch that enters a callback needs that what it checked in its snapshot is
still registered, which is `RunningLive` of the next state.

`ServiceProofs` has three parts. `FactoryService`, under `FactoryConstants` (finitely
many threads, at least one interface; `NoPlugin` is not a plugin; the bounds are any
naturals):

- `FactoryInvariance`: `Spec => [](TypeOK /\ FactoryInv)`;
- `PinnedIsKept`, `NobodyWaitsInCircles`, `QuietStaysSilent`: PinnedStays,
  NoCircularWait and QuietIsSilent are invariants;
- `ImplementsTheLayer`: `Spec => ImplementsLayer`. With it, every module that claims
  the contract of a dispatch layer is proved to keep it;
- `StoppedStaysSilent`, of `DispatchLayer` alone: the contract's promise, that who is
  stopped is not called.

`FactoryInv` sees the stacks of all threads as a grid of cells (`Cell`), since the waits
are on other threads' calls:

- `CallsInv`: what a call may name at its point, and that only the innermost call of a
  thread is not engine or plugin code; so a thread that runs code is in queries and
  dispatches only, and whoever waits does so at the top;
- `CountsInv`: `queries_` is the number of queries in the grid and `active` of a
  subscription the number of dispatches that name it. This makes the zero that
  Deactivate, Unsubscribe and ReleasePlugin read mean what they take it to mean;
- `HandsInv`: a plugin is in one activation or deactivation at a time, and none of its
  subscriptions is being given up meanwhile;
- `WaitsInv`: a callback that runs is still before every Deactivate of its plugin and
  before Shutdown, however long they have waited for others. This is what `Check` is
  for: it reads `enabled` after `active` was raised, and what is waited for is disabled
  (`CheckNothing`, the mutant of `services`, breaks it). The last conjunct says that a
  thread in a callback waits for no subscription that was asked when it began, from
  which NoCircularWait follows;
- `SilenceInv`: the same after the answer. PinnedStays needs the second look at the pins,
  since an answer given while Deactivate waits may pin the plugin.

Each action changes at most one cell (`Changes`). `Regular` says what a step may do
with that cell, the subscriptions, the counts, the host and the quiet plugins;
`RegularStep` shows once that such a step preserves `FactoryInv`, and each action has a
lemma that it is such a step. The same lemmas say what the action is to the layer
(`OnLayer`): it shuts plugins out, opens to one that is not quiet, answers OK, starts
one again, or enters or leaves one callback.

`HostLifecycleProofs`, under `HostConstants` (finitely many threads, of which `Game` is
one and `NoThread` is not; any number of layers; calls at least two deep, as a call of
the bootstrap into the host is):

- `HostInvariance`: `Spec => [](TypeOK /\ HostInv)`;
- `ImageHolds`, `RecordsHold`, `StopWaitsForOthers`, `StaysClosed`: ImageInUse,
  RecordsInUse, NoSelfWait and ClosedWhileReleasing are invariants.

Start, Stop and the dispatches let go of `lifecycle_mutex_` while they wait, while
plugins load and unload, and while the bootstrap looks at the answer; and plugin and
engine code may call back into them at each of these points. `HostInv` sees the stacks
as a grid of cells too:

- `CallsInv`, `StackInv`: what each call in progress says of the bootstrap's and the
  host's state and of its command's record, and which call may be on top of which;
- `LockInv`, `CountsInv`: `lifecycle_mutex_` has one holder; `g_dispatch_entries` is the
  number of dispatches, and `active` of a record the number of those that were counted
  (`Inside`), whether they have read the callback yet, are in it or found it cleared.
  With it the zero Stop waits for means that no dispatch is past its first look;
- `ClosedInv`: who stops has closed the host; from the end of the drain to the next
  start no dispatch gets further than that look, and a release runs beside no operation
  of a plugin;
- `NestInv`: NoSelfWait is not inductive, since the engine may call Disconnect wherever
  it runs, inside a plugin's command too. `NestInv` says that there it does so only
  through a native call of the plugin, and Stop refuses while there is one
  (`active_native_operations`).

A step changes at most two neighbouring cells of one thread, a call that begins or
returns and the one it was made from; there is a lemma for each such change of the grid
and its counts, and then one for each action.

The other parts of `ServiceProofs` are about the two kinds of handles plugins hold of the
game, with `Players` as instance `P` and `Entities` as instance `E`. `Players`, under
`PlayerConstants` (user IDs and the bounds are naturals; any slots):

- `PlayerInvariance`: `Spec => [](TypeOK /\ PlayerInv)`;
- `ConnectionsAreOfOneClient`, `ConnectionsStand`, `ClientsAreFound`,
  `ContextsAreOfOnePawn`: OfItsClient, Stable, Accurate and OnePawn are invariants.

The registry never sees a client, only what the engine says of a slot, which lags behind
and is asked for whenever a plugin happens to ask. `PlayerInv` relates the two:

- `ClientsOK`: the order in which the engine says things of a client. An announced
  client's user ID comes late, but once it is there it stays;
- `OfOneClient`: the generation of an announced client's entry was given to that client
  only; a slot that was taken over has a new one by then;
- `Stands`: Stable says that what plugins were told is still valid, and a request
  (`Get`) reads the engine again and could renew or drop the entry. `Stands` says what
  the entry looks like, such that neither Another nor Missing can be the answer: it is
  pending, or its user ID and kind are what the engine says and will go on saying;
- `LastEvent`: what the last event of a slot has left, if it was reported. This is where
  `missed` comes in, and Accurate follows from it;
- `TokensOK`: a token of an input context is of one pawn in all slots and in all inputs
  plugins were told.

`Entities`, under `EntityConstants` (the bounds are naturals), whether or not the hooks on
the engine's loops can be placed (`Misses`), and for any number of handles and depth of
calls:

- `EntityInvariance`: `Spec => [](TypeOK /\ EntityInv)`;
- `HandlesReachTheirEntity`, `LevelEventsPair`: ReachesItsEntity and LevelsPair are
  invariants.

A serial number says nothing of the map, and the epoch alone nothing of the engine.
`Expires` relates them: an identity that was taken while a level was up and whose epoch is
not over is of the map that is there still. It holds for the handles and for the calls
that are open, and each step of the engine that takes a map away comes after one that ends
the epoch. That rests on `LevelsSeen`: unless a hook was missed, the host has seen a level
start exactly while it is up. LevelsPair needs no such condition: without the hooks a level
is not seen, but what was sent is always what `initialized_loops_` says.
The exceptions ReachesItsEntity makes are thus all there are.

What stays with TLC:

- liveness (OperationsEnd, CallsReturn): out of this prover's reach;
- the properties of `services`, of whose components only `KeelHook`, `FactoryService`,
  `HostLifecycle`, `Players` and `Entities` have proofs: what they say of these is proved
  for the module alone and for every instance of it; the conjunctions over all components
  are model-checked.

## Plan

Next, in this order:

1. proofs of the other smaller modules, whose invariants are close to inductive;
2. an abstract `PluginLifecycle` (plugin states and their closure) that
   `PluginManager` implements;
3. KeelHook with the risks "overlap" and "reinstall" as questions of their own;
4. the pure parts: version comparison, manifest and service name validation.

## Not modelled

- Manifest and name validation, CS2 compatibility tables, signature scanning and
  the resolution of addresses and schema fields: functions of their input,
  without state.
- Of a dispatch with objects: internal exceptions (`keelhook_service.cpp:3488`),
  a calling convention that the native call adapter rejects, variadic functions,
  and Windows, where the called function destroys the arguments.
- Platform wrappers: operating system calls.
- The typed wrappers of the SDK (entities, arguments, schema fields, values),
  which keep nothing; and in every service, formatting, parsing, names,
  priorities and argument checks that only answer INVALID_ARGUMENT.
- The selectors of the core console commands and the limit of 32 of the deferred
  queue.
- What happens when the process ends (static destructors, unhooking at exit).
- Tests, samples, tools and third-party code.

The engine itself is external: the models let it do what the code in `src/`
guards against, and no more. `PROJECT.json` lists every part with its status.
