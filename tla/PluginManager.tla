--------------------------- MODULE PluginManager ---------------------------
(***************************************************************************)
(* The plugin manager of the KeelS2 host (host/src/plugin_manager.cpp):    *)
(* discovery, start, pause, resume, unload and reload of plugins, with the *)
(* dependency checks and the published-service leases that guard them.     *)
(*                                                                         *)
(* Host::state_mutex_ protects every record, but it is RELEASED around     *)
(* each call into a plugin and around each Deactivate and ReleasePlugin of *)
(* a service, so an operation is a sequence of locked segments.  One       *)
(* action below is one locked segment, and other operations run between    *)
(* two of them; a segment in HeldPoints is entered and left with the lock. *)
(***************************************************************************)
EXTENDS Naturals, Sequences

CONSTANTS
  Plugins,         \* plugin files; file name and friendly name are one-to-one
  Deps,            \* Deps[p]: the plugins p's manifest requires
  Actors,          \* operation slots
  Threads,         \* OS threads
  ThreadOf,        \* the thread each slot runs on
  Kind,            \* "console", "deferred" (next game frame) or "api"
  CallbackLayers,  \* bound: the layers whose callbacks are explored
  MaxDepth,        \* bound: nesting of callbacks and operations on a thread
  NoPlugin

Commands == {"load", "batch", "unload", "reload", "pause", "resume"}

\* Who may issue what: keel plugins ..., DispatchDeferredPluginCommands, and
\* PluginService::Pause/Resume.
CommandsOf(kind) ==
  CASE kind = "console"  -> Commands
    [] kind = "deferred" -> {"unload", "reload", "batch"}
    [] OTHER             -> {"pause", "resume"}

\* The dispatch layers that call into a plugin.
Layers == {"commands", "factories", "source2", "lifecycle", "convars",
           "events", "keelhook"}

ASSUME ConstantsAssumption ==
  /\ Deps \in [Plugins -> SUBSET Plugins]
  /\ \A p \in Plugins : p \notin Deps[p]
  /\ ThreadOf \in [Actors -> Threads]
  /\ Kind \in [Actors -> {"console", "deferred", "api"}]
  /\ CallbackLayers \subseteq Layers
  /\ MaxDepth \in Nat
  /\ NoPlugin \notin Plugins
  /\ Actors \cap (Plugins \X Layers) = {}

DeactivateOrder ==
  <<"factories", "source2", "lifecycle", "convars", "events", "keelhook">>
ReleaseOrder ==
  <<"keelhook", "lifecycle", "source2", "convars", "schema", "events",
    "services", "factories">>
RollbackOrder ==
  <<"factories", "events", "services", "convars", "lifecycle", "source2",
    "schema", "keelhook">>

VARIABLES
  plugin,     \* the PluginRecord of each plugin
  op,         \* the operation each slot is in
  stack,      \* each thread's callbacks and operations, innermost first
  published,  \* plugins with a published service
  leases      \* <<consumer, provider>>: the registry's consumers

services == <<published, leases>>
vars == <<plugin, op, stack, published, leases>>

States == {"absent", "disabled", "error", "loading", "loaded", "paused"}
Points == {"idle", "query", "start", "load", "deactivate", "drain", "prepare",
           "prepare_unload", "release", "rollback", "unload", "cleanup",
           "publish", "publish_unloaded", "discover", "batch", "candidate"}

\* Entered with state_mutex_ held.
HeldPoints == {"start", "discover", "batch", "candidate"}
\* The operation is calling out, so its thread can run further callbacks.
CallsPlugin == {"query", "load", "prepare", "prepare_unload", "unload",
                "cleanup", "publish", "publish_unloaded"}

\* No record: `image` is library.IsOpen(), `live` the layers in which the
\* plugin's registrations are enabled.
NoRecord == [state |-> "absent", image |-> FALSE, accepting |-> FALSE,
             loading |-> FALSE, transitioning |-> FALSE,
             cleanup_pending |-> FALSE, live |-> {}, cycle |-> FALSE]

Idle == [at |-> "idle", cmd |-> "none", target |-> NoPlugin, step |-> 1,
         was_running |-> FALSE, was_paused |-> FALSE, attempt |-> "first",
         failed |-> FALSE, todo |-> {}, batch |-> {}]

PluginRecord ==
  [state : States, image : BOOLEAN, accepting : BOOLEAN, loading : BOOLEAN,
   transitioning : BOOLEAN, cleanup_pending : BOOLEAN, live : SUBSET Layers,
   cycle : BOOLEAN]

Operation ==
  [at : Points, cmd : Commands \cup {"none"}, target : Plugins \cup {NoPlugin},
   step : 1..8, was_running : BOOLEAN, was_paused : BOOLEAN,
   attempt : {"first", "candidate", "rollback"}, failed : BOOLEAN,
   todo : SUBSET Plugins, batch : SUBSET Plugins]

\* An operation or a callback <<plugin, layer>> on a thread's stack.
Frame == Actors \cup (Plugins \X Layers)

TypeOK ==
  /\ plugin \in [Plugins -> PluginRecord]
  /\ op \in [Actors -> Operation]
  /\ stack \in [Threads -> Seq(Frame)]
  /\ published \in SUBSET Plugins
  /\ leases \in SUBSET (Plugins \X Plugins)

Init ==
  /\ plugin = [p \in Plugins |-> NoRecord]
  /\ op = [a \in Actors |-> Idle]
  /\ stack = [t \in Threads |-> <<>>]
  /\ published = {}
  /\ leases = {}

-----------------------------------------------------------------------------
(* Threads.                                                                *)

Inside(t, p, l) == \E i \in DOMAIN stack[t] : stack[t][i] = <<p, l>>
InnermostOp(t) == stack[t] # <<>> /\ Head(stack[t]) \in Actors

\* The code on thread t may call into the host or into another plugin.
CanCall(t) ==
  /\ Len(stack[t]) < MaxDepth
  /\ InnermostOp(t) => op[Head(stack[t])].at \in CallsPlugin

\* A dispatch reaches an enabled registration of p.
EnterCallback(t, p, l) ==
  /\ CanCall(t)
  /\ l \in plugin[p].live \cap CallbackLayers
  /\ stack' = [stack EXCEPT ![t] = <<<<p, l>>>> \o @]
  /\ UNCHANGED <<plugin, op, services>>

LeaveCallback(t) ==
  /\ stack[t] # <<>> /\ ~InnermostOp(t)
  /\ stack' = [stack EXCEPT ![t] = Tail(@)]
  /\ UNCHANGED <<plugin, op, services>>

LockFree(a) == \A b \in Actors \ {a} : op[b].at \notin HeldPoints

\* a is the innermost operation of its thread, at point `at`.
At(a, at) ==
  /\ op[a].at = at
  /\ stack[ThreadOf[a]] # <<>> /\ Head(stack[ThreadOf[a]]) = a
  /\ LockFree(a)

\* lifecycle_mutex_ admits one console command at a time,
\* dispatching_deferred_plugin_commands_ one deferred one, and no console
\* command runs beside a refresh (bulk_plugin_operation_).
Admitted(a) ==
  /\ op[a].at = "idle"
  /\ CanCall(ThreadOf[a])
  /\ LockFree(a)
  /\ Kind[a] # "api" => \A b \in Actors : Kind[b] = Kind[a] => op[b].at = "idle"
  /\ Kind[a] = "console" => \A b \in Actors : op[b].cmd # "batch"

Begin(a, c, p, at) ==
  /\ Admitted(a)
  /\ c \in CommandsOf(Kind[a])
  /\ op' = [op EXCEPT ![a] = [Idle EXCEPT !.at = at, !.cmd = c, !.target = p,
                                !.was_running = plugin[p].state = "loaded",
                                !.was_paused = plugin[p].state = "paused"]]
  /\ stack' = [stack EXCEPT ![ThreadOf[a]] = <<a>> \o @]

Goto(a, at) ==
  /\ op' = [op EXCEPT ![a].at = at, ![a].step = 1]
  /\ UNCHANGED stack

End(a) ==
  /\ op' = [op EXCEPT ![a] = Idle]
  /\ stack' = [stack EXCEPT ![ThreadOf[a]] = Tail(@)]

\* After a load attempt: a batch goes on, a reload looks at its candidate.
LoadEnds(a) ==
  CASE op[a].cmd = "batch" -> Goto(a, "batch")
    [] op[a].cmd = "reload" /\ op[a].attempt = "candidate" -> Goto(a, "candidate")
    [] OTHER -> End(a)

-----------------------------------------------------------------------------
(* The checks the operations make under the lock.                          *)

\* The query callback of p has not returned: its dependencies are not known.
Querying(p) == \E a \in Actors : op[a].at = "query" /\ op[a].target = p

\* Mutant: a dependency on its way out still counts.
ReadyByState(p) == \A d \in Deps[p] : plugin[d].state = "loaded"

DependenciesReady(p) ==
  \A d \in Deps[p] : plugin[d].state = "loaded" /\ ~plugin[d].transitioning

\* A command callback of p is running on some thread.
PluginCommandActive(p) == \E t \in Threads : Inside(t, p, "commands")

HasLeasedPublication(p) == \E c \in Plugins : <<c, p>> \in leases

\* Mutants: the leases, and the images that are open but not running, are
\* forgotten.
DependentByManifest(p, include_retained) ==
  \/ PluginCommandActive(p)
  \/ \E q \in Plugins \ {p} : /\ plugin[q].state = "loaded" \/ (include_retained /\ plugin[q].image)
                             /\ p \in Deps[q] /\ ~Querying(q)
DependentByState(p, include_retained) ==
  \/ PluginCommandActive(p)
  \/ \E q \in Plugins \ {p} : plugin[q].state = "loaded" /\ p \in Deps[q]
  \/ HasLeasedPublication(p)

HasRunningDependent(p, include_retained) ==
  \/ PluginCommandActive(p)
  \/ \E q \in Plugins \ {p} :
        /\ plugin[q].state = "loaded" \/ (include_retained /\ plugin[q].image)
        /\ p \in Deps[q] /\ ~Querying(q)
  \/ HasLeasedPublication(p)

SetRecord(p, r) == plugin' = [plugin EXCEPT ![p] = r]

\* RestorePluginDispatch.
Restored(r) == [r EXCEPT !.accepting = TRUE, !.live = Layers]
\* Mutant: a path that returns without the destructor's reset.
StillMarked(r) == r

\* What PluginTransition's destructor leaves.
Settled(r) == [r EXCEPT !.transitioning = FALSE]
\* Mutant: the plugin may still register while it is being stopped.
ClosingOpenly(r) == [r EXCEPT !.transitioning = TRUE, !.live = @ \ {"commands"}]

\* The first locked segment of a pause or an unload.
Closing(r) == [r EXCEPT !.transitioning = TRUE, !.accepting = FALSE,
                        !.live = @ \ {"commands"}]
\* ClosePluginImage, leaving a record in state s.
Closed(s) == [NoRecord EXCEPT !.state = s]
\* DiscoverPlugin up to the query callback.
Discovered == [NoRecord EXCEPT !.state = "error", !.image = TRUE]
Started(r) == [r EXCEPT !.accepting = TRUE, !.loading = TRUE]

-----------------------------------------------------------------------------
(* Loading.                                                                *)

\* LoadPluginCommand, and RetryPluginCommand for a record in error.
BeginLoad(a, p) ==
  /\ plugin[p].state \in {"absent", "disabled", "error"}
  /\ ~plugin[p].cleanup_pending /\ ~plugin[p].image
  /\ Begin(a, "load", p, "query")
  /\ SetRecord(p, Discovered)
  /\ UNCHANGED services

\* The image did not open, query or manifest refused, or the metadata or the
\* reloaded name does not fit: the record stays in error.
QueryRejected(a) ==
  /\ At(a, "query")
  /\ SetRecord(op[a].target, Closed("error"))
  /\ IF op[a].cmd = "batch" THEN Goto(a, "discover") ELSE LoadEnds(a)
  /\ UNCHANGED services

QueryAccepted(a) ==
  LET p == op[a].target IN
  /\ At(a, "query")
  /\ SetRecord(p, [plugin[p] EXCEPT !.state = "loading"])
  /\ IF op[a].cmd = "batch"
     THEN /\ op' = [op EXCEPT ![a].at = "discover", ![a].batch = @ \cup {p}]
          /\ UNCHANGED stack
     ELSE Goto(a, "start")
  /\ UNCHANGED services

StartPlugin(a) ==
  LET p == op[a].target IN
  /\ At(a, "start")
  /\ DependenciesReady(p)
  /\ SetRecord(p, Started(plugin[p]))
  /\ Goto(a, "load")
  /\ UNCHANGED services

RejectUnstartedPlugin(a) ==
  /\ At(a, "start")
  /\ ~DependenciesReady(op[a].target)
  /\ SetRecord(op[a].target, Closed("error"))
  /\ LoadEnds(a)
  /\ UNCHANGED services

\* A reload replaces a paused plugin by a paused plugin.
ActivateDispatch(a) == ~(op[a].cmd = "reload" /\ op[a].was_paused)

\* The load callback returned TRUE and the dependencies still run.
LoadSucceeds(a) ==
  LET p == op[a].target
      r == [plugin[p] EXCEPT !.loading = FALSE] IN
  /\ At(a, "load")
  /\ DependenciesReady(p)
  /\ IF ActivateDispatch(a)
     THEN SetRecord(p, Restored([r EXCEPT !.state = "loaded"])) /\ Goto(a, "publish")
     ELSE SetRecord(p, [r EXCEPT !.accepting = FALSE]) /\ Goto(a, "prepare")
  /\ UNCHANGED services

\* The load callback refused or threw, or a dependency changed under it.
LoadFails(a) ==
  LET p == op[a].target IN
  /\ At(a, "load")
  /\ SetRecord(p, [plugin[p] EXCEPT !.loading = FALSE, !.accepting = FALSE])
  /\ Goto(a, "rollback")
  /\ UNCHANGED services

\* PreparePluginPause of a paused replacement.
ReplacementPrepared(a) ==
  LET p == op[a].target IN
  /\ At(a, "prepare") /\ op[a].cmd = "reload"
  /\ \/ SetRecord(p, [plugin[p] EXCEPT !.state = "paused"]) /\ Goto(a, "publish")
     \/ SetRecord(p, [plugin[p] EXCEPT !.state = "error"]) /\ Goto(a, "prepare_unload")
  /\ UNCHANGED services

\* PreparePluginUnload of a replacement that refused to be paused.
ReplacementUnloadPrepared(a) ==
  LET p == op[a].target IN
  /\ At(a, "prepare_unload") /\ plugin[p].state = "error"
  /\ \/ UNCHANGED plugin /\ Goto(a, "rollback")
     \/ SetRecord(p, [plugin[p] EXCEPT !.cleanup_pending = TRUE]) /\ LoadEnds(a)
  /\ UNCHANGED services

\* Mutant: the wait includes the calling thread's own callback.
NeverOwnCallback(a, p, l) == FALSE

\* Deactivate and ReleasePlugin of layer l answer BUSY when this thread is in
\* a callback of p there; factories, when it is in any factory callback.
OwnCallback(a, p, l) ==
  \E q \in Plugins : /\ q = p \/ l = "factories"
                     /\ l \in Layers /\ Inside(ThreadOf[a], q, l)
\* Factories are also BUSY while plugin code on another thread is inside an
\* interface query (queries_).
MayBeBusy(a, p, l) ==
  \/ OwnCallback(a, p, l)
  \/ l = "factories" /\ \E t \in Threads \ {ThreadOf[a]} : stack[t] # <<>>
\* Layers whose release can be refused by the engine or by KeelHook.
EngineLayers == {"keelhook", "convars", "schema"}
\* Mutant: lifecycle callbacks are not waited for.
DrainedButLifecycle(p, l) == l # "lifecycle" => \A t \in Threads : ~Inside(t, p, l)

\* WaitForZero: the active counters count every thread, this one included.
Drained(p, l) == \A t \in Threads : ~Inside(t, p, l)

Withdrawn(p, l) ==
  IF l = "services"
  THEN /\ published' = published \ {p}
       /\ leases' = {e \in leases : e[1] # p}
  ELSE UNCHANGED services

\* Mutant: one layer too many.
PastLastLayer(a) == op[a].step > Len(ReleaseOrder)

LastLayer(a) == op[a].step = Len(ReleaseOrder)

\* The eight ReleasePlugin calls of a rejected start; failures accumulate.
RollbackLayer(a) ==
  LET p == op[a].target
      l == RollbackOrder[op[a].step]
      done(failed) ==
        IF LastLayer(a)
        THEN /\ SetRecord(p, [plugin[p] EXCEPT !.state = "error", !.live = {},
                                               !.cleanup_pending = failed])
             /\ IF failed THEN LoadEnds(a) ELSE Goto(a, "cleanup")
        ELSE /\ op' = [op EXCEPT ![a].step = @ + 1, ![a].failed = failed]
             /\ SetRecord(p, [plugin[p] EXCEPT !.live = @ \ {l}])
             /\ UNCHANGED stack
  IN
  /\ At(a, "rollback")
  /\ \/ /\ ~OwnCallback(a, p, l) /\ Drained(p, l)
        /\ l = "services" => ~HasLeasedPublication(p)
        /\ Withdrawn(p, l)
        /\ done(op[a].failed)
     \/ /\ MayBeBusy(a, p, l) \/ l \in EngineLayers
           \/ (l = "services" /\ HasLeasedPublication(p))
        /\ UNCHANGED services
        /\ done(TRUE)

\* The unload callback of a rejected start.
RollbackDone(a) ==
  /\ At(a, "cleanup")
  /\ SetRecord(op[a].target, Closed("error"))
  /\ LoadEnds(a)
  /\ UNCHANGED services

-----------------------------------------------------------------------------
(* LoadPlugins and the new files of RefreshPluginsCommand.                 *)

BeginBatch(a) ==
  /\ Admitted(a)
  /\ "batch" \in CommandsOf(Kind[a])
  /\ \E p \in Plugins : plugin[p].state = "absent"
  /\ op' = [op EXCEPT ![a] = [Idle EXCEPT !.at = "discover", !.cmd = "batch",
                   !.todo = {p \in Plugins : plugin[p].state = "absent"}]]
  /\ stack' = [stack EXCEPT ![ThreadOf[a]] = <<a>> \o @]
  /\ UNCHANGED <<plugin, services>>

\* A file another operation loaded in the meantime is a duplicate.
DiscoverPlugin(a, p) ==
  /\ At(a, "discover")
  /\ p \in op[a].todo
  /\ IF plugin[p].state \in {"absent", "disabled"}
     THEN /\ SetRecord(p, Discovered)
          /\ op' = [op EXCEPT ![a].at = "query", ![a].target = p, ![a].todo = @ \ {p}]
     ELSE /\ op' = [op EXCEPT ![a].todo = @ \ {p}]
          /\ UNCHANGED plugin
  /\ UNCHANGED <<stack, services>>

DiscoveryDone(a) ==
  /\ At(a, "discover") /\ op[a].todo = {}
  /\ Goto(a, "batch")
  /\ UNCHANGED <<plugin, services>>

\* StartDiscoveredPlugins' own readiness test: it looks at the state only.
Blocked(p) == \E d \in Deps[p] : plugin[d].state \notin {"loading", "loaded"}
Waiting(p) == \E d \in Deps[p] : plugin[d].state = "loading"

StartDiscovered(a, p) ==
  /\ At(a, "batch")
  /\ p \in op[a].batch
  /\ \/ /\ Blocked(p)
        /\ SetRecord(p, Closed("error"))
        /\ op' = [op EXCEPT ![a].batch = @ \ {p}]
     \/ /\ ~Blocked(p) /\ ~Waiting(p)
        /\ SetRecord(p, Started(plugin[p]))
        /\ op' = [op EXCEPT ![a].batch = @ \ {p}, ![a].target = p, ![a].at = "load"]
  /\ UNCHANGED <<stack, services>>

\* Mutant: one waiting plugin rejects the pass.
SomeWait(a) == \E p \in op[a].batch : ~Blocked(p) /\ Waiting(p)

NoProgress(a) == \A p \in op[a].batch : ~Blocked(p) /\ Waiting(p)

\* A pass without progress rejects what is left: "dependency cycle detected".
RejectCycle(a) ==
  /\ At(a, "batch") /\ op[a].batch # {}
  /\ NoProgress(a)
  /\ plugin' = [p \in Plugins |-> IF p \in op[a].batch
                                  THEN [Closed("error") EXCEPT !.cycle = TRUE]
                                  ELSE plugin[p]]
  /\ op' = [op EXCEPT ![a].batch = {}]
  /\ UNCHANGED <<stack, services>>

\* PublishAllLoaded follows.
BatchDone(a) ==
  /\ At(a, "batch") /\ op[a].batch = {}
  /\ op' = [op EXCEPT ![a].at = "publish", ![a].target = NoPlugin]
  /\ UNCHANGED <<plugin, stack, services>>

-----------------------------------------------------------------------------
(* Pause, resume and unload.                                               *)

BeginPause(a, p) ==
  /\ plugin[p].state = "loaded" /\ ~plugin[p].transitioning
  /\ ~HasRunningDependent(p, FALSE)
  /\ Begin(a, "pause", p, "deactivate")
  /\ SetRecord(p, Closing(plugin[p]))
  /\ UNCHANGED services

BeginResume(a, p) ==
  /\ plugin[p].state = "paused" /\ ~plugin[p].transitioning
  /\ DependenciesReady(p)
  /\ Begin(a, "resume", p, "publish")
  /\ SetRecord(p, Restored([plugin[p] EXCEPT !.state = "loaded", !.transitioning = TRUE]))
  /\ UNCHANGED services

\* Mutants: the transitioning flag, and the dependents, are not consulted.
UnloadByState(p) ==
  plugin[p].state \in {"loaded", "paused"} /\ ~HasRunningDependent(p, TRUE)
UnloadAlone(p) ==
  plugin[p].state \in {"loaded", "paused"} /\ ~plugin[p].transitioning

CanUnload(p) ==
  /\ plugin[p].state \in {"loaded", "paused"} /\ ~plugin[p].transitioning
  /\ ~HasRunningDependent(p, TRUE)

BeginUnload(a, p) ==
  /\ CanUnload(p)
  /\ \/ Begin(a, "unload", p, "deactivate")
     \/ DependenciesReady(p) /\ Begin(a, "reload", p, "deactivate")
  /\ SetRecord(p, Closing(plugin[p]))
  /\ UNCHANGED services

\* A refused transition ends its operation and leaves record r.
Abandon(a, r) ==
  /\ SetRecord(op[a].target, Settled(r))
  /\ End(a)
  /\ UNCHANGED services

\* Deactivate of the next layer disables its registrations...
Deactivate(a) ==
  LET p == op[a].target
      l == DeactivateOrder[op[a].step] IN
  /\ At(a, "deactivate")
  /\ ~OwnCallback(a, p, l)
  /\ SetRecord(p, [plugin[p] EXCEPT !.live = @ \ {l}])
  /\ op' = [op EXCEPT ![a].at = "drain"]
  /\ UNCHANGED <<stack, services>>

\* ... and waits for the callbacks other threads are in.  The unload of a
\* plugin that is not running deactivates factories only.
DeactivateDone(a) ==
  LET p == op[a].target IN
  /\ At(a, "drain")
  /\ Drained(p, DeactivateOrder[op[a].step])
  /\ IF op[a].was_running /\ op[a].step < 6
     THEN op' = [op EXCEPT ![a].at = "deactivate", ![a].step = @ + 1] /\ UNCHANGED stack
     ELSE Goto(a, IF op[a].cmd = "pause" THEN "prepare" ELSE "prepare_unload")
  /\ UNCHANGED <<plugin, services>>

\* Mutant: what was already disabled stays disabled.
NotRestored(r, cmd, l) == [r EXCEPT !.accepting = TRUE]

\* Deactivate answered BUSY.  An unload stopped by a Source 2 callback turns
\* back on the commands and the Source 2 layer, any other RestorePluginDispatch.
RestoredAfter(r, cmd, l) ==
  IF cmd # "pause" /\ l = "source2"
  THEN [r EXCEPT !.accepting = TRUE, !.live = @ \cup {"commands", "source2"}]
  ELSE Restored(r)

DeactivateBusy(a) ==
  LET p == op[a].target
      l == DeactivateOrder[op[a].step] IN
  /\ At(a, "deactivate")
  /\ MayBeBusy(a, p, l)
  /\ Abandon(a, RestoredAfter(plugin[p], op[a].cmd, l))

PausePrepared(a) ==
  LET p == op[a].target IN
  /\ At(a, "prepare") /\ op[a].cmd = "pause"
  /\ \/ /\ SetRecord(p, [plugin[p] EXCEPT !.state = "paused"])
        /\ Goto(a, "publish") /\ UNCHANGED services
     \/ Abandon(a, Restored(plugin[p]))

UnloadPrepared(a) ==
  LET p == op[a].target IN
  /\ At(a, "prepare_unload") /\ plugin[p].state # "error"
  /\ \/ Goto(a, "release") /\ UNCHANGED <<plugin, services>>
     \/ Abandon(a, IF op[a].was_running THEN Restored(plugin[p]) ELSE plugin[p])

ReleaseLayer(a) ==
  LET p == op[a].target
      l == ReleaseOrder[op[a].step] IN
  /\ At(a, "release")
  /\ ~OwnCallback(a, p, l) /\ Drained(p, l)
  /\ l = "services" => ~HasLeasedPublication(p)
  /\ SetRecord(p, [plugin[p] EXCEPT !.live = @ \ (IF LastLayer(a) THEN Layers ELSE {l})])
  /\ IF LastLayer(a)
     THEN Goto(a, "unload")
     ELSE op' = [op EXCEPT ![a].step = @ + 1] /\ UNCHANGED stack
  /\ Withdrawn(p, l)

\* A release failed: a running plugin busy in KeelHook, or one whose service
\* is leased, is restored; any other is quarantined.
ReleaseFails(a) ==
  LET p == op[a].target
      l == ReleaseOrder[op[a].step]
      quarantined == [plugin[p] EXCEPT !.cleanup_pending = TRUE] IN
  /\ At(a, "release")
  /\ \/ /\ MayBeBusy(a, p, l) \/ l \in EngineLayers
        /\ Abandon(a, quarantined)
     \/ /\ l = "keelhook" /\ op[a].was_running /\ ~plugin[p].cleanup_pending
        /\ Abandon(a, Restored(plugin[p]))
     \/ /\ l = "services" /\ HasLeasedPublication(p)
        /\ Abandon(a, Restored(plugin[p]))

\* The unload callback returned: the image is closed.
UnloadPlugin(a) ==
  /\ At(a, "unload")
  /\ SetRecord(op[a].target, Closed(IF op[a].cmd = "unload" THEN "disabled" ELSE "absent"))
  /\ Goto(a, "publish_unloaded")
  /\ UNCHANGED services

-----------------------------------------------------------------------------
(* PublishPluginEvent returned, and what follows it.                       *)

PublishDone(a) ==
  LET p == op[a].target IN
  /\ At(a, "publish")
  /\ IF op[a].cmd \in {"pause", "resume"}
     THEN SetRecord(p, Settled(plugin[p]))
     ELSE UNCHANGED plugin
  /\ IF p = NoPlugin THEN End(a) ELSE LoadEnds(a)
  /\ UNCHANGED services

\* A reload loads the file on disk, then, if that failed, the old image.
\* A record that appeared meanwhile makes the new one a duplicate.
LoadReplacement(a, attempt) ==
  LET p == op[a].target IN
  IF plugin[p].state \in {"absent", "disabled"}
  THEN /\ SetRecord(p, Discovered)
       /\ op' = [op EXCEPT ![a].at = "query", ![a].attempt = attempt, ![a].failed = FALSE]
       /\ UNCHANGED stack
  ELSE End(a) /\ UNCHANGED plugin

PublishUnloadedDone(a) ==
  /\ At(a, "publish_unloaded")
  /\ IF op[a].cmd = "reload"
     THEN LoadReplacement(a, IF op[a].attempt = "first" THEN "candidate" ELSE "rollback")
     ELSE End(a) /\ UNCHANGED plugin
  /\ UNCHANGED services

\* ReloadPluginCommand after the candidate's LoadPlugin.
CandidateReady(a) ==
  plugin[op[a].target].state = (IF op[a].was_paused THEN "paused" ELSE "loaded")

CandidateKept(a) ==
  /\ At(a, "candidate")
  /\ CandidateReady(a) \/ plugin[op[a].target].cleanup_pending
  /\ End(a)
  /\ UNCHANGED <<plugin, services>>

CandidateUnloaded(a) ==
  LET p == op[a].target IN
  /\ At(a, "candidate")
  /\ ~CandidateReady(a) /\ ~plugin[p].cleanup_pending
  /\ CanUnload(p)
  /\ SetRecord(p, Closing(plugin[p]))
  /\ op' = [op EXCEPT ![a].at = "deactivate", ![a].step = 1,
                      ![a].was_running = plugin[p].state = "loaded"]
  /\ UNCHANGED <<stack, services>>

CandidateDiscarded(a) ==
  LET p == op[a].target IN
  /\ At(a, "candidate")
  /\ ~CandidateReady(a) /\ ~plugin[p].cleanup_pending /\ ~CanUnload(p)
  /\ IF plugin[p].state = "error" /\ ~plugin[p].image
     THEN /\ SetRecord(p, Discovered)
          /\ op' = [op EXCEPT ![a].at = "query", ![a].attempt = "rollback", ![a].failed = FALSE]
          /\ UNCHANGED stack
     ELSE LoadReplacement(a, "rollback")
  /\ UNCHANGED services

-----------------------------------------------------------------------------
(* Published services (published_service_registry.cpp), called by plugins. *)

\* ApiQueryService and Publish ask for an owner that accepts resources.
Publish(p) ==
  /\ plugin[p].accepting
  /\ published' = published \cup {p}
  /\ UNCHANGED <<plugin, op, stack, leases>>

\* Mutant: a provider on its way out is still handed out.
QueryByState(c, p) ==
  /\ c # p
  /\ plugin[c].accepting
  /\ p \in published
  /\ plugin[p].state = "loaded"
  /\ leases' = leases \cup {<<c, p>>}
  /\ UNCHANGED <<plugin, op, stack, published>>

Query(c, p) ==
  /\ c # p
  /\ plugin[c].accepting
  /\ p \in published
  /\ plugin[p].state = "loaded" /\ ~plugin[p].transitioning
  /\ leases' = leases \cup {<<c, p>>}
  /\ UNCHANGED <<plugin, op, stack, published>>

\* Release and Withdraw also work inside the prepare callbacks.
MayRelease(p) ==
  \/ plugin[p].accepting
  \/ \E a \in Actors : op[a].target = p /\ op[a].at \in {"prepare", "prepare_unload"}

Release(c, p) ==
  /\ MayRelease(c)
  /\ <<c, p>> \in leases
  /\ leases' = leases \ {<<c, p>>}
  /\ UNCHANGED <<plugin, op, stack, published>>

Withdraw(p) ==
  /\ MayRelease(p)
  /\ p \in published /\ ~HasLeasedPublication(p)
  /\ published' = published \ {p}
  /\ UNCHANGED <<plugin, op, stack, leases>>

-----------------------------------------------------------------------------
LoadStep(a) ==
  \/ QueryRejected(a) \/ QueryAccepted(a)
  \/ StartPlugin(a) \/ RejectUnstartedPlugin(a)
  \/ LoadSucceeds(a) \/ LoadFails(a)
  \/ ReplacementPrepared(a) \/ ReplacementUnloadPrepared(a)
  \/ RollbackLayer(a) \/ RollbackDone(a)

BatchStep(a) ==
  \/ \E p \in Plugins : DiscoverPlugin(a, p) \/ StartDiscovered(a, p)
  \/ DiscoveryDone(a) \/ RejectCycle(a) \/ BatchDone(a)

TransitionStep(a) ==
  \/ Deactivate(a) \/ DeactivateDone(a) \/ DeactivateBusy(a)
  \/ PausePrepared(a) \/ UnloadPrepared(a)
  \/ ReleaseLayer(a) \/ ReleaseFails(a) \/ UnloadPlugin(a)

AfterStep(a) ==
  \/ PublishDone(a) \/ PublishUnloadedDone(a)
  \/ CandidateKept(a) \/ CandidateUnloaded(a) \/ CandidateDiscarded(a)

\* The next segment of an operation that has begun.
Step(a) == LoadStep(a) \/ BatchStep(a) \/ TransitionStep(a) \/ AfterStep(a)

Command(a) ==
  \/ BeginBatch(a)
  \/ \E p \in Plugins : \/ BeginLoad(a, p) \/ BeginPause(a, p)
                        \/ BeginResume(a, p) \/ BeginUnload(a, p)

Service ==
  \E p \in Plugins : \/ Publish(p) \/ Withdraw(p)
                     \/ \E c \in Plugins : Query(c, p) \/ Release(c, p)

Callback(t) ==
  \/ LeaveCallback(t)
  \/ \E p \in Plugins, l \in Layers : EnterCallback(t, p, l)

Next ==
  \/ \E a \in Actors : Command(a) \/ Step(a)
  \/ \E t \in Threads : Callback(t)
  \/ Service

Spec == Init /\ [][Next]_vars

\* Callbacks and calls into plugins return, and an operation that can take
\* its next locked segment takes it.  A thread cannot leave its outer callback
\* while an inner one runs, so each depth needs strong fairness of its own.
Fairness ==
  /\ \A a \in Actors : SF_vars(Step(a))
  /\ \A t \in Threads, n \in 1..MaxDepth :
        SF_vars(Len(stack[t]) = n /\ LeaveCallback(t))

FairSpec == Spec /\ Fairness

-----------------------------------------------------------------------------
(* Properties.                                                             *)

\* A running plugin's dependencies are running: DependenciesReady before and
\* after the load callback, HasRunningDependent before a pause or an unload,
\* and the transitioning flag in between keep it so although every callback
\* runs without the lock.
DependencyClosure ==
  \A p \in Plugins : plugin[p].state = "loaded" =>
    \A d \in Deps[p] : plugin[d].state = "loaded"

\* The points at which an operation uses its target's record or its code.
\* Pause and resume keep the plugin marked until their event is published.
OwningPoints == {"query", "start", "load", "deactivate", "drain", "prepare",
                 "prepare_unload", "release", "rollback", "unload", "cleanup"}
Owns(o, p) ==
  /\ o.target = p
  /\ o.at \in OwningPoints \/ (o.at = "publish" /\ o.cmd \in {"pause", "resume"})

\* Two operations never work on one plugin at a time, and the raw PluginRecord
\* pointers and plugin callbacks an operation uses across its unlocked windows
\* stay valid: nobody closes the image meanwhile.
ExclusiveOwnership ==
  \A p \in Plugins, a \in Actors : Owns(op[a], p) =>
    /\ plugin[p].image
    /\ \A b \in Actors \ {a} : ~Owns(op[b], p)

\* No thread is inside a callback of a plugin whose image is closed.
NoCallbackIntoClosedImage ==
  \A t \in Threads, p \in Plugins, l \in Layers :
    Inside(t, p, l) => plugin[p].image

\* While the load callback of p runs, or p is running or paused, the images
\* of its dependencies are open (HasRunningDependent with include_retained).
ImageClosure ==
  \A p \in Plugins :
    plugin[p].state \in {"loaded", "paused"} \/ plugin[p].loading =>
      \A d \in Deps[p] : plugin[d].image

\* A leased provider runs, and a consumer's leases end with its image.
LeasesPinProviders ==
  \A e \in leases : plugin[e[2]].state = "loaded" /\ plugin[e[1]].image

\* An unload is never undone halfway by "blocked by a published service
\* lease": by then KeelHook and the event layers have released the plugin's
\* registrations, and RestorePluginDispatch could not bring them back.
NoLeaseAtRelease ==
  \A a \in Actors : op[a].at \in {"release", "rollback"} =>
    ~HasLeasedPublication(op[a].target)

\* A plugin marked transitioning is in the hands of exactly the operation
\* that will clear the mark: no refused or failed path leaves it stuck.
TransitionOwned ==
  \A p \in Plugins : plugin[p].transitioning =>
    \E a \in Actors :
      /\ op[a].target = p
      /\ op[a].at \in {"deactivate", "drain", "prepare", "prepare_unload",
                       "release", "unload", "publish"}

\* A paused plugin that no operation is working on receives nothing.
PausedIsSilent ==
  \A p \in Plugins : plugin[p].state = "paused" /\ ~plugin[p].transitioning =>
    plugin[p].live = {} /\ ~plugin[p].accepting

\* A running plugin that no operation is working on receives everything.
RunningIsFullyDispatched ==
  \A p \in Plugins :
    /\ plugin[p].state = "loaded"
    /\ ~plugin[p].transitioning /\ ~plugin[p].cleanup_pending
    => plugin[p].live = Layers /\ plugin[p].accepting

\* A quarantined plugin is not called again.
QuarantineIsSilent ==
  \A p \in Plugins : plugin[p].cleanup_pending => plugin[p].live = {}

\* "dependency cycle detected" is said of plugins that reach a cycle only.
ReachesCycle(p) ==
  \E S \in SUBSET Plugins : p \in S /\ \A q \in S : Deps[q] \cap S # {}
CycleIsReal == \A p \in Plugins : plugin[p].cycle => ReachesCycle(p)

\* Every operation returns: no wait for a callback lasts for ever.
OperationsEnd == \A a \in Actors : op[a].at # "idle" ~> op[a].at = "idle"

-----------------------------------------------------------------------------
(* The inductive invariant behind DependencyClosure, ExclusiveOwnership,   *)
(* LeasesPinProviders and NoLeaseAtRelease.                                *)

\* A batch also holds the plugins it discovered and has not started.
Holds(o, p) == Owns(o, p) \/ p \in o.batch

\* Operation o is on its way to stop p, which was loaded or paused.
Departs(o, p, r) ==
  /\ o.target = p
  /\ \/ o.at \in {"deactivate", "drain", "release", "unload"}
     \/ o.at = "prepare" /\ o.cmd = "pause"
     \/ o.at = "prepare_unload" /\ r.state # "error"

\* What an operation that holds p knows of its record r.
Consistent(o, p, r) ==
  /\ r.image
  /\ p \in o.batch => ~Owns(o, p) /\ r.state = "loading" /\ ~r.accepting
  /\ Owns(o, p) =>
     /\ o.at = "query" => r.state = "error" /\ ~r.accepting
     /\ o.at = "start" => r.state = "loading" /\ ~r.accepting
     /\ o.at = "load" => r.state = "loading"
     /\ o.at = "prepare" => o.cmd \in {"pause", "reload"}
     /\ o.at = "prepare" /\ o.cmd # "pause" => r.state = "loading"
     /\ o.at \in {"rollback", "cleanup"} => r.state \in {"loading", "error"}
     /\ o.at \in {"deactivate", "drain", "prepare", "prepare_unload", "release",
                  "rollback", "unload", "cleanup"} => ~r.accepting
     /\ o.at = "publish" => r.transitioning
     /\ Departs(o, p, r) => r.transitioning /\ r.state \in {"loaded", "paused"}

\* An operation that names a plugin has one, and only commands that load
\* reach the loading points.
OperationOK(o) ==
  /\ o.at \notin {"idle", "discover", "batch", "publish"} => o.target \in Plugins
  /\ o.at \in {"query", "start", "load"} => o.cmd \in {"load", "batch", "reload"}
  /\ o.at \in {"discover", "batch"} => o.cmd = "batch"
  /\ o.at = "candidate" => o.cmd = "reload"

TargetInv == \A a \in Actors : OperationOK(op[a])

HoldInv ==
  \A a \in Actors, p \in Plugins : Holds(op[a], p) =>
    /\ Consistent(op[a], p, plugin[p])
    /\ \A b \in Actors \ {a} : ~Holds(op[b], p)

\* A stopping plugin has no running dependent and no leased service.
DepartInv ==
  \A a \in Actors, p \in Plugins : Departs(op[a], p, plugin[p]) =>
    /\ \A q \in Plugins : plugin[q].state = "loaded" => p \notin Deps[q]
    /\ \A c \in Plugins : <<c, p>> \notin leases

\* After the services step of a release the plugin leases nothing.
Released(o, p) ==
  \/ p \in o.batch
  \/ /\ Owns(o, p)
     /\ \/ o.at \in {"query", "start", "unload", "cleanup"}
        \/ o.at = "release" /\ o.step > 7
        \/ o.at = "rollback" /\ o.step > 3

ReleasedInv ==
  \A a \in Actors, p \in Plugins : Released(op[a], p) =>
    \A q \in Plugins : <<p, q>> \notin leases

\* Records at rest.
RecordOK(r) ==
  /\ r.state \in {"loading", "loaded", "paused"} => r.image
  /\ r.state \in {"absent", "disabled"} => ~r.image
  /\ r.accepting => r.image

RecordInv == \A p \in Plugins : RecordOK(plugin[p])

IInv ==
  /\ TargetInv /\ HoldInv /\ DepartInv /\ ReleasedInv /\ RecordInv
  /\ DependencyClosure /\ LeasesPinProviders

-----------------------------------------------------------------------------
(* What NoCallbackIntoClosedImage and TransitionOwned need in addition.    *)

\* Layer l of p is disabled and no thread is in a callback of p there.
Quiet(p, l) == l \notin plugin[p].live /\ \A t \in Threads : ~Inside(t, p, l)

\* Operation o counts on layer l of p, whose record is r, being quiet: a plugin that is
\* not started yet or is rejected has no callback, one that is stopped no command, and
\* what the release has passed stays passed.
CountsOn(o, p, r, l) ==
  \/ p \in o.batch
  \/ /\ Owns(o, p)
     /\ \/ o.at \in {"query", "start", "load", "rollback", "cleanup", "unload"}
        \/ o.at = "prepare" /\ o.cmd # "pause"
        \/ o.at = "prepare_unload" /\ r.state = "error"
        \/ Departs(o, p, r) /\ l = "commands"
        \/ o.at = "release" /\ \E s \in 1..(o.step - 1) : ReleaseOrder[s] = l

QuietInv ==
  \A p \in Plugins, l \in Layers :
    /\ ~plugin[p].image => Quiet(p, l)
    /\ \A a \in Actors : CountsOn(op[a], p, plugin[p], l) => Quiet(p, l)

\* Operation o has set the mark of p and will clear it.
Marks(o, p, r) == Departs(o, p, r) \/ (Owns(o, p) /\ o.at = "publish")

MarkInv ==
  \A p \in Plugins : plugin[p].transitioning =>
    \E a \in Actors : Marks(op[a], p, plugin[p])

CallbackInv == QuietInv /\ MarkInv

-----------------------------------------------------------------------------
(* What PausedIsSilent and RunningIsFullyDispatched need in addition.      *)

\* What operation o knows of the record r of p that it stops or publishes.
Progressed(o, p, r) ==
  /\ Departs(o, p, r) =>
     /\ o.was_running <=> r.state = "loaded"
     /\ o.cmd = "pause" => o.was_running
  /\ o.target = p /\ o.at \in {"deactivate", "drain"} =>
     /\ o.step \in 1..6 /\ (o.was_running \/ o.step = 1)
     /\ \A s \in 1..6 : s < o.step \/ (s = o.step /\ o.at = "drain") =>
          DeactivateOrder[s] \notin r.live
  /\ o.target = p /\ o.at = "prepare" /\ o.cmd = "pause" => r.live = {}
  /\ o.target = p /\ o.at = "publish" /\ o.cmd = "pause" => r.state = "paused"
  /\ o.target = p /\ o.at = "publish" /\ o.cmd = "resume" =>
       r.state = "loaded" /\ r.live = Layers /\ r.accepting

ProgressInv == \A a \in Actors, p \in Plugins : Progressed(op[a], p, plugin[p])

\* A paused plugin receives nothing, in the hands of an operation or not.
Silent(r) == r.state = "paused" => r.live = {} /\ ~r.accepting

\* A running plugin that is neither marked nor quarantined receives everything.
Dispatched(r) ==
  r.state = "loaded" /\ ~r.transitioning /\ ~r.cleanup_pending =>
    r.live = Layers /\ r.accepting

\* The unload of a paused plugin stops before it has disabled anything.
Wakes(a, p) ==
  /\ DeactivateBusy(a)
  /\ op[a].target = p /\ op[a].step = 1 /\ ~op[a].was_running

\* The unload of a running plugin stops at the Source 2 layer.
LosesLayers(a, p) ==
  /\ DeactivateBusy(a)
  /\ op[a].target = p /\ op[a].cmd # "pause" /\ DeactivateOrder[op[a].step] = "source2"

\* A silent paused plugin hears something again only after a resume, or when
\* its unload is refused by the factory service: no other step of any
\* operation, callback or service call wakes it.
OnlyBusyUnloadWakes ==
  [][\A p \in Plugins : Silent(plugin[p]) =>
       Silent(plugin'[p]) \/ \E a \in Actors : Wakes(a, p)]_vars

\* A running plugin that hears everything goes on hearing everything once its
\* pause or unload is refused, but for an unload refused by a Source 2 callback.
OnlySource2BusyMutes ==
  [][\A p \in Plugins : Dispatched(plugin[p]) =>
       Dispatched(plugin'[p]) \/ \E a \in Actors : LosesLayers(a, p)]_vars

-----------------------------------------------------------------------------
(* What ImageClosure needs in addition.                                    *)

\* Console commands and deferred ones run on the game thread.
OneCommandThread ==
  \A a, b \in Actors : Kind[a] # "api" /\ Kind[b] # "api" => ThreadOf[a] = ThreadOf[b]

\* Operation a runs inside a call that operation b has made.
Above(a, b) ==
  \E i, j \in DOMAIN stack[ThreadOf[b]] :
    i < j /\ stack[ThreadOf[b]][i] = a /\ stack[ThreadOf[b]][j] = b

\* An operation is once on the stack of its own thread, from its beginning to its end.
NestInv ==
  /\ \A t \in Threads : \A i \in DOMAIN stack[t] : stack[t][i] \in Actors =>
       /\ ThreadOf[stack[t][i]] = t /\ op[stack[t][i]].at # "idle"
       /\ \A j \in DOMAIN stack[t] : stack[t][j] = stack[t][i] => j = i
  /\ \A a \in Actors : op[a].at # "idle" =>
       \E i \in DOMAIN stack[ThreadOf[a]] : stack[ThreadOf[a]][i] = a

\* Plugins cannot load or unload, and a pause and a resume never close an image.
CommandOK(o, kind) ==
  o.at # "idle" =>
    /\ o.cmd \in CommandsOf(kind)
    /\ o.cmd = "resume" => o.at = "publish"
    /\ o.cmd = "pause" => o.at \in {"deactivate", "drain", "prepare", "publish"}

CommandsInv == \A a \in Actors : CommandOK(op[a], Kind[a])

Installed(p) == plugin[p].state \in {"loaded", "paused"}

\* Operation a runs the load callback of p, or prepares the pause of what it loaded.
Loads(a, p) == op[a].target = p /\ op[a].at \in {"load", "prepare"}

\* p relies on the images of its dependencies.
Relies(p) == Installed(p) \/ \E a \in Actors : Loads(a, p)

\* What is relied on is loaded or paused, so only an unload can close its image.
RelyInv ==
  \A p \in Plugins :
    /\ Relies(p) => \A d \in Deps[p] : Installed(d)
    /\ plugin[p].loading => \E a \in Actors : op[a].target = p /\ op[a].at = "load"

\* Nobody relies on a plugin that is being unloaded, but for a load that runs
\* inside a call of the unload, fails, and is over before the unload goes on.
ClosingInv ==
  \A b \in Actors, d \in Plugins :
    Departs(op[b], d, plugin[d]) /\ op[b].cmd # "pause" =>
      \A p \in Plugins : d \in Deps[p] =>
        /\ ~Installed(p)
        /\ \A a \in Actors : Loads(a, p) => op[a].at = "load" /\ Above(a, b)

ImageInv == NestInv /\ CommandsInv /\ RelyInv /\ ClosingInv

-----------------------------------------------------------------------------
(* What CycleIsReal needs in addition.                                     *)

\* Either every command comes from the console or every one is deferred.
OneCommandKind ==
  \A a, b \in Actors : Kind[a] # "api" /\ Kind[b] # "api" => Kind[a] = Kind[b]

\* Only a batch has plugins it discovered and has not started, and it does not
\* end before it has started or rejected each.
BatchOK(o) ==
  /\ o.batch # {} => o.cmd = "batch"
  /\ o.cmd = "batch" =>
       o.at \in {"discover", "query", "batch", "load", "rollback", "cleanup", "publish"}
  /\ o.cmd = "batch" /\ o.at = "publish" /\ o.target = NoPlugin => o.batch = {}

BatchInv == \A a \in Actors : BatchOK(op[a])

\* A plugin that is loading is in somebody's hands.
LoadingInv ==
  \A p \in Plugins : plugin[p].state = "loading" => \E a \in Actors : Holds(op[a], p)

\* One command of each kind runs at a time.
TurnInv ==
  \A a, b \in Actors :
    a # b /\ Kind[a] = Kind[b] /\ Kind[a] # "api" => op[a].at = "idle" \/ op[b].at = "idle"

CycleInv == CommandsInv /\ BatchInv /\ LoadingInv /\ TurnInv

\* Batch a waits for a plugin that another operation is loading.
Overtaken(a) ==
  \E p \in op[a].batch, b \in Actors \ {a} :
    \E d \in Deps[p] : plugin[d].state = "loading" /\ Holds(op[b], d)

\* A cycle is reported of a plugin that reaches one, or by a batch that waits
\* for another operation's load, and by nobody else.
OnlyOvertakenMisjudges ==
  [][\A p \in Plugins : plugin'[p].cycle /\ ~plugin[p].cycle =>
       \E a \in Actors : /\ RejectCycle(a) /\ p \in op[a].batch
                         /\ ReachesCycle(p) \/ Overtaken(a)]_vars
=============================================================================
