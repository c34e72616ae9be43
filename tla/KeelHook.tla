------------------------------ MODULE KeelHook ------------------------------
(***************************************************************************)
(* The function hooking service (host/src/keelhook_service.cpp): plugins   *)
(* lease targets, add callbacks to them, call them directly; the hooked    *)
(* function's callers run the dispatch of Dispatch.                        *)
(*                                                                         *)
(* registry_mutex_ protects the records.  Whether a hook is installed and  *)
(* whether its closure and trampoline exist is protected by the target's   *)
(* physical_mutex.  One action is one locked segment, or one access to an  *)
(* atomic outside the locks.                                               *)
(***************************************************************************)
EXTENDS Integers, FiniteSets, FiniteSetsExt

CONSTANTS
  Plugins,
  NoPlugin,
  Threads,
  Callers,        \* threads that run the hooked functions
  Functions,
  Detours,        \* the functions hooked by a detour; the others in a vtable
  ModuleOf,       \* the plugin whose image a function or its slot lies in
  MaxTargets,     \* bound: target records ever made
  MaxCallbacks,   \* bound: callback records ever made
  MaxCalls,       \* bound: nesting of dispatches and calls on a caller; the other
                  \* threads make one call at a time
  MaxDepth,       \* bound: the same with the recalled dispatches
  Refusals,       \* may the hooking library refuse to install or to restore?
  Risks           \* which of the next three may happen:
                  \* "self": a callback removes itself;
                  \* "overlap": the host activates or deactivates a plugin, or
                  \*   the plugin enables the callback, during a RemoveCallback;
                  \* "reinstall": a hook kept from earlier callbacks cannot be
                  \*   installed again

ASSUME HookAssumption ==
  /\ NoPlugin \notin Plugins /\ Callers \subseteq Threads
  /\ IsFiniteSet(Threads)
  /\ Functions # {} /\ Detours \subseteq Functions
  /\ ModuleOf \in [Functions -> Plugins \cup {NoPlugin}]
  /\ MaxTargets \in Nat /\ MaxCallbacks \in Nat
  /\ MaxDepth \in Nat /\ MaxCalls \in 1..MaxDepth
  /\ Refusals \in BOOLEAN
  /\ Risks \subseteq {"self", "overlap", "reinstall"}

VARIABLES
  owner,      \* owners_
  quiet,      \* plugins whose Deactivate or ReleasePlugin answered OK
  target,     \* target records, by handle
  callback,   \* callback records, by handle
  frame,      \* the dispatches and calls each thread is in
  depth,      \* how many of them
  shutdown    \* shutting_down_ and shutdown_complete_

threads == <<frame, depth>>
vars == <<owner, quiet, target, callback, frame, depth, shutdown>>

Targets == 1..MaxTargets
Callbacks == 1..MaxCallbacks
None == 0

Owner == [known : BOOLEAN, accepting : BOOLEAN, active : BOOLEAN]

\* "live": in targets_; "retired": in retired_targets_; "gone": collected.
\* storage: the closure, the trampoline and the hook object exist.
Target ==
  [state : {"free", "live", "retired", "gone"}, fn : Functions,
   leases : SUBSET Plugins, bindings : SUBSET Plugins, transition : BOOLEAN,
   enabled : BOOLEAN, storage : BOOLEAN, active : Nat, direct : Nat]

Callback ==
  [state : {"free", "live", "erased"}, owner : Plugins \cup {NoPlugin},
   target : Targets \cup {None}, enabled : BOOLEAN, active : Nat, pre : BOOLEAN]

Calls == {"none", "dispatch", "direct", "resolve", "release_target", "add", "remove", "set",
          "activate", "deactivate", "release", "shutdown", "collect"}
Points == {"none", "entered", "bound", "counted", "pick", "check", "in",
           "explicit", "recalling", "original", "direct", "collect", "begin",
           "install", "restore", "wait", "retry", "drain", "finish", "destroy"}

\* The locals of a dispatch or of a call.  ops: the snapshot of a dispatch, or
\* the targets left in a loop over targets; calls: of the original function.
Frame ==
  [call : Calls, at : Points, plugin : Plugins \cup {NoPlugin},
   target : Targets \cup {None}, callback : Callbacks \cup {None},
   todo : SUBSET Nat, ops : SUBSET Nat, failed : SUBSET Targets,
   post : BOOLEAN, calls : 0..2, superseded : BOOLEAN, recalled : BOOLEAN,
   from : Callbacks \cup {None}, flag : BOOLEAN]

Idle ==
  [call |-> "none", at |-> "none", plugin |-> NoPlugin, target |-> None,
   callback |-> None, todo |-> {}, ops |-> {}, failed |-> {}, post |-> FALSE,
   calls |-> 0, superseded |-> FALSE, recalled |-> FALSE, from |-> None,
   flag |-> FALSE]

TypeOK ==
  /\ owner \in [Plugins -> Owner]
  /\ quiet \in SUBSET Plugins
  /\ target \in [Targets -> Target]
  /\ callback \in [Callbacks -> Callback]
  /\ frame \in [Threads -> [1..MaxDepth -> Frame]]
  /\ depth \in [Threads -> 0..MaxDepth]
  /\ shutdown \in {"no", "begun", "complete"}

Init ==
  /\ owner = [p \in Plugins |->
                [known |-> FALSE, accepting |-> FALSE, active |-> FALSE]]
  /\ quiet = {}
  /\ target = [r \in Targets |->
                 [state |-> "free", fn |-> CHOOSE f \in Functions : TRUE,
                  leases |-> {}, bindings |-> {}, transition |-> FALSE,
                  enabled |-> FALSE, storage |-> FALSE, active |-> 0, direct |-> 0]]
  /\ callback = [c \in Callbacks |->
                   [state |-> "free", owner |-> NoPlugin, target |-> None,
                    enabled |-> FALSE, active |-> 0, pre |-> TRUE]]
  /\ frame = [t \in Threads |-> [d \in 1..MaxDepth |-> Idle]]
  /\ depth = [t \in Threads |-> 0]
  /\ shutdown = "no"

-----------------------------------------------------------------------------
Top(t) == frame[t][depth[t]]
At(t, call, at) == depth[t] # 0 /\ Top(t).call = call /\ Top(t).at = at

SetTop(t, f) ==
  /\ frame' = [frame EXCEPT ![t] = [@ EXCEPT ![depth[t]] = f]]
  /\ UNCHANGED depth

Goto(t, at) == SetTop(t, [Top(t) EXCEPT !.at = at])

Push(t, f) ==
  /\ depth[t] < IF t \in Callers THEN MaxCalls ELSE 1
  /\ frame' = [frame EXCEPT ![t] = [@ EXCEPT ![depth[t] + 1] = f]]
  /\ depth' = [depth EXCEPT ![t] = @ + 1]

Pop(t) ==
  /\ frame' = [frame EXCEPT ![t] = [@ EXCEPT ![depth[t]] = Idle]]
  /\ depth' = [depth EXCEPT ![t] = @ - 1]

FramesOf(t) == {frame[t][d] : d \in 1..depth[t]}
AllFrames == UNION {FramesOf(t) : t \in Threads}

\* Engine or plugin code runs on t.
Running(t) == depth[t] # 0 => Top(t).at \in {"in", "explicit", "original", "direct"}

\* A frame whose callback has been entered and has not returned.
InCallback(f) == f.call = "dispatch" /\ f.at \in {"in", "explicit", "recalling"}

IsCurrentCallback(t, c) == \E f \in FramesOf(t) : InCallback(f) /\ f.callback = c
IsCurrentOwner(t, p) ==
  \E f \in FramesOf(t) : InCallback(f) /\ callback[f.callback].owner = p

\* target_stack_: pushed after the target's active count is raised.
OnTargetStack(f) ==
  \/ f.call = "dispatch" /\ f.at \notin {"entered", "bound"}
  \/ f.call = "direct"
IsCurrentTarget(t, r) == \E f \in FramesOf(t) : OnTargetStack(f) /\ f.target = r
TargetDepth(t) == Cardinality({d \in 1..depth[t] : OnTargetStack(frame[t][d])})

Live == {r \in Targets : target[r].state = "live"}
CallbacksOf(r) == {c \in Callbacks : callback[c].state = "live" /\ callback[c].target = r}
OwnedBy(p) == {c \in Callbacks : callback[c].state = "live" /\ callback[c].owner = p}
OwnedOn(p, r) == CallbacksOf(r) \cap OwnedBy(p)

OwnerExists(p) == shutdown = "no" /\ owner[p].known
OwnerReady(p) == OwnerExists(p) /\ owner[p].accepting

Disabled(S) ==
  [c \in Callbacks |-> IF c \in S THEN [callback[c] EXCEPT !.enabled = FALSE]
                       ELSE callback[c]]
Erased(S) ==
  [c \in Callbacks |-> IF c \in S
                       THEN [callback[c] EXCEPT !.state = "erased", !.target = None]
                       ELSE callback[c]]

\* PruneTargetsLocked: the target records tg, with callbacks left on `used`.
Pruned(tg, used) ==
  [r \in Targets |->
     IF /\ tg[r].state = "live" /\ ~tg[r].transition
        /\ tg[r].leases = {} /\ r \notin used
     THEN [tg[r] EXCEPT !.state = "retired"]
     ELSE tg[r]]
Used(cb) == {cb[c].target : c \in {x \in Callbacks : cb[x].state = "live"}}

-----------------------------------------------------------------------------
(* Physical hooks, each step under the target's physical_mutex.            *)

\* A thread runs the closure and has not raised the target's active count.
Entering(r) ==
  \E f \in AllFrames : f.call = "dispatch" /\ f.at \in {"entered", "bound"} /\ f.target = r

\* Mutant: the instruction pointers of the other threads are not looked at.
DestroyUnlessActive(r) ==
  IF target[r].active = 0 /\ ~target[r].enabled
  THEN [target EXCEPT ![r].storage = FALSE] ELSE target

\* DestroyPhysical.  The hooking library freezes the threads and refuses when
\* one is inside the closure or on its way to the active count.
Destroyed(r) ==
  IF target[r].active = 0 /\ ~target[r].enabled /\ ~Entering(r)
  THEN [target EXCEPT ![r].storage = FALSE] ELSE target

\* CollectPhysical's candidates; one without storage is only dropped.
Candidates ==
  {r \in Targets : \/ target[r].state = "retired"
                   \/ r \in Live /\ ~target[r].transition /\ CallbacksOf(r) = {}}
Collectable(t) ==
  IF TargetDepth(t) = 0 THEN {r \in Candidates : target[r].storage} ELSE {}
Swept(tg) ==
  [r \in Targets |-> IF tg[r].state = "retired" /\ ~tg[r].storage
                     THEN [tg[r] EXCEPT !.state = "gone"] ELSE tg[r]]

\* A call that collects first, and a call that collects last.
Start(t, f) ==
  /\ Running(t)
  /\ LET todo == Collectable(t) IN
     Push(t, [f EXCEPT !.at = IF todo = {} THEN "begin" ELSE "collect", !.todo = todo])
  /\ UNCHANGED <<owner, quiet, target, callback, shutdown>>

CollectLast(t) == SetTop(t, [Idle EXCEPT !.call = "collect", !.at = "begin"])

CollectAgain(t) ==
  /\ At(t, "collect", "begin")
  /\ SetTop(t, [Top(t) EXCEPT !.at = "collect", !.todo = Collectable(t)])
  /\ UNCHANGED <<owner, quiet, target, callback, shutdown>>

Collect(t) ==
  /\ depth[t] # 0 /\ Top(t).at = "collect"
  /\ IF Top(t).todo # {}
     THEN LET r == Min(Top(t).todo) IN
          /\ target' \in {Destroyed(r)} \cup (IF Refusals THEN {target} ELSE {})
          /\ SetTop(t, [Top(t) EXCEPT !.todo = @ \ {r}])
     ELSE /\ target' = Swept(target)
          /\ IF Top(t).call = "collect" THEN Pop(t) ELSE Goto(t, "begin")
  /\ UNCHANGED <<owner, quiet, callback, shutdown>>

\* A call that answers without having changed anything.
Refuse(t) == Pop(t) /\ UNCHANGED <<owner, quiet, target, callback, shutdown>>

\* EnablePhysical: installed, or everything freed.
Enabled(r) == [target EXCEPT ![r].enabled = TRUE, ![r].storage = TRUE]
NotEnabled(r) == [target EXCEPT ![r].storage = FALSE]

\* DisablePhysical: restored, or refused by the library; a detour's code cannot
\* be put back while a thread is in it.
Restored(r) == [target EXCEPT ![r].enabled = FALSE]
MayRestore(r) == target[r].enabled /\ target[r].fn \in Detours => ~Entering(r)
MayRefuse(r) == target[r].enabled /\ (Refusals \/ ~MayRestore(r))

-----------------------------------------------------------------------------
(* Targets.                                                                *)

StartResolve(t, p) ==
  OwnerReady(p) /\ Start(t, [Idle EXCEPT !.call = "resolve", !.plugin = p])

\* ResolveTarget after the resolution, and RegisterTargetLocked.
Resolve(t) ==
  /\ At(t, "resolve", "begin")
  /\ LET p == Top(t).plugin IN
     \/ /\ ~OwnerReady(p)
        /\ UNCHANGED target
     \/ /\ OwnerReady(p)
        /\ \E f \in Functions :
             LET old == {r \in Live : target[r].fn = f}
                 new == {r \in Targets : /\ target[r].state = "free"
                                         /\ \A s \in 1..(r - 1) : target[s].state # "free"}
             IN \/ \E r \in old : /\ target[r].transition
                                  /\ UNCHANGED target
                \/ \E r \in old : /\ ~target[r].transition
                                  /\ target' = [target EXCEPT ![r].leases = @ \cup {p},
                                                              ![r].bindings = @ \cup {p}]
                \/ \E r \in new : /\ old = {}
                                  /\ target' = [target EXCEPT ![r].state = "live", ![r].fn = f,
                                                  ![r].leases = {p}, ![r].bindings = {p}]
  /\ Pop(t)
  /\ UNCHANGED <<owner, quiet, callback, shutdown>>

StartReleaseTarget(t, p, r) ==
  /\ OwnerExists(p) /\ r \in Live /\ p \in target[r].leases
  /\ Start(t, [Idle EXCEPT !.call = "release_target", !.plugin = p, !.target = r])

\* Mutant: direct calls are not looked at.
NotInTransition(r) == ~target[r].transition

\* Free to be changed: no transition and no direct call.
Steady(r) == ~target[r].transition /\ target[r].direct = 0

ReleaseTarget(t) ==
  /\ At(t, "release_target", "begin")
  /\ LET p == Top(t).plugin
         r == Top(t).target
     IN IF /\ OwnerExists(p) /\ r \in Live /\ p \in target[r].leases
           /\ Steady(r) /\ OwnedOn(p, r) = {}
        THEN /\ target' = Pruned([target EXCEPT ![r].leases = @ \ {p},
                                                ![r].bindings = @ \ {p}], Used(callback))
             /\ CollectLast(t)
             /\ UNCHANGED <<owner, quiet, callback, shutdown>>
        ELSE Refuse(t)

-----------------------------------------------------------------------------
(* Callbacks.                                                              *)

StartAdd(t, p, r) ==
  /\ OwnerReady(p) /\ r \in Live /\ p \in target[r].leases
  /\ Start(t, [Idle EXCEPT !.call = "add", !.plugin = p, !.target = r])

\* The first callback of a target installs its hook.
Add(t) ==
  /\ At(t, "add", "begin")
  /\ LET p == Top(t).plugin
         r == Top(t).target
         new == {c \in Callbacks : /\ callback[c].state = "free"
                                   /\ \A b \in 1..(c - 1) : callback[b].state # "free"}
     IN \/ /\ ~(OwnerReady(p) /\ r \in Live /\ p \in target[r].leases /\ Steady(r)) \/ new = {}
           /\ Refuse(t)
        \/ \E c \in new, pre \in BOOLEAN :
             /\ OwnerReady(p) /\ r \in Live /\ p \in target[r].leases /\ Steady(r)
             /\ callback' = [callback EXCEPT ![c] =
                  [state |-> "live", owner |-> p, target |-> r,
                   enabled |-> owner[p].active, active |-> 0, pre |-> pre]]
             /\ IF CallbacksOf(r) = {}
                THEN /\ target' = [target EXCEPT ![r].transition = TRUE]
                     /\ SetTop(t, [Top(t) EXCEPT !.at = "install", !.callback = c])
                ELSE /\ UNCHANGED target
                     /\ Pop(t)
             /\ UNCHANGED <<owner, quiet, shutdown>>

Install(t) ==
  /\ At(t, "add", "install")
  /\ LET r == Top(t).target IN
     \/ /\ target' = Enabled(r)
        /\ Goto(t, "finish")
        /\ UNCHANGED callback
     \/ /\ Refusals /\ (target[r].storage => "reinstall" \in Risks)
        /\ target' = NotEnabled(r)
        /\ SetTop(t, [Top(t) EXCEPT !.at = "finish", !.flag = TRUE])
        /\ callback' = Disabled({Top(t).callback})
  /\ UNCHANGED <<owner, quiet, shutdown>>

\* Mutant: the callback of a failed installation stays.
AddDoneAnyway(t) ==
  /\ At(t, "add", "finish")
  /\ target' = [target EXCEPT ![Top(t).target].transition = FALSE]
  /\ Pop(t)
  /\ UNCHANGED <<owner, quiet, callback, shutdown>>

AddDone(t) ==
  /\ At(t, "add", "finish")
  /\ callback' = IF Top(t).flag THEN Erased({Top(t).callback}) ELSE callback
  /\ target' = [target EXCEPT ![Top(t).target].transition = FALSE]
  /\ Pop(t)
  /\ UNCHANGED <<owner, quiet, shutdown>>

\* AddCallback has returned the handle.
HandleKnown(c) == \A f \in AllFrames : f.call = "add" => f.callback # c

StartRemove(t, p, c) ==
  /\ OwnerExists(p) /\ c \in OwnedBy(p) /\ HandleKnown(c)
  /\ IsCurrentCallback(t, c) => "self" \in Risks
  /\ "overlap" \in Risks \/ \A f \in AllFrames : f.call = "activate" => f.plugin # p
  /\ Start(t, [Idle EXCEPT !.call = "remove", !.plugin = p, !.callback = c,
                           !.target = callback[c].target])

Remove(t) ==
  /\ At(t, "remove", "begin")
  /\ LET p == Top(t).plugin
         c == Top(t).callback
         r == Top(t).target
         last == CallbacksOf(r) = {c}
         self == IsCurrentCallback(t, c)
     IN IF OwnerExists(p) /\ c \in OwnedBy(p) /\ Steady(r)
        THEN /\ callback' = Disabled({c})
             /\ target' = [target EXCEPT ![r].transition = TRUE]
             /\ SetTop(t, [Top(t) EXCEPT !.at = IF last THEN "restore" ELSE "wait",
                                         !.todo = IF self THEN {} ELSE {c},
                                         !.flag = callback[c].enabled])
             /\ UNCHANGED <<owner, quiet, shutdown>>
        ELSE Refuse(t)

\* Mutant: the refusal leaves the target in transition.
RestoreForgetful(t) ==
  /\ At(t, "remove", "restore")
  /\ LET r == Top(t).target IN
     \/ /\ MayRestore(r)
        /\ target' = Restored(r)
        /\ Goto(t, "wait")
        /\ UNCHANGED callback
     \/ /\ MayRefuse(r)
        /\ callback' = [callback EXCEPT ![Top(t).callback].enabled = Top(t).flag]
        /\ Pop(t)
        /\ UNCHANGED target
  /\ UNCHANGED <<owner, quiet, shutdown>>

\* The last callback's removal restores the function; a refusal takes it back.
RestoreForRemove(t) ==
  /\ At(t, "remove", "restore")
  /\ LET r == Top(t).target IN
     \/ /\ MayRestore(r)
        /\ target' = Restored(r)
        /\ Goto(t, "wait")
        /\ UNCHANGED callback
     \/ /\ MayRefuse(r)
        /\ target' = [target EXCEPT ![r].transition = FALSE]
        /\ callback' = [callback EXCEPT ![Top(t).callback].enabled = Top(t).flag]
        /\ Pop(t)
  /\ UNCHANGED <<owner, quiet, shutdown>>

\* WaitForZero of callbacks, in the calls that do nothing else meanwhile.
AwaitCallback(t) ==
  /\ depth[t] # 0 /\ Top(t).at = "wait"
  /\ \E c \in Top(t).todo :
       /\ callback[c].active = 0
       /\ SetTop(t, [Top(t) EXCEPT !.todo = @ \ {c}])
  /\ UNCHANGED <<owner, quiet, target, callback, shutdown>>

Waited(t, call) == At(t, call, "wait") /\ Top(t).todo = {}

RemoveDone(t) ==
  /\ Waited(t, "remove")
  /\ LET r == Top(t).target IN
     /\ callback' = Erased({Top(t).callback})
     /\ target' = Pruned([target EXCEPT ![r].transition = FALSE], Used(callback'))
  /\ CollectLast(t)
  /\ UNCHANGED <<owner, quiet, shutdown>>

Removing(c) == \E f \in AllFrames : f.call = "remove" /\ f.callback = c /\ f.at # "collect"

\* Mutant: a plugin that is deactivated may enable a callback.
SetEnabledAnyway(t, p, c, on) ==
  /\ Running(t) /\ OwnerExists(p) /\ c \in OwnedBy(p) /\ HandleKnown(c)
  /\ on => (Removing(c) => "overlap" \in Risks)
  /\ callback' = [callback EXCEPT ![c].enabled = on]
  /\ IF ~on /\ ~IsCurrentCallback(t, c)
     THEN Push(t, [Idle EXCEPT !.call = "set", !.at = "wait", !.todo = {c}])
     ELSE UNCHANGED threads
  /\ UNCHANGED <<owner, quiet, target, shutdown>>

\* SetCallbackEnabled
SetEnabled(t, p, c, on) ==
  /\ Running(t) /\ OwnerExists(p) /\ c \in OwnedBy(p) /\ HandleKnown(c)
  /\ on => OwnerReady(p) /\ (Removing(c) => "overlap" \in Risks)
  /\ callback' = [callback EXCEPT ![c].enabled = on]
  /\ IF ~on /\ ~IsCurrentCallback(t, c)
     THEN Push(t, [Idle EXCEPT !.call = "set", !.at = "wait", !.todo = {c}])
     ELSE UNCHANGED threads
  /\ UNCHANGED <<owner, quiet, target, shutdown>>

-----------------------------------------------------------------------------
(* The host's calls, one at a time for a plugin.                           *)

HostCalls == {"activate", "deactivate", "release"}
InHand(p) == \E f \in AllFrames : f.call \in HostCalls /\ f.plugin = p
MayOverlap(p) ==
  "overlap" \in Risks \/ \A f \in AllFrames : f.call = "remove" => f.plugin # p

\* The plugin asks for the service while it loads or runs.
Authorize(t, p, active) ==
  /\ Running(t) /\ shutdown = "no" /\ ~owner[p].known /\ ~InHand(p)
  /\ owner' = [owner EXCEPT ![p] = [known |-> TRUE, accepting |-> TRUE,
                                    active |-> active]]
  /\ quiet' = quiet \ {p}
  /\ UNCHANGED <<target, callback, threads, shutdown>>

\* The host marks the plugin running, then calls Activate.
Restore(t, p) ==
  /\ Running(t) /\ ~InHand(p) /\ MayOverlap(p)
  /\ OwnerExists(p) /\ ~owner[p].active
  /\ quiet' = quiet \ {p}
  /\ Push(t, [Idle EXCEPT !.call = "activate", !.at = "begin", !.plugin = p])
  /\ UNCHANGED <<owner, target, callback, shutdown>>

Activate(t) ==
  /\ At(t, "activate", "begin") /\ shutdown = "no"
  /\ LET p == Top(t).plugin IN
     /\ owner' = [owner EXCEPT ![p].accepting = TRUE, ![p].active = TRUE]
     /\ callback' = [c \in Callbacks |-> IF c \in OwnedBy(p)
                                         THEN [callback[c] EXCEPT !.enabled = TRUE]
                                         ELSE callback[c]]
  /\ Pop(t)
  /\ UNCHANGED <<quiet, target, shutdown>>

\* In a callback of the plugin the answer is BUSY and nothing changes.
Deactivate(t, p) ==
  /\ Running(t) /\ ~InHand(p) /\ MayOverlap(p)
  /\ OwnerExists(p) /\ ~IsCurrentOwner(t, p)
  /\ owner' = [owner EXCEPT ![p].accepting = FALSE, ![p].active = FALSE]
  /\ callback' = Disabled(OwnedBy(p))
  /\ Push(t, [Idle EXCEPT !.call = "deactivate", !.at = "wait", !.plugin = p,
                          !.todo = OwnedBy(p)])
  /\ UNCHANGED <<quiet, target, shutdown>>

DeactivateDone(t) ==
  /\ Waited(t, "deactivate")
  /\ quiet' = quiet \cup {Top(t).plugin}
  /\ Pop(t)
  /\ UNCHANGED <<owner, target, callback, shutdown>>

SetDone(t) == Waited(t, "set") /\ Refuse(t)

-----------------------------------------------------------------------------
(* ReleasePlugin                                                           *)

StartRelease(t, p) ==
  /\ ~InHand(p) /\ OwnerExists(p)
  /\ Start(t, [Idle EXCEPT !.call = "release", !.plugin = p])

Touches(r, p) == ModuleOf[target[r].fn] = p
UsedByOthers(r, p) == target[r].leases \ {p} # {} \/ CallbacksOf(r) \ OwnedBy(p) # {}
Concerns(r, p) == r \in Live /\ (p \in target[r].leases \/ OwnedOn(p, r) # {})

\* Mutant: other plugins' use of the module's functions is not looked at.
BusyForOwner(t, p) ==
  \/ IsCurrentOwner(t, p)
  \/ \E r \in Live : Concerns(r, p) /\ (target[r].transition \/ IsCurrentTarget(t, r))

BusyToRelease(t, p) ==
  \/ IsCurrentOwner(t, p)
  \/ \E r \in Live : Touches(r, p) /\ UsedByOthers(r, p)
  \/ \E r \in Live : Concerns(r, p) /\ (target[r].transition \/ IsCurrentTarget(t, r))

Release(t) ==
  /\ At(t, "release", "begin")
  /\ LET p == Top(t).plugin
         ops == {r \in Live : Concerns(r, p)}
     IN IF BusyToRelease(t, p) \/ ~OwnerExists(p)
        THEN Refuse(t)
        ELSE /\ owner' = [owner EXCEPT ![p].accepting = FALSE]
             /\ target' = [r \in Targets |-> IF r \in ops
                             THEN [target[r] EXCEPT !.transition = TRUE] ELSE target[r]]
             /\ callback' = Disabled(UNION {OwnedOn(p, r) : r \in ops})
             /\ SetTop(t, [Top(t) EXCEPT !.at = "restore", !.ops = ops])
             /\ UNCHANGED <<quiet, shutdown>>

\* One target of the loop: restore it if only this plugin has callbacks on it.
ReleaseOp(t) ==
  /\ At(t, "release", "restore") /\ Top(t).ops # {}
  /\ LET p == Top(t).plugin
         r == Min(Top(t).ops)
         mine == OwnedOn(p, r)
         last == mine # {} /\ CallbacksOf(r) = mine
     IN \E refused \in BOOLEAN :
          /\ refused => last /\ MayRefuse(r)
          /\ last /\ ~refused => MayRestore(r)
          /\ target' = IF last /\ ~refused THEN Restored(r) ELSE target
          /\ SetTop(t, [Top(t) EXCEPT !.at = "wait", !.target = r, !.todo = mine,
                                      !.flag = refused])
  /\ UNCHANGED <<owner, quiet, callback, shutdown>>

NextOp(f) == [f EXCEPT !.at = "restore", !.ops = @ \ {f.target}, !.flag = FALSE]

\* A refused restoration is tried once more when the callbacks are quiet.
ReleaseRetry(t) ==
  /\ Waited(t, "release")
  /\ LET f == Top(t)
         r == f.target
     IN \/ /\ ~f.flag
           /\ UNCHANGED target
           /\ SetTop(t, IF Touches(r, f.plugin) THEN [f EXCEPT !.at = "drain"] ELSE NextOp(f))
        \/ /\ f.flag /\ MayRestore(r)
           /\ target' = Restored(r)
           /\ SetTop(t, IF Touches(r, f.plugin) THEN [f EXCEPT !.at = "drain"] ELSE NextOp(f))
        \/ /\ f.flag /\ MayRefuse(r)
           /\ UNCHANGED target
           /\ SetTop(t, NextOp([f EXCEPT !.failed = @ \cup {r}]))
  /\ UNCHANGED <<owner, quiet, callback, shutdown>>

\* A function of the plugin's own image: nobody may be left in its dispatch.
ReleaseDrain(t) ==
  /\ At(t, "release", "drain") /\ target[Top(t).target].active = 0
  /\ SetTop(t, NextOp(Top(t)))
  /\ UNCHANGED <<owner, quiet, target, callback, shutdown>>

\* Mutant: a refused restoration does not count as a failure.
AnyOutcome(f) == TRUE

\* ReleasePlugin answers OK.
Succeeded(f) == f.failed = {}

\* The targets whose transition a release in progress has set.
HeldBy(f) == {r \in Targets : Concerns(r, f.plugin)}

ReleaseDone(t) ==
  /\ At(t, "release", "restore") /\ Top(t).ops = {}
  /\ LET f == Top(t)
         p == f.plugin
         held == HeldBy(f)
         done == held \ f.failed
     IN /\ callback' = Erased(UNION {OwnedOn(p, r) : r \in done})
        /\ target' = Pruned([r \in Targets |->
              IF r \notin held THEN target[r]
              ELSE [target[r] EXCEPT !.transition = FALSE,
                                     !.leases = IF r \in done THEN @ \ {p} ELSE @,
                                     !.bindings = IF r \in done THEN @ \ {p} ELSE @]],
              Used(callback'))
        /\ IF Succeeded(f)
           THEN /\ owner' = [owner EXCEPT ![p].known = FALSE, ![p].active = FALSE]
                /\ quiet' = quiet \cup {p}
           ELSE UNCHANGED <<owner, quiet>>
  /\ CollectLast(t)
  /\ UNCHANGED shutdown

-----------------------------------------------------------------------------
(* Shutdown, by the host's Stop when every plugin is deactivated and has   *)
(* prepared its unload: no call of a plugin is in progress.  It may answer *)
(* FALSE, and Stop is then tried again.                                    *)

StartShutdown(t) ==
  /\ Running(t) /\ TargetDepth(t) = 0 /\ shutdown # "complete"
  /\ \A p \in Plugins : owner[p].known => p \in quiet
  /\ \A f \in AllFrames : f.call = "dispatch"
  /\ LET first == shutdown = "no"
         live == {c \in Callbacks : callback[c].state = "live"}
         all == {r \in Targets : target[r].state \in {"live", "retired"}}
     IN /\ owner' = [p \in Plugins |-> [known |-> FALSE, accepting |-> FALSE, active |-> FALSE]]
        /\ callback' = [c \in Callbacks |-> IF c \in live
                          THEN [callback[c] EXCEPT !.state = "erased", !.enabled = FALSE]
                          ELSE callback[c]]
        /\ target' = [r \in Targets |-> IF first /\ r \in Live
                        THEN [target[r] EXCEPT !.leases = {}, !.transition = TRUE]
                        ELSE target[r]]
        /\ shutdown' = "begun"
        /\ Push(t, [Idle EXCEPT !.call = "shutdown", !.at = "restore", !.ops = all,
                                !.todo = IF first THEN live ELSE {}])
  /\ UNCHANGED quiet

ShutdownRestore(t) ==
  /\ At(t, "shutdown", "restore")
  /\ LET f == Top(t) IN
     \/ /\ f.ops = {}
        /\ UNCHANGED target
        /\ Goto(t, "wait")
     \/ /\ f.ops # {} /\ MayRestore(Min(f.ops))
        /\ target' = Restored(Min(f.ops))
        /\ SetTop(t, [f EXCEPT !.ops = @ \ {Min(f.ops)}])
     \/ /\ f.ops # {} /\ MayRefuse(Min(f.ops))
        /\ UNCHANGED target
        /\ SetTop(t, [f EXCEPT !.ops = @ \ {Min(f.ops)}, !.failed = @ \cup {Min(f.ops)}])
  /\ UNCHANGED <<owner, quiet, callback, shutdown>>

ShutdownWaited(t) ==
  /\ Waited(t, "shutdown")
  /\ SetTop(t, [Top(t) EXCEPT !.at = "destroy",
                  !.ops = {r \in Targets : target[r].state \in {"live", "retired"}} \ Top(t).failed])
  /\ UNCHANGED <<owner, quiet, target, callback, shutdown>>

\* Mutant: a hook that could not be freed is not counted as a failure.
DestroyUnchecked(t) ==
  /\ At(t, "shutdown", "destroy") /\ Top(t).ops # {}
  /\ LET r == Min(Top(t).ops) IN
     /\ target[r].active = 0
     /\ target' \in {Destroyed(r)} \cup (IF Refusals THEN {target} ELSE {})
     /\ SetTop(t, [Top(t) EXCEPT !.ops = @ \ {r}])
  /\ UNCHANGED <<owner, quiet, callback, shutdown>>

ShutdownDestroy(t) ==
  /\ At(t, "shutdown", "destroy") /\ Top(t).ops # {}
  /\ LET r == Min(Top(t).ops) IN
     /\ target[r].active = 0
     /\ \E gone \in {Destroyed(r)} \cup (IF Refusals THEN {target} ELSE {}) :
          /\ target' = gone
          /\ SetTop(t, [Top(t) EXCEPT !.ops = @ \ {r},
                          !.failed = IF gone[r].storage THEN @ \cup {r} ELSE @])
  /\ UNCHANGED <<owner, quiet, callback, shutdown>>

ShutdownDone(t) ==
  /\ At(t, "shutdown", "destroy") /\ Top(t).ops = {}
  /\ IF Top(t).failed = {}
     THEN /\ shutdown' = "complete"
          /\ quiet' = Plugins
          /\ target' = [r \in Targets |-> IF target[r].state \in {"live", "retired"}
                          THEN [target[r] EXCEPT !.state = "gone"] ELSE target[r]]
     ELSE UNCHANGED <<shutdown, quiet, target>>
  /\ Pop(t)
  /\ UNCHANGED <<owner, callback>>

-----------------------------------------------------------------------------
(* Dispatch: what a thread does that calls a hooked function.              *)

Entry(r) == [Idle EXCEPT !.call = "dispatch", !.at = "entered", !.target = r]

\* Through the installed hook, or a direct call through the closure.
Enter(t, r) ==
  /\ t \in Callers /\ Running(t)
  /\ target[r].enabled \/ (At(t, "direct", "direct") /\ Top(t).target = r /\ Top(t).flag)
  /\ Push(t, Entry(r))
  /\ UNCHANGED <<owner, quiet, target, callback, shutdown>>

\* Without a binding left the dispatch returns at once.
Bind(t) ==
  /\ At(t, "dispatch", "entered")
  /\ IF target[Top(t).target].bindings = {} THEN Pop(t) ELSE Goto(t, "bound")
  /\ UNCHANGED <<owner, quiet, target, callback, shutdown>>

Count(t) ==
  /\ At(t, "dispatch", "bound")
  /\ target' = [target EXCEPT ![Top(t).target].active = @ + 1]
  /\ Goto(t, "counted")
  /\ UNCHANGED <<owner, quiet, callback, shutdown>>

\* The callbacks in the order of their handles (equal priorities).  A recalled
\* dispatch goes on behind the callback that recalled it.
Snapshot(t) ==
  /\ At(t, "dispatch", "counted")
  /\ LET f == Top(t)
         all == CallbacksOf(f.target)
         rest == IF f.from = None THEN all
                 ELSE IF f.from \in all THEN {c \in all : c > f.from} ELSE {}
     IN SetTop(t, [f EXCEPT !.at = "pick", !.ops = all,
                            !.todo = {c \in rest : callback[c].pre}])
  /\ UNCHANGED <<owner, quiet, target, callback, shutdown>>

\* Mutant: the callback's count is not raised.
PickUncounted(t) ==
  /\ At(t, "dispatch", "pick") /\ Top(t).todo # {}
  /\ LET c == IF Top(t).post THEN Max(Top(t).todo) ELSE Min(Top(t).todo) IN
     SetTop(t, [Top(t) EXCEPT !.at = "check", !.callback = c, !.todo = @ \ {c}])
  /\ UNCHANGED <<owner, quiet, target, callback, shutdown>>

\* InvokeCallback: the count is raised before `enabled` is read.
Pick(t) ==
  /\ At(t, "dispatch", "pick") /\ Top(t).todo # {}
  /\ LET c == IF Top(t).post THEN Max(Top(t).todo) ELSE Min(Top(t).todo) IN
     /\ callback' = [callback EXCEPT ![c].active = @ + 1]
     /\ SetTop(t, [Top(t) EXCEPT !.at = "check", !.callback = c, !.todo = @ \ {c}])
  /\ UNCHANGED <<owner, quiet, target, shutdown>>

Left(c) == [callback EXCEPT ![c].active = @ - 1]

\* Mutant: `enabled` is not read again.
CheckNothing(t) ==
  /\ At(t, "dispatch", "check")
  /\ Goto(t, "in")
  /\ UNCHANGED <<owner, quiet, target, callback, shutdown>>

\* Mutant: a callback that is skipped stays counted.
CheckKeeping(t) ==
  /\ At(t, "dispatch", "check")
  /\ SetTop(t, IF callback[Top(t).callback].enabled THEN [Top(t) EXCEPT !.at = "in"]
               ELSE [Top(t) EXCEPT !.at = "pick", !.callback = None])
  /\ UNCHANGED <<owner, quiet, target, callback, shutdown>>

Check(t) ==
  /\ At(t, "dispatch", "check")
  /\ IF callback[Top(t).callback].enabled
     THEN /\ Goto(t, "in")
          /\ UNCHANGED callback
     ELSE /\ SetTop(t, [Top(t) EXCEPT !.at = "pick", !.callback = None])
          /\ callback' = Left(Top(t).callback)
  /\ UNCHANGED <<owner, quiet, target, shutdown>>

\* A PRE callback may supersede the original; the answers that only change the
\* result are alike here.
Answer(t, supersede) ==
  /\ At(t, "dispatch", "in")
  /\ LET f == Top(t) IN
     /\ supersede => ~f.post
     /\ callback' = Left(f.callback)
     /\ SetTop(t, [f EXCEPT !.at = "pick", !.callback = None,
                            !.superseded = @ \/ supersede,
                            !.todo = IF f.recalled THEN {} ELSE @])
  /\ UNCHANGED <<owner, quiet, target, shutdown>>

\* CallOriginal and Recall are for PRE callbacks of a dispatch that has not
\* called the original.
MayCallOriginal(f) == ~f.post /\ f.calls = 0 /\ ~f.recalled /\ ~f.superseded

CallOriginal(t) ==
  /\ At(t, "dispatch", "in") /\ MayCallOriginal(Top(t))
  /\ SetTop(t, [Top(t) EXCEPT !.at = "explicit", !.calls = @ + 1])
  /\ UNCHANGED <<owner, quiet, target, callback, shutdown>>

Recall(t) ==
  /\ At(t, "dispatch", "in") /\ MayCallOriginal(Top(t)) /\ depth[t] < MaxDepth
  /\ LET f == Top(t) IN
     frame' = [frame EXCEPT ![t] = [@ EXCEPT
                 ![depth[t]] = [f EXCEPT !.at = "recalling"],
                 ![depth[t] + 1] = [Entry(f.target) EXCEPT !.from = f.callback]]]
  /\ depth' = [depth EXCEPT ![t] = @ + 1]
  /\ UNCHANGED <<owner, quiet, target, callback, shutdown>>

\* The original, or the recalled dispatch, returns to the callback.
BackInCallback(t) ==
  /\ \/ At(t, "dispatch", "explicit") /\ Goto(t, "in")
     \/ /\ At(t, "dispatch", "recalling")
        /\ SetTop(t, [Top(t) EXCEPT !.at = "in", !.recalled = TRUE])
  /\ UNCHANGED <<owner, quiet, target, callback, shutdown>>

\* Mutant: an original that a callback has called is called again.
OriginalUnlessSuperseded(t) ==
  /\ At(t, "dispatch", "pick") /\ Top(t).todo = {} /\ ~Top(t).post
  /\ LET f == Top(t) IN
     SetTop(t, IF ~f.recalled /\ ~f.superseded
               THEN [f EXCEPT !.at = "original", !.calls = @ + 1]
               ELSE [f EXCEPT !.post = TRUE,
                       !.todo = IF f.recalled THEN {} ELSE {c \in f.ops : ~callback[c].pre}])
  /\ UNCHANGED <<owner, quiet, target, callback, shutdown>>

\* After the PRE callbacks: the original, unless it was called or superseded.
Original(t) ==
  /\ At(t, "dispatch", "pick") /\ Top(t).todo = {} /\ ~Top(t).post
  /\ LET f == Top(t) IN
     SetTop(t, IF ~f.recalled /\ ~f.superseded /\ f.calls = 0
               THEN [f EXCEPT !.at = "original", !.calls = @ + 1]
               ELSE [f EXCEPT !.post = TRUE,
                       !.todo = IF f.recalled THEN {} ELSE {c \in f.ops : ~callback[c].pre}])
  /\ UNCHANGED <<owner, quiet, target, callback, shutdown>>

OriginalReturns(t) ==
  /\ At(t, "dispatch", "original")
  /\ LET f == Top(t) IN
     SetTop(t, [f EXCEPT !.at = "pick", !.post = TRUE,
                         !.todo = {c \in f.ops : ~callback[c].pre}])
  /\ UNCHANGED <<owner, quiet, target, callback, shutdown>>

\* The end of Dispatch.
Leave(t) ==
  /\ At(t, "dispatch", "pick") /\ Top(t).todo = {} /\ Top(t).post
  /\ target' = [target EXCEPT ![Top(t).target].active = @ - 1]
  /\ Pop(t)
  /\ UNCHANGED <<owner, quiet, callback, shutdown>>

-----------------------------------------------------------------------------
\* InvokeScalar: the entry is chosen under physical_mutex.  flag: the closure or
\* the trampoline was chosen, otherwise the function itself is called.
DirectCall(t, p, r) ==
  /\ Running(t) /\ OwnerReady(p) /\ r \in Live /\ p \in target[r].leases
  /\ ~target[r].transition /\ target[r].fn \in Detours
  /\ target' = [target EXCEPT ![r].active = @ + 1, ![r].direct = @ + 1]
  /\ Push(t, [Idle EXCEPT !.call = "direct", !.at = "direct", !.target = r,
                          !.flag = target[r].storage])
  /\ UNCHANGED <<owner, quiet, callback, shutdown>>

DirectReturns(t) ==
  /\ At(t, "direct", "direct")
  /\ LET r == Top(t).target IN
     target' = [target EXCEPT ![r].active = @ - 1, ![r].direct = @ - 1]
  /\ Pop(t)
  /\ UNCHANGED <<owner, quiet, callback, shutdown>>

-----------------------------------------------------------------------------
PluginCall(t, p) ==
  \/ \E r \in Targets : \/ StartReleaseTarget(t, p, r) \/ StartAdd(t, p, r)
                        \/ DirectCall(t, p, r)
  \/ StartResolve(t, p)
  \/ \E c \in Callbacks : StartRemove(t, p, c) \/ \E on \in BOOLEAN : SetEnabled(t, p, c, on)

CallStep(t) ==
  \/ CollectAgain(t) \/ Collect(t)
  \/ Resolve(t) \/ ReleaseTarget(t)
  \/ Add(t) \/ Install(t) \/ AddDone(t)
  \/ Remove(t) \/ RestoreForRemove(t) \/ AwaitCallback(t) \/ RemoveDone(t) \/ SetDone(t)
  \/ DirectReturns(t)

HostCall(t) ==
  \/ \E p \in Plugins : \/ \E active \in BOOLEAN : Authorize(t, p, active)
                        \/ Restore(t, p) \/ Deactivate(t, p) \/ StartRelease(t, p)
  \/ StartShutdown(t)

HostStep(t) ==
  \/ Activate(t) \/ DeactivateDone(t)
  \/ Release(t) \/ ReleaseOp(t) \/ ReleaseRetry(t) \/ ReleaseDrain(t) \/ ReleaseDone(t)
  \/ ShutdownRestore(t) \/ ShutdownWaited(t) \/ ShutdownDestroy(t) \/ ShutdownDone(t)

DispatchStep(t) ==
  \/ \E r \in Targets : Enter(t, r)
  \/ Bind(t) \/ Count(t) \/ Snapshot(t) \/ Pick(t) \/ Check(t)
  \/ \E supersede \in BOOLEAN : Answer(t, supersede)
  \/ CallOriginal(t) \/ Recall(t) \/ BackInCallback(t)
  \/ Original(t) \/ OriginalReturns(t) \/ Leave(t)

Next ==
  \E t \in Threads :
    \/ \E p \in Plugins : PluginCall(t, p)
    \/ CallStep(t) \/ HostCall(t) \/ HostStep(t) \/ DispatchStep(t)

Spec == Init /\ [][Next]_vars

-----------------------------------------------------------------------------
InDispatch(f) == f.call = "dispatch"
Counted(f) == OnTargetStack(f)
Holds(f, c) == InDispatch(f) /\ f.callback = c
Positions == Threads \X (1..MaxDepth)
FrameAt(x) == frame[x[1]][x[2]]
CountOf(S) == Cardinality(S)

\* Nothing that a thread still runs is freed: not the closure it came through
\* nor the trampoline it may yet call, not even before the dispatch is counted,
\* and not the entry a direct call has chosen (the comment in InvokeScalar).
\* A dispatch has only a raw pointer to the record, which pins the function's
\* image, so that stays too.
StorageInUse ==
  \A f \in AllFrames :
    /\ InDispatch(f) \/ (f.call = "direct" /\ f.flag) => target[f.target].storage
    /\ InDispatch(f) => target[f.target].state \in {"live", "retired"}

\* active and direct_calls are what WaitForZero and the BUSY answers take them
\* for: the number of threads inside, on every path of Dispatch.
ActiveBalanced ==
  /\ \A r \in Targets :
       /\ target[r].active = CountOf({x \in Positions : Counted(FrameAt(x)) /\ FrameAt(x).target = r})
       /\ target[r].direct = CountOf({x \in Positions : FrameAt(x).call = "direct" /\ FrameAt(x).target = r})
  /\ \A c \in Callbacks :
       callback[c].active = CountOf({x \in Positions : Holds(FrameAt(x), c)})

\* A hook is installed exactly as long as its target has callbacks, except while
\* somebody is changing that.
InstalledIffUsed ==
  shutdown = "no" =>
    \A r \in Targets :
      /\ r \in Live /\ ~target[r].transition => (target[r].enabled <=> CallbacksOf(r) # {})
      /\ target[r].state \in {"retired", "gone"} => ~target[r].enabled

\* transition is set exactly while one call is in the middle of a change, so it
\* is never left behind: every path of AddCallback, RemoveCallback and
\* ReleasePlugin clears it.
Changes(f, r) ==
  \/ f.call = "add" /\ f.target = r /\ f.at \in {"install", "finish"}
  \/ f.call = "remove" /\ f.target = r /\ f.at \in {"restore", "wait"}
  \/ f.call = "release" /\ f.at \in {"restore", "wait", "drain"} /\ Concerns(r, f.plugin)
TransitionHeld ==
  shutdown = "no" =>
    \A r \in Targets :
      CountOf({x \in Positions : Changes(FrameAt(x), r)}) =
        IF target[r].transition THEN 1 ELSE 0

\* The original runs at most once for one dispatch, whatever the callbacks do,
\* and a dispatch that goes on after a recall or a supersede does not run it.
OriginalOnce == \A f \in AllFrames : f.calls <= 1 /\ ~(f.recalled /\ f.calls = 1)

\* The entry a direct call has chosen is the one the target has until the call
\* returns: no first installation happens meanwhile.
DirectEntryStable ==
  \A f \in AllFrames : f.call = "direct" => (f.flag <=> target[f.target].storage)

\* When ReleasePlugin has answered OK nothing in the registry names the plugin
\* any more.
ReleasedIsGone ==
  \A p \in Plugins : p \in quiet /\ ~owner[p].known =>
    /\ OwnedBy(p) = {}
    /\ \A r \in Live : p \notin target[r].leases
    /\ shutdown = "no" => \A r \in Live : p \notin target[r].bindings

\* After Shutdown answered TRUE no hook is installed, nothing is left to free,
\* and no thread is in a dispatch.
ShutdownIsFinal ==
  shutdown = "complete" =>
    /\ \A r \in Targets : ~target[r].enabled /\ ~target[r].storage
    /\ \A f \in AllFrames : ~InDispatch(f)

\* What was released stays released: a plugin's part after ReleasePlugin, and
\* everything after Shutdown, whatever the threads still do.
GoneForGood == ReleasedIsGone /\ ShutdownIsFinal

\* Enabled callbacks of a target, or of a snapshot that is being run.
Callable ==
  {c \in Callbacks : /\ callback[c].enabled
                    /\ \/ callback[c].state = "live"
                       \/ \E f \in AllFrames : InDispatch(f) /\ c \in f.ops}

\* The refinement mapping: whom a dispatch may call, and who is being called.
Opened == {callback[c].owner : c \in Callable}
InsideOf ==
  [t \in Threads |-> [d \in 1..MaxDepth |->
     IF InCallback(frame[t][d]) THEN callback[frame[t][d].callback].owner ELSE NoPlugin]]

Layer == INSTANCE DispatchLayer WITH open <- Opened, inside <- InsideOf, stopped <- quiet

\* KeelHook keeps the contract of a dispatch layer: a callback begins only while one
\* of its plugin is enabled, and Deactivate, ReleasePlugin and Shutdown answer OK only
\* when none runs and none is enabled.
ImplementsLayer == Layer!Spec

\* A plugin whose Deactivate answered OK is not called until it is activated again.
QuietIsSilent == Layer!StoppedIsSilent
-----------------------------------------------------------------------------
(* The inductive invariant.                                                *)

Depths == 1..MaxDepth

\* A frame by itself: which call is at which point, and what it may name there.
DispatchOK(f) ==
  /\ f.at \in {"entered", "bound", "counted", "pick", "check", "in",
               "explicit", "recalling", "original"}
  /\ f.target \in Targets
  /\ f.ops \subseteq Callbacks /\ f.todo \subseteq f.ops
  /\ IF f.at \in {"check", "in", "explicit", "recalling"}
     THEN f.callback \in f.ops ELSE f.callback = None
  /\ f.calls <= 1 /\ (f.recalled \/ f.at = "recalling" => f.calls = 0)

PluginCallOK(f) ==
  /\ f.call = "resolve" => f.at \in {"collect", "begin"}
  /\ f.call = "release_target" => f.at \in {"collect", "begin"} /\ f.target \in Targets
  /\ f.call = "add" => /\ f.at \in {"collect", "begin", "install", "finish"}
                       /\ f.target \in Targets
                       /\ f.at \in {"install", "finish"} => f.callback \in Callbacks
                       /\ f.at # "finish" => ~f.flag
  /\ f.call = "remove" => /\ f.at \in {"collect", "begin", "restore", "wait"}
                          /\ f.target \in Targets /\ f.callback \in Callbacks
                          /\ f.at \in {"restore", "wait"} => f.todo \subseteq {f.callback}

HostCallOK(f) ==
  /\ f.call = "activate" => f.at = "begin"
  /\ f.call = "deactivate" => f.at = "wait"
  /\ f.call = "release" =>
       /\ f.at \in {"collect", "begin", "restore", "wait", "drain"}
       /\ f.ops \subseteq Targets /\ f.ops \cap f.failed = {}
       /\ f.at \in {"wait", "drain"} => f.target \in f.ops
       /\ f.at \in {"collect", "begin"} => f.ops = {} /\ f.failed = {}
       /\ f.at \in {"collect", "begin", "restore"} => ~f.flag
  /\ f.call = "shutdown" =>
       /\ f.at \in {"restore", "wait", "destroy"}
       /\ f.ops \subseteq Targets /\ f.todo \subseteq Callbacks

FrameOK(f) ==
  /\ f.call = "none" => f = Idle
  /\ f.call = "dispatch" => DispatchOK(f)
  /\ f.call # "dispatch" => f.calls = 0
  /\ f.call = "direct" => f.at = "direct" /\ f.target \in Targets
  /\ f.call \in {"resolve", "release_target", "add", "remove", "activate",
                 "deactivate", "release"} => f.plugin \in Plugins
  /\ PluginCallOK(f) /\ HostCallOK(f)
  /\ f.call = "set" => f.at = "wait"
  /\ f.call = "collect" => f.at \in {"begin", "collect"}
  /\ f.at = "wait" => f.todo \subseteq Callbacks
  /\ f.at = "collect" => f.todo \subseteq Targets

\* A frame that is not the innermost of its thread runs engine or plugin code.
StackOK ==
  \A t \in Threads, d \in Depths :
    /\ FrameOK(frame[t][d])
    /\ d <= depth[t] <=> frame[t][d].call # "none"
    /\ d < depth[t] => frame[t][d].at \in {"in", "explicit", "recalling", "original", "direct"}

\* A callback in callbacks_ has an owner and a target.
LiveOK ==
  \A c \in Callbacks : callback[c].state = "live" =>
    callback[c].owner \in Plugins /\ callback[c].target \in Targets

\* A dispatch has callbacks in its snapshot that have been added.
SnapshotOK ==
  \A t \in Threads, d \in Depths : frame[t][d].call = "dispatch" =>
    \A c \in frame[t][d].ops : callback[c].state # "free"

\* Who is where, and the counts that say so.
CountInv == TypeOK /\ StackOK /\ LiveOK /\ SnapshotOK /\ ActiveBalanced

\* A call that has put its targets in transition and is not done with them.
Changing(f) ==
  \/ f.call = "add" /\ f.at \in {"install", "finish"}
  \/ f.call = "remove" /\ f.at \in {"restore", "wait"}
  \/ f.call = "release" /\ f.at \in {"restore", "wait", "drain"}

\* What it goes by outside the locks stays: the callback of an AddCallback or a
\* RemoveCallback is registered, the plugin of a ReleasePlugin is not accepting.
\* A RemoveCallback that waits for its turn may find the callback gone, but never
\* on another target.
ReliesOn(f) ==
  /\ Changing(f) => IF f.call = "release"
                    THEN owner[f.plugin].known /\ ~owner[f.plugin].accepting
                    ELSE f.callback \in OwnedOn(f.plugin, f.target)
  /\ f.call = "remove" =>
       /\ callback[f.callback].state # "free"
       /\ callback[f.callback].state = "live" => callback[f.callback].target = f.target

CallsOK ==
  \A t \in Threads, d \in Depths :
    /\ ReliesOn(frame[t][d])
    /\ frame[t][d].call \notin {"none", "dispatch", "shutdown"} => shutdown = "no"
    /\ frame[t][d].call = "shutdown" => shutdown # "no"

\* The host makes one call at a time for a plugin.
OneHostCall ==
  \A t, u \in Threads, d, e \in Depths :
    /\ frame[t][d].call \in HostCalls /\ frame[u][e].call \in HostCalls
    /\ frame[t][d].plugin = frame[u][e].plugin
    => t = u /\ d = e

\* Callbacks and leases are of plugins that the registry knows, callbacks on
\* targets in targets_.
RegistryOK ==
  /\ \A c \in Callbacks : callback[c].state = "live" =>
       /\ shutdown = "no" /\ owner[callback[c].owner].known
       /\ callback[c].target \in Live
  /\ \A r \in Live : /\ \A p \in target[r].leases : owner[p].known
                     /\ shutdown = "no" => target[r].bindings = target[r].leases
  /\ shutdown # "no" => \A p \in Plugins : ~owner[p].known

\* A target in transition has one call that changes it.
OneChange ==
  \A t, u \in Threads, d, e \in Depths, r \in Targets :
    Changes(frame[t][d], r) /\ Changes(frame[u][e], r) => t = u /\ d = e
Marked ==
  \A t \in Threads, d \in Depths, r \in Targets :
    Changes(frame[t][d], r) => target[r].transition
Ended ==
  shutdown = "no" =>
    \A r \in Targets : target[r].transition =>
      \E t \in Threads, d \in Depths : Changes(frame[t][d], r)

\* Transitions of targets begin and end with the calls that need them.
TransitionInv ==
  CallsOK /\ OneHostCall /\ RegistryOK /\ OneChange /\ Marked /\ Ended

\* Whether the hook is there, at each point of a change of its target.
Untouched(f) ==
  (IF f.at = "restore" THEN f.ops ELSE f.ops \ {f.target}) \cup f.failed
    \cup (IF f.at = "wait" /\ f.flag THEN {f.target} ELSE {})
InstalledFor(f) ==
  /\ f.call = "add" /\ f.at = "install" =>
       CallbacksOf(f.target) = {f.callback} /\ ~target[f.target].enabled
  /\ f.call = "add" /\ f.at = "finish" =>
       CallbacksOf(f.target) = {f.callback} /\ (target[f.target].enabled <=> ~f.flag)
  /\ f.call = "remove" /\ f.at = "restore" =>
       CallbacksOf(f.target) = {f.callback} /\ target[f.target].enabled
  /\ f.call = "remove" /\ f.at = "wait" =>
       (target[f.target].enabled <=> CallbacksOf(f.target) # {f.callback})
  /\ f.call = "release" /\ Changing(f) =>
       /\ \A r \in Targets : Concerns(r, f.plugin) =>
            (target[r].enabled <=> IF r \in Untouched(f) THEN CallbacksOf(r) # {}
                                   ELSE CallbacksOf(r) \ OwnedBy(f.plugin) # {})
       /\ f.at = "wait" /\ f.flag =>
            /\ OwnedOn(f.plugin, f.target) # {}
            /\ CallbacksOf(f.target) \subseteq OwnedBy(f.plugin)

InstalledOK ==
  /\ \A t \in Threads, d \in Depths : InstalledFor(frame[t][d])
  /\ InstalledIffUsed
  /\ shutdown = "no" => \A r \in Targets : target[r].state # "live" => ~target[r].enabled

\* What is there for a thread inside to run.
StorageFor(f) ==
  /\ f.call = "dispatch" => target[f.target].storage
  /\ f.call = "direct" => (f.flag <=> target[f.target].storage)
  /\ f.call = "add" /\ f.at = "install" => target[f.target].direct = 0
  /\ f.call = "shutdown" /\ f.at = "destroy" =>
       \A r \in Targets : target[r].storage => r \in f.ops \cup f.failed
StorageOK ==
  /\ \A r \in Targets : /\ target[r].enabled => target[r].storage
                        /\ target[r].storage => target[r].state \in {"live", "retired"}
  /\ \A t \in Threads, d \in Depths : StorageFor(frame[t][d])
  /\ shutdown = "complete" => \A r \in Targets : ~target[r].storage

\* A callback's function is being executed.
Runs(c) == \E t \in Threads, d \in Depths : InCallback(frame[t][d]) /\ frame[t][d].callback = c

\* Disabled, and not running unless it is still waited for.
Quieting(c, waited) == ~callback[c].enabled /\ (Runs(c) => c \in waited)

\* A dispatch has callbacks of its target in its snapshot, or what was erased since.
SnapshotsOn ==
  \A t \in Threads, d \in Depths : InDispatch(frame[t][d]) =>
    \A c \in frame[t][d].ops :
      callback[c].state = "live" => callback[c].target = frame[t][d].target

\* No dispatch calls a callback that was erased.
ErasedIsSilent ==
  \A c \in Callbacks : callback[c].state = "erased" =>
    /\ ~Runs(c)
    /\ callback[c].enabled => \A t \in Threads, d \in Depths :
                                InDispatch(frame[t][d]) => c \notin frame[t][d].ops

\* Nobody enables a callback of a quiet plugin.
QuietIsOff(p) == ~OwnerReady(p) /\ \A c \in OwnedBy(p) : Quieting(c, {})

\* What a call has achieved of its waiting.
SilentFor(f) ==
  /\ f.call = "add" /\ f.at = "finish" /\ f.flag =>
       \A u \in Threads, e \in Depths : frame[u][e].target = f.target =>
         ~InDispatch(frame[u][e]) /\ ~(frame[u][e].call = "direct" /\ frame[u][e].flag)
  /\ f.call = "activate" => f.plugin \notin quiet
  /\ f.call = "deactivate" =>
       ~owner[f.plugin].accepting /\ \A c \in OwnedBy(f.plugin) : Quieting(c, f.todo)
  /\ f.call = "remove" /\ f.at \in {"restore", "wait"} => Quieting(f.callback, f.todo)
  /\ f.call = "remove" /\ f.at = "restore" /\ f.flag => f.plugin \notin quiet
  /\ f.call = "release" /\ Changing(f) =>
       \A c \in OwnedBy(f.plugin) :
         /\ ~callback[c].enabled
         /\ Runs(c) => /\ callback[c].target \in f.ops
                       /\ f.at \in {"wait", "drain"} /\ callback[c].target = f.target =>
                            f.at = "wait" /\ c \in f.todo

\* Calls that the host and the plugins do not make at the same time: a RemoveCallback
\* while the plugin is activated, or one that may enable its callback again while the
\* plugin is deactivated, and one of the callback that is running.
CallsApart ==
  \A t, u \in Threads, d, e \in Depths : frame[t][d].call = "remove" =>
    /\ frame[u][e].call = "activate" => frame[u][e].plugin # frame[t][d].plugin
    /\ frame[u][e].call = "deactivate" /\ frame[t][d].at = "restore" /\ frame[t][d].flag =>
         frame[u][e].plugin # frame[t][d].plugin
    /\ t = u /\ InCallback(frame[u][e]) => frame[u][e].callback # frame[t][d].callback

SilentOK ==
  /\ SnapshotsOn /\ ErasedIsSilent /\ CallsApart
  /\ \A p \in quiet : QuietIsOff(p)
  /\ \A t \in Threads, d \in Depths : SilentFor(frame[t][d])
=============================================================================
