------------------------------ MODULE HookHandles ------------------------------
(***************************************************************************)
(* The handles of KeelHook that a plugin holds                             *)
(* (sdk/include/keels2/keelhook.hpp): Target, Callback and Hook, the       *)
(* TargetState they share, and Service.  The host has one lease per plugin *)
(* and target, however often the plugin resolves it, so the SDK counts the *)
(* handles and releases the lease with the last one.  The host answers     *)
(* BUSY while another plugin changes the target or calls it directly; a    *)
(* handle then keeps what it has, and the plugin may try again.            *)
(*                                                                         *)
(* One plugin and one function.  Slot i is a Target and a Callback, or the *)
(* Hook made of the two.  A handle is used by one thread at a time; the    *)
(* TargetState is shared, under keelhook_targets_mutex.                    *)
(***************************************************************************)
EXTENDS Integers, SequencesExt, FiniteSets

CONSTANTS
  Threads,
  Slots,          \* handles the plugin has room for
  MaxCallbacks,   \* bound: callbacks ever added
  MaxDrops,       \* bound: handles destroyed although the host answered BUSY
  MaxDepth        \* bound: open calls of a thread

VARIABLES
  open,       \* ContextState: accepting_resources
  host,       \* the host: knows the plugin, its lease, the target busy, its callbacks
  states,     \* each TargetState: references, and whether it has its handle
  targets,    \* keelhook_targets: the state registered for the handle, or 0
  target,     \* Target of each slot: its state_, or 0
  callback,   \* Callback of each slot: its target_, handle_ and binding_, or 0
  frames,     \* open calls of each thread, innermost last
  drops       \* history: references of destroyed handles, bindings of destroyed callbacks,
              \* callbacks removed in their own call

vars == <<open, host, states, targets, target, callback, frames, drops>>

States == 1..(2 * Cardinality(Slots) + 1)
Callbacks == 1..MaxCallbacks
NoCallback == [target |-> 0, handle |-> 0, binding |-> 0]
\* Whose Reset comes next: nothing, the target's, or both have been given up for good.
Thens == {"none", "target", "destroy", "destroy target"}
Frame == [call : {"add", "hook", "remove", "callback"}, at : {"host", "locked", "entry", "user"},
          i : Slots \cup {0}, j : Slots \cup {0}, c : 0..MaxCallbacks, then : Thens]

TypeOK ==
  /\ open \in BOOLEAN
  /\ host \in [known : BOOLEAN, leased : BOOLEAN, busy : BOOLEAN, made : 0..MaxCallbacks,
               callbacks : SUBSET Callbacks, enabled : SUBSET Callbacks]
  /\ states \in [States -> [references : Nat, live : BOOLEAN]]
  /\ targets \in States \cup {0}
  /\ target \in [Slots -> States \cup {0}]
  /\ callback \in [Slots -> [target : States \cup {0}, handle : 0..MaxCallbacks,
                             binding : 0..MaxCallbacks]]
  /\ \A t \in Threads : \A d \in 1..Len(frames[t]) : frames[t][d] \in Frame
  /\ drops \in [references : 0..MaxDrops, bindings : SUBSET Callbacks, own : SUBSET Callbacks]

Init ==
  /\ open = TRUE
  /\ host = [known |-> TRUE, leased |-> FALSE, busy |-> FALSE, made |-> 0,
             callbacks |-> {}, enabled |-> {}]
  /\ states = [s \in States |-> [references |-> 0, live |-> FALSE]]
  /\ targets = 0
  /\ target = [i \in Slots |-> 0]
  /\ callback = [i \in Slots |-> NoCallback]
  /\ frames = [t \in Threads |-> <<>>]
  /\ drops = [references |-> 0, bindings |-> {}, own |-> {}]

-----------------------------------------------------------------------------
Top(t) == Last(frames[t])
At(t, call, at) == frames[t] # <<>> /\ Top(t).call = call /\ Top(t).at = at
Push(t, f) == Len(frames[t]) < MaxDepth /\ frames' = [frames EXCEPT ![t] = Append(@, f)]
Replace(t, f) == frames' = [frames EXCEPT ![t] = Append(Front(@), f)]
Pop(t) == frames' = [frames EXCEPT ![t] = Front(@)]
Open == UNION {Range(frames[t]) : t \in Threads}
User(t) == frames[t] # <<>> => Top(t).at = "user"
Calls(c) == {f \in Open : f.call = "callback" /\ f.c = c}
Own(t, c) == \E f \in Range(frames[t]) : f.call = "callback" /\ f.c = c
\* The handles of a slot that no call is working on.
TargetFree(i) == \A f \in Open : f.call # "callback" => f.i # i
CallbackFree(j) == \A f \in Open : f.call # "callback" => f.j # j
Holders(s) == {<<"target", i>> : i \in {k \in Slots : target[k] = s}}
              \cup {<<"callback", j>> : j \in {k \in Slots : callback[k].target = s}}
Unused == CHOOSE s \in States : Holders(s) = {}
Works(call, at, i, j, c, then) ==
  [call |-> call, at |-> at, i |-> i, j |-> j, c |-> c, then |-> then]

-----------------------------------------------------------------------------
(* The host: keelhook_service.cpp.                                         *)

Busy ==
  /\ host' = [host EXCEPT !.busy = ~@]
  /\ UNCHANGED <<open, states, targets, target, callback, frames, drops>>

\* release_target: its answer, and the lease afterwards.
ReleaseTarget ==
  IF ~open \/ ~host.known THEN "not ready"
  ELSE IF ~host.leased THEN "not found"
  ELSE IF host.busy \/ host.callbacks # {} THEN "busy" ELSE "ok"
Gone(result) == result \in {"ok", "not found", "not ready"}

Call(t, c) ==
  /\ User(t) /\ host.known /\ c \in host.enabled
  /\ Push(t, Works("callback", "entry", 0, 0, c, "none"))
  /\ UNCHANGED <<open, host, states, targets, target, callback, drops>>
Invoked(t) ==
  /\ At(t, "callback", "entry")
  /\ Replace(t, [Top(t) EXCEPT !.at = "user"])
  /\ UNCHANGED <<open, host, states, targets, target, callback, drops>>
Returns(t) ==
  /\ At(t, "callback", "user")
  /\ Pop(t)
  /\ UNCHANGED <<open, host, states, targets, target, callback, drops>>

\* The plugin is released when its callbacks have returned; its context is closed after.
Released ==
  /\ host.known /\ \A f \in Open : f.call # "callback"
  /\ host' = [host EXCEPT !.known = FALSE, !.leased = FALSE, !.callbacks = {}, !.enabled = {}]
  /\ UNCHANGED <<open, states, targets, target, callback, frames, drops>>
DisableResources ==
  /\ open /\ ~host.known
  /\ open' = FALSE
  /\ UNCHANGED <<host, states, targets, target, callback, frames, drops>>

-----------------------------------------------------------------------------
(* TargetState.                                                            *)

\* Mutant: the reference is gone although the host keeps the lease.
ReleaseReferenceLockedOnce(s) ==
  LET last == states[s].references = 1
      result == IF states[s].references = 0 THEN "not found"
                ELSE IF last THEN ReleaseTarget ELSE "ok"
  IN  /\ host' = [host EXCEPT !.leased = @ /\ ~(last /\ result = "ok")]
      /\ targets' = IF last /\ Gone(result) /\ targets = s THEN 0 ELSE targets
      /\ states' = [states EXCEPT ![s].references = IF @ = 0 THEN 0 ELSE @ - 1]

\* The last reference is the lease.  If the host keeps it, so does the state.
ReleaseReferenceLocked(s) ==
  LET last == states[s].references = 1
      result == IF states[s].references = 0 THEN "not found"
                ELSE IF last THEN ReleaseTarget ELSE "ok"
  IN  /\ host' = [host EXCEPT !.leased = @ /\ ~(last /\ result = "ok")]
      /\ targets' = IF last /\ Gone(result) /\ targets = s THEN 0 ELSE targets
      /\ states' = IF last /\ Gone(result)
                   THEN [states EXCEPT ![s] = [references |-> 0, live |-> FALSE]]
                   ELSE IF last THEN states
                   ELSE [states EXCEPT ![s].references = IF @ = 0 THEN 0 ELSE @ - 1]
Kept(s) == states[s].references = 1 /\ ReleaseTarget = "busy"

\* Service::ResolveTarget and ResolveVirtualTarget.  A state nobody holds is not found by
\* its weak_ptr, and a new one takes its place.
AdoptResolvedTargetLocked(i) ==
  LET known == targets # 0 /\ Holders(targets) # {}
      s == IF known THEN targets ELSE Unused
  IN  /\ states' = [states EXCEPT ![s] =
                      [references |-> IF known THEN @.references + 1 ELSE 1, live |-> TRUE]]
      /\ targets' = s
      /\ target' = [target EXCEPT ![i] = s]
      /\ host' = [host EXCEPT !.leased = TRUE]

-----------------------------------------------------------------------------
(* Service.                                                                *)

Resolve(t, i) ==
  /\ User(t) /\ TargetFree(i) /\ target[i] = 0
  /\ open /\ host.known /\ ~host.busy
  /\ AdoptResolvedTargetLocked(i)
  /\ UNCHANGED <<open, callback, frames, drops>>

\* AddCallback: the host has the callback before it is counted.
AddCallback(t, i, j) ==
  /\ User(t) /\ TargetFree(i) /\ CallbackFree(j)
  /\ target[i] # 0 /\ states[target[i]].live /\ open
  /\ callback[j].target = 0 /\ callback[j].handle = 0
  /\ host.known /\ host.leased /\ ~host.busy /\ host.made < MaxCallbacks
  /\ LET c == host.made + 1 IN
       /\ host' = [host EXCEPT !.made = c, !.callbacks = @ \cup {c}, !.enabled = @ \cup {c}]
       /\ Push(t, Works("add", "host", i, j, c, "none"))
  /\ UNCHANGED <<open, states, targets, target, callback, drops>>

\* Mutant: the callback's handle does not count.
AddedUncounted(t) ==
  /\ At(t, "add", "host")
  /\ LET f == Top(t) IN
       callback' = [callback EXCEPT ![f.j] =
                      [target |-> target[f.i], handle |-> f.c, binding |-> f.c]]
  /\ Pop(t)
  /\ UNCHANGED <<open, host, states, targets, target, drops>>

Added(t) ==
  /\ At(t, "add", "host")
  /\ LET f == Top(t) IN
       /\ states' = [states EXCEPT ![target[f.i]].references = @ + 1]
       /\ callback' = [callback EXCEPT ![f.j] =
                         [target |-> target[f.i], handle |-> f.c, binding |-> f.c]]
  /\ Pop(t)
  /\ UNCHANGED <<open, host, targets, target, drops>>

\* AddVirtualHook and AddMethodHook: a target, then its callback; the target is given up
\* if the host refuses the callback.
AddHook(t, i) ==
  /\ User(t) /\ TargetFree(i) /\ CallbackFree(i) /\ target[i] = 0
  /\ callback[i] = NoCallback
  /\ open /\ host.known /\ ~host.busy
  /\ AdoptResolvedTargetLocked(i)
  /\ Push(t, Works("hook", "host", i, i, 0, "none"))
  /\ UNCHANGED <<open, callback, drops>>
HookCallback(t) ==
  /\ At(t, "hook", "host")
  /\ LET i == Top(t).i IN
     IF open /\ host.known /\ ~host.busy /\ host.made < MaxCallbacks
     THEN LET c == host.made + 1 IN
          /\ host' = [host EXCEPT !.made = c, !.callbacks = @ \cup {c}, !.enabled = @ \cup {c}]
          /\ Replace(t, Works("add", "host", i, i, c, "none"))
          /\ UNCHANGED <<states, targets, target, drops>>
     ELSE /\ ReleaseReferenceLocked(target[i])
          /\ Kept(target[i]) => drops.references < MaxDrops
          /\ drops' = [drops EXCEPT !.references = @ + IF Kept(target[i]) THEN 1 ELSE 0]
          /\ target' = [target EXCEPT ![i] = 0]
          /\ Pop(t)
  /\ UNCHANGED <<open, callback>>

-----------------------------------------------------------------------------
(* Reset and the destructors, which do not look at the answer.             *)

\* Target::Reset
ResetTarget(t, i) ==
  /\ User(t) /\ TargetFree(i) /\ target[i] # 0
  /\ ReleaseReferenceLocked(target[i])
  /\ target' = [target EXCEPT ![i] = IF Kept(@) THEN @ ELSE 0]
  /\ UNCHANGED <<open, callback, frames, drops>>
DestroyTarget(t, i) ==
  /\ User(t) /\ TargetFree(i) /\ target[i] # 0 /\ Kept(target[i])
  /\ drops.references < MaxDrops
  /\ drops' = [drops EXCEPT !.references = @ + 1]
  /\ target' = [target EXCEPT ![i] = 0]
  /\ UNCHANGED <<open, host, states, targets, callback, frames>>

Refused(j) == open /\ host.known /\ callback[j].handle \in host.callbacks /\ host.busy

\* Callback::Reset, and Hook::Reset, which goes on with the target.  The host disables the
\* callback and waits for it, unless it is called in it.
ResetCallback(t, j, then) ==
  /\ User(t) /\ CallbackFree(j) /\ callback[j].target # 0
  /\ then = "target" => TargetFree(j)
  /\ ~Refused(j)
  /\ LET c == callback[j].handle
         there == open /\ host.known /\ c \in host.callbacks
     IN  /\ host' = [host EXCEPT !.enabled = IF there THEN @ \ {c} ELSE @]
         /\ Push(t, Works("remove", IF there THEN "host" ELSE "locked",
                          IF then = "target" THEN j ELSE 0, j, c, then))
         /\ callback' = [callback EXCEPT ![j].handle = IF there THEN @ ELSE 0]
  /\ UNCHANGED <<open, states, targets, target, drops>>

\* Mutant: the binding goes before the host has waited.
CallbackRemovedEarly(t) ==
  /\ At(t, "remove", "host")
  /\ LET f == Top(t) IN
       /\ drops' = [drops EXCEPT !.own = IF Own(t, f.c) THEN @ \cup {f.c} ELSE @]
       /\ callback' = [callback EXCEPT ![f.j].handle = 0, ![f.j].binding = 0]
       /\ host' = [host EXCEPT !.callbacks = @ \ {f.c}]
       /\ Replace(t, [f EXCEPT !.at = "locked"])
  /\ UNCHANGED <<open, states, targets, target>>

CallbackRemoved(t) ==
  /\ At(t, "remove", "host")
  /\ LET f == Top(t) IN
       /\ Own(t, f.c) \/ Calls(f.c) = {}
       /\ drops' = [drops EXCEPT !.own = IF Own(t, f.c) THEN @ \cup {f.c} ELSE @]
       /\ callback' = [callback EXCEPT ![f.j].handle = 0]
       /\ host' = [host EXCEPT !.callbacks = @ \ {f.c}]
       /\ Replace(t, [f EXCEPT !.at = "locked"])
  /\ UNCHANGED <<open, states, targets, target>>

\* The reference of the callback, under the lock.
CallbackReleased(t) ==
  /\ At(t, "remove", "locked")
  /\ LET f == Top(t)
         s == callback[f.j].target
     IN  /\ ReleaseReferenceLocked(s)
         /\ callback' = [callback EXCEPT ![f.j] = IF Kept(s) THEN @ ELSE NoCallback]
         /\ IF f.then = "target" /\ ~Kept(s) /\ target[f.j] # 0
            THEN Replace(t, [f EXCEPT !.call = "hook", !.at = "locked"])
            ELSE Pop(t)
  /\ UNCHANGED <<open, target, drops>>
HookReleased(t) ==
  /\ At(t, "hook", "locked")
  /\ LET i == Top(t).i IN
       /\ ReleaseReferenceLocked(target[i])
       /\ target' = [target EXCEPT ![i] = IF Kept(@) THEN @ ELSE 0]
  /\ Pop(t)
  /\ UNCHANGED <<open, callback, drops>>
DestroyCallback(t, j) ==
  /\ User(t) /\ CallbackFree(j) /\ callback[j].target # 0
  /\ Refused(j) \/ (callback[j].handle = 0 /\ Kept(callback[j].target))
  /\ drops.references < MaxDrops
  /\ drops' = [drops EXCEPT !.references = @ + 1, !.bindings = @ \cup ({callback[j].binding} \ {0})]
  /\ callback' = [callback EXCEPT ![j] = NoCallback]
  /\ UNCHANGED <<open, host, states, targets, target, frames>>

-----------------------------------------------------------------------------
Step(t) ==
  \/ \E i \in Slots : \/ Resolve(t, i) \/ AddHook(t, i) \/ ResetTarget(t, i)
                      \/ DestroyTarget(t, i) \/ DestroyCallback(t, i)
  \/ \E i, j \in Slots : AddCallback(t, i, j)
  \/ \E j \in Slots, then \in {"none", "target"} : ResetCallback(t, j, then)
  \/ Added(t) \/ HookCallback(t) \/ CallbackRemoved(t) \/ CallbackReleased(t) \/ HookReleased(t)
  \/ \E c \in Callbacks : Call(t, c)
  \/ Invoked(t) \/ Returns(t)
Next == Busy \/ Released \/ DisableResources \/ \E t \in Threads : Step(t)

Spec == Init /\ [][Next]_vars

-----------------------------------------------------------------------------
\* A handle that has its target has the lease of the host behind it, and there is one
\* TargetState for the handle: no thread gives the lease up under another's handle.
HandlesLeased ==
  host.known =>
    /\ \A i \in Slots : target[i] # 0 => states[target[i]].live /\ host.leased
    /\ \A j \in Slots : callback[j].target # 0 => states[callback[j].target].live /\ host.leased
    /\ Cardinality({s \in States : Holders(s) # {}}) <= 1

\* The lease goes with the last handle, also after a Reset that was refused and tried
\* again.  A handle destroyed although the host answered BUSY leaves its reference behind,
\* and the lease stays until the plugin is unloaded.
LastHandleReleases ==
  host.known /\ host.leased /\ drops.references = 0 => \E s \in States : Holders(s) # {}

\* The host has the address of a binding only as long as the plugin keeps it, and none is
\* freed in a call of it.  Exceptions are a Callback destroyed although the host answered
\* BUSY, and one removed in its own call while another thread is in it.
BindingsAlive ==
  \A c \in Callbacks \ (drops.bindings \cup drops.own) :
    c \in host.callbacks \/ Calls(c) # {} =>
      \/ \E j \in Slots : callback[j].binding = c
      \/ \E f \in Open : f.call = "add" /\ f.c = c
================================================================================
