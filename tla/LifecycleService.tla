-------------------------- MODULE LifecycleService --------------------------
(***************************************************************************)
(* The lifecycle event service (host/src/lifecycle_service.cpp): plugins   *)
(* subscribe to engine events, the host activates and deactivates their    *)
(* subscriptions, and events are dispatched meanwhile.                     *)
(*                                                                         *)
(* registry_mutex_ protects the map only: Dispatch calls a snapshot of it  *)
(* without the lock, guarded by the atomics `enabled` and `active` of each *)
(* subscription.  One action is one locked segment, or one access to an    *)
(* atomic outside the lock.                                                *)
(***************************************************************************)
EXTENDS Naturals, FiniteSets

CONSTANTS
  Plugins,
  NoPlugin,
  Threads,
  Dispatchers,       \* threads on which the engine raises events
  MaxSubscriptions,  \* bound: subscriptions ever made
  MaxDepth,          \* bound: nesting of dispatches and calls on a thread
  RecursionLimit,    \* callback_stack_'s size, 64 in the code
  Overlaps           \* may a plugin be activated while an Unsubscribe of one
                     \* of its subscriptions has not returned?

ASSUME ServiceAssumption ==
  /\ NoPlugin \notin Plugins
  /\ Dispatchers \subseteq Threads
  /\ MaxSubscriptions \in Nat /\ MaxDepth \in Nat /\ RecursionLimit \in Nat
  /\ Overlaps \in BOOLEAN
  /\ IsFiniteSet(Threads)

VARIABLES
  sub,       \* the subscriptions, by handle
  next,      \* next_subscription_
  phase,     \* what the host does with each plugin
  frame,     \* the dispatches and calls each thread is in
  depth,     \* how many of them
  shutdown   \* shutting_down_ and shutdown_complete_

threads == <<frame, depth>>
vars == <<sub, next, phase, frame, depth, shutdown>>

\* Handles and sequence numbers are given out together, in the same order.
\* All subscriptions are to one event.
Handles == 1..MaxSubscriptions
NoHandle == 0

Subscription ==
  [registered : BOOLEAN, owner : Plugins \cup {NoPlugin}, enabled : BOOLEAN,
   active : Nat]
NoSubscription ==
  [registered |-> FALSE, owner |-> NoPlugin, enabled |-> FALSE, active |-> 0]

\* "loading", "running": accepting_resources; "closing": Pause, Unload or a
\* failed load stopped that; "quiet": Deactivate answered OK; "gone":
\* ReleasePlugin did.
Phases == {"loading", "running", "closing", "quiet", "gone"}

Calls == {"none", "dispatch", "unsubscribe", "activate", "deactivate",
          "release", "shutdown"}
Points == {"none", "next", "check", "in", "begin", "enabling", "disabling",
           "waiting", "erase"}

Frame == [call : Calls, at : Points, plugin : Plugins \cup {NoPlugin},
          sub : Handles \cup {NoHandle}, todo : SUBSET Handles]

None == [call |-> "none", at |-> "none", plugin |-> NoPlugin,
         sub |-> NoHandle, todo |-> {}]

TypeOK ==
  /\ sub \in [Handles -> Subscription]
  /\ next \in 1..(MaxSubscriptions + 1)
  /\ phase \in [Plugins -> Phases]
  /\ frame \in [Threads -> [1..MaxDepth -> Frame]]
  /\ depth \in [Threads -> 0..MaxDepth]
  /\ shutdown \in {"no", "begun", "complete"}

Init ==
  /\ sub = [s \in Handles |-> NoSubscription]
  /\ next = 1
  /\ phase = [p \in Plugins |-> "loading"]
  /\ frame = [t \in Threads |-> [d \in 1..MaxDepth |-> None]]
  /\ depth = [t \in Threads |-> 0]
  /\ shutdown = "no"

-----------------------------------------------------------------------------
Top(t) == frame[t][depth[t]]
At(t, at) == depth[t] # 0 /\ Top(t).at = at

SetTop(t, f) ==
  /\ frame' = [frame EXCEPT ![t] = [@ EXCEPT ![depth[t]] = f]]
  /\ UNCHANGED depth

Push(t, f) ==
  /\ frame' = [frame EXCEPT ![t] = [@ EXCEPT ![depth[t] + 1] = f]]
  /\ depth' = [depth EXCEPT ![t] = @ + 1]

Pop(t) ==
  /\ frame' = [frame EXCEPT ![t] = [@ EXCEPT ![depth[t]] = None]]
  /\ depth' = [depth EXCEPT ![t] = @ - 1]

\* Thread t runs engine, host or plugin code that may call the service.
CanCall(t) == depth[t] < MaxDepth /\ (depth[t] # 0 => Top(t).at = "in")

\* Mutant: the loop that disables does not hold the lock.
RegistryFreeOfActivations == \A t \in Threads : ~At(t, "enabling")

\* Nobody is in the middle of a loop under registry_mutex_.
RegistryFree ==
  \A t \in Threads : ~At(t, "enabling") /\ ~At(t, "disabling")

Inside(t, d, s) == frame[t][d].at = "in" /\ frame[t][d].sub = s

IsCurrentCallback(t, s) == \E d \in 1..MaxDepth : Inside(t, d, s)
\* Mutant: only the callback that calls Deactivate is looked at.
InnermostOwner(t, p) ==
  depth[t] > 1 /\ \E s \in Handles : Inside(t, depth[t] - 1, s) /\ sub[s].owner = p

IsCurrentOwner(t, p) ==
  \E d \in 1..MaxDepth, s \in Handles : Inside(t, d, s) /\ sub[s].owner = p
CallbackDepth(t) == Cardinality({d \in 1..MaxDepth : frame[t][d].at = "in"})

Registered == {s \in Handles : sub[s].registered}
Owned(p) == {s \in Registered : sub[s].owner = p}

-----------------------------------------------------------------------------
(* The plugins' calls.                                                     *)

\* Mutant: only a plugin that is gone is refused.
SubscribeUnlessGone(t, p) ==
  /\ CanCall(t) /\ RegistryFree
  /\ shutdown = "no" /\ phase[p] # "gone"
  /\ next \in Handles
  /\ sub' = [sub EXCEPT ![next] = [registered |-> TRUE, owner |-> p,
                                   enabled |-> phase[p] # "loading", active |-> 0]]
  /\ next' = next + 1
  /\ UNCHANGED <<phase, threads, shutdown>>

\* A refused Subscribe changes nothing.
Subscribe(t, p) ==
  /\ CanCall(t) /\ RegistryFree
  /\ shutdown = "no" /\ phase[p] \in {"loading", "running"}
  /\ next \in Handles
  /\ sub' = [sub EXCEPT ![next] = [registered |-> TRUE, owner |-> p,
                                   enabled |-> phase[p] = "running", active |-> 0]]
  /\ next' = next + 1
  /\ UNCHANGED <<phase, threads, shutdown>>

\* Inside the subscription's own callback the answer is BUSY.
Unsubscribe(t, s) ==
  /\ CanCall(t) /\ RegistryFree
  /\ s \in Registered
  /\ sub' = [sub EXCEPT ![s].enabled = FALSE]
  /\ IF IsCurrentCallback(t, s)
     THEN UNCHANGED threads
     ELSE Push(t, [None EXCEPT !.call = "unsubscribe", !.at = "waiting",
                               !.sub = s, !.todo = {s}])
  /\ UNCHANGED <<next, phase, shutdown>>

UnsubscribeDone(t) ==
  /\ At(t, "erase") /\ Top(t).call = "unsubscribe"
  /\ RegistryFree
  /\ sub' = [sub EXCEPT ![Top(t).sub].registered = FALSE]
  /\ Pop(t)
  /\ UNCHANGED <<next, phase, shutdown>>

-----------------------------------------------------------------------------
(* The host's calls.  The plugin manager lets one operation at a time work *)
(* on a plugin.                                                            *)

InHand(p) == \E t \in Threads, d \in 1..MaxDepth : frame[t][d].plugin = p

MayActivate(p) ==
  Overlaps \/ \A t \in Threads, d \in 1..MaxDepth :
                frame[t][d].call = "unsubscribe" => sub[frame[t][d].sub].owner # p

\* RestorePluginDispatch, after a load or to resume: under state_mutex_, so
\* the new state and the call of Activate are one step.
Activating(p) ==
  [None EXCEPT !.call = "activate", !.at = "enabling", !.plugin = p, !.todo = Owned(p)]

\* Mutant: Activate does not look at shutting_down_.
RestoreAlways(t, p) ==
  /\ CanCall(t) /\ RegistryFree
  /\ phase[p] \in {"loading", "quiet"} /\ ~InHand(p) /\ MayActivate(p)
  /\ phase' = [phase EXCEPT ![p] = "running"]
  /\ Push(t, Activating(p))
  /\ UNCHANGED <<sub, next, shutdown>>

Restore(t, p) ==
  /\ CanCall(t) /\ RegistryFree
  /\ phase[p] \in {"loading", "quiet"} /\ ~InHand(p) /\ MayActivate(p)
  /\ phase' = [phase EXCEPT ![p] = "running"]
  /\ IF shutdown = "no" THEN Push(t, Activating(p)) ELSE UNCHANGED threads
  /\ UNCHANGED <<sub, next, shutdown>>

\* Pause and Unload stop the plugin's registrations, then deactivate.
Pause(t, p) ==
  /\ CanCall(t)
  /\ phase[p] = "running" /\ ~InHand(p)
  /\ phase' = [phase EXCEPT ![p] = "closing"]
  /\ Push(t, [None EXCEPT !.call = "deactivate", !.at = "begin", !.plugin = p])
  /\ UNCHANGED <<sub, next, shutdown>>

\* The release step of an unload, or of a load that failed.
Release(t, p) ==
  /\ CanCall(t)
  /\ phase[p] \in {"loading", "quiet"} /\ ~InHand(p)
  /\ phase' = [phase EXCEPT ![p] = IF @ = "loading" THEN "closing" ELSE @]
  /\ Push(t, [None EXCEPT !.call = "release", !.at = "begin", !.plugin = p])
  /\ UNCHANGED <<sub, next, shutdown>>

Enable(t) ==
  /\ At(t, "enabling")
  /\ \E s \in Top(t).todo :
        /\ sub' = [sub EXCEPT ![s].enabled = TRUE]
        /\ SetTop(t, [Top(t) EXCEPT !.todo = @ \ {s}])
  /\ UNCHANGED <<next, phase, shutdown>>

Activated(t) ==
  /\ At(t, "enabling") /\ Top(t).todo = {}
  /\ Pop(t)
  /\ UNCHANGED <<sub, next, phase, shutdown>>

\* Deactivate takes the lock.  BUSY inside a callback of the plugin: the host
\* calls RestorePluginDispatch.  ReleasePlugin never gets that answer, for the
\* plugin is quiet by then or was never activated.
DeactivateBusy(t) ==
  LET p == Top(t).plugin IN
  /\ At(t, "begin") /\ RegistryFree
  /\ IsCurrentOwner(t, p) /\ MayActivate(p)
  /\ phase' = [phase EXCEPT ![p] = "running"]
  /\ IF shutdown = "no" THEN SetTop(t, Activating(p)) ELSE Pop(t)
  /\ UNCHANGED <<sub, next, shutdown>>

Deactivate(t) ==
  /\ At(t, "begin") /\ RegistryFree
  /\ ~IsCurrentOwner(t, Top(t).plugin)
  /\ SetTop(t, [Top(t) EXCEPT !.at = "disabling", !.todo = Owned(Top(t).plugin)])
  /\ UNCHANGED <<sub, next, phase, shutdown>>

\* The subscriptions the loop under the lock disables and then waits for.
Scope(f) == IF f.call = "shutdown" THEN Registered ELSE Owned(f.plugin)

Disable(t) ==
  /\ At(t, "disabling")
  /\ \E s \in Top(t).todo :
        /\ sub' = [sub EXCEPT ![s].enabled = FALSE]
        /\ SetTop(t, [Top(t) EXCEPT !.todo = @ \ {s}])
  /\ UNCHANGED <<next, phase, shutdown>>

\* Shutdown gives up inside a callback of any subscription.
Disabled(t) ==
  /\ At(t, "disabling") /\ Top(t).todo = {}
  /\ IF Top(t).call = "shutdown" /\ \E s \in Registered : IsCurrentCallback(t, s)
     THEN Pop(t)
     ELSE SetTop(t, [Top(t) EXCEPT !.at = "waiting", !.todo = Scope(Top(t))])
  /\ UNCHANGED <<sub, next, phase, shutdown>>

\* Mutant: disabled subscriptions are not waited for.
WaitedAnyway(t) ==
  /\ At(t, "waiting")
  /\ \E s \in Top(t).todo : SetTop(t, [Top(t) EXCEPT !.todo = @ \ {s}])
  /\ UNCHANGED <<sub, next, phase, shutdown>>

\* WaitForZero of the next subscription returned.
Waited(t) ==
  /\ At(t, "waiting")
  /\ \E s \in Top(t).todo :
        /\ sub[s].active = 0
        /\ SetTop(t, [Top(t) EXCEPT !.todo = @ \ {s}])
  /\ UNCHANGED <<sub, next, phase, shutdown>>

WaitsDone(t) ==
  /\ At(t, "waiting") /\ Top(t).todo = {}
  /\ IF Top(t).call = "deactivate"
     THEN Pop(t) /\ phase' = [phase EXCEPT ![Top(t).plugin] = "quiet"]
     ELSE SetTop(t, [Top(t) EXCEPT !.at = "erase"]) /\ UNCHANGED phase
  /\ UNCHANGED <<sub, next, shutdown>>

Erased(S) ==
  [s \in Handles |-> IF s \in S THEN [sub[s] EXCEPT !.registered = FALSE] ELSE sub[s]]

Released(t) ==
  LET p == Top(t).plugin IN
  /\ At(t, "erase") /\ Top(t).call = "release"
  /\ RegistryFree
  /\ sub' = Erased(Owned(p))
  /\ phase' = [phase EXCEPT ![p] = "gone"]
  /\ Pop(t)
  /\ UNCHANGED <<next, shutdown>>

Shutdown(t) ==
  /\ CanCall(t) /\ RegistryFree
  /\ shutdown # "complete"
  /\ shutdown' = "begun"
  /\ Push(t, [None EXCEPT !.call = "shutdown", !.at = "disabling", !.todo = Registered])
  /\ UNCHANGED <<sub, next, phase>>

ShutdownDone(t) ==
  /\ At(t, "erase") /\ Top(t).call = "shutdown"
  /\ RegistryFree
  /\ sub' = Erased(Registered)
  /\ shutdown' = "complete"
  /\ Pop(t)
  /\ UNCHANGED <<next, phase>>

-----------------------------------------------------------------------------
(* Dispatch.                                                               *)

Dispatch(t) ==
  /\ t \in Dispatchers
  /\ CanCall(t) /\ RegistryFree
  /\ shutdown = "no"
  /\ Push(t, [None EXCEPT !.call = "dispatch", !.at = "next",
                !.todo = {s \in Registered : sub[s].enabled}])
  /\ UNCHANGED <<sub, next, phase, shutdown>>

\* Subscriptions are called in the order of their sequence numbers.
First(S) == CHOOSE s \in S : \A r \in S : s <= r

\* active.fetch_add...
EnterActive(t) ==
  LET s == First(Top(t).todo) IN
  /\ At(t, "next") /\ Top(t).todo # {}
  /\ sub' = [sub EXCEPT ![s].active = @ + 1]
  /\ SetTop(t, [Top(t) EXCEPT !.at = "check", !.sub = s, !.todo = @ \ {s}])
  /\ UNCHANGED <<next, phase, shutdown>>

\* Mutant: enabled is only looked at when the snapshot is taken.
CallSnapshot(t) ==
  /\ At(t, "check")
  /\ CallbackDepth(t) # RecursionLimit
  /\ SetTop(t, [Top(t) EXCEPT !.at = "in"])
  /\ UNCHANGED <<sub, next, phase, shutdown>>

\* ... and then enabled.load: the subscription is called
CallSubscription(t) ==
  /\ At(t, "check")
  /\ sub[Top(t).sub].enabled /\ CallbackDepth(t) # RecursionLimit
  /\ SetTop(t, [Top(t) EXCEPT !.at = "in"])
  /\ UNCHANGED <<sub, next, phase, shutdown>>

\* Mutant: one decrement too many.
LeaveTwice(t) ==
  /\ sub' = [sub EXCEPT ![Top(t).sub].active = @ - 2]
  /\ SetTop(t, [Top(t) EXCEPT !.at = "next", !.sub = NoHandle])
  /\ UNCHANGED <<next, phase, shutdown>>

\* LeaveActive, back to the loop over the snapshot.
LeaveActive(t) ==
  /\ sub' = [sub EXCEPT ![Top(t).sub].active = @ - 1]
  /\ SetTop(t, [Top(t) EXCEPT !.at = "next", !.sub = NoHandle])
  /\ UNCHANGED <<next, phase, shutdown>>

\* Mutant: the path that skips a callback keeps it active.
KeepActive(t) ==
  /\ At(t, "check")
  /\ ~sub[Top(t).sub].enabled \/ CallbackDepth(t) = RecursionLimit
  /\ SetTop(t, [Top(t) EXCEPT !.at = "next", !.sub = NoHandle])
  /\ UNCHANGED <<sub, next, phase, shutdown>>

\* ... or it was disabled meanwhile, or the recursion limit is reached.
SkipSubscription(t) ==
  /\ At(t, "check")
  /\ ~sub[Top(t).sub].enabled \/ CallbackDepth(t) = RecursionLimit
  /\ LeaveActive(t)

CallbackReturns(t) == At(t, "in") /\ LeaveActive(t)

DispatchDone(t) ==
  /\ At(t, "next") /\ Top(t).todo = {}
  /\ Pop(t)
  /\ UNCHANGED <<sub, next, phase, shutdown>>

-----------------------------------------------------------------------------
Call(t) ==
  \/ \E s \in Handles : Unsubscribe(t, s)
  \/ \E p \in Plugins : \/ Subscribe(t, p)
                        \/ Restore(t, p) \/ Pause(t, p) \/ Release(t, p)
  \/ Dispatch(t) \/ Shutdown(t)

Step(t) ==
  \/ UnsubscribeDone(t) \/ Enable(t) \/ Activated(t)
  \/ DeactivateBusy(t) \/ Deactivate(t) \/ Disable(t) \/ Disabled(t)
  \/ Waited(t) \/ WaitsDone(t) \/ Released(t) \/ ShutdownDone(t)
  \/ EnterActive(t) \/ CallSubscription(t) \/ SkipSubscription(t)
  \/ CallbackReturns(t) \/ DispatchDone(t)

Next == \E t \in Threads : Call(t) \/ Step(t)

Spec == Init /\ [][Next]_vars

\* Callbacks return and whoever can take the next step of a call does.  An
\* outer callback cannot return while an inner one runs, so each depth needs
\* strong fairness of its own.
Fairness ==
  \A t \in Threads, n \in 1..MaxDepth : SF_vars(depth[t] = n /\ Step(t))

FairSpec == Spec /\ Fairness

-----------------------------------------------------------------------------
(* Properties.                                                             *)

Running(s) == \E t \in Threads, d \in 1..MaxDepth : Inside(t, d, s)

\* `active` counts the dispatches that hold the subscription, on every path
\* of the loop: disabled meanwhile, recursion limit, callback.
Holders(s) ==
  {h \in Threads \X (1..MaxDepth) :
     LET f == frame[h[1]][h[2]] IN f.at \in {"check", "in"} /\ f.sub = s}
ActiveBalanced == \A s \in Handles : sub[s].active = Cardinality(Holders(s))

\* When Deactivate or ReleasePlugin has answered OK, no callback of the plugin
\* runs on any thread and none can begin until it is activated again.
QuietIsSilent ==
  \A s \in Handles :
    sub[s].owner \in Plugins /\ phase[sub[s].owner] \in {"quiet", "gone"} =>
      ~sub[s].enabled /\ ~Running(s)

\* What is erased is not called: the plugin may free its user data when
\* Unsubscribe has answered OK.
ErasedIsSilent ==
  \A s \in Handles : ~sub[s].registered => ~sub[s].enabled /\ ~Running(s)

\* After Shutdown has answered TRUE nothing is called any more, whatever the
\* plugins and the host still do.
ShutdownIsFinal ==
  shutdown = "complete" => \A s \in Handles : ~sub[s].enabled /\ ~Running(s)

\* The service implements the dispatch layer.
Opened == {sub[s].owner : s \in {r \in Handles : sub[r].enabled}}
InsideOf == [t \in Threads |-> [d \in 1..MaxDepth |->
              IF frame[t][d].at = "in" THEN sub[frame[t][d].sub].owner ELSE NoPlugin]]
Stopped == IF shutdown = "complete" THEN Plugins
           ELSE {p \in Plugins : phase[p] \in {"quiet", "gone"}}
Layer == INSTANCE DispatchLayer
           WITH open <- Opened, inside <- InsideOf, stopped <- Stopped
ImplementsLayer == Layer!Spec

\* Unsubscribe, Deactivate, ReleasePlugin and Shutdown return when all events
\* are raised on one thread: nobody waits for a callback that waits for him.
CallsReturn ==
  \A t \in Threads, d \in 1..MaxDepth :
    frame[t][d].call \in {"unsubscribe", "deactivate", "release", "shutdown"} ~>
      frame[t][d].call = "none"
-----------------------------------------------------------------------------
(* The inductive invariant.                                                *)

Depths == 1..MaxDepth

\* Which call is at which point.
FrameOK(f) ==
  /\ f.at = "none" => f = None
  /\ f.at \in {"next", "check", "in"} => f.call = "dispatch"
  /\ f.at = "enabling" => f.call = "activate"
  /\ f.at = "begin" => f.call \in {"deactivate", "release"}
  /\ f.at = "disabling" => f.call \in {"deactivate", "release", "shutdown"}
  /\ f.at = "waiting" =>
       f.call \in {"unsubscribe", "deactivate", "release", "shutdown"}
  /\ f.at = "erase" => f.call \in {"unsubscribe", "release", "shutdown"} /\ f.todo = {}
  /\ f.plugin \in Plugins <=> f.call \in {"activate", "deactivate", "release"}
  /\ f.at \in {"check", "in"} \/ f.call = "unsubscribe" <=> f.sub # NoHandle

\* A frame that is not the innermost of its thread runs a callback.
StackOK ==
  \A t \in Threads, d \in Depths :
    /\ FrameOK(frame[t][d])
    /\ d > depth[t] <=> frame[t][d].at = "none"
    /\ d < depth[t] => frame[t][d].at = "in"

\* Handles not given out are used nowhere.
HandlesOK ==
  /\ \A s \in Handles : IF s < next THEN sub[s].owner \in Plugins
                                      ELSE sub[s] = NoSubscription
  /\ \A t \in Threads, d \in Depths :
       frame[t][d].sub < next /\ \A s \in frame[t][d].todo : s < next

\* One call of the host works on a plugin, and one holds registry_mutex_.
Exclusive(f, g) ==
  \/ f.plugin \in Plugins /\ f.plugin = g.plugin
  \/ {f.at, g.at} \subseteq {"enabling", "disabling"}
OneAtATime ==
  \A t \in Threads, d \in Depths, u \in Threads, e \in Depths :
    Exclusive(frame[t][d], frame[u][e]) => t = u /\ d = e

\* What the calls have achieved at each point: disabled subscriptions stay
\* disabled, and those waited for are not entered again.
Covers(f) == IF f.call = "unsubscribe" THEN {f.sub} ELSE Scope(f)
Achieved(f) ==
  /\ f.at = "enabling" =>
       /\ phase[f.plugin] = "running" /\ shutdown = "no"
       /\ f.todo \subseteq Owned(f.plugin)
  /\ f.call \in {"deactivate", "release"} => phase[f.plugin] \in {"closing", "quiet"}
  /\ f.call = "shutdown" => shutdown # "no"
  /\ f.at = "disabling" => \A s \in Covers(f) \ f.todo : ~sub[s].enabled
  /\ f.at \in {"waiting", "erase"} =>
       \A s \in Covers(f) : ~sub[s].enabled /\ (s \in f.todo \/ ~Running(s))
CallsOK == \A t \in Threads, d \in Depths : Achieved(frame[t][d])

\* Nothing is enabled while a subscription of the same plugin is unsubscribed.
NoOverlap ==
  \A t \in Threads, d \in Depths, u \in Threads, e \in Depths :
    frame[t][d].at = "enabling" /\ frame[u][e].call = "unsubscribe" =>
      sub[frame[u][e].sub].owner # frame[t][d].plugin

\* From Shutdown on, only the subscriptions it is about to disable are enabled.
ShutdownOK ==
  /\ shutdown # "no" =>
       \A s \in Handles : sub[s].enabled =>
         \E t \in Threads, d \in Depths :
           /\ frame[t][d].call = "shutdown" /\ frame[t][d].at = "disabling"
           /\ s \in frame[t][d].todo
  /\ shutdown = "complete" => Registered = {}

\* The promises of the service, with what they rest on: what each call in
\* progress has achieved so far is not undone by the others.
IInv ==
  /\ ActiveBalanced /\ StackOK /\ HandlesOK /\ OneAtATime /\ NoOverlap
  /\ CallsOK /\ ShutdownOK /\ ErasedIsSilent /\ QuietIsSilent
=============================================================================
