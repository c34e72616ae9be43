--------------------------- MODULE FactoryService ---------------------------
(***************************************************************************)
(* Factory subscriptions (host/src/factory_service.cpp): plugins are asked *)
(* when an interface of an engine factory is queried and may replace the   *)
(* answer.  A replacement handed out pins its plugin for good.             *)
(*                                                                         *)
(* mutex_ protects the subscriptions; one action is one locked segment or  *)
(* one access to an atomic outside it.                                     *)
(***************************************************************************)
EXTENDS Integers, FiniteSets, FiniteSetsExt, SequencesExt

CONSTANTS
  Plugins, NoPlugin, Threads,
  Names,              \* interfaces of one boundary
  MaxSubscriptions,   \* bound: subscriptions ever made
  MaxQueries,         \* bound: native queries at once
  MaxDepth            \* bound: nesting on a thread

VARIABLES
  host,         \* what the plugin manager is doing with each plugin
  subscription, \* subscriptions_ and what dispatches still hold of them
  pinned,       \* pinned_
  queries,      \* queries_
  stopping,     \* "no"; "stopping": stopping_; "stopped": Shutdown answered TRUE
  quiet,        \* plugins whose Deactivate answered OK
  frames        \* the calls each thread is in, innermost last

vars == <<host, subscription, pinned, queries, stopping, quiet, frames>>

Subscriptions == 1..MaxSubscriptions
None == 0

Subscription ==
  [state : {"free", "live", "erased"}, owner : Plugins \cup {NoPlugin}, name : Names,
   lifetime : BOOLEAN, enabled : BOOLEAN, active : Nat]

Frame ==
  [call : {"query", "dispatch", "unsubscribe", "deactivate", "activate", "shutdown"},
   at : {"native", "original", "pick", "check", "in", "wait", "queries"},
   plugin : Plugins \cup {NoPlugin}, name : Names, original : BOOLEAN,
   sub : Subscriptions \cup {None}, todo : SUBSET Subscriptions, replaced : BOOLEAN]

AnyName == CHOOSE n \in Names : TRUE
Call(call, at) ==
  [call |-> call, at |-> at, plugin |-> NoPlugin, name |-> AnyName, original |-> FALSE,
   sub |-> None, todo |-> {}, replaced |-> FALSE]

TypeOK ==
  /\ host \in [Plugins -> {"loading", "running", "stopping", "stopped"}]
  /\ subscription \in [Subscriptions -> Subscription]
  /\ pinned \in SUBSET Plugins /\ quiet \in SUBSET Plugins /\ queries \in Nat
  /\ stopping \in {"no", "stopping", "stopped"}
  /\ frames \in [Threads -> Seq(Frame)] /\ \A t \in Threads : Len(frames[t]) <= MaxDepth

Init ==
  /\ host = [p \in Plugins |-> "loading"]
  /\ subscription = [s \in Subscriptions |->
       [state |-> "free", owner |-> NoPlugin, name |-> AnyName, lifetime |-> FALSE,
        enabled |-> FALSE, active |-> 0]]
  /\ pinned = {} /\ queries = 0 /\ stopping = "no" /\ quiet = {}
  /\ frames = [t \in Threads |-> <<>>]

-----------------------------------------------------------------------------
At(t, call, at) == frames[t] # <<>> /\ Last(frames[t]).call = call /\ Last(frames[t]).at = at
Top(t) == Last(frames[t])
Push(t, f) == /\ Len(frames[t]) < MaxDepth
              /\ frames' = [frames EXCEPT ![t] = Append(@, f)]
SetTop(t, f) == frames' = [frames EXCEPT ![t] = Append(Front(@), f)]
Pop(t) == frames' = [frames EXCEPT ![t] = Front(@)]

FramesOf(t) == Range(frames[t])
AllFrames == UNION {FramesOf(t) : t \in Threads}
\* Engine or plugin code runs on t.
Running(t) == frames[t] # <<>> => Top(t).at \in {"native", "original", "in"}
\* depth_
Dispatching(t) == \E f \in FramesOf(t) : f.call = "dispatch"
InCallback(f) == f.call = "dispatch" /\ f.at = "in"

Live(s) == subscription[s].state = "live"
OwnedBy(p) == {s \in Subscriptions : Live(s) /\ subscription[s].owner = p}
Accepting(p) == host[p] \in {"loading", "running"}
Switched(S, on) ==
  [s \in Subscriptions |-> IF s \in S THEN [subscription[s] EXCEPT !.enabled = on]
                           ELSE subscription[s]]

\* A plugin is not activated or deactivated while it unsubscribes (what an
\* activation in the middle of Unsubscribe does is in LifecycleService).
InHand(p) == \E f \in AllFrames : f.call \in {"activate", "deactivate"} /\ f.plugin = p
Unsubscribing(p) ==
  \E f \in AllFrames : f.call = "unsubscribe" /\ subscription[f.sub].owner = p

-----------------------------------------------------------------------------
(* The calls of plugins.                                                   *)

\* Mutant: a plugin in transition may subscribe, as if it ran.
SubscribeAnyway(t, p, n, lifetime) ==
  /\ Running(t) /\ stopping = "no"
  /\ \E s \in Subscriptions :
       /\ subscription[s].state = "free"
       /\ \A r \in 1..(s - 1) : subscription[r].state # "free"
       /\ subscription' = [subscription EXCEPT ![s] =
            [state |-> "live", owner |-> p, name |-> n, lifetime |-> lifetime,
             enabled |-> TRUE, active |-> 0]]
  /\ UNCHANGED <<host, pinned, queries, stopping, quiet, frames>>

Subscribe(t, p, n, lifetime) ==
  /\ Running(t) /\ stopping = "no" /\ Accepting(p)
  /\ \E s \in Subscriptions :
       /\ subscription[s].state = "free"
       /\ \A r \in 1..(s - 1) : subscription[r].state # "free"
       /\ subscription' = [subscription EXCEPT ![s] =
            [state |-> "live", owner |-> p, name |-> n, lifetime |-> lifetime,
             enabled |-> host[p] = "running", active |-> 0]]
  /\ UNCHANGED <<host, pinned, queries, stopping, quiet, frames>>

\* Mutant: only the subscription's own callback is refused.
UnsubscribeWaiting(t, s) ==
  /\ Running(t) /\ Live(s) /\ ~InHand(subscription[s].owner)
  /\ subscription' = Switched({s}, FALSE)
  /\ IF \E f \in FramesOf(t) : InCallback(f) /\ f.sub = s
     THEN UNCHANGED frames
     ELSE Push(t, [Call("unsubscribe", "wait") EXCEPT !.sub = s])
  /\ UNCHANGED <<host, pinned, queries, stopping, quiet>>

\* In any factory callback a subscription in use is only disabled: BUSY.
Unsubscribe(t, s) ==
  /\ Running(t) /\ Live(s) /\ ~InHand(subscription[s].owner)
  /\ subscription' = Switched({s}, FALSE)
  /\ IF Dispatching(t) /\ subscription[s].active # 0
     THEN UNCHANGED frames
     ELSE Push(t, [Call("unsubscribe", "wait") EXCEPT !.sub = s])
  /\ UNCHANGED <<host, pinned, queries, stopping, quiet>>

Erased(S) ==
  [s \in Subscriptions |-> IF s \in S THEN [subscription[s] EXCEPT !.state = "erased"]
                           ELSE subscription[s]]

Unsubscribed(t) ==
  /\ At(t, "unsubscribe", "wait") /\ subscription[Top(t).sub].active = 0
  /\ subscription' = Erased({Top(t).sub})
  /\ Pop(t)
  /\ UNCHANGED <<host, pinned, queries, stopping, quiet>>

\* Query; with original (OriginalEntry) the thread's own dispatches are bypassed.
Query(t, p, n, original) ==
  /\ Running(t) /\ stopping = "no" /\ Accepting(p) /\ queries < MaxQueries
  /\ queries' = queries + 1
  /\ Push(t, [Call("query", "native") EXCEPT !.plugin = p, !.name = n, !.original = original])
  /\ UNCHANGED <<host, subscription, pinned, stopping, quiet>>

QueryReturns(t) ==
  /\ At(t, "query", "native")
  /\ queries' = queries - 1
  /\ Pop(t)
  /\ UNCHANGED <<host, subscription, pinned, stopping, quiet>>

-----------------------------------------------------------------------------
(* Dispatch: the engine's factory function is called.                      *)

Bypassed(t) == \E f \in FramesOf(t) : f.call = "query" /\ f.original
OnStack(t, n) == \E f \in FramesOf(t) : f.call = "dispatch" /\ f.name = n

\* With nobody to ask the dispatch returns at once.
Dispatch(t, n) ==
  /\ Running(t) /\ ~Bypassed(t) /\ ~OnStack(t, n) /\ stopping = "no"
  /\ LET asked == {s \in Subscriptions : /\ Live(s) /\ subscription[s].enabled
                                         /\ subscription[s].name = n}
     IN /\ asked # {}
        /\ Push(t, [Call("dispatch", "original") EXCEPT !.name = n, !.todo = asked])
  /\ UNCHANGED <<host, subscription, pinned, queries, stopping, quiet>>

\* The original has answered, or KeelHook refused to call it.
OriginalAnswered(t) ==
  /\ At(t, "dispatch", "original")
  /\ \/ SetTop(t, [Top(t) EXCEPT !.at = "pick"])
     \/ Pop(t)
  /\ UNCHANGED <<host, subscription, pinned, queries, stopping, quiet>>

Counted(s, n) == [subscription EXCEPT ![s].active = @ + n]

Pick(t) ==
  /\ At(t, "dispatch", "pick") /\ Top(t).todo # {}
  /\ LET s == Min(Top(t).todo) IN
     /\ subscription' = Counted(s, 1)
     /\ SetTop(t, [Top(t) EXCEPT !.at = "check", !.sub = s, !.todo = @ \ {s}])
  /\ UNCHANGED <<host, pinned, queries, stopping, quiet>>

\* Mutant: enabled is not read again.
CheckNothing(t) ==
  /\ At(t, "dispatch", "check")
  /\ SetTop(t, [Top(t) EXCEPT !.at = "in"])
  /\ UNCHANGED <<host, subscription, pinned, queries, stopping, quiet>>

Check(t) ==
  /\ At(t, "dispatch", "check")
  /\ IF subscription[Top(t).sub].enabled
     THEN SetTop(t, [Top(t) EXCEPT !.at = "in"]) /\ UNCHANGED subscription
     ELSE /\ SetTop(t, [Top(t) EXCEPT !.at = "pick", !.sub = None])
          /\ subscription' = Counted(Top(t).sub, -1)
  /\ UNCHANGED <<host, pinned, queries, stopping, quiet>>

\* The first replacement by a subscription for the process's lifetime counts;
\* one that hands out an instance pins the plugin before the callback is left.
Answer(t, replace, instance) ==
  /\ At(t, "dispatch", "in")
  /\ LET f == Top(t)
         s == subscription[f.sub]
         taken == replace /\ ~f.replaced /\ s.lifetime
     IN /\ pinned' = IF taken /\ instance THEN pinned \cup {s.owner} ELSE pinned
        /\ subscription' = Counted(f.sub, -1)
        /\ SetTop(t, [f EXCEPT !.at = "pick", !.sub = None, !.replaced = @ \/ taken])
  /\ UNCHANGED <<host, queries, stopping, quiet>>

DispatchReturns(t) ==
  /\ At(t, "dispatch", "pick") /\ Top(t).todo = {}
  /\ Pop(t)
  /\ UNCHANGED <<host, subscription, pinned, queries, stopping, quiet>>

-----------------------------------------------------------------------------
(* The calls of the host.                                                  *)

\* RestorePluginDispatch, and the end of a load or resume.
Start(t, p) ==
  /\ Running(t) /\ ~InHand(p) /\ ~Unsubscribing(p) /\ host[p] \in {"loading", "stopped"}
  /\ host' = [host EXCEPT ![p] = "running"]
  /\ quiet' = quiet \ {p}
  /\ Push(t, [Call("activate", "wait") EXCEPT !.plugin = p])
  /\ UNCHANGED <<subscription, pinned, queries, stopping>>

Activate(t) ==
  /\ At(t, "activate", "wait")
  /\ subscription' = IF stopping = "no" THEN Switched(OwnedBy(Top(t).plugin), TRUE)
                     ELSE subscription
  /\ Pop(t)
  /\ UNCHANGED <<host, pinned, queries, stopping, quiet>>

\* Deactivate; a refusal leaves the plugin as it is.
Deactivate(t, p) ==
  /\ Running(t) /\ ~InHand(p) /\ ~Unsubscribing(p) /\ host[p] # "stopped"
  /\ stopping = "no"
  /\ ~Dispatching(t) /\ queries = 0 /\ p \notin pinned
  /\ host' = [host EXCEPT ![p] = "stopping"]
  /\ subscription' = Switched(OwnedBy(p), FALSE)
  /\ Push(t, [Call("deactivate", "wait") EXCEPT !.plugin = p, !.todo = OwnedBy(p)])
  /\ UNCHANGED <<pinned, queries, stopping, quiet>>

\* Wait, for one subscription after the other.
Await(t) ==
  /\ frames[t] # <<>> /\ Top(t).at = "wait"
  /\ \E s \in Top(t).todo :
       /\ subscription[s].active = 0
       /\ SetTop(t, [Top(t) EXCEPT !.todo = @ \ {s}])
  /\ UNCHANGED <<host, subscription, pinned, queries, stopping, quiet>>

\* Mutant: Deactivate does not look at the pins again.
DeactivatedAnyway(t) ==
  /\ At(t, "deactivate", "wait") /\ Top(t).todo = {}
  /\ quiet' = quiet \cup {Top(t).plugin}
  /\ host' = [host EXCEPT ![Top(t).plugin] = "stopped"]
  /\ Pop(t)
  /\ UNCHANGED <<subscription, pinned, queries, stopping>>

\* A plugin pinned meanwhile is BUSY, and the host turns it on again.
Deactivated(t) ==
  /\ At(t, "deactivate", "wait") /\ Top(t).todo = {}
  /\ LET p == Top(t).plugin IN
     IF p \in pinned
     THEN /\ host' = [host EXCEPT ![p] = "running"]
          /\ SetTop(t, [Call("activate", "wait") EXCEPT !.plugin = p])
          /\ UNCHANGED quiet
     ELSE /\ host' = [host EXCEPT ![p] = "stopped"]
          /\ quiet' = quiet \cup {p}
          /\ Pop(t)
  /\ UNCHANGED <<subscription, pinned, queries, stopping>>

\* ReleasePlugin of a plugin that is deactivated already.
Release(t, p) ==
  /\ Running(t) /\ p \in quiet /\ host[p] = "stopped"
  /\ ~Dispatching(t) /\ queries = 0 /\ \A s \in OwnedBy(p) : subscription[s].active = 0
  /\ ~Unsubscribing(p)
  /\ subscription' = Erased(OwnedBy(p))
  /\ UNCHANGED <<host, pinned, queries, stopping, quiet, frames>>

\* Shutdown, when Stop has deactivated every plugin; in a dispatch it answers
\* FALSE with everything disabled.
Shutdown(t) ==
  /\ Running(t) /\ stopping # "stopped" /\ \A f \in FramesOf(t) : f.call # "query"
  /\ \A f \in AllFrames : f.call \notin {"activate", "deactivate", "shutdown"}
  /\ stopping' = "stopping"
  /\ subscription' = Switched({s \in Subscriptions : Live(s)}, FALSE)
  /\ IF Dispatching(t) THEN UNCHANGED frames
     ELSE Push(t, [Call("shutdown", "queries") EXCEPT
                     !.todo = {s \in Subscriptions : Live(s)}])
  /\ UNCHANGED <<host, pinned, queries, quiet>>

QueriesOver(t) ==
  /\ At(t, "shutdown", "queries") /\ queries = 0
  /\ SetTop(t, [Top(t) EXCEPT !.at = "wait"])
  /\ UNCHANGED <<host, subscription, pinned, queries, stopping, quiet>>

ShutdownDone(t) ==
  /\ At(t, "shutdown", "wait") /\ Top(t).todo = {}
  /\ stopping' = IF pinned = {} THEN "stopped" ELSE stopping
  /\ quiet' = IF pinned = {} THEN Plugins ELSE quiet
  /\ host' = IF pinned = {} THEN [p \in Plugins |-> "stopped"] ELSE host
  /\ Pop(t)
  /\ UNCHANGED <<subscription, pinned, queries>>

Next ==
  \E t \in Threads :
    \/ \E p \in Plugins :
         \/ \E n \in Names, b \in BOOLEAN : Subscribe(t, p, n, b) \/ Query(t, p, n, b)
         \/ Start(t, p) \/ Deactivate(t, p) \/ Release(t, p)
    \/ \E s \in Subscriptions : Unsubscribe(t, s)
    \/ \E n \in Names : Dispatch(t, n)
    \/ \E replace, instance \in BOOLEAN : Answer(t, replace, instance)
    \/ Unsubscribed(t) \/ QueryReturns(t) \/ OriginalAnswered(t) \/ Pick(t) \/ Check(t)
    \/ DispatchReturns(t) \/ Activate(t) \/ Await(t) \/ Deactivated(t)
    \/ Shutdown(t) \/ QueriesOver(t) \/ ShutdownDone(t)

Spec == Init /\ [][Next]_vars

-----------------------------------------------------------------------------
\* What a plugin's replacement points into stays: a plugin that has handed one
\* out is never deactivated with OK, and Shutdown never answers TRUE.
PinnedStays == pinned \cap quiet = {} /\ (stopping = "stopped" => pinned = {})

\* Nobody waits in a factory callback for a callback: two threads that
\* unsubscribe each other's subscription do not wait for each other.
NoCircularWait ==
  \A t \in Threads : frames[t] # <<>> /\ Top(t).call = "unsubscribe" /\ Dispatching(t) =>
    \A f \in AllFrames : InCallback(f) => f.sub # Top(t).sub

\* Factories keep the contract of a dispatch layer.
Callable ==
  {s \in Subscriptions : /\ subscription[s].enabled
                        /\ \/ Live(s)
                           \/ \E f \in AllFrames : f.call = "dispatch" /\ s \in f.todo}

\* The refinement mapping: whom a dispatch may call, and who is being called.
Opened == {subscription[s].owner : s \in Callable}
InsideOf ==
  [t \in Threads |-> [d \in 1..MaxDepth |->
     IF d <= Len(frames[t]) /\ InCallback(frames[t][d])
     THEN subscription[frames[t][d].sub].owner ELSE NoPlugin]]

Layer == INSTANCE DispatchLayer WITH open <- Opened, inside <- InsideOf, stopped <- quiet

\* A callback of a plugin begins only while one of its subscriptions is enabled, and
\* Deactivate and Shutdown answer OK only when none runs and none is enabled.
ImplementsLayer == Layer!Spec

\* A plugin whose Deactivate answered OK is asked no more until it is started again.
QuietIsSilent == Layer!StoppedIsSilent

-----------------------------------------------------------------------------
(* The inductive invariant.                                                *)

FactoryConstants ==
  /\ NoPlugin \notin Plugins /\ Names # {} /\ IsFiniteSet(Threads)
  /\ MaxSubscriptions \in Nat /\ MaxDepth \in Nat

\* The calls of all threads as a grid, with nothing above the innermost.
Depths == 1..MaxDepth
Nothing == Call("none", "native")
Cell(t, d) == IF d <= Len(frames[t]) THEN frames[t][d] ELSE Nothing

\* A call by itself: where it can be, and which subscriptions it may name there.
CallOK(f) ==
  /\ f.call = "query" => f.at = "native"
  /\ f.call = "dispatch" =>
       /\ f.at \in {"original", "pick", "check", "in"}
       /\ IF f.at \in {"check", "in"} THEN f.sub # None /\ subscription[f.sub].state # "free"
                                      ELSE f.sub = None
       /\ f.at = "in" => Live(f.sub)
       /\ \A s \in f.todo : subscription[s].state # "free"
  /\ f.call = "unsubscribe" =>
       /\ f.at = "wait" /\ f.sub # None
       /\ subscription[f.sub].state # "free" /\ ~subscription[f.sub].enabled
  /\ f.call \in {"activate", "deactivate"} => f.at = "wait" /\ f.plugin \in Plugins
  /\ f.call = "activate" /\ stopping = "no" => host[f.plugin] = "running"
  /\ f.call = "deactivate" =>
       /\ stopping = "no" /\ host[f.plugin] = "stopping"
       /\ \A s \in Subscriptions : subscription[s].owner = f.plugin => ~subscription[s].enabled
  /\ f.call = "shutdown" => f.at \in {"queries", "wait"} /\ stopping # "no"

\* A call that is not the innermost of its thread runs engine or plugin code.
CallsInv ==
  \A t \in Threads, d \in Depths :
    /\ CallOK(Cell(t, d))
    /\ d < Len(frames[t]) => Cell(t, d).at \in {"native", "original", "in"}

\* Only what a plugin has subscribed and not given up is enabled.
SubscriptionsInv ==
  \A s \in Subscriptions :
    /\ subscription[s].state # "free" => subscription[s].owner \in Plugins
    /\ subscription[s].state = "free" => subscription[s].owner = NoPlugin
    /\ subscription[s].enabled => Live(s)

\* queries_ counts the queries, and `active` the dispatches that hold a subscription.
Asks(f, s) == f.call = "dispatch" /\ f.sub = s
Places == Threads \X Depths
CountsInv ==
  /\ queries = Cardinality({x \in Places : Cell(x[1], x[2]).call = "query"})
  /\ \A s \in Subscriptions :
       subscription[s].active = Cardinality({x \in Places : Asks(Cell(x[1], x[2]), s)})

\* A plugin is in one hand at a time, and gives up no subscription meanwhile.
Handles(f, p) == f.call \in {"activate", "deactivate"} /\ f.plugin = p
GivesUp(f, p) == f.call = "unsubscribe" /\ subscription[f.sub].owner = p
HandsInv ==
  \A t, u \in Threads, d, e \in Depths, p \in Plugins : Handles(Cell(t, d), p) =>
    /\ Handles(Cell(u, e), p) => t = u /\ d = e
    /\ ~GivesUp(Cell(u, e), p)

\* What waits for callbacks has those that run still before it, and a thread that gives
\* up a subscription in a callback of its own has nobody to wait for.
WaitsInv ==
  \A u \in Threads, e \in Depths : InCallback(Cell(u, e)) =>
    \A t \in Threads, d \in Depths :
      LET f == Cell(t, d)
          s == Cell(u, e).sub IN
      /\ f.call = "deactivate" /\ f.plugin = subscription[s].owner => s \in f.todo
      /\ f.call = "shutdown" => s \in f.todo
      /\ f.call = "unsubscribe" /\ f.sub = s =>
           \A c \in Depths : Cell(t, c).call # "dispatch"

\* From Deactivate's OK to the next start, and from Shutdown on, nobody is asked.
SilenceInv ==
  /\ \A p \in quiet : /\ host[p] = "stopped" /\ p \notin pinned
                      /\ \A s \in Subscriptions :
                           subscription[s].owner = p => ~subscription[s].enabled
                      /\ \A t \in Threads, d \in Depths :
                           InCallback(Cell(t, d)) => subscription[Cell(t, d).sub].owner # p
  /\ stopping # "no" => \A s \in Subscriptions : ~subscription[s].enabled
  /\ stopping = "stopped" =>
       /\ pinned = {}
       /\ \A t \in Threads, d \in Depths : ~InCallback(Cell(t, d))

FactoryInv ==
  CallsInv /\ SubscriptionsInv /\ CountsInv /\ HandsInv /\ WaitsInv /\ SilenceInv
=============================================================================
