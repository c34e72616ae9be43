---------------------------- MODULE EventServices ----------------------------
(***************************************************************************)
(* The two services that call plugins back with events:                    *)
(* host/src/source2_callbacks_service.cpp (levels, game events, clients)   *)
(* and host/src/plugin_service.cpp (plugins loaded, paused, ...).  They    *)
(* share their structure and differ in what a snapshot holds, in how a     *)
(* subscription is given up and in how Shutdown is refused.                *)
(*                                                                         *)
(* One action is one segment under registry_mutex_, one access to an       *)
(* atomic outside it, one wait or one callback.                            *)
(***************************************************************************)
EXTENDS Integers, FiniteSets, FiniteSetsExt, SequencesExt

CONSTANTS
  Plugins, NoPlugin, Threads, Game,
  MaxSubscriptions,  \* bound: subscriptions ever made
  MaxDepth,          \* bound: nesting on the game's thread; the others make one call at a time
  RecursionLimit     \* callback_stack_.size()

VARIABLES
  service,   \* "source2" or "plugins"
  host,      \* what the plugin manager is doing with each plugin
  sub,       \* subscriptions_ and what dispatches still hold of them
  listened,  \* the adapter listens for the game event (listened_events_)
  stopping,  \* "no"; "stopping": shutting_down_; "stopped": shutdown_complete_
  quiet,     \* plugins whose Deactivate answered OK
  given,     \* subscriptions whose Unsubscribe answered OK from outside them
  frames     \* the calls each thread is in, innermost last

vars == <<service, host, sub, listened, stopping, quiet, given, frames>>

Subscriptions == 1..MaxSubscriptions
None == 0

Subscription ==
  [state : {"free", "live", "erased"}, owner : Plugins \cup {NoPlugin},
   enabled : BOOLEAN, active : Nat]

Frame ==
  [call : {"subscribe", "unsubscribe", "deactivate", "shutdown", "dispatch"},
   at : {"listen", "register", "wait", "pick", "check", "in"},
   plugin : Plugins \cup {NoPlugin}, sub : Subscriptions \cup {None},
   todo : SUBSET Subscriptions]

Call(call, at) ==
  [call |-> call, at |-> at, plugin |-> NoPlugin, sub |-> None, todo |-> {}]

TypeOK ==
  /\ service \in {"source2", "plugins"}
  /\ host \in [Plugins -> {"loading", "running", "stopping", "stopped"}]
  /\ \A s \in Subscriptions : sub[s] \in Subscription
  /\ listened \in BOOLEAN /\ stopping \in {"no", "stopping", "stopped"}
  /\ quiet \in SUBSET Plugins /\ given \in SUBSET Subscriptions
  /\ \A t \in Threads : \A d \in 1..Len(frames[t]) : frames[t][d] \in Frame

Init ==
  /\ service \in {"source2", "plugins"}
  /\ host = [p \in Plugins |-> "loading"]
  /\ sub = [s \in Subscriptions |->
              [state |-> "free", owner |-> NoPlugin, enabled |-> FALSE, active |-> 0]]
  /\ listened = FALSE /\ stopping = "no" /\ quiet = {} /\ given = {}
  /\ frames = [t \in Threads |-> <<>>]

-----------------------------------------------------------------------------
Top(t) == Last(frames[t])
At(t, call, at) == frames[t] # <<>> /\ Top(t).call = call /\ Top(t).at = at
AllFrames == UNION {Range(frames[t]) : t \in Threads}
Push(t, f) == /\ Len(frames[t]) < IF t = Game THEN MaxDepth ELSE 1
              /\ frames' = [frames EXCEPT ![t] = Append(@, f)]
Become(t, f) == frames' = [frames EXCEPT ![t] = Append(Front(@), f)]
Pop(t) == frames' = [frames EXCEPT ![t] = Front(@)]
Running(t) == frames[t] # <<>> => Top(t).at = "in"

Live == {s \in Subscriptions : sub[s].state = "live"}
OwnedBy(p) == {s \in Live : sub[s].owner = p}
Accepting(p) == host[p] \in {"loading", "running"}

\* callback_stack_
OnStack(t) == {f.sub : f \in {g \in Range(frames[t]) : g.at = "in"}}
Switched(S, on) ==
  [s \in Subscriptions |-> IF s \in S THEN [sub[s] EXCEPT !.enabled = on] ELSE sub[s]]
Counted(s, n) == [sub EXCEPT ![s].active = @ + n]

-----------------------------------------------------------------------------
(* Subscribe and Unsubscribe.                                              *)

\* A game event is listened for first; the other kinds register at once.
Subscribe(t, p) ==
  /\ Running(t) /\ Accepting(p)
  /\ \E at \in IF service = "source2" THEN {"listen", "register"} ELSE {"register"} :
       Push(t, [Call("subscribe", at) EXCEPT !.plugin = p])
  /\ UNCHANGED <<service, host, sub, listened, stopping, quiet, given>>

\* ListenForGameEvent, once for an event; the adapter may refuse.
Listen(t) ==
  /\ At(t, "subscribe", "listen")
  /\ \/ /\ stopping = "no" /\ listened' = TRUE
        /\ Become(t, [Top(t) EXCEPT !.at = "register"])
     \/ (stopping # "no" \/ ~listened) /\ Pop(t) /\ UNCHANGED listened
  /\ UNCHANGED <<service, host, sub, stopping, quiet, given>>

\* The second look at the host, under both locks.
Register(t) ==
  /\ At(t, "subscribe", "register")
  /\ LET p == Top(t).plugin IN
     IF stopping = "no" /\ Accepting(p)
     THEN \E s \in Subscriptions :
            /\ sub[s].state = "free" /\ \A r \in 1..(s - 1) : sub[r].state # "free"
            /\ sub' = [sub EXCEPT ![s] = [@ EXCEPT !.state = "live", !.owner = p,
                                                   !.enabled = host[p] = "running"]]
     ELSE UNCHANGED sub
  /\ Pop(t)
  /\ UNCHANGED <<service, host, listened, stopping, quiet, given>>

Erase(S) ==
  [s \in Subscriptions |->
    IF s \in S THEN [sub[s] EXCEPT !.state = "erased", !.enabled = FALSE] ELSE sub[s]]

\* Source 2 disables and, in the subscription's own callback, answers BUSY; the
\* plugin service erases at once and waits only outside that callback.
Unsubscribe(t, s) ==
  /\ Running(t) /\ s \in Live
  /\ service = "plugins" => Accepting(sub[s].owner)
  /\ sub' = IF service = "source2" THEN Switched({s}, FALSE) ELSE Erase({s})
  /\ IF s \in OnStack(t) THEN UNCHANGED frames
     ELSE Push(t, [Call("unsubscribe", "wait") EXCEPT !.sub = s, !.todo = {s}])
  /\ UNCHANGED <<service, host, listened, stopping, quiet, given>>

Unsubscribed(t) ==
  /\ At(t, "unsubscribe", "wait") /\ Top(t).todo = {}
  /\ LET s == Top(t).sub IN
     /\ sub' = IF sub[s].state = "live"
               THEN [sub EXCEPT ![s].state = "erased"] ELSE sub
     /\ given' = given \cup {s}
  /\ Pop(t)
  /\ UNCHANGED <<service, host, listened, stopping, quiet>>

-----------------------------------------------------------------------------
(* Dispatch: the engine's events on the game's thread, a plugin's events   *)
(* on the thread that changed it.                                          *)

Dispatch(t) ==
  /\ Running(t) /\ (service = "source2" => t = Game) /\ stopping = "no"
  /\ LET found == {s \in Live : service = "source2" => sub[s].enabled} IN
     found # {} /\ Push(t, [Call("dispatch", "pick") EXCEPT !.todo = found])
  /\ UNCHANGED <<service, host, sub, listened, stopping, quiet, given>>

\* By priority (abstracted) and then by sequence; active is raised first.
Pick(t) ==
  /\ At(t, "dispatch", "pick")
  /\ \E s \in Top(t).todo :
       /\ sub' = Counted(s, 1)
       /\ Become(t, [Top(t) EXCEPT !.at = "check", !.sub = s, !.todo = @ \ {s}])
  /\ UNCHANGED <<service, host, listened, stopping, quiet, given>>

\* Mutant: enabled is not looked at again after the count was raised.
CheckNothing(t) ==
  /\ At(t, "dispatch", "check")
  /\ Become(t, [Top(t) EXCEPT !.at = "in"])
  /\ UNCHANGED <<service, host, sub, listened, stopping, quiet, given>>

Check(t) ==
  /\ At(t, "dispatch", "check")
  /\ LET s == Top(t).sub IN
     IF sub[s].enabled /\ Cardinality(OnStack(t)) < RecursionLimit
     THEN Become(t, [Top(t) EXCEPT !.at = "in"]) /\ UNCHANGED sub
     ELSE /\ sub' = Counted(s, -1)
          /\ Become(t, [Top(t) EXCEPT !.at = "pick", !.sub = None])
  /\ UNCHANGED <<service, host, listened, stopping, quiet, given>>

\* The callback answers, or throws and counts as an accepting one; a refused
\* client does not keep the other callbacks from being asked.
Return(t) ==
  /\ At(t, "dispatch", "in")
  /\ sub' = Counted(Top(t).sub, -1)
  /\ Become(t, [Top(t) EXCEPT !.at = "pick", !.sub = None])
  /\ UNCHANGED <<service, host, listened, stopping, quiet, given>>

Dispatched(t) ==
  /\ At(t, "dispatch", "pick") /\ Top(t).todo = {}
  /\ Pop(t)
  /\ UNCHANGED <<service, host, sub, listened, stopping, quiet, given>>

-----------------------------------------------------------------------------
(* The calls of the host.                                                  *)

InHand(p) == \E f \in AllFrames : f.call = "deactivate" /\ f.plugin = p
BeingUnsubscribed(p) == \E f \in AllFrames : f.call = "unsubscribe" /\ sub[f.sub].owner = p

\* Activate.  In the Source 2 service an Activate inside an Unsubscribe enables
\* what is being given up, as in the lifecycle service; that is left out here.
Activate(t, p) ==
  /\ Running(t) /\ ~InHand(p) /\ host[p] # "running"
  /\ service = "source2" => ~BeingUnsubscribed(p)
  /\ host' = [host EXCEPT ![p] = "running"]
  /\ sub' = IF stopping = "no" THEN Switched(OwnedBy(p), TRUE) ELSE sub
  /\ quiet' = quiet \ {p}
  /\ UNCHANGED <<service, listened, stopping, given, frames>>

\* Mutant: the plugin's callbacks on the own stack are waited for.
DeactivateAnyway(t, p) ==
  /\ Running(t) /\ ~InHand(p) /\ host[p] # "stopped"
  /\ host' = [host EXCEPT ![p] = "stopping"]
  /\ sub' = Switched(OwnedBy(p), FALSE)
  /\ Push(t, [Call("deactivate", "wait") EXCEPT !.plugin = p, !.todo = OwnedBy(p)])
  /\ UNCHANGED <<service, listened, stopping, quiet, given>>

\* In a callback of the plugin: BUSY.
Deactivate(t, p) ==
  /\ Running(t) /\ ~InHand(p) /\ host[p] # "stopped"
  /\ \A s \in OnStack(t) : sub[s].owner # p
  /\ host' = [host EXCEPT ![p] = "stopping"]
  /\ sub' = Switched(OwnedBy(p), FALSE)
  /\ Push(t, [Call("deactivate", "wait") EXCEPT !.plugin = p, !.todo = OwnedBy(p)])
  /\ UNCHANGED <<service, listened, stopping, quiet, given>>

\* WaitForZero, for one subscription after the other.
Await(t) ==
  /\ frames[t] # <<>> /\ Top(t).at = "wait"
  /\ \E s \in Top(t).todo :
       sub[s].active = 0 /\ Become(t, [Top(t) EXCEPT !.todo = @ \ {s}])
  /\ UNCHANGED <<service, host, sub, listened, stopping, quiet, given>>

Deactivated(t) ==
  /\ At(t, "deactivate", "wait") /\ Top(t).todo = {}
  /\ host' = [host EXCEPT ![Top(t).plugin] = "stopped"]
  /\ quiet' = quiet \cup {Top(t).plugin}
  /\ Pop(t)
  /\ UNCHANGED <<service, sub, listened, stopping, given>>

\* ReleasePlugin of a plugin that is deactivated.
ReleasePlugin(t, p) ==
  /\ Running(t) /\ ~InHand(p) /\ host[p] = "stopped" /\ OwnedBy(p) # {}
  /\ \A s \in OnStack(t) : sub[s].owner # p
  /\ sub' = Erase(OwnedBy(p))
  /\ UNCHANGED <<service, host, listened, stopping, quiet, given, frames>>

\* Shutdown; inside a callback it answers FALSE: the Source 2 service after it
\* disabled everything, the plugin service where it met the callback.
Shutdown ==
  /\ Running(Game) /\ stopping # "stopped" /\ \A f \in AllFrames : f.call # "shutdown"
  /\ stopping' = "stopping"
  /\ IF OnStack(Game) \cap Live = {}
     THEN /\ sub' = Switched(Live, FALSE)
          /\ Push(Game, [Call("shutdown", "wait") EXCEPT !.todo = Live])
     ELSE /\ \E S \in SUBSET Live :
               /\ S \cap OnStack(Game) # {} /\ (service = "source2" => S = Live)
               /\ sub' = Switched(S, FALSE)
          /\ UNCHANGED frames
  /\ UNCHANGED <<service, host, listened, quiet, given>>

\* ... and the adapter's ShutdownSource2Callbacks.
ShutdownDone ==
  /\ At(Game, "shutdown", "wait") /\ Top(Game).todo = {}
  /\ stopping' = "stopped" /\ listened' = FALSE
  /\ sub' = Erase(Live)
  /\ Pop(Game)
  /\ UNCHANGED <<service, host, quiet, given>>

Next ==
  \/ Shutdown \/ ShutdownDone
  \/ \E t \in Threads :
       \/ \E p \in Plugins : Subscribe(t, p) \/ Activate(t, p) \/ Deactivate(t, p) \/ ReleasePlugin(t, p)
       \/ \E s \in Subscriptions : Unsubscribe(t, s)
       \/ Listen(t) \/ Register(t) \/ Unsubscribed(t) \/ Dispatch(t) \/ Pick(t) \/ Check(t)
       \/ Return(t) \/ Dispatched(t) \/ Await(t) \/ Deactivated(t)

Spec == Init /\ [][Next]_vars

-----------------------------------------------------------------------------
\* A plugin is in none of its callbacks once its Deactivate answered OK, but for
\* a callback of the plugin service that has unsubscribed itself: Deactivate no
\* longer finds it.
QuietIsSilent ==
  \A f \in AllFrames : f.at = "in" /\ sub[f.sub].owner \in quiet =>
    service = "plugins" /\ sub[f.sub].state = "erased"

\* What Unsubscribe has given up, from outside its callback, is called no more:
\* the plugin may free what the subscription points to.
GivenUpIsSilent == \A f \in AllFrames : f.at = "in" => f.sub \notin given

\* No thread waits for a callback it is in.
NoSelfWait ==
  \A t \in Threads : frames[t] # <<>> /\ Top(t).at = "wait" => OnStack(t) \cap Top(t).todo = {}

=============================================================================
