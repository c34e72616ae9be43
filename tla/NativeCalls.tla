------------------------------ MODULE NativeCalls ------------------------------
(***************************************************************************)
(* The host's services as a plugin gets them from QueryService (host.cpp), *)
(* and its calls into the engine: with state_mutex_ held                   *)
(* (schema_entity_service.cpp, entity_input_service.cpp) or released       *)
(* (source2_runtime_service.cpp, player_service.cpp, KeelHook's direct     *)
(* calls).  The engine may call plugins, unload one or stop the host while *)
(* it is in such a call.                                                   *)
(*                                                                         *)
(* One plugin, the game's thread, and a worker that may be in a callback   *)
(* of the plugin and asks the host from there.                             *)
(***************************************************************************)
EXTENDS Integers, FiniteSets, SequencesExt

CONSTANTS
  Kinds,     \* the services that are looked at
  MaxDepth   \* bound: nesting of calls on the game's thread

VARIABLES
  host,      \* accepting_resources_, adapter_, and that it is not stopped
  service,   \* the services: not there, there, or shut down
  owner,     \* PluginRecord of the plugin
  pointers,  \* services the plugin's image has
  worker,    \* the worker is in a callback of the plugin, or waits there for state_mutex_
  frames     \* calls on the game's thread, innermost last

vars == <<host, service, owner, pointers, worker, frames>>

\* The names a plugin asks for, by the service that answers.
SchemaNames == {"schema", "entities", "entity writes", "entity tools", "entity access",
  "entity capture", "entity hook data", "entity construction", "entity outputs",
  "entity input", "player management", "player actions", "player statistics",
  "round control"}
NamesOf == [
  schema |-> SchemaNames, runtime |-> {"source2 runtime", "native runtime"},
  convars |-> {"convars", "convar access", "convar observe", "source2 authoring"},
  players |-> {"players", "player input"}, lifecycle |-> {"lifecycle"},
  callbacks |-> {"source2 callbacks"}, plugins |-> {"plugins"}, published |-> {"services"},
  keelhook |-> {"keelhook", "keelcall"}]
ServiceOf(name) == CHOOSE k \in DOMAIN NamesOf : name \in NamesOf[k]
ServiceNames == UNION {NamesOf[k] : k \in Kinds}

\* What ReleaseResources shuts down, in its order.
ShutdownOrder ==
  SelectSeq(<<"plugins", "convars", "schema", "lifecycle", "callbacks", "keelhook">>,
            LAMBDA k : k \in Kinds)

\* What a service refers to; QueryService creates it first.
Needs(k) == Kinds \cap (CASE k \in {"callbacks", "lifecycle"} -> {"keelhook"}
                          [] k = "players" -> {"lifecycle", "keelhook"}
                          [] OTHER -> {})

Frame == [call : {"load", "callback", "own", "open", "locked", "runtime",
                   "unload", "stop"},
          at : {"in", "quiesce", "prepare", "layers", "cleanup"},
          name : ServiceNames \cup {"none"}, left : 0..6]

TypeOK ==
  /\ host \in [accepting : BOOLEAN, adapter : BOOLEAN]
  /\ service \in [Kinds -> {"none", "live", "shut"}]
  /\ owner \in [state : {"none", "loading", "loaded"}, accepts : BOOLEAN,
                transitioning : BOOLEAN, cleanup : BOOLEAN, native : 0..MaxDepth]
  /\ pointers \in SUBSET Kinds
  /\ worker \in {"idle", "in", "calls"}
  /\ frames \in Seq(Frame)

Unloaded == [state |-> "none", accepts |-> FALSE, transitioning |-> FALSE, cleanup |-> FALSE,
             native |-> 0]
Init ==
  /\ host = [accepting |-> FALSE, adapter |-> FALSE]
  /\ service = [k \in Kinds |-> "none"]
  /\ owner = Unloaded /\ pointers = {} /\ worker = "idle" /\ frames = <<>>

-----------------------------------------------------------------------------
Top == Last(frames)
Call(call, at, name) == [call |-> call, at |-> at, name |-> name, left |-> 0]
Push(f) == Len(frames) < MaxDepth /\ frames' = Append(frames, f)
Pop == frames' = Front(frames)
Goto(at) == frames' = Append(Front(frames), [Top EXCEPT !.at = at])
Frames(calls) == {d \in DOMAIN frames : frames[d].call \in calls}
Natives == Frames({"open", "locked"})

InEngine == frames # <<>> => Top.call \in {"open", "locked"}
InPlugin == frames # <<>> /\ \/ Top.call \in {"load", "callback", "own"}
                             \/ Top.at \in {"prepare", "cleanup"}
InTransition == Frames({"load", "unload", "stop"}) # {}     \* lifecycle_mutex_ is taken
Locked == Frames({"locked", "runtime"}) # {}                \* state_mutex_ is taken

-----------------------------------------------------------------------------
(* The host and its services.                                              *)

\* Start creates what it needs itself, then opens.
Start ==
  /\ frames = <<>> /\ ~host.adapter
  /\ host' = [accepting |-> TRUE, adapter |-> TRUE]
  /\ service' = [k \in Kinds |-> IF k \in {"keelhook", "callbacks"} THEN "live" ELSE "none"]
  /\ UNCHANGED <<owner, pointers, worker, frames>>

\* Mutant: QueryService does not look whether the host is closed.
MayQueryAlways == owner.state # "none"
MayQuery == host.accepting /\ owner.state # "none" /\ owner.accepts

\* Mutant: a service is created without the one it refers to.
CreatedAlone(k) == [service EXCEPT ![k] = IF @ = "none" THEN "live" ELSE @]
Created(k) ==
  [j \in Kinds |-> IF j \in {k} \cup (IF service[k] = "none" THEN Needs(k) ELSE {})
                      /\ service[j] = "none"
                   THEN "live" ELSE service[j]]

Answered(name) ==
  LET k == ServiceOf(name) IN
  /\ MayQuery
  /\ service' = Created(k)
  /\ pointers' = pointers \cup {k}

QueryService(name) ==
  /\ InPlugin /\ Answered(name)
  /\ UNCHANGED <<host, owner, worker, frames>>

-----------------------------------------------------------------------------
(* Calls of the plugin into the engine.                                    *)

Counted(f) == Push(f) /\ owner' = [owner EXCEPT !.native = @ + 1]

\* Source2RuntimeService::NativeRequest and KeelHook's InvokeScalar.
Runs == /\ host.accepting /\ owner.accepts
        /\ owner.state = "loading" \/ (owner.state = "loaded" /\ ~owner.transitioning)

NativeRequest(name) ==
  /\ InPlugin /\ name \in {"native runtime", "keelcall"} \cap ServiceNames
  /\ ServiceOf(name) \in pointers /\ Runs /\ host.adapter
  /\ Counted(Call("open", "in", name))
  /\ UNCHANGED <<host, service, pointers, worker>>

\* PlayerService::Get: also from a callback that prepares or ends the plugin, which must
\* not start tracking players.
PlayerGet(name) ==
  /\ InPlugin /\ name \in NamesOf["players"] \cap ServiceNames /\ "players" \in pointers
  /\ owner.cleanup \/ Runs
  /\ Counted(Call("open", "in", name))
  /\ UNCHANGED <<host, service, pointers, worker>>
Tracks(d) == /\ frames[d].call = "open" /\ frames[d].name \in NamesOf["players"]
             /\ \A e \in DOMAIN frames : e < d => frames[e].at \notin {"prepare", "cleanup"}

\* AccessDamage, VisitEntities, EntityInput and their like, each to its own depth.
LockedCall(name) ==
  /\ InPlugin
  /\ name \in {"entity hook data", "entity access", "entity input"} \cap ServiceNames
  /\ "schema" \in pointers /\ service["schema"] = "live"
  /\ host.accepting /\ owner.accepts /\ ~owner.transitioning
  /\ Counted(Call("locked", "in", name))
  /\ UNCHANGED <<host, service, pointers, worker>>

\* ServerCommand, ClientConsolePrint and FindUserMessage of the runtime service, not
\* counted; the engine queues or writes and calls nobody.
RuntimeCall ==
  /\ InPlugin /\ "runtime" \in pointers
  /\ host.accepting /\ owner.accepts /\ owner.state = "loaded" /\ ~owner.transitioning
  /\ Push(Call("runtime", "in", "source2 runtime"))
  /\ UNCHANGED <<host, service, owner, pointers, worker>>
RuntimeReturns ==
  /\ frames # <<>> /\ Top.call = "runtime"
  /\ Pop
  /\ UNCHANGED <<host, service, owner, pointers, worker>>

NativeReturns ==
  /\ frames # <<>> /\ Top.call \in {"open", "locked"}
  /\ Pop /\ owner' = [owner EXCEPT !.native = @ - 1]
  /\ UNCHANGED <<host, service, pointers, worker>>

-----------------------------------------------------------------------------
(* The plugin.                                                             *)

Load ==
  /\ InEngine /\ ~InTransition /\ owner.state = "none" /\ host.accepting
  /\ Push(Call("load", "in", "none"))
  /\ owner' = [owner EXCEPT !.state = "loading", !.accepts = TRUE]
  /\ UNCHANGED <<host, service, pointers, worker>>
LoadReturns ==
  /\ frames # <<>> /\ Top.call = "load"
  /\ Pop
  /\ \/ owner' = [owner EXCEPT !.state = "loaded"] /\ UNCHANGED pointers
     \/ owner' = Unloaded /\ pointers' = {}
  /\ UNCHANGED <<host, service, worker>>

\* A callback of a service, or code of the plugin that the host does not know of: a
\* function it has given to the engine.
Enter(call) ==
  /\ InEngine /\ owner.state = "loaded"
  /\ call = "callback" => owner.accepts
  /\ Push(Call(call, "in", "none"))
  /\ UNCHANGED <<host, service, owner, pointers, worker>>
Leave ==
  /\ frames # <<>> /\ Top.call \in {"callback", "own"}
  /\ Pop
  /\ UNCHANGED <<host, service, owner, pointers, worker>>

WorkerEnters ==
  /\ worker = "idle" /\ owner.state = "loaded" /\ owner.accepts
  /\ worker' = "in" /\ UNCHANGED <<host, service, owner, pointers, frames>>
WorkerCalls ==
  /\ worker = "in"
  /\ worker' = "calls" /\ UNCHANGED <<host, service, owner, pointers, frames>>
WorkerServed(name) ==
  /\ worker = "calls" /\ ~Locked
  /\ Answered(name) \/ (~MayQuery /\ UNCHANGED <<service, pointers>>)
  /\ worker' = "in" /\ UNCHANGED <<host, owner, frames>>
WorkerLeaves ==
  /\ worker = "in"
  /\ worker' = "idle" /\ UNCHANGED <<host, service, owner, pointers, frames>>

\* HasRunningDependent; and the services answer BUSY to a thread that is in a callback.
\* Mutant: native calls do not count.
UnusedByCallbacks == Frames({"callback"}) = {}
Unused == owner.native = 0 /\ Frames({"callback"}) = {}

Unload ==
  /\ InEngine /\ ~InTransition /\ owner.state = "loaded" /\ Unused
  /\ Push(Call("unload", "quiesce", "none"))
  /\ owner' = [owner EXCEPT !.accepts = FALSE, !.transitioning = TRUE]
  /\ UNCHANGED <<host, service, pointers, worker>>
Quiesced ==
  /\ frames # <<>> /\ Top.call = "unload" /\ Top.at = "quiesce" /\ worker = "idle"
  /\ Goto("prepare")
  /\ owner' = [owner EXCEPT !.cleanup = TRUE]
  /\ UNCHANGED <<host, service, pointers, worker>>
Prepared ==
  /\ frames # <<>> /\ Top.call = "unload" /\ Top.at = "prepare"
  /\ \/ /\ Goto("cleanup") /\ UNCHANGED owner
     \/ /\ Pop     \* it refuses: RestorePluginDispatch
        /\ owner' = [owner EXCEPT !.accepts = TRUE, !.transitioning = FALSE, !.cleanup = FALSE]
  /\ UNCHANGED <<host, service, pointers, worker>>
UnloadDone ==
  /\ frames # <<>> /\ Top.call = "unload" /\ Top.at = "cleanup"
  /\ Pop /\ owner' = Unloaded /\ pointers' = {}
  /\ UNCHANGED <<host, service, worker>>

-----------------------------------------------------------------------------
(* Stop and ReleaseResources.                                              *)

\* Mutant: Stop does not look for native calls.
StopsAnyway == Frames({"callback"}) = {}
Stops == owner.native = 0 /\ Frames({"callback"}) = {}

Stop ==
  /\ InEngine /\ ~InTransition /\ host.adapter /\ Stops
  /\ Push(Call("stop", "quiesce", "none"))
  /\ host' = [host EXCEPT !.accepting = FALSE]
  /\ owner' = [owner EXCEPT !.accepts = FALSE]
  /\ UNCHANGED <<service, pointers, worker>>
\* The plugin's callbacks have ended, and it has prepared or refuses.
StopPrepares ==
  /\ frames # <<>> /\ Top.call = "stop" /\ Top.at = "quiesce" /\ worker = "idle"
  /\ IF owner.state = "none" THEN Goto("layers") /\ UNCHANGED owner
     ELSE Goto("prepare") /\ owner' = [owner EXCEPT !.cleanup = TRUE]
  /\ UNCHANGED <<host, service, pointers, worker>>
StopPrepared ==
  /\ frames # <<>> /\ Top.call = "stop" /\ Top.at = "prepare"
  /\ owner' = [owner EXCEPT !.cleanup = FALSE]
  /\ Goto("layers") \/ Pop
  /\ UNCHANGED <<host, service, pointers, worker>>
ShutLayer ==
  /\ frames # <<>> /\ Top.call = "stop" /\ Top.at = "layers" /\ Top.left < Len(ShutdownOrder)
  /\ LET k == ShutdownOrder[Top.left + 1] IN
     \/ /\ service' = [service EXCEPT ![k] = IF @ = "live" THEN "shut" ELSE @]
        /\ frames' = Append(Front(frames), [Top EXCEPT !.left = @ + 1])
     \/ service[k] = "live" /\ Pop /\ UNCHANGED service
  /\ UNCHANGED <<host, owner, pointers, worker>>
StopUnloads ==
  /\ frames # <<>> /\ Top.call = "stop" /\ Top.at = "layers" /\ Top.left = Len(ShutdownOrder)
  /\ Goto("cleanup")
  /\ owner' = [owner EXCEPT !.cleanup = owner.state # "none"]
  /\ UNCHANGED <<host, service, pointers, worker>>
StopDone ==
  /\ frames # <<>> /\ Top.call = "stop" /\ Top.at = "cleanup"
  /\ Pop /\ owner' = Unloaded /\ pointers' = {}
  /\ service' = [k \in Kinds |-> "none"]
  /\ host' = [accepting |-> FALSE, adapter |-> FALSE]
  /\ UNCHANGED worker

-----------------------------------------------------------------------------
Next ==
  \/ Start \/ Stop \/ StopPrepares \/ StopPrepared \/ ShutLayer \/ StopUnloads \/ StopDone
  \/ Load \/ LoadReturns \/ Unload \/ Quiesced \/ Prepared \/ UnloadDone
  \/ WorkerEnters \/ WorkerCalls \/ WorkerLeaves \/ NativeReturns \/ Leave
  \/ RuntimeCall \/ RuntimeReturns
  \/ \E call \in {"callback", "own"} : Enter(call)
  \/ \E name \in ServiceNames :
       \/ QueryService(name) \/ WorkerServed(name)
       \/ NativeRequest(name) \/ PlayerGet(name) \/ LockedCall(name)

Spec == Init /\ [][Next]_vars

-----------------------------------------------------------------------------
(* Properties.                                                             *)

\* What a plugin got from QueryService is there as long as the plugin's image is, and so
\* is the plugin's record, which a native call counts itself in, and the adapter that the
\* call is in; a service that another refers to is there as long as the other.
ServicesInUse ==
  /\ \A k \in pointers : service[k] # "none"
  /\ Natives \cup Frames({"runtime"}) # {} => owner.state # "none" /\ host.adapter
  /\ owner.native = Cardinality(Natives)
  /\ \A k \in Kinds : \A n \in Needs(k) : service[k] # "none" => service[n] # "none"

\* Nothing is destroyed that was not shut down, nothing is shut down before what uses it,
\* and a call that looks up players does not start to track them in a service that is
\* shut down.
ShutInOrder ==
  /\ frames # <<>> /\ Top.call = "stop" /\ Top.at = "cleanup" =>
       \A k \in Range(ShutdownOrder) : service[k] # "live"
  /\ \A k \in Range(ShutdownOrder) : \A n \in Needs(k) :
       service[n] = "shut" => service[k] # "live"
  /\ \A d \in DOMAIN frames : Tracks(d) => service["lifecycle"] = "live"

\* A transition does not wait for a worker that itself waits for state_mutex_, which the
\* call around the transition holds.
WaitsUnlocked ==
  frames # <<>> /\ Top.at = "quiesce" /\ worker = "calls" => ~Locked
================================================================================
