------------------------------- MODULE ConVars -------------------------------
(***************************************************************************)
(* Console variables: the service (host/src/convar_service.cpp) over the   *)
(* adapter's entries (games/cs2/src/cs2_adapter.cpp).  A record is counted *)
(* twice: active by the service, calls (provider_active) by the adapter,   *)
(* through which the engine reaches the record as a raw pointer.           *)
(*                                                                         *)
(* One engine variable.  One action is one segment under registry_mutex_,  *)
(* state_mutex_ or convar_callback_mutex_, or one wait.                    *)
(***************************************************************************)
EXTENDS Integers, FiniteSets, SequencesExt

CONSTANTS
  Plugins, NoPlugin, Threads, Game,
  MaxHandles,    \* bound: records ever made
  MaxDepth       \* bound: nesting on the game's thread; the others make one call at a time

VARIABLES
  host,        \* what the plugin manager is doing with each plugin
  record,      \* records_, each with its entry in the adapter
  definition,  \* active of the variable's definition in definitions_
  stopping,    \* "no"; "stopping": shutting_down_; "stopped": shutdown_complete_
  quiet,       \* plugins whose Deactivate answered OK
  frames       \* the calls each thread is in, innermost last

vars == <<host, record, definition, stopping, quiet, frames>>

Handles == 1..MaxHandles
None == 0

Record ==
  [state : {"free", "live", "erased"}, owner : Plugins \cup {NoPlugin}, created : BOOLEAN,
   callback : {"none", "change", "observe"}, provider : Handles \cup {None},
   enabled : BOOLEAN, release : 0..2, watched : BOOLEAN, late : BOOLEAN,
   active : Nat, calls : Nat]

\* late is history: the observer was registered when ReleaseConVar had passed.
Free == [state |-> "free", owner |-> NoPlugin, created |-> FALSE, callback |-> "none",
         provider |-> None, enabled |-> FALSE, release |-> 0, watched |-> FALSE,
         late |-> FALSE, active |-> 0, calls |-> 0]

Frame ==
  [call : {"register", "set", "change", "observe", "invoke", "release", "deactivate", "shutdown"},
   at : {"held", "found", "native", "entered", "check", "in",
         "claim", "wait", "entry", "calls", "again", "other"},
   plugin : Plugins \cup {NoPlugin}, handle : Handles \cup {None}, todo : SUBSET Handles]

Call(call, at) ==
  [call |-> call, at |-> at, plugin |-> NoPlugin, handle |-> None, todo |-> {}]

TypeOK ==
  /\ host \in [Plugins -> {"loading", "running", "stopping", "stopped"}]
  /\ \A h \in Handles : record[h] \in Record
  /\ definition \in Handles \cup {None} /\ stopping \in {"no", "stopping", "stopped"}
  /\ quiet \in SUBSET Plugins
  /\ \A t \in Threads : \A d \in 1..Len(frames[t]) : frames[t][d] \in Frame

Init ==
  /\ host = [p \in Plugins |-> "loading"] /\ record = [h \in Handles |-> Free]
  /\ definition = None /\ stopping = "no" /\ quiet = {}
  /\ frames = [t \in Threads |-> <<>>]

-----------------------------------------------------------------------------
Top(t) == Last(frames[t])
At(t, call, at) == frames[t] # <<>> /\ Top(t).call = call /\ Top(t).at = at
FramesOf(t) == Range(frames[t])
AllFrames == UNION {FramesOf(t) : t \in Threads}
Push(t, f) == /\ Len(frames[t]) < IF t = Game THEN MaxDepth ELSE 1
              /\ frames' = [frames EXCEPT ![t] = Append(@, f)]
Goto(t, at) == frames' = [frames EXCEPT ![t][Len(frames[t])].at = at]
Pop(t) == frames' = [frames EXCEPT ![t] = Front(@)]
Running(t) == frames[t] # <<>> => Top(t).at \in {"native", "in"}

\* ObserveEntry and the first half of QueueSet hold state_mutex_ through several steps.
StateFree == \A f \in AllFrames : f.at \notin {"held", "found"}

Live(h) == record[h].state = "live"
Usable(h) == Live(h) /\ record[h].release = 0
Accepting(p) == stopping = "no" /\ host[p] \in {"loading", "running"}
OwnedBy(p) == {h \in Handles : Live(h) /\ record[h].owner = p}

\* The records a call has on callback_stack_.
Provider(h) == IF record[h].provider \in {None, h} THEN {} ELSE {record[h].provider}
Stacked(f) ==
  IF f.at # "in" THEN {}
  ELSE IF f.call = "change" THEN {f.handle} ELSE {f.handle} \cup Provider(f.handle)
OnStack(t) == UNION {Stacked(f) : f \in FramesOf(t)}

\* The records whose active or calls a thread holds: QueueSet counts its record
\* and leaves callback_stack_ alone.
Set(t) == {f.handle : f \in {g \in FramesOf(t) : g.call = "set" /\ g.at = "native"}}
Held(t) == OnStack(t) \cup Set(t)
           \cup {f.handle : f \in {g \in FramesOf(t) : g.call \in {"change", "observe"}}}

\* ReleaseConVar has taken the entry out of convars_.
EntryGone(h) ==
  \/ record[h].state = "erased"
  \/ \E f \in AllFrames : f.call = "release" /\ f.handle = h /\ f.at \in {"calls", "again"}
Counted(S, n) ==
  [h \in Handles |-> IF h \in S THEN [record[h] EXCEPT !.active = @ + n] ELSE record[h]]

-----------------------------------------------------------------------------
(* The calls of plugins.                                                   *)

Add(p, new) ==
  \E h \in Handles :
    /\ record[h].state = "free" /\ \A g \in 1..(h - 1) : record[g].state # "free"
    /\ record' = [record EXCEPT ![h] =
         [new EXCEPT !.state = "live", !.owner = p, !.enabled = host[p] = "running"]]
    /\ definition' = IF new.created THEN h ELSE definition

\* CreateImpl; a variable with an active owner already exists.
Create(p, callback) ==
  /\ Running(Game) /\ StateFree /\ Accepting(p) /\ definition = None
  /\ Add(p, [Free EXCEPT !.created = TRUE, !.callback = callback,
                         !.watched = callback = "change"])
  /\ UNCHANGED <<host, stopping, quiet, frames>>

Find(p) ==
  /\ Running(Game) /\ StateFree /\ Accepting(p)
  /\ Add(p, [Free EXCEPT !.provider = definition])
  /\ UNCHANGED <<host, stopping, quiet, frames>>

\* ObserveEntry
Observe(h) ==
  /\ Running(Game) /\ StateFree
  /\ Usable(h) /\ Accepting(record[h].owner) /\ record[h].callback = "none"
  /\ record' = [record EXCEPT ![h].callback = "observe"]
  /\ Push(Game, [Call("register", "held") EXCEPT !.handle = h])
  /\ UNCHANGED <<host, definition, stopping, quiet>>

\* ObserveConVar finds the entry, or ReleaseConVar has it by now, or it refuses.
EntrySought ==
  /\ At(Game, "register", "held")
  /\ \/ ~EntryGone(Top(Game).handle) /\ Goto(Game, "found") /\ UNCHANGED record
     \/ Pop(Game) /\ record' = [record EXCEPT ![Top(Game).handle].callback = "none"]
  /\ UNCHANGED <<host, definition, stopping, quiet>>

\* The observer is registered under convar_callback_mutex_, wherever the entry is.
Registered ==
  /\ At(Game, "register", "found")
  /\ record' = [record EXCEPT ![Top(Game).handle].watched = TRUE,
                              ![Top(Game).handle].late = EntryGone(Top(Game).handle)]
  /\ Pop(Game)
  /\ UNCHANGED <<host, definition, stopping, quiet>>

\* QueueSet looks at the record and its entry, and then counts it;
QueueSet(t, h) ==
  /\ Running(t) /\ StateFree /\ Usable(h) /\ Accepting(record[h].owner)
  /\ Push(t, [Call("set", "held") EXCEPT !.handle = h])
  /\ UNCHANGED <<host, record, definition, stopping, quiet>>

\* on the game's thread the engine calls back from inside.
SetCounted(t) ==
  /\ At(t, "set", "held")
  /\ \/ record' = Counted({Top(t).handle}, 1) /\ Goto(t, "native")
     \/ EntryGone(Top(t).handle) /\ Pop(t) /\ UNCHANGED record
  /\ UNCHANGED <<host, definition, stopping, quiet>>

\* Mutant: the record that provides the variable is not looked at.
MayInvokeAlone(h) == Usable(h) /\ Accepting(record[h].owner)

\* Invoke's conditions on the record and on the record that provides the variable.
MayInvoke(h) ==
  /\ Usable(h) /\ Accepting(record[h].owner)
  /\ \A v \in Provider(h) : Usable(v) /\ Accepting(record[v].owner)

Invoke(h) ==
  /\ Running(Game) /\ StateFree /\ MayInvoke(h)
  /\ record' = Counted({h} \cup Provider(h), 1)
  /\ Push(Game, [Call("invoke", "in") EXCEPT !.handle = h])
  /\ UNCHANGED <<host, definition, stopping, quiet>>

-----------------------------------------------------------------------------
(* The engine changes the variable.                                        *)

\* ConVarChangeProvider and GlobalConVarChanged count the entry they call.
Changed(h) ==
  /\ Running(Game) /\ record[h].watched
  /\ record' = [record EXCEPT ![h].calls = @ + 1]
  /\ Push(Game, [Call(record[h].callback, "entered") EXCEPT !.handle = h])
  /\ UNCHANGED <<host, definition, stopping, quiet>>

\* Dispatch counts the record, ObservedEntry looks whether it is enabled.
Enter ==
  /\ frames[Game] # <<>> /\ Top(Game).at = "entered"
  /\ LET h == Top(Game).handle IN
     IF Top(Game).call = "change" THEN record' = Counted({h}, 1) /\ Goto(Game, "check")
     ELSE IF record[h].enabled THEN Goto(Game, "check") /\ UNCHANGED record
     ELSE Pop(Game) /\ record' = [record EXCEPT ![h].calls = @ - 1]
  /\ UNCHANGED <<host, definition, stopping, quiet>>

\* Mutant: Dispatch does not look whether the record is still enabled.
StillWantedAlways(f) ==
  IF f.call = "change" THEN record[f.handle].release = 0 ELSE MayInvoke(f.handle)

StillWanted(f) ==
  IF f.call = "change" THEN record[f.handle].enabled /\ record[f.handle].release = 0
  ELSE MayInvoke(f.handle)

\* Dispatch's second look, or Invoke under state_mutex_ and registry_mutex_.
Check ==
  /\ frames[Game] # <<>> /\ Top(Game).at = "check"
  /\ Top(Game).call = "observe" => StateFree
  /\ LET h == Top(Game).handle
         change == Top(Game).call = "change"
     IN IF StillWanted(Top(Game))
        THEN /\ Goto(Game, "in")
             /\ record' = IF change THEN record ELSE Counted({h} \cup Provider(h), 1)
        ELSE /\ Pop(Game)
             /\ record' = [record EXCEPT ![h].calls = @ - 1,
                             ![h].active = IF change THEN @ - 1 ELSE @]
  /\ UNCHANGED <<host, definition, stopping, quiet>>

\* The callback, or the engine's part of QueueSet, returns.
Return(t) ==
  /\ frames[t] # <<>> /\ Top(t).call \in {"change", "observe", "invoke", "set"}
  /\ Top(t).at \in {"in", "native"}
  /\ LET f == Top(t)
         left == Counted(IF f.call = "set" THEN {f.handle} ELSE Stacked(f), -1)
     IN record' = IF f.call \in {"change", "observe"}
                  THEN [left EXCEPT ![f.handle].calls = @ - 1] ELSE left
  /\ Pop(t)
  /\ UNCHANGED <<host, definition, stopping, quiet>>

-----------------------------------------------------------------------------
(* ReleaseRecord, with the adapter's ReleaseConVar.                        *)

\* release_state goes from 0 to 1 once; a second releaser waits for the first.
Claimed(h) ==
  IF record[h].release # 0 THEN record
  ELSE [record EXCEPT ![h].release = 1, ![h].enabled = FALSE]
Releasing(h) ==
  [Call("release", IF record[h].release = 0 THEN "wait" ELSE "other") EXCEPT !.handle = h]

\* Mutant: a record may be released in its own callback.
MayReleaseCurrent(t, h) == TRUE

\* In the record's own callback: BUSY.
MayRelease(t, h) == h \notin OnStack(t)

\* Release, by a plugin that is accepted or prepares to be paused or unloaded; it
\* lets go of state_mutex_ before the record is claimed.
Release(t, h) ==
  /\ Running(t) /\ StateFree /\ Live(h) /\ MayRelease(t, h)
  /\ Push(t, [Call("release", "claim") EXCEPT !.handle = h])
  /\ UNCHANGED <<host, record, definition, stopping, quiet>>

Claim(t) ==
  /\ At(t, "release", "claim")
  /\ record' = Claimed(Top(t).handle)
  /\ frames' = [frames EXCEPT ![t] = Append(Front(@), Releasing(Top(t).handle))]
  /\ UNCHANGED <<host, definition, stopping, quiet>>

OtherReleased(t) ==
  /\ At(t, "release", "other") /\ record[Top(t).handle].release = 2
  /\ Pop(t)
  /\ UNCHANGED <<host, record, definition, stopping, quiet>>

Inactive(t) ==
  /\ At(t, "release", "wait") /\ record[Top(t).handle].active = 0
  /\ Goto(t, "entry")
  /\ UNCHANGED <<host, record, definition, stopping, quiet>>

\* The engine can no longer reach the entry.
Unwatch(t) ==
  /\ At(t, "release", "entry")
  /\ record' = [record EXCEPT ![Top(t).handle].watched = FALSE]
  /\ Goto(t, "calls")
  /\ UNCHANGED <<host, definition, stopping, quiet>>

\* Mutant: ReleaseConVar does not wait for the calls it has let in.
CallsLeft(t) ==
  /\ At(t, "release", "calls")
  /\ Goto(t, "again")
  /\ UNCHANGED <<host, record, definition, stopping, quiet>>

\* WaitForConVarProviders
CallsOver(t) ==
  /\ At(t, "release", "calls") /\ record[Top(t).handle].calls = 0
  /\ Goto(t, "again")
  /\ UNCHANGED <<host, record, definition, stopping, quiet>>

\* Mutant: the definition is given free whichever record named it.
EraseDefinition(t) ==
  /\ At(t, "release", "again") /\ record[Top(t).handle].active = 0
  /\ record' = [record EXCEPT ![Top(t).handle].state = "erased", ![Top(t).handle].release = 2]
  /\ definition' = None
  /\ Pop(t)
  /\ UNCHANGED <<host, stopping, quiet>>

Erase(t) ==
  /\ At(t, "release", "again") /\ record[Top(t).handle].active = 0
  /\ record' = [record EXCEPT ![Top(t).handle].state = "erased", ![Top(t).handle].release = 2]
  /\ definition' = IF definition = Top(t).handle THEN None ELSE definition
  /\ Pop(t)
  /\ UNCHANGED <<host, stopping, quiet>>

-----------------------------------------------------------------------------
(* The calls of the host.                                                  *)

InHand(p) == \E f \in AllFrames : f.call = "deactivate" /\ f.plugin = p
Switched(S, on) ==
  [h \in Handles |-> IF h \in S THEN [record[h] EXCEPT !.enabled = on] ELSE record[h]]

\* Activate, when a load, a resume or a refused transition is over.
Activate(t, p) ==
  /\ Running(t) /\ ~InHand(p) /\ host[p] # "running"
  /\ host' = [host EXCEPT ![p] = "running"]
  /\ record' = IF stopping # "no" THEN record
               ELSE Switched({h \in OwnedBy(p) : record[h].release = 0}, TRUE)
  /\ quiet' = quiet \ {p}
  /\ UNCHANGED <<definition, stopping, frames>>

\* In a callback of a record of the plugin: BUSY.
Deactivate(t, p) ==
  /\ Running(t) /\ ~InHand(p) /\ host[p] # "stopped"
  /\ \A h \in OnStack(t) : record[h].owner # p
  /\ host' = [host EXCEPT ![p] = "stopping"]
  /\ record' = Switched(OwnedBy(p), FALSE)
  /\ Push(t, [Call("deactivate", "wait") EXCEPT !.plugin = p, !.todo = OwnedBy(p)])
  /\ UNCHANGED <<definition, stopping, quiet>>

\* WaitForZero, for one record after the other.
Await(t) ==
  /\ frames[t] # <<>> /\ Top(t).call \in {"deactivate", "shutdown"} /\ Top(t).at = "wait"
  /\ \E h \in Top(t).todo :
       LET rest == [Top(t) EXCEPT !.todo = @ \ {h}] IN
       /\ record[h].active = 0
       /\ IF Top(t).call = "deactivate"
          THEN frames' = [frames EXCEPT ![t] = Append(Front(@), rest)] /\ UNCHANGED record
          ELSE /\ frames' = [frames EXCEPT ![t] = Front(@) \o <<rest, Releasing(h)>>]
               /\ record' = Claimed(h)
  /\ UNCHANGED <<host, definition, stopping, quiet>>

Deactivated(t) ==
  /\ At(t, "deactivate", "wait") /\ Top(t).todo = {}
  /\ host' = [host EXCEPT ![Top(t).plugin] = "stopped"]
  /\ quiet' = quiet \cup {Top(t).plugin}
  /\ Pop(t)
  /\ UNCHANGED <<record, definition, stopping>>

\* ReleasePlugin of a plugin that is deactivated: one record after the other.
ReleasePlugin(p) ==
  /\ Running(Game) /\ ~InHand(p) /\ host[p] = "stopped"
  /\ \A h \in OnStack(Game) : record[h].owner # p
  /\ \E h \in OwnedBy(p) :
       MayRelease(Game, h) /\ record' = Claimed(h) /\ Push(Game, Releasing(h))
  /\ UNCHANGED <<host, definition, stopping, quiet>>

\* Shutdown; in a callback of any record it answers FALSE.
Shutdown ==
  /\ Running(Game) /\ stopping # "stopped" /\ \A f \in AllFrames : f.call # "shutdown"
  /\ stopping' = "stopping"
  /\ record' = Switched({h \in Handles : Live(h)}, FALSE)
  /\ IF \E h \in OnStack(Game) : Live(h) THEN UNCHANGED frames
     ELSE Push(Game, [Call("shutdown", "wait") EXCEPT !.todo = {h \in Handles : Live(h)}])
  /\ UNCHANGED <<host, definition, quiet>>

ShutdownDone ==
  /\ At(Game, "shutdown", "wait") /\ Top(Game).todo = {}
  /\ stopping' = "stopped" /\ definition' = None
  /\ Pop(Game)
  /\ UNCHANGED <<host, record, quiet>>

Next ==
  \/ \E p \in Plugins : Find(p) \/ ReleasePlugin(p) \/ \E callback \in {"none", "change"} : Create(p, callback)
  \/ \E h \in Handles : Observe(h) \/ Invoke(h) \/ Changed(h)
  \/ EntrySought \/ Registered \/ Enter \/ Check \/ Shutdown \/ ShutdownDone
  \/ \E t \in Threads :
       \/ \E h \in Handles : QueueSet(t, h) \/ Release(t, h)
       \/ \E p \in Plugins : Activate(t, p) \/ Deactivate(t, p)
       \/ SetCounted(t) \/ Claim(t) \/ Return(t) \/ OtherReleased(t) \/ Inactive(t) \/ Unwatch(t) \/ CallsOver(t)
       \/ Erase(t) \/ Await(t) \/ Deactivated(t)

Spec == Init /\ [][Next]_vars

-----------------------------------------------------------------------------
\* The engine's callback holds the record as a raw pointer: the record is not
\* erased, and so not freed, before the last such call is over.  The exception
\* is an observer that was registered after its record's release had passed.
RecordInUse ==
  \A f \in AllFrames : f.call \in {"change", "observe"} =>
    record[f.handle].state # "erased" \/ record[f.handle].late

\* While a plugin is given the native variable, the plugin that created the
\* variable keeps it: its record is there, and it is not quiet.
ProviderStays ==
  \A f \in AllFrames : f.call \in {"invoke", "observe"} /\ f.at = "in" =>
    \A v \in Provider(f.handle) : Live(v) /\ record[v].owner \notin quiet

\* A plugin is in none of its callbacks once its Deactivate answered OK.
QuietIsSilent ==
  \A f \in AllFrames : f.at = "in" => record[f.handle].owner \notin quiet

\* No thread waits for a count that a call of its own holds, its own release or
\* another's, and never in a callback of the record; except that a release of the
\* record inside QueueSet is let through and never ends.
NoSelfWait ==
  \A t \in Threads : frames[t] # <<>> =>
    LET f == Top(t)
        awaited == IF f.at \in {"wait", "calls", "again", "other"}
                   THEN f.todo \cup {f.handle} ELSE {}
    IN OnStack(t) \cap awaited = {} /\ Held(t) \cap awaited \subseteq Set(t)

\* The variable has at most one owner, and it is the one its definition names
\* until the engine has let go of it.
OneOwner ==
  stopping # "stopped" =>
    \A h \in Handles : Live(h) /\ record[h].created => definition = h
=============================================================================
