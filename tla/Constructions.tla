---------------------------- MODULE Constructions ----------------------------
(***************************************************************************)
(* Entities a plugin creates and spawns: the handles and quotas of the     *)
(* entity service (host/src/entity_construction_service.cpp) over the      *)
(* records of the adapter (games/cs2/src/owned_construction.cpp).          *)
(*                                                                         *)
(* Everything happens on the game's thread, but the engine runs plugins'   *)
(* code inside almost every call, so calls nest: frames are the calls that *)
(* are open, and each action runs up to the next call into the engine or   *)
(* back to the caller.  Key values and observers' handles are abstracted.  *)
(***************************************************************************)
EXTENDS Integers, FiniteSets, SequencesExt

CONSTANTS
  Plugins, NoPlugin,
  MaxRecords,   \* bound: entities ever asked for
  MaxPending,   \* KEELS2_ENTITY_CONSTRUCTION_MAX_PENDING
  MaxDepth      \* KEELS2_ENTITY_CONSTRUCTION_MAX_DEPTH, and the adapter's 8

VARIABLES
  accepted,  \* plugins that are ready (PluginReady)
  ready,     \* the adapter is: a map runs (construction_map_shutdown_)
  record,    \* Construction and its entry in entities_, with the adapter's Record
  engine,    \* what has become of each entity
  frames     \* the open calls, innermost last

vars == <<accepted, ready, record, engine, frames>>

Records == 1..MaxRecords
None == 0

\* listed..initializing belong to the service, kept..consumed to the adapter.
Record ==
  [owner : Plugins \cup {NoPlugin}, listed : BOOLEAN, closed : BOOLEAN, token : BOOLEAN,
   busy : BOOLEAN, initializing : BOOLEAN,
   kept : BOOLEAN, shut : BOOLEAN, inUse : BOOLEAN, created : BOOLEAN, consumed : BOOLEAN]

Free ==
  [owner |-> NoPlugin, listed |-> FALSE, closed |-> FALSE, token |-> FALSE, busy |-> FALSE,
   initializing |-> FALSE, kept |-> FALSE, shut |-> FALSE, inUse |-> FALSE,
   created |-> FALSE, consumed |-> FALSE]

\* initializing, busy and inUse (the adapter's busy) are set as Create begins.
New(p) == [Free EXCEPT !.owner = p, !.listed = TRUE, !.initializing = TRUE,
                       !.kept = TRUE, !.inUse = TRUE]

Frame ==
  [call : {"create", "spawn", "teleport", "visit", "cancel", "release", "reset"},
   at : {"engine", "after", "next"}, plugin : Plugins \cup {NoPlugin},
   record : Records \cup {None}, was : BOOLEAN, ok : BOOLEAN, todo : SUBSET Records]

Call(call, at, p, r) ==
  [call |-> call, at |-> at, plugin |-> p, record |-> r, was |-> FALSE, ok |-> FALSE, todo |-> {}]

TypeOK ==
  /\ accepted \in SUBSET Plugins /\ ready \in BOOLEAN
  /\ \A r \in Records : record[r] \in Record
  /\ engine \in [Records -> {"none", "pending", "spawned", "cancelled", "removed", "lost"}]
  /\ \A d \in 1..Len(frames) : frames[d] \in Frame

Init ==
  /\ accepted = Plugins /\ ready = TRUE
  /\ record = [r \in Records |-> Free] /\ engine = [r \in Records |-> "none"]
  /\ frames = <<>>

-----------------------------------------------------------------------------
Top == Last(frames)
Open == Range(frames)
Resetting == \E f \in Open : f.call = "reset"
\* A plugin's or the engine's own code runs.
Native == frames # <<>> => Top.at = "engine"
Room == Len(frames) < MaxDepth
Below(f) == Append(Front(frames), f)

\* Detach: the adapter forgets the record.
Detached(rec) == [rec EXCEPT !.kept = FALSE, !.shut = TRUE]
\* Mutant: Finish runs again on a record it has finished.
FinishesTwice(rec) == rec.created

Finishes(rec) == rec.created /\ ~rec.consumed

\* Run Finish on rec, as the record r: the backend's Cancel, at most once.
Finish(r, rec, below, p) ==
  IF Finishes(rec)
  THEN /\ record' = [record EXCEPT ![r] = [rec EXCEPT !.consumed = TRUE]]
       /\ frames' = Append(below, Call("cancel", "engine", p, r))
  ELSE /\ record' = [record EXCEPT ![r] = [rec EXCEPT !.inUse = FALSE]]
       /\ frames' = below

\* Mutant: ~Operation does not finish what was closed during the call.
LeaveOpen(r, rec, f) ==
  /\ record' = [record EXCEPT ![r] = [rec EXCEPT !.inUse = f.was]]
  /\ frames' = Below([f EXCEPT !.at = "after"])

\* ~Operation
Leave(r, rec, f) ==
  LET left == [rec EXCEPT !.inUse = f.was] IN
  IF left.shut /\ ~f.was THEN Finish(r, left, Below([f EXCEPT !.at = "after"]), NoPlugin)
  ELSE /\ record' = [record EXCEPT ![r] = left]
       /\ frames' = Below([f EXCEPT !.at = "after"])

\* CancelConstruction, and the adapter's Cancel if the construction has a token:
\* a record that is in use is left to the call that uses it.
Cancel(r, below) ==
  LET closed == [record[r] EXCEPT !.closed = TRUE, !.token = FALSE] IN
  IF record[r].token /\ ready /\ record[r].kept /\ ~record[r].shut /\ ~record[r].inUse
  THEN Finish(r, [Detached(closed) EXCEPT !.inUse = TRUE], below, record[r].owner)
  ELSE /\ record' = [record EXCEPT ![r] =
            IF record[r].token /\ ready /\ record[r].kept THEN Detached(closed) ELSE closed]
       /\ frames' = below

-----------------------------------------------------------------------------
(* The calls of plugins.                                                   *)

\* What the adapter's Find and Validate see.
Found(r) == ready /\ record[r].kept /\ ~record[r].shut
Valid(r) == engine[r] = "pending"
Accessible(r) ==
  record[r].listed /\ ~record[r].closed /\ ~record[r].initializing /\ record[r].token

Pending(p) ==
  {r \in Records : /\ record[r].listed /\ record[r].owner = p /\ ~record[r].closed
                   /\ (record[r].initializing \/ record[r].token)}
\* PruneConstructions: the engine no longer knows the entity; its backend does
\* nothing for it.
Stale(p) ==
  {r \in Pending(p) : /\ record[r].token /\ ~record[r].busy
                      /\ ~(Found(r) /\ record[r].created /\ ~record[r].consumed /\ Valid(r))}
Pruned(rec) ==
  LET closed == [rec EXCEPT !.closed = TRUE, !.token = FALSE] IN
  IF ~rec.kept \/ rec.shut THEN closed
  ELSE IF rec.inUse THEN Detached(closed) ELSE [Detached(closed) EXCEPT !.consumed = TRUE]

Create(p) ==
  /\ Native /\ Room /\ p \in accepted /\ ready /\ ~Resetting
  /\ Cardinality(Pending(p) \ Stale(p)) < MaxPending
  /\ \E r \in Records :
       /\ record[r] = Free /\ \A s \in 1..(r - 1) : record[s] # Free
       /\ record' = [s \in Records |->
            IF s = r THEN New(p) ELSE IF s \in Stale(p) THEN Pruned(record[s]) ELSE record[s]]
       /\ frames' = Append(frames, Call("create", "engine", p, r))
  /\ UNCHANGED <<accepted, ready, engine>>

\* The backend's Create returns: it failed, or made an entity which its own
\* callbacks may have removed again.
Created ==
  /\ frames # <<>> /\ Top.call = "create" /\ Top.at = "engine"
  /\ LET r == Top.record IN
     \E fate \in {"none", "pending", "removed"} :
       LET made == [record[r] EXCEPT !.created = fate # "none"]
           ok == fate = "pending" /\ ~made.shut
       IN /\ engine' = [engine EXCEPT ![r] = IF ready \/ fate = "none" THEN fate ELSE "lost"]
          /\ Leave(r, IF ok THEN made ELSE Detached(made), [Top EXCEPT !.ok = ok])
  /\ UNCHANGED <<accepted, ready>>

\* CreateEntity takes the token, unless the plugin was released meanwhile.
Accept ==
  /\ frames # <<>> /\ Top.call = "create" /\ Top.at = "after"
  /\ LET r == Top.record
         rec == [record[r] EXCEPT !.initializing = FALSE, !.token = Top.ok]
         gone == [rec EXCEPT !.listed = FALSE, !.closed = TRUE, !.token = FALSE]
     IN IF Top.ok /\ ~rec.closed /\ rec.owner \in accepted /\ rec.listed
        THEN /\ record' = [record EXCEPT ![r] = rec]
             /\ frames' = Front(frames)
        ELSE IF Top.ok /\ Found(r) /\ ~rec.inUse
        THEN Finish(r, [Detached(gone) EXCEPT !.inUse = TRUE], Front(frames), rec.owner)
        ELSE /\ record' = [record EXCEPT ![r] =
                  IF Top.ok /\ Found(r) THEN Detached(gone) ELSE gone]
             /\ frames' = Front(frames)
  /\ UNCHANGED <<accepted, ready, engine>>

\* ChangeConstruction: spawn or teleport.
Change(p, r, call) ==
  /\ Native /\ Room /\ p \in accepted /\ record[r].owner = p
  /\ Accessible(r) /\ ~record[r].busy
  /\ Found(r) /\ ~Resetting /\ ~record[r].inUse /\ Valid(r)
  /\ record' = [record EXCEPT ![r].busy = TRUE, ![r].inUse = TRUE]
  /\ frames' = Append(frames, Call(call, "engine", p, r))
  /\ UNCHANGED <<accepted, ready, engine>>

\* VisitConstruction, by the owner or by a plugin that observes the entity.
Visit(p, r) ==
  /\ Native /\ Room /\ p \in accepted
  /\ Accessible(r)
  /\ Found(r) /\ ~Resetting /\ record[r].created /\ ~record[r].consumed /\ Valid(r)
  /\ record' = [record EXCEPT ![r].inUse = TRUE]
  /\ frames' = Append(frames, [Call("visit", "engine", p, r) EXCEPT !.was = record[r].inUse])
  /\ UNCHANGED <<accepted, ready, engine>>

\* The backend's Spawn, Teleport or Visit returns; a spawn may have been
\* dispatched or not.
Changed ==
  /\ frames # <<>> /\ Top.call \in {"spawn", "teleport", "visit"} /\ Top.at = "engine"
  /\ LET r == Top.record IN
     \/ /\ Leave(r, record[r], Top) /\ UNCHANGED engine
     \/ /\ Top.call = "spawn"
        /\ engine' = [engine EXCEPT ![r] = IF @ = "pending" THEN "spawned" ELSE @]
        /\ Leave(r, [Detached(record[r]) EXCEPT !.consumed = TRUE], [Top EXCEPT !.ok = TRUE])
  /\ UNCHANGED <<accepted, ready>>

\* Mutant: the token is given up although the spawn was not dispatched.
ChangeForgets ==
  /\ frames # <<>> /\ Top.call \in {"spawn", "teleport", "visit"} /\ Top.at = "after"
  /\ record' = [record EXCEPT ![Top.record].busy = IF Top.call = "visit" THEN @ ELSE FALSE,
                              ![Top.record].token = @ /\ Top.call # "spawn"]
  /\ frames' = Front(frames)
  /\ UNCHANGED <<accepted, ready, engine>>

\* ~Busy, and the token of a spawned entity goes.
ChangeEnds ==
  /\ frames # <<>> /\ Top.call \in {"spawn", "teleport", "visit"} /\ Top.at = "after"
  /\ record' = [record EXCEPT ![Top.record].busy = IF Top.call = "visit" THEN @ ELSE FALSE,
                              ![Top.record].token = @ /\ ~Top.ok]
  /\ frames' = Front(frames)
  /\ UNCHANGED <<accepted, ready, engine>>

CancelEnds ==
  /\ frames # <<>> /\ Top.call = "cancel"
  /\ engine' = [engine EXCEPT ![Top.record] = IF @ = "pending" THEN "cancelled" ELSE @]
  /\ record' = [record EXCEPT ![Top.record].inUse = FALSE]
  /\ frames' = Front(frames)
  /\ UNCHANGED <<accepted, ready>>

-----------------------------------------------------------------------------
(* Releases and resets: the records are closed at once and cancelled one   *)
(* after the other.                                                        *)

Release(S) ==
  /\ record' = [r \in Records |->
       IF r \notin S THEN record[r] ELSE
       [record[r] EXCEPT !.listed = FALSE,
                         !.closed = @ \/ record[r].initializing \/ record[r].token]]
  /\ frames' = Append(frames, [Call("release", "next", NoPlugin, None) EXCEPT
       !.todo = {r \in S : record[r].initializing \/ record[r].token}])

ReleaseEntity(p, r) ==
  /\ Native /\ Room /\ record[r].owner = p /\ record[r].listed /\ ~record[r].initializing
  /\ Release({r})
  /\ UNCHANGED <<accepted, ready, engine>>

\* ReleasePlugin; a plugin with an operation open is not unloaded.
ReleasePlugin(p) ==
  /\ Native /\ Room /\ p \in accepted /\ \A f \in Open : f.plugin # p
  /\ accepted' = accepted \ {p}
  /\ Release({r \in Records : record[r].owner = p /\ record[r].listed})
  /\ UNCHANGED <<ready, engine>>

ReleaseNext ==
  /\ frames # <<>> /\ Top.call = "release"
  /\ IF Top.todo = {} THEN frames' = Front(frames) /\ UNCHANGED record
     ELSE \E r \in Top.todo : Cancel(r, Below([Top EXCEPT !.todo = @ \ {r}]))
  /\ UNCHANGED <<accepted, ready, engine>>

\* The map shuts down: Reset, then the epoch advances.
Reset ==
  /\ Native /\ Room /\ ready
  /\ ready' = FALSE
  /\ record' = [r \in Records |-> IF record[r].kept THEN Detached(record[r]) ELSE record[r]]
  /\ frames' = Append(frames, [Call("reset", "next", NoPlugin, None) EXCEPT
       !.todo = {r \in Records : record[r].kept}])
  /\ UNCHANGED <<accepted, engine>>

ResetNext ==
  /\ frames # <<>> /\ Top.call = "reset"
  /\ \/ \E r \in Top.todo :
          LET below == Below([Top EXCEPT !.todo = @ \ {r}]) IN
          /\ IF record[r].inUse THEN frames' = below /\ UNCHANGED record
             ELSE Finish(r, [record[r] EXCEPT !.inUse = TRUE], below, NoPlugin)
          /\ UNCHANGED engine
     \/ /\ Top.todo = {}
        /\ frames' = Front(frames)
        /\ engine' = [r \in Records |->
             IF engine[r] \in {"pending", "spawned"} THEN "lost" ELSE engine[r]]
        /\ UNCHANGED record
  /\ UNCHANGED <<accepted, ready>>

-----------------------------------------------------------------------------
(* The engine.                                                             *)

NewMap ==
  /\ frames = <<>> /\ ~ready
  /\ ready' = TRUE
  /\ UNCHANGED <<accepted, record, engine, frames>>

EngineRemoves(r) ==
  /\ Native /\ engine[r] \in {"pending", "spawned"}
  /\ engine' = [engine EXCEPT ![r] = "removed"]
  /\ UNCHANGED <<accepted, ready, record, frames>>

Next ==
  \/ Created \/ Accept \/ Changed \/ ChangeEnds \/ CancelEnds \/ ReleaseNext
  \/ Reset \/ ResetNext \/ NewMap
  \/ \E p \in Plugins :
       \/ Create(p) \/ ReleasePlugin(p)
       \/ \E r \in Records :
            \/ Visit(p, r) \/ ReleaseEntity(p, r)
            \/ \E call \in {"spawn", "teleport"} : Change(p, r, call)
  \/ \E r \in Records : EngineRemoves(r)

Spec == Init /\ [][Next]_vars

-----------------------------------------------------------------------------
\* An entity is handed to the engine once: it is spawned or cancelled, never
\* both, however the calls on it nest.
EndsOnce ==
  \A d \in 1..Len(frames) :
    frames[d].call \in {"spawn", "cancel"} /\ frames[d].at = "engine" =>
      /\ engine[frames[d].record] \notin {"spawned", "cancelled"}
      /\ \A e \in 1..(d - 1) :
           frames[e].call \in {"spawn", "cancel"} /\ frames[e].at = "engine" =>
             frames[e].record # frames[d].record

\* What was created and is neither spawned nor cancelled is still in the
\* adapter's records, or a call that is open will cancel it.
NothingLeaks ==
  \A r \in Records : Finishes(record[r]) =>
    \/ record[r].kept
    \/ \E f \in Open : f.record = r \/ r \in f.todo

\* A record the adapter keeps, and no call is on, can still be cancelled by the
\* plugin that owns it: the service has its token under a handle.
Reachable ==
  \A r \in Records :
    record[r].kept /\ (\A f \in Open : f.record # r /\ r \notin f.todo) =>
      record[r].token /\ record[r].listed /\ ~record[r].closed
=============================================================================
