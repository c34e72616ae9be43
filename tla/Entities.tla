------------------------------- MODULE Entities -------------------------------
(***************************************************************************)
(* Entity handles of plugins (host/src/schema_entity_service.cpp), the     *)
(* epoch that expires them (games/cs2/src/cs2_adapter.cpp), and the calls  *)
(* made on them in the engine (games/cs2/src/native_bridge.cpp).           *)
(*                                                                         *)
(* All of it runs on the game's thread.  The engine calls back into        *)
(* plugins inside its own functions, so maps may change and entities go    *)
(* in the middle of a call: frames are the calls that are open.  There is  *)
(* one loop of the game and one place for an entity; addresses and serial  *)
(* numbers are used again by the next map, which is the worst case.        *)
(***************************************************************************)
EXTENDS Integers, FiniteSets, SequencesExt

CONSTANTS
  MaxHandles,   \* bound: handles a plugin holds at once
  MaxMaps,      \* bound: loops the engine ever starts; one makes at most one entity system
  MaxSerial,    \* bound: entities a map ever has
  Misses,       \* may the hooks on the engine's loops fail to be placed?
  MaxDepth      \* KEELS2_ENTITY_ACCESS_MAX_DEPTH and the other depths, 8 in the code

VARIABLES
  engine,   \* the engine's loop mode, its loops so far, entity system and entity
  hooked,   \* the virtual tables that are hooked
  seen,     \* active_factories_, active_loops_, initialized_loops_
  epoch,    \* entity_epoch_, and current_entity_system_
  handle,   \* entities_ of the service
  frames,   \* the open calls, innermost last
  told      \* the level events plugins were sent

vars == <<engine, hooked, seen, epoch, handle, frames, told>>

Handles == 1..MaxHandles
None == 0

\* A GameEntityIdentity: the handle of the entity (its serial number) and the epoch.
\* map and late are what it was in truth: the entity system it was taken from, and
\* that no level was up.
Identity == [serial : 1..MaxSerial, epoch : Nat, map : 1..MaxMaps, late : BOOLEAN]
NoIdentity == [serial |-> 1, epoch |-> 0, map |-> 1, late |-> FALSE]

\* A call that uses the entity once, or goes on with it after engine code ran.
Calls == {"once", "respawn", "impulse"}
Frame == [call : Calls, on : SUBSET Identity, second : BOOLEAN, current : BOOLEAN]

TypeOK ==
  /\ engine \in [factory : BOOLEAN,
                 loop : {"none", "created", "starting", "up", "stopping", "down"},
                 map : 0..MaxMaps, maps : 0..MaxMaps,
                 entity : 0..MaxSerial, last : 0..MaxSerial]
  /\ hooked \in [factory : BOOLEAN, loop : BOOLEAN]
  /\ seen \in [factory : BOOLEAN, loop : BOOLEAN, level : BOOLEAN]
  /\ epoch \in [number : Nat \ {0}, system : BOOLEAN, missed : BOOLEAN]
  /\ \A h \in Handles : handle[h] \in Identity \cup {NoIdentity}
  /\ \A d \in 1..Len(frames) : frames[d] \in Frame
  /\ told \in {"nothing", "init", "wrong"}

Init ==
  /\ engine = [factory |-> FALSE, loop |-> "none", map |-> 0, maps |-> 0, entity |-> 0, last |-> 0]
  /\ hooked = [factory |-> FALSE, loop |-> FALSE]
  /\ seen = [factory |-> FALSE, loop |-> FALSE, level |-> FALSE]
  /\ epoch = [number |-> 1, system |-> FALSE, missed |-> FALSE]
  /\ handle = [h \in Handles |-> NoIdentity]
  /\ frames = <<>> /\ told = "nothing"

-----------------------------------------------------------------------------
(* The epoch.                                                              *)

Advanced(e) == [e EXCEPT !.number = @ + 1]
\* Mutant: the end of a level leaves the epoch as it is.
Forgotten(e) == e
\* InvalidateEntityEpoch
Invalidated(e) == [Advanced(e) EXCEPT !.system = FALSE]
\* CurrentEntitySystemLocked: an entity system that appears or goes advances it.
Looked ==
  IF epoch.system # (engine.map # 0)
  THEN [Advanced(epoch) EXCEPT !.system = engine.map # 0] ELSE epoch

\* ValidateEntity, in the engine's terms: the epoch, and the identity's handle.
Live(x) == engine.map # 0 /\ engine.entity = x.serial
Valid(x) == x.epoch = Looked.number /\ Live(x)
\* ... and in truth.
Current(S) == \A x \in S : Live(x) /\ x.map = engine.map

-----------------------------------------------------------------------------
(* The engine's loop mode and the hooks on it.  Hooks are placed when a    *)
(* factory or a loop is first seen, and that may fail.                     *)

\* Whether the hook is there after one more attempt.
Placed(before) == IF Misses THEN {before, TRUE} ELSE {TRUE}

\* Engine code runs, in a call of the keel or on its own.
Turn == UNCHANGED <<handle, frames>>

RegisterLoopMode ==
  /\ ~engine.factory /\ Turn
  /\ engine' = [engine EXCEPT !.factory = TRUE]
  /\ seen' = [seen EXCEPT !.factory = TRUE]
  /\ \E ok \in Placed(hooked.factory) : hooked' = [hooked EXCEPT !.factory = ok]
  /\ UNCHANGED <<epoch, told>>

\* The engine gives a loop mode up when it has no loop of it.
UnregisterLoopMode ==
  /\ engine.factory /\ engine.loop = "none" /\ Turn
  /\ engine' = [engine EXCEPT !.factory = FALSE]
  /\ seen' = [seen EXCEPT !.factory = FALSE]
  /\ UNCHANGED <<hooked, epoch, told>>

CreateLoopMode ==
  /\ engine.factory /\ engine.loop = "none" /\ Turn
  /\ engine' = [engine EXCEPT !.loop = "created"]
  /\ IF hooked.factory /\ seen.factory
     THEN /\ seen' = [seen EXCEPT !.loop = TRUE]
          /\ \E ok \in Placed(hooked.loop) :
               /\ hooked' = [hooked EXCEPT !.loop = ok]
               /\ epoch' = [epoch EXCEPT !.missed = @ \/ ~ok]
     ELSE /\ epoch' = [epoch EXCEPT !.missed = TRUE]
          /\ UNCHANGED <<seen, hooked>>
  /\ UNCHANGED told

\* EmitSource2: the events of a level, as plugins hear them.
Sent(event) ==
  CASE event = "init" -> IF told = "nothing" THEN "init" ELSE "wrong"
    [] event = "shutdown" -> IF told = "init" THEN "nothing" ELSE "wrong"

LoopInit ==
  /\ engine.loop = "starting" /\ Turn
  /\ \/ /\ engine' = [engine EXCEPT !.loop = "up"]
        /\ IF hooked.loop /\ seen.loop /\ ~seen.level
           THEN /\ seen' = [seen EXCEPT !.level = TRUE]
                /\ epoch' = Invalidated(epoch)
                /\ told' = Sent("init")
           ELSE UNCHANGED <<seen, epoch, told>>
     \/ engine' = [engine EXCEPT !.loop = "down"] /\ UNCHANGED <<seen, epoch, told>>
  /\ UNCHANGED hooked

LoopShutdown ==
  /\ engine.loop = "up" /\ Turn
  /\ engine' = [engine EXCEPT !.loop = "stopping"]
  /\ IF hooked.loop /\ seen.level
     THEN /\ seen' = [seen EXCEPT !.level = FALSE]
          /\ epoch' = Invalidated(epoch)
          /\ told' = Sent("shutdown")
     ELSE UNCHANGED <<seen, epoch, told>>
  /\ UNCHANGED hooked

\* A loop that was not shut down ends its level here, without an event.
DestroyLoopMode ==
  /\ engine.loop \in {"created", "up", "down"} /\ Turn
  /\ engine' = [engine EXCEPT !.loop = "none"]
  /\ IF hooked.factory /\ seen.factory
     THEN /\ seen' = [seen EXCEPT !.loop = FALSE, !.level = FALSE]
          /\ epoch' = IF seen.level THEN Invalidated(epoch) ELSE epoch
          /\ told' = IF seen.level THEN "nothing" ELSE told
     ELSE UNCHANGED <<seen, epoch, told>>
  /\ UNCHANGED hooked

\* The rest of the engine: it starts a loop after making or freeing what it needs.
EngineStep ==
  /\ Turn /\ UNCHANGED <<hooked, seen, epoch, told>>
  /\ \/ /\ engine.loop \in {"created", "down"} /\ engine.maps < MaxMaps
        /\ engine' = [engine EXCEPT !.loop = "starting", !.maps = @ + 1]
     \/ /\ engine.loop = "stopping"
        /\ engine' = [engine EXCEPT !.loop = "down"]
     \/ /\ engine.map = 0 /\ engine.loop \in {"starting", "up"}
        /\ engine' = [engine EXCEPT !.map = engine.maps, !.last = 0]
     \/ /\ engine.map # 0 /\ engine.loop \notin {"starting", "up"}
        /\ engine' = [engine EXCEPT !.map = 0, !.entity = 0]
     \/ /\ engine.map # 0 /\ engine.entity = 0 /\ engine.last < MaxSerial
        /\ engine' = [engine EXCEPT !.entity = engine.last + 1, !.last = @ + 1]
     \/ /\ engine.entity # 0
        /\ engine' = [engine EXCEPT !.entity = 0]

-----------------------------------------------------------------------------
(* The calls of plugins.                                                   *)

Here == [serial |-> engine.entity, epoch |-> Looked.number, map |-> engine.map,
         late |-> engine.loop # "up"]

\* A plugin's new handle: by index, by serial number, or of a pointer it was given.
Find(h) ==
  /\ handle[h] = NoIdentity
  /\ epoch' = Looked
  /\ IF engine.map # 0 /\ engine.entity # 0
     THEN handle' = [handle EXCEPT ![h] = Here] ELSE UNCHANGED handle
  /\ UNCHANGED <<engine, hooked, seen, frames, told>>

FindEntityByIndex(h) == Find(h)
\* The serial number may be one the plugin kept from another map.
FindEntityBySource2Handle(h, serial) == (engine.entity # 0 => engine.entity = serial) /\ Find(h)
\* A callback gives the plugin a pointer: CaptureEntity finds it in the system or refuses.
CaptureEntity(h) == frames # <<>> /\ Find(h)

ReleaseEntity(h) ==
  /\ handle[h] # NoIdentity
  /\ handle' = [handle EXCEPT ![h] = NoIdentity]
  /\ UNCHANGED <<engine, hooked, seen, epoch, frames, told>>

ReleasePlugin ==
  /\ frames = <<>>   \* active_native_operations
  /\ handle' = [h \in Handles |-> NoIdentity]
  /\ UNCHANGED <<engine, hooked, seen, epoch, frames, told>>

\* The adapter looks at the entity system and the epochs, the bridge at the handles,
\* and the engine's function or the plugin's callback runs: a frame.
Reach(call, S) ==
  /\ Len(frames) < MaxDepth
  /\ epoch' = Looked
  /\ IF \A x \in S : Valid(x)
     THEN frames' = Append(frames,
            [call |-> call, on |-> S, second |-> FALSE, current |-> Current(S)])
     ELSE UNCHANGED frames
  /\ UNCHANGED <<engine, hooked, seen, handle, told>>

\* The identities behind handles the plugin holds; no other code runs before Reach.
Use(call, H) == (\A h \in H : handle[h] # NoIdentity) /\ Reach(call, {handle[h] : h \in H})

ReadEntityField(h) == Use("once", {h})
DescribeEntity(h) == Use("once", {h})
EqualEntity(g, h) == Use("once", {g, h})
WriteField(h) == Use("once", {h})
AccessPlayerStat(h) == Use("once", {h})
EntityTool(h) == Use("once", {h})
WeaponMatches(h) == Use("once", {h})
VisitEntities(H) == H # {} /\ Use("once", H)
\* The participants' epochs are compared here already.
EntityInput(H) == Cardinality({handle[h].epoch : h \in H}) = 1 /\ Use("once", H)
\* An impulse teleports the player and may damage it then; a kill is one call.
PlayerAction(h) == \E call \in {"once", "impulse"} : Use(call, {h})
\* A respawn sets the pawn first.
ManagePlayer(h) == \E call \in {"once", "respawn"} : Use(call, {h})
\* The adapter finds the rules' entity itself.
TerminateRound == engine.map # 0 /\ engine.entity # 0 /\ Reach("once", {Here})

Top == Last(frames)

Return ==
  /\ frames # <<>> /\ (Top.call = "once" \/ Top.second)
  /\ frames' = Front(frames)
  /\ UNCHANGED <<engine, hooked, seen, epoch, handle, told>>

Second == Append(Front(frames), [Top EXCEPT !.second = TRUE, !.current = Current(Top.on)])

\* Mutant: the pawn is taken as it was, whatever SetPawn did.
RespawnAnyway ==
  /\ frames # <<>> /\ Top.call = "respawn" /\ ~Top.second
  /\ epoch' = Looked
  /\ frames' = IF \A x \in Top.on : Live(x) THEN Second ELSE Front(frames)
  /\ UNCHANGED <<engine, hooked, seen, handle, told>>

\* SetPawn may have run anything: ManagePlayer starts anew.
Respawn ==
  /\ frames # <<>> /\ Top.call = "respawn" /\ ~Top.second
  /\ epoch' = Looked
  /\ frames' = IF \A x \in Top.on : Valid(x) THEN Second ELSE Front(frames)
  /\ UNCHANGED <<engine, hooked, seen, handle, told>>

\* KeelCs2_PlayerAction looks the entity up again after Teleport, in the entity system
\* it was given, without the epoch.
Damage ==
  /\ frames # <<>> /\ Top.call = "impulse" /\ ~Top.second
  /\ frames' = IF \A x \in Top.on : Live(x) THEN Second ELSE Front(frames)
  /\ UNCHANGED <<engine, hooked, seen, epoch, handle, told>>

Next ==
  \/ RegisterLoopMode \/ UnregisterLoopMode \/ CreateLoopMode \/ LoopInit \/ LoopShutdown
  \/ DestroyLoopMode \/ EngineStep
  \/ ReleasePlugin \/ TerminateRound \/ Return \/ Respawn \/ Damage
  \/ \E h \in Handles :
       \/ FindEntityByIndex(h) \/ CaptureEntity(h) \/ ReleaseEntity(h)
       \/ ReadEntityField(h) \/ DescribeEntity(h) \/ WriteField(h) \/ AccessPlayerStat(h)
       \/ EntityTool(h) \/ WeaponMatches(h) \/ PlayerAction(h) \/ ManagePlayer(h)
       \/ \E g \in Handles : EqualEntity(g, h)
       \/ \E serial \in 1..MaxSerial : FindEntityBySource2Handle(h, serial)
  \/ \E H \in SUBSET Handles : VisitEntities(H) \/ EntityInput(H)

Spec == Init /\ [][Next]_vars

-----------------------------------------------------------------------------
\* A call reaches the entity the plugin's handle was made for, and no other that has
\* its number on a later map.  The exceptions are in the code: a level that could not
\* be hooked, a handle made between two levels,
\* and the damage of a PlayerAction whose Teleport changed the map.
ReachesItsEntity ==
  \A d \in 1..Len(frames) :
    \/ frames[d].current
    \/ epoch.missed
    \/ \E x \in frames[d].on : x.late
    \/ frames[d].call = "impulse" /\ frames[d].second

\* Plugins hear of a level's end after its start, and of its start once.
LevelsPair == told # "wrong"
-----------------------------------------------------------------------------
(* The inductive invariant.                                                *)

EntityConstants == MaxMaps \in Nat /\ MaxSerial \in Nat

\* Unless a hook was missed, a level is seen exactly while it is up.
LevelsSeen ==
  /\ told = IF seen.level THEN "init" ELSE "nothing"
  /\ engine.loop # "none" => engine.factory
  /\ engine.factory => seen.factory
  /\ ~epoch.missed =>
       /\ engine.loop # "none" => hooked.factory /\ hooked.loop /\ seen.loop
       /\ seen.level <=> engine.loop = "up"

\* An identity that was taken while a level was up and whose epoch is not over is of the
\* map that is there still.
Expires(x) ==
  /\ x.epoch <= epoch.number
  /\ x.epoch = epoch.number /\ ~epoch.missed /\ ~x.late =>
       engine.loop = "up" /\ engine.map # 0 /\ x.map = engine.map

EntityInv ==
  /\ frames \in Seq(Frame)
  /\ handle \in [Handles -> Identity \cup {NoIdentity}]
  /\ LevelsSeen /\ ReachesItsEntity
  /\ \A h \in Handles : Expires(handle[h])
  /\ \A d \in 1..Len(frames) : \A x \in frames[d].on : Expires(x)
=============================================================================
