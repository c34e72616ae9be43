----------------------------- MODULE GameAdapter -----------------------------
(***************************************************************************)
(* The game adapter: its library with the optional interfaces it offers    *)
(* (host/src/game_adapter_loader.cpp), and what it plants in the engine    *)
(* from start to stop (games/cs2/src/cs2_adapter.cpp): five Source 2       *)
(* hooks, the hooks of the lifecycle events, one listener for game events  *)
(* and the console commands.                                               *)
(*                                                                         *)
(* All of it runs on the game's thread.  The validation of the engine's    *)
(* interfaces is one choice of success or failure; console variables,      *)
(* entities and the loop-mode hooks are modules of their own.              *)
(***************************************************************************)
EXTENDS Integers, FiniteSets

CONSTANTS
  Extensions,      \* the optional interfaces of the library
  Source2,         \* the hooks of InitializeSource2Callbacks, 1..n in their order
  LifecycleEvents,
  Names,           \* game events
  Managers,        \* game event managers the engine may show
  Commands         \* bound: records of commands

VARIABLES
  library,    \* GameAdapterModule: library_, adapter_, the tables and what Load has left
  adapter,    \* the interfaces and callbacks the adapter holds
  capture,    \* the game event manager, listener and names
  command,    \* commands_ and retired_commands_
  stage,      \* how far the host is with its start or its release
  keelhook,   \* KeelHook: how many callbacks of the adapter it holds
  engine,     \* the engine: its listeners, their names, the commands it runs
  promised    \* game events plugins are subscribed to (listened_events_)

vars == <<library, adapter, capture, command, stage, keelhook, engine, promised>>

Hooks == Source2 \cup LifecycleEvents
NoManager == 0

Unloaded == [open |-> FALSE, adapter |-> FALSE, tables |-> {}, todo |-> {}]
Stopped ==
  [completed |-> FALSE, source2 |-> FALSE, held |-> {}, lifecycle |-> FALSE, hooked |-> {}]
NoCapture ==
  [manager |-> NoManager, failed |-> FALSE, listener |-> FALSE, requested |-> {}, bound |-> {}]
NoCommands == [c \in Commands |-> "free"]

TypeOK ==
  /\ library \in [open : BOOLEAN, adapter : BOOLEAN,
                  tables : SUBSET Extensions, todo : SUBSET Extensions]
  /\ adapter \in [completed : BOOLEAN, source2 : BOOLEAN, held : SUBSET Source2,
                  lifecycle : BOOLEAN, hooked : SUBSET LifecycleEvents]
  /\ capture \in [manager : Managers \cup {NoManager}, failed : BOOLEAN, listener : BOOLEAN,
                  requested : SUBSET Names, bound : SUBSET Names]
  /\ command \in [Commands -> {"free", "active", "retired"}]
  /\ stage \in {"stopped", "started", "running", "failing", "quiet", "unhooked"}
  /\ keelhook \in [Hooks -> 0..2]
  /\ engine \in [listeners : 0..2, names : SUBSET Names, runs : SUBSET Commands]
  /\ promised \in SUBSET Names

Init ==
  /\ library = Unloaded /\ adapter = Stopped /\ capture = NoCapture /\ command = NoCommands
  /\ stage = "stopped"
  /\ keelhook = [h \in Hooks |-> 0]
  /\ engine = [listeners |-> 0, names |-> {}, runs |-> {}]
  /\ promised = {}

-----------------------------------------------------------------------------
(* GameAdapterModule::Load and Reset.                                      *)

\* Mutant: the library is closed over the adapter it made.
ResetClosing == library' = [Unloaded EXCEPT !.adapter = library.adapter]

\* Reset: the adapter is destroyed, its tables forgotten, the library closed.
Reset == library' = Unloaded

Open ==
  /\ stage = "stopped" /\ ~library.open
  /\ library' = [Unloaded EXCEPT !.open = TRUE, !.todo = Extensions]
  /\ UNCHANGED <<adapter, capture, command, stage, keelhook, engine, promised>>

\* The provider is refused, or makes an adapter.
Create ==
  /\ library.open /\ ~library.adapter
  /\ Reset \/ library' = [library EXCEPT !.adapter = TRUE]
  /\ UNCHANGED <<adapter, capture, command, stage, keelhook, engine, promised>>

\* An optional interface: absent, accepted, or incompatible.
Extend(x) ==
  /\ library.adapter /\ x \in library.todo
  /\ \/ library' = [library EXCEPT !.todo = @ \ {x}]
     \/ library' = [library EXCEPT !.todo = @ \ {x}, !.tables = @ \cup {x}]
     \/ Reset
  /\ UNCHANGED <<adapter, capture, command, stage, keelhook, engine, promised>>

-----------------------------------------------------------------------------
(* Start, the Source 2 hooks and the lifecycle hooks.                      *)

\* The engine's interfaces, targets or modules are not those expected: nothing
\* is kept.
StartRefused ==
  /\ stage = "stopped" /\ library.adapter /\ library.todo = {}
  /\ stage' = "failing"
  /\ UNCHANGED <<library, adapter, capture, command, keelhook, engine, promised>>

\* Start, and the first assignments of InitializeSource2Callbacks.
Start ==
  /\ stage = "stopped" /\ library.adapter /\ library.todo = {}
  /\ stage' = "started" /\ adapter' = [Stopped EXCEPT !.source2 = TRUE]
  /\ UNCHANGED <<library, capture, command, keelhook, engine, promised>>

\* InitializeSource2Callbacks: the next of the hooks is installed.
Install(n) ==
  /\ stage = "started" /\ n \in Source2 \ adapter.held /\ 1..(n - 1) \subseteq adapter.held
  /\ keelhook' = [keelhook EXCEPT ![n] = @ + 1]
  /\ adapter' = [adapter EXCEPT !.held = @ \cup {n}]
  /\ UNCHANGED <<library, capture, command, stage, engine, promised>>

\* It is refused: those before are removed, though KeelHook may refuse that too,
\* and the start is given up.
InstallFails ==
  /\ stage = "started" /\ adapter.held # Source2
  /\ \E S \in SUBSET adapter.held :
       keelhook' = [h \in Hooks |-> IF h \in S THEN keelhook[h] - 1 ELSE keelhook[h]]
  /\ adapter' = [adapter EXCEPT !.source2 = FALSE, !.held = {}]
  /\ stage' = "failing"
  /\ UNCHANGED <<library, capture, command, engine, promised>>

\* The host's start fails elsewhere.
GiveUp ==
  /\ stage = "started" /\ stage' = "failing"
  /\ UNCHANGED <<library, adapter, capture, command, keelhook, engine, promised>>

Run ==
  /\ stage = "started" /\ adapter.held = Source2
  /\ stage' = "running"
  /\ UNCHANGED <<library, adapter, capture, command, keelhook, engine, promised>>

CompleteStartup ==
  /\ stage = "running"
  /\ ~capture.failed /\ capture.listener /\ capture.bound = capture.requested
  /\ adapter' = [adapter EXCEPT !.completed = TRUE]
  /\ UNCHANGED <<library, capture, command, stage, keelhook, engine, promised>>

\* Mutant: a refused hook takes the callback away from those that are installed.
EnableRefusedClearing(e) == [adapter EXCEPT !.lifecycle = FALSE]

EnableRefused(e) == [adapter EXCEPT !.lifecycle = adapter.hooked # {}]

\* EnableLifecycleEvent: its target, or its callback, may be refused.
EnableLifecycleEvent(e) ==
  /\ stage = "running" /\ e \notin adapter.hooked
  /\ \/ /\ adapter' = [adapter EXCEPT !.lifecycle = TRUE, !.hooked = @ \cup {e}]
        /\ keelhook' = [keelhook EXCEPT ![e] = @ + 1]
     \/ adapter' = EnableRefused(e) /\ UNCHANGED keelhook
  /\ UNCHANGED <<library, capture, command, stage, engine, promised>>

-----------------------------------------------------------------------------
(* Game events.                                                            *)

Listens == capture.listener
Listened(name) ==
  [capture EXCEPT !.requested = @ \cup {name}, !.bound = IF Listens THEN @ \cup {name} ELSE @]

\* Mutant: a name the engine refused stays in the list.
ListenRefusedKeeping(name) == [capture EXCEPT !.requested = @ \cup {name}]

ListenRefused(name) == capture

\* ListenForGameEvent, for a plugin's subscription: before the manager is known
\* the name is only noted.
ListenForGameEvent(name) ==
  /\ stage = "running" /\ name \notin promised
  /\ \/ /\ name \in capture.requested
        /\ promised' = promised \cup {name} /\ UNCHANGED <<capture, engine>>
     \/ /\ name \notin capture.requested
        /\ capture' = Listened(name)
        /\ engine' = IF Listens THEN [engine EXCEPT !.names = @ \cup {name}] ELSE engine
        /\ promised' = promised \cup {name}
     \/ /\ Listens /\ name \notin capture.requested
        /\ capture' = ListenRefused(name) /\ UNCHANGED <<engine, promised>>
  /\ UNCHANGED <<library, adapter, command, stage, keelhook>>

\* Mutant: another manager takes the place of the first.
KnownToDiffer(m) == FALSE

Known(m) == capture.manager # NoManager

\* CaptureGameEventManager, from the hook of LoadEventsFromFile: the listener is
\* made and every name noted so far is bound, or none.
LoadEvents(m) ==
  /\ keelhook[1] > 0 /\ ~capture.failed
  /\ IF Known(m)
     THEN /\ capture' = [capture EXCEPT !.failed = m # capture.manager]
          /\ UNCHANGED engine
     ELSE \/ /\ capture' = [capture EXCEPT !.manager = m, !.listener = TRUE, !.bound = capture.requested]
             /\ engine' = [engine EXCEPT !.listeners = @ + 1, !.names = capture.requested]
          \/ /\ capture' = [capture EXCEPT !.manager = m, !.failed = TRUE, !.bound = {}]
             /\ UNCHANGED engine
  /\ UNCHANGED <<library, adapter, command, stage, keelhook, promised>>

\* The instance has another virtual table than the one that is pinned.
LoadForeignEvents ==
  /\ keelhook[1] > 0 /\ ~capture.failed
  /\ capture' = [capture EXCEPT !.failed = TRUE]
  /\ UNCHANGED <<library, adapter, command, stage, keelhook, engine, promised>>

-----------------------------------------------------------------------------
(* Commands.                                                               *)

RegisterCommand(c) ==
  /\ stage = "running" /\ command[c] = "free"
  /\ command' = [command EXCEPT ![c] = "active"]
  /\ UNCHANGED <<library, adapter, capture, stage, keelhook, engine, promised>>

\* Mutant: the record is freed at once.
RetireFreeing(c) == "free"

Retire(c) == "retired"

\* UnregisterCommand keeps the record: a command may unregister itself.
UnregisterCommand(c) ==
  /\ stage \in {"running", "quiet"} /\ command[c] = "active"
  /\ command' = [command EXCEPT ![c] = Retire(c)]
  /\ UNCHANGED <<library, adapter, capture, stage, keelhook, engine, promised>>

RunCommand(c) ==
  /\ command[c] = "active" /\ c \notin engine.runs
  /\ stage \in {"running", "quiet"}
  /\ engine' = [engine EXCEPT !.runs = @ \cup {c}]
  /\ UNCHANGED <<library, adapter, capture, command, stage, keelhook, promised>>

CommandEnds(c) ==
  /\ c \in engine.runs
  /\ engine' = [engine EXCEPT !.runs = @ \ {c}]
  /\ UNCHANGED <<library, adapter, capture, command, stage, keelhook, promised>>

-----------------------------------------------------------------------------
(* ReleaseResources.                                                       *)

Deafened == [engine EXCEPT !.listeners = IF Listens THEN @ - 1 ELSE @,
                           !.names = IF Listens THEN {} ELSE @]

\* ShutdownSource2Callbacks: the listener is destroyed; the hooks stay.
ShutdownSource2 ==
  /\ stage \in {"running", "failing"} /\ stage' = "quiet"
  /\ capture' = NoCapture /\ engine' = Deafened /\ promised' = {}
  /\ adapter' = [adapter EXCEPT !.source2 = FALSE]
  /\ UNCHANGED <<library, command, keelhook>>

\* Every command has ended (module HostLifecycle) when KeelHook is released.
ReleaseHooks ==
  /\ stage = "quiet" /\ stage' = "unhooked" /\ engine.runs = {}
  /\ keelhook' = [h \in Hooks |-> 0]
  /\ UNCHANGED <<library, adapter, capture, command, engine, promised>>

\* Mutant: what the hooks did since ShutdownSource2Callbacks is left.
StopOnce == capture' = NoCapture /\ UNCHANGED engine

StopSource2 == capture' = NoCapture /\ engine' = Deafened

\* Stop, and the library is closed.
Stop ==
  /\ stage = "unhooked" /\ stage' = "stopped"
  /\ StopSource2
  /\ command' = NoCommands /\ adapter' = Stopped
  /\ Reset
  /\ UNCHANGED <<keelhook, promised>>

Next ==
  \/ Open \/ Create \/ StartRefused \/ Start \/ InstallFails \/ GiveUp \/ Run \/ CompleteStartup
  \/ LoadForeignEvents \/ ShutdownSource2 \/ ReleaseHooks \/ Stop
  \/ \E x \in Extensions : Extend(x)
  \/ \E n \in Source2 : Install(n)
  \/ \E e \in LifecycleEvents : EnableLifecycleEvent(e)
  \/ \E name \in Names : ListenForGameEvent(name)
  \/ \E m \in Managers : LoadEvents(m)
  \/ \E c \in Commands :
       RegisterCommand(c) \/ UnregisterCommand(c) \/ RunCommand(c) \/ CommandEnds(c)

Spec == Init /\ [][Next]_vars

-----------------------------------------------------------------------------
\* Nothing of the engine or of KeelHook points into a library that is closed, nor
\* does an adapter or a table of functions outlive its library.
LibraryInUse ==
  /\ \/ \E h \in Hooks : keelhook[h] > 0
     \/ engine.listeners > 0 \/ engine.runs # {}
     \/ \E c \in Commands : command[c] # "free"
     => library.adapter
  /\ library.adapter \/ library.tables # {} => library.open

\* The engine runs no command whose record is freed, and holds no listener that
\* the adapter has lost.
RecordsInUse ==
  /\ \A c \in engine.runs : command[c] # "free"
  /\ engine.listeners = IF capture.listener THEN 1 ELSE 0

\* Once the start is complete the engine tells the listener of every game event
\* a plugin is subscribed to, and of every lifecycle event that is hooked the
\* service hears, once.
Reported ==
  /\ adapter.completed /\ adapter.source2 => promised \subseteq engine.names
  /\ adapter.hooked # {} => adapter.lifecycle
  /\ \A h \in Hooks : keelhook[h] <= 1
=============================================================================
