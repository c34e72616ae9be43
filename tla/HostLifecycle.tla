---------------------------- MODULE HostLifecycle ----------------------------
(***************************************************************************)
(* From the bootstrap's hooks on the engine's server (bootstrap.cpp)       *)
(* through the host's Start, Stop and ReleaseResources to the commands it  *)
(* dispatches (host.cpp).                                                  *)
(*                                                                         *)
(* One thread, the game's, initialises and disconnects the server; any     *)
(* thread may dispatch a command.  lifecycle_mutex_ is a variable, since a *)
(* thread may reach it again through an engine call; state_mutex_ makes    *)
(* the segments that are the actions.                                      *)
(***************************************************************************)
EXTENDS Integers, FiniteSets, SequencesExt

CONSTANTS
  Threads, Game,     \* the threads, and the one of them that runs the server
  NoThread,
  Layers,            \* how many services ReleaseResources shuts down in turn
  MaxDepth           \* bound: nesting of calls on the game's thread; the others
                     \* make one call at a time

VARIABLES
  captured,     \* vtable patches of the bootstrap that are in place
  observed,     \* init_observed_, connect_observed_, and lifecycle_complete_
  boot,         \* host_state_ of the bootstrap; the host's image is open unless "stopped"
  state,        \* state_ of the host
  accepting,    \* accepting_resources_
  open,         \* dispatch_open_
  entries,      \* g_dispatch_entries
  lifecycle,    \* holder of lifecycle_mutex_
  command,      \* the core command and a plugin's command
  plugin,       \* the plugin: "none", "loaded", "prepared", "closed"
  frames        \* the calls each thread is in, innermost last

vars == <<captured, observed, boot, state, accepting, open, entries, lifecycle,
          command, plugin, frames>>
bootVars == <<captured, observed, boot>>
hostVars == <<state, accepting, open, lifecycle, command, plugin>>

Commands == {"core", "own"}
Patches == {"connect", "disconnect", "init"}
Phases == {"stopped", "starting", "running", "stopping"}

Frame ==
  [call : {"init", "disconnect", "start", "stop", "command", "native", "transition"},
   at : {"begin", "host", "original", "complete", "load", "stop", "drain", "relock",
         "quiesce", "layers", "clear", "unload", "entered", "counted", "in", "torn"},
   answer : {"none", "ok", "refused", "retained"}, left : 0..Layers, cmd : Commands]

Call(call, at) == [call |-> call, at |-> at, answer |-> "none", left |-> Layers, cmd |-> "core"]

TypeOK ==
  /\ captured \in SUBSET Patches /\ observed \in SUBSET {"connect", "init", "complete"}
  /\ boot \in Phases /\ state \in Phases /\ accepting \in BOOLEAN /\ open \in BOOLEAN
  /\ entries \in Nat /\ lifecycle \in Threads \cup {NoThread}
  /\ command \in [Commands -> [state : {"none", "registered", "retired"},
                               enabled : BOOLEAN, active : Nat]]
  /\ plugin \in {"none", "loaded", "prepared", "closed"}
  /\ frames \in [Threads -> Seq(Frame)] /\ \A t \in Threads : Len(frames[t]) <= MaxDepth

NoCommand == [state |-> "none", enabled |-> FALSE, active |-> 0]
Init ==
  /\ captured = {} /\ observed = {} /\ boot = "stopped" /\ state = "stopped"
  /\ accepting = FALSE /\ open = FALSE /\ entries = 0 /\ lifecycle = NoThread
  /\ command = [c \in Commands |-> NoCommand] /\ plugin = "none"
  /\ frames = [t \in Threads |-> <<>>]

-----------------------------------------------------------------------------
Top(t) == Last(frames[t])
At(t, call, at) == frames[t] # <<>> /\ Top(t).call = call /\ Top(t).at = at
\* A dispatch has raised active of its command.
Inside == {"counted", "in", "torn"}
FramesOf(t) == Range(frames[t])
AllFrames == UNION {FramesOf(t) : t \in Threads}
Push(t, f) == /\ Len(frames[t]) < IF t = Game THEN MaxDepth ELSE 1
              /\ frames' = [frames EXCEPT ![t] = Append(@, f)]
SetTop(t, f) == frames' = [frames EXCEPT ![t] = Append(Front(@), f)]
Goto(t, at) == SetTop(t, [Top(t) EXCEPT !.at = at])
Pop(t) == frames' = [frames EXCEPT ![t] = Front(@)]

\* The call that is left gives its caller in the bootstrap an answer.
Return(t, answer) ==
  LET rest == Front(frames[t]) IN
  frames' = [frames EXCEPT ![t] =
               Append(Front(rest), [Last(rest) EXCEPT !.answer = answer])]

\* Engine or plugin code runs on t.
Running(t) ==
  frames[t] # <<>> => Top(t).at \in {"original", "load", "in", "unload"}

-----------------------------------------------------------------------------
(* The bootstrap.                                                          *)

\* QueryInterface with PatchConfig and PatchServer, once the profile is known.
Capture(patches) ==
  /\ "complete" \notin observed /\ Running(Game)
  /\ patches \in {{"connect", "disconnect"} \ observed, {"init"} \ observed}
  /\ captured' = captured \cup patches
  /\ UNCHANGED <<observed, boot, hostVars, entries, frames>>

\* RestorePatch; the page may refuse to be written.
Uncaptured(p) == captured' \in {captured, captured \ {p}}

Connect ==
  /\ Running(Game) /\ "connect" \in captured
  /\ observed' = observed \cup {"connect"}
  /\ Uncaptured("connect")
  /\ UNCHANGED <<boot, hostVars, entries, frames>>

\* OnInit and StartHost; the host's library may fail to load.
OnInit ==
  /\ frames[Game] = <<>> /\ "init" \in captured
  /\ observed' = observed \cup {"init"}
  /\ Uncaptured("init")
  /\ \/ /\ boot = "stopped" /\ "connect" \in observed /\ "complete" \notin observed
        /\ boot' = "starting"
        /\ frames' = [frames EXCEPT ![Game] = <<Call("init", "host"), Call("start", "begin")>>]
     \/ /\ UNCHANGED boot
        /\ Push(Game, Call("init", "original"))
  /\ UNCHANGED <<hostVars, entries>>

\* StartHost on the answer of the host's Start.
HostStarted ==
  /\ At(Game, "init", "host")
  /\ boot' = CASE Top(Game).answer = "ok" -> "running"
               [] Top(Game).answer = "refused" -> "stopped"
               [] Top(Game).answer = "retained" -> "stopping"
  /\ SetTop(Game, Call("init", "original"))
  /\ UNCHANGED <<captured, observed, hostVars, entries>>

\* StopHost's first step: stop only what runs or is still stopping.
StopBegins(f) ==
  IF boot \in {"running", "stopping"}
  THEN /\ boot' = "stopping"
       /\ frames' = [frames EXCEPT ![Game] =
            Append(Append(Front(@), [f EXCEPT !.at = "stop", !.answer = "none"]),
                   Call("stop", "begin"))]
  ELSE /\ UNCHANGED boot
       /\ SetTop(Game, [f EXCEPT !.at = "complete"])

\* The genuine Init has returned; the server rejects the start, or the host
\* refuses to complete it, or all is well.
OriginalInit ==
  /\ At(Game, "init", "original") /\ Len(frames[Game]) < MaxDepth
  /\ StopBegins(Top(Game)) \/ (Pop(Game) /\ UNCHANGED boot)
  /\ UNCHANGED <<captured, observed, hostVars, entries>>

\* OnDisconnect: between frames, or by engine code that a native call of a
\* plugin or a load or unload callback has called.
OnDisconnect ==
  /\ Running(Game)
  /\ frames[Game] # <<>> => Top(Game).call \notin {"command", "transition"}
  /\ "disconnect" \in captured /\ Len(frames[Game]) + 2 <= MaxDepth
  /\ Uncaptured("disconnect")
  /\ IF boot \in {"running", "stopping"}
     THEN /\ boot' = "stopping"
          /\ frames' = [frames EXCEPT ![Game] =
               @ \o <<Call("disconnect", "stop"), Call("stop", "begin")>>]
     ELSE /\ UNCHANGED boot
          /\ Push(Game, Call("disconnect", "complete"))
  /\ UNCHANGED <<observed, hostVars, entries>>

\* Mutant: the host's library is closed after the last attempt too.
StopHostGivesUp ==
  /\ frames[Game] # <<>> /\ Top(Game).at = "stop"
  /\ boot' = "stopped"
  /\ Goto(Game, "complete")
  /\ UNCHANGED <<captured, observed, hostVars, entries>>

\* StopHost on the answer of the host's Stop: close the library, try again, or,
\* when the deadline has passed, keep it.
StopHost ==
  /\ frames[Game] # <<>> /\ Top(Game).at = "stop"
  /\ \/ /\ Top(Game).answer = "ok"
        /\ boot' = "stopped"
        /\ Goto(Game, "complete")
     \/ /\ Top(Game).answer = "refused"
        /\ UNCHANGED boot
        /\ \/ Goto(Game, "complete")
           \/ frames' = [frames EXCEPT ![Game] =
                Append(Append(Front(@), [Top(Game) EXCEPT !.answer = "none"]),
                       Call("stop", "begin"))]
  /\ UNCHANGED <<captured, observed, hostVars, entries>>

\* The rest of OnDisconnect or OnInit.
Completed ==
  /\ frames[Game] # <<>> /\ Top(Game).at = "complete"
  /\ observed' = IF Top(Game).call = "disconnect" THEN observed \cup {"complete"} ELSE observed
  /\ Pop(Game)
  /\ UNCHANGED <<captured, boot, hostVars, entries>>

-----------------------------------------------------------------------------
(* The host's Start.                                                       *)

\* Start, up to the loading of plugins; it may be refused, or fail and release.
Start ==
  /\ At(Game, "start", "begin") /\ lifecycle = NoThread
  /\ \/ /\ Return(Game, IF state = "stopping" THEN "retained" ELSE "refused")
        /\ UNCHANGED hostVars
     \/ /\ state = "stopped"
        /\ state' = "stopping" /\ lifecycle' = Game /\ accepting' = FALSE
        /\ Goto(Game, "quiesce")
        /\ UNCHANGED <<open, command, plugin>>
     \/ /\ state = "stopped"
        /\ state' = "starting" /\ lifecycle' = Game /\ accepting' = TRUE
        /\ command' = [command EXCEPT !["core"] =
                         [state |-> "registered", enabled |-> TRUE, active |-> 0]]
        /\ Goto(Game, "load")
        /\ UNCHANGED <<open, plugin>>
  /\ UNCHANGED <<bootVars, entries>>

\* The load callback of the plugin returns, or there is no plugin.
Loaded ==
  /\ At(Game, "start", "load")
  /\ state' = "running" /\ open' = TRUE /\ lifecycle' = NoThread
  /\ plugin' \in {"loaded", "none"}
  /\ command' = [command EXCEPT !["own"] =
                   IF @.state # "registered" THEN @
                   ELSE IF plugin' = "loaded" THEN [@ EXCEPT !.enabled = TRUE]
                   ELSE [@ EXCEPT !.state = "retired"]]
  /\ Return(Game, "ok")
  /\ UNCHANGED <<bootVars, accepting, entries>>

-----------------------------------------------------------------------------
(* The host's Stop and ReleaseResources.                                   *)

Native == \E f \in AllFrames : f.call = "native"
InTransition ==
  \E f \in AllFrames : f.call \in {"native", "transition"} \/ f.at = "unload"

\* Mutant: a plugin's native call in progress is not looked at.
StopAnyway ==
  /\ At(Game, "stop", "begin")
  /\ IF lifecycle # NoThread
     THEN Return(Game, "refused") /\ UNCHANGED <<hostVars, entries>>
     ELSE IF state = "stopped"
     THEN Return(Game, "ok") /\ UNCHANGED <<hostVars, entries>>
     ELSE IF state = "running"
     THEN /\ state' = "stopping" /\ accepting' = FALSE /\ open' = FALSE
          /\ Goto(Game, "drain")
          /\ UNCHANGED <<lifecycle, command, plugin, entries>>
     ELSE /\ lifecycle' = Game
          /\ Goto(Game, "relock")
          /\ UNCHANGED <<state, accepting, open, command, plugin, entries>>
  /\ UNCHANGED bootVars

\* Stop: refused while a transition holds the mutex, or in a native call of a
\* plugin; a running host is closed to commands and drained first.
Stop ==
  /\ At(Game, "stop", "begin")
  /\ IF lifecycle # NoThread
     THEN Return(Game, "refused") /\ UNCHANGED hostVars
     ELSE IF state = "stopped"
     THEN Return(Game, "ok") /\ UNCHANGED hostVars
     ELSE IF Native \/ state = "starting"
     THEN Return(Game, "refused") /\ UNCHANGED hostVars
     ELSE IF state = "running"
     THEN /\ state' = "stopping" /\ accepting' = FALSE /\ open' = FALSE
          /\ Goto(Game, "drain")
          /\ UNCHANGED <<lifecycle, command, plugin>>
     ELSE /\ lifecycle' = Game
          /\ Goto(Game, "relock")
          /\ UNCHANGED <<state, accepting, open, command, plugin>>
  /\ UNCHANGED <<bootVars, entries>>

\* Mutant: Stop does not wait for the dispatches that have entered.
DrainedAtOnce ==
  /\ At(Game, "stop", "drain") /\ lifecycle = NoThread
  /\ lifecycle' = Game
  /\ Goto(Game, "relock")
  /\ UNCHANGED <<bootVars, state, accepting, open, command, plugin, entries>>

\* WaitForDispatchEntries, then the mutex again.
Drained ==
  /\ At(Game, "stop", "drain") /\ entries = 0 /\ lifecycle = NoThread
  /\ lifecycle' = Game
  /\ Goto(Game, "relock")
  /\ UNCHANGED <<bootVars, state, accepting, open, command, plugin, entries>>

Refused ==
  /\ Return(Game, IF Top(Game).call = "start" THEN "retained" ELSE "refused")
  /\ lifecycle' = NoThread

\* ReleaseResources: the plugins' dispatch is turned off for good.
ReleaseBegins ==
  /\ At(Game, "stop", "relock")
  /\ accepting' = FALSE
  /\ IF InTransition
     THEN Refused /\ UNCHANGED command
     ELSE /\ command' = [c \in Commands |-> [command[c] EXCEPT !.enabled = FALSE]]
          /\ Goto(Game, "quiesce")
          /\ UNCHANGED lifecycle
  /\ UNCHANGED <<bootVars, state, open, plugin, entries>>

\* Each layer's Deactivate, and PreparePluginUnload: any of them may refuse.
Quiesce ==
  /\ frames[Game] # <<>> /\ Top(Game).at = "quiesce"
  /\ \/ Refused /\ UNCHANGED plugin
     \/ /\ plugin' = IF plugin = "loaded" THEN "prepared" ELSE plugin
        /\ Goto(Game, "layers")
        /\ UNCHANGED lifecycle
  /\ UNCHANGED <<bootVars, state, accepting, open, command, entries>>

\* One layer's Shutdown after the other.
ShutLayer ==
  /\ frames[Game] # <<>> /\ Top(Game).at = "layers"
  /\ \/ /\ Top(Game).left # 0
        /\ \/ Refused
           \/ /\ SetTop(Game, [Top(Game) EXCEPT !.left = @ - 1])
              /\ UNCHANGED lifecycle
     \/ /\ Top(Game).left = 0
        /\ Goto(Game, "clear")
        /\ UNCHANGED lifecycle
  /\ UNCHANGED <<bootVars, state, accepting, open, command, plugin, entries>>

\* The commands leave the engine; their records go when no dispatch is left.
ClearCommands ==
  /\ frames[Game] # <<>> /\ Top(Game).at = "clear" /\ entries = 0
  /\ command' = [c \in Commands |-> NoCommand]
  /\ Goto(Game, "unload")
  /\ UNCHANGED <<bootVars, state, accepting, open, lifecycle, plugin, entries>>

\* The plugin's unload callback has returned; the adapter stops.
Unloaded ==
  /\ frames[Game] # <<>> /\ Top(Game).at = "unload"
  /\ plugin' = IF plugin = "none" THEN "none" ELSE "closed"
  /\ state' = "stopped" /\ lifecycle' = NoThread
  /\ Return(Game, IF Top(Game).call = "start" THEN "refused" ELSE "ok")
  /\ UNCHANGED <<bootVars, accepting, open, command, entries>>

-----------------------------------------------------------------------------
(* Commands.                                                               *)

\* The adapter's callback and BeginGameCommandDispatch: counted, then looked.
Begin(t, c) ==
  /\ Running(t) /\ command[c].state = "registered"
  /\ entries' = entries + 1
  /\ Push(t, [Call("command", "begin") EXCEPT !.cmd = c])
  /\ UNCHANGED <<bootVars, hostVars>>

Enter(t) ==
  /\ At(t, "command", "begin") /\ open
  /\ Goto(t, "entered")
  /\ UNCHANGED <<bootVars, hostVars, entries>>

\* DispatchCommand until it lets go of state_mutex_.  A core command keeps lifecycle_mutex_.
Dispatch(t) ==
  /\ At(t, "command", "entered") /\ open /\ command[Top(t).cmd].enabled
  /\ Top(t).cmd = "core" => lifecycle = NoThread
  /\ command' = [command EXCEPT ![Top(t).cmd].active = @ + 1]
  /\ lifecycle' = IF Top(t).cmd = "core" THEN t ELSE lifecycle
  /\ Goto(t, "counted")
  /\ UNCHANGED <<bootVars, state, accepting, open, plugin, entries>>

\* The callback and its user data are read without the mutex and called; what
\* UnregisterCommand has cleared since, or clears meanwhile, is null ("torn").
Called(t) ==
  /\ At(t, "command", "counted")
  /\ Goto(t, IF command[Top(t).cmd].state = "registered" THEN "in" ELSE "torn")
  /\ UNCHANGED <<bootVars, hostVars, entries>>

\* Closed, or disabled: the entry is given back.
NotDispatched(t) ==
  /\ \/ At(t, "command", "begin") /\ ~open
     \/ /\ At(t, "command", "entered") /\ ~(open /\ command[Top(t).cmd].enabled)
        /\ Top(t).cmd = "core" => lifecycle = NoThread
  /\ entries' = entries - 1
  /\ Pop(t)
  /\ UNCHANGED <<bootVars, hostVars>>

\* Mutant: the entry is given back by DispatchCommand and by the adapter.
DispatchedTwice(t) ==
  /\ At(t, "command", "in") \/ At(t, "command", "torn")
  /\ command' = [command EXCEPT ![Top(t).cmd].active = @ - 1]
  /\ lifecycle' = IF Top(t).cmd = "core" THEN NoThread ELSE lifecycle
  /\ entries' = entries - 2
  /\ Pop(t)
  /\ UNCHANGED <<bootVars, state, accepting, open, plugin>>

\* A callback without its user data may still return; a null one does not.
Dispatched(t) ==
  /\ At(t, "command", "in") \/ At(t, "command", "torn")
  /\ command' = [command EXCEPT ![Top(t).cmd].active = @ - 1]
  /\ lifecycle' = IF Top(t).cmd = "core" THEN NoThread ELSE lifecycle
  /\ entries' = entries - 1
  /\ Pop(t)
  /\ UNCHANGED <<bootVars, state, accepting, open, plugin>>

\* RegisterCommand by the plugin while it loads or runs.
Register(t) ==
  /\ Running(t) /\ accepting /\ command["own"].state = "none"
  /\ plugin = "loaded" \/ At(t, "start", "load")
  /\ command' = [command EXCEPT !["own"] =
       [state |-> "registered", enabled |-> plugin = "loaded", active |-> 0]]
  /\ UNCHANGED <<bootVars, state, accepting, open, lifecycle, plugin, entries, frames>>

\* Mutant: UnregisterCommand frees the record.
UnregisterFrees(t) ==
  /\ Running(t) /\ command["own"].state = "registered" /\ plugin # "closed"
  /\ command' = [command EXCEPT !["own"].state = "none", !["own"].enabled = FALSE]
  /\ UNCHANGED <<bootVars, state, accepting, open, lifecycle, plugin, entries, frames>>

\* UnregisterCommand disables the record, clears its callback and retires it, all
\* under state_mutex_: a dispatch that looked before may still be in it.
Unregister(t) ==
  /\ Running(t) /\ command["own"].state = "registered" /\ plugin # "closed"
  /\ command' = [command EXCEPT !["own"].state = "retired", !["own"].enabled = FALSE]
  /\ UNCHANGED <<bootVars, state, accepting, open, lifecycle, plugin, entries, frames>>

\* A plugin's native call into the engine, or a pause or resume it asks for.
Operation(t, call) ==
  /\ Running(t) /\ accepting /\ plugin = "loaded" /\ (call = "native" => t = Game)
  /\ Push(t, Call(call, "in"))
  /\ UNCHANGED <<bootVars, hostVars, entries>>

OperationOver(t) ==
  /\ frames[t] # <<>> /\ Top(t).call \in {"native", "transition"}
  /\ Pop(t)
  /\ UNCHANGED <<bootVars, hostVars, entries>>

Next ==
  \/ \E patches \in SUBSET Patches : Capture(patches)
  \/ Connect \/ OnInit \/ HostStarted \/ OriginalInit \/ OnDisconnect \/ StopHost \/ Completed
  \/ Start \/ Loaded
  \/ Stop \/ Drained \/ ReleaseBegins \/ Quiesce \/ ShutLayer \/ ClearCommands \/ Unloaded
  \/ \E t \in Threads :
       \/ \E c \in Commands : Begin(t, c)
       \/ \E call \in {"native", "transition"} : Operation(t, call)
       \/ Enter(t) \/ Dispatch(t) \/ Called(t) \/ NotDispatched(t) \/ Dispatched(t)
       \/ Register(t) \/ Unregister(t) \/ OperationOver(t)

Spec == Init /\ [][Next]_vars

-----------------------------------------------------------------------------
\* The host's library, and with it the plugins' and the adapter's images, is
\* closed only when no thread is in the host or in a plugin.
ImageInUse ==
  boot = "stopped" =>
    \A f \in AllFrames : f.call \notin {"start", "stop", "command", "native", "transition"}

\* A command's record is there as long as a dispatch is in it: the engine hands
\* back a raw pointer, and Stop frees the records.  (The record alone: its
\* callback may be gone, see Called.)
RecordsInUse ==
  \A f \in AllFrames :
    f.call = "command" /\ f.at # "begin" => command[f.cmd].state # "none"

\* Stop never waits for a command of its own thread.
NoSelfWait ==
  \A t \in Threads : frames[t] # <<>> /\ Top(t).at \in {"drain", "clear"} =>
    \A f \in FramesOf(t) : f.call # "command"

\* Once Stop has closed the host it stays closed through every refusal and
\* retry: no command is in progress while resources are released, and none
\* begins, and no plugin is given a resource.
ClosedWhileReleasing ==
  /\ (\E f \in AllFrames : f.at \in {"quiesce", "layers", "clear", "unload"})
       => \A g \in AllFrames : ~(g.call = "command" /\ g.at \in Inside)
  /\ state \in {"stopping", "stopped"} => ~accepting /\ ~open
-----------------------------------------------------------------------------
(* The inductive invariant.                                                *)

HostConstants ==
  /\ Game \in Threads /\ NoThread \notin Threads /\ IsFiniteSet(Threads)
  /\ MaxDepth \in Nat /\ MaxDepth >= 2 /\ Layers \in Nat

\* The calls of all threads as a grid, with nothing above the innermost.
Depths == 1..MaxDepth
Nothing == Call("none", "none")
Cell(t, d) == IF d <= Len(frames[t]) THEN frames[t][d] ELSE Nothing

Closing == {"drain", "relock", "quiesce", "layers", "clear", "unload"}
Releasing == {"quiesce", "layers", "clear", "unload"}
Points(call) ==
  CASE call = "init" -> {"host", "original", "stop", "complete"}
    [] call = "disconnect" -> {"stop", "complete"}
    [] call = "start" -> {"begin", "load"} \cup Releasing
    [] call = "stop" -> {"begin"} \cup Closing
    [] call = "command" -> {"begin", "entered", "counted", "in", "torn"}
    [] call \in {"native", "transition"} -> {"in"}
    [] OTHER -> {"none"}

\* What the bootstrap, the host and the command are while a call of t is where it is.
CallOK(t, f) ==
  /\ f.at \in Points(f.call)
  /\ f.call \in {"init", "disconnect", "start", "stop", "native"} => t = Game
  /\ f.call = "start" \/ f.at = "host" => boot = "starting"
  /\ f.call = "stop" \/ f.at = "stop" => boot = "stopping"
  /\ f.call = "start" /\ f.at = "begin" => state = "stopped"
  /\ f.at = "load" => state = "starting"
  /\ f.at \in Closing => state = "stopping"
  /\ f.at = "host" /\ f.answer = "refused" => state = "stopped"
  /\ f.at = "stop" /\ f.answer = "ok" => state = "stopped"
  /\ f.call = "command" => command[f.cmd].state # "none"
CallsInv == \A t \in Threads, d \in Depths : CallOK(t, Cell(t, d))

\* What call g may be on top of call f: the bootstrap waits for the host's answer, and
\* other calls come from engine or plugin code.
Follows(f, g) ==
  /\ f = Nothing => g = Nothing
  /\ g # Nothing => f.at \in {"original", "load", "in", "unload", "host", "stop"}
  /\ f.at = "host" => IF f.answer = "none" THEN g.call = "start" ELSE g = Nothing
  /\ f.at = "stop" => IF f.answer = "none" THEN g.call = "stop" ELSE g = Nothing
  /\ g.call = "start" => f.at = "host"
  /\ g.call = "stop" => f.at = "stop"
  /\ g.call # "init"
StackInv ==
  \A t \in Threads :
    /\ Cell(t, 1).call \notin {"start", "stop"}
    /\ \A d \in Depths : /\ Follows(Cell(t, d), Cell(t, d + 1))
                         /\ Cell(t, d).at = "stop" => d < MaxDepth

\* Engine code that a plugin's command has called may disconnect the server, but only in
\* a native call of a plugin.
NestFor(t, d, f) ==
  f.call = "disconnect" /\ (\A e \in 1..(d - 1) : Cell(t, e).call # "native") =>
    \A e \in 1..(d - 1) : Cell(t, e).call # "command"
NestInv == \A t \in Threads, d \in Depths : NestFor(t, d, Cell(t, d))

\* lifecycle_mutex_ has one holder.
Holds(f) ==
  \/ f.call = "start" /\ f.at # "begin"
  \/ f.call = "stop" /\ f.at \notin {"begin", "drain"}
  \/ f.call = "command" /\ f.cmd = "core" /\ f.at \in Inside
LockInv ==
  \A t \in Threads, d \in Depths : Holds(Cell(t, d)) =>
    /\ lifecycle = t
    /\ \A e \in Depths : Holds(Cell(t, e)) => e = d

\* g_dispatch_entries counts the dispatches, and a record those in its callback.
InCommand(f, c) == f.call = "command" /\ f.at \in Inside /\ f.cmd = c
Places == Threads \X Depths
CountsInv ==
  /\ entries = Cardinality({x \in Places : Cell(x[1], x[2]).call = "command"})
  /\ \A c \in Commands :
       command[c].active = Cardinality({x \in Places : InCommand(Cell(x[1], x[2]), c)})

\* A host that does not run is closed, and once Stop has waited for the dispatches none is
\* past its first look; a release runs beside no operation of a plugin, and from the end of
\* the commands to the next start there are none.
ClosedInv ==
  /\ open => state = "running"
  /\ accepting => state \in {"starting", "running"}
  /\ boot = "stopped" => state = "stopped"
  /\ state = "stopped" => \A c \in Commands : command[c].state = "none"
  /\ \A t \in Threads, d \in Depths : Cell(t, d).at = "unload" =>
       \A c \in Commands : command[c].state = "none"
  /\ \/ state = "running"
     \/ \E t \in Threads, d \in Depths : Cell(t, d).at = "drain"
     \/ \A t \in Threads, d \in Depths : Cell(t, d).call = "command" => Cell(t, d).at = "begin"
  /\ \/ state # "stopped" /\ \A t \in Threads, d \in Depths : Cell(t, d).at \notin Releasing
     \/ \A t \in Threads, d \in Depths : Cell(t, d).call \notin {"native", "transition"}
  /\ \/ \A t \in Threads, d \in Depths : Cell(t, d).at # "drain"
     \/ \A t \in Threads, d \in Depths : Cell(t, d).call # "native"

HostInv == CallsInv /\ StackInv /\ NestInv /\ LockInv /\ CountsInv /\ ClosedInv
=============================================================================
