------------------------------- MODULE Authoring -------------------------------
(***************************************************************************)
(* What the SDK keeps for a plugin written with it                         *)
(* (sdk/include/keels2/keels2.hpp, with the Context of plugin.hpp): the    *)
(* adapter behind KeelPlugin_Load and KeelPlugin_Unload, and the bindings  *)
(* of commands, game events, console variables and hooks, whose addresses  *)
(* the host has as user data.                                              *)
(*                                                                         *)
(* One load of one image.  The host is what PluginManager and the services *)
(* promise: it calls a plugin that is active, and waits for its callbacks  *)
(* before it goes on.  Plugin code runs in Load, in Unload, in a callback, *)
(* on a thread of its own, or called by another plugin.                    *)
(***************************************************************************)
EXTENDS Integers, SequencesExt

CONSTANTS
  Threads, Game, NoThread,
  Names,
  MaxBindings,        \* bound: bindings ever made
  MaxDepth            \* bound: open calls of a thread

VARIABLES
  host,      \* the host's side of the plugin
  context,   \* ContextState
  adapter,   \* AuthoringAdapter::State, dispatch_enabled_, hooks_accepting_
  binding,   \* commands_, game_events_, convar_resources_, hooks_
  reg,       \* the host's registrations, by the binding they point to ("held": it gave the
             \* plugin a handle and has no address)
  lock,      \* commands_mutex_, game_events_mutex_, convars_mutex_, hooks_mutex_
  frames     \* open calls of each thread, innermost last

vars == <<host, context, adapter, binding, reg, lock, frames>>

Bindings == 1..MaxBindings
Kinds == {"command", "event", "convar", "hook"}
\* Pause and unload preparation, lifecycle, Source 2 and plugin events, in the order they
\* are subscribed to and given up.
Services == 1..5
Order == <<"hook", "event", "convar", "command">>   \* of ResetResources

\* "split": out of the list while its Reset runs; "lost": freed although the host has it.
Binding == [kind : Kinds, name : Names, active : BOOLEAN, handle : BOOLEAN,
            state : {"none", "new", "listed", "split", "freed", "lost"}]
Frame == [call : {"load", "unload", "create", "remove", "callback"},
          at : {"prepare", "reset", "user", "check", "adopt", "observe", "asked", "wait",
                "entry"},
          n : 0..(MaxBindings + 10)]

TypeOK ==
  /\ host \in [phase : {"new", "loading", "running", "quiescing", "quiet", "paused",
                        "failed", "released", "closed"},
               accepting : BOOLEAN, active : BOOLEAN, subs : SUBSET Services]
  /\ context \in {"none", "open", "closed", "unbound"}
  /\ adapter \in [held : SUBSET Services, loaded : BOOLEAN, dispatch : BOOLEAN,
                  hooking : BOOLEAN]
  /\ binding \in [Bindings -> Binding]
  /\ reg \in [Bindings -> {"none", "held", "on", "off"}]
  /\ lock \in [Kinds -> Threads \cup {NoThread}]
  /\ \A t \in Threads : \A d \in 1..Len(frames[t]) : frames[t][d] \in Frame

Init ==
  /\ host = [phase |-> "new", accepting |-> FALSE, active |-> FALSE, subs |-> {}]
  /\ context = "none"
  /\ adapter = [held |-> {}, loaded |-> FALSE, dispatch |-> FALSE, hooking |-> FALSE]
  /\ binding = [b \in Bindings |->
                  [kind |-> "command", name |-> CHOOSE n \in Names : TRUE,
                   active |-> FALSE, handle |-> FALSE, state |-> "none"]]
  /\ reg = [b \in Bindings |-> "none"]
  /\ lock = [k \in Kinds |-> NoThread]
  /\ frames = [t \in Threads |-> <<>>]

-----------------------------------------------------------------------------
Top(t) == Last(frames[t])
At(t, call, at) == frames[t] # <<>> /\ Top(t).call = call /\ Top(t).at = at
Push(t, call, at, n) ==
  /\ Len(frames[t]) < MaxDepth
  /\ frames' = [frames EXCEPT ![t] = Append(@, [call |-> call, at |-> at, n |-> n])]
Goto(t, at, n) ==
  frames' = [frames EXCEPT ![t] = Append(Front(@), [Top(t) EXCEPT !.at = at, !.n = n])]
Pop(t) == frames' = [frames EXCEPT ![t] = Front(@)]

\* Plugin code runs: on a thread of its own or another plugin's call, or called by the host.
User(t) == context = "open" /\ (frames[t] # <<>> => Top(t).at = "user")
Open == UNION {Range(frames[t]) : t \in Threads}
Calls(b) == {f \in Open : f.call = "callback" /\ f.n = b}
Own(t, b) == \E f \in Range(frames[t]) : f.call = "callback" /\ f.n = b
InCall(b) == \E f \in Open : f.call \in {"create", "remove"} /\ f.n = b
NoCallbacks == \A f \in Open : f.call # "callback" \/ f.n \in {MaxBindings + 1, MaxBindings + 2}
Preparing == \E f \in Open : f.call = "callback" /\ f.n > MaxBindings /\ f.n <= MaxBindings + 2
Free(k) == lock[k] = NoThread
Listed(k) == {b \in Bindings : binding[b].kind = k /\ binding[b].state = "listed"}
\* A binding is freed; the host still has its address if it is registered.
Freed(b) == [binding EXCEPT ![b].active = FALSE, ![b].handle = FALSE,
                            ![b].state = IF reg'[b] \in {"on", "off"} THEN "lost" ELSE "freed"]

-----------------------------------------------------------------------------
(* The host.                                                               *)

HostUnchanged == UNCHANGED <<context, adapter, binding, lock>>

Quiesce ==
  /\ host.phase = "running"
  /\ host' = [host EXCEPT !.phase = "quiescing", !.accepting = FALSE, !.active = FALSE]
  /\ UNCHANGED <<reg, frames>> /\ HostUnchanged
Drained ==
  /\ host.phase = "quiescing" /\ NoCallbacks
  /\ host' = [host EXCEPT !.phase = "quiet"]
  /\ UNCHANGED <<reg, frames>> /\ HostUnchanged
\* A pause or an unload is refused, or a pause ends.
Restored ==
  /\ host.phase \in {"quiescing", "quiet", "paused"} /\ ~Preparing
  /\ host' = [host EXCEPT !.phase = "running", !.accepting = TRUE, !.active = TRUE]
  /\ UNCHANGED <<reg, frames>> /\ HostUnchanged
Paused ==
  /\ host.phase = "quiet" /\ ~Preparing
  /\ host' = [host EXCEPT !.phase = "paused"]
  /\ UNCHANGED <<reg, frames>> /\ HostUnchanged
\* Every service forgets the plugin before KeelPlugin_Unload is called.
Released ==
  /\ host.phase \in {"quiet", "paused", "failed"} /\ ~Preparing
  /\ host' = [host EXCEPT !.phase = "released", !.subs = {}]
  /\ reg' = [b \in Bindings |-> "none"]
  /\ UNCHANGED frames /\ HostUnchanged

-----------------------------------------------------------------------------
(* KeelPlugin_Load and KeelPlugin_Unload.                                  *)

Load ==
  /\ host.phase = "new" /\ context = "none" /\ ~adapter.loaded
  /\ host' = [host EXCEPT !.phase = "loading", !.accepting = TRUE]
  /\ context' = "open"
  /\ Push(Game, "load", "prepare", 1)
  /\ UNCHANGED <<adapter, binding, reg, lock>>

\* The plugin's overrides are subscribed, service by service; the first that is refused
\* rolls the load back.
Subscribes(n) ==
  /\ At(Game, "load", "prepare") /\ Top(Game).n = n
  /\ \/ /\ host' = [host EXCEPT !.subs = @ \cup {n}]
        /\ adapter' = [adapter EXCEPT !.held = @ \cup {n}, !.hooking = n = 5]
        /\ IF n = 5 THEN Goto(Game, "user", 0) ELSE Goto(Game, "prepare", n + 1)
     \/ Goto(Game, "reset", 0) /\ UNCHANGED <<host, adapter>>
  /\ UNCHANGED <<context, binding, reg, lock>>
PreparePauseCallback == Subscribes(1)
PrepareUnloadCallback == Subscribes(2)
PrepareLifecycle == Subscribes(3)
PrepareSource2Callbacks == Subscribes(4)
PreparePluginEvents == Subscribes(5)

\* Load's answer; the host may still turn it down, when a dependency has changed.
LoadAnswers ==
  /\ At(Game, "load", "user")
  /\ \/ /\ adapter' = [adapter EXCEPT !.loaded = TRUE, !.dispatch = TRUE]
        /\ \/ host' = [host EXCEPT !.phase = "running", !.active = TRUE]
           \/ host' = [host EXCEPT !.phase = "failed", !.accepting = FALSE]
        /\ Pop(Game)
     \/ Goto(Game, "reset", 0) /\ UNCHANGED <<host, adapter>>
  /\ UNCHANGED <<context, binding, reg, lock>>

\* A plugin whose Load was rolled back is not bound to the handle: there is nothing to do.
Unload ==
  /\ host.phase = "released" /\ frames[Game] = <<>>
  /\ IF context = "open"
     THEN Push(Game, "unload", "reset", 0) /\ UNCHANGED host
     ELSE host' = [host EXCEPT !.phase = "closed"] /\ UNCHANGED frames
  /\ UNCHANGED <<context, adapter, binding, reg, lock>>

Resetting == frames[Game] # <<>> /\ Top(Game).at = "reset"

\* dispatch_enabled_ is the first to go.
Disabled ==
  /\ Resetting /\ Top(Game).n = 0
  /\ adapter' = [adapter EXCEPT !.dispatch = FALSE]
  /\ Goto(Game, "reset", 1)
  /\ UNCHANGED <<host, context, binding, reg, lock>>
GivesUp(n) ==
  /\ Resetting /\ Top(Game).n = n
  /\ host' = [host EXCEPT !.subs = @ \ (adapter.held \cap {n})]
  /\ adapter' = [adapter EXCEPT !.held = @ \ {n}]
  /\ Goto(Game, "reset", n + 1)
  /\ UNCHANGED <<context, binding, reg, lock>>
ReleasePauseCallback == GivesUp(1)
ReleaseUnloadCallback == GivesUp(2)
\* Mutant: the subscriptions made before the service refused one are left.
ReleaseLifecycleOfAll ==
  /\ Resetting /\ Top(Game).n = 3
  /\ adapter' = [adapter EXCEPT !.held = @ \ {3}]
  /\ host' = [host EXCEPT !.subs = IF 4 \in adapter.held THEN @ \ {3} ELSE @]
  /\ Goto(Game, "reset", 4)
  /\ UNCHANGED <<context, binding, reg, lock>>
ReleaseLifecycle == GivesUp(3)
ReleaseSource2Callbacks == GivesUp(4)
ReleasePluginEvents == GivesUp(5)

\* ResetResources, list by list.  The host answers NOT_READY for a console variable of a
\* plugin it takes no calls of, and what it has released is NOT_FOUND.
ResetResources ==
  /\ Resetting /\ Top(Game).n \in 6..9
  /\ LET k == Order[Top(Game).n - 5]
         S == Listed(k)
         kept == k = "convar" /\ ~host.accepting
     IN  /\ Free(k) /\ \A b \in S : Calls(b) = {}
         /\ reg' = [b \in Bindings |-> IF b \in S /\ ~kept THEN "none" ELSE reg[b]]
         /\ binding' = [b \in Bindings |-> IF b \in S THEN Freed(b)[b] ELSE binding[b]]
         /\ adapter' = [adapter EXCEPT !.hooking = @ /\ k # "hook"]
         /\ Goto(Game, "reset", Top(Game).n + 1)
  /\ UNCHANGED <<host, context, lock>>

\* The end of Rollback; in Unload, the plugin's own Unload if it was loaded.
ResetOver ==
  /\ Resetting /\ Top(Game).n = 10
  /\ adapter' = [adapter EXCEPT !.loaded = FALSE]
  /\ IF Top(Game).call = "load"
     THEN /\ context' = "unbound"
          /\ host' = [host EXCEPT !.phase = "failed", !.accepting = FALSE]
          /\ Pop(Game)
     ELSE /\ context' = "closed"
          /\ Goto(Game, "user", 0)
          /\ UNCHANGED host
  /\ UNCHANGED <<binding, reg, lock>>
UnloadReturns ==
  /\ At(Game, "unload", "user")
  /\ context' = "unbound"
  /\ host' = [host EXCEPT !.phase = "closed"]
  /\ Pop(Game)
  /\ UNCHANGED <<adapter, binding, reg, lock>>

-----------------------------------------------------------------------------
(* Bindings made and given up by plugin code.                              *)

New(b, k, name) == [kind |-> k, name |-> name, active |-> k # "convar", handle |-> FALSE,
                    state |-> "new"]
Taken(k, name) == \E b \in Listed(k) : binding[b].active /\ binding[b].name = name
NextFree(b) == binding[b].state = "none" /\ \A c \in 1..(b - 1) : binding[c].state # "none"

\* The host has the binding's address before the binding has the host's handle.
Creates(t, k, name, r) ==
  /\ User(t) /\ Free(k)
  /\ k # "convar" => ~Taken(k, name)
  /\ host.accepting
  /\ \E b \in Bindings :
       /\ NextFree(b)
       /\ binding' = [binding EXCEPT ![b] = New(b, k, name)]
       /\ reg' = [reg EXCEPT ![b] = r]
       /\ lock' = [lock EXCEPT ![k] = t]
       /\ Push(t, "create", "adopt", b)
  /\ UNCHANGED <<host, context, adapter>>
CreateCommand(t, name) == Creates(t, "command", name, "on")
ListenForGameEvent(t, name) == Creates(t, "event", name, "on")
\* Console variables are made, found and observed on the game's thread: CreateImpl, FindImpl
\* and ObserveEntry answer WRONG_THREAD on any other.  Without a callback, one is made as it
\* is found.
CreateConVarResource(t, name) == t = Game /\ Creates(t, "convar", name, "on")
FindConVarResource(t, name) == t = Game /\ Creates(t, "convar", name, "held")

Adopt(t) ==
  /\ At(t, "create", "adopt")
  /\ LET b == Top(t).n IN
       /\ binding' = [binding EXCEPT ![b].state = "listed", ![b].active = TRUE,
                                     ![b].handle = TRUE]
       /\ lock' = [lock EXCEPT ![binding[b].kind] = NoThread]
       /\ Pop(t) \/ (reg[b] = "held" /\ Goto(t, "observe", b))
  /\ UNCHANGED <<host, context, adapter, reg>>
\* FindConVar with a callback: the host is given the address afterwards, through a reference
\* to the binding kept without the lock (Alive), or refuses it and the console variable is
\* removed again.
Observe(t) ==
  /\ At(t, "create", "observe")
  /\ LET b == Top(t).n IN
     \/ /\ host.accepting /\ reg[b] = "held"
        /\ reg' = [reg EXCEPT ![b] = "on"]
        /\ Pop(t) /\ UNCHANGED binding
     \/ /\ Free("convar")
        /\ binding' = [binding EXCEPT ![b].state = "split", ![b].active = FALSE]
        /\ frames' = [frames EXCEPT ![t] =
                        Append(Front(@), [call |-> "remove", at |-> "asked", n |-> b])]
        /\ UNCHANGED reg
  /\ UNCHANGED <<host, context, adapter, lock>>
\* A console variable that cannot be bound is released and freed, whatever the host answers.
NotAdopted(t) ==
  /\ At(t, "create", "adopt")
  /\ LET b == Top(t).n IN
       /\ binding[b].kind = "convar"
       /\ host.accepting => Calls(b) = {}
       /\ reg' = [reg EXCEPT ![b] = IF host.accepting THEN "none" ELSE @]
       /\ binding' = Freed(b)
       /\ lock' = [lock EXCEPT !["convar"] = NoThread]
  /\ Pop(t)
  /\ UNCHANGED <<host, context, adapter>>

\* RegisterHook looks at hooks_accepting_ first ...
BeginHook(t) ==
  /\ User(t) /\ adapter.hooking
  /\ Push(t, "create", "check", 0)
  /\ UNCHANGED <<host, context, adapter, binding, reg, lock>>

\* Mutant: ... and not again under the lock.
AddHookUnchecked(t) ==
  /\ At(t, "create", "check") /\ Free("hook")
  /\ \/ /\ host.accepting /\ context = "open"
        /\ \E b \in Bindings, name \in Names :
             /\ NextFree(b)
             /\ binding' = [binding EXCEPT ![b] = [New(b, "hook", name) EXCEPT
                                                     !.state = "listed", !.handle = TRUE]]
             /\ reg' = [reg EXCEPT ![b] = "on"]
     \/ UNCHANGED <<binding, reg>>
  /\ Pop(t)
  /\ UNCHANGED <<host, context, adapter, lock>>

\* ... and again under the lock.
AddHook(t) ==
  /\ At(t, "create", "check") /\ Free("hook")
  /\ \/ /\ adapter.hooking /\ host.accepting /\ context = "open"
        /\ \E b \in Bindings, name \in Names :
             /\ NextFree(b)
             /\ binding' = [binding EXCEPT ![b] = [New(b, "hook", name) EXCEPT
                                                     !.state = "listed", !.handle = TRUE]]
             /\ reg' = [reg EXCEPT ![b] = "on"]
     \/ UNCHANGED <<binding, reg>>
  /\ Pop(t)
  /\ UNCHANGED <<host, context, adapter, lock>>

Removable(t, b, k) ==
  User(t) /\ Free(k) /\ b \in Listed(k) /\ binding[b].active

\* Mutant: the binding is erased from the list.
RemoveCommandErasing(t, b) ==
  /\ Removable(t, b, "command")
  /\ reg' = [reg EXCEPT ![b] = "none"]
  /\ binding' = Freed(b)
  /\ UNCHANGED <<host, context, adapter, lock, frames>>

\* The host unregisters a command without waiting for its callbacks; the binding stays in
\* the list.
RemoveCommand(t, b) ==
  /\ Removable(t, b, "command")
  /\ reg' = [reg EXCEPT ![b] = "none"]
  /\ binding' = [binding EXCEPT ![b].active = FALSE, ![b].handle = FALSE]
  /\ UNCHANGED <<host, context, adapter, lock, frames>>

\* StopListeningForGameEvent keeps the lock while the host waits for other threads.  In
\* the event's own callback the host answers BUSY, with the subscription switched off, and
\* the binding is active again.
StopListening(t, b) ==
  /\ Removable(t, b, "event")
  /\ reg' = [reg EXCEPT ![b] = IF @ = "on" THEN "off" ELSE @]
  /\ IF Own(t, b)
     THEN UNCHANGED <<binding, lock, frames>>
     ELSE /\ binding' = [binding EXCEPT ![b].active = FALSE]
          /\ lock' = [lock EXCEPT !["event"] = t]
          /\ Push(t, "remove", "wait", b)
  /\ UNCHANGED <<host, context, adapter>>
Stopped(t) ==
  /\ At(t, "remove", "wait") /\ binding[Top(t).n].kind = "event"
  /\ LET b == Top(t).n IN
       /\ Calls(b) = {}
       /\ reg' = [reg EXCEPT ![b] = "none"]
       /\ binding' = [binding EXCEPT ![b].handle = FALSE]
  /\ lock' = [lock EXCEPT !["event"] = NoThread]
  /\ Pop(t)
  /\ UNCHANGED <<host, context, adapter>>

\* Mutant: the lock is kept, as in the other lists.
RemoveConVarLocked(t, b) ==
  /\ Removable(t, b, "convar") /\ ~InCall(b)
  /\ binding' = [binding EXCEPT ![b].state = "split", ![b].active = FALSE]
  /\ lock' = [lock EXCEPT !["convar"] = t]
  /\ Push(t, "remove", "asked", b)
  /\ UNCHANGED <<host, context, adapter, reg>>

\* RemoveConVar takes the binding out of the list and asks the host without the lock.
RemoveConVar(t, b) ==
  /\ Removable(t, b, "convar") /\ ~InCall(b)
  /\ binding' = [binding EXCEPT ![b].state = "split", ![b].active = FALSE]
  /\ Push(t, "remove", "asked", b)
  /\ UNCHANGED <<host, context, adapter, reg, lock>>
\* Put back after BUSY, freed after NOT_READY and NOT_FOUND.
RemoveConVarAsked(t) ==
  /\ At(t, "remove", "asked")
  /\ LET b == Top(t).n IN
     IF (~host.accepting /\ ~Preparing) \/ reg[b] = "none" \/ context # "open"
     THEN Pop(t) /\ UNCHANGED reg /\ binding' = Freed(b)
     ELSE IF Own(t, b)
     THEN /\ Free("convar")
          /\ binding' = [binding EXCEPT ![b].state = "listed", ![b].active = TRUE]
          /\ Pop(t) /\ UNCHANGED reg
     ELSE /\ reg' = [reg EXCEPT ![b] = "off"]
          /\ Goto(t, "wait", b)
          /\ UNCHANGED binding
  /\ UNCHANGED <<host, context, adapter, lock>>
ConVarRemoved(t) ==
  /\ At(t, "remove", "wait") /\ binding[Top(t).n].kind = "convar"
  /\ LET b == Top(t).n IN
       /\ Calls(b) = {}
       /\ reg' = [reg EXCEPT ![b] = "none"]
       /\ binding' = Freed(b)
  /\ Pop(t)
  /\ UNCHANGED <<host, context, adapter, lock>>

-----------------------------------------------------------------------------
(* Callbacks.  Hooks run on any thread, the others on the game's.          *)

Deliver(t, b) ==
  /\ frames[t] # <<>> => Top(t).at = "user"
  /\ host.active /\ reg[b] = "on" /\ binding[b].state # "lost"
  /\ t = Game \/ binding[b].kind = "hook"
  /\ Push(t, "callback", "entry", b)
  /\ UNCHANGED <<host, context, adapter, binding, reg, lock>>
\* A subscription of the adapter: preparations of a plugin at rest, events of an active one.
Notify(n) ==
  /\ n \in host.subs
  /\ IF n \in {1, 2} THEN host.phase = "quiet" /\ frames[Game] = <<>>
     ELSE host.active /\ (frames[Game] # <<>> => Top(Game).at = "user")
  /\ Push(Game, "callback", "entry", MaxBindings + n)
  /\ UNCHANGED <<host, context, adapter, binding, reg, lock>>

\* Dispatch, with the binding's address in hand.
Dispatch(b) == binding[b].kind = "hook" \/ (binding[b].active /\ adapter.dispatch)
PrepareDispatch == adapter.loaded /\ context = "open"
LifecycleDispatch == adapter.dispatch
Source2Dispatch == adapter.dispatch
PluginEventDispatch == adapter.dispatch
Enter(t) ==
  /\ At(t, "callback", "entry")
  /\ LET b == Top(t).n
         through == \/ b <= MaxBindings /\ Dispatch(b)
                    \/ b - MaxBindings \in {1, 2} /\ PrepareDispatch
                    \/ b - MaxBindings = 3 /\ LifecycleDispatch
                    \/ b - MaxBindings = 4 /\ Source2Dispatch
                    \/ b - MaxBindings = 5 /\ PluginEventDispatch
     IN  IF through THEN Goto(t, "user", b) ELSE Pop(t)
  /\ UNCHANGED <<host, context, adapter, binding, reg, lock>>
Returns(t) ==
  /\ At(t, "callback", "user")
  /\ Pop(t)
  /\ UNCHANGED <<host, context, adapter, binding, reg, lock>>

-----------------------------------------------------------------------------
HostStep == Quiesce \/ Drained \/ Restored \/ Paused \/ Released
AdapterStep ==
  \/ Load \/ PreparePauseCallback \/ PrepareUnloadCallback \/ PrepareLifecycle
  \/ PrepareSource2Callbacks \/ PreparePluginEvents \/ LoadAnswers
  \/ Unload \/ Disabled \/ ReleasePauseCallback \/ ReleaseUnloadCallback \/ ReleaseLifecycle
  \/ ReleaseSource2Callbacks \/ ReleasePluginEvents \/ ResetResources \/ ResetOver
  \/ UnloadReturns
  \/ \E n \in Services : Notify(n)
BindingStep(t) ==
  \/ \E name \in Names : \/ CreateCommand(t, name) \/ ListenForGameEvent(t, name)
                         \/ CreateConVarResource(t, name) \/ FindConVarResource(t, name)
  \/ Adopt(t) \/ NotAdopted(t) \/ Observe(t) \/ BeginHook(t) \/ AddHook(t)
  \/ \E b \in Bindings : RemoveCommand(t, b) \/ StopListening(t, b) \/ RemoveConVar(t, b)
  \/ Stopped(t) \/ RemoveConVarAsked(t) \/ ConVarRemoved(t)
  \/ \E b \in Bindings : Deliver(t, b)
  \/ Enter(t) \/ Returns(t)
Next == HostStep \/ AdapterStep \/ \E t \in Threads : BindingStep(t)

Spec == Init /\ [][Next]_vars

-----------------------------------------------------------------------------
\* The host calls no binding that is freed, and none is freed while a call has its
\* address: RemoveCommand keeps the binding a command in flight may still enter.  A
\* console variable that is given up while the host takes no calls of the plugin is the
\* exception ("lost"): it is freed although the host answered NOT_READY, and a resumed
\* plugin is called through it.  FindConVar uses its reference to a binding that is still
\* in the list.
Alive ==
  /\ \A b \in Bindings :
       Calls(b) # {} \/ (host.active /\ reg[b] = "on") => binding[b].state # "freed"
  /\ \A f \in Open : f.call = "create" /\ f.at = "observe" => binding[f.n].state = "listed"

\* An active binding is registered with the host, and what the host may call is active,
\* unless a call is about to change it; an event given up in its own callback looks active
\* and is called no more.
Agree ==
  \A b \in Bindings :
    host.phase \in {"loading", "running", "quiescing", "quiet", "paused"} /\ ~InCall(b) =>
      /\ binding[b].active => reg[b] \in {"on", "held"} \/ (binding[b].kind = "event" /\ reg[b] = "off")
      /\ reg[b] = "on" => binding[b].active \/ binding[b].state = "lost"

\* A name has one active command and one active listener: the lists are searched and
\* changed under one lock, also while the host is asked.
OneListener ==
  \A b, c \in Bindings :
    /\ b # c /\ binding[b].kind = binding[c].kind /\ binding[b].name = binding[c].name
    /\ binding[b].kind \in {"command", "event"}
    => ~(binding[b].active /\ binding[c].active)

\* A load that failed and an unload leave no subscription of the adapter and no hook with
\* the host, also when another thread registers a hook meanwhile.
NothingHeld ==
  context \in {"closed", "unbound"} =>
    /\ host.subs = {} /\ adapter.held = {}
    /\ Listed("hook") = {}
    /\ \A b \in Bindings : binding[b].kind = "hook" => reg[b] = "none"

\* A thread that waits for the callbacks of a binding has none of the locks they may want;
\* only StopListeningForGameEvent has its own.
WaitsUnlocked ==
  \A t \in Threads :
    frames[t] # <<>> => (Top(t).call = "remove" =>
      \A k \in Kinds \ {"event"} : lock[k] # t)
================================================================================
