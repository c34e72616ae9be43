-------------------------------- MODULE Outputs --------------------------------
(***************************************************************************)
(* The outputs of entities that plugins observe                            *)
(* (host/src/entity_outputs_service.cpp) over one hook of the engine's     *)
(* function (games/cs2/src/native_outputs.cpp).                            *)
(*                                                                         *)
(* All of it runs on the game's thread: frames are the engine's output     *)
(* calls and the plugin callbacks in them, innermost last.  Engine and     *)
(* plugin code may fire further outputs, subscribe, give up, change the    *)
(* map or stop the host.  Names and priorities only choose which records   *)
(* match; records are called in the order of their numbers.                *)
(***************************************************************************)
EXTENDS Integers, FiniteSets, SequencesExt

CONSTANTS
  Plugins,
  MaxSubscriptions,   \* KEELS2_OUTPUT_MAX_SUBSCRIPTIONS
  MaxPending,         \* calls the hook can follow at once, 64 in the code
  OutputDepth,        \* KEELS2_OUTPUT_MAX_DEPTH
  MaxDepth,           \* bound: open frames
  MaxEpochs           \* bound: changes of the map

VARIABLES
  host,      \* the plugins
  sub,       \* outputs_, and records that only an invocation still has
  service,   \* outputs_retained_, outputs_started_, outputs_stopping_, Shutdown's answer
  native,    \* callback_, target_ and hook_ of the hook
  epoch,     \* the adapter's entity epoch
  frames     \* open calls

vars == <<host, sub, service, native, epoch, frames>>

Subscriptions == 1..MaxSubscriptions
Epochs == 1..MaxEpochs
\* A record without an epoch is for every entity of its class.
Record == [state : {"free", "on", "off"}, owner : Plugins, phases : SUBSET {"pre", "post"},
           epoch : 0..MaxEpochs]
\* noted: the hook follows the call and output_invocations_ has it; block: the answer of
\* PRE; told and ended: the records called for PRE and POST.
Output == [call : {"output"}, at : {"pre", "original", "returned", "post", "over"},
           noted : BOOLEAN, chosen : SUBSET Subscriptions, todo : Seq(Subscriptions),
           block : BOOLEAN, epoch : Epochs, reached : 0..MaxEpochs,
           told : SUBSET Subscriptions, ended : SUBSET Subscriptions]
Callback == [call : {"callback"}, sub : Subscriptions, phase : {"pre", "post"}]

TypeOK ==
  /\ host \in [Plugins -> {"loaded", "paused", "released"}]
  /\ sub \in [Subscriptions -> Record]
  /\ service \in [retained : BOOLEAN, started : BOOLEAN, stopping : BOOLEAN, gone : BOOLEAN]
  /\ native \in [callback : BOOLEAN, target : BOOLEAN, hook : BOOLEAN]
  /\ epoch \in Epochs
  /\ \A d \in 1..Len(frames) : frames[d] \in Output \cup Callback

Nothing == [callback |-> FALSE, target |-> FALSE, hook |-> FALSE]
Init ==
  /\ host = [p \in Plugins |-> "loaded"]
  /\ sub = [s \in Subscriptions |->
              [state |-> "free", owner |-> CHOOSE p \in Plugins : TRUE, phases |-> {}, epoch |-> 0]]
  /\ service = [retained |-> FALSE, started |-> FALSE, stopping |-> FALSE, gone |-> FALSE]
  /\ native = Nothing /\ epoch = 1 /\ frames = <<>>

-----------------------------------------------------------------------------
Top == Last(frames)
Open == Range(frames)
Calls == {f \in Open : f.call = "callback"}
Below(f) == Append(Front(frames), f)
At(at) == frames # <<>> /\ Top.call = "output" /\ Top.at = at
\* Engine or plugin code runs.
Foreign == frames # <<>> => (Top.call = "output" => Top.at = "original")
Active(p) == \E f \in Calls : sub[f.sub].owner = p   \* active_native_operations
Followed == Cardinality({d \in 1..Len(frames) : frames[d].call = "output" /\ frames[d].noted})
\* output_depth_: dispatches that have not returned.
Depth == Cardinality({d \in 1..Len(frames) : frames[d].call = "callback"})
InHand(s) == \E f \in Open : f.call = "output" /\ s \in f.chosen

\* Records given up: they are off while an invocation has them.
Without(S) == [s \in Subscriptions |->
  IF s \in S /\ sub[s].state = "on" THEN [sub[s] EXCEPT !.state = "off"] ELSE sub[s]]
\* PruneOutputs
Stale(e) == {s \in Subscriptions : sub[s].state = "on" /\ sub[s].epoch \notin {0, e}}

-----------------------------------------------------------------------------
(* The hook.                                                               *)

\* NativeOutputHooks::Start and Stop of a hook: the hook afterwards, and the answer.
Starts(n) ==
  IF n.callback THEN {[now |-> n, ok |-> n.hook]}
  ELSE IF n.target \/ n.hook THEN {[now |-> n, ok |-> FALSE]}
  ELSE {[now |-> [callback |-> TRUE, target |-> TRUE, hook |-> TRUE], ok |-> TRUE],
        [now |-> Nothing, ok |-> FALSE],
        [now |-> [Nothing EXCEPT !.target = TRUE], ok |-> FALSE]}
\* KeelHook refuses to remove a callback of a call that runs.
Stops(n) ==
  IF Followed > 0 THEN {[now |-> n, ok |-> FALSE]}
  ELSE {[now |-> Nothing, ok |-> TRUE]}
       \cup (IF n.target THEN {[now |-> [n EXCEPT !.hook = FALSE], ok |-> FALSE]} ELSE {})
       \cup (IF n.hook THEN {[now |-> n, ok |-> FALSE]} ELSE {})

-----------------------------------------------------------------------------
(* Subscriptions.                                                          *)

\* What an earlier failure left is stopped first.
Resumed ==
  IF service.retained /\ ~service.started THEN Stops(native)
  ELSE {[now |-> native, ok |-> TRUE]}

\* Mutant: a start that fails keeps nothing.
StartedDropping(n) ==
  \E r \in Starts(n) :
    /\ native' = r.now
    /\ service' = [service EXCEPT !.started = @ \/ r.ok, !.retained = r.ok]

\* The hook is started; a start that fails takes back what it can.
Started(n) ==
  \E r \in Starts(n) :
    IF r.ok
    THEN native' = r.now /\ service' = [service EXCEPT !.started = TRUE, !.retained = TRUE]
    ELSE IF service.started
    THEN native' = r.now /\ service' = [service EXCEPT !.retained = TRUE]
    ELSE \E x \in Stops(r.now) :
           native' = x.now /\ service' = [service EXCEPT !.retained = ~x.ok]

Added(p, s, phases, e) ==
  [Without(Stale(epoch)) EXCEPT ![s] =
     [state |-> "on", owner |-> p, phases |-> phases, epoch |-> e]]

ConfigureOutputs(p, phases, e) ==
  /\ Foreign /\ host[p] = "loaded" /\ ~service.stopping /\ Depth < OutputDepth
  /\ \E x \in Resumed :
     \/ ~x.ok /\ native' = x.now /\ UNCHANGED <<service, sub>>
     \/ /\ x.ok
        /\ Started(x.now)
        /\ IF service'.started
           THEN \/ sub' = Without(Stale(epoch))   \* no record: a limit, or the entity is gone
                \/ \E s \in Subscriptions :
                     /\ sub[s].state # "on" /\ ~InHand(s)
                     /\ \A q \in Subscriptions : sub[q].state = "free" => s <= q
                     /\ e \in {0, epoch}
                     /\ sub' = Added(p, s, phases, e)
           ELSE UNCHANGED sub
  /\ UNCHANGED <<host, epoch, frames>>

UnsubscribeOutput(s) ==
  /\ Foreign /\ sub[s].state = "on"
  /\ sub' = Without({s})
  /\ UNCHANGED <<host, service, native, epoch, frames>>

\* The plugin manager pauses and releases plugins that are in no native call.
Pause(p) ==
  /\ Foreign /\ ~Active(p) /\ host[p] # "released"
  /\ host' = [host EXCEPT ![p] = IF @ = "loaded" THEN "paused" ELSE "loaded"]
  /\ UNCHANGED <<sub, service, native, epoch, frames>>

ReleaseOutputs(p) ==
  /\ Foreign /\ ~Active(p) /\ host[p] = "paused"
  /\ host' = [host EXCEPT ![p] = "released"]
  /\ sub' = Without({s \in Subscriptions : sub[s].owner = p})
  /\ UNCHANGED <<service, native, epoch, frames>>

StopOutputs ==
  /\ Foreign /\ ~service.gone
  /\ sub' = Without(Subscriptions)
  /\ IF Depth > 0 \/ Followed > 0
     THEN service' = [service EXCEPT !.stopping = TRUE] /\ UNCHANGED native
     ELSE IF service.retained
     THEN \E x \in Stops(native) :
            /\ native' = x.now
            /\ service' = [retained |-> ~x.ok, started |-> ~x.ok /\ service.started,
                           stopping |-> TRUE, gone |-> x.ok]
     ELSE /\ service' = [service EXCEPT !.stopping = TRUE, !.gone = TRUE]
          /\ UNCHANGED native
  /\ UNCHANGED <<host, epoch, frames>>

-----------------------------------------------------------------------------
(* Outputs.                                                                *)

Ordered(S) == SetToSortSeq(S, <)

\* The hook follows the call if it can: it has room, the context is readable and
\* KeelHook takes the deferred Complete.
Follows == native.callback /\ native.hook /\ Followed < MaxPending

Fired == [call |-> "output", at |-> "original", noted |-> FALSE, chosen |-> {}, todo |-> <<>>,
          block |-> FALSE, epoch |-> epoch, reached |-> 0, told |-> {}, ended |-> {}]

\* Matching records of the class, and of the entity if its epoch is the event's.
Matching == {s \in Subscriptions : sub[s].state = "on" /\ sub[s].epoch \in {0, epoch}}

FireOutput ==
  /\ Foreign /\ Len(frames) < MaxDepth
  /\ \/ frames' = Append(frames, Fired) /\ UNCHANGED sub
     \/ /\ Follows
        /\ IF service.stopping \/ Depth >= OutputDepth
           THEN /\ frames' = Append(frames, [Fired EXCEPT !.at = "pre", !.noted = TRUE,
                                              !.block = ~service.stopping])
                /\ UNCHANGED sub
           ELSE /\ sub' = Without(Stale(epoch))
                /\ \E S \in SUBSET Matching :
                     frames' = Append(frames, [Fired EXCEPT !.at = "pre", !.noted = TRUE,
                                                 !.chosen = S, !.todo = Ordered(S)])
  /\ UNCHANGED <<host, service, native, epoch>>

\* Mutant: the record is called although it was given up.
CallableAlways(s, phase) == phase \in sub[s].phases
Callable(s, phase) ==
  sub[s].state = "on" /\ phase \in sub[s].phases /\ host[sub[s].owner] = "loaded"

Invoke ==
  /\ At("pre") \/ At("post")
  /\ Top.todo # <<>> /\ Len(frames) < MaxDepth + 1
  /\ LET s == Head(Top.todo)
         f == [Top EXCEPT !.todo = Tail(@)]
     IN  frames' = IF ~Callable(s, Top.at) THEN Below(f)
                   ELSE Append(Below(IF Top.at = "pre" THEN [f EXCEPT !.told = @ \cup {s}]
                                     ELSE [f EXCEPT !.ended = @ \cup {s}]),
                               [call |-> "callback", sub |-> s, phase |-> Top.at])
  /\ UNCHANGED <<host, sub, service, native, epoch>>

\* BLOCK answers PRE; any other answer than CONTINUE, an exception too, ends the
\* subscription.
CallbackReturns ==
  /\ frames # <<>> /\ Top.call = "callback"
  /\ \E answer \in {"continue", "block", "other"} :
       LET ends == answer = "other" \/ (answer = "block" /\ Top.phase = "post")
           below == Front(frames)
           f == Last(below)
       IN  /\ sub' = IF ends THEN Without({Top.sub}) ELSE sub
           /\ frames' = Append(Front(below),
                [f EXCEPT !.block = @ \/ (Top.phase = "pre" /\ answer # "continue")])
  /\ UNCHANGED <<host, service, native, epoch>>

\* Mutant: the call goes on although the map changed.
BlockedAlone(f) == f.block
Blocked(f) == f.block \/ f.epoch # epoch

PreReturns ==
  /\ At("pre") /\ Top.todo = <<>>
  /\ frames' = Below(IF Blocked(Top) THEN [Top EXCEPT !.at = "returned"]
                     ELSE [Top EXCEPT !.at = "original", !.reached = epoch])
  /\ UNCHANGED <<host, sub, service, native, epoch>>

OriginalReturns ==
  /\ At("original")
  /\ frames' = Below([Top EXCEPT !.at = "returned"])
  /\ UNCHANGED <<host, sub, service, native, epoch>>

\* Mutant: the records of POST are chosen anew.
PostAnew(f) == Ordered({s \in Subscriptions : sub[s].state = "on"} \ f.chosen)
PostOrder(f) == Reverse(Ordered(f.chosen))

PostOutput ==
  /\ At("returned")
  /\ frames' = Below(IF Top.noted /\ ~service.stopping
                     THEN [Top EXCEPT !.at = "post", !.todo = PostOrder(Top)]
                     ELSE [Top EXCEPT !.at = "over"])
  /\ UNCHANGED <<host, sub, service, native, epoch>>

PostReturns ==
  /\ At("post") /\ Top.todo = <<>>
  /\ frames' = Below([Top EXCEPT !.at = "over"])
  /\ UNCHANGED <<host, sub, service, native, epoch>>

\* Complete: the invocation is forgotten and the engine's call returns.
Complete ==
  /\ At("over")
  /\ frames' = Front(frames)
  /\ UNCHANGED <<host, sub, service, native, epoch>>

\* A level ended: InvalidateEntityEpoch
NewMap ==
  /\ Foreign /\ epoch < MaxEpochs
  /\ epoch' = epoch + 1
  /\ UNCHANGED <<host, sub, service, native, frames>>

Next ==
  \/ StopOutputs \/ FireOutput \/ Invoke \/ CallbackReturns \/ PreReturns \/ OriginalReturns
  \/ PostOutput \/ PostReturns \/ Complete \/ NewMap
  \/ \E p \in Plugins : Pause(p) \/ ReleaseOutputs(p)
  \/ \E p \in Plugins, phases \in SUBSET {"pre", "post"} \ {{}}, e \in 0..MaxEpochs :
       ConfigureOutputs(p, phases, e)
  \/ \E s \in Subscriptions : UnsubscribeOutput(s)

Spec == Init /\ [][Next]_vars

-----------------------------------------------------------------------------
\* The hook calls into the service by a raw pointer: whatever a failed start or stop
\* left is remembered, and after Shutdown nothing is left and no call is followed.
HookIsKept ==
  /\ native # Nothing => service.retained
  /\ service.gone => native = Nothing /\ Followed = 0 /\ Calls = {}

\* No callback of a released plugin runs, although invocations still have its records.
ReleasedIsSilent == \A p \in Plugins : host[p] = "released" => ~Active(p)

\* A plugin that was told of an output and observes both phases is told of its end,
\* unless it gave up, was paused, or the host stops.
PreEndsInPost ==
  At("over") =>
    \A s \in Top.told :
      \/ s \in Top.ended
      \/ sub[s].state # "on" \/ "post" \notin sub[s].phases
      \/ host[sub[s].owner] # "loaded" \/ service.stopping

\* The engine's function runs after PRE only on the map PRE was told of.
OriginalIsCurrent ==
  \A f \in Open : f.call = "output" /\ f.noted /\ f.at = "original" => f.reached = f.epoch
=============================================================================
