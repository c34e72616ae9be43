------------------------------ MODULE HookValues ------------------------------
(***************************************************************************)
(* The C++ objects that a hooked function takes and returns by value, in   *)
(* the dispatch of its callbacks (host/src/keelhook_service.cpp): storage  *)
(* for the argument and the result, their copies from before a callback,   *)
(* and what the caller gets.  Plugins change both in place; constructors   *)
(* are a plugin's code and may fail.                                       *)
(*                                                                         *)
(* One function with one argument, one thread.  As on Linux, who has made  *)
(* an argument destroys it.  KeelHook models the callbacks' own life.      *)
(* A behaviour ends where an object is lost: see hopeless.                 *)
(***************************************************************************)
EXTENDS Integers, SequencesExt

CONSTANTS
  Callbacks,     \* how many there are, for both phases, in the order of their priority
  MaxDepth,      \* target_stack_.size()
  MaxFailures    \* bound: constructions that ever fail

VARIABLES
  frames,     \* the open dispatches, innermost last
  used,       \* how many constructions have failed
  hopeless,   \* history: an object was lost that no later step can find
  given       \* what the caller got last, a default object meanwhile

vars == <<frames, used, hopeless, given>>

Ids == 1..Callbacks

\* An object is known by who has written it.
Objects == Ids \cup {0, 100, 200}
Default == 0
Engine == 100      \* the caller's argument
Original == 200    \* the result of the original function
None == -1
Ruin == -2         \* an object was overwritten, or none was destroyed or copied

Storage == [object : Objects \cup {None, Ruin}, constructed : BOOLEAN]
Raw == [object |-> None, constructed |-> FALSE]
Holding(object) == [object |-> object, constructed |-> TRUE]
Ruined == Holding(Ruin)
Sound(s) == s.object # Ruin /\ (s.constructed <=> s.object # None)

\* A plugin has constructed an object where there was none, and says so in the value.
Pending(s) == s.object # None /\ ~s.constructed

Frame ==
  [arg : Storage, res : Storage,              \* argument_storage, result_storage
   beforeArg : Storage, beforeRes : Storage,
   flag : BOOLEAN,                            \* frame.result says it is constructed
   said : BOOLEAN,                            \* and the local result
   phase : {"pre", "post"}, i : 0..Callbacks + 1,
   at : {"pick", "callback", "recall", "store"},
   before : BOOLEAN,                          \* original_before
   called : BOOLEAN, overridden : BOOLEAN, superseded : BOOLEAN, recalled : BOOLEAN,
   recall : BOOLEAN,                          \* begun by RecallControl
   argBy : SUBSET Ids, resBy : SUBSET Ids,    \* history: whose writes stand,
   left : Objects \cup {None, Ruin}]          \* and what the last SUPERSEDE left

Init == frames = <<>> /\ used = 0 /\ hopeless = FALSE /\ given = Default

Top == Last(frames)
Replace(f) == frames' = [frames EXCEPT ![Len(frames)] = f]
Spend(cost) == used + cost <= MaxFailures /\ used' = used + cost

-----------------------------------------------------------------------------
(* AggregateStorage.  An outcome is a storage with the failures it took.   *)

Outcome(s, cost) == [value |-> s, cost |-> cost]
Cost(values) == values.arg.cost + values.res.cost
Reset(s) == IF Sound(s) THEN Raw ELSE Ruined

\* Prepare with an initial object, in storage that holds nothing.
Defaults == {Outcome(Holding(Default), 0), Outcome(Raw, 1)}

\* CopyValue: a copy that fails is a default object.
\* Mutant: and there it ends.
MadeOrNot(object) == {Outcome(Holding(object), 0), Outcome(Raw, 1)}
Made(object) ==
  {Outcome(Holding(object), 0), Outcome(Holding(Default), 1), Outcome(Raw, 2)}
Readable(s) == s.constructed => s.object \notin {None, Ruin}
Copies(from, into) ==
  IF Reset(into) = Ruined \/ ~Readable(from) THEN {Outcome(Ruined, 0)}
  ELSE IF from.constructed THEN Made(from.object) ELSE {Outcome(Raw, 0)}

\* The argument as it comes in, if it can be copied.
ExtractArguments(object) == {Outcome(Holding(object), 0), Outcome(Raw, 1)}

\* CallFunction: the argument is copied; if it cannot be, nothing is called and the result
\* is a default object.
CallFunction(arg) == IF arg.object = None THEN Defaults ELSE Made(Original)

\* StoreNativeResult: the caller is to get an object whatever has failed.
StoreNativeResult(res) == IF res.constructed THEN Made(res.object) ELSE Defaults

\* A pending object in the storage is lost when something is copied there.
Lost(s) == hopeless' = (hopeless \/ Pending(s))

-----------------------------------------------------------------------------
(* Dispatch.                                                               *)

Begun(arg, res, recall, argBy, resBy, overridden, first) ==
  [arg |-> arg, res |-> res, beforeArg |-> Raw, beforeRes |-> Raw,
   flag |-> res.constructed, said |-> res.constructed, phase |-> "pre", i |-> first,
   at |-> "pick", before |-> FALSE, called |-> FALSE, overridden |-> overridden,
   superseded |-> FALSE, recalled |-> FALSE, recall |-> recall, argBy |-> argBy,
   resBy |-> resBy, left |-> None]

\* The engine calls the function.  A call by a callback is a dispatch that shares nothing
\* with this one, so they come one after the other here.
Dispatch ==
  /\ frames = <<>>
  /\ \E a \in ExtractArguments(Engine), r \in Defaults :
       /\ Spend(a.cost + r.cost)
       /\ frames' = Append(frames, Begun(a.value, r.value, FALSE, {}, {}, FALSE, 1))
  /\ given' = Default
  /\ UNCHANGED hopeless

\* A callback calls the function at the limit: only the original is called.
DispatchTooDeep ==
  /\ Len(frames) = MaxDepth /\ Top.at = "callback"
  /\ \E a \in ExtractArguments(Engine), r \in Defaults :
     \E o \in CallFunction(a.value) :
     \E n \in StoreNativeResult(o.value) :
       Spend(a.cost + r.cost + o.cost + n.cost) /\ given' = n.value.object
  /\ UNCHANGED <<frames, hopeless>>

AtPick == frames # <<>> /\ Top.at = "pick"

SnapshotValues ==
  [arg : Copies(Top.arg, Top.beforeArg), res : Copies(Top.res, Top.beforeRes)]

\* The values are copied and the callback is called.
Pick ==
  /\ AtPick /\ Top.i \in Ids
  /\ \E before \in SnapshotValues :
       /\ Spend(Cost(before))
       /\ Replace([Top EXCEPT !.beforeArg = before.arg.value, !.beforeRes = before.res.value,
                              !.before = Top.called, !.at = "callback"])
  /\ UNCHANGED <<hopeless, given>>

\* The original's result becomes the dispatch's.
CalledWith(f, r) ==
  [f EXCEPT !.res = r, !.flag = r.constructed, !.said = r.constructed, !.called = TRUE]

\* The callbacks before are over, and the original is called if nobody has done so.
CallsOriginal ==
  /\ AtPick /\ Top.phase = "pre" /\ Top.i > Callbacks
  /\ ~(Top.superseded \/ Top.called)
  /\ \E o \in CallFunction(Top.arg) :
       IF Top.overridden
       THEN Spend(o.cost) /\ Replace([Top EXCEPT !.called = TRUE])
       ELSE \E r \in Copies(o.value, Top.res) :
              Spend(o.cost + r.cost) /\ Replace(CalledWith(Top, r.value))
  /\ UNCHANGED <<hopeless, given>>

PostPhase ==
  /\ AtPick /\ Top.phase = "pre" /\ Top.i > Callbacks
  /\ Top.superseded \/ Top.called
  /\ Replace([Top EXCEPT !.phase = "post", !.i = Callbacks, !.flag = Top.said])
  /\ UNCHANGED <<used, hopeless, given>>

CallbacksOver ==
  /\ AtPick /\ Top.phase = "post" /\ Top.i = 0
  /\ Replace([Top EXCEPT !.at = "store"])
  /\ UNCHANGED <<used, hopeless, given>>

-----------------------------------------------------------------------------
(* A callback.                                                             *)

InCallback == frames # <<>> /\ Top.at = "callback"

\* Write of the SDK: assigns to an object, or makes one where the value says there is none.
WriteArgument ==
  /\ InCallback
  /\ Replace([Top EXCEPT !.arg.object = Top.i])
  /\ UNCHANGED <<used, hopeless, given>>
WriteResult ==
  /\ InCallback
  /\ LET over == ~Top.flag /\ Top.res.object # None IN
       /\ Replace([Top EXCEPT !.res = IF over THEN Ruined ELSE [@ EXCEPT !.object = Top.i],
                              !.flag = TRUE])
       /\ hopeless' = (hopeless \/ over)
  /\ UNCHANGED <<used, given>>

MayCallOriginal == InCallback /\ Top.phase = "pre" /\ ~(Top.called \/ Top.superseded)

CallOriginal ==
  /\ MayCallOriginal
  /\ \E o \in CallFunction(Top.arg) : \E r \in Copies(o.value, Top.res) :
       /\ Spend(o.cost + r.cost)
       /\ Replace(CalledWith(Top, r.value))
  /\ Lost(Top.res)
  /\ UNCHANGED given

\* RecallControl: the callbacks after this one run in a dispatch of their own, which
\* begins with the result so far if it is overridden.
Recall ==
  /\ MayCallOriginal /\ Len(frames) < MaxDepth /\ Top.arg.object # None
  /\ \E a \in ExtractArguments(Top.arg.object), d \in Defaults :
       \E r \in IF Top.overridden THEN Copies(Top.res, d.value) ELSE {Outcome(d.value, 0)} :
         /\ Spend(a.cost + d.cost + r.cost)
         /\ frames' = Append([frames EXCEPT ![Len(frames)].at = "recall"],
              Begun(a.value, r.value, TRUE, Top.argBy \cup {Top.i}, Top.resBy \cup {Top.i},
                    Top.overridden, Top.i + 1))
  /\ UNCHANGED <<hopeless, given>>

\* The argument cannot be copied: the recall is over before it has begun.
RecallFails ==
  /\ MayCallOriginal /\ Len(frames) < MaxDepth
  /\ \E o \in Defaults : \E r \in Copies(o.value, Top.res) :
       /\ Spend((IF Top.arg.object = None THEN 0 ELSE 1) + o.cost + r.cost)
       /\ Replace([CalledWith(Top, r.value) EXCEPT !.recalled = TRUE])
  /\ Lost(Top.res)
  /\ UNCHANGED given

\* Mutant: an object the plugin has made is not taken over.
AdoptNothing(s) == s
\* RuntimeValueValid takes over what the plugin has made.
Adopt(s) == [s EXCEPT !.constructed = s.object # None]

Actions == {"continue", "override", "supersede", "invalid"}

\* The callback's changes of the result stand.
\* Mutant: also those of a callback that lets the others go on.
KeepsAlways(action) == action # "invalid"
Keeps(action) ==
  \/ action = "override" /\ (Top.phase = "pre" => ~Top.superseded)
  \/ action = "supersede" /\ Top.phase = "pre"
  \/ action # "override" /\ Top.phase = "pre" /\ ~Top.before /\ Top.called

KeepsArgument(action) ==
  \/ action \in {"continue", "override"}
  \/ action = "supersede" /\ Top.phase = "pre"
  \/ Top.phase = "pre" /\ ~Top.before /\ Top.called

NextIndex == IF Top.phase = "pre" THEN Top.i + 1 ELSE Top.i - 1

\* What is malformed is put back.
Validated(malformed) ==
  [arg : IF "arg" \in malformed THEN Copies(Top.beforeArg, Top.arg)
         ELSE {Outcome(Adopt(Top.arg), 0)},
   res : IF "res" \in malformed \/ (Adopt(Top.res).constructed /\ ~Top.flag)
         THEN Copies(Top.beforeRes, Top.res) ELSE {Outcome(Adopt(Top.res), 0)}]

\* And what the callback may not change.
Restored(v, action) ==
  [arg : IF KeepsArgument(action) THEN {Outcome(v.arg.value, 0)}
         ELSE Copies(Top.beforeArg, v.arg.value),
   res : IF Keeps(action) THEN {Outcome(v.res.value, 0)}
         ELSE Copies(Top.beforeRes, v.res.value)]

\* The callback returns (one that is disabled by now at once).  The copies from before are
\* left for the next one to replace; they are as good as gone.  No plugin leaves a value
\* malformed in which it has made an object.
Answer(action, malformed) ==
  /\ InCallback
  /\ "arg" \in malformed => ~Pending(Top.arg)
  /\ "res" \in malformed => ~Pending(Top.res)
  /\ LET superseding == action = "supersede" /\ Top.phase = "pre"
         decides == superseding \/ (Top.phase = "pre" /\ Top.called /\ ~Top.before)
         overriding == action = "override" \/ superseding
     IN
     \E v \in Validated(malformed) : \E s \in Restored(v, action) :
       LET result == s.res.value
           said == IF Keeps(action) /\ ~overriding THEN Top.said ELSE result.constructed
       IN
       /\ Spend(Cost(v) + Cost(s))
       /\ Replace([Top EXCEPT
            !.beforeArg = Raw, !.beforeRes = Raw, !.before = FALSE,
            !.arg = s.arg.value, !.res = result, !.said = said, !.flag = said,
            !.i = NextIndex, !.at = IF Top.recalled THEN "store" ELSE "pick",
            !.overridden = @ \/ (overriding /\ Top.phase = "pre"),
            !.superseded = @ \/ superseding,
            !.argBy = IF action \in {"continue", "override"} \/ decides
                      THEN @ \cup {Top.i} ELSE @,
            !.resBy = IF action = "override" \/ decides THEN @ \cup {Top.i} ELSE @,
            !.left = IF superseding THEN result.object ELSE @])
  /\ UNCHANGED <<hopeless, given>>

\* The result goes to the caller.  After a recall that is the callback, which takes the
\* object for constructed.
Return ==
  /\ frames # <<>> /\ Top.at = "store" /\ ~Top.recall
  /\ \E r \in StoreNativeResult(Top.res) : Spend(r.cost) /\ given' = r.value.object
  /\ frames' = Front(frames)
  /\ UNCHANGED hopeless
RecallReturns ==
  /\ frames # <<>> /\ Top.at = "store" /\ Top.recall
  /\ LET outer == frames[Len(frames) - 1] IN
     \E n \in StoreNativeResult(Top.res) :
     \E r \in Copies(Holding(n.value.object), outer.res) :
       /\ Spend(n.cost + r.cost)
       /\ frames' = Append(SubSeq(frames, 1, Len(frames) - 2),
            [CalledWith(outer, r.value) EXCEPT !.recalled = TRUE, !.at = "callback",
               !.resBy = @ \cup Top.resBy])
       /\ hopeless' = (hopeless \/ Pending(outer.res) \/ n.value.object = None)
  /\ UNCHANGED given

-----------------------------------------------------------------------------
Step ==
  \/ Dispatch \/ DispatchTooDeep \/ Pick \/ CallsOriginal \/ PostPhase \/ CallbacksOver
  \/ WriteArgument \/ WriteResult \/ CallOriginal \/ Recall \/ RecallFails
  \/ \E action \in Actions, malformed \in SUBSET {"arg", "res"} : Answer(action, malformed)
  \/ Return \/ RecallReturns

Next == ~hopeless /\ Step

Spec == Init /\ [][Next]_vars

-----------------------------------------------------------------------------
(* Properties.                                                             *)

\* What the dispatches hold is of its type, and no more has failed than may.
TypeOK ==
  /\ frames \in Seq(Frame) /\ Len(frames) <= MaxDepth
  /\ used \in 0..MaxFailures /\ hopeless \in BOOLEAN
  /\ given \in Objects \cup {None}

\* A storage destroys exactly what it holds: every object made by a dispatch or by a plugin
\* in it is destroyed once, and nothing is read that is not there.
ObjectsSound ==
  ~hopeless =>
  \A d \in 1..Len(frames) : LET f == frames[d] IN
    /\ Sound(f.beforeArg) /\ Sound(f.beforeRes)
    /\ \A s \in {f.arg, f.res} :
         Sound(s) \/ (Pending(s) /\ f.at \in {"callback", "recall"})

\* What a callback writes reaches the others, the original function and the caller only if
\* the callback answered that it may, or called the original itself.
WritesStand ==
  ~hopeless =>
  \A d \in 1..Len(frames) : LET f == frames[d]
                                now == IF f.at \in {"callback", "recall"} THEN {f.i} ELSE {} IN
    /\ f.arg.object \in Ids => f.arg.object \in f.argBy \cup now
    /\ f.res.object \in Ids => f.res.object \in f.resBy \cup now

\* A result that supersedes the original is what the callbacks after the call find, unless
\* a copy of it failed.
SupersedeStands ==
  \A d \in 1..Len(frames) : LET f == frames[d] IN
    f.superseded /\ f.phase = "pre" /\ f.at = "pick" /\ used = 0 => f.res.object = f.left

\* One failure never costs the caller its object: a default one takes its place.
CallerGetsObject == given = None => used >= 2
=============================================================================
