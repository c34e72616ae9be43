--------------------------- MODULE KeelHookProofs ---------------------------
(***************************************************************************)
(* Proofs about KeelHook for any plugins, threads, functions and bounds,   *)
(* whatever Risks allows: which call each thread is in and where, the      *)
(* types, and the counts of dispatches, direct calls and callbacks that    *)
(* WaitForZero and the BUSY answers go by.                                 *)
(***************************************************************************)
EXTENDS KeelHook, FiniteSetTheorems, NaturalsInduction, WellFoundedInduction, TLAPS

-----------------------------------------------------------------------------
(* Each action changes at most one frame, but for Recall.                  *)

\* Only frame d of thread t changes, to f.
Changed(t, d, f) ==
  /\ frame' \in [Threads -> [1..MaxDepth -> Frame]]
  /\ frame'[t][d] = f
  /\ \A u \in Threads, e \in Depths : u # t \/ e # d => frame'[u][e] = frame[u][e]

\* A thread inside a call has an innermost frame.
LEMMA TopFrame ==
  ASSUME TypeOK, NEW t \in Threads, depth[t] # 0
  PROVE  depth[t] \in Depths /\ Top(t) \in Frame /\ Top(t) = frame[t][depth[t]]
BY HookAssumption DEF TypeOK, Top, HookAssumption, Depths

\* Replacing frame d of thread t.
LEMMA FramePut ==
  ASSUME TypeOK, NEW t \in Threads, NEW d \in Depths, NEW f \in Frame,
         frame' = [frame EXCEPT ![t] = [frame[t] EXCEPT ![d] = f]]
  PROVE  Changed(t, d, f)
<1> DEFINE w == [frame[t] EXCEPT ![d] = f]
<1>1. frame[t] \in [1..MaxDepth -> Frame]
  BY DEF TypeOK
<1>2. /\ w \in [1..MaxDepth -> Frame] /\ w[d] = f
      /\ \A e \in Depths : e # d => w[e] = frame[t][e]
  BY <1>1 DEF Depths
<1>3. frame' = [frame EXCEPT ![t] = w]
  OBVIOUS
<1> HIDE DEF w
<1>4. /\ frame' \in [Threads -> [1..MaxDepth -> Frame]] /\ frame'[t] = w
      /\ \A u \in Threads : u # t => frame'[u] = frame[u]
  BY <1>2, <1>3 DEF TypeOK
<1> QED  BY <1>2, <1>4 DEF Changed

\* SetTop changes the innermost frame.
LEMMA SetTopChanges ==
  ASSUME TypeOK, NEW t \in Threads, depth[t] # 0, NEW f \in Frame, SetTop(t, f)
  PROVE  Changed(t, depth[t], f) /\ depth' = depth
<1>1. depth[t] \in Depths
  BY TopFrame
<1>2. frame' = [frame EXCEPT ![t] = [frame[t] EXCEPT ![depth[t]] = f]]
  BY DEF SetTop, TypeOK
<1> QED  BY <1>1, <1>2, FramePut DEF SetTop

\* Push stays within the bound and adds the frame above.
LEMMA PushChanges ==
  ASSUME TypeOK, NEW t \in Threads, NEW f \in Frame, Push(t, f)
  PROVE  /\ depth[t] + 1 \in Depths
         /\ Changed(t, depth[t] + 1, f)
         /\ depth' = [depth EXCEPT ![t] = depth[t] + 1]
         /\ depth' \in [Threads -> 0..MaxDepth] /\ depth'[t] = depth[t] + 1
         /\ \A u \in Threads : u # t => depth'[u] = depth[u]
<1>1. /\ depth \in [Threads -> 0..MaxDepth] /\ depth[t] \in 0..MaxDepth
      /\ MaxDepth \in Nat /\ MaxCalls \in 1..MaxDepth
  BY HookAssumption DEF TypeOK, HookAssumption
<1>2. depth[t] + 1 \in 1..MaxDepth
  BY <1>1 DEF Push
<1>3. frame' = [frame EXCEPT ![t] = [frame[t] EXCEPT ![depth[t] + 1] = f]]
  BY DEF Push, TypeOK
<1>4. Changed(t, depth[t] + 1, f)
  BY <1>2, <1>3, FramePut DEF Depths
<1>5. depth' = [depth EXCEPT ![t] = depth[t] + 1]
  BY <1>1 DEF Push
<1> QED  BY <1>1, <1>2, <1>4, <1>5 DEF Depths

\* The idle frame.
LEMMA IdleFrame ==
  /\ Idle \in Frame /\ FrameOK(Idle) /\ Idle.call = "none" /\ Idle.at = "none"
  /\ Idle.plugin = NoPlugin /\ Idle.target = None /\ Idle.callback = None
  /\ Idle.todo = {} /\ Idle.ops = {} /\ Idle.failed = {} /\ ~Idle.flag
  /\ Idle.calls = 0 /\ ~Idle.recalled /\ Idle.from = None
BY DEF Idle, Frame, Calls, Points, FrameOK, PluginCallOK, HostCallOK, None

\* The names of the calls and of the points in them.
LEMMA Names ==
  /\ "none" \in Calls /\ "dispatch" \in Calls /\ "direct" \in Calls
  /\ "resolve" \in Calls /\ "release_target" \in Calls /\ "add" \in Calls
  /\ "remove" \in Calls /\ "set" \in Calls /\ "activate" \in Calls
  /\ "deactivate" \in Calls /\ "release" \in Calls /\ "shutdown" \in Calls
  /\ "collect" \in Calls
  /\ "none" \in Points /\ "entered" \in Points /\ "bound" \in Points
  /\ "counted" \in Points /\ "pick" \in Points /\ "check" \in Points /\ "in" \in Points
  /\ "explicit" \in Points /\ "recalling" \in Points /\ "original" \in Points
  /\ "direct" \in Points /\ "collect" \in Points /\ "begin" \in Points
  /\ "install" \in Points /\ "restore" \in Points /\ "wait" \in Points
  /\ "retry" \in Points /\ "drain" \in Points /\ "finish" \in Points
  /\ "destroy" \in Points
BY DEF Calls, Points

\* Pop makes the innermost frame idle.
LEMMA PopChanges ==
  ASSUME TypeOK, NEW t \in Threads, depth[t] # 0, Pop(t)
  PROVE  /\ Changed(t, depth[t], Idle)
         /\ depth' = [depth EXCEPT ![t] = depth[t] - 1]
         /\ depth' \in [Threads -> 0..MaxDepth] /\ depth'[t] = depth[t] - 1
         /\ \A u \in Threads : u # t => depth'[u] = depth[u]
<1>1. depth[t] \in Depths
  BY TopFrame
<1>2. frame' = [frame EXCEPT ![t] = [frame[t] EXCEPT ![depth[t]] = Idle]]
  BY DEF Pop, TypeOK
<1>3. Changed(t, depth[t], Idle)
  BY <1>1, <1>2, IdleFrame, FramePut
<1>4. /\ depth \in [Threads -> 0..MaxDepth] /\ depth[t] \in 0..MaxDepth /\ MaxDepth \in Nat
  BY HookAssumption DEF TypeOK, HookAssumption
<1>5. depth' = [depth EXCEPT ![t] = depth[t] - 1]
  BY <1>4 DEF Pop
<1> QED  BY <1>1, <1>3, <1>4, <1>5 DEF Depths

\* No frame changes.
LEMMA NothingChanges ==
  ASSUME TypeOK, UNCHANGED threads, NEW t \in Threads, NEW d \in Depths
  PROVE  Changed(t, d, frame[t][d]) /\ depth' = depth
BY DEF TypeOK, threads, Changed

-----------------------------------------------------------------------------
(* The stack.                                                              *)

Inner == {"in", "explicit", "recalling", "original", "direct"}

\* SetTop leaves the stack in order.
LEMMA SetTopStack ==
  ASSUME TypeOK, StackOK, NEW t \in Threads, depth[t] # 0, NEW f \in Frame, SetTop(t, f),
         FrameOK(f), f.call # "none"
  PROVE  StackOK'
<1>1. Changed(t, depth[t], f) /\ depth' = depth /\ depth[t] \in Depths
  BY SetTopChanges, TopFrame
<1> SUFFICES ASSUME NEW u \in Threads, NEW e \in Depths
             PROVE  /\ FrameOK(frame'[u][e])
                    /\ e <= depth'[u] <=> frame'[u][e].call # "none"
                    /\ e < depth'[u] => frame'[u][e].at \in Inner
  BY DEF StackOK, Inner
<1>2. CASE u = t /\ e = depth[t]
  BY <1>1, <1>2 DEF Changed, Depths
<1>3. CASE ~(u = t /\ e = depth[t])
  BY <1>1, <1>3 DEF Changed, StackOK, Inner
<1> QED  BY <1>2, <1>3

\* Push leaves the stack in order, when the innermost frame runs code.
LEMMA PushStack ==
  ASSUME TypeOK, StackOK, NEW t \in Threads, NEW f \in Frame, Push(t, f),
         Running(t), FrameOK(f), f.call # "none"
  PROVE  StackOK'
<1>1. /\ depth[t] + 1 \in Depths /\ Changed(t, depth[t] + 1, f)
      /\ depth' \in [Threads -> 0..MaxDepth] /\ depth'[t] = depth[t] + 1
      /\ \A u \in Threads : u # t => depth'[u] = depth[u]
  BY PushChanges
<1>2. depth[t] \in Nat /\ (depth[t] # 0 => frame[t][depth[t]].at \in Inner)
  BY HookAssumption DEF Running, Inner, Top, TypeOK, HookAssumption
<1> SUFFICES ASSUME NEW u \in Threads, NEW e \in Depths
             PROVE  /\ FrameOK(frame'[u][e])
                    /\ e <= depth'[u] <=> frame'[u][e].call # "none"
                    /\ e < depth'[u] => frame'[u][e].at \in Inner
  BY DEF StackOK, Inner
<1>3. CASE u = t /\ e = depth[t] + 1
  BY <1>1, <1>3 DEF Changed, Depths
<1>4. CASE u = t /\ e # depth[t] + 1
  <2>1. frame'[u][e] = frame[t][e] /\ FrameOK(frame[t][e])
    BY <1>1, <1>4 DEF Changed, StackOK
  <2>2. e <= depth[t] <=> frame[t][e].call # "none"
    BY DEF StackOK
  <2>3. e < depth[t] => frame[t][e].at \in Inner
    BY DEF StackOK, Inner
  <2>4. e \in Nat /\ e # 0
    BY DEF Depths
  <2> QED  BY <1>1, <1>2, <1>4, <2>1, <2>2, <2>3, <2>4
<1>5. CASE u # t
  BY <1>1, <1>5 DEF Changed, StackOK, Inner
<1> QED  BY <1>3, <1>4, <1>5

\* Pop leaves the stack in order.
LEMMA PopStack ==
  ASSUME TypeOK, StackOK, NEW t \in Threads, depth[t] # 0, Pop(t)
  PROVE  StackOK'
<1>1. /\ Changed(t, depth[t], Idle) /\ depth[t] \in Depths
      /\ depth'[t] = depth[t] - 1
      /\ \A u \in Threads : u # t => depth'[u] = depth[u]
  BY PopChanges, TopFrame
<1> SUFFICES ASSUME NEW u \in Threads, NEW e \in Depths
             PROVE  /\ FrameOK(frame'[u][e])
                    /\ e <= depth'[u] <=> frame'[u][e].call # "none"
                    /\ e < depth'[u] => frame'[u][e].at \in Inner
  BY DEF StackOK, Inner
<1>2. CASE u = t /\ e = depth[t]
  BY <1>1, <1>2, IdleFrame DEF Changed, Depths
<1>3. CASE u = t /\ e # depth[t]
  <2>1. frame'[u][e] = frame[t][e] /\ FrameOK(frame[t][e])
    BY <1>1, <1>3 DEF Changed, StackOK
  <2>2. e <= depth[t] <=> frame[t][e].call # "none"
    BY DEF StackOK
  <2>3. e < depth[t] => frame[t][e].at \in Inner
    BY DEF StackOK, Inner
  <2>4. e \in Nat /\ depth[t] \in Nat
    BY <1>1 DEF Depths
  <2> QED  BY <1>1, <1>3, <2>1, <2>2, <2>3, <2>4
<1>4. CASE u # t
  BY <1>1, <1>4 DEF Changed, StackOK, Inner
<1> QED  BY <1>2, <1>3, <1>4

-----------------------------------------------------------------------------
(* Counting frames.                                                        *)

\* What a frame adds to the count of a target's dispatches and direct calls, of its
\* direct calls, and of a callback's runs.
On(f, r) == IF OnTargetStack(f) /\ f.target = r THEN 1 ELSE 0
Dir(f, r) == IF f.call = "direct" /\ f.target = r THEN 1 ELSE 0
Held(f, c) == IF Holds(f, c) THEN 1 ELSE 0

\* The counts change as the frame that changes from g to f does.
Counts(g, f) ==
  /\ \A r \in Targets : /\ target'[r].active = target[r].active + On(f, r) - On(g, r)
                        /\ target'[r].direct = target[r].direct + Dir(f, r) - Dir(g, r)
  /\ \A c \in Callbacks : callback'[c].active = callback[c].active + Held(f, c) - Held(g, c)

\* There are finitely many frames.
LEMMA PositionsFinite == IsFiniteSet(Positions)
<1>1. IsFiniteSet(1..MaxDepth)
  BY HookAssumption, FS_Interval DEF HookAssumption
<1>2. IsFiniteSet(Threads)
  BY HookAssumption DEF HookAssumption
<1> QED  BY <1>1, <1>2, FS_Product DEF Positions

\* A set of frames in which the place of one frame is taken by its successor.
LEMMA CountChange ==
  ASSUME NEW S, NEW T, NEW x, NEW b \in BOOLEAN, IsFiniteSet(S),
         \A y : y \in T <=> IF y = x THEN b ELSE y \in S
  PROVE  Cardinality(T) = Cardinality(S) + (IF b THEN 1 ELSE 0)
                          - (IF x \in S THEN 1 ELSE 0)
<1>0. Cardinality(S) \in Nat
  BY FS_CardinalityType
<1>1. CASE b
  <2>1. T = S \cup {x}
    BY <1>1
  <2>2. Cardinality(T) = IF x \in S THEN Cardinality(S) ELSE Cardinality(S) + 1
    BY <2>1, FS_AddElement
  <2> QED  BY <1>0, <1>1, <2>2
<1>2. CASE ~b
  <2>1. T = S \ {x}
    BY <1>2
  <2>2. Cardinality(T) = IF x \in S THEN Cardinality(S) - 1 ELSE Cardinality(S)
    BY <2>1, FS_RemoveElement
  <2> QED  BY <1>0, <1>2, <2>2
<1> QED  BY <1>1, <1>2

\* The counts follow from one frame to the next.
LEMMA BalancedStep ==
  ASSUME ActiveBalanced, NEW t \in Threads, NEW d \in Depths, NEW f, Changed(t, d, f),
         Counts(frame[t][d], f)
  PROVE  ActiveBalanced'
<1> DEFINE g == frame[t][d]
           x == <<t, d>>
<1>0. x \in Positions /\ FrameAt(x) = g /\ FrameAt(x)' = f
  BY DEF Positions, FrameAt, Changed, Depths
<1>1. \A y \in Positions : y # x => FrameAt(y)' = FrameAt(y)
  BY DEF Positions, FrameAt, Changed, Depths
<1>2. ASSUME NEW r \in Targets PROVE (target[r].active =
        CountOf({y \in Positions : Counted(FrameAt(y)) /\ FrameAt(y).target = r}))'
  <2> DEFINE S == {y \in Positions : Counted(FrameAt(y)) /\ FrameAt(y).target = r}
             b == OnTargetStack(f) /\ f.target = r
             v == {y \in Positions : Counted(FrameAt(y)) /\ FrameAt(y).target = r}'
  <2>1. \A y : y \in v <=> IF y = x THEN b ELSE y \in S
    BY <1>0, <1>1 DEF Counted, OnTargetStack, Positions
  <2>2. IsFiniteSet(S)
    BY PositionsFinite, FS_Subset
  <2>3. x \in S <=> OnTargetStack(g) /\ g.target = r
    BY <1>0 DEF Counted
  <2> HIDE DEF v, S, b
  <2>3a. b \in BOOLEAN
    BY DEF b, OnTargetStack
  <2>4. Cardinality(v) = Cardinality(S) + (IF b THEN 1 ELSE 0) - (IF x \in S THEN 1 ELSE 0)
    BY <2>1, <2>2, <2>3a, CountChange
  <2>5. Cardinality(v) = Cardinality(S) + On(f, r) - On(g, r)
    BY <2>3, <2>4 DEF On, b
  <2>6. target[r].active = Cardinality(S)
    BY DEF ActiveBalanced, CountOf, S
  <2>7. target'[r].active = Cardinality(v)
    BY <2>5, <2>6 DEF Counts
  <2> QED  BY <2>7 DEF CountOf, v
<1>3. ASSUME NEW r \in Targets PROVE (target[r].direct =
        CountOf({y \in Positions : FrameAt(y).call = "direct" /\ FrameAt(y).target = r}))'
  <2> DEFINE S == {y \in Positions : FrameAt(y).call = "direct" /\ FrameAt(y).target = r}
             b == f.call = "direct" /\ f.target = r
             v == {y \in Positions : FrameAt(y).call = "direct" /\ FrameAt(y).target = r}'
  <2>1. \A y : y \in v <=> IF y = x THEN b ELSE y \in S
    BY <1>0, <1>1 DEF Positions
  <2>2. IsFiniteSet(S)
    BY PositionsFinite, FS_Subset
  <2>3. x \in S <=> g.call = "direct" /\ g.target = r
    BY <1>0
  <2> HIDE DEF v, S, b
  <2>3a. b \in BOOLEAN
    BY DEF b
  <2>4. Cardinality(v) = Cardinality(S) + (IF b THEN 1 ELSE 0) - (IF x \in S THEN 1 ELSE 0)
    BY <2>1, <2>2, <2>3a, CountChange
  <2>5. Cardinality(v) = Cardinality(S) + Dir(f, r) - Dir(g, r)
    BY <2>3, <2>4 DEF Dir, b
  <2>6. target[r].direct = Cardinality(S)
    BY DEF ActiveBalanced, CountOf, S
  <2>7. target'[r].direct = Cardinality(v)
    BY <2>5, <2>6 DEF Counts
  <2> QED  BY <2>7 DEF CountOf, v
<1>4. ASSUME NEW c \in Callbacks PROVE (callback[c].active =
        CountOf({y \in Positions : Holds(FrameAt(y), c)}))'
  <2> DEFINE S == {y \in Positions : Holds(FrameAt(y), c)}
             b == Holds(f, c)
             v == {y \in Positions : Holds(FrameAt(y), c)}'
  <2>1. \A y : y \in v <=> IF y = x THEN b ELSE y \in S
    BY <1>0, <1>1 DEF Holds, InDispatch, Positions
  <2>2. IsFiniteSet(S)
    BY PositionsFinite, FS_Subset
  <2>3. x \in S <=> Holds(g, c)
    BY <1>0
  <2> HIDE DEF v, S, b
  <2>3a. b \in BOOLEAN
    BY DEF b, Holds, InDispatch
  <2>4. Cardinality(v) = Cardinality(S) + (IF b THEN 1 ELSE 0) - (IF x \in S THEN 1 ELSE 0)
    BY <2>1, <2>2, <2>3a, CountChange
  <2>5. Cardinality(v) = Cardinality(S) + Held(f, c) - Held(g, c)
    BY <2>3, <2>4 DEF Held, b
  <2>6. callback[c].active = Cardinality(S)
    BY DEF ActiveBalanced, CountOf, S
  <2>7. callback'[c].active = Cardinality(v)
    BY <2>5, <2>6 DEF Counts
  <2> QED  BY <2>7 DEF CountOf, v
<1> QED  BY <1>2, <1>3, <1>4 DEF ActiveBalanced

\* A thread that is in a dispatch, a direct call or a callback is counted.
LEMMA CountedPositive ==
  ASSUME TypeOK, ActiveBalanced, NEW t \in Threads, NEW d \in Depths
  PROVE  /\ \A r \in Targets : On(frame[t][d], r) = 1 => target[r].active > 0
         /\ \A r \in Targets : Dir(frame[t][d], r) = 1 => target[r].direct > 0
         /\ \A c \in Callbacks : Held(frame[t][d], c) = 1 => callback[c].active > 0
<1> DEFINE x == <<t, d>>
<1>0. x \in Positions /\ FrameAt(x) = frame[t][d]
  BY DEF Positions, FrameAt, Depths
<1>1. ASSUME NEW S, S \subseteq Positions, x \in S PROVE Cardinality(S) > 0
  <2>1. IsFiniteSet(S)
    BY <1>1, PositionsFinite, FS_Subset
  <2>2. Cardinality(S) \in Nat /\ Cardinality(S) # 0
    BY <1>1, <2>1, FS_EmptySet, FS_CardinalityType
  <2> QED  BY <2>2
<1>2. ASSUME NEW r \in Targets, On(frame[t][d], r) = 1 PROVE target[r].active > 0
  <2> DEFINE S == {y \in Positions : Counted(FrameAt(y)) /\ FrameAt(y).target = r}
  <2>1. x \in S
    BY <1>0, <1>2 DEF On, Counted
  <2>2. Cardinality(S) > 0
    BY <1>1, <2>1
  <2> QED  BY <2>2 DEF ActiveBalanced, CountOf
<1>3. ASSUME NEW r \in Targets, Dir(frame[t][d], r) = 1 PROVE target[r].direct > 0
  <2> DEFINE S == {y \in Positions : FrameAt(y).call = "direct" /\ FrameAt(y).target = r}
  <2>1. x \in S
    BY <1>0, <1>3 DEF Dir
  <2>2. Cardinality(S) > 0
    BY <1>1, <2>1
  <2> QED  BY <2>2 DEF ActiveBalanced, CountOf
<1>4. ASSUME NEW c \in Callbacks, Held(frame[t][d], c) = 1 PROVE callback[c].active > 0
  <2> DEFINE S == {y \in Positions : Holds(FrameAt(y), c)}
  <2>1. x \in S
    BY <1>0, <1>4 DEF Held
  <2>2. Cardinality(S) > 0
    BY <1>1, <2>1
  <2> QED  BY <2>2 DEF ActiveBalanced, CountOf
<1> QED  BY <1>2, <1>3, <1>4

-----------------------------------------------------------------------------
(* The records.                                                            *)

\* The fields of the records have their types.
LEMMA TargetFields ==
  ASSUME NEW x \in Target
  PROVE  /\ x.state \in {"free", "live", "retired", "gone"} /\ x.fn \in Functions
         /\ x.leases \subseteq Plugins /\ x.bindings \subseteq Plugins
         /\ x.transition \in BOOLEAN /\ x.enabled \in BOOLEAN /\ x.storage \in BOOLEAN
         /\ x.active \in Nat /\ x.direct \in Nat
BY DEF Target

LEMMA CallbackFields ==
  ASSUME NEW x \in Callback
  PROVE  /\ x.state \in {"free", "live", "erased"} /\ x.owner \in Plugins \cup {NoPlugin}
         /\ x.target \in Targets \cup {None} /\ x.enabled \in BOOLEAN
         /\ x.active \in Nat /\ x.pre \in BOOLEAN
BY DEF Callback

LEMMA FrameFields ==
  ASSUME NEW f \in Frame
  PROVE  /\ f.call \in Calls /\ f.at \in Points /\ f.plugin \in Plugins \cup {NoPlugin}
         /\ f.target \in Targets \cup {None} /\ f.callback \in Callbacks \cup {None}
         /\ f.todo \subseteq Nat /\ f.ops \subseteq Nat /\ f.failed \subseteq Targets
         /\ f.post \in BOOLEAN /\ f.calls \in 0..2 /\ f.superseded \in BOOLEAN
         /\ f.recalled \in BOOLEAN /\ f.from \in Callbacks \cup {None} /\ f.flag \in BOOLEAN
BY DEF Frame

\* Callbacks disabled together.
LEMMA DisabledFacts ==
  ASSUME callback \in [Callbacks -> Callback], NEW S
  PROVE  /\ Disabled(S) \in [Callbacks -> Callback]
         /\ \A c \in Callbacks :
              /\ Disabled(S)[c].state = callback[c].state
              /\ Disabled(S)[c].owner = callback[c].owner
              /\ Disabled(S)[c].target = callback[c].target
              /\ Disabled(S)[c].active = callback[c].active
              /\ Disabled(S)[c].enabled = (callback[c].enabled /\ c \notin S)
<1>1. ASSUME NEW c \in Callbacks
      PROVE  /\ Disabled(S)[c] \in Callback
             /\ Disabled(S)[c].state = callback[c].state
             /\ Disabled(S)[c].owner = callback[c].owner
             /\ Disabled(S)[c].target = callback[c].target
             /\ Disabled(S)[c].active = callback[c].active
             /\ Disabled(S)[c].enabled = (callback[c].enabled /\ c \notin S)
  <2>1. PICK x \in Callback : x = callback[c]
    OBVIOUS
  <2>2. Disabled(S)[c] = IF c \in S THEN [x EXCEPT !.enabled = FALSE] ELSE x
    BY <2>1 DEF Disabled
  <2>3. x.enabled \in BOOLEAN
    BY CallbackFields
  <2> QED  BY <2>1, <2>2, <2>3 DEF Callback
<1> QED  BY <1>1 DEF Disabled

\* Callbacks erased together.
LEMMA ErasedFacts ==
  ASSUME callback \in [Callbacks -> Callback], NEW S
  PROVE  /\ Erased(S) \in [Callbacks -> Callback]
         /\ \A c \in Callbacks :
              /\ c \notin S => Erased(S)[c] = callback[c]
              /\ c \in S => Erased(S)[c].state = "erased" /\ Erased(S)[c].target = None
              /\ Erased(S)[c].owner = callback[c].owner
              /\ Erased(S)[c].active = callback[c].active
              /\ Erased(S)[c].enabled = callback[c].enabled
<1>1. ASSUME NEW c \in Callbacks
      PROVE  /\ Erased(S)[c] \in Callback
             /\ c \notin S => Erased(S)[c] = callback[c]
             /\ c \in S => Erased(S)[c].state = "erased" /\ Erased(S)[c].target = None
             /\ Erased(S)[c].owner = callback[c].owner
             /\ Erased(S)[c].active = callback[c].active
             /\ Erased(S)[c].enabled = callback[c].enabled
  <2>1. PICK x \in Callback : x = callback[c]
    OBVIOUS
  <2>2. Erased(S)[c] = IF c \in S THEN [x EXCEPT !.state = "erased", !.target = None] ELSE x
    BY <2>1 DEF Erased
  <2> QED  BY <2>1, <2>2 DEF Callback
<1> QED  BY <1>1 DEF Erased

\* Pruning retires targets and does nothing else.
LEMMA PrunedFacts ==
  ASSUME NEW tg \in [Targets -> Target], NEW used
  PROVE  /\ Pruned(tg, used) \in [Targets -> Target]
         /\ \A r \in Targets :
              /\ Pruned(tg, used)[r].state =
                   IF tg[r].state = "live" /\ ~tg[r].transition /\ tg[r].leases = {} /\ r \notin used
                   THEN "retired" ELSE tg[r].state
              /\ Pruned(tg, used)[r].leases = tg[r].leases
              /\ Pruned(tg, used)[r].fn = tg[r].fn
              /\ Pruned(tg, used)[r].bindings = tg[r].bindings
              /\ Pruned(tg, used)[r].transition = tg[r].transition
              /\ Pruned(tg, used)[r].enabled = tg[r].enabled
              /\ Pruned(tg, used)[r].storage = tg[r].storage
              /\ Pruned(tg, used)[r].active = tg[r].active
              /\ Pruned(tg, used)[r].direct = tg[r].direct
<1>1. ASSUME NEW r \in Targets
      PROVE  /\ Pruned(tg, used)[r] \in Target
             /\ Pruned(tg, used)[r].state =
                  IF tg[r].state = "live" /\ ~tg[r].transition /\ tg[r].leases = {} /\ r \notin used
                  THEN "retired" ELSE tg[r].state
             /\ Pruned(tg, used)[r].leases = tg[r].leases
             /\ Pruned(tg, used)[r].fn = tg[r].fn
             /\ Pruned(tg, used)[r].bindings = tg[r].bindings
             /\ Pruned(tg, used)[r].transition = tg[r].transition
             /\ Pruned(tg, used)[r].enabled = tg[r].enabled
             /\ Pruned(tg, used)[r].storage = tg[r].storage
             /\ Pruned(tg, used)[r].active = tg[r].active
             /\ Pruned(tg, used)[r].direct = tg[r].direct
  <2>1. PICK x \in Target : x = tg[r]
    OBVIOUS
  <2>2. Pruned(tg, used)[r] =
          IF x.state = "live" /\ ~x.transition /\ x.leases = {} /\ r \notin used
          THEN [x EXCEPT !.state = "retired"] ELSE x
    BY <2>1 DEF Pruned
  <2> QED  BY <2>1, <2>2 DEF Target
<1> QED  BY <1>1 DEF Pruned

-----------------------------------------------------------------------------
(* Steps outside dispatches and direct calls.                              *)

Plain(f) == f.call \notin {"dispatch", "direct"}

\* What the frames do not hold is typed after the step, and nothing is counted.
SharedOK ==
  /\ owner' \in [Plugins -> Owner] /\ quiet' \in SUBSET Plugins
  /\ target' \in [Targets -> Target] /\ callback' \in [Callbacks -> Callback]
  /\ shutdown' \in {"no", "begun", "complete"}
  /\ LiveOK'
  /\ \A c \in Callbacks : callback'[c].state = "free" => callback[c].state = "free"

CountsKept ==
  /\ \A r \in Targets : target'[r].active = target[r].active /\ target'[r].direct = target[r].direct
  /\ \A c \in Callbacks : callback'[c].active = callback[c].active

\* Frames outside dispatches and direct calls count for nothing.
LEMMA PlainCounts ==
  ASSUME TypeOK, CountsKept, NEW g, NEW f, Plain(g), Plain(f)
  PROVE  Counts(g, f)
<1>1. /\ \A r \in Targets : target[r].active \in Nat /\ target[r].direct \in Nat
      /\ \A c \in Callbacks : callback[c].active \in Nat
  BY TargetFields, CallbackFields DEF TypeOK
<1>2. /\ \A r \in Targets : On(f, r) = 0 /\ On(g, r) = 0 /\ Dir(f, r) = 0 /\ Dir(g, r) = 0
      /\ \A c \in Callbacks : Held(f, c) = 0 /\ Held(g, c) = 0
  BY DEF On, Dir, Held, Plain, OnTargetStack, Holds, InDispatch
<1> QED  BY <1>1, <1>2 DEF Counts, CountsKept

\* Snapshots are of callbacks that have been added, for no callback is taken back.
LEMMA SnapshotKept ==
  ASSUME CountInv, SharedOK, NEW t \in Threads, NEW d \in Depths, NEW f, Changed(t, d, f),
         f.call = "dispatch" => /\ f.ops \subseteq Callbacks
                                /\ \A c \in f.ops : callback[c].state # "free"
  PROVE  SnapshotOK'
<1> SUFFICES ASSUME NEW u \in Threads, NEW e \in Depths, frame'[u][e].call = "dispatch",
                    NEW c \in frame'[u][e].ops
             PROVE  callback'[c].state # "free"
  BY DEF SnapshotOK
<1>1. CASE u = t /\ e = d
  BY <1>1 DEF SharedOK, Changed
<1>2. CASE ~(u = t /\ e = d)
  <2>1. frame'[u][e] = frame[u][e]
    BY <1>2 DEF Changed
  <2>2. c \in Callbacks
    BY <2>1 DEF CountInv, StackOK, FrameOK, DispatchOK
  <2> QED  BY <2>1, <2>2 DEF SharedOK, CountInv, SnapshotOK
<1> QED  BY <1>1, <1>2

LEMMA PlainSetTop ==
  ASSUME CountInv, NEW t \in Threads, depth[t] # 0, NEW f \in Frame, SetTop(t, f),
         Plain(Top(t)), Plain(f), FrameOK(f), f.call # "none", SharedOK, CountsKept
  PROVE  CountInv'
<1>1. TypeOK /\ StackOK /\ ActiveBalanced
  BY DEF CountInv
<1>2. /\ Changed(t, depth[t], f) /\ depth' = depth /\ depth[t] \in Depths
      /\ Top(t) = frame[t][depth[t]]
  BY <1>1, SetTopChanges, TopFrame
<1>3. StackOK'
  BY <1>1, SetTopStack
<1>4. ActiveBalanced'
  BY <1>1, <1>2, PlainCounts, BalancedStep
<1>5. TypeOK'
  BY <1>1, <1>2 DEF TypeOK, SharedOK, Changed
<1>6. SnapshotOK'
  BY <1>2, SnapshotKept DEF Plain
<1> QED  BY <1>3, <1>4, <1>5, <1>6 DEF CountInv, SharedOK

LEMMA PlainPush ==
  ASSUME CountInv, NEW t \in Threads, NEW f \in Frame, Push(t, f), Running(t),
         Plain(f), FrameOK(f), f.call # "none", SharedOK, CountsKept
  PROVE  CountInv'
<1>1. TypeOK /\ StackOK /\ ActiveBalanced
  BY DEF CountInv
<1>2. /\ Changed(t, depth[t] + 1, f) /\ depth[t] + 1 \in Depths
      /\ depth' \in [Threads -> 0..MaxDepth]
  BY <1>1, PushChanges
<1>3. StackOK'
  BY <1>1, PushStack
<1>4. Plain(frame[t][depth[t] + 1])
  <2>1. depth[t] \in Nat
    BY <1>1, HookAssumption DEF TypeOK, HookAssumption
  <2>2. ~(depth[t] + 1 <= depth[t])
    BY <2>1
  <2> QED  BY <1>1, <1>2, <2>2 DEF StackOK, Plain
<1>5. ActiveBalanced'
  BY <1>1, <1>2, <1>4, PlainCounts, BalancedStep
<1>6. TypeOK'
  BY <1>1, <1>2 DEF TypeOK, SharedOK, Changed
<1>7. SnapshotOK'
  BY <1>2, SnapshotKept DEF Plain
<1> QED  BY <1>3, <1>5, <1>6, <1>7 DEF CountInv, SharedOK

LEMMA PlainPop ==
  ASSUME CountInv, NEW t \in Threads, depth[t] # 0, Pop(t), Plain(Top(t)), SharedOK, CountsKept
  PROVE  CountInv'
<1>1. TypeOK /\ StackOK /\ ActiveBalanced
  BY DEF CountInv
<1>2. /\ Changed(t, depth[t], Idle) /\ depth' \in [Threads -> 0..MaxDepth]
      /\ depth[t] \in Depths /\ Top(t) = frame[t][depth[t]]
  BY <1>1, PopChanges, TopFrame
<1>3. StackOK'
  BY <1>1, PopStack
<1>4. Plain(Idle)
  BY IdleFrame DEF Plain
<1>5. ActiveBalanced'
  BY <1>1, <1>2, <1>4, PlainCounts, BalancedStep
<1>6. TypeOK'
  BY <1>1, <1>2 DEF TypeOK, SharedOK, Changed
<1>7. SnapshotOK'
  BY <1>2, <1>4, SnapshotKept DEF Plain
<1> QED  BY <1>3, <1>5, <1>6, <1>7 DEF CountInv, SharedOK

\* A step in which no thread moves.
LEMMA NoMove ==
  ASSUME CountInv, UNCHANGED threads, SharedOK, CountsKept
  PROVE  CountInv'
<1>1. TypeOK /\ StackOK /\ ActiveBalanced
  BY DEF CountInv
<1>2. frame' = frame /\ depth' = depth
  BY DEF threads
<1>3. StackOK'
  BY <1>1, <1>2 DEF StackOK
<1>4. ActiveBalanced'
  <2>1. \A r \in Targets :
          /\ {x \in Positions : Counted(FrameAt(x)) /\ FrameAt(x).target = r}'
               = {x \in Positions : Counted(FrameAt(x)) /\ FrameAt(x).target = r}
          /\ {x \in Positions : FrameAt(x).call = "direct" /\ FrameAt(x).target = r}'
               = {x \in Positions : FrameAt(x).call = "direct" /\ FrameAt(x).target = r}
    BY <1>2 DEF FrameAt, Counted, OnTargetStack, Positions
  <2>2. \A c \in Callbacks : {x \in Positions : Holds(FrameAt(x), c)}'
                             = {x \in Positions : Holds(FrameAt(x), c)}
    BY <1>2 DEF FrameAt, Holds, InDispatch, Positions
  <2> QED  BY <1>1, <2>1, <2>2 DEF ActiveBalanced, CountsKept, CountOf
<1>5. TypeOK'
  BY <1>1, <1>2 DEF TypeOK, SharedOK
<1>6. SnapshotOK'
  <2>1. \A u \in Threads, e \in Depths : frame[u][e].call = "dispatch" => frame[u][e].ops \subseteq Callbacks
    BY <1>1 DEF StackOK, FrameOK, DispatchOK
  <2> QED  BY <1>2, <2>1 DEF SharedOK, SnapshotOK, CountInv
<1> QED  BY <1>3, <1>4, <1>5, <1>6 DEF CountInv, SharedOK

\* What is left alone is typed.
LEMMA SharedSame ==
  ASSUME CountInv, UNCHANGED <<owner, quiet, target, callback, shutdown>>
  PROVE  SharedOK /\ CountsKept
BY DEF CountInv, TypeOK, SharedOK, CountsKept, LiveOK

\* The innermost frame of a thread inside a call.
LEMMA TopOK ==
  ASSUME CountInv, NEW t \in Threads, depth[t] # 0
  PROVE  Top(t) \in Frame /\ FrameOK(Top(t)) /\ Top(t).call # "none"
<1>1. TypeOK /\ StackOK
  BY DEF CountInv
<1>2. depth[t] \in Depths /\ Top(t) \in Frame /\ Top(t) = frame[t][depth[t]]
  BY <1>1, TopFrame
<1> QED  BY <1>1, <1>2 DEF StackOK, Depths

\* Handles are natural numbers other than None.
LEMMA HandleFacts ==
  /\ Targets \subseteq Nat /\ Callbacks \subseteq Nat
  /\ None \notin Targets /\ None \notin Callbacks
BY HookAssumption DEF HookAssumption, Targets, Callbacks, None

StartCalls == {"resolve", "release_target", "add", "remove", "release"}

\* The frame of a call that may collect first.
LEMMA StartFrame ==
  ASSUME NEW f \in Frame, f.call \in StartCalls, f.plugin \in Plugins,
         f.ops = {}, f.failed = {}, ~f.flag, f.calls = 0,
         f.call \in {"release_target", "add", "remove"} => f.target \in Targets,
         f.call = "remove" => f.callback \in Callbacks,
         NEW at \in {"begin", "collect"}, NEW S \in SUBSET Targets
  PROVE  LET h == [f EXCEPT !.at = at, !.todo = S] IN
         h \in Frame /\ FrameOK(h) /\ h.call # "none" /\ Plain(h)
<1> DEFINE h == [f EXCEPT !.at = at, !.todo = S]
<1>1. h \in Frame
  <2>1. at \in Points /\ S \in SUBSET Nat
    BY HandleFacts, Names
  <2> QED  BY <2>1, Zenon DEF Frame
<1>2. /\ h.call = f.call /\ h.at = at /\ h.todo = S /\ h.plugin = f.plugin
      /\ h.target = f.target /\ h.callback = f.callback /\ h.ops = {} /\ h.failed = {}
      /\ ~h.flag /\ h.calls = 0
  BY DEF Frame
<1> HIDE DEF h
<1>3. FrameOK(h)
  BY <1>2 DEF FrameOK, PluginCallOK, HostCallOK, StartCalls
<1> QED  BY <1>1, <1>2, <1>3 DEF h, Plain, StartCalls

LEMMA StartKeeps ==
  ASSUME CountInv, NEW t \in Threads, NEW f \in Frame, Start(t, f), f.call \in StartCalls,
         f.plugin \in Plugins, f.ops = {}, f.failed = {}, ~f.flag, f.calls = 0,
         f.call \in {"release_target", "add", "remove"} => f.target \in Targets,
         f.call = "remove" => f.callback \in Callbacks
  PROVE  CountInv'
<1>1. PICK at \in {"begin", "collect"}, S \in SUBSET Targets :
        Push(t, [f EXCEPT !.at = at, !.todo = S])
  <2>1. Collectable(t) \in SUBSET Targets
    BY DEF Collectable, Candidates, Live
  <2> QED  BY <2>1 DEF Start
<1> DEFINE h == [f EXCEPT !.at = at, !.todo = S]
<1>2. h \in Frame /\ FrameOK(h) /\ h.call # "none" /\ Plain(h)
  BY StartFrame
<1>3. Running(t) /\ SharedOK /\ CountsKept
  BY SharedSame DEF Start
<1> QED  BY <1>1, <1>2, <1>3, PlainPush

LEMMA StartResolveStep ==
  ASSUME CountInv, NEW t \in Threads, NEW p \in Plugins, StartResolve(t, p) PROVE CountInv'
<1> DEFINE f == [Idle EXCEPT !.call = "resolve", !.plugin = p]
<1>1. /\ f \in Frame /\ f.call = "resolve" /\ f.plugin = p
      /\ f.ops = {} /\ f.failed = {} /\ ~f.flag /\ f.calls = 0
  <2>1. f \in Frame
    BY IdleFrame, Names, Zenon DEF Frame
  <2>2. /\ f.call = "resolve" /\ f.plugin = p /\ f.ops = {} /\ f.failed = {} /\ ~f.flag
        /\ f.calls = 0
    BY IdleFrame DEF Frame
  <2> QED  BY <2>1, <2>2
<1>2. Start(t, f)
  BY DEF StartResolve
<1> HIDE DEF f
<1> QED  BY <1>1, <1>2, StartKeeps DEF StartCalls

LEMMA StartReleaseTargetStep ==
  ASSUME CountInv, NEW t \in Threads, NEW p \in Plugins, NEW r \in Targets,
         StartReleaseTarget(t, p, r)
  PROVE  CountInv'
<1> DEFINE f == [Idle EXCEPT !.call = "release_target", !.plugin = p, !.target = r]
<1>1. /\ f \in Frame /\ f.call = "release_target" /\ f.plugin = p /\ f.target = r
      /\ f.ops = {} /\ f.failed = {} /\ ~f.flag /\ f.calls = 0
  <2>1. f \in Frame
    BY IdleFrame, Names, Zenon DEF Frame
  <2>2. /\ f.call = "release_target" /\ f.plugin = p /\ f.target = r /\ f.ops = {}
        /\ f.failed = {} /\ ~f.flag /\ f.calls = 0
    BY IdleFrame DEF Frame
  <2> QED  BY <2>1, <2>2
<1>2. Start(t, f)
  BY DEF StartReleaseTarget
<1> HIDE DEF f
<1> QED  BY <1>1, <1>2, StartKeeps DEF StartCalls

LEMMA StartAddStep ==
  ASSUME CountInv, NEW t \in Threads, NEW p \in Plugins, NEW r \in Targets, StartAdd(t, p, r)
  PROVE  CountInv'
<1> DEFINE f == [Idle EXCEPT !.call = "add", !.plugin = p, !.target = r]
<1>1. /\ f \in Frame /\ f.call = "add" /\ f.plugin = p /\ f.target = r
      /\ f.ops = {} /\ f.failed = {} /\ ~f.flag /\ f.calls = 0
  <2>1. f \in Frame
    BY IdleFrame, Names, Zenon DEF Frame
  <2>2. /\ f.call = "add" /\ f.plugin = p /\ f.target = r /\ f.ops = {} /\ f.failed = {}
        /\ ~f.flag /\ f.calls = 0
    BY IdleFrame DEF Frame
  <2> QED  BY <2>1, <2>2
<1>2. Start(t, f)
  BY DEF StartAdd
<1> HIDE DEF f
<1> QED  BY <1>1, <1>2, StartKeeps DEF StartCalls

LEMMA StartReleaseStep ==
  ASSUME CountInv, NEW t \in Threads, NEW p \in Plugins, StartRelease(t, p) PROVE CountInv'
<1> DEFINE f == [Idle EXCEPT !.call = "release", !.plugin = p]
<1>1. /\ f \in Frame /\ f.call = "release" /\ f.plugin = p
      /\ f.ops = {} /\ f.failed = {} /\ ~f.flag /\ f.calls = 0
  <2>1. f \in Frame
    BY IdleFrame, Names, Zenon DEF Frame
  <2>2. /\ f.call = "release" /\ f.plugin = p /\ f.ops = {} /\ f.failed = {} /\ ~f.flag
        /\ f.calls = 0
    BY IdleFrame DEF Frame
  <2> QED  BY <2>1, <2>2
<1>2. Start(t, f)
  BY DEF StartRelease
<1> HIDE DEF f
<1> QED  BY <1>1, <1>2, StartKeeps DEF StartCalls

LEMMA StartRemoveStep ==
  ASSUME CountInv, NEW t \in Threads, NEW p \in Plugins, NEW c \in Callbacks,
         StartRemove(t, p, c)
  PROVE  CountInv'
<1> DEFINE f == [Idle EXCEPT !.call = "remove", !.plugin = p, !.callback = c,
                             !.target = callback[c].target]
<1>0. callback[c].target \in Targets
  BY DEF StartRemove, OwnedBy, CountInv, LiveOK
<1>1. /\ f \in Frame /\ f.call = "remove" /\ f.plugin = p /\ f.target = callback[c].target
      /\ f.callback = c /\ f.ops = {} /\ f.failed = {} /\ ~f.flag /\ f.calls = 0
  <2>1. f \in Frame
    BY <1>0, IdleFrame, Names, Zenon DEF Frame
  <2>2. /\ f.call = "remove" /\ f.plugin = p /\ f.target = callback[c].target
        /\ f.callback = c /\ f.ops = {} /\ f.failed = {} /\ ~f.flag /\ f.calls = 0
    BY <1>0, IdleFrame DEF Frame
  <2> QED  BY <2>1, <2>2
<1>2. Start(t, f)
  BY DEF StartRemove
<1> HIDE DEF f
<1> QED  BY <1>0, <1>1, <1>2, StartKeeps DEF StartCalls

\* A call that answers without having changed anything.
LEMMA RefuseStep ==
  ASSUME CountInv, NEW t \in Threads, depth[t] # 0, Plain(Top(t)), Refuse(t) PROVE CountInv'
BY SharedSame, PlainPop DEF Refuse

\* A call that collects last.
LEMMA CollectLastStep ==
  ASSUME CountInv, NEW t \in Threads, depth[t] # 0, Plain(Top(t)), CollectLast(t),
         SharedOK, CountsKept
  PROVE  CountInv'
<1> DEFINE f == [Idle EXCEPT !.call = "collect", !.at = "begin"]
<1>1. f \in Frame /\ f.call = "collect" /\ f.at = "begin" /\ f.calls = 0
  <2>1. f \in Frame
    BY IdleFrame, Names, Zenon DEF Frame
  <2>2. /\ f.call = "collect" /\ f.at = "begin" /\ f.calls = 0
    BY IdleFrame DEF Frame
  <2> QED  BY <2>1, <2>2
<1>2. SetTop(t, f)
  BY DEF CollectLast
<1> HIDE DEF f
<1>3. FrameOK(f) /\ Plain(f)
  BY <1>1 DEF FrameOK, PluginCallOK, HostCallOK, Plain
<1> QED  BY <1>1, <1>2, <1>3, PlainSetTop

LEMMA CollectAgainStep ==
  ASSUME CountInv, NEW t \in Threads, CollectAgain(t) PROVE CountInv'
<1>1. PICK g : g = Top(t)
  OBVIOUS
<1>2. depth[t] # 0 /\ g \in Frame /\ g.call = "collect" /\ FrameOK(g)
  BY <1>1, TopOK DEF CollectAgain, At
<1>3. Collectable(t) \in SUBSET Targets
  BY DEF Collectable, Candidates, Live
<1> DEFINE f == [g EXCEPT !.at = "collect", !.todo = Collectable(t)]
<1>4. /\ f \in Frame /\ f.call = "collect" /\ f.at = "collect" /\ f.todo = Collectable(t)
      /\ f.calls = g.calls
  <2>1. f \in Frame
    BY <1>2, <1>3, HandleFacts, Names, Zenon DEF Frame
  <2>2. /\ f.call = "collect" /\ f.at = "collect" /\ f.todo = Collectable(t)
        /\ f.calls = g.calls
    BY <1>2, <1>3, HandleFacts DEF Frame
  <2> QED  BY <2>1, <2>2
<1>5. SetTop(t, f)
  BY <1>1 DEF CollectAgain
<1> HIDE DEF f
<1>6. FrameOK(f) /\ Plain(f) /\ Plain(g)
  BY <1>2, <1>3, <1>4 DEF FrameOK, PluginCallOK, HostCallOK, Plain
<1>7. SharedOK /\ CountsKept
  BY SharedSame DEF CollectAgain
<1> QED  BY <1>1, <1>2, <1>4, <1>5, <1>6, <1>7, PlainSetTop

\* The least of some handles is one of them.
LEMMA MinMember ==
  ASSUME NEW S \in SUBSET Nat, S # {} PROVE Min(S) \in S /\ \A y \in S : Min(S) <= y
<1> DEFINE R == {ss \in Nat \X Nat : ss[1] < ss[2]}
<1>1. OpToRel(<, Nat) = R
  BY Zenon DEF OpToRel
<1>2. IsWellFoundedOn(R, Nat)
  BY <1>1, NatLessThanWellFounded, Zenon
<1>3. PICK s \in S : \A r \in S : <<r, s>> \notin R
  <2> HIDE DEF R
  <2> QED  BY <1>2, WFMin
<1>4. ASSUME NEW r \in S PROVE s <= r
  <2>1. r < s => <<r, s>> \in R
    OBVIOUS
  <2>2. ~(r < s)
    BY <1>3, <2>1
  <2> QED  BY <2>2
<1> QED  BY <1>4 DEF Min

\* The greatest of some callbacks is one of them.
LEMMA MaxMember ==
  ASSUME NEW S \in SUBSET Callbacks, S # {} PROVE Max(S) \in S
<1> DEFINE T == {k \in Nat : MaxCallbacks - k \in S}
<1>1. MaxCallbacks \in Nat /\ S \subseteq 1..MaxCallbacks
  BY HookAssumption DEF HookAssumption, Callbacks
<1>2. PICK x \in S : TRUE
  OBVIOUS
<1>3. MaxCallbacks - x \in T
  BY <1>1
<1>4. T \in SUBSET Nat /\ T # {}
  BY <1>3
<1> DEFINE m == MaxCallbacks - Min(T)
<1>5. Min(T) \in T /\ \A y \in T : Min(T) <= y
  <2> HIDE DEF T
  <2> QED  BY <1>4, MinMember
<1>6. m \in S
  BY <1>5
<1>7. ASSUME NEW y \in S PROVE m >= y
  <2>1. MaxCallbacks - y \in T
    BY <1>1
  <2>2. Min(T) \in Nat /\ y \in Nat
    BY <1>1, <1>5
  <2> QED  BY <1>1, <1>5, <2>1, <2>2
<1> HIDE DEF m
<1> QED  BY <1>6, <1>7 DEF Max

\* Only the target records change, and nothing is counted.
LEMMA SharedTarget ==
  ASSUME CountInv, UNCHANGED <<owner, quiet, callback, shutdown>>,
         target' \in [Targets -> Target],
         \A r \in Targets : target'[r].active = target[r].active /\ target'[r].direct = target[r].direct
  PROVE  SharedOK /\ CountsKept
BY DEF CountInv, TypeOK, SharedOK, CountsKept, LiveOK

\* One target record changes.
LEMMA TargetPut ==
  ASSUME TypeOK, NEW r \in Targets, NEW x \in Target, target' = [target EXCEPT ![r] = x],
         x.active = target[r].active, x.direct = target[r].direct
  PROVE  /\ target' \in [Targets -> Target]
         /\ \A q \in Targets : /\ target'[q].active = target[q].active
                               /\ target'[q].direct = target[q].direct
BY DEF TypeOK

\* Nothing or the storage of one target goes.
LEMMA DestroyedFacts ==
  ASSUME TypeOK, NEW r \in Targets
  PROVE  /\ Destroyed(r) \in [Targets -> Target]
         /\ \A q \in Targets :
              /\ Destroyed(r)[q].state = target[q].state /\ Destroyed(r)[q].fn = target[q].fn
              /\ Destroyed(r)[q].leases = target[q].leases
              /\ Destroyed(r)[q].bindings = target[q].bindings
              /\ Destroyed(r)[q].transition = target[q].transition
              /\ Destroyed(r)[q].enabled = target[q].enabled
              /\ Destroyed(r)[q].active = target[q].active
              /\ Destroyed(r)[q].direct = target[q].direct
              /\ Destroyed(r)[q].storage =
                   (target[q].storage
                    /\ ~(q = r /\ target[r].active = 0 /\ ~target[r].enabled /\ ~Entering(r)))
<1>1. PICK y \in Target : y = target[r]
  BY DEF TypeOK
<1>2. PICK z : z = [y EXCEPT !.storage = FALSE]
  OBVIOUS
<1>3. /\ z \in Target /\ z.state = y.state /\ z.fn = y.fn /\ z.leases = y.leases
      /\ z.bindings = y.bindings /\ z.transition = y.transition /\ z.enabled = y.enabled
      /\ z.active = y.active /\ z.direct = y.direct /\ ~z.storage /\ y.storage \in BOOLEAN
      /\ z.storage = FALSE
  BY <1>2 DEF Target
<1>4. CASE y.active = 0 /\ ~y.enabled /\ ~Entering(r)
  <2>1. Destroyed(r) = [target EXCEPT ![r] = z]
    BY <1>1, <1>2, <1>4 DEF Destroyed
  <2>2. /\ Destroyed(r) \in [Targets -> Target] /\ Destroyed(r)[r] = z
        /\ \A q \in Targets : q # r => Destroyed(r)[q] = target[q]
    BY <1>3, <2>1 DEF TypeOK
  <2>3. \A q \in Targets : target[q].storage \in BOOLEAN
    BY TargetFields DEF TypeOK
  <2> HIDE DEF Destroyed
  <2> QED  BY <1>1, <1>3, <1>4, <2>2, <2>3
<1>5. CASE ~(y.active = 0 /\ ~y.enabled /\ ~Entering(r))
  <2>1. Destroyed(r) = target
    BY <1>1, <1>5 DEF Destroyed
  <2>2. \A q \in Targets : target[q].storage \in BOOLEAN
    BY TargetFields DEF TypeOK
  <2> QED  BY <1>1, <1>5, <2>1, <2>2 DEF TypeOK
<1> QED  BY <1>4, <1>5

\* Sweeping drops the targets without storage.
LEMMA SweptFacts ==
  ASSUME TypeOK
  PROVE  /\ Swept(target) \in [Targets -> Target]
         /\ \A q \in Targets :
              /\ Swept(target)[q].state =
                   IF target[q].state = "retired" /\ ~target[q].storage THEN "gone"
                   ELSE target[q].state
              /\ Swept(target)[q].fn = target[q].fn
              /\ Swept(target)[q].leases = target[q].leases
              /\ Swept(target)[q].bindings = target[q].bindings
              /\ Swept(target)[q].transition = target[q].transition
              /\ Swept(target)[q].enabled = target[q].enabled
              /\ Swept(target)[q].storage = target[q].storage
              /\ Swept(target)[q].active = target[q].active
              /\ Swept(target)[q].direct = target[q].direct
<1>1. ASSUME NEW q \in Targets
      PROVE  /\ Swept(target)[q] \in Target
             /\ Swept(target)[q].state =
                  IF target[q].state = "retired" /\ ~target[q].storage THEN "gone"
                  ELSE target[q].state
             /\ Swept(target)[q].fn = target[q].fn
             /\ Swept(target)[q].leases = target[q].leases
             /\ Swept(target)[q].bindings = target[q].bindings
             /\ Swept(target)[q].transition = target[q].transition
             /\ Swept(target)[q].enabled = target[q].enabled
             /\ Swept(target)[q].storage = target[q].storage
             /\ Swept(target)[q].active = target[q].active
             /\ Swept(target)[q].direct = target[q].direct
  <2>1. PICK x \in Target : x = target[q]
    BY DEF TypeOK
  <2>2. Swept(target)[q] = IF x.state = "retired" /\ ~x.storage
                           THEN [x EXCEPT !.state = "gone"] ELSE x
    BY <2>1 DEF Swept
  <2> QED  BY <2>1, <2>2 DEF Target
<1> QED  BY <1>1 DEF Swept

\* What Collect does: the storage of one target, or the sweep.
LEMMA CollectTargets ==
  ASSUME CountInv, NEW t \in Threads, Collect(t)
  PROVE  /\ target' \in [Targets -> Target]
         /\ \A q \in Targets : /\ target'[q].active = target[q].active
                               /\ target'[q].direct = target[q].direct
<1>0. TypeOK
  BY DEF CountInv
<1>1. CASE Top(t).todo # {}
  <2>1. depth[t] # 0 /\ Top(t).at = "collect" /\ Top(t).todo \in SUBSET Targets
    BY TopOK DEF Collect, FrameOK
  <2>2. Min(Top(t).todo) \in Targets
    BY <1>1, <2>1, MinMember, HandleFacts
  <2>3. target' = Destroyed(Min(Top(t).todo)) \/ target' = target
    BY <1>1 DEF Collect
  <2> QED  BY <1>0, <2>2, <2>3, DestroyedFacts DEF TypeOK
<1>2. CASE Top(t).todo = {}
  <2>1. target' = Swept(target)
    BY <1>2 DEF Collect
  <2> QED  BY <1>0, <2>1, SweptFacts
<1> QED  BY <1>1, <1>2

LEMMA CollectStep ==
  ASSUME CountInv, NEW t \in Threads, Collect(t) PROVE CountInv'
<1>1. SharedOK /\ CountsKept
  BY CollectTargets, SharedTarget DEF Collect
<1>2. PICK g : g = Top(t)
  OBVIOUS
<1>3. depth[t] # 0 /\ g \in Frame /\ FrameOK(g) /\ g.call # "none" /\ g.at = "collect"
  BY <1>2, TopOK DEF Collect
<1>4. g.todo \subseteq Targets /\ Plain(g)
  BY <1>3 DEF FrameOK, DispatchOK, Plain
<1>5. CASE g.todo # {}
  <2>1. PICK r : r = Min(g.todo)
    OBVIOUS
  <2> DEFINE f == [g EXCEPT !.todo = g.todo \ {r}]
  <2>2. /\ f \in Frame /\ f.call = g.call /\ f.at = g.at /\ f.todo \subseteq Targets
        /\ f.plugin = g.plugin /\ f.target = g.target /\ f.callback = g.callback
        /\ f.ops = g.ops /\ f.failed = g.failed /\ f.flag = g.flag /\ f.calls = g.calls
    BY <1>3, <1>4, HandleFacts DEF Frame
  <2>3. SetTop(t, f)
    BY <1>2, <1>3, <1>5, <2>1 DEF Collect
  <2> HIDE DEF f
  <2>4. FrameOK(f) /\ Plain(f)
    BY <1>3, <1>4, <2>2 DEF FrameOK, PluginCallOK, HostCallOK, Plain, DispatchOK
  <2> QED  BY <1>1, <1>2, <1>3, <1>4, <2>2, <2>3, <2>4, PlainSetTop
<1>6. CASE g.todo = {} /\ g.call = "collect"
  <2>1. Pop(t)
    BY <1>2, <1>6 DEF Collect
  <2> QED  BY <1>1, <1>2, <1>3, <1>4, <2>1, PlainPop
<1>7. CASE g.todo = {} /\ g.call # "collect"
  <2> DEFINE f == [g EXCEPT !.at = "begin"]
  <2>2. /\ f \in Frame /\ f.call = g.call /\ f.at = "begin" /\ f.todo = {}
        /\ f.plugin = g.plugin /\ f.target = g.target /\ f.callback = g.callback
        /\ f.ops = g.ops /\ f.failed = g.failed /\ f.flag = g.flag /\ f.calls = g.calls
    BY <1>3, <1>7 DEF Frame, Points
  <2>3. SetTop(t, f)
    BY <1>2, <1>3, <1>7 DEF Collect, Goto
  <2> HIDE DEF f
  <2>4. FrameOK(f) /\ Plain(f)
    BY <1>3, <1>4, <2>2 DEF FrameOK, PluginCallOK, HostCallOK, Plain, DispatchOK
  <2> QED  BY <1>1, <1>2, <1>3, <1>4, <2>2, <2>3, <2>4, PlainSetTop
<1> QED  BY <1>5, <1>6, <1>7

-----------------------------------------------------------------------------
(* The plugins' calls.                                                     *)

\* The innermost frame of a call other than a dispatch or a direct call.
LEMMA PlainTop ==
  ASSUME CountInv, NEW t \in Threads, NEW call, NEW at, At(t, call, at),
         call \notin {"dispatch", "direct"}
  PROVE  /\ depth[t] # 0 /\ Top(t) \in Frame /\ FrameOK(Top(t)) /\ Plain(Top(t))
         /\ Top(t).call = call /\ Top(t).at = at /\ Top(t).call # "none"
BY TopOK DEF At, Plain

\* Nobody runs a callback that has not been added.
LEMMA FreeNotHeld ==
  ASSUME CountInv, NEW c \in Callbacks, callback[c].state = "free"
  PROVE  callback[c].active = 0
<1>1. ASSUME NEW x \in Positions, Holds(FrameAt(x), c) PROVE FALSE
  <2>1. PICK t \in Threads, d \in Depths : FrameAt(x) = frame[t][d]
    BY DEF Positions, Depths, FrameAt
  <2>2. frame[t][d].call = "dispatch" /\ frame[t][d].callback = c
    BY <1>1, <2>1 DEF Holds, InDispatch
  <2>3. c \in frame[t][d].ops
    BY <2>2, HandleFacts DEF CountInv, StackOK, FrameOK, DispatchOK
  <2> QED  BY <2>2, <2>3 DEF CountInv, SnapshotOK
<1>2. {x \in Positions : Holds(FrameAt(x), c)} = {}
  BY <1>1
<1> QED  BY <1>2, FS_EmptySet DEF CountInv, ActiveBalanced, CountOf

LEMMA ResolveStep ==
  ASSUME CountInv, NEW t \in Threads, Resolve(t) PROVE CountInv'
<1>1. At(t, "resolve", "begin") /\ Pop(t)
  BY DEF Resolve
<1>2. depth[t] # 0 /\ Plain(Top(t)) /\ FrameOK(Top(t)) /\ Top(t).call = "resolve"
  BY <1>1, PlainTop
<1>3. PICK p : p = Top(t).plugin
  OBVIOUS
<1>4. p \in Plugins
  BY <1>2, <1>3 DEF FrameOK
<1>5. TypeOK
  BY DEF CountInv
<1>6. /\ target' \in [Targets -> Target]
      /\ \A q \in Targets : /\ target'[q].active = target[q].active
                            /\ target'[q].direct = target[q].direct
  <2>1. CASE UNCHANGED target
    BY <1>5, <2>1 DEF TypeOK
  <2>2. CASE \E r \in Targets : target' = [target EXCEPT ![r].leases = @ \cup {p},
                                                         ![r].bindings = @ \cup {p}]
    <3>1. PICK r \in Targets : target' = [target EXCEPT ![r].leases = @ \cup {p},
                                                        ![r].bindings = @ \cup {p}]
      BY <2>2
    <3>2. PICK y \in Target : y = target[r]
      BY <1>5 DEF TypeOK
    <3> DEFINE x == [y EXCEPT !.leases = y.leases \cup {p}, !.bindings = y.bindings \cup {p}]
    <3>3. x \in Target /\ x.active = y.active /\ x.direct = y.direct
      BY <1>4 DEF Target
    <3>4. target' = [target EXCEPT ![r] = x]
      BY <1>5, <3>1, <3>2 DEF TypeOK
    <3> HIDE DEF x
    <3> QED  BY <1>5, <3>2, <3>3, <3>4, TargetPut
  <2>3. CASE \E r \in Targets, fn \in Functions :
               target' = [target EXCEPT ![r].state = "live", ![r].fn = fn,
                                        ![r].leases = {p}, ![r].bindings = {p}]
    <3>1. PICK r \in Targets, fn \in Functions :
               target' = [target EXCEPT ![r].state = "live", ![r].fn = fn,
                                        ![r].leases = {p}, ![r].bindings = {p}]
      BY <2>3
    <3>2. PICK y \in Target : y = target[r]
      BY <1>5 DEF TypeOK
    <3> DEFINE x == [y EXCEPT !.state = "live", !.fn = fn, !.leases = {p}, !.bindings = {p}]
    <3>3. x \in Target /\ x.active = y.active /\ x.direct = y.direct
      BY <1>4 DEF Target
    <3>4. target' = [target EXCEPT ![r] = x]
      BY <1>5, <3>1, <3>2 DEF TypeOK
    <3> HIDE DEF x
    <3> QED  BY <1>5, <3>2, <3>3, <3>4, TargetPut
  <2> QED  BY <1>3, <2>1, <2>2, <2>3 DEF Resolve, Live
<1>7. SharedOK /\ CountsKept
  BY <1>6, SharedTarget DEF Resolve
<1> QED  BY <1>1, <1>2, <1>7, PlainPop

LEMMA ReleaseTargetStep ==
  ASSUME CountInv, NEW t \in Threads, ReleaseTarget(t) PROVE CountInv'
<1>1. At(t, "release_target", "begin")
  BY DEF ReleaseTarget
<1>2. /\ depth[t] # 0 /\ Plain(Top(t)) /\ FrameOK(Top(t)) /\ Top(t).call = "release_target"
      /\ Top(t).at = "begin"
  BY <1>1, PlainTop
<1>3. PICK p, r : p = Top(t).plugin /\ r = Top(t).target
  OBVIOUS
<1>4. p \in Plugins /\ r \in Targets
  BY <1>2, <1>3 DEF FrameOK, PluginCallOK
<1>5. TypeOK
  BY DEF CountInv
<1>6. CASE Refuse(t)
  BY <1>2, <1>6, RefuseStep
<1>7. CASE ~Refuse(t)
  <2> DEFINE tg == [target EXCEPT ![r].leases = @ \ {p}, ![r].bindings = @ \ {p}]
  <2>1. /\ target' = Pruned(tg, Used(callback)) /\ CollectLast(t)
        /\ UNCHANGED <<owner, quiet, callback, shutdown>>
    BY <1>3, <1>7 DEF ReleaseTarget
  <2>2. PICK y \in Target : y = target[r]
    BY <1>4, <1>5 DEF TypeOK
  <2> DEFINE x == [y EXCEPT !.leases = y.leases \ {p}, !.bindings = y.bindings \ {p}]
  <2>3. x \in Target /\ x.active = y.active /\ x.direct = y.direct
    BY DEF Target
  <2>4. tg = [target EXCEPT ![r] = x]
    BY <1>4, <1>5, <2>2 DEF TypeOK
  <2> HIDE DEF tg, x
  <2>5. /\ tg \in [Targets -> Target]
        /\ \A q \in Targets : tg[q].active = target[q].active /\ tg[q].direct = target[q].direct
    BY <1>4, <1>5, <2>2, <2>3, <2>4 DEF TypeOK
  <2>6. /\ target' \in [Targets -> Target]
        /\ \A q \in Targets : /\ target'[q].active = target[q].active
                              /\ target'[q].direct = target[q].direct
    BY <2>1, <2>5, PrunedFacts
  <2>7. SharedOK /\ CountsKept
    BY <2>1, <2>6, SharedTarget
  <2> QED  BY <1>2, <2>1, <2>7, CollectLastStep
<1> QED  BY <1>6, <1>7

LEMMA AddStep ==
  ASSUME CountInv, NEW t \in Threads, Add(t) PROVE CountInv'
<1>1. At(t, "add", "begin")
  BY DEF Add
<1>2. /\ depth[t] # 0 /\ Plain(Top(t)) /\ FrameOK(Top(t)) /\ Top(t).call = "add"
      /\ Top(t).at = "begin" /\ Top(t) \in Frame
  BY <1>1, PlainTop
<1>3. PICK g : g = Top(t)
  OBVIOUS
<1>4. /\ g.plugin \in Plugins /\ g.target \in Targets /\ ~g.flag /\ g.calls = 0
      /\ g \in Frame /\ FrameOK(g)
  BY <1>2, <1>3 DEF FrameOK, PluginCallOK
<1>5. TypeOK
  BY DEF CountInv
<1>6. CASE Refuse(t)
  BY <1>2, <1>6, RefuseStep
<1>7. CASE ~Refuse(t)
  <2>1. PICK c \in Callbacks, pre \in BOOLEAN :
          /\ callback[c].state = "free"
          /\ callback' = [callback EXCEPT ![c] =
               [state |-> "live", owner |-> g.plugin, target |-> g.target,
                enabled |-> owner[g.plugin].active, active |-> 0, pre |-> pre]]
          /\ IF CallbacksOf(g.target) = {}
             THEN /\ target' = [target EXCEPT ![g.target].transition = TRUE]
                  /\ SetTop(t, [g EXCEPT !.at = "install", !.callback = c])
             ELSE UNCHANGED target /\ Pop(t)
          /\ UNCHANGED <<owner, quiet, shutdown>>
    BY <1>3, <1>7 DEF Add
  <2>2. PICK k \in Callback : k = callback[c]
    BY <1>5 DEF TypeOK
  <2> DEFINE new == [state |-> "live", owner |-> g.plugin, target |-> g.target,
                     enabled |-> owner[g.plugin].active, active |-> 0, pre |-> pre]
  <2>3. owner[g.plugin].active \in BOOLEAN
    BY <1>4, <1>5 DEF TypeOK, Owner
  <2>4. /\ new \in Callback /\ new.active = 0 /\ new.state = "live"
        /\ new.owner \in Plugins /\ new.target \in Targets
    BY <1>4, <2>3 DEF Callback
  <2>5. callback' = [callback EXCEPT ![c] = new]
    BY <2>1
  <2> HIDE DEF new
  <2>6. /\ callback' \in [Callbacks -> Callback]
        /\ LiveOK'
    <3>1. callback' \in [Callbacks -> Callback]
      BY <1>5, <2>4, <2>5 DEF TypeOK
    <3> QED  BY <1>5, <2>4, <2>5, <3>1 DEF LiveOK, CountInv, TypeOK
  <2>6a. /\ callback[c].active = 0
         /\ \A b \in Callbacks : callback'[b].state = "free" => callback[b].state = "free"
    BY <1>5, <2>1, <2>4, <2>5, FreeNotHeld DEF TypeOK
  <2>7. \A b \in Callbacks : callback'[b].active = callback[b].active
    BY <1>5, <2>4, <2>5, <2>6a DEF TypeOK
  <2>8. CASE CallbacksOf(g.target) = {}
    <3>1. PICK y \in Target : y = target[g.target]
      BY <1>4, <1>5 DEF TypeOK
    <3> DEFINE x == [y EXCEPT !.transition = TRUE]
    <3>2. x \in Target /\ x.active = y.active /\ x.direct = y.direct
      BY DEF Target
    <3>3. target' = [target EXCEPT ![g.target] = x]
      BY <1>5, <2>1, <2>8, <3>1
    <3> HIDE DEF x
    <3>4. /\ target' \in [Targets -> Target]
          /\ \A q \in Targets : /\ target'[q].active = target[q].active
                                /\ target'[q].direct = target[q].direct
      BY <1>4, <1>5, <3>1, <3>2, <3>3, TargetPut
    <3>5. SharedOK /\ CountsKept
      BY <1>5, <2>1, <2>6, <2>6a, <2>7, <3>4 DEF SharedOK, CountsKept, TypeOK
    <3> DEFINE f == [g EXCEPT !.at = "install", !.callback = c]
    <3>6. /\ f \in Frame /\ f.call = "add" /\ f.at = "install" /\ f.callback = c
          /\ f.plugin = g.plugin /\ f.target = g.target /\ ~f.flag /\ f.calls = 0
      <4>1. f \in Frame
        <5>1. PICK h : h = [g EXCEPT !.at = "install"]
          OBVIOUS
        <5>2. h \in Frame
          BY <1>2, <1>3, <5>1, Names, Zenon DEF Frame
        <5>3. f = [h EXCEPT !.callback = c]
          BY <1>2, <1>3, <5>1 DEF Frame
        <5> QED  BY <1>4, <5>2, <5>3, Zenon DEF Frame
      <4>2. /\ f.call = "add" /\ f.at = "install" /\ f.callback = c /\ f.plugin = g.plugin
            /\ f.target = g.target /\ ~f.flag /\ f.calls = 0
        BY <1>2, <1>3, <1>4 DEF Frame
      <4> QED  BY <4>1, <4>2
    <3>7. SetTop(t, f)
      BY <2>1, <2>8
    <3> HIDE DEF f
    <3>8. FrameOK(f) /\ Plain(f)
      BY <1>4, <3>6 DEF FrameOK, PluginCallOK, HostCallOK, Plain
    <3> QED  BY <1>2, <3>5, <3>6, <3>7, <3>8, PlainSetTop
  <2>9. CASE CallbacksOf(g.target) # {}
    <3>1. SharedOK /\ CountsKept
      BY <1>5, <2>1, <2>6, <2>6a, <2>7, <2>9 DEF SharedOK, CountsKept, TypeOK
    <3> QED  BY <1>2, <2>1, <2>9, <3>1, PlainPop
  <2> QED  BY <2>8, <2>9
<1> QED  BY <1>6, <1>7

\* The target records are typed and counted as before.
TargetsKept ==
  /\ target' \in [Targets -> Target]
  /\ \A q \in Targets : target'[q].active = target[q].active /\ target'[q].direct = target[q].direct

\* So are the callback records, none of which is added.
CallbacksKept ==
  /\ callback' \in [Callbacks -> Callback]
  /\ \A c \in Callbacks :
       /\ callback'[c].active = callback[c].active
       /\ callback'[c].state = "free" => callback[c].state = "free"
       /\ callback'[c].state = "live" => /\ callback[c].state = "live"
                                         /\ callback'[c].owner = callback[c].owner
                                         /\ callback'[c].target = callback[c].target

LEMMA SharedBoth ==
  ASSUME CountInv, owner' \in [Plugins -> Owner], quiet' \in SUBSET Plugins,
         shutdown' \in {"no", "begun", "complete"}, TargetsKept, CallbacksKept
  PROVE  SharedOK /\ CountsKept
BY DEF CountInv, SharedOK, CountsKept, LiveOK, TargetsKept, CallbacksKept

LEMMA TypesOf ==
  ASSUME CountInv
  PROVE  /\ owner \in [Plugins -> Owner] /\ quiet \in SUBSET Plugins
         /\ shutdown \in {"no", "begun", "complete"}
         /\ target \in [Targets -> Target] /\ callback \in [Callbacks -> Callback]
         /\ TypeOK
BY DEF CountInv, TypeOK

\* Disabling or erasing callbacks, or leaving them alone.
LEMMA CallbacksDisabled ==
  ASSUME CountInv, NEW S, callback' = Disabled(S) PROVE CallbacksKept
BY TypesOf, DisabledFacts DEF CallbacksKept

LEMMA CallbacksErased ==
  ASSUME CountInv, NEW S, callback' = Erased(S) PROVE CallbacksKept
BY TypesOf, ErasedFacts DEF CallbacksKept

LEMMA CallbacksSame ==
  ASSUME CountInv, UNCHANGED callback PROVE CallbacksKept
BY TypesOf DEF CallbacksKept

LEMMA TargetsSame ==
  ASSUME CountInv, UNCHANGED target PROVE TargetsKept
BY TypesOf DEF TargetsKept

\* The flags of one target.
LEMMA TargetsFlag ==
  ASSUME CountInv, NEW r \in Targets, NEW b \in BOOLEAN,
         \/ target' = [target EXCEPT ![r].transition = b]
         \/ target' = [target EXCEPT ![r].enabled = b]
         \/ target' = [target EXCEPT ![r].storage = b]
         \/ target' = [target EXCEPT ![r].enabled = b, ![r].storage = b]
  PROVE  TargetsKept
<1>1. PICK y \in Target : y = target[r]
  BY TypesOf
<1>2. PICK x : /\ x \in {[y EXCEPT !.transition = b], [y EXCEPT !.enabled = b],
                         [y EXCEPT !.storage = b], [y EXCEPT !.enabled = b, !.storage = b]}
               /\ target' = [target EXCEPT ![r] = x]
  <2>1. CASE target' = [target EXCEPT ![r].transition = b]
    BY <1>1, <2>1
  <2>2. CASE target' = [target EXCEPT ![r].enabled = b]
    BY <1>1, <2>2
  <2>3. CASE target' = [target EXCEPT ![r].storage = b]
    BY <1>1, <2>3
  <2>4. CASE target' = [target EXCEPT ![r].enabled = b, ![r].storage = b]
    <3>1. target' = [target EXCEPT ![r] = [y EXCEPT !.enabled = b, !.storage = b]]
      BY <1>1, <2>4, TypesOf
    <3> QED  BY <3>1
  <2> QED  BY <2>1, <2>2, <2>3, <2>4
<1>3. x \in Target /\ x.active = y.active /\ x.direct = y.direct
  <2>1. CASE x = [y EXCEPT !.transition = b]
    BY <2>1 DEF Target
  <2>2. CASE x = [y EXCEPT !.enabled = b]
    BY <2>2 DEF Target
  <2>3. CASE x = [y EXCEPT !.storage = b]
    BY <2>3 DEF Target
  <2>4. CASE x = [y EXCEPT !.enabled = b, !.storage = b]
    BY <2>4 DEF Target
  <2> QED  BY <1>2, <2>1, <2>2, <2>3, <2>4
<1> QED  BY <1>1, <1>2, <1>3, TypesOf, TargetPut DEF TargetsKept

\* The flag of one callback.
LEMMA CallbackFlag ==
  ASSUME CountInv, NEW c \in Callbacks, NEW b \in BOOLEAN,
         callback' = [callback EXCEPT ![c].enabled = b]
  PROVE  CallbacksKept
<1>1. PICK y \in Callback : y = callback[c]
  BY TypesOf
<1> DEFINE x == [y EXCEPT !.enabled = b]
<1>2. /\ x \in Callback /\ x.active = y.active /\ x.state = y.state
      /\ x.owner = y.owner /\ x.target = y.target
  BY DEF Callback
<1>3. callback' = [callback EXCEPT ![c] = x]
  BY <1>1
<1> HIDE DEF x
<1> QED  BY <1>1, <1>2, <1>3, TypesOf DEF CallbacksKept

LEMMA InstallStep ==
  ASSUME CountInv, NEW t \in Threads, Install(t) PROVE CountInv'
<1>1. At(t, "add", "install")
  BY DEF Install
<1>2. PICK g : g = Top(t)
  OBVIOUS
<1>3. /\ depth[t] # 0 /\ Plain(g) /\ FrameOK(g) /\ g.call = "add" /\ g.at = "install"
      /\ g \in Frame /\ g.target \in Targets /\ g.calls = 0 /\ ~g.flag
      /\ g.callback \in Callbacks
  BY <1>1, <1>2, PlainTop DEF FrameOK, PluginCallOK
<1>4. SharedOK /\ CountsKept
  <2>1. TargetsKept
    BY <1>2, <1>3, TargetsFlag DEF Install, Enabled, NotEnabled
  <2>2. CallbacksKept
    BY CallbacksSame, CallbacksDisabled DEF Install
  <2> QED  BY <2>1, <2>2, TypesOf, SharedBoth DEF Install
<1>5. PICK b \in BOOLEAN : SetTop(t, [g EXCEPT !.at = "finish", !.flag = b])
  <2>1. [g EXCEPT !.at = "finish"] = [g EXCEPT !.at = "finish", !.flag = FALSE]
    BY <1>3 DEF Frame
  <2> QED  BY <1>2, <2>1 DEF Install, Goto
<1> DEFINE f == [g EXCEPT !.at = "finish", !.flag = b]
<1>6. /\ f \in Frame /\ f.call = "add" /\ f.at = "finish" /\ f.callback = g.callback
      /\ f.plugin = g.plugin /\ f.target = g.target /\ f.calls = 0
  <2>1. f \in Frame
    BY <1>3, Names, Zenon DEF Frame
  <2>2. /\ f.call = "add" /\ f.at = "finish" /\ f.callback = g.callback
        /\ f.plugin = g.plugin /\ f.target = g.target /\ f.calls = 0
    BY <1>3 DEF Frame
  <2> QED  BY <2>1, <2>2
<1>7. SetTop(t, f)
  BY <1>5
<1> HIDE DEF f
<1>8. FrameOK(f) /\ Plain(f)
  BY <1>3, <1>6 DEF FrameOK, PluginCallOK, HostCallOK, Plain
<1> QED  BY <1>2, <1>3, <1>4, <1>6, <1>7, <1>8, PlainSetTop

LEMMA AddDoneStep ==
  ASSUME CountInv, NEW t \in Threads, AddDone(t) PROVE CountInv'
<1>1. At(t, "add", "finish")
  BY DEF AddDone
<1>2. /\ depth[t] # 0 /\ Plain(Top(t)) /\ Top(t).target \in Targets
  BY <1>1, PlainTop DEF FrameOK, PluginCallOK
<1>3. TargetsKept
  BY <1>2, TargetsFlag DEF AddDone
<1>4. CallbacksKept
  BY CallbacksSame, CallbacksErased DEF AddDone
<1>5. SharedOK /\ CountsKept
  BY <1>3, <1>4, TypesOf, SharedBoth DEF AddDone
<1> QED  BY <1>2, <1>5, PlainPop DEF AddDone

LEMMA RemoveStep ==
  ASSUME CountInv, NEW t \in Threads, Remove(t) PROVE CountInv'
<1>1. At(t, "remove", "begin")
  BY DEF Remove
<1>2. PICK g : g = Top(t)
  OBVIOUS
<1>3. /\ depth[t] # 0 /\ Plain(g) /\ FrameOK(g) /\ g.call = "remove" /\ g.at = "begin"
      /\ g \in Frame /\ g.target \in Targets /\ g.calls = 0 /\ g.callback \in Callbacks
  BY <1>1, <1>2, PlainTop DEF FrameOK, PluginCallOK
<1>4. CASE Refuse(t)
  BY <1>2, <1>3, <1>4, RefuseStep
<1>5. CASE ~Refuse(t)
  <2>1. PICK at \in {"restore", "wait"}, S \in {{}, {g.callback}} :
          /\ callback' = Disabled({g.callback})
          /\ target' = [target EXCEPT ![g.target].transition = TRUE]
          /\ SetTop(t, [g EXCEPT !.at = at, !.todo = S, !.flag = callback[g.callback].enabled])
          /\ UNCHANGED <<owner, quiet, shutdown>>
    BY <1>2, <1>5 DEF Remove
  <2>2. SharedOK /\ CountsKept
    BY <1>3, <2>1, TypesOf, TargetsFlag, CallbacksDisabled, SharedBoth
  <2>3. PICK b \in BOOLEAN : b = callback[g.callback].enabled
    BY <1>3, TypesOf, CallbackFields
  <2> DEFINE f == [g EXCEPT !.at = at, !.todo = S, !.flag = b]
  <2>4. /\ f \in Frame /\ f.call = "remove" /\ f.at = at /\ f.callback = g.callback
        /\ f.plugin = g.plugin /\ f.target = g.target /\ f.calls = 0 /\ f.todo = S
    <3>1. f \in Frame
      <4>1. PICK h : h = [g EXCEPT !.at = at]
        OBVIOUS
      <4>2. h \in Frame
        BY <1>3, <4>1, Names, Zenon DEF Frame
      <4>3. g.callback \in Nat
        BY <1>3, HandleFacts
      <4>4. S \in SUBSET Nat
        BY <4>3
      <4>5. PICK k : k = [h EXCEPT !.todo = S]
        OBVIOUS
      <4>6. k \in Frame
        BY <4>2, <4>4, <4>5, Zenon DEF Frame
      <4>7. f = [k EXCEPT !.flag = b]
        BY <1>3, <4>1, <4>5 DEF Frame
      <4> QED  BY <4>6, <4>7, Zenon DEF Frame
    <3>2. /\ f.call = "remove" /\ f.at = at /\ f.callback = g.callback
          /\ f.plugin = g.plugin /\ f.target = g.target /\ f.calls = 0 /\ f.todo = S
      BY <1>3, HandleFacts DEF Frame
    <3> QED  BY <3>1, <3>2
  <2>5. SetTop(t, f)
    BY <2>1, <2>3
  <2> HIDE DEF f
  <2>6. FrameOK(f) /\ Plain(f)
    BY <1>3, <2>4 DEF FrameOK, PluginCallOK, HostCallOK, Plain
  <2> QED  BY <1>2, <1>3, <2>2, <2>4, <2>5, <2>6, PlainSetTop
<1> QED  BY <1>4, <1>5

LEMMA RestoreForRemoveStep ==
  ASSUME CountInv, NEW t \in Threads, RestoreForRemove(t) PROVE CountInv'
<1>1. At(t, "remove", "restore")
  BY DEF RestoreForRemove
<1>2. PICK g : g = Top(t)
  OBVIOUS
<1>3. /\ depth[t] # 0 /\ Plain(g) /\ FrameOK(g) /\ g.call = "remove" /\ g.at = "restore"
      /\ g \in Frame /\ g.target \in Targets /\ g.calls = 0 /\ g.callback \in Callbacks
      /\ g.flag \in BOOLEAN
  BY <1>1, <1>2, PlainTop, FrameFields DEF FrameOK, PluginCallOK
<1>4. CASE /\ target' = Restored(g.target) /\ Goto(t, "wait")
           /\ UNCHANGED <<callback, owner, quiet, shutdown>>
  <2>1. SharedOK /\ CountsKept
    BY <1>3, <1>4, TypesOf, TargetsFlag, CallbacksSame, SharedBoth DEF Restored
  <2> DEFINE f == [g EXCEPT !.at = "wait"]
  <2>2. /\ f \in Frame /\ f.call = "remove" /\ f.at = "wait" /\ f.callback = g.callback
        /\ f.plugin = g.plugin /\ f.target = g.target /\ f.calls = 0 /\ f.todo = g.todo
    BY <1>3 DEF Frame, Points
  <2>3. SetTop(t, f)
    BY <1>2, <1>4 DEF Goto
  <2> HIDE DEF f
  <2>4. FrameOK(f) /\ Plain(f)
    BY <1>3, <2>2 DEF FrameOK, PluginCallOK, HostCallOK, Plain
  <2> QED  BY <1>2, <1>3, <2>1, <2>2, <2>3, <2>4, PlainSetTop
<1>5. CASE /\ target' = [target EXCEPT ![g.target].transition = FALSE]
           /\ callback' = [callback EXCEPT ![g.callback].enabled = g.flag]
           /\ Pop(t) /\ UNCHANGED <<owner, quiet, shutdown>>
  <2>1. SharedOK /\ CountsKept
    BY <1>3, <1>5, TypesOf, TargetsFlag, CallbackFlag, SharedBoth
  <2> QED  BY <1>2, <1>3, <1>5, <2>1, PlainPop
<1> QED  BY <1>2, <1>4, <1>5 DEF RestoreForRemove

\* Waiting changes what is left to wait for.
LEMMA AwaitStep ==
  ASSUME CountInv, NEW t \in Threads, AwaitCallback(t) PROVE CountInv'
<1>1. PICK g : g = Top(t)
  OBVIOUS
<1>2. /\ depth[t] # 0 /\ g \in Frame /\ FrameOK(g) /\ g.call # "none" /\ g.at = "wait"
  BY <1>1, TopOK DEF AwaitCallback
<1>3. Plain(g) /\ g.todo \subseteq Callbacks
  BY <1>2 DEF FrameOK, DispatchOK, Plain
<1>4. PICK c \in g.todo : SetTop(t, [g EXCEPT !.todo = g.todo \ {c}])
  BY <1>1 DEF AwaitCallback
<1> DEFINE f == [g EXCEPT !.todo = g.todo \ {c}]
<1>5. /\ f \in Frame /\ f.call = g.call /\ f.at = g.at /\ f.todo \subseteq g.todo
      /\ f.plugin = g.plugin /\ f.target = g.target /\ f.callback = g.callback
      /\ f.ops = g.ops /\ f.failed = g.failed /\ f.flag = g.flag /\ f.calls = g.calls
  BY <1>2, <1>3, HandleFacts DEF Frame
<1>6. SetTop(t, f)
  BY <1>4
<1> HIDE DEF f
<1>7. FrameOK(f) /\ Plain(f)
  BY <1>2, <1>3, <1>5 DEF FrameOK, PluginCallOK, HostCallOK, Plain, DispatchOK
<1>8. SharedOK /\ CountsKept
  BY SharedSame DEF AwaitCallback
<1> QED  BY <1>1, <1>2, <1>3, <1>5, <1>6, <1>7, <1>8, PlainSetTop

LEMMA RemoveDoneStep ==
  ASSUME CountInv, NEW t \in Threads, RemoveDone(t) PROVE CountInv'
<1>1. At(t, "remove", "wait")
  BY DEF RemoveDone, Waited
<1>2. depth[t] # 0 /\ Plain(Top(t)) /\ Top(t).target \in Targets
  BY <1>1, PlainTop DEF FrameOK, PluginCallOK
<1>3. PICK r \in Targets : r = Top(t).target
  BY <1>2
<1> DEFINE tg == [target EXCEPT ![r].transition = FALSE]
<1>4. target' = Pruned(tg, Used(callback'))
  BY <1>3 DEF RemoveDone
<1>5. PICK y \in Target : y = target[r]
  BY TypesOf
<1> DEFINE x == [y EXCEPT !.transition = FALSE]
<1>6. x \in Target /\ x.active = y.active /\ x.direct = y.direct
  BY DEF Target
<1>7. tg = [target EXCEPT ![r] = x]
  BY <1>5
<1> HIDE DEF tg, x
<1>8. /\ tg \in [Targets -> Target]
      /\ \A q \in Targets : tg[q].active = target[q].active /\ tg[q].direct = target[q].direct
  BY <1>5, <1>6, <1>7, TypesOf
<1>9. TargetsKept
  BY <1>4, <1>8, PrunedFacts DEF TargetsKept
<1>10. CallbacksKept
  BY CallbacksErased DEF RemoveDone
<1>11. SharedOK /\ CountsKept
  BY <1>9, <1>10, TypesOf, SharedBoth DEF RemoveDone
<1> QED  BY <1>2, <1>11, CollectLastStep DEF RemoveDone

LEMMA SetEnabledStep ==
  ASSUME CountInv, NEW t \in Threads, NEW p \in Plugins, NEW c \in Callbacks,
         NEW on \in BOOLEAN, SetEnabled(t, p, c, on)
  PROVE  CountInv'
<1>1. SharedOK /\ CountsKept
  BY TypesOf, CallbackFlag, TargetsSame, SharedBoth DEF SetEnabled
<1>2. CASE UNCHANGED threads
  BY <1>1, <1>2, NoMove
<1>3. CASE Push(t, [Idle EXCEPT !.call = "set", !.at = "wait", !.todo = {c}])
  <2> DEFINE f == [Idle EXCEPT !.call = "set", !.at = "wait", !.todo = {c}]
  <2>0. {c} \in SUBSET Nat
    BY HandleFacts
  <2>0a. PICK x \in Frame : x = Idle
    BY IdleFrame
  <2>1. f \in Frame /\ f.call = "set" /\ f.at = "wait" /\ f.todo = {c} /\ f.calls = 0
    <3>1. f \in Frame
      BY <2>0, <2>0a, IdleFrame, Names, Zenon DEF Frame
    <3>2. /\ f.call = "set" /\ f.at = "wait" /\ f.todo = {c} /\ f.calls = 0
      BY <2>0, <2>0a, IdleFrame DEF Frame
    <3> QED  BY <3>1, <3>2
  <2>2. Push(t, f)
    BY <1>3
  <2> HIDE DEF f
  <2>3. FrameOK(f) /\ Plain(f)
    BY <2>1 DEF FrameOK, PluginCallOK, HostCallOK, Plain
  <2> QED  BY <1>1, <2>1, <2>2, <2>3, PlainPush DEF SetEnabled
<1> QED  BY <1>2, <1>3 DEF SetEnabled

LEMMA SetDoneStep ==
  ASSUME CountInv, NEW t \in Threads, SetDone(t) PROVE CountInv'
BY RefuseStep, PlainTop DEF SetDone, Waited

-----------------------------------------------------------------------------
(* The host's calls.                                                       *)

LEMMA AuthorizeStep ==
  ASSUME CountInv, NEW t \in Threads, NEW p \in Plugins, NEW active \in BOOLEAN,
         Authorize(t, p, active)
  PROVE  CountInv'
<1>1. owner' \in [Plugins -> Owner]
  BY TypesOf DEF Authorize, Owner
<1>2. SharedOK /\ CountsKept
  BY <1>1, TypesOf, TargetsSame, CallbacksSame, SharedBoth DEF Authorize
<1> QED  BY <1>2, NoMove DEF Authorize

\* The frame of a host's call.
LEMMA HostFrame ==
  ASSUME NEW p \in Plugins, NEW S \in SUBSET Callbacks,
         NEW call \in {"activate", "deactivate"},
         NEW at \in {"begin", "wait"}, call = "activate" <=> at = "begin"
  PROVE  LET f == [Idle EXCEPT !.call = call, !.at = at, !.plugin = p, !.todo = S] IN
         f \in Frame /\ FrameOK(f) /\ Plain(f) /\ f.call # "none"
<1> DEFINE f == [Idle EXCEPT !.call = call, !.at = at, !.plugin = p, !.todo = S]
<1>1. S \in SUBSET Nat
  BY HandleFacts
<1>2. PICK x \in Frame : x = Idle
  BY IdleFrame
<1>2a. call \in Calls /\ at \in Points /\ p \in Plugins \cup {NoPlugin}
  BY DEF Calls, Points
<1>3. /\ f \in Frame /\ f.call = call /\ f.at = at /\ f.plugin = p /\ f.todo = S
      /\ f.calls = 0
  <2>1. f = [x EXCEPT !.call = call, !.at = at, !.plugin = p, !.todo = S] /\ x.calls = 0
    BY <1>2, IdleFrame
  <2> HIDE DEF f
  <2> QED  BY <1>1, <1>2a, <2>1 DEF Frame
<1> HIDE DEF f
<1>4. FrameOK(f) /\ Plain(f)
  BY <1>3 DEF FrameOK, PluginCallOK, HostCallOK, Plain
<1> QED  BY <1>3, <1>4 DEF f

LEMMA RestoreStep ==
  ASSUME CountInv, NEW t \in Threads, NEW p \in Plugins, Restore(t, p) PROVE CountInv'
<1>1. SharedOK /\ CountsKept
  BY TypesOf, TargetsSame, CallbacksSame, SharedBoth DEF Restore
<1> DEFINE f == [Idle EXCEPT !.call = "activate", !.at = "begin", !.plugin = p, !.todo = {}]
<1>2. f \in Frame /\ FrameOK(f) /\ Plain(f) /\ f.call # "none"
  BY HostFrame
<1>3. f = [Idle EXCEPT !.call = "activate", !.at = "begin", !.plugin = p]
  BY IdleFrame DEF Frame
<1>4. Push(t, f) /\ Running(t)
  BY <1>3 DEF Restore
<1> HIDE DEF f
<1> QED  BY <1>1, <1>2, <1>4, PlainPush

LEMMA ActivateStep ==
  ASSUME CountInv, NEW t \in Threads, Activate(t) PROVE CountInv'
<1>1. At(t, "activate", "begin")
  BY DEF Activate
<1>2. depth[t] # 0 /\ Plain(Top(t)) /\ Top(t).plugin \in Plugins
  BY <1>1, PlainTop DEF FrameOK
<1>3. PICK p \in Plugins : p = Top(t).plugin
  BY <1>2
<1>4. owner' \in [Plugins -> Owner]
  <2>1. PICK y \in Owner : y = owner[p]
    BY TypesOf
  <2>2. [y EXCEPT !.accepting = TRUE, !.active = TRUE] \in Owner
    BY DEF Owner
  <2>3. owner' = [owner EXCEPT ![p] = [y EXCEPT !.accepting = TRUE, !.active = TRUE]]
    BY <1>3, <2>1, TypesOf DEF Activate
  <2> QED  BY <2>2, <2>3, TypesOf
<1>5. ASSUME NEW c \in Callbacks
      PROVE  /\ callback'[c] \in Callback /\ callback'[c].active = callback[c].active
             /\ callback'[c].state = callback[c].state
             /\ callback'[c].owner = callback[c].owner
             /\ callback'[c].target = callback[c].target
  <2>1. PICK y \in Callback : y = callback[c]
    BY TypesOf
  <2>2. PICK z : z = [y EXCEPT !.enabled = TRUE]
    OBVIOUS
  <2>3. callback'[c] = IF c \in OwnedBy(p) THEN z ELSE y
    BY <1>3, <2>1, <2>2 DEF Activate
  <2>4. z \in Callback
    BY <2>2, Zenon DEF Callback
  <2>5. /\ z.active = y.active /\ z.state = y.state /\ z.owner = y.owner
        /\ z.target = y.target
    BY <2>2 DEF Callback
  <2> QED  BY <2>1, <2>3, <2>4, <2>5
<1>6. callback' \in [Callbacks -> Callback]
  BY <1>5 DEF Activate
<1>7. SharedOK /\ CountsKept
  BY <1>4, <1>5, <1>6, TypesOf, TargetsSame, SharedBoth DEF Activate, CallbacksKept
<1> QED  BY <1>2, <1>7, PlainPop DEF Activate

LEMMA DeactivateStep ==
  ASSUME CountInv, NEW t \in Threads, NEW p \in Plugins, Deactivate(t, p) PROVE CountInv'
<1>1. owner' \in [Plugins -> Owner]
  <2>1. PICK y \in Owner : y = owner[p]
    BY TypesOf
  <2>2. [y EXCEPT !.accepting = FALSE, !.active = FALSE] \in Owner
    BY DEF Owner
  <2>3. owner' = [owner EXCEPT ![p] = [y EXCEPT !.accepting = FALSE, !.active = FALSE]]
    BY <2>1, TypesOf DEF Deactivate
  <2> QED  BY <2>2, <2>3, TypesOf
<1>2. SharedOK /\ CountsKept
  BY <1>1, TypesOf, TargetsSame, CallbacksDisabled, SharedBoth DEF Deactivate
<1> DEFINE S == OwnedBy(p)
           f == [Idle EXCEPT !.call = "deactivate", !.at = "wait", !.plugin = p, !.todo = S]
<1>3. S \in SUBSET Callbacks
  BY DEF OwnedBy
<1>4. Push(t, f) /\ Running(t)
  BY DEF Deactivate
<1> HIDE DEF S
<1>5. f \in Frame /\ FrameOK(f) /\ Plain(f) /\ f.call # "none"
  BY <1>3, HostFrame
<1> HIDE DEF f
<1> QED  BY <1>2, <1>4, <1>5, PlainPush

LEMMA DeactivateDoneStep ==
  ASSUME CountInv, NEW t \in Threads, DeactivateDone(t) PROVE CountInv'
<1>1. depth[t] # 0 /\ Plain(Top(t)) /\ Top(t).plugin \in Plugins
  BY PlainTop DEF DeactivateDone, Waited, FrameOK
<1>2. SharedOK /\ CountsKept
  BY <1>1, TypesOf, TargetsSame, CallbacksSame, SharedBoth DEF DeactivateDone
<1> QED  BY <1>1, <1>2, PlainPop DEF DeactivateDone

\* The frame of a release that has begun.
LEMMA ReleaseFrame ==
  ASSUME NEW f \in Frame, f.call = "release", f.plugin \in Plugins, f.calls = 0,
         f.at \in {"restore", "wait", "drain"}, f.at = "wait" => f.todo \subseteq Callbacks,
         f.ops \subseteq Targets, f.ops \cap f.failed = {},
         f.at # "restore" => f.target \in f.ops, f.at = "restore" => ~f.flag
  PROVE  FrameOK(f) /\ Plain(f) /\ f.call # "none"
BY DEF FrameOK, PluginCallOK, HostCallOK, Plain

\* A release takes the transition of its targets.
LEMMA TargetsTaken ==
  ASSUME CountInv, NEW S,
         target' = [r \in Targets |-> IF r \in S THEN [target[r] EXCEPT !.transition = TRUE]
                                      ELSE target[r]]
  PROVE  TargetsKept
<1>1. ASSUME NEW r \in Targets
      PROVE  /\ target'[r] \in Target /\ target'[r].active = target[r].active
             /\ target'[r].direct = target[r].direct
  <2>1. PICK y \in Target : y = target[r]
    BY TypesOf
  <2>2. target'[r] = IF r \in S THEN [y EXCEPT !.transition = TRUE] ELSE y
    BY <2>1
  <2> QED  BY <2>1, <2>2 DEF Target
<1> QED  BY <1>1 DEF TargetsKept

LEMMA ReleaseStep ==
  ASSUME CountInv, NEW t \in Threads, Release(t) PROVE CountInv'
<1>1. At(t, "release", "begin")
  BY DEF Release
<1>2. PICK g : g = Top(t)
  OBVIOUS
<1>3. /\ depth[t] # 0 /\ Plain(g) /\ FrameOK(g) /\ g.call = "release" /\ g.at = "begin"
      /\ g \in Frame /\ g.plugin \in Plugins /\ g.calls = 0 /\ g.failed = {} /\ ~g.flag
      /\ g.ops = {}
  BY <1>1, <1>2, PlainTop DEF FrameOK, HostCallOK
<1>4. CASE Refuse(t)
  BY <1>2, <1>3, <1>4, RefuseStep
<1>5. CASE ~Refuse(t)
  <2>1. PICK p, ops : p = g.plugin /\ ops = {r \in Live : Concerns(r, p)}
    OBVIOUS
  <2>2. /\ owner' = [owner EXCEPT ![p].accepting = FALSE]
        /\ target' = [r \in Targets |-> IF r \in ops
                        THEN [target[r] EXCEPT !.transition = TRUE] ELSE target[r]]
        /\ callback' = Disabled(UNION {OwnedOn(p, r) : r \in ops})
        /\ SetTop(t, [g EXCEPT !.at = "restore", !.ops = ops])
        /\ UNCHANGED <<quiet, shutdown>>
    BY <1>2, <1>5, <2>1 DEF Release
  <2>3. ops \in SUBSET Targets
    BY <2>1 DEF Live
  <2>4. owner' \in [Plugins -> Owner]
    <3>1. PICK y \in Owner : y = owner[p]
      BY <1>3, <2>1, TypesOf
    <3>2. [y EXCEPT !.accepting = FALSE] \in Owner
      BY DEF Owner
    <3>3. owner' = [owner EXCEPT ![p] = [y EXCEPT !.accepting = FALSE]]
      BY <2>2, <3>1
    <3> QED  BY <3>2, <3>3, TypesOf
  <2>5. SharedOK /\ CountsKept
    BY <2>2, <2>4, TypesOf, TargetsTaken, CallbacksDisabled, SharedBoth
  <2>6. g.todo \in SUBSET Nat /\ g.target \in Targets \cup {None} /\ g.flag = FALSE
    BY <1>3, FrameFields
  <2> DEFINE f == [g EXCEPT !.at = "restore", !.ops = ops]
  <2>7. /\ f \in Frame /\ f.call = "release" /\ f.at = "restore" /\ f.plugin = g.plugin
        /\ f.ops = ops /\ f.failed = {} /\ ~f.flag /\ f.calls = 0
    <3>1. ops \in SUBSET Nat
      BY <2>3, HandleFacts
    <3>8. f \in Frame
      BY <1>3, <3>1, Names, Zenon DEF Frame
    <3>9. /\ f.call = "release" /\ f.at = "restore" /\ f.plugin = g.plugin /\ f.ops = ops
          /\ f.failed = {} /\ ~f.flag /\ f.calls = 0
      BY <1>3, <3>1 DEF Frame
    <3> QED  BY <3>8, <3>9
  <2>8. SetTop(t, f)
    BY <2>2
  <2> HIDE DEF f
  <2>9. FrameOK(f) /\ Plain(f)
    BY <1>3, <2>3, <2>7 DEF FrameOK, PluginCallOK, HostCallOK, Plain
  <2> QED  BY <1>2, <1>3, <2>5, <2>7, <2>8, <2>9, PlainSetTop
<1> QED  BY <1>4, <1>5

\* The innermost frame of a release that has begun.
LEMMA ReleaseTop ==
  ASSUME CountInv, NEW t \in Threads, NEW at \in {"restore", "wait", "drain"},
         At(t, "release", at), NEW g, g = Top(t)
  PROVE  /\ depth[t] # 0 /\ Plain(g) /\ FrameOK(g) /\ g.call = "release" /\ g.at = at
         /\ g \in Frame /\ g.plugin \in Plugins /\ g.calls = 0 /\ g.flag \in BOOLEAN
         /\ g.ops \in SUBSET Targets /\ g.failed \in SUBSET Targets /\ g.ops \cap g.failed = {}
         /\ at \in {"wait", "drain"} => g.target \in g.ops /\ g.target \in Targets
         /\ at = "wait" => g.todo \in SUBSET Callbacks
         /\ g.target \in Targets \cup {None}
         /\ at = "restore" => ~g.flag
<1>1. /\ depth[t] # 0 /\ Plain(g) /\ FrameOK(g) /\ g.call = "release" /\ g.at = at /\ g \in Frame
  BY PlainTop
<1>2. g.flag \in BOOLEAN /\ g.failed \in SUBSET Targets /\ g.target \in Targets \cup {None}
  BY <1>1, FrameFields
<1> QED  BY <1>1, <1>2 DEF FrameOK, HostCallOK

LEMMA ReleaseOpStep ==
  ASSUME CountInv, NEW t \in Threads, ReleaseOp(t) PROVE CountInv'
<1>1. PICK g : g = Top(t)
  OBVIOUS
<1>2. /\ depth[t] # 0 /\ Plain(g) /\ g.call = "release"
      /\ g \in Frame /\ g.plugin \in Plugins /\ g.calls = 0
      /\ g.ops \in SUBSET Targets /\ g.failed \in SUBSET Targets /\ g.ops \cap g.failed = {}
  BY <1>1, ReleaseTop DEF ReleaseOp
<1>3. PICK r, mine : r = Min(g.ops) /\ mine = OwnedOn(g.plugin, r)
  OBVIOUS
<1>4. r \in g.ops /\ r \in Targets
  BY <1>1, <1>2, <1>3, MinMember, HandleFacts DEF ReleaseOp
<1>5. mine \in SUBSET Callbacks
  BY <1>3 DEF OwnedOn, CallbacksOf
<1>6. PICK b \in BOOLEAN : /\ target' \in {Restored(r), target}
                           /\ SetTop(t, [g EXCEPT !.at = "wait", !.target = r, !.todo = mine,
                                                  !.flag = b])
  BY <1>1, <1>3 DEF ReleaseOp
<1>7. SharedOK /\ CountsKept
  BY <1>4, <1>6, TypesOf, TargetsSame, TargetsFlag, CallbacksSame, SharedBoth DEF ReleaseOp, Restored
<1> DEFINE f == [g EXCEPT !.at = "wait", !.target = r, !.todo = mine, !.flag = b]
<1>8. mine \in SUBSET Nat
  BY <1>5, HandleFacts
<1>9. /\ f \in Frame /\ f.call = "release" /\ f.at = "wait" /\ f.plugin = g.plugin
      /\ f.target = r /\ f.todo = mine /\ f.ops = g.ops /\ f.failed = g.failed /\ f.calls = 0
  <2>1. f \in Frame
    BY <1>2, <1>4, <1>8, Names, Zenon DEF Frame
  <2>2. /\ f.call = "release" /\ f.at = "wait" /\ f.plugin = g.plugin /\ f.target = r
        /\ f.todo = mine /\ f.ops = g.ops /\ f.failed = g.failed /\ f.calls = 0
    BY <1>2, <1>4, <1>8 DEF Frame
  <2> QED  BY <2>1, <2>2
<1>10. SetTop(t, f)
  BY <1>6
<1> HIDE DEF f
<1>11. FrameOK(f) /\ Plain(f) /\ f.call # "none"
  BY <1>2, <1>4, <1>5, <1>9, ReleaseFrame
<1> QED  BY <1>1, <1>2, <1>7, <1>9, <1>10, <1>11, PlainSetTop

\* The next target of a release.
LEMMA NextOpStep ==
  ASSUME CountInv, NEW t \in Threads, NEW at \in {"wait", "drain"}, At(t, "release", at),
         NEW S \in {{}, {Top(t).target}},
         SetTop(t, NextOp([Top(t) EXCEPT !.failed = @ \cup S])), SharedOK, CountsKept
  PROVE  CountInv'
<1>1. PICK g : g = Top(t)
  OBVIOUS
<1>2. /\ depth[t] # 0 /\ Plain(g) /\ g.call = "release"
      /\ g \in Frame /\ g.plugin \in Plugins /\ g.calls = 0
      /\ g.ops \in SUBSET Targets /\ g.failed \in SUBSET Targets /\ g.ops \cap g.failed = {}
      /\ g.target \in g.ops /\ g.target \in Targets
  BY <1>1, ReleaseTop
<1>3. PICK ops, failed : ops = g.ops \ {g.target} /\ failed = g.failed \cup S
  OBVIOUS
<1>4. ops \in SUBSET Targets /\ failed \in SUBSET Targets /\ ops \cap failed = {}
  BY <1>1, <1>2, <1>3
<1> DEFINE f == NextOp([g EXCEPT !.failed = g.failed \cup S])
<1>5. /\ f \in Frame /\ f.call = "release" /\ f.at = "restore" /\ f.plugin = g.plugin
      /\ f.ops = ops /\ f.failed = failed /\ ~f.flag /\ f.calls = 0
  <2>1. ops \in SUBSET Nat
    BY <1>4, HandleFacts
  <2>2. f = [g EXCEPT !.failed = failed, !.at = "restore", !.ops = ops, !.flag = FALSE]
    BY <1>2, <1>3 DEF NextOp, Frame
  <2> HIDE DEF f
  <2>8. f \in Frame
    BY <1>2, <1>4, <2>1, <2>2, Names, Zenon DEF Frame
  <2>9. /\ f.call = "release" /\ f.at = "restore" /\ f.plugin = g.plugin /\ f.ops = ops
        /\ f.failed = failed /\ ~f.flag /\ f.calls = 0
    BY <1>2, <1>4, <2>1, <2>2 DEF Frame
  <2> QED  BY <2>8, <2>9
<1>6. SetTop(t, f)
  BY <1>1
<1> HIDE DEF f
<1>7. FrameOK(f) /\ Plain(f) /\ f.call # "none"
  BY <1>2, <1>4, <1>5, ReleaseFrame
<1> QED  BY <1>1, <1>2, <1>5, <1>6, <1>7, PlainSetTop


LEMMA ReleaseRetryStep ==
  ASSUME CountInv, NEW t \in Threads, ReleaseRetry(t) PROVE CountInv'
<1>0. At(t, "release", "wait")
  BY DEF ReleaseRetry, Waited
<1>1. PICK g : g = Top(t)
  OBVIOUS
<1>2. /\ depth[t] # 0 /\ Plain(g) /\ g.call = "release" /\ g.at = "wait"
      /\ g \in Frame /\ g.plugin \in Plugins /\ g.calls = 0
      /\ g.ops \in SUBSET Targets /\ g.failed \in SUBSET Targets /\ g.ops \cap g.failed = {}
      /\ g.target \in g.ops /\ g.target \in Targets
  BY <1>0, <1>1, ReleaseTop
<1>3. target' \in {Restored(g.target), target} /\ UNCHANGED <<owner, quiet, callback, shutdown>>
  BY <1>1 DEF ReleaseRetry
<1>4. SharedOK /\ CountsKept
  BY <1>2, <1>3, TypesOf, TargetsSame, TargetsFlag, CallbacksSame, SharedBoth DEF Restored
<1>5. \/ SetTop(t, [g EXCEPT !.at = "drain"])
      \/ SetTop(t, NextOp(g))
      \/ SetTop(t, NextOp([g EXCEPT !.failed = g.failed \cup {g.target}]))
  BY <1>1 DEF ReleaseRetry
<1>6. CASE SetTop(t, [g EXCEPT !.at = "drain"])
  <2> DEFINE f == [g EXCEPT !.at = "drain"]
  <2>1. /\ f \in Frame /\ f.call = "release" /\ f.at = "drain" /\ f.plugin = g.plugin
        /\ f.target = g.target /\ f.ops = g.ops /\ f.failed = g.failed /\ f.calls = 0
    BY <1>2 DEF Frame, Points
  <2>2. SetTop(t, f)
    BY <1>6
  <2> HIDE DEF f
  <2>3. FrameOK(f) /\ Plain(f) /\ f.call # "none"
    BY <1>2, <2>1, ReleaseFrame
  <2> QED  BY <1>1, <1>2, <1>4, <2>1, <2>2, <2>3, PlainSetTop
<1>7. CASE SetTop(t, NextOp(g))
  <2>1. g = [g EXCEPT !.failed = g.failed \cup {}]
    BY <1>2 DEF Frame
  <2> QED  BY <1>0, <1>1, <1>4, <1>7, <2>1, NextOpStep
<1>8. CASE SetTop(t, NextOp([g EXCEPT !.failed = g.failed \cup {g.target}]))
  BY <1>0, <1>1, <1>4, <1>8, NextOpStep
<1> QED  BY <1>5, <1>6, <1>7, <1>8

LEMMA ReleaseDrainStep ==
  ASSUME CountInv, NEW t \in Threads, ReleaseDrain(t) PROVE CountInv'
<1>0. At(t, "release", "drain")
  BY DEF ReleaseDrain
<1>1. PICK g : g = Top(t)
  OBVIOUS
<1>2. g \in Frame
  BY <1>0, <1>1, ReleaseTop
<1>3. g = [g EXCEPT !.failed = g.failed \cup {}]
  BY <1>2 DEF Frame
<1>4. SharedOK /\ CountsKept
  BY SharedSame DEF ReleaseDrain
<1> QED  BY <1>0, <1>1, <1>3, <1>4, NextOpStep DEF ReleaseDrain

LEMMA ReleaseDoneStep ==
  ASSUME CountInv, NEW t \in Threads, ReleaseDone(t) PROVE CountInv'
<1>0. At(t, "release", "restore")
  BY DEF ReleaseDone
<1>1. PICK g : g = Top(t)
  OBVIOUS
<1>2. depth[t] # 0 /\ Plain(g) /\ g.plugin \in Plugins
  BY <1>0, <1>1, ReleaseTop
<1>3. PICK p, held, done : p = g.plugin /\ held = HeldBy(g) /\ done = held \ g.failed
  OBVIOUS
<1> DEFINE tg == [r \in Targets |->
                    IF r \notin held THEN target[r]
                    ELSE [target[r] EXCEPT !.transition = FALSE,
                                           !.leases = IF r \in done THEN @ \ {p} ELSE @,
                                           !.bindings = IF r \in done THEN @ \ {p} ELSE @]]
<1>4. /\ callback' = Erased(UNION {OwnedOn(p, r) : r \in done})
      /\ target' = Pruned(tg, Used(callback'))
      /\ UNCHANGED <<owner, quiet>>
         \/ /\ owner' = [owner EXCEPT ![p].known = FALSE, ![p].active = FALSE]
            /\ quiet' = quiet \cup {p}
      /\ CollectLast(t) /\ UNCHANGED shutdown
  BY <1>1, <1>3 DEF ReleaseDone
<1>5. ASSUME NEW r \in Targets
      PROVE  /\ tg[r] \in Target /\ tg[r].active = target[r].active
             /\ tg[r].direct = target[r].direct
  <2>1. PICK y \in Target : y = target[r]
    BY TypesOf
  <2>2. PICK L, B : /\ L = IF r \in done THEN y.leases \ {p} ELSE y.leases
                    /\ B = IF r \in done THEN y.bindings \ {p} ELSE y.bindings
    OBVIOUS
  <2>3. L \in SUBSET Plugins /\ B \in SUBSET Plugins
    BY <2>2, TargetFields
  <2>4. PICK z : z = [y EXCEPT !.transition = FALSE, !.leases = L, !.bindings = B]
    OBVIOUS
  <2>5. tg[r] = IF r \notin held THEN y ELSE z
    BY <2>1, <2>2, <2>4
  <2> HIDE DEF tg
  <2>6. z \in Target
    BY <2>3, <2>4, Zenon DEF Target
  <2>7. z.active = y.active /\ z.direct = y.direct
    BY <2>4 DEF Target
  <2> QED  BY <2>1, <2>5, <2>6, <2>7
<1>6. tg \in [Targets -> Target]
  BY <1>5
<1>7. TargetsKept
  <2> HIDE DEF tg
  <2> QED  BY <1>4, <1>5, <1>6, PrunedFacts DEF TargetsKept
<1>8. owner' \in [Plugins -> Owner] /\ quiet' \in SUBSET Plugins
  <2>1. PICK y \in Owner : y = owner[p]
    BY <1>2, <1>3, TypesOf
  <2>2. [y EXCEPT !.known = FALSE, !.active = FALSE] \in Owner
    BY DEF Owner
  <2>3. CASE UNCHANGED <<owner, quiet>>
    BY <2>3, TypesOf
  <2>4. CASE /\ owner' = [owner EXCEPT ![p].known = FALSE, ![p].active = FALSE]
             /\ quiet' = quiet \cup {p}
    <3>1. owner' = [owner EXCEPT ![p] = [y EXCEPT !.known = FALSE, !.active = FALSE]]
      BY <1>2, <1>3, <2>1, <2>4, TypesOf
    <3> QED  BY <1>2, <1>3, <2>2, <2>4, <3>1, TypesOf
  <2> QED  BY <1>4, <2>3, <2>4
<1>9. SharedOK /\ CountsKept
  BY <1>4, <1>7, <1>8, TypesOf, CallbacksErased, SharedBoth
<1> QED  BY <1>1, <1>2, <1>4, <1>9, CollectLastStep

-----------------------------------------------------------------------------
(* Shutdown.                                                               *)

\* The frame of a shutdown.
LEMMA ShutdownFrame ==
  ASSUME NEW f \in Frame, f.call = "shutdown", f.calls = 0,
         f.at \in {"restore", "wait", "destroy"}, f.todo \subseteq Callbacks,
         f.ops \subseteq Targets
  PROVE  FrameOK(f) /\ Plain(f) /\ f.call # "none"
BY DEF FrameOK, PluginCallOK, HostCallOK, Plain

LEMMA StartShutdownStep ==
  ASSUME CountInv, NEW t \in Threads, StartShutdown(t) PROVE CountInv'
<1>1. PICK live, all, todo :
        /\ live = {c \in Callbacks : callback[c].state = "live"}
        /\ all = {r \in Targets : target[r].state \in {"live", "retired"}}
        /\ todo = IF shutdown = "no" THEN live ELSE {}
  OBVIOUS
<1>2. /\ owner' = [p \in Plugins |-> [known |-> FALSE, accepting |-> FALSE, active |-> FALSE]]
      /\ callback' = [c \in Callbacks |-> IF c \in live
                        THEN [callback[c] EXCEPT !.state = "erased", !.enabled = FALSE]
                        ELSE callback[c]]
      /\ target' = [r \in Targets |-> IF shutdown = "no" /\ r \in Live
                      THEN [target[r] EXCEPT !.leases = {}, !.transition = TRUE]
                      ELSE target[r]]
      /\ shutdown' = "begun" /\ UNCHANGED quiet /\ Running(t)
      /\ Push(t, [Idle EXCEPT !.call = "shutdown", !.at = "restore", !.ops = all, !.todo = todo])
  BY <1>1 DEF StartShutdown
<1>3. owner' \in [Plugins -> Owner]
  BY <1>2 DEF Owner
<1>4. ASSUME NEW c \in Callbacks
      PROVE  /\ callback'[c] \in Callback /\ callback'[c].active = callback[c].active
             /\ callback'[c].state \in {"free", "erased"}
             /\ callback'[c].state = "free" => callback[c].state = "free"
  <2>1. PICK y \in Callback : y = callback[c]
    BY TypesOf
  <2>2. PICK z : z = [y EXCEPT !.state = "erased", !.enabled = FALSE]
    OBVIOUS
  <2>3. callback'[c] = IF y.state = "live" THEN z ELSE y
    BY <1>1, <1>2, <2>1, <2>2
  <2>4. z \in Callback
    BY <2>2, Zenon DEF Callback
  <2>5. z.active = y.active /\ z.state = "erased"
    BY <2>2 DEF Callback
  <2> QED  BY <2>1, <2>3, <2>4, <2>5, CallbackFields
<1>5. CallbacksKept
  <2>1. callback' \in [Callbacks -> Callback]
    BY <1>2, <1>4
  <2> QED  BY <1>4, <2>1 DEF CallbacksKept
<1>6. TargetsKept
  <2>1. ASSUME NEW r \in Targets
        PROVE  /\ target'[r] \in Target /\ target'[r].active = target[r].active
               /\ target'[r].direct = target[r].direct
    <3>1. PICK y \in Target : y = target[r]
      BY TypesOf
    <3>2. PICK z : z = [y EXCEPT !.leases = {}, !.transition = TRUE]
      OBVIOUS
    <3>3. target'[r] = IF shutdown = "no" /\ r \in Live THEN z ELSE y
      BY <1>2, <3>1, <3>2
    <3>4. z \in Target
      <4>1. {} \in SUBSET Plugins
        OBVIOUS
      <4> QED  BY <3>2, <4>1, Zenon DEF Target
    <3>5. z.active = y.active /\ z.direct = y.direct
      BY <3>2 DEF Target
    <3> QED  BY <3>1, <3>3, <3>4, <3>5
  <2> QED  BY <1>2, <2>1 DEF TargetsKept
<1>7. SharedOK /\ CountsKept
  BY <1>2, <1>3, <1>5, <1>6, TypesOf, SharedBoth
<1>8. all \in SUBSET Targets /\ todo \in SUBSET Callbacks
  BY <1>1
<1> DEFINE f == [Idle EXCEPT !.call = "shutdown", !.at = "restore", !.ops = all, !.todo = todo]
<1>9. /\ f \in Frame /\ f.call = "shutdown" /\ f.at = "restore" /\ f.ops = all
      /\ f.todo = todo /\ f.calls = 0
  <2>1. all \in SUBSET Nat /\ todo \in SUBSET Nat
    BY <1>8, HandleFacts
  <2>2. PICK x \in Frame : x = Idle
    BY IdleFrame
  <2>3. f = [x EXCEPT !.call = "shutdown", !.at = "restore", !.ops = all, !.todo = todo]
        /\ x.calls = 0
    BY <2>2, IdleFrame
  <2> HIDE DEF f
  <2>8. f \in Frame
    BY <2>1, <2>3, Names, Zenon DEF Frame
  <2>9. /\ f.call = "shutdown" /\ f.at = "restore" /\ f.ops = all /\ f.todo = todo
        /\ f.calls = 0
    BY <2>1, <2>3 DEF Frame
  <2> QED  BY <2>8, <2>9
<1>10. Push(t, f)
  BY <1>2
<1> HIDE DEF f
<1> QED  BY <1>2, <1>7, <1>8, <1>9, <1>10, ShutdownFrame, PlainPush

\* The innermost frame of a shutdown.
LEMMA ShutdownTop ==
  ASSUME CountInv, NEW t \in Threads, NEW at \in {"restore", "wait", "destroy"},
         At(t, "shutdown", at), NEW g, g = Top(t)
  PROVE  /\ depth[t] # 0 /\ Plain(g) /\ FrameOK(g) /\ g.call = "shutdown" /\ g.at = at
         /\ g \in Frame /\ g.calls = 0 /\ g.ops \in SUBSET Targets
         /\ g.failed \in SUBSET Targets /\ g.todo \in SUBSET Callbacks
<1>1. /\ depth[t] # 0 /\ Plain(g) /\ FrameOK(g) /\ g.call = "shutdown" /\ g.at = at /\ g \in Frame
  BY PlainTop
<1>2. g.failed \in SUBSET Targets
  BY <1>1, FrameFields
<1> QED  BY <1>1, <1>2 DEF FrameOK, HostCallOK

\* A shutdown goes on.
LEMMA ShutdownGoesOn ==
  ASSUME CountInv, NEW t \in Threads, NEW from \in {"restore", "wait", "destroy"},
         At(t, "shutdown", from), NEW at \in {"restore", "wait", "destroy"},
         NEW ops \in SUBSET Targets, NEW failed \in SUBSET Targets,
         SetTop(t, [Top(t) EXCEPT !.at = at, !.ops = ops, !.failed = failed]),
         SharedOK, CountsKept
  PROVE  CountInv'
<1>1. PICK g : g = Top(t)
  OBVIOUS
<1>2. /\ depth[t] # 0 /\ Plain(g) /\ g.call = "shutdown" /\ g \in Frame /\ g.calls = 0
      /\ g.todo \in SUBSET Callbacks
  BY <1>1, ShutdownTop
<1> DEFINE f == [g EXCEPT !.at = at, !.ops = ops, !.failed = failed]
<1>3. /\ f \in Frame /\ f.call = "shutdown" /\ f.at = at /\ f.ops = ops
      /\ f.todo = g.todo /\ f.calls = 0
  <2>1. ops \in SUBSET Nat /\ at \in Points
    BY HandleFacts DEF Points
  <2> QED  BY <1>2, <2>1 DEF Frame
<1>4. SetTop(t, f)
  BY <1>1
<1> HIDE DEF f
<1> QED  BY <1>1, <1>2, <1>3, <1>4, ShutdownFrame, PlainSetTop

LEMMA ShutdownRestoreStep ==
  ASSUME CountInv, NEW t \in Threads, ShutdownRestore(t) PROVE CountInv'
<1>0. At(t, "shutdown", "restore") /\ UNCHANGED <<owner, quiet, callback, shutdown>>
  BY DEF ShutdownRestore
<1>1. PICK g : g = Top(t)
  OBVIOUS
<1>2. g \in Frame /\ g.ops \in SUBSET Targets /\ g.failed \in SUBSET Targets /\ g.at = "restore"
  BY <1>0, <1>1, ShutdownTop
<1>3. CASE g.ops = {}
  <2>1. UNCHANGED target /\ SetTop(t, [g EXCEPT !.at = "wait"])
    BY <1>1, <1>3 DEF ShutdownRestore, Goto
  <2>2. [g EXCEPT !.at = "wait"] = [g EXCEPT !.at = "wait", !.ops = g.ops, !.failed = g.failed]
    BY <1>2 DEF Frame
  <2>3. SharedOK /\ CountsKept
    BY <1>0, <2>1, SharedSame
  <2>4. PICK ops, failed : ops = g.ops /\ failed = g.failed
    OBVIOUS
  <2>5. SetTop(t, [Top(t) EXCEPT !.at = "wait", !.ops = ops, !.failed = failed])
    BY <1>1, <2>1, <2>2, <2>4
  <2> QED  BY <1>0, <1>2, <2>3, <2>4, <2>5, ShutdownGoesOn
<1>4. CASE g.ops # {}
  <2>1. PICK r : r = Min(g.ops)
    OBVIOUS
  <2>2. r \in Targets
    BY <1>2, <1>4, <2>1, MinMember, HandleFacts
  <2>3. PICK S \in {{}, {r}} :
          /\ target' \in {Restored(r), target}
          /\ SetTop(t, [g EXCEPT !.ops = g.ops \ {r}, !.failed = g.failed \cup S])
    <3>1. \/ /\ target' = Restored(r)
             /\ SetTop(t, [g EXCEPT !.ops = g.ops \ {r}])
          \/ /\ UNCHANGED target
             /\ SetTop(t, [g EXCEPT !.ops = g.ops \ {r}, !.failed = g.failed \cup {r}])
      BY <1>1, <1>4, <2>1 DEF ShutdownRestore
    <3>2. [g EXCEPT !.ops = g.ops \ {r}] = [g EXCEPT !.ops = g.ops \ {r}, !.failed = g.failed \cup {}]
      BY <1>2 DEF Frame
    <3> QED  BY <3>1, <3>2
  <2>4. PICK ops, failed : ops = g.ops \ {r} /\ failed = g.failed \cup S
    OBVIOUS
  <2>5. [g EXCEPT !.ops = ops, !.failed = failed]
          = [g EXCEPT !.at = "restore", !.ops = ops, !.failed = failed]
    BY <1>2 DEF Frame
  <2>6. SharedOK /\ CountsKept
    BY <1>0, <2>2, <2>3, TypesOf, TargetsSame, TargetsFlag, CallbacksSame, SharedBoth DEF Restored
  <2>7. ops \in SUBSET Targets /\ failed \in SUBSET Targets
    BY <1>2, <2>2, <2>3, <2>4
  <2> QED  BY <1>0, <1>1, <2>3, <2>4, <2>5, <2>6, <2>7, ShutdownGoesOn
<1> QED  BY <1>3, <1>4

LEMMA ShutdownWaitedStep ==
  ASSUME CountInv, NEW t \in Threads, ShutdownWaited(t) PROVE CountInv'
<1>0. At(t, "shutdown", "wait") /\ UNCHANGED <<owner, quiet, target, callback, shutdown>>
  BY DEF ShutdownWaited, Waited
<1>1. PICK g : g = Top(t)
  OBVIOUS
<1>2. g \in Frame /\ g.failed \in SUBSET Targets
  BY <1>0, <1>1, ShutdownTop
<1>3. PICK ops, failed :
        ops = {r \in Targets : target[r].state \in {"live", "retired"}} \ g.failed
        /\ failed = g.failed
  OBVIOUS
<1>4. [g EXCEPT !.at = "destroy", !.ops = ops]
        = [g EXCEPT !.at = "destroy", !.ops = ops, !.failed = failed]
  BY <1>2, <1>3 DEF Frame
<1>5. SetTop(t, [Top(t) EXCEPT !.at = "destroy", !.ops = ops, !.failed = failed])
  BY <1>1, <1>3, <1>4 DEF ShutdownWaited
<1>6. SharedOK /\ CountsKept
  BY <1>0, SharedSame
<1>7. ops \in SUBSET Targets /\ failed \in SUBSET Targets
  BY <1>2, <1>3
<1> QED  BY <1>0, <1>5, <1>6, <1>7, ShutdownGoesOn

LEMMA ShutdownDestroyStep ==
  ASSUME CountInv, NEW t \in Threads, ShutdownDestroy(t) PROVE CountInv'
<1>0. At(t, "shutdown", "destroy") /\ UNCHANGED <<owner, quiet, callback, shutdown>>
  BY DEF ShutdownDestroy
<1>1. PICK g : g = Top(t)
  OBVIOUS
<1>2. /\ g \in Frame /\ g.ops \in SUBSET Targets /\ g.failed \in SUBSET Targets
      /\ g.at = "destroy" /\ g.ops # {}
  BY <1>0, <1>1, ShutdownTop DEF ShutdownDestroy
<1>3. PICK r : r = Min(g.ops)
  OBVIOUS
<1>4. r \in Targets
  BY <1>2, <1>3, MinMember, HandleFacts
<1>5. PICK gone, S :
        /\ gone \in {Destroyed(r), target} /\ target' = gone
        /\ S = IF gone[r].storage THEN g.failed \cup {r} ELSE g.failed
        /\ SetTop(t, [g EXCEPT !.ops = g.ops \ {r}, !.failed = S])
  BY <1>1, <1>3 DEF ShutdownDestroy
<1>6. PICK ops : ops = g.ops \ {r}
  OBVIOUS
<1>7. [g EXCEPT !.ops = ops, !.failed = S]
        = [g EXCEPT !.at = "destroy", !.ops = ops, !.failed = S]
  BY <1>2 DEF Frame
<1>8. SetTop(t, [Top(t) EXCEPT !.at = "destroy", !.ops = ops, !.failed = S])
  BY <1>1, <1>5, <1>6, <1>7
<1>9. TargetsKept
  BY <1>4, <1>5, TypesOf, TargetsSame, DestroyedFacts DEF TargetsKept
<1>10. SharedOK /\ CountsKept
  BY <1>0, <1>9, TypesOf, CallbacksSame, SharedBoth
<1>11. ops \in SUBSET Targets /\ S \in SUBSET Targets
  BY <1>2, <1>4, <1>5, <1>6
<1> QED  BY <1>0, <1>8, <1>10, <1>11, ShutdownGoesOn

LEMMA ShutdownDoneStep ==
  ASSUME CountInv, NEW t \in Threads, ShutdownDone(t) PROVE CountInv'
<1>0. At(t, "shutdown", "destroy")
  BY DEF ShutdownDone
<1>1. depth[t] # 0 /\ Plain(Top(t))
  BY <1>0, ShutdownTop
<1>2. TargetsKept
  <2>1. CASE UNCHANGED target
    BY <2>1, TargetsSame
  <2>2. CASE target' = [r \in Targets |-> IF target[r].state \in {"live", "retired"}
                          THEN [target[r] EXCEPT !.state = "gone"] ELSE target[r]]
    <3>1. ASSUME NEW r \in Targets
          PROVE  /\ target'[r] \in Target /\ target'[r].active = target[r].active
                 /\ target'[r].direct = target[r].direct
      <4>1. PICK y \in Target : y = target[r]
        BY TypesOf
      <4>2. target'[r] = IF y.state \in {"live", "retired"}
                         THEN [y EXCEPT !.state = "gone"] ELSE y
        BY <2>2, <4>1
      <4> QED  BY <4>1, <4>2 DEF Target
    <3> QED  BY <2>2, <3>1 DEF TargetsKept
  <2> QED  BY <2>1, <2>2 DEF ShutdownDone
<1>3. quiet' \in SUBSET Plugins /\ shutdown' \in {"no", "begun", "complete"}
  BY TypesOf DEF ShutdownDone
<1>4. SharedOK /\ CountsKept
  BY <1>2, <1>3, TypesOf, CallbacksSame, SharedBoth DEF ShutdownDone
<1> QED  BY <1>1, <1>4, PlainPop DEF ShutdownDone

-----------------------------------------------------------------------------
(* Dispatches and direct calls.                                            *)

\* The innermost frame changes to f, and the counts with it.
LEMMA CountedSetTop ==
  ASSUME CountInv, NEW t \in Threads, depth[t] # 0, NEW f \in Frame, SetTop(t, f),
         FrameOK(f), f.call # "none", SharedOK, Counts(Top(t), f),
         f.call = "dispatch" => \A c \in f.ops : callback[c].state # "free"
  PROVE  CountInv'
<1>1. TypeOK /\ StackOK /\ ActiveBalanced
  BY DEF CountInv
<1>2. /\ Changed(t, depth[t], f) /\ depth' = depth /\ depth[t] \in Depths
      /\ Top(t) = frame[t][depth[t]]
  BY <1>1, SetTopChanges, TopFrame
<1>3. StackOK'
  BY <1>1, SetTopStack
<1>4. ActiveBalanced'
  BY <1>1, <1>2, BalancedStep
<1>5. TypeOK'
  BY <1>1, <1>2 DEF TypeOK, SharedOK, Changed
<1>6. SnapshotOK'
  BY <1>2, SnapshotKept DEF FrameOK, DispatchOK
<1> QED  BY <1>3, <1>4, <1>5, <1>6 DEF CountInv, SharedOK

LEMMA CountedPush ==
  ASSUME CountInv, NEW t \in Threads, NEW f \in Frame, Push(t, f), Running(t),
         FrameOK(f), f.call # "none", SharedOK, Counts(Idle, f),
         f.call = "dispatch" => f.ops = {}
  PROVE  CountInv'
<1>1. TypeOK /\ StackOK /\ ActiveBalanced
  BY DEF CountInv
<1>2. /\ Changed(t, depth[t] + 1, f) /\ depth[t] + 1 \in Depths
      /\ depth' \in [Threads -> 0..MaxDepth]
  BY <1>1, PushChanges
<1>3. StackOK'
  BY <1>1, PushStack
<1>4. frame[t][depth[t] + 1] = Idle
  <2>1. depth[t] \in Nat
    BY <1>1, HookAssumption DEF TypeOK, HookAssumption
  <2>2. ~(depth[t] + 1 <= depth[t])
    BY <2>1
  <2> QED  BY <1>1, <1>2, <2>2 DEF StackOK, FrameOK
<1>5. ActiveBalanced'
  BY <1>1, <1>2, <1>4, BalancedStep
<1>6. TypeOK'
  BY <1>1, <1>2 DEF TypeOK, SharedOK, Changed
<1>7. SnapshotOK'
  BY <1>2, SnapshotKept
<1> QED  BY <1>3, <1>5, <1>6, <1>7 DEF CountInv, SharedOK

LEMMA CountedPop ==
  ASSUME CountInv, NEW t \in Threads, depth[t] # 0, Pop(t), SharedOK, Counts(Top(t), Idle)
  PROVE  CountInv'
<1>1. TypeOK /\ StackOK /\ ActiveBalanced
  BY DEF CountInv
<1>2. /\ Changed(t, depth[t], Idle) /\ depth' \in [Threads -> 0..MaxDepth]
      /\ depth[t] \in Depths /\ Top(t) = frame[t][depth[t]]
  BY <1>1, PopChanges, TopFrame
<1>3. StackOK'
  BY <1>1, PopStack
<1>4. ActiveBalanced'
  BY <1>1, <1>2, BalancedStep
<1>5. TypeOK'
  BY <1>1, <1>2 DEF TypeOK, SharedOK, Changed
<1>6. SnapshotOK'
  BY <1>2, IdleFrame, SnapshotKept
<1> QED  BY <1>3, <1>4, <1>5, <1>6 DEF CountInv, SharedOK

\* The innermost frame of a dispatch.
LEMMA DispatchTop ==
  ASSUME CountInv, NEW t \in Threads, NEW at, At(t, "dispatch", at), NEW g, g = Top(t)
  PROVE  /\ depth[t] # 0 /\ g \in Frame /\ DispatchOK(g) /\ g.call = "dispatch" /\ g.at = at
         /\ g.target \in Targets /\ g.ops \subseteq Callbacks /\ g.todo \subseteq g.ops
         /\ g.post \in BOOLEAN /\ g.recalled \in BOOLEAN /\ g.superseded \in BOOLEAN
         /\ g.calls \in 0..2 /\ g.ops \subseteq Nat
         /\ \A c \in g.ops : callback[c].state # "free"
         /\ depth[t] \in Depths /\ g = frame[t][depth[t]]
<1>1. depth[t] # 0 /\ g \in Frame /\ FrameOK(g) /\ g.call = "dispatch" /\ g.at = at
  BY TopOK DEF At
<1>2. depth[t] \in Depths /\ g = frame[t][depth[t]]
  BY <1>1, TypesOf, TopFrame
<1>3. \A c \in g.ops : callback[c].state # "free"
  BY <1>1, <1>2 DEF CountInv, SnapshotOK
<1>4. DispatchOK(g)
  BY <1>1 DEF FrameOK
<1> QED  BY <1>1, <1>2, <1>3, <1>4, FrameFields DEF DispatchOK

\* A frame of a dispatch in order.
LEMMA DispatchFrame ==
  ASSUME NEW f \in Frame, f.call = "dispatch", DispatchOK(f)
  PROVE  FrameOK(f) /\ f.call # "none"
BY DEF FrameOK, DispatchOK, PluginCallOK, HostCallOK

\* A dispatch that is counted as before.
LEMMA SameCounts ==
  ASSUME CountInv, CountsKept, NEW g, NEW f, g.call = "dispatch", f.call = "dispatch",
         f.target = g.target, f.callback = g.callback,
         g.at \in {"entered", "bound"} <=> f.at \in {"entered", "bound"}
  PROVE  Counts(g, f)
<1>1. /\ \A r \in Targets : On(f, r) = On(g, r) /\ On(g, r) \in {0, 1}
                            /\ Dir(f, r) = 0 /\ Dir(g, r) = 0
      /\ \A c \in Callbacks : Held(f, c) = Held(g, c) /\ Held(g, c) \in {0, 1}
  BY DEF On, Dir, Held, OnTargetStack, Holds, InDispatch
<1>2. /\ \A r \in Targets : target[r].active \in Nat /\ target[r].direct \in Nat
      /\ \A c \in Callbacks : callback[c].active \in Nat
  BY TypesOf, TargetFields, CallbackFields
<1> QED  BY <1>1, <1>2 DEF Counts, CountsKept

\* A dispatch goes on and nothing else changes.
LEMMA DispatchGoesOn ==
  ASSUME CountInv, NEW t \in Threads, NEW at, At(t, "dispatch", at), NEW f \in Frame,
         SetTop(t, f), DispatchOK(f), f.call = "dispatch",
         f.target = Top(t).target, f.callback = Top(t).callback,
         at \in {"entered", "bound"} <=> f.at \in {"entered", "bound"},
         \A c \in f.ops : callback[c].state # "free",
         UNCHANGED <<owner, quiet, target, callback, shutdown>>
  PROVE  CountInv'
<1>1. PICK g : g = Top(t)
  OBVIOUS
<1>2. depth[t] # 0 /\ g.call = "dispatch" /\ g.at = at
  BY <1>1 DEF At
<1>3. FrameOK(f) /\ f.call # "none"
  BY DispatchFrame
<1>4. SharedOK /\ CountsKept
  BY SharedSame
<1>5. Counts(g, f)
  BY <1>1, <1>2, <1>4, SameCounts
<1> QED  BY <1>1, <1>2, <1>3, <1>4, <1>5, CountedSetTop

LEMMA EntryFrame ==
  ASSUME NEW r \in Targets
  PROVE  /\ Entry(r) \in Frame /\ DispatchOK(Entry(r)) /\ Entry(r).call = "dispatch"
         /\ Entry(r).at = "entered" /\ Entry(r).target = r /\ Entry(r).callback = None
         /\ Entry(r).ops = {}
<1>1. PICK x \in Frame : x = Idle
  BY IdleFrame
<1> DEFINE f == Entry(r)
<1>2. f = [x EXCEPT !.call = "dispatch", !.at = "entered", !.target = r]
  BY <1>1 DEF Entry
<1>3. /\ x.callback = None /\ x.ops = {} /\ x.todo = {} /\ x.calls = 0 /\ ~x.recalled
  BY <1>1, IdleFrame
<1> HIDE DEF f
<1>4. /\ f \in Frame /\ f.call = "dispatch" /\ f.at = "entered" /\ f.target = r
      /\ f.callback = None /\ f.ops = {} /\ f.todo = {} /\ f.calls = 0 /\ ~f.recalled
  <2>1. f \in Frame
    BY <1>2, <1>3, Names, Zenon DEF Frame
  <2>2. /\ f.call = "dispatch" /\ f.at = "entered" /\ f.target = r /\ f.callback = None
        /\ f.ops = {} /\ f.todo = {} /\ f.calls = 0 /\ ~f.recalled
    BY <1>2, <1>3 DEF Frame
  <2> QED  BY <2>1, <2>2
<1>5. DispatchOK(f)
  BY <1>4 DEF DispatchOK
<1> QED  BY <1>4, <1>5 DEF f

LEMMA EnterStep ==
  ASSUME CountInv, NEW t \in Threads, NEW r \in Targets, Enter(t, r) PROVE CountInv'
<1>1. PICK f \in Frame : f = Entry(r)
  BY EntryFrame
<1>2. /\ DispatchOK(f) /\ f.call = "dispatch" /\ f.at = "entered" /\ f.target = r
      /\ f.callback = None /\ f.ops = {}
  BY <1>1, EntryFrame
<1>3. FrameOK(f) /\ f.call # "none"
  BY <1>2, DispatchFrame
<1>4. SharedOK /\ CountsKept
  BY SharedSame DEF Enter
<1>5. /\ \A q \in Targets : On(f, q) = 0 /\ On(Idle, q) = 0 /\ Dir(f, q) = 0 /\ Dir(Idle, q) = 0
      /\ \A c \in Callbacks : Held(f, c) = 0 /\ Held(Idle, c) = 0
  BY <1>2, IdleFrame, HandleFacts DEF On, Dir, Held, OnTargetStack, Holds, InDispatch
<1>6. /\ \A q \in Targets : target[q].active \in Nat /\ target[q].direct \in Nat
      /\ \A c \in Callbacks : callback[c].active \in Nat
  BY TypesOf, TargetFields, CallbackFields
<1>7. Counts(Idle, f)
  BY <1>4, <1>5, <1>6 DEF Counts, CountsKept
<1>8. Push(t, f) /\ Running(t)
  BY <1>1 DEF Enter
<1> QED  BY <1>2, <1>3, <1>4, <1>7, <1>8, CountedPush

LEMMA BindStep ==
  ASSUME CountInv, NEW t \in Threads, Bind(t) PROVE CountInv'
<1>0. At(t, "dispatch", "entered") /\ UNCHANGED <<owner, quiet, target, callback, shutdown>>
  BY DEF Bind
<1>1. PICK g : g = Top(t)
  OBVIOUS
<1>2. /\ depth[t] # 0 /\ g \in Frame /\ DispatchOK(g) /\ g.call = "dispatch" /\ g.at = "entered"
      /\ \A c \in g.ops : callback[c].state # "free"
  BY <1>0, <1>1, DispatchTop
<1>3. CASE Pop(t)
  <2>1. SharedOK /\ CountsKept
    BY <1>0, SharedSame
  <2>2. g.callback = None
    BY <1>2 DEF DispatchOK
  <2>3. /\ \A q \in Targets : On(g, q) = 0 /\ On(Idle, q) = 0 /\ Dir(g, q) = 0 /\ Dir(Idle, q) = 0
        /\ \A c \in Callbacks : Held(g, c) = 0 /\ Held(Idle, c) = 0
    BY <1>2, <2>2, IdleFrame, HandleFacts DEF On, Dir, Held, OnTargetStack, Holds, InDispatch
  <2>4. /\ \A q \in Targets : target[q].active \in Nat /\ target[q].direct \in Nat
        /\ \A c \in Callbacks : callback[c].active \in Nat
    BY TypesOf, TargetFields, CallbackFields
  <2>5. Counts(g, Idle)
    BY <2>1, <2>3, <2>4 DEF Counts, CountsKept
  <2> QED  BY <1>1, <1>2, <1>3, <2>1, <2>5, CountedPop
<1>4. CASE Goto(t, "bound")
  <2> DEFINE f == [g EXCEPT !.at = "bound"]
  <2>1. /\ f \in Frame /\ f.call = "dispatch" /\ f.at = "bound" /\ f.target = g.target
        /\ f.callback = g.callback /\ f.ops = g.ops /\ f.todo = g.todo
        /\ f.calls = g.calls /\ f.recalled = g.recalled
    BY <1>2 DEF Frame, Points
  <2>2. SetTop(t, f)
    BY <1>1, <1>4 DEF Goto
  <2> HIDE DEF f
  <2>3. DispatchOK(f)
    BY <1>2, <2>1 DEF DispatchOK
  <2> QED  BY <1>0, <1>1, <1>2, <2>1, <2>2, <2>3, DispatchGoesOn
<1> QED  BY <1>3, <1>4 DEF Bind

\* The target records with other counts for r.
Recounted(r, a, d) == [target EXCEPT ![r] = [target[r] EXCEPT !.active = a, !.direct = d]]

LEMMA TargetCounts ==
  ASSUME CountInv, NEW r \in Targets, NEW a \in Nat, NEW d \in Nat,
         target' = Recounted(r, a, d),
         UNCHANGED <<owner, quiet, callback, shutdown>>
  PROVE  /\ SharedOK
         /\ target'[r].active = a /\ target'[r].direct = d
         /\ \A q \in Targets : q # r => target'[q] = target[q]
<1>1. PICK y \in Target : y = target[r]
  BY TypesOf
<1> DEFINE x == [y EXCEPT !.active = a, !.direct = d]
<1>2. x \in Target /\ x.active = a /\ x.direct = d
  BY DEF Target
<1>3. target' = [target EXCEPT ![r] = x]
  BY <1>1 DEF Recounted
<1> HIDE DEF x
<1>4. /\ target' \in [Targets -> Target] /\ target'[r] = x
      /\ \A q \in Targets : q # r => target'[q] = target[q]
  BY <1>2, <1>3, TypesOf
<1> QED  BY <1>2, <1>4, TypesOf DEF SharedOK, LiveOK, CountInv

\* The count of one callback changes.
LEMMA CallbackCounts ==
  ASSUME CountInv, NEW c \in Callbacks, NEW a \in Nat,
         callback' = [callback EXCEPT ![c].active = a],
         UNCHANGED <<owner, quiet, target, shutdown>>
  PROVE  /\ SharedOK
         /\ callback'[c].active = a
         /\ \A b \in Callbacks : b # c => callback'[b] = callback[b]
<1>1. PICK y \in Callback : y = callback[c]
  BY TypesOf
<1> DEFINE x == [y EXCEPT !.active = a]
<1>2. /\ x \in Callback /\ x.active = a /\ x.state = y.state /\ x.owner = y.owner
      /\ x.target = y.target
  BY DEF Callback
<1>3. callback' = [callback EXCEPT ![c] = x]
  BY <1>1
<1> HIDE DEF x
<1>4. /\ callback' \in [Callbacks -> Callback] /\ callback'[c] = x
      /\ \A b \in Callbacks : b # c => callback'[b] = callback[b]
  BY <1>2, <1>3, TypesOf
<1> QED  BY <1>1, <1>2, <1>4, TypesOf DEF SharedOK, LiveOK, CountInv

LEMMA CountStep ==
  ASSUME CountInv, NEW t \in Threads, Count(t) PROVE CountInv'
<1>0. At(t, "dispatch", "bound") /\ UNCHANGED <<owner, quiet, callback, shutdown>>
  BY DEF Count
<1>1. PICK g : g = Top(t)
  OBVIOUS
<1>2. /\ depth[t] # 0 /\ g \in Frame /\ DispatchOK(g) /\ g.call = "dispatch" /\ g.at = "bound"
      /\ g.target \in Targets /\ \A c \in g.ops : callback[c].state # "free"
  BY <1>0, <1>1, DispatchTop
<1>3. PICK r : r = g.target
  OBVIOUS
<1>4. \A q \in Targets : target[q].active \in Nat /\ target[q].direct \in Nat
  BY TypesOf, TargetFields
<1>5. PICK a, d : a = target[r].active + 1 /\ d = target[r].direct
  OBVIOUS
<1>6. target' = Recounted(r, a, d)
  <2>1. PICK y \in Target : y = target[r]
    BY <1>2, <1>3, TypesOf
  <2>2. target' = [target EXCEPT ![r] = [y EXCEPT !.active = a]]
    BY <1>1, <1>3, <1>5, <2>1 DEF Count
  <2>3. [y EXCEPT !.active = a] = [y EXCEPT !.active = a, !.direct = d]
    BY <1>5, <2>1 DEF Target
  <2> QED  BY <2>1, <2>2, <2>3 DEF Recounted
<1>7. /\ SharedOK /\ target'[r].active = a /\ target'[r].direct = d
      /\ \A q \in Targets : q # r => target'[q] = target[q]
  <2>1. r \in Targets /\ a \in Nat /\ d \in Nat
    BY <1>2, <1>3, <1>4, <1>5
  <2> QED  BY <1>0, <1>6, <2>1, TargetCounts
<1> DEFINE f == [g EXCEPT !.at = "counted"]
<1>8. /\ f \in Frame /\ f.call = "dispatch" /\ f.at = "counted" /\ f.target = r
      /\ f.callback = g.callback /\ f.ops = g.ops /\ f.todo = g.todo
      /\ f.calls = g.calls /\ f.recalled = g.recalled
  BY <1>2, <1>3 DEF Frame, Points
<1>9. SetTop(t, f)
  BY <1>1 DEF Count, Goto
<1> HIDE DEF f
<1>10. DispatchOK(f)
  BY <1>2, <1>3, <1>8 DEF DispatchOK
<1>11. /\ \A q \in Targets : On(f, q) = (IF q = r THEN 1 ELSE 0) /\ On(g, q) = 0
                             /\ Dir(f, q) = 0 /\ Dir(g, q) = 0
       /\ \A c \in Callbacks : Held(f, c) = Held(g, c) /\ Held(g, c) \in {0, 1}
  BY <1>2, <1>3, <1>8 DEF On, Dir, Held, OnTargetStack, Holds, InDispatch
<1>12. \A c \in Callbacks : callback[c].active \in Nat
  BY TypesOf, CallbackFields
<1>12a. ASSUME NEW q \in Targets
        PROVE  /\ target'[q].active = target[q].active + On(f, q) - On(g, q)
               /\ target'[q].direct = target[q].direct + Dir(f, q) - Dir(g, q)
  <2>1. CASE q = r
    BY <1>4, <1>5, <1>7, <1>11, <2>1
  <2>2. CASE q # r
    BY <1>4, <1>7, <1>11, <2>2
  <2> QED  BY <2>1, <2>2
<1>13. Counts(g, f)
  BY <1>0, <1>11, <1>12, <1>12a DEF Counts
<1>14. FrameOK(f) /\ f.call # "none"
  BY <1>8, <1>10, DispatchFrame
<1> QED  BY <1>1, <1>2, <1>7, <1>8, <1>9, <1>13, <1>14, CountedSetTop

LEMMA SnapshotStep ==
  ASSUME CountInv, NEW t \in Threads, Snapshot(t) PROVE CountInv'
<1>0. At(t, "dispatch", "counted") /\ UNCHANGED <<owner, quiet, target, callback, shutdown>>
  BY DEF Snapshot
<1>1. PICK g : g = Top(t)
  OBVIOUS
<1>2. /\ depth[t] # 0 /\ g \in Frame /\ DispatchOK(g) /\ g.call = "dispatch" /\ g.at = "counted"
  BY <1>0, <1>1, DispatchTop
<1>3. PICK all, todo :
        /\ all = CallbacksOf(g.target) /\ todo \subseteq all
        /\ SetTop(t, [g EXCEPT !.at = "pick", !.ops = all, !.todo = todo])
  BY <1>1 DEF Snapshot
<1>4. all \subseteq Callbacks /\ \A c \in all : callback[c].state # "free"
  BY <1>3 DEF CallbacksOf
<1> DEFINE f == [g EXCEPT !.at = "pick", !.ops = all, !.todo = todo]
<1>5. /\ f \in Frame /\ f.call = "dispatch" /\ f.at = "pick" /\ f.target = g.target
      /\ f.callback = g.callback /\ f.ops = all /\ f.todo = todo
      /\ f.calls = g.calls /\ f.recalled = g.recalled
  <2>1. all \in SUBSET Nat /\ todo \in SUBSET Nat
    BY <1>3, <1>4, HandleFacts
  <2>8. f \in Frame
    BY <1>2, <2>1, Names, Zenon DEF Frame
  <2>9. /\ f.call = "dispatch" /\ f.at = "pick" /\ f.target = g.target
        /\ f.callback = g.callback /\ f.ops = all /\ f.todo = todo /\ f.calls = g.calls
        /\ f.recalled = g.recalled
    BY <1>2, <2>1 DEF Frame
  <2> QED  BY <2>8, <2>9
<1>6. SetTop(t, f)
  BY <1>3
<1> HIDE DEF f
<1>7. DispatchOK(f)
  BY <1>2, <1>3, <1>4, <1>5 DEF DispatchOK
<1> QED  BY <1>0, <1>1, <1>4, <1>5, <1>6, <1>7, DispatchGoesOn

LEMMA PickStep ==
  ASSUME CountInv, NEW t \in Threads, Pick(t) PROVE CountInv'
<1>0. At(t, "dispatch", "pick") /\ UNCHANGED <<owner, quiet, target, shutdown>>
  BY DEF Pick
<1>1. PICK g : g = Top(t)
  OBVIOUS
<1>2. /\ depth[t] # 0 /\ g \in Frame /\ DispatchOK(g) /\ g.call = "dispatch" /\ g.at = "pick"
      /\ g.target \in Targets /\ g.ops \subseteq Callbacks /\ g.todo \subseteq g.ops
      /\ \A c \in g.ops : callback[c].state # "free"
  BY <1>0, <1>1, DispatchTop
<1>3. PICK c : c = IF g.post THEN Max(g.todo) ELSE Min(g.todo)
  OBVIOUS
<1>4. c \in g.todo /\ c \in Callbacks
  <2>1. g.todo # {} /\ g.todo \in SUBSET Callbacks /\ g.todo \in SUBSET Nat
    BY <1>1, <1>2, HandleFacts DEF Pick
  <2> QED  BY <1>3, <2>1, MinMember, MaxMember
<1>5. \A b \in Callbacks : callback[b].active \in Nat
  BY TypesOf, CallbackFields
<1>6. PICK a : a = callback[c].active + 1
  OBVIOUS
<1>7. callback' = [callback EXCEPT ![c].active = a]
  BY <1>1, <1>3, <1>6 DEF Pick
<1>8. /\ SharedOK /\ callback'[c].active = a
      /\ \A b \in Callbacks : b # c => callback'[b] = callback[b]
  <2>1. a \in Nat
    BY <1>4, <1>5, <1>6
  <2> QED  BY <1>0, <1>4, <1>7, <2>1, CallbackCounts
<1> DEFINE f == [g EXCEPT !.at = "check", !.callback = c, !.todo = g.todo \ {c}]
<1>9. /\ f \in Frame /\ f.call = "dispatch" /\ f.at = "check" /\ f.target = g.target
      /\ f.callback = c /\ f.ops = g.ops /\ f.todo = g.todo \ {c}
      /\ f.calls = g.calls /\ f.recalled = g.recalled
  BY <1>2, <1>4 DEF Frame, Points
<1>10. SetTop(t, f)
  BY <1>1, <1>3 DEF Pick
<1> HIDE DEF f
<1>11. DispatchOK(f)
  BY <1>2, <1>4, <1>9 DEF DispatchOK
<1>12. /\ \A q \in Targets : On(f, q) = On(g, q) /\ On(g, q) \in {0, 1}
                             /\ Dir(f, q) = 0 /\ Dir(g, q) = 0
       /\ \A b \in Callbacks : Held(f, b) = (IF b = c THEN 1 ELSE 0) /\ Held(g, b) = 0
  <2>1. g.callback = None
    BY <1>2 DEF DispatchOK
  <2> QED  BY <1>2, <1>4, <1>9, <2>1, HandleFacts DEF On, Dir, Held, OnTargetStack, Holds, InDispatch
<1>13. \A q \in Targets : target[q].active \in Nat /\ target[q].direct \in Nat
  BY TypesOf, TargetFields
<1>14. ASSUME NEW b \in Callbacks
       PROVE  callback'[b].active = callback[b].active + Held(f, b) - Held(g, b)
  <2>1. CASE b = c
    BY <1>5, <1>6, <1>8, <1>12, <2>1
  <2>2. CASE b # c
    BY <1>5, <1>8, <1>12, <2>2
  <2> QED  BY <2>1, <2>2
<1>15. Counts(g, f)
  BY <1>0, <1>12, <1>13, <1>14 DEF Counts
<1>16. FrameOK(f) /\ f.call # "none"
  BY <1>9, <1>11, DispatchFrame
<1> QED  BY <1>1, <1>2, <1>8, <1>9, <1>10, <1>15, <1>16, CountedSetTop

\* A callback is left: its count goes down and the dispatch looks for the next.
LEMMA LeftStep ==
  ASSUME CountInv, NEW t \in Threads, NEW at \in {"check", "in"}, At(t, "dispatch", at),
         callback' = Left(Top(t).callback), NEW f \in Frame, SetTop(t, f),
         f.call = "dispatch", f.at = "pick", f.target = Top(t).target, f.callback = None,
         f.ops = Top(t).ops, f.todo \subseteq Top(t).todo, f.calls = Top(t).calls,
         f.recalled = Top(t).recalled,
         UNCHANGED <<owner, quiet, target, shutdown>>
  PROVE  CountInv'
<1>1. PICK g : g = Top(t)
  OBVIOUS
<1>2. /\ depth[t] # 0 /\ g \in Frame /\ DispatchOK(g) /\ g.call = "dispatch" /\ g.at = at
      /\ g.target \in Targets /\ g.ops \subseteq Callbacks /\ g.todo \subseteq g.ops
      /\ \A b \in g.ops : callback[b].state # "free"
      /\ depth[t] \in Depths /\ g = frame[t][depth[t]]
  BY <1>1, DispatchTop
<1>3. PICK c \in Callbacks : c = g.callback
  BY <1>2 DEF DispatchOK
<1>4. \A b \in Callbacks : Held(g, b) = (IF b = c THEN 1 ELSE 0)
  BY <1>2, <1>3 DEF Held, Holds, InDispatch
<1>5. \A b \in Callbacks : callback[b].active \in Nat
  BY TypesOf, CallbackFields
<1>6. callback[c].active > 0
  BY <1>2, <1>4, TypesOf, CountedPositive DEF CountInv
<1>7. PICK a : a = callback[c].active - 1
  OBVIOUS
<1>8. a \in Nat /\ callback' = [callback EXCEPT ![c].active = a]
  BY <1>1, <1>3, <1>5, <1>6, <1>7 DEF Left
<1>9. /\ SharedOK /\ callback'[c].active = a
      /\ \A b \in Callbacks : b # c => callback'[b] = callback[b]
  BY <1>8, CallbackCounts
<1>10. DispatchOK(f)
  BY <1>1, <1>2 DEF DispatchOK
<1>11. /\ \A q \in Targets : On(f, q) = On(g, q) /\ On(g, q) \in {0, 1}
                             /\ Dir(f, q) = 0 /\ Dir(g, q) = 0
       /\ \A b \in Callbacks : Held(f, b) = 0
  BY <1>1, <1>2, HandleFacts DEF On, Dir, Held, OnTargetStack, Holds, InDispatch
<1>12. \A q \in Targets : target[q].active \in Nat /\ target[q].direct \in Nat
  BY TypesOf, TargetFields
<1>13. ASSUME NEW b \in Callbacks
       PROVE  callback'[b].active = callback[b].active + Held(f, b) - Held(g, b)
  <2>1. CASE b = c
    BY <1>4, <1>5, <1>7, <1>9, <1>11, <2>1
  <2>2. CASE b # c
    BY <1>4, <1>5, <1>9, <1>11, <2>2
  <2> QED  BY <2>1, <2>2
<1>14. Counts(g, f)
  BY <1>11, <1>12, <1>13 DEF Counts
<1>15. FrameOK(f) /\ f.call # "none"
  BY <1>10, DispatchFrame
<1> QED  BY <1>1, <1>2, <1>9, <1>14, <1>15, CountedSetTop

LEMMA CheckStep ==
  ASSUME CountInv, NEW t \in Threads, Check(t) PROVE CountInv'
<1>0. At(t, "dispatch", "check") /\ UNCHANGED <<owner, quiet, target, shutdown>>
  BY DEF Check
<1>1. PICK g : g = Top(t)
  OBVIOUS
<1>2. /\ depth[t] # 0 /\ g \in Frame /\ DispatchOK(g) /\ g.call = "dispatch" /\ g.at = "check"
      /\ \A c \in g.ops : callback[c].state # "free"
  BY <1>0, <1>1, DispatchTop
<1>3. CASE UNCHANGED callback /\ Goto(t, "in")
  <2> DEFINE f == [g EXCEPT !.at = "in"]
  <2>1. /\ f \in Frame /\ f.call = "dispatch" /\ f.at = "in" /\ f.target = g.target
        /\ f.callback = g.callback /\ f.ops = g.ops /\ f.todo = g.todo
        /\ f.calls = g.calls /\ f.recalled = g.recalled
    BY <1>2 DEF Frame, Points
  <2>2. SetTop(t, f)
    BY <1>1, <1>3 DEF Goto
  <2> HIDE DEF f
  <2>3. DispatchOK(f)
    BY <1>2, <2>1 DEF DispatchOK
  <2> QED  BY <1>0, <1>1, <1>2, <1>3, <2>1, <2>2, <2>3, DispatchGoesOn
<1>4. CASE /\ SetTop(t, [g EXCEPT !.at = "pick", !.callback = None])
           /\ callback' = Left(g.callback)
  <2> DEFINE f == [g EXCEPT !.at = "pick", !.callback = None]
  <2>1. /\ f \in Frame /\ f.call = "dispatch" /\ f.at = "pick" /\ f.target = g.target
        /\ f.callback = None /\ f.ops = g.ops /\ f.todo = g.todo
        /\ f.calls = g.calls /\ f.recalled = g.recalled
    <3>1. f \in Frame
      BY <1>2, Names, Zenon DEF Frame
    <3>2. /\ f.call = "dispatch" /\ f.at = "pick" /\ f.target = g.target
          /\ f.callback = None /\ f.ops = g.ops /\ f.todo = g.todo /\ f.calls = g.calls
          /\ f.recalled = g.recalled
      BY <1>2 DEF Frame
    <3> QED  BY <3>1, <3>2
  <2>2. SetTop(t, f)
    BY <1>4
  <2> HIDE DEF f
  <2> QED  BY <1>0, <1>1, <1>4, <2>1, <2>2, LeftStep
<1> QED  BY <1>1, <1>3, <1>4 DEF Check

LEMMA AnswerStep ==
  ASSUME CountInv, NEW t \in Threads, NEW supersede \in BOOLEAN, Answer(t, supersede)
  PROVE  CountInv'
<1>0. At(t, "dispatch", "in") /\ UNCHANGED <<owner, quiet, target, shutdown>>
  BY DEF Answer
<1>1. PICK g : g = Top(t)
  OBVIOUS
<1>2. /\ depth[t] # 0 /\ g \in Frame /\ g.call = "dispatch" /\ g.superseded \in BOOLEAN
  BY <1>0, <1>1, DispatchTop
<1>3. PICK b \in BOOLEAN, todo \in {{}, g.todo} :
        SetTop(t, [g EXCEPT !.at = "pick", !.callback = None, !.superseded = b, !.todo = todo])
  BY <1>1, <1>2 DEF Answer
<1> DEFINE f == [g EXCEPT !.at = "pick", !.callback = None, !.superseded = b, !.todo = todo]
<1>4. /\ f \in Frame /\ f.call = "dispatch" /\ f.at = "pick" /\ f.target = g.target
      /\ f.callback = None /\ f.ops = g.ops /\ f.todo = todo
      /\ f.calls = g.calls /\ f.recalled = g.recalled
  <2>1. todo \in SUBSET Nat
    BY <1>2, FrameFields
  <2>8. f \in Frame
    BY <1>2, <2>1, Names, Zenon DEF Frame
  <2>9. /\ f.call = "dispatch" /\ f.at = "pick" /\ f.target = g.target /\ f.callback = None
        /\ f.ops = g.ops /\ f.todo = todo /\ f.calls = g.calls /\ f.recalled = g.recalled
    BY <1>2, <2>1 DEF Frame
  <2> QED  BY <2>8, <2>9
<1>5. SetTop(t, f)
  BY <1>3
<1> HIDE DEF f
<1>6. callback' = Left(g.callback)
  BY <1>1 DEF Answer
<1> QED  BY <1>0, <1>1, <1>4, <1>5, <1>6, LeftStep

LEMMA CallOriginalStep ==
  ASSUME CountInv, NEW t \in Threads, CallOriginal(t) PROVE CountInv'
<1>0. At(t, "dispatch", "in") /\ UNCHANGED <<owner, quiet, target, callback, shutdown>>
  BY DEF CallOriginal
<1>1. PICK g : g = Top(t)
  OBVIOUS
<1>2. /\ depth[t] # 0 /\ g \in Frame /\ DispatchOK(g) /\ g.call = "dispatch" /\ g.at = "in"
      /\ \A c \in g.ops : callback[c].state # "free"
  BY <1>0, <1>1, DispatchTop
<1>3. g.calls = 0 /\ ~g.recalled
  BY <1>1 DEF CallOriginal, MayCallOriginal
<1>3a. PICK n \in 0..2 : n = 1
  OBVIOUS
<1> DEFINE f == [g EXCEPT !.at = "explicit", !.calls = n]
<1>4. /\ f \in Frame /\ f.call = "dispatch" /\ f.at = "explicit" /\ f.target = g.target
      /\ f.callback = g.callback /\ f.ops = g.ops /\ f.todo = g.todo
      /\ f.calls = n /\ f.recalled = g.recalled
  <2>1. f \in Frame
    BY <1>2, Names, Zenon DEF Frame
  <2>2. /\ f.call = "dispatch" /\ f.at = "explicit" /\ f.target = g.target
        /\ f.callback = g.callback /\ f.ops = g.ops /\ f.todo = g.todo /\ f.calls = n
        /\ f.recalled = g.recalled
    BY <1>2 DEF Frame
  <2> QED  BY <2>1, <2>2
<1>5. SetTop(t, f)
  BY <1>1, <1>3, <1>3a DEF CallOriginal
<1> HIDE DEF f
<1>6. DispatchOK(f)
  BY <1>2, <1>3, <1>3a, <1>4 DEF DispatchOK
<1> QED  BY <1>0, <1>1, <1>2, <1>4, <1>5, <1>6, DispatchGoesOn

LEMMA BackInCallbackStep ==
  ASSUME CountInv, NEW t \in Threads, BackInCallback(t) PROVE CountInv'
<1>0. PICK at \in {"explicit", "recalling"} :
        /\ At(t, "dispatch", at)
        /\ SetTop(t, IF at = "explicit" THEN [Top(t) EXCEPT !.at = "in"]
                     ELSE [Top(t) EXCEPT !.at = "in", !.recalled = TRUE])
        /\ UNCHANGED <<owner, quiet, target, callback, shutdown>>
  BY DEF BackInCallback, Goto
<1>1. PICK g : g = Top(t)
  OBVIOUS
<1>2. /\ depth[t] # 0 /\ g \in Frame /\ DispatchOK(g) /\ g.call = "dispatch" /\ g.at = at
      /\ \A c \in g.ops : callback[c].state # "free"
  BY <1>0, <1>1, DispatchTop
<1>3. CASE at = "explicit"
  <2> DEFINE f == [g EXCEPT !.at = "in"]
  <2>1. /\ f \in Frame /\ f.call = "dispatch" /\ f.at = "in" /\ f.target = g.target
        /\ f.callback = g.callback /\ f.ops = g.ops /\ f.todo = g.todo
        /\ f.calls = g.calls /\ f.recalled = g.recalled
    BY <1>2 DEF Frame, Points
  <2>2. SetTop(t, f)
    BY <1>0, <1>1, <1>3
  <2> HIDE DEF f
  <2>3. DispatchOK(f)
    BY <1>2, <1>3, <2>1 DEF DispatchOK
  <2> QED  BY <1>0, <1>1, <1>2, <1>3, <2>1, <2>2, <2>3, DispatchGoesOn
<1>4. CASE at = "recalling"
  <2> DEFINE f == [g EXCEPT !.at = "in", !.recalled = TRUE]
  <2>1. /\ f \in Frame /\ f.call = "dispatch" /\ f.at = "in" /\ f.target = g.target
        /\ f.callback = g.callback /\ f.ops = g.ops /\ f.todo = g.todo /\ f.calls = g.calls
    <3>1. f \in Frame
      BY <1>2, Names, Zenon DEF Frame
    <3>2. /\ f.call = "dispatch" /\ f.at = "in" /\ f.target = g.target
          /\ f.callback = g.callback /\ f.ops = g.ops /\ f.todo = g.todo
          /\ f.calls = g.calls
      BY <1>2 DEF Frame
    <3> QED  BY <3>1, <3>2
  <2>2. SetTop(t, f)
    BY <1>0, <1>1, <1>4
  <2> HIDE DEF f
  <2>3. DispatchOK(f)
    BY <1>2, <1>4, <2>1 DEF DispatchOK
  <2> QED  BY <1>0, <1>1, <1>2, <1>4, <2>1, <2>2, <2>3, DispatchGoesOn
<1> QED  BY <1>3, <1>4

LEMMA OriginalStep ==
  ASSUME CountInv, NEW t \in Threads, Original(t) PROVE CountInv'
<1>0. At(t, "dispatch", "pick") /\ UNCHANGED <<owner, quiet, target, callback, shutdown>>
  BY DEF Original
<1>1. PICK g : g = Top(t)
  OBVIOUS
<1>2. /\ depth[t] # 0 /\ g \in Frame /\ DispatchOK(g) /\ g.call = "dispatch" /\ g.at = "pick"
      /\ g.ops \subseteq Nat /\ \A c \in g.ops : callback[c].state # "free"
  BY <1>0, <1>1, DispatchTop
<1>3. CASE /\ ~g.recalled /\ g.calls = 0
           /\ SetTop(t, [g EXCEPT !.at = "original", !.calls = g.calls + 1])
  <2>0. PICK n \in 0..2 : n = 1
    OBVIOUS
  <2> DEFINE f == [g EXCEPT !.at = "original", !.calls = n]
  <2>1. /\ f \in Frame /\ f.call = "dispatch" /\ f.at = "original" /\ f.target = g.target
        /\ f.callback = g.callback /\ f.ops = g.ops /\ f.todo = g.todo
        /\ f.calls = n /\ f.recalled = g.recalled
    BY <1>2 DEF Frame, Points
  <2>2. SetTop(t, f)
    BY <1>3, <2>0
  <2> HIDE DEF f
  <2>3. DispatchOK(f)
    BY <1>2, <1>3, <2>0, <2>1 DEF DispatchOK
  <2> QED  BY <1>0, <1>1, <1>2, <2>1, <2>2, <2>3, DispatchGoesOn
<1>4. CASE \E todo \in SUBSET g.ops : SetTop(t, [g EXCEPT !.post = TRUE, !.todo = todo])
  <2>1. PICK todo \in SUBSET g.ops : SetTop(t, [g EXCEPT !.post = TRUE, !.todo = todo])
    BY <1>4
  <2> DEFINE f == [g EXCEPT !.post = TRUE, !.todo = todo]
  <2>2. /\ f \in Frame /\ f.call = "dispatch" /\ f.at = "pick" /\ f.target = g.target
        /\ f.callback = g.callback /\ f.ops = g.ops /\ f.todo = todo
        /\ f.calls = g.calls /\ f.recalled = g.recalled
    <3>1. todo \in SUBSET Nat
      BY <1>2, <2>1
    <3> QED  BY <1>2, <3>1 DEF Frame
  <2>3. SetTop(t, f)
    BY <2>1
  <2> HIDE DEF f
  <2>4. DispatchOK(f)
    BY <1>2, <2>2 DEF DispatchOK
  <2> QED  BY <1>0, <1>1, <1>2, <2>2, <2>3, <2>4, DispatchGoesOn
<1>5. PICK S \in SUBSET g.ops :
        \/ /\ ~g.recalled /\ g.calls = 0
           /\ SetTop(t, [g EXCEPT !.at = "original", !.calls = g.calls + 1])
        \/ SetTop(t, [g EXCEPT !.post = TRUE, !.todo = S])
  <2>1. PICK S \in SUBSET g.ops :
          S = IF g.recalled THEN {} ELSE {c \in g.ops : ~callback[c].pre}
    OBVIOUS
  <2> QED  BY <1>1, <2>1 DEF Original
<1> QED  BY <1>3, <1>4, <1>5

LEMMA OriginalReturnsStep ==
  ASSUME CountInv, NEW t \in Threads, OriginalReturns(t) PROVE CountInv'
<1>0. At(t, "dispatch", "original") /\ UNCHANGED <<owner, quiet, target, callback, shutdown>>
  BY DEF OriginalReturns
<1>1. PICK g : g = Top(t)
  OBVIOUS
<1>2. /\ depth[t] # 0 /\ g \in Frame /\ DispatchOK(g) /\ g.call = "dispatch" /\ g.at = "original"
      /\ g.ops \subseteq Nat /\ \A c \in g.ops : callback[c].state # "free"
  BY <1>0, <1>1, DispatchTop
<1>3. PICK todo \in SUBSET g.ops :
        SetTop(t, [g EXCEPT !.at = "pick", !.post = TRUE, !.todo = todo])
  BY <1>1 DEF OriginalReturns
<1> DEFINE f == [g EXCEPT !.at = "pick", !.post = TRUE, !.todo = todo]
<1>4. /\ f \in Frame /\ f.call = "dispatch" /\ f.at = "pick" /\ f.target = g.target
      /\ f.callback = g.callback /\ f.ops = g.ops /\ f.todo = todo
      /\ f.calls = g.calls /\ f.recalled = g.recalled
  <2>1. todo \in SUBSET Nat
    BY <1>2
  <2> QED  BY <1>2, <2>1 DEF Frame, Points
<1>5. SetTop(t, f)
  BY <1>3
<1> HIDE DEF f
<1>6. DispatchOK(f)
  BY <1>2, <1>4 DEF DispatchOK
<1> QED  BY <1>0, <1>1, <1>2, <1>4, <1>5, <1>6, DispatchGoesOn

LEMMA LeaveStep ==
  ASSUME CountInv, NEW t \in Threads, Leave(t) PROVE CountInv'
<1>0. At(t, "dispatch", "pick") /\ UNCHANGED <<owner, quiet, callback, shutdown>> /\ Pop(t)
  BY DEF Leave
<1>1. PICK g : g = Top(t)
  OBVIOUS
<1>2. /\ depth[t] # 0 /\ g \in Frame /\ DispatchOK(g) /\ g.call = "dispatch" /\ g.at = "pick"
      /\ g.target \in Targets /\ depth[t] \in Depths /\ g = frame[t][depth[t]]
  BY <1>0, <1>1, DispatchTop
<1>3. PICK r : r = g.target
  OBVIOUS
<1>4. /\ \A q \in Targets : /\ On(g, q) = (IF q = r THEN 1 ELSE 0) /\ On(Idle, q) = 0
                            /\ Dir(g, q) = 0 /\ Dir(Idle, q) = 0
      /\ \A c \in Callbacks : Held(g, c) = 0 /\ Held(Idle, c) = 0
  <2>1. g.callback = None
    BY <1>2 DEF DispatchOK
  <2> QED  BY <1>2, <1>3, <2>1, IdleFrame, HandleFacts
           DEF On, Dir, Held, OnTargetStack, Holds, InDispatch
<1>5. \A q \in Targets : target[q].active \in Nat /\ target[q].direct \in Nat
  BY TypesOf, TargetFields
<1>6. target[r].active > 0
  BY <1>2, <1>3, <1>4, TypesOf, CountedPositive DEF CountInv
<1>7. PICK a, d : a = target[r].active - 1 /\ d = target[r].direct
  OBVIOUS
<1>8. r \in Targets /\ a \in Nat /\ d \in Nat
  BY <1>2, <1>3, <1>5, <1>6, <1>7
<1>9. target' = Recounted(r, a, d)
  <2>1. PICK y \in Target : y = target[r]
    BY <1>8, TypesOf
  <2>2. target' = [target EXCEPT ![r] = [y EXCEPT !.active = a]]
    BY <1>1, <1>3, <1>7, <2>1 DEF Leave
  <2>3. [y EXCEPT !.active = a] = [y EXCEPT !.active = a, !.direct = d]
    BY <1>7, <2>1 DEF Target
  <2> QED  BY <2>1, <2>2, <2>3 DEF Recounted
<1>10. /\ SharedOK /\ target'[r].active = a /\ target'[r].direct = d
       /\ \A q \in Targets : q # r => target'[q] = target[q]
  BY <1>0, <1>8, <1>9, TargetCounts
<1>11. ASSUME NEW q \in Targets
       PROVE  /\ target'[q].active = target[q].active + On(Idle, q) - On(g, q)
              /\ target'[q].direct = target[q].direct + Dir(Idle, q) - Dir(g, q)
  <2>1. CASE q = r
    BY <1>4, <1>5, <1>7, <1>10, <2>1
  <2>2. CASE q # r
    BY <1>4, <1>5, <1>10, <2>2
  <2> QED  BY <2>1, <2>2
<1>12. \A c \in Callbacks : callback[c].active \in Nat
  BY TypesOf, CallbackFields
<1>13. Counts(g, Idle)
  BY <1>0, <1>4, <1>11, <1>12 DEF Counts
<1> QED  BY <1>0, <1>1, <1>2, <1>10, <1>13, CountedPop

LEMMA DirectCallStep ==
  ASSUME CountInv, NEW t \in Threads, NEW p \in Plugins, NEW r \in Targets, DirectCall(t, p, r)
  PROVE  CountInv'
<1>1. Running(t) /\ UNCHANGED <<owner, quiet, callback, shutdown>>
  BY DEF DirectCall
<1>2. \A q \in Targets : target[q].active \in Nat /\ target[q].direct \in Nat
  BY TypesOf, TargetFields
<1>3. PICK a, d : a = target[r].active + 1 /\ d = target[r].direct + 1
  OBVIOUS
<1>4. a \in Nat /\ d \in Nat
  BY <1>2, <1>3
<1>5. target' = Recounted(r, a, d)
  <2>1. PICK y \in Target : y = target[r]
    BY TypesOf
  <2>2. target' = [target EXCEPT ![r] = [y EXCEPT !.active = a, !.direct = d]]
    BY <1>3, <2>1, TypesOf DEF DirectCall
  <2> QED  BY <2>1, <2>2 DEF Recounted
<1>6. /\ SharedOK /\ target'[r].active = a /\ target'[r].direct = d
      /\ \A q \in Targets : q # r => target'[q] = target[q]
  BY <1>1, <1>4, <1>5, TargetCounts
<1>7. PICK b \in BOOLEAN : b = target[r].storage
  BY TypesOf, TargetFields
<1> DEFINE f == [Idle EXCEPT !.call = "direct", !.at = "direct", !.target = r, !.flag = b]
<1>8. /\ f \in Frame /\ f.call = "direct" /\ f.at = "direct" /\ f.target = r /\ f.calls = 0
  <2>1. PICK x \in Frame : x = Idle
    BY IdleFrame
  <2>2. f = [x EXCEPT !.call = "direct", !.at = "direct", !.target = r, !.flag = b]
        /\ x.calls = 0
    BY <2>1, IdleFrame
  <2> HIDE DEF f
  <2>8. f \in Frame
    BY <2>2, Names, Zenon DEF Frame
  <2>9. /\ f.call = "direct" /\ f.at = "direct" /\ f.target = r /\ f.calls = 0
    BY <2>2 DEF Frame
  <2> QED  BY <2>8, <2>9
<1>9. Push(t, f)
  BY <1>7 DEF DirectCall
<1> HIDE DEF f
<1>10. FrameOK(f)
  BY <1>8 DEF FrameOK, PluginCallOK, HostCallOK
<1>11. /\ \A q \in Targets : /\ On(f, q) = (IF q = r THEN 1 ELSE 0) /\ On(Idle, q) = 0
                             /\ Dir(f, q) = (IF q = r THEN 1 ELSE 0) /\ Dir(Idle, q) = 0
       /\ \A c \in Callbacks : Held(f, c) = 0 /\ Held(Idle, c) = 0
  BY <1>8, IdleFrame DEF On, Dir, Held, OnTargetStack, Holds, InDispatch
<1>12. ASSUME NEW q \in Targets
       PROVE  /\ target'[q].active = target[q].active + On(f, q) - On(Idle, q)
              /\ target'[q].direct = target[q].direct + Dir(f, q) - Dir(Idle, q)
  <2>1. CASE q = r
    BY <1>2, <1>3, <1>6, <1>11, <2>1
  <2>2. CASE q # r
    BY <1>2, <1>6, <1>11, <2>2
  <2> QED  BY <2>1, <2>2
<1>13. \A c \in Callbacks : callback[c].active \in Nat
  BY TypesOf, CallbackFields
<1>14. Counts(Idle, f)
  BY <1>1, <1>11, <1>12, <1>13 DEF Counts
<1> QED  BY <1>1, <1>6, <1>8, <1>9, <1>10, <1>14, CountedPush

LEMMA DirectReturnsStep ==
  ASSUME CountInv, NEW t \in Threads, DirectReturns(t) PROVE CountInv'
<1>0. At(t, "direct", "direct") /\ UNCHANGED <<owner, quiet, callback, shutdown>> /\ Pop(t)
  BY DEF DirectReturns
<1>1. PICK g : g = Top(t)
  OBVIOUS
<1>2. /\ depth[t] # 0 /\ g \in Frame /\ FrameOK(g) /\ g.call = "direct"
      /\ g.target \in Targets /\ depth[t] \in Depths /\ g = frame[t][depth[t]]
  BY <1>0, <1>1, TopOK, TypesOf, TopFrame DEF At, FrameOK
<1>3. PICK r : r = g.target
  OBVIOUS
<1>4. /\ \A q \in Targets : /\ On(g, q) = (IF q = r THEN 1 ELSE 0) /\ On(Idle, q) = 0
                            /\ Dir(g, q) = (IF q = r THEN 1 ELSE 0) /\ Dir(Idle, q) = 0
      /\ \A c \in Callbacks : Held(g, c) = 0 /\ Held(Idle, c) = 0
  BY <1>2, <1>3, IdleFrame DEF On, Dir, Held, OnTargetStack, Holds, InDispatch
<1>5. \A q \in Targets : target[q].active \in Nat /\ target[q].direct \in Nat
  BY TypesOf, TargetFields
<1>6. target[r].active > 0 /\ target[r].direct > 0
  BY <1>2, <1>3, <1>4, TypesOf, CountedPositive DEF CountInv
<1>7. PICK a, d : a = target[r].active - 1 /\ d = target[r].direct - 1
  OBVIOUS
<1>8. r \in Targets /\ a \in Nat /\ d \in Nat
  BY <1>2, <1>3, <1>5, <1>6, <1>7
<1>9. target' = Recounted(r, a, d)
  <2>1. PICK y \in Target : y = target[r]
    BY <1>8, TypesOf
  <2>2. target' = [target EXCEPT ![r] = [y EXCEPT !.active = a, !.direct = d]]
    BY <1>1, <1>3, <1>7, <1>8, <2>1, TypesOf DEF DirectReturns
  <2> QED  BY <2>1, <2>2 DEF Recounted
<1>10. /\ SharedOK /\ target'[r].active = a /\ target'[r].direct = d
       /\ \A q \in Targets : q # r => target'[q] = target[q]
  BY <1>0, <1>8, <1>9, TargetCounts
<1>11. ASSUME NEW q \in Targets
       PROVE  /\ target'[q].active = target[q].active + On(Idle, q) - On(g, q)
              /\ target'[q].direct = target[q].direct + Dir(Idle, q) - Dir(g, q)
  <2>1. CASE q = r
    BY <1>4, <1>5, <1>7, <1>10, <2>1
  <2>2. CASE q # r
    BY <1>4, <1>5, <1>10, <2>2
  <2> QED  BY <2>1, <2>2
<1>12. \A c \in Callbacks : callback[c].active \in Nat
  BY TypesOf, CallbackFields
<1>13. Counts(g, Idle)
  BY <1>0, <1>4, <1>11, <1>12 DEF Counts
<1> QED  BY <1>0, <1>1, <1>2, <1>10, <1>13, CountedPop

\* Recall changes two frames: the callback's dispatch and the recalled one.
LEMMA RecallFrames ==
  ASSUME CountInv, NEW t \in Threads, Recall(t)
  PROVE  \E f, h \in Frame :
           /\ FrameOK(f) /\ FrameOK(h) /\ f.call = "dispatch" /\ h.call = "dispatch"
           /\ f.at = "recalling" /\ h.at = "entered" /\ h.callback = None /\ h.ops = {}
           /\ f.ops = Top(t).ops /\ f.target = Top(t).target /\ f.callback = Top(t).callback
           /\ h.target = Top(t).target
           /\ frame' = [frame EXCEPT ![t] = [frame[t] EXCEPT ![depth[t]] = f, ![depth[t] + 1] = h]]
<1>0. At(t, "dispatch", "in")
  BY DEF Recall
<1>1. PICK g : g = Top(t)
  OBVIOUS
<1>2. /\ depth[t] # 0 /\ g \in Frame /\ DispatchOK(g) /\ g.call = "dispatch" /\ g.at = "in"
      /\ g.target \in Targets
  BY <1>0, <1>1, DispatchTop
<1>3. g.calls = 0 /\ g.callback \in Callbacks
  BY <1>1, <1>2 DEF Recall, MayCallOriginal, DispatchOK
<1> DEFINE f == [g EXCEPT !.at = "recalling"]
<1>4. /\ f \in Frame /\ f.call = "dispatch" /\ f.at = "recalling" /\ f.target = g.target
      /\ f.callback = g.callback /\ f.ops = g.ops /\ f.todo = g.todo /\ f.calls = 0
  BY <1>2, <1>3 DEF Frame, Points
<1>5. PICK e \in Frame : e = Entry(g.target)
  BY <1>2, EntryFrame
<1>6. /\ DispatchOK(e) /\ e.call = "dispatch" /\ e.at = "entered" /\ e.target = g.target
      /\ e.callback = None /\ e.ops = {}
  BY <1>2, <1>5, EntryFrame
<1> DEFINE h == [e EXCEPT !.from = g.callback]
<1>7. /\ h \in Frame /\ h.call = "dispatch" /\ h.at = "entered" /\ h.target = g.target
      /\ h.callback = None /\ h.ops = {} /\ h.todo = e.todo /\ h.calls = e.calls
      /\ h.recalled = e.recalled
  BY <1>3, <1>6 DEF Frame
<1>8. frame' = [frame EXCEPT ![t] = [frame[t] EXCEPT ![depth[t]] = f, ![depth[t] + 1] = h]]
  <2>1. \A S \in [1..MaxDepth -> Frame] : \A i \in Nat : \A x, y :
          [S EXCEPT ![i] = x, ![i + 1] = y] = [[S EXCEPT ![i] = x] EXCEPT ![i + 1] = y]
    OBVIOUS
  <2> QED  BY <1>1, <1>5, TypesOf DEF Recall, TypeOK
<1> HIDE DEF f, h
<1>9. DispatchOK(f) /\ DispatchOK(h)
  BY <1>2, <1>4, <1>6, <1>7 DEF DispatchOK
<1> QED  BY <1>1, <1>4, <1>7, <1>8, <1>9, DispatchFrame

LEMMA RecallStep ==
  ASSUME CountInv, NEW t \in Threads, Recall(t) PROVE CountInv'
<1>0. At(t, "dispatch", "in") /\ UNCHANGED <<owner, quiet, target, callback, shutdown>>
  BY DEF Recall
<1>1. PICK g : g = Top(t)
  OBVIOUS
<1>2. /\ depth[t] # 0 /\ g \in Frame /\ DispatchOK(g) /\ g.call = "dispatch" /\ g.at = "in"
      /\ depth[t] \in Depths /\ g = frame[t][depth[t]]
      /\ \A c \in g.ops : callback[c].state # "free"
  BY <1>0, <1>1, DispatchTop
<1>3. PICK d \in Depths : d = depth[t]
  BY <1>2
<1>4. /\ d \in Nat /\ d + 1 \in Depths /\ depth' = [depth EXCEPT ![t] = d + 1]
      /\ depth \in [Threads -> 0..MaxDepth]
  <2>1. depth[t] < MaxDepth /\ MaxDepth \in Nat
    BY HookAssumption DEF Recall, HookAssumption
  <2> QED  BY <1>3, <2>1, TypesOf DEF Recall, Depths, TypeOK
<1>5. PICK f \in Frame, h \in Frame :
        /\ FrameOK(f) /\ FrameOK(h) /\ f.call = "dispatch" /\ h.call = "dispatch"
        /\ f.at = "recalling" /\ h.at = "entered" /\ h.callback = None /\ h.ops = {}
        /\ f.ops = g.ops /\ f.target = g.target /\ f.callback = g.callback
        /\ frame' = [frame EXCEPT ![t] = [frame[t] EXCEPT ![d] = f, ![d + 1] = h]]
  BY <1>1, <1>3, RecallFrames
<1>6. /\ frame' \in [Threads -> [1..MaxDepth -> Frame]]
      /\ frame'[t][d] = f /\ frame'[t][d + 1] = h
      /\ \A u \in Threads, e \in Depths :
           ~(u = t /\ e \in {d, d + 1}) => frame'[u][e] = frame[u][e]
  <2>1. PICK w : w = [frame[t] EXCEPT ![d] = f, ![d + 1] = h]
    OBVIOUS
  <2>2. /\ w \in [1..MaxDepth -> Frame] /\ w[d] = f /\ w[d + 1] = h
        /\ \A e \in Depths : e \notin {d, d + 1} => w[e] = frame[t][e]
    <3>1. frame[t] \in [1..MaxDepth -> Frame]
      BY TypesOf DEF TypeOK
    <3>2. PICK v : v = [frame[t] EXCEPT ![d] = f]
      OBVIOUS
    <3>3. /\ v \in [1..MaxDepth -> Frame] /\ v[d] = f
          /\ \A e \in Depths : e # d => v[e] = frame[t][e]
      BY <3>1, <3>2 DEF Depths
    <3>4. w = [v EXCEPT ![d + 1] = h] /\ d # d + 1
      BY <1>4, <2>1, <3>2
    <3> QED  BY <1>4, <3>3, <3>4 DEF Depths
  <2>3. frame' = [frame EXCEPT ![t] = w] /\ frame \in [Threads -> [1..MaxDepth -> Frame]]
    BY <1>5, <2>1, TypesOf DEF TypeOK
  <2>4. /\ frame' \in [Threads -> [1..MaxDepth -> Frame]] /\ frame'[t] = w
        /\ \A u \in Threads : u # t => frame'[u] = frame[u]
    BY <2>2, <2>3
  <2> QED  BY <2>2, <2>4
<1>7. TypeOK'
  BY <1>0, <1>4, <1>6, TypesOf DEF TypeOK, Depths
<1>8. frame[t][d + 1] = Idle
  <2>1. ~(d + 1 <= depth[t])
    BY <1>3, <1>4
  <2> QED  BY <1>4, <2>1 DEF CountInv, StackOK, FrameOK
<1>9. StackOK'
  <2> SUFFICES ASSUME NEW u \in Threads, NEW e \in Depths
               PROVE  /\ FrameOK(frame'[u][e])
                      /\ e <= depth'[u] <=> frame'[u][e].call # "none"
                      /\ e < depth'[u] => frame'[u][e].at \in Inner
    BY DEF StackOK, Inner
  <2>0. depth'[t] = d + 1 /\ d <= d + 1 /\ ~(d + 1 < d + 1) /\ d + 1 <= d + 1
    BY <1>4
  <2>1. CASE u = t /\ e = d
    BY <1>5, <1>6, <2>0, <2>1 DEF Inner
  <2>2. CASE u = t /\ e = d + 1
    BY <1>5, <1>6, <2>0, <2>2
  <2>3. CASE u = t /\ e \notin {d, d + 1}
    <3>1. frame'[u][e] = frame[t][e] /\ FrameOK(frame[t][e])
      BY <1>6, <2>3 DEF CountInv, StackOK
    <3>2. e <= depth[t] <=> frame[t][e].call # "none"
      BY DEF CountInv, StackOK
    <3>3. e < depth[t] => frame[t][e].at \in Inner
      BY DEF CountInv, StackOK, Inner
    <3>4. e \in Nat /\ d \in Nat
      BY <1>4 DEF Depths
    <3> QED  BY <1>3, <1>4, <2>3, <3>1, <3>2, <3>3, <3>4
  <2>4. CASE u # t
    BY <1>4, <1>6, <2>4 DEF CountInv, StackOK, Inner
  <2> QED  BY <2>1, <2>2, <2>3, <2>4
<1>10. SnapshotOK'
  <2> SUFFICES ASSUME NEW u \in Threads, NEW e \in Depths, frame'[u][e].call = "dispatch",
                      NEW c \in frame'[u][e].ops
               PROVE  callback'[c].state # "free"
    BY DEF SnapshotOK
  <2>1. CASE u = t /\ e = d
    BY <1>0, <1>2, <1>5, <1>6, <2>1
  <2>2. CASE u = t /\ e = d + 1
    BY <1>5, <1>6, <2>2
  <2>3. CASE ~(u = t /\ e \in {d, d + 1})
    BY <1>0, <1>6, <2>3 DEF CountInv, SnapshotOK
  <2> QED  BY <2>1, <2>2, <2>3
<1>11. \A x \in Positions :
         /\ Counted(FrameAt(x)') <=> Counted(FrameAt(x))
         /\ FrameAt(x)'.call = "direct" <=> FrameAt(x).call = "direct"
         /\ Counted(FrameAt(x)) => FrameAt(x)'.target = FrameAt(x).target
         /\ \A c \in Callbacks : Holds(FrameAt(x)', c) <=> Holds(FrameAt(x), c)
  <2> SUFFICES ASSUME NEW u \in Threads, NEW e \in Depths
               PROVE  /\ Counted(frame'[u][e]) <=> Counted(frame[u][e])
                      /\ frame'[u][e].call = "direct" <=> frame[u][e].call = "direct"
                      /\ Counted(frame[u][e]) => frame'[u][e].target = frame[u][e].target
                      /\ \A c \in Callbacks : Holds(frame'[u][e], c) <=> Holds(frame[u][e], c)
    BY DEF Positions, FrameAt, Depths
  <2>1. CASE u = t /\ e = d
    <3>1. frame[u][e] = g /\ frame'[u][e] = f
      BY <1>2, <1>3, <1>6, <2>1
    <3>2. Counted(f) /\ Counted(g) /\ f.call # "direct" /\ g.call # "direct"
      BY <1>2, <1>5 DEF Counted, OnTargetStack
    <3>3. \A c \in Callbacks : Holds(f, c) <=> Holds(g, c)
      BY <1>2, <1>5 DEF Holds, InDispatch
    <3> QED  BY <1>5, <3>1, <3>2, <3>3
  <2>2. CASE u = t /\ e = d + 1
    BY <1>5, <1>6, <1>8, <2>2, IdleFrame, HandleFacts DEF Counted, OnTargetStack, Holds, InDispatch
  <2>3. CASE ~(u = t /\ e \in {d, d + 1})
    BY <1>6, <2>3
  <2> QED  BY <2>1, <2>2, <2>3
<1>12. ActiveBalanced'
  <2>1. \A r \in Targets :
          /\ {x \in Positions : Counted(FrameAt(x)) /\ FrameAt(x).target = r}'
               = {x \in Positions : Counted(FrameAt(x)) /\ FrameAt(x).target = r}
          /\ {x \in Positions : FrameAt(x).call = "direct" /\ FrameAt(x).target = r}'
               = {x \in Positions : FrameAt(x).call = "direct" /\ FrameAt(x).target = r}
    BY <1>11 DEF Counted, OnTargetStack, Positions
  <2>2. \A c \in Callbacks : {x \in Positions : Holds(FrameAt(x), c)}'
                             = {x \in Positions : Holds(FrameAt(x), c)}
    BY <1>11 DEF Holds, InDispatch, Positions
  <2> QED  BY <1>0, <2>1, <2>2 DEF CountInv, ActiveBalanced, CountOf
<1>13. LiveOK'
  BY <1>0 DEF CountInv, LiveOK
<1> QED  BY <1>7, <1>9, <1>10, <1>12, <1>13 DEF CountInv

-----------------------------------------------------------------------------
(* The invariant.                                                          *)

\* Nothing is counted before anything has begun.
LEMMA CountInit == Init => CountInv
<1> SUFFICES ASSUME Init PROVE CountInv
  OBVIOUS
<1>1. TypeOK
  <2>1. (CHOOSE f \in Functions : TRUE) \in Functions
    BY HookAssumption DEF HookAssumption
  <2>2. Idle \in Frame
    BY IdleFrame
  <2>3. 0 \in 0..MaxDepth
    BY HookAssumption DEF HookAssumption
  <2> QED  BY <2>1, <2>2, <2>3 DEF Init, TypeOK, Owner, Target, Callback
<1>2. StackOK
  <2> SUFFICES ASSUME NEW t \in Threads, NEW d \in Depths
               PROVE  /\ FrameOK(frame[t][d])
                      /\ d <= depth[t] <=> frame[t][d].call # "none"
                      /\ ~(d < depth[t])
    BY DEF StackOK
  <2>1. frame[t][d] = Idle /\ depth[t] = 0 /\ d \in Nat /\ d # 0
    BY DEF Init, Depths
  <2> QED  BY <2>1, IdleFrame
<1>3. LiveOK
  BY DEF Init, LiveOK
<1>4. SnapshotOK
  BY IdleFrame DEF Init, SnapshotOK, Depths
<1>5. ActiveBalanced
  <2>1. \A x \in Positions : FrameAt(x) = Idle
    BY DEF Init, FrameAt, Positions
  <2>2. \A x \in Positions : /\ ~Counted(FrameAt(x)) /\ FrameAt(x).call # "direct"
                             /\ \A c \in Callbacks : ~Holds(FrameAt(x), c)
    BY <2>1, IdleFrame DEF Counted, OnTargetStack, Holds, InDispatch
  <2>3. /\ \A r \in Targets : target[r].active = 0 /\ target[r].direct = 0
        /\ \A c \in Callbacks : callback[c].active = 0
    BY DEF Init
  <2>4. /\ \A r \in Targets :
             /\ {x \in Positions : Counted(FrameAt(x)) /\ FrameAt(x).target = r} = {}
             /\ {x \in Positions : FrameAt(x).call = "direct" /\ FrameAt(x).target = r} = {}
        /\ \A c \in Callbacks : {x \in Positions : Holds(FrameAt(x), c)} = {}
    BY <2>2
  <2> QED  BY <2>3, <2>4, FS_EmptySet DEF ActiveBalanced, CountOf
<1> QED  BY <1>1, <1>2, <1>3, <1>4, <1>5 DEF CountInv

\* Every step keeps the invariant.
LEMMA CountNext == CountInv /\ [Next]_vars => CountInv'
<1> SUFFICES ASSUME CountInv, [Next]_vars PROVE CountInv'
  OBVIOUS
<1>1. CASE UNCHANGED vars
  BY <1>1, SharedSame, NoMove DEF vars, threads
<1>2. ASSUME NEW t \in Threads, NEW p \in Plugins, PluginCall(t, p) PROVE CountInv'
  BY <1>2, StartReleaseTargetStep, StartAddStep, DirectCallStep, StartResolveStep,
     StartRemoveStep, SetEnabledStep DEF PluginCall
<1>3. ASSUME NEW t \in Threads, CallStep(t) PROVE CountInv'
  BY <1>3, CollectAgainStep, CollectStep, ResolveStep, ReleaseTargetStep, AddStep, InstallStep,
     AddDoneStep, RemoveStep, RestoreForRemoveStep, AwaitStep, RemoveDoneStep, SetDoneStep,
     DirectReturnsStep DEF CallStep
<1>4. ASSUME NEW t \in Threads, HostCall(t) PROVE CountInv'
  BY <1>4, AuthorizeStep, RestoreStep, DeactivateStep, StartReleaseStep, StartShutdownStep
     DEF HostCall
<1>5. ASSUME NEW t \in Threads, HostStep(t) PROVE CountInv'
  BY <1>5, ActivateStep, DeactivateDoneStep, ReleaseStep, ReleaseOpStep, ReleaseRetryStep,
     ReleaseDrainStep, ReleaseDoneStep, ShutdownRestoreStep, ShutdownWaitedStep,
     ShutdownDestroyStep, ShutdownDoneStep DEF HostStep
<1>6. ASSUME NEW t \in Threads, DispatchStep(t) PROVE CountInv'
  BY <1>6, EnterStep, BindStep, CountStep, SnapshotStep, PickStep, CheckStep, AnswerStep,
     CallOriginalStep, RecallStep, BackInCallbackStep, OriginalStep, OriginalReturnsStep,
     LeaveStep DEF DispatchStep
<1> QED  BY <1>1, <1>2, <1>3, <1>4, <1>5, <1>6 DEF Next

\* Who is in which dispatch or call, at which point of it, and the counts that say
\* so, after any steps of any threads.
THEOREM HookCountInvariant == Spec => []CountInv
BY CountInit, CountNext, PTL DEF Spec

\* The types, for any constants.
THEOREM HookTypeCorrect == Spec => []TypeOK
<1>1. CountInv => TypeOK
  BY DEF CountInv
<1> QED  BY <1>1, HookCountInvariant, PTL

\* The active counts of targets and of callbacks, and the count of direct calls, are the
\* numbers of dispatches, runs and direct calls there are (Dispatch, InvokeCallback,
\* InvokeScalar), for any constants and whatever Risks allows.
THEOREM HookActiveBalanced == Spec => []ActiveBalanced
<1>1. CountInv => ActiveBalanced
  BY DEF CountInv
<1> QED  BY <1>1, HookCountInvariant, PTL

\* A dispatch calls the original at most once, and not at all after a recall.
THEOREM HookOriginalOnce == Spec => []OriginalOnce
<1>1. CountInv => OriginalOnce
  <2> SUFFICES ASSUME CountInv, NEW f \in AllFrames
               PROVE  f.calls <= 1 /\ ~(f.recalled /\ f.calls = 1)
    BY DEF OriginalOnce
  <2>0. PICK t \in Threads : f \in FramesOf(t)
    BY DEF AllFrames
  <2>1. PICK d \in 1..depth[t] : f = frame[t][d]
    BY <2>0 DEF FramesOf
  <2>2. d \in Depths
    BY TypesOf, HookAssumption DEF TypeOK, HookAssumption, Depths
  <2>3. FrameOK(f)
    BY <2>1, <2>2 DEF CountInv, StackOK
  <2>4. CASE f.call = "dispatch"
    BY <2>3, <2>4 DEF FrameOK, DispatchOK
  <2>5. CASE f.call # "dispatch"
    BY <2>3, <2>5 DEF FrameOK
  <2> QED  BY <2>4, <2>5
<1> QED  BY <1>1, HookCountInvariant, PTL
=============================================================================
