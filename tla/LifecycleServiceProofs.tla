----------------------- MODULE LifecycleServiceProofs -----------------------
(***************************************************************************)
(* Proofs about LifecycleService for any plugins, threads and bounds, when *)
(* no plugin is activated while one of its subscriptions is unsubscribed   *)
(* (Overlaps = FALSE): the inductive invariant, that what is quiet, erased *)
(* or shut down is not called, and that the service implements the         *)
(* dispatch layer.                                                         *)
(***************************************************************************)
EXTENDS LifecycleService, FiniteSetTheorems, NaturalsInduction, WellFoundedInduction,
        TLAPS

-----------------------------------------------------------------------------
(* Each action changes at most one frame.                                  *)

\* Only frame d of thread t changes, to f.
Changed(t, d, f) ==
  /\ frame' \in [Threads -> [1..MaxDepth -> Frame]]
  /\ frame'[t][d] = f
  /\ \A u \in Threads, e \in 1..MaxDepth :
       u # t \/ e # d => frame'[u][e] = frame[u][e]

\* A thread inside a call has an innermost frame.
LEMMA TopFrame ==
  ASSUME TypeOK, NEW t \in Threads, depth[t] # 0
  PROVE  depth[t] \in 1..MaxDepth /\ Top(t) \in Frame /\ Top(t) = frame[t][depth[t]]
BY ServiceAssumption DEF TypeOK, Top, ServiceAssumption

\* The fields of a frame have their types.
LEMMA FrameFields ==
  ASSUME TypeOK
  PROVE  \A t \in Threads, d \in 1..MaxDepth :
           /\ frame[t][d] \in Frame
           /\ frame[t][d].sub \in Handles \cup {NoHandle}
           /\ frame[t][d].todo \subseteq Handles
<1> SUFFICES ASSUME NEW t \in Threads, NEW d \in 1..MaxDepth
             PROVE  /\ frame[t][d] \in Frame
                    /\ frame[t][d].sub \in Handles \cup {NoHandle}
                    /\ frame[t][d].todo \subseteq Handles
  OBVIOUS
<1>1. PICK g : g = frame[t][d]
  OBVIOUS
<1>2. g \in Frame
  BY <1>1 DEF TypeOK
<1>3. g.sub \in Handles \cup {NoHandle} /\ g.todo \subseteq Handles
  BY <1>2 DEF Frame
<1> QED  BY <1>1, <1>2, <1>3

\* Replacing frame d of thread t.
LEMMA FramePut ==
  ASSUME TypeOK, NEW t \in Threads, NEW d \in 1..MaxDepth, NEW f \in Frame,
         frame' = [frame EXCEPT ![t] = [frame[t] EXCEPT ![d] = f]]
  PROVE  Changed(t, d, f)
<1> DEFINE w == [frame[t] EXCEPT ![d] = f]
<1>1. frame[t] \in [1..MaxDepth -> Frame]
  BY DEF TypeOK
<1>2. /\ w \in [1..MaxDepth -> Frame] /\ w[d] = f
      /\ \A e \in 1..MaxDepth : e # d => w[e] = frame[t][e]
  BY <1>1
<1>3. frame' = [frame EXCEPT ![t] = w]
  OBVIOUS
<1> HIDE DEF w
<1>4. /\ frame' \in [Threads -> [1..MaxDepth -> Frame]] /\ frame'[t] = w
      /\ \A u \in Threads : u # t => frame'[u] = frame[u]
  BY <1>2, <1>3 DEF TypeOK
<1> QED  BY <1>2, <1>4 DEF Changed

\* SetTop changes the innermost frame only.
LEMMA SetTopChanges ==
  ASSUME TypeOK, NEW t \in Threads, depth[t] # 0, NEW f \in Frame, SetTop(t, f)
  PROVE  Changed(t, depth[t], f) /\ depth' = depth
<1>1. depth[t] \in 1..MaxDepth
  BY TopFrame
<1>2. frame' = [frame EXCEPT ![t] = [frame[t] EXCEPT ![depth[t]] = f]]
  BY DEF SetTop, TypeOK
<1> QED  BY <1>1, <1>2, FramePut DEF SetTop

\* Push changes the frame after the innermost only.
LEMMA PushChanges ==
  ASSUME TypeOK, NEW t \in Threads, CanCall(t), NEW f \in Frame, Push(t, f)
  PROVE  /\ depth[t] + 1 \in 1..MaxDepth
         /\ Changed(t, depth[t] + 1, f)
         /\ depth' \in [Threads -> 0..MaxDepth]
         /\ depth'[t] = depth[t] + 1
         /\ \A u \in Threads : u # t => depth'[u] = depth[u]
<1>1. depth[t] + 1 \in 1..MaxDepth
  BY ServiceAssumption DEF TypeOK, CanCall, ServiceAssumption
<1>2. frame' = [frame EXCEPT ![t] = [frame[t] EXCEPT ![depth[t] + 1] = f]]
  BY DEF Push, TypeOK
<1>3. Changed(t, depth[t] + 1, f)
  BY <1>1, <1>2, FramePut
<1> QED  BY <1>1, <1>3 DEF TypeOK, Push

\* The empty frame is a frame.
LEMMA NoneFrame == None \in Frame
BY DEF None, Frame, Calls, Points

\* Pop empties the innermost frame only.
LEMMA PopChanges ==
  ASSUME TypeOK, NEW t \in Threads, depth[t] # 0, Pop(t)
  PROVE  /\ Changed(t, depth[t], None)
         /\ depth' \in [Threads -> 0..MaxDepth]
         /\ depth'[t] = depth[t] - 1
         /\ \A u \in Threads : u # t => depth'[u] = depth[u]
<1>1. depth[t] \in 1..MaxDepth
  BY TopFrame
<1>2. frame' = [frame EXCEPT ![t] = [frame[t] EXCEPT ![depth[t]] = None]]
  BY DEF Pop, TypeOK
<1>3. Changed(t, depth[t], None)
  BY <1>1, <1>2, NoneFrame, FramePut
<1>4. depth[t] - 1 \in 0..MaxDepth
  BY <1>1, ServiceAssumption DEF ServiceAssumption
<1> QED  BY <1>3, <1>4 DEF TypeOK, Pop

\* A call that changes no frame.
LEMMA NothingChanges ==
  ASSUME TypeOK, NEW t \in Threads, CanCall(t), UNCHANGED threads
  PROVE  /\ 1 \in 1..MaxDepth
         /\ frame[t][1] \in Frame
         /\ Changed(t, 1, frame[t][1]) /\ depth' = depth
<1>1. 1 \in 1..MaxDepth
  BY ServiceAssumption DEF TypeOK, CanCall, ServiceAssumption
<1> QED  BY <1>1 DEF TypeOK, threads, Changed

-----------------------------------------------------------------------------
(* StackOK.                                                                *)

\* SetTop keeps the order of the frames.
LEMMA SetTopStack ==
  ASSUME TypeOK, StackOK, NEW t \in Threads, depth[t] # 0,
         NEW f \in Frame, SetTop(t, f), FrameOK(f), f.at # "none"
  PROVE  StackOK'
<1>1. Changed(t, depth[t], f) /\ depth' = depth /\ depth[t] \in 1..MaxDepth
  BY SetTopChanges, TopFrame
<1>2. SUFFICES ASSUME NEW u \in Threads, NEW e \in 1..MaxDepth
               PROVE  /\ FrameOK(frame[u][e])'
                      /\ (e > depth[u] <=> frame[u][e].at = "none")'
                      /\ (e < depth[u] => frame[u][e].at = "in")'
  BY DEF StackOK, Depths
<1>3. FrameOK(frame'[u][e])
  BY <1>1 DEF StackOK, Depths, Changed
<1>4. FrameOK(frame[u][e])' <=> FrameOK(frame'[u][e])
  BY DEF FrameOK
<1>5. depth[u] \in Nat /\ e \in Nat
  BY ServiceAssumption DEF TypeOK, ServiceAssumption
<1>6. CASE u = t /\ e = depth[t]
  BY <1>1, <1>3, <1>4, <1>5, <1>6 DEF Changed
<1>7. CASE ~(u = t /\ e = depth[t])
  BY <1>1, <1>3, <1>4, <1>7 DEF Changed, StackOK, Depths
<1> QED  BY <1>6, <1>7

\* A call begun from a callback keeps the order of the frames.
LEMMA PushStack ==
  ASSUME TypeOK, StackOK, NEW t \in Threads, CanCall(t),
         NEW f \in Frame, Push(t, f), FrameOK(f), f.at # "none"
  PROVE  StackOK'
<1> DEFINE d == depth[t] + 1
<1>1. /\ Changed(t, d, f) /\ d \in 1..MaxDepth /\ depth'[t] = d
      /\ \A u \in Threads : u # t => depth'[u] = depth[u]
  BY PushChanges
<1>2. SUFFICES ASSUME NEW u \in Threads, NEW e \in 1..MaxDepth
               PROVE  /\ FrameOK(frame[u][e])'
                      /\ (e > depth[u] <=> frame[u][e].at = "none")'
                      /\ (e < depth[u] => frame[u][e].at = "in")'
  BY DEF StackOK, Depths
<1>3. FrameOK(frame'[u][e])
  BY <1>1 DEF StackOK, Depths, Changed
<1>4. FrameOK(frame[u][e])' <=> FrameOK(frame'[u][e])
  BY DEF FrameOK
<1>5. depth[u] \in Nat /\ depth[t] \in Nat /\ e \in Nat
  BY ServiceAssumption DEF TypeOK, ServiceAssumption
<1>6. CASE u # t
  BY <1>1, <1>3, <1>4, <1>6 DEF Changed, StackOK, Depths
<1>7. CASE u = t /\ e = d
  BY <1>1, <1>3, <1>4, <1>5, <1>7 DEF Changed
<1>8. CASE u = t /\ e # d
  <2>1. frame'[u][e] = frame[u][e]
    BY <1>1, <1>8 DEF Changed
  <2>2. e > d <=> e > depth[t]
    BY <1>5, <1>8
  <2>3. e < d => e < depth[t] \/ (e = depth[t] /\ depth[t] # 0)
    BY <1>5, <1>8
  <2>4. e < d => frame[u][e].at = "in"
    BY <2>3, <1>8 DEF CanCall, StackOK, Depths, Top
  <2>5. e > depth[t] <=> frame[t][e].at = "none"
    BY DEF StackOK, Depths
  <2> QED  BY <1>1, <1>3, <1>4, <1>8, <2>1, <2>2, <2>4, <2>5
<1> QED  BY <1>6, <1>7, <1>8

\* The empty frame is well formed.
LEMMA NoneOK == FrameOK(None)
BY ServiceAssumption DEF FrameOK, None, NoHandle, ServiceAssumption

\* The end of a call keeps the order of the frames.
LEMMA PopStack ==
  ASSUME TypeOK, StackOK, NEW t \in Threads, depth[t] # 0, Pop(t)
  PROVE  StackOK'
<1> DEFINE d == depth[t]
<1>1. /\ Changed(t, d, None) /\ d \in 1..MaxDepth /\ depth'[t] = d - 1
      /\ \A u \in Threads : u # t => depth'[u] = depth[u]
  BY PopChanges, TopFrame
<1>2. SUFFICES ASSUME NEW u \in Threads, NEW e \in 1..MaxDepth
               PROVE  /\ FrameOK(frame[u][e])'
                      /\ (e > depth[u] <=> frame[u][e].at = "none")'
                      /\ (e < depth[u] => frame[u][e].at = "in")'
  BY DEF StackOK, Depths
<1>3. FrameOK(frame'[u][e])
  BY <1>1, NoneOK DEF StackOK, Depths, Changed
<1>4. FrameOK(frame[u][e])' <=> FrameOK(frame'[u][e])
  BY DEF FrameOK
<1>5. depth[u] \in Nat /\ e \in Nat
  BY ServiceAssumption DEF TypeOK, ServiceAssumption
<1>6. CASE u # t
  BY <1>1, <1>3, <1>4, <1>6 DEF Changed, StackOK, Depths
<1>7. CASE u = t /\ e = d
  BY <1>1, <1>3, <1>4, <1>5, <1>7 DEF Changed, None
<1>8. CASE u = t /\ e # d
  <2>1. frame'[u][e] = frame[u][e]
    BY <1>1, <1>8 DEF Changed
  <2>2. (e > d - 1 <=> e > d) /\ (e < d - 1 => e < d)
    BY <1>1, <1>5, <1>8
  <2> QED  BY <1>1, <1>3, <1>4, <1>8, <2>1, <2>2 DEF StackOK, Depths
<1> QED  BY <1>6, <1>7, <1>8

\* A step that leaves the frames alone keeps their order.
LEMMA NothingStack ==
  ASSUME StackOK, UNCHANGED threads
  PROVE  StackOK'
BY DEF StackOK, FrameOK, threads

-----------------------------------------------------------------------------
(* HandlesOK, OneAtATime, NoOverlap.                                       *)

\* No handle is given out, and none that is not given out is used.
LEMMA HandlesKept ==
  ASSUME TypeOK, HandlesOK, NEW t \in Threads, NEW d \in 1..MaxDepth,
         NEW f \in Frame, Changed(t, d, f), next' = next,
         \A s \in Handles : IF s < next THEN sub'[s].owner = sub[s].owner
                                        ELSE sub'[s] = sub[s],
         f.sub < next, \A s \in f.todo : s < next
  PROVE  HandlesOK'
<1>1. ASSUME NEW s \in Handles
      PROVE  IF s < next THEN sub'[s].owner \in Plugins
                         ELSE sub'[s] = NoSubscription
  BY DEF HandlesOK
<1>2. ASSUME NEW u \in Threads, NEW e \in 1..MaxDepth
      PROVE  /\ frame'[u][e].sub < next
             /\ \A s \in frame'[u][e].todo : s < next
  BY DEF HandlesOK, Changed, Depths
<1> QED  BY <1>1, <1>2 DEF HandlesOK, Depths, Handles, NoSubscription

\* A frame that takes neither a plugin nor the registry lock from another
\* leaves both exclusive.
LEMMA ExclusiveKept ==
  ASSUME OneAtATime, NEW t \in Threads, NEW d \in 1..MaxDepth, NEW f,
         Changed(t, d, f),
         \A u \in Threads, e \in 1..MaxDepth :
           u # t \/ e # d => ~Exclusive(f, frame[u][e])
  PROVE  OneAtATime'
<1> SUFFICES ASSUME NEW u \in Threads, NEW e \in 1..MaxDepth,
                    NEW v \in Threads, NEW b \in 1..MaxDepth,
                    Exclusive(frame'[u][e], frame'[v][b])
             PROVE  u = v /\ e = b
  BY DEF OneAtATime, Depths, Exclusive
<1>1. Exclusive(frame'[v][b], frame'[u][e])
  BY DEF Exclusive
<1>2. CASE u = t /\ e = d
  BY <1>2 DEF Changed
<1>3. CASE v = t /\ b = d
  BY <1>1, <1>3 DEF Changed
<1>4. CASE ~(u = t /\ e = d) /\ ~(v = t /\ b = d)
  BY <1>4 DEF Changed, OneAtATime, Depths
<1> QED  BY <1>2, <1>3, <1>4

\* The frame goes on with the plugin and the lock it had.
LEMMA SameClaims ==
  ASSUME OneAtATime, NEW t \in Threads, NEW d \in 1..MaxDepth, NEW f,
         f.plugin \in Plugins => f.plugin = frame[t][d].plugin,
         f.at \in {"enabling", "disabling"} =>
           frame[t][d].at \in {"enabling", "disabling"}
  PROVE  \A u \in Threads, e \in 1..MaxDepth :
           u # t \/ e # d => ~Exclusive(f, frame[u][e])
BY DEF OneAtATime, Exclusive, Depths

\* Only an innermost frame can hold the lock.
LEMMA LockFree ==
  ASSUME TypeOK, StackOK, RegistryFree
  PROVE  \A u \in Threads, e \in 1..MaxDepth :
           frame[u][e].at \notin {"enabling", "disabling"}
<1> SUFFICES ASSUME NEW u \in Threads, NEW e \in 1..MaxDepth
             PROVE  frame[u][e].at \notin {"enabling", "disabling"}
  OBVIOUS
<1>1. depth[u] \in Nat /\ e \in Nat /\ e # 0
  BY ServiceAssumption DEF TypeOK, ServiceAssumption
<1>2. CASE e = depth[u]
  BY <1>1, <1>2 DEF RegistryFree, At, Top
<1>3. CASE e # depth[u]
  BY <1>1, <1>3 DEF StackOK, Depths
<1> QED  BY <1>2, <1>3

\* A new call takes a plugin nobody works on, or the lock when it is free.
LEMMA FreshClaims ==
  ASSUME TypeOK, StackOK, NEW f,
         f.plugin \in Plugins => ~InHand(f.plugin),
         f.at \in {"enabling", "disabling"} => RegistryFree
  PROVE  \A u \in Threads, e \in 1..MaxDepth : ~Exclusive(f, frame[u][e])
BY LockFree DEF Exclusive, InHand

\* No activation begins during an Unsubscribe of the plugin, nor the converse.
LEMMA OverlapKept ==
  ASSUME NoOverlap, HandlesOK, NEW t \in Threads, NEW d \in 1..MaxDepth, NEW f,
         TypeOK, StackOK, FrameOK(f), Changed(t, d, f),
         \A s \in Handles : s < next => sub'[s].owner = sub[s].owner,
         f.sub \in Handles => f.sub < next,
         f.sub \in Handles \cup {NoHandle},
         f.at = "enabling" =>
           \A u \in Threads, e \in 1..MaxDepth :
             frame[u][e].call = "unsubscribe" =>
               sub[frame[u][e].sub].owner # f.plugin,
         f.call = "unsubscribe" =>
           \A u \in Threads, e \in 1..MaxDepth :
             frame[u][e].at = "enabling" => sub[f.sub].owner # frame[u][e].plugin
  PROVE  NoOverlap'
<1> SUFFICES ASSUME NEW u \in Threads, NEW e \in 1..MaxDepth,
                    NEW v \in Threads, NEW b \in 1..MaxDepth,
                    frame'[u][e].at = "enabling",
                    frame'[v][b].call = "unsubscribe"
             PROVE  sub'[frame'[v][b].sub].owner # frame'[u][e].plugin
  BY DEF NoOverlap, Depths
<1>1. f.call = "unsubscribe" => f.sub \in Handles
  BY DEF FrameOK
<1>2. \A w \in Threads, c \in 1..MaxDepth :
         frame[w][c].call = "unsubscribe" =>
           frame[w][c].sub \in Handles /\ frame[w][c].sub < next
  <2> SUFFICES ASSUME NEW w \in Threads, NEW c \in 1..MaxDepth,
                      frame[w][c].call = "unsubscribe"
               PROVE  frame[w][c].sub \in Handles /\ frame[w][c].sub < next
    OBVIOUS
  <2>1. frame[w][c].sub \in Handles \cup {NoHandle}
    BY FrameFields
  <2>2. frame[w][c].sub # NoHandle
    BY DEF StackOK, FrameOK, Depths
  <2> QED  BY <2>1, <2>2 DEF HandlesOK, Depths
<1>3. CASE v = t /\ b = d
  <2>1. frame'[v][b] = f
    BY <1>3 DEF Changed
  <2>2. sub'[f.sub].owner = sub[f.sub].owner
    BY <2>1, <1>1
  <2>3. CASE u = t /\ e = d
    BY <2>1, <2>3, <1>3 DEF FrameOK
  <2>4. CASE ~(u = t /\ e = d)
    BY <2>1, <2>2, <2>4 DEF Changed
  <2> QED  BY <2>3, <2>4
<1>4. CASE ~(v = t /\ b = d)
  <2>1. frame'[v][b] = frame[v][b]
    BY <1>4 DEF Changed
  <2>2. sub'[frame[v][b].sub].owner = sub[frame[v][b].sub].owner
    BY <2>1, <1>2
  <2>3. CASE u = t /\ e = d
    BY <2>1, <2>2, <2>3 DEF Changed
  <2>4. CASE ~(u = t /\ e = d)
    BY <2>1, <2>2, <2>4 DEF Changed, NoOverlap, Depths
  <2> QED  BY <2>3, <2>4
<1> QED  BY <1>3, <1>4

-----------------------------------------------------------------------------
(* The calls of the host: most steps enable nothing, register nothing and  *)
(* enter no disabled subscription.                                         *)

\* A step that enables, registers and enters nothing that was disabled.
Calm ==
  \A s \in Handles :
    /\ sub'[s].owner = sub[s].owner
    /\ sub'[s].enabled => sub[s].enabled
    /\ sub'[s].registered => sub[s].registered
    /\ Running(s)' => Running(s) \/ sub[s].enabled

\* When a step that changes one frame is calm.
LEMMA CalmStep ==
  ASSUME NEW t \in Threads, NEW d \in 1..MaxDepth, NEW f, Changed(t, d, f),
         \A s \in Handles : /\ sub'[s].owner = sub[s].owner
                            /\ sub'[s].enabled => sub[s].enabled
                            /\ sub'[s].registered => sub[s].registered,
         f.at = "in" => f = frame[t][d] \/ sub[f.sub].enabled
  PROVE  Calm
<1> SUFFICES ASSUME NEW s \in Handles, Running(s)', ~sub[s].enabled
             PROVE  Running(s)
  BY DEF Calm
<1>1. PICK u \in Threads, e \in 1..MaxDepth : frame'[u][e].at = "in" /\ frame'[u][e].sub = s
  BY DEF Running, Inside
<1>2. frame'[u][e] = frame[u][e]
  BY <1>1 DEF Changed
<1> QED  BY <1>1, <1>2 DEF Running, Inside

\* What a call has achieved is not undone by a calm step of another.
LEMMA AchievedKept ==
  ASSUME Calm, NEW g \in Frame, FrameOK(g), Achieved(g),
         g.plugin \in Plugins => phase'[g.plugin] = phase[g.plugin],
         g.call = "shutdown" => shutdown' # "no",
         g.at = "enabling" => /\ shutdown' = shutdown
                              /\ \A s \in g.todo : sub'[s].registered
  PROVE  Achieved(g)'
<1>1. ASSUME NEW s \in Covers(g)' PROVE s \in Covers(g) /\ s \in Handles
  BY <1>1 DEF Calm, Covers, Scope, Owned, Registered, Frame, FrameOK
<1>2. g.at = "enabling" => phase'[g.plugin] = "running" /\ shutdown' = "no"
  BY DEF Achieved, FrameOK
<1>3. g.at = "enabling" => (g.todo \subseteq Owned(g.plugin))'
  BY DEF Achieved, Owned, Registered, Calm
<1>4. g.call \in {"deactivate", "release"} => phase'[g.plugin] \in {"closing", "quiet"}
  BY DEF Achieved, FrameOK
<1>5. ASSUME g.at = "disabling", NEW s \in Covers(g)' \ g.todo PROVE ~sub'[s].enabled
  BY <1>1, <1>5 DEF Achieved, Calm
<1>6. ASSUME g.at \in {"waiting", "erase"}, NEW s \in Covers(g)'
      PROVE  ~sub'[s].enabled /\ (s \in g.todo \/ ~Running(s)')
  BY <1>1, <1>6 DEF Achieved, Calm
<1> QED  BY <1>2, <1>3, <1>4, <1>5, <1>6 DEF Achieved

\* A calm step keeps what all calls have achieved if its own call does.
LEMMA CallsKept ==
  ASSUME TypeOK, StackOK, CallsOK, Calm,
         NEW t \in Threads, NEW d \in 1..MaxDepth, NEW f,
         Changed(t, d, f), Achieved(f)',
         \A u \in Threads, e \in 1..MaxDepth :
           u # t \/ e # d =>
             LET g == frame[u][e] IN
             /\ g.plugin \in Plugins => phase'[g.plugin] = phase[g.plugin]
             /\ g.call = "shutdown" => shutdown' # "no"
             /\ g.at = "enabling" => /\ shutdown' = shutdown
                                     /\ \A s \in g.todo : sub'[s].registered
  PROVE  CallsOK'
<1> SUFFICES ASSUME NEW u \in Threads, NEW e \in 1..MaxDepth
             PROVE  Achieved(frame[u][e])'
  BY DEF CallsOK, Depths
<1>1. CASE u = t /\ e = d
  BY <1>1 DEF Changed, Achieved, Covers, Scope
<1>2. CASE ~(u = t /\ e = d)
  <2>1. PICK g \in Frame : g = frame[u][e]
    BY DEF TypeOK
  <2>2. FrameOK(g) /\ Achieved(g)
    BY <2>1 DEF StackOK, CallsOK, Depths
  <2>3. /\ g.plugin \in Plugins => phase'[g.plugin] = phase[g.plugin]
        /\ g.call = "shutdown" => shutdown' # "no"
        /\ g.at = "enabling" => /\ shutdown' = shutdown
                                /\ \A s \in g.todo : sub'[s].registered
    BY <1>2, <2>1
  <2>4. frame'[u][e] = g
    BY <1>2, <2>1 DEF Changed
  <2>5. Achieved(g)'
    BY <2>2, <2>3, AchievedKept
  <2> QED  BY <2>4, <2>5 DEF Achieved, Covers, Scope
<1> QED  BY <1>1, <1>2

-----------------------------------------------------------------------------
(* The properties, on a calm step.                                         *)

\* A calm step that erases only silent subscriptions keeps ErasedIsSilent.
LEMMA ErasedKept ==
  ASSUME Calm, ErasedIsSilent,
         \A s \in Handles : sub[s].registered /\ ~sub'[s].registered =>
                              ~sub[s].enabled /\ ~Running(s)
  PROVE  ErasedIsSilent'
BY DEF Calm, ErasedIsSilent

\* A calm step that makes only silent plugins quiet keeps QuietIsSilent.
LEMMA QuietKept ==
  ASSUME Calm, QuietIsSilent,
         \A p \in Plugins : phase'[p] \in {"quiet", "gone"} =>
           \/ phase[p] \in {"quiet", "gone"}
           \/ \A s \in Handles : sub[s].owner = p => ~sub[s].enabled /\ ~Running(s)
  PROVE  QuietIsSilent'
BY DEF Calm, QuietIsSilent

\* A calm step that does not take enabled subscriptions out of Shutdown's loop
\* keeps ShutdownOK.
LEMMA ShutdownKept ==
  ASSUME Calm, ShutdownOK, shutdown' = shutdown,
         NEW t \in Threads, NEW d \in 1..MaxDepth, NEW f, Changed(t, d, f),
         \A s \in Handles :
           /\ frame[t][d].call = "shutdown" /\ frame[t][d].at = "disabling"
           /\ s \in frame[t][d].todo /\ sub'[s].enabled
           => f.call = "shutdown" /\ f.at = "disabling" /\ s \in f.todo
  PROVE  ShutdownOK'
<1>1. ASSUME shutdown' # "no", NEW s \in Handles, sub'[s].enabled
      PROVE  \E u \in Threads, e \in Depths :
               /\ frame'[u][e].call = "shutdown" /\ frame'[u][e].at = "disabling"
               /\ s \in frame'[u][e].todo
  <2>1. PICK u \in Threads, e \in Depths :
          /\ frame[u][e].call = "shutdown" /\ frame[u][e].at = "disabling"
          /\ s \in frame[u][e].todo
    BY <1>1 DEF ShutdownOK, Calm
  <2>2. CASE u = t /\ e = d
    BY <1>1, <2>1, <2>2 DEF Changed
  <2>3. CASE ~(u = t /\ e = d)
    BY <2>1, <2>3 DEF Changed, Depths
  <2> QED  BY <2>2, <2>3
<1>2. shutdown' = "complete" => Registered' = {}
  BY DEF ShutdownOK, Registered, Calm
<1> QED  BY <1>1, <1>2 DEF ShutdownOK

-----------------------------------------------------------------------------
(* ActiveBalanced.                                                         *)

\* The frame is between EnterActive and LeaveActive of the subscription.
Holds(f, s) == f.at \in {"check", "in"} /\ f.sub = s

\* Finitely many dispatches hold a subscription.
LEMMA HoldersFinite ==
  ASSUME NEW s PROVE IsFiniteSet(Holders(s))
<1>1. IsFiniteSet(Threads \X (1..MaxDepth))
  <2>1. IsFiniteSet(1..MaxDepth)
    BY ServiceAssumption, FS_Interval DEF ServiceAssumption
  <2>2. IsFiniteSet(Threads)
    BY ServiceAssumption DEF ServiceAssumption
  <2> QED  BY <2>1, <2>2, FS_Product
<1> QED  BY <1>1, FS_Subset DEF Holders

\* Which frames hold a subscription.
LEMMA HoldersMember ==
  ASSUME NEW s, NEW t \in Threads, NEW d \in 1..MaxDepth
  PROVE  <<t, d>> \in Holders(s) <=> Holds(frame[t][d], s)
BY DEF Holders, Holds

\* A frame that holds s as it did before, or not.
LEMMA HoldersKept ==
  ASSUME NEW s, NEW t \in Threads, NEW d \in 1..MaxDepth, NEW f, Changed(t, d, f),
         Holds(f, s) <=> Holds(frame[t][d], s)
  PROVE  Holders(s)' = Holders(s)
BY DEF Holders, Holds, Changed

\* A frame begins to hold a subscription.
LEMMA HoldersGain ==
  ASSUME NEW s, NEW t \in Threads, NEW d \in 1..MaxDepth, NEW f, Changed(t, d, f),
         Holds(f, s)
  PROVE  Holders(s)' = Holders(s) \cup {<<t, d>>}
BY DEF Holders, Holds, Changed

\* A frame ceases to hold a subscription.
LEMMA HoldersLoss ==
  ASSUME NEW s, NEW t \in Threads, NEW d \in 1..MaxDepth, NEW f, Changed(t, d, f),
         ~Holds(f, s)
  PROVE  Holders(s)' = Holders(s) \ {<<t, d>>}
BY DEF Holders, Holds, Changed

\* A step that neither counts nor changes who holds what.
LEMMA BalancedKept ==
  ASSUME ActiveBalanced, NEW t \in Threads, NEW d \in 1..MaxDepth, NEW f,
         Changed(t, d, f),
         \A s \in Handles : /\ sub'[s].active = sub[s].active
                            /\ Holds(f, s) <=> Holds(frame[t][d], s)
  PROVE  ActiveBalanced'
BY HoldersKept DEF ActiveBalanced

\* fetch_add counts the frame that begins to hold the subscription.
LEMMA BalancedGain ==
  ASSUME ActiveBalanced, NEW t \in Threads, NEW d \in 1..MaxDepth, NEW f,
         Changed(t, d, f), NEW r \in Handles,
         Holds(f, r), \A s \in Handles : ~Holds(frame[t][d], s),
         \A s \in Handles : sub'[s].active = IF s = r THEN sub[s].active + 1
                                                      ELSE sub[s].active
  PROVE  ActiveBalanced'
<1> SUFFICES ASSUME NEW s \in Handles PROVE (sub[s].active = Cardinality(Holders(s)))'
  BY DEF ActiveBalanced
<1>1. CASE s = r
  <2>1. Holders(s)' = Holders(s) \cup {<<t, d>>}
    BY <1>1, HoldersGain
  <2>2. <<t, d>> \notin Holders(s)
    BY HoldersMember
  <2>3. Cardinality(Holders(s)') = Cardinality(Holders(s)) + 1
    BY <2>1, <2>2, HoldersFinite, FS_AddElement
  <2> QED  BY <1>1, <2>3 DEF ActiveBalanced
<1>2. CASE s # r
  <2>1. Holders(s)' = Holders(s)
    BY <1>2, HoldersKept DEF Holds
  <2> QED  BY <1>2, <2>1 DEF ActiveBalanced
<1> QED  BY <1>1, <1>2

\* fetch_sub counts the frame that ceases to.
LEMMA BalancedLoss ==
  ASSUME ActiveBalanced, NEW t \in Threads, NEW d \in 1..MaxDepth, NEW f,
         Changed(t, d, f), NEW r \in Handles,
         Holds(frame[t][d], r), \A s \in Handles : ~Holds(f, s),
         \A s \in Handles : sub'[s].active = IF s = r THEN sub[s].active - 1
                                                      ELSE sub[s].active
  PROVE  ActiveBalanced'
<1> SUFFICES ASSUME NEW s \in Handles PROVE (sub[s].active = Cardinality(Holders(s)))'
  BY DEF ActiveBalanced
<1>1. CASE s = r
  <2>1. Holders(s)' = Holders(s) \ {<<t, d>>}
    BY HoldersLoss
  <2>2. <<t, d>> \in Holders(s)
    BY <1>1, HoldersMember
  <2>3. Cardinality(Holders(s)') = Cardinality(Holders(s)) - 1
    BY <2>1, <2>2, HoldersFinite, FS_RemoveElement
  <2> QED  BY <1>1, <2>3 DEF ActiveBalanced
<1>2. CASE s # r
  <2>1. Holders(s)' = Holders(s)
    BY <1>2, HoldersKept DEF Holds
  <2> QED  BY <1>2, <2>1 DEF ActiveBalanced
<1> QED  BY <1>1, <1>2

\* What WaitForZero establishes.
LEMMA NobodyInside ==
  ASSUME ActiveBalanced, NEW s \in Handles, sub[s].active = 0
  PROVE  ~Running(s)
<1>1. Holders(s) = {}
  BY HoldersFinite, FS_EmptySet DEF ActiveBalanced
<1> SUFFICES ASSUME NEW t \in Threads, NEW d \in 1..MaxDepth, Inside(t, d, s)
             PROVE  FALSE
  BY DEF Running
<1> QED  BY <1>1, HoldersMember DEF Inside, Holds

\* The count cannot fall below the callbacks that are running.
LEMMA ActivePositive ==
  ASSUME TypeOK, ActiveBalanced, NEW t \in Threads, NEW d \in 1..MaxDepth,
         NEW s \in Handles, Holds(frame[t][d], s)
  PROVE  sub[s].active \in Nat \ {0}
<1>1. <<t, d>> \in Holders(s)
  BY HoldersMember
<1>2. Cardinality(Holders(s)) # 0
  BY <1>1, HoldersFinite, FS_EmptySet
<1> QED  BY <1>2 DEF ActiveBalanced, TypeOK, Subscription

-----------------------------------------------------------------------------
(* Steps of a kind.                                                        *)

\* What the invariant says of the innermost frame.
LEMMA TopFacts ==
  ASSUME TypeOK, IInv, NEW t \in Threads, depth[t] # 0
  PROVE  \E d \in 1..MaxDepth, g \in Frame :
           /\ d = depth[t] /\ g = Top(t) /\ g = frame[t][d]
           /\ FrameOK(g) /\ Achieved(g)
           /\ g.sub < next /\ \A s \in g.todo : s < next
BY TopFrame DEF IInv, StackOK, CallsOK, HandlesOK, Depths

\* A frame that loses handles to do, or moves to another point.
LEMMA FrameUpdate ==
  ASSUME NEW g \in Frame
  PROVE  /\ \A s : [g EXCEPT !.todo = @ \ {s}] \in Frame
         /\ \A at \in Points : [g EXCEPT !.at = at] \in Frame
         /\ \A at \in Points, S \in SUBSET Handles :
              [g EXCEPT !.at = at, !.todo = S] \in Frame
BY DEF Frame

\* What the frames that are not changed need of a step.
OthersUntouched(t, d) ==
  \A u \in Threads, e \in 1..MaxDepth :
    u # t \/ e # d =>
      LET g == frame[u][e] IN
      /\ g.plugin \in Plugins => phase'[g.plugin] = phase[g.plugin]
      /\ g.call = "shutdown" => shutdown' # "no"
      /\ g.at = "enabling" => /\ shutdown' = shutdown
                              /\ \A s \in g.todo : sub'[s].registered

\* A calm step that replaces the innermost frame of a thread and leaves
\* subscriptions, phases and shutdown alone.
LEMMA SetTopStep ==
  ASSUME TypeOK, IInv, NEW t \in Threads, depth[t] # 0,
         NEW d \in 1..MaxDepth, d = depth[t], NEW g \in Frame, g = frame[t][d],
         NEW f \in Frame, SetTop(t, f), UNCHANGED <<sub, next, phase, shutdown>>,
         f.call = g.call, f.plugin = g.plugin, f.sub = g.sub,
         \A s \in f.todo : s < next,
         f.at \notin {"none", "check", "in"}, g.at \notin {"check", "in"},
         f.at \in {"enabling", "disabling"} =>
           g.at \in {"enabling", "disabling"} \/ RegistryFree,
         f.at = "enabling" => g.at = "enabling",
         g.at = "disabling" /\ g.call = "shutdown" =>
           \A s \in g.todo : sub[s].enabled => f.at = "disabling" /\ s \in f.todo,
         FrameOK(f), Achieved(f)
  PROVE  TypeOK' /\ IInv'
<1>1. Changed(t, d, f) /\ depth' = depth
  BY SetTopChanges
<1>2. TypeOK'
  BY <1>1 DEF TypeOK, Changed
<1>3. StackOK'
  BY SetTopStack DEF IInv
<1>4. Calm
  BY <1>1, CalmStep
<1>5. HandlesOK'
  <2>1. g.sub < next
    BY DEF IInv, HandlesOK, Depths
  <2> QED  BY <1>1, <2>1, HandlesKept DEF IInv
<1>6. OneAtATime'
  <2>1. \A u \in Threads, e \in 1..MaxDepth : u # t \/ e # d => ~Exclusive(f, frame[u][e])
    <3>1. CASE f.at \in {"enabling", "disabling"} /\ g.at \notin {"enabling", "disabling"}
      BY <3>1, LockFree DEF IInv, OneAtATime, Exclusive, Depths
    <3>2. CASE ~(f.at \in {"enabling", "disabling"} /\ g.at \notin {"enabling", "disabling"})
      BY <3>2, SameClaims DEF IInv
    <3> QED  BY <3>1, <3>2
  <2> QED  BY <1>1, <2>1, ExclusiveKept DEF IInv
<1>7. NoOverlap'
  <2>1. g.sub < next /\ f.sub \in Handles \cup {NoHandle}
    BY DEF IInv, HandlesOK, Depths, Frame
  <2>2. f.at = "enabling" =>
          \A u \in Threads, e \in 1..MaxDepth :
            frame[u][e].call = "unsubscribe" => sub[frame[u][e].sub].owner # f.plugin
    BY DEF IInv, NoOverlap, Depths
  <2>3. f.call = "unsubscribe" =>
          \A u \in Threads, e \in 1..MaxDepth :
            frame[u][e].at = "enabling" => sub[f.sub].owner # frame[u][e].plugin
    BY ZenonT(60) DEF IInv, NoOverlap, Depths
  <2> QED  BY <1>1, <2>1, <2>2, <2>3, OverlapKept DEF IInv
<1>8. CallsOK'
  <2>1. Achieved(f)'
    BY <1>4, AchievedKept DEF Achieved, Owned, Registered
  <2>2. OthersUntouched(t, d)
    BY DEF OthersUntouched, IInv, CallsOK, Achieved, Owned, Registered, Depths
  <2> QED  BY <1>1, <1>4, <2>1, <2>2, CallsKept DEF IInv, OthersUntouched
<1>9. ErasedIsSilent' /\ QuietIsSilent'
  BY <1>4, ErasedKept, QuietKept DEF IInv
<1>10. ShutdownOK'
  BY <1>1, <1>4, ShutdownKept DEF IInv
<1>11. ActiveBalanced'
  BY <1>1, BalancedKept DEF IInv, Holds
<1> QED  BY <1>2, <1>3, <1>5, <1>6, <1>7, <1>8, <1>9, <1>10, <1>11 DEF IInv

\* A calm step that changes one frame to f.
LEMMA FrameStep ==
  ASSUME TypeOK, IInv, NEW t \in Threads, NEW d \in 1..MaxDepth, NEW f \in Frame,
         Changed(t, d, f), FrameOK(f), StackOK', depth' \in [Threads -> 0..MaxDepth],
         sub' \in [Handles -> Subscription], phase' \in [Plugins -> Phases],
         shutdown' \in {"no", "begun", "complete"}, next' = next, Calm,
         \A s \in Handles : s >= next => sub'[s] = sub[s],
         f.sub < next, \A s \in f.todo : s < next,
         \A u \in Threads, e \in 1..MaxDepth :
           u # t \/ e # d => ~Exclusive(f, frame[u][e]),
         f.at = "enabling" =>
           \A u \in Threads, e \in 1..MaxDepth :
             frame[u][e].call = "unsubscribe" => sub[frame[u][e].sub].owner # f.plugin,
         f.call = "unsubscribe" => RegistryFree,
         Achieved(f)', OthersUntouched(t, d),
         \A s \in Handles : sub[s].registered /\ ~sub'[s].registered =>
                              ~sub[s].enabled /\ ~Running(s),
         \A p \in Plugins : phase'[p] \in {"quiet", "gone"} =>
           \/ phase[p] \in {"quiet", "gone"}
           \/ \A s \in Handles : sub[s].owner = p => ~sub[s].enabled /\ ~Running(s),
         ShutdownOK', ActiveBalanced'
  PROVE  TypeOK' /\ IInv'
<1>1. TypeOK'
  BY DEF TypeOK, Changed
<1>2. HandlesOK'
  <2>1. next \in Nat /\ \A s \in Handles : s \in Nat
    BY DEF TypeOK, Handles
  <2>2. \A s \in Handles : IF s < next THEN sub'[s].owner = sub[s].owner
                                       ELSE sub'[s] = sub[s]
    BY <2>1 DEF Calm
  <2> QED  BY <2>2, HandlesKept DEF IInv
<1>3. OneAtATime'
  BY ExclusiveKept DEF IInv
<1>4. NoOverlap'
  <2>1. f.sub \in Handles \cup {NoHandle}
    BY DEF Frame
  <2>2. f.call = "unsubscribe" =>
          \A u \in Threads, e \in 1..MaxDepth :
            frame[u][e].at = "enabling" => sub[f.sub].owner # frame[u][e].plugin
    BY LockFree DEF IInv
  <2>3. \A s \in Handles : s < next => sub'[s].owner = sub[s].owner
    BY DEF Calm
  <2> QED  BY <2>1, <2>2, <2>3, OverlapKept DEF IInv
<1>5. CallsOK'
  BY CallsKept DEF IInv, OthersUntouched
<1>6. ErasedIsSilent' /\ QuietIsSilent'
  BY ErasedKept, QuietKept DEF IInv
<1> QED  BY <1>1, <1>2, <1>3, <1>4, <1>5, <1>6 DEF IInv

\* The empty frame has achieved nothing.
LEMMA NoneAchieved == Achieved(None)'
BY DEF Achieved, None

\* The empty frame claims neither a plugin nor the registry lock.
LEMMA NoneClaims ==
  ASSUME ServiceAssumption, NEW g
  PROVE  ~Exclusive(None, g)
BY DEF Exclusive, None, ServiceAssumption

\* A call returns.
LEMMA PopStep ==
  ASSUME TypeOK, IInv, NEW t \in Threads, depth[t] # 0, Pop(t),
         NEW d \in 1..MaxDepth, d = depth[t], frame[t][d].at \notin {"check", "in"},
         sub' \in [Handles -> Subscription], phase' \in [Plugins -> Phases],
         shutdown' \in {"no", "begun", "complete"}, next' = next,
         \A s \in Handles : /\ sub'[s].owner = sub[s].owner
                            /\ sub'[s].active = sub[s].active
                            /\ sub'[s].enabled => sub[s].enabled
                            /\ sub'[s].registered => sub[s].registered
                            /\ s >= next => sub'[s] = sub[s],
         OthersUntouched(t, d),
         \A s \in Handles : sub[s].registered /\ ~sub'[s].registered =>
                              ~sub[s].enabled /\ ~Running(s),
         \A p \in Plugins : phase'[p] \in {"quiet", "gone"} =>
           \/ phase[p] \in {"quiet", "gone"}
           \/ \A s \in Handles : sub[s].owner = p => ~sub[s].enabled /\ ~Running(s),
         ShutdownOK'
  PROVE  TypeOK' /\ IInv'
<1>1. Changed(t, d, None) /\ depth' \in [Threads -> 0..MaxDepth]
  BY PopChanges
<1>2. StackOK'
  BY PopStack DEF IInv
<1>3. None.at = "none" /\ None.call = "none" /\ None.todo = {} /\ None.sub = 0
  BY DEF None, NoHandle
<1>4. Calm
  BY <1>1, <1>3, CalmStep
<1>5. None.sub < next
  BY <1>3 DEF TypeOK
<1>6. ActiveBalanced'
  BY <1>1, <1>3, BalancedKept DEF IInv, Holds
<1> QED
  BY <1>1, <1>2, <1>3, <1>4, <1>5, <1>6, NoneFrame, NoneOK, NoneAchieved, NoneClaims,
     ServiceAssumption, FrameStep

\* A call begins.
LEMMA PushStep ==
  ASSUME TypeOK, IInv, NEW t \in Threads, CanCall(t), NEW f \in Frame, Push(t, f),
         FrameOK(f), f.at \notin {"none", "check", "in"},
         sub' \in [Handles -> Subscription], phase' \in [Plugins -> Phases],
         shutdown' \in {"no", "begun", "complete"}, next' = next,
         \A s \in Handles : /\ sub'[s].owner = sub[s].owner
                            /\ sub'[s].active = sub[s].active
                            /\ sub'[s].enabled => sub[s].enabled
                            /\ sub'[s].registered = sub[s].registered
                            /\ s >= next => sub'[s] = sub[s],
         f.sub < next, \A s \in f.todo : s < next,
         f.plugin \in Plugins => ~InHand(f.plugin),
         f.at \in {"enabling", "disabling"} => RegistryFree,
         f.at = "enabling" =>
           \A u \in Threads, e \in 1..MaxDepth :
             frame[u][e].call = "unsubscribe" => sub[frame[u][e].sub].owner # f.plugin,
         f.call = "unsubscribe" => RegistryFree,
         Calm => Achieved(f)',
         \A d \in 1..MaxDepth : OthersUntouched(t, d),
         \A p \in Plugins : phase'[p] \in {"quiet", "gone"} =>
                              phase[p] \in {"quiet", "gone"},
         \A d \in 1..MaxDepth :
           frame[t][d].at = "none" /\ Changed(t, d, f) /\ Calm => ShutdownOK'
  PROVE  TypeOK' /\ IInv'
<1>1. PICK d \in 1..MaxDepth : d = depth[t] + 1
  BY PushChanges
<1>2. Changed(t, d, f) /\ depth' \in [Threads -> 0..MaxDepth]
  BY <1>1, PushChanges
<1>3. StackOK'
  BY PushStack DEF IInv
<1>4. Calm
  BY <1>2, CalmStep
<1>5. frame[t][d].at = "none"
  BY <1>1, ServiceAssumption DEF IInv, StackOK, Depths, TypeOK, ServiceAssumption
<1>6. ActiveBalanced'
  BY <1>2, <1>5, BalancedKept DEF IInv, Holds
<1>7. \A u \in Threads, e \in 1..MaxDepth : ~Exclusive(f, frame[u][e])
  BY FreshClaims DEF IInv
<1> QED
  BY <1>2, <1>3, <1>4, <1>5, <1>6, <1>7, FrameStep

-----------------------------------------------------------------------------
(* Deactivate, ReleasePlugin, Shutdown, Unsubscribe: disable, wait, erase. *)

\* Deactivate, once it holds the lock, begins to disable what the plugin owns.
LEMMA DeactivateStep ==
  ASSUME TypeOK, IInv, NEW t \in Threads, Deactivate(t)
  PROVE  TypeOK' /\ IInv'
<1>1. PICK d \in 1..MaxDepth, g \in Frame :
        /\ d = depth[t] /\ g = Top(t) /\ g = frame[t][d]
        /\ FrameOK(g) /\ Achieved(g)
        /\ g.sub < next /\ \A s \in g.todo : s < next
  BY TopFacts DEF Deactivate, At
<1>2. Owned(g.plugin) \in SUBSET Handles
  BY DEF Owned, Registered
<1>3. PICK f \in Frame : f = [g EXCEPT !.at = "disabling", !.todo = Owned(g.plugin)]
  BY <1>2, FrameUpdate DEF Points
<1>4. /\ f.call = g.call /\ f.at = "disabling" /\ f.plugin = g.plugin
      /\ f.sub = g.sub /\ f.todo = Owned(g.plugin)
  BY <1>3 DEF Frame
<1>5. /\ g.at = "begin" /\ depth[t] # 0 /\ RegistryFree /\ SetTop(t, f)
      /\ UNCHANGED <<sub, next, phase, shutdown>>
  BY <1>1, <1>3 DEF Deactivate, At
<1>6. FrameOK(f)
  BY <1>1, <1>4, <1>5 DEF FrameOK
<1>7. Achieved(f)
  BY <1>1, <1>4, <1>5 DEF Achieved, FrameOK, Covers, Scope
<1>8. \A s \in f.todo : s < next
  <2>1. next \in Nat /\ \A s \in Handles : s \in Nat
    BY DEF TypeOK, Handles
  <2> QED  BY <1>4, <2>1 DEF IInv, HandlesOK, Owned, Registered, NoSubscription
<1> QED  BY <1>1, <1>4, <1>5, <1>6, <1>7, <1>8, SetTopStep

\* The end of a disabling loop: the wait begins, or Shutdown gives up.
LEMMA DisabledStep ==
  ASSUME TypeOK, IInv, NEW t \in Threads, Disabled(t)
  PROVE  TypeOK' /\ IInv'
<1>1. PICK d \in 1..MaxDepth, g \in Frame :
        /\ d = depth[t] /\ g = Top(t) /\ g = frame[t][d]
        /\ FrameOK(g) /\ Achieved(g)
        /\ g.sub < next /\ \A s \in g.todo : s < next
  BY TopFacts DEF Disabled, At
<1>2. /\ g.at = "disabling" /\ g.todo = {} /\ depth[t] # 0
      /\ UNCHANGED <<sub, next, phase, shutdown>>
  BY <1>1 DEF Disabled, At
<1>3. CASE Pop(t)
  <2>1. OthersUntouched(t, d)
    BY <1>2 DEF OthersUntouched, IInv, CallsOK, Achieved, Owned, Registered, Depths
  <2>2. ShutdownOK'
    <3>1. Changed(t, d, None)
      BY <1>1, <1>2, <1>3, PopChanges
    <3>2. None.at = "none"
      BY DEF None
    <3>3. Calm
      BY <1>2, <3>1, <3>2, CalmStep
    <3> QED  BY <1>1, <1>2, <3>1, <3>3, ShutdownKept DEF IInv
  <2> QED  BY <1>1, <1>2, <1>3, <2>1, <2>2, PopStep DEF TypeOK
<1>4. CASE SetTop(t, [Top(t) EXCEPT !.at = "waiting", !.todo = Scope(Top(t))])
  <2>1. Scope(g) \in SUBSET Handles
    BY DEF Scope, Owned, Registered
  <2>2. PICK f \in Frame : f = [g EXCEPT !.at = "waiting", !.todo = Scope(g)]
    BY <2>1, FrameUpdate DEF Points
  <2>3. /\ f.call = g.call /\ f.at = "waiting" /\ f.plugin = g.plugin
        /\ f.sub = g.sub /\ f.todo = Scope(g) /\ SetTop(t, f)
    BY <1>1, <1>4, <2>2 DEF Frame
  <2>4. FrameOK(f)
    BY <1>1, <1>2, <2>3 DEF FrameOK
  <2>5. Achieved(f)
    BY <1>1, <1>2, <2>3 DEF Achieved, FrameOK, Covers, Scope
  <2>6. \A s \in f.todo : s < next
    <3>1. next \in Nat /\ \A s \in Handles : s \in Nat
      BY DEF TypeOK, Handles
    <3> QED
      BY <2>3, <3>1 DEF IInv, HandlesOK, Scope, Owned, Registered, NoSubscription
  <2> QED  BY <1>1, <1>2, <2>3, <2>4, <2>5, <2>6, SetTopStep
<1> QED  BY <1>3, <1>4 DEF Disabled

\* A wait that ended leaves a subscription nobody is inside.
LEMMA WaitedStep ==
  ASSUME TypeOK, IInv, NEW t \in Threads, Waited(t)
  PROVE  TypeOK' /\ IInv'
<1>1. PICK d \in 1..MaxDepth, g \in Frame :
        /\ d = depth[t] /\ g = Top(t) /\ g = frame[t][d]
        /\ FrameOK(g) /\ Achieved(g)
        /\ g.sub < next /\ \A s \in g.todo : s < next
  BY TopFacts DEF Waited, At
<1>2. PICK s \in g.todo : sub[s].active = 0 /\ SetTop(t, [g EXCEPT !.todo = @ \ {s}])
  BY <1>1 DEF Waited
<1>3. PICK f \in Frame : f = [g EXCEPT !.todo = @ \ {s}]
  BY FrameUpdate
<1>4. /\ f.call = g.call /\ f.at = g.at /\ f.plugin = g.plugin /\ f.sub = g.sub
      /\ f.todo = g.todo \ {s} /\ g.at = "waiting" /\ depth[t] # 0
      /\ SetTop(t, f) /\ s \in Handles /\ UNCHANGED <<sub, next, phase, shutdown>>
  BY <1>1, <1>2, <1>3 DEF Waited, At, Frame
<1>5. FrameOK(f)
  BY <1>1, <1>4 DEF FrameOK
<1>6. ~Running(s)
  BY <1>2, <1>4, NobodyInside DEF IInv
<1>7. Achieved(f)
  BY <1>1, <1>4, <1>6 DEF Achieved, Covers, Scope
<1> QED  BY <1>1, <1>4, <1>5, <1>7, SetTopStep

\* The end of the waits: the plugin is quiet, or the erasure is next.
LEMMA WaitsDoneStep ==
  ASSUME TypeOK, IInv, NEW t \in Threads, WaitsDone(t)
  PROVE  TypeOK' /\ IInv'
<1>1. PICK d \in 1..MaxDepth, g \in Frame :
        /\ d = depth[t] /\ g = Top(t) /\ g = frame[t][d]
        /\ FrameOK(g) /\ Achieved(g)
        /\ g.sub < next /\ \A s \in g.todo : s < next
  BY TopFacts DEF WaitsDone, At
<1>2. /\ g.at = "waiting" /\ g.todo = {} /\ depth[t] # 0
      /\ UNCHANGED <<sub, next, shutdown>>
  BY <1>1 DEF WaitsDone, At
<1>3. \A s \in Covers(g) : ~sub[s].enabled /\ ~Running(s)
  BY <1>1, <1>2 DEF Achieved
<1>4. CASE g.call = "deactivate"
  <2>1. Pop(t) /\ phase' = [phase EXCEPT ![g.plugin] = "quiet"] /\ g.plugin \in Plugins
    BY <1>1, <1>4 DEF WaitsDone, FrameOK
  <2>2. phase' \in [Plugins -> Phases]
    BY <2>1 DEF TypeOK, Phases
  <2>3. \A s \in Handles : sub[s].owner = g.plugin => ~sub[s].enabled /\ ~Running(s)
    BY <1>3, <1>4 DEF IInv, ErasedIsSilent, Covers, Scope, Owned, Registered
  <2>4. OthersUntouched(t, d)
    BY <1>1, <1>2, <2>1
    DEF OthersUntouched, IInv, CallsOK, Achieved, Owned, Registered, Depths,
        OneAtATime, Exclusive, TypeOK
  <2>5. ShutdownOK'
    <3>1. Changed(t, d, None)
      BY <1>1, <1>2, <2>1, PopChanges
    <3>2. None.at = "none"
      BY DEF None
    <3>3. Calm
      BY <1>2, <3>1, <3>2, CalmStep
    <3> QED  BY <1>1, <1>2, <3>1, <3>3, ShutdownKept DEF IInv
  <2> QED  BY <1>1, <1>2, <2>1, <2>2, <2>3, <2>4, <2>5, PopStep DEF TypeOK
<1>5. CASE g.call # "deactivate"
  <2>1. PICK f \in Frame : f = [g EXCEPT !.at = "erase"]
    BY FrameUpdate DEF Points
  <2>2. /\ f.call = g.call /\ f.at = "erase" /\ f.plugin = g.plugin
        /\ f.sub = g.sub /\ f.todo = {} /\ SetTop(t, f) /\ UNCHANGED phase
    BY <1>1, <1>2, <1>5, <2>1 DEF WaitsDone, Frame
  <2>3. FrameOK(f)
    BY <1>1, <1>2, <1>5, <2>2 DEF FrameOK
  <2>4. Achieved(f)
    BY <1>1, <1>2, <1>3, <2>2 DEF Achieved, Covers, Scope
  <2> QED  BY <1>1, <1>2, <2>2, <2>3, <2>4, SetTopStep
<1> QED  BY <1>4, <1>5

\* One store of the disabling loops of Deactivate, ReleasePlugin and Shutdown.
LEMMA DisableStep ==
  ASSUME TypeOK, IInv, NEW t \in Threads, Disable(t)
  PROVE  TypeOK' /\ IInv'
<1>1. PICK d \in 1..MaxDepth, g \in Frame :
        /\ d = depth[t] /\ g = Top(t) /\ g = frame[t][d]
        /\ FrameOK(g) /\ Achieved(g)
        /\ g.sub < next /\ \A s \in g.todo : s < next
  BY TopFacts DEF Disable, At
<1>2. PICK s \in g.todo : /\ sub' = [sub EXCEPT ![s].enabled = FALSE]
                          /\ SetTop(t, [g EXCEPT !.todo = @ \ {s}])
  BY <1>1 DEF Disable
<1>3. PICK f \in Frame : f = [g EXCEPT !.todo = @ \ {s}]
  BY FrameUpdate
<1>4. /\ f.call = g.call /\ f.at = g.at /\ f.plugin = g.plugin /\ f.sub = g.sub
      /\ f.todo = g.todo \ {s} /\ g.at = "disabling" /\ depth[t] # 0
      /\ SetTop(t, f) /\ s \in Handles /\ UNCHANGED <<next, phase, shutdown>>
  BY <1>1, <1>2, <1>3 DEF Disable, At, Frame
<1>5. sub' = [sub EXCEPT ![s] = [sub[s] EXCEPT !.enabled = FALSE]]
  BY <1>2 DEF TypeOK
<1>6. /\ sub' \in [Handles -> Subscription]
      /\ \A r \in Handles : /\ sub'[r].owner = sub[r].owner
                            /\ sub'[r].active = sub[r].active
                            /\ sub'[r].registered = sub[r].registered
                            /\ sub'[r].enabled => sub[r].enabled
                            /\ r # s => sub'[r] = sub[r]
      /\ ~sub'[s].enabled
  BY <1>4, <1>5 DEF TypeOK, Subscription
<1>7. Changed(t, d, f) /\ depth' = depth
  BY <1>1, <1>4, SetTopChanges
<1>8. FrameOK(f)
  BY <1>1, <1>4 DEF FrameOK
<1>9. StackOK'
  BY <1>4, <1>8, SetTopStack DEF IInv
<1>10. Calm
  BY <1>4, <1>6, <1>7, CalmStep
<1>11. \A u \in Threads, e \in 1..MaxDepth : u # t \/ e # d => ~Exclusive(f, frame[u][e])
  BY <1>1, <1>4, SameClaims DEF IInv
<1>12. Achieved(f)'
  <2>1. Covers(f)' \subseteq Covers(g)
    BY <1>1, <1>4, <1>6 DEF Covers, Scope, Owned, Registered
  <2>2. \A r \in Covers(f)' \ f.todo : ~sub'[r].enabled
    BY <1>1, <1>4, <1>6, <2>1 DEF Achieved, Covers, Scope, Owned, Registered, FrameOK
  <2> QED  BY <1>1, <1>4, <2>2 DEF Achieved
<1>13. OthersUntouched(t, d)
  BY <1>4, <1>6 DEF OthersUntouched, IInv, CallsOK, Achieved, Owned, Registered, Depths, TypeOK
<1>14. ShutdownOK'
  BY <1>1, <1>4, <1>6, <1>7, <1>10, ShutdownKept DEF IInv
<1>15. ActiveBalanced'
  BY <1>1, <1>4, <1>6, <1>7, BalancedKept DEF IInv, Holds
<1>16. \A r \in Handles : r >= next => sub'[r] = sub[r]
  <2>1. s < next /\ next \in Nat /\ s \in Nat
    BY <1>1, <1>4 DEF TypeOK, Handles
  <2> QED  BY <1>6, <2>1
<1>17. f.call # "unsubscribe" /\ f.at # "enabling" /\ f.sub < next /\ \A r \in f.todo : r < next
  BY <1>1, <1>4 DEF FrameOK
<1>18. /\ depth' \in [Threads -> 0..MaxDepth] /\ phase' \in [Plugins -> Phases]
       /\ shutdown' \in {"no", "begun", "complete"} /\ next' = next
       /\ \A r \in Handles : ~(sub[r].registered /\ ~sub'[r].registered)
       /\ \A p \in Plugins : phase'[p] = phase[p]
  BY <1>4, <1>6, <1>7 DEF TypeOK
<1> QED
  BY <1>6, <1>7, <1>8, <1>9, <1>10, <1>11, <1>12, <1>13, <1>14, <1>15, <1>16, <1>17,
     <1>18, FrameStep

\* What a call that returns leaves of ShutdownOK.
LEMMA PopShutdown ==
  ASSUME TypeOK, IInv, NEW t \in Threads, depth[t] # 0, Pop(t),
         Top(t).at # "disabling" \/ Top(t).call # "shutdown" \/ Top(t).todo = {},
         \A s \in Handles : /\ sub'[s].owner = sub[s].owner
                            /\ sub'[s].enabled => sub[s].enabled
                            /\ sub'[s].registered => sub[s].registered,
         shutdown' = shutdown
  PROVE  ShutdownOK'
<1>1. PICK d \in 1..MaxDepth : d = depth[t] /\ Top(t) = frame[t][d]
  BY TopFrame
<1>2. Changed(t, d, None)
  BY <1>1, PopChanges
<1>3. None.at = "none"
  BY DEF None
<1>4. Calm
  BY <1>2, <1>3, CalmStep
<1> QED  BY <1>1, <1>2, <1>4, ShutdownKept DEF IInv

\* Unsubscribe erases its subscription: it is disabled and nobody is inside.
LEMMA UnsubscribeDoneStep ==
  ASSUME TypeOK, IInv, NEW t \in Threads, UnsubscribeDone(t)
  PROVE  TypeOK' /\ IInv'
<1>1. PICK d \in 1..MaxDepth, g \in Frame :
        /\ d = depth[t] /\ g = Top(t) /\ g = frame[t][d]
        /\ FrameOK(g) /\ Achieved(g)
        /\ g.sub < next /\ \A s \in g.todo : s < next
  BY TopFacts DEF UnsubscribeDone, At
<1>2. /\ g.at = "erase" /\ g.call = "unsubscribe" /\ depth[t] # 0 /\ RegistryFree
      /\ sub' = [sub EXCEPT ![g.sub].registered = FALSE] /\ Pop(t)
      /\ UNCHANGED <<next, phase, shutdown>>
  BY <1>1 DEF UnsubscribeDone, At
<1>3. PICK s \in Handles : s = g.sub
  BY <1>1, <1>2 DEF FrameOK, Frame
<1>4. sub' = [sub EXCEPT ![s] = [sub[s] EXCEPT !.registered = FALSE]]
  BY <1>2, <1>3 DEF TypeOK
<1>5. /\ sub' \in [Handles -> Subscription]
      /\ \A r \in Handles : /\ sub'[r].owner = sub[r].owner
                            /\ sub'[r].active = sub[r].active
                            /\ sub'[r].enabled = sub[r].enabled
                            /\ sub'[r].registered => sub[r].registered
                            /\ r # s => sub'[r] = sub[r]
  BY <1>4 DEF TypeOK, Subscription
<1>6. ~sub[s].enabled /\ ~Running(s)
  BY <1>1, <1>2, <1>3 DEF Achieved, Covers, FrameOK
<1>7. \A r \in Handles : r >= next => sub'[r] = sub[r]
  <2>1. s < next /\ next \in Nat /\ s \in Nat
    BY <1>1, <1>3 DEF TypeOK, Handles
  <2> QED  BY <1>5, <2>1
<1>8. OthersUntouched(t, d)
  BY <1>2, LockFree DEF OthersUntouched, IInv, CallsOK, Achieved, Depths
<1>9. ShutdownOK'
  BY <1>1, <1>2, <1>5, PopShutdown
<1> QED  BY <1>1, <1>2, <1>5, <1>6, <1>7, <1>8, <1>9, PopStep DEF TypeOK

\* What erasing a set of subscriptions changes.
LEMMA ErasedFacts ==
  ASSUME TypeOK, NEW S \in SUBSET Handles, sub' = Erased(S)
  PROVE  /\ sub' \in [Handles -> Subscription]
         /\ \A s \in Handles : /\ sub'[s].owner = sub[s].owner
                               /\ sub'[s].active = sub[s].active
                               /\ sub'[s].enabled = sub[s].enabled
                               /\ sub'[s].registered = (sub[s].registered /\ s \notin S)
                               /\ s \notin S => sub'[s] = sub[s]
<1>1. ASSUME NEW s \in Handles
      PROVE  /\ sub'[s] \in Subscription
             /\ sub'[s].owner = sub[s].owner
             /\ sub'[s].active = sub[s].active
             /\ sub'[s].enabled = sub[s].enabled
             /\ sub'[s].registered = (sub[s].registered /\ s \notin S)
             /\ s \notin S => sub'[s] = sub[s]
  <2>1. sub[s] \in Subscription
    BY DEF TypeOK
  <2>2. CASE s \in S
    BY <2>1, <2>2 DEF Erased, Subscription
  <2>3. CASE s \notin S
    BY <2>1, <2>3 DEF Erased, Subscription
  <2> QED  BY <2>2, <2>3
<1>2. sub' \in [Handles -> Subscription]
  BY <1>1 DEF Erased
<1> QED  BY <1>1, <1>2

\* ReleasePlugin erases what the plugin owns.
LEMMA ReleasedStep ==
  ASSUME TypeOK, IInv, NEW t \in Threads, Released(t)
  PROVE  TypeOK' /\ IInv'
<1>1. PICK d \in 1..MaxDepth, g \in Frame :
        /\ d = depth[t] /\ g = Top(t) /\ g = frame[t][d]
        /\ FrameOK(g) /\ Achieved(g)
        /\ g.sub < next /\ \A s \in g.todo : s < next
  BY TopFacts DEF Released, At
<1>2. /\ g.at = "erase" /\ g.call = "release" /\ depth[t] # 0 /\ RegistryFree
      /\ sub' = Erased(Owned(g.plugin)) /\ Pop(t)
      /\ phase' = [phase EXCEPT ![g.plugin] = "gone"]
      /\ UNCHANGED <<next, shutdown>>
  BY <1>1 DEF Released, At
<1>3. PICK S \in SUBSET Handles : S = Owned(g.plugin)
  BY DEF Owned, Registered
<1>4. /\ sub' \in [Handles -> Subscription]
      /\ \A s \in Handles : /\ sub'[s].owner = sub[s].owner
                            /\ sub'[s].active = sub[s].active
                            /\ sub'[s].enabled = sub[s].enabled
                            /\ sub'[s].registered = (sub[s].registered /\ s \notin S)
                            /\ s \notin S => sub'[s] = sub[s]
  BY <1>2, <1>3, ErasedFacts
<1>5. g.plugin \in Plugins /\ phase' \in [Plugins -> Phases]
  BY <1>1, <1>2 DEF TypeOK, Phases, FrameOK
<1>6. \A s \in S : ~sub[s].enabled /\ ~Running(s)
  BY <1>1, <1>2, <1>3 DEF Achieved, Covers, Scope, FrameOK
<1>7. \A s \in Handles : sub[s].owner = g.plugin => ~sub[s].enabled /\ ~Running(s)
  BY <1>3, <1>6 DEF IInv, ErasedIsSilent, Owned, Registered
<1>8. \A s \in Handles : s >= next => sub'[s] = sub[s]
  <2>1. next \in Nat /\ \A s \in Handles : s \in Nat
    BY DEF TypeOK, Handles
  <2> QED
    BY <1>3, <1>4, <2>1 DEF IInv, HandlesOK, NoSubscription, Owned, Registered
<1>9. OthersUntouched(t, d)
  BY SMTT(60), <1>1, <1>2, <1>5, LockFree
  DEF OthersUntouched, IInv, CallsOK, Achieved, Depths, OneAtATime, Exclusive, TypeOK
<1>10. ShutdownOK'
  BY <1>1, <1>2, <1>4, PopShutdown
<1>11. \A p \in Plugins : phase'[p] \in {"quiet", "gone"} =>
         phase[p] \in {"quiet", "gone"} \/ p = g.plugin
  BY <1>2 DEF TypeOK
<1>12. \A s \in Handles : sub[s].registered /\ ~sub'[s].registered =>
                            ~sub[s].enabled /\ ~Running(s)
  BY <1>4, <1>6
<1>13. \A s \in Handles : sub'[s].registered => sub[s].registered
  BY <1>4
<1>14. \A p \in Plugins : phase'[p] \in {"quiet", "gone"} =>
         \/ phase[p] \in {"quiet", "gone"}
         \/ \A s \in Handles : sub[s].owner = p => ~sub[s].enabled /\ ~Running(s)
  BY <1>7, <1>11
<1>15. \A s \in Handles : /\ sub'[s].owner = sub[s].owner
                          /\ sub'[s].active = sub[s].active
                          /\ sub'[s].enabled => sub[s].enabled
                          /\ sub'[s].registered => sub[s].registered
                          /\ s >= next => sub'[s] = sub[s]
  BY <1>4, <1>8
<1>16. /\ frame[t][d].at \notin {"check", "in"} /\ shutdown' \in {"no", "begun", "complete"}
       /\ next' = next /\ phase' \in [Plugins -> Phases]
  BY <1>1, <1>2, <1>5 DEF TypeOK
<1> QED
  BY <1>1, <1>2, <1>4, <1>9, <1>10, <1>12, <1>14, <1>15, <1>16, PopStep

\* Shutdown erases everything.
LEMMA ShutdownDoneStep ==
  ASSUME TypeOK, IInv, NEW t \in Threads, ShutdownDone(t)
  PROVE  TypeOK' /\ IInv'
<1>1. PICK d \in 1..MaxDepth, g \in Frame :
        /\ d = depth[t] /\ g = Top(t) /\ g = frame[t][d]
        /\ FrameOK(g) /\ Achieved(g)
        /\ g.sub < next /\ \A s \in g.todo : s < next
  BY TopFacts DEF ShutdownDone, At
<1>2. /\ g.at = "erase" /\ g.call = "shutdown" /\ depth[t] # 0 /\ RegistryFree
      /\ sub' = Erased(Registered) /\ Pop(t) /\ shutdown' = "complete"
      /\ UNCHANGED <<next, phase>>
  BY <1>1 DEF ShutdownDone, At
<1>3. PICK S \in SUBSET Handles : S = Registered
  BY DEF Registered
<1>4. /\ sub' \in [Handles -> Subscription]
      /\ \A s \in Handles : /\ sub'[s].owner = sub[s].owner
                            /\ sub'[s].active = sub[s].active
                            /\ sub'[s].enabled = sub[s].enabled
                            /\ sub'[s].registered = (sub[s].registered /\ s \notin S)
                            /\ s \notin S => sub'[s] = sub[s]
  BY <1>2, <1>3, ErasedFacts
<1>5. \A s \in Handles : ~sub'[s].registered
  BY <1>3, <1>4 DEF Registered
<1>6. \A s \in Handles : ~sub[s].enabled /\ ~Running(s)
  <2>1. Covers(g) = Registered
    BY <1>2 DEF Covers, Scope
  <2>2. \A s \in Registered : ~sub[s].enabled /\ ~Running(s)
    BY <1>1, <1>2, <2>1 DEF Achieved, FrameOK
  <2> QED  BY <2>2 DEF IInv, ErasedIsSilent, Registered
<1>7. \A s \in Handles : s >= next => sub'[s] = sub[s]
  <2>1. next \in Nat /\ \A s \in Handles : s \in Nat
    BY DEF TypeOK, Handles
  <2> QED  BY <1>3, <1>4, <2>1 DEF IInv, HandlesOK, NoSubscription, Registered
<1>8. OthersUntouched(t, d)
  BY <1>1, <1>2, LockFree
  DEF OthersUntouched, IInv, CallsOK, Achieved, Depths, TypeOK
<1>9. ShutdownOK'
  BY <1>4, <1>5, <1>6 DEF ShutdownOK, Registered
<1>10. \A s \in Handles : sub'[s].registered => sub[s].registered
  BY <1>5
<1> QED
  BY <1>1, <1>2, <1>4, <1>6, <1>7, <1>8, <1>9, <1>10, PopStep DEF TypeOK

\* A call that only returns.
LEMMA PlainPop ==
  ASSUME TypeOK, IInv, NEW t \in Threads, depth[t] # 0, Pop(t),
         Top(t).at \notin {"check", "in"}, Top(t).todo = {},
         UNCHANGED <<sub, next, phase, shutdown>>
  PROVE  TypeOK' /\ IInv'
<1>1. PICK d \in 1..MaxDepth : d = depth[t] /\ Top(t) = frame[t][d]
  BY TopFrame
<1>2. OthersUntouched(t, d)
  BY DEF OthersUntouched, IInv, CallsOK, Achieved, Owned, Registered, Depths
<1>3. ShutdownOK'
  BY PopShutdown
<1> QED  BY <1>1, <1>2, <1>3, PopStep DEF TypeOK

\* The end of Activate's loop.
LEMMA ActivatedStep ==
  ASSUME TypeOK, IInv, NEW t \in Threads, Activated(t)
  PROVE  TypeOK' /\ IInv'
BY PlainPop DEF Activated, At

\* The end of a dispatch.
LEMMA DispatchDoneStep ==
  ASSUME TypeOK, IInv, NEW t \in Threads, DispatchDone(t)
  PROVE  TypeOK' /\ IInv'
BY PlainPop DEF DispatchDone, At

-----------------------------------------------------------------------------
(* Calls that begin.                                                       *)

\* A set of subscriptions in the map is one of handles given out.
LEMMA GivenOut ==
  ASSUME TypeOK, IInv, NEW s \in Registered
  PROVE  s \in Handles /\ s < next
<1>1. next \in Nat /\ s \in Nat /\ s \in Handles /\ sub[s].registered
  BY DEF TypeOK, Handles, Registered
<1> QED  BY <1>1 DEF IInv, HandlesOK, NoSubscription

\* A call that begins does not disturb Shutdown's loop.
LEMMA PushShutdown ==
  ASSUME TypeOK, IInv, NEW t \in Threads, NEW d \in 1..MaxDepth, NEW f,
         frame[t][d].at = "none", Changed(t, d, f), Calm, shutdown' = shutdown
  PROVE  ShutdownOK'
BY ShutdownKept DEF IInv

\* The frame after the innermost is empty.
LEMMA NextDepth ==
  ASSUME TypeOK, IInv, NEW t \in Threads, CanCall(t)
  PROVE  \E d \in 1..MaxDepth : d = depth[t] + 1 /\ frame[t][d].at = "none"
BY ServiceAssumption
DEF IInv, StackOK, Depths, TypeOK, CanCall, ServiceAssumption

\* A dispatch takes its snapshot.
LEMMA DispatchStep ==
  ASSUME TypeOK, IInv, NEW t \in Threads, Dispatch(t)
  PROVE  TypeOK' /\ IInv'
<1> DEFINE S == {s \in Registered : sub[s].enabled}
<1>1. PICK f \in Frame : f = [None EXCEPT !.call = "dispatch", !.at = "next", !.todo = S]
  BY NoneFrame DEF Frame, Calls, Points, Registered
<1>2. /\ f.call = "dispatch" /\ f.at = "next" /\ f.todo = S /\ f.sub = 0
      /\ f.plugin = NoPlugin
  BY <1>1 DEF None, NoHandle
<1>3. /\ CanCall(t) /\ Push(t, f) /\ UNCHANGED <<sub, next, phase, shutdown>>
  BY <1>1 DEF Dispatch
<1>4. FrameOK(f)
  BY <1>2, ServiceAssumption DEF FrameOK, NoHandle, ServiceAssumption
<1>5. Achieved(f)'
  BY <1>2 DEF Achieved
<1>6. f.sub < next /\ \A s \in f.todo : s < next
  BY <1>2, GivenOut DEF TypeOK
<1>7. \A d \in 1..MaxDepth : OthersUntouched(t, d)
  BY <1>3 DEF OthersUntouched, IInv, CallsOK, Achieved, Owned, Registered, Depths
<1>8. \A d \in 1..MaxDepth :
        frame[t][d].at = "none" /\ Changed(t, d, f) /\ Calm => ShutdownOK'
  BY <1>3, PushShutdown
<1>9. f.plugin \notin Plugins
  BY <1>2, ServiceAssumption DEF ServiceAssumption
<1> QED
  BY <1>2, <1>3, <1>4, <1>5, <1>6, <1>7, <1>8, <1>9, PushStep DEF TypeOK

\* Shutdown begins: what is enabled is in its loop.
LEMMA ShutdownStep ==
  ASSUME TypeOK, IInv, NEW t \in Threads, Shutdown(t)
  PROVE  TypeOK' /\ IInv'
<1>1. PICK f \in Frame :
        f = [None EXCEPT !.call = "shutdown", !.at = "disabling", !.todo = Registered]
  BY NoneFrame DEF Frame, Calls, Points, Registered
<1>2. /\ f.call = "shutdown" /\ f.at = "disabling" /\ f.todo = Registered /\ f.sub = 0
      /\ f.plugin = NoPlugin
  BY <1>1 DEF None, NoHandle
<1>3. /\ CanCall(t) /\ Push(t, f) /\ UNCHANGED <<sub, next, phase>>
      /\ RegistryFree /\ shutdown # "complete" /\ shutdown' = "begun"
  BY <1>1 DEF Shutdown
<1>4. FrameOK(f)
  BY <1>2, ServiceAssumption DEF FrameOK, NoHandle, ServiceAssumption
<1>5. Achieved(f)'
  BY <1>2, <1>3 DEF Achieved, Covers, Scope, Registered
<1>6. f.sub < next /\ \A s \in f.todo : s < next
  BY <1>2, GivenOut DEF TypeOK
<1>7. \A d \in 1..MaxDepth : OthersUntouched(t, d)
  BY <1>3, LockFree DEF OthersUntouched, IInv
<1>8. \A d \in 1..MaxDepth :
        frame[t][d].at = "none" /\ Changed(t, d, f) /\ Calm => ShutdownOK'
  BY <1>2, <1>3 DEF ShutdownOK, Changed, IInv, ErasedIsSilent, Registered, Depths
<1>9. f.plugin \notin Plugins
  BY <1>2, ServiceAssumption DEF ServiceAssumption
<1> QED
  BY <1>2, <1>3, <1>4, <1>5, <1>6, <1>7, <1>8, <1>9, PushStep DEF TypeOK

\* Pause and Release push the same kind of frame.
LEMMA DeactivatingStep ==
  ASSUME TypeOK, IInv, NEW t \in Threads, CanCall(t), NEW p \in Plugins, ~InHand(p),
         NEW c \in {"deactivate", "release"}, NEW x \in {"closing", "quiet"},
         x = "quiet" => phase[p] = "quiet",
         phase' = [phase EXCEPT ![p] = x],
         Push(t, [None EXCEPT !.call = c, !.at = "begin", !.plugin = p]),
         UNCHANGED <<sub, next, shutdown>>
  PROVE  TypeOK' /\ IInv'
<1>1. PICK f \in Frame : f = [None EXCEPT !.call = c, !.at = "begin", !.plugin = p]
  BY NoneFrame DEF Frame, Calls, Points
<1>2. /\ f.call = c /\ f.at = "begin" /\ f.todo = {} /\ f.sub = 0 /\ f.plugin = p
  BY <1>1 DEF None, NoHandle
<1>3. Push(t, f)
  BY <1>1
<1>4. FrameOK(f)
  BY <1>2 DEF FrameOK, NoHandle
<1>5. phase' \in [Plugins -> Phases] /\ phase'[p] = x
      /\ \A q \in Plugins : q # p => phase'[q] = phase[q]
  BY DEF TypeOK, Phases
<1>6. Achieved(f)'
  BY <1>2, <1>5 DEF Achieved
<1>7. f.sub < next /\ \A s \in f.todo : s < next
  BY <1>2 DEF TypeOK
<1>8. \A d \in 1..MaxDepth : OthersUntouched(t, d)
  BY <1>5 DEF OthersUntouched, IInv, CallsOK, Achieved, Owned, Registered, Depths, InHand
<1>9. \A d \in 1..MaxDepth :
        frame[t][d].at = "none" /\ Changed(t, d, f) /\ Calm => ShutdownOK'
  BY PushShutdown
<1>10. \A q \in Plugins : phase'[q] \in {"quiet", "gone"} => phase[q] \in {"quiet", "gone"}
  BY <1>5
<1> QED
  BY <1>2, <1>3, <1>4, <1>5, <1>6, <1>7, <1>8, <1>9, <1>10, PushStep DEF TypeOK

\* Pause and Unload begin to deactivate a plugin nobody works on.
LEMMA PauseStep ==
  ASSUME TypeOK, IInv, NEW t \in Threads, NEW p \in Plugins, Pause(t, p)
  PROVE  TypeOK' /\ IInv'
BY DeactivatingStep DEF Pause

\* The release of a plugin begins when nobody works on it.
LEMMA ReleaseStep ==
  ASSUME TypeOK, IInv, NEW t \in Threads, NEW p \in Plugins, Release(t, p)
  PROVE  TypeOK' /\ IInv'
<1>1. CASE phase[p] = "loading"
  BY <1>1, DeactivatingStep DEF Release, TypeOK
<1>2. CASE phase[p] = "quiet"
  BY <1>2, DeactivatingStep DEF Release, TypeOK
<1> QED  BY <1>1, <1>2 DEF Release

\* A call that is over at once.
LEMMA InstantStep ==
  ASSUME TypeOK, IInv, NEW t \in Threads, CanCall(t), RegistryFree,
         UNCHANGED <<frame, depth, next, shutdown>>,
         sub' \in [Handles -> Subscription], phase' \in [Plugins -> Phases],
         \A s \in Handles : /\ sub'[s].owner = sub[s].owner
                            /\ sub'[s].active = sub[s].active
                            /\ sub'[s].enabled => sub[s].enabled
                            /\ sub'[s].registered = sub[s].registered
                            /\ s >= next => sub'[s] = sub[s],
         \A p \in Plugins : InHand(p) => phase'[p] = phase[p],
         \A p \in Plugins : phase'[p] \in {"quiet", "gone"} => phase[p] \in {"quiet", "gone"}
  PROVE  TypeOK' /\ IInv'
<1>1. PICK d \in 1..MaxDepth : d = 1
  BY NothingChanges DEF threads
<1>2. PICK f \in Frame : f = frame[t][d]
  BY DEF TypeOK
<1>3. Changed(t, d, f)
  BY <1>2 DEF Changed, TypeOK
<1>4. FrameOK(f) /\ Achieved(f) /\ f.sub < next /\ \A s \in f.todo : s < next
  BY <1>2 DEF IInv, StackOK, CallsOK, HandlesOK, Depths
<1>5. StackOK'
  BY NothingStack DEF IInv, threads
<1>6. Calm
  BY <1>2, <1>3, CalmStep
<1>7. \A u \in Threads, e \in 1..MaxDepth : u # t \/ e # d => ~Exclusive(f, frame[u][e])
  BY <1>2, SameClaims DEF IInv
<1>8. f.at # "enabling"
  BY <1>2, LockFree DEF IInv
<1>9. \A u \in Threads, e \in 1..MaxDepth :
        /\ frame[u][e].plugin \in Plugins =>
             phase'[frame[u][e].plugin] = phase[frame[u][e].plugin]
        /\ frame[u][e].call = "shutdown" => shutdown' # "no"
        /\ frame[u][e].at # "enabling"
  BY LockFree DEF IInv, CallsOK, Achieved, Depths, InHand
<1>10. Achieved(f)'
  BY <1>2, <1>4, <1>6, <1>8, <1>9, AchievedKept
<1>11. OthersUntouched(t, d)
  BY <1>9 DEF OthersUntouched
<1>12. ShutdownOK'
  BY <1>2, <1>3, <1>6, <1>8, LockFree, ShutdownKept DEF IInv
<1>13. ActiveBalanced'
  BY <1>2, <1>3, BalancedKept DEF IInv
<1> QED
  BY <1>3, <1>4, <1>5, <1>6, <1>7, <1>8, <1>10, <1>11, <1>12, <1>13, FrameStep DEF TypeOK

\* Unsubscribe disables its subscription, and waits unless it is inside.
LEMMA UnsubscribeStep ==
  ASSUME TypeOK, IInv, NEW t \in Threads, NEW s \in Handles, Unsubscribe(t, s)
  PROVE  TypeOK' /\ IInv'
<1>1. /\ CanCall(t) /\ RegistryFree /\ s \in Registered
      /\ UNCHANGED <<next, phase, shutdown>>
  BY DEF Unsubscribe
<1>2. sub' = [sub EXCEPT ![s] = [sub[s] EXCEPT !.enabled = FALSE]]
  BY DEF Unsubscribe, TypeOK
<1>3. /\ sub' \in [Handles -> Subscription]
      /\ \A r \in Handles : /\ sub'[r].owner = sub[r].owner
                            /\ sub'[r].active = sub[r].active
                            /\ sub'[r].registered = sub[r].registered
                            /\ sub'[r].enabled => sub[r].enabled
                            /\ r # s => sub'[r] = sub[r]
      /\ ~sub'[s].enabled
  BY <1>2 DEF TypeOK, Subscription
<1>4. s < next
  BY <1>1, GivenOut
<1>5. \A r \in Handles : r >= next => sub'[r] = sub[r]
  <2>1. next \in Nat /\ s \in Nat
    BY DEF TypeOK, Handles
  <2> QED  BY <1>3, <1>4, <2>1
<1>6. CASE UNCHANGED threads
  <2>1. UNCHANGED <<frame, depth, next, shutdown>>
    BY <1>1, <1>6 DEF threads
  <2> QED  BY <1>1, <1>3, <1>5, <2>1, InstantStep DEF TypeOK
<1>7. CASE Push(t, [None EXCEPT !.call = "unsubscribe", !.at = "waiting",
                                !.sub = s, !.todo = {s}])
  <2>1. PICK f \in Frame : f = [None EXCEPT !.call = "unsubscribe", !.at = "waiting",
                                            !.sub = s, !.todo = {s}]
    BY NoneFrame DEF Frame, Calls, Points
  <2>2. /\ f.call = "unsubscribe" /\ f.at = "waiting" /\ f.todo = {s} /\ f.sub = s
        /\ f.plugin = NoPlugin
    BY <2>1 DEF None
  <2>3. Push(t, f)
    BY <1>7, <2>1
  <2>4. f.plugin \notin Plugins /\ s # NoHandle
    BY <2>2, ServiceAssumption DEF ServiceAssumption, Handles, NoHandle
  <2>5. FrameOK(f)
    BY <2>2, <2>4 DEF FrameOK
  <2>6. Achieved(f)'
    BY <1>3, <2>2 DEF Achieved, Covers
  <2>7. \A d \in 1..MaxDepth : OthersUntouched(t, d)
    BY <1>1, LockFree DEF OthersUntouched, IInv, CallsOK, Achieved, Depths
  <2>8. \A d \in 1..MaxDepth :
          frame[t][d].at = "none" /\ Changed(t, d, f) /\ Calm => ShutdownOK'
    BY <1>1, PushShutdown
  <2> QED
    BY <1>1, <1>3, <1>4, <1>5, <2>2, <2>3, <2>4, <2>5, <2>6, <2>7, <2>8, PushStep DEF TypeOK
<1> QED  BY <1>6, <1>7 DEF Unsubscribe

\* The frame of an activation.
LEMMA ActivatingFrame ==
  ASSUME NEW p \in Plugins
  PROVE  \E f \in Frame :
           /\ f = Activating(p)
           /\ f.call = "activate" /\ f.at = "enabling" /\ f.todo = Owned(p)
           /\ f.sub = 0 /\ f.plugin = p /\ FrameOK(f)
<1>1. Activating(p) \in Frame
  BY NoneFrame DEF Activating, Frame, Calls, Points, Owned, Registered
<1>2. /\ Activating(p).call = "activate" /\ Activating(p).at = "enabling"
      /\ Activating(p).todo = Owned(p) /\ Activating(p).sub = 0
      /\ Activating(p).plugin = p
  BY DEF Activating, None, NoHandle
<1> QED  BY <1>1, <1>2 DEF FrameOK, NoHandle

\* RestorePluginDispatch: no Unsubscribe of the plugin is under way, and the
\* registry is free, so the activation is alone.
LEMMA RestoreStep ==
  ASSUME ~Overlaps, TypeOK, IInv, NEW t \in Threads, NEW p \in Plugins, Restore(t, p)
  PROVE  TypeOK' /\ IInv'
<1>1. /\ CanCall(t) /\ RegistryFree /\ ~InHand(p) /\ MayActivate(p)
      /\ UNCHANGED <<sub, next, shutdown>>
      /\ phase' = [phase EXCEPT ![p] = "running"]
  BY DEF Restore
<1>2. /\ phase' \in [Plugins -> Phases] /\ phase'[p] = "running"
      /\ \A q \in Plugins : q # p => phase'[q] = phase[q]
  BY <1>1 DEF TypeOK, Phases
<1>3. \A q \in Plugins : phase'[q] \in {"quiet", "gone"} => phase[q] \in {"quiet", "gone"}
  BY <1>2
<1>4. CASE shutdown # "no"
  <2>1. UNCHANGED <<frame, depth, next, shutdown>>
    BY <1>1, <1>4 DEF Restore, threads
  <2> QED  BY <1>1, <1>2, <1>3, <2>1, InstantStep DEF TypeOK
<1>5. CASE shutdown = "no"
  <2>1. PICK f \in Frame :
          /\ f = Activating(p)
          /\ f.call = "activate" /\ f.at = "enabling" /\ f.todo = Owned(p)
          /\ f.sub = 0 /\ f.plugin = p /\ FrameOK(f)
    BY ActivatingFrame
  <2>2. Push(t, f)
    BY <1>5, <2>1 DEF Restore
  <2>3. Achieved(f)'
    BY <1>1, <1>2, <1>5, <2>1 DEF Achieved, Owned, Registered
  <2>4. f.sub < next /\ \A s \in f.todo : s < next
    BY <2>1, GivenOut DEF TypeOK, Owned
  <2>5. \A d \in 1..MaxDepth : OthersUntouched(t, d)
    BY <1>1, <1>2, LockFree DEF OthersUntouched, IInv, CallsOK, Achieved, Depths, InHand
  <2>6. \A d \in 1..MaxDepth :
          frame[t][d].at = "none" /\ Changed(t, d, f) /\ Calm => ShutdownOK'
    BY <1>1, PushShutdown
  <2>7. \A u \in Threads, e \in 1..MaxDepth :
          frame[u][e].call = "unsubscribe" => sub[frame[u][e].sub].owner # f.plugin
    BY <1>1, <2>1 DEF MayActivate
  <2> QED
    BY <1>1, <1>2, <1>3, <2>1, <2>2, <2>3, <2>4, <2>5, <2>6, <2>7, PushStep DEF TypeOK
<1> QED  BY <1>4, <1>5

\* The snapshot is called in the order of its handles.
LEMMA FirstMember ==
  ASSUME NEW S \in SUBSET Handles, S # {}
  PROVE  First(S) \in S
<1> DEFINE R == {ss \in Nat \X Nat : ss[1] < ss[2]}
<1>1. OpToRel(<, Nat) = R
  BY Zenon DEF OpToRel
<1>2. IsWellFoundedOn(R, Nat)
  BY <1>1, NatLessThanWellFounded, Zenon
<1>3. S \subseteq Nat
  BY DEF Handles
<1>4. PICK s \in S : \A r \in S : <<r, s>> \notin R
  <2> HIDE DEF R
  <2> QED  BY <1>2, <1>3, WFMin
<1>5. ASSUME NEW r \in S PROVE s <= r
  <2>1. r \in Nat /\ s \in Nat
    BY <1>3
  <2>2. r < s => <<r, s>> \in R
    BY <2>1
  <2>3. ~(r < s)
    BY <1>4, <2>2
  <2> QED  BY <2>1, <2>3
<1> QED  BY <1>5 DEF First

-----------------------------------------------------------------------------
(* Dispatch.                                                               *)

\* A step of a dispatch between its snapshot and its end.
LEMMA DispatchFrameStep ==
  ASSUME TypeOK, IInv, NEW t \in Threads, depth[t] # 0,
         NEW d \in 1..MaxDepth, d = depth[t], NEW g \in Frame, g = frame[t][d],
         NEW f \in Frame, SetTop(t, f), UNCHANGED <<next, phase, shutdown>>,
         g.at \in {"next", "check", "in"}, f.at \in {"next", "check", "in"},
         f.call = g.call, f.plugin = g.plugin, FrameOK(f),
         f.sub < next, f.todo \subseteq g.todo,
         sub' \in [Handles -> Subscription],
         \A s \in Handles : /\ sub'[s].owner = sub[s].owner
                            /\ sub'[s].enabled = sub[s].enabled
                            /\ sub'[s].registered = sub[s].registered
                            /\ s >= next => sub'[s] = sub[s],
         f.at = "in" => sub[f.sub].enabled,
         ActiveBalanced'
  PROVE  TypeOK' /\ IInv'
<1>1. Changed(t, d, f) /\ depth' = depth
  BY SetTopChanges
<1>2. StackOK'
  BY SetTopStack DEF IInv
<1>3. Calm
  BY <1>1, CalmStep
<1>4. \A u \in Threads, e \in 1..MaxDepth : u # t \/ e # d => ~Exclusive(f, frame[u][e])
  BY SameClaims DEF IInv
<1>5. f.call = "dispatch" /\ f.at \notin {"enabling", "disabling", "waiting", "erase"}
  BY DEF FrameOK
<1>6. Achieved(f)'
  BY <1>5 DEF Achieved
<1>7. OthersUntouched(t, d)
  BY DEF OthersUntouched, IInv, CallsOK, Achieved, Owned, Registered, Depths
<1>8. ShutdownOK'
  BY <1>1, <1>3, ShutdownKept DEF IInv
<1>9. \A s \in f.todo : s < next
  BY DEF IInv, HandlesOK, Depths
<1>10. /\ depth' \in [Threads -> 0..MaxDepth] /\ phase' \in [Plugins -> Phases]
       /\ shutdown' \in {"no", "begun", "complete"} /\ next' = next
       /\ \A r \in Handles : ~(sub[r].registered /\ ~sub'[r].registered)
       /\ \A p \in Plugins : phase'[p] = phase[p]
  BY <1>1 DEF TypeOK
<1> QED
  BY <1>1, <1>2, <1>3, <1>4, <1>5, <1>6, <1>7, <1>8, <1>9, <1>10, FrameStep

\* fetch_add on the next subscription of the snapshot.
LEMMA EnterActiveStep ==
  ASSUME TypeOK, IInv, NEW t \in Threads, EnterActive(t)
  PROVE  TypeOK' /\ IInv'
<1>1. PICK d \in 1..MaxDepth, g \in Frame :
        /\ d = depth[t] /\ g = Top(t) /\ g = frame[t][d]
        /\ FrameOK(g) /\ Achieved(g)
        /\ g.sub < next /\ \A s \in g.todo : s < next
  BY TopFacts DEF EnterActive, At
<1>2. /\ g.at = "next" /\ g.todo # {} /\ depth[t] # 0
      /\ UNCHANGED <<next, phase, shutdown>>
  BY <1>1 DEF EnterActive, At
<1>3. PICK s \in Handles : s = First(g.todo) /\ s \in g.todo
  BY <1>2, FirstMember DEF Frame
<1>4. PICK f \in Frame : f = [g EXCEPT !.at = "check", !.sub = s, !.todo = @ \ {s}]
  BY DEF Frame, Points
<1>5. /\ f.call = g.call /\ f.at = "check" /\ f.plugin = g.plugin
      /\ f.sub = s /\ f.todo = g.todo \ {s}
  BY <1>4 DEF Frame
<1>6. SetTop(t, f) /\ sub' = [sub EXCEPT ![s] = [sub[s] EXCEPT !.active = sub[s].active + 1]]
  BY <1>1, <1>3, <1>4 DEF EnterActive, TypeOK
<1>7. sub[s] \in Subscription /\ sub[s].active + 1 \in Nat
  BY DEF TypeOK, Subscription
<1>8. /\ sub' \in [Handles -> Subscription]
      /\ \A r \in Handles : /\ sub'[r].owner = sub[r].owner
                            /\ sub'[r].enabled = sub[r].enabled
                            /\ sub'[r].registered = sub[r].registered
                            /\ r # s => sub'[r] = sub[r]
      /\ sub'[s].active = sub[s].active + 1
  BY <1>6, <1>7 DEF TypeOK, Subscription
<1>9. s < next /\ s # NoHandle /\ \A r \in Handles : r >= next => sub'[r] = sub[r]
  <2>1. s < next /\ next \in Nat /\ s \in Nat /\ s # NoHandle
    BY <1>1, <1>3 DEF TypeOK, Handles, NoHandle
  <2> QED  BY <1>8, <2>1
<1>10. FrameOK(f)
  BY <1>1, <1>2, <1>5, <1>9 DEF FrameOK
<1>11. ActiveBalanced'
  <2>1. Changed(t, d, f)
    BY <1>1, <1>2, <1>6, SetTopChanges
  <2>2. Holds(f, s) /\ \A r \in Handles : ~Holds(frame[t][d], r)
    BY <1>1, <1>2, <1>5 DEF Holds
  <2>3. \A r \in Handles : sub'[r].active = IF r = s THEN sub[r].active + 1
                                                     ELSE sub[r].active
    BY <1>8
  <2> QED  BY <2>1, <2>2, <2>3, BalancedGain DEF IInv
<1> QED
  BY <1>1, <1>2, <1>5, <1>6, <1>8, <1>9, <1>10, <1>11, DispatchFrameStep

\* A callback begins: its subscription is enabled.
LEMMA CallSubscriptionStep ==
  ASSUME TypeOK, IInv, NEW t \in Threads, CallSubscription(t)
  PROVE  TypeOK' /\ IInv'
<1>1. PICK d \in 1..MaxDepth, g \in Frame :
        /\ d = depth[t] /\ g = Top(t) /\ g = frame[t][d]
        /\ FrameOK(g) /\ Achieved(g)
        /\ g.sub < next /\ \A s \in g.todo : s < next
  BY TopFacts DEF CallSubscription, At
<1>2. PICK f \in Frame : f = [g EXCEPT !.at = "in"]
  BY FrameUpdate DEF Points
<1>3. /\ f.call = g.call /\ f.at = "in" /\ f.plugin = g.plugin
      /\ f.sub = g.sub /\ f.todo = g.todo
  BY <1>2 DEF Frame
<1>4. /\ g.at = "check" /\ depth[t] # 0 /\ sub[g.sub].enabled /\ SetTop(t, f)
      /\ UNCHANGED <<sub, next, phase, shutdown>>
  BY <1>1, <1>2 DEF CallSubscription, At
<1>5. FrameOK(f)
  BY <1>1, <1>3, <1>4 DEF FrameOK
<1>6. ActiveBalanced'
  <2>1. Changed(t, d, f)
    BY <1>1, <1>4, SetTopChanges
  <2> QED  BY <1>1, <1>3, <1>4, <2>1, BalancedKept DEF IInv, Holds
<1> QED  BY <1>1, <1>3, <1>4, <1>5, <1>6, DispatchFrameStep DEF TypeOK

\* fetch_sub, after the callback or instead of it.
LEMMA LeaveActiveStep ==
  ASSUME TypeOK, IInv, NEW t \in Threads, depth[t] # 0, Top(t).at \in {"check", "in"},
         LeaveActive(t)
  PROVE  TypeOK' /\ IInv'
<1>1. PICK d \in 1..MaxDepth, g \in Frame :
        /\ d = depth[t] /\ g = Top(t) /\ g = frame[t][d]
        /\ FrameOK(g) /\ Achieved(g)
        /\ g.sub < next /\ \A s \in g.todo : s < next
  BY TopFacts
<1>2. PICK s \in Handles : s = g.sub
  BY <1>1 DEF FrameOK, Frame
<1>3. PICK f \in Frame : f = [g EXCEPT !.at = "next", !.sub = NoHandle]
  BY DEF Frame, Points
<1>4. /\ f.call = g.call /\ f.at = "next" /\ f.plugin = g.plugin
      /\ f.sub = NoHandle /\ f.todo = g.todo
  BY <1>3 DEF Frame
<1>5. /\ SetTop(t, f) /\ UNCHANGED <<next, phase, shutdown>>
      /\ sub' = [sub EXCEPT ![s] = [sub[s] EXCEPT !.active = sub[s].active - 1]]
  BY <1>1, <1>2, <1>3 DEF LeaveActive, TypeOK
<1>6. sub[s] \in Subscription /\ sub[s].active - 1 \in Nat
  <2>1. sub[s].active \in Nat \ {0}
    BY <1>1, <1>2, ActivePositive DEF IInv, Holds
  <2> QED  BY <2>1 DEF TypeOK
<1>7. /\ sub' \in [Handles -> Subscription]
      /\ \A r \in Handles : /\ sub'[r].owner = sub[r].owner
                            /\ sub'[r].enabled = sub[r].enabled
                            /\ sub'[r].registered = sub[r].registered
                            /\ r # s => sub'[r] = sub[r]
      /\ sub'[s].active = sub[s].active - 1
  BY <1>5, <1>6 DEF TypeOK, Subscription
<1>8. f.sub < next /\ \A r \in Handles : r >= next => sub'[r] = sub[r]
  <2>1. s < next /\ next \in Nat \ {0} /\ s \in Nat
    BY <1>1, <1>2 DEF TypeOK, Handles
  <2> QED  BY <1>4, <1>7, <2>1 DEF NoHandle
<1>9. FrameOK(f)
  BY <1>1, <1>4 DEF FrameOK
<1>10. ActiveBalanced'
  <2>1. Changed(t, d, f)
    BY <1>1, <1>5, SetTopChanges
  <2>2. Holds(frame[t][d], s) /\ \A r \in Handles : ~Holds(f, r)
    BY <1>1, <1>2, <1>4 DEF Holds
  <2>3. \A r \in Handles : sub'[r].active = IF r = s THEN sub[r].active - 1
                                                     ELSE sub[r].active
    BY <1>7
  <2> QED  BY <2>1, <2>2, <2>3, BalancedLoss DEF IInv
<1> QED  BY <1>1, <1>4, <1>5, <1>7, <1>8, <1>9, <1>10, DispatchFrameStep

-----------------------------------------------------------------------------
(* What enables subscriptions.                                             *)

\* Deactivate answers BUSY and the plugin is activated again.
LEMMA DeactivateBusyStep ==
  ASSUME ~Overlaps, TypeOK, IInv, NEW t \in Threads, DeactivateBusy(t)
  PROVE  TypeOK' /\ IInv'
<1>1. PICK d \in 1..MaxDepth, g \in Frame :
        /\ d = depth[t] /\ g = Top(t) /\ g = frame[t][d]
        /\ FrameOK(g) /\ Achieved(g)
        /\ g.sub < next /\ \A s \in g.todo : s < next
  BY TopFacts DEF DeactivateBusy, At
<1>2. PICK p \in Plugins : p = g.plugin
  BY <1>1 DEF DeactivateBusy, At, FrameOK
<1>3. /\ g.at = "begin" /\ depth[t] # 0 /\ RegistryFree /\ MayActivate(p)
      /\ phase' = [phase EXCEPT ![p] = "running"]
      /\ UNCHANGED <<sub, next, shutdown>>
  BY <1>1, <1>2 DEF DeactivateBusy, At
<1>4. /\ phase' \in [Plugins -> Phases] /\ phase'[p] = "running"
      /\ \A q \in Plugins : q # p => phase'[q] = phase[q]
  BY <1>3 DEF TypeOK, Phases
<1>5. OthersUntouched(t, d)
  BY <1>1, <1>2, <1>3, <1>4, LockFree
  DEF OthersUntouched, IInv, CallsOK, Achieved, Depths, OneAtATime, Exclusive
<1>6. CASE Pop(t)
  <2>1. ShutdownOK'
    BY <1>1, <1>3, <1>6, PopShutdown
  <2> QED  BY <1>1, <1>3, <1>4, <1>5, <1>6, <2>1, PopStep DEF TypeOK
<1>7. CASE shutdown = "no" /\ SetTop(t, Activating(p))
  <2>1. PICK f \in Frame :
          /\ f = Activating(p)
          /\ f.call = "activate" /\ f.at = "enabling" /\ f.todo = Owned(p)
          /\ f.sub = 0 /\ f.plugin = p /\ FrameOK(f)
    BY ActivatingFrame
  <2>2. SetTop(t, f)
    BY <1>7, <2>1
  <2>3. Changed(t, d, f) /\ depth' = depth
    BY <1>1, <1>3, <2>2, SetTopChanges
  <2>4. StackOK'
    BY <1>3, <2>1, <2>2, SetTopStack DEF IInv
  <2>5. Calm
    BY <1>3, <2>1, <2>3, CalmStep
  <2>6. \A u \in Threads, e \in 1..MaxDepth : u # t \/ e # d => ~Exclusive(f, frame[u][e])
    BY <1>1, <1>2, <1>3, <2>1, LockFree DEF IInv, OneAtATime, Exclusive, Depths
  <2>7. Achieved(f)'
    BY <1>3, <1>4, <1>7, <2>1 DEF Achieved, Owned, Registered
  <2>8. f.sub < next /\ \A s \in f.todo : s < next
    BY <2>1, GivenOut DEF TypeOK, Owned
  <2>9. ShutdownOK'
    BY <1>3, <1>7 DEF ShutdownOK
  <2>10. ActiveBalanced'
    BY <1>1, <1>3, <2>1, <2>3, BalancedKept DEF IInv, Holds
  <2>11. \A u \in Threads, e \in 1..MaxDepth :
           frame[u][e].call = "unsubscribe" => sub[frame[u][e].sub].owner # f.plugin
    BY <1>3, <2>1 DEF MayActivate
  <2>12. /\ depth' \in [Threads -> 0..MaxDepth] /\ sub' \in [Handles -> Subscription]
         /\ shutdown' \in {"no", "begun", "complete"}
         /\ f.call # "unsubscribe"
         /\ \A s \in Handles : sub'[s] = sub[s]
         /\ \A q \in Plugins : phase'[q] \in {"quiet", "gone"} =>
                                 phase[q] \in {"quiet", "gone"}
    BY <1>3, <1>4, <2>1, <2>3 DEF TypeOK
  <2> QED
    BY <1>3, <1>4, <1>5, <2>1, <2>3, <2>4, <2>5, <2>6, <2>7, <2>8, <2>9, <2>10, <2>11,
       <2>12, FrameStep
<1> QED  BY <1>1, <1>2, <1>6, <1>7 DEF DeactivateBusy

\* While a subscription is enabled nobody is about to stop or erase it.
LEMMA EnableStep ==
  ASSUME TypeOK, IInv, NEW t \in Threads, Enable(t)
  PROVE  TypeOK' /\ IInv'
<1>1. PICK d \in 1..MaxDepth, g \in Frame :
        /\ d = depth[t] /\ g = Top(t) /\ g = frame[t][d]
        /\ FrameOK(g) /\ Achieved(g)
        /\ g.sub < next /\ \A s \in g.todo : s < next
  BY TopFacts DEF Enable, At
<1>2. PICK s \in g.todo : /\ sub' = [sub EXCEPT ![s].enabled = TRUE]
                          /\ SetTop(t, [g EXCEPT !.todo = @ \ {s}])
  BY <1>1 DEF Enable
<1>3. PICK f \in Frame : f = [g EXCEPT !.todo = @ \ {s}]
  BY FrameUpdate
<1>4. /\ f.call = g.call /\ f.at = g.at /\ f.plugin = g.plugin /\ f.sub = g.sub
      /\ f.todo = g.todo \ {s} /\ g.at = "enabling" /\ depth[t] # 0
      /\ SetTop(t, f) /\ s \in Handles /\ UNCHANGED <<next, phase, shutdown>>
  BY <1>1, <1>2, <1>3 DEF Enable, At, Frame
<1>5. sub' = [sub EXCEPT ![s] = [sub[s] EXCEPT !.enabled = TRUE]]
  BY <1>2 DEF TypeOK
<1>6. /\ sub' \in [Handles -> Subscription]
      /\ \A r \in Handles : /\ sub'[r].owner = sub[r].owner
                            /\ sub'[r].active = sub[r].active
                            /\ sub'[r].registered = sub[r].registered
                            /\ r # s => sub'[r] = sub[r]
  BY <1>4, <1>5 DEF TypeOK, Subscription
<1>7. PICK p \in Plugins : /\ p = g.plugin /\ phase[p] = "running" /\ shutdown = "no"
                           /\ sub[s].owner = p /\ sub[s].registered
  BY <1>1, <1>4 DEF Achieved, FrameOK, Owned, Registered
<1>8. Changed(t, d, f) /\ depth' = depth
  BY <1>1, <1>4, SetTopChanges
<1>9. FrameOK(f)
  BY <1>1, <1>4 DEF FrameOK
<1>10. \A r \in Handles : Running(r)' => Running(r)
  BY <1>4, <1>8 DEF Running, Inside, Changed
<1>11. TypeOK'
  BY <1>4, <1>6, <1>8 DEF TypeOK, Changed
<1>12. StackOK'
  BY <1>4, <1>9, SetTopStack DEF IInv
<1>13. HandlesOK'
  <2>1. s < next /\ next \in Nat /\ \A r \in Handles : r \in Nat
    BY <1>1 DEF TypeOK, Handles
  <2>2. \A r \in Handles : IF r < next THEN sub'[r].owner = sub[r].owner
                                       ELSE sub'[r] = sub[r]
    BY <1>6, <2>1
  <2> QED  BY <1>1, <1>4, <1>8, <2>2, HandlesKept DEF IInv
<1>14. OneAtATime'
  <2>1. \A u \in Threads, e \in 1..MaxDepth : u # t \/ e # d => ~Exclusive(f, frame[u][e])
    BY <1>1, <1>4, SameClaims DEF IInv
  <2> QED  BY <1>8, <2>1, ExclusiveKept DEF IInv
<1>15. NoOverlap'
  <2>1. f.sub \in Handles \cup {NoHandle} /\ f.sub < next /\ f.call # "unsubscribe"
    BY <1>1, <1>4 DEF Frame, FrameOK
  <2>2. \A u \in Threads, e \in 1..MaxDepth :
          frame[u][e].call = "unsubscribe" => sub[frame[u][e].sub].owner # f.plugin
    BY <1>1, <1>4 DEF IInv, NoOverlap, Depths
  <2> QED  BY <1>6, <1>8, <1>9, <2>1, <2>2, OverlapKept DEF IInv
<1>16. CallsOK'
  <2> SUFFICES ASSUME NEW u \in Threads, NEW e \in 1..MaxDepth
               PROVE  Achieved(frame[u][e])'
    BY DEF CallsOK, Depths
  <2>1. CASE u = t /\ e = d
    <3>1. Achieved(f)'
      BY <1>1, <1>4, <1>6, <1>7 DEF Achieved, Owned, Registered, FrameOK
    <3> QED  BY <1>8, <2>1, <3>1 DEF Changed, Achieved, Covers, Scope
  <2>2. CASE ~(u = t /\ e = d)
    <3>1. PICK h \in Frame : h = frame[u][e]
      BY DEF TypeOK
    <3>2. FrameOK(h) /\ Achieved(h) /\ frame'[u][e] = h
      BY <1>8, <2>2, <3>1 DEF IInv, StackOK, CallsOK, Depths, Changed
    <3>3. h.plugin # p /\ h.at \notin {"enabling", "disabling"} /\ h.call # "shutdown"
      BY <1>1, <1>4, <1>7, <2>2, <3>1, <3>2
      DEF IInv, OneAtATime, Exclusive, Depths, Achieved
    <3>4. h.call = "unsubscribe" => h.sub # s
      BY <1>1, <1>4, <1>7, <3>1 DEF IInv, NoOverlap, Depths
    <3>5. Covers(h)' = Covers(h)
      BY <1>6 DEF Covers, Scope, Owned, Registered
    <3>6. s \notin Covers(h)
      BY <1>7, <3>3, <3>4 DEF Covers, Scope, Owned
    <3>7. \A r \in Covers(h) : r \in Handles
      BY <3>2 DEF Covers, Scope, Owned, Registered, FrameOK, Frame
    <3>8. \A r \in Covers(h)' : sub'[r] = sub[r] /\ (Running(r)' => Running(r))
      BY <1>6, <1>10, <3>5, <3>6, <3>7
    <3>9. Achieved(h)'
      BY <1>4, <3>2, <3>3, <3>5, <3>8 DEF Achieved
    <3> QED  BY <3>2, <3>9 DEF Achieved, Covers, Scope
  <2> QED  BY <2>1, <2>2
<1>17. ErasedIsSilent'
  BY <1>6, <1>7, <1>10 DEF IInv, ErasedIsSilent
<1>18. QuietIsSilent'
  BY <1>4, <1>6, <1>7, <1>10 DEF IInv, QuietIsSilent
<1>19. ShutdownOK'
  BY <1>4, <1>7 DEF ShutdownOK
<1>20. ActiveBalanced'
  BY <1>1, <1>4, <1>6, <1>8, BalancedKept DEF IInv, Holds
<1> QED
  BY <1>11, <1>12, <1>13, <1>14, <1>15, <1>16, <1>17, <1>18, <1>19, <1>20 DEF IInv

\* Subscribe gives out the next handle, to nobody else's knowledge.
LEMMA SubscribeStep ==
  ASSUME TypeOK, IInv, NEW t \in Threads, NEW p \in Plugins, Subscribe(t, p)
  PROVE  TypeOK' /\ IInv'
<1>1. /\ RegistryFree /\ shutdown = "no" /\ phase[p] \in {"loading", "running"}
      /\ next' = next + 1 /\ UNCHANGED <<frame, depth, phase, shutdown>>
  BY DEF Subscribe, threads
<1>2. PICK n \in Handles : n = next
  BY DEF Subscribe
<1>3. sub' = [sub EXCEPT ![n] = [registered |-> TRUE, owner |-> p,
                                 enabled |-> phase[p] = "running", active |-> 0]]
  BY <1>2 DEF Subscribe
<1>4. /\ sub' \in [Handles -> Subscription]
      /\ \A r \in Handles : r # n => sub'[r] = sub[r]
      /\ sub'[n].registered /\ sub'[n].owner = p /\ sub'[n].active = 0
      /\ sub'[n].enabled = (phase[p] = "running")
  BY <1>3 DEF TypeOK, Subscription
<1>5. sub[n] = NoSubscription
  <2>1. n \in Nat /\ next \in Nat /\ ~(n < next)
    BY <1>2 DEF TypeOK
  <2> QED  BY <2>1 DEF IInv, HandlesOK
<1>6. \A u \in Threads, e \in 1..MaxDepth : frame[u][e].sub # n /\ n \notin frame[u][e].todo
  <2>1. ~(n < next)
    BY <1>2 DEF TypeOK
  <2> QED  BY <2>1 DEF IInv, HandlesOK, Depths
<1>7. \A r \in Handles : Running(r)' <=> Running(r)
  BY <1>1 DEF Running, Inside
<1>8. ~Running(n)
  BY <1>6 DEF Running, Inside
<1>9. TypeOK'
  <2>1. next' \in 1..(MaxSubscriptions + 1)
    BY <1>1, <1>2, ServiceAssumption DEF TypeOK, Handles, ServiceAssumption
  <2> QED  BY <1>1, <1>4, <2>1 DEF TypeOK
<1>10. StackOK' /\ OneAtATime'
  BY <1>1 DEF IInv, StackOK, FrameOK, OneAtATime, Exclusive
<1>11. HandlesOK'
  <2>1. ASSUME NEW s \in Handles
        PROVE  IF s < next' THEN sub'[s].owner \in Plugins ELSE sub'[s] = NoSubscription
    <3>1. s \in Nat /\ next \in Nat /\ (s < next + 1 <=> s < next \/ s = n)
      BY <1>2 DEF TypeOK, Handles
    <3> QED  BY <1>1, <1>2, <1>4, <3>1 DEF IInv, HandlesOK
  <2>2. ASSUME NEW u \in Threads, NEW e \in 1..MaxDepth
        PROVE  frame'[u][e].sub < next' /\ \A s \in frame'[u][e].todo : s < next'
    <3>1. next \in Nat /\ \A s \in Handles \cup {NoHandle} : s \in Nat
      BY DEF TypeOK, Handles, NoHandle
    <3>2. /\ frame[u][e].sub \in Handles \cup {NoHandle}
          /\ frame[u][e].todo \subseteq Handles
      BY FrameFields
    <3>3. frame[u][e].sub < next /\ \A s \in frame[u][e].todo : s < next
      BY DEF IInv, HandlesOK, Depths
    <3>4. \A s \in Handles \cup {NoHandle} : s < next => s < next + 1
      BY <3>1
    <3> QED  BY <1>1, <3>2, <3>3, <3>4
  <2> QED  BY <2>1, <2>2 DEF HandlesOK, Handles, Depths, NoSubscription
<1>12. \A u \in Threads, e \in 1..MaxDepth :
         frame[u][e].call = "unsubscribe" => frame[u][e].sub \in Handles
  <2> SUFFICES ASSUME NEW u \in Threads, NEW e \in 1..MaxDepth,
                      frame[u][e].call = "unsubscribe"
               PROVE  frame[u][e].sub \in Handles
    OBVIOUS
  <2>1. frame[u][e].sub \in Handles \cup {NoHandle}
    BY FrameFields
  <2>2. frame[u][e].sub # NoHandle
    BY DEF IInv, StackOK, FrameOK, Depths
  <2> QED  BY <2>1, <2>2
<1>13. NoOverlap'
  BY <1>1, LockFree DEF IInv, NoOverlap, Depths
<1>14. CallsOK'
  <2> SUFFICES ASSUME NEW u \in Threads, NEW e \in 1..MaxDepth
               PROVE  Achieved(frame[u][e])'
    BY DEF CallsOK, Depths
  <2>1. PICK h \in Frame : h = frame[u][e]
    BY DEF TypeOK
  <2>2. FrameOK(h) /\ Achieved(h) /\ frame'[u][e] = h /\ h.at \notin {"enabling", "disabling"}
    BY <1>1, <2>1, LockFree DEF IInv, StackOK, CallsOK, Depths
  <2>3. h.call # "shutdown" /\ (h.call \in {"deactivate", "release"} => h.plugin # p)
    BY <1>1, <2>2 DEF Achieved
  <2>4. h.call = "unsubscribe" => h.sub # n /\ h.sub \in Handles
    BY <1>6, <1>12, <2>1
  <2>5. h.at \in {"waiting", "erase"} =>
          Covers(h)' = Covers(h) /\ n \notin Covers(h) /\ Covers(h) \subseteq Handles
    <3>1. CASE h.call = "unsubscribe"
      BY <2>4, <3>1 DEF Covers
    <3>2. CASE h.call # "unsubscribe" /\ h.at \in {"waiting", "erase"}
      <4>1. h.call \in {"deactivate", "release"}
        BY <2>2, <2>3, <3>2 DEF FrameOK
      <4>2. Covers(h) = Owned(h.plugin) /\ Covers(h)' = Owned(h.plugin)'
        BY <3>2, <4>1 DEF Covers, Scope
      <4>3. n \notin Owned(h.plugin) /\ Owned(h.plugin) \subseteq Handles
        BY <1>5 DEF Owned, Registered, NoSubscription
      <4>4. Owned(h.plugin)' = Owned(h.plugin)
        BY <1>4, <2>3, <4>1, <4>3 DEF Owned, Registered
      <4> QED  BY <4>2, <4>3, <4>4
    <3> QED  BY <3>1, <3>2
  <2>6. Achieved(h)'
    BY <1>1, <1>4, <1>7, <2>2, <2>5 DEF Achieved
  <2> QED  BY <2>2, <2>6 DEF Achieved, Covers, Scope
<1>15. ErasedIsSilent'
  BY <1>4, <1>7 DEF IInv, ErasedIsSilent
<1>16. QuietIsSilent'
  BY <1>1, <1>4, <1>7 DEF IInv, QuietIsSilent
<1>17. ShutdownOK'
  BY <1>1 DEF ShutdownOK
<1>18. ActiveBalanced'
  BY <1>1, <1>4, <1>5 DEF IInv, ActiveBalanced, Holders, NoSubscription
<1> QED
  BY <1>9, <1>10, <1>11, <1>13, <1>14, <1>15, <1>16, <1>17, <1>18 DEF IInv

-----------------------------------------------------------------------------
(* The invariants.                                                         *)

\* The invariant holds initially.
LEMMA InitHolds ==
  ASSUME Init
  PROVE  TypeOK /\ IInv
<1>1. TypeOK
  BY NoneFrame, ServiceAssumption
  DEF Init, TypeOK, ServiceAssumption, Subscription, NoSubscription, Phases
<1>2. \A t \in Threads, d \in 1..MaxDepth : frame[t][d] = None /\ depth[t] = 0
  BY DEF Init
<1>3. \A s \in Handles : sub[s] = NoSubscription /\ ~Running(s)
  BY <1>2 DEF Init, Running, Inside, None
<1>4. StackOK
  BY <1>2, NoneOK DEF StackOK, Depths, None
<1>5. HandlesOK
  BY <1>2, <1>3 DEF Init, HandlesOK, Handles, Depths, None, NoHandle
<1>6. OneAtATime /\ NoOverlap /\ CallsOK
  BY <1>2, ServiceAssumption
  DEF OneAtATime, Exclusive, NoOverlap, CallsOK, Achieved, Depths, None, ServiceAssumption
<1>7. ShutdownOK /\ ErasedIsSilent /\ QuietIsSilent
  BY <1>3 DEF Init, ShutdownOK, ErasedIsSilent, QuietIsSilent, NoSubscription
<1>8. ActiveBalanced
  <2>1. ASSUME NEW s \in Handles PROVE sub[s].active = Cardinality(Holders(s))
    <3>1. Holders(s) = {}
      BY <1>2 DEF Holders, None
    <3> QED  BY <1>3, <3>1, FS_EmptySet DEF NoSubscription
  <2> QED  BY <2>1 DEF ActiveBalanced
<1> QED  BY <1>1, <1>4, <1>5, <1>6, <1>7, <1>8 DEF IInv

\* The invariant speaks of the variables only.
LEMMA Stutter ==
  ASSUME TypeOK, IInv, UNCHANGED vars
  PROVE  TypeOK' /\ IInv'
<1>1. TypeOK'
  BY DEF TypeOK, vars
<1>2. StackOK' /\ HandlesOK' /\ OneAtATime' /\ NoOverlap'
  BY DEF IInv, StackOK, FrameOK, HandlesOK, OneAtATime, Exclusive, NoOverlap, vars
<1>3. CallsOK'
  BY DEF IInv, CallsOK, Achieved, Covers, Scope, Owned, Registered, Running, Inside, vars
<1>4. ShutdownOK' /\ ErasedIsSilent' /\ QuietIsSilent' /\ ActiveBalanced'
  BY DEF IInv, ShutdownOK, Registered, ErasedIsSilent, QuietIsSilent, Running, Inside,
         ActiveBalanced, Holders, vars
<1> QED  BY <1>1, <1>2, <1>3, <1>4 DEF IInv

\* Every step keeps the invariant.
LEMMA NextKeeps ==
  ASSUME ~Overlaps, TypeOK, IInv, [Next]_vars
  PROVE  TypeOK' /\ IInv'
<1>1. CASE UNCHANGED vars
  BY <1>1, Stutter
<1>2. ASSUME NEW t \in Threads, Call(t)
      PROVE  TypeOK' /\ IInv'
  BY <1>2, UnsubscribeStep, SubscribeStep, RestoreStep, PauseStep, ReleaseStep,
     DispatchStep, ShutdownStep DEF Call
<1>3. ASSUME NEW t \in Threads, Step(t)
      PROVE  TypeOK' /\ IInv'
  <2>1. CASE SkipSubscription(t) \/ CallbackReturns(t)
    BY <2>1, LeaveActiveStep DEF SkipSubscription, CallbackReturns, At
  <2>2. CASE UnsubscribeDone(t) \/ Enable(t) \/ Activated(t) \/ DeactivateBusy(t)
               \/ Deactivate(t) \/ Disable(t) \/ Disabled(t)
    BY <2>2, UnsubscribeDoneStep, EnableStep, ActivatedStep, DeactivateBusyStep,
       DeactivateStep, DisableStep, DisabledStep
  <2>3. CASE Waited(t) \/ WaitsDone(t) \/ Released(t) \/ ShutdownDone(t)
               \/ EnterActive(t) \/ CallSubscription(t) \/ DispatchDone(t)
    BY <2>3, WaitedStep, WaitsDoneStep, ReleasedStep, ShutdownDoneStep,
       EnterActiveStep, CallSubscriptionStep, DispatchDoneStep
  <2> QED  BY <1>3, <2>1, <2>2, <2>3 DEF Step
<1> QED  BY <1>1, <1>2, <1>3 DEF Next

\* The types and the inductive invariant of the service hold as long as no
\* plugin is activated during an Unsubscribe of its own: what every Activate,
\* Deactivate, ReleasePlugin, Shutdown and Unsubscribe does under
\* registry_mutex_ and after it leaves the promises of the others intact.
THEOREM ServiceInvariance ==
  ASSUME ~Overlaps
  PROVE  Spec => [](TypeOK /\ IInv)
<1>1. Init => TypeOK /\ IInv
  BY InitHolds
<1>2. TypeOK /\ IInv /\ [Next]_vars => (TypeOK /\ IInv)'
  BY NextKeeps
<1> QED  BY <1>1, <1>2, PTL DEF Spec

\* The types of the service's records and of the calls its threads are in, which nest
\* no deeper than MaxDepth.
THEOREM ServiceTypeCorrect ==
  ASSUME ~Overlaps
  PROVE  Spec => []TypeOK
<1>1. TypeOK /\ IInv => TypeOK
  OBVIOUS
<1> QED  BY <1>1, ServiceInvariance, PTL

\* Every path out of the loop of Dispatch gives back the count it took: a
\* subscription's `active` is the number of dispatches that hold it.
THEOREM ActiveIsBalanced ==
  ASSUME ~Overlaps
  PROVE  Spec => []ActiveBalanced
<1>1. TypeOK /\ IInv => ActiveBalanced
  BY DEF IInv
<1> QED  BY <1>1, ServiceInvariance, PTL

\* A plugin whose Deactivate or ReleasePlugin answered OK is not called.
THEOREM QuietStaysSilent ==
  ASSUME ~Overlaps
  PROVE  Spec => []QuietIsSilent
<1>1. TypeOK /\ IInv => QuietIsSilent
  BY DEF IInv
<1> QED  BY <1>1, ServiceInvariance, PTL

\* A subscription that Unsubscribe, ReleasePlugin or Shutdown erased is not
\* called, so its user data may be freed.
THEOREM ErasedStaysSilent ==
  ASSUME ~Overlaps
  PROVE  Spec => []ErasedIsSilent
<1>1. TypeOK /\ IInv => ErasedIsSilent
  BY DEF IInv
<1> QED  BY <1>1, ServiceInvariance, PTL

\* When Shutdown has answered TRUE nothing is called any more.
THEOREM ShutdownStaysFinal ==
  ASSUME ~Overlaps
  PROVE  Spec => []ShutdownIsFinal
<1>1. TypeOK /\ IInv => ShutdownIsFinal
  BY DEF IInv, ShutdownIsFinal, ShutdownOK, ErasedIsSilent, Registered
<1> QED  BY <1>1, ServiceInvariance, PTL

-----------------------------------------------------------------------------
(* The service implements the dispatch layer.                              *)

\* A step that changes nothing in the layer.
LEMMA LayerStutter ==
  ASSUME Opened' = Opened, InsideOf' = InsideOf, Stopped' = Stopped
  PROVE  [Layer!Next]_(Layer!layer)
BY DEF Layer!layer

\* Only a step into or out of a callback changes who is inside.
LEMMA InsideKept ==
  ASSUME TypeOK, IInv, NEW t \in Threads, NEW d \in 1..MaxDepth, NEW f,
         Changed(t, d, f), f.at # "in", frame[t][d].at # "in",
         \A s \in Handles : s < next => sub'[s].owner = sub[s].owner
  PROVE  InsideOf' = InsideOf
<1>1. ASSUME NEW u \in Threads, NEW e \in 1..MaxDepth
      PROVE  (IF frame'[u][e].at = "in" THEN sub'[frame'[u][e].sub].owner ELSE NoPlugin)
             = IF frame[u][e].at = "in" THEN sub[frame[u][e].sub].owner ELSE NoPlugin
  <2>1. CASE u = t /\ e = d
    BY <2>1 DEF Changed
  <2>2. CASE ~(u = t /\ e = d)
    <3>1. frame'[u][e] = frame[u][e]
      BY <2>2 DEF Changed
    <3>2. frame[u][e].at = "in" => frame[u][e].sub \in Handles /\ frame[u][e].sub < next
      <4>1. frame[u][e].sub \in Handles \cup {NoHandle}
        BY FrameFields
      <4> QED  BY <4>1 DEF IInv, StackOK, FrameOK, HandlesOK, Depths
    <3> QED  BY <3>1, <3>2
  <2> QED  BY <2>1, <2>2
<1> QED  BY <1>1, Zenon DEF InsideOf

\* The layer is open to the same plugins.
LEMMA OpenedKept ==
  ASSUME \A s \in Handles : /\ sub'[s].enabled = sub[s].enabled
                            /\ sub[s].enabled => sub'[s].owner = sub[s].owner
  PROVE  Opened' = Opened
BY DEF Opened

\* The same plugins are stopped.
LEMMA StoppedKept ==
  ASSUME shutdown' = "complete" <=> shutdown = "complete",
         \A p \in Plugins : phase'[p] \in {"quiet", "gone"} <=> phase[p] \in {"quiet", "gone"}
  PROVE  Stopped' = Stopped
BY DEF Stopped

\* Nobody is inside a stopped plugin.
StoppedApart ==
  \A p \in Stopped : /\ p \notin Opened
                     /\ \A t \in Threads, d \in 1..MaxDepth : InsideOf[t][d] # p

\* StoppedApart follows from the invariant.
LEMMA StoppedSilent == TypeOK /\ IInv => StoppedApart
<1> SUFFICES ASSUME TypeOK, IInv, NEW p \in Stopped
             PROVE  /\ p \notin Opened
                    /\ \A t \in Threads, d \in 1..MaxDepth : InsideOf[t][d] # p
  BY DEF StoppedApart
<1>1. p \in Plugins
  BY DEF Stopped
<1>2. \A s \in Handles : sub[s].owner = p => ~sub[s].enabled /\ ~Running(s)
  BY <1>1 DEF Stopped, IInv, QuietIsSilent, ShutdownOK, ErasedIsSilent, Registered
<1>3. ASSUME NEW t \in Threads, NEW d \in 1..MaxDepth, InsideOf[t][d] = p
      PROVE  FALSE
  <2>1. frame[t][d].at = "in" /\ sub[frame[t][d].sub].owner = p
    BY <1>1, <1>3, ServiceAssumption DEF InsideOf, ServiceAssumption
  <2>2. frame[t][d].sub \in Handles
    <3>1. frame[t][d].sub \in Handles \cup {NoHandle}
      BY FrameFields
    <3> QED  BY <2>1, <3>1 DEF IInv, StackOK, FrameOK, Depths
  <2> QED  BY <1>2, <2>1, <2>2 DEF Running, Inside
<1> QED  BY <1>2, <1>3 DEF Opened

\* A step that stops plugins.
LEMMA LayerQuiesce ==
  ASSUME TypeOK', IInv', Opened' = Opened, InsideOf' = InsideOf, Stopped \subseteq Stopped'
  PROVE  [Layer!Next]_(Layer!layer)
<1>1. PICK S \in SUBSET Plugins : S = Stopped'
  BY DEF Stopped
<1>2. StoppedApart'
  BY StoppedSilent, PTL
<1>3. Layer!Quiesce(S)
  BY <1>1, <1>2 DEF Layer!Quiesce, Layer!Runs, StoppedApart
<1> QED  BY <1>3 DEF Layer!Next

\* A step that disables subscriptions.
LEMMA LayerShut ==
  ASSUME TypeOK, IInv, Opened' \subseteq Opened, InsideOf' = InsideOf, Stopped' = Stopped
  PROVE  [Layer!Next]_(Layer!layer)
<1>1. Opened \subseteq Plugins
  BY DEF Opened, IInv, HandlesOK, NoSubscription
<1>2. PICK S \in SUBSET Plugins : S = Opened \ Opened'
  BY <1>1
<1>3. Layer!Shut(S)
  BY <1>2 DEF Layer!Shut
<1> QED  BY <1>3 DEF Layer!Next

\* A frame that is in no callback before and after.
LEMMA PutInside ==
  ASSUME TypeOK, TypeOK', IInv, NEW t \in Threads, NEW d \in 1..MaxDepth, NEW f,
         f.at # "in", frame[t][d].at # "in",
         frame' = [frame EXCEPT ![t] = [frame[t] EXCEPT ![d] = f]],
         \A s \in Handles : s < next => sub'[s].owner = sub[s].owner
  PROVE  InsideOf' = InsideOf
<1> DEFINE w == [frame[t] EXCEPT ![d] = f]
<1>1. frame[t] \in [1..MaxDepth -> Frame]
  BY DEF TypeOK
<1>2. w[d] = f /\ \A e \in 1..MaxDepth : e # d => w[e] = frame[t][e]
  BY <1>1
<1>3. frame' = [frame EXCEPT ![t] = w]
  OBVIOUS
<1> HIDE DEF w
<1>4. frame'[t] = w /\ \A u \in Threads : u # t => frame'[u] = frame[u]
  BY <1>3 DEF TypeOK
<1>5. Changed(t, d, f)
  BY <1>2, <1>4 DEF Changed, TypeOK
<1> QED  BY <1>5, InsideKept

\* A call begins.
LEMMA PushInside ==
  ASSUME TypeOK, TypeOK', IInv, NEW t \in Threads, CanCall(t), NEW f, f.at # "in",
         Push(t, f), \A s \in Handles : s < next => sub'[s].owner = sub[s].owner
  PROVE  InsideOf' = InsideOf
<1>1. PICK d \in 1..MaxDepth : d = depth[t] + 1 /\ frame[t][d].at = "none"
  BY NextDepth
<1>2. frame' = [frame EXCEPT ![t] = [frame[t] EXCEPT ![d] = f]]
  BY <1>1 DEF Push, TypeOK
<1> QED  BY <1>1, <1>2, PutInside

\* A call goes on.
LEMMA SetTopInside ==
  ASSUME TypeOK, TypeOK', IInv, NEW t \in Threads, depth[t] # 0, NEW f, f.at # "in",
         Top(t).at # "in", SetTop(t, f),
         \A s \in Handles : s < next => sub'[s].owner = sub[s].owner
  PROVE  InsideOf' = InsideOf
<1>1. PICK d \in 1..MaxDepth : d = depth[t] /\ Top(t) = frame[t][d]
  BY TopFrame
<1>2. frame' = [frame EXCEPT ![t] = [frame[t] EXCEPT ![d] = f]]
  BY <1>1 DEF SetTop, TypeOK
<1> QED  BY <1>1, <1>2, PutInside

\* A call ends.
LEMMA PopInside ==
  ASSUME TypeOK, TypeOK', IInv, NEW t \in Threads, depth[t] # 0, Top(t).at # "in",
         Pop(t), \A s \in Handles : s < next => sub'[s].owner = sub[s].owner
  PROVE  InsideOf' = InsideOf
<1>1. PICK d \in 1..MaxDepth : d = depth[t] /\ Top(t) = frame[t][d]
  BY TopFrame
<1>2. frame' = [frame EXCEPT ![t] = [frame[t] EXCEPT ![d] = None]]
  BY <1>1 DEF Pop, TypeOK
<1>3. None.at # "in"
  BY DEF None
<1> QED  BY <1>1, <1>2, <1>3, PutInside

\* One subscription changes in a field that is not its owner.
LEMMA FieldFacts ==
  ASSUME TypeOK, NEW s \in Handles
  PROVE  /\ \A b : sub' = [sub EXCEPT ![s].enabled = b] =>
              /\ sub'[s].enabled = b
              /\ \A r \in Handles : sub'[r].owner = sub[r].owner
              /\ \A r \in Handles : r # s => sub'[r] = sub[r]
         /\ \A b : sub' = [sub EXCEPT ![s].registered = b] =>
              \A r \in Handles : /\ sub'[r].owner = sub[r].owner
                                 /\ sub'[r].enabled = sub[r].enabled
         /\ \A b : sub' = [sub EXCEPT ![s].active = b] =>
              \A r \in Handles : /\ sub'[r].owner = sub[r].owner
                                 /\ sub'[r].enabled = sub[r].enabled
<1>1. sub[s] \in Subscription
  BY DEF TypeOK
<1>2. ASSUME NEW b, sub' = [sub EXCEPT ![s].enabled = b]
      PROVE  /\ sub'[s].enabled = b
             /\ \A r \in Handles : sub'[r].owner = sub[r].owner
             /\ \A r \in Handles : r # s => sub'[r] = sub[r]
  BY <1>1, <1>2 DEF TypeOK, Subscription
<1>3. ASSUME NEW b, sub' = [sub EXCEPT ![s].registered = b]
      PROVE  \A r \in Handles : /\ sub'[r].owner = sub[r].owner
                                /\ sub'[r].enabled = sub[r].enabled
  BY <1>1, <1>3 DEF TypeOK, Subscription
<1>4. ASSUME NEW b, sub' = [sub EXCEPT ![s].active = b]
      PROVE  \A r \in Handles : /\ sub'[r].owner = sub[r].owner
                                /\ sub'[r].enabled = sub[r].enabled
  BY <1>1, <1>4 DEF TypeOK, Subscription
<1> QED  BY <1>2, <1>3, <1>4

\* The calls of plugins and host, as steps of the layer.
LEMMA LayerCalls ==
  ASSUME TypeOK, IInv, TypeOK', IInv', NEW t \in Threads, Call(t)
  PROVE  [Layer!Next]_(Layer!layer)
<1>1. ASSUME NEW s \in Handles, Unsubscribe(t, s)
      PROVE  [Layer!Next]_(Layer!layer)
  <2>1. /\ ~sub'[s].enabled /\ \A r \in Handles : sub'[r].owner = sub[r].owner
        /\ \A r \in Handles : r # s => sub'[r] = sub[r]
    BY <1>1, FieldFacts DEF Unsubscribe
  <2>2. Opened' \subseteq Opened
    BY <2>1 DEF Opened
  <2>3. Stopped' = Stopped
    BY <1>1, StoppedKept DEF Unsubscribe
  <2>4. InsideOf' = InsideOf
    <3>1. CASE UNCHANGED threads
      <4>1. PICK d \in 1..MaxDepth : d = depth[t] + 1 /\ frame[t][d].at = "none"
        BY <1>1, NextDepth DEF Unsubscribe
      <4>2. PICK f : f = frame[t][d]
        OBVIOUS
      <4>3. Changed(t, d, f)
        BY <3>1, <4>2 DEF Changed, TypeOK, threads
      <4> QED  BY <2>1, <4>1, <4>2, <4>3, InsideKept
    <3>2. CASE Push(t, [None EXCEPT !.call = "unsubscribe", !.at = "waiting",
                                    !.sub = s, !.todo = {s}])
      <4>1. [None EXCEPT !.call = "unsubscribe", !.at = "waiting",
                         !.sub = s, !.todo = {s}].at # "in"
        BY DEF None
      <4> QED  BY <1>1, <2>1, <3>2, <4>1, PushInside DEF Unsubscribe
    <3> QED  BY <1>1, <3>1, <3>2 DEF Unsubscribe
  <2> QED  BY <2>2, <2>3, <2>4, LayerShut
<1>2. ASSUME NEW p \in Plugins, Subscribe(t, p)
      PROVE  [Layer!Next]_(Layer!layer)
  <2>1. PICK n \in Handles :
          /\ n = next
          /\ sub' = [sub EXCEPT ![n] = [registered |-> TRUE, owner |-> p,
                                        enabled |-> phase[p] = "running", active |-> 0]]
    BY <1>2 DEF Subscribe
  <2>2. /\ \A r \in Handles : r # n => sub'[r] = sub[r]
        /\ sub'[n].owner = p /\ sub'[n].enabled = (phase[p] = "running")
    BY <2>1 DEF TypeOK
  <2>3. ~(n < next) /\ ~sub[n].enabled
    BY <2>1 DEF TypeOK, IInv, HandlesOK, NoSubscription
  <2>4. UNCHANGED <<phase, frame, depth, shutdown>>
    BY <1>2 DEF Subscribe, threads
  <2>5. Stopped' = Stopped
    BY <2>4, StoppedKept
  <2>6. InsideOf' = InsideOf
    <3>1. PICK d \in 1..MaxDepth : d = depth[t] + 1 /\ frame[t][d].at = "none"
      BY <1>2, NextDepth DEF Subscribe
    <3>2. PICK f : f = frame[t][d]
      OBVIOUS
    <3>3. Changed(t, d, f)
      BY <2>4, <3>2 DEF Changed, TypeOK
    <3>4. \A s \in Handles : s < next => sub'[s].owner = sub[s].owner
      BY <2>2, <2>3
    <3> QED  BY <3>1, <3>2, <3>3, <3>4, InsideKept
  <2>7. CASE phase[p] = "running"
    <3>1. Opened' = Opened \cup {p}
      <4>1. \A r \in Handles : sub[r].enabled => r # n
        BY <2>3
      <4>2. \A x : x \in Opened' <=> \E r \in Handles : sub'[r].enabled /\ x = sub'[r].owner
        BY DEF Opened
      <4>3. \A x : x \in Opened <=> \E r \in Handles : sub[r].enabled /\ x = sub[r].owner
        BY DEF Opened
      <4>4. ASSUME NEW x \in Opened' PROVE x \in Opened \cup {p}
        <5>1. PICK r \in Handles : sub'[r].enabled /\ x = sub'[r].owner
          BY <4>2, <4>4
        <5> QED  BY <2>2, <4>3, <5>1
      <4>5. p \in Opened'
        BY <2>2, <2>7, <4>2
      <4>6. ASSUME NEW x \in Opened PROVE x \in Opened'
        <5>1. PICK r \in Handles : sub[r].enabled /\ x = sub[r].owner
          BY <4>3, <4>6
        <5> QED  BY <2>2, <4>1, <4>2, <5>1
      <4> QED  BY <4>4, <4>5, <4>6
    <3>2. p \notin Stopped
      BY <1>2, <2>7 DEF Stopped, Subscribe
    <3>3. Layer!Open(p)
      BY <2>5, <2>6, <3>1, <3>2 DEF Layer!Open
    <3> QED  BY <3>3 DEF Layer!Next
  <2>8. CASE phase[p] # "running"
    <3>1. Opened' = Opened
      BY <2>2, <2>3, <2>8 DEF Opened
    <3> QED  BY <2>5, <2>6, <3>1, LayerStutter
  <2> QED  BY <2>7, <2>8
<1>3. ASSUME NEW p \in Plugins, Restore(t, p)
      PROVE  [Layer!Next]_(Layer!layer)
  <2>1. sub' = sub /\ Opened' = Opened /\ shutdown' = shutdown
    BY <1>3 DEF Restore, Opened
  <2>2. phase'[p] = "running" /\ \A q \in Plugins : q # p => phase'[q] = phase[q]
    BY <1>3 DEF Restore, TypeOK
  <2>3. InsideOf' = InsideOf
    <3>1. CASE UNCHANGED threads
      BY <2>1, <3>1 DEF InsideOf, threads
    <3>2. CASE Push(t, Activating(p))
      BY <1>3, <2>1, <3>2, PushInside, ActivatingFrame DEF Restore
    <3> QED  BY <1>3, <3>1, <3>2 DEF Restore
  <2>4. CASE shutdown = "complete"
    BY <2>1, <2>3, <2>4, LayerStutter DEF Stopped
  <2>5. CASE shutdown # "complete"
    <3>1. Stopped' = Stopped \ {p}
      BY <2>1, <2>2, <2>5 DEF Stopped
    <3>2. Layer!Restart(p)
      BY <2>1, <2>3, <3>1 DEF Layer!Restart
    <3> QED  BY <3>2 DEF Layer!Next
  <2> QED  BY <2>4, <2>5
<1>4. ASSUME NEW p \in Plugins, Pause(t, p) \/ Release(t, p)
      PROVE  [Layer!Next]_(Layer!layer)
  <2>1. /\ sub' = sub /\ shutdown' = shutdown
        /\ \/ phase' = [phase EXCEPT ![p] = "closing"] /\ phase[p] \in {"loading", "running"}
           \/ phase' = phase
    BY <1>4 DEF Pause, Release, TypeOK
  <2>2. Stopped' = Stopped
    BY <2>1, StoppedKept DEF TypeOK
  <2>3. InsideOf' = InsideOf
    <3>1. \A c : [None EXCEPT !.call = c, !.at = "begin", !.plugin = p].at # "in"
      BY DEF None
    <3> QED  BY <1>4, <2>1, <3>1, PushInside DEF Pause, Release
  <2> QED  BY <2>1, <2>2, <2>3, LayerStutter DEF Opened
<1>5. CASE Dispatch(t)
  <2>1. [None EXCEPT !.call = "dispatch", !.at = "next",
           !.todo = {s \in Registered : sub[s].enabled}].at # "in"
    BY DEF None
  <2>2. InsideOf' = InsideOf
    BY <1>5, <2>1, PushInside DEF Dispatch
  <2> QED  BY <1>5, <2>2, LayerStutter DEF Dispatch, Opened, Stopped
<1>6. CASE Shutdown(t)
  <2>1. [None EXCEPT !.call = "shutdown", !.at = "disabling", !.todo = Registered].at # "in"
    BY DEF None
  <2>2. InsideOf' = InsideOf
    BY <1>6, <2>1, PushInside DEF Shutdown
  <2>3. Stopped' = Stopped
    BY <1>6, StoppedKept DEF Shutdown
  <2> QED  BY <1>6, <2>2, <2>3, LayerStutter DEF Shutdown, Opened
<1> QED  BY <1>1, <1>2, <1>3, <1>4, <1>5, <1>6 DEF Call

\* The point a frame is at after a step of its call.
LEMMA PointFacts ==
  ASSUME NEW g \in Frame
  PROVE  /\ \A s : [g EXCEPT !.todo = @ \ {s}].at = g.at
         /\ \A a : [g EXCEPT !.at = a].at = a
         /\ \A a, S : [g EXCEPT !.at = a, !.todo = S].at = a
         /\ \A a, s : [g EXCEPT !.at = a, !.sub = s].at = a
         /\ \A a, s, S : [g EXCEPT !.at = a, !.sub = s, !.todo = S].at = a
BY DEF Frame

\* The steps of a call that touch neither the subscriptions nor the phases.
LEMMA LayerPlain ==
  ASSUME TypeOK, IInv, TypeOK', NEW t \in Threads,
         \/ Activated(t) \/ Deactivate(t) \/ Disabled(t) \/ Waited(t) \/ DispatchDone(t)
  PROVE  [Layer!Next]_(Layer!layer)
<1>1. depth[t] # 0 /\ Top(t).at # "in" /\ UNCHANGED <<sub, next, phase, shutdown>>
  BY DEF Activated, Deactivate, Disabled, Waited, DispatchDone, At
<1>2. Pop(t) \/ \E f : SetTop(t, f) /\ f.at # "in"
  <2>1. Top(t) \in Frame
    BY <1>1, TopFrame
  <2>2. CASE Deactivate(t)
    <3>1. [Top(t) EXCEPT !.at = "disabling", !.todo = Owned(Top(t).plugin)].at # "in"
      BY <2>1, PointFacts
    <3> QED  BY <2>2, <3>1 DEF Deactivate
  <2>3. CASE Disabled(t)
    <3>1. [Top(t) EXCEPT !.at = "waiting", !.todo = Scope(Top(t))].at # "in"
      BY <2>1, PointFacts
    <3> QED  BY <2>3, <3>1 DEF Disabled
  <2>4. CASE Waited(t)
    <3>1. PICK s : SetTop(t, [Top(t) EXCEPT !.todo = @ \ {s}])
      BY <2>4 DEF Waited
    <3>2. [Top(t) EXCEPT !.todo = @ \ {s}].at # "in"
      BY <1>1, <2>1, PointFacts
    <3> QED  BY <3>1, <3>2
  <2> QED  BY <2>2, <2>3, <2>4 DEF Activated, DispatchDone
<1>3. InsideOf' = InsideOf
  BY <1>1, <1>2, PopInside, SetTopInside
<1> QED  BY <1>1, <1>3, LayerStutter DEF Opened, Stopped

\* The end of an Unsubscribe erases what is disabled.
LEMMA LayerErase ==
  ASSUME TypeOK, IInv, TypeOK', NEW t \in Threads, UnsubscribeDone(t)
  PROVE  [Layer!Next]_(Layer!layer)
<1>1. depth[t] # 0 /\ Top(t).at # "in" /\ Pop(t) /\ UNCHANGED <<phase, shutdown>>
  BY DEF UnsubscribeDone, At
<1>2. PICK s \in Handles : s = Top(t).sub
  <2>1. Top(t).sub # NoHandle /\ Top(t).sub \in Handles \cup {NoHandle}
    BY <1>1, TopFacts, TopFrame DEF UnsubscribeDone, FrameOK, Frame
  <2> QED  BY <2>1
<1>3. \A r \in Handles : sub'[r].owner = sub[r].owner /\ sub'[r].enabled = sub[r].enabled
  BY <1>2, FieldFacts DEF UnsubscribeDone
<1>4. InsideOf' = InsideOf
  BY <1>1, <1>3, PopInside
<1>5. Opened' = Opened
  BY <1>3, OpenedKept
<1>6. Stopped' = Stopped
  BY <1>1 DEF Stopped
<1> QED  BY <1>4, <1>5, <1>6, LayerStutter

\* Enabling a subscription opens the layer to its plugin, which is not stopped.
LEMMA LayerEnable ==
  ASSUME TypeOK, IInv, TypeOK', NEW t \in Threads, Enable(t)
  PROVE  [Layer!Next]_(Layer!layer)
<1>1. depth[t] # 0 /\ Top(t).at = "enabling" /\ UNCHANGED <<phase, shutdown>>
  BY DEF Enable, At
<1>2. PICK s \in Top(t).todo :
        /\ sub' = [sub EXCEPT ![s].enabled = TRUE]
        /\ SetTop(t, [Top(t) EXCEPT !.todo = @ \ {s}])
  BY DEF Enable
<1>3. PICK g \in Frame : g = Top(t) /\ FrameOK(g) /\ Achieved(g)
  BY <1>1, TopFacts
<1>4. PICK p \in Plugins : p = g.plugin /\ phase[p] = "running" /\ shutdown = "no"
  BY <1>1, <1>3 DEF FrameOK, Achieved
<1>5. s \in Handles /\ sub[s].owner = p
  BY <1>1, <1>2, <1>3, <1>4 DEF Achieved, Owned, Registered
<1>6. /\ sub'[s].enabled
      /\ \A r \in Handles : sub'[r].owner = sub[r].owner
      /\ \A r \in Handles : r # s => sub'[r] = sub[r]
  BY <1>2, <1>5, FieldFacts
<1>7. InsideOf' = InsideOf
  <2>1. [Top(t) EXCEPT !.todo = @ \ {s}].at # "in"
    BY <1>1, <1>3, PointFacts
  <2> QED  BY <1>1, <1>2, <1>6, <2>1, SetTopInside
<1>8. Stopped' = Stopped /\ p \notin Stopped
  BY <1>1, <1>4 DEF Stopped
<1>9. Opened' = Opened \cup {p}
  <2>1. \A x : x \in Opened' <=> \E r \in Handles : sub'[r].enabled /\ x = sub'[r].owner
    BY DEF Opened
  <2>2. \A x : x \in Opened <=> \E r \in Handles : sub[r].enabled /\ x = sub[r].owner
    BY DEF Opened
  <2>3. ASSUME NEW x \in Opened' PROVE x \in Opened \cup {p}
    <3>1. PICK r \in Handles : sub'[r].enabled /\ x = sub'[r].owner
      BY <2>1, <2>3
    <3> QED  BY <1>5, <1>6, <2>2, <3>1
  <2>4. p \in Opened'
    BY <1>5, <1>6, <2>1
  <2>5. ASSUME NEW x \in Opened PROVE x \in Opened'
    <3>1. PICK r \in Handles : sub[r].enabled /\ x = sub[r].owner
      BY <2>2, <2>5
    <3> QED  BY <1>6, <2>1, <3>1
  <2> QED  BY <2>3, <2>4, <2>5
<1>10. Layer!Open(p)
  BY <1>7, <1>8, <1>9 DEF Layer!Open
<1> QED  BY <1>10 DEF Layer!Next

\* Disabling a subscription may shut the layer to its plugin.
LEMMA LayerDisable ==
  ASSUME TypeOK, IInv, TypeOK', NEW t \in Threads, Disable(t)
  PROVE  [Layer!Next]_(Layer!layer)
<1>1. depth[t] # 0 /\ Top(t).at = "disabling" /\ UNCHANGED <<phase, shutdown>>
  BY DEF Disable, At
<1>2. Top(t) \in Frame
  BY <1>1, TopFrame
<1>3. PICK s \in Handles : /\ sub' = [sub EXCEPT ![s].enabled = FALSE]
                           /\ SetTop(t, [Top(t) EXCEPT !.todo = @ \ {s}])
  BY <1>2 DEF Disable, Frame
<1>4. /\ ~sub'[s].enabled
      /\ \A r \in Handles : sub'[r].owner = sub[r].owner
      /\ \A r \in Handles : r # s => sub'[r] = sub[r]
  BY <1>3, FieldFacts
<1>5. InsideOf' = InsideOf
  <2>1. [Top(t) EXCEPT !.todo = @ \ {s}].at # "in"
    BY <1>1, <1>2, PointFacts
  <2> QED  BY <1>1, <1>3, <1>4, <2>1, SetTopInside
<1>6. Opened' \subseteq Opened
  BY <1>4 DEF Opened
<1>7. Stopped' = Stopped
  BY <1>1 DEF Stopped
<1> QED  BY <1>5, <1>6, <1>7, LayerShut

\* A Deactivate that answered BUSY restarts the plugin.
LEMMA LayerBusy ==
  ASSUME TypeOK, IInv, TypeOK', NEW t \in Threads, DeactivateBusy(t)
  PROVE  [Layer!Next]_(Layer!layer)
<1>1. /\ depth[t] # 0 /\ Top(t).at = "begin" /\ UNCHANGED <<sub, shutdown>>
      /\ phase' = [phase EXCEPT ![Top(t).plugin] = "running"]
      /\ Pop(t) \/ SetTop(t, Activating(Top(t).plugin))
  BY DEF DeactivateBusy, At
<1>2. PICK g \in Frame : g = Top(t) /\ FrameOK(g)
  BY <1>1, TopFacts
<1>3. PICK p \in Plugins : p = g.plugin
  BY <1>1, <1>2 DEF FrameOK
<1>4. phase'[p] = "running" /\ \A q \in Plugins : q # p => phase'[q] = phase[q]
  BY <1>1, <1>2, <1>3 DEF TypeOK
<1>5. InsideOf' = InsideOf
  <2>1. Activating(p).at # "in"
    BY ActivatingFrame
  <2> QED  BY <1>1, <1>2, <1>3, <2>1, PopInside, SetTopInside
<1>6. CASE shutdown = "complete"
  BY <1>1, <1>5, <1>6, LayerStutter DEF Stopped, Opened
<1>7. CASE shutdown # "complete"
  <2>1. Stopped' = Stopped \ {p}
    BY <1>1, <1>4, <1>7 DEF Stopped
  <2>2. Layer!Restart(p)
    BY <1>1, <1>5, <2>1 DEF Layer!Restart, Opened
  <2> QED  BY <2>2 DEF Layer!Next
<1> QED  BY <1>6, <1>7

\* Deactivate, ReleasePlugin and Shutdown answer: more plugins are stopped.
LEMMA LayerAnswer ==
  ASSUME TypeOK, IInv, TypeOK', IInv', NEW t \in Threads,
         WaitsDone(t) \/ Released(t) \/ ShutdownDone(t)
  PROVE  [Layer!Next]_(Layer!layer)
<1>1. depth[t] # 0 /\ Top(t).at \in {"waiting", "erase"} /\ Top(t).at # "in"
  BY DEF WaitsDone, Released, ShutdownDone, At
<1>2. PICK g \in Frame : g = Top(t) /\ FrameOK(g)
  BY <1>1, TopFacts
<1>3. \A s \in Handles : sub'[s].owner = sub[s].owner /\ sub'[s].enabled = sub[s].enabled
  <2>1. \A S : sub' = Erased(S) =>
          \A s \in Handles : sub'[s].owner = sub[s].owner /\ sub'[s].enabled = sub[s].enabled
    BY DEF Erased, TypeOK, Subscription
  <2>2. sub' = sub \/ \E S : sub' = Erased(S)
    BY DEF WaitsDone, Released, ShutdownDone
  <2> QED  BY <2>1, <2>2
<1>4. Opened' = Opened
  BY <1>3, OpenedKept
<1>5. InsideOf' = InsideOf
  <2>1. Pop(t) \/ \E f : SetTop(t, f) /\ f.at # "in"
    <3>1. [Top(t) EXCEPT !.at = "erase"].at # "in"
      BY <1>2, PointFacts
    <3> QED  BY <3>1 DEF WaitsDone, Released, ShutdownDone
  <2> QED  BY <1>1, <1>3, <2>1, PopInside, SetTopInside
<1>6. Stopped \subseteq Stopped'
  <2>1. CASE ShutdownDone(t)
    BY <2>1 DEF Stopped, ShutdownDone
  <2>2. CASE WaitsDone(t) \/ Released(t)
    <3>1. shutdown' = shutdown
      BY <2>2 DEF WaitsDone, Released
    <3>2. \/ phase' = phase
          \/ \E q \in {"quiet", "gone"} : phase' = [phase EXCEPT ![g.plugin] = q]
      BY <1>2, <2>2 DEF WaitsDone, Released
    <3>3. \A p \in Plugins : phase[p] \in {"quiet", "gone"} => phase'[p] \in {"quiet", "gone"}
      BY <3>2 DEF TypeOK
    <3> QED  BY <3>1, <3>3 DEF Stopped
  <2> QED  BY <2>1, <2>2, <1>1 DEF WaitsDone, Released, ShutdownDone
<1> QED  BY <1>4, <1>5, <1>6, LayerQuiesce

\* What replacing one frame means for who is inside.
LEMMA InsideUpdate ==
  ASSUME TypeOK, IInv, NEW t \in Threads, NEW d \in 1..MaxDepth, NEW f, NEW v,
         Changed(t, d, f), v = IF f.at = "in" THEN sub'[f.sub].owner ELSE NoPlugin,
         \A s \in Handles : s < next => sub'[s].owner = sub[s].owner
  PROVE  InsideOf' = [InsideOf EXCEPT ![t][d] = v]
<1> DEFINE In(u, e) == IF frame[u][e].at = "in" THEN sub[frame[u][e].sub].owner ELSE NoPlugin
           New(u, e) == IF frame'[u][e].at = "in" THEN sub'[frame'[u][e].sub].owner
                        ELSE NoPlugin
           Put(u, e) == IF u = t /\ e = d THEN v ELSE In(u, e)
<1>1. ASSUME NEW u \in Threads, NEW e \in 1..MaxDepth
      PROVE  New(u, e) = Put(u, e)
  <2>1. CASE u = t /\ e = d
    BY <2>1 DEF Changed
  <2>2. CASE ~(u = t /\ e = d)
    <3>1. frame'[u][e] = frame[u][e]
      BY <2>2 DEF Changed
    <3>2. frame[u][e].at = "in" => frame[u][e].sub \in Handles /\ frame[u][e].sub < next
      <4>1. frame[u][e].sub \in Handles \cup {NoHandle}
        BY FrameFields
      <4> QED  BY <4>1 DEF IInv, StackOK, FrameOK, HandlesOK, Depths
    <3> QED  BY <2>2, <3>1, <3>2
  <2> QED  BY <2>1, <2>2
<1>2. InsideOf = [u \in Threads |-> [e \in 1..MaxDepth |-> In(u, e)]]
  BY DEF InsideOf
<1>3. InsideOf' = [u \in Threads |-> [e \in 1..MaxDepth |-> New(u, e)]]
  BY DEF InsideOf
<1> HIDE DEF In, New
<1>4. InsideOf' = [u \in Threads |-> [e \in 1..MaxDepth |-> Put(u, e)]]
  BY <1>1, <1>3, Zenon
<1>5. [InsideOf EXCEPT ![t][d] = v] = [u \in Threads |-> [e \in 1..MaxDepth |-> Put(u, e)]]
  BY <1>2
<1> QED  BY <1>4, <1>5

\* The steps of Dispatch: a callback is entered only while the layer is open
\* to its plugin, for `enabled` is read again after active was raised.
LEMMA LayerDispatch ==
  ASSUME TypeOK, IInv, TypeOK', NEW t \in Threads,
         \/ EnterActive(t) \/ CallSubscription(t) \/ SkipSubscription(t)
         \/ CallbackReturns(t)
  PROVE  [Layer!Next]_(Layer!layer)
<1>1. depth[t] # 0 /\ UNCHANGED <<next, phase, shutdown>>
  BY DEF EnterActive, CallSubscription, SkipSubscription, CallbackReturns, LeaveActive, At
<1>2. PICK d \in 1..MaxDepth, g \in Frame :
        /\ d = depth[t] /\ g = Top(t) /\ g = frame[t][d] /\ FrameOK(g)
        /\ g.sub < next /\ \A s \in g.todo : s < next
  BY <1>1, TopFacts
<1>3. Stopped' = Stopped
  BY <1>1 DEF Stopped
<1>4. CASE EnterActive(t)
  <2>1. First(g.todo) \in Handles
    BY <1>2, <1>4, FirstMember DEF EnterActive, Frame
  <2>2. sub' = [sub EXCEPT ![First(g.todo)].active = @ + 1]
    BY <1>2, <1>4 DEF EnterActive
  <2>3. \A r \in Handles : sub'[r].owner = sub[r].owner /\ sub'[r].enabled = sub[r].enabled
    BY <2>1, <2>2, FieldFacts
  <2>4. g.at = "next"
    BY <1>2, <1>4 DEF EnterActive, At
  <2>5. PICK f : SetTop(t, f) /\ f.at = "check"
    <3>1. [g EXCEPT !.at = "check", !.sub = First(g.todo),
                    !.todo = @ \ {First(g.todo)}].at = "check"
      BY DEF Frame
    <3> QED  BY <1>2, <1>4, <3>1 DEF EnterActive
  <2>6. InsideOf' = InsideOf
    BY <1>1, <1>2, <2>3, <2>4, <2>5, SetTopInside
  <2>7. Opened' = Opened
    BY <2>3, OpenedKept
  <2> QED  BY <1>3, <2>6, <2>7, LayerStutter
<1>5. CASE SkipSubscription(t) \/ CallbackReturns(t)
  <2>1. g.at \in {"check", "in"} /\ LeaveActive(t)
    BY <1>2, <1>5 DEF SkipSubscription, CallbackReturns, At
  <2>2. PICK s \in Handles : s = g.sub
    <3>1. g.sub # NoHandle /\ g.sub \in Handles \cup {NoHandle}
      BY <1>2, <2>1 DEF FrameOK, Frame
    <3> QED  BY <3>1
  <2>3. sub' = [sub EXCEPT ![s].active = @ - 1]
    BY <1>2, <2>1, <2>2 DEF LeaveActive
  <2>4. \A r \in Handles : sub'[r].owner = sub[r].owner /\ sub'[r].enabled = sub[r].enabled
    BY <2>3, FieldFacts
  <2>5. Opened' = Opened
    BY <2>4, OpenedKept
  <2>6. PICK f \in Frame : SetTop(t, f) /\ f.at = "next"
    <3>1. /\ [g EXCEPT !.at = "next", !.sub = NoHandle] \in Frame
          /\ [g EXCEPT !.at = "next", !.sub = NoHandle].at = "next"
      BY DEF Frame, Points
    <3> QED  BY <1>2, <2>1, <3>1 DEF LeaveActive
  <2>7. Changed(t, d, f)
    BY <1>1, <1>2, <2>6, SetTopChanges
  <2>8. InsideOf' = [InsideOf EXCEPT ![t][d] = NoPlugin]
    BY <1>2, <2>4, <2>6, <2>7, InsideUpdate
  <2>9. Layer!Leave(t, d)
    BY <1>3, <2>5, <2>8 DEF Layer!Leave
  <2> QED  BY <2>9 DEF Layer!Next
<1>6. CASE CallSubscription(t)
  <2>1. g.at = "check" /\ sub[g.sub].enabled /\ sub' = sub
    BY <1>2, <1>6 DEF CallSubscription, At
  <2>2. g.sub \in Handles /\ g.sub < next
    <3>1. g.sub # NoHandle /\ g.sub \in Handles \cup {NoHandle}
      BY <1>2, <2>1 DEF FrameOK, Frame
    <3> QED  BY <1>2, <3>1
  <2>3. PICK p \in Plugins : p = sub[g.sub].owner
    BY <2>2 DEF IInv, HandlesOK
  <2>4. p \in Opened /\ Opened' = Opened
    BY <2>1, <2>2, <2>3 DEF Opened
  <2>5. PICK f \in Frame : SetTop(t, f) /\ f.at = "in" /\ f.sub = g.sub
    <3>1. /\ [g EXCEPT !.at = "in"] \in Frame /\ [g EXCEPT !.at = "in"].at = "in"
          /\ [g EXCEPT !.at = "in"].sub = g.sub
      BY DEF Frame, Points
    <3> QED  BY <1>2, <1>6, <3>1 DEF CallSubscription
  <2>6. Changed(t, d, f)
    BY <1>1, <1>2, <2>5, SetTopChanges
  <2>7. p = IF f.at = "in" THEN sub'[f.sub].owner ELSE NoPlugin
    BY <2>1, <2>3, <2>5
  <2>8. InsideOf' = [InsideOf EXCEPT ![t][d] = p]
    BY <2>1, <2>6, <2>7, InsideUpdate
  <2>9. InsideOf[t][d] = NoPlugin
    BY <1>2, <2>1 DEF InsideOf
  <2>10. Layer!Enter(t, d, p)
    BY <1>3, <2>4, <2>8, <2>9 DEF Layer!Enter
  <2> QED  BY <2>10 DEF Layer!Next
<1> QED  BY <1>4, <1>5, <1>6

\* Every step of the service is a step of the layer, or changes nothing in it.
LEMMA LayerSteps ==
  ASSUME TypeOK, IInv, TypeOK', IInv', [Next]_vars
  PROVE  [Layer!Next]_(Layer!layer)
<1>1. CASE UNCHANGED vars
  BY <1>1, LayerStutter DEF vars, threads, Opened, InsideOf, Stopped
<1>2. ASSUME NEW t \in Threads, Call(t)
      PROVE  [Layer!Next]_(Layer!layer)
  BY <1>2, LayerCalls
<1>3. ASSUME NEW t \in Threads, Step(t)
      PROVE  [Layer!Next]_(Layer!layer)
  BY <1>3, LayerPlain, LayerErase, LayerEnable, LayerDisable, LayerBusy, LayerAnswer,
     LayerDispatch
  DEF Step
<1> QED  BY <1>1, <1>2, <1>3 DEF Next

\* At first the layer is open to no plugin, and nobody is inside one.
LEMMA LayerInit == Init => Layer!Init
<1> SUFFICES ASSUME Init PROVE Layer!Init
  OBVIOUS
<1>1. Opened = {}
  BY DEF Init, Opened, NoSubscription
<1>2. Stopped = {}
  BY DEF Init, Stopped
<1>3. InsideOf = [t \in Threads |-> [d \in 1..MaxDepth |-> NoPlugin]]
  BY DEF Init, InsideOf, None
<1> QED  BY <1>1, <1>2, <1>3 DEF Layer!Init

\* The service implements the dispatch layer, for any number of plugins,
\* threads, subscriptions and nested callbacks: a callback begins only while
\* some subscription of its plugin is enabled, and Deactivate, ReleasePlugin
\* and Shutdown answer OK only when none runs and none is enabled.
THEOREM ImplementsTheLayer ==
  ASSUME ~Overlaps
  PROVE  Spec => ImplementsLayer
<1>1. Init => Layer!Init
  BY LayerInit
<1>2. TypeOK /\ IInv /\ TypeOK' /\ IInv' /\ [Next]_vars => [Layer!Next]_(Layer!layer)
  BY LayerSteps
<1>3. Spec => [](TypeOK /\ IInv)
  BY ServiceInvariance
<1> QED  BY <1>1, <1>2, <1>3, PTL DEF Spec, ImplementsLayer, Layer!Spec
=============================================================================
