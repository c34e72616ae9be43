---------------------------- MODULE ServiceProofs ----------------------------
(***************************************************************************)
(* Proofs about services of the host.                                      *)
(*                                                                         *)
(* FactoryService, for any plugins, threads, interfaces and bounds: the    *)
(* counts it waits for are the calls in progress, a plugin whose           *)
(* Deactivate answered OK is asked no more and has nothing pinned, nobody  *)
(* waits in a callback for a callback, and the service keeps the contract  *)
(* of a dispatch layer.  The contract itself keeps its promise, for        *)
(* whatever layer.  Then what plugins hold of the game: connections of     *)
(* Players and handles of Entities, each in a section of its own.          *)
(***************************************************************************)
EXTENDS FactoryService, FiniteSetTheorems, SequenceTheorems, NaturalsInduction,
        WellFoundedInduction, TLAPS

-----------------------------------------------------------------------------
(* Each action changes at most one cell of the grid of calls.              *)

\* Only the innermost call of a thread does not run engine or plugin code.
Inner == {"native", "original", "in"}
BelowInv == \A t \in Threads, d \in Depths : d < Len(frames[t]) => Cell(t, d).at \in Inner

\* The call at depth d of t becomes g, and no other call changes; d above MaxDepth is
\* for the steps that change no call.
Changes(t, d, g) ==
  /\ \A u \in Threads, e \in Depths : Cell(u, e)' = IF u = t /\ e = d THEN g ELSE Cell(u, e)
  /\ d \in Nat /\ (d \notin Depths => g = Nothing /\ Cell(t, d) = Nothing)
  /\ g # Nothing => d = Len(frames'[t])

\* The stacks after a step.
StacksOK ==
  /\ frames \in [Threads -> Seq(Frame)] /\ \A t \in Threads : Len(frames[t]) <= MaxDepth
  /\ BelowInv

\* The names of a call and of its point.
LEMMA CallNames == ASSUME NEW f \in Frame PROVE f # Nothing /\ f.call # "none"
BY DEF Frame, Nothing, Call

LEMMA NothingFacts ==
  /\ Nothing.call = "none" /\ Nothing.at = "native" /\ Nothing.plugin = NoPlugin
  /\ Nothing.sub = None /\ Nothing.todo = {}
BY DEF Nothing, Call

\* The stack of a thread.
LEMMA StackType ==
  ASSUME FactoryConstants, TypeOK, NEW t \in Threads
  PROVE  /\ frames[t] \in Seq(Frame) /\ Len(frames[t]) \in 0..MaxDepth
         /\ DOMAIN frames[t] = 1..Len(frames[t]) /\ MaxDepth \in Nat
         /\ \A d \in 1..Len(frames[t]) : frames[t][d] \in Frame
<1>1. frames[t] \in Seq(Frame) /\ Len(frames[t]) <= MaxDepth /\ MaxDepth \in Nat
  BY DEF TypeOK, FactoryConstants
<1>2. Len(frames[t]) \in Nat /\ DOMAIN frames[t] = 1..Len(frames[t])
  BY <1>1, LenProperties
<1>3. \A d \in 1..Len(frames[t]) : frames[t][d] \in Frame
  BY <1>1, ElementOfSeq
<1> QED  BY <1>1, <1>2, <1>3

\* A cell holds a call or nothing.
LEMMA CellType ==
  ASSUME FactoryConstants, TypeOK, NEW t \in Threads, NEW d \in Nat, d # 0
  PROVE  /\ d <= Len(frames[t]) => Cell(t, d) \in Frame /\ Cell(t, d) = frames[t][d]
                                   /\ d \in Depths
         /\ d > Len(frames[t]) => Cell(t, d) = Nothing
         /\ Cell(t, d) \in Frame \/ Cell(t, d) = Nothing
         /\ d \notin Depths => Cell(t, d) = Nothing
BY StackType DEF Cell, Depths

\* The innermost call.
LEMMA TopCell ==
  ASSUME FactoryConstants, TypeOK, NEW t \in Threads, frames[t] # <<>>
  PROVE  /\ Len(frames[t]) \in Depths /\ Len(frames[t]) \in Nat /\ Len(frames[t]) # 0
         /\ Top(t) = Cell(t, Len(frames[t])) /\ Top(t) \in Frame
<1>1. Len(frames[t]) \in Nat /\ Len(frames[t]) # 0
  BY StackType, EmptySeq
<1> QED  BY <1>1, StackType DEF Cell, Depths, Top, Last

\* The calls of a thread are its cells that hold something.
LEMMA CallsOfThread ==
  ASSUME FactoryConstants, TypeOK, NEW t \in Threads
  PROVE  /\ \A f \in FramesOf(t) : \E d \in Depths : d <= Len(frames[t]) /\ f = Cell(t, d)
         /\ \A d \in Depths : Cell(t, d) \in FramesOf(t) \/ Cell(t, d) = Nothing
         /\ FramesOf(t) \subseteq Frame
BY StackType DEF FramesOf, Range, Cell, Depths

\* The calls of all threads.
LEMMA CallsOfAll ==
  ASSUME FactoryConstants, TypeOK
  PROVE  /\ \A f \in AllFrames : \E t \in Threads, d \in Depths : f = Cell(t, d)
         /\ \A t \in Threads, d \in Depths : Cell(t, d) \in AllFrames \/ Cell(t, d) = Nothing
BY CallsOfThread DEF AllFrames

\* A stack of thread t that agrees with the old one but for the cell at d.
LEMMA StackPut ==
  ASSUME FactoryConstants, TypeOK, BelowInv, NEW t \in Threads, NEW z \in Seq(Frame),
         frames' = [frames EXCEPT ![t] = z], Len(z) <= MaxDepth,
         NEW d \in Depths, NEW g,
         \A e \in Depths : (IF e <= Len(z) THEN z[e] ELSE Nothing) =
                             IF e = d THEN g ELSE Cell(t, e),
         g # Nothing => d = Len(z),
         \A e \in Depths : e < Len(z) => e # d /\ Cell(t, e).at \in Inner
  PROVE  StacksOK' /\ Changes(t, d, g)
<1>1. /\ frames' \in [Threads -> Seq(Frame)] /\ frames'[t] = z
      /\ \A u \in Threads : u # t => frames'[u] = frames[u]
  BY DEF TypeOK
<1>2. \A u \in Threads, e \in Depths : Cell(u, e)' = IF u = t /\ e = d THEN g ELSE Cell(u, e)
  <2> SUFFICES ASSUME NEW u \in Threads, NEW e \in Depths
               PROVE  Cell(u, e)' = IF u = t /\ e = d THEN g ELSE Cell(u, e)
    OBVIOUS
  <2>1. CASE u = t
    <3>1. Cell(u, e)' = IF e <= Len(z) THEN z[e] ELSE Nothing
      BY <1>1, <2>1 DEF Cell
    <3> QED  BY <2>1, <3>1
  <2>2. CASE u # t
    BY <1>1, <2>2 DEF Cell
  <2> QED  BY <2>1, <2>2
<1>3. \A u \in Threads, e \in Depths : e < Len(frames'[u]) => Cell(u, e)'.at \in Inner
  BY <1>1, <1>2 DEF BelowInv
<1>4. \A u \in Threads : Len(frames'[u]) <= MaxDepth
  BY <1>1 DEF TypeOK
<1>5. d \in Nat
  BY DEF Depths
<1> QED  BY <1>1, <1>2, <1>3, <1>4, <1>5 DEF StacksOK, BelowInv, Changes

\* Push adds a call above one that runs code.
LEMMA PushChanges ==
  ASSUME FactoryConstants, TypeOK, BelowInv, NEW t \in Threads, Running(t),
         NEW g \in Frame, Push(t, g)
  PROVE  /\ Len(frames[t]) + 1 \in Depths /\ Cell(t, Len(frames[t]) + 1) = Nothing
         /\ StacksOK' /\ Changes(t, Len(frames[t]) + 1, g)
<1> DEFINE s == frames[t]
<1>1. PICK z : z = Append(s, g)
  OBVIOUS
<1>2. /\ s \in Seq(Frame) /\ Len(s) \in Nat /\ MaxDepth \in Nat /\ Len(s) < MaxDepth
  BY StackType DEF Push
<1>3. /\ z \in Seq(Frame) /\ Len(z) = Len(s) + 1 /\ z[Len(s) + 1] = g
      /\ \A e \in 1..Len(s) : z[e] = s[e]
  BY <1>1, <1>2, AppendProperties
<1>4. frames' = [frames EXCEPT ![t] = z] /\ Len(s) + 1 \in Depths
  BY <1>1, <1>2 DEF Push, TypeOK, Depths
<1>5. Cell(t, Len(s) + 1) = Nothing
  BY <1>2 DEF Cell
<1>6. \A e \in Depths : e <= Len(s) => Cell(t, e).at \in Inner
  <2> SUFFICES ASSUME NEW e \in Depths, e <= Len(s) PROVE Cell(t, e).at \in Inner
    OBVIOUS
  <2>1. e < Len(s) => Cell(t, e).at \in Inner
    BY DEF BelowInv
  <2>2. s # <<>> /\ e \in Nat
    BY <1>2, EmptySeq DEF Depths
  <2>3. Cell(t, Len(s)).at \in Inner
    BY <2>2, TopCell DEF Running, Inner
  <2> QED  BY <1>2, <2>1, <2>2, <2>3
<1>7. \A e \in Depths : (IF e <= Len(z) THEN z[e] ELSE Nothing) =
                          IF e = Len(s) + 1 THEN g ELSE Cell(t, e)
  BY <1>2, <1>3 DEF Cell, Depths
<1>8. Len(z) <= MaxDepth /\ \A e \in Depths : e < Len(z) => e # Len(s) + 1 /\ Cell(t, e).at \in Inner
  BY <1>2, <1>3, <1>6 DEF Depths
<1> HIDE DEF s
<1>9. PICK d \in Depths : d = Len(s) + 1
  BY <1>4
<1>10. /\ z \in Seq(Frame) /\ Len(z) <= MaxDepth /\ d = Len(z)
       /\ \A e \in Depths : (IF e <= Len(z) THEN z[e] ELSE Nothing) =
                              IF e = d THEN g ELSE Cell(t, e)
       /\ \A e \in Depths : e < Len(z) => e # d /\ Cell(t, e).at \in Inner
  BY <1>3, <1>7, <1>8, <1>9
<1>11. StacksOK' /\ Changes(t, d, g)
  BY <1>4, <1>10, StackPut
<1> QED  BY <1>4, <1>5, <1>9, <1>11 DEF s

\* The stack without its innermost call.
LEMMA FrontFacts ==
  ASSUME FactoryConstants, TypeOK, NEW t \in Threads, frames[t] # <<>>
  PROVE  /\ Front(frames[t]) \in Seq(Frame) /\ Len(Front(frames[t])) = Len(frames[t]) - 1
         /\ \A e \in 1..(Len(frames[t]) - 1) : Front(frames[t])[e] = frames[t][e]
<1> DEFINE s == frames[t]
<1>1. /\ s \in Seq(Frame) /\ Len(s) \in Nat /\ Len(s) # 0
      /\ \A i \in 1..Len(s) : s[i] \in Frame
  BY StackType, TopCell
<1> HIDE DEF s
<1>2. \A i \in 1..(Len(s) - 1) : s[i] \in Frame
  BY <1>1
<1>3. Len(s) - 1 \in Int
  BY <1>1
<1>4. /\ SubSeq(s, 1, Len(s) - 1) \in Seq(Frame)
      /\ Len(SubSeq(s, 1, Len(s) - 1)) = IF 1 <= Len(s) - 1 THEN Len(s) - 1 - 1 + 1 ELSE 0
      /\ \A e \in 1..(Len(s) - 1 - 1 + 1) : SubSeq(s, 1, Len(s) - 1)[e] = s[1 + e - 1]
  BY <1>2, <1>3, SubSeqProperties
<1>5. Front(s) = SubSeq(s, 1, Len(s) - 1)
  BY DEF Front
<1>6. \A e \in 1..(Len(s) - 1) : Front(s)[e] = s[e]
  BY <1>1, <1>4, <1>5
<1> QED  BY <1>1, <1>4, <1>5, <1>6 DEF s

\* Replacing the innermost call.
LEMMA SetTopChanges ==
  ASSUME FactoryConstants, TypeOK, BelowInv, NEW t \in Threads, frames[t] # <<>>,
         NEW g \in Frame, SetTop(t, g)
  PROVE  StacksOK' /\ Changes(t, Len(frames[t]), g)
<1> DEFINE s == frames[t]
<1>1. PICK z : z = Append(Front(s), g)
  OBVIOUS
<1>2. /\ s \in Seq(Frame) /\ Len(s) \in Nat /\ Len(s) # 0 /\ MaxDepth \in Nat
      /\ Len(s) <= MaxDepth /\ Len(s) \in Depths
  BY StackType, TopCell
<1>3. /\ z \in Seq(Frame) /\ Len(z) = Len(s) /\ z[Len(s)] = g
      /\ \A e \in 1..(Len(s) - 1) : z[e] = s[e]
  <2>1. /\ Front(s) \in Seq(Frame) /\ Len(Front(s)) = Len(s) - 1
        /\ \A e \in 1..(Len(s) - 1) : Front(s)[e] = s[e]
    BY FrontFacts
  <2> HIDE DEF s
  <2>2. /\ z \in Seq(Frame) /\ Len(z) = Len(Front(s)) + 1 /\ z[Len(Front(s)) + 1] = g
        /\ \A e \in 1..Len(Front(s)) : z[e] = Front(s)[e]
    BY <1>1, <2>1, AppendProperties
  <2> QED  BY <1>2, <2>1, <2>2
<1>4. frames' = [frames EXCEPT ![t] = z]
  BY <1>1 DEF SetTop, TypeOK
<1>7. \A e \in Depths : (IF e <= Len(z) THEN z[e] ELSE Nothing) =
                          IF e = Len(s) THEN g ELSE Cell(t, e)
  BY <1>2, <1>3 DEF Cell, Depths
<1>8. Len(z) <= MaxDepth /\ \A e \in Depths : e < Len(z) => e # Len(s) /\ Cell(t, e).at \in Inner
  BY <1>2, <1>3 DEF Depths, BelowInv
<1> HIDE DEF s
<1>8a. PICK d \in Depths : d = Len(s)
  BY <1>2
<1>8b. z \in Seq(Frame) /\ d = Len(z)
  BY <1>3, <1>8a
<1>8c. /\ \A e \in Depths : (IF e <= Len(z) THEN z[e] ELSE Nothing) =
                              IF e = d THEN g ELSE Cell(t, e)
       /\ \A e \in Depths : e < Len(z) => e # d /\ Cell(t, e).at \in Inner
  BY <1>7, <1>8, <1>8a
<1>9. StacksOK' /\ Changes(t, d, g)
  BY <1>4, <1>8, <1>8b, <1>8c, StackPut
<1> QED  BY <1>8a, <1>9 DEF s

\* The innermost call returns.
LEMMA PopChanges ==
  ASSUME FactoryConstants, TypeOK, BelowInv, NEW t \in Threads, frames[t] # <<>>, Pop(t)
  PROVE  StacksOK' /\ Changes(t, Len(frames[t]), Nothing)
<1> DEFINE s == frames[t]
<1>1. PICK z : z = Front(s)
  OBVIOUS
<1>2. /\ s \in Seq(Frame) /\ Len(s) \in Nat /\ Len(s) # 0 /\ MaxDepth \in Nat
      /\ Len(s) <= MaxDepth /\ Len(s) \in Depths
  BY StackType, TopCell
<1>3. /\ z \in Seq(Frame) /\ Len(z) = Len(s) - 1
      /\ \A e \in 1..(Len(s) - 1) : z[e] = s[e]
  BY <1>1, FrontFacts
<1>4. frames' = [frames EXCEPT ![t] = z]
  BY <1>1 DEF Pop, TypeOK
<1>7. \A e \in Depths : (IF e <= Len(z) THEN z[e] ELSE Nothing) =
                          IF e = Len(s) THEN Nothing ELSE Cell(t, e)
  BY <1>2, <1>3 DEF Cell, Depths
<1>8. Len(z) <= MaxDepth /\ \A e \in Depths : e < Len(z) => e # Len(s) /\ Cell(t, e).at \in Inner
  BY <1>2, <1>3 DEF Depths, BelowInv
<1> HIDE DEF s
<1>9. StacksOK' /\ Changes(t, Len(s), Nothing)
  BY <1>2, <1>3, <1>4, <1>7, <1>8, StackPut
<1> QED  BY <1>9 DEF s

\* A step that changes no call.
LEMMA SameChanges ==
  ASSUME FactoryConstants, TypeOK, BelowInv, NEW t \in Threads, UNCHANGED frames
  PROVE  /\ StacksOK' /\ Changes(t, MaxDepth + 1, Nothing)
         /\ Cell(t, MaxDepth + 1) = Nothing /\ MaxDepth + 1 \in Nat /\ MaxDepth + 1 \notin Depths
<1>1. MaxDepth \in Nat /\ MaxDepth + 1 \in Nat /\ MaxDepth + 1 \notin Depths
  BY DEF FactoryConstants, Depths
<1>2. Cell(t, MaxDepth + 1) = Nothing
  BY <1>1, CellType
<1>3. \A u \in Threads, e \in Depths : Cell(u, e)' = Cell(u, e)
  BY DEF Cell
<1>4. \A u \in Threads, e \in Depths : ~(u = t /\ e = MaxDepth + 1)
  BY <1>1
<1>5. Changes(t, MaxDepth + 1, Nothing)
  BY <1>1, <1>2, <1>3, <1>4 DEF Changes
<1>6. StacksOK'
  BY <1>3 DEF StacksOK, BelowInv, TypeOK
<1> QED  BY <1>1, <1>2, <1>5, <1>6

-----------------------------------------------------------------------------
(* What a step may do, stated once and shown to be enough.                 *)

Num(b) == IF b THEN 1 ELSE 0

\* Plugin p is in no hand but that of the call at depth d of t.
Alone(p, t, d) ==
  \A u \in Threads, e \in Depths : Handles(Cell(u, e), p) => u = t /\ e = d

\* A subscription keeps its owner, is erased when nobody asks it, and is enabled only
\* while it is there.
KeptSubscriptions ==
  \A s \in Subscriptions :
    /\ subscription[s].state # "free" =>
         subscription'[s].state # "free" /\ subscription'[s].owner = subscription[s].owner
    /\ subscription[s].state = "free" /\ subscription'[s].state # "free" =>
         subscription'[s].owner \in Plugins
    /\ subscription'[s].state = "free" => subscription'[s].owner = NoPlugin
    /\ Live(s) => subscription'[s].state = "live" \/ subscription[s].active = 0
    /\ subscription'[s].enabled => subscription'[s].state = "live"

\* Whatever is enabled is nobody's who stops, and nothing a call gives up.
EnabledWell ==
  \A s \in Subscriptions : subscription'[s].enabled /\ ~subscription[s].enabled =>
    /\ stopping' = "no" /\ subscription'[s].owner \notin quiet'
    /\ \A u \in Threads, e \in Depths :
         /\ Cell(u, e)'.call = "unsubscribe" => Cell(u, e)'.sub # s
         /\ Cell(u, e)'.call = "deactivate" => Cell(u, e)'.plugin # subscription'[s].owner

\* The counts change as the call that changes from f to g does.
Counts(f, g) ==
  /\ queries' = queries + Num(g.call = "query") - Num(f.call = "query")
  /\ \A s \in Subscriptions :
       subscription'[s].active = subscription[s].active + Num(Asks(g, s)) - Num(Asks(f, s))

\* Only who has a plugin in hand changes what the host does with it, and a shutdown is
\* not taken back.
KeptHost(t, d) ==
  /\ \A p \in Plugins : host'[p] = host[p] \/ Alone(p, t, d) \/ stopping # "no"
  /\ stopping' = "no" => stopping = "no"
  /\ stopping' # "no" /\ stopping = "no" =>
       /\ \A u \in Threads, e \in Depths : Cell(u, e).call # "deactivate"
       /\ \A s \in Subscriptions : ~subscription'[s].enabled
  /\ stopping' = "stopped" =>
       \/ stopping = "stopped" /\ pinned' = pinned
       \/ /\ pinned' = {} /\ stopping # "no"
          /\ \A u \in Threads, e \in Depths : ~InCallback(Cell(u, e)')

\* Who becomes quiet is asked by nobody.
KeptQuiet ==
  \A p \in quiet' :
    /\ host'[p] = "stopped" /\ p \notin pinned'
    /\ p \notin quiet =>
         /\ \A s \in Subscriptions : subscription'[s].owner = p => ~subscription'[s].enabled
         /\ \A u \in Threads, e \in Depths :
              InCallback(Cell(u, e)') => subscription'[Cell(u, e)'.sub].owner # p

\* The call g that is new at depth d of t respects the calls in progress.
NewCall(t, g) ==
  /\ CallOK(g)'
  /\ \A p \in Plugins :
       /\ Handles(g, p) => \A u \in Threads, e \in Depths : ~GivesUp(Cell(u, e), p)
       /\ g.call = "unsubscribe" /\ subscription'[g.sub].owner = p =>
            \A u \in Threads, e \in Depths : ~Handles(Cell(u, e), p)
  /\ InCallback(g) => subscription[g.sub].enabled
  /\ \A u \in Threads, e \in Depths : InCallback(Cell(u, e)) =>
       LET s == Cell(u, e).sub IN
       /\ g.call = "deactivate" /\ g.plugin = subscription[s].owner => s \in g.todo
       /\ g.call = "shutdown" => s \in g.todo
       /\ g.call = "unsubscribe" /\ g.sub = s => \A c \in Depths : Cell(t, c).call # "dispatch"

Regular(t, d, g) ==
  /\ g \in Frame \/ g = Nothing
  /\ Changes(t, d, g) /\ KeptSubscriptions /\ EnabledWell /\ Counts(Cell(t, d), g)
  /\ KeptHost(t, d) /\ KeptQuiet
  /\ d \in Depths => NewCall(t, g) /\ \A p \in Plugins : Handles(g, p) => Alone(p, t, d)

-----------------------------------------------------------------------------
(* The counts.                                                             *)

LEMMA PlacesFinite == ASSUME FactoryConstants PROVE IsFiniteSet(Places)
<1>1. IsFiniteSet(1..MaxDepth)
  BY FS_Interval DEF FactoryConstants
<1>2. IsFiniteSet(Threads)
  BY DEF FactoryConstants
<1> QED  BY <1>1, <1>2, FS_Product DEF Places, Depths

\* A set that gains or loses one place.
LEMMA CountChange ==
  ASSUME NEW S, NEW T, NEW x, NEW b \in BOOLEAN, IsFiniteSet(S),
         \A y : y \in T <=> IF y = x THEN b ELSE y \in S
  PROVE  Cardinality(T) = Cardinality(S) + Num(b) - Num(x \in S)
<1>0. Cardinality(S) \in Nat
  BY FS_CardinalityType
<1>1. CASE b
  <2>1. T = S \cup {x}
    BY <1>1
  <2>2. Cardinality(T) = IF x \in S THEN Cardinality(S) ELSE Cardinality(S) + 1
    BY <2>1, FS_AddElement
  <2> QED  BY <1>0, <1>1, <2>2 DEF Num
<1>2. CASE ~b
  <2>1. T = S \ {x}
    BY <1>2
  <2>2. Cardinality(T) = IF x \in S THEN Cardinality(S) - 1 ELSE Cardinality(S)
    BY <2>1, FS_RemoveElement
  <2> QED  BY <1>0, <1>2, <2>2 DEF Num
<1> QED  BY <1>1, <1>2

\* The counts follow from one call to the next.
LEMMA CountsStep ==
  ASSUME FactoryConstants, CountsInv, NEW t \in Threads, NEW d, NEW g,
         Changes(t, d, g), Counts(Cell(t, d), g)
  PROVE  CountsInv'
<1> DEFINE x == <<t, d>>
<1>0. /\ g.call = "query" => g # Nothing
      /\ \A s : Asks(g, s) => g # Nothing
      /\ Cell(t, d).call = "query" => Cell(t, d) # Nothing
      /\ \A s : Asks(Cell(t, d), s) => Cell(t, d) # Nothing
  BY NothingFacts DEF Asks
<1>1. \A y \in Places : Cell(y[1], y[2])' = IF y = x THEN g ELSE Cell(y[1], y[2])
  <2> SUFFICES ASSUME NEW u \in Threads, NEW e \in Depths
               PROVE  Cell(u, e)' = IF <<u, e>> = x THEN g ELSE Cell(u, e)
    BY DEF Places
  <2> QED  BY DEF Changes
<1>2. x \in Places <=> d \in Depths
  BY DEF Places
<1>3. (d \notin Depths => g = Nothing /\ Cell(t, d) = Nothing)
  BY DEF Changes
<1>4. queries' = Cardinality({y \in Places : Cell(y[1], y[2])'.call = "query"})
  <2> DEFINE S == {y \in Places : Cell(y[1], y[2]).call = "query"}
             T == {y \in Places : Cell(y[1], y[2])'.call = "query"}
             b == g.call = "query"
  <2>1. \A y : y \in T <=> IF y = x THEN b ELSE y \in S
    BY <1>0, <1>1, <1>2, <1>3
  <2>2. IsFiniteSet(S)
    BY PlacesFinite, FS_Subset
  <2>3. x \in S <=> Cell(t, d).call = "query"
    BY <1>0, <1>2, <1>3
  <2>4. b \in BOOLEAN
    OBVIOUS
  <2>5. queries = Cardinality(S)
    BY DEF CountsInv
  <2> HIDE DEF S, T, b
  <2>6. Cardinality(T) = Cardinality(S) + Num(b) - Num(x \in S)
    BY <2>1, <2>2, <2>4, CountChange
  <2>7. queries' = Cardinality(T)
    BY <2>3, <2>5, <2>6 DEF Counts, b, Num
  <2> QED  BY <2>7 DEF T
<1>5. ASSUME NEW s \in Subscriptions
      PROVE  subscription'[s].active = Cardinality({y \in Places : Asks(Cell(y[1], y[2])', s)})
  <2> DEFINE S == {y \in Places : Asks(Cell(y[1], y[2]), s)}
             T == {y \in Places : Asks(Cell(y[1], y[2])', s)}
             b == Asks(g, s)
  <2>1. \A y : y \in T <=> IF y = x THEN b ELSE y \in S
    BY <1>0, <1>1, <1>2, <1>3
  <2>2. IsFiniteSet(S)
    BY PlacesFinite, FS_Subset
  <2>3. x \in S <=> Asks(Cell(t, d), s)
    BY <1>0, <1>2, <1>3
  <2>4. b \in BOOLEAN
    BY DEF Asks
  <2>5. subscription[s].active = Cardinality(S)
    BY DEF CountsInv
  <2> HIDE DEF S, T, b
  <2>6. Cardinality(T) = Cardinality(S) + Num(b) - Num(x \in S)
    BY <2>1, <2>2, <2>4, CountChange
  <2>7. subscription'[s].active = Cardinality(T)
    BY <2>3, <2>5, <2>6 DEF Counts, b, Num
  <2> QED  BY <2>7 DEF T
<1> QED  BY <1>4, <1>5 DEF CountsInv, Asks

\* Who is asked is counted, and so is a query.
LEMMA AskedCounted ==
  ASSUME FactoryConstants, CountsInv, NEW t \in Threads, NEW d \in Depths
  PROVE  /\ Cell(t, d).call = "query" => queries > 0
         /\ \A s \in Subscriptions : Asks(Cell(t, d), s) => subscription[s].active > 0
<1> DEFINE x == <<t, d>>
<1>0. x \in Places /\ x[1] = t /\ x[2] = d
  BY DEF Places
<1>1. ASSUME NEW S, S \subseteq Places, x \in S PROVE Cardinality(S) > 0
  <2>1. IsFiniteSet(S)
    BY <1>1, PlacesFinite, FS_Subset
  <2>2. Cardinality(S) \in Nat /\ Cardinality(S) # 0
    BY <1>1, <2>1, FS_EmptySet, FS_CardinalityType
  <2> QED  BY <2>2
<1>2. ASSUME Cell(t, d).call = "query" PROVE queries > 0
  <2> DEFINE S == {y \in Places : Cell(y[1], y[2]).call = "query"}
  <2>1. x \in S /\ S \subseteq Places
    BY <1>0, <1>2
  <2>2. queries = Cardinality(S)
    BY DEF CountsInv
  <2> HIDE DEF S, x
  <2> QED  BY <1>1, <2>1, <2>2
<1>3. ASSUME NEW s \in Subscriptions, Asks(Cell(t, d), s) PROVE subscription[s].active > 0
  <2> DEFINE S == {y \in Places : Asks(Cell(y[1], y[2]), s)}
  <2>1. x \in S /\ S \subseteq Places
    BY <1>0, <1>3
  <2>2. subscription[s].active = Cardinality(S)
    BY DEF CountsInv
  <2> HIDE DEF S, x
  <2> QED  BY <1>1, <2>1, <2>2
<1> QED  BY <1>2, <1>3

-----------------------------------------------------------------------------
(* A regular step preserves the invariant.                                 *)

\* What a cell holds.
LEMMA CellSub ==
  ASSUME FactoryConstants, TypeOK, NEW u \in Threads, NEW e \in Depths
  PROVE  /\ Cell(u, e) \in Frame \/ Cell(u, e) = Nothing
         /\ Cell(u, e).sub \in Subscriptions \cup {None}
         /\ Cell(u, e).todo \in SUBSET Subscriptions
<1>1. e \in Nat /\ e # 0
  BY DEF Depths
<1>2. Cell(u, e) \in Frame \/ Cell(u, e) = Nothing
  BY <1>1, CellType
<1> QED  BY <1>2, NothingFacts DEF Frame

\* A subscription whose callback runs is there, before and after the step.
LEMMA CallbackSub ==
  ASSUME FactoryConstants, TypeOK, FactoryInv, NEW u \in Threads, NEW e \in Depths,
         InCallback(Cell(u, e))
  PROVE  /\ Cell(u, e).sub \in Subscriptions /\ Live(Cell(u, e).sub)
         /\ Asks(Cell(u, e), Cell(u, e).sub) /\ subscription[Cell(u, e).sub].active > 0
         /\ subscription[Cell(u, e).sub].owner \in Plugins
<1>1. CallOK(Cell(u, e))
  BY DEF FactoryInv, CallsInv
<1>2. Cell(u, e).sub \in Subscriptions /\ Live(Cell(u, e).sub)
  BY <1>1, CellSub DEF CallOK, InCallback
<1>3. Asks(Cell(u, e), Cell(u, e).sub)
  BY DEF Asks, InCallback
<1>4. subscription[Cell(u, e).sub].active > 0
  BY <1>2, <1>3, AskedCounted DEF FactoryInv
<1> QED  BY <1>2, <1>3, <1>4 DEF FactoryInv, SubscriptionsInv, Live

\* The calls in progress stay where they can be.
LEMMA CallKept ==
  ASSUME FactoryConstants, TypeOK, FactoryInv, NEW t \in Threads, NEW d, NEW g,
         Regular(t, d, g), NEW u \in Threads, NEW e \in Depths, ~(u = t /\ e = d)
  PROVE  CallOK(Cell(u, e))'
<1>1. PICK h : h = Cell(u, e)
  OBVIOUS
<1>2. Cell(u, e)' = h
  BY <1>1 DEF Regular, Changes
<1>3. CallOK(h) /\ h.sub \in Subscriptions \cup {None} /\ h.todo \subseteq Subscriptions
  BY <1>1, CellSub DEF FactoryInv, CallsInv
<1>4. \A s \in Subscriptions : subscription[s].state # "free" =>
        subscription'[s].state # "free" /\ subscription'[s].owner = subscription[s].owner
  BY DEF Regular, KeptSubscriptions
<1>5. h.call = "dispatch" =>
        /\ h.at \in {"original", "pick", "check", "in"}
        /\ IF h.at \in {"check", "in"}
           THEN h.sub # None /\ subscription'[h.sub].state # "free" ELSE h.sub = None
        /\ \A s \in h.todo : subscription'[s].state # "free"
  BY <1>3, <1>4 DEF CallOK
<1>6. h.call = "dispatch" /\ h.at = "in" => subscription'[h.sub].state = "live"
  <2> SUFFICES ASSUME InCallback(h) PROVE subscription'[h.sub].state = "live"
    BY DEF InCallback
  <2>1. h.sub \in Subscriptions /\ Live(h.sub) /\ subscription[h.sub].active > 0
    BY <1>1, CallbackSub
  <2>2. subscription[h.sub].active # 0
    BY <2>1
  <2> QED  BY <2>1, <2>2 DEF Regular, KeptSubscriptions
<1>7. h.call = "unsubscribe" =>
        /\ h.at = "wait" /\ h.sub # None
        /\ subscription'[h.sub].state # "free" /\ ~subscription'[h.sub].enabled
  <2> SUFFICES ASSUME h.call = "unsubscribe"
               PROVE  /\ h.at = "wait" /\ h.sub # None
                      /\ subscription'[h.sub].state # "free" /\ ~subscription'[h.sub].enabled
    OBVIOUS
  <2>1. /\ h.at = "wait" /\ h.sub # None /\ h.sub \in Subscriptions
        /\ subscription[h.sub].state # "free" /\ ~subscription[h.sub].enabled
    BY <1>3 DEF CallOK
  <2>2. ~subscription'[h.sub].enabled
    BY <1>2, <2>1 DEF Regular, EnabledWell
  <2> QED  BY <1>4, <2>1, <2>2
<1>8. h.call \in {"activate", "deactivate"} =>
        /\ h.at = "wait" /\ h.plugin \in Plugins
        /\ host'[h.plugin] = host[h.plugin] \/ stopping # "no"
  BY <1>1, <1>3 DEF CallOK, Regular, KeptHost, Alone, Handles
<1>9. h.call = "activate" /\ stopping' = "no" => host'[h.plugin] = "running"
  BY <1>3, <1>8 DEF CallOK, Regular, KeptHost
<1>10. h.call = "deactivate" =>
         /\ stopping' = "no" /\ host'[h.plugin] = "stopping"
         /\ \A s \in Subscriptions : subscription'[s].owner = h.plugin => ~subscription'[s].enabled
  <2> SUFFICES ASSUME h.call = "deactivate"
               PROVE  /\ stopping' = "no" /\ host'[h.plugin] = "stopping"
                      /\ \A s \in Subscriptions :
                           subscription'[s].owner = h.plugin => ~subscription'[s].enabled
    OBVIOUS
  <2>1. stopping = "no" /\ stopping' = "no" /\ host'[h.plugin] = "stopping"
    BY <1>1, <1>3, <1>8 DEF CallOK, Regular, KeptHost
  <2>2. ASSUME NEW s \in Subscriptions, subscription'[s].owner = h.plugin,
               subscription'[s].enabled
        PROVE  FALSE
    <3>1. subscription[s].enabled
      BY <1>2, <2>2 DEF Regular, EnabledWell
    <3>2. subscription[s].state # "free"
      BY <3>1 DEF FactoryInv, SubscriptionsInv, Live
    <3> QED  BY <1>3, <1>4, <2>2, <3>1, <3>2 DEF CallOK
  <2> QED  BY <2>1, <2>2
<1>11. h.call = "shutdown" => h.at \in {"queries", "wait"} /\ stopping' # "no"
  BY <1>3 DEF CallOK, Regular, KeptHost
<1>12. h.call = "query" => h.at = "native"
  BY <1>3 DEF CallOK
<1>13. CallOK(h)'
  BY <1>5, <1>6, <1>7, <1>8, <1>9, <1>10, <1>11, <1>12 DEF CallOK, Live
<1> QED  BY <1>2, <1>13

LEMMA CallsStep ==
  ASSUME FactoryConstants, TypeOK, FactoryInv, NEW t \in Threads, NEW d, NEW g,
         Regular(t, d, g), BelowInv'
  PROVE  CallsInv'
<1>1. ASSUME NEW u \in Threads, NEW e \in Depths PROVE CallOK(Cell(u, e))'
  <2>1. CASE u = t /\ e = d
    <3>1. Cell(u, e)' = g /\ CallOK(g)'
      BY <2>1 DEF Regular, Changes, NewCall
    <3> QED  BY <3>1
  <2>2. CASE ~(u = t /\ e = d)
    BY <2>2, CallKept
  <2> QED  BY <2>1, <2>2
<1> QED  BY <1>1 DEF CallsInv, BelowInv, Inner

LEMMA SubscriptionsStep ==
  ASSUME FactoryInv, NEW t \in Threads, NEW d, NEW g, Regular(t, d, g)
  PROVE  SubscriptionsInv'
BY DEF FactoryInv, SubscriptionsInv, Regular, KeptSubscriptions, Live

\* Nobody takes a plugin that another has in hand or gives up a subscription of.
LEMMA HandsStep ==
  ASSUME FactoryConstants, TypeOK, FactoryInv, NEW t \in Threads, NEW d, NEW g,
         Regular(t, d, g), CallsInv'
  PROVE  HandsInv'
<1>1. ASSUME NEW u \in Threads, NEW e \in Depths, NEW p \in Plugins, ~(u = t /\ e = d)
      PROVE  /\ Cell(u, e)' = Cell(u, e)
             /\ GivesUp(Cell(u, e), p)' => GivesUp(Cell(u, e), p)
  <2>1. Cell(u, e)' = Cell(u, e)
    BY <1>1 DEF Regular, Changes
  <2>2. CallOK(Cell(u, e)) /\ Cell(u, e).sub \in Subscriptions \cup {None}
    BY CellSub DEF FactoryInv, CallsInv
  <2>3. Cell(u, e).call = "unsubscribe" =>
          subscription'[Cell(u, e).sub].owner = subscription[Cell(u, e).sub].owner
    BY <2>2 DEF CallOK, Regular, KeptSubscriptions
  <2> QED  BY <2>1, <2>3 DEF GivesUp
<1>2. Cell(t, d)' = g \/ d \notin Depths
  BY DEF Regular, Changes
<1> SUFFICES ASSUME NEW v \in Threads, NEW w \in Threads, NEW i \in Depths, NEW j \in Depths,
                    NEW p \in Plugins, Handles(Cell(v, i)', p)
             PROVE  /\ Handles(Cell(w, j)', p) => v = w /\ i = j
                    /\ ~GivesUp(Cell(w, j), p)'
  BY DEF HandsInv, Handles
<1>3. CASE v = t /\ i = d
  <2>1. Handles(g, p) /\ d \in Depths
    BY <1>2, <1>3
  <2>2. Alone(p, t, d) /\ ~GivesUp(Cell(w, j), p)
    BY <2>1 DEF Regular, NewCall
  <2>3. CASE w = t /\ j = d
    BY <1>2, <1>3, <2>1, <2>3 DEF GivesUp, Handles
  <2>4. CASE ~(w = t /\ j = d)
    BY <1>1, <2>2, <2>4 DEF Alone
  <2> QED  BY <2>3, <2>4
<1>4. CASE ~(v = t /\ i = d)
  <2>1. Handles(Cell(v, i), p)
    BY <1>1, <1>4
  <2>2. CASE w = t /\ j = d
    <3>1. ~Handles(g, p)
      BY <1>4, <2>1, <2>2 DEF Regular, Alone
    <3>2. ~GivesUp(g, p)'
      BY <2>1, <2>2 DEF Regular, NewCall, GivesUp
    <3> QED  BY <1>2, <2>2, <3>1, <3>2
  <2>3. CASE ~(w = t /\ j = d)
    BY <1>1, <2>1, <2>3 DEF FactoryInv, HandsInv
  <2> QED  BY <2>2, <2>3
<1> QED  BY <1>3, <1>4

\* Below the innermost call of a thread nobody gives up a subscription.
LEMMA NothingWaitsBelow ==
  ASSUME CallsInv', NEW t \in Threads, NEW d \in Depths, d = Len(frames'[t]),
         NEW c \in Depths, c # d
  PROVE  Cell(t, c)'.call # "unsubscribe"
<1>1. c \in Nat /\ d \in Nat
  BY DEF Depths
<1>2. CASE c > d
  BY <1>1, <1>2, NothingFacts DEF Cell, Nothing, Call
<1>3. CASE c < d
  BY <1>3 DEF CallsInv, CallOK
<1> QED  BY <1>1, <1>2, <1>3

\* What waits goes on having those before it that run.
LEMMA WaitsStep ==
  ASSUME FactoryConstants, TypeOK, FactoryInv, NEW t \in Threads, NEW d, NEW g,
         Regular(t, d, g), CallsInv'
  PROVE  WaitsInv'
<1>1. \A u \in Threads, e \in Depths :
        Cell(u, e)' = IF u = t /\ e = d THEN g ELSE Cell(u, e)
  BY DEF Regular, Changes
<1>2. \A s \in Subscriptions : Live(s) => subscription'[s].owner = subscription[s].owner
  BY DEF Regular, KeptSubscriptions, Live
<1> SUFFICES ASSUME NEW u \in Threads, NEW e \in Depths, InCallback(Cell(u, e)'),
                    NEW v \in Threads, NEW i \in Depths
             PROVE  /\ Cell(v, i)'.call = "deactivate"
                         /\ Cell(v, i)'.plugin = subscription'[Cell(u, e)'.sub].owner =>
                       Cell(u, e)'.sub \in Cell(v, i)'.todo
                    /\ Cell(v, i)'.call = "shutdown" => Cell(u, e)'.sub \in Cell(v, i)'.todo
                    /\ Cell(v, i)'.call = "unsubscribe" /\ Cell(v, i)'.sub = Cell(u, e)'.sub =>
                         \A c \in Depths : Cell(v, c)'.call # "dispatch"
  BY DEF WaitsInv, InCallback
<1>3. CASE u = t /\ e = d
  <2>1. Cell(u, e)' = g /\ d \in Depths /\ InCallback(g) /\ subscription[g.sub].enabled
    <3>1. Cell(u, e)' = g /\ d \in Depths
      BY <1>1, <1>3
    <3> QED  BY <3>1 DEF Regular, NewCall
  <2>2. g.sub \in Subscriptions
    <3>1. CallOK(g)'
      BY <2>1 DEF Regular, NewCall
    <3> QED  BY <2>1, <3>1, NothingFacts DEF CallOK, InCallback, Regular, Frame
  <2>3. Live(g.sub)
    BY <2>1, <2>2 DEF FactoryInv, SubscriptionsInv
  <2>4. stopping = "no"
    BY <2>1, <2>2 DEF FactoryInv, SilenceInv
  <2>5. CASE v = t /\ i = d
    BY <1>1, <2>1, <2>5 DEF InCallback
  <2>6. CASE ~(v = t /\ i = d)
    <3>1. Cell(v, i)' = Cell(v, i) /\ CallOK(Cell(v, i))
      BY <1>1, <2>6 DEF FactoryInv, CallsInv
    <3> QED  BY <1>2, <2>1, <2>2, <2>3, <2>4, <3>1 DEF CallOK
  <2> QED  BY <2>5, <2>6
<1>4. CASE ~(u = t /\ e = d)
  <2>1. Cell(u, e)' = Cell(u, e) /\ InCallback(Cell(u, e))
    BY <1>1, <1>4
  <2>2. PICK s \in Subscriptions :
          s = Cell(u, e).sub /\ subscription'[s].owner = subscription[s].owner
    BY <1>2, <2>1, CallbackSub
  <2>3. CASE v = t /\ i = d
    <3>1. Cell(v, i)' = g /\ d \in Depths
      BY <1>1, <2>3
    <3>2. /\ g.call = "deactivate" /\ g.plugin = subscription[s].owner => s \in g.todo
          /\ g.call = "shutdown" => s \in g.todo
          /\ g.call = "unsubscribe" /\ g.sub = s =>
               \A c \in Depths : Cell(t, c).call # "dispatch"
      BY <2>1, <2>2, <3>1 DEF Regular, NewCall
    <3>3. g.call = "unsubscribe" /\ g.sub = s => \A c \in Depths : Cell(t, c)'.call # "dispatch"
      BY <1>1, <3>2
    <3> QED  BY <2>1, <2>2, <2>3, <3>1, <3>2, <3>3
  <2>4. CASE ~(v = t /\ i = d)
    <3>1. Cell(v, i)' = Cell(v, i)
      BY <1>1, <2>4
    <3>2. /\ Cell(v, i).call = "deactivate" /\ Cell(v, i).plugin = subscription[s].owner =>
               s \in Cell(v, i).todo
          /\ Cell(v, i).call = "shutdown" => s \in Cell(v, i).todo
          /\ Cell(v, i).call = "unsubscribe" /\ Cell(v, i).sub = s =>
               \A c \in Depths : Cell(v, c).call # "dispatch"
      BY <2>1, <2>2 DEF FactoryInv, WaitsInv
    <3>3. ASSUME Cell(v, i).call = "unsubscribe", Cell(v, i).sub = s, NEW c \in Depths,
                 Cell(v, c)'.call = "dispatch"
          PROVE  FALSE
      <4>1. v = t /\ c = d /\ g.call = "dispatch"
        BY <1>1, <3>2, <3>3
      <4>2. g # Nothing
        BY <4>1, NothingFacts
      <4>3. d \in Depths /\ d = Len(frames'[t]) /\ i # d
        BY <2>4, <4>1, <4>2 DEF Regular, Changes
      <4>4. Cell(t, i)'.call # "unsubscribe"
        BY <4>3, NothingWaitsBelow
      <4> QED  BY <3>1, <3>3, <4>1, <4>4
    <3> QED  BY <2>1, <2>2, <3>1, <3>2, <3>3
  <2> QED  BY <2>3, <2>4
<1> QED  BY <1>3, <1>4

\* Who is quiet stays so, until the host starts it again.
LEMMA SilenceStep ==
  ASSUME FactoryConstants, TypeOK, FactoryInv, NEW t \in Threads, NEW d, NEW g,
         Regular(t, d, g), CallsInv'
  PROVE  SilenceInv'
<1>1. \A u \in Threads, e \in Depths :
        Cell(u, e)' = IF u = t /\ e = d THEN g ELSE Cell(u, e)
  BY DEF Regular, Changes
<1>2. \A s \in Subscriptions : Live(s) => subscription'[s].owner = subscription[s].owner
  BY DEF Regular, KeptSubscriptions, Live
<1>3. \A s \in Subscriptions : subscription'[s].enabled /\ subscription[s].enabled =>
        subscription'[s].owner = subscription[s].owner
  BY <1>2 DEF FactoryInv, SubscriptionsInv
<1>4. ASSUME NEW u \in Threads, NEW e \in Depths, InCallback(Cell(u, e)')
      PROVE  \/ /\ Cell(u, e)' = Cell(u, e) /\ InCallback(Cell(u, e))
                /\ Cell(u, e).sub \in Subscriptions /\ Live(Cell(u, e).sub)
             \/ /\ Cell(u, e)' = g /\ g.sub \in Subscriptions /\ subscription[g.sub].enabled
                /\ Live(g.sub)
  <2>1. CASE u = t /\ e = d
    <3>1. Cell(u, e)' = g /\ d \in Depths /\ InCallback(g)
      BY <1>1, <1>4, <2>1
    <3>2. CallOK(g)' /\ subscription[g.sub].enabled
      BY <3>1 DEF Regular, NewCall
    <3>3. g.sub \in Subscriptions
      BY <3>1, <3>2, NothingFacts DEF CallOK, InCallback, Regular, Frame
    <3> QED  BY <3>1, <3>2, <3>3 DEF FactoryInv, SubscriptionsInv
  <2>2. CASE ~(u = t /\ e = d)
    <3>1. Cell(u, e)' = Cell(u, e) /\ InCallback(Cell(u, e))
      BY <1>1, <1>4, <2>2
    <3> QED  BY <3>1, CallbackSub
  <2> QED  BY <2>1, <2>2
<1>5. ASSUME NEW p \in quiet'
      PROVE  /\ host'[p] = "stopped" /\ p \notin pinned'
             /\ \A s \in Subscriptions : subscription'[s].owner = p => ~subscription'[s].enabled
             /\ \A u \in Threads, e \in Depths :
                  InCallback(Cell(u, e)') => subscription'[Cell(u, e)'.sub].owner # p
  <2>1. host'[p] = "stopped" /\ p \notin pinned'
    BY DEF Regular, KeptQuiet
  <2>2. CASE p \notin quiet
    BY <2>1, <2>2 DEF Regular, KeptQuiet
  <2>3. CASE p \in quiet
    <3>1. /\ \A s \in Subscriptions : subscription[s].owner = p => ~subscription[s].enabled
          /\ \A u \in Threads, e \in Depths :
               InCallback(Cell(u, e)) => subscription[Cell(u, e).sub].owner # p
      BY <2>3 DEF FactoryInv, SilenceInv
    <3>2. \A s \in Subscriptions : subscription'[s].owner = p => ~subscription'[s].enabled
      BY <1>3, <3>1 DEF Regular, EnabledWell
    <3>3. \A u \in Threads, e \in Depths :
            InCallback(Cell(u, e)') => subscription'[Cell(u, e)'.sub].owner # p
      BY <1>2, <1>4, <3>1
    <3> QED  BY <2>1, <3>2, <3>3
  <2> QED  BY <2>2, <2>3
<1>6. stopping' # "no" => \A s \in Subscriptions : ~subscription'[s].enabled
  <2>1. CASE stopping = "no"
    BY <2>1 DEF Regular, KeptHost
  <2>2. CASE stopping # "no"
    BY <2>2 DEF Regular, EnabledWell, KeptHost, FactoryInv, SilenceInv
  <2> QED  BY <2>1, <2>2
<1>7. stopping' = "stopped" =>
        pinned' = {} /\ \A u \in Threads, e \in Depths : ~InCallback(Cell(u, e)')
  <2>1. CASE stopping = "stopped"
    <3>1. /\ pinned = {} /\ \A u \in Threads, e \in Depths : ~InCallback(Cell(u, e))
          /\ \A s \in Subscriptions : ~subscription[s].enabled
      BY <2>1 DEF FactoryInv, SilenceInv
    <3>2. \A u \in Threads, e \in Depths : ~InCallback(Cell(u, e)')
      BY <1>4, <3>1
    <3> QED  BY <2>1, <3>1, <3>2 DEF Regular, KeptHost
  <2>2. CASE stopping # "stopped"
    BY <2>2 DEF Regular, KeptHost
  <2> QED  BY <2>1, <2>2
<1> QED  BY <1>5, <1>6, <1>7 DEF SilenceInv, InCallback

\* The conjuncts together.
LEMMA RegularStep ==
  ASSUME FactoryConstants, TypeOK, FactoryInv, NEW t \in Threads, NEW d, NEW g,
         Regular(t, d, g), BelowInv'
  PROVE  FactoryInv'
<1>1. CallsInv'
  BY CallsStep
<1>2. SubscriptionsInv' /\ HandsInv' /\ WaitsInv' /\ SilenceInv'
  BY <1>1, SubscriptionsStep, HandsStep, WaitsStep, SilenceStep
<1>3. CountsInv'
  BY CountsStep DEF FactoryInv, Regular
<1> QED  BY <1>1, <1>2, <1>3 DEF FactoryInv

-----------------------------------------------------------------------------
(* What a step is to the dispatch layer.                                   *)

\* Nobody enters or leaves a callback and somebody is shut out, let in, started again or
\* quiet; or one thread enters or leaves a callback.
OnLayer(t, d, g) ==
  \/ /\ ~InCallback(Cell(t, d)) /\ ~InCallback(g)
     /\ \/ /\ quiet' = quiet
           /\ \A s \in Subscriptions : subscription'[s].enabled => subscription[s].enabled
        \/ /\ quiet' = quiet
           /\ \E p \in Plugins : p \notin quiet /\ \A s \in Subscriptions :
                /\ subscription[s].enabled => subscription'[s].enabled
                /\ subscription'[s].enabled =>
                     subscription[s].enabled \/ subscription'[s].owner = p
        \/ /\ \A s \in Subscriptions : subscription'[s].enabled <=> subscription[s].enabled
           /\ quiet \subseteq quiet' \/ \E p \in Plugins : quiet' = quiet \ {p}
  \/ /\ InCallback(Cell(t, d)) # InCallback(g) /\ quiet' = quiet
     /\ \A s \in Subscriptions : subscription'[s].enabled <=> subscription[s].enabled

\* What is shown of each action.
Done(t) ==
  /\ TypeOK' /\ BelowInv'
  /\ \E d \in Nat, g \in Frame \cup {Nothing} : Regular(t, d, g) /\ OnLayer(t, d, g)

-----------------------------------------------------------------------------
(* The parts of a step.                                                    *)

\* A new call.
LEMMA MadeCall ==
  ASSUME FactoryConstants, NEW c \in {"query", "dispatch", "unsubscribe", "deactivate",
                                      "activate", "shutdown"},
         NEW a \in {"native", "original", "pick", "check", "in", "wait", "queries"}
  PROVE  /\ Call(c, a) \in Frame
         /\ Call(c, a).call = c /\ Call(c, a).at = a /\ Call(c, a).plugin = NoPlugin
         /\ Call(c, a).sub = None /\ Call(c, a).todo = {}
<1>1. AnyName \in Names
  BY DEF AnyName, FactoryConstants
<1> QED  BY <1>1 DEF Call, Frame

\* Which calls of a thread run code, and which wait.
LEMMA RunningCells ==
  ASSUME FactoryConstants, TypeOK, FactoryInv, NEW t \in Threads, Running(t)
  PROVE  \A d \in Depths : Cell(t, d).call \in {"query", "dispatch", "none"}
<1> SUFFICES ASSUME NEW d \in Depths PROVE Cell(t, d).call \in {"query", "dispatch", "none"}
  OBVIOUS
<1>0. d \in Nat /\ d # 0
  BY DEF Depths
<1>1. CASE d > Len(frames[t])
  BY <1>0, <1>1, CellType, NothingFacts
<1>2. CASE d <= Len(frames[t])
  <2>1. Cell(t, d) \in Frame /\ CallOK(Cell(t, d))
    BY <1>0, <1>2, CellType DEF FactoryInv, CallsInv
  <2>2. Cell(t, d).at \in Inner
    <3>1. frames[t] # <<>> /\ Len(frames[t]) \in Nat
      BY <1>0, <1>2, StackType, EmptySeq
    <3>2. CASE d < Len(frames[t])
      BY <3>2 DEF FactoryInv, CallsInv, Inner
    <3>3. CASE d = Len(frames[t])
      BY <3>1, <3>3, TopCell DEF Running, Inner
    <3> QED  BY <1>0, <1>2, <3>1, <3>2, <3>3
  <2> QED  BY <2>1, <2>2 DEF CallOK, Inner, Frame
<1> QED  BY <1>0, <1>1, <1>2, StackType

\* The guards, in terms of cells.
LEMMA GuardCells ==
  ASSUME FactoryConstants, TypeOK
  PROVE  /\ \A p \in Plugins : ~InHand(p) =>
              \A u \in Threads, e \in Depths : ~Handles(Cell(u, e), p)
         /\ \A p \in Plugins : ~Unsubscribing(p) =>
              \A u \in Threads, e \in Depths : ~GivesUp(Cell(u, e), p)
         /\ \A t \in Threads : ~Dispatching(t) =>
              \A e \in Depths : Cell(t, e).call # "dispatch"
         /\ (\A f \in AllFrames : f.call \notin {"activate", "deactivate", "shutdown"}) =>
              \A u \in Threads, e \in Depths :
                Cell(u, e).call \notin {"activate", "deactivate", "shutdown"}
<1>1. \A u \in Threads, e \in Depths :
        /\ Cell(u, e) \in AllFrames \/ Cell(u, e) = Nothing
        /\ Cell(u, e) \in FramesOf(u) \/ Cell(u, e) = Nothing
  BY CallsOfAll, CallsOfThread
<1> QED  BY <1>1, NothingFacts DEF InHand, Unsubscribing, Dispatching, Handles, GivesUp

\* The invariant includes what the stacks need.
LEMMA BelowHolds == ASSUME FactoryInv PROVE BelowInv
BY DEF FactoryInv, CallsInv, BelowInv, Inner

\* Switching subscriptions on or off.
LEMMA SwitchedFacts ==
  ASSUME TypeOK, NEW S \in SUBSET Subscriptions, NEW on \in BOOLEAN,
         subscription' = Switched(S, on)
  PROVE  /\ subscription' \in [Subscriptions -> Subscription]
         /\ \A s \in Subscriptions :
              /\ subscription'[s].state = subscription[s].state
              /\ subscription'[s].owner = subscription[s].owner
              /\ subscription'[s].active = subscription[s].active
              /\ subscription'[s].enabled = IF s \in S THEN on ELSE subscription[s].enabled
<1>1. \A s \in Subscriptions : subscription[s] \in Subscription
  BY DEF TypeOK
<1>2. \A s \in Subscriptions :
        subscription'[s] = IF s \in S THEN [subscription[s] EXCEPT !.enabled = on]
                           ELSE subscription[s]
  BY DEF Switched
<1>3. \A s \in Subscriptions : subscription'[s] \in Subscription
  <2>1. ASSUME NEW r \in Subscription PROVE [r EXCEPT !.enabled = on] \in Subscription
    BY DEF Subscription
  <2> QED  BY <1>1, <1>2, <2>1
<1>4. subscription' \in [Subscriptions -> Subscription]
  BY <1>3 DEF Switched
<1> QED  BY <1>1, <1>2, <1>4 DEF Subscription

\* Erasing subscriptions.
LEMMA ErasedFacts ==
  ASSUME TypeOK, NEW S \in SUBSET Subscriptions, subscription' = Erased(S)
  PROVE  /\ subscription' \in [Subscriptions -> Subscription]
         /\ \A s \in Subscriptions :
              /\ subscription'[s].state = IF s \in S THEN "erased" ELSE subscription[s].state
              /\ subscription'[s].owner = subscription[s].owner
              /\ subscription'[s].active = subscription[s].active
              /\ subscription'[s].enabled = subscription[s].enabled
<1>1. \A s \in Subscriptions : subscription[s] \in Subscription
  BY DEF TypeOK
<1>2. \A s \in Subscriptions :
        subscription'[s] = IF s \in S THEN [subscription[s] EXCEPT !.state = "erased"]
                           ELSE subscription[s]
  BY DEF Erased
<1>3. \A s \in Subscriptions : subscription'[s] \in Subscription
  <2>1. ASSUME NEW r \in Subscription PROVE [r EXCEPT !.state = "erased"] \in Subscription
    BY DEF Subscription
  <2> QED  BY <1>1, <1>2, <2>1
<1>4. subscription' \in [Subscriptions -> Subscription]
  BY <1>3 DEF Erased
<1> QED  BY <1>1, <1>2, <1>4 DEF Subscription

\* Counting one dispatch more or less.
LEMMA CountedFacts ==
  ASSUME TypeOK, NEW s \in Subscriptions, NEW n \in Int, subscription[s].active + n \in Nat,
         subscription' = Counted(s, n)
  PROVE  /\ subscription' \in [Subscriptions -> Subscription]
         /\ \A r \in Subscriptions :
              /\ subscription'[r].state = subscription[r].state
              /\ subscription'[r].owner = subscription[r].owner
              /\ subscription'[r].enabled = subscription[r].enabled
              /\ subscription'[r].active = subscription[r].active + (IF r = s THEN n ELSE 0)
<1>1. \A r \in Subscriptions : subscription[r] \in Subscription
  BY DEF TypeOK
<1>2. PICK z : z = [subscription[s] EXCEPT !.active = subscription[s].active + n]
  OBVIOUS
<1>3. /\ z \in Subscription /\ z.state = subscription[s].state /\ z.owner = subscription[s].owner
      /\ z.enabled = subscription[s].enabled /\ z.active = subscription[s].active + n
  BY <1>1, <1>2 DEF Subscription
<1>4. subscription' = [subscription EXCEPT ![s] = z]
  BY <1>2 DEF Counted, TypeOK
<1>5. /\ subscription' \in [Subscriptions -> Subscription] /\ subscription'[s] = z
      /\ \A r \in Subscriptions : r # s => subscription'[r] = subscription[r]
  BY <1>3, <1>4 DEF TypeOK
<1>6. \A r \in Subscriptions : subscription[r].active \in Nat
  BY <1>1 DEF Subscription
<1> QED  BY <1>3, <1>5, <1>6

\* A step that keeps state, owner and switch of every subscription.
LEMMA SteadyStep ==
  ASSUME FactoryInv,
         \A s \in Subscriptions : /\ subscription'[s].state = subscription[s].state
                                  /\ subscription'[s].owner = subscription[s].owner
                                  /\ subscription'[s].enabled = subscription[s].enabled
  PROVE  KeptSubscriptions /\ EnabledWell
BY DEF FactoryInv, SubscriptionsInv, KeptSubscriptions, EnabledWell, Live

\* A step of one call that leaves the switches and the host alone.
LEMMA PlainStep ==
  ASSUME FactoryConstants, TypeOK, FactoryInv, NEW t \in Threads, NEW d \in Nat,
         NEW g \in Frame \cup {Nothing}, StacksOK', Changes(t, d, g),
         subscription' \in [Subscriptions -> Subscription],
         \A s \in Subscriptions : /\ subscription'[s].state = subscription[s].state
                                  /\ subscription'[s].owner = subscription[s].owner
                                  /\ subscription'[s].enabled = subscription[s].enabled,
         UNCHANGED <<host, stopping, quiet>>,
         queries' \in Nat, Counts(Cell(t, d), g),
         pinned' \in SUBSET Plugins, pinned' \cap quiet = {},
         stopping = "stopped" => pinned' = pinned,
         ~(InCallback(Cell(t, d)) /\ InCallback(g)),
         d \in Depths => NewCall(t, g) /\ \A p \in Plugins : Handles(g, p) => Alone(p, t, d)
  PROVE  Done(t)
<1>1. KeptSubscriptions /\ EnabledWell
  BY SteadyStep
<1>2. KeptHost(t, d)
  <2>1. stopping # "no" => \A s \in Subscriptions : ~subscription'[s].enabled
    BY DEF FactoryInv, SilenceInv
  <2> QED  BY <2>1 DEF KeptHost
<1>3. KeptQuiet
  BY DEF KeptQuiet, FactoryInv, SilenceInv
<1>4. Regular(t, d, g)
  BY <1>1, <1>2, <1>3 DEF Regular
<1>5. OnLayer(t, d, g)
  BY DEF OnLayer, InCallback
<1>6. TypeOK' /\ BelowInv'
  BY DEF TypeOK, StacksOK
<1> QED  BY <1>4, <1>5, <1>6 DEF Done

\* A call that waits for nothing and gives nothing up may begin or go on at any time.
LEMMA FreeCall ==
  ASSUME NEW t \in Threads, NEW g, CallOK(g)', g.call \in {"query", "dispatch", "none"},
         ~InCallback(g)
  PROVE  NewCall(t, g) /\ \A d : \A p \in Plugins : Handles(g, p) => Alone(p, t, d)
BY DEF NewCall, Handles, InCallback

\* A call's place does not matter to the counts when nothing changes.
LEMMA SameCounts ==
  ASSUME TypeOK, NEW f, NEW g, UNCHANGED <<queries, subscription>>,
         g.call = "query" <=> f.call = "query",
         \A s \in Subscriptions : Asks(g, s) <=> Asks(f, s)
  PROVE  Counts(f, g)
<1>1. queries \in Nat /\ \A s \in Subscriptions : subscription[s].active \in Nat
  BY DEF TypeOK, Subscription
<1> QED  BY <1>1 DEF Counts, Num

\* A step of a call that changes nothing else.
LEMMA CallStep ==
  ASSUME FactoryConstants, TypeOK, FactoryInv, NEW t \in Threads, NEW d \in Nat,
         NEW g \in Frame \cup {Nothing}, StacksOK', Changes(t, d, g),
         UNCHANGED <<host, subscription, pinned, queries, stopping, quiet>>,
         g.call = "query" <=> Cell(t, d).call = "query",
         \A s \in Subscriptions : Asks(g, s) <=> Asks(Cell(t, d), s),
         ~InCallback(Cell(t, d)), ~InCallback(g),
         d \in Depths => NewCall(t, g) /\ \A p \in Plugins : Handles(g, p) => Alone(p, t, d)
  PROVE  Done(t)
<1>1. Counts(Cell(t, d), g)
  BY SameCounts
<1>2. /\ subscription' \in [Subscriptions -> Subscription] /\ queries' \in Nat
      /\ pinned' \in SUBSET Plugins
  BY DEF TypeOK
<1>3. pinned' \cap quiet = {}
  BY DEF FactoryInv, SilenceInv
<1> QED  BY <1>1, <1>2, <1>3, PlainStep

-----------------------------------------------------------------------------
(* The actions.                                                            *)

\* Nothing is a call that does nothing.
LEMMA NothingOK == CallOK(Nothing)' /\ ~InCallback(Nothing) /\ \A s : ~Asks(Nothing, s)
BY NothingFacts DEF CallOK, InCallback, Asks, Nothing, Call

LEMMA QueryStep ==
  ASSUME FactoryConstants, TypeOK, FactoryInv, NEW t \in Threads, NEW p \in Plugins,
         NEW n \in Names, NEW b \in BOOLEAN, Query(t, p, n, b)
  PROVE  Done(t)
<1>0. PICK c \in Frame : c = Call("query", "native") /\ c.call = "query" /\ c.at = "native"
  BY MadeCall
<1>1. PICK g : g = [Call("query", "native") EXCEPT !.plugin = p, !.name = n, !.original = b]
  OBVIOUS
<1>2. g \in Frame /\ g.call = "query" /\ g.at = "native"
  BY <1>0, <1>1 DEF Frame
<1>3. PICK d \in Nat : d = Len(frames[t]) + 1
  BY StackType
<1>4. d \in Depths /\ Cell(t, d) = Nothing /\ StacksOK' /\ Changes(t, d, g)
  BY <1>1, <1>2, <1>3, PushChanges, BelowHolds DEF Query
<1>5. CallOK(g)' /\ ~InCallback(g) /\ \A s : ~Asks(g, s)
  BY <1>2 DEF CallOK, InCallback, Asks
<1>6. /\ queries' = queries + 1 /\ queries \in Nat
      /\ \A s \in Subscriptions : subscription[s].active \in Nat
  BY DEF Query, TypeOK, Subscription
<1>7. Counts(Cell(t, d), g)
  BY <1>2, <1>4, <1>5, <1>6, NothingFacts, NothingOK DEF Counts, Num, Query
<1>8. NewCall(t, g) /\ \A q \in Plugins : Handles(g, q) => Alone(q, t, d)
  BY <1>2, <1>5, FreeCall
<1>9. pinned \cap quiet = {}
  BY DEF FactoryInv, SilenceInv
<1> QED  BY <1>2, <1>4, <1>5, <1>6, <1>7, <1>8, <1>9, NothingOK, PlainStep DEF Query, TypeOK

LEMMA QueryReturnsStep ==
  ASSUME FactoryConstants, TypeOK, FactoryInv, NEW t \in Threads, QueryReturns(t)
  PROVE  Done(t)
<1>1. frames[t] # <<>> /\ Top(t).call = "query"
  BY DEF QueryReturns, At, Top
<1>2. PICK d \in Depths : d = Len(frames[t]) /\ Cell(t, d) = Top(t)
  BY <1>1, TopCell
<1>3. StacksOK' /\ Changes(t, d, Nothing) /\ d \in Nat
  BY <1>1, <1>2, PopChanges, BelowHolds DEF QueryReturns, Depths
<1>4. queries > 0 /\ queries \in Nat /\ \A s \in Subscriptions : subscription[s].active \in Nat
  BY <1>1, <1>2, AskedCounted DEF FactoryInv, TypeOK, Subscription
<1>5. queries' = queries - 1 /\ queries' \in Nat
  BY <1>4 DEF QueryReturns
<1>6. ~InCallback(Cell(t, d)) /\ \A s : ~Asks(Cell(t, d), s)
  BY <1>1, <1>2 DEF InCallback, Asks
<1>7. Counts(Cell(t, d), Nothing)
  BY <1>1, <1>2, <1>4, <1>5, <1>6, NothingFacts, NothingOK DEF Counts, Num, QueryReturns
<1>8. NewCall(t, Nothing) /\ \A q \in Plugins : Handles(Nothing, q) => Alone(q, t, d)
  BY NothingOK, NothingFacts, FreeCall
<1>9. pinned \cap quiet = {}
  BY DEF FactoryInv, SilenceInv
<1> QED  BY <1>3, <1>5, <1>6, <1>7, <1>8, <1>9, PlainStep DEF QueryReturns, TypeOK

\* The innermost call and its place.
LEMMA TopPlace ==
  ASSUME FactoryConstants, TypeOK, FactoryInv, NEW t \in Threads, frames[t] # <<>>
  PROVE  \E d \in Depths : /\ d \in Nat /\ d = Len(frames[t]) /\ Cell(t, d) = Top(t)
                           /\ Top(t) \in Frame /\ CallOK(Top(t))
<1>1. PICK d \in Depths : d = Len(frames[t]) /\ Cell(t, d) = Top(t) /\ Top(t) \in Frame
  BY TopCell
<1> QED  BY <1>1 DEF FactoryInv, CallsInv, Depths

LEMMA NoSubscription == None \notin Subscriptions
BY DEF None, Subscriptions

\* A call of a thread that runs code begins above the calls it is in.
LEMMA NewPlace ==
  ASSUME FactoryConstants, TypeOK, FactoryInv, NEW t \in Threads, Running(t),
         NEW g \in Frame, Push(t, g)
  PROVE  \E d \in Depths : /\ d \in Nat /\ Cell(t, d) = Nothing
                           /\ StacksOK' /\ Changes(t, d, g)
<1>1. PICK d \in Depths : d = Len(frames[t]) + 1
  BY PushChanges, BelowHolds
<1> QED  BY <1>1, PushChanges, BelowHolds DEF Depths

LEMMA DispatchStep ==
  ASSUME FactoryConstants, TypeOK, FactoryInv, NEW t \in Threads, NEW n \in Names,
         Dispatch(t, n)
  PROVE  Done(t)
<1>0. PICK c \in Frame : /\ c = Call("dispatch", "original") /\ c.call = "dispatch"
                         /\ c.at = "original" /\ c.sub = None
  BY MadeCall
<1>1. PICK asked : /\ asked = {s \in Subscriptions : /\ Live(s) /\ subscription[s].enabled
                                                     /\ subscription[s].name = n}
                   /\ Push(t, [c EXCEPT !.name = n, !.todo = asked])
  BY <1>0 DEF Dispatch
<1>2. PICK g : g = [c EXCEPT !.name = n, !.todo = asked]
  OBVIOUS
<1>3. asked \in SUBSET Subscriptions /\ \A s \in asked : subscription[s].state # "free"
  BY <1>1 DEF Live
<1>4. /\ g \in Frame /\ g.call = "dispatch" /\ g.at = "original" /\ g.sub = None
      /\ g.todo = asked
  BY <1>0, <1>2, <1>3 DEF Frame
<1>5. PICK d \in Depths : d \in Nat /\ Cell(t, d) = Nothing /\ StacksOK' /\ Changes(t, d, g)
  BY <1>1, <1>2, <1>4, NewPlace DEF Dispatch
<1>6. /\ UNCHANGED <<host, subscription, pinned, queries, stopping, quiet>>
      /\ ~InCallback(g) /\ \A s \in Subscriptions : ~Asks(g, s)
  BY <1>4, NoSubscription DEF Dispatch, InCallback, Asks
<1>7. CallOK(g)'
  BY <1>3, <1>4, <1>6 DEF CallOK
<1>8. NewCall(t, g) /\ \A q \in Plugins : Handles(g, q) => Alone(q, t, d)
  BY <1>4, <1>6, <1>7, FreeCall
<1> QED  BY <1>4, <1>5, <1>6, <1>8, NothingOK, NothingFacts, CallStep

LEMMA OriginalAnsweredStep ==
  ASSUME FactoryConstants, TypeOK, FactoryInv, NEW t \in Threads, OriginalAnswered(t)
  PROVE  Done(t)
<1>1. /\ frames[t] # <<>> /\ Top(t).call = "dispatch" /\ Top(t).at = "original"
      /\ UNCHANGED <<host, subscription, pinned, queries, stopping, quiet>>
  BY DEF OriginalAnswered, At, Top
<1>2. PICK d \in Depths : /\ d \in Nat /\ d = Len(frames[t]) /\ Cell(t, d) = Top(t)
                          /\ Top(t) \in Frame /\ CallOK(Top(t))
  BY <1>1, TopPlace
<1>3. Top(t).sub = None /\ \A s \in Top(t).todo : subscription[s].state # "free"
  BY <1>1, <1>2 DEF CallOK
<1>4. ~InCallback(Cell(t, d)) /\ \A s \in Subscriptions : ~Asks(Cell(t, d), s)
  BY <1>1, <1>2, <1>3, NoSubscription DEF InCallback, Asks
<1>5. CASE Pop(t)
  <2>1. StacksOK' /\ Changes(t, d, Nothing)
    BY <1>1, <1>2, <1>5, PopChanges, BelowHolds
  <2>2. NewCall(t, Nothing) /\ \A q \in Plugins : Handles(Nothing, q) => Alone(q, t, d)
    BY NothingOK, NothingFacts, FreeCall
  <2> QED  BY <1>1, <1>2, <1>4, <2>1, <2>2, NothingOK, NothingFacts, CallStep
<1>6. CASE ~Pop(t)
  <2>1. PICK g : g = [Top(t) EXCEPT !.at = "pick"] /\ SetTop(t, g)
    BY <1>6 DEF OriginalAnswered
  <2>2. /\ g \in Frame /\ g.call = "dispatch" /\ g.at = "pick" /\ g.sub = None
        /\ g.todo = Top(t).todo
    BY <1>1, <1>2, <1>3, <2>1 DEF Frame
  <2>3. StacksOK' /\ Changes(t, d, g)
    BY <1>1, <1>2, <2>1, <2>2, SetTopChanges, BelowHolds
  <2>4. ~InCallback(g) /\ \A s \in Subscriptions : ~Asks(g, s)
    BY <2>2, NoSubscription DEF InCallback, Asks
  <2>5. CallOK(g)'
    BY <1>1, <1>3, <2>2 DEF CallOK
  <2>6. NewCall(t, g) /\ \A q \in Plugins : Handles(g, q) => Alone(q, t, d)
    BY <2>2, <2>4, <2>5, FreeCall
  <2> QED  BY <1>1, <1>2, <1>4, <2>2, <2>3, <2>4, <2>6, CallStep
<1> QED  BY <1>5, <1>6

LEMMA DispatchReturnsStep ==
  ASSUME FactoryConstants, TypeOK, FactoryInv, NEW t \in Threads, DispatchReturns(t)
  PROVE  Done(t)
<1>1. /\ frames[t] # <<>> /\ Top(t).call = "dispatch" /\ Top(t).at = "pick" /\ Pop(t)
      /\ UNCHANGED <<host, subscription, pinned, queries, stopping, quiet>>
  BY DEF DispatchReturns, At, Top
<1>2. PICK d \in Depths : /\ d \in Nat /\ d = Len(frames[t]) /\ Cell(t, d) = Top(t)
                          /\ Top(t) \in Frame /\ CallOK(Top(t))
  BY <1>1, TopPlace
<1>3. Top(t).sub = None
  BY <1>1, <1>2 DEF CallOK
<1>4. ~InCallback(Cell(t, d)) /\ \A s \in Subscriptions : ~Asks(Cell(t, d), s)
  BY <1>1, <1>2, <1>3, NoSubscription DEF InCallback, Asks
<1>5. StacksOK' /\ Changes(t, d, Nothing)
  BY <1>1, <1>2, PopChanges, BelowHolds
<1>6. NewCall(t, Nothing) /\ \A q \in Plugins : Handles(Nothing, q) => Alone(q, t, d)
  BY NothingOK, NothingFacts, FreeCall
<1> QED  BY <1>1, <1>2, <1>4, <1>5, <1>6, NothingOK, NothingFacts, CallStep

\* Subscriptions are asked in the order in which they were made.
LEMMA FirstAsked ==
  ASSUME NEW S \in SUBSET Subscriptions, S # {}
  PROVE  Min(S) \in S
<1> DEFINE R == {ss \in Nat \X Nat : ss[1] < ss[2]}
<1>1. OpToRel(<, Nat) = R
  BY Zenon DEF OpToRel
<1>2. IsWellFoundedOn(R, Nat)
  BY <1>1, NatLessThanWellFounded, Zenon
<1>3. S \subseteq Nat
  BY DEF Subscriptions
<1>4. PICK s \in S : \A r \in S : <<r, s>> \notin R
  <2> HIDE DEF R
  <2> QED  BY <1>2, <1>3, WFMin
<1>5. ASSUME NEW r \in S PROVE s <= r
  <2>1. r \in Nat /\ s \in Nat
    BY <1>3
  <2>2. r < s => <<r, s>> \in R
    BY <2>1
  <2>3. ~(r < s)
    BY <1>4, <2>2
  <2> QED  BY <2>1, <2>3
<1> QED  BY <1>5 DEF Min

LEMMA PickStep ==
  ASSUME FactoryConstants, TypeOK, FactoryInv, NEW t \in Threads, Pick(t)
  PROVE  Done(t)
<1>1. /\ frames[t] # <<>> /\ Top(t).call = "dispatch" /\ Top(t).at = "pick"
      /\ Top(t).todo # {} /\ UNCHANGED <<host, pinned, queries, stopping, quiet>>
  BY DEF Pick, At, Top
<1>2. PICK d \in Depths : /\ d \in Nat /\ d = Len(frames[t]) /\ Cell(t, d) = Top(t)
                          /\ Top(t) \in Frame /\ CallOK(Top(t))
  BY <1>1, TopPlace
<1>3. PICK s \in Subscriptions : s = Min(Top(t).todo) /\ s \in Top(t).todo
  BY <1>1, <1>2, FirstAsked DEF Frame
<1>4. PICK g : /\ g = [Top(t) EXCEPT !.at = "check", !.sub = s, !.todo = @ \ {s}]
               /\ SetTop(t, g) /\ subscription' = Counted(s, 1)
  BY <1>3 DEF Pick
<1>5. /\ g \in Frame /\ g.call = "dispatch" /\ g.at = "check" /\ g.sub = s
      /\ g.todo \subseteq Top(t).todo
  BY <1>1, <1>2, <1>4 DEF Frame
<1>6. subscription[s].active \in Nat
  BY DEF TypeOK, Subscription
<1>7. /\ subscription' \in [Subscriptions -> Subscription]
      /\ \A r \in Subscriptions :
           /\ subscription'[r].state = subscription[r].state
           /\ subscription'[r].owner = subscription[r].owner
           /\ subscription'[r].enabled = subscription[r].enabled
           /\ subscription'[r].active = subscription[r].active + (IF r = s THEN 1 ELSE 0)
  BY <1>4, <1>6, CountedFacts
<1>8. StacksOK' /\ Changes(t, d, g)
  BY <1>1, <1>2, <1>4, <1>5, SetTopChanges, BelowHolds
<1>9. Top(t).sub = None /\ \A r \in Top(t).todo : subscription[r].state # "free"
  BY <1>1, <1>2 DEF CallOK
<1>10. /\ \A r \in Subscriptions : ~Asks(Cell(t, d), r) /\ (Asks(g, r) <=> r = s)
       /\ ~InCallback(Cell(t, d)) /\ ~InCallback(g)
  BY <1>1, <1>2, <1>5, <1>9, NoSubscription DEF Asks, InCallback
<1>11. Counts(Cell(t, d), g)
  <2>1. \A r \in Subscriptions : subscription[r].active \in Nat
    BY DEF TypeOK, Subscription
  <2>2. queries \in Nat
    BY DEF TypeOK
  <2> QED  BY <1>1, <1>2, <1>5, <1>7, <1>10, <2>1, <2>2 DEF Counts, Num
<1>12. CallOK(g)'
  <2>1. \A r \in g.todo : subscription'[r].state # "free"
    BY <1>2, <1>5, <1>7, <1>9 DEF Frame
  <2>2. subscription'[s].state # "free"
    BY <1>3, <1>7, <1>9
  <2> QED  BY <1>5, <2>1, <2>2, NoSubscription DEF CallOK
<1>13. NewCall(t, g) /\ \A q \in Plugins : Handles(g, q) => Alone(q, t, d)
  BY <1>5, <1>10, <1>12, FreeCall
<1>14. /\ pinned' \in SUBSET Plugins /\ queries' \in Nat /\ pinned' \cap quiet = {}
       /\ UNCHANGED <<host, stopping, quiet>> /\ pinned' = pinned
  BY <1>1 DEF FactoryInv, SilenceInv, TypeOK
<1>15. g \in Frame \cup {Nothing} /\ d \in Nat /\ ~(InCallback(Cell(t, d)) /\ InCallback(g))
  BY <1>2, <1>5, <1>10
<1> QED  BY <1>7, <1>8, <1>11, <1>13, <1>14, <1>15, PlainStep

\* A dispatch is done with a subscription, after its callback or without it.
LEMMA GiveBack ==
  ASSUME FactoryConstants, TypeOK, FactoryInv, NEW t \in Threads, frames[t] # <<>>,
         Top(t).call = "dispatch", Top(t).at \in {"check", "in"},
         NEW s \in Subscriptions, s = Top(t).sub, subscription' = Counted(s, -1),
         NEW g \in Frame, g.call = "dispatch", g.at = "pick", g.sub = None,
         g.todo = Top(t).todo, SetTop(t, g), UNCHANGED <<host, queries, stopping, quiet>>,
         pinned' = pinned \/ (Top(t).at = "in" /\ pinned' = pinned \cup {subscription[s].owner})
  PROVE  Done(t)
<1>1. PICK d \in Depths : /\ d \in Nat /\ d = Len(frames[t]) /\ Cell(t, d) = Top(t)
                          /\ Top(t) \in Frame /\ CallOK(Top(t))
  BY TopPlace
<1>2. Asks(Cell(t, d), s) /\ subscription[s].active > 0 /\ subscription[s].active \in Nat
  <2>1. Asks(Cell(t, d), s)
    BY <1>1 DEF Asks
  <2>2. subscription[s].active > 0
    BY <2>1, AskedCounted DEF FactoryInv
  <2> QED  BY <2>1, <2>2 DEF TypeOK, Subscription
<1>3. /\ subscription' \in [Subscriptions -> Subscription]
      /\ \A r \in Subscriptions :
           /\ subscription'[r].state = subscription[r].state
           /\ subscription'[r].owner = subscription[r].owner
           /\ subscription'[r].enabled = subscription[r].enabled
           /\ subscription'[r].active = subscription[r].active + (IF r = s THEN -1 ELSE 0)
  <2>1. -1 \in Int /\ subscription[s].active + (-1) \in Nat
    BY <1>2
  <2> QED  BY <2>1, CountedFacts
<1>4. StacksOK' /\ Changes(t, d, g)
  BY <1>1, SetTopChanges, BelowHolds
<1>5. \A r \in Subscriptions : (Asks(Cell(t, d), r) <=> r = s) /\ ~Asks(g, r)
  BY <1>1, NoSubscription DEF Asks
<1>6. Counts(Cell(t, d), g)
  <2>1. \A r \in Subscriptions : subscription[r].active \in Nat
    BY DEF TypeOK, Subscription
  <2>2. queries \in Nat
    BY DEF TypeOK
  <2> QED  BY <1>1, <1>3, <1>5, <2>1, <2>2 DEF Counts, Num
<1>7. CallOK(g)' /\ ~InCallback(g)
  <2>1. \A r \in g.todo : subscription'[r].state # "free"
    BY <1>1, <1>3 DEF CallOK, Frame
  <2> QED  BY <2>1, NoSubscription DEF CallOK, InCallback
<1>8. NewCall(t, g) /\ \A q \in Plugins : Handles(g, q) => Alone(q, t, d)
  BY <1>7, FreeCall
<1>9. /\ pinned' \in SUBSET Plugins /\ pinned' \cap quiet = {}
      /\ stopping = "stopped" => pinned' = pinned
  <2>1. pinned \in SUBSET Plugins /\ pinned \cap quiet = {}
    BY DEF FactoryInv, SilenceInv, TypeOK
  <2>2. CASE Top(t).at # "in"
    BY <2>1, <2>2
  <2>3. CASE Top(t).at = "in"
    <3>1. InCallback(Cell(t, d)) /\ Cell(t, d).sub = s
      BY <1>1, <2>3 DEF InCallback
    <3>2. subscription[s].owner \in Plugins /\ subscription[s].owner \notin quiet
      BY <3>1, CallbackSub DEF FactoryInv, SilenceInv
    <3>3. stopping # "stopped"
      BY <3>1 DEF FactoryInv, SilenceInv
    <3> QED  BY <2>1, <3>2, <3>3
  <2> QED  BY <2>2, <2>3
<1>10. queries' \in Nat /\ g \in Frame \cup {Nothing} /\ d \in Nat
       /\ ~(InCallback(Cell(t, d)) /\ InCallback(g)) /\ UNCHANGED <<host, stopping, quiet>>
  BY <1>1, <1>7 DEF TypeOK
<1> QED  BY <1>3, <1>4, <1>6, <1>8, <1>9, <1>10, PlainStep

LEMMA CheckStep ==
  ASSUME FactoryConstants, TypeOK, FactoryInv, NEW t \in Threads, Check(t)
  PROVE  Done(t)
<1>1. /\ frames[t] # <<>> /\ Top(t).call = "dispatch" /\ Top(t).at = "check"
      /\ UNCHANGED <<host, pinned, queries, stopping, quiet>>
  BY DEF Check, At, Top
<1>2. PICK d \in Depths : /\ d \in Nat /\ d = Len(frames[t]) /\ Cell(t, d) = Top(t)
                          /\ Top(t) \in Frame /\ CallOK(Top(t))
  BY <1>1, TopPlace
<1>3. PICK s \in Subscriptions : s = Top(t).sub /\ subscription[s].state # "free"
  BY <1>1, <1>2 DEF CallOK, Frame
<1>4. CASE subscription[s].enabled
  <2>1. PICK g : g = [Top(t) EXCEPT !.at = "in"] /\ SetTop(t, g) /\ UNCHANGED subscription
    BY <1>3, <1>4 DEF Check
  <2>2. /\ g \in Frame /\ g.call = "dispatch" /\ g.at = "in" /\ g.sub = s
        /\ g.todo = Top(t).todo
    BY <1>1, <1>2, <1>3, <2>1 DEF Frame
  <2>3. StacksOK' /\ Changes(t, d, g)
    BY <1>1, <1>2, <2>1, <2>2, SetTopChanges, BelowHolds
  <2>4. Live(s)
    BY <1>4 DEF FactoryInv, SubscriptionsInv
  <2>5. CallOK(g)'
    <3>1. \A r \in g.todo : subscription'[r].state # "free"
      BY <1>1, <1>2, <2>1, <2>2 DEF CallOK
    <3>2. s # None /\ subscription'[s].state = "live"
      BY <2>1, <2>4, NoSubscription DEF Live
    <3> QED  BY <2>2, <3>1, <3>2 DEF CallOK, Live
  <2>6. NewCall(t, g) /\ \A q \in Plugins : Handles(g, q) => Alone(q, t, d)
    BY <1>4, <2>2, <2>5 DEF NewCall, Handles
  <2>7. Counts(Cell(t, d), g)
    <3>1. \A r \in Subscriptions : Asks(g, r) <=> Asks(Cell(t, d), r)
      BY <1>1, <1>2, <1>3, <2>2 DEF Asks
    <3>2. (g.call = "query" <=> Cell(t, d).call = "query") /\ UNCHANGED <<queries, subscription>>
      BY <1>1, <1>2, <2>1, <2>2
    <3> QED  BY <3>1, <3>2, SameCounts
  <2>8. /\ pinned' \in SUBSET Plugins /\ queries' \in Nat /\ pinned' \cap quiet = {}
        /\ UNCHANGED <<host, stopping, quiet>> /\ pinned' = pinned
        /\ subscription' \in [Subscriptions -> Subscription]
    BY <1>1, <2>1 DEF FactoryInv, SilenceInv, TypeOK
  <2>9. g \in Frame \cup {Nothing} /\ ~(InCallback(Cell(t, d)) /\ InCallback(g))
    BY <1>1, <1>2, <2>2 DEF InCallback
  <2> QED  BY <1>2, <2>1, <2>3, <2>6, <2>7, <2>8, <2>9, PlainStep
<1>5. CASE ~subscription[s].enabled
  <2>1. PICK g : /\ g = [Top(t) EXCEPT !.at = "pick", !.sub = None] /\ SetTop(t, g)
                 /\ subscription' = Counted(s, -1)
    BY <1>3, <1>5 DEF Check
  <2>2. /\ g \in Frame /\ g.call = "dispatch" /\ g.at = "pick" /\ g.sub = None
        /\ g.todo = Top(t).todo
    BY <1>1, <1>2, <2>1 DEF Frame
  <2> QED  BY <1>1, <1>3, <2>1, <2>2, GiveBack
<1> QED  BY <1>4, <1>5

LEMMA AnswerStep ==
  ASSUME FactoryConstants, TypeOK, FactoryInv, NEW t \in Threads,
         NEW replace \in BOOLEAN, NEW instance \in BOOLEAN, Answer(t, replace, instance)
  PROVE  Done(t)
<1>1. /\ frames[t] # <<>> /\ Top(t).call = "dispatch" /\ Top(t).at = "in"
      /\ UNCHANGED <<host, queries, stopping, quiet>>
  BY DEF Answer, At, Top
<1>2. PICK d \in Depths : /\ d \in Nat /\ d = Len(frames[t]) /\ Cell(t, d) = Top(t)
                          /\ Top(t) \in Frame /\ CallOK(Top(t))
  BY <1>1, TopPlace
<1>3. PICK s \in Subscriptions : s = Top(t).sub
  BY <1>1, <1>2 DEF CallOK, Frame
<1>4. PICK taken : /\ taken = (replace /\ ~Top(t).replaced /\ subscription[s].lifetime)
                   /\ pinned' = IF taken /\ instance THEN pinned \cup {subscription[s].owner}
                                ELSE pinned
                   /\ subscription' = Counted(s, -1)
                   /\ SetTop(t, [Top(t) EXCEPT !.at = "pick", !.sub = None,
                                               !.replaced = @ \/ taken])
  BY <1>3 DEF Answer
<1>5. PICK r \in BOOLEAN : r = (Top(t).replaced \/ taken)
  OBVIOUS
<1>6. PICK g : g = [Top(t) EXCEPT !.at = "pick", !.sub = None, !.replaced = r]
  OBVIOUS
<1>7. /\ g \in Frame /\ g.call = "dispatch" /\ g.at = "pick" /\ g.sub = None
      /\ g.todo = Top(t).todo
  BY <1>1, <1>2, <1>6 DEF Frame
<1>8. SetTop(t, g)
  BY <1>4, <1>5, <1>6
<1> QED  BY <1>1, <1>3, <1>4, <1>7, <1>8, GiveBack

\* The places of a step that changes no call.
LEMMA NoPlace ==
  ASSUME FactoryConstants, TypeOK, FactoryInv, NEW t \in Threads, UNCHANGED frames
  PROVE  \E d \in Nat : /\ d \notin Depths /\ Cell(t, d) = Nothing
                        /\ StacksOK' /\ Changes(t, d, Nothing)
BY SameChanges, BelowHolds

\* A step that only switches subscriptions off or erases them.
LEMMA ClosingStep ==
  ASSUME FactoryConstants, TypeOK, FactoryInv, NEW t \in Threads, NEW d \in Nat,
         NEW g \in Frame \cup {Nothing}, StacksOK', Changes(t, d, g),
         KeptSubscriptions, subscription' \in [Subscriptions -> Subscription],
         \A s \in Subscriptions : /\ subscription'[s].active = subscription[s].active
                                  /\ subscription'[s].enabled => subscription[s].enabled,
         UNCHANGED <<host, pinned, queries, stopping, quiet>>,
         g.call = "query" <=> Cell(t, d).call = "query",
         \A s \in Subscriptions : ~Asks(g, s) /\ ~Asks(Cell(t, d), s),
         ~InCallback(Cell(t, d)), ~InCallback(g),
         d \in Depths => NewCall(t, g) /\ \A p \in Plugins : Handles(g, p) => Alone(p, t, d)
  PROVE  Done(t)
<1>1. EnabledWell
  BY DEF EnabledWell
<1>2. Counts(Cell(t, d), g)
  <2>1. queries \in Nat /\ \A s \in Subscriptions : subscription[s].active \in Nat
    BY DEF TypeOK, Subscription
  <2> QED  BY <2>1 DEF Counts, Num
<1>3. KeptHost(t, d)
  <2>1. stopping # "no" => \A s \in Subscriptions : ~subscription'[s].enabled
    BY DEF FactoryInv, SilenceInv
  <2> QED  BY <2>1 DEF KeptHost
<1>4. KeptQuiet
  BY DEF KeptQuiet, FactoryInv, SilenceInv
<1>5. Regular(t, d, g)
  BY <1>1, <1>2, <1>3, <1>4 DEF Regular
<1>6. OnLayer(t, d, g)
  BY DEF OnLayer
<1>7. TypeOK' /\ BelowInv'
  BY DEF TypeOK, StacksOK
<1> QED  BY <1>5, <1>6, <1>7 DEF Done

\* Switching off keeps the subscriptions.
LEMMA SwitchedOff ==
  ASSUME TypeOK, FactoryInv, NEW S \in SUBSET Subscriptions,
         subscription' = Switched(S, FALSE)
  PROVE  /\ KeptSubscriptions /\ subscription' \in [Subscriptions -> Subscription]
         /\ \A s \in Subscriptions :
              /\ subscription'[s].state = subscription[s].state
              /\ subscription'[s].owner = subscription[s].owner
              /\ subscription'[s].active = subscription[s].active
              /\ subscription'[s].enabled => subscription[s].enabled /\ s \notin S
<1>1. /\ subscription' \in [Subscriptions -> Subscription]
      /\ \A s \in Subscriptions :
           /\ subscription'[s].state = subscription[s].state
           /\ subscription'[s].owner = subscription[s].owner
           /\ subscription'[s].active = subscription[s].active
           /\ subscription'[s].enabled = IF s \in S THEN FALSE ELSE subscription[s].enabled
  BY SwitchedFacts
<1>2. KeptSubscriptions
  BY <1>1 DEF FactoryInv, SubscriptionsInv, KeptSubscriptions, Live
<1> QED  BY <1>1, <1>2

\* Nobody asks what was never made.
LEMMA FreeUnasked ==
  ASSUME FactoryConstants, TypeOK, FactoryInv, NEW s \in Subscriptions,
         subscription[s].state = "free"
  PROVE  subscription[s].active = 0
<1>1. \A u \in Threads, e \in Depths : ~Asks(Cell(u, e), s)
  <2> SUFFICES ASSUME NEW u \in Threads, NEW e \in Depths, Asks(Cell(u, e), s)
               PROVE  FALSE
    OBVIOUS
  <2>1. CallOK(Cell(u, e))
    BY DEF FactoryInv, CallsInv
  <2> QED  BY <2>1, NoSubscription DEF CallOK, Asks
<1>2. {x \in Places : Asks(Cell(x[1], x[2]), s)} = {}
  BY <1>1 DEF Places
<1>3. subscription[s].active = Cardinality({x \in Places : Asks(Cell(x[1], x[2]), s)})
  BY DEF FactoryInv, CountsInv
<1> QED  BY <1>2, <1>3, FS_EmptySet

LEMMA SubscribeStep ==
  ASSUME FactoryConstants, TypeOK, FactoryInv, NEW t \in Threads, NEW p \in Plugins,
         NEW n \in Names, NEW lifetime \in BOOLEAN, Subscribe(t, p, n, lifetime)
  PROVE  Done(t)
<1>1. PICK s \in Subscriptions : /\ subscription[s].state = "free"
        /\ subscription' = [subscription EXCEPT ![s] =
             [state |-> "live", owner |-> p, name |-> n, lifetime |-> lifetime,
              enabled |-> host[p] = "running", active |-> 0]]
  BY DEF Subscribe
<1>2. /\ stopping = "no" /\ host[p] \in {"loading", "running"}
      /\ UNCHANGED <<host, pinned, queries, stopping, quiet, frames>>
  BY DEF Subscribe, Accepting
<1>3. PICK z : z = [state |-> "live", owner |-> p, name |-> n, lifetime |-> lifetime,
                    enabled |-> host[p] = "running", active |-> 0]
  OBVIOUS
<1>4. z \in Subscription /\ z.state = "live" /\ z.owner = p /\ z.active = 0
  BY <1>3 DEF Subscription
<1>5. /\ subscription' \in [Subscriptions -> Subscription] /\ subscription'[s] = z
      /\ \A r \in Subscriptions : r # s => subscription'[r] = subscription[r]
  BY <1>1, <1>3, <1>4 DEF TypeOK
<1>6. PICK d \in Nat : /\ d \notin Depths /\ Cell(t, d) = Nothing
                       /\ StacksOK' /\ Changes(t, d, Nothing)
  BY <1>2, NoPlace
<1>7. KeptSubscriptions
  BY <1>1, <1>4, <1>5 DEF KeptSubscriptions, FactoryInv, SubscriptionsInv, Live
<1>8. p \notin quiet
  BY <1>2 DEF FactoryInv, SilenceInv
<1>9. ASSUME NEW u \in Threads, NEW e \in Depths
      PROVE  /\ Cell(u, e)' = Cell(u, e)
             /\ Cell(u, e).call = "unsubscribe" => Cell(u, e).sub # s
             /\ Cell(u, e).call = "deactivate" => Cell(u, e).plugin # p
  <2>1. CallOK(Cell(u, e)) /\ Cell(u, e)' = Cell(u, e)
    BY <1>6 DEF FactoryInv, CallsInv, Changes
  <2> QED  BY <1>1, <1>2, <2>1 DEF CallOK
<1>10. EnabledWell
  BY <1>2, <1>4, <1>5, <1>8, <1>9 DEF EnabledWell
<1>11. Counts(Cell(t, d), Nothing)
  <2>1. queries \in Nat /\ \A r \in Subscriptions : subscription[r].active \in Nat
    BY DEF TypeOK, Subscription
  <2>2. \A r \in Subscriptions : subscription'[r].active = subscription[r].active
    BY <1>1, <1>4, <1>5, FreeUnasked
  <2> QED  BY <1>2, <1>6, <2>1, <2>2, NothingOK DEF Counts, Num
<1>12. KeptHost(t, d) /\ KeptQuiet
  BY <1>2 DEF KeptHost, KeptQuiet, FactoryInv, SilenceInv
<1>13. Regular(t, d, Nothing)
  BY <1>6, <1>7, <1>10, <1>11, <1>12 DEF Regular
<1>14. OnLayer(t, d, Nothing)
  <2>1. \A r \in Subscriptions : /\ subscription[r].enabled => subscription'[r].enabled
                                 /\ subscription'[r].enabled =>
                                      subscription[r].enabled \/ subscription'[r].owner = p
    BY <1>1, <1>4, <1>5 DEF FactoryInv, SubscriptionsInv, Live
  <2> QED  BY <1>2, <1>6, <1>8, <2>1, NothingOK DEF OnLayer
<1>15. TypeOK' /\ BelowInv'
  BY <1>2, <1>5, <1>6 DEF TypeOK, StacksOK
<1> QED  BY <1>13, <1>14, <1>15 DEF Done

LEMMA UnsubscribeStep ==
  ASSUME FactoryConstants, TypeOK, FactoryInv, NEW t \in Threads, NEW s \in Subscriptions,
         Unsubscribe(t, s)
  PROVE  Done(t)
<1>1. /\ Running(t) /\ Live(s) /\ ~InHand(subscription[s].owner)
      /\ subscription' = Switched({s}, FALSE)
      /\ UNCHANGED <<host, pinned, queries, stopping, quiet>>
  BY DEF Unsubscribe
<1>2. /\ KeptSubscriptions /\ subscription' \in [Subscriptions -> Subscription]
      /\ \A r \in Subscriptions :
           /\ subscription'[r].state = subscription[r].state
           /\ subscription'[r].owner = subscription[r].owner
           /\ subscription'[r].active = subscription[r].active
           /\ subscription'[r].enabled => subscription[r].enabled /\ r \notin {s}
  <2>1. {s} \in SUBSET Subscriptions
    OBVIOUS
  <2> QED  BY <1>1, <2>1, SwitchedOff
<1>3. CASE UNCHANGED frames
  <2>1. PICK d \in Nat : /\ d \notin Depths /\ Cell(t, d) = Nothing
                         /\ StacksOK' /\ Changes(t, d, Nothing)
    BY <1>3, NoPlace
  <2> QED  BY <1>1, <1>2, <2>1, NothingOK, ClosingStep
<1>4. CASE ~UNCHANGED frames
  <2>0. PICK c \in Frame : /\ c = Call("unsubscribe", "wait") /\ c.call = "unsubscribe"
                           /\ c.at = "wait" /\ c.todo = {}
    BY MadeCall
  <2>1. PICK g : g = [c EXCEPT !.sub = s]
    OBVIOUS
  <2>2. Push(t, g) /\ (Dispatching(t) => subscription[s].active = 0)
    BY <1>4, <2>0, <2>1 DEF Unsubscribe
  <2>3. g \in Frame /\ g.call = "unsubscribe" /\ g.at = "wait" /\ g.sub = s
    BY <2>0, <2>1 DEF Frame
  <2>4. PICK d \in Depths : d \in Nat /\ Cell(t, d) = Nothing /\ StacksOK' /\ Changes(t, d, g)
    BY <1>1, <2>2, <2>3, NewPlace
  <2>5. CallOK(g)'
    BY <1>1, <1>2, <2>3, NoSubscription DEF CallOK, Live
  <2>6. subscription[s].owner \in Plugins
    BY <1>1 DEF FactoryInv, SubscriptionsInv, Live
  <2>7. ASSUME NEW p \in Plugins, subscription'[g.sub].owner = p
        PROVE  \A u \in Threads, e \in Depths : ~Handles(Cell(u, e), p)
    <3>1. p = subscription[s].owner /\ ~InHand(p)
      BY <1>1, <1>2, <2>3, <2>7
    <3> QED  BY <3>1, GuardCells
  <2>8. ASSUME NEW u \in Threads, NEW e \in Depths, InCallback(Cell(u, e)),
               Cell(u, e).sub = s
        PROVE  \A c1 \in Depths : Cell(t, c1).call # "dispatch"
    <3>1. subscription[s].active > 0
      BY <2>8, CallbackSub
    <3>2. ~Dispatching(t)
      BY <2>2, <3>1
    <3> QED  BY <3>2, GuardCells
  <2>9. NewCall(t, g) /\ \A q \in Plugins : Handles(g, q) => Alone(q, t, d)
    BY <2>3, <2>5, <2>7, <2>8 DEF NewCall, Handles, InCallback
  <2>10. ~InCallback(g) /\ \A r : ~Asks(g, r)
    BY <2>3 DEF InCallback, Asks
  <2>11. /\ g.call = "query" <=> Cell(t, d).call = "query"
         /\ ~InCallback(Cell(t, d)) /\ \A r : ~Asks(Cell(t, d), r)
    BY <2>3, <2>4, NothingOK, NothingFacts
  <2>12. /\ KeptSubscriptions /\ subscription' \in [Subscriptions -> Subscription]
         /\ \A r \in Subscriptions : /\ subscription'[r].active = subscription[r].active
                                     /\ subscription'[r].enabled => subscription[r].enabled
         /\ UNCHANGED <<host, pinned, queries, stopping, quiet>>
    BY <1>1, <1>2
  <2> QED  BY <2>3, <2>4, <2>9, <2>10, <2>11, <2>12, ClosingStep
<1> QED  BY <1>3, <1>4

\* Erasing what is switched off and asks nobody.
LEMMA ErasedKept ==
  ASSUME TypeOK, FactoryInv, NEW S \in SUBSET Subscriptions, subscription' = Erased(S),
         \A s \in S : /\ subscription[s].active = 0 /\ ~subscription[s].enabled
                      /\ subscription[s].state # "free"
  PROVE  /\ KeptSubscriptions /\ subscription' \in [Subscriptions -> Subscription]
         /\ \A s \in Subscriptions :
              /\ subscription'[s].owner = subscription[s].owner
              /\ subscription'[s].active = subscription[s].active
              /\ subscription'[s].enabled = subscription[s].enabled
<1>1. /\ subscription' \in [Subscriptions -> Subscription]
      /\ \A s \in Subscriptions :
           /\ subscription'[s].state = IF s \in S THEN "erased" ELSE subscription[s].state
           /\ subscription'[s].owner = subscription[s].owner
           /\ subscription'[s].active = subscription[s].active
           /\ subscription'[s].enabled = subscription[s].enabled
  BY ErasedFacts
<1>2. KeptSubscriptions
  BY <1>1 DEF FactoryInv, SubscriptionsInv, KeptSubscriptions, Live
<1> QED  BY <1>1, <1>2

LEMMA UnsubscribedStep ==
  ASSUME FactoryConstants, TypeOK, FactoryInv, NEW t \in Threads, Unsubscribed(t)
  PROVE  Done(t)
<1>1. /\ frames[t] # <<>> /\ Top(t).call = "unsubscribe" /\ Top(t).at = "wait" /\ Pop(t)
      /\ UNCHANGED <<host, pinned, queries, stopping, quiet>>
  BY DEF Unsubscribed, At, Top
<1>2. PICK d \in Depths : /\ d \in Nat /\ d = Len(frames[t]) /\ Cell(t, d) = Top(t)
                          /\ Top(t) \in Frame /\ CallOK(Top(t))
  BY <1>1, TopPlace
<1>3. PICK s \in Subscriptions : /\ s = Top(t).sub /\ subscription[s].state # "free"
                                 /\ ~subscription[s].enabled
  BY <1>1, <1>2 DEF CallOK, Frame
<1>4. subscription' = Erased({s}) /\ subscription[s].active = 0
  BY <1>3 DEF Unsubscribed
<1>5. PICK S \in SUBSET Subscriptions : S = {s}
  OBVIOUS
<1>6. /\ KeptSubscriptions /\ subscription' \in [Subscriptions -> Subscription]
      /\ \A r \in Subscriptions : /\ subscription'[r].active = subscription[r].active
                                  /\ subscription'[r].enabled => subscription[r].enabled
  BY <1>3, <1>4, <1>5, ErasedKept
<1>7. StacksOK' /\ Changes(t, d, Nothing)
  BY <1>1, <1>2, PopChanges, BelowHolds
<1>8. NewCall(t, Nothing) /\ \A q \in Plugins : Handles(Nothing, q) => Alone(q, t, d)
  BY NothingOK, NothingFacts, FreeCall
<1>9. ~InCallback(Cell(t, d)) /\ \A r : ~Asks(Cell(t, d), r)
  BY <1>1, <1>2 DEF InCallback, Asks
<1> QED  BY <1>1, <1>2, <1>6, <1>7, <1>8, <1>9, NothingOK, NothingFacts, ClosingStep

LEMMA ReleaseStep ==
  ASSUME FactoryConstants, TypeOK, FactoryInv, NEW t \in Threads, NEW p \in Plugins,
         Release(t, p)
  PROVE  Done(t)
<1>1. /\ p \in quiet /\ \A s \in OwnedBy(p) : subscription[s].active = 0
      /\ subscription' = Erased(OwnedBy(p))
      /\ UNCHANGED <<host, pinned, queries, stopping, quiet, frames>>
  BY DEF Release
<1>2. /\ OwnedBy(p) \in SUBSET Subscriptions
      /\ \A s \in OwnedBy(p) : /\ ~subscription[s].enabled /\ subscription[s].state # "free"
  BY <1>1 DEF OwnedBy, FactoryInv, SilenceInv, Live
<1>3. /\ KeptSubscriptions /\ subscription' \in [Subscriptions -> Subscription]
      /\ \A r \in Subscriptions : /\ subscription'[r].active = subscription[r].active
                                  /\ subscription'[r].enabled => subscription[r].enabled
  BY <1>1, <1>2, ErasedKept
<1>4. PICK d \in Nat : /\ d \notin Depths /\ Cell(t, d) = Nothing
                       /\ StacksOK' /\ Changes(t, d, Nothing)
  BY <1>1, NoPlace
<1> QED  BY <1>1, <1>3, <1>4, NothingOK, ClosingStep

LEMMA AwaitStep ==
  ASSUME FactoryConstants, TypeOK, FactoryInv, NEW t \in Threads, Await(t)
  PROVE  Done(t)
<1>1. /\ frames[t] # <<>> /\ Top(t).at = "wait"
      /\ UNCHANGED <<host, subscription, pinned, queries, stopping, quiet>>
  BY DEF Await, Top
<1>2. PICK d \in Depths : /\ d \in Nat /\ d = Len(frames[t]) /\ Cell(t, d) = Top(t)
                          /\ Top(t) \in Frame /\ CallOK(Top(t))
  BY <1>1, TopPlace
<1>3. PICK s \in Top(t).todo :
        subscription[s].active = 0 /\ SetTop(t, [Top(t) EXCEPT !.todo = @ \ {s}])
  BY DEF Await
<1>4. PICK g : g = [Top(t) EXCEPT !.todo = @ \ {s}]
  OBVIOUS
<1>5. /\ g \in Frame /\ g.call = Top(t).call /\ g.at = "wait" /\ g.sub = Top(t).sub
      /\ g.plugin = Top(t).plugin /\ g.todo = Top(t).todo \ {s}
  BY <1>1, <1>2, <1>4 DEF Frame
<1>6. Top(t).call \notin {"query", "dispatch"}
  BY <1>1, <1>2 DEF CallOK
<1>7. CallOK(g)'
  <2>1. CallOK(g)
    BY <1>2, <1>1, <1>5, <1>6 DEF CallOK
  <2> QED  BY <1>1, <2>1 DEF CallOK, Live
<1>8. StacksOK' /\ Changes(t, d, g)
  BY <1>1, <1>2, <1>3, <1>4, <1>5, SetTopChanges, BelowHolds
<1>9. /\ ~InCallback(g) /\ ~InCallback(Cell(t, d))
      /\ \A r : ~Asks(g, r) /\ ~Asks(Cell(t, d), r)
  BY <1>1, <1>2, <1>5, <1>6 DEF InCallback, Asks
<1>10. \A p \in Plugins : /\ Handles(g, p) <=> Handles(Cell(t, d), p)
                          /\ GivesUp(g, p) <=> GivesUp(Cell(t, d), p)
  BY <1>2, <1>5 DEF Handles, GivesUp
<1>11. \A p \in Plugins : Handles(g, p) =>
         /\ Alone(p, t, d) /\ \A u \in Threads, e \in Depths : ~GivesUp(Cell(u, e), p)
  BY <1>10 DEF Alone, FactoryInv, HandsInv
<1>12. \A p \in Plugins : GivesUp(g, p) => \A u \in Threads, e \in Depths : ~Handles(Cell(u, e), p)
  BY <1>10 DEF FactoryInv, HandsInv
<1>13. ASSUME NEW u \in Threads, NEW e \in Depths, InCallback(Cell(u, e))
       PROVE  /\ g.call = "deactivate" /\ g.plugin = subscription[Cell(u, e).sub].owner =>
                    Cell(u, e).sub \in g.todo
              /\ g.call = "shutdown" => Cell(u, e).sub \in g.todo
              /\ g.call = "unsubscribe" /\ g.sub = Cell(u, e).sub =>
                    \A c \in Depths : Cell(t, c).call # "dispatch"
  <2>1. Cell(u, e).sub # s
    BY <1>3, <1>13, CallbackSub
  <2>2. /\ Top(t).call = "deactivate" /\ Top(t).plugin = subscription[Cell(u, e).sub].owner =>
             Cell(u, e).sub \in Top(t).todo
        /\ Top(t).call = "shutdown" => Cell(u, e).sub \in Top(t).todo
        /\ Top(t).call = "unsubscribe" /\ Top(t).sub = Cell(u, e).sub =>
             \A c \in Depths : Cell(t, c).call # "dispatch"
    BY <1>2, <1>13 DEF FactoryInv, WaitsInv
  <2> QED  BY <1>5, <2>1, <2>2
<1>14. NewCall(t, g)
  BY <1>1, <1>7, <1>9, <1>11, <1>12, <1>13 DEF NewCall, GivesUp
<1> QED  BY <1>1, <1>2, <1>5, <1>6, <1>8, <1>9, <1>11, <1>14, CallStep

LEMMA QueriesOverStep ==
  ASSUME FactoryConstants, TypeOK, FactoryInv, NEW t \in Threads, QueriesOver(t)
  PROVE  Done(t)
<1>1. /\ frames[t] # <<>> /\ Top(t).call = "shutdown"
      /\ UNCHANGED <<host, subscription, pinned, queries, stopping, quiet>>
  BY DEF QueriesOver, At, Top
<1>2. PICK d \in Depths : /\ d \in Nat /\ d = Len(frames[t]) /\ Cell(t, d) = Top(t)
                          /\ Top(t) \in Frame /\ CallOK(Top(t))
  BY <1>1, TopPlace
<1>3. PICK g : g = [Top(t) EXCEPT !.at = "wait"] /\ SetTop(t, g)
  BY DEF QueriesOver
<1>4. g \in Frame /\ g.call = "shutdown" /\ g.at = "wait" /\ g.todo = Top(t).todo
  BY <1>1, <1>2, <1>3 DEF Frame
<1>5. StacksOK' /\ Changes(t, d, g)
  BY <1>1, <1>2, <1>3, <1>4, SetTopChanges, BelowHolds
<1>6. CallOK(g)'
  BY <1>1, <1>2, <1>4 DEF CallOK
<1>7. /\ ~InCallback(g) /\ ~InCallback(Cell(t, d))
      /\ \A r : ~Asks(g, r) /\ ~Asks(Cell(t, d), r)
      /\ \A p : ~Handles(g, p)
  BY <1>1, <1>2, <1>4 DEF InCallback, Asks, Handles
<1>8. \A u \in Threads, e \in Depths : InCallback(Cell(u, e)) => Cell(u, e).sub \in g.todo
  BY <1>1, <1>2, <1>4 DEF FactoryInv, WaitsInv
<1>9. NewCall(t, g)
  BY <1>4, <1>6, <1>7, <1>8 DEF NewCall
<1> QED  BY <1>1, <1>2, <1>4, <1>5, <1>7, <1>9, CallStep

LEMMA StartStep ==
  ASSUME FactoryConstants, TypeOK, FactoryInv, NEW t \in Threads, NEW p \in Plugins,
         Start(t, p)
  PROVE  Done(t)
<1>1. /\ Running(t) /\ ~InHand(p) /\ ~Unsubscribing(p)
      /\ host' = [host EXCEPT ![p] = "running"] /\ quiet' = quiet \ {p}
      /\ UNCHANGED <<subscription, pinned, queries, stopping>>
  BY DEF Start
<1>0. PICK c \in Frame : /\ c = Call("activate", "wait") /\ c.call = "activate"
                         /\ c.at = "wait"
  BY MadeCall
<1>2. PICK g : g = [c EXCEPT !.plugin = p] /\ Push(t, g)
  BY <1>0 DEF Start
<1>3. g \in Frame /\ g.call = "activate" /\ g.at = "wait" /\ g.plugin = p
  BY <1>0, <1>2 DEF Frame
<1>4. PICK d \in Depths : d \in Nat /\ Cell(t, d) = Nothing /\ StacksOK' /\ Changes(t, d, g)
  BY <1>1, <1>2, <1>3, NewPlace
<1>5. /\ host' \in [Plugins -> {"loading", "running", "stopping", "stopped"}]
      /\ host'[p] = "running" /\ \A q \in Plugins : q # p => host'[q] = host[q]
  BY <1>1 DEF TypeOK
<1>6. \A u \in Threads, e \in Depths : ~Handles(Cell(u, e), p) /\ ~GivesUp(Cell(u, e), p)
  BY <1>1, GuardCells
<1>7. KeptSubscriptions /\ EnabledWell
  BY <1>1, SteadyStep
<1>8. KeptHost(t, d)
  <2>1. stopping # "no" => \A s \in Subscriptions : ~subscription'[s].enabled
    BY <1>1 DEF FactoryInv, SilenceInv
  <2> QED  BY <1>1, <1>5, <1>6, <2>1 DEF KeptHost, Alone
<1>9. KeptQuiet
  <2>1. \A q \in quiet : q \in Plugins
    BY DEF TypeOK
  <2> QED  BY <1>1, <1>5, <2>1 DEF KeptQuiet, FactoryInv, SilenceInv
<1>10. CallOK(g)'
  BY <1>3, <1>5 DEF CallOK
<1>11. NewCall(t, g) /\ \A q \in Plugins : Handles(g, q) => Alone(q, t, d)
  <2>1. \A q : Handles(g, q) => q = p
    BY <1>3 DEF Handles
  <2> QED  BY <1>3, <1>6, <1>10, <2>1 DEF NewCall, InCallback, Alone
<1>12. ~InCallback(g) /\ \A r : ~Asks(g, r)
  BY <1>3 DEF InCallback, Asks
<1>13. Counts(Cell(t, d), g)
  BY <1>1, <1>3, <1>4, <1>12, NothingOK, NothingFacts, SameCounts
<1>14. Regular(t, d, g)
  BY <1>3, <1>4, <1>7, <1>8, <1>9, <1>11, <1>13 DEF Regular
<1>15. OnLayer(t, d, g)
  BY <1>1, <1>4, <1>12, NothingOK DEF OnLayer
<1>16. TypeOK' /\ BelowInv'
  BY <1>1, <1>4, <1>5 DEF TypeOK, StacksOK
<1> QED  BY <1>3, <1>4, <1>14, <1>15, <1>16 DEF Done

LEMMA ActivateStep ==
  ASSUME FactoryConstants, TypeOK, FactoryInv, NEW t \in Threads, Activate(t)
  PROVE  Done(t)
<1>1. /\ frames[t] # <<>> /\ Top(t).call = "activate" /\ Pop(t)
      /\ UNCHANGED <<host, pinned, queries, stopping, quiet>>
  BY DEF Activate, At, Top
<1>2. PICK d \in Depths : /\ d \in Nat /\ d = Len(frames[t]) /\ Cell(t, d) = Top(t)
                          /\ Top(t) \in Frame /\ CallOK(Top(t))
  BY <1>1, TopPlace
<1>3. StacksOK' /\ Changes(t, d, Nothing)
  BY <1>1, <1>2, PopChanges, BelowHolds
<1>4. ~InCallback(Cell(t, d)) /\ \A r : ~Asks(Cell(t, d), r)
  BY <1>1, <1>2 DEF InCallback, Asks
<1>5. NewCall(t, Nothing) /\ \A q \in Plugins : Handles(Nothing, q) => Alone(q, t, d)
  BY NothingOK, NothingFacts, FreeCall
<1>6. CASE stopping # "no"
  <2>1. UNCHANGED subscription
    BY <1>6 DEF Activate
  <2> QED  BY <1>1, <1>2, <1>3, <1>4, <1>5, <2>1, NothingOK, NothingFacts, CallStep
<1>7. CASE stopping = "no"
  <2>1. PICK p \in Plugins : p = Top(t).plugin /\ host[p] = "running"
    BY <1>1, <1>2, <1>7 DEF CallOK
  <2>2. p \notin quiet
    BY <2>1 DEF FactoryInv, SilenceInv
  <2>3. subscription' = Switched(OwnedBy(p), TRUE) /\ OwnedBy(p) \in SUBSET Subscriptions
    BY <1>7, <2>1 DEF Activate, OwnedBy
  <2>4. /\ subscription' \in [Subscriptions -> Subscription]
        /\ \A s \in Subscriptions :
             /\ subscription'[s].state = subscription[s].state
             /\ subscription'[s].owner = subscription[s].owner
             /\ subscription'[s].active = subscription[s].active
             /\ subscription'[s].enabled = IF s \in OwnedBy(p) THEN TRUE
                                           ELSE subscription[s].enabled
    BY <2>3, SwitchedFacts
  <2>5. KeptSubscriptions
    BY <2>4 DEF FactoryInv, SubscriptionsInv, KeptSubscriptions, Live, OwnedBy
  <2>6. Handles(Cell(t, d), p)
    BY <1>1, <1>2, <2>1 DEF Handles
  <2>7. ASSUME NEW u \in Threads, NEW e \in Depths
        PROVE  /\ ~GivesUp(Cell(u, e), p)
               /\ Cell(u, e)'.call = "unsubscribe" => Cell(u, e)' = Cell(u, e)
               /\ Cell(u, e)'.call = "deactivate" => Cell(u, e)'.plugin # p
    <3>1. ~GivesUp(Cell(u, e), p) /\ (Handles(Cell(u, e), p) => u = t /\ e = d)
      BY <2>6 DEF FactoryInv, HandsInv
    <3>2. Cell(u, e)' = IF u = t /\ e = d THEN Nothing ELSE Cell(u, e)
      BY <1>3 DEF Changes
    <3> QED  BY <3>1, <3>2, NothingFacts DEF Handles
  <2>8. EnabledWell
    <3> SUFFICES ASSUME NEW s \in Subscriptions, subscription'[s].enabled,
                        ~subscription[s].enabled
                 PROVE  /\ stopping' = "no" /\ subscription'[s].owner \notin quiet'
                        /\ \A u \in Threads, e \in Depths :
                             /\ Cell(u, e)'.call = "unsubscribe" => Cell(u, e)'.sub # s
                             /\ Cell(u, e)'.call = "deactivate" =>
                                  Cell(u, e)'.plugin # subscription'[s].owner
      BY DEF EnabledWell
    <3>1. subscription[s].owner = p /\ subscription'[s].owner = p
      BY <2>4 DEF OwnedBy
    <3> QED  BY <1>1, <1>7, <2>2, <2>7, <3>1 DEF GivesUp
  <2>9. Counts(Cell(t, d), Nothing)
    <3>1. queries \in Nat /\ \A s \in Subscriptions : subscription[s].active \in Nat
      BY DEF TypeOK, Subscription
    <3>2. Nothing.call # "query" /\ Cell(t, d).call # "query" /\ queries' = queries
      BY <1>1, <1>2, NothingFacts
    <3>3. \A r : ~Asks(Nothing, r) /\ ~Asks(Cell(t, d), r)
      BY <1>4, NothingOK
    <3>4. \A r \in Subscriptions : subscription'[r].active = subscription[r].active
      BY <2>4
    <3> QED  BY <3>1, <3>2, <3>3, <3>4 DEF Counts, Num
  <2>10. KeptHost(t, d) /\ KeptQuiet
    BY <1>1, <1>7 DEF KeptHost, KeptQuiet, FactoryInv, SilenceInv
  <2>11. Regular(t, d, Nothing)
    BY <1>3, <1>5, <2>5, <2>8, <2>9, <2>10 DEF Regular
  <2>12. OnLayer(t, d, Nothing)
    <3>1. \A s \in Subscriptions : /\ subscription[s].enabled => subscription'[s].enabled
                                   /\ subscription'[s].enabled =>
                                        subscription[s].enabled \/ subscription'[s].owner = p
      BY <2>4 DEF OwnedBy
    <3> QED  BY <1>1, <1>4, <2>2, <3>1, NothingOK DEF OnLayer
  <2>13. TypeOK' /\ BelowInv'
    BY <1>1, <1>3, <2>4 DEF TypeOK, StacksOK
  <2> QED  BY <1>2, <2>11, <2>12, <2>13 DEF Done
<1> QED  BY <1>6, <1>7

LEMMA DeactivateStep ==
  ASSUME FactoryConstants, TypeOK, FactoryInv, NEW t \in Threads, NEW p \in Plugins,
         Deactivate(t, p)
  PROVE  Done(t)
<1>1. /\ Running(t) /\ ~InHand(p) /\ ~Unsubscribing(p) /\ host[p] # "stopped"
      /\ stopping = "no" /\ host' = [host EXCEPT ![p] = "stopping"]
      /\ subscription' = Switched(OwnedBy(p), FALSE)
      /\ UNCHANGED <<pinned, queries, stopping, quiet>>
  BY DEF Deactivate
<1>2. PICK c \in Frame : /\ c = Call("deactivate", "wait") /\ c.call = "deactivate"
                         /\ c.at = "wait" /\ c.sub = None
  BY MadeCall
<1>3. PICK g : g = [c EXCEPT !.plugin = p, !.todo = OwnedBy(p)]
  OBVIOUS
<1>4. OwnedBy(p) \in SUBSET Subscriptions
  BY DEF OwnedBy
<1>5. /\ g \in Frame /\ g.call = "deactivate" /\ g.at = "wait" /\ g.plugin = p
      /\ g.todo = OwnedBy(p)
  BY <1>2, <1>3, <1>4 DEF Frame
<1>6. Push(t, g)
  BY <1>2, <1>3 DEF Deactivate
<1>7. PICK d \in Depths : d \in Nat /\ Cell(t, d) = Nothing /\ StacksOK' /\ Changes(t, d, g)
  BY <1>1, <1>5, <1>6, NewPlace
<1>8. /\ host' \in [Plugins -> {"loading", "running", "stopping", "stopped"}]
      /\ host'[p] = "stopping" /\ \A q \in Plugins : q # p => host'[q] = host[q]
  BY <1>1 DEF TypeOK
<1>9. \A u \in Threads, e \in Depths : ~Handles(Cell(u, e), p) /\ ~GivesUp(Cell(u, e), p)
  BY <1>1, GuardCells
<1>10. /\ KeptSubscriptions /\ subscription' \in [Subscriptions -> Subscription]
       /\ \A r \in Subscriptions :
            /\ subscription'[r].owner = subscription[r].owner
            /\ subscription'[r].active = subscription[r].active
            /\ subscription'[r].enabled => subscription[r].enabled /\ r \notin OwnedBy(p)
  BY <1>1, <1>4, SwitchedOff
<1>11. EnabledWell
  BY <1>10 DEF EnabledWell
<1>12. KeptHost(t, d)
  BY <1>1, <1>8, <1>9 DEF KeptHost, Alone
<1>13. KeptQuiet
  <2>1. \A q \in quiet : q \in Plugins /\ host[q] = "stopped" /\ q \notin pinned
    BY DEF TypeOK, FactoryInv, SilenceInv
  <2> QED  BY <1>1, <1>8, <2>1 DEF KeptQuiet
<1>14. CallOK(g)'
  <2>1. \A s \in Subscriptions : subscription'[s].owner = p => ~subscription'[s].enabled
    BY <1>10 DEF OwnedBy, FactoryInv, SubscriptionsInv
  <2> QED  BY <1>1, <1>5, <1>8, <2>1 DEF CallOK
<1>15. NewCall(t, g) /\ \A q \in Plugins : Handles(g, q) => Alone(q, t, d)
  <2>1. \A q : Handles(g, q) => q = p
    BY <1>5 DEF Handles
  <2>2. ASSUME NEW u \in Threads, NEW e \in Depths, InCallback(Cell(u, e)),
               g.plugin = subscription[Cell(u, e).sub].owner
        PROVE  Cell(u, e).sub \in g.todo
    BY <1>5, <2>2, CallbackSub DEF OwnedBy
  <2> QED  BY <1>5, <1>9, <1>14, <2>1, <2>2 DEF NewCall, InCallback, Alone
<1>16. ~InCallback(g) /\ \A r : ~Asks(g, r)
  BY <1>5 DEF InCallback, Asks
<1>17. Counts(Cell(t, d), g)
  <2>1. queries \in Nat /\ \A s \in Subscriptions : subscription[s].active \in Nat
    BY DEF TypeOK, Subscription
  <2>2. g.call # "query" /\ Cell(t, d).call # "query" /\ queries' = queries
    BY <1>1, <1>5, <1>7, NothingFacts
  <2>3. \A r : ~Asks(g, r) /\ ~Asks(Cell(t, d), r)
    BY <1>7, <1>16, NothingOK
  <2>4. \A r \in Subscriptions : subscription'[r].active = subscription[r].active
    BY <1>10
  <2> QED  BY <2>1, <2>2, <2>3, <2>4 DEF Counts, Num
<1>18. Regular(t, d, g)
  BY <1>5, <1>7, <1>10, <1>11, <1>12, <1>13, <1>15, <1>17 DEF Regular
<1>19. OnLayer(t, d, g)
  BY <1>1, <1>7, <1>10, <1>16, NothingOK DEF OnLayer
<1>20. TypeOK' /\ BelowInv'
  BY <1>1, <1>7, <1>8, <1>10 DEF TypeOK, StacksOK
<1> QED  BY <1>5, <1>7, <1>18, <1>19, <1>20 DEF Done

LEMMA DeactivatedStep ==
  ASSUME FactoryConstants, TypeOK, FactoryInv, NEW t \in Threads, Deactivated(t)
  PROVE  Done(t)
<1>1. /\ frames[t] # <<>> /\ Top(t).call = "deactivate" /\ Top(t).todo = {}
      /\ UNCHANGED <<subscription, pinned, queries, stopping>>
  BY DEF Deactivated, At, Top
<1>2. PICK d \in Depths : /\ d \in Nat /\ d = Len(frames[t]) /\ Cell(t, d) = Top(t)
                          /\ Top(t) \in Frame /\ CallOK(Top(t))
  BY <1>1, TopPlace
<1>3. PICK p \in Plugins : p = Top(t).plugin
  BY <1>1, <1>2 DEF CallOK
<1>4. /\ stopping = "no" /\ host[p] = "stopping"
      /\ \A s \in Subscriptions : subscription[s].owner = p => ~subscription[s].enabled
  BY <1>1, <1>2, <1>3 DEF CallOK
<1>5. p \notin quiet
  BY <1>4 DEF FactoryInv, SilenceInv
<1>6. Alone(p, t, d) /\ \A u \in Threads, e \in Depths : ~GivesUp(Cell(u, e), p)
  <2>1. Handles(Cell(t, d), p)
    BY <1>1, <1>2, <1>3 DEF Handles
  <2> QED  BY <2>1 DEF FactoryInv, HandsInv, Alone
<1>7. ~InCallback(Cell(t, d)) /\ \A r : ~Asks(Cell(t, d), r)
  BY <1>1, <1>2 DEF InCallback, Asks
<1>8. \A u \in Threads, e \in Depths :
        InCallback(Cell(u, e)) => subscription[Cell(u, e).sub].owner # p
  BY <1>1, <1>2, <1>3 DEF FactoryInv, WaitsInv
<1>9. /\ KeptSubscriptions /\ EnabledWell
      /\ subscription' \in [Subscriptions -> Subscription]
  BY <1>1, SteadyStep DEF TypeOK
<1>10. \A q \in quiet : q \in Plugins /\ host[q] = "stopped" /\ q \notin pinned
  BY DEF TypeOK, FactoryInv, SilenceInv
<1>11. CASE p \in pinned
  <2>1. PICK c \in Frame : /\ c = Call("activate", "wait") /\ c.call = "activate"
                           /\ c.at = "wait"
    BY MadeCall
  <2>2. PICK g : g = [c EXCEPT !.plugin = p]
    OBVIOUS
  <2>3. g \in Frame /\ g.call = "activate" /\ g.at = "wait" /\ g.plugin = p
    BY <2>1, <2>2 DEF Frame
  <2>4. SetTop(t, g) /\ host' = [host EXCEPT ![p] = "running"] /\ quiet' = quiet
    BY <1>3, <1>11, <2>1, <2>2 DEF Deactivated
  <2>5. StacksOK' /\ Changes(t, d, g)
    BY <1>1, <1>2, <2>3, <2>4, SetTopChanges, BelowHolds
  <2>6. /\ host' \in [Plugins -> {"loading", "running", "stopping", "stopped"}]
        /\ host'[p] = "running" /\ \A q \in Plugins : q # p => host'[q] = host[q]
    BY <2>4 DEF TypeOK
  <2>7. KeptHost(t, d) /\ KeptQuiet
    BY <1>1, <1>4, <1>5, <1>6, <1>10, <2>4, <2>6 DEF KeptHost, KeptQuiet
  <2>8. CallOK(g)'
    BY <2>3, <2>6 DEF CallOK
  <2>9. NewCall(t, g) /\ \A q \in Plugins : Handles(g, q) => Alone(q, t, d)
    <3>1. \A q : Handles(g, q) => q = p
      BY <2>3 DEF Handles
    <3> QED  BY <1>6, <2>3, <2>8, <3>1 DEF NewCall, InCallback
  <2>10. ~InCallback(g) /\ \A r : ~Asks(g, r)
    BY <2>3 DEF InCallback, Asks
  <2>11. Counts(Cell(t, d), g)
    BY <1>1, <1>2, <1>7, <2>3, <2>10, SameCounts
  <2>12. Regular(t, d, g)
    BY <1>9, <2>3, <2>5, <2>7, <2>9, <2>11 DEF Regular
  <2>13. OnLayer(t, d, g)
    BY <1>1, <1>7, <2>4, <2>10 DEF OnLayer
  <2>14. TypeOK' /\ BelowInv'
    BY <1>1, <1>9, <2>4, <2>5, <2>6 DEF TypeOK, StacksOK
  <2> QED  BY <1>2, <2>3, <2>12, <2>13, <2>14 DEF Done
<1>12. CASE p \notin pinned
  <2>1. Pop(t) /\ host' = [host EXCEPT ![p] = "stopped"] /\ quiet' = quiet \cup {p}
    BY <1>3, <1>12 DEF Deactivated
  <2>2. StacksOK' /\ Changes(t, d, Nothing)
    BY <1>1, <1>2, <2>1, PopChanges, BelowHolds
  <2>3. /\ host' \in [Plugins -> {"loading", "running", "stopping", "stopped"}]
        /\ host'[p] = "stopped" /\ \A q \in Plugins : q # p => host'[q] = host[q]
    BY <2>1 DEF TypeOK
  <2>4. KeptHost(t, d)
    BY <1>1, <1>4, <1>6, <2>3 DEF KeptHost
  <2>5. ASSUME NEW u \in Threads, NEW e \in Depths, InCallback(Cell(u, e)')
        PROVE  subscription'[Cell(u, e)'.sub].owner # p
    <3>1. Cell(u, e)' = Cell(u, e)
      BY <2>2, <2>5, NothingOK DEF Changes
    <3> QED  BY <1>1, <1>8, <2>5, <3>1
  <2>6. KeptQuiet
    <3>1. ASSUME NEW q \in quiet'
          PROVE  q = p \/ (q \in quiet /\ q \in Plugins /\ q # p)
      BY <1>5, <1>10, <2>1
    <3> QED  BY <1>1, <1>4, <1>10, <1>12, <2>3, <2>5, <3>1 DEF KeptQuiet
  <2>7. NewCall(t, Nothing) /\ \A q \in Plugins : Handles(Nothing, q) => Alone(q, t, d)
    BY NothingOK, NothingFacts, FreeCall
  <2>8. Counts(Cell(t, d), Nothing)
    BY <1>1, <1>2, <1>7, NothingOK, NothingFacts, SameCounts
  <2>9. Regular(t, d, Nothing)
    BY <1>9, <2>2, <2>4, <2>6, <2>7, <2>8 DEF Regular
  <2>10. OnLayer(t, d, Nothing)
    BY <1>1, <1>7, <2>1, NothingOK DEF OnLayer
  <2>11. TypeOK' /\ BelowInv'
    BY <1>1, <1>9, <2>1, <2>2, <2>3 DEF TypeOK, StacksOK
  <2> QED  BY <1>2, <2>9, <2>10, <2>11 DEF Done
<1> QED  BY <1>11, <1>12

LEMMA ShutdownStep ==
  ASSUME FactoryConstants, TypeOK, FactoryInv, NEW t \in Threads, Shutdown(t)
  PROVE  Done(t)
<1> DEFINE All == {s \in Subscriptions : Live(s)}
<1>1. /\ Running(t) /\ stopping # "stopped" /\ stopping' = "stopping"
      /\ \A f \in AllFrames : f.call \notin {"activate", "deactivate", "shutdown"}
      /\ subscription' = Switched(All, FALSE)
      /\ UNCHANGED <<host, pinned, queries, quiet>>
  BY DEF Shutdown
<1>2. All \in SUBSET Subscriptions
  OBVIOUS
<1>3. \A u \in Threads, e \in Depths :
        Cell(u, e).call \notin {"activate", "deactivate", "shutdown"}
  BY <1>1, GuardCells
<1> HIDE DEF All
<1>4. /\ KeptSubscriptions /\ subscription' \in [Subscriptions -> Subscription]
      /\ \A r \in Subscriptions :
           /\ subscription'[r].owner = subscription[r].owner
           /\ subscription'[r].active = subscription[r].active
           /\ subscription'[r].enabled => subscription[r].enabled /\ r \notin All
  BY <1>1, <1>2, SwitchedOff
<1>5. \A r \in Subscriptions : ~subscription'[r].enabled
  BY <1>4 DEF All, FactoryInv, SubscriptionsInv
<1>6. KeptHost(t, MaxDepth) /\ \A d : KeptHost(t, d)
  BY <1>1, <1>3, <1>5 DEF KeptHost
<1>7. EnabledWell /\ KeptQuiet
  BY <1>1, <1>5 DEF EnabledWell, KeptQuiet, FactoryInv, SilenceInv
<1>8. queries \in Nat /\ \A s \in Subscriptions : subscription[s].active \in Nat
  BY DEF TypeOK, Subscription
<1>9. ASSUME NEW d \in Nat, NEW g \in Frame \cup {Nothing}, StacksOK', Changes(t, d, g),
             Cell(t, d) = Nothing, g.call # "query", ~InCallback(g), \A r : ~Asks(g, r),
             d \in Depths => NewCall(t, g) /\ \A q \in Plugins : Handles(g, q) => Alone(q, t, d)
      PROVE  Done(t)
  <2>1. Counts(Cell(t, d), g)
    <3>1. Cell(t, d).call # "query" /\ queries' = queries
      BY <1>1, <1>9, NothingFacts
    <3>2. \A r : ~Asks(g, r) /\ ~Asks(Cell(t, d), r)
      BY <1>9, NothingOK
    <3>3. \A r \in Subscriptions : subscription'[r].active = subscription[r].active
      BY <1>4
    <3> QED  BY <1>8, <1>9, <3>1, <3>2, <3>3 DEF Counts, Num
  <2>2. Regular(t, d, g)
    BY <1>4, <1>6, <1>7, <1>9, <2>1 DEF Regular
  <2>3. OnLayer(t, d, g)
    BY <1>1, <1>4, <1>9, NothingOK DEF OnLayer
  <2>4. TypeOK' /\ BelowInv'
    BY <1>1, <1>4, <1>9 DEF TypeOK, StacksOK
  <2> QED  BY <1>9, <2>2, <2>3, <2>4 DEF Done
<1>10. CASE UNCHANGED frames
  <2>1. PICK d \in Nat : /\ d \notin Depths /\ Cell(t, d) = Nothing
                         /\ StacksOK' /\ Changes(t, d, Nothing)
    BY <1>10, NoPlace
  <2>2. Nothing.call # "query"
    BY NothingFacts
  <2> QED  BY <1>9, <2>1, <2>2, NothingOK
<1>11. CASE ~UNCHANGED frames
  <2>1. PICK c \in Frame : /\ c = Call("shutdown", "queries") /\ c.call = "shutdown"
                           /\ c.at = "queries"
    BY MadeCall
  <2>2. PICK g : g = [c EXCEPT !.todo = All]
    OBVIOUS
  <2>3. g \in Frame /\ g.call = "shutdown" /\ g.at = "queries" /\ g.todo = All
    BY <1>2, <2>1, <2>2 DEF Frame
  <2>4. Push(t, g)
    BY <1>11, <2>1, <2>2 DEF Shutdown, All
  <2>5. PICK d \in Depths : d \in Nat /\ Cell(t, d) = Nothing /\ StacksOK' /\ Changes(t, d, g)
    BY <1>1, <2>3, <2>4, NewPlace
  <2>6. CallOK(g)'
    BY <1>1, <2>3 DEF CallOK
  <2>7. ASSUME NEW u \in Threads, NEW e \in Depths, InCallback(Cell(u, e))
        PROVE  Cell(u, e).sub \in g.todo
    BY <2>3, <2>7, CallbackSub DEF All
  <2>8. NewCall(t, g) /\ \A q \in Plugins : Handles(g, q) => Alone(q, t, d)
    BY <2>3, <2>6, <2>7 DEF NewCall, InCallback, Handles
  <2>9. ~InCallback(g) /\ \A r : ~Asks(g, r)
    BY <2>3 DEF InCallback, Asks
  <2> QED  BY <1>9, <2>3, <2>5, <2>8, <2>9
<1> QED  BY <1>10, <1>11

LEMMA ShutdownDoneStep ==
  ASSUME FactoryConstants, TypeOK, FactoryInv, NEW t \in Threads, ShutdownDone(t)
  PROVE  Done(t)
<1>1. /\ frames[t] # <<>> /\ Top(t).call = "shutdown" /\ Top(t).todo = {} /\ Pop(t)
      /\ UNCHANGED <<subscription, pinned, queries>>
  BY DEF ShutdownDone, At, Top
<1>2. PICK d \in Depths : /\ d \in Nat /\ d = Len(frames[t]) /\ Cell(t, d) = Top(t)
                          /\ Top(t) \in Frame /\ CallOK(Top(t))
  BY <1>1, TopPlace
<1>3. StacksOK' /\ Changes(t, d, Nothing)
  BY <1>1, <1>2, PopChanges, BelowHolds
<1>4. ~InCallback(Cell(t, d)) /\ \A r : ~Asks(Cell(t, d), r)
  BY <1>1, <1>2 DEF InCallback, Asks
<1>5. NewCall(t, Nothing) /\ \A q \in Plugins : Handles(Nothing, q) => Alone(q, t, d)
  BY NothingOK, NothingFacts, FreeCall
<1>6. CASE pinned # {}
  <2>1. UNCHANGED <<host, stopping, quiet>>
    BY <1>6 DEF ShutdownDone
  <2> QED  BY <1>1, <1>2, <1>3, <1>4, <1>5, <2>1, NothingOK, NothingFacts, CallStep
<1>7. CASE pinned = {}
  <2>1. stopping' = "stopped" /\ quiet' = Plugins /\ host' = [p \in Plugins |-> "stopped"]
    BY <1>7 DEF ShutdownDone
  <2>2. stopping # "no" /\ \A s \in Subscriptions : ~subscription[s].enabled
    BY <1>1, <1>2 DEF CallOK, FactoryInv, SilenceInv
  <2>3. \A u \in Threads, e \in Depths : ~InCallback(Cell(u, e))
    BY <1>1, <1>2 DEF FactoryInv, WaitsInv
  <2>4. \A u \in Threads, e \in Depths : ~InCallback(Cell(u, e)')
    BY <1>3, <2>3, NothingOK DEF Changes
  <2>5. /\ KeptSubscriptions /\ EnabledWell
        /\ subscription' \in [Subscriptions -> Subscription]
    BY <1>1, SteadyStep DEF TypeOK
  <2>6. KeptHost(t, d)
    BY <1>1, <1>7, <2>1, <2>2, <2>4 DEF KeptHost
  <2>7. KeptQuiet
    BY <1>1, <1>7, <2>1, <2>2, <2>4 DEF KeptQuiet
  <2>8. Counts(Cell(t, d), Nothing)
    BY <1>1, <1>2, <1>4, NothingOK, NothingFacts, SameCounts
  <2>9. Regular(t, d, Nothing)
    BY <1>3, <1>5, <2>5, <2>6, <2>7, <2>8 DEF Regular
  <2>10. OnLayer(t, d, Nothing)
    BY <1>1, <1>4, <2>1, NothingOK DEF OnLayer, TypeOK
  <2>11. TypeOK' /\ BelowInv'
    BY <1>1, <1>3, <2>1, <2>5 DEF TypeOK, StacksOK
  <2> QED  BY <1>2, <2>9, <2>10, <2>11 DEF Done
<1> QED  BY <1>6, <1>7

-----------------------------------------------------------------------------
(* Every step, and the invariant.                                          *)

LEMMA AnyStep ==
  ASSUME FactoryConstants, TypeOK, FactoryInv, Next
  PROVE  \E t \in Threads : Done(t)
<1>1. PICK t \in Threads :
        \/ \E p \in Plugins :
             \/ \E n \in Names, b \in BOOLEAN : Subscribe(t, p, n, b) \/ Query(t, p, n, b)
             \/ Start(t, p) \/ Deactivate(t, p) \/ Release(t, p)
        \/ \E s \in Subscriptions : Unsubscribe(t, s)
        \/ \E n \in Names : Dispatch(t, n)
        \/ \E replace, instance \in BOOLEAN : Answer(t, replace, instance)
        \/ Unsubscribed(t) \/ QueryReturns(t) \/ OriginalAnswered(t) \/ Pick(t) \/ Check(t)
        \/ DispatchReturns(t) \/ Activate(t) \/ Await(t) \/ Deactivated(t)
        \/ Shutdown(t) \/ QueriesOver(t) \/ ShutdownDone(t)
  BY DEF Next
<1>2. CASE \E p \in Plugins :
             \/ \E n \in Names, b \in BOOLEAN : Subscribe(t, p, n, b) \/ Query(t, p, n, b)
             \/ Start(t, p) \/ Deactivate(t, p) \/ Release(t, p)
  BY <1>2, SubscribeStep, QueryStep, StartStep, DeactivateStep, ReleaseStep
<1>3. CASE \/ \E s \in Subscriptions : Unsubscribe(t, s)
           \/ \E n \in Names : Dispatch(t, n)
           \/ \E replace, instance \in BOOLEAN : Answer(t, replace, instance)
  BY <1>3, UnsubscribeStep, DispatchStep, AnswerStep
<1>4. CASE Unsubscribed(t) \/ QueryReturns(t) \/ OriginalAnswered(t) \/ Pick(t) \/ Check(t)
  BY <1>4, UnsubscribedStep, QueryReturnsStep, OriginalAnsweredStep, PickStep, CheckStep
<1>5. CASE DispatchReturns(t) \/ Activate(t) \/ Await(t) \/ Deactivated(t)
  BY <1>5, DispatchReturnsStep, ActivateStep, AwaitStep, DeactivatedStep
<1>6. CASE Shutdown(t) \/ QueriesOver(t) \/ ShutdownDone(t)
  BY <1>6, ShutdownStep, QueriesOverStep, ShutdownDoneStep
<1> QED  BY <1>1, <1>2, <1>3, <1>4, <1>5, <1>6

\* Nothing changes between two steps.
LEMMA Stutters ==
  ASSUME FactoryInv, TypeOK, UNCHANGED vars
  PROVE  TypeOK' /\ FactoryInv'
<1>1. TypeOK'
  BY DEF TypeOK, vars
<1>2. \A t \in Threads, d \in Depths : Cell(t, d)' = Cell(t, d)
  BY DEF Cell, vars
<1>3. \A f : CallOK(f)' <=> CallOK(f)
  BY DEF CallOK, Live, vars
<1>4. CallsInv'
  BY <1>2, <1>3 DEF FactoryInv, CallsInv, vars
<1>5. SubscriptionsInv'
  BY DEF FactoryInv, SubscriptionsInv, Live, vars
<1>6. CountsInv'
  <2>1. ASSUME NEW x \in Places
        PROVE  Cell(x[1], x[2])' = Cell(x[1], x[2])
    <3>1. x[1] \in Threads /\ x[2] \in Depths
      BY DEF Places
    <3> QED  BY <1>2, <3>1
  <2>2. {x \in Places : Cell(x[1], x[2])'.call = "query"} =
          {x \in Places : Cell(x[1], x[2]).call = "query"}
    BY <2>1
  <2>3. \A s \in Subscriptions :
          {x \in Places : Asks(Cell(x[1], x[2])', s)} = {x \in Places : Asks(Cell(x[1], x[2]), s)}
    BY <2>1
  <2> QED  BY <2>2, <2>3 DEF FactoryInv, CountsInv, vars
<1>7. HandsInv'
  BY <1>2 DEF FactoryInv, HandsInv, GivesUp, vars
<1>8. WaitsInv'
  BY <1>2 DEF FactoryInv, WaitsInv, vars
<1>9. SilenceInv'
  BY <1>2 DEF FactoryInv, SilenceInv, vars
<1> QED  BY <1>1, <1>4, <1>5, <1>6, <1>7, <1>8, <1>9 DEF FactoryInv

LEMMA FactoryStep ==
  ASSUME FactoryConstants, TypeOK, FactoryInv, [Next]_vars
  PROVE  TypeOK' /\ FactoryInv'
<1>1. CASE UNCHANGED vars
  BY <1>1, Stutters
<1>2. CASE Next
  <2>1. PICK t \in Threads : Done(t)
    BY <1>2, AnyStep
  <2>2. PICK d \in Nat, g \in Frame \cup {Nothing} : Regular(t, d, g)
    BY <2>1 DEF Done
  <2>3. TypeOK' /\ BelowInv'
    BY <2>1 DEF Done
  <2> QED  BY <2>2, <2>3, RegularStep
<1> QED  BY <1>1, <1>2

\* At first no thread is in a call.
LEMMA InitNothing ==
  ASSUME FactoryConstants, Init
  PROVE  \A t \in Threads, d \in Depths : Cell(t, d) = Nothing /\ Len(frames[t]) = 0
<1>1. \A t \in Threads : frames[t] = <<>> /\ Len(frames[t]) = 0
  BY DEF Init
<1>2. \A d \in Depths : ~(d <= 0)
  BY DEF Depths, FactoryConstants
<1> QED  BY <1>1, <1>2 DEF Cell

LEMMA FactoryInit ==
  ASSUME FactoryConstants, Init
  PROVE  TypeOK /\ FactoryInv
<1>1. AnyName \in Names
  BY DEF FactoryConstants, AnyName
<1>2. TypeOK
  <2>1. frames \in [Threads -> Seq(Frame)] /\ \A t \in Threads : Len(frames[t]) <= MaxDepth
    BY DEF Init, FactoryConstants
  <2>2. subscription \in [Subscriptions -> Subscription]
    BY <1>1 DEF Init, Subscription
  <2> QED  BY <2>1, <2>2 DEF Init, TypeOK
<1>3. \A s \in Subscriptions :
        /\ subscription[s].state = "free" /\ subscription[s].owner = NoPlugin
        /\ ~subscription[s].enabled /\ subscription[s].active = 0
  BY DEF Init
<1>4. \A t \in Threads, d \in Depths : Cell(t, d) = Nothing /\ Len(frames[t]) = 0
  BY InitNothing
<1>5. CallsInv
  <2>1. CallOK(Nothing)
    BY NothingFacts DEF CallOK
  <2>2. \A d \in Depths : ~(d < 0)
    BY DEF Depths, FactoryConstants
  <2> QED  BY <1>4, <2>1, <2>2 DEF CallsInv
<1>6. SubscriptionsInv
  BY <1>3 DEF SubscriptionsInv, Live
<1>7. CountsInv
  <2>1. \A x \in Places : Cell(x[1], x[2]) = Nothing
    BY <1>4 DEF Places
  <2>2. {x \in Places : Cell(x[1], x[2]).call = "query"} = {}
    BY <2>1, NothingFacts
  <2>3. \A s \in Subscriptions : {x \in Places : Asks(Cell(x[1], x[2]), s)} = {}
    BY <2>1, NothingOK
  <2>4. queries = 0
    BY DEF Init
  <2> QED  BY <1>3, <2>2, <2>3, <2>4, FS_EmptySet DEF CountsInv
<1>8. HandsInv /\ WaitsInv
  BY <1>4, NothingFacts DEF HandsInv, WaitsInv, Handles, InCallback
<1>9. SilenceInv
  BY DEF SilenceInv, Init
<1> QED  BY <1>2, <1>5, <1>6, <1>7, <1>8, <1>9 DEF FactoryInv

\* Types, and what the locked segments keep between them: the counts are the calls in
\* progress, and from Deactivate's OK on nobody calls the plugin.
THEOREM FactoryInvariance ==
  ASSUME FactoryConstants
  PROVE  Spec => [](TypeOK /\ FactoryInv)
<1>1. Init => TypeOK /\ FactoryInv
  BY FactoryInit
<1>2. TypeOK /\ FactoryInv /\ [Next]_vars => (TypeOK /\ FactoryInv)'
  BY FactoryStep
<1> QED  BY <1>1, <1>2, PTL DEF Spec

\* What a plugin's replacement points into stays, however pins, deactivations and the
\* shutdown interleave: Deactivate looks at the pins again after its waits.
THEOREM PinnedIsKept ==
  ASSUME FactoryConstants
  PROVE  Spec => []PinnedStays
<1>1. FactoryInv => PinnedStays
  BY DEF FactoryInv, SilenceInv, PinnedStays
<1> QED  BY <1>1, FactoryInvariance, PTL

\* Two factory callbacks that unsubscribe each other's subscription do not wait for each
\* other: in a callback Unsubscribe waits for nobody who is in one.
THEOREM NobodyWaitsInCircles ==
  ASSUME FactoryConstants
  PROVE  Spec => []NoCircularWait
<1>1. ASSUME TypeOK, FactoryInv
      PROVE  NoCircularWait
  <2> SUFFICES ASSUME NEW t \in Threads, frames[t] # <<>>, Top(t).call = "unsubscribe",
                      Dispatching(t), NEW f \in AllFrames, InCallback(f),
                      f.sub = Top(t).sub
               PROVE  FALSE
    BY DEF NoCircularWait
  <2>1. PICK d \in Depths : Cell(t, d) = Top(t)
    BY <1>1, TopPlace
  <2>2. PICK c \in Depths : Cell(t, c).call = "dispatch"
    BY <1>1, CallsOfThread DEF Dispatching
  <2>3. PICK u \in Threads, e \in Depths : f = Cell(u, e)
    BY <1>1, CallsOfAll
  <2> QED  BY <1>1, <2>1, <2>2, <2>3 DEF FactoryInv, WaitsInv
<1> QED  BY <1>1, FactoryInvariance, PTL

-----------------------------------------------------------------------------
(* The service implements the dispatch layer.                              *)

\* Whom a dispatch may call.
LEMMA OpenedIs ==
  ASSUME SubscriptionsInv
  PROVE  Opened = {subscription[s].owner : s \in {r \in Subscriptions : subscription[r].enabled}}
<1>1. Callable = {r \in Subscriptions : subscription[r].enabled}
  BY DEF Callable, SubscriptionsInv
<1> QED  BY <1>1 DEF Opened

LEMMA OpenedNextIs ==
  ASSUME SubscriptionsInv'
  PROVE  Opened' = {subscription'[s].owner : s \in {r \in Subscriptions : subscription'[r].enabled}}
<1>1. Callable' = {r \in Subscriptions : subscription'[r].enabled}
  BY DEF Callable, SubscriptionsInv
<1> QED  BY <1>1 DEF Opened

\* Whose callback runs in a call.
Called(f) == IF InCallback(f) THEN subscription[f.sub].owner ELSE NoPlugin

LEMMA InsideIs ==
  ASSUME FactoryConstants
  PROVE  InsideOf = [u \in Threads |-> [e \in 1..MaxDepth |-> Called(Cell(u, e))]]
<1>1. \A u \in Threads, e \in 1..MaxDepth :
        (IF e <= Len(frames[u]) /\ InCallback(frames[u][e])
         THEN subscription[frames[u][e].sub].owner ELSE NoPlugin) = Called(Cell(u, e))
  BY NothingOK DEF Called, Cell
<1> QED  BY <1>1 DEF InsideOf

LEMMA InsideNextIs ==
  ASSUME FactoryConstants
  PROVE  InsideOf' = [u \in Threads |-> [e \in 1..MaxDepth |-> Called(Cell(u, e))']]
<1>1. \A u \in Threads, e \in 1..MaxDepth :
        (IF e <= Len(frames'[u]) /\ InCallback(frames'[u][e])
         THEN subscription'[frames'[u][e].sub].owner ELSE NoPlugin) = Called(Cell(u, e))'
  BY NothingOK DEF Called, Cell
<1> QED  BY <1>1 DEF InsideOf

\* A plugin that is quiet is not open, and its callbacks do not run.
LEMMA QuietSilent == ASSUME FactoryConstants, TypeOK, FactoryInv PROVE QuietIsSilent
<1> SUFFICES ASSUME NEW p \in quiet
             PROVE  p \notin Opened /\ ~Layer!Runs(p)
  BY DEF QuietIsSilent, Layer!StoppedIsSilent
<1>1. p \in Plugins /\ p # NoPlugin
  BY DEF TypeOK, FactoryConstants
<1>2. p \notin Opened
  <2>1. \A s \in Subscriptions : subscription[s].enabled => subscription[s].owner # p
    BY DEF FactoryInv, SilenceInv
  <2>2. Opened = {subscription[s].owner : s \in {r \in Subscriptions : subscription[r].enabled}}
    BY OpenedIs DEF FactoryInv
  <2> QED  BY <2>1, <2>2
<1>3. \A t \in Threads, d \in Depths : Called(Cell(t, d)) # p
  BY <1>1 DEF FactoryInv, SilenceInv, Called
<1>4. \A t \in Threads, d \in 1..MaxDepth : InsideOf[t][d] # p
  <2>1. InsideOf = [u \in Threads |-> [e \in 1..MaxDepth |-> Called(Cell(u, e))]]
    BY InsideIs
  <2>2. \A t \in Threads, d \in 1..MaxDepth : Called(Cell(t, d)) # p
    BY <1>3 DEF Depths
  <2> QED  BY <2>1, <2>2
<1> QED  BY <1>2, <1>4 DEF Layer!Runs

\* A plugin whose Deactivate answered OK is asked no more until the host starts it again,
\* on whatever thread a dispatch had already begun.
THEOREM QuietStaysSilent ==
  ASSUME FactoryConstants
  PROVE  Spec => []QuietIsSilent
<1>1. TypeOK /\ FactoryInv => QuietIsSilent
  BY QuietSilent
<1> QED  BY <1>1, FactoryInvariance, PTL

\* Owners stay, so that the layer closes and opens as the switches do.
LEMMA OwnersStay ==
  ASSUME FactoryInv, FactoryInv', KeptSubscriptions
  PROVE  /\ \A s \in Subscriptions : /\ subscription[s].enabled =>
                                          subscription'[s].owner = subscription[s].owner
                                     /\ subscription[s].enabled => subscription[s].owner \in Plugins
                                     /\ subscription'[s].enabled => subscription'[s].owner \in Plugins
         /\ Opened = {subscription[s].owner : s \in {r \in Subscriptions : subscription[r].enabled}}
         /\ Opened' = {subscription'[s].owner :
                         s \in {r \in Subscriptions : subscription'[r].enabled}}
<1>1. SubscriptionsInv /\ SubscriptionsInv'
  BY DEF FactoryInv
<1>2. \A s \in Subscriptions : subscription[s].enabled =>
        subscription[s].state # "free" /\ subscription'[s].owner = subscription[s].owner
  BY <1>1 DEF SubscriptionsInv, Live, KeptSubscriptions
<1>3. \A s \in Subscriptions : subscription[s].enabled => subscription[s].owner \in Plugins
  BY <1>1, <1>2 DEF SubscriptionsInv
<1>4. \A s \in Subscriptions : subscription'[s].enabled => subscription'[s].owner \in Plugins
  BY <1>1 DEF SubscriptionsInv, Live
<1> QED  BY <1>1, <1>2, <1>3, <1>4, OpenedIs, OpenedNextIs

\* The call that changes is entered or left, and no other.
LEMMA InsideStep ==
  ASSUME FactoryConstants, TypeOK, FactoryInv, NEW t \in Threads, NEW d, NEW g,
         Changes(t, d, g), KeptSubscriptions
  PROVE  InsideOf' = [u \in Threads |-> [e \in 1..MaxDepth |->
                        IF u = t /\ e = d THEN Called(g)' ELSE Called(Cell(u, e))]]
<1>1. ASSUME NEW u \in Threads, NEW e \in Depths
      PROVE  Called(Cell(u, e))' = IF u = t /\ e = d THEN Called(g)' ELSE Called(Cell(u, e))
  <2>1. Cell(u, e)' = IF u = t /\ e = d THEN g ELSE Cell(u, e)
    BY DEF Changes
  <2>2. CASE u = t /\ e = d
    BY <2>1, <2>2 DEF Called
  <2>3. CASE ~(u = t /\ e = d)
    <3>1. InCallback(Cell(u, e)) =>
            subscription'[Cell(u, e).sub].owner = subscription[Cell(u, e).sub].owner
      BY CallbackSub DEF KeptSubscriptions, Live
    <3> QED  BY <2>1, <2>3, <3>1 DEF Called
  <2> QED  BY <2>2, <2>3
<1>2. \A u \in Threads, e \in 1..MaxDepth :
        Called(Cell(u, e))' = IF u = t /\ e = d THEN Called(g)' ELSE Called(Cell(u, e))
  BY <1>1 DEF Depths
<1>3. InsideOf' = [u \in Threads |-> [e \in 1..MaxDepth |-> Called(Cell(u, e))']]
  BY InsideNextIs
<1> QED  BY <1>2, <1>3, Zenon

\* A step of the service is a step of the layer, or changes nothing in it.
LEMMA StepOnLayer ==
  ASSUME FactoryConstants, TypeOK, FactoryInv, TypeOK', FactoryInv', QuietIsSilent',
         NEW t \in Threads, NEW d \in Nat, NEW g \in Frame \cup {Nothing},
         Regular(t, d, g), OnLayer(t, d, g)
  PROVE  [Layer!Next]_(Layer!layer)
<1>0. Changes(t, d, g) /\ KeptSubscriptions /\ (d \in Depths => NewCall(t, g))
  BY DEF Regular
<1>1. /\ \A s \in Subscriptions : /\ subscription[s].enabled =>
                                       subscription'[s].owner = subscription[s].owner
                                  /\ subscription[s].enabled => subscription[s].owner \in Plugins
                                  /\ subscription'[s].enabled => subscription'[s].owner \in Plugins
      /\ Opened = {subscription[s].owner : s \in {r \in Subscriptions : subscription[r].enabled}}
      /\ Opened' = {subscription'[s].owner :
                      s \in {r \in Subscriptions : subscription'[r].enabled}}
  BY <1>0, OwnersStay
<1>2. InsideOf = [u \in Threads |-> [e \in 1..MaxDepth |-> Called(Cell(u, e))]]
  BY InsideIs
<1>3. InsideOf' = [u \in Threads |-> [e \in 1..MaxDepth |->
                     IF u = t /\ e = d THEN Called(g)' ELSE Called(Cell(u, e))]]
  BY <1>0, InsideStep
<1>4. Opened \in SUBSET Plugins /\ Opened' \in SUBSET Plugins
  BY <1>1
<1>5. (\A s \in Subscriptions : subscription'[s].enabled <=> subscription[s].enabled) =>
        Opened' = Opened
  BY <1>1
<1>6. CASE ~InCallback(Cell(t, d)) /\ ~InCallback(g)
  <2>1. InsideOf' = InsideOf
    <3>1. Called(g)' = NoPlugin /\ Called(Cell(t, d)) = NoPlugin
      BY <1>6 DEF Called
    <3>2. \A u \in Threads, e \in 1..MaxDepth :
            (IF u = t /\ e = d THEN Called(g)' ELSE Called(Cell(u, e))) = Called(Cell(u, e))
      BY <3>1
    <3> QED  BY <1>2, <1>3, <3>2, Zenon
  <2>2. CASE /\ quiet' = quiet
             /\ \A s \in Subscriptions : subscription'[s].enabled => subscription[s].enabled
    <3>1. Opened' \subseteq Opened
      BY <1>1, <2>2
    <3>2. PICK S \in SUBSET Plugins : S = Opened \ Opened'
      BY <1>4
    <3>3. Layer!Shut(S)
      BY <2>1, <2>2, <3>1, <3>2 DEF Layer!Shut
    <3> QED  BY <3>3 DEF Layer!Next
  <2>3. CASE /\ quiet' = quiet
             /\ \E p \in Plugins : p \notin quiet /\ \A s \in Subscriptions :
                  /\ subscription[s].enabled => subscription'[s].enabled
                  /\ subscription'[s].enabled =>
                       subscription[s].enabled \/ subscription'[s].owner = p
    <3>1. PICK p \in Plugins : p \notin quiet /\ \A s \in Subscriptions :
                  /\ subscription[s].enabled => subscription'[s].enabled
                  /\ subscription'[s].enabled =>
                       subscription[s].enabled \/ subscription'[s].owner = p
      BY <2>3
    <3>2. Opened \subseteq Opened'
      BY <1>1, <3>1
    <3>3. Opened' \subseteq Opened \cup {p}
      BY <1>1, <3>1
    <3>4. CASE p \in Opened'
      <4>1. Layer!Open(p)
        BY <2>1, <2>3, <3>1, <3>2, <3>3, <3>4 DEF Layer!Open
      <4> QED  BY <4>1 DEF Layer!Next
    <3>5. CASE p \notin Opened'
      <4>1. Opened' = Opened
        BY <3>2, <3>3, <3>5
      <4> QED  BY <2>1, <2>3, <4>1 DEF Layer!layer
    <3> QED  BY <3>4, <3>5
  <2>4. CASE /\ \A s \in Subscriptions : subscription'[s].enabled <=> subscription[s].enabled
             /\ quiet \subseteq quiet'
    <3>1. Opened' = Opened
      BY <1>5, <2>4
    <3>2. PICK S \in SUBSET Plugins : S = quiet'
      BY DEF TypeOK
    <3>3. \A p \in S : p \notin Opened /\ ~Layer!Runs(p)
      BY <2>1, <3>1, <3>2 DEF QuietIsSilent, Layer!StoppedIsSilent, Layer!Runs
    <3>4. Layer!Quiesce(S)
      BY <2>1, <2>4, <3>1, <3>2, <3>3 DEF Layer!Quiesce
    <3> QED  BY <3>4 DEF Layer!Next
  <2>5. CASE /\ \A s \in Subscriptions : subscription'[s].enabled <=> subscription[s].enabled
             /\ \E p \in Plugins : quiet' = quiet \ {p}
    <3>1. Opened' = Opened
      BY <1>5, <2>5
    <3>2. PICK p \in Plugins : quiet' = quiet \ {p}
      BY <2>5
    <3>3. Layer!Restart(p)
      BY <2>1, <3>1, <3>2 DEF Layer!Restart
    <3> QED  BY <3>3 DEF Layer!Next
  <2> QED  BY <1>6, <2>2, <2>3, <2>4, <2>5 DEF OnLayer
<1>7. CASE ~(~InCallback(Cell(t, d)) /\ ~InCallback(g))
  <2>1. /\ InCallback(Cell(t, d)) # InCallback(g) /\ quiet' = quiet
        /\ \A s \in Subscriptions : subscription'[s].enabled <=> subscription[s].enabled
    BY <1>7 DEF OnLayer
  <2>2. Opened' = Opened
    BY <1>5, <2>1
  <2>3. d \in Depths /\ d \in 1..MaxDepth
    BY <1>0, <2>1 DEF Changes, Depths
  <2>4. CASE InCallback(Cell(t, d)) /\ ~InCallback(g)
    <3>1. Called(g)' = NoPlugin
      BY <2>4 DEF Called
    <3>2. InsideOf' = [InsideOf EXCEPT ![t][d] = NoPlugin]
      BY <1>2, <1>3, <2>3, <3>1
    <3>3. Layer!Leave(t, d)
      BY <2>1, <2>2, <3>2 DEF Layer!Leave
    <3> QED  BY <2>3, <3>3 DEF Layer!Next
  <2>5. CASE InCallback(g) /\ ~InCallback(Cell(t, d))
    <3>1. subscription[g.sub].enabled /\ CallOK(g)'
      BY <1>0, <2>3, <2>5 DEF NewCall
    <3>2. g.sub \in Subscriptions
      BY <2>5, <3>1, NothingFacts DEF CallOK, InCallback, Frame
    <3>3. PICK p \in Plugins : p = subscription[g.sub].owner /\ p = subscription'[g.sub].owner
      BY <1>1, <3>1, <3>2
    <3>4. p \in Opened
      BY <1>1, <3>1, <3>2, <3>3
    <3>5. Called(g)' = p /\ Called(Cell(t, d)) = NoPlugin
      BY <2>5, <3>3 DEF Called
    <3>6. InsideOf' = [InsideOf EXCEPT ![t][d] = p] /\ InsideOf[t][d] = NoPlugin
      BY <1>2, <1>3, <2>3, <3>5
    <3>7. Layer!Enter(t, d, p)
      BY <2>1, <2>2, <3>4, <3>6 DEF Layer!Enter
    <3> QED  BY <2>3, <3>7 DEF Layer!Next
  <2> QED  BY <2>1, <2>4, <2>5 DEF InCallback
<1> QED  BY <1>6, <1>7

LEMMA LayerSteps ==
  ASSUME FactoryConstants, TypeOK, FactoryInv, TypeOK', FactoryInv', QuietIsSilent',
         [Next]_vars
  PROVE  [Layer!Next]_(Layer!layer)
<1>1. CASE UNCHANGED vars
  BY <1>1 DEF vars, Layer!layer, Opened, Callable, Live, AllFrames, FramesOf, InsideOf
<1>2. CASE Next
  <2>1. PICK t \in Threads : Done(t)
    BY <1>2, AnyStep
  <2>2. PICK d \in Nat, g \in Frame \cup {Nothing} : Regular(t, d, g) /\ OnLayer(t, d, g)
    BY <2>1 DEF Done
  <2> QED  BY <2>2, StepOnLayer
<1> QED  BY <1>1, <1>2

\* At first the layer is open to no plugin, and nobody is inside one.
LEMMA LayerInit == ASSUME FactoryConstants, Init PROVE Layer!Init
<1>1. SubscriptionsInv /\ \A s \in Subscriptions : ~subscription[s].enabled
  BY FactoryInit DEF Init, FactoryInv
<1>2. Opened = {}
  BY <1>1, OpenedIs
<1>3. \A u \in Threads, e \in 1..MaxDepth : Called(Cell(u, e)) = NoPlugin
  BY InitNothing, NothingOK DEF Called, Depths
<1>4. InsideOf = [u \in Threads |-> [e \in 1..MaxDepth |-> Called(Cell(u, e))]]
  BY InsideIs
<1>5. InsideOf = [u \in Threads |-> [e \in 1..MaxDepth |-> NoPlugin]]
  BY <1>3, <1>4
<1> QED  BY <1>2, <1>5 DEF Layer!Init, Init

\* Factory subscriptions keep the contract the plugin manager relies on: a callback begins
\* only while a subscription of its plugin is enabled, and Deactivate and Shutdown answer
\* OK only when none runs and none is enabled.
THEOREM ImplementsTheLayer ==
  ASSUME FactoryConstants
  PROVE  Spec => ImplementsLayer
<1>1. Init => Layer!Init
  BY LayerInit
<1>2. TypeOK /\ FactoryInv /\ TypeOK' /\ FactoryInv' /\ QuietIsSilent' /\ [Next]_vars
        => [Layer!Next]_(Layer!layer)
  BY LayerSteps
<1>3. Spec => [](TypeOK /\ FactoryInv) /\ []QuietIsSilent
  BY FactoryInvariance, QuietStaysSilent
<1> QED  BY <1>1, <1>2, <1>3, PTL DEF Spec, ImplementsLayer, Layer!Spec

-----------------------------------------------------------------------------
(* What DispatchLayer promises, for any layer: one of which nothing is     *)
(* known but whom it may call, whom it is calling, and whom it has let go. *)

VARIABLES open, inside, stopped
Contract == INSTANCE DispatchLayer

\* Each step of the layer keeps the types and the promise.
LEMMA ContractStep ==
  ASSUME NoPlugin \notin Plugins, Contract!LayerTypeOK, Contract!StoppedIsSilent,
         [Contract!Next]_(Contract!layer)
  PROVE  Contract!LayerTypeOK' /\ Contract!StoppedIsSilent'
<1> USE DEF Contract!LayerTypeOK, Contract!StoppedIsSilent, Contract!Runs
<1>1. CASE UNCHANGED Contract!layer
  BY <1>1 DEF Contract!layer
<1>2. ASSUME NEW p \in Plugins, Contract!Open(p)
      PROVE  Contract!LayerTypeOK' /\ Contract!StoppedIsSilent'
  BY <1>2 DEF Contract!Open
<1>3. ASSUME NEW S \in SUBSET Plugins, Contract!Quiesce(S)
      PROVE  Contract!LayerTypeOK' /\ Contract!StoppedIsSilent'
  BY <1>3 DEF Contract!Quiesce
<1>4. ASSUME NEW p \in Plugins, Contract!Restart(p)
      PROVE  Contract!LayerTypeOK' /\ Contract!StoppedIsSilent'
  BY <1>4 DEF Contract!Restart
<1>5. ASSUME NEW S \in SUBSET Plugins, Contract!Shut(S)
      PROVE  Contract!LayerTypeOK' /\ Contract!StoppedIsSilent'
  BY <1>5 DEF Contract!Shut
<1>6. ASSUME NEW t \in Threads, NEW d \in 1..MaxDepth, NEW p \in Plugins, Contract!Enter(t, d, p)
      PROVE  Contract!LayerTypeOK' /\ Contract!StoppedIsSilent'
  BY <1>6 DEF Contract!Enter
<1>7. ASSUME NEW t \in Threads, NEW d \in 1..MaxDepth, Contract!Leave(t, d)
      PROVE  Contract!LayerTypeOK' /\ Contract!StoppedIsSilent'
  BY <1>7 DEF Contract!Leave
<1> QED  BY <1>1, <1>2, <1>3, <1>4, <1>5, <1>6, <1>7 DEF Contract!Next

\* Between an OK of Deactivate and the next activation no callback of the
\* plugin runs or begins, on any thread: what PausePlugin and
\* UnloadPluginCommand rely on before they release and close a plugin.
THEOREM StoppedStaysSilent ==
  ASSUME NoPlugin \notin Plugins
  PROVE  Contract!Spec => []Contract!StoppedIsSilent
<1>1. Contract!Init => Contract!LayerTypeOK /\ Contract!StoppedIsSilent
  BY DEF Contract!Init, Contract!LayerTypeOK, Contract!StoppedIsSilent
<1>2. Contract!LayerTypeOK /\ Contract!StoppedIsSilent /\ [Contract!Next]_(Contract!layer)
        => (Contract!LayerTypeOK /\ Contract!StoppedIsSilent)'
  BY ContractStep
<1> QED  BY <1>1, <1>2, PTL DEF Contract!Spec

-----------------------------------------------------------------------------
(* Players, for any slots, user IDs, clients and pawns: a connection a     *)
(* plugin was told of is of one client and stands as long as the client    *)
(* stays, clients are found from arrival to departure, and an input        *)
(* context is of one pawn.                                                 *)

CONSTANTS Slots, Users, MaxClients, MaxPawns
VARIABLES hooks, service, entry, next, context, client, clients, pawns, missed, given, inputs

P == INSTANCE Players

USE DEF P!Events, P!None

-----------------------------------------------------------------------------
(* Entries and clients as they are made.                                   *)

\* Entry, when generations up to n were given.
Entries(n) ==
  [generation : 0..n, user : Users \cup {-1}, bot : BOOLEAN, pending : BOOLEAN,
   disconnecting : BOOLEAN]

LEMMA EmptyIs ==
  ASSUME NEW n \in Nat
  PROVE  /\ P!Empty \in Entries(n) /\ P!Empty.generation = P!None /\ P!Empty.user = -1
         /\ ~P!Empty.pending /\ ~P!Empty.disconnecting
BY DEF Entries, P!Empty

LEMMA TombstoneIs ==
  ASSUME NEW n \in Nat
  PROVE  /\ P!Tombstone \in Entries(n) /\ P!Tombstone.generation = P!None /\ P!Tombstone.user = -1
         /\ ~P!Tombstone.pending /\ P!Tombstone.disconnecting
<1>1. ASSUME NEW r \in Entries(n), r.generation = P!None, r.user = -1, ~r.pending
      PROVE  LET x == [r EXCEPT !.disconnecting = TRUE] IN
             /\ x \in Entries(n) /\ x.generation = P!None /\ x.user = -1
             /\ ~x.pending /\ x.disconnecting
  BY <1>1 DEF Entries
<1> QED  BY <1>1, EmptyIs DEF P!Tombstone

LEMMA ConnectedIs ==
  ASSUME NEW s \in Slots, NEW b \in BOOLEAN, NEW n \in Nat, n = next
  PROVE  LET e == P!Connected(s, b) IN
         /\ e \in Entries(n) /\ e.generation = n /\ e.user = -1
         /\ e.pending /\ ~e.disconnecting
<1>1. ASSUME NEW r \in Entries(n), r.user = -1, ~r.disconnecting
      PROVE  LET x == [r EXCEPT !.generation = n] IN
             x \in Entries(n) /\ x.generation = n /\ x.user = -1 /\ ~x.disconnecting
  BY <1>1 DEF Entries
<1>2. ASSUME NEW r \in Entries(n), r.generation = n, r.user = -1, ~r.disconnecting
      PROVE  LET x == [r EXCEPT !.bot = b] IN
             x \in Entries(n) /\ x.generation = n /\ x.user = -1 /\ ~x.disconnecting
  BY <1>2 DEF Entries
<1>3. ASSUME NEW r \in Entries(n), r.generation = n, r.user = -1, ~r.disconnecting
      PROVE  LET x == [r EXCEPT !.pending = TRUE] IN
             /\ x \in Entries(n) /\ x.generation = n /\ x.user = -1
             /\ x.pending /\ ~x.disconnecting
  BY <1>3 DEF Entries
<1>4. PICK x : x = [P!Empty EXCEPT !.generation = n]
  OBVIOUS
<1>5. PICK y : y = [x EXCEPT !.bot = b]
  OBVIOUS
<1>6. x \in Entries(n) /\ x.generation = n /\ x.user = -1 /\ ~x.disconnecting
  BY <1>1, <1>4, EmptyIs
<1>7. y \in Entries(n) /\ y.generation = n /\ y.user = -1 /\ ~y.disconnecting
  BY <1>2, <1>5, <1>6
<1>8. P!Connected(s, b) = [y EXCEPT !.pending = TRUE]
  BY <1>4, <1>5 DEF P!Connected
<1> QED  BY <1>3, <1>7, <1>8

\* Client, when there have been n clients and p pawns.
Clients(n, p) ==
  [id : 0..n, user : Users \cup {-1}, bot : BOOLEAN,
   at : {"none", "silent", "connecting", "in", "leaving"}, pawn : 0..p, announced : BOOLEAN]

LEMMA NobodyIs ==
  ASSUME NEW n \in Nat, NEW p \in Nat
  PROVE  /\ P!Nobody \in Clients(n, p) /\ P!Nobody.id = P!None /\ P!Nobody.user = -1
         /\ P!Nobody.at = "none" /\ ~P!Nobody.announced
BY DEF Clients, P!Nobody

LEMMA NewcomerIs ==
  ASSUME NEW n \in Nat, NEW p \in Nat, NEW b \in BOOLEAN
  PROVE  LET c == [P!Nobody EXCEPT !.id = n, !.bot = b, !.at = "silent"] IN
         c \in Clients(n, p) /\ c.id = n /\ c.user = -1 /\ c.at = "silent" /\ ~c.announced
<1>1. ASSUME NEW r \in Clients(n, p), r.user = -1, ~r.announced
      PROVE  LET x == [r EXCEPT !.id = n] IN
             x \in Clients(n, p) /\ x.id = n /\ x.user = -1 /\ ~x.announced
  BY <1>1 DEF Clients
<1>2. ASSUME NEW r \in Clients(n, p), r.id = n, r.user = -1, ~r.announced
      PROVE  LET x == [r EXCEPT !.bot = b] IN
             x \in Clients(n, p) /\ x.id = n /\ x.user = -1 /\ ~x.announced
  BY <1>2 DEF Clients
<1>3. ASSUME NEW r \in Clients(n, p), r.id = n, r.user = -1, ~r.announced
      PROVE  LET x == [r EXCEPT !.at = "silent"] IN
             /\ x \in Clients(n, p) /\ x.id = n /\ x.user = -1 /\ x.at = "silent"
             /\ ~x.announced
  BY <1>3 DEF Clients
<1>4. PICK x : x = [P!Nobody EXCEPT !.id = n]
  OBVIOUS
<1>5. PICK y : y = [x EXCEPT !.bot = b]
  OBVIOUS
<1>6. x \in Clients(n, p) /\ x.id = n /\ x.user = -1 /\ ~x.announced
  BY <1>1, <1>4, NobodyIs
<1>7. y \in Clients(n, p) /\ y.id = n /\ y.user = -1 /\ ~y.announced
  BY <1>2, <1>5, <1>6
<1>8. [P!Nobody EXCEPT !.id = n, !.bot = b, !.at = "silent"] = [y EXCEPT !.at = "silent"]
  BY <1>4, <1>5
<1> QED  BY <1>3, <1>7, <1>8

-----------------------------------------------------------------------------
(* What a request reads.                                                   *)

LEMMA UpdatedIs ==
  ASSUME P!PlayerConstants, P!TypeOK, P!PlayerInv, NEW s \in Slots
  PROVE  /\ P!Updated(s).generation = IF P!Renewed(s) THEN next ELSE entry[s].generation
         /\ P!Updated(s).user = client[s].user /\ P!Updated(s).bot = client[s].bot
         /\ P!Updated(s).pending <=> client[s].at = "connecting" \/ client[s].user < 0
         /\ ~P!Updated(s).disconnecting
         /\ P!Updated(s).generation # P!None
         /\ P!Updated(s) \in Entries(next)
<1>1. /\ client[s].user \in Users \cup {-1} /\ client[s].bot \in BOOLEAN
      /\ entry[s].generation \in 0..next /\ next \in Nat \ {0} /\ next \in 0..next
  BY DEF P!TypeOK, P!Entry, P!Client
<1>2. P!Updated(s).generation = IF P!Renewed(s) THEN next ELSE entry[s].generation
  BY DEF P!Updated
<1>3. P!Updated(s).generation # P!None /\ P!Updated(s).generation \in 0..next
  BY <1>1, <1>2 DEF P!Renewed
<1> QED  BY <1>1, <1>2, <1>3 DEF P!Updated, Entries

LEMMA ReadIs ==
  ASSUME P!PlayerConstants, P!TypeOK, P!PlayerInv, NEW s \in Slots
  PROVE  /\ P!Told(s) /\ ~entry[s].disconnecting => P!Read(s) = P!Updated(s)
         /\ P!Told(s) /\ entry[s].disconnecting => P!Read(s) = entry[s]
         /\ ~P!Told(s) => P!Read(s) = P!Missing(s)
         /\ entry[s].disconnecting \/ entry[s].pending => P!Missing(s) = entry[s]
         /\ ~entry[s].disconnecting /\ ~entry[s].pending => P!Missing(s) = P!Empty
         /\ P!Empty.generation = P!None /\ P!Empty.user = -1
         /\ ~P!Empty.pending /\ ~P!Empty.disconnecting
         /\ P!Empty \in Entries(next)
         /\ P!Read(s) \in Entries(next)
<1>1. P!Empty \in Entries(next)
  BY DEF P!Empty, P!TypeOK, Entries
<1>2. entry[s] \in Entries(next)
  BY DEF P!TypeOK, P!Entry, Entries
<1> QED  BY <1>1, <1>2, UpdatedIs DEF P!Read, P!Missing, P!Empty

\* What a plugin was told of an announced client is what it is told again.
LEMMA StandsRead ==
  ASSUME P!PlayerConstants, P!TypeOK, P!PlayerInv, NEW h \in given, h.announced, h.client # P!None,
         client[h.slot].id = h.client
  PROVE  /\ client[h.slot].announced
         /\ entry[h.slot].disconnecting => P!Read(h.slot).disconnecting
         /\ ~entry[h.slot].disconnecting =>
              /\ P!Read(h.slot).generation = h.generation /\ ~P!Read(h.slot).disconnecting
              /\ \/ P!Read(h.slot).pending
                 \/ /\ client[h.slot].at \in {"in", "leaving"} /\ client[h.slot].user >= 0
                    /\ P!Read(h.slot).user = client[h.slot].user
                    /\ P!Read(h.slot).bot = client[h.slot].bot
<1>1. PICK s \in Slots : s = h.slot
  BY DEF P!PlayerInv, P!GivenOK
<1>2. /\ client[s].at \in {"none", "silent", "connecting", "in", "leaving"}
      /\ client[s].user \in Nat \/ client[s].user = -1
      /\ client[s].user >= 0 => client[s].at \in {"in", "leaving"}
  BY DEF P!TypeOK, P!Client, P!PlayerInv, P!ClientsOK, P!PlayerConstants
<1>3. /\ client[s].announced
      /\ \/ entry[s].disconnecting
         \/ /\ entry[s].generation = h.generation
            /\ \/ entry[s].pending
               \/ /\ client[s].at \in {"in", "leaving"} /\ client[s].user >= 0
                  /\ entry[s].user = client[s].user
                  /\ entry[s].bot = client[s].bot
  BY <1>1 DEF P!PlayerInv, P!Stands
<1>4. h.generation # P!None /\ (entry[s].pending => entry[s].user = -1)
  BY DEF P!PlayerInv, P!GivenOK, P!PendingOK
<1>5. ~entry[s].disconnecting => ~P!Renewed(s)
  BY <1>2, <1>3, <1>4 DEF P!Renewed, P!Another, P!AnotherUser
<1>6. CASE P!Told(s) /\ ~entry[s].disconnecting
  <2>1. P!Read(s) = P!Updated(s)
    BY <1>6, ReadIs
  <2> QED  BY <1>1, <1>2, <1>3, <1>5, <1>6, <2>1, UpdatedIs DEF P!Told
<1>7. CASE ~(P!Told(s) /\ ~entry[s].disconnecting)
  BY <1>1, <1>3, <1>7, ReadIs DEF P!Told, P!PlayerInv, P!PendingOK
<1> QED  BY <1>6, <1>7

-----------------------------------------------------------------------------
(* The requests of plugins.                                                *)

LEMMA GetStep ==
  ASSUME P!PlayerConstants, P!TypeOK, P!PlayerInv, NEW s \in Slots, NEW b \in BOOLEAN, P!Get(s, b)
  PROVE  P!TypeOK' /\ P!PlayerInv'
<1>1. /\ service /\ service' = service /\ hooks' = (IF b THEN hooks ELSE P!Events)
      /\ entry' = [entry EXCEPT ![s] = P!Read(s)]
      /\ next' = IF P!Told(s) /\ ~entry[s].disconnecting /\ P!Renewed(s) THEN next + 1 ELSE next
      /\ given' = IF ~P!Found(s) \/ b THEN given
              ELSE given \cup {[generation |-> P!Read(s).generation, slot |-> s,
                                client |-> client[s].id, announced |-> client[s].announced]}
      /\ context' = context /\ client' = client /\ clients' = clients /\ pawns' = pawns
      /\ missed' = missed /\ inputs' = inputs
  BY DEF P!Get, P!Tracking
<1>2. PICK e : e = P!Read(s)
  OBVIOUS
<1>3. /\ entry' = [entry EXCEPT ![s] = e] /\ entry'[s] = e
      /\ \A r \in Slots : r # s => entry'[r] = entry[r]
  BY <1>1, <1>2 DEF P!TypeOK
<1>4. next' >= next /\ next' \in Nat \ {0} /\ next \in Nat \ {0}
  BY <1>1 DEF P!TypeOK
<1>5. /\ client[s].at \in {"none", "silent", "connecting", "in", "leaving"}
      /\ client[s].user \in Nat \/ client[s].user = -1
      /\ client[s].bot \in BOOLEAN /\ client[s].announced \in BOOLEAN
      /\ client[s].id \in 0..clients
      /\ client[s].at = "connecting" => client[s].user < 0
      /\ client[s].at = "in" => client[s].user >= 0
      /\ client[s].user >= 0 => client[s].at \in {"in", "leaving"}
  BY DEF P!TypeOK, P!Client, P!PlayerInv, P!ClientsOK, P!PlayerConstants
<1>6. /\ e \in Entries(next)
      /\ entry[s].generation < next /\ entry[s].generation \in Nat
      /\ P!Found(s) => e.generation # P!None /\ ~e.disconnecting
      /\ e.generation = entry[s].generation \/ e.generation = P!None
         \/ (e.generation = next /\ next' = next + 1)
      /\ e.pending => e.generation # P!None /\ e.user = -1 /\ ~e.disconnecting
      /\ entry[s].disconnecting => e = entry[s]
  BY <1>1, <1>2, <1>4, <1>5, ReadIs, UpdatedIs
     DEF P!Found, P!Told, P!PlayerInv, P!PendingOK, P!GivenOK, Entries, P!TypeOK, P!Entry
<1>7. e.generation < next' /\ e.generation \in Nat
  BY <1>4, <1>6, <1>1 DEF Entries
<1>8. /\ P!Told(s) /\ ~entry[s].disconnecting =>
           /\ e.user = client[s].user /\ e.bot = client[s].bot
           /\ e.pending <=> client[s].user < 0
      /\ ~P!Told(s) /\ ~e.pending => e.disconnecting \/ e = P!Empty
  BY <1>2, <1>5, ReadIs, UpdatedIs
<1>9. PICK g : g = [generation |-> e.generation, slot |-> s,
                    client |-> client[s].id, announced |-> client[s].announced]
  OBVIOUS
<1>10. /\ given' = IF ~P!Found(s) \/ b THEN given ELSE given \cup {g}
       /\ P!Found(s) => g \in [generation : 1..(next' - 1), slot : Slots, client : 0..clients,
                             announced : BOOLEAN]
       /\ g.generation = e.generation /\ g.slot = s /\ g.client = client[s].id
       /\ g.announced = client[s].announced
       /\ \A h \in given' : h \in given \/ (h = g /\ P!Found(s) /\ ~b)
  BY <1>1, <1>2, <1>4, <1>5, <1>6, <1>7, <1>9
<1>11. P!TypeOK'
  BY <1>1, <1>3, <1>4, <1>6 DEF P!TypeOK, P!Entry, P!Client, Entries
<1>12. P!GivenOK'
  <2>1. \A r \in Slots : entry'[r].generation < next'
    BY <1>1, <1>3, <1>4, <1>7 DEF P!GivenOK, P!PlayerInv, P!TypeOK, P!Entry
  <2>2. given \subseteq [generation : 1..(next' - 1), slot : Slots, client : 0..clients,
                         announced : BOOLEAN]
    BY <1>4 DEF P!GivenOK, P!PlayerInv
  <2>3. given' # {} => service' /\ hooks' = P!Events
    BY <1>1, <1>10 DEF P!GivenOK, P!PlayerInv
  <2> QED  BY <1>1, <1>10, <2>1, <2>2, <2>3 DEF P!GivenOK
<1>13. P!ClientsOK'
  BY <1>1, <1>9, <1>10 DEF P!ClientsOK, P!PlayerInv
<1>14. P!PendingOK'
  BY <1>1, <1>3, <1>6 DEF P!PendingOK, P!PlayerInv
<1>15. P!OfOneClient'
  BY <1>1, <1>3, <1>6, <1>9, <1>10 DEF P!OfOneClient, P!GivenOK, P!PlayerInv
<1>16. P!Stands'
  <2> SUFFICES ASSUME NEW h \in given', h.announced, h.client # P!None,
                      client[h.slot].id = h.client
               PROVE  /\ client[h.slot].announced
                      /\ \/ entry'[h.slot].disconnecting
                         \/ /\ entry'[h.slot].generation = h.generation
                            /\ \/ entry'[h.slot].pending
                               \/ /\ client[h.slot].at \in {"in", "leaving"}
                                  /\ client[h.slot].user >= 0
                                  /\ entry'[h.slot].user = client[h.slot].user
                                  /\ entry'[h.slot].bot = client[h.slot].bot
    BY <1>1 DEF P!Stands
  <2>1. CASE h \in given /\ h.slot = s
    BY <1>2, <1>3, <2>1, StandsRead
  <2>2. CASE h \in given /\ h.slot # s
    BY <1>3, <2>2 DEF P!Stands, P!PlayerInv, P!GivenOK
  <2>3. CASE h = g /\ P!Found(s)
    <3>1. P!Told(s) \/ e.pending
      BY <1>2, <2>3, ReadIs DEF P!Found
    <3>2. h.slot = s /\ h.generation = e.generation /\ client[s].announced
      BY <1>10, <2>3
    <3>3. ~e.pending => /\ client[s].at \in {"in", "leaving"} /\ client[s].user >= 0
                        /\ e.user = client[s].user /\ e.bot = client[s].bot
      BY <1>5, <1>8, <2>3, <3>1 DEF P!Found
    <3> QED  BY <1>3, <3>2, <3>3
  <2> QED  BY <1>10, <2>1, <2>2, <2>3
<1>17. P!LastEvent'
  <2> SUFFICES ASSUME NEW r \in Slots \ missed
               PROVE  IF client[r].announced
                      THEN IF client[r].at = "leaving" THEN entry'[r].disconnecting
                           ELSE ~entry'[r].disconnecting
                                /\ (entry'[r].pending \/ client[r].at = "in")
                      ELSE client[r].id = P!None => entry'[r].disconnecting \/ ~entry'[r].pending
    BY <1>1 DEF P!LastEvent
  <2>1. CASE r # s
    BY <1>3, <2>1 DEF P!LastEvent, P!PlayerInv
  <2>2. CASE r = s /\ P!Told(s) /\ ~entry[s].disconnecting
    BY <1>2, <1>3, <1>5, <2>2, ReadIs, UpdatedIs DEF P!LastEvent, P!PlayerInv, P!Told, P!ClientsOK
  <2>3. CASE r = s /\ ~(P!Told(s) /\ ~entry[s].disconnecting)
    BY <1>2, <1>3, <1>5, <2>3, ReadIs DEF P!LastEvent, P!PlayerInv, P!Told, P!ClientsOK
  <2> QED  BY <2>1, <2>2, <2>3
<1>18. P!TokensOK' /\ P!OnePawn' /\ context' = [of |-> context'.of, last |-> context'.last]
  BY <1>1 DEF P!TokensOK, P!OnePawn, P!PlayerInv
<1>19. P!Stable'
  <2>1. ASSUME NEW h \in given, P!Found(s), h.client = g.client, g.client # P!None, h.announced
        PROVE  h.generation = g.generation
    <3>1. h.slot = s
      BY <1>10, <2>1 DEF P!ClientsOK, P!PlayerInv
    <3> QED  BY <1>2, <1>10, <2>1, <3>1, StandsRead DEF P!Found
  <2> QED  BY <1>10, <2>1 DEF P!Stable, P!PlayerInv
<1> QED  BY <1>11, <1>12, <1>13, <1>14, <1>15, <1>16, <1>17, <1>18, <1>19 DEF P!PlayerInv

LEMMA AcquireStep ==
  ASSUME P!PlayerConstants, P!TypeOK, P!PlayerInv, P!Acquire
  PROVE  P!TypeOK' /\ P!PlayerInv'
<1>1. /\ ~service /\ service' = TRUE
      /\ UNCHANGED <<hooks, entry, next, context, client, clients, pawns, missed, given, inputs>>
  BY DEF P!Acquire
<1>2. P!TypeOK'
  BY <1>1 DEF P!TypeOK, P!Entry, P!Client
<1> QED  BY <1>1, <1>2 DEF P!PlayerInv, P!GivenOK, P!ClientsOK, P!PendingOK,
         P!OfOneClient, P!Stands, P!LastEvent, P!TokensOK, P!Stable, P!OnePawn

LEMMA EnsureEventStep ==
  ASSUME P!PlayerConstants, P!TypeOK, P!PlayerInv, NEW e \in P!Events, P!EnsureEvent(e)
  PROVE  P!TypeOK' /\ P!PlayerInv'
<1>1. /\ e \notin hooks /\ hooks' = hooks \cup {e}
      /\ UNCHANGED <<service, entry, next, context, client, clients, pawns, missed, given, inputs>>
  BY DEF P!EnsureEvent
<1>2. P!TypeOK'
  BY <1>1 DEF P!TypeOK, P!Entry, P!Client
<1> QED  BY <1>1, <1>2 DEF P!PlayerInv, P!GivenOK, P!ClientsOK, P!PendingOK,
         P!OfOneClient, P!Stands, P!LastEvent, P!TokensOK, P!Stable, P!OnePawn

LEMMA InputStep ==
  ASSUME P!PlayerConstants, P!TypeOK, P!PlayerInv, NEW s \in Slots, P!Input(s)
  PROVE  P!TypeOK' /\ P!PlayerInv'
<1>1. PICK token, e :
      /\ token = P!Context(s) /\ e = P!Updated(s)
      /\ client[s].at \in {"in", "leaving"}
      /\ ~entry[s].disconnecting /\ ~P!Renewed(s)
      /\ entry' = [entry EXCEPT ![s] = e]
      /\ context' = [of |-> [context.of EXCEPT ![s] = [token |-> token, pawn |-> client[s].pawn]],
                     last |-> IF token > context.last THEN token ELSE context.last]
      /\ inputs' = inputs \cup {[token |-> token, slot |-> s, pawn |-> client[s].pawn]}
      /\ hooks' = P!Events
      /\ UNCHANGED <<service, next, client, clients, pawns, missed, given>>
  BY DEF P!Input
<1>2. /\ e \in Entries(next) /\ e.generation = entry[s].generation /\ e.generation # P!None
      /\ e.user = client[s].user /\ e.bot = client[s].bot
      /\ e.pending <=> client[s].user < 0
      /\ ~e.disconnecting
  <2>1. client[s].at # "connecting"
    BY <1>1
  <2> QED  BY <1>1, <2>1, UpdatedIs
<1>3. /\ entry'[s] = e /\ \A r \in Slots : r # s => entry'[r] = entry[r]
  BY <1>1 DEF P!TypeOK
<1>4. /\ client[s].user \in Nat \/ client[s].user = -1
      /\ client[s].pawn \in 0..pawns
      /\ client[s].at = "in" => client[s].user >= 0
      /\ client[s].announced /\ client[s].id # P!None
  BY <1>1 DEF P!TypeOK, P!Client, P!PlayerInv, P!ClientsOK, P!PlayerConstants
<1>5. /\ context.last \in Nat
      /\ context.of \in [Slots -> [token : 0..context.last, pawn : 0..pawns]]
      /\ token \in 1..(context.last + 1)
      /\ \/ token = context.last + 1
         \/ token = context.of[s].token /\ client[s].pawn = context.of[s].pawn
  BY <1>1 DEF P!Context, P!PlayerInv, P!TokensOK
<1>6. /\ context'.last \in Nat /\ context'.last >= context.last /\ token <= context'.last
      /\ context'.of[s] = [token |-> token, pawn |-> client[s].pawn]
      /\ \A r \in Slots : r # s => context'.of[r] = context.of[r]
      /\ context'.of = [context.of EXCEPT ![s] = [token |-> token, pawn |-> client[s].pawn]]
      /\ context' = [of |-> context'.of, last |-> context'.last]
  BY <1>1, <1>5
<1>7. /\ \A r \in Slots :
           context'.of[r].token \in 0..context'.last /\ context'.of[r].pawn \in 0..pawns
      /\ context'.of \in [Slots -> [token : 0..context'.last, pawn : 0..pawns]]
  BY <1>4, <1>5, <1>6
<1>8. P!TypeOK'
  BY <1>1, <1>2, <1>3, <1>7 DEF P!TypeOK, P!Entry, P!Client, Entries
<1>9. P!GivenOK' /\ P!ClientsOK' /\ P!PendingOK' /\ P!OfOneClient' /\ P!Stable'
  BY <1>1, <1>2, <1>3, <1>4
     DEF P!PlayerInv, P!GivenOK, P!ClientsOK, P!PendingOK, P!OfOneClient, P!Stable
<1>10. P!Stands'
  BY <1>1, <1>2, <1>3, <1>4 DEF P!PlayerInv, P!Stands, P!GivenOK
<1>11. P!LastEvent'
  BY <1>1, <1>2, <1>3, <1>4 DEF P!PlayerInv, P!LastEvent
<1>12. /\ inputs' \subseteq [token : 1..context'.last, slot : Slots, pawn : 0..pawns]
       /\ \A i \in inputs' : i \in inputs \/ (i.token = token /\ i.pawn = client[s].pawn)
       /\ \A i \in inputs : i.token \in 1..context.last
  BY <1>1, <1>4, <1>5, <1>6 DEF P!PlayerInv, P!TokensOK
<1>13. /\ \A r \in Slots : context.of[r].token = token =>
            context.of[r].pawn = client[s].pawn
       /\ \A i \in inputs : i.token = token => i.pawn = client[s].pawn
  BY <1>5, <1>12 DEF P!PlayerInv, P!TokensOK
<1>14. P!OnePawn'
  BY <1>12, <1>13 DEF P!PlayerInv, P!OnePawn
<1>15. P!TokensOK'
  <2>1. ASSUME NEW r \in Slots, NEW q \in Slots, context'.of[r].token = context'.of[q].token
        PROVE  context'.of[r].token = P!None \/ context'.of[r].pawn = context'.of[q].pawn
    BY <1>6, <1>13, <2>1 DEF P!PlayerInv, P!TokensOK
  <2>2. ASSUME NEW i \in inputs', NEW r \in Slots, i.token = context'.of[r].token
        PROVE  i.pawn = context'.of[r].pawn
    BY <1>6, <1>12, <1>13, <2>2 DEF P!PlayerInv, P!TokensOK
  <2> QED  BY <1>1, <1>6, <1>7, <1>12, <2>1, <2>2 DEF P!TokensOK
<1> QED  BY <1>6, <1>8, <1>9, <1>10, <1>11, <1>14, <1>15 DEF P!PlayerInv

-----------------------------------------------------------------------------
(* The engine.                                                             *)

\* The engine tells more of a client: it may go on in the game, with its user ID or a pawn.
LEMMA MoreIsTold ==
  ASSUME P!PlayerConstants, P!TypeOK, P!PlayerInv, NEW s \in Slots, NEW c,
         client' = [client EXCEPT ![s] = c], pawns' \in 0..MaxPawns, pawns' >= pawns,
         UNCHANGED <<hooks, service, entry, next, context, clients, missed, given, inputs>>,
         c \in [id : 0..clients, user : Users \cup {-1}, bot : BOOLEAN,
                at : {"silent", "connecting", "in", "leaving"}, pawn : 0..pawns',
                announced : BOOLEAN],
         c.id = client[s].id, c.bot = client[s].bot, c.announced = client[s].announced,
         client[s].at # "none", c.at = "leaving" <=> client[s].at = "leaving",
         c.at \in {"in", "leaving"} => c.announced,
         c.at = "in" => c.user >= 0, c.user >= 0 => c.at \in {"in", "leaving"},
         client[s].user >= 0 => c.user = client[s].user
  PROVE  P!TypeOK' /\ P!PlayerInv'
<1>1. /\ client'[s] = c /\ \A r \in Slots : r # s => client'[r] = client[r]
  BY DEF P!TypeOK
<1>2. \A r \in Slots : client'[r].id = client[r].id /\ client'[r].announced = client[r].announced
  BY <1>1
<1>3. P!TypeOK'
  <2>1. pawns \in Nat /\ pawns' \in Nat /\ \A p \in 0..pawns : p \in 0..pawns'
    BY DEF P!TypeOK, P!PlayerConstants
  <2>2. \A r \in Slots :
          client'[r] \in [id : 0..clients, user : Users \cup {-1}, bot : BOOLEAN,
                          at : {"none", "silent", "connecting", "in", "leaving"},
                          pawn : 0..pawns', announced : BOOLEAN]
    BY <1>1, <2>1 DEF P!TypeOK, P!Client
  <2>3. \A r \in Slots : context.of[r] \in [token : 0..context.last, pawn : 0..pawns']
    BY <2>1 DEF P!TypeOK
  <2>4. client' = [r \in Slots |-> client'[r]]
    BY DEF P!TypeOK
  <2>5. client' \in [Slots -> P!Client']
    BY <2>2, <2>4 DEF P!Client
  <2> QED  BY <2>3, <2>5 DEF P!TypeOK, P!Entry
<1>4. P!GivenOK' /\ P!PendingOK' /\ P!OfOneClient' /\ P!Stable' /\ P!OnePawn'
  BY <1>2 DEF P!PlayerInv, P!GivenOK, P!PendingOK, P!OfOneClient, P!Stable, P!OnePawn
<1>5. P!ClientsOK'
  BY <1>1, <1>2 DEF P!PlayerInv, P!ClientsOK
<1>6. P!Stands'
  BY <1>1, <1>2 DEF P!PlayerInv, P!Stands, P!GivenOK
<1>7. P!LastEvent'
  <2>1. \A r \in Slots : /\ client[r].at = "leaving" <=> client'[r].at = "leaving"
                         /\ client[r].at = "in" => client'[r].at = "in"
    BY <1>1 DEF P!PlayerInv, P!ClientsOK, P!TypeOK, P!Client, P!PlayerConstants
  <2> QED  BY <1>2, <2>1 DEF P!PlayerInv, P!LastEvent
<1>8. P!TokensOK'
  <2>1. pawns \in Nat /\ pawns' \in Nat /\ \A p \in 0..pawns : p \in 0..pawns'
    BY DEF P!TypeOK, P!PlayerConstants
  <2> QED  BY <2>1 DEF P!PlayerInv, P!TokensOK
<1> QED  BY <1>3, <1>4, <1>5, <1>6, <1>7, <1>8 DEF P!PlayerInv

LEMMA ClientToldStep ==
  ASSUME P!PlayerConstants, P!TypeOK, P!PlayerInv, NEW s \in Slots, P!ClientTold(s)
  PROVE  P!TypeOK' /\ P!PlayerInv'
<1>1. PICK c : /\ c = [client[s] EXCEPT !.at = "connecting"] /\ client[s].at = "silent"
               /\ client' = [client EXCEPT ![s] = c]
               /\ UNCHANGED <<hooks, service, entry, next, context, clients, pawns, missed, given,
                              inputs>>
  BY DEF P!ClientTold
<1>2. client[s] \in P!Client /\ pawns' \in 0..MaxPawns /\ pawns' >= pawns
  BY <1>1 DEF P!TypeOK, P!PlayerConstants
<1>3. client[s].user >= 0 => client[s].at \in {"in", "leaving"}
  BY DEF P!PlayerInv, P!ClientsOK
<1>4. /\ c \in [id : 0..clients, user : Users \cup {-1}, bot : BOOLEAN,
                at : {"silent", "connecting", "in", "leaving"}, pawn : 0..pawns',
                announced : BOOLEAN]
      /\ c.id = client[s].id /\ c.bot = client[s].bot /\ c.announced = client[s].announced
      /\ c.user = client[s].user /\ c.at = "connecting"
  BY <1>1, <1>2 DEF P!Client
<1> QED  BY <1>1, <1>2, <1>3, <1>4, MoreIsTold

LEMMA ClientInStep ==
  ASSUME P!PlayerConstants, P!TypeOK, P!PlayerInv, NEW s \in Slots, P!ClientIn(s)
  PROVE  P!TypeOK' /\ P!PlayerInv'
<1>1. PICK u \in Users :
        /\ client[s].announced /\ client[s].at \in {"silent", "connecting"}
        /\ client' = [client EXCEPT ![s] = [client[s] EXCEPT !.at = "in", !.user = u]]
        /\ UNCHANGED <<hooks, service, entry, next, context, clients, pawns, missed, given, inputs>>
  <2>1. PICK u \in Users \ P!InUse : client' = [client EXCEPT ![s].at = "in", ![s].user = u]
    BY DEF P!ClientIn
  <2>2. client' = [client EXCEPT ![s] = [client[s] EXCEPT !.at = "in", !.user = u]]
    BY <2>1 DEF P!TypeOK
  <2> QED  BY <2>2 DEF P!ClientIn
<1>2. PICK c : c = [client[s] EXCEPT !.at = "in", !.user = u]
  OBVIOUS
<1>3. client[s] \in P!Client /\ pawns' \in 0..MaxPawns /\ pawns' >= pawns /\ u >= 0
  BY <1>1 DEF P!TypeOK, P!PlayerConstants
<1>4. client[s].user >= 0 => client[s].at \in {"in", "leaving"}
  BY DEF P!PlayerInv, P!ClientsOK
<1>5. /\ c \in [id : 0..clients, user : Users \cup {-1}, bot : BOOLEAN,
                at : {"silent", "connecting", "in", "leaving"}, pawn : 0..pawns',
                announced : BOOLEAN]
      /\ c.id = client[s].id /\ c.bot = client[s].bot /\ c.announced = client[s].announced
      /\ c.user = u /\ c.at = "in"
  BY <1>1, <1>2, <1>3 DEF P!Client
<1> QED  BY <1>1, <1>2, <1>3, <1>4, <1>5, MoreIsTold

LEMMA ClientSpawnsStep ==
  ASSUME P!PlayerConstants, P!TypeOK, P!PlayerInv, NEW s \in Slots, P!ClientSpawns(s)
  PROVE  P!TypeOK' /\ P!PlayerInv'
<1>1. PICK c :
        /\ c = [client[s] EXCEPT !.pawn = pawns'] /\ client[s].at = "in"
        /\ client' = [client EXCEPT ![s] = c] /\ pawns < MaxPawns /\ pawns' = pawns + 1
        /\ UNCHANGED <<hooks, service, entry, next, context, clients, missed, given, inputs>>
  BY DEF P!ClientSpawns
<1>2. client[s] \in P!Client /\ pawns' \in 0..MaxPawns /\ pawns' >= pawns
  BY <1>1 DEF P!TypeOK, P!PlayerConstants
<1>3. client[s].user >= 0 /\ client[s].announced
  BY <1>1 DEF P!PlayerInv, P!ClientsOK
<1>4. /\ c \in [id : 0..clients, user : Users \cup {-1}, bot : BOOLEAN,
                at : {"silent", "connecting", "in", "leaving"}, pawn : 0..pawns',
                announced : BOOLEAN]
      /\ c.id = client[s].id /\ c.bot = client[s].bot /\ c.announced = client[s].announced
      /\ c.user = client[s].user /\ c.at = "in"
  BY <1>1, <1>2 DEF P!Client
<1> QED  BY <1>1, <1>2, <1>3, <1>4, MoreIsTold

LEMMA ClientGoneStep ==
  ASSUME P!PlayerConstants, P!TypeOK, P!PlayerInv, NEW s \in Slots, P!ClientGone(s)
  PROVE  P!TypeOK' /\ P!PlayerInv'
<1>1. /\ client[s].at = "leaving" /\ client' = [client EXCEPT ![s] = P!Nobody]
      /\ UNCHANGED <<hooks, service, entry, next, context, clients, pawns, missed, given, inputs>>
  BY DEF P!ClientGone
<1>2. /\ client'[s] = P!Nobody /\ \A r \in Slots : r # s => client'[r] = client[r]
      /\ P!Nobody.id = P!None /\ P!Nobody.user = -1 /\ ~P!Nobody.announced /\ P!Nobody.at = "none"
  BY <1>1 DEF P!TypeOK, P!Nobody
<1>3. P!TypeOK'
  <2>1. clients \in Nat /\ pawns \in Nat
    BY DEF P!TypeOK, P!PlayerConstants
  <2>2. P!Nobody \in P!Client
    BY <2>1 DEF P!Nobody, P!Client
  <2> QED  BY <1>1, <2>2 DEF P!TypeOK, P!Entry, P!Client
<1>4. P!GivenOK' /\ P!PendingOK' /\ P!OfOneClient' /\ P!Stable' /\ P!OnePawn' /\ P!TokensOK'
  BY <1>1, <1>2 DEF P!PlayerInv, P!GivenOK, P!PendingOK, P!OfOneClient, P!Stable,
         P!OnePawn, P!TokensOK
<1>5. P!ClientsOK'
  BY <1>1, <1>2 DEF P!PlayerInv, P!ClientsOK
<1>6. P!Stands'
  BY <1>1, <1>2 DEF P!PlayerInv, P!Stands, P!GivenOK
<1>7. P!LastEvent'
  BY <1>1, <1>2 DEF P!PlayerInv, P!LastEvent, P!ClientsOK
<1> QED  BY <1>1, <1>3, <1>4, <1>5, <1>6, <1>7 DEF P!PlayerInv

LEMMA ClientConnectsStep ==
  ASSUME P!PlayerConstants, P!TypeOK, P!PlayerInv, NEW s \in Slots, NEW b \in BOOLEAN,
         P!ClientConnects(s, b)
  PROVE  P!TypeOK' /\ P!PlayerInv'
<1>1. PICK c :
        /\ c = [P!Nobody EXCEPT !.id = clients', !.bot = b, !.at = "silent"]
        /\ client[s].at = "none" /\ clients < MaxClients /\ clients' = clients + 1
        /\ client' = [client EXCEPT ![s] = c]
        /\ UNCHANGED <<hooks, service, entry, next, context, pawns, missed, given, inputs>>
  BY DEF P!ClientConnects
<1>2. /\ clients \in Nat /\ pawns \in Nat /\ clients' \in 0..MaxClients
      /\ \A i \in 0..clients : i \in 0..clients' /\ i # clients'
      /\ \A r \in Slots : client[r].id \in 0..clients
  BY <1>1 DEF P!TypeOK, P!PlayerConstants, P!Client
<1>3. /\ client'[s] = c /\ \A r \in Slots : r # s => client'[r] = client[r]
      /\ c.id = clients' /\ c.user = -1 /\ ~c.announced /\ c.at = "silent"
      /\ c \in [id : 0..clients', user : Users \cup {-1}, bot : BOOLEAN,
                at : {"none", "silent", "connecting", "in", "leaving"}, pawn : 0..pawns,
                announced : BOOLEAN]
  <2>1. clients' \in Nat
    BY <1>1, <1>2
  <2>2. /\ c \in Clients(clients', pawns) /\ c.id = clients' /\ c.user = -1
        /\ ~c.announced /\ c.at = "silent"
    BY <1>1, <1>2, <2>1, NewcomerIs
  <2> QED  BY <1>1, <2>2 DEF P!TypeOK, Clients
<1>4. P!TypeOK'
  <2>1. \A r \in Slots :
          client'[r] \in [id : 0..clients', user : Users \cup {-1}, bot : BOOLEAN,
                          at : {"none", "silent", "connecting", "in", "leaving"},
                          pawn : 0..pawns, announced : BOOLEAN]
    BY <1>2, <1>3 DEF P!TypeOK, P!Client
  <2>2. client' = [r \in Slots |-> client'[r]]
    BY <1>1 DEF P!TypeOK
  <2>3. client' \in [Slots -> P!Client']
    BY <1>1, <2>1, <2>2 DEF P!Client
  <2> QED  BY <1>1, <1>2, <2>3 DEF P!TypeOK, P!Entry
<1>5. \A g \in given : g.slot \in Slots /\ g.client \in 0..clients
  BY DEF P!PlayerInv, P!GivenOK
<1>6. P!GivenOK' /\ P!PendingOK' /\ P!Stable' /\ P!OnePawn' /\ P!TokensOK'
  BY <1>1, <1>2 DEF P!PlayerInv, P!GivenOK, P!PendingOK, P!Stable, P!OnePawn, P!TokensOK
<1>7. P!OfOneClient'
  BY <1>1, <1>3, <1>5 DEF P!PlayerInv, P!OfOneClient
<1>8. P!ClientsOK'
  <2>1. \A r, q \in Slots : client'[r].id = client'[q].id => r = q \/ client'[r].id = P!None
    BY <1>2, <1>3 DEF P!PlayerInv, P!ClientsOK
  <2>2. \A g \in given, r \in Slots : g.client = client'[r].id => g.slot = r \/ g.client = P!None
    BY <1>2, <1>3, <1>5 DEF P!PlayerInv, P!ClientsOK
  <2>3. clients' # P!None
    BY <1>1, <1>2
  <2> QED  BY <1>1, <1>3, <2>1, <2>2, <2>3 DEF P!PlayerInv, P!ClientsOK
<1>9. P!Stands'
  BY <1>1, <1>2, <1>3, <1>5 DEF P!PlayerInv, P!Stands
<1>10. P!LastEvent'
  <2>1. c.id # P!None
    BY <1>2, <1>3
  <2> QED  BY <1>1, <1>3, <2>1 DEF P!PlayerInv, P!LastEvent
<1> QED  BY <1>1, <1>4, <1>6, <1>7, <1>8, <1>9, <1>10 DEF P!PlayerInv

LEMMA ClientConnectedStep ==
  ASSUME P!PlayerConstants, P!TypeOK, P!PlayerInv, NEW s \in Slots, P!ClientConnected(s)
  PROVE  P!TypeOK' /\ P!PlayerInv'
<1>1. PICK c, e :
        /\ c = [client[s] EXCEPT !.announced = TRUE] /\ e = P!Connected(s, client[s].bot)
        /\ client[s].at \in {"silent", "connecting"} /\ ~client[s].announced
        /\ client' = [client EXCEPT ![s] = c]
        /\ IF P!Reported("connected")
           THEN /\ entry' = [entry EXCEPT ![s] = e] /\ next' = next + 1
                /\ missed' = missed \ {s}
           ELSE missed' = missed \cup {s} /\ UNCHANGED <<entry, next>>
        /\ UNCHANGED <<hooks, service, context, clients, pawns, given, inputs>>
  <2>1. client' = [client EXCEPT ![s] = [client[s] EXCEPT !.announced = TRUE]]
    BY DEF P!ClientConnected, P!TypeOK
  <2> QED  BY <2>1 DEF P!ClientConnected
<1>2. /\ client[s] \in P!Client /\ entry[s].generation < next /\ next \in Nat \ {0}
      /\ clients \in Nat /\ pawns \in Nat
      /\ client[s].user >= 0 => client[s].at \in {"in", "leaving"}
  BY DEF P!TypeOK, P!PlayerInv, P!GivenOK, P!PlayerConstants, P!ClientsOK
<1>3. /\ client'[s] = c /\ \A r \in Slots : r # s => client'[r] = client[r]
      /\ c.id = client[s].id /\ c.user = client[s].user /\ c.bot = client[s].bot
      /\ c.at = client[s].at /\ c.announced /\ c \in P!Client
  BY <1>1, <1>2 DEF P!TypeOK, P!Client
<1>4. /\ e.generation = next /\ e.user = -1 /\ e.pending /\ ~e.disconnecting
      /\ e \in Entries(next)
  BY <1>1, <1>2, ConnectedIs DEF P!Client
<1>5. /\ next' \in Nat \ {0} /\ next' >= next
      /\ \A r \in Slots : r # s => entry'[r] = entry[r]
      /\ IF P!Reported("connected") THEN entry'[s] = e /\ next' = next + 1 ELSE entry' = entry
      /\ given # {} => P!Reported("connected")
  BY <1>1, <1>2 DEF P!TypeOK, P!PlayerInv, P!GivenOK, P!Reported
<1>6. P!TypeOK'
  <2>1. \A r \in Slots : entry'[r] \in Entries(next')
    BY <1>1, <1>2, <1>4, <1>5 DEF P!TypeOK, P!Entry, Entries
  <2>2. entry' = [r \in Slots |-> entry'[r]]
    BY <1>1 DEF P!TypeOK
  <2>3. entry' \in [Slots -> P!Entry']
    BY <2>1, <2>2 DEF P!Entry, Entries
  <2> QED  BY <1>1, <1>3, <1>5, <2>3 DEF P!TypeOK, P!Client
<1>7. \A g \in given : g.slot \in Slots /\ g.generation \in 1..(next - 1)
  BY DEF P!PlayerInv, P!GivenOK
<1>8. P!GivenOK'
  <2>1. \A r \in Slots : entry'[r].generation < next'
    BY <1>2, <1>4, <1>5 DEF P!PlayerInv, P!GivenOK, P!TypeOK, P!Entry
  <2>2. given \subseteq [generation : 1..(next' - 1), slot : Slots, client : 0..clients,
                         announced : BOOLEAN]
    BY <1>5, <1>2 DEF P!GivenOK, P!PlayerInv
  <2> QED  BY <1>1, <2>1, <2>2 DEF P!PlayerInv, P!GivenOK
<1>9. P!Stable' /\ P!OnePawn' /\ P!TokensOK'
  BY <1>1 DEF P!PlayerInv, P!Stable, P!OnePawn, P!TokensOK
<1>10. P!ClientsOK'
  BY <1>1, <1>2, <1>3 DEF P!PlayerInv, P!ClientsOK
<1>11. P!PendingOK'
  BY <1>2, <1>4, <1>5 DEF P!PlayerInv, P!PendingOK
<1>12. P!OfOneClient'
  BY <1>1, <1>2, <1>3, <1>4, <1>5, <1>7 DEF P!PlayerInv, P!OfOneClient
<1>13. P!Stands'
  <2> SUFFICES ASSUME NEW g \in given, g.announced, g.client # P!None,
                      client'[g.slot].id = g.client
               PROVE  g.slot # s
    BY <1>1, <1>3, <1>5, <1>7 DEF P!PlayerInv, P!Stands
  <2> QED  BY <1>1, <1>3 DEF P!PlayerInv, P!Stands
<1>14. P!LastEvent'
  <2> SUFFICES ASSUME NEW r \in Slots, r \notin missed'
               PROVE  IF client'[r].announced
                      THEN IF client'[r].at = "leaving" THEN entry'[r].disconnecting
                           ELSE /\ ~entry'[r].disconnecting
                                /\ entry'[r].pending \/ client'[r].at = "in"
                      ELSE client'[r].id = P!None => entry'[r].disconnecting \/ ~entry'[r].pending
    BY DEF P!LastEvent
  <2>1. CASE r # s
    BY <1>1, <1>3, <1>5, <2>1 DEF P!PlayerInv, P!LastEvent
  <2>2. CASE r = s
    <3>1. P!Reported("connected")
      BY <1>1, <2>2
    <3>2. client[s].at \in {"silent", "connecting"}
      BY <1>1
    <3> QED  BY <1>3, <1>4, <1>5, <2>2, <3>1, <3>2
  <2> QED  BY <2>1, <2>2
<1> QED  BY <1>1, <1>6, <1>8, <1>9, <1>10, <1>11, <1>12, <1>13, <1>14 DEF P!PlayerInv

LEMMA ClientDisconnectingStep ==
  ASSUME P!PlayerConstants, P!TypeOK, P!PlayerInv, NEW s \in Slots, P!ClientDisconnecting(s)
  PROVE  P!TypeOK' /\ P!PlayerInv'
<1>1. PICK c :
        /\ c = IF client[s].at = "silent" THEN P!Nobody ELSE [client[s] EXCEPT !.at = "leaving"]
        /\ client[s].announced /\ client[s].at # "leaving"
        /\ client' = [client EXCEPT ![s] = c]
        /\ IF P!Reported("disconnecting")
           THEN entry' = [entry EXCEPT ![s] = P!Tombstone] /\ missed' = missed \ {s}
           ELSE missed' = missed \cup {s} /\ UNCHANGED entry
        /\ UNCHANGED <<hooks, service, next, context, clients, pawns, given, inputs>>
  BY DEF P!ClientDisconnecting
<1>2. /\ client[s] \in P!Client /\ next \in Nat \ {0} /\ clients \in Nat /\ pawns \in Nat
      /\ client[s].at # "none" /\ client[s].id # P!None
  BY <1>1 DEF P!TypeOK, P!PlayerInv, P!PlayerConstants, P!ClientsOK
<1>3. /\ client'[s] = c /\ \A r \in Slots : r # s => client'[r] = client[r]
      /\ c \in P!Client
      /\ \/ c.id = P!None /\ c.at = "none" /\ c.user = -1 /\ ~c.announced
         \/ c.id = client[s].id /\ c.at = "leaving" /\ c.user = client[s].user /\ c.announced
  BY <1>1, <1>2 DEF P!TypeOK, P!Client, P!Nobody
<1>4. /\ P!Tombstone.generation = P!None /\ P!Tombstone.user = -1 /\ ~P!Tombstone.pending
      /\ P!Tombstone.disconnecting /\ P!Tombstone \in Entries(next)
  BY <1>2, TombstoneIs
<1>5. /\ \A r \in Slots : r # s => entry'[r] = entry[r]
      /\ IF P!Reported("disconnecting") THEN entry'[s] = P!Tombstone ELSE entry' = entry
      /\ given # {} => P!Reported("disconnecting")
  BY <1>1 DEF P!TypeOK, P!PlayerInv, P!GivenOK, P!Reported
<1>6. P!TypeOK'
  <2>1. \A r \in Slots : entry'[r] \in Entries(next)
    BY <1>4, <1>5 DEF P!TypeOK, P!Entry, Entries
  <2>2. entry' = [r \in Slots |-> entry'[r]]
    BY <1>1 DEF P!TypeOK
  <2>3. entry' \in [Slots -> P!Entry']
    BY <1>1, <2>1, <2>2 DEF P!Entry, Entries
  <2> QED  BY <1>1, <1>3, <2>3 DEF P!TypeOK, P!Client
<1>7. \A g \in given : g.slot \in Slots /\ g.generation \in 1..(next - 1)
  BY DEF P!PlayerInv, P!GivenOK
<1>8. P!GivenOK'
  BY <1>1, <1>2, <1>4, <1>5 DEF P!PlayerInv, P!GivenOK
<1>9. P!Stable' /\ P!OnePawn' /\ P!TokensOK'
  BY <1>1 DEF P!PlayerInv, P!Stable, P!OnePawn, P!TokensOK
<1>10. P!ClientsOK'
  BY <1>1, <1>2, <1>3 DEF P!PlayerInv, P!ClientsOK
<1>11. P!PendingOK'
  BY <1>4, <1>5 DEF P!PlayerInv, P!PendingOK
<1>12. P!OfOneClient'
  BY <1>1, <1>3, <1>4, <1>5, <1>7 DEF P!PlayerInv, P!OfOneClient
<1>13. P!Stands'
  BY <1>1, <1>3, <1>4, <1>5, <1>7 DEF P!PlayerInv, P!Stands
<1>14. P!LastEvent'
  <2> SUFFICES ASSUME NEW r \in Slots, r \notin missed'
               PROVE  IF client'[r].announced
                      THEN IF client'[r].at = "leaving" THEN entry'[r].disconnecting
                           ELSE /\ ~entry'[r].disconnecting
                                /\ entry'[r].pending \/ client'[r].at = "in"
                      ELSE client'[r].id = P!None => entry'[r].disconnecting \/ ~entry'[r].pending
    BY DEF P!LastEvent
  <2>1. CASE r # s
    BY <1>1, <1>3, <1>5, <2>1 DEF P!PlayerInv, P!LastEvent
  <2>2. CASE r = s
    <3>1. P!Reported("disconnecting")
      BY <1>1, <2>2
    <3> QED  BY <1>3, <1>4, <1>5, <2>2, <3>1
  <2> QED  BY <2>1, <2>2
<1> QED  BY <1>1, <1>6, <1>8, <1>9, <1>10, <1>11, <1>12, <1>13, <1>14 DEF P!PlayerInv

-----------------------------------------------------------------------------
(* The theorems.                                                           *)

LEMMA AnyPlayerStep ==
  ASSUME P!PlayerConstants, P!TypeOK, P!PlayerInv, [P!Next]_(P!vars)
  PROVE  P!TypeOK' /\ P!PlayerInv'
<1>1. CASE UNCHANGED P!vars
  BY <1>1 DEF P!vars, P!TypeOK, P!Entry, P!Client, P!PlayerInv, P!GivenOK,
              P!ClientsOK, P!PendingOK, P!OfOneClient, P!Stands, P!LastEvent, P!TokensOK,
              P!Stable, P!OnePawn
<1>2. CASE P!Next
  BY <1>2, AcquireStep, EnsureEventStep, InputStep, ClientConnectedStep, ClientToldStep,
     ClientInStep, ClientSpawnsStep, ClientDisconnectingStep, ClientGoneStep, GetStep,
     ClientConnectsStep DEF P!Next
<1> QED  BY <1>1, <1>2

\* Whatever the engine tells of a slot and in which order plugins ask: generations, tokens
\* and what plugins were told of them agree with the clients and pawns they were made for.
THEOREM PlayerInvariance ==
  ASSUME P!PlayerConstants
  PROVE  P!Spec => [](P!TypeOK /\ P!PlayerInv)
<1>1. P!Init => P!TypeOK /\ P!PlayerInv
  <2> SUFFICES ASSUME P!Init PROVE P!TypeOK /\ P!PlayerInv
    OBVIOUS
  <2>1. /\ context.of = [s \in Slots |-> P!NoContext] /\ context.last = 0
        /\ context = [of |-> context.of, last |-> context.last]
        /\ \A s \in Slots :
           context.of[s] = P!NoContext /\ entry[s] = P!Empty /\ client[s] = P!Nobody
    BY DEF P!Init
  <2>2. P!TypeOK
    <3>1. P!Empty \in Entries(1) /\ P!Nobody \in Clients(0, 0)
      BY EmptyIs, NobodyIs
    <3>2. entry \in [Slots -> P!Entry] /\ client \in [Slots -> P!Client]
      BY <3>1 DEF P!Init, P!Entry, P!Client, Entries, Clients
    <3>3. \A s \in Slots : context.of[s] \in [token : 0..context.last, pawn : 0..pawns]
      BY <2>1 DEF P!Init, P!NoContext
    <3>4. 0 \in 0..MaxClients /\ 0 \in 0..MaxPawns
      BY DEF P!PlayerConstants
    <3>5. hooks \in SUBSET P!Events /\ next \in Nat \ {0}
      BY DEF P!Init
    <3>6. service \in BOOLEAN
      BY DEF P!Init
    <3>7. clients \in 0..MaxClients /\ pawns \in 0..MaxPawns
      BY <3>4 DEF P!Init
    <3> QED  BY <3>2, <3>3, <3>5, <3>6, <3>7 DEF P!TypeOK
  <2>3. P!TokensOK /\ P!OnePawn /\ P!Stable
    BY <2>1 DEF P!Init, P!TokensOK, P!OnePawn, P!Stable, P!NoContext, P!PlayerConstants
  <2>4. P!GivenOK /\ P!ClientsOK /\ P!PendingOK /\ P!OfOneClient /\ P!Stands /\ P!LastEvent
    BY <2>1 DEF P!Init, P!GivenOK, P!ClientsOK, P!PendingOK, P!OfOneClient,
              P!Stands, P!LastEvent, P!Empty, P!Nobody
  <2> QED  BY <2>1, <2>2, <2>3, <2>4 DEF P!PlayerInv
<1>2. P!TypeOK /\ P!PlayerInv /\ [P!Next]_(P!vars) => (P!TypeOK /\ P!PlayerInv)'
  BY AnyPlayerStep
<1> QED  BY <1>1, <1>2, PTL DEF P!Spec

\* A connection a plugin was told of is never valid for another client, though slots and
\* user IDs are used again and the engine's facts are late.
THEOREM ConnectionsAreOfOneClient ==
  ASSUME P!PlayerConstants
  PROVE  P!Spec => []P!OfItsClient
<1>1. ASSUME P!TypeOK, P!PlayerInv PROVE P!OfItsClient
  <2> SUFFICES ASSUME NEW g \in given, P!Valid(g), client[g.slot].announced
               PROVE  client[g.slot].id = g.client
    BY DEF P!OfItsClient
  <2>1. g.slot \in Slots /\ g.generation \in 1..(next - 1) /\ next \in Nat
    BY <1>1 DEF P!PlayerInv, P!GivenOK, P!TypeOK
  <2>2. P!Read(g.slot).generation = g.generation
    BY DEF P!Valid
  <2>3. entry[g.slot].generation = g.generation
    BY <1>1, <2>1, <2>2, ReadIs, UpdatedIs
  <2> QED  BY <1>1, <2>3 DEF P!PlayerInv, P!OfOneClient
<1> QED  BY <1>1, PlayerInvariance, PTL

\* A client keeps its connection from its arrival to its departure.
THEOREM ConnectionsStand ==
  ASSUME P!PlayerConstants
  PROVE  P!Spec => []P!Stable
<1>1. P!PlayerInv => P!Stable
  BY DEF P!PlayerInv
<1> QED  BY <1>1, PlayerInvariance, PTL

\* Unless an event of the slot was missed, a client is found from its arrival to the
\* beginning of its departure.
THEOREM ClientsAreFound ==
  ASSUME P!PlayerConstants
  PROVE  P!Spec => []P!Accurate
<1>1. ASSUME P!TypeOK, P!PlayerInv PROVE P!Accurate
  <2> SUFFICES ASSUME NEW s \in Slots \ missed
               PROVE  IF client[s].announced THEN P!Found(s) <=> client[s].at # "leaving"
                      ELSE P!Found(s) => client[s].id # P!None
    BY DEF P!Accurate
  <2>1. client[s].at = "none" <=> client[s].id = P!None
    BY <1>1 DEF P!PlayerInv, P!ClientsOK
  <2> QED  BY <1>1, <2>1 DEF P!PlayerInv, P!LastEvent, P!Found, P!Told
<1> QED  BY <1>1, PlayerInvariance, PTL

\* The input contexts a plugin was told are of one pawn each.
THEOREM ContextsAreOfOnePawn ==
  ASSUME P!PlayerConstants
  PROVE  P!Spec => []P!OnePawn
<1>1. P!PlayerInv => P!OnePawn
  BY DEF P!PlayerInv
<1> QED  BY <1>1, PlayerInvariance, PTL

-----------------------------------------------------------------------------
(* Entities, for any handles, maps, serial numbers and depth of calls,     *)
(* whether or not the hooks on the engine's loops can be placed: a call on *)
(* a handle reaches the entity the handle was made for, and plugins hear   *)
(* of a level's end after its start.                                       *)

CONSTANTS MaxHandles, MaxMaps, MaxSerial, Misses, MaxCalls
VARIABLES engine, hooked, seen, epoch, handle, calls, told

E == INSTANCE Entities WITH MaxDepth <- MaxCalls, frames <- calls

USE DEF E!None

Identities == E!Identity \cup {E!NoIdentity}

-----------------------------------------------------------------------------
(* What the parts of the state are.                                        *)

Engine ==
  [factory : BOOLEAN, loop : {"none", "created", "starting", "up", "stopping", "down"},
   map : 0..MaxMaps, maps : 0..MaxMaps, entity : 0..MaxSerial, last : 0..MaxSerial]
Hooked == [factory : BOOLEAN, loop : BOOLEAN]
Seen == [factory : BOOLEAN, loop : BOOLEAN, level : BOOLEAN]
Epoch == [number : Nat \ {0}, system : BOOLEAN, missed : BOOLEAN]

LEMMA Parts ==
  E!TypeOK <=>
    /\ engine \in Engine /\ hooked \in Hooked /\ seen \in Seen /\ epoch \in Epoch
    /\ \A h \in E!Handles : handle[h] \in Identities
    /\ \A d \in 1..Len(calls) : calls[d] \in E!Frame
    /\ told \in {"nothing", "init", "wrong"}
BY DEF E!TypeOK, Engine, Hooked, Seen, Epoch, Identities

\* An epoch that advances ends what was taken in it.
LEMMA Advances ==
  ASSUME NEW e \in Epoch
  PROVE  /\ E!Advanced(e) \in Epoch /\ E!Advanced(e).number = e.number + 1
         /\ E!Advanced(e).missed = e.missed
         /\ E!Invalidated(e) \in Epoch /\ E!Invalidated(e).number = e.number + 1
         /\ E!Invalidated(e).missed = e.missed
<1>1. /\ E!Advanced(e) \in Epoch /\ E!Advanced(e).number = e.number + 1
      /\ E!Advanced(e).missed = e.missed
  BY DEF E!Advanced, Epoch
<1> QED  BY <1>1 DEF E!Invalidated, Epoch

LEMMA Looks ==
  ASSUME NEW n, epoch \in Epoch, n = epoch.number
  PROVE  /\ E!Looked \in Epoch /\ E!Looked.missed = epoch.missed
         /\ E!Looked = epoch \/ E!Looked.number = n + 1
<1>1. PICK e : e = E!Advanced(epoch)
  OBVIOUS
<1>2. e \in Epoch /\ e.number = n + 1 /\ e.missed = epoch.missed
  BY <1>1, Advances
<1>3. \A b \in BOOLEAN :
        /\ [e EXCEPT !.system = b] \in Epoch
        /\ [e EXCEPT !.system = b].number = n + 1
        /\ [e EXCEPT !.system = b].missed = epoch.missed
  BY <1>2 DEF Epoch
<1> QED  BY <1>1, <1>3 DEF E!Looked

-----------------------------------------------------------------------------
(* Steps of the engine leave handles and calls alone.                      *)

LEMMA TurnStep ==
  ASSUME E!TypeOK, E!EntityInv, E!Turn,
         engine' \in Engine, hooked' \in Hooked, seen' \in Seen, epoch' \in Epoch,
         told' \in {"nothing", "init", "wrong"}, E!LevelsSeen',
         epoch.missed => epoch'.missed,
         \A x \in Identities : E!Expires(x) => E!Expires(x)'
  PROVE  E!TypeOK' /\ E!EntityInv'
<1>1. handle' = handle /\ calls' = calls
  BY DEF E!Turn
<1>2. E!TypeOK'
  BY <1>1, Parts DEF E!TypeOK, Engine, Hooked, Seen, Epoch
<1>3. E!ReachesItsEntity'
  BY <1>1 DEF E!EntityInv, E!ReachesItsEntity
<1>4. \A d \in 1..Len(calls) : \A x \in calls[d].on : E!Expires(x)'
  BY DEF E!EntityInv, E!TypeOK, E!Frame, Identities
<1>5. \A h \in E!Handles : E!Expires(handle[h])'
  <2> SUFFICES ASSUME NEW h \in E!Handles PROVE E!Expires(handle[h])'
    OBVIOUS
  <2>1. PICK x \in Identities : x = handle[h]
    BY DEF E!EntityInv, Identities
  <2>2. E!Expires(x)'
    BY <2>1 DEF E!EntityInv
  <2> QED  BY <1>1, <2>1, <2>2 DEF E!Expires
<1> QED  BY <1>1, <1>2, <1>3, <1>4, <1>5 DEF E!EntityInv

\* The epoch advances.
LEMMA EpochEnds ==
  ASSUME E!TypeOK, E!EntityInv, epoch' = E!Invalidated(epoch)
  PROVE  /\ epoch' \in Epoch /\ epoch'.missed = epoch.missed
         /\ \A x \in Identities : E!Expires(x) => E!Expires(x)'
<1>1. epoch \in Epoch
  BY Parts
<1>2. epoch' \in Epoch /\ epoch'.number = epoch.number + 1 /\ epoch'.missed = epoch.missed
  BY <1>1, Advances
<1>3. \A x \in Identities : x.epoch \in Nat
  BY DEF Identities, E!Identity, E!NoIdentity
<1> QED  BY <1>1, <1>2, <1>3 DEF E!Expires, Epoch

LEMMA RegisterLoopModeStep ==
  ASSUME E!TypeOK, E!EntityInv, E!RegisterLoopMode
  PROVE  E!TypeOK' /\ E!EntityInv'
<1>1. /\ ~engine.factory /\ E!Turn /\ engine' = [engine EXCEPT !.factory = TRUE]
      /\ seen' = [seen EXCEPT !.factory = TRUE] /\ epoch' = epoch /\ told' = told
  BY DEF E!RegisterLoopMode
<1>2. PICK ok \in BOOLEAN : /\ hooked' = [hooked EXCEPT !.factory = ok]
                            /\ hooked.factory => ok
  BY Parts DEF E!RegisterLoopMode, E!Placed, Hooked
<1>3. engine \in Engine /\ hooked \in Hooked /\ seen \in Seen /\ epoch \in Epoch
  BY Parts
<1>4. /\ engine' \in Engine /\ hooked' \in Hooked /\ seen' \in Seen
      /\ engine'.loop = engine.loop /\ engine'.map = engine.map
      /\ seen'.factory /\ seen'.loop = seen.loop /\ seen'.level = seen.level
      /\ hooked'.loop = hooked.loop /\ (hooked.factory => hooked'.factory)
  BY <1>1, <1>2, <1>3 DEF Engine, Hooked, Seen
<1>5. E!LevelsSeen'
  BY <1>1, <1>4 DEF E!EntityInv, E!LevelsSeen
<1>6. \A x \in Identities : E!Expires(x) => E!Expires(x)'
  BY <1>1, <1>4 DEF E!Expires
<1> QED  BY <1>1, <1>3, <1>4, <1>5, <1>6, TurnStep DEF E!TypeOK

LEMMA UnregisterLoopModeStep ==
  ASSUME E!TypeOK, E!EntityInv, E!UnregisterLoopMode
  PROVE  E!TypeOK' /\ E!EntityInv'
<1>1. /\ engine.loop = "none" /\ E!Turn /\ engine' = [engine EXCEPT !.factory = FALSE]
      /\ seen' = [seen EXCEPT !.factory = FALSE]
      /\ hooked' = hooked /\ epoch' = epoch /\ told' = told
  BY DEF E!UnregisterLoopMode
<1>2. engine \in Engine /\ hooked \in Hooked /\ seen \in Seen /\ epoch \in Epoch
  BY Parts
<1>3. /\ engine' \in Engine /\ seen' \in Seen
      /\ ~engine'.factory /\ engine'.loop = engine.loop /\ engine'.map = engine.map
      /\ seen'.loop = seen.loop /\ seen'.level = seen.level
  BY <1>1, <1>2 DEF Engine, Seen
<1>4. E!LevelsSeen'
  BY <1>1, <1>3 DEF E!EntityInv, E!LevelsSeen
<1>5. \A x \in Identities : E!Expires(x) => E!Expires(x)'
  BY <1>1, <1>3 DEF E!Expires
<1> QED  BY <1>1, <1>2, <1>3, <1>4, <1>5, TurnStep DEF E!TypeOK

LEMMA CreateLoopModeStep ==
  ASSUME E!TypeOK, E!EntityInv, E!CreateLoopMode
  PROVE  E!TypeOK' /\ E!EntityInv'
<1>1. /\ engine.factory /\ engine.loop = "none" /\ E!Turn /\ told' = told
      /\ engine' = [engine EXCEPT !.loop = "created"]
  BY DEF E!CreateLoopMode
<1>2. engine \in Engine /\ hooked \in Hooked /\ seen \in Seen /\ epoch \in Epoch
  BY Parts
<1>3. /\ engine' \in Engine /\ engine'.factory = engine.factory
      /\ engine'.loop = "created" /\ engine'.map = engine.map
  BY <1>1, <1>2 DEF Engine
<1>4. told \in {"nothing", "init", "wrong"}
  BY DEF E!TypeOK
<1>5. CASE hooked.factory /\ seen.factory
  <2>1. seen' = [seen EXCEPT !.loop = TRUE]
    BY <1>5 DEF E!CreateLoopMode
  <2>2. PICK ok \in BOOLEAN : /\ hooked' = [hooked EXCEPT !.loop = ok]
                              /\ epoch' = [epoch EXCEPT !.missed = @ \/ ~ok]
    BY <1>2, <1>5 DEF E!CreateLoopMode, E!Placed, Hooked
  <2>3. /\ seen' \in Seen /\ seen'.factory = seen.factory /\ seen'.loop
        /\ seen'.level = seen.level
    BY <2>1, <1>2 DEF Seen
  <2>4. hooked' \in Hooked /\ hooked'.factory = hooked.factory /\ hooked'.loop = ok
    BY <2>2, <1>2 DEF Hooked
  <2>5. /\ epoch' \in Epoch /\ epoch'.number = epoch.number
        /\ epoch'.missed = (epoch.missed \/ ~ok)
    BY <2>2, <1>2 DEF Epoch
  <2>6. E!LevelsSeen'
    BY <1>1, <1>3, <1>5, <2>3, <2>4, <2>5 DEF E!EntityInv, E!LevelsSeen
  <2>7. \A x \in Identities : E!Expires(x) => E!Expires(x)'
    BY <1>1, <1>3, <2>5 DEF E!Expires
  <2> QED  BY <1>1, <1>3, <1>4, <2>3, <2>4, <2>5, <2>6, <2>7, TurnStep
<1>6. CASE ~(hooked.factory /\ seen.factory)
  <2>1. epoch' = [epoch EXCEPT !.missed = TRUE] /\ seen' = seen /\ hooked' = hooked
    BY <1>6 DEF E!CreateLoopMode
  <2>2. epoch' \in Epoch /\ epoch'.number = epoch.number /\ epoch'.missed
    BY <2>1, <1>2 DEF Epoch
  <2>3. E!LevelsSeen'
    BY <1>1, <1>3, <2>1, <2>2 DEF E!EntityInv, E!LevelsSeen
  <2>4. \A x \in Identities : E!Expires(x) => E!Expires(x)'
    BY <2>2 DEF E!Expires
  <2> QED  BY <1>1, <1>2, <1>3, <1>4, <2>1, <2>2, <2>3, <2>4, TurnStep
<1> QED  BY <1>5, <1>6

\* Only an engine's step that moves no map and ends no level is left.
LEMMA QuietTurn ==
  ASSUME E!TypeOK, E!EntityInv, E!Turn, UNCHANGED <<hooked, seen, epoch, told>>,
         engine' \in Engine, engine'.factory = engine.factory,
         engine'.loop # "none" => engine.loop # "none",
         engine.loop = "up" <=> engine'.loop = "up",
         engine.loop = "up" /\ engine.map # 0 => engine'.map = engine.map
  PROVE  E!TypeOK' /\ E!EntityInv'
<1>1. hooked \in Hooked /\ seen \in Seen /\ epoch \in Epoch
  BY Parts
<1>2. E!LevelsSeen'
  BY DEF E!EntityInv, E!LevelsSeen
<1>3. \A x \in Identities : E!Expires(x) => E!Expires(x)'
  BY DEF E!Expires
<1> QED  BY <1>1, <1>2, <1>3, TurnStep DEF E!TypeOK

LEMMA EngineStepStep ==
  ASSUME E!EntityConstants, E!TypeOK, E!EntityInv, E!EngineStep
  PROVE  E!TypeOK' /\ E!EntityInv'
<1>1. E!Turn /\ UNCHANGED <<hooked, seen, epoch, told>>
  BY DEF E!EngineStep
<1>2. engine \in Engine
  BY Parts
<1> DEFINE Quietly(e) ==
             /\ e \in Engine /\ e.factory = engine.factory
             /\ (e.loop # "none" => engine.loop # "none")
             /\ (engine.loop = "up" <=> e.loop = "up")
             /\ (engine.loop = "up" /\ engine.map # 0 => e.map = engine.map)
<1>3. Quietly(engine')
  <2>1. CASE /\ engine.loop \in {"created", "down"} /\ engine.maps < MaxMaps
             /\ engine' = [engine EXCEPT !.loop = "starting", !.maps = @ + 1]
    <3>1. PICK e : e = [engine EXCEPT !.loop = "starting"]
      OBVIOUS
    <3>2. e \in Engine /\ e.factory = engine.factory /\ e.loop = "starting" /\ e.maps = engine.maps
      BY <1>2, <3>1 DEF Engine
    <3>3. engine' = [e EXCEPT !.maps = e.maps + 1]
      BY <2>1, <3>1, <3>2
    <3>4. e.maps + 1 \in 0..MaxMaps
      BY <2>1, <3>2 DEF Engine, E!EntityConstants
    <3>5. engine' \in Engine /\ engine'.factory = e.factory /\ engine'.loop = e.loop
      BY <3>2, <3>3, <3>4 DEF Engine
    <3> QED  BY <2>1, <3>2, <3>5
  <2>2. CASE engine.loop = "stopping" /\ engine' = [engine EXCEPT !.loop = "down"]
    BY <1>2, <2>2 DEF Engine
  <2>3. CASE /\ engine.map = 0 /\ engine.loop \in {"starting", "up"}
             /\ engine' = [engine EXCEPT !.map = engine.maps, !.last = 0]
    <3>1. PICK e : e = [engine EXCEPT !.map = engine.maps]
      OBVIOUS
    <3>2. e \in Engine /\ e.factory = engine.factory /\ e.loop = engine.loop
      BY <1>2, <3>1 DEF Engine
    <3>3. engine' = [e EXCEPT !.last = 0] /\ 0 \in 0..MaxSerial
      BY <2>3, <3>1 DEF E!EntityConstants
    <3>4. engine' \in Engine /\ engine'.factory = e.factory /\ engine'.loop = e.loop
      BY <3>2, <3>3 DEF Engine
    <3> QED  BY <2>3, <3>2, <3>4
  <2>4. CASE /\ engine.map # 0 /\ engine.loop \notin {"starting", "up"}
             /\ engine' = [engine EXCEPT !.map = 0, !.entity = 0]
    <3>1. PICK e : e = [engine EXCEPT !.map = 0]
      OBVIOUS
    <3>2. e \in Engine /\ e.factory = engine.factory /\ e.loop = engine.loop
      <4>1. 0 \in 0..MaxMaps
        BY DEF E!EntityConstants
      <4> QED  BY <1>2, <3>1, <4>1 DEF Engine
    <3>3. engine' = [e EXCEPT !.entity = 0] /\ 0 \in 0..MaxSerial
      BY <2>4, <3>1 DEF E!EntityConstants
    <3>4. engine' \in Engine /\ engine'.factory = e.factory /\ engine'.loop = e.loop
      BY <3>2, <3>3 DEF Engine
    <3> QED  BY <2>4, <3>2, <3>4
  <2>5. CASE /\ engine.map # 0 /\ engine.entity = 0 /\ engine.last < MaxSerial
             /\ engine' = [engine EXCEPT !.entity = engine.last + 1, !.last = @ + 1]
    <3>1. PICK e : e = [engine EXCEPT !.entity = engine.last + 1]
      OBVIOUS
    <3>2. engine.last + 1 \in 0..MaxSerial
      BY <1>2, <2>5 DEF Engine, E!EntityConstants
    <3>3. /\ e \in Engine /\ e.factory = engine.factory /\ e.loop = engine.loop
          /\ e.map = engine.map /\ e.last = engine.last
      BY <1>2, <3>1, <3>2 DEF Engine
    <3>4. engine' = [e EXCEPT !.last = engine.last + 1]
      BY <2>5, <3>1, <3>3
    <3>5. /\ engine' \in Engine /\ engine'.factory = e.factory /\ engine'.loop = e.loop
          /\ engine'.map = e.map
      BY <3>2, <3>3, <3>4 DEF Engine
    <3> QED  BY <3>3, <3>5
  <2>6. CASE engine.entity # 0 /\ engine' = [engine EXCEPT !.entity = 0]
    BY <1>2, <2>6 DEF Engine, E!EntityConstants
  <2> QED  BY <2>1, <2>2, <2>3, <2>4, <2>5, <2>6 DEF E!EngineStep
<1> QED  BY <1>1, <1>3, QuietTurn

LEMMA LoopInitStep ==
  ASSUME E!TypeOK, E!EntityInv, E!LoopInit
  PROVE  E!TypeOK' /\ E!EntityInv'
<1>1. engine.loop = "starting" /\ E!Turn /\ hooked' = hooked
  BY DEF E!LoopInit
<1>2. engine \in Engine /\ hooked \in Hooked /\ seen \in Seen /\ epoch \in Epoch
  BY Parts
<1>3. CASE /\ engine' = [engine EXCEPT !.loop = "down"]
           /\ UNCHANGED <<seen, epoch, told>>
  <2>1. /\ engine' \in Engine /\ engine'.factory = engine.factory /\ engine'.loop = "down"
    BY <1>2, <1>3 DEF Engine
  <2> QED  BY <1>1, <1>3, <2>1, QuietTurn
<1>4. CASE engine' = [engine EXCEPT !.loop = "up"]
  <2>1. /\ engine' \in Engine /\ engine'.factory = engine.factory /\ engine'.loop = "up"
        /\ engine'.map = engine.map
    BY <1>2, <1>4 DEF Engine
  <2>2. CASE hooked.loop /\ seen.loop /\ ~seen.level
    <3>1. seen' = [seen EXCEPT !.level = TRUE] /\ epoch' = E!Invalidated(epoch)
          /\ told' = E!Sent("init")
      BY <1>2, <1>4, <2>1, <2>2 DEF E!LoopInit, Engine
    <3>2. /\ seen' \in Seen /\ seen'.factory = seen.factory /\ seen'.loop = seen.loop
          /\ seen'.level
      BY <3>1, <1>2 DEF Seen
    <3>3. told = "nothing" /\ told' = "init"
      BY <2>2, <3>1 DEF E!EntityInv, E!LevelsSeen, E!Sent
    <3>4. /\ epoch' \in Epoch /\ epoch'.missed = epoch.missed
          /\ \A x \in Identities : E!Expires(x) => E!Expires(x)'
      BY <3>1, EpochEnds
    <3>5. E!LevelsSeen'
      BY <1>1, <2>1, <2>2, <3>2, <3>3, <3>4 DEF E!EntityInv, E!LevelsSeen
    <3> QED  BY <1>1, <1>2, <2>1, <3>2, <3>3, <3>4, <3>5, TurnStep
  <2>3. CASE ~(hooked.loop /\ seen.loop /\ ~seen.level)
    <3>1. UNCHANGED <<seen, epoch, told>>
      BY <1>2, <1>4, <2>1, <2>3 DEF E!LoopInit, Engine
    <3>2. epoch.missed
      BY <1>1, <2>3 DEF E!EntityInv, E!LevelsSeen
    <3>3. E!LevelsSeen'
      BY <1>1, <2>1, <3>1, <3>2 DEF E!EntityInv, E!LevelsSeen
    <3>4. \A x \in Identities : E!Expires(x) => E!Expires(x)'
      BY <3>1, <3>2 DEF E!Expires
    <3> QED  BY <1>1, <1>2, <2>1, <3>1, <3>3, <3>4, TurnStep DEF E!TypeOK
  <2> QED  BY <2>2, <2>3
<1> QED  BY <1>3, <1>4 DEF E!LoopInit

LEMMA LoopShutdownStep ==
  ASSUME E!TypeOK, E!EntityInv, E!LoopShutdown
  PROVE  E!TypeOK' /\ E!EntityInv'
<1>1. /\ engine.loop = "up" /\ E!Turn /\ hooked' = hooked
      /\ engine' = [engine EXCEPT !.loop = "stopping"]
  BY DEF E!LoopShutdown
<1>2. engine \in Engine /\ hooked \in Hooked /\ seen \in Seen /\ epoch \in Epoch
  BY Parts
<1>3. /\ engine' \in Engine /\ engine'.factory = engine.factory
      /\ engine'.loop = "stopping" /\ engine'.map = engine.map
  BY <1>1, <1>2 DEF Engine
<1>4. CASE hooked.loop /\ seen.level
  <2>1. seen' = [seen EXCEPT !.level = FALSE] /\ epoch' = E!Invalidated(epoch)
        /\ told' = E!Sent("shutdown")
    BY <1>4 DEF E!LoopShutdown
  <2>2. /\ seen' \in Seen /\ seen'.factory = seen.factory /\ seen'.loop = seen.loop
        /\ ~seen'.level
    BY <2>1, <1>2 DEF Seen
  <2>3. told = "init" /\ told' = "nothing"
    BY <1>4, <2>1 DEF E!EntityInv, E!LevelsSeen, E!Sent
  <2>4. /\ epoch' \in Epoch /\ epoch'.missed = epoch.missed
        /\ \A x \in Identities : E!Expires(x) => E!Expires(x)'
    BY <2>1, EpochEnds
  <2>5. E!LevelsSeen'
    BY <1>1, <1>3, <2>2, <2>3, <2>4 DEF E!EntityInv, E!LevelsSeen
  <2> QED  BY <1>1, <1>2, <1>3, <2>2, <2>3, <2>4, <2>5, TurnStep
<1>5. CASE ~(hooked.loop /\ seen.level)
  <2>1. UNCHANGED <<seen, epoch, told>>
    BY <1>5 DEF E!LoopShutdown
  <2>2. epoch.missed
    BY <1>1, <1>5 DEF E!EntityInv, E!LevelsSeen
  <2>3. E!LevelsSeen'
    BY <1>1, <1>3, <2>1, <2>2 DEF E!EntityInv, E!LevelsSeen
  <2>4. \A x \in Identities : E!Expires(x) => E!Expires(x)'
    BY <2>1, <2>2 DEF E!Expires
  <2> QED  BY <1>1, <1>2, <1>3, <2>1, <2>3, <2>4, TurnStep DEF E!TypeOK
<1> QED  BY <1>4, <1>5

LEMMA DestroyLoopModeStep ==
  ASSUME E!TypeOK, E!EntityInv, E!DestroyLoopMode
  PROVE  E!TypeOK' /\ E!EntityInv'
<1>1. /\ engine.loop \in {"created", "up", "down"} /\ E!Turn /\ hooked' = hooked
      /\ engine' = [engine EXCEPT !.loop = "none"]
  BY DEF E!DestroyLoopMode
<1>2. engine \in Engine /\ hooked \in Hooked /\ seen \in Seen /\ epoch \in Epoch
  BY Parts
<1>3. /\ engine' \in Engine /\ engine'.factory = engine.factory
      /\ engine'.loop = "none" /\ engine'.map = engine.map
  BY <1>1, <1>2 DEF Engine
<1>4. CASE hooked.factory /\ seen.factory
  <2>1. /\ seen' = [seen EXCEPT !.loop = FALSE, !.level = FALSE]
        /\ epoch' = IF seen.level THEN E!Invalidated(epoch) ELSE epoch
        /\ told' = IF seen.level THEN "nothing" ELSE told
    BY <1>4 DEF E!DestroyLoopMode
  <2>2. /\ seen' \in Seen /\ seen'.factory = seen.factory /\ ~seen'.level
    BY <2>1, <1>2 DEF Seen
  <2>3. told' = "nothing"
    BY <2>1 DEF E!EntityInv, E!LevelsSeen
  <2>4. /\ epoch' \in Epoch /\ epoch'.missed = epoch.missed
        /\ \A x \in Identities : E!Expires(x) => E!Expires(x)'
    <3>1. CASE seen.level
      BY <2>1, <3>1, EpochEnds
    <3>2. CASE ~seen.level
      <4>1. epoch' = epoch
        BY <2>1, <3>2
      <4>2. ~epoch.missed => engine.loop # "up"
        BY <3>2 DEF E!EntityInv, E!LevelsSeen
      <4> QED  BY <1>2, <1>3, <4>1, <4>2 DEF E!Expires
    <3> QED  BY <3>1, <3>2
  <2>5. E!LevelsSeen'
    BY <1>1, <1>3, <2>2, <2>3, <2>4 DEF E!EntityInv, E!LevelsSeen
  <2> QED  BY <1>1, <1>2, <1>3, <2>2, <2>3, <2>4, <2>5, TurnStep
<1>5. CASE ~(hooked.factory /\ seen.factory)
  <2>1. UNCHANGED <<seen, epoch, told>>
    BY <1>5 DEF E!DestroyLoopMode
  <2>2. epoch.missed
    BY <1>1, <1>5 DEF E!EntityInv, E!LevelsSeen
  <2>3. E!LevelsSeen'
    BY <1>1, <1>3, <2>1, <2>2 DEF E!EntityInv, E!LevelsSeen
  <2>4. \A x \in Identities : E!Expires(x) => E!Expires(x)'
    BY <2>1, <2>2 DEF E!Expires
  <2> QED  BY <1>1, <1>2, <1>3, <2>1, <2>3, <2>4, TurnStep DEF E!TypeOK
<1> QED  BY <1>4, <1>5

-----------------------------------------------------------------------------
(* Steps of plugins leave the engine's loop alone.                         *)

\* What a call that is open says: its part of ReachesItsEntity, and of the epoch.
FrameHolds(f) ==
  /\ \/ f.current
     \/ epoch.missed
     \/ \E x \in f.on : x.late
     \/ f.call = "impulse" /\ f.second
  /\ \A x \in f.on : E!Expires(x)

FrameHoldsNext(f) == FrameHolds(f)'
SomeHold ==
  \A d \in 1..Len(calls') : \E f \in E!Frame : f = calls'[d] /\ FrameHoldsNext(f)

\* A step of a plugin looks at the epoch at most; handles and frames it leaves are old
\* ones or hold after the step.
Plays ==
  /\ UNCHANGED <<engine, hooked, seen, told>>
  /\ epoch' = epoch \/ epoch' = E!Looked

LEMMA EpochLooks ==
  ASSUME E!TypeOK, E!EntityInv, Plays
  PROVE  /\ epoch' \in Epoch /\ epoch'.missed = epoch.missed
         /\ \A x \in Identities : E!Expires(x) => E!Expires(x)'
<1>1. epoch \in Epoch /\ engine' = engine
  BY Parts DEF Plays
<1>2. CASE epoch' = epoch
  BY <1>1, <1>2 DEF E!Expires
<1>3. CASE epoch' = E!Looked
  <2>1. /\ epoch' \in Epoch /\ epoch'.missed = epoch.missed
        /\ epoch' = epoch \/ epoch'.number = epoch.number + 1
    BY <1>1, <1>3, Looks
  <2>2. \A x \in Identities : x.epoch \in Nat
    BY DEF Identities, E!Identity, E!NoIdentity
  <2> QED  BY <1>1, <2>1, <2>2 DEF E!Expires, Epoch
<1> QED  BY <1>2, <1>3 DEF Plays

LEMMA FramesKept ==
  ASSUME E!TypeOK, E!EntityInv, Plays
  PROVE  \A d \in 1..Len(calls) : \E f \in E!Frame : f = calls[d] /\ FrameHoldsNext(f)
<1> SUFFICES ASSUME NEW d \in 1..Len(calls)
             PROVE  \E f \in E!Frame : f = calls[d] /\ FrameHoldsNext(f)
  OBVIOUS
<1>1. PICK f \in E!Frame : f = calls[d]
  BY DEF E!TypeOK
<1>2. /\ epoch'.missed = epoch.missed
      /\ \A x \in Identities : E!Expires(x) => E!Expires(x)'
  BY EpochLooks
<1>3. \A x \in f.on : E!Expires(x)'
  BY <1>1, <1>2 DEF E!EntityInv, E!Frame, Identities
<1>4. \/ f.current
      \/ epoch.missed
      \/ \E x \in f.on : x.late
      \/ f.call = "impulse" /\ f.second
  BY <1>1 DEF E!EntityInv, E!ReachesItsEntity
<1>5. FrameHoldsNext(f)
  BY <1>2, <1>3, <1>4 DEF FrameHoldsNext, FrameHolds
<1> QED  BY <1>1, <1>5

LEMMA PlayStep ==
  ASSUME E!TypeOK, E!EntityInv, Plays,
         handle' \in [E!Handles -> Identities],
         \A h \in E!Handles : \E x \in Identities : x = handle'[h] /\ E!Expires(x)',
         calls' \in Seq(E!Frame),
         SomeHold
  PROVE  E!TypeOK' /\ E!EntityInv'
<1>1. epoch' \in Epoch /\ epoch'.missed = epoch.missed
  BY EpochLooks
<1>2. \A d \in 1..Len(calls') : calls'[d] \in E!Frame
  BY DEF SomeHold
<1>3. E!TypeOK'
  BY <1>1, <1>2 DEF E!TypeOK, Plays, Epoch, Identities
<1>4. E!LevelsSeen'
  BY <1>1 DEF E!EntityInv, E!LevelsSeen, Plays
<1>5. E!ReachesItsEntity'
  <2> SUFFICES ASSUME NEW d \in 1..Len(calls')
               PROVE  \/ calls'[d].current
                      \/ epoch'.missed
                      \/ \E x \in calls'[d].on : x.late
                      \/ calls'[d].call = "impulse" /\ calls'[d].second
    BY DEF E!ReachesItsEntity
  <2>1. PICK f \in E!Frame : f = calls'[d] /\ FrameHoldsNext(f)
    BY DEF SomeHold
  <2> QED  BY <2>1 DEF FrameHoldsNext, FrameHolds
<1>6. (\A d \in 1..Len(calls) : \A x \in calls[d].on : E!Expires(x))'
  <2> SUFFICES ASSUME NEW d \in 1..Len(calls'), NEW x \in calls'[d].on
               PROVE  E!Expires(x)'
    OBVIOUS
  <2>1. PICK f \in E!Frame : f = calls'[d] /\ FrameHoldsNext(f)
    BY DEF SomeHold
  <2> QED  BY <2>1 DEF FrameHoldsNext, FrameHolds
<1>7. \A h \in E!Handles : E!Expires(handle[h])'
  <2> SUFFICES ASSUME NEW h \in E!Handles PROVE E!Expires(handle[h])'
    OBVIOUS
  <2>1. PICK x \in Identities : x = handle'[h] /\ E!Expires(x)'
    OBVIOUS
  <2> QED  BY <2>1 DEF E!Expires
<1> QED  BY <1>3, <1>4, <1>5, <1>6, <1>7 DEF E!EntityInv, Identities

\* The handles are as they were.
LEMMA SameHandles ==
  ASSUME E!TypeOK, E!EntityInv, Plays
  PROVE  \A h \in E!Handles : \E x \in Identities : x = handle[h] /\ E!Expires(x)'
<1> SUFFICES ASSUME NEW h \in E!Handles
             PROVE  \E x \in Identities : x = handle[h] /\ E!Expires(x)'
  OBVIOUS
<1>1. PICK x \in Identities : x = handle[h] /\ E!Expires(x)
  BY DEF E!EntityInv, Identities
<1> QED  BY <1>1, EpochLooks

LEMMA FreshHandle ==
  ASSUME E!TypeOK, E!EntityInv, Plays
  PROVE  E!NoIdentity \in Identities /\ E!Expires(E!NoIdentity)'
<1>1. epoch' \in Epoch
  BY EpochLooks
<1> QED  BY <1>1 DEF Identities, E!Expires, E!NoIdentity, Epoch

\* One handle changes, to an identity that expires with its map.
LEMMA HandleStep ==
  ASSUME E!TypeOK, E!EntityInv, Plays, calls' = calls,
         NEW h \in E!Handles, NEW y \in Identities, E!Expires(y)',
         handle' = [handle EXCEPT ![h] = y]
  PROVE  E!TypeOK' /\ E!EntityInv'
<1>1. handle \in [E!Handles -> Identities]
  BY DEF E!EntityInv, Identities
<1>2. /\ handle' \in [E!Handles -> Identities] /\ handle'[h] = y
      /\ \A g \in E!Handles \ {h} : handle'[g] = handle[g]
  BY <1>1
<1>3. \A g \in E!Handles : \E x \in Identities : x = handle'[g] /\ E!Expires(x)'
  BY <1>2, SameHandles
<1>4. calls' \in Seq(E!Frame) /\ SomeHold
  BY FramesKept DEF E!EntityInv, SomeHold
<1> QED  BY <1>2, <1>3, <1>4, PlayStep

\* Only the calls change.
LEMMA FrameStep ==
  ASSUME E!TypeOK, E!EntityInv, Plays, handle' = handle,
         calls' \in Seq(E!Frame),
         SomeHold
  PROVE  E!TypeOK' /\ E!EntityInv'
<1>1. handle' \in [E!Handles -> Identities]
  BY DEF E!EntityInv, Identities
<1>2. \A g \in E!Handles : \E x \in Identities : x = handle'[g] /\ E!Expires(x)'
  BY SameHandles
<1> QED  BY <1>1, <1>2, PlayStep

-----------------------------------------------------------------------------
(* Each action of a plugin.                                                *)

\* The entity that is in its place, taken now.
LEMMA TakenNow ==
  ASSUME E!TypeOK, E!EntityInv, Plays, epoch' = E!Looked, engine.map # 0, engine.entity # 0
  PROVE  \E x \in E!Identity : x = E!Here /\ E!Expires(x)'
<1>1. engine \in Engine /\ epoch' \in Epoch /\ engine' = engine
  BY Parts, EpochLooks DEF Plays
<1>2. engine.map \in 1..MaxMaps /\ engine.entity \in 1..MaxSerial
  BY <1>1 DEF Engine
<1>3. PICK x : x = E!Here
  OBVIOUS
<1>4. /\ x \in E!Identity /\ x.epoch = epoch'.number /\ x.map = engine.map
      /\ x.late <=> engine.loop # "up"
  BY <1>1, <1>2, <1>3 DEF E!Here, E!Identity, Epoch
<1>5. E!Expires(x)'
  BY <1>1, <1>4 DEF E!Expires, Epoch
<1> QED  BY <1>3, <1>4, <1>5

LEMMA FindStep ==
  ASSUME E!TypeOK, E!EntityInv, NEW h \in E!Handles, E!Find(h)
  PROVE  E!TypeOK' /\ E!EntityInv'
<1>1. Plays /\ epoch' = E!Looked /\ calls' = calls
  BY DEF E!Find, Plays
<1>2. CASE engine.map # 0 /\ engine.entity # 0
  <2>1. PICK x \in E!Identity : x = E!Here /\ E!Expires(x)'
    BY <1>1, <1>2, TakenNow
  <2>2. x \in Identities
    BY DEF Identities
  <2>3. handle' = [handle EXCEPT ![h] = x]
    BY <1>2, <2>1 DEF E!Find
  <2> QED  BY <1>1, <2>1, <2>2, <2>3, HandleStep
<1>3. CASE ~(engine.map # 0 /\ engine.entity # 0)
  <2>1. handle' = handle
    BY <1>3 DEF E!Find
  <2>2. calls' \in Seq(E!Frame) /\ SomeHold
    BY <1>1, FramesKept DEF E!EntityInv, SomeHold
  <2> QED  BY <1>1, <2>1, <2>2, FrameStep
<1> QED  BY <1>2, <1>3

LEMMA ReleaseEntityStep ==
  ASSUME E!TypeOK, E!EntityInv, NEW h \in E!Handles, E!ReleaseEntity(h)
  PROVE  E!TypeOK' /\ E!EntityInv'
<1>1. Plays /\ calls' = calls /\ handle' = [handle EXCEPT ![h] = E!NoIdentity]
  BY DEF E!ReleaseEntity, Plays
<1> QED  BY <1>1, FreshHandle, HandleStep

LEMMA ReleasePluginStep ==
  ASSUME E!TypeOK, E!EntityInv, E!ReleasePlugin
  PROVE  E!TypeOK' /\ E!EntityInv'
<1>1. Plays /\ calls' = calls /\ handle' = [h \in E!Handles |-> E!NoIdentity]
  BY DEF E!ReleasePlugin, Plays
<1>2. calls' \in Seq(E!Frame) /\ SomeHold
  BY <1>1, FramesKept DEF E!EntityInv, SomeHold
<1> QED  BY <1>1, <1>2, FreshHandle, PlayStep

\* What was found valid is the entity the handle was made for, or the exceptions hold.
LEMMA ValidIsCurrent ==
  ASSUME E!TypeOK, E!EntityInv, Plays, epoch' = E!Looked, NEW S \in SUBSET E!Identity,
         \A x \in S : E!Valid(x) /\ E!Expires(x)'
  PROVE  E!Current(S) \/ epoch'.missed \/ \E x \in S : x.late
BY DEF E!Valid, E!Live, E!Current, E!Expires, Plays

LEMMA ReachStep ==
  ASSUME E!TypeOK, E!EntityInv, NEW call \in E!Calls, NEW S \in SUBSET E!Identity,
         \A x \in S : Plays /\ epoch' = E!Looked => E!Expires(x)',
         E!Reach(call, S), UNCHANGED handle
  PROVE  E!TypeOK' /\ E!EntityInv'
<1>1. Plays /\ epoch' = E!Looked
  BY DEF E!Reach, Plays
<1>2. CASE calls' = calls
  <2>1. calls' \in Seq(E!Frame) /\ SomeHold
    BY <1>1, <1>2, FramesKept DEF E!EntityInv, SomeHold
  <2> QED  BY <1>1, <2>1, FrameStep
<1>3. CASE calls' # calls
  <2>1. PICK f : f = [call |-> call, on |-> S, second |-> FALSE, current |-> E!Current(S)]
    OBVIOUS
  <2>2. (\A x \in S : E!Valid(x)) /\ calls' = Append(calls, f)
    BY <1>3, <2>1 DEF E!Reach
  <2>3. E!Current(S) \in BOOLEAN
    BY DEF E!Current
  <2>4. f \in E!Frame /\ f.on = S /\ f.current = E!Current(S)
    BY <2>1, <2>3 DEF E!Frame
  <2>5. E!Current(S) \/ epoch'.missed \/ \E x \in S : x.late
    BY <1>1, <2>2, ValidIsCurrent
  <2>6. FrameHoldsNext(f)
    BY <1>1, <2>4, <2>5 DEF FrameHoldsNext, FrameHolds
  <2>7. calls \in Seq(E!Frame)
    BY DEF E!EntityInv
  <2>8. calls' \in Seq(E!Frame)
    BY <2>2, <2>4, <2>7
  <2>9. \A d \in 1..Len(calls') : \/ d \in 1..Len(calls) /\ calls'[d] = calls[d]
                                 \/ calls'[d] = f
    BY <2>2, <2>4, <2>7
  <2>10. SomeHold
    BY <1>1, <2>4, <2>6, <2>9, FramesKept DEF SomeHold
  <2> QED  BY <1>1, <2>8, <2>10, FrameStep
<1> QED  BY <1>2, <1>3

LEMMA UseStep ==
  ASSUME E!TypeOK, E!EntityInv, NEW call \in E!Calls, NEW H \in SUBSET E!Handles, E!Use(call, H)
  PROVE  E!TypeOK' /\ E!EntityInv'
<1>1. PICK S : S = {handle[h] : h \in H}
  OBVIOUS
<1>2. E!Reach(call, S) /\ \A h \in H : handle[h] # E!NoIdentity
  BY <1>1 DEF E!Use
<1>3. S \in SUBSET E!Identity
  BY <1>1, <1>2 DEF E!EntityInv
<1>4. \A x \in S : E!Expires(x)
  BY <1>1 DEF E!EntityInv
<1>5. \A x \in S : Plays /\ epoch' = E!Looked => E!Expires(x)'
  BY <1>3, <1>4, EpochLooks DEF Identities
<1>6. handle' = handle
  BY <1>2 DEF E!Reach
<1> QED  BY <1>2, <1>3, <1>5, <1>6, ReachStep

LEMMA TerminateRoundStep ==
  ASSUME E!TypeOK, E!EntityInv, E!TerminateRound
  PROVE  E!TypeOK' /\ E!EntityInv'
<1>1. engine.map # 0 /\ engine.entity # 0 /\ E!Reach("once", {E!Here})
  BY DEF E!TerminateRound
<1>2. Plays /\ epoch' = E!Looked /\ handle' = handle
  BY <1>1 DEF E!Reach, Plays
<1>3. PICK x \in E!Identity : x = E!Here /\ E!Expires(x)'
  BY <1>1, <1>2, TakenNow
<1>4. E!Reach("once", {x})
  BY <1>1, <1>3
<1> QED  BY <1>2, <1>3, <1>4, ReachStep DEF E!Calls

-----------------------------------------------------------------------------
(* A call returns, or goes on after engine code ran.                       *)

LEMMA TopCall ==
  ASSUME E!TypeOK, E!EntityInv, Plays, calls # <<>>
  PROVE  /\ E!Front(calls) \in Seq(E!Frame)
         /\ Len(E!Front(calls)) = Len(calls) - 1
         /\ \A d \in 1..Len(calls) - 1 : E!Front(calls)[d] = calls[d]
         /\ \E f \in E!Frame : f = E!Top /\ FrameHoldsNext(f)
<1>1. calls \in Seq(E!Frame) /\ Len(calls) \in Nat \ {0}
  BY DEF E!EntityInv
<1>2. E!Front(calls) = [d \in 1..Len(calls) - 1 |-> calls[d]]
  BY <1>1 DEF E!Front
<1>3. \E f \in E!Frame : f = E!Top /\ FrameHoldsNext(f)
  BY <1>1, FramesKept DEF E!Top, E!Last
<1> QED  BY <1>1, <1>2, <1>3

\* The innermost call ends.
LEMMA Ends ==
  ASSUME E!TypeOK, E!EntityInv, Plays, calls # <<>>, handle' = handle,
         calls' = E!Front(calls)
  PROVE  E!TypeOK' /\ E!EntityInv'
<1>1. calls \in Seq(E!Frame) /\ calls' \in Seq(E!Frame) /\ Len(calls') = Len(calls) - 1
  BY TopCall DEF E!EntityInv
<1>2. \A d \in 1..Len(calls') : d \in 1..Len(calls) /\ calls'[d] = calls[d]
  BY <1>1, TopCall
<1>3. SomeHold
  BY <1>2, FramesKept DEF SomeHold
<1> QED  BY <1>1, <1>3, FrameStep

\* The innermost call goes on with what it holds.
LEMMA GoesOn ==
  ASSUME E!TypeOK, E!EntityInv, Plays, calls # <<>>, handle' = handle,
         calls' = E!Second,
         \/ E!Top.call = "impulse"
         \/ epoch' = E!Looked /\ \A x \in E!Top.on : E!Valid(x)
  PROVE  E!TypeOK' /\ E!EntityInv'
<1>1. PICK f \in E!Frame : f = E!Top /\ FrameHoldsNext(f)
  BY TopCall
<1>2. PICK g : g = [f EXCEPT !.second = TRUE, !.current = E!Current(f.on)]
  OBVIOUS
<1>3. PICK b \in BOOLEAN : b = E!Current(f.on)
  BY DEF E!Current
<1>4. PICK e : e = [f EXCEPT !.second = TRUE]
  OBVIOUS
<1>5. e \in E!Frame /\ e.on = f.on /\ e.call = f.call /\ e.second
  BY <1>4 DEF E!Frame
<1>6. g = [e EXCEPT !.current = b]
  BY <1>2, <1>3, <1>4
<1>7. g \in E!Frame /\ g.on = f.on /\ g.call = f.call /\ g.second /\ g.current = b
  BY <1>5, <1>6 DEF E!Frame
<1>8. \A x \in f.on : E!Expires(x)'
  BY <1>1 DEF FrameHoldsNext, FrameHolds
<1>9. E!Current(f.on) \/ epoch'.missed \/ (\E x \in f.on : x.late) \/ f.call = "impulse"
  <2>1. CASE epoch' = E!Looked /\ \A x \in f.on : E!Valid(x)
    <3>1. f.on \in SUBSET E!Identity
      BY DEF E!Frame
    <3> QED  BY <2>1, <3>1, <1>8, ValidIsCurrent
  <2> QED  BY <1>1, <2>1
<1>10. FrameHoldsNext(g)
  BY <1>3, <1>7, <1>8, <1>9 DEF FrameHoldsNext, FrameHolds
<1>11. calls' = Append(E!Front(calls), g)
  BY <1>1, <1>2 DEF E!Second
<1>12. E!Front(calls) \in Seq(E!Frame) /\ Len(E!Front(calls)) = Len(calls) - 1
       /\ calls \in Seq(E!Frame)
  BY TopCall DEF E!EntityInv
<1>13. calls' \in Seq(E!Frame)
  BY <1>7, <1>11, <1>12
<1>14. \A d \in 1..Len(calls') :
         \/ d \in 1..Len(calls) - 1 /\ calls'[d] = E!Front(calls)[d]
         \/ calls'[d] = g
  BY <1>7, <1>11, <1>12
<1>15. \A d \in 1..Len(calls') :
         \/ d \in 1..Len(calls) /\ calls'[d] = calls[d]
         \/ calls'[d] = g
  BY <1>12, <1>14, TopCall
<1>16. SomeHold
  BY <1>7, <1>10, <1>15, FramesKept DEF SomeHold
<1> QED  BY <1>13, <1>16, FrameStep

LEMMA ReturnStep ==
  ASSUME E!TypeOK, E!EntityInv, E!Return
  PROVE  E!TypeOK' /\ E!EntityInv'
BY Ends DEF E!Return, Plays

LEMMA RespawnStep ==
  ASSUME E!TypeOK, E!EntityInv, E!Respawn
  PROVE  E!TypeOK' /\ E!EntityInv'
<1>1. Plays /\ calls # <<>> /\ epoch' = E!Looked /\ handle' = handle
  BY DEF E!Respawn, Plays
<1>2. CASE \A x \in E!Top.on : E!Valid(x)
  <2>1. calls' = E!Second
    BY <1>2 DEF E!Respawn
  <2> QED  BY <1>1, <1>2, <2>1, GoesOn
<1>3. CASE ~\A x \in E!Top.on : E!Valid(x)
  <2>1. calls' = E!Front(calls)
    BY <1>3 DEF E!Respawn
  <2> QED  BY <1>1, <2>1, Ends
<1> QED  BY <1>2, <1>3

LEMMA DamageStep ==
  ASSUME E!TypeOK, E!EntityInv, E!Damage
  PROVE  E!TypeOK' /\ E!EntityInv'
<1>1. Plays /\ calls # <<>> /\ handle' = handle /\ E!Top.call = "impulse"
  BY DEF E!Damage, Plays
<1>2. CASE \A x \in E!Top.on : E!Live(x)
  <2>1. calls' = E!Second
    BY <1>2 DEF E!Damage
  <2> QED  BY <1>1, <2>1, GoesOn
<1>3. CASE ~\A x \in E!Top.on : E!Live(x)
  <2>1. calls' = E!Front(calls)
    BY <1>3 DEF E!Damage
  <2> QED  BY <1>1, <2>1, Ends
<1> QED  BY <1>2, <1>3

-----------------------------------------------------------------------------
(* The theorems.                                                           *)

LEMMA EntityInitially ==
  ASSUME E!EntityConstants, E!Init
  PROVE  E!TypeOK /\ E!EntityInv
<1>1. E!NoIdentity \in Identities /\ E!NoIdentity.epoch = 0
  BY DEF Identities, E!NoIdentity
<1>2. /\ engine \in Engine /\ engine.loop = "none" /\ ~engine.factory
      /\ hooked \in Hooked /\ seen \in Seen /\ ~seen.level
      /\ epoch \in Epoch /\ epoch.number = 1
  BY DEF E!Init, Engine, Hooked, Seen, Epoch, E!EntityConstants
<1>3. handle \in [E!Handles -> Identities] /\ \A h \in E!Handles : handle[h] = E!NoIdentity
  BY <1>1 DEF E!Init
<1>4. calls = <<>> /\ calls \in Seq(E!Frame) /\ Len(calls) = 0
  BY DEF E!Init
<1>5. E!TypeOK
  BY <1>1, <1>2, <1>3, <1>4, Parts DEF E!Init
<1>6. E!LevelsSeen
  BY <1>2 DEF E!Init, E!LevelsSeen
<1>7. E!Expires(E!NoIdentity)
  BY <1>1, <1>2 DEF E!Expires
<1> QED  BY <1>3, <1>4, <1>5, <1>6, <1>7 DEF E!EntityInv, E!ReachesItsEntity, Identities

\* What a plugin does with a handle: it makes, drops or uses it.
LEMMA HandleActions ==
  ASSUME E!TypeOK, E!EntityInv, NEW h \in E!Handles,
         \/ E!FindEntityByIndex(h) \/ E!CaptureEntity(h) \/ E!ReleaseEntity(h)
         \/ E!ReadEntityField(h) \/ E!DescribeEntity(h) \/ E!WriteField(h) \/ E!AccessPlayerStat(h)
         \/ E!EntityTool(h) \/ E!WeaponMatches(h) \/ E!PlayerAction(h) \/ E!ManagePlayer(h)
         \/ \E g \in E!Handles : E!EqualEntity(g, h)
         \/ \E serial \in 1..MaxSerial : E!FindEntityBySource2Handle(h, serial)
  PROVE  E!TypeOK' /\ E!EntityInv'
<1>1. CASE E!Find(h)
  BY <1>1, FindStep
<1>2. CASE E!ReleaseEntity(h)
  BY <1>2, ReleaseEntityStep
<1>3. ASSUME NEW call \in E!Calls, NEW H \in SUBSET E!Handles, E!Use(call, H)
      PROVE  E!TypeOK' /\ E!EntityInv'
  BY <1>3, UseStep
<1>4. {"once", "impulse", "respawn"} \subseteq E!Calls /\ {h} \in SUBSET E!Handles
      /\ \A g \in E!Handles : {g, h} \in SUBSET E!Handles
  BY DEF E!Calls
<1>5. CASE \/ E!ReadEntityField(h) \/ E!DescribeEntity(h) \/ E!WriteField(h)
           \/ E!AccessPlayerStat(h) \/ E!EntityTool(h) \/ E!WeaponMatches(h)
  BY <1>3, <1>4, <1>5
     DEF E!ReadEntityField, E!DescribeEntity, E!WriteField, E!AccessPlayerStat,
         E!EntityTool, E!WeaponMatches
<1>6. CASE E!PlayerAction(h) \/ E!ManagePlayer(h)
  BY <1>3, <1>4, <1>6 DEF E!PlayerAction, E!ManagePlayer
<1>7. CASE \E g \in E!Handles : E!EqualEntity(g, h)
  BY <1>3, <1>4, <1>7 DEF E!EqualEntity
<1> QED  BY <1>1, <1>2, <1>5, <1>6, <1>7
         DEF E!FindEntityByIndex, E!CaptureEntity, E!FindEntityBySource2Handle

LEMMA AnyEntityStep ==
  ASSUME E!EntityConstants, E!TypeOK, E!EntityInv, [E!Next]_(E!vars)
  PROVE  E!TypeOK' /\ E!EntityInv'
<1>1. CASE \/ E!RegisterLoopMode \/ E!UnregisterLoopMode \/ E!CreateLoopMode \/ E!LoopInit
           \/ E!LoopShutdown \/ E!DestroyLoopMode \/ E!EngineStep
  BY <1>1, RegisterLoopModeStep, UnregisterLoopModeStep, CreateLoopModeStep, LoopInitStep,
     LoopShutdownStep, DestroyLoopModeStep, EngineStepStep
<1>2. CASE E!ReleasePlugin \/ E!TerminateRound \/ E!Return \/ E!Respawn \/ E!Damage
  BY <1>2, ReleasePluginStep, TerminateRoundStep, ReturnStep, RespawnStep, DamageStep
<1>3. CASE \E H \in SUBSET E!Handles : E!VisitEntities(H) \/ E!EntityInput(H)
  BY <1>3, UseStep DEF E!VisitEntities, E!EntityInput, E!Calls
<1>4. CASE UNCHANGED E!vars
  <2>1. Plays /\ handle' = handle /\ calls' = calls
    BY <1>4 DEF E!vars, Plays
  <2>2. calls' \in Seq(E!Frame) /\ SomeHold
    BY <2>1, FramesKept DEF E!EntityInv, SomeHold
  <2> QED  BY <2>1, <2>2, FrameStep
<1> QED  BY <1>1, <1>2, <1>3, <1>4, HandleActions DEF E!Next

\* A level that plugins were told of is up, unless a hook was missed, and an identity
\* whose epoch is not over is of the map that is there (seen level, entity_epoch_).
THEOREM EntityInvariance ==
  ASSUME E!EntityConstants
  PROVE  E!Spec => [](E!TypeOK /\ E!EntityInv)
<1>1. E!Init => E!TypeOK /\ E!EntityInv
  BY EntityInitially
<1>2. E!TypeOK /\ E!EntityInv /\ [E!Next]_(E!vars) => (E!TypeOK /\ E!EntityInv)'
  BY AnyEntityStep
<1> QED  BY <1>1, <1>2, PTL DEF E!Spec

\* A call reaches the entity the plugin's handle was made for, but for the exceptions
\* ReachesItsEntity names (ValidateEntity and the epoch it compares).
THEOREM HandlesReachTheirEntity ==
  ASSUME E!EntityConstants
  PROVE  E!Spec => []E!ReachesItsEntity
<1>1. E!EntityInv => E!ReachesItsEntity
  BY DEF E!EntityInv
<1> QED  BY <1>1, EntityInvariance, PTL

\* Plugins hear of a level's start once, and then of its end (initialized_loops_).
THEOREM LevelEventsPair ==
  ASSUME E!EntityConstants
  PROVE  E!Spec => []E!LevelsPair
<1>1. E!EntityInv => E!LevelsPair
  BY DEF E!EntityInv, E!LevelsSeen, E!LevelsPair
<1> QED  BY <1>1, EntityInvariance, PTL
=============================================================================
