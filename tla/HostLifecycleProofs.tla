------------------------ MODULE HostLifecycleProofs ------------------------
(***************************************************************************)
(* Proofs about HostLifecycle for any threads, layers and depth of calls:  *)
(* the host's library is closed only when no thread is in it, Stop waits   *)
(* for no command of its own thread, a dispatched command keeps its        *)
(* record, and a host that is being released stays closed.                 *)
(***************************************************************************)
EXTENDS HostLifecycle, FiniteSetTheorems, SequenceTheorems, NaturalsInduction,
        WellFoundedInduction, TLAPS

-----------------------------------------------------------------------------
(* Each action changes at most two cells of the grid of calls, one above   *)
(* the other.                                                              *)

Levels == Nat \ {0}

\* The calls at depths d and d + 1 of t become g and h, and no other call changes; nothing
\* is above them.
Changes(t, d, g, h) ==
  /\ d \in Levels
  /\ \A u \in Threads, e \in Levels :
       Cell(u, e)' = IF u = t /\ e = d THEN g ELSE IF u = t /\ e = d + 1 THEN h ELSE Cell(u, e)
  /\ \A e \in Levels : e > d + 1 => Cell(t, e) = Nothing
  /\ d \notin Depths => g = Nothing /\ Cell(t, d) = Nothing
  /\ d + 1 \notin Depths => h = Nothing /\ Cell(t, d + 1) = Nothing

\* The stacks after a step.
StacksOK ==
  frames \in [Threads -> Seq(Frame)] /\ \A t \in Threads : Len(frames[t]) <= MaxDepth

LEMMA NothingFacts == Nothing.call = "none" /\ Nothing.at = "none" /\ Nothing.answer = "none"
BY DEF Nothing, Call

LEMMA CallNames == ASSUME NEW f \in Frame PROVE f # Nothing /\ f.call # "none"
BY NothingFacts DEF Frame

\* The stack of a thread.
LEMMA StackType ==
  ASSUME HostConstants, TypeOK, NEW t \in Threads
  PROVE  /\ frames[t] \in Seq(Frame) /\ Len(frames[t]) \in 0..MaxDepth
         /\ DOMAIN frames[t] = 1..Len(frames[t]) /\ MaxDepth \in Nat
         /\ \A d \in 1..Len(frames[t]) : frames[t][d] \in Frame
<1>1. frames[t] \in Seq(Frame) /\ Len(frames[t]) <= MaxDepth /\ MaxDepth \in Nat
  BY DEF TypeOK, HostConstants
<1>2. Len(frames[t]) \in Nat /\ DOMAIN frames[t] = 1..Len(frames[t])
  BY <1>1, LenProperties
<1>3. \A d \in 1..Len(frames[t]) : frames[t][d] \in Frame
  BY <1>1, ElementOfSeq
<1> QED  BY <1>1, <1>2, <1>3

\* A cell holds a call or nothing.
LEMMA CellType ==
  ASSUME HostConstants, TypeOK, NEW t \in Threads, NEW d \in Levels
  PROVE  /\ d <= Len(frames[t]) => Cell(t, d) \in Frame /\ Cell(t, d) = frames[t][d]
                                   /\ d \in Depths
         /\ d > Len(frames[t]) => Cell(t, d) = Nothing
         /\ Cell(t, d) \in Frame \/ Cell(t, d) = Nothing
         /\ d \notin Depths => Cell(t, d) = Nothing
BY StackType DEF Cell, Depths, Levels

\* The innermost call.
LEMMA TopCell ==
  ASSUME HostConstants, TypeOK, NEW t \in Threads, frames[t] # <<>>
  PROVE  /\ Len(frames[t]) \in Depths /\ Len(frames[t]) \in Levels
         /\ Top(t) = Cell(t, Len(frames[t])) /\ Top(t) \in Frame
<1>1. Len(frames[t]) \in Nat /\ Len(frames[t]) # 0
  BY StackType, EmptySeq
<1> QED  BY <1>1, StackType DEF Cell, Depths, Levels, Top, Last

\* The calls are the cells that hold something.
LEMMA CallsOfThread ==
  ASSUME HostConstants, TypeOK, NEW t \in Threads
  PROVE  /\ \A f \in FramesOf(t) : \E d \in Depths : d <= Len(frames[t]) /\ f = Cell(t, d)
         /\ \A d \in Depths : Cell(t, d) \in FramesOf(t) \/ Cell(t, d) = Nothing
         /\ FramesOf(t) \subseteq Frame
BY StackType DEF FramesOf, Range, Cell, Depths

LEMMA CallsOfAll ==
  ASSUME HostConstants, TypeOK
  PROVE  /\ \A f \in AllFrames : \E t \in Threads, d \in Depths : f = Cell(t, d)
         /\ \A t \in Threads, d \in Depths : Cell(t, d) \in AllFrames \/ Cell(t, d) = Nothing
BY CallsOfThread DEF AllFrames

\* A stack of thread t that agrees with the old one but for the cells at d and d + 1.
LEMMA StackPut ==
  ASSUME HostConstants, TypeOK, NEW t \in Threads, NEW z \in Seq(Frame),
         frames' = [frames EXCEPT ![t] = z], Len(z) <= MaxDepth,
         NEW d \in Levels, NEW g, NEW h,
         \A e \in Levels : (IF e <= Len(z) THEN z[e] ELSE Nothing) =
           IF e = d THEN g ELSE IF e = d + 1 THEN h ELSE Cell(t, e),
         Len(frames[t]) <= d + 1
  PROVE  StacksOK' /\ Changes(t, d, g, h)
<1>1. /\ frames' \in [Threads -> Seq(Frame)] /\ frames'[t] = z
      /\ \A u \in Threads : u # t => frames'[u] = frames[u]
  BY DEF TypeOK
<1>2. ASSUME NEW u \in Threads, NEW e \in Levels
      PROVE  Cell(u, e)' = IF u = t /\ e = d THEN g
                           ELSE IF u = t /\ e = d + 1 THEN h ELSE Cell(u, e)
  <2>1. CASE u = t
    <3>1. Cell(u, e)' = IF e <= Len(z) THEN z[e] ELSE Nothing
      BY <1>1, <2>1 DEF Cell
    <3> QED  BY <2>1, <3>1
  <2>2. CASE u # t
    BY <1>1, <2>2 DEF Cell
  <2> QED  BY <2>1, <2>2
<1>3. \A u \in Threads : Len(frames'[u]) <= MaxDepth
  BY <1>1 DEF TypeOK
<1>4. ASSUME NEW e \in Levels, e > d + 1 PROVE Cell(t, e) = Nothing
  <2>1. e > Len(frames[t])
    BY <1>4, StackType DEF Levels
  <2> QED  BY <2>1, CellType
<1>5. /\ d \notin Depths => g = Nothing /\ Cell(t, d) = Nothing
      /\ d + 1 \notin Depths => h = Nothing /\ Cell(t, d + 1) = Nothing
  <2>1. d \in Nat /\ d # 0 /\ MaxDepth \in Nat /\ Len(z) \in Nat /\ d + 1 \in Levels
    BY LenProperties DEF Levels, HostConstants
  <2>2. d \notin Depths => d > Len(z)
    BY <2>1 DEF Depths
  <2>3. d + 1 \notin Depths => d + 1 > Len(z)
    BY <2>1 DEF Depths
  <2> QED  BY <2>1, <2>2, <2>3, CellType
<1> QED  BY <1>1, <1>2, <1>3, <1>4, <1>5 DEF StacksOK, Changes

\* A new innermost call.
LEMMA PushChanges ==
  ASSUME HostConstants, TypeOK, NEW t \in Threads, NEW g \in Frame, Push(t, g)
  PROVE  /\ Len(frames[t]) + 1 \in Levels
         /\ Cell(t, Len(frames[t]) + 1) = Nothing /\ Cell(t, Len(frames[t]) + 2) = Nothing
         /\ StacksOK' /\ Changes(t, Len(frames[t]) + 1, g, Nothing)
<1> DEFINE s == frames[t]
<1>1. PICK z : z = Append(s, g)
  OBVIOUS
<1>2. s \in Seq(Frame) /\ Len(s) \in Nat /\ MaxDepth \in Nat /\ Len(s) < MaxDepth
  BY StackType DEF Push, HostConstants
<1>3. /\ z \in Seq(Frame) /\ Len(z) = Len(s) + 1 /\ z[Len(s) + 1] = g
      /\ \A e \in 1..Len(s) : z[e] = s[e]
  BY <1>1, <1>2, AppendProperties
<1>4. frames' = [frames EXCEPT ![t] = z]
  BY <1>1 DEF Push, TypeOK
<1>5. \A e \in Levels : (IF e <= Len(z) THEN z[e] ELSE Nothing) =
        IF e = Len(s) + 1 THEN g ELSE IF e = Len(s) + 1 + 1 THEN Nothing ELSE Cell(t, e)
  BY <1>2, <1>3 DEF Cell, Levels
<1>6. Cell(t, Len(s) + 1) = Nothing /\ Cell(t, Len(s) + 2) = Nothing /\ Len(s) + 1 \in Levels
  BY <1>2 DEF Cell, Levels
<1>7. Len(z) <= MaxDepth /\ Len(frames[t]) <= Len(s) + 1 + 1
  BY <1>2, <1>3
<1> HIDE DEF s
<1>8. PICK d \in Levels : d = Len(s) + 1
  BY <1>6
<1>9. StacksOK' /\ Changes(t, d, g, Nothing)
  BY <1>3, <1>4, <1>5, <1>7, <1>8, StackPut
<1> QED  BY <1>6, <1>8, <1>9 DEF s

\* The stack without its innermost call.
LEMMA FrontFacts ==
  ASSUME NEW s \in Seq(Frame), s # <<>>
  PROVE  /\ Front(s) \in Seq(Frame) /\ Len(Front(s)) = Len(s) - 1 /\ Len(s) \in Nat
         /\ Len(s) # 0 /\ \A e \in 1..(Len(s) - 1) : Front(s)[e] = s[e]
<1>1. Len(s) \in Nat /\ Len(s) # 0 /\ \A i \in 1..Len(s) : s[i] \in Frame
  BY LenProperties, EmptySeq, ElementOfSeq
<1>2. (\A i \in 1..(Len(s) - 1) : s[i] \in Frame) /\ Len(s) - 1 \in Int
  BY <1>1
<1>3. /\ SubSeq(s, 1, Len(s) - 1) \in Seq(Frame)
      /\ Len(SubSeq(s, 1, Len(s) - 1)) = IF 1 <= Len(s) - 1 THEN Len(s) - 1 - 1 + 1 ELSE 0
      /\ \A e \in 1..(Len(s) - 1 - 1 + 1) : SubSeq(s, 1, Len(s) - 1)[e] = s[1 + e - 1]
  BY <1>2, SubSeqProperties
<1>4. Front(s) = SubSeq(s, 1, Len(s) - 1)
  BY DEF Front
<1>5. \A e \in 1..(Len(s) - 1) : Front(s)[e] = s[e]
  BY <1>1, <1>3, <1>4
<1>6. Front(s) \in Seq(Frame) /\ Len(Front(s)) = Len(s) - 1
  <2>1. PICK n \in Nat : n = Len(s) /\ n # 0
    BY <1>1
  <2>2. (IF 1 <= n - 1 THEN n - 1 - 1 + 1 ELSE 0) = n - 1
    BY <2>1
  <2> QED  BY <1>3, <1>4, <2>1, <2>2
<1> QED  BY <1>1, <1>5, <1>6

\* The stack with another call in its innermost place.
LEMMA ReplacedFacts ==
  ASSUME NEW s \in Seq(Frame), s # <<>>, NEW g \in Frame
  PROVE  /\ Append(Front(s), g) \in Seq(Frame) /\ Len(Append(Front(s), g)) = Len(s)
         /\ Len(s) \in Nat /\ Len(s) # 0 /\ Append(Front(s), g)[Len(s)] = g
         /\ \A e \in 1..(Len(s) - 1) : Append(Front(s), g)[e] = s[e]
<1>1. PICK r : r = Front(s)
  OBVIOUS
<1>2. /\ r \in Seq(Frame) /\ Len(r) = Len(s) - 1 /\ Len(s) \in Nat /\ Len(s) # 0
      /\ \A e \in 1..(Len(s) - 1) : r[e] = s[e]
  BY <1>1, FrontFacts
<1>3. /\ Append(r, g) \in Seq(Frame) /\ Len(Append(r, g)) = Len(r) + 1
      /\ Append(r, g)[Len(r) + 1] = g /\ \A e \in 1..Len(r) : Append(r, g)[e] = r[e]
  BY <1>2, AppendProperties
<1> QED  BY <1>1, <1>2, <1>3

LEMMA SetTopChanges ==
  ASSUME HostConstants, TypeOK, NEW t \in Threads, frames[t] # <<>>, NEW g \in Frame,
         SetTop(t, g)
  PROVE  /\ Cell(t, Len(frames[t]) + 1) = Nothing
         /\ StacksOK' /\ Changes(t, Len(frames[t]), g, Nothing)
<1> DEFINE s == frames[t]
<1>1. PICK z : z = Append(Front(s), g)
  OBVIOUS
<1>2. s \in Seq(Frame) /\ Len(s) <= MaxDepth /\ MaxDepth \in Nat
  BY StackType
<1>3. /\ z \in Seq(Frame) /\ Len(z) = Len(s) /\ z[Len(s)] = g /\ Len(s) \in Nat
      /\ Len(s) # 0 /\ \A e \in 1..(Len(s) - 1) : z[e] = s[e]
  BY <1>1, <1>2, ReplacedFacts
<1>4. frames' = [frames EXCEPT ![t] = z]
  BY <1>1 DEF SetTop, TypeOK
<1>5. \A e \in Levels : (IF e <= Len(z) THEN z[e] ELSE Nothing) =
        IF e = Len(s) THEN g ELSE IF e = Len(s) + 1 THEN Nothing ELSE Cell(t, e)
  BY <1>2, <1>3 DEF Cell, Levels
<1>6. Cell(t, Len(s) + 1) = Nothing /\ Len(s) \in Levels
  BY <1>3 DEF Cell, Levels
<1>7. Len(z) <= MaxDepth /\ Len(frames[t]) <= Len(s) + 1
  BY <1>2, <1>3
<1> HIDE DEF s
<1>8. PICK d \in Levels : d = Len(s)
  BY <1>6
<1>9. /\ \A e \in Levels : (IF e <= Len(z) THEN z[e] ELSE Nothing) =
           IF e = d THEN g ELSE IF e = d + 1 THEN Nothing ELSE Cell(t, e)
      /\ Len(frames[t]) <= d + 1
  BY <1>5, <1>7, <1>8
<1>10. StacksOK' /\ Changes(t, d, g, Nothing)
  BY <1>3, <1>4, <1>7, <1>9, StackPut
<1> QED  BY <1>6, <1>8, <1>10 DEF s

\* The innermost call returns.
LEMMA PopChanges ==
  ASSUME HostConstants, TypeOK, NEW t \in Threads, frames[t] # <<>>, Pop(t)
  PROVE  /\ Cell(t, Len(frames[t]) + 1) = Nothing
         /\ StacksOK' /\ Changes(t, Len(frames[t]), Nothing, Nothing)
<1> DEFINE s == frames[t]
<1>1. PICK z : z = Front(s)
  OBVIOUS
<1>2. s \in Seq(Frame) /\ Len(s) <= MaxDepth /\ MaxDepth \in Nat
  BY StackType
<1>3. /\ z \in Seq(Frame) /\ Len(z) = Len(s) - 1 /\ Len(s) \in Nat
      /\ Len(s) # 0 /\ \A e \in 1..(Len(s) - 1) : z[e] = s[e]
  BY <1>1, <1>2, FrontFacts
<1>4. frames' = [frames EXCEPT ![t] = z]
  BY <1>1 DEF Pop, TypeOK
<1>5. \A e \in Levels : (IF e <= Len(z) THEN z[e] ELSE Nothing) =
        IF e = Len(s) THEN Nothing ELSE IF e = Len(s) + 1 THEN Nothing ELSE Cell(t, e)
  BY <1>2, <1>3 DEF Cell, Levels
<1>6. Cell(t, Len(s) + 1) = Nothing /\ Len(s) \in Levels
  BY <1>3 DEF Cell, Levels
<1>7. Len(z) <= MaxDepth /\ Len(frames[t]) <= Len(s) + 1
  BY <1>2, <1>3
<1> HIDE DEF s
<1>8. PICK d \in Levels : d = Len(s)
  BY <1>6
<1>9. /\ \A e \in Levels : (IF e <= Len(z) THEN z[e] ELSE Nothing) =
           IF e = d THEN Nothing ELSE IF e = d + 1 THEN Nothing ELSE Cell(t, e)
      /\ Len(frames[t]) <= d + 1
  BY <1>5, <1>7, <1>8
<1>10. StacksOK' /\ Changes(t, d, Nothing, Nothing)
  BY <1>3, <1>4, <1>7, <1>9, StackPut
<1> QED  BY <1>6, <1>8, <1>10 DEF s

\* The innermost call returns an answer to the one below it.
LEMMA ReturnChanges ==
  ASSUME HostConstants, TypeOK, NEW d \in Levels, Len(frames[Game]) = d + 1,
         NEW a \in {"none", "ok", "refused", "retained"}, Return(Game, a)
  PROVE  /\ Cell(Game, d) \in Frame /\ Top(Game) = Cell(Game, d + 1)
         /\ [Cell(Game, d) EXCEPT !.answer = a] \in Frame
         /\ StacksOK' /\ Changes(Game, d, [Cell(Game, d) EXCEPT !.answer = a], Nothing)
<1> DEFINE s == frames[Game]
           r == Front(s)
           g == [Cell(Game, d) EXCEPT !.answer = a]
<1>1. PICK z : z = Append(Front(r), g)
  OBVIOUS
<1>2. /\ Game \in Threads /\ s \in Seq(Frame) /\ Len(s) <= MaxDepth /\ MaxDepth \in Nat
      /\ d \in Nat /\ d # 0
  BY StackType DEF HostConstants, Levels
<1>3. s # <<>>
  BY <1>2, EmptySeq
<1>4. /\ r \in Seq(Frame) /\ Len(r) = d /\ \A e \in 1..d : r[e] = s[e]
  <2>1. Len(s) = d + 1
    OBVIOUS
  <2> HIDE DEF s
  <2>2. /\ Front(s) \in Seq(Frame) /\ Len(Front(s)) = Len(s) - 1
        /\ \A e \in 1..(Len(s) - 1) : Front(s)[e] = s[e]
    BY <1>2, <1>3, FrontFacts
  <2> QED  BY <1>2, <2>1, <2>2
<1>5. r # <<>>
  BY <1>2, <1>4, EmptySeq
<1>6. Cell(Game, d) \in Frame /\ Cell(Game, d) = s[d] /\ Top(Game) = Cell(Game, d + 1)
  BY <1>2, <1>3, CellType, TopCell
<1>7. g \in Frame
  BY <1>6 DEF Frame
<1>8. Last(r) = Cell(Game, d)
  BY <1>2, <1>4, <1>6 DEF Last
<1>9. frames' = [frames EXCEPT ![Game] = z]
  BY <1>1, <1>8 DEF Return
<1> HIDE DEF r, g
<1>10. /\ z \in Seq(Frame) /\ Len(z) = d /\ z[d] = g
       /\ \A e \in 1..(d - 1) : z[e] = r[e]
  BY <1>1, <1>4, <1>5, <1>7, ReplacedFacts
<1>11. \A e \in Levels : (IF e <= Len(z) THEN z[e] ELSE Nothing) =
        IF e = d THEN g ELSE IF e = d + 1 THEN Nothing ELSE Cell(Game, e)
  BY <1>2, <1>4, <1>10 DEF Cell, Levels
<1>12. Len(z) <= MaxDepth /\ Len(frames[Game]) <= d + 1
  BY <1>2, <1>10
<1>13. StacksOK' /\ Changes(Game, d, g, Nothing)
  <2>1. PICK t \in Threads : t = Game
    BY <1>2
  <2>2. /\ z \in Seq(Frame) /\ frames' = [frames EXCEPT ![t] = z] /\ Len(z) <= MaxDepth
        /\ \A e \in Levels : (IF e <= Len(z) THEN z[e] ELSE Nothing) =
             IF e = d THEN g ELSE IF e = d + 1 THEN Nothing ELSE Cell(t, e)
        /\ Len(frames[t]) <= d + 1
    BY <1>9, <1>10, <1>11, <1>12, <2>1
  <2>3. StacksOK' /\ Changes(t, d, g, Nothing)
    BY <2>2, StackPut
  <2> QED  BY <2>1, <2>3
<1> QED  BY <1>6, <1>7, <1>13 DEF g

\* The bootstrap calls the host.
LEMMA CallChanges ==
  ASSUME HostConstants, TypeOK, frames[Game] # <<>>, Len(frames[Game]) < MaxDepth,
         NEW g \in Frame, NEW h \in Frame,
         frames' = [frames EXCEPT ![Game] = Append(Append(Front(@), g), h)]
  PROVE  /\ Cell(Game, Len(frames[Game]) + 1) = Nothing
         /\ StacksOK' /\ Changes(Game, Len(frames[Game]), g, h)
<1> DEFINE s == frames[Game]
<1>1. PICK y, z : y = Append(Front(s), g) /\ z = Append(y, h)
  OBVIOUS
<1>2. Game \in Threads /\ s \in Seq(Frame) /\ Len(s) < MaxDepth /\ MaxDepth \in Nat
  BY StackType DEF HostConstants
<1>3. /\ y \in Seq(Frame) /\ Len(y) = Len(s) /\ y[Len(s)] = g /\ Len(s) \in Nat
      /\ Len(s) # 0 /\ \A e \in 1..(Len(s) - 1) : y[e] = s[e]
  BY <1>1, <1>2, ReplacedFacts
<1>4. /\ z \in Seq(Frame) /\ Len(z) = Len(y) + 1 /\ z[Len(y) + 1] = h
      /\ \A e \in 1..Len(y) : z[e] = y[e]
  BY <1>1, <1>3, AppendProperties
<1>5. frames' = [frames EXCEPT ![Game] = z]
  BY <1>1 DEF TypeOK
<1>6. \A e \in Levels : (IF e <= Len(z) THEN z[e] ELSE Nothing) =
        IF e = Len(s) THEN g ELSE IF e = Len(s) + 1 THEN h ELSE Cell(Game, e)
  BY <1>2, <1>3, <1>4 DEF Cell, Levels
<1>7. Cell(Game, Len(s) + 1) = Nothing /\ Len(s) \in Levels
  BY <1>3 DEF Cell, Levels
<1>8. Len(z) <= MaxDepth /\ Len(frames[Game]) <= Len(s) + 1
  BY <1>2, <1>3, <1>4
<1> HIDE DEF s
<1>9. PICK d \in Levels : d = Len(s)
  BY <1>7
<1>10. /\ \A e \in Levels : (IF e <= Len(z) THEN z[e] ELSE Nothing) =
            IF e = d THEN g ELSE IF e = d + 1 THEN h ELSE Cell(Game, e)
       /\ Len(frames[Game]) <= d + 1
  BY <1>6, <1>8, <1>9
<1>11. StacksOK' /\ Changes(Game, d, g, h)
  <2>1. PICK t \in Threads : t = Game
    BY <1>2
  <2>2. /\ z \in Seq(Frame) /\ frames' = [frames EXCEPT ![t] = z] /\ Len(z) <= MaxDepth
        /\ \A e \in Levels : (IF e <= Len(z) THEN z[e] ELSE Nothing) =
             IF e = d THEN g ELSE IF e = d + 1 THEN h ELSE Cell(t, e)
        /\ Len(frames[t]) <= d + 1
    BY <1>4, <1>5, <1>8, <1>10, <2>1
  <2>3. StacksOK' /\ Changes(t, d, g, h)
    BY <2>2, StackPut
  <2> QED  BY <2>1, <2>3
<1> QED  BY <1>7, <1>9, <1>11 DEF s

\* A bootstrap hook begins with a call of the host.
LEMMA HookChanges ==
  ASSUME HostConstants, TypeOK, Len(frames[Game]) + 2 <= MaxDepth, NEW g \in Frame,
         NEW h \in Frame, frames' = [frames EXCEPT ![Game] = @ \o <<g, h>>]
  PROVE  /\ Len(frames[Game]) + 1 \in Levels
         /\ Cell(Game, Len(frames[Game]) + 1) = Nothing
         /\ Cell(Game, Len(frames[Game]) + 2) = Nothing
         /\ StacksOK' /\ Changes(Game, Len(frames[Game]) + 1, g, h)
<1> DEFINE s == frames[Game]
<1>1. PICK r, z : r = <<g, h>> /\ z = s \o r
  OBVIOUS
<1>2. Game \in Threads /\ s \in Seq(Frame) /\ Len(s) \in Nat /\ MaxDepth \in Nat
  BY StackType DEF HostConstants
<1>3. r \in Seq(Frame) /\ Len(r) = 2 /\ r[1] = g /\ r[2] = h
  BY <1>1
<1>4. /\ z \in Seq(Frame) /\ Len(z) = Len(s) + 2
      /\ \A e \in 1..(Len(s) + 2) : z[e] = IF e <= Len(s) THEN s[e] ELSE r[e - Len(s)]
  BY <1>1, <1>2, <1>3, ConcatProperties
<1>5. frames' = [frames EXCEPT ![Game] = z]
  BY <1>1 DEF TypeOK
<1>6. \A e \in Levels : (IF e <= Len(z) THEN z[e] ELSE Nothing) =
        IF e = Len(s) + 1 THEN g ELSE IF e = Len(s) + 1 + 1 THEN h ELSE Cell(Game, e)
  BY <1>2, <1>3, <1>4 DEF Cell, Levels
<1>7. /\ Cell(Game, Len(s) + 1) = Nothing /\ Cell(Game, Len(s) + 2) = Nothing
      /\ Len(s) + 1 \in Levels
  BY <1>2 DEF Cell, Levels
<1>8. Len(z) <= MaxDepth /\ Len(frames[Game]) <= Len(s) + 1 + 1
  BY <1>2, <1>4
<1> HIDE DEF s
<1>9. PICK d \in Levels : d = Len(s) + 1
  BY <1>7
<1>10. /\ \A e \in Levels : (IF e <= Len(z) THEN z[e] ELSE Nothing) =
            IF e = d THEN g ELSE IF e = d + 1 THEN h ELSE Cell(Game, e)
       /\ Len(frames[Game]) <= d + 1
  BY <1>6, <1>8, <1>9
<1>11. StacksOK' /\ Changes(Game, d, g, h)
  <2>1. PICK t \in Threads : t = Game
    BY <1>2
  <2>2. /\ z \in Seq(Frame) /\ frames' = [frames EXCEPT ![t] = z] /\ Len(z) <= MaxDepth
        /\ \A e \in Levels : (IF e <= Len(z) THEN z[e] ELSE Nothing) =
             IF e = d THEN g ELSE IF e = d + 1 THEN h ELSE Cell(t, e)
        /\ Len(frames[t]) <= d + 1
    BY <1>4, <1>5, <1>8, <1>10, <2>1
  <2>3. StacksOK' /\ Changes(t, d, g, h)
    BY <2>2, StackPut
  <2> QED  BY <2>1, <2>3
<1> QED  BY <1>7, <1>9, <1>11 DEF s

\* A step that changes no call.
LEMMA SameChanges ==
  ASSUME HostConstants, TypeOK, NEW t \in Threads, UNCHANGED frames
  PROVE  /\ StacksOK' /\ MaxDepth + 1 \in Levels
         /\ Cell(t, MaxDepth + 1) = Nothing /\ Cell(t, MaxDepth + 2) = Nothing
         /\ Changes(t, MaxDepth + 1, Nothing, Nothing)
<1>1. MaxDepth \in Nat /\ MaxDepth + 1 \in Levels /\ MaxDepth + 2 \in Levels
  BY DEF HostConstants, Levels
<1>2. \A e \in Levels : e > MaxDepth => Cell(t, e) = Nothing
  BY <1>1, CellType DEF Depths
<1>3. \A u \in Threads, e \in Levels : Cell(u, e)' = Cell(u, e)
  BY DEF Cell
<1>4. Cell(t, MaxDepth + 1) = Nothing /\ Cell(t, MaxDepth + 2) = Nothing
  BY <1>1, <1>2
<1>5. \A e \in Levels : e > MaxDepth + 1 + 1 => Cell(t, e) = Nothing
  BY <1>1, <1>2 DEF Levels
<1>6. Changes(t, MaxDepth + 1, Nothing, Nothing)
  <2>1. MaxDepth + 1 + 1 = MaxDepth + 2
    BY <1>1
  <2> QED  BY <1>1, <1>3, <1>4, <1>5, <2>1 DEF Changes
<1>7. StacksOK'
  BY DEF StacksOK, TypeOK
<1> QED  BY <1>1, <1>4, <1>6, <1>7

-----------------------------------------------------------------------------
(* What a step may do, stated once and shown to be enough.                 *)

Num(b) == IF b THEN 1 ELSE 0
Other(t, d, u, e) == ~(u = t /\ e \in {d, d + 1})
Op(f) == f.call \in {"native", "transition"}
\* A dispatch that has seen the host open.
Past(f) == f.call = "command" /\ f.at # "begin"

\* The calls that are where they are only in some states of the bootstrap, or of the host.
BootBound(f) == f.call \in {"start", "stop"} \/ f.at \in {"host", "stop"}
StateBound(f) ==
  \/ f.call = "start" \/ f.at \in Closing
  \/ f.at = "host" /\ f.answer = "refused"
  \/ f.at = "stop" /\ f.answer = "ok"

\* The other calls may stay where they are.
KeptCalls(t, d) ==
  /\ \/ boot' = boot
     \/ \A u \in Threads, e \in Depths : Other(t, d, u, e) => ~BootBound(Cell(u, e))
  /\ \/ state' = state
     \/ \A u \in Threads, e \in Depths : Other(t, d, u, e) => ~StateBound(Cell(u, e))
  /\ \A c \in Commands : command'[c].state = "none" =>
       \/ command[c].state = "none"
       \/ \A u \in Threads, e \in Depths : Cell(u, e).call # "command"

\* What the bootstrap calls the host with.
HostCall(h) == h = Nothing \/ (h.call \in {"start", "stop"} /\ h.at = "begin")

StackStep(t, d, g, h) ==
  /\ HostCall(h) /\ Cell(t, d + 1).call \in {"none", "start", "stop"}
  /\ IF d = 1 THEN g.call \notin {"start", "stop"} ELSE Follows(Cell(t, d - 1), g)
  /\ Follows(g, h)
  /\ g.at = "stop" => d < MaxDepth
  /\ NestFor(t, d, g)

\* lifecycle_mutex_ is kept, taken or given back.
LockStep(t, d, g) ==
  \/ lifecycle' = lifecycle /\ (Holds(g) => Holds(Cell(t, d)))
  \/ lifecycle = NoThread /\ (Holds(g) => lifecycle' = t)
  \/ (Holds(Cell(t, d)) \/ Holds(Cell(t, d + 1))) /\ ~Holds(g)

CountStep(f, g) ==
  /\ entries' = entries + Num(g.call = "command") - Num(f.call = "command")
  /\ \A c \in Commands :
       command'[c].active = command[c].active + Num(InCommand(g, c)) - Num(InCommand(f, c))

\* The host stays closed, and what it waits for does not come back.
ClosedStep(t, d, g, h) ==
  /\ open' => state' = "running"
  /\ accepting' => state' \in {"starting", "running"}
  /\ boot' = "stopped" => state' = "stopped"
  /\ state' = "stopped" => \A c \in Commands : command'[c].state = "none"
  /\ \/ \A c \in Commands : command'[c].state = "none"
     \/ state' \in {"starting", "running"}
     \/ /\ g.at = "unload" => Cell(t, d).at = "unload"
        /\ \A c \in Commands : command[c].state = "none" => command'[c].state = "none"
  /\ \/ state' = "running" \/ g.at = "drain"
     \/ ~Past(g) /\ \A u \in Threads, e \in Depths : ~Past(Cell(u, e))
     \/ /\ state # "running" /\ Cell(t, d).at # "drain" /\ Cell(t, d + 1).at # "drain"
        /\ Past(g) => Past(Cell(t, d))
  /\ \/ state' \in {"starting", "running"}
     \/ ~Op(g) /\ \A u \in Threads, e \in Depths : ~Op(Cell(u, e))
     \/ /\ Op(g) => Op(Cell(t, d))
        /\ g.at \in Releasing => Cell(t, d).at \in Releasing
        /\ state' = "stopped" => state = "stopped"
  /\ \/ state' # "stopping"
     \/ g.call # "native" /\ \A u \in Threads, e \in Depths : Cell(u, e).call # "native"
     \/ g.at # "drain" /\ (g.call = "native" => Cell(t, d).call = "native")

Regular(t, d, g, h) ==
  /\ g \in Frame \cup {Nothing} /\ h \in Frame \cup {Nothing}
  /\ Changes(t, d, g, h) /\ CallOK(t, g)' /\ CallOK(t, h)'
  /\ KeptCalls(t, d) /\ StackStep(t, d, g, h) /\ LockStep(t, d, g)
  /\ CountStep(Cell(t, d), g) /\ ClosedStep(t, d, g, h)

-----------------------------------------------------------------------------
(* The counts.                                                             *)

LEMMA PlacesFinite == ASSUME HostConstants PROVE IsFiniteSet(Places)
<1>1. IsFiniteSet(1..MaxDepth)
  BY FS_Interval DEF HostConstants
<1>2. IsFiniteSet(Threads)
  BY DEF HostConstants
<1> QED  BY <1>1, <1>2, FS_Product DEF Places, Depths

\* A set that gains or loses one place.
LEMMA CountChange ==
  ASSUME NEW S, NEW T, NEW x, NEW b \in BOOLEAN, IsFiniteSet(S),
         \A y : y \in T <=> IF y = x THEN b ELSE y \in S
  PROVE  Cardinality(T) = Cardinality(S) + Num(b) - Num(x \in S)
<1>0. Cardinality(S) \in Nat
  BY FS_CardinalityType
<1>1. CASE b
  <2>1. T = S \cup {x}
    BY <1>1
  <2>2. Cardinality(T) = IF x \in S THEN Cardinality(S) ELSE Cardinality(S) + 1
    BY <2>1, FS_AddElement
  <2> QED  BY <1>0, <1>1, <2>2 DEF Num
<1>2. CASE ~b
  <2>1. T = S \ {x}
    BY <1>2
  <2>2. Cardinality(T) = IF x \in S THEN Cardinality(S) - 1 ELSE Cardinality(S)
    BY <2>1, FS_RemoveElement
  <2> QED  BY <1>0, <1>2, <2>2 DEF Num
<1> QED  BY <1>1, <1>2

\* The counts follow from one call to the next.
LEMMA CountsKept ==
  ASSUME HostConstants, CountsInv, NEW t \in Threads, NEW d, NEW g, NEW h,
         Regular(t, d, g, h)
  PROVE  CountsInv'
<1> DEFINE x == <<t, d>>
<1>0. /\ h.call # "command" /\ Cell(t, d + 1).call # "command"
      /\ Nothing.call # "command" /\ d \in Levels
  BY NothingFacts DEF Regular, StackStep, HostCall, Changes
<1>1. ASSUME NEW u \in Threads, NEW e \in Depths
      PROVE  /\ <<u, e>> = x => Cell(u, e)' = g
             /\ <<u, e>> # x => Cell(u, e)' = Cell(u, e)
                  \/ (Cell(u, e)' = h /\ Cell(u, e) = Cell(t, d + 1))
  <2>1. e \in Levels
    BY DEF Depths, Levels
  <2> QED  BY <2>1 DEF Regular, Changes
<1>2. x \in Places <=> d \in Depths
  BY DEF Places
<1>3. d \notin Depths => g = Nothing /\ Cell(t, d) = Nothing
  BY DEF Regular, Changes
<1>4. entries' = Cardinality({y \in Places : Cell(y[1], y[2])'.call = "command"})
  <2> DEFINE S == {y \in Places : Cell(y[1], y[2]).call = "command"}
             T == {y \in Places : Cell(y[1], y[2])'.call = "command"}
             b == g.call = "command"
  <2>1. \A y : y \in T <=> IF y = x THEN b ELSE y \in S
    BY <1>0, <1>1, <1>2, <1>3 DEF Places
  <2>2. IsFiniteSet(S)
    BY PlacesFinite, FS_Subset
  <2>3. x \in S <=> Cell(t, d).call = "command"
    BY <1>0, <1>2, <1>3
  <2>4. b \in BOOLEAN
    OBVIOUS
  <2>5. entries = Cardinality(S)
    BY DEF CountsInv
  <2> HIDE DEF S, T, b
  <2>6. Cardinality(T) = Cardinality(S) + Num(b) - Num(x \in S)
    BY <2>1, <2>2, <2>4, CountChange
  <2>7. entries' = Cardinality(T)
    BY <2>3, <2>5, <2>6 DEF Regular, CountStep, b, Num
  <2> QED  BY <2>7 DEF T
<1>5. ASSUME NEW c \in Commands
      PROVE  command'[c].active =
               Cardinality({y \in Places : InCommand(Cell(y[1], y[2])', c)})
  <2> DEFINE S == {y \in Places : InCommand(Cell(y[1], y[2]), c)}
             T == {y \in Places : InCommand(Cell(y[1], y[2])', c)}
             b == InCommand(g, c)
  <2>1. \A y : y \in T <=> IF y = x THEN b ELSE y \in S
    BY <1>0, <1>1, <1>2, <1>3 DEF Places, InCommand, Inside
  <2>2. IsFiniteSet(S)
    BY PlacesFinite, FS_Subset
  <2>3. x \in S <=> InCommand(Cell(t, d), c)
    BY <1>0, <1>2, <1>3 DEF InCommand, Inside
  <2>4. b \in BOOLEAN
    BY DEF InCommand, Inside
  <2>5. command[c].active = Cardinality(S)
    BY DEF CountsInv
  <2> HIDE DEF S, T, b
  <2>6. Cardinality(T) = Cardinality(S) + Num(b) - Num(x \in S)
    BY <2>1, <2>2, <2>4, CountChange
  <2>7. command'[c].active = Cardinality(T)
    BY <2>3, <2>5, <2>6 DEF Regular, CountStep, b, Num
  <2> QED  BY <2>7 DEF T
<1> QED  BY <1>4, <1>5 DEF CountsInv, InCommand, Inside

\* Without entries there is no dispatch.
LEMMA NoEntries ==
  ASSUME HostConstants, CountsInv, NEW t \in Threads, NEW d \in Depths
  PROVE  /\ Cell(t, d).call = "command" => entries > 0
         /\ \A c \in Commands : InCommand(Cell(t, d), c) => command[c].active > 0
<1> DEFINE x == <<t, d>>
<1>0. x \in Places /\ x[1] = t /\ x[2] = d
  BY DEF Places
<1>1. ASSUME NEW S, S \subseteq Places, x \in S PROVE Cardinality(S) > 0
  <2>1. IsFiniteSet(S)
    BY <1>1, PlacesFinite, FS_Subset
  <2>2. Cardinality(S) \in Nat /\ Cardinality(S) # 0
    BY <1>1, <2>1, FS_EmptySet, FS_CardinalityType
  <2> QED  BY <2>2
<1>2. ASSUME Cell(t, d).call = "command" PROVE entries > 0
  <2> DEFINE S == {y \in Places : Cell(y[1], y[2]).call = "command"}
  <2>1. x \in S /\ S \subseteq Places
    BY <1>0, <1>2
  <2>2. entries = Cardinality(S)
    BY DEF CountsInv
  <2> HIDE DEF S, x
  <2> QED  BY <1>1, <2>1, <2>2
<1>3. ASSUME NEW c \in Commands, InCommand(Cell(t, d), c) PROVE command[c].active > 0
  <2> DEFINE S == {y \in Places : InCommand(Cell(y[1], y[2]), c)}
  <2>1. x \in S /\ S \subseteq Places
    BY <1>0, <1>3
  <2>2. command[c].active = Cardinality(S)
    BY DEF CountsInv
  <2> HIDE DEF S, x
  <2> QED  BY <1>1, <2>1, <2>2
<1> QED  BY <1>2, <1>3

\* A record that nobody is in counts nobody.
LEMMA IdleRecord ==
  ASSUME HostConstants, CountsInv, NEW c \in Commands,
         \A t \in Threads, d \in Depths : ~InCommand(Cell(t, d), c)
  PROVE  command[c].active = 0
<1>1. {x \in Places : InCommand(Cell(x[1], x[2]), c)} = {}
  BY DEF Places
<1> QED  BY <1>1, FS_EmptySet DEF CountsInv

-----------------------------------------------------------------------------
(* A regular step preserves the invariant.                                 *)

\* Where a cell of the next state comes from.
LEMMA CellNext ==
  ASSUME HostConstants, NEW t \in Threads, NEW d, NEW g, NEW h, Changes(t, d, g, h),
         NEW u \in Threads, NEW e \in Depths
  PROVE  /\ e \in Levels /\ d \in Levels
         /\ u = t /\ e = d => Cell(u, e)' = g
         /\ u = t /\ e = d + 1 => Cell(u, e)' = h
         /\ Other(t, d, u, e) => Cell(u, e)' = Cell(u, e)
         /\ u = t /\ e > d + 1 => Cell(u, e)' = Nothing /\ Cell(u, e) = Nothing
BY DEF Changes, Other, Depths, Levels

LEMMA CallsKept ==
  ASSUME HostConstants, TypeOK, HostInv, NEW t \in Threads, NEW d, NEW g, NEW h,
         Regular(t, d, g, h)
  PROVE  CallsInv'
<1> SUFFICES ASSUME NEW u \in Threads, NEW e \in Depths PROVE CallOK(u, Cell(u, e))'
  BY DEF CallsInv
<1>0. Changes(t, d, g, h)
  BY DEF Regular
<1>1. CASE u = t /\ e = d
  <2>1. Cell(u, e)' = g
    BY <1>0, <1>1, CellNext
  <2> QED  BY <1>1, <2>1 DEF Regular, CallOK
<1>2. CASE u = t /\ e = d + 1
  <2>1. Cell(u, e)' = h
    BY <1>0, <1>2, CellNext
  <2> QED  BY <1>2, <2>1 DEF Regular, CallOK
<1>3. CASE Other(t, d, u, e)
  <2>1. PICK f : f = Cell(u, e)
    OBVIOUS
  <2>2. Cell(u, e)' = f
    BY <1>0, <1>3, <2>1, CellNext
  <2>3. CallOK(u, f)
    BY <2>1 DEF HostInv, CallsInv
  <2>4. boot' = boot \/ ~BootBound(f)
    BY <1>3, <2>1 DEF Regular, KeptCalls
  <2>5. state' = state \/ ~StateBound(f)
    BY <1>3, <2>1 DEF Regular, KeptCalls
  <2>6. f.call = "command" => command'[f.cmd].state # "none"
    <3> SUFFICES ASSUME f.call = "command" PROVE command'[f.cmd].state # "none"
      OBVIOUS
    <3>1. f.cmd \in Commands
      <4>1. e \in Levels
        BY DEF Depths, Levels
      <4>2. f \in Frame
        BY <2>1, <4>1, CellType, NothingFacts
      <4> QED  BY <4>2 DEF Frame
    <3>2. command[f.cmd].state # "none"
      BY <2>3 DEF CallOK
    <3> QED  BY <2>1, <3>1, <3>2 DEF Regular, KeptCalls
  <2>7. f.at = "load" => f.call = "start"
    BY <2>3 DEF CallOK, Points
  <2>8. CallOK(u, f)'
    BY <2>3, <2>4, <2>5, <2>6, <2>7 DEF CallOK, BootBound, StateBound
  <2> QED  BY <2>2, <2>8 DEF CallOK
<1> QED  BY <1>1, <1>2, <1>3 DEF Other

LEMMA StackKept ==
  ASSUME HostConstants, TypeOK, HostInv, NEW t \in Threads, NEW d, NEW g, NEW h,
         Regular(t, d, g, h)
  PROVE  StackInv'
<1>0. Changes(t, d, g, h) /\ StackStep(t, d, g, h) /\ d \in Nat /\ d # 0
  BY DEF Regular, Changes, Levels
<1>a. MaxDepth \in Nat /\ 1 \in Levels /\ 1 \in Depths
  BY DEF HostConstants, Levels, Depths
<1>1. ASSUME NEW u \in Threads PROVE Cell(u, 1)'.call \notin {"start", "stop"}
  <2>1. Cell(u, 1).call \notin {"start", "stop"}
    BY DEF HostInv, StackInv
  <2>2. CASE u = t /\ d = 1
    BY <1>0, <1>a, <2>2, CellNext DEF StackStep
  <2>3. CASE ~(u = t /\ d = 1)
    BY <1>0, <1>a, <2>1, <2>3, CellNext DEF Other
  <2> QED  BY <2>2, <2>3
<1>2. ASSUME NEW u \in Threads, NEW e \in Depths
      PROVE  /\ Follows(Cell(u, e)', Cell(u, e + 1)')
             /\ Cell(u, e)'.at = "stop" => e < MaxDepth
  <2>1. Follows(Cell(u, e), Cell(u, e + 1)) /\ (Cell(u, e).at = "stop" => e < MaxDepth)
    BY DEF HostInv, StackInv
  <2>2. e \in Nat /\ e # 0 /\ e \in Levels /\ e + 1 \in Levels
    BY DEF Depths, Levels
  <2>3. /\ Cell(u, e)' = IF u = t /\ e = d THEN g
                         ELSE IF u = t /\ e = d + 1 THEN h ELSE Cell(u, e)
        /\ Cell(u, e + 1)' = IF u = t /\ e + 1 = d THEN g
                             ELSE IF u = t /\ e + 1 = d + 1 THEN h ELSE Cell(u, e + 1)
        /\ u = t /\ e > d => Cell(u, e + 1) = Nothing
    BY <1>0, <2>2 DEF Changes
  <2>4. CASE u = t /\ e = d
    BY <1>0, <2>3, <2>4 DEF StackStep
  <2>5. CASE u = t /\ e + 1 = d
    <3>0. e # d /\ e # d + 1 /\ d # 1 /\ d - 1 = e
      BY <1>0, <2>2, <2>5
    <3>1. Cell(u, e)' = Cell(u, e) /\ Cell(u, e + 1)' = g /\ d # 1 /\ d - 1 = e
      BY <2>3, <2>5, <3>0
    <3>2. Follows(Cell(t, d - 1), g)
      BY <1>0, <3>1 DEF StackStep
    <3>3. Cell(t, d - 1) = Cell(u, e)
      BY <2>5, <3>1
    <3> QED  BY <2>1, <3>1, <3>2, <3>3
  <2>6. CASE u = t /\ e = d + 1
    <3>1. Cell(u, e)' = h /\ Cell(u, e + 1)' = Nothing
      BY <1>0, <2>2, <2>3, <2>6
    <3>2. HostCall(h) /\ (h = Nothing \/ h.at = "begin")
      BY <1>0 DEF StackStep, HostCall
    <3>3. Follows(h, Nothing) /\ h.at # "stop"
      BY <3>2, NothingFacts DEF Follows
    <3> QED  BY <3>1, <3>3
  <2>7. CASE ~(u = t /\ (e = d \/ e = d + 1 \/ e + 1 = d))
    <3>1. u = t => e # d /\ e # d + 1 /\ e + 1 # d /\ e + 1 # d + 1
      BY <1>0, <2>2, <2>7
    <3>2. Cell(u, e)' = Cell(u, e) /\ Cell(u, e + 1)' = Cell(u, e + 1)
      BY <2>3, <3>1
    <3> QED  BY <2>1, <3>2
  <2> QED  BY <2>4, <2>5, <2>6, <2>7
<1> QED  BY <1>1, <1>2 DEF StackInv, Follows

LEMMA NestKept ==
  ASSUME HostConstants, TypeOK, HostInv, NEW t \in Threads, NEW d, NEW g, NEW h,
         Regular(t, d, g, h)
  PROVE  NestInv'
<1>0. Changes(t, d, g, h) /\ StackStep(t, d, g, h) /\ d \in Nat /\ d # 0
  BY DEF Regular, Changes, Levels
<1> SUFFICES ASSUME NEW u \in Threads, NEW e \in Depths, Cell(u, e)'.call = "disconnect",
                    \A i \in 1..(e - 1) : Cell(u, i)'.call # "native",
                    NEW i \in 1..(e - 1)
             PROVE  Cell(u, i)'.call # "command"
  BY DEF NestInv, NestFor
<1>1. e \in Nat /\ \A j \in 1..(e - 1) : j \in Depths /\ j < e /\ j \in Nat
  BY DEF Depths, HostConstants
<1>2. ~(u = t /\ e >= d + 1)
  <2>1. HostCall(h) /\ h.call # "disconnect"
    BY <1>0, NothingFacts DEF StackStep, HostCall
  <2>2. u = t /\ e > d + 1 => Cell(u, e)' = Nothing
    BY <1>0, CellNext
  <2>3. u = t /\ e = d + 1 => Cell(u, e)' = h
    BY <1>0, CellNext
  <2> QED  BY <1>0, <1>1, <2>1, <2>2, <2>3, NothingFacts
<1>3. \A j \in 1..(e - 1) : Cell(u, j)' = Cell(u, j)
  BY <1>0, <1>1, <1>2, CellNext DEF Other
<1>4. NestFor(u, e, Cell(u, e)')
  <2>1. CASE u = t /\ e = d
    BY <1>0, <2>1, CellNext DEF StackStep
  <2>2. CASE ~(u = t /\ e = d)
    <3>1. Other(t, d, u, e)
      BY <1>0, <1>1, <1>2, <2>2 DEF Other
    <3> QED  BY <1>0, <3>1, CellNext DEF HostInv, NestInv
  <2> QED  BY <2>1, <2>2
<1> QED  BY <1>3, <1>4 DEF NestFor

LEMMA LockKept ==
  ASSUME HostConstants, TypeOK, HostInv, NEW t \in Threads, NEW d, NEW g, NEW h,
         Regular(t, d, g, h)
  PROVE  LockInv'
<1>0. /\ Changes(t, d, g, h) /\ StackStep(t, d, g, h) /\ LockStep(t, d, g)
      /\ d \in Nat /\ d # 0 /\ d \in Levels
  BY DEF Regular, Changes, Levels
<1>1. ~Holds(h) /\ ~Holds(Nothing)
  BY <1>0, NothingFacts DEF StackStep, HostCall, Holds, Inside
<1>2. \A u \in Threads, e \in Depths : Holds(Cell(u, e))' =>
        \/ u = t /\ e = d /\ Holds(g)
        \/ Holds(Cell(u, e)) /\ Other(t, d, u, e)
  BY <1>0, <1>1, CellNext DEF Holds, Other, Inside
<1>3. \A u \in Threads, e \in Depths : Holds(Cell(u, e)) =>
        lifecycle = u /\ \A i \in Depths : Holds(Cell(u, i)) => i = e
  BY DEF HostInv, LockInv
<1>4. /\ Holds(Cell(t, d)) => d \in Depths
      /\ Holds(Cell(t, d + 1)) => d + 1 \in Depths
      /\ Holds(g) => d \in Depths
  BY <1>0, <1>1 DEF Changes
<1>5. CASE lifecycle' = lifecycle /\ (Holds(g) => Holds(Cell(t, d)))
  BY <1>2, <1>3, <1>4, <1>5 DEF LockInv, Holds, Other, Inside
<1>6. CASE lifecycle = NoThread /\ (Holds(g) => lifecycle' = t)
  BY <1>2, <1>3, <1>6 DEF LockInv, Holds, HostConstants, Inside
<1>7. CASE (Holds(Cell(t, d)) \/ Holds(Cell(t, d + 1))) /\ ~Holds(g)
  <2>1. \A u \in Threads, e \in Depths : ~Holds(Cell(u, e))'
    BY <1>2, <1>3, <1>4, <1>7 DEF Other
  <2> QED  BY <2>1 DEF LockInv, Holds, Inside
<1> QED  BY <1>0, <1>5, <1>6, <1>7 DEF LockStep

LEMMA ClosedKept ==
  ASSUME HostConstants, TypeOK, HostInv, TypeOK', NEW t \in Threads, NEW d, NEW g, NEW h,
         Regular(t, d, g, h), CallsInv'
  PROVE  ClosedInv'
<1>0. /\ Changes(t, d, g, h) /\ StackStep(t, d, g, h) /\ ClosedStep(t, d, g, h)
      /\ d \in Nat /\ d # 0 /\ d \in Levels
  BY DEF Regular, Changes, Levels
<1>1. /\ h.call # "command" /\ ~Op(h) /\ h.at \notin Closing /\ ~Past(h)
      /\ Nothing.call # "command" /\ ~Op(Nothing) /\ Nothing.at \notin Closing
  BY <1>0, NothingFacts DEF StackStep, HostCall, Op, Past, Closing
<1>2. ASSUME NEW u \in Threads, NEW e \in Depths
      PROVE  \/ u = t /\ e = d /\ Cell(u, e)' = g
             \/ u = t /\ e = d + 1 /\ Cell(u, e)' = h
             \/ Other(t, d, u, e) /\ Cell(u, e)' = Cell(u, e)
  BY <1>0, CellNext DEF Other
<1>3. ClosedInv
  BY DEF HostInv
<1>4. \A u \in Threads, e \in Depths : CallOK(u, Cell(u, e))'
  BY DEF CallsInv
<1>5. ASSUME NEW u \in Threads, NEW e \in Depths
      PROVE  Cell(u, e)'.at \in Closing => state' = "stopping"
  BY <1>4 DEF CallOK
<1>6. ASSUME NEW u \in Threads, NEW e \in Depths, Cell(u, e)'.at = "unload"
      PROVE  \A c \in Commands : command'[c].state = "none"
  <2>1. state' = "stopping"
    BY <1>5, <1>6 DEF Closing
  <2>2. CASE /\ g.at = "unload" => Cell(t, d).at = "unload"
             /\ \A c \in Commands : command[c].state = "none" => command'[c].state = "none"
    <3>1. \E v \in Threads, i \in Depths : Cell(v, i).at = "unload"
      BY <1>1, <1>2, <1>6, <2>2 DEF Closing
    <3> QED  BY <1>3, <2>2, <3>1 DEF ClosedInv
  <2> QED  BY <1>0, <2>1, <2>2 DEF ClosedStep
<1>7. \/ state' = "running"
      \/ \E u \in Threads, e \in Depths : Cell(u, e)'.at = "drain"
      \/ \A u \in Threads, e \in Depths : ~Past(Cell(u, e)')
  <2>1. CASE g.at = "drain"
    <3>1. g # Nothing /\ d \in Depths
      BY <1>0, <1>1, <2>1 DEF Closing, Changes
    <3> QED  BY <1>0, <2>1, <3>1, CellNext
  <2>2. CASE ~Past(g) /\ \A u \in Threads, e \in Depths : ~Past(Cell(u, e))
    BY <1>1, <1>2, <2>2
  <2>3. CASE /\ state # "running" /\ Cell(t, d).at # "drain" /\ Cell(t, d + 1).at # "drain"
             /\ Past(g) => Past(Cell(t, d))
    <3>1. CASE \E u \in Threads, e \in Depths : Cell(u, e).at = "drain"
      <4>1. PICK u \in Threads, e \in Depths : Cell(u, e).at = "drain"
        BY <3>1
      <4>2. Other(t, d, u, e)
        BY <2>3, <4>1 DEF Other
      <4> QED  BY <1>0, <4>1, <4>2, CellNext
    <3>2. CASE \A u \in Threads, e \in Depths : ~Past(Cell(u, e))
      <4>1. Past(g) => d \in Depths
        BY <1>0, <1>1 DEF Changes, Past
      <4> QED  BY <1>1, <1>2, <2>3, <3>2, <4>1
    <3> QED  BY <1>3, <2>3, <3>1, <3>2 DEF ClosedInv, Past
  <2> QED  BY <1>0, <2>1, <2>2, <2>3 DEF ClosedStep
<1>8. \/ /\ state' # "stopped"
         /\ \A u \in Threads, e \in Depths : Cell(u, e)'.at \notin Releasing
      \/ \A u \in Threads, e \in Depths : ~Op(Cell(u, e)')
  <2>1. CASE state' \in {"starting", "running"}
    BY <1>5, <2>1 DEF Closing, Releasing
  <2>2. CASE ~Op(g) /\ \A u \in Threads, e \in Depths : ~Op(Cell(u, e))
    BY <1>1, <1>2, <2>2
  <2>3. CASE /\ Op(g) => Op(Cell(t, d))
             /\ g.at \in Releasing => Cell(t, d).at \in Releasing
             /\ state' = "stopped" => state = "stopped"
    <3>0. (Op(g) \/ g.at \in Releasing) => d \in Depths
      BY <1>0, <1>1 DEF Changes, Releasing, Closing
    <3>1. CASE \A u \in Threads, e \in Depths : ~Op(Cell(u, e))
      BY <1>1, <1>2, <2>3, <3>0, <3>1
    <3>2. CASE /\ state # "stopped"
               /\ \A u \in Threads, e \in Depths : Cell(u, e).at \notin Releasing
      BY <1>1, <1>2, <2>3, <3>0, <3>2 DEF Releasing, Closing
    <3> QED  BY <1>3, <3>1, <3>2 DEF ClosedInv, Op
  <2> QED  BY <1>0, <2>1, <2>2, <2>3 DEF ClosedStep
<1>9. \/ \A u \in Threads, e \in Depths : Cell(u, e)'.at # "drain"
      \/ \A u \in Threads, e \in Depths : Cell(u, e)'.call # "native"
  <2>0. h.call # "native" /\ h.at # "drain"
    BY <1>1 DEF Op, Closing
  <2>1. CASE state' # "stopping"
    BY <1>5, <2>1 DEF Closing
  <2>2. CASE g.call # "native" /\ \A u \in Threads, e \in Depths : Cell(u, e).call # "native"
    BY <1>2, <2>0, <2>2
  <2>3. CASE g.at # "drain" /\ (g.call = "native" => Cell(t, d).call = "native")
    <3>0. g.call = "native" => d \in Depths
      BY <1>0, <1>1 DEF Changes, Op
    <3>1. CASE \A u \in Threads, e \in Depths : Cell(u, e).call # "native"
      BY <1>2, <2>0, <2>3, <3>0, <3>1
    <3>2. CASE \A u \in Threads, e \in Depths : Cell(u, e).at # "drain"
      BY <1>2, <2>0, <2>3, <3>2
    <3> QED  BY <1>3, <3>1, <3>2 DEF ClosedInv
  <2> QED  BY <1>0, <2>1, <2>2, <2>3 DEF ClosedStep
<1> QED  BY <1>0, <1>6, <1>7, <1>8, <1>9 DEF ClosedInv, ClosedStep, Past, Op

\* The conjuncts together.
LEMMA RegularStep ==
  ASSUME HostConstants, TypeOK, HostInv, TypeOK', NEW t \in Threads, NEW d, NEW g, NEW h,
         Regular(t, d, g, h)
  PROVE  HostInv'
<1>1. CallsInv'
  BY CallsKept
<1>2. ClosedInv'
  BY <1>1, ClosedKept
<1>3. CountsInv'
  BY CountsKept DEF HostInv
<1> QED  BY <1>1, <1>2, <1>3, StackKept, NestKept, LockKept DEF HostInv

-----------------------------------------------------------------------------
(* The parts of a step.                                                    *)

\* A new call.
LEMMA MadeCall ==
  ASSUME HostConstants,
         NEW c \in {"init", "disconnect", "start", "stop", "command", "native", "transition"},
         NEW a \in {"begin", "host", "original", "complete", "stop", "in"}
  PROVE  /\ Call(c, a) \in Frame /\ Call(c, a).call = c /\ Call(c, a).at = a
         /\ Call(c, a).answer = "none"
BY DEF Call, Frame, Commands, HostConstants

LEMMA NothingOK == \A t : CallOK(t, Nothing)'
BY NothingFacts DEF CallOK, Points, Closing, Releasing

\* What is in the innermost cell, and what it is on.
LEMMA TopFacts ==
  ASSUME HostConstants, TypeOK, HostInv, NEW t \in Threads, frames[t] # <<>>
  PROVE  /\ Len(frames[t]) \in Depths /\ Len(frames[t]) \in Levels
         /\ Top(t) = Cell(t, Len(frames[t])) /\ Top(t) \in Frame /\ Top(t) # Nothing
         /\ CallOK(t, Top(t)) /\ Cell(t, Len(frames[t]) + 1) = Nothing
         /\ Follows(Top(t), Nothing)
         /\ Top(t).at = "stop" => Len(frames[t]) < MaxDepth
<1>1. /\ Len(frames[t]) \in Depths /\ Len(frames[t]) \in Levels
      /\ Top(t) = Cell(t, Len(frames[t])) /\ Top(t) \in Frame
  BY TopCell
<1>2. Cell(t, Len(frames[t]) + 1) = Nothing
  BY <1>1 DEF Cell, Levels
<1>3. Follows(Cell(t, Len(frames[t])), Cell(t, Len(frames[t]) + 1))
  BY <1>1 DEF HostInv, StackInv
<1>4. CallOK(t, Cell(t, Len(frames[t])))
  BY <1>1 DEF HostInv, CallsInv
<1>5. Cell(t, Len(frames[t])).at = "stop" => Len(frames[t]) < MaxDepth
  BY <1>1 DEF HostInv, StackInv
<1> QED  BY <1>1, <1>2, <1>3, <1>4, <1>5, CallNames

\* A call and the one below it.
LEMMA Below ==
  ASSUME HostConstants, TypeOK, HostInv, NEW t \in Threads, NEW d \in Levels, d # 1,
         Cell(t, d) # Nothing
  PROVE  /\ d - 1 \in Depths /\ d - 1 \in Levels /\ (d - 1) + 1 = d
         /\ Follows(Cell(t, d - 1), Cell(t, d)) /\ CallOK(t, Cell(t, d - 1))
         /\ Cell(t, d - 1) \in Frame
<1>1. d \in Depths /\ d \in Nat /\ MaxDepth \in Nat /\ d # 0
  BY CellType DEF HostConstants, Levels
<1>2. d - 1 \in Depths /\ d - 1 \in Levels /\ (d - 1) + 1 = d
  BY <1>1 DEF Depths, Levels
<1>3. Follows(Cell(t, d - 1), Cell(t, (d - 1) + 1)) /\ CallOK(t, Cell(t, d - 1))
  BY <1>2 DEF HostInv, StackInv, CallsInv
<1>4. Follows(Cell(t, d - 1), Cell(t, d))
  BY <1>2, <1>3
<1>5. Cell(t, d - 1) # Nothing
  BY <1>4 DEF Follows
<1> QED  BY <1>2, <1>3, <1>4, <1>5, CellType

\* Init is the first call of its thread, and Start the second.
LEMMA InitFirst ==
  ASSUME HostConstants, TypeOK, HostInv, NEW t \in Threads, NEW d \in Levels
  PROVE  /\ Cell(t, d).call = "init" => d = 1
         /\ Cell(t, d).call = "start" =>
              d = 2 /\ Cell(t, 1).at = "host" /\ Cell(t, 1).answer = "none"
              /\ Cell(t, 1).call = "init"
         /\ Cell(t, d).call = "stop" =>
              /\ d # 1 /\ Cell(t, d - 1).at = "stop" /\ Cell(t, d - 1).answer = "none"
              /\ Cell(t, d - 1).call \in {"init", "disconnect"}
<1>1. ASSUME NEW e \in Levels, Cell(t, e).call = "init", e # 1 PROVE FALSE
  <2>1. Cell(t, e) # Nothing
    BY <1>1, NothingFacts
  <2> QED  BY <1>1, <2>1, Below DEF Follows
<1>2. CASE Cell(t, d).call = "start"
  <2>1. d # 1
    BY <1>2 DEF HostInv, StackInv
  <2>2. Cell(t, d) # Nothing
    BY <1>2, NothingFacts
  <2>3. /\ d - 1 \in Levels /\ Follows(Cell(t, d - 1), Cell(t, d))
        /\ CallOK(t, Cell(t, d - 1))
    BY <2>1, <2>2, Below
  <2>4. Cell(t, d - 1).at = "host" /\ Cell(t, d - 1).answer = "none"
    BY <1>2, <2>2, <2>3 DEF Follows
  <2>5. Cell(t, d - 1).call = "init"
    BY <2>3, <2>4 DEF CallOK, Points, Closing, Releasing
  <2>6. d - 1 = 1
    BY <1>1, <2>3, <2>5
  <2>7. d = 2
    BY <2>6 DEF Levels
  <2> QED  BY <1>2, <2>4, <2>5, <2>6, <2>7
<1>3. CASE Cell(t, d).call = "stop"
  <2>1. d # 1
    BY <1>3 DEF HostInv, StackInv
  <2>2. Cell(t, d) # Nothing
    BY <1>3, NothingFacts
  <2>3. Follows(Cell(t, d - 1), Cell(t, d)) /\ CallOK(t, Cell(t, d - 1))
    BY <2>1, <2>2, Below
  <2>4. Cell(t, d - 1).at = "stop" /\ Cell(t, d - 1).answer = "none"
    BY <1>3, <2>2, <2>3 DEF Follows
  <2>5. Cell(t, d - 1).call \in {"init", "disconnect"}
    BY <2>3, <2>4 DEF CallOK, Points, Closing, Releasing
  <2> QED  BY <1>3, <2>1, <2>4, <2>5
<1> QED  BY <1>1, <1>2, <1>3

\* Only the game's thread is in calls that depend on what the host or the bootstrap does.
LEMMA OthersFree ==
  ASSUME HostInv, NEW u \in Threads, NEW e \in Depths, u # Game
  PROVE  ~BootBound(Cell(u, e)) /\ ~StateBound(Cell(u, e)) /\ Cell(u, e).call # "native"
<1>1. CallOK(u, Cell(u, e))
  BY DEF HostInv, CallsInv
<1> QED  BY <1>1 DEF CallOK, Points, BootBound, StateBound, Closing, Releasing

\* The guards, in terms of cells.
LEMMA GuardCells ==
  ASSUME HostConstants, TypeOK
  PROVE  /\ ~Native => \A u \in Threads, e \in Depths : Cell(u, e).call # "native"
         /\ ~InTransition => \A u \in Threads, e \in Depths : ~Op(Cell(u, e))
BY CallsOfAll, NothingFacts DEF Native, InTransition, Op

\* A record that is not there counts nobody, nor does any when the host has stopped.
LEMMA NoRecord ==
  ASSUME HostConstants, TypeOK, HostInv, NEW c \in Commands, command[c].state = "none"
  PROVE  command[c].active = 0 /\ \A u \in Threads, e \in Depths :
           ~(Cell(u, e).call = "command" /\ Cell(u, e).cmd = c)
<1>1. ASSUME NEW u \in Threads, NEW e \in Depths, Cell(u, e).call = "command",
             Cell(u, e).cmd = c
      PROVE  FALSE
  BY <1>1 DEF HostInv, CallsInv, CallOK
<1>2. command[c].active = 0
  BY <1>1, IdleRecord DEF HostInv, InCommand, Inside
<1> QED  BY <1>1, <1>2

LEMMA StoppedHost ==
  ASSUME HostConstants, TypeOK, HostInv, state = "stopped"
  PROVE  /\ \A c \in Commands : command[c].state = "none" /\ command[c].active = 0
         /\ \A u \in Threads, e \in Depths : ~Op(Cell(u, e)) /\ Cell(u, e).call # "command"
         /\ ~open /\ ~accepting
<1>1. \A c \in Commands : command[c].state = "none"
  BY DEF HostInv, ClosedInv
<1>2. ASSUME NEW u \in Threads, NEW e \in Depths PROVE Cell(u, e).call # "command"
  <2>1. e \in Levels
    BY DEF Depths, Levels
  <2>2. Cell(u, e).call = "command" => Cell(u, e).cmd \in Commands
    BY <2>1, CellType, NothingFacts DEF Frame
  <2> QED  BY <1>1, <2>2, NoRecord
<1>3. \A u \in Threads, e \in Depths : ~Op(Cell(u, e))
  BY DEF HostInv, ClosedInv, Op
<1> QED  BY <1>1, <1>2, <1>3, NoRecord DEF HostInv, ClosedInv

\* The innermost call goes on.
LEMMA TopStackStep ==
  ASSUME HostConstants, TypeOK, HostInv, NEW t \in Threads, frames[t] # <<>>,
         NEW g \in Frame, g.call = Top(t).call, g.at \notin {"host", "stop"}
  PROVE  StackStep(t, Len(frames[t]), g, Nothing)
<1> DEFINE d == Len(frames[t])
<1>1. /\ d \in Depths /\ d \in Levels /\ Top(t) = Cell(t, d) /\ Top(t) # Nothing
      /\ Cell(t, d + 1) = Nothing
  BY TopFacts
<1>2. g # Nothing
  BY CallNames
<1> HIDE DEF d
<1>3. HostCall(Nothing) /\ Cell(t, d + 1).call = "none"
  BY <1>1, NothingFacts DEF HostCall
<1>4. d = 1 => g.call \notin {"start", "stop"}
  BY <1>1 DEF HostInv, StackInv
<1>5. d # 1 => Follows(Cell(t, d - 1), g)
  <2> SUFFICES ASSUME d # 1 PROVE Follows(Cell(t, d - 1), g)
    OBVIOUS
  <2>1. Follows(Cell(t, d - 1), Cell(t, d))
    BY <1>1, Below
  <2> QED  BY <1>1, <1>2, <2>1 DEF Follows
<1>6. Follows(g, Nothing)
  BY <1>2, NothingFacts DEF Follows
<1>7. NestFor(t, d, g)
  BY <1>1 DEF HostInv, NestInv, NestFor
<1>8. StackStep(t, d, g, Nothing)
  BY <1>3, <1>4, <1>5, <1>6, <1>7 DEF StackStep
<1> QED  BY <1>8 DEF d

\* A call that returns nothing to the bootstrap ends.
LEMMA PopStackStep ==
  ASSUME HostConstants, TypeOK, HostInv, NEW t \in Threads, frames[t] # <<>>,
         Top(t).call \notin {"start", "stop"}
  PROVE  StackStep(t, Len(frames[t]), Nothing, Nothing)
<1> DEFINE d == Len(frames[t])
<1>1. /\ d \in Depths /\ d \in Levels /\ Top(t) = Cell(t, d) /\ Top(t) # Nothing
      /\ Cell(t, d + 1) = Nothing
  BY TopFacts
<1> HIDE DEF d
<1>2. HostCall(Nothing) /\ Cell(t, d + 1).call = "none"
  BY <1>1, NothingFacts DEF HostCall
<1>3. d # 1 => Follows(Cell(t, d - 1), Nothing)
  <2> SUFFICES ASSUME d # 1 PROVE Follows(Cell(t, d - 1), Nothing)
    OBVIOUS
  <2>1. Follows(Cell(t, d - 1), Cell(t, d))
    BY <1>1, Below
  <2> QED  BY <1>1, <2>1, NothingFacts DEF Follows
<1>4. Follows(Nothing, Nothing) /\ NestFor(t, d, Nothing)
  BY NothingFacts DEF Follows, NestFor
<1>5. StackStep(t, d, Nothing, Nothing)
  BY <1>2, <1>3, <1>4, NothingFacts DEF StackStep
<1> QED  BY <1>5 DEF d

\* Engine or plugin code on t makes a call, which the bootstrap may answer with one of
\* the host.
LEMMA PushStackStep ==
  ASSUME HostConstants, TypeOK, HostInv, NEW t \in Threads, Running(t),
         NEW d \in Levels, d = Len(frames[t]) + 1, NEW g \in Frame, NEW h,
         g.call \notin {"start", "stop"}, g.call = "init" => frames[t] = <<>>,
         HostCall(h), Follows(g, h), g.at = "stop" => d < MaxDepth, NestFor(t, d, g),
         Cell(t, d + 1) = Nothing
  PROVE  StackStep(t, d, g, h)
<1>1. Cell(t, d + 1).call = "none" /\ g # Nothing
  BY NothingFacts, CallNames
<1>2. d # 1 => Follows(Cell(t, d - 1), g)
  <2> SUFFICES ASSUME d # 1 PROVE Follows(Cell(t, d - 1), g)
    OBVIOUS
  <2>1. frames[t] # <<>> /\ d - 1 = Len(frames[t])
    BY StackType, EmptySeq DEF Levels
  <2>2. Top(t) = Cell(t, d - 1) /\ Top(t) # Nothing
    BY <2>1, TopFacts
  <2>3. Top(t).at \in {"original", "load", "in", "unload"}
    BY <2>1 DEF Running
  <2> QED  BY <1>1, <2>1, <2>2, <2>3 DEF Follows
<1> QED  BY <1>1, <1>2 DEF StackStep

\* The host answers the bootstrap.
LEMMA ReturnStackStep ==
  ASSUME HostConstants, TypeOK, HostInv, frames[Game] # <<>>,
         Top(Game).call \in {"start", "stop"},
         NEW a \in {"ok", "refused", "retained"}
  PROVE  \E d \in Levels :
           /\ d \in Depths /\ Len(frames[Game]) = d + 1 /\ Top(Game) = Cell(Game, d + 1)
           /\ Cell(Game, d).answer = "none" /\ Cell(Game, d) \in Frame
           /\ CallOK(Game, Cell(Game, d))
           /\ Top(Game).call = "start" => Cell(Game, d).call = "init" /\ Cell(Game, d).at = "host"
           /\ Top(Game).call = "stop" =>
                Cell(Game, d).call \in {"init", "disconnect"} /\ Cell(Game, d).at = "stop"
           /\ StackStep(Game, d, [Cell(Game, d) EXCEPT !.answer = a], Nothing)
<1> DEFINE n == Len(frames[Game])
<1>0. Game \in Threads
  BY DEF HostConstants
<1>1. /\ n \in Levels /\ Top(Game) = Cell(Game, n) /\ Top(Game) # Nothing /\ n \in Depths
      /\ CallOK(Game, Top(Game))
  BY <1>0, TopFacts
<1> HIDE DEF n
<1>2. n # 1
  BY <1>0, <1>1 DEF HostInv, StackInv
<1>3. /\ n - 1 \in Depths /\ n - 1 \in Levels /\ (n - 1) + 1 = n
      /\ Follows(Cell(Game, n - 1), Cell(Game, n)) /\ CallOK(Game, Cell(Game, n - 1))
      /\ Cell(Game, n - 1) \in Frame
  BY <1>0, <1>1, <1>2, Below
<1>4. PICK d \in Levels : d = n - 1 /\ d + 1 = n /\ d \in Depths
  BY <1>3
<1>5. PICK f \in Frame : f = Cell(Game, d)
  BY <1>3, <1>4
<1>6. f.answer = "none" /\ CallOK(Game, f)
  BY <1>1, <1>3, <1>4, <1>5 DEF Follows
<1>7. /\ Top(Game).call = "start" => f.at = "host"
      /\ Top(Game).call = "stop" => f.at = "stop"
  BY <1>1, <1>3, <1>4, <1>5 DEF Follows
<1>8. /\ Top(Game).call = "start" => f.call = "init"
      /\ Top(Game).call = "stop" => f.call \in {"init", "disconnect"}
  BY <1>6, <1>7 DEF CallOK, Points, Closing, Releasing
<1>9. PICK g : g = [f EXCEPT !.answer = a]
  OBVIOUS
<1>10. g \in Frame /\ g # Nothing /\ g.call = f.call /\ g.at = f.at /\ g.answer = a
  BY <1>9, CallNames DEF Frame
<1>11. Follows(g, Nothing)
  BY <1>10, NothingFacts DEF Follows
<1>12. d = 1 => g.call \notin {"start", "stop"}
  BY <1>8, <1>10
<1>13. d # 1 => Follows(Cell(Game, d - 1), g)
  <2> SUFFICES ASSUME d # 1 PROVE Follows(Cell(Game, d - 1), g)
    OBVIOUS
  <2>1. Follows(Cell(Game, d - 1), f)
    <3>1. Cell(Game, d) # Nothing
      BY <1>5, CallNames
    <3> QED  BY <1>0, <1>5, <3>1, Below
  <2> QED  BY <1>10, <2>1, CallNames DEF Follows
<1>14. NestFor(Game, d, g)
  BY <1>0, <1>4, <1>5, <1>10 DEF HostInv, NestInv, NestFor
<1>15. g.at = "stop" => d < MaxDepth
  BY <1>0, <1>4, <1>5, <1>10 DEF HostInv, StackInv
<1>16. StackStep(Game, d, g, Nothing)
  BY <1>1, <1>4, <1>11, <1>12, <1>13, <1>14, <1>15 DEF StackStep, HostCall
<1> QED  BY <1>1, <1>4, <1>5, <1>6, <1>7, <1>8, <1>9, <1>16 DEF n

\* The bootstrap calls Stop.
LEMMA CallStackStep ==
  ASSUME HostConstants, TypeOK, HostInv, frames[Game] # <<>>,
         Top(Game).call \in {"init", "disconnect"}, Len(frames[Game]) < MaxDepth,
         NEW g \in Frame, g.call = Top(Game).call, g.at = "stop", g.answer = "none",
         NEW h \in Frame, h.call = "stop", h.at = "begin"
  PROVE  StackStep(Game, Len(frames[Game]), g, h)
<1> DEFINE d == Len(frames[Game])
<1>0. Game \in Threads
  BY DEF HostConstants
<1>1. /\ d \in Depths /\ d \in Levels /\ Top(Game) = Cell(Game, d) /\ Top(Game) # Nothing
      /\ Cell(Game, d + 1) = Nothing
  BY <1>0, TopFacts
<1>2. g # Nothing /\ h # Nothing
  BY CallNames
<1> HIDE DEF d
<1>3. HostCall(h) /\ Cell(Game, d + 1).call = "none"
  BY <1>1, NothingFacts DEF HostCall
<1>4. d # 1 => Follows(Cell(Game, d - 1), g)
  <2> SUFFICES ASSUME d # 1 PROVE Follows(Cell(Game, d - 1), g)
    OBVIOUS
  <2>1. Follows(Cell(Game, d - 1), Cell(Game, d))
    BY <1>0, <1>1, Below
  <2> QED  BY <1>1, <1>2, <2>1 DEF Follows
<1>5. Follows(g, h)
  BY <1>2 DEF Follows
<1>6. NestFor(Game, d, g)
  BY <1>0, <1>1 DEF HostInv, NestInv, NestFor
<1>7. StackStep(Game, d, g, h)
  BY <1>3, <1>4, <1>5, <1>6 DEF StackStep, d
<1> QED  BY <1>7 DEF d

\* A step that changes no call.
LEMMA SameStackStep ==
  ASSUME HostConstants, TypeOK, HostInv, NEW t \in Threads
  PROVE  StackStep(t, MaxDepth + 1, Nothing, Nothing)
<1>1. MaxDepth \in Nat /\ MaxDepth + 1 \in Levels /\ MaxDepth + 2 \in Levels /\ MaxDepth # 0
      /\ MaxDepth \in Depths /\ (MaxDepth + 1) - 1 = MaxDepth
  BY DEF HostConstants, Levels, Depths
<1>2. Cell(t, MaxDepth + 1) = Nothing /\ Cell(t, MaxDepth + 1 + 1) = Nothing
  <2>1. MaxDepth + 1 + 1 \in Levels /\ MaxDepth + 1 + 1 \notin Depths /\ MaxDepth + 1 \notin Depths
    BY <1>1 DEF Levels, Depths
  <2> QED  BY <1>1, <2>1, CellType
<1>3. Follows(Cell(t, MaxDepth), Cell(t, MaxDepth + 1))
  BY <1>1 DEF HostInv, StackInv
<1>4. Follows(Nothing, Nothing) /\ NestFor(t, MaxDepth + 1, Nothing)
  BY NothingFacts DEF Follows, NestFor
<1> QED  BY <1>1, <1>2, <1>3, <1>4, NothingFacts DEF StackStep, HostCall

-----------------------------------------------------------------------------
(* The steps one by one.                                                   *)

\* Steps that leave the host in its state.
LEMMA SteadyClosed ==
  ASSUME HostInv, NEW t, NEW d, NEW g, NEW h, UNCHANGED <<state, open, accepting>>,
         boot' = "stopped" => boot = "stopped" \/ state = "stopped",
         \/ \A c \in Commands : command[c].state = "none" => command'[c].state = "none"
         \/ state \in {"starting", "running"},
         g.at # "drain", Cell(t, d).at # "drain", Cell(t, d + 1).at # "drain",
         g.at = "unload" => Cell(t, d).at = "unload",
         g.at \in Releasing => Cell(t, d).at \in Releasing,
         Past(g) => Past(Cell(t, d)) \/ state = "running",
         Op(g) => Op(Cell(t, d)) \/ state \in {"starting", "running"},
         g.call = "native" => Cell(t, d).call = "native" \/ state \in {"starting", "running"}
  PROVE  ClosedStep(t, d, g, h)
BY DEF ClosedStep, HostInv, ClosedInv

\* Steps of the bootstrap, of which the host sees nothing.
HostSame == UNCHANGED <<hostVars, entries>>

LEMMA HostSameFacts ==
  ASSUME HostSame
  PROVE  UNCHANGED <<state, accepting, open, lifecycle, command, plugin, entries>>
BY DEF HostSame, hostVars

LEMMA BootStep ==
  ASSUME HostConstants, TypeOK, HostInv, TypeOK', HostSame, NEW d, NEW g, NEW h,
         g \in Frame \cup {Nothing}, h \in Frame \cup {Nothing}, Changes(Game, d, g, h),
         g.call \in {"init", "disconnect", "none"}, g.at \notin Closing,
         Cell(Game, d).call \in {"init", "disconnect", "none"}, Cell(Game, d).at \notin Closing,
         Cell(Game, d + 1) = Nothing, CallOK(Game, g)', CallOK(Game, h)',
         StackStep(Game, d, g, h),
         boot' = "stopped" => boot = "stopped" \/ state = "stopped",
         boot' = boot \/ \A e \in Depths : Other(Game, d, Game, e) => ~BootBound(Cell(Game, e))
  PROVE  HostInv'
<1>0. Game \in Threads
  BY DEF HostConstants
<1>1. UNCHANGED <<state, accepting, open, lifecycle, command, plugin, entries>>
  BY HostSameFacts
<1>2. KeptCalls(Game, d)
  <2>1. boot' = boot \/ \A u \in Threads, e \in Depths :
          Other(Game, d, u, e) => ~BootBound(Cell(u, e))
    BY OthersFree
  <2> QED  BY <1>1, <2>1 DEF KeptCalls
<1>3. LockStep(Game, d, g)
  BY <1>1 DEF LockStep, Holds, Inside
<1>4. CountStep(Cell(Game, d), g)
  <2>1. entries \in Nat /\ \A c \in Commands : command[c].active \in Nat
    BY DEF TypeOK
  <2> QED  BY <1>1, <2>1 DEF CountStep, InCommand, Num, Inside
<1>5. ClosedStep(Game, d, g, h)
  <2>1. ~Past(g) /\ ~Op(g) /\ g.call # "native"
    BY DEF Past, Op
  <2>2. g.at # "drain" /\ Cell(Game, d).at # "drain" /\ g.at # "unload" /\ g.at \notin Releasing
    BY DEF Closing, Releasing
  <2>3. Cell(Game, d + 1).at # "drain"
    BY NothingFacts
  <2> QED  BY <1>1, <2>1, <2>2, <2>3, SteadyClosed
<1>6. Regular(Game, d, g, h)
  BY <1>2, <1>3, <1>4, <1>5 DEF Regular
<1> QED  BY <1>0, <1>6, RegularStep

\* Steps that change no call.
LEMMA PlainStep ==
  ASSUME HostConstants, TypeOK, HostInv,
         captured' \in SUBSET Patches, observed' \in SUBSET {"connect", "init", "complete"},
         UNCHANGED <<boot, state, accepting, open, entries, lifecycle, plugin, frames>>,
         command' \in [Commands -> [state : {"none", "registered", "retired"},
                                    enabled : BOOLEAN, active : Nat]],
         \A c \in Commands : /\ command'[c].active = command[c].active
                             /\ command'[c].state = "none" => command[c].state = "none",
         \/ \A c \in Commands : command[c].state = "none" => command'[c].state = "none"
         \/ state \in {"starting", "running"}
  PROVE  TypeOK' /\ HostInv'
<1>0. Game \in Threads
  BY DEF HostConstants
<1>1. PICK d \in Levels : /\ d = MaxDepth + 1 /\ StacksOK' /\ Changes(Game, d, Nothing, Nothing)
                          /\ Cell(Game, d) = Nothing /\ Cell(Game, d + 1) = Nothing
                          /\ StackStep(Game, d, Nothing, Nothing)
  <2>1. (MaxDepth + 1) + 1 = MaxDepth + 2
    BY DEF HostConstants
  <2> QED  BY <1>0, <2>1, SameChanges, SameStackStep
<1>2. TypeOK'
  BY <1>1 DEF TypeOK, StacksOK
<1>3. KeptCalls(Game, d) /\ LockStep(Game, d, Nothing) /\ CountStep(Cell(Game, d), Nothing)
  <2>1. entries \in Nat /\ \A c \in Commands : command[c].active \in Nat
    BY DEF TypeOK
  <2> QED  BY <1>1, <2>1, NothingFacts
     DEF KeptCalls, LockStep, CountStep, Holds, InCommand, Num, Inside
<1>4. ClosedStep(Game, d, Nothing, Nothing)
  <2>1. ~Past(Nothing) /\ ~Op(Nothing) /\ Nothing.at \notin Releasing
    BY NothingFacts DEF Past, Op, Releasing
  <2> QED  BY <1>1, <2>1, NothingFacts, SteadyClosed
<1>5. Regular(Game, d, Nothing, Nothing)
  BY <1>1, <1>3, <1>4, NothingOK DEF Regular
<1> QED  BY <1>0, <1>2, <1>5, RegularStep

LEMMA CaptureStep ==
  ASSUME HostConstants, TypeOK, HostInv, NEW patches \in SUBSET Patches, Capture(patches)
  PROVE  TypeOK' /\ HostInv'
<1>1. /\ UNCHANGED <<boot, state, accepting, open, entries, lifecycle, plugin, frames>>
      /\ UNCHANGED <<command, observed>> /\ captured' \in SUBSET Patches
  BY DEF Capture, hostVars, TypeOK
<1> QED  BY <1>1, PlainStep DEF TypeOK

LEMMA ConnectStep ==
  ASSUME HostConstants, TypeOK, HostInv, Connect
  PROVE  TypeOK' /\ HostInv'
<1>1. /\ UNCHANGED <<boot, state, accepting, open, entries, lifecycle, plugin, frames>>
      /\ UNCHANGED command /\ captured' \in SUBSET Patches
      /\ observed' \in SUBSET {"connect", "init", "complete"}
  BY DEF Connect, Uncaptured, hostVars, TypeOK
<1> QED  BY <1>1, PlainStep DEF TypeOK

LEMMA RegisterStep ==
  ASSUME HostConstants, TypeOK, HostInv, NEW t \in Threads, Register(t)
  PROVE  TypeOK' /\ HostInv'
<1>1. /\ UNCHANGED <<boot, state, accepting, open, entries, lifecycle, plugin, frames>>
      /\ UNCHANGED <<captured, observed>>
      /\ accepting /\ command["own"].state = "none"
      /\ plugin \in {"none", "loaded", "prepared", "closed"}
      /\ command' = [command EXCEPT !["own"] =
           [state |-> "registered", enabled |-> plugin = "loaded", active |-> 0]]
  BY DEF Register, bootVars, TypeOK
<1>2. state \in {"starting", "running"}
  BY <1>1 DEF HostInv, ClosedInv
<1>3. command["own"].active = 0
  BY <1>1, NoRecord DEF Commands
<1>4. PICK b \in BOOLEAN : b = (plugin = "loaded")
  OBVIOUS
<1>5. command' = [command EXCEPT !["own"] =
        [state |-> "registered", enabled |-> b, active |-> 0]]
  BY <1>1, <1>4
<1>6. command' \in [Commands -> [state : {"none", "registered", "retired"},
                                 enabled : BOOLEAN, active : Nat]]
  BY <1>5 DEF TypeOK, Commands
<1>7. \A c \in Commands : /\ command'[c].active = command[c].active
                          /\ command'[c].state = "none" => command[c].state = "none"
  BY <1>3, <1>5 DEF TypeOK
<1> QED  BY <1>1, <1>2, <1>6, <1>7, PlainStep DEF TypeOK

LEMMA UnregisterStep ==
  ASSUME HostConstants, TypeOK, HostInv, NEW t \in Threads, Unregister(t)
  PROVE  TypeOK' /\ HostInv'
<1>1. /\ UNCHANGED <<boot, state, accepting, open, entries, lifecycle, plugin, frames>>
      /\ UNCHANGED <<captured, observed>>
      /\ command["own"].state = "registered"
      /\ command' = [command EXCEPT !["own"].state = "retired", !["own"].enabled = FALSE]
  BY DEF Unregister, bootVars
<1>2. command' \in [Commands -> [state : {"none", "registered", "retired"},
                                 enabled : BOOLEAN, active : Nat]]
  BY <1>1 DEF TypeOK, Commands
<1>3. \A c \in Commands :
        /\ command'[c].active = command[c].active
        /\ command'[c].state = "none" <=> command[c].state = "none"
  BY <1>1 DEF TypeOK, Commands
<1> QED  BY <1>1, <1>2, <1>3, PlainStep DEF TypeOK

\* A call that is made while none is in progress on the game's thread.
LEMMA EmptyStack ==
  ASSUME HostConstants, TypeOK, frames[Game] = <<>>
  PROVE  /\ Len(frames[Game]) = 0 /\ Len(frames[Game]) + 1 = 1
         /\ \A e \in Levels : Cell(Game, e) = Nothing
<1>1. Len(frames[Game]) = 0 /\ Game \in Threads
  BY StackType, EmptySeq DEF HostConstants
<1> QED  BY <1>1, CellType DEF Levels

LEMMA OnInitStep ==
  ASSUME HostConstants, TypeOK, HostInv, OnInit
  PROVE  TypeOK' /\ HostInv'
<1>0. /\ Game \in Threads /\ Running(Game) /\ frames[Game] = <<>> /\ HostSame
      /\ captured' \in SUBSET Patches /\ observed' \in SUBSET {"connect", "init", "complete"}
      /\ MaxDepth \in Nat /\ MaxDepth >= 2
  BY DEF OnInit, Uncaptured, HostConstants, TypeOK, HostSame, hostVars, Running
<1>1. UNCHANGED <<state, accepting, open, lifecycle, command, plugin, entries>>
  BY <1>0, HostSameFacts
<1>2. PICK d \in Levels : /\ d = 1 /\ d = Len(frames[Game]) + 1 /\ d + 1 \in Levels
                          /\ \A e \in Levels : Cell(Game, e) = Nothing
                          /\ d < MaxDepth /\ Len(frames[Game]) + 2 <= MaxDepth
  BY <1>0, EmptyStack DEF Levels
<1>3. CASE /\ boot = "stopped" /\ boot' = "starting"
           /\ frames' = [frames EXCEPT ![Game] = <<Call("init", "host"), Call("start", "begin")>>]
  <2>1. PICK g \in Frame, h \in Frame :
          /\ g = Call("init", "host") /\ h = Call("start", "begin")
          /\ g.call = "init" /\ g.at = "host" /\ g.answer = "none"
          /\ h.call = "start" /\ h.at = "begin"
    BY MadeCall
  <2>2. frames' = [frames EXCEPT ![Game] = @ \o <<g, h>>]
    BY <1>0, <1>3, <2>1 DEF TypeOK
  <2>4. StacksOK' /\ Changes(Game, d, g, h)
    BY <1>2, <2>2, HookChanges
  <2>5. TypeOK'
    BY <1>0, <1>1, <1>3, <2>4 DEF TypeOK, StacksOK, Phases
  <2>6. state = "stopped"
    BY <1>3 DEF HostInv, ClosedInv
  <2>7. CallOK(Game, g)' /\ CallOK(Game, h)'
    BY <1>1, <1>3, <2>1, <2>6 DEF CallOK, Points, Closing, Releasing
  <2>8. HostCall(h) /\ Follows(g, h) /\ NestFor(Game, d, g)
    BY <2>1, CallNames DEF HostCall, Follows, NestFor
  <2>9. StackStep(Game, d, g, h)
    <3>1. g.call \notin {"start", "stop"} /\ g.at # "stop" /\ Cell(Game, d + 1) = Nothing
      BY <1>2, <2>1
    <3> QED  BY <1>0, <1>2, <2>8, <3>1, PushStackStep
  <2>10. \A e \in Depths : ~BootBound(Cell(Game, e))
    BY <1>2, NothingFacts DEF Depths, Levels, BootBound
  <2>11. HostInv'
    <3>1. /\ g.at \notin Closing /\ Nothing.at \notin Closing /\ Nothing.call = "none"
          /\ Cell(Game, d) = Nothing /\ Cell(Game, d + 1) = Nothing /\ boot' # "stopped"
      BY <1>2, <1>3, <2>1, NothingFacts DEF Closing
    <3> QED  BY <1>0, <2>1, <2>4, <2>5, <2>7, <2>9, <2>10, <3>1, BootStep
  <2> QED  BY <2>5, <2>11
<1>4. CASE UNCHANGED boot /\ Push(Game, Call("init", "original"))
  <2>1. PICK g \in Frame : /\ g = Call("init", "original")
                           /\ g.call = "init" /\ g.at = "original" /\ g.answer = "none"
    BY MadeCall
  <2>2. StacksOK' /\ Changes(Game, d, g, Nothing)
    BY <1>0, <1>2, <1>4, <2>1, PushChanges
  <2>3. TypeOK'
    BY <1>0, <1>1, <1>4, <2>2 DEF TypeOK, StacksOK
  <2>4. CallOK(Game, g)'
    BY <2>1 DEF CallOK, Points, Closing, Releasing
  <2>5. HostCall(Nothing) /\ Follows(g, Nothing) /\ NestFor(Game, d, g)
    BY <2>1, NothingFacts, CallNames DEF HostCall, Follows, NestFor
  <2>6. StackStep(Game, d, g, Nothing)
    <3>1. g.call \notin {"start", "stop"} /\ g.at # "stop" /\ Cell(Game, d + 1) = Nothing
      BY <1>2, <2>1
    <3> QED  BY <1>0, <1>2, <2>5, <3>1, PushStackStep
  <2>7. HostInv'
    <3>1. /\ g.at \notin Closing /\ Nothing.at \notin Closing /\ Nothing.call = "none"
          /\ Cell(Game, d) = Nothing /\ Cell(Game, d + 1) = Nothing
      BY <1>2, <2>1, NothingFacts DEF Closing
    <3> QED  BY <1>0, <1>4, <2>1, <2>2, <2>3, <2>4, <2>6, <3>1, NothingOK, BootStep
  <2> QED  BY <2>3, <2>7
<1> QED  BY <1>3, <1>4 DEF OnInit

\* A step of the bootstrap that changes only its own innermost call.
LEMMA TopBootStep ==
  ASSUME HostConstants, TypeOK, HostInv, HostSame, frames[Game] # <<>>,
         captured' \in SUBSET Patches, observed' \in SUBSET {"connect", "init", "complete"},
         boot' \in Phases, NEW g \in Frame, SetTop(Game, g), g.call = Top(Game).call,
         g.call \in {"init", "disconnect"}, g.at \in {"original", "complete"},
         boot' = "stopped" => boot = "stopped" \/ state = "stopped",
         boot' = boot \/ \A e \in Depths : e # Len(frames[Game]) => ~BootBound(Cell(Game, e)),
         g.at \in Points(g.call), Top(Game).at \notin Closing
  PROVE  TypeOK' /\ HostInv'
<1>0. Game \in Threads
  BY DEF HostConstants
<1>1. UNCHANGED <<state, accepting, open, lifecycle, command, plugin, entries>>
  BY HostSameFacts
<1>2. PICK d \in Levels :
        /\ d = Len(frames[Game]) /\ Top(Game) = Cell(Game, d)
        /\ Cell(Game, d + 1) = Nothing
  BY <1>0, TopFacts
<1>3. StacksOK' /\ Changes(Game, d, g, Nothing) /\ StackStep(Game, d, g, Nothing)
  BY <1>0, <1>2, SetTopChanges, TopStackStep
<1>4. TypeOK'
  BY <1>1, <1>3 DEF TypeOK, StacksOK
<1>5. CallOK(Game, g)'
  BY DEF CallOK, Points, Closing, Releasing
<1>6. boot' = boot \/ \A e \in Depths : Other(Game, d, Game, e) => ~BootBound(Cell(Game, e))
  BY <1>2 DEF Other
<1>7. g.at \notin Closing
  BY DEF Closing
<1>8. HostInv'
  BY <1>2, <1>3, <1>4, <1>5, <1>6, <1>7, NothingOK, BootStep
<1> QED  BY <1>4, <1>8

LEMMA HostStartedStep ==
  ASSUME HostConstants, TypeOK, HostInv, HostStarted
  PROVE  TypeOK' /\ HostInv'
<1>0. /\ Game \in Threads /\ frames[Game] # <<>> /\ Top(Game).call = "init"
      /\ Top(Game).at = "host" /\ HostSame /\ UNCHANGED <<captured, observed>>
      /\ SetTop(Game, Call("init", "original"))
  BY DEF HostStarted, At, HostConstants, HostSame, hostVars
<1>1. /\ Top(Game) \in Frame /\ CallOK(Game, Top(Game)) /\ Follows(Top(Game), Nothing)
      /\ Len(frames[Game]) \in Levels /\ Top(Game) = Cell(Game, Len(frames[Game]))
  BY <1>0, TopFacts
<1>2. Len(frames[Game]) = 1
  BY <1>0, <1>1, InitFirst
<1>3. Top(Game).answer \in {"ok", "refused", "retained"}
  BY <1>0, <1>1, NothingFacts DEF Follows, Frame
<1>4. /\ boot' \in Phases
      /\ boot' = "stopped" => Top(Game).answer = "refused"
  BY <1>3 DEF HostStarted, Phases
<1>5. boot' = "stopped" => state = "stopped"
  BY <1>0, <1>1, <1>4 DEF CallOK
<1>6. PICK g \in Frame : g = Call("init", "original") /\ g.call = "init" /\ g.at = "original"
  BY MadeCall
<1>7. \A e \in Depths : e # Len(frames[Game]) => ~BootBound(Cell(Game, e))
  <2>1. ASSUME NEW e \in Depths, e # 1 PROVE Cell(Game, e) = Nothing
    BY <1>2, <2>1 DEF Cell, Depths
  <2> QED  BY <1>2, <2>1, NothingFacts DEF BootBound
<1>8. captured' \in SUBSET Patches /\ observed' \in SUBSET {"connect", "init", "complete"}
  BY <1>0 DEF TypeOK
<1>9. g.at \in Points(g.call) /\ Top(Game).at \notin Closing
  BY <1>0, <1>6 DEF Points, Closing
<1> QED  BY <1>0, <1>4, <1>5, <1>6, <1>7, <1>8, <1>9, TopBootStep

\* The bootstrap begins or repeats its call of Stop.
LEMMA CallBootStep ==
  ASSUME HostConstants, TypeOK, HostInv, HostSame, UNCHANGED <<captured, observed>>,
         frames[Game] # <<>>, Top(Game).call \in {"init", "disconnect"},
         Top(Game).at \notin Closing, Len(frames[Game]) < MaxDepth,
         boot' = "stopping", boot = "stopping" \/ Len(frames[Game]) = 1,
         NEW g \in Frame, g.call = Top(Game).call, g.at = "stop", g.answer = "none",
         frames' = [frames EXCEPT ![Game] = Append(Append(Front(@), g), Call("stop", "begin"))]
  PROVE  TypeOK' /\ HostInv'
<1>0. Game \in Threads
  BY DEF HostConstants
<1>1. UNCHANGED <<state, accepting, open, lifecycle, command, plugin, entries>>
  BY HostSameFacts
<1>2. PICK d \in Levels :
        /\ d = Len(frames[Game]) /\ Top(Game) = Cell(Game, d)
        /\ Cell(Game, d + 1) = Nothing
  BY <1>0, TopFacts
<1>3. PICK h \in Frame : h = Call("stop", "begin") /\ h.call = "stop" /\ h.at = "begin"
  BY MadeCall
<1>4. StacksOK' /\ Changes(Game, d, g, h)
  BY <1>2, <1>3, CallChanges
<1>5. StackStep(Game, d, g, h)
  BY <1>2, <1>3, CallStackStep
<1>6. TypeOK'
  BY <1>1, <1>4 DEF TypeOK, StacksOK, Phases
<1>7. CallOK(Game, g)' /\ CallOK(Game, h)'
  BY <1>3 DEF CallOK, Points, Closing, Releasing
<1>8. boot' = boot \/ \A e \in Depths : Other(Game, d, Game, e) => ~BootBound(Cell(Game, e))
  <2>1. CASE d = 1
    <3>1. ASSUME NEW e \in Depths, e # 1 PROVE Cell(Game, e) = Nothing
      BY <1>2, <2>1, <3>1 DEF Cell, Depths
    <3> QED  BY <2>1, <3>1, NothingFacts DEF BootBound, Other
  <2> QED  BY <1>2, <2>1
<1>9. g.at \notin Closing
  BY DEF Closing
<1>10. HostInv'
  BY <1>2, <1>4, <1>5, <1>6, <1>7, <1>8, <1>9, BootStep
<1> QED  BY <1>6, <1>10

\* A call of the bootstrap returns to the engine.
LEMMA PopBootStep ==
  ASSUME HostConstants, TypeOK, HostInv, HostSame, frames[Game] # <<>>,
         captured' = captured, observed' \in SUBSET {"connect", "init", "complete"},
         boot' = boot, Pop(Game), Top(Game).call \in {"init", "disconnect"}
  PROVE  TypeOK' /\ HostInv'
<1>0. Game \in Threads
  BY DEF HostConstants
<1>1. UNCHANGED <<state, accepting, open, lifecycle, command, plugin, entries>>
  BY HostSameFacts
<1>2. PICK d \in Levels :
        /\ d = Len(frames[Game]) /\ Top(Game) = Cell(Game, d)
        /\ Cell(Game, d + 1) = Nothing /\ CallOK(Game, Top(Game))
  BY <1>0, TopFacts
<1>3. StacksOK' /\ Changes(Game, d, Nothing, Nothing)
  BY <1>0, <1>2, PopChanges
<1>4. StackStep(Game, d, Nothing, Nothing)
  BY <1>0, <1>2, PopStackStep
<1>5. TypeOK'
  BY <1>1, <1>3 DEF TypeOK, StacksOK
<1>6. Cell(Game, d).at \notin Closing /\ Nothing.at \notin Closing /\ Nothing.call = "none"
  BY <1>2, NothingFacts DEF CallOK, Points, Closing, Releasing
<1>7. HostInv'
  BY <1>2, <1>3, <1>4, <1>5, <1>6, NothingOK, BootStep
<1> QED  BY <1>5, <1>7

LEMMA OriginalInitStep ==
  ASSUME HostConstants, TypeOK, HostInv, OriginalInit
  PROVE  TypeOK' /\ HostInv'
<1>0. /\ Game \in Threads /\ frames[Game] # <<>> /\ Top(Game).call = "init"
      /\ Top(Game).at = "original" /\ HostSame /\ UNCHANGED <<captured, observed>>
      /\ Len(frames[Game]) < MaxDepth
      /\ captured' \in SUBSET Patches /\ observed' \in SUBSET {"connect", "init", "complete"}
  BY DEF OriginalInit, At, HostConstants, HostSame, hostVars, TypeOK
<1>1. /\ Top(Game) \in Frame /\ Len(frames[Game]) \in Levels
      /\ Top(Game) = Cell(Game, Len(frames[Game]))
  BY <1>0, TopFacts
<1>2. Len(frames[Game]) = 1
  <2>1. PICK n \in Levels : n = Len(frames[Game]) /\ Cell(Game, n).call = "init"
    BY <1>0, <1>1
  <2>2. n = 1
    BY <1>0, <2>1, InitFirst
  <2> QED  BY <2>1, <2>2
<1>3. CASE StopBegins(Top(Game)) /\ boot \in {"running", "stopping"}
  <2>1. PICK g : g = [Top(Game) EXCEPT !.at = "stop", !.answer = "none"]
    OBVIOUS
  <2>2. g \in Frame /\ g.call = "init" /\ g.at = "stop" /\ g.answer = "none"
    BY <1>0, <1>1, <2>1 DEF Frame
  <2>3. /\ boot' = "stopping"
        /\ frames' = [frames EXCEPT ![Game] = Append(Append(Front(@), g), Call("stop", "begin"))]
    BY <1>3, <2>1 DEF StopBegins
  <2>4. Top(Game).at \notin Closing
    BY <1>0 DEF Closing
  <2> QED  BY <1>0, <1>2, <2>2, <2>3, <2>4, CallBootStep
<1>4. CASE StopBegins(Top(Game)) /\ boot \notin {"running", "stopping"}
  <2>1. PICK g : g = [Top(Game) EXCEPT !.at = "complete"]
    OBVIOUS
  <2>2. g \in Frame /\ g.call = "init" /\ g.at = "complete"
    BY <1>0, <1>1, <2>1 DEF Frame
  <2>3. boot' = boot /\ SetTop(Game, g) /\ boot' \in Phases
    BY <1>4, <2>1 DEF StopBegins, TypeOK
  <2>4. Top(Game).at \notin Closing /\ g.at \in Points(g.call)
    BY <1>0, <2>2 DEF Closing, Points
  <2> QED  BY <1>0, <2>2, <2>3, <2>4, TopBootStep
<1>5. CASE Pop(Game) /\ UNCHANGED boot
  BY <1>0, <1>5, PopBootStep
<1> QED  BY <1>3, <1>4, <1>5 DEF OriginalInit

LEMMA CompletedStep ==
  ASSUME HostConstants, TypeOK, HostInv, Completed
  PROVE  TypeOK' /\ HostInv'
<1>0. /\ Game \in Threads /\ frames[Game] # <<>> /\ Top(Game).at = "complete" /\ HostSame
      /\ captured' = captured /\ boot' = boot /\ Pop(Game)
      /\ observed' \in SUBSET {"connect", "init", "complete"}
  BY DEF Completed, HostConstants, HostSame, hostVars, TypeOK
<1>1. Top(Game).call \in {"init", "disconnect"}
  BY <1>0, TopFacts DEF CallOK, Points, Closing, Releasing
<1> QED  BY <1>0, <1>1, PopBootStep

\* When the host has stopped, no call of the bootstrap below the innermost waits for it.
LEMMA StoppedBelow ==
  ASSUME HostConstants, TypeOK, HostInv, state = "stopped", frames[Game] # <<>>,
         Top(Game).call \notin {"start", "stop"}, NEW e \in Depths, e # Len(frames[Game])
  PROVE  ~BootBound(Cell(Game, e))
<1>0. Game \in Threads /\ MaxDepth \in Nat
  BY DEF HostConstants
<1>1. PICK n \in Levels : n = Len(frames[Game]) /\ Top(Game) = Cell(Game, n)
  BY <1>0, TopFacts
<1>2. ASSUME NEW i \in Levels, i < n
      PROVE  /\ Cell(Game, i).at \in {"original", "load", "in", "unload", "host", "stop"}
             /\ Cell(Game, i).call \notin {"start", "stop"}
             /\ Cell(Game, i).at \in {"host", "stop"} =>
                  Cell(Game, i + 1).call \in {"start", "stop"}
             /\ i + 1 \in Levels
  <2>1. i + 1 \in Levels /\ i + 1 <= n /\ i <= n /\ i + 1 # 1 /\ (i + 1) - 1 = i
    BY <1>2 DEF Levels
  <2>2. Cell(Game, i + 1) # Nothing
    BY <1>0, <1>1, <2>1, CellType, CallNames
  <2>3. Follows(Cell(Game, i), Cell(Game, i + 1)) /\ CallOK(Game, Cell(Game, i))
    <3>1. PICK j \in Levels : j = i + 1
      BY <2>1
    <3> QED  BY <1>0, <2>1, <2>2, <3>1, Below
  <2>4. Cell(Game, i).at \in {"original", "load", "in", "unload", "host", "stop"}
    BY <2>2, <2>3 DEF Follows
  <2>5. Cell(Game, i).call \notin {"start", "stop"}
    BY <2>3, <2>4 DEF CallOK, Points, Closing, Releasing
  <2> QED  BY <2>1, <2>2, <2>3, <2>4, <2>5 DEF Follows
<1>3. e \in Levels
  BY <1>0 DEF Depths, Levels
<1>4. CASE e > n
  <2>1. Cell(Game, e) = Nothing
    BY <1>0, <1>1, <1>3, <1>4, CellType
  <2> QED  BY <2>1, NothingFacts DEF BootBound
<1>5. CASE e < n
  <2>1. ASSUME Cell(Game, e).at \in {"host", "stop"} PROVE FALSE
    <3>1. Cell(Game, e + 1).call \in {"start", "stop"} /\ e + 1 \in Levels
      BY <1>2, <1>3, <1>5, <2>1
    <3>2. e + 1 < n \/ e + 1 = n
      BY <1>3, <1>5 DEF Levels
    <3> QED  BY <1>1, <1>2, <3>1, <3>2
  <2> QED  BY <1>2, <1>3, <1>5, <2>1 DEF BootBound
<1> QED  BY <1>1, <1>3, <1>4, <1>5 DEF Levels

LEMMA StopHostStep ==
  ASSUME HostConstants, TypeOK, HostInv, StopHost
  PROVE  TypeOK' /\ HostInv'
<1>0. /\ Game \in Threads /\ frames[Game] # <<>> /\ Top(Game).at = "stop" /\ HostSame
      /\ UNCHANGED <<captured, observed>>
      /\ captured' \in SUBSET Patches /\ observed' \in SUBSET {"connect", "init", "complete"}
  BY DEF StopHost, HostConstants, HostSame, hostVars, TypeOK
<1>1. /\ Top(Game) \in Frame /\ CallOK(Game, Top(Game)) /\ Len(frames[Game]) < MaxDepth
      /\ Top(Game).at \notin Closing
  BY <1>0, TopFacts DEF Closing
<1>2. Top(Game).call \in {"init", "disconnect"} /\ boot = "stopping"
  BY <1>0, <1>1 DEF CallOK, Points, Closing, Releasing
<1>3. PICK c : c = [Top(Game) EXCEPT !.at = "complete"]
  OBVIOUS
<1>4. c \in Frame /\ c.call = Top(Game).call /\ c.at = "complete"
  BY <1>1, <1>3 DEF Frame
<1>5. c.at \in Points(c.call)
  BY <1>2, <1>4 DEF Points
<1>6. CASE Top(Game).answer = "ok" /\ boot' = "stopped" /\ Goto(Game, "complete")
  <2>1. state = "stopped"
    BY <1>0, <1>1, <1>6 DEF CallOK
  <2>2. \A e \in Depths : e # Len(frames[Game]) => ~BootBound(Cell(Game, e))
    BY <1>0, <1>2, <2>1, StoppedBelow
  <2>3. SetTop(Game, c) /\ boot' \in Phases
    BY <1>3, <1>6 DEF Goto, Phases
  <2> QED  BY <1>0, <1>1, <1>2, <1>4, <1>5, <2>1, <2>2, <2>3, TopBootStep
<1>7. CASE UNCHANGED boot /\ Goto(Game, "complete")
  <2>1. SetTop(Game, c) /\ boot' \in Phases /\ boot' = boot
    BY <1>3, <1>7 DEF Goto, TypeOK
  <2> QED  BY <1>0, <1>1, <1>2, <1>4, <1>5, <2>1, TopBootStep
<1>8. CASE /\ UNCHANGED boot
           /\ frames' = [frames EXCEPT ![Game] =
                Append(Append(Front(@), [Top(Game) EXCEPT !.answer = "none"]),
                       Call("stop", "begin"))]
  <2>1. PICK g : g = [Top(Game) EXCEPT !.answer = "none"]
    OBVIOUS
  <2>2. g \in Frame /\ g.call = Top(Game).call /\ g.at = "stop" /\ g.answer = "none"
    BY <1>0, <1>1, <2>1 DEF Frame
  <2>3. frames' = [frames EXCEPT ![Game] = Append(Append(Front(@), g), Call("stop", "begin"))]
    BY <1>8, <2>1
  <2> QED  BY <1>0, <1>1, <1>2, <1>8, <2>2, <2>3, CallBootStep
<1> QED  BY <1>6, <1>7, <1>8 DEF StopHost

\* Engine code that is not a command's, or in a native call, disconnects the server.
LEMMA NestNew ==
  ASSUME HostConstants, TypeOK, HostInv, Running(Game),
         frames[Game] # <<>> => Top(Game).call \notin {"command", "transition"},
         NEW d \in Levels, d = Len(frames[Game]) + 1, NEW f
  PROVE  NestFor(Game, d, f)
<1>0. Game \in Threads /\ Len(frames[Game]) \in Nat
  BY StackType DEF HostConstants
<1> SUFFICES ASSUME \A e \in 1..(d - 1) : Cell(Game, e).call # "native",
                    NEW e \in 1..(d - 1), Cell(Game, e).call = "command"
             PROVE  FALSE
  BY DEF NestFor
<1>1. PICK n \in Levels : n = Len(frames[Game]) /\ n = d - 1 /\ frames[Game] # <<>>
  BY <1>0, EmptySeq DEF Levels
<1>2. /\ Top(Game) = Cell(Game, n) /\ Cell(Game, n) # Nothing /\ CallOK(Game, Cell(Game, n))
      /\ Cell(Game, n).at \in {"original", "load", "in", "unload"}
      /\ Cell(Game, n).call \notin {"command", "transition", "native"} /\ n \in Depths
  <2>1. n \in 1..(d - 1)
    BY <1>1 DEF Levels
  <2> QED  BY <1>0, <1>1, <2>1, TopFacts DEF Running
<1>3. Cell(Game, n).call \in {"init", "start", "stop"}
  BY <1>2 DEF CallOK, Points, Closing, Releasing
<1>4. e \in Levels /\ e <= n /\ e # n
  BY <1>1, <1>2 DEF Levels
<1>5. n # 1
  BY <1>4 DEF Levels
<1>6. CASE Cell(Game, n).call = "start"
  <2>1. n = 2 /\ Cell(Game, 1).call = "init"
    BY <1>0, <1>6, InitFirst
  <2> QED  BY <1>4, <2>1 DEF Levels
<1>7. CASE Cell(Game, n).call = "stop"
  <2>1. Cell(Game, n - 1).call \in {"init", "disconnect"}
    BY <1>0, <1>7, InitFirst
  <2>2. n - 1 \in Depths /\ n - 1 \in Levels
    BY <1>0, <1>2, <1>5, Below
  <2>3. PICK m \in Levels :
          m = n - 1 /\ m \in Depths /\ Cell(Game, m).call \in {"init", "disconnect"}
    BY <2>1, <2>2
  <2>4. CASE Cell(Game, m).call = "init"
    <3>1. m = 1
      BY <1>0, <2>4, InitFirst
    <3> QED  BY <1>4, <2>3, <2>4, <3>1 DEF Levels
  <2>5. CASE Cell(Game, m).call = "disconnect"
    <3>1. NestFor(Game, m, Cell(Game, m))
      BY <1>0, <2>3 DEF HostInv, NestInv
    <3>2. \A i \in 1..(m - 1) : i \in 1..(d - 1)
      BY <1>1, <2>3 DEF Levels
    <3>3. e \in 1..(m - 1)
      <4>1. e # m
        BY <2>5
      <4> QED  BY <1>4, <2>3, <4>1 DEF Levels
    <3> QED  BY <2>5, <3>1, <3>2, <3>3 DEF NestFor
  <2> QED  BY <2>3, <2>4, <2>5
<1>8. CASE Cell(Game, n).call = "init"
  BY <1>0, <1>5, <1>8, InitFirst
<1> QED  BY <1>3, <1>6, <1>7, <1>8

LEMMA OnDisconnectStep ==
  ASSUME HostConstants, TypeOK, HostInv, OnDisconnect
  PROVE  TypeOK' /\ HostInv'
<1>0. /\ Game \in Threads /\ Running(Game) /\ HostSame
      /\ frames[Game] # <<>> => Top(Game).call \notin {"command", "transition"}
      /\ captured' \in SUBSET Patches /\ observed' = observed /\ MaxDepth \in Nat
      /\ Len(frames[Game]) + 2 <= MaxDepth
  BY DEF OnDisconnect, Uncaptured, HostConstants, TypeOK, HostSame, hostVars
<1>1. UNCHANGED <<state, accepting, open, lifecycle, command, plugin, entries>>
  BY <1>0, HostSameFacts
<1>2. PICK d \in Levels : /\ d = Len(frames[Game]) + 1 /\ d < MaxDepth
                          /\ Cell(Game, d) = Nothing /\ Cell(Game, d + 1) = Nothing
                          /\ Cell(Game, d).call = "none" /\ Cell(Game, d).at \notin Closing
  <2>1. Len(frames[Game]) \in Nat
    BY <1>0, StackType
  <2>2. PICK d : d = Len(frames[Game]) + 1 /\ d \in Levels /\ d + 1 \in Levels /\ d < MaxDepth
    BY <1>0, <2>1 DEF Levels
  <2>3. Cell(Game, d) = Nothing /\ Cell(Game, d + 1) = Nothing
    <3>1. d > Len(frames[Game]) /\ d + 1 > Len(frames[Game])
      BY <2>1, <2>2
    <3> QED  BY <1>0, <2>2, <3>1, CellType
  <2> QED  BY <2>2, <2>3, NothingFacts DEF Closing
<1>3. CASE /\ boot \in {"running", "stopping"} /\ boot' = "stopping"
           /\ frames' = [frames EXCEPT ![Game] =
                @ \o <<Call("disconnect", "stop"), Call("stop", "begin")>>]
  <2>1. PICK g \in Frame, h \in Frame :
          /\ g = Call("disconnect", "stop") /\ h = Call("stop", "begin")
          /\ g.call = "disconnect" /\ g.at = "stop" /\ g.answer = "none"
          /\ h.call = "stop" /\ h.at = "begin"
    BY MadeCall
  <2>2. frames' = [frames EXCEPT ![Game] = @ \o <<g, h>>]
    BY <1>3, <2>1
  <2>3. StacksOK' /\ Changes(Game, d, g, h)
    BY <1>0, <1>2, <2>2, HookChanges
  <2>4. TypeOK'
    BY <1>0, <1>1, <1>3, <2>3 DEF TypeOK, StacksOK, Phases
  <2>5. CallOK(Game, g)' /\ CallOK(Game, h)'
    BY <1>3, <2>1 DEF CallOK, Points, Closing, Releasing
  <2>6. HostCall(h) /\ Follows(g, h) /\ NestFor(Game, d, g)
    <3>1. HostCall(h) /\ Follows(g, h)
      BY <2>1, CallNames DEF HostCall, Follows
    <3> QED  BY <1>0, <1>2, <3>1, NestNew
  <2>7. StackStep(Game, d, g, h)
    <3>1. g.call \notin {"start", "stop"} /\ g.call # "init"
      BY <2>1
    <3> QED  BY <1>0, <1>2, <2>6, <3>1, PushStackStep
  <2>8. boot' = boot \/ \A e \in Depths : Other(Game, d, Game, e) => ~BootBound(Cell(Game, e))
    BY <1>0, <1>3 DEF HostInv, CallsInv, CallOK, BootBound
  <2>9. HostInv'
    <3>1. g.at \notin Closing /\ boot' # "stopped"
      BY <1>3, <2>1 DEF Closing
    <3> QED  BY <1>0, <1>2, <2>1, <2>3, <2>4, <2>5, <2>7, <2>8, <3>1, BootStep
  <2> QED  BY <2>4, <2>9
<1>4. CASE UNCHANGED boot /\ Push(Game, Call("disconnect", "complete"))
  <2>1. PICK g \in Frame : /\ g = Call("disconnect", "complete")
                           /\ g.call = "disconnect" /\ g.at = "complete" /\ g.answer = "none"
    BY MadeCall
  <2>2. StacksOK' /\ Changes(Game, d, g, Nothing)
    BY <1>0, <1>2, <1>4, <2>1, PushChanges
  <2>3. TypeOK'
    BY <1>0, <1>1, <1>4, <2>2 DEF TypeOK, StacksOK
  <2>4. CallOK(Game, g)'
    BY <2>1 DEF CallOK, Points, Closing, Releasing
  <2>5. HostCall(Nothing) /\ Follows(g, Nothing) /\ NestFor(Game, d, g)
    <3>1. HostCall(Nothing) /\ Follows(g, Nothing)
      BY <2>1, NothingFacts, CallNames DEF HostCall, Follows
    <3> QED  BY <1>0, <1>2, <3>1, NestNew
  <2>6. StackStep(Game, d, g, Nothing)
    <3>1. g.call \notin {"start", "stop"} /\ g.at # "stop" /\ g.call # "init"
      BY <2>1
    <3> QED  BY <1>0, <1>2, <2>5, <3>1, PushStackStep
  <2>7. HostInv'
    <3>1. g.at \notin Closing
      BY <2>1 DEF Closing
    <3> QED  BY <1>0, <1>2, <1>4, <2>1, <2>2, <2>3, <2>4, <2>6, <3>1, NothingOK, BootStep
  <2> QED  BY <2>3, <2>7
<1> QED  BY <1>3, <1>4 DEF OnDisconnect

-----------------------------------------------------------------------------
(* The host's Start, Stop and ReleaseResources.                            *)

\* Where a step puts its call, and what was there.
LEMMA TopPlace ==
  ASSUME HostConstants, TypeOK, HostInv, NEW t \in Threads, frames[t] # <<>>,
         NEW g \in Frame, SetTop(t, g), g.call = Top(t).call, g.at \notin {"host", "stop"}
  PROVE  \E d \in Levels :
           /\ d = Len(frames[t]) /\ d \in Depths /\ Cell(t, d) = Top(t)
           /\ Cell(t, d + 1) = Nothing
           /\ StacksOK' /\ Changes(t, d, g, Nothing) /\ StackStep(t, d, g, Nothing)
<1>1. PICK d \in Levels : d = Len(frames[t]) /\ d \in Depths /\ Cell(t, d) = Top(t)
  BY TopFacts
<1>2. StacksOK' /\ Changes(t, d, g, Nothing) /\ StackStep(t, d, g, Nothing)
      /\ Cell(t, d + 1) = Nothing
  BY <1>1, SetTopChanges, TopStackStep
<1> QED  BY <1>1, <1>2

LEMMA PopPlace ==
  ASSUME HostConstants, TypeOK, HostInv, NEW t \in Threads, frames[t] # <<>>, Pop(t),
         Top(t).call \notin {"start", "stop"}
  PROVE  \E d \in Levels :
           /\ d = Len(frames[t]) /\ d \in Depths /\ Cell(t, d) = Top(t)
           /\ Cell(t, d + 1) = Nothing
           /\ StacksOK' /\ Changes(t, d, Nothing, Nothing) /\ StackStep(t, d, Nothing, Nothing)
<1>1. PICK d \in Levels : d = Len(frames[t]) /\ d \in Depths /\ Cell(t, d) = Top(t)
  BY TopFacts
<1>2. StacksOK' /\ Changes(t, d, Nothing, Nothing) /\ StackStep(t, d, Nothing, Nothing)
      /\ Cell(t, d + 1) = Nothing
  BY <1>1, PopChanges, PopStackStep
<1> QED  BY <1>1, <1>2

LEMMA PushPlace ==
  ASSUME HostConstants, TypeOK, HostInv, NEW t \in Threads, Running(t), NEW g \in Frame,
         Push(t, g), g.call \in {"command", "native", "transition"},
         g.at \notin {"host", "stop"}
  PROVE  \E d \in Levels :
           /\ Cell(t, d) = Nothing /\ Cell(t, d + 1) = Nothing
           /\ StacksOK' /\ Changes(t, d, g, Nothing) /\ StackStep(t, d, g, Nothing)
<1>1. /\ Len(frames[t]) \in Nat /\ Len(frames[t]) + 1 \in Levels
      /\ Cell(t, Len(frames[t]) + 1) = Nothing /\ Cell(t, Len(frames[t]) + 2) = Nothing
      /\ StacksOK' /\ Changes(t, Len(frames[t]) + 1, g, Nothing)
  BY StackType, PushChanges
<1>2. PICK d \in Levels : /\ d = Len(frames[t]) + 1 /\ d + 1 = Len(frames[t]) + 2
  BY <1>1
<1>3. Cell(t, d) = Nothing /\ Cell(t, d + 1) = Nothing /\ Changes(t, d, g, Nothing)
  BY <1>1, <1>2
<1>4. HostCall(Nothing) /\ Follows(g, Nothing) /\ NestFor(t, d, g)
  BY NothingFacts, CallNames DEF HostCall, Follows, NestFor
<1>5. g.call \notin {"start", "stop"} /\ g.call # "init" /\ g.at # "stop"
  OBVIOUS
<1>6. StackStep(t, d, g, Nothing)
  BY <1>2, <1>3, <1>4, <1>5, PushStackStep
<1> QED  BY <1>1, <1>3, <1>6

LEMMA ReturnPlace ==
  ASSUME HostConstants, TypeOK, HostInv, frames[Game] # <<>>,
         Top(Game).call \in {"start", "stop"},
         NEW a \in {"ok", "refused", "retained"}, Return(Game, a)
  PROVE  \E d \in Levels, g \in Frame :
           /\ d \in Depths /\ Len(frames[Game]) = d + 1 /\ Cell(Game, d + 1) = Top(Game)
           /\ g.call = Cell(Game, d).call /\ g.at = Cell(Game, d).at /\ g.answer = a
           /\ g.call \in {"init", "disconnect"} /\ CallOK(Game, Cell(Game, d))
           /\ Top(Game).call = "start" => g.call = "init" /\ g.at = "host"
           /\ Top(Game).call = "stop" => g.at = "stop"
           /\ StacksOK' /\ Changes(Game, d, g, Nothing) /\ StackStep(Game, d, g, Nothing)
<1>1. PICK d \in Levels :
           /\ d \in Depths /\ Len(frames[Game]) = d + 1 /\ Top(Game) = Cell(Game, d + 1)
           /\ Cell(Game, d).answer = "none" /\ Cell(Game, d) \in Frame
           /\ CallOK(Game, Cell(Game, d))
           /\ Top(Game).call = "start" => Cell(Game, d).call = "init" /\ Cell(Game, d).at = "host"
           /\ Top(Game).call = "stop" =>
                Cell(Game, d).call \in {"init", "disconnect"} /\ Cell(Game, d).at = "stop"
           /\ StackStep(Game, d, [Cell(Game, d) EXCEPT !.answer = a], Nothing)
  BY ReturnStackStep
<1>2. a \in {"none", "ok", "refused", "retained"}
  OBVIOUS
<1>3. /\ [Cell(Game, d) EXCEPT !.answer = a] \in Frame
      /\ StacksOK' /\ Changes(Game, d, [Cell(Game, d) EXCEPT !.answer = a], Nothing)
  BY <1>1, <1>2, ReturnChanges
<1>4. PICK g \in Frame : g = [Cell(Game, d) EXCEPT !.answer = a]
  BY <1>3
<1>5. g.call = Cell(Game, d).call /\ g.at = Cell(Game, d).at /\ g.answer = a
  BY <1>1, <1>4 DEF Frame
<1> QED  BY <1>1, <1>3, <1>4, <1>5

\* A step of the host or of a command.
LEMMA HostStep ==
  ASSUME HostConstants, TypeOK, HostInv, TypeOK', NEW t \in Threads, NEW d,
         NEW g \in Frame \cup {Nothing}, Changes(t, d, g, Nothing),
         StackStep(t, d, g, Nothing), CallOK(t, g)', KeptCalls(t, d), LockStep(t, d, g),
         CountStep(Cell(t, d), g), ClosedStep(t, d, g, Nothing)
  PROVE  HostInv'
<1>1. Regular(t, d, g, Nothing)
  BY NothingOK DEF Regular
<1> QED  BY <1>1, RegularStep

LEMMA SameCounts ==
  ASSUME TypeOK, NEW f, NEW g, f.call # "command", g.call # "command",
         entries' = entries, \A c \in Commands : command'[c].active = command[c].active
  PROVE  CountStep(f, g)
<1>1. entries \in Nat /\ \A c \in Commands : command[c].active \in Nat
  BY DEF TypeOK
<1> QED  BY <1>1 DEF CountStep, InCommand, Num, Inside

\* The call that an answer is for is the innermost.
LEMMA Answered ==
  ASSUME HostConstants, TypeOK, HostInv, NEW e \in Depths, e # Len(frames[Game]),
         Cell(Game, e).at \in {"host", "stop"}
  PROVE  Cell(Game, e).answer = "none"
<1>0. Game \in Threads /\ MaxDepth \in Nat /\ e \in Levels /\ e + 1 \in Levels
  BY DEF HostConstants, Depths, Levels
<1>1. Cell(Game, e) # Nothing
  BY NothingFacts
<1>2. e <= Len(frames[Game]) /\ Len(frames[Game]) \in Nat
  BY <1>0, <1>1, CellType, StackType DEF Levels
<1>3. e + 1 <= Len(frames[Game])
  BY <1>0, <1>2 DEF Levels
<1>4. Cell(Game, e + 1) # Nothing
  BY <1>0, <1>3, CellType, CallNames
<1>5. Follows(Cell(Game, e), Cell(Game, e + 1))
  BY <1>0 DEF HostInv, StackInv
<1> QED  BY <1>4, <1>5 DEF Follows

\* Before Stop closes the host, no call but Start's depends on the host's state.
LEMMA StateFree ==
  ASSUME HostConstants, TypeOK, HostInv, state # "stopping", frames[Game] # <<>>,
         Top(Game).call = "start" \/ state = "running",
         NEW e \in Depths, e # Len(frames[Game])
  PROVE  ~StateBound(Cell(Game, e))
<1>0. Game \in Threads /\ e \in Levels
  BY DEF HostConstants, Depths, Levels
<1>1. CallOK(Game, Cell(Game, e))
  BY <1>0 DEF HostInv, CallsInv
<1>2. ~(Cell(Game, e).at \in {"host", "stop"} /\ Cell(Game, e).answer \in {"ok", "refused"})
  BY Answered
<1>3. Cell(Game, e).at \notin Closing
  BY <1>1 DEF CallOK
<1>4. ASSUME Cell(Game, e).call = "start" PROVE FALSE
  <2>1. CASE state = "running"
    BY <1>1, <1>4, <2>1 DEF CallOK, Points, Closing, Releasing
  <2>2. CASE Top(Game).call = "start"
    <3>1. PICK n \in Levels : n = Len(frames[Game]) /\ Cell(Game, n).call = "start"
      BY <1>0, <2>2, TopFacts
    <3>2. n = 2 /\ e = 2
      BY <1>0, <1>4, <3>1, InitFirst
    <3> QED  BY <3>1, <3>2
  <2> QED  BY <2>1, <2>2
<1> QED  BY <1>2, <1>3, <1>4 DEF StateBound

\* The calls that are kept when only the host's state changes.
LEMMA StateKept ==
  ASSUME HostConstants, TypeOK, HostInv, NEW d, boot' = boot,
         \A e \in Depths : Other(Game, d, Game, e) => ~StateBound(Cell(Game, e)),
         \A c \in Commands : command'[c].state = "none" => command[c].state = "none"
  PROVE  KeptCalls(Game, d)
<1>1. \A u \in Threads, e \in Depths : Other(Game, d, u, e) => ~StateBound(Cell(u, e))
  BY OthersFree
<1> QED  BY <1>1 DEF KeptCalls

LEMMA StartStep ==
  ASSUME HostConstants, TypeOK, HostInv, Start
  PROVE  TypeOK' /\ HostInv'
<1>0. /\ Game \in Threads /\ frames[Game] # <<>> /\ Top(Game).call = "start"
      /\ Top(Game).at = "begin" /\ lifecycle = NoThread /\ UNCHANGED <<bootVars, entries>>
      /\ boot' = boot /\ captured' = captured /\ observed' = observed /\ entries' = entries
  BY DEF Start, At, HostConstants, bootVars
<1>1. boot = "starting" /\ state = "stopped" /\ Top(Game) \in Frame
  BY <1>0, TopFacts DEF CallOK
<1>2. /\ \A c \in Commands : command[c].state = "none" /\ command[c].active = 0
      /\ \A u \in Threads, e \in Depths : ~Op(Cell(u, e)) /\ Cell(u, e).call # "command"
      /\ ~open /\ ~accepting
  BY <1>1, StoppedHost
<1>3. /\ \A u \in Threads, e \in Depths : ~Past(Cell(u, e)) /\ ~Op(Cell(u, e))
      /\ \A u \in Threads, e \in Depths : Cell(u, e).call # "native"
  BY <1>2 DEF Past, Op
<1>4. CASE /\ Return(Game, IF state = "stopping" THEN "retained" ELSE "refused")
           /\ UNCHANGED hostVars
  <2>0. /\ Return(Game, "refused")
        /\ UNCHANGED <<state, accepting, open, lifecycle, command, plugin>>
    BY <1>1, <1>4 DEF hostVars
  <2>1. PICK d \in Levels, g \in Frame :
           /\ d \in Depths /\ Len(frames[Game]) = d + 1 /\ Cell(Game, d + 1) = Top(Game)
           /\ g.call = Cell(Game, d).call /\ g.at = Cell(Game, d).at /\ g.answer = "refused"
           /\ g.call = "init" /\ g.at = "host"
           /\ StacksOK' /\ Changes(Game, d, g, Nothing) /\ StackStep(Game, d, g, Nothing)
    BY <1>0, <2>0, ReturnPlace
  <2>2. TypeOK'
    BY <1>0, <2>0, <2>1 DEF TypeOK, StacksOK
  <2>3. CallOK(Game, g)'
    BY <1>0, <1>1, <2>0, <2>1 DEF CallOK, Points, Closing, Releasing
  <2>4. KeptCalls(Game, d) /\ LockStep(Game, d, g)
    BY <1>0, <2>0, <2>1 DEF KeptCalls, LockStep, Holds, Inside
  <2>5. CountStep(Cell(Game, d), g)
    BY <1>0, <2>0, <2>1, SameCounts
  <2>6. ClosedStep(Game, d, g, Nothing)
    <3>1. ~Past(g) /\ ~Op(g) /\ g.at \notin Releasing /\ boot' # "stopped"
      BY <1>0, <1>1, <2>1 DEF Past, Op, Releasing
    <3> QED  BY <1>0, <2>0, <2>1, <3>1, SteadyClosed
  <2> QED  BY <1>0, <2>1, <2>2, <2>3, <2>4, <2>5, <2>6, HostStep
<1>5. CASE /\ state' = "stopping" /\ lifecycle' = Game /\ accepting' = FALSE
           /\ Goto(Game, "quiesce")
           /\ UNCHANGED <<open, command, plugin>>
  <2>0. PICK g : g = [Top(Game) EXCEPT !.at = "quiesce"]
    OBVIOUS
  <2>1. g \in Frame /\ g.call = "start" /\ g.at = "quiesce"
    BY <1>0, <1>1, <2>0 DEF Frame
  <2>2. PICK d \in Levels :
           /\ d = Len(frames[Game]) /\ d \in Depths /\ Cell(Game, d) = Top(Game)
           /\ Cell(Game, d + 1) = Nothing
           /\ StacksOK' /\ Changes(Game, d, g, Nothing) /\ StackStep(Game, d, g, Nothing)
    <3>1. SetTop(Game, g)
      BY <1>5, <2>0 DEF Goto
    <3> QED  BY <1>0, <2>1, <3>1, TopPlace
  <2>3. TypeOK'
    BY <1>0, <1>5, <2>2 DEF TypeOK, StacksOK, Phases
  <2>4. CallOK(Game, g)'
    BY <1>0, <1>1, <1>5, <2>1 DEF CallOK, Points, Closing, Releasing
  <2>5. KeptCalls(Game, d)
    <3>1. \A e \in Depths : Other(Game, d, Game, e) => ~StateBound(Cell(Game, e))
      <4>1. \A e \in Depths : e # Len(frames[Game]) => ~StateBound(Cell(Game, e))
        BY <1>0, <1>1, StateFree
      <4> QED  BY <2>2, <4>1 DEF Other
    <3> QED  BY <1>0, <1>5, <3>1, StateKept
  <2>6. LockStep(Game, d, g)
    BY <1>0, <1>5 DEF LockStep
  <2>7. CountStep(Cell(Game, d), g)
    BY <1>0, <1>5, <2>1, <2>2, SameCounts
  <2>8. ClosedStep(Game, d, g, Nothing)
    <3>1. ~Past(g) /\ ~Op(g) /\ g.call # "native" /\ boot' # "stopped"
      BY <1>0, <1>1, <2>1 DEF Past, Op
    <3> QED  BY <1>2, <1>3, <1>5, <3>1 DEF ClosedStep
  <2> QED  BY <1>0, <2>1, <2>2, <2>3, <2>4, <2>5, <2>6, <2>7, <2>8, HostStep
<1>6. CASE /\ state' = "starting" /\ lifecycle' = Game /\ accepting' = TRUE
           /\ command' = [command EXCEPT !["core"] =
                            [state |-> "registered", enabled |-> TRUE, active |-> 0]]
           /\ Goto(Game, "load")
           /\ UNCHANGED <<open, plugin>>
  <2>0. PICK g : g = [Top(Game) EXCEPT !.at = "load"]
    OBVIOUS
  <2>1. g \in Frame /\ g.call = "start" /\ g.at = "load"
    BY <1>0, <1>1, <2>0 DEF Frame
  <2>2. PICK d \in Levels :
           /\ d = Len(frames[Game]) /\ d \in Depths /\ Cell(Game, d) = Top(Game)
           /\ Cell(Game, d + 1) = Nothing
           /\ StacksOK' /\ Changes(Game, d, g, Nothing) /\ StackStep(Game, d, g, Nothing)
    <3>1. SetTop(Game, g)
      BY <1>6, <2>0 DEF Goto
    <3> QED  BY <1>0, <2>1, <3>1, TopPlace
  <2>3. TypeOK'
    <3>1. command' \in [Commands -> [state : {"none", "registered", "retired"},
                                     enabled : BOOLEAN, active : Nat]]
      BY <1>6 DEF TypeOK, Commands
    <3> QED  BY <1>0, <1>6, <2>2, <3>1 DEF TypeOK, StacksOK, Phases
  <2>4. CallOK(Game, g)'
    BY <1>0, <1>1, <1>6, <2>1 DEF CallOK, Points, Closing, Releasing
  <2>5. KeptCalls(Game, d)
    <3>1. \A e \in Depths : Other(Game, d, Game, e) => ~StateBound(Cell(Game, e))
      <4>1. \A e \in Depths : e # Len(frames[Game]) => ~StateBound(Cell(Game, e))
        BY <1>0, <1>1, StateFree
      <4> QED  BY <2>2, <4>1 DEF Other
    <3> QED  BY <1>0, <1>2, <1>6, <3>1, StateKept
  <2>6. LockStep(Game, d, g)
    BY <1>0, <1>6 DEF LockStep
  <2>7. CountStep(Cell(Game, d), g)
    <3>1. \A c \in Commands : command'[c].active = command[c].active
      BY <1>2, <1>6 DEF TypeOK, Commands
    <3> QED  BY <1>0, <2>1, <2>2, <3>1, SameCounts
  <2>8. ClosedStep(Game, d, g, Nothing)
    <3>1. ~Past(g) /\ ~Op(g) /\ g.call # "native" /\ boot' # "stopped"
      BY <1>0, <1>1, <2>1 DEF Past, Op
    <3> QED  BY <1>2, <1>3, <1>6, <3>1 DEF ClosedStep
  <2> QED  BY <1>0, <2>1, <2>2, <2>3, <2>4, <2>5, <2>6, <2>7, <2>8, HostStep
<1> QED  BY <1>4, <1>5, <1>6 DEF Start

LEMMA LoadedStep ==
  ASSUME HostConstants, TypeOK, HostInv, Loaded
  PROVE  TypeOK' /\ HostInv'
<1>0. /\ Game \in Threads /\ frames[Game] # <<>> /\ Top(Game).call = "start"
      /\ Top(Game).at = "load" /\ UNCHANGED <<bootVars, accepting, entries>>
      /\ boot' = boot /\ captured' = captured /\ observed' = observed /\ entries' = entries
      /\ state' = "running" /\ open' = TRUE /\ lifecycle' = NoThread
      /\ plugin' \in {"loaded", "none"} /\ Return(Game, "ok")
  BY DEF Loaded, At, HostConstants, bootVars
<1>1. boot = "starting" /\ state = "starting" /\ Top(Game) \in Frame
  BY <1>0, TopFacts DEF CallOK
<1>2. /\ command' \in [Commands -> [state : {"none", "registered", "retired"},
                                    enabled : BOOLEAN, active : Nat]]
      /\ \A c \in Commands : /\ command'[c].active = command[c].active
                             /\ command'[c].state = "none" => command[c].state = "none"
  BY <1>0 DEF Loaded, TypeOK, Commands
<1>3. PICK d \in Levels, g \in Frame :
         /\ d \in Depths /\ Len(frames[Game]) = d + 1 /\ Cell(Game, d + 1) = Top(Game)
         /\ g.call = Cell(Game, d).call /\ g.at = Cell(Game, d).at /\ g.answer = "ok"
         /\ g.call = "init" /\ g.at = "host"
         /\ StacksOK' /\ Changes(Game, d, g, Nothing) /\ StackStep(Game, d, g, Nothing)
  BY <1>0, ReturnPlace
<1>4. TypeOK'
  BY <1>0, <1>2, <1>3 DEF TypeOK, StacksOK, Phases
<1>5. CallOK(Game, g)'
  BY <1>0, <1>1, <1>3 DEF CallOK, Points, Closing, Releasing
<1>6. KeptCalls(Game, d)
  <2>1. \A e \in Depths : e # Len(frames[Game]) => ~StateBound(Cell(Game, e))
    BY <1>0, <1>1, StateFree
  <2>2. \A e \in Depths : Other(Game, d, Game, e) => ~StateBound(Cell(Game, e))
    BY <1>0, <1>3, <2>1 DEF Other
  <2> QED  BY <1>0, <1>2, <2>2, StateKept
<1>7. LockStep(Game, d, g)
  BY <1>0, <1>3 DEF LockStep, Holds, Inside
<1>8. CountStep(Cell(Game, d), g)
  BY <1>0, <1>2, <1>3, SameCounts
<1>9. ClosedStep(Game, d, g, Nothing)
  BY <1>0, <1>1 DEF ClosedStep
<1> QED  BY <1>0, <1>3, <1>4, <1>5, <1>6, <1>7, <1>8, <1>9, HostStep

\* The host refuses to stop, or has stopped already.
LEMMA AnsweredStep ==
  ASSUME HostConstants, TypeOK, HostInv, frames[Game] # <<>>, Top(Game).call = "stop",
         Top(Game).at = "begin", UNCHANGED <<bootVars, hostVars, entries>>,
         NEW a \in {"ok", "refused"}, Return(Game, a), a = "ok" => state = "stopped"
  PROVE  TypeOK' /\ HostInv'
<1>0. /\ Game \in Threads /\ UNCHANGED <<boot, captured, observed, entries>>
      /\ UNCHANGED <<state, accepting, open, lifecycle, command, plugin>>
  BY DEF HostConstants, bootVars, hostVars
<1>1. boot = "stopping"
  BY <1>0, TopFacts DEF CallOK
<1>2. PICK d \in Levels, g \in Frame :
         /\ d \in Depths /\ Len(frames[Game]) = d + 1 /\ Cell(Game, d + 1) = Top(Game)
         /\ g.call = Cell(Game, d).call /\ g.at = Cell(Game, d).at /\ g.answer = a
         /\ g.call \in {"init", "disconnect"} /\ g.at = "stop"
         /\ StacksOK' /\ Changes(Game, d, g, Nothing) /\ StackStep(Game, d, g, Nothing)
  BY <1>0, ReturnPlace
<1>3. TypeOK'
  BY <1>0, <1>2 DEF TypeOK, StacksOK
<1>4. CallOK(Game, g)'
  BY <1>0, <1>1, <1>2 DEF CallOK, Points, Closing, Releasing
<1>5. KeptCalls(Game, d) /\ LockStep(Game, d, g)
  BY <1>0, <1>2 DEF KeptCalls, LockStep, Holds, Inside
<1>6. CountStep(Cell(Game, d), g)
  BY <1>0, <1>2, SameCounts
<1>7. ClosedStep(Game, d, g, Nothing)
  <2>1. ~Past(g) /\ ~Op(g) /\ g.at \notin Releasing /\ boot' # "stopped"
    BY <1>0, <1>1, <1>2 DEF Past, Op, Releasing
  <2> QED  BY <1>0, <1>2, <2>1, SteadyClosed
<1> QED  BY <1>0, <1>2, <1>3, <1>4, <1>5, <1>6, <1>7, HostStep

LEMMA StopStep ==
  ASSUME HostConstants, TypeOK, HostInv, Stop
  PROVE  TypeOK' /\ HostInv'
<1>0. /\ Game \in Threads /\ frames[Game] # <<>> /\ Top(Game).call = "stop"
      /\ Top(Game).at = "begin" /\ UNCHANGED <<bootVars, entries>>
      /\ boot' = boot /\ captured' = captured /\ observed' = observed /\ entries' = entries
  BY DEF Stop, At, HostConstants, bootVars
<1>1. boot = "stopping" /\ Top(Game) \in Frame
  BY <1>0, TopFacts DEF CallOK
<1>2. CASE Return(Game, "refused") /\ UNCHANGED hostVars
  <2>1. UNCHANGED <<bootVars, hostVars, entries>>
    BY <1>0, <1>2
  <2> QED  BY <1>0, <1>2, <2>1, AnsweredStep
<1>3. CASE Return(Game, "ok") /\ UNCHANGED hostVars /\ state = "stopped"
  <2>1. UNCHANGED <<bootVars, hostVars, entries>>
    BY <1>0, <1>3
  <2> QED  BY <1>0, <1>3, <2>1, AnsweredStep
<1>4. CASE /\ ~Native /\ state = "running"
           /\ state' = "stopping" /\ accepting' = FALSE /\ open' = FALSE
           /\ Goto(Game, "drain")
           /\ UNCHANGED <<lifecycle, command, plugin>>
  <2>0. PICK g : g = [Top(Game) EXCEPT !.at = "drain"]
    OBVIOUS
  <2>1. g \in Frame /\ g.call = "stop" /\ g.at = "drain"
    BY <1>0, <1>1, <2>0 DEF Frame
  <2>2. PICK d \in Levels :
           /\ d = Len(frames[Game]) /\ d \in Depths /\ Cell(Game, d) = Top(Game)
           /\ Cell(Game, d + 1) = Nothing
           /\ StacksOK' /\ Changes(Game, d, g, Nothing) /\ StackStep(Game, d, g, Nothing)
    <3>1. SetTop(Game, g)
      BY <1>4, <2>0 DEF Goto
    <3> QED  BY <1>0, <2>1, <3>1, TopPlace
  <2>3. TypeOK'
    BY <1>0, <1>4, <2>2 DEF TypeOK, StacksOK, Phases
  <2>4. CallOK(Game, g)'
    BY <1>0, <1>1, <1>4, <2>1 DEF CallOK, Points, Closing, Releasing
  <2>5. KeptCalls(Game, d)
    <3>1. \A e \in Depths : e # Len(frames[Game]) => ~StateBound(Cell(Game, e))
      BY <1>0, <1>4, StateFree
    <3>2. \A e \in Depths : Other(Game, d, Game, e) => ~StateBound(Cell(Game, e))
      BY <2>2, <3>1 DEF Other
    <3> QED  BY <1>0, <1>4, <3>2, StateKept
  <2>6. LockStep(Game, d, g)
    BY <1>4, <2>1 DEF LockStep, Holds, Inside
  <2>7. CountStep(Cell(Game, d), g)
    BY <1>0, <1>4, <2>1, <2>2, SameCounts
  <2>8. ClosedStep(Game, d, g, Nothing)
    <3>1. \A u \in Threads, e \in Depths : Cell(u, e).call # "native"
      BY <1>4, GuardCells
    <3>2. ~Past(g) /\ ~Op(g) /\ g.call # "native" /\ boot' # "stopped" /\ g.at \notin Releasing
      BY <1>0, <1>1, <2>1 DEF Past, Op, Releasing
    <3> QED  BY <1>4, <2>1, <3>1, <3>2 DEF ClosedStep
  <2> QED  BY <1>0, <2>1, <2>2, <2>3, <2>4, <2>5, <2>6, <2>7, <2>8, HostStep
<1>5. CASE /\ lifecycle = NoThread /\ state \notin {"stopped", "starting", "running"}
           /\ lifecycle' = Game /\ Goto(Game, "relock")
           /\ UNCHANGED <<state, accepting, open, command, plugin>>
  <2>0. PICK g : g = [Top(Game) EXCEPT !.at = "relock"]
    OBVIOUS
  <2>1. g \in Frame /\ g.call = "stop" /\ g.at = "relock"
    BY <1>0, <1>1, <2>0 DEF Frame
  <2>2. PICK d \in Levels :
           /\ d = Len(frames[Game]) /\ d \in Depths /\ Cell(Game, d) = Top(Game)
           /\ Cell(Game, d + 1) = Nothing
           /\ StacksOK' /\ Changes(Game, d, g, Nothing) /\ StackStep(Game, d, g, Nothing)
    <3>1. SetTop(Game, g)
      BY <1>5, <2>0 DEF Goto
    <3> QED  BY <1>0, <2>1, <3>1, TopPlace
  <2>3. TypeOK'
    BY <1>0, <1>5, <2>2 DEF TypeOK, StacksOK, Phases
  <2>4. CallOK(Game, g)'
    <3>1. state = "stopping"
      BY <1>5 DEF TypeOK, Phases
    <3> QED  BY <1>0, <1>1, <1>5, <2>1, <3>1 DEF CallOK, Points, Closing, Releasing
  <2>5. KeptCalls(Game, d) /\ LockStep(Game, d, g)
    BY <1>0, <1>5 DEF KeptCalls, LockStep
  <2>6. CountStep(Cell(Game, d), g)
    BY <1>0, <1>5, <2>1, <2>2, SameCounts
  <2>7. ClosedStep(Game, d, g, Nothing)
    <3>1. ~Past(g) /\ ~Op(g) /\ g.call # "native" /\ boot' # "stopped" /\ g.at \notin Releasing
      BY <1>0, <1>1, <2>1 DEF Past, Op, Releasing
    <3> QED  BY <1>0, <1>5, <2>1, <2>2, <3>1, NothingFacts, SteadyClosed
  <2> QED  BY <1>0, <2>1, <2>2, <2>3, <2>4, <2>5, <2>6, <2>7, HostStep
<1> QED  BY <1>2, <1>3, <1>4, <1>5 DEF Stop

LEMMA DrainedStep ==
  ASSUME HostConstants, TypeOK, HostInv, Drained
  PROVE  TypeOK' /\ HostInv'
<1>0. /\ Game \in Threads /\ frames[Game] # <<>> /\ Top(Game).call = "stop"
      /\ Top(Game).at = "drain" /\ lifecycle = NoThread /\ lifecycle' = Game
      /\ Goto(Game, "relock") /\ entries = 0 /\ entries' = entries
      /\ UNCHANGED <<boot, captured, observed, state, accepting, open, command, plugin>>
  BY DEF Drained, At, HostConstants, bootVars
<1>1. boot = "stopping" /\ state = "stopping" /\ Top(Game) \in Frame
  BY <1>0, TopFacts DEF CallOK, Closing
<1>2. \A u \in Threads, e \in Depths : ~Past(Cell(u, e))
  BY <1>0, NoEntries DEF HostInv, Past
<1>3. PICK g : g = [Top(Game) EXCEPT !.at = "relock"]
  OBVIOUS
<1>4. g \in Frame /\ g.call = "stop" /\ g.at = "relock"
  BY <1>0, <1>1, <1>3 DEF Frame
<1>5. PICK d \in Levels :
         /\ d = Len(frames[Game]) /\ d \in Depths /\ Cell(Game, d) = Top(Game)
         /\ Cell(Game, d + 1) = Nothing
         /\ StacksOK' /\ Changes(Game, d, g, Nothing) /\ StackStep(Game, d, g, Nothing)
  <2>1. SetTop(Game, g)
    BY <1>0, <1>3 DEF Goto
  <2> QED  BY <1>0, <1>4, <2>1, TopPlace
<1>6. TypeOK'
  BY <1>0, <1>5 DEF TypeOK, StacksOK
<1>7. CallOK(Game, g)'
  BY <1>0, <1>1, <1>4 DEF CallOK, Points, Closing, Releasing
<1>8. KeptCalls(Game, d) /\ LockStep(Game, d, g)
  BY <1>0 DEF KeptCalls, LockStep
<1>9. CountStep(Cell(Game, d), g)
  BY <1>0, <1>4, <1>5, SameCounts
<1>10. ClosedStep(Game, d, g, Nothing)
  <2>1. /\ ~Past(g) /\ ~Op(g) /\ g.call # "native" /\ boot' # "stopped"
        /\ g.at \notin Releasing /\ g.at # "drain" /\ g.at # "unload"
    BY <1>0, <1>1, <1>4 DEF Past, Op, Releasing
  <2>2. (open => state = "running") /\ (accepting => state \in {"starting", "running"})
    BY DEF HostInv, ClosedInv
  <2> QED  BY <1>0, <1>1, <1>2, <2>1, <2>2 DEF ClosedStep
<1> QED  BY <1>0, <1>4, <1>5, <1>6, <1>7, <1>8, <1>9, <1>10, HostStep

\* A step of ReleaseResources that goes on.
LEMMA ReleaseStep ==
  ASSUME HostConstants, TypeOK, HostInv, frames[Game] # <<>>,
         Top(Game).at \in {"relock", "quiesce", "layers", "clear"},
         Top(Game).at = "relock" => ~InTransition,
         UNCHANGED <<boot, captured, observed, state, open, entries, lifecycle>>,
         accepting' \in BOOLEAN, accepting' => accepting,
         plugin' \in {"none", "loaded", "prepared", "closed"},
         command' \in [Commands -> [state : {"none", "registered", "retired"},
                                    enabled : BOOLEAN, active : Nat]],
         \A c \in Commands : command'[c].active = command[c].active,
         NEW g \in Frame, SetTop(Game, g), g.call = Top(Game).call, g.at \in Releasing,
         \/ g.at # "unload" /\ \A c \in Commands : command'[c].state = command[c].state
         \/ /\ \A c \in Commands : command'[c].state = "none"
            /\ \A u \in Threads, e \in Depths : Cell(u, e).call # "command"
  PROVE  TypeOK' /\ HostInv'
<1>0. Game \in Threads /\ g.at \notin {"host", "stop"}
  BY DEF HostConstants, Releasing
<1>1. CallOK(Game, Top(Game)) /\ Top(Game) \in Frame
  BY <1>0, TopFacts
<1>2. /\ Top(Game).call \in {"start", "stop"} /\ state = "stopping"
      /\ boot \in {"starting", "stopping"}
      /\ Top(Game).call = "start" => boot = "starting" /\ Top(Game).at # "relock"
      /\ Top(Game).call = "stop" => boot = "stopping"
  BY <1>1 DEF CallOK, Points, Closing, Releasing
<1>3. PICK d \in Levels :
         /\ d = Len(frames[Game]) /\ d \in Depths /\ Cell(Game, d) = Top(Game)
         /\ Cell(Game, d + 1) = Nothing
         /\ StacksOK' /\ Changes(Game, d, g, Nothing) /\ StackStep(Game, d, g, Nothing)
  BY <1>0, TopPlace
<1>4. TypeOK'
  BY <1>3 DEF TypeOK, StacksOK
<1>5. CallOK(Game, g)'
  BY <1>0, <1>2 DEF CallOK, Points, Closing, Releasing
<1>6. KeptCalls(Game, d)
  BY DEF KeptCalls
<1>7. LockStep(Game, d, g)
  BY <1>2, <1>3 DEF LockStep, Holds, Inside
<1>8. CountStep(Cell(Game, d), g)
  BY <1>2, <1>3, SameCounts
<1>9. ClosedStep(Game, d, g, Nothing)
  <2>1. ~Past(g) /\ ~Op(g) /\ g.call # "native" /\ g.at # "drain"
    BY <1>2 DEF Past, Op, Releasing
  <2>2. (open => state = "running") /\ (accepting => state \in {"starting", "running"})
    BY DEF HostInv, ClosedInv
  <2>3. Cell(Game, d).at # "drain" /\ Cell(Game, d + 1).at # "drain"
    BY <1>3, NothingFacts
  <2>4. \/ \A u \in Threads, e \in Depths : ~Op(Cell(u, e))
        \/ Cell(Game, d).at \in Releasing
    BY <1>3, GuardCells DEF Releasing
  <2> QED  BY <1>2, <2>1, <2>2, <2>3, <2>4 DEF ClosedStep
<1> QED  BY <1>0, <1>3, <1>4, <1>5, <1>6, <1>7, <1>8, <1>9, HostStep

\* A step of ReleaseResources that is refused.
LEMMA RefusedStep ==
  ASSUME HostConstants, TypeOK, HostInv, frames[Game] # <<>>,
         Top(Game).at \in {"relock", "quiesce", "layers"}, Refused,
         UNCHANGED <<boot, captured, observed, state, open, entries, command, plugin>>,
         accepting' \in BOOLEAN, accepting' => accepting
  PROVE  TypeOK' /\ HostInv'
<1>0. Game \in Threads /\ lifecycle' = NoThread
  BY DEF HostConstants, Refused
<1>1. CallOK(Game, Top(Game)) /\ Top(Game) \in Frame
  BY <1>0, TopFacts
<1>2. /\ Top(Game).call \in {"start", "stop"} /\ state = "stopping"
      /\ Top(Game).call = "start" => boot = "starting"
      /\ Top(Game).call = "stop" => boot = "stopping"
  BY <1>1 DEF CallOK, Points, Closing, Releasing
<1>3. PICK a \in {"refused", "retained"} :
         a = (IF Top(Game).call = "start" THEN "retained" ELSE "refused")
  OBVIOUS
<1>4. Return(Game, a)
  BY <1>3 DEF Refused
<1>5. PICK d \in Levels, g \in Frame :
         /\ d \in Depths /\ Len(frames[Game]) = d + 1 /\ Cell(Game, d + 1) = Top(Game)
         /\ g.call = Cell(Game, d).call /\ g.at = Cell(Game, d).at /\ g.answer = a
         /\ g.call \in {"init", "disconnect"} /\ CallOK(Game, Cell(Game, d))
         /\ Top(Game).call = "start" => g.call = "init" /\ g.at = "host"
         /\ Top(Game).call = "stop" => g.at = "stop"
         /\ StacksOK' /\ Changes(Game, d, g, Nothing) /\ StackStep(Game, d, g, Nothing)
  <2>1. a \in {"ok", "refused", "retained"}
    BY <1>3
  <2> QED  BY <1>0, <1>2, <1>4, <2>1, ReturnPlace
<1>6. TypeOK'
  BY <1>0, <1>5 DEF TypeOK, StacksOK
<1>7. CallOK(Game, g)'
  BY <1>0, <1>2, <1>3, <1>5 DEF CallOK, Points, Closing, Releasing
<1>8. KeptCalls(Game, d)
  BY DEF KeptCalls
<1>9. LockStep(Game, d, g)
  BY <1>2, <1>5 DEF LockStep, Holds, Inside
<1>10. CountStep(Cell(Game, d), g)
  BY <1>5, SameCounts
<1>11. ClosedStep(Game, d, g, Nothing)
  <2>1. /\ ~Past(g) /\ ~Op(g) /\ g.call # "native" /\ g.at \in {"host", "stop"}
        /\ Cell(Game, d).at # "drain" /\ Cell(Game, d + 1).at # "drain"
    BY <1>2, <1>5 DEF Past, Op
  <2>2. (open => state = "running") /\ (accepting => state \in {"starting", "running"})
    BY DEF HostInv, ClosedInv
  <2> QED  BY <1>2, <2>1, <2>2 DEF ClosedStep, Releasing
<1> QED  BY <1>0, <1>5, <1>6, <1>7, <1>8, <1>9, <1>10, <1>11, HostStep

LEMMA ReleaseBeginsStep ==
  ASSUME HostConstants, TypeOK, HostInv, ReleaseBegins
  PROVE  TypeOK' /\ HostInv'
<1>0. /\ Game \in Threads /\ frames[Game] # <<>> /\ Top(Game).call = "stop"
      /\ Top(Game).at = "relock" /\ accepting' = FALSE
      /\ UNCHANGED <<boot, captured, observed, state, open, entries, plugin>>
      /\ plugin \in {"none", "loaded", "prepared", "closed"}
  BY DEF ReleaseBegins, At, HostConstants, bootVars, TypeOK
<1>1. CASE Refused /\ UNCHANGED command
  BY <1>0, <1>1, RefusedStep
<1>2. CASE /\ ~InTransition
           /\ command' = [c \in Commands |-> [command[c] EXCEPT !.enabled = FALSE]]
           /\ Goto(Game, "quiesce") /\ UNCHANGED lifecycle
  <2>1. /\ command' \in [Commands -> [state : {"none", "registered", "retired"},
                                      enabled : BOOLEAN, active : Nat]]
        /\ \A c \in Commands : command'[c].active = command[c].active
                               /\ command'[c].state = command[c].state
    BY <1>2 DEF TypeOK
  <2>2. PICK g : g = [Top(Game) EXCEPT !.at = "quiesce"]
    OBVIOUS
  <2>3. Top(Game) \in Frame
    BY <1>0, TopFacts
  <2>4. g \in Frame /\ g.call = Top(Game).call /\ g.at = "quiesce" /\ SetTop(Game, g)
    BY <1>2, <2>2, <2>3 DEF Frame, Goto
  <2>5. g.at \in Releasing /\ g.at # "unload"
    BY <2>4 DEF Releasing
  <2> QED  BY <1>0, <1>2, <2>1, <2>4, <2>5, ReleaseStep
<1> QED  BY <1>1, <1>2 DEF ReleaseBegins

LEMMA QuiesceStep ==
  ASSUME HostConstants, TypeOK, HostInv, Quiesce
  PROVE  TypeOK' /\ HostInv'
<1>0. /\ Game \in Threads /\ frames[Game] # <<>> /\ Top(Game).at = "quiesce"
      /\ UNCHANGED <<boot, captured, observed, state, open, entries, accepting, command>>
      /\ accepting \in BOOLEAN /\ plugin \in {"none", "loaded", "prepared", "closed"}
      /\ command \in [Commands -> [state : {"none", "registered", "retired"},
                                   enabled : BOOLEAN, active : Nat]]
  BY DEF Quiesce, HostConstants, bootVars, TypeOK
<1>1. CASE Refused /\ UNCHANGED plugin
  BY <1>0, <1>1, RefusedStep
<1>2. CASE /\ plugin' = IF plugin = "loaded" THEN "prepared" ELSE plugin
           /\ Goto(Game, "layers") /\ UNCHANGED lifecycle
  <2>1. PICK g : g = [Top(Game) EXCEPT !.at = "layers"]
    OBVIOUS
  <2>2. Top(Game) \in Frame
    BY <1>0, TopFacts
  <2>3. g \in Frame /\ g.call = Top(Game).call /\ g.at = "layers" /\ SetTop(Game, g)
    BY <1>2, <2>1, <2>2 DEF Frame, Goto
  <2>4. g.at \in Releasing /\ g.at # "unload"
    BY <2>3 DEF Releasing
  <2>5. plugin' \in {"none", "loaded", "prepared", "closed"}
    BY <1>0, <1>2
  <2> QED  BY <1>0, <1>2, <2>3, <2>4, <2>5, ReleaseStep
<1> QED  BY <1>1, <1>2 DEF Quiesce

LEMMA ShutLayerStep ==
  ASSUME HostConstants, TypeOK, HostInv, ShutLayer
  PROVE  TypeOK' /\ HostInv'
<1>0. /\ Game \in Threads /\ frames[Game] # <<>> /\ Top(Game).at = "layers"
      /\ UNCHANGED <<boot, captured, observed, state, open, entries, accepting, command, plugin>>
      /\ accepting \in BOOLEAN /\ plugin \in {"none", "loaded", "prepared", "closed"}
      /\ command \in [Commands -> [state : {"none", "registered", "retired"},
                                   enabled : BOOLEAN, active : Nat]]
  BY DEF ShutLayer, HostConstants, bootVars, TypeOK
<1>1. Top(Game) \in Frame
  BY <1>0, TopFacts
<1>2. CASE Refused
  BY <1>0, <1>2, RefusedStep
<1>3. CASE /\ Top(Game).left # 0 /\ SetTop(Game, [Top(Game) EXCEPT !.left = @ - 1])
           /\ UNCHANGED lifecycle
  <2>1. PICK g : g = [Top(Game) EXCEPT !.left = @ - 1]
    OBVIOUS
  <2>2. Top(Game).left \in 0..Layers /\ Layers \in Nat
    BY <1>1 DEF Frame, HostConstants
  <2>3. Top(Game).left - 1 \in 0..Layers
    BY <1>3, <2>2
  <2>4. g \in Frame /\ g.call = Top(Game).call /\ g.at = "layers" /\ SetTop(Game, g)
    BY <1>0, <1>1, <1>3, <2>1, <2>3 DEF Frame
  <2>5. g.at \in Releasing /\ g.at # "unload"
    BY <2>4 DEF Releasing
  <2> QED  BY <1>0, <1>3, <2>4, <2>5, ReleaseStep
<1>4. CASE Goto(Game, "clear") /\ UNCHANGED lifecycle
  <2>1. PICK g : g = [Top(Game) EXCEPT !.at = "clear"]
    OBVIOUS
  <2>2. g \in Frame /\ g.call = Top(Game).call /\ g.at = "clear" /\ SetTop(Game, g)
    BY <1>1, <1>4, <2>1 DEF Frame, Goto
  <2>3. g.at \in Releasing /\ g.at # "unload"
    BY <2>2 DEF Releasing
  <2> QED  BY <1>0, <1>4, <2>2, <2>3, ReleaseStep
<1> QED  BY <1>2, <1>3, <1>4 DEF ShutLayer

LEMMA ClearCommandsStep ==
  ASSUME HostConstants, TypeOK, HostInv, ClearCommands
  PROVE  TypeOK' /\ HostInv'
<1>0. /\ Game \in Threads /\ frames[Game] # <<>> /\ Top(Game).at = "clear" /\ entries = 0
      /\ UNCHANGED <<boot, captured, observed, state, open, entries, accepting, plugin>>
      /\ UNCHANGED lifecycle /\ command' = [c \in Commands |-> NoCommand]
      /\ Goto(Game, "unload") /\ accepting \in BOOLEAN
      /\ plugin \in {"none", "loaded", "prepared", "closed"}
  BY DEF ClearCommands, HostConstants, bootVars, TypeOK
<1>1. Top(Game) \in Frame
  BY <1>0, TopFacts
<1>2. \A u \in Threads, e \in Depths : Cell(u, e).call # "command"
  BY <1>0, NoEntries DEF HostInv
<1>3. \A c \in Commands : command[c].active = 0
  BY <1>2, IdleRecord DEF HostInv, InCommand, Inside
<1>4. /\ command' \in [Commands -> [state : {"none", "registered", "retired"},
                                    enabled : BOOLEAN, active : Nat]]
      /\ \A c \in Commands : command'[c].active = command[c].active
                             /\ command'[c].state = "none"
  BY <1>0, <1>3 DEF NoCommand
<1>5. PICK g : g = [Top(Game) EXCEPT !.at = "unload"]
  OBVIOUS
<1>6. g \in Frame /\ g.call = Top(Game).call /\ g.at = "unload" /\ SetTop(Game, g)
  BY <1>0, <1>1, <1>5 DEF Frame, Goto
<1>7. g.at \in Releasing
  BY <1>6 DEF Releasing
<1> QED  BY <1>0, <1>2, <1>4, <1>6, <1>7, ReleaseStep

LEMMA UnloadedStep ==
  ASSUME HostConstants, TypeOK, HostInv, Unloaded
  PROVE  TypeOK' /\ HostInv'
<1>0. /\ Game \in Threads /\ frames[Game] # <<>> /\ Top(Game).at = "unload"
      /\ UNCHANGED <<boot, captured, observed, open, entries, accepting, command>>
      /\ state' = "stopped" /\ lifecycle' = NoThread
      /\ plugin' \in {"none", "loaded", "prepared", "closed"}
      /\ Return(Game, IF Top(Game).call = "start" THEN "refused" ELSE "ok")
  BY DEF Unloaded, HostConstants, bootVars, TypeOK
<1>1. /\ CallOK(Game, Top(Game)) /\ Top(Game) \in Frame
  BY <1>0, TopFacts
<1>2. /\ Top(Game).call \in {"start", "stop"} /\ state = "stopping"
      /\ Top(Game).call = "start" => boot = "starting"
      /\ Top(Game).call = "stop" => boot = "stopping"
  BY <1>0, <1>1 DEF CallOK, Points, Closing, Releasing
<1>3. PICK n \in Levels : /\ n = Len(frames[Game]) /\ n \in Depths /\ Cell(Game, n) = Top(Game)
                          /\ Cell(Game, n + 1) = Nothing
  BY <1>0, TopFacts
<1>4. /\ \A c \in Commands : command[c].state = "none"
      /\ \A u \in Threads, e \in Depths : ~Op(Cell(u, e))
  <2>1. Cell(Game, n).at \in Releasing /\ Cell(Game, n).at = "unload"
    BY <1>0, <1>3 DEF Releasing
  <2> QED  BY <1>0, <1>3, <2>1 DEF HostInv, ClosedInv, Op
<1>5. \A u \in Threads, e \in Depths : ~Past(Cell(u, e))
  <2>1. ASSUME NEW u \in Threads, NEW e \in Depths, Cell(u, e).call = "command" PROVE FALSE
    <3>1. e \in Levels
      BY DEF Depths, Levels
    <3>2. Cell(u, e).cmd \in Commands
      BY <2>1, <3>1, CellType, NothingFacts DEF Frame
    <3> QED  BY <1>4, <2>1, <3>2, NoRecord
  <2> QED  BY <2>1 DEF Past
<1>6. PICK a \in {"ok", "refused"} : a = (IF Top(Game).call = "start" THEN "refused" ELSE "ok")
  OBVIOUS
<1>7. PICK d \in Levels, g \in Frame :
         /\ d \in Depths /\ Len(frames[Game]) = d + 1 /\ Cell(Game, d + 1) = Top(Game)
         /\ g.call = Cell(Game, d).call /\ g.at = Cell(Game, d).at /\ g.answer = a
         /\ g.call \in {"init", "disconnect"} /\ CallOK(Game, Cell(Game, d))
         /\ Top(Game).call = "start" => g.call = "init" /\ g.at = "host"
         /\ Top(Game).call = "stop" => g.at = "stop"
         /\ StacksOK' /\ Changes(Game, d, g, Nothing) /\ StackStep(Game, d, g, Nothing)
  <2>1. a \in {"ok", "refused", "retained"} /\ Return(Game, a)
    BY <1>0, <1>6
  <2> QED  BY <1>0, <1>2, <2>1, ReturnPlace
<1>8. TypeOK'
  BY <1>0, <1>7 DEF TypeOK, StacksOK, Phases
<1>9. CallOK(Game, g)'
  BY <1>0, <1>2, <1>6, <1>7 DEF CallOK, Points, Closing, Releasing
<1>10. KeptCalls(Game, d)
  <2> SUFFICES ASSUME NEW e \in Depths, e # n PROVE ~StateBound(Cell(Game, e))
    <3>1. \A e \in Depths : Other(Game, d, Game, e) => e # n
      BY <1>3, <1>7 DEF Other
    <3> QED  BY <1>0, <3>1, StateKept
  <2>1. e \in Levels /\ CallOK(Game, Cell(Game, e)) /\ Follows(Cell(Game, e), Cell(Game, e + 1))
        /\ e + 1 \in Levels
    BY <1>0 DEF Depths, Levels, HostInv, CallsInv, StackInv
  <2>2. ~(Cell(Game, e).at \in {"host", "stop"} /\ Cell(Game, e).answer \in {"ok", "refused"})
    BY <1>3, Answered
  <2>3. ~Holds(Cell(Game, e))
    <3>1. Holds(Cell(Game, n))
      BY <1>0, <1>2, <1>3 DEF Holds, Inside
    <3> QED  BY <1>0, <1>3, <3>1 DEF HostInv, LockInv
  <2>4. ASSUME Cell(Game, e).at \in {"begin", "drain"} PROVE FALSE
    <3>1. Cell(Game, e + 1) = Nothing /\ Cell(Game, e) # Nothing
      BY <2>1, <2>4, NothingFacts DEF Follows
    <3>2. e <= n
      BY <1>0, <1>3, <2>1, <3>1, CellType DEF Levels
    <3>3. e + 1 <= n
      BY <1>3, <2>1, <3>2 DEF Levels
    <3>4. Cell(Game, e + 1) \in Frame
      BY <1>0, <1>3, <2>1, <3>3, CellType
    <3> QED  BY <3>1, <3>4, CallNames
  <2>5. Cell(Game, e).call # "start" /\ Cell(Game, e).at \notin Closing
    BY <2>1, <2>3, <2>4 DEF CallOK, Points, Closing, Releasing, Holds, Inside
  <2> QED  BY <2>2, <2>5 DEF StateBound
<1>11. LockStep(Game, d, g)
  BY <1>0, <1>2, <1>7 DEF LockStep, Holds, Inside
<1>12. CountStep(Cell(Game, d), g)
  BY <1>0, <1>7, SameCounts
<1>13. ClosedStep(Game, d, g, Nothing)
  <2>1. ~Past(g) /\ ~Op(g)
    BY <1>2, <1>7 DEF Past, Op
  <2>2. (open => state = "running") /\ (accepting => state \in {"starting", "running"})
    BY DEF HostInv, ClosedInv
  <2> QED  BY <1>0, <1>2, <1>4, <1>5, <2>1, <2>2 DEF ClosedStep
<1> QED  BY <1>0, <1>7, <1>8, <1>9, <1>10, <1>11, <1>12, <1>13, HostStep

-----------------------------------------------------------------------------
(* Commands and operations.                                                *)

LEMMA BeginStep ==
  ASSUME HostConstants, TypeOK, HostInv, NEW t \in Threads, NEW c \in Commands, Begin(t, c)
  PROVE  TypeOK' /\ HostInv'
<1>0. /\ Running(t) /\ command[c].state = "registered" /\ entries' = entries + 1
      /\ Push(t, [Call("command", "begin") EXCEPT !.cmd = c]) /\ entries \in Nat
      /\ UNCHANGED <<boot, captured, observed, state, accepting, open, lifecycle, command, plugin>>
      /\ \A b \in Commands : command[b].active \in Nat
  BY DEF Begin, bootVars, hostVars, TypeOK
<1>1. PICK g : g = [Call("command", "begin") EXCEPT !.cmd = c]
  OBVIOUS
<1>2. g \in Frame /\ g.call = "command" /\ g.at = "begin" /\ g.cmd = c
  <2>1. PICK f \in Frame : f = Call("command", "begin") /\ f.call = "command" /\ f.at = "begin"
    BY MadeCall
  <2> QED  BY <1>1, <2>1 DEF Frame
<1>3. PICK d \in Levels :
         /\ Cell(t, d) = Nothing /\ Cell(t, d + 1) = Nothing
         /\ StacksOK' /\ Changes(t, d, g, Nothing) /\ StackStep(t, d, g, Nothing)
  <2>1. Push(t, g)
    BY <1>0, <1>1
  <2> QED  BY <1>0, <1>2, <2>1, PushPlace
<1>4. TypeOK'
  BY <1>0, <1>3 DEF TypeOK, StacksOK
<1>5. CallOK(t, g)'
  BY <1>0, <1>2 DEF CallOK, Points, Closing, Releasing
<1>6. KeptCalls(t, d) /\ LockStep(t, d, g)
  BY <1>0, <1>2 DEF KeptCalls, LockStep, Holds, Inside
<1>7. CountStep(Cell(t, d), g)
  BY <1>0, <1>2, <1>3, NothingFacts DEF CountStep, InCommand, Num, Inside
<1>8. ClosedStep(t, d, g, Nothing)
  <2>1. /\ ~Past(g) /\ ~Op(g) /\ g.at # "drain" /\ g.at # "unload" /\ g.at \notin Releasing
        /\ g.call # "native" /\ Cell(t, d).at # "drain" /\ Cell(t, d + 1).at # "drain"
    BY <1>2, <1>3, NothingFacts DEF Past, Op, Releasing
  <2> QED  BY <1>0, <2>1, SteadyClosed
<1> QED  BY <1>2, <1>3, <1>4, <1>5, <1>6, <1>7, <1>8, HostStep

LEMMA EnterStep ==
  ASSUME HostConstants, TypeOK, HostInv, NEW t \in Threads, Enter(t)
  PROVE  TypeOK' /\ HostInv'
<1>0. /\ frames[t] # <<>> /\ Top(t).call = "command" /\ Top(t).at = "begin" /\ open
      /\ Goto(t, "entered") /\ entries' = entries /\ entries \in Nat
      /\ UNCHANGED <<boot, captured, observed, state, accepting, open, lifecycle, command, plugin>>
      /\ \A b \in Commands : command[b].active \in Nat
  BY DEF Enter, At, bootVars, hostVars, TypeOK
<1>1. Top(t) \in Frame /\ CallOK(t, Top(t)) /\ state = "running"
  BY <1>0, TopFacts DEF HostInv, ClosedInv
<1>2. PICK g : g = [Top(t) EXCEPT !.at = "entered"]
  OBVIOUS
<1>3. /\ g \in Frame /\ g.call = "command" /\ g.at = "entered" /\ g.cmd = Top(t).cmd
      /\ SetTop(t, g)
  BY <1>0, <1>1, <1>2 DEF Frame, Goto
<1>4. PICK d \in Levels :
         /\ Cell(t, d) = Top(t) /\ Cell(t, d + 1) = Nothing
         /\ StacksOK' /\ Changes(t, d, g, Nothing) /\ StackStep(t, d, g, Nothing)
  BY <1>0, <1>3, TopPlace
<1>5. TypeOK'
  BY <1>0, <1>4 DEF TypeOK, StacksOK
<1>6. CallOK(t, g)'
  BY <1>0, <1>1, <1>3 DEF CallOK, Points, Closing, Releasing
<1>7. KeptCalls(t, d) /\ LockStep(t, d, g)
  BY <1>0, <1>3 DEF KeptCalls, LockStep, Holds, Inside
<1>8. CountStep(Cell(t, d), g)
  BY <1>0, <1>3, <1>4 DEF CountStep, InCommand, Num, Inside
<1>9. ClosedStep(t, d, g, Nothing)
  <2>1. /\ ~Op(g) /\ g.at # "drain" /\ g.at # "unload" /\ g.at \notin Releasing
        /\ g.call # "native" /\ Cell(t, d).at # "drain" /\ Cell(t, d + 1).at # "drain"
    BY <1>0, <1>3, <1>4, NothingFacts DEF Op, Releasing
  <2> QED  BY <1>0, <1>1, <2>1, SteadyClosed
<1> QED  BY <1>3, <1>4, <1>5, <1>6, <1>7, <1>8, <1>9, HostStep

LEMMA DispatchStep ==
  ASSUME HostConstants, TypeOK, HostInv, NEW t \in Threads, Dispatch(t)
  PROVE  TypeOK' /\ HostInv'
<1>0. /\ frames[t] # <<>> /\ Top(t).call = "command" /\ Top(t).at = "entered" /\ open
      /\ Goto(t, "counted") /\ entries' = entries /\ entries \in Nat
      /\ UNCHANGED <<boot, captured, observed, state, accepting, open, plugin>>
      /\ Top(t).cmd = "core" => lifecycle = NoThread
      /\ lifecycle' = IF Top(t).cmd = "core" THEN t ELSE lifecycle
      /\ command' = [command EXCEPT ![Top(t).cmd].active = @ + 1]
      /\ \A b \in Commands : command[b].active \in Nat
  BY DEF Dispatch, At, bootVars, TypeOK
<1>1. Top(t) \in Frame /\ CallOK(t, Top(t)) /\ state = "running"
  BY <1>0, TopFacts DEF HostInv, ClosedInv
<1>2. PICK g : g = [Top(t) EXCEPT !.at = "counted"]
  OBVIOUS
<1>3. /\ g \in Frame /\ g.call = "command" /\ g.at = "counted" /\ g.cmd = Top(t).cmd
      /\ SetTop(t, g)
  BY <1>0, <1>1, <1>2 DEF Frame, Goto
<1>4. PICK d \in Levels :
         /\ Cell(t, d) = Top(t) /\ Cell(t, d + 1) = Nothing
         /\ StacksOK' /\ Changes(t, d, g, Nothing) /\ StackStep(t, d, g, Nothing)
  BY <1>0, <1>3, TopPlace
<1>5. PICK k \in Commands : k = Top(t).cmd
  BY <1>1 DEF Frame
<1>6. /\ command' \in [Commands -> [state : {"none", "registered", "retired"},
                                    enabled : BOOLEAN, active : Nat]]
      /\ \A c \in Commands :
           /\ command'[c].state = command[c].state
           /\ command'[c].active = command[c].active + (IF c = k THEN 1 ELSE 0)
  <2>1. command' = [command EXCEPT ![k].active = @ + 1]
    BY <1>0, <1>5
  <2> QED  BY <1>0, <2>1 DEF TypeOK
<1>7. TypeOK'
  BY <1>0, <1>4, <1>6 DEF TypeOK, StacksOK
<1>8. CallOK(t, g)'
  BY <1>0, <1>1, <1>3, <1>5, <1>6 DEF CallOK, Points, Closing, Releasing
<1>9. KeptCalls(t, d) /\ LockStep(t, d, g)
  BY <1>0, <1>3, <1>6 DEF KeptCalls, LockStep, Holds, Inside
<1>10. CountStep(Cell(t, d), g)
  <2>1. \A c \in Commands : ~InCommand(Cell(t, d), c) /\ (InCommand(g, c) <=> c = k)
    BY <1>0, <1>3, <1>4, <1>5 DEF InCommand, Inside
  <2> QED  BY <1>0, <1>3, <1>4, <1>6, <2>1 DEF CountStep, Num
<1>11. ClosedStep(t, d, g, Nothing)
  <2>1. /\ ~Op(g) /\ g.at # "drain" /\ g.at # "unload" /\ g.at \notin Releasing
        /\ g.call # "native" /\ Cell(t, d).at # "drain" /\ Cell(t, d + 1).at # "drain"
    BY <1>0, <1>3, <1>4, NothingFacts DEF Op, Releasing
  <2> QED  BY <1>0, <1>1, <1>6, <2>1, SteadyClosed
<1> QED  BY <1>3, <1>4, <1>7, <1>8, <1>9, <1>10, <1>11, HostStep

LEMMA CalledStep ==
  ASSUME HostConstants, TypeOK, HostInv, NEW t \in Threads, Called(t)
  PROVE  TypeOK' /\ HostInv'
<1>0. PICK a \in {"in", "torn"} :
        /\ frames[t] # <<>> /\ Top(t).call = "command" /\ Top(t).at = "counted"
        /\ Goto(t, a) /\ entries' = entries /\ entries \in Nat
        /\ UNCHANGED <<boot, captured, observed, state, accepting, open, lifecycle, command, plugin>>
        /\ \A b \in Commands : command[b].active \in Nat
  BY DEF Called, At, bootVars, hostVars, TypeOK
<1>1. Top(t) \in Frame /\ CallOK(t, Top(t))
  BY <1>0, TopFacts
<1>2. PICK g : g = [Top(t) EXCEPT !.at = a]
  OBVIOUS
<1>3. /\ g \in Frame /\ g.call = "command" /\ g.at = a /\ g.cmd = Top(t).cmd
      /\ SetTop(t, g)
  BY <1>0, <1>1, <1>2 DEF Frame, Goto
<1>4. PICK d \in Levels :
         /\ Cell(t, d) = Top(t) /\ Cell(t, d + 1) = Nothing
         /\ StacksOK' /\ Changes(t, d, g, Nothing) /\ StackStep(t, d, g, Nothing)
  BY <1>0, <1>3, TopPlace
<1>5. TypeOK'
  BY <1>0, <1>4 DEF TypeOK, StacksOK
<1>6. CallOK(t, g)'
  BY <1>0, <1>1, <1>3 DEF CallOK, Points, Closing, Releasing
<1>7. KeptCalls(t, d) /\ LockStep(t, d, g)
  BY <1>0, <1>3, <1>4 DEF KeptCalls, LockStep, Holds, Inside
<1>8. CountStep(Cell(t, d), g)
  BY <1>0, <1>3, <1>4 DEF CountStep, InCommand, Num, Inside
<1>9. ClosedStep(t, d, g, Nothing)
  <2>1. /\ ~Op(g) /\ g.at # "drain" /\ g.at # "unload" /\ g.at \notin Releasing
        /\ g.call # "native" /\ Cell(t, d).at # "drain" /\ Cell(t, d + 1).at # "drain"
    BY <1>0, <1>3, <1>4, NothingFacts DEF Op, Releasing
  <2>2. Past(g) => Past(Cell(t, d))
    BY <1>0, <1>3, <1>4 DEF Past
  <2> QED  BY <1>0, <2>1, <2>2, SteadyClosed
<1> QED  BY <1>3, <1>4, <1>5, <1>6, <1>7, <1>8, <1>9, HostStep

\* A dispatch gives its entry back.
LEMMA LeaveStep ==
  ASSUME HostConstants, TypeOK, HostInv, NEW t \in Threads, frames[t] # <<>>,
         Top(t).call = "command", Pop(t), entries' = entries - 1,
         UNCHANGED <<boot, captured, observed, state, accepting, open, plugin>>,
         NEW k \in Commands, k = Top(t).cmd,
         command' = IF Top(t).at \in Inside THEN [command EXCEPT ![k].active = @ - 1] ELSE command,
         lifecycle' = IF Top(t).at \in Inside /\ k = "core" THEN NoThread ELSE lifecycle
  PROVE  TypeOK' /\ HostInv'
<1>0. entries \in Nat /\ \A b \in Commands : command[b].active \in Nat
  BY DEF TypeOK
<1>1. PICK d \in Levels :
         /\ Cell(t, d) = Top(t) /\ Cell(t, d + 1) = Nothing /\ d \in Depths
         /\ StacksOK' /\ Changes(t, d, Nothing, Nothing) /\ StackStep(t, d, Nothing, Nothing)
  BY PopPlace
<1>2. /\ entries > 0
      /\ Top(t).at \in Inside => command[k].active > 0
  <2>1. /\ Cell(t, d).call = "command" => entries > 0
        /\ InCommand(Cell(t, d), k) => command[k].active > 0
    BY <1>1, NoEntries DEF HostInv
  <2> QED  BY <1>1, <2>1 DEF InCommand, Inside
<1>3. /\ command' \in [Commands -> [state : {"none", "registered", "retired"},
                                    enabled : BOOLEAN, active : Nat]]
      /\ \A c \in Commands :
           /\ command'[c].state = command[c].state
           /\ command'[c].active =
                command[c].active - (IF c = k /\ Top(t).at \in Inside THEN 1 ELSE 0)
  <2>1. CASE Top(t).at \in Inside
    <3>1. PICK n \in Nat : n = command[k].active - 1
      BY <1>0, <1>2, <2>1
    <3>2. command' = [command EXCEPT ![k] = [command[k] EXCEPT !.active = n]]
      BY <2>1, <3>1
    <3>3. command[k] \in [state : {"none", "registered", "retired"},
                          enabled : BOOLEAN, active : Nat]
      BY DEF TypeOK
    <3>4. PICK r : r = [command[k] EXCEPT !.active = n]
      OBVIOUS
    <3>5. /\ r \in [state : {"none", "registered", "retired"}, enabled : BOOLEAN, active : Nat]
          /\ r.state = command[k].state /\ r.active = n
      BY <3>3, <3>4
    <3>6. command' = [command EXCEPT ![k] = r]
      BY <3>2, <3>4
    <3>7. \A c \in Commands : command'[c] = IF c = k THEN r ELSE command[c]
      BY <3>6 DEF TypeOK
    <3> QED  BY <1>0, <2>1, <3>1, <3>5, <3>6, <3>7 DEF TypeOK
  <2>2. CASE Top(t).at \notin Inside
    BY <1>0, <2>2 DEF TypeOK
  <2> QED  BY <2>1, <2>2
<1>4. lifecycle' \in Threads \cup {NoThread}
  BY DEF TypeOK
<1>5. TypeOK'
  BY <1>0, <1>1, <1>2, <1>3, <1>4 DEF TypeOK, StacksOK
<1>6. KeptCalls(t, d)
  BY <1>3 DEF KeptCalls
<1>7. LockStep(t, d, Nothing)
  BY <1>1, NothingFacts DEF LockStep, Holds, Inside
<1>8. CountStep(Cell(t, d), Nothing)
  <2>1. \A c \in Commands : /\ ~InCommand(Nothing, c)
                            /\ InCommand(Cell(t, d), c) <=> (c = k /\ Top(t).at \in Inside)
    BY <1>1, NothingFacts DEF InCommand, Inside
  <2> QED  BY <1>0, <1>1, <1>3, <2>1, NothingFacts DEF CountStep, Num
<1>9. ClosedStep(t, d, Nothing, Nothing)
  <2>1. /\ Cell(t, d).at # "drain" /\ Cell(t, d + 1).at # "drain" /\ ~Past(Nothing)
        /\ ~Op(Nothing) /\ Nothing.at \notin Releasing
    <3>1. Top(t).at # "drain"
      BY TopFacts DEF CallOK, Points, Closing, Releasing
    <3> QED  BY <1>1, <3>1, NothingFacts DEF Past, Op, Releasing
  <2> QED  BY <1>3, <2>1, NothingFacts, SteadyClosed
<1> QED  BY <1>1, <1>5, <1>6, <1>7, <1>8, <1>9, NothingOK, HostStep

LEMMA NotDispatchedStep ==
  ASSUME HostConstants, TypeOK, HostInv, NEW t \in Threads, NotDispatched(t)
  PROVE  TypeOK' /\ HostInv'
<1>1. /\ frames[t] # <<>> /\ Top(t).call = "command" /\ Top(t).at \notin Inside
      /\ Pop(t) /\ entries' = entries - 1
      /\ UNCHANGED <<boot, captured, observed, state, accepting, open, lifecycle, command, plugin>>
  BY DEF NotDispatched, At, bootVars, hostVars, Inside
<1>2. PICK k \in Commands : k = Top(t).cmd
  BY <1>1, TopFacts DEF Frame
<1> QED  BY <1>1, <1>2, LeaveStep

LEMMA DispatchedStep ==
  ASSUME HostConstants, TypeOK, HostInv, NEW t \in Threads, Dispatched(t)
  PROVE  TypeOK' /\ HostInv'
<1>1. /\ frames[t] # <<>> /\ Top(t).call = "command" /\ Top(t).at \in Inside
      /\ Pop(t) /\ entries' = entries - 1
      /\ UNCHANGED <<boot, captured, observed, state, accepting, open, plugin>>
      /\ command' = [command EXCEPT ![Top(t).cmd].active = @ - 1]
      /\ lifecycle' = IF Top(t).cmd = "core" THEN NoThread ELSE lifecycle
  BY DEF Dispatched, At, bootVars, Inside
<1>2. PICK k \in Commands : k = Top(t).cmd
  BY <1>1, TopFacts DEF Frame
<1> QED  BY <1>1, <1>2, LeaveStep

LEMMA OperationStep ==
  ASSUME HostConstants, TypeOK, HostInv, NEW t \in Threads,
         NEW call \in {"native", "transition"}, Operation(t, call)
  PROVE  TypeOK' /\ HostInv'
<1>0. /\ Running(t) /\ accepting /\ Push(t, Call(call, "in")) /\ entries' = entries
      /\ call = "native" => t = Game
      /\ UNCHANGED <<boot, captured, observed, state, accepting, open, lifecycle, command, plugin>>
  BY DEF Operation, bootVars, hostVars
<1>1. state \in {"starting", "running"}
  BY <1>0 DEF HostInv, ClosedInv
<1>2. PICK g \in Frame : g = Call(call, "in") /\ g.call = call /\ g.at = "in"
  BY MadeCall
<1>3. PICK d \in Levels :
         /\ Cell(t, d) = Nothing /\ Cell(t, d + 1) = Nothing
         /\ StacksOK' /\ Changes(t, d, g, Nothing) /\ StackStep(t, d, g, Nothing)
  BY <1>0, <1>2, PushPlace
<1>4. TypeOK'
  BY <1>0, <1>3 DEF TypeOK, StacksOK
<1>5. CallOK(t, g)'
  BY <1>0, <1>2 DEF CallOK, Points, Closing, Releasing
<1>6. KeptCalls(t, d) /\ LockStep(t, d, g)
  BY <1>0, <1>2 DEF KeptCalls, LockStep, Holds, Inside
<1>7. CountStep(Cell(t, d), g)
  BY <1>0, <1>2, <1>3, NothingFacts, SameCounts
<1>8. ClosedStep(t, d, g, Nothing)
  <2>1. /\ ~Past(g) /\ g.at # "drain" /\ g.at # "unload" /\ g.at \notin Releasing
        /\ Cell(t, d).at # "drain" /\ Cell(t, d + 1).at # "drain"
    BY <1>2, <1>3, NothingFacts DEF Past, Releasing
  <2> QED  BY <1>0, <1>1, <2>1, SteadyClosed
<1> QED  BY <1>2, <1>3, <1>4, <1>5, <1>6, <1>7, <1>8, HostStep

LEMMA OperationOverStep ==
  ASSUME HostConstants, TypeOK, HostInv, NEW t \in Threads, OperationOver(t)
  PROVE  TypeOK' /\ HostInv'
<1>0. /\ frames[t] # <<>> /\ Top(t).call \in {"native", "transition"} /\ Pop(t)
      /\ entries' = entries
      /\ UNCHANGED <<boot, captured, observed, state, accepting, open, lifecycle, command, plugin>>
  BY DEF OperationOver, bootVars, hostVars
<1>1. PICK d \in Levels :
         /\ Cell(t, d) = Top(t) /\ Cell(t, d + 1) = Nothing /\ d \in Depths
         /\ StacksOK' /\ Changes(t, d, Nothing, Nothing) /\ StackStep(t, d, Nothing, Nothing)
  BY <1>0, PopPlace
<1>2. TypeOK'
  BY <1>0, <1>1 DEF TypeOK, StacksOK
<1>3. KeptCalls(t, d) /\ LockStep(t, d, Nothing)
  BY <1>0, NothingFacts DEF KeptCalls, LockStep, Holds, Inside
<1>4. CountStep(Cell(t, d), Nothing)
  BY <1>0, <1>1, NothingFacts, SameCounts
<1>5. ClosedStep(t, d, Nothing, Nothing)
  <2>1. /\ Cell(t, d).at # "drain" /\ Cell(t, d + 1).at # "drain" /\ ~Past(Nothing)
        /\ ~Op(Nothing) /\ Nothing.at \notin Releasing
    <3>1. Top(t).at # "drain"
      BY <1>0, TopFacts DEF CallOK, Points, Closing, Releasing
    <3> QED  BY <1>1, <3>1, NothingFacts DEF Past, Op, Releasing
  <2> QED  BY <1>0, <2>1, NothingFacts, SteadyClosed
<1> QED  BY <1>1, <1>2, <1>3, <1>4, <1>5, NothingOK, HostStep

-----------------------------------------------------------------------------
(* The theorems.                                                           *)

LEMMA AnyStep ==
  ASSUME HostConstants, TypeOK, HostInv, [Next]_vars
  PROVE  TypeOK' /\ HostInv'
<1>1. CASE \E patches \in SUBSET Patches : Capture(patches)
  BY <1>1, CaptureStep
<1>2. CASE Connect \/ OnInit \/ HostStarted \/ OriginalInit
  BY <1>2, ConnectStep, OnInitStep, HostStartedStep, OriginalInitStep
<1>3. CASE OnDisconnect \/ StopHost \/ Completed
  BY <1>3, OnDisconnectStep, StopHostStep, CompletedStep
<1>4. CASE Start \/ Loaded \/ Stop \/ Drained
  BY <1>4, StartStep, LoadedStep, StopStep, DrainedStep
<1>5. CASE ReleaseBegins \/ Quiesce \/ ShutLayer \/ ClearCommands \/ Unloaded
  BY <1>5, ReleaseBeginsStep, QuiesceStep, ShutLayerStep, ClearCommandsStep, UnloadedStep
<1>6. ASSUME NEW t \in Threads, \E c \in Commands : Begin(t, c)
      PROVE  TypeOK' /\ HostInv'
  BY <1>6, BeginStep
<1>7. ASSUME NEW t \in Threads, \E call \in {"native", "transition"} : Operation(t, call)
      PROVE  TypeOK' /\ HostInv'
  BY <1>7, OperationStep
<1>8. ASSUME NEW t \in Threads, Enter(t) \/ Dispatch(t) \/ Called(t) \/ NotDispatched(t) \/ Dispatched(t)
      PROVE  TypeOK' /\ HostInv'
  BY <1>8, EnterStep, DispatchStep, CalledStep, NotDispatchedStep, DispatchedStep
<1>9. ASSUME NEW t \in Threads, Register(t) \/ Unregister(t) \/ OperationOver(t)
      PROVE  TypeOK' /\ HostInv'
  BY <1>9, RegisterStep, UnregisterStep, OperationOverStep
<1>10. CASE UNCHANGED vars
  <2>1. /\ UNCHANGED <<boot, state, accepting, open, entries, lifecycle, plugin, frames>>
        /\ UNCHANGED <<captured, observed, command>>
    BY <1>10 DEF vars
  <2> QED  BY <2>1, PlainStep DEF TypeOK
<1> QED
  BY <1>1, <1>2, <1>3, <1>4, <1>5, <1>6, <1>7, <1>8, <1>9, <1>10 DEF Next

LEMMA InitHolds ==
  ASSUME HostConstants, Init
  PROVE  TypeOK /\ HostInv
<1>1. TypeOK
  <2>1. /\ NoCommand \in [state : {"none", "registered", "retired"},
                          enabled : BOOLEAN, active : Nat]
        /\ <<>> \in Seq(Frame) /\ Len(<<>>) <= MaxDepth
    BY EmptySeq DEF NoCommand, HostConstants
  <2> QED  BY <2>1 DEF Init, TypeOK, Phases
<1>2. \A t \in Threads, d \in Levels : Cell(t, d) = Nothing
  BY <1>1, CellType, EmptySeq DEF Init, Levels
<1>3. \A d \in Depths : d \in Levels /\ d + 1 \in Levels
  BY DEF Depths, Levels
<1>4. 1 \in Levels
  BY DEF Levels
<1>5. CallsInv
  BY <1>2, <1>3, NothingFacts DEF CallsInv, CallOK, Points, Closing, Releasing
<1>6. StackInv
  BY <1>2, <1>3, <1>4, NothingFacts DEF StackInv, Follows
<1>7. NestInv /\ LockInv
  BY <1>2, <1>3, NothingFacts DEF NestInv, NestFor, LockInv, Holds, Inside
<1>8. CountsInv
  <2>1. {x \in Places : Cell(x[1], x[2]).call = "command"} = {}
    BY <1>2, <1>3, NothingFacts DEF Places
  <2>2. \A c \in Commands : {x \in Places : InCommand(Cell(x[1], x[2]), c)} = {}
    BY <1>2, <1>3, NothingFacts DEF Places, InCommand, Inside
  <2>3. entries = 0 /\ \A c \in Commands : command[c].active = 0
    BY DEF Init, NoCommand
  <2> QED  BY <2>1, <2>2, <2>3, FS_EmptySet DEF CountsInv
<1>9. ClosedInv
  BY <1>2, <1>3, NothingFacts DEF ClosedInv, Init, NoCommand, Releasing
<1> QED  BY <1>1, <1>5, <1>6, <1>7, <1>8, <1>9 DEF HostInv

\* Whatever the threads do and however the calls nest, the host's and the bootstrap's states
\* agree with the calls in progress, lifecycle_mutex_ has one holder, and
\* g_dispatch_entries counts the dispatches.
THEOREM HostInvariance ==
  ASSUME HostConstants
  PROVE  Spec => [](TypeOK /\ HostInv)
<1>1. Init => TypeOK /\ HostInv
  BY InitHolds
<1>2. TypeOK /\ HostInv /\ [Next]_vars => (TypeOK /\ HostInv)'
  BY AnyStep
<1> QED  BY <1>1, <1>2, PTL DEF Spec

\* The host's library, with the plugins' and the adapter's images, is closed only when no
\* thread is in the host or in a plugin.
THEOREM ImageHolds ==
  ASSUME HostConstants
  PROVE  Spec => []ImageInUse
<1>1. ASSUME TypeOK, HostInv PROVE ImageInUse
  <2> SUFFICES ASSUME boot = "stopped", NEW f \in AllFrames
               PROVE  f.call \notin {"start", "stop", "command", "native", "transition"}
    BY DEF ImageInUse
  <2>1. PICK t \in Threads, d \in Depths : f = Cell(t, d)
    BY <1>1, CallsOfAll
  <2>2. state = "stopped"
    BY <1>1 DEF HostInv, ClosedInv
  <2>3. ~Op(f) /\ f.call # "command"
    BY <1>1, <2>1, <2>2, StoppedHost
  <2>4. f.call \notin {"start", "stop"}
    BY <1>1, <2>1 DEF HostInv, CallsInv, CallOK
  <2> QED  BY <2>3, <2>4 DEF Op
<1> QED  BY <1>1, HostInvariance, PTL

\* A command's record is there as long as a dispatch is in it, though Stop frees the records
\* and the engine hands back a raw pointer.
THEOREM RecordsHold ==
  ASSUME HostConstants
  PROVE  Spec => []RecordsInUse
<1>1. ASSUME TypeOK, HostInv PROVE RecordsInUse
  BY <1>1, CallsOfAll DEF RecordsInUse, HostInv, CallsInv, CallOK
<1> QED  BY <1>1, HostInvariance, PTL

\* Stop never waits for a command of its own thread: the only way from a command to
\* OnDisconnect is through a native call of a plugin, and Stop refuses there.
THEOREM StopWaitsForOthers ==
  ASSUME HostConstants
  PROVE  Spec => []NoSelfWait
<1>1. ASSUME TypeOK, HostInv PROVE NoSelfWait
  <2> SUFFICES ASSUME NEW t \in Threads, frames[t] # <<>>, Top(t).at \in {"drain", "clear"},
                      NEW f \in FramesOf(t), f.call = "command"
               PROVE  FALSE
    BY DEF NoSelfWait
  <2>1. PICK n \in Levels : /\ n \in Depths /\ Cell(t, n) = Top(t) /\ n = Len(frames[t])
                            /\ Top(t) # Nothing /\ CallOK(t, Top(t))
    BY <1>1, TopFacts
  <2>2. Cell(t, n).call \in {"start", "stop"} /\ t = Game
    BY <2>1 DEF CallOK, Points, Closing, Releasing
  <2>3. PICK e \in Levels : e <= n /\ e # n /\ Cell(t, e).call = "command"
    <3>1. PICK d \in Depths : d <= Len(frames[t]) /\ f = Cell(t, d)
      BY <1>1, CallsOfThread
    <3> QED  BY <2>1, <2>2, <3>1 DEF Depths, Levels
  <2>4. \A u \in Threads, d \in Depths : Cell(u, d).call # "native"
    <3>1. CASE Top(t).at = "drain"
      BY <1>1, <2>1, <3>1 DEF HostInv, ClosedInv
    <3>2. CASE Top(t).at = "clear"
      BY <1>1, <2>1, <3>2 DEF HostInv, ClosedInv, Releasing
    <3> QED  BY <3>1, <3>2
  <2>5. n # 1
    BY <2>3 DEF Levels
  <2>6. CASE Cell(t, n).call = "start"
    <3>1. n = 2 /\ Cell(t, 1).call = "init"
      BY <1>1, <2>6, InitFirst
    <3>2. e = 1
      BY <2>3, <3>1 DEF Levels
    <3> QED  BY <2>3, <3>1, <3>2
  <2>7. CASE Cell(t, n).call = "stop"
    <3>1. PICK m \in Levels : /\ m = n - 1 /\ m \in Depths
                              /\ Cell(t, m).call \in {"init", "disconnect"}
      BY <1>1, <2>1, <2>5, <2>7, InitFirst, Below
    <3>2. e \in 1..(m - 1)
      <4>1. e # m
        BY <2>3, <3>1
      <4> QED  BY <2>3, <3>1, <4>1 DEF Levels
    <3>3. m # 1
      BY <3>2 DEF Levels
    <3>4. Cell(t, m).call = "disconnect"
      BY <1>1, <3>1, <3>3, InitFirst
    <3>5. NestFor(t, m, Cell(t, m))
      BY <1>1, <3>1 DEF HostInv, NestInv
    <3>6. \A i \in 1..(m - 1) : i \in Depths
      BY <3>1 DEF Depths, HostConstants
    <3> QED  BY <2>3, <2>4, <3>2, <3>4, <3>5, <3>6 DEF NestFor
  <2> QED  BY <2>2, <2>6, <2>7
<1> QED  BY <1>1, HostInvariance, PTL

\* Once Stop has closed the host it stays closed through every refusal and retry, and no
\* command is in progress while resources are released.
THEOREM StaysClosed ==
  ASSUME HostConstants
  PROVE  Spec => []ClosedWhileReleasing
<1>1. ASSUME TypeOK, HostInv PROVE ClosedWhileReleasing
  <2>1. state \in {"stopping", "stopped"} => ~accepting /\ ~open
    BY <1>1 DEF HostInv, ClosedInv
  <2>2. ASSUME NEW f \in AllFrames, f.at \in {"quiesce", "layers", "clear", "unload"},
               NEW g \in AllFrames, g.call = "command", g.at \in Inside
        PROVE  FALSE
    <3>1. PICK t \in Threads, d \in Depths : f = Cell(t, d)
      BY <1>1, CallsOfAll
    <3>2. PICK u \in Threads, e \in Depths : g = Cell(u, e)
      BY <1>1, CallsOfAll
    <3>3. f.at \in Releasing
      BY <2>2 DEF Releasing
    <3>4. CallOK(t, f) /\ CallOK(u, g)
      BY <1>1, <3>1, <3>2 DEF HostInv, CallsInv
    <3>5. state = "stopping" /\ t = Game
      BY <3>3, <3>4 DEF CallOK, Points, Closing, Releasing
    <3>6. f.at # "unload"
      <4>1. g \in Frame
        BY <1>1, <2>2, CallsOfThread DEF AllFrames
      <4>2. g.cmd \in Commands /\ command[g.cmd].state # "none"
        BY <2>2, <3>4, <4>1 DEF CallOK, Frame
      <4> QED  BY <1>1, <3>1, <4>2 DEF HostInv, ClosedInv
    <3>7. PICK v \in Threads, i \in Depths : Cell(v, i).at = "drain"
      BY <1>1, <2>2, <3>2, <3>5 DEF HostInv, ClosedInv, Inside
    <3>8. v = Game
      BY <1>1, <3>7 DEF HostInv, CallsInv, CallOK, Points, Closing, Releasing
    <3>9. ASSUME NEW j \in Depths, Cell(Game, j).at \in {"quiesce", "layers", "clear", "drain"}
          PROVE  j = Len(frames[Game])
      <4>0. Game \in Threads /\ j \in Levels /\ j + 1 \in Levels /\ Len(frames[Game]) \in Nat
        BY <1>1, StackType DEF HostConstants, Depths, Levels
      <4>1. Follows(Cell(Game, j), Cell(Game, j + 1))
        BY <1>1, <4>0 DEF HostInv, StackInv
      <4>2. Cell(Game, j + 1) = Nothing /\ Cell(Game, j) # Nothing
        BY <3>9, <4>1, NothingFacts DEF Follows
      <4>3. j <= Len(frames[Game])
        BY <1>1, <4>0, <4>2, CellType DEF Levels
      <4>4. ~(j + 1 <= Len(frames[Game]))
        BY <1>1, <4>0, <4>2, CellType, CallNames
      <4> QED  BY <4>0, <4>3, <4>4 DEF Levels
    <3>10. d = Len(frames[Game]) /\ i = Len(frames[Game])
      BY <2>2, <3>1, <3>5, <3>6, <3>7, <3>8, <3>9
    <3> QED  BY <2>2, <3>1, <3>5, <3>7, <3>8, <3>10
  <2> QED  BY <2>1, <2>2 DEF ClosedWhileReleasing
<1> QED  BY <1>1, HostInvariance, PTL
=============================================================================
