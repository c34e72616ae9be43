---------------------- MODULE KeelHookTransitionProofs ----------------------
(***************************************************************************)
(* Proofs about KeelHook's transitions, whatever Risks allows: each target *)
(* in transition has one call that changes it, what that call goes by      *)
(* outside the locks stays, and a hook is installed exactly as long as its *)
(* target has callbacks.  The second part is about closures and            *)
(* trampolines: what is freed, and when.                                   *)
(***************************************************************************)
EXTENDS KeelHookProofs

\* The inductive invariant.
HookInv == CountInv /\ TransitionInv /\ InstalledOK

-----------------------------------------------------------------------------
(* What a step leaves alone.                                               *)

\* Target r and its callbacks are after the step what they were before it, as far
\* as a call that changes targets can tell.
SameAt(r) ==
  /\ target'[r].state = "live" <=> target[r].state = "live"
  /\ target'[r].leases = target[r].leases
  /\ target'[r].bindings = target[r].bindings
  /\ target'[r].transition = target[r].transition
  /\ target'[r].enabled = target[r].enabled
  /\ \A c \in Callbacks :
       /\ callback'[c].state = "live" /\ callback'[c].target = r
            <=> callback[c].state = "live" /\ callback[c].target = r
       /\ callback[c].state = "live" /\ callback[c].target = r
            => callback'[c].owner = callback[c].owner

\* A callback that was removed does not come back, and none moves.
Stays ==
  \A c \in Callbacks : callback[c].state # "free" =>
    /\ callback'[c].state # "free"
    /\ callback'[c].state = "live" => callback[c].state = "live"
                                      /\ callback'[c].target = callback[c].target

\* The step changes targets in S: those in transition are g's to change, and only
\* plugins that the host is not releasing come to have a part in the others.  The
\* same for what the registry knows of plugins.
Keeps(S, g) ==
  /\ Stays
  /\ \A r \in Targets : r \notin S => SameAt(r)
  /\ \A r \in S : target[r].transition => Changes(g, r)
  /\ \A r \in S, q \in Plugins : Concerns(r, q)' => Concerns(r, q) \/ owner[q].accepting
  /\ \A q \in Plugins :
       \/ g.call \in HostCalls /\ g.plugin = q
       \/ ~InHand(q)
       \/ /\ owner[q].known => owner'[q].known
          /\ owner'[q].accepting => owner[q].accepting

\* A frame's part of the invariant, and what its call changes, after the step.
Settled(h) == ReliesOn(h)' /\ InstalledFor(h)'
WillChange(h, r) == Changes(h, r)'
InPlace(r) ==
  /\ target'[r].state = "live" /\ ~target'[r].transition =>
       (target'[r].enabled <=> CallbacksOf(r)' # {})
  /\ target'[r].state # "live" => ~target'[r].enabled

\* The callbacks of a target that is left alone.
LEMMA SameFacts ==
  ASSUME NEW r \in Targets, SameAt(r), NEW p \in Plugins
  PROVE  /\ CallbacksOf(r)' = CallbacksOf(r)
         /\ OwnedOn(p, r)' = OwnedOn(p, r)
         /\ (CallbacksOf(r) \ OwnedBy(p))' = CallbacksOf(r) \ OwnedBy(p)
         /\ Concerns(r, p)' <=> Concerns(r, p)
<1>1. CallbacksOf(r)' = CallbacksOf(r)
  BY DEF SameAt, CallbacksOf
<1>2. OwnedOn(p, r)' = OwnedOn(p, r)
  BY DEF SameAt, CallbacksOf, OwnedOn, OwnedBy
<1>3. (CallbacksOf(r) \ OwnedBy(p))' = CallbacksOf(r) \ OwnedBy(p)
  BY DEF SameAt, CallbacksOf, OwnedBy
<1>4. Concerns(r, p)' <=> Concerns(r, p)
  BY <1>2 DEF Concerns, Live, SameAt
<1> QED  BY <1>1, <1>2, <1>3, <1>4

\* A frame in a call is one of AllFrames.
LEMMA FrameThere ==
  ASSUME CountInv, NEW u \in Threads, NEW e \in Depths, frame[u][e].call # "none"
  PROVE  frame[u][e] \in AllFrames
<1>1. e <= depth[u]
  BY DEF CountInv, StackOK
<1>2. e \in 1..depth[u]
  BY <1>1, HookAssumption DEF CountInv, TypeOK, HookAssumption, Depths
<1> QED  BY <1>2 DEF AllFrames, FramesOf

\* What a frame names.
LEMMA FrameNames ==
  ASSUME CountInv, NEW u \in Threads, NEW e \in Depths, NEW h, h = frame[u][e]
  PROVE  /\ FrameOK(h) /\ h \in Frame
         /\ Changing(h) => h.plugin \in Plugins
         /\ Changing(h) /\ h.call # "release" => h.target \in Targets /\ h.callback \in Callbacks
         /\ h.call = "remove" => h.target \in Targets /\ h.callback \in Callbacks
         /\ h.call \in HostCalls => h.plugin \in Plugins
<1>1. FrameOK(h) /\ h \in Frame
  BY DEF CountInv, StackOK, TypeOK, Depths
<1> QED  BY <1>1 DEF FrameOK, PluginCallOK, HostCallOK, Changing, HostCalls

\* Only a call that changes targets changes one, an AddCallback or a RemoveCallback
\* the one it names.
LEMMA ChangesOne ==
  ASSUME NEW h, NEW r \in Targets
  PROVE  /\ Changes(h, r) => Changing(h)
         /\ Changing(h) /\ h.call # "release" => (Changes(h, r) <=> r = h.target)
         /\ Changing(h) /\ h.call = "release" => (Changes(h, r) <=> Concerns(r, h.plugin))
BY DEF Changes, Changing

\* Calls that change different targets and are not the host's for the same plugin.
Apart(h, g) ==
  /\ \A r \in Targets : ~(Changes(h, r) /\ Changes(g, r))
  /\ ~(h.call \in HostCalls /\ g.call \in HostCalls /\ h.plugin = g.plugin)

\* Such a call is not disturbed by the step of the other.
LEMMA Elsewhere ==
  ASSUME HookInv, NEW S \in SUBSET Targets, NEW g, Keeps(S, g), shutdown' = shutdown,
         NEW u \in Threads, NEW e \in Depths, NEW h, h = frame[u][e], Apart(h, g)
  PROVE  /\ Settled(h)
         /\ \A r \in Targets : WillChange(h, r) <=> Changes(h, r)
         /\ \A r \in S : ~Changes(h, r)
<1>0. /\ CountInv /\ ReliesOn(h) /\ InstalledFor(h) /\ Stays
      /\ \A r \in Targets : Changes(h, r) => target[r].transition
  BY DEF HookInv, TransitionInv, InstalledOK, CallsOK, Marked, Keeps
<1>1. \A r \in S : ~Changes(h, r)
  BY <1>0 DEF Keeps, Apart
<1>2. /\ FrameOK(h) /\ (Changing(h) => h.plugin \in Plugins)
      /\ Changing(h) /\ h.call # "release" => h.target \in Targets /\ h.callback \in Callbacks
      /\ h.call = "remove" => h.target \in Targets /\ h.callback \in Callbacks
  BY <1>0, FrameNames
<1>3. (h.call = "remove" =>
         /\ callback[h.callback].state # "free"
         /\ callback[h.callback].state = "live" => callback[h.callback].target = h.target)'
  BY <1>0, <1>2 DEF Stays, ReliesOn
<1>4. CASE ~Changing(h)
  <2>1. ReliesOn(h)' /\ InstalledFor(h)'
    BY <1>3, <1>4 DEF ReliesOn, InstalledFor, Changing
  <2>2. \A r \in Targets : ~WillChange(h, r) /\ ~Changes(h, r)
    BY <1>4 DEF WillChange, Changes, Changing
  <2> QED  BY <1>1, <2>1, <2>2 DEF Settled
<1>5. CASE Changing(h) /\ h.call # "release"
  <2>1. \A r \in Targets : (WillChange(h, r) <=> r = h.target) /\ (Changes(h, r) <=> r = h.target)
    BY <1>5 DEF WillChange, Changes, Changing
  <2>2. h.target \in Targets /\ h.target \notin S
    BY <1>1, <1>2, <1>5, <2>1
  <2>3. SameAt(h.target)
    BY <2>2 DEF Keeps
  <2>4. /\ CallbacksOf(h.target)' = CallbacksOf(h.target)
        /\ OwnedOn(h.plugin, h.target)' = OwnedOn(h.plugin, h.target)
    BY <1>2, <1>5, <2>2, <2>3, SameFacts
  <2>5. ReliesOn(h)'
    BY <1>0, <1>3, <1>5, <2>4 DEF ReliesOn, Changing
  <2>6. InstalledFor(h)'
    BY <1>0, <1>5, <2>3, <2>4 DEF InstalledFor, SameAt
  <2> QED  BY <1>1, <2>1, <2>5, <2>6 DEF Settled
<1>6. CASE Changing(h) /\ h.call = "release"
  <2> DEFINE p == h.plugin
  <2>1. p \in Plugins /\ owner[p].known /\ ~owner[p].accepting
    BY <1>0, <1>2, <1>6 DEF ReliesOn
  <2>2. InHand(p)
    <3>1. h \in AllFrames
      BY <1>0, <1>6, FrameThere
    <3> QED  BY <1>6, <3>1 DEF InHand, HostCalls
  <2>3. owner'[p].known /\ ~owner'[p].accepting
    BY <1>6, <2>1, <2>2 DEF Keeps, Apart, HostCalls
  <2>4. \A r \in Targets : Changes(h, r) <=> Concerns(r, p)
    BY <1>6 DEF Changes, Changing
  <2>5. \A r \in Targets : WillChange(h, r) <=> Concerns(r, p)'
    BY <1>6 DEF WillChange, Changes, Changing
  <2>6. \A r \in S : ~Concerns(r, p) /\ ~Concerns(r, p)'
    BY <1>1, <2>1, <2>4 DEF Keeps
  <2>7. ASSUME NEW r \in Targets, r \notin S
        PROVE  /\ Concerns(r, p)' <=> Concerns(r, p)
               /\ CallbacksOf(r)' = CallbacksOf(r)
               /\ OwnedOn(p, r)' = OwnedOn(p, r)
               /\ (CallbacksOf(r) \ OwnedBy(p))' = CallbacksOf(r) \ OwnedBy(p)
               /\ target'[r].enabled = target[r].enabled
    <3>1. SameAt(r)
      BY <2>7 DEF Keeps
    <3> QED  BY <2>1, <3>1, SameFacts DEF SameAt
  <2>8. \A r \in Targets : Concerns(r, p)' <=> Concerns(r, p)
    BY <2>6, <2>7
  <2>9. ReliesOn(h)'
    BY <1>6, <2>3 DEF ReliesOn
  <2>10. ASSUME NEW r \in Targets, Concerns(r, p)'
         PROVE  target'[r].enabled <=>
                  IF r \in Untouched(h) THEN CallbacksOf(r)' # {}
                  ELSE (CallbacksOf(r) \ OwnedBy(p))' # {}
    <3>1. r \notin S /\ Concerns(r, p)
      BY <2>6, <2>8, <2>10
    <3>2. target[r].enabled <=> IF r \in Untouched(h) THEN CallbacksOf(r) # {}
                                ELSE CallbacksOf(r) \ OwnedBy(p) # {}
      BY <1>0, <1>6, <3>1 DEF InstalledFor
    <3> QED  BY <2>7, <3>1, <3>2
  <2>11. ASSUME h.at = "wait", h.flag
         PROVE  /\ OwnedOn(p, h.target)' # {}
                /\ (CallbacksOf(h.target) \ OwnedBy(p))' = {}
    <3>1. OwnedOn(p, h.target) # {} /\ CallbacksOf(h.target) \subseteq OwnedBy(p)
      BY <1>0, <1>6, <2>11 DEF InstalledFor
    <3>2. h.target \in Targets
      BY <1>2, <1>6, <2>11 DEF FrameOK, HostCallOK
    <3>3. h.target \in Live
      BY <1>0, <3>1 DEF OwnedOn, CallbacksOf, HookInv, TransitionInv, RegistryOK
    <3>4. h.target \notin S
      BY <2>6, <3>1, <3>2, <3>3 DEF Concerns
    <3> QED  BY <2>7, <3>1, <3>2, <3>4
  <2>12. InstalledFor(h)'
    BY <1>6, <2>10, <2>11 DEF InstalledFor, Untouched
  <2> QED  BY <1>1, <2>4, <2>5, <2>8, <2>9, <2>12 DEF Settled
<1> QED  BY <1>4, <1>5, <1>6

-----------------------------------------------------------------------------
(* Steps by their effect.                                                  *)

\* One frame changes, in a call that may change the targets in S.
LEMMA StepAt ==
  ASSUME HookInv, CountInv', NEW t \in Threads, NEW d \in Depths, NEW g, g = frame[t][d],
         NEW f, Changed(t, d, f), NEW S \in SUBSET Targets, Keeps(S, g),
         shutdown = "no", shutdown' = "no", f.call # "shutdown",
         f.call \in HostCalls =>
           (g.call \in HostCalls /\ g.plugin = f.plugin) \/ ~InHand(f.plugin),
         Settled(f),
         \A r \in Targets : r \notin S => (WillChange(f, r) <=> Changes(g, r)),
         \A r \in S : WillChange(f, r) <=> target'[r].transition,
         RegistryOK',
         \A r \in S : InPlace(r)
  PROVE  TransitionInv' /\ InstalledOK'
<1>0. /\ CountInv /\ CallsOK /\ OneHostCall /\ RegistryOK /\ OneChange /\ Marked /\ Ended
      /\ InstalledOK
  BY DEF HookInv, TransitionInv
<1>1. ASSUME NEW u \in Threads, NEW e \in Depths, u # t \/ e # d, NEW h, h = frame[u][e]
      PROVE  /\ Settled(h) /\ h = frame'[u][e]
             /\ \A r \in Targets : WillChange(h, r) <=> Changes(h, r)
             /\ \A r \in S : ~Changes(h, r)
             /\ h.call # "shutdown"
             /\ ~(h.call \in HostCalls /\ f.call \in HostCalls /\ h.plugin = f.plugin)
  <2>1. \A r \in Targets : ~(Changes(h, r) /\ Changes(g, r))
    BY <1>0, <1>1 DEF OneChange
  <2>2. ~(h.call \in HostCalls /\ g.call \in HostCalls /\ h.plugin = g.plugin)
    BY <1>0, <1>1 DEF OneHostCall
  <2>3. h = frame'[u][e]
    BY <1>1 DEF Changed
  <2>4. /\ Settled(h)
        /\ \A r \in Targets : WillChange(h, r) <=> Changes(h, r)
        /\ \A r \in S : ~Changes(h, r)
    <3>1. Apart(h, g)
      BY <2>1, <2>2 DEF Apart
    <3>2. shutdown' = shutdown
      OBVIOUS
    <3> QED  BY <1>1, <3>1, <3>2, Elsewhere
  <2>5. h.call # "shutdown"
    BY <1>0, <1>1 DEF CallsOK
  <2>6. h.call \in HostCalls => InHand(h.plugin)
    <3>1. h.call # "none" => h \in AllFrames
      BY <1>0, <1>1, FrameThere
    <3> QED  BY <3>1 DEF InHand, HostCalls
  <2> QED  BY <2>2, <2>3, <2>4, <2>5, <2>6
<1>2. f = frame'[t][d]
  BY DEF Changed
<1>3. ASSUME NEW u \in Threads, NEW e \in Depths, NEW h, h = frame'[u][e]
      PROVE  /\ Settled(h) /\ h.call # "shutdown"
             /\ \A r \in S : WillChange(h, r) => u = t /\ e = d
             /\ \A r \in Targets : r \notin S => (WillChange(h, r) <=> Changes(frame[u][e], r))
  <2>1. CASE u = t /\ e = d
    BY <1>2, <1>3, <2>1
  <2>2. CASE ~(u = t /\ e = d)
    <3>1. PICK k : k = frame[u][e]
      OBVIOUS
    <3>2. h = k
      BY <1>1, <1>3, <2>2, <3>1
    <3> QED  BY <1>1, <2>2, <3>1, <3>2
  <2> QED  BY <2>1, <2>2
<1>4. CallsOK'
  <2> SUFFICES ASSUME NEW u \in Threads, NEW e \in Depths
               PROVE  /\ ReliesOn(frame[u][e])'
                      /\ frame'[u][e].call # "shutdown"
    BY DEF CallsOK
  <2> QED  BY <1>3 DEF Settled
<1>5. OneHostCall'
  <2> SUFFICES ASSUME NEW u \in Threads, NEW v \in Threads, NEW e \in Depths, NEW i \in Depths,
                      frame'[u][e].call \in HostCalls, frame'[v][i].call \in HostCalls,
                      frame'[u][e].plugin = frame'[v][i].plugin
               PROVE  u = v /\ e = i
    BY DEF OneHostCall, HostCalls
  <2>1. CASE u = t /\ e = d
    BY <1>1, <1>2, <2>1
  <2>2. CASE v = t /\ i = d
    BY <1>1, <1>2, <2>2
  <2>3. CASE ~(u = t /\ e = d) /\ ~(v = t /\ i = d)
    BY <1>0, <2>3 DEF OneHostCall, Changed
  <2> QED  BY <2>1, <2>2, <2>3
<1>6. OneChange'
  <2> SUFFICES ASSUME NEW u \in Threads, NEW v \in Threads, NEW e \in Depths, NEW i \in Depths,
                      NEW r \in Targets, Changes(frame[u][e], r)', Changes(frame[v][i], r)'
               PROVE  u = v /\ e = i
    BY DEF OneChange
  <2>1. CASE r \in S
    BY <1>3, <2>1 DEF WillChange
  <2>2. CASE r \notin S
    <3>1. Changes(frame[u][e], r) /\ Changes(frame[v][i], r)
      BY <1>3, <2>2 DEF WillChange
    <3> QED  BY <1>0, <3>1 DEF OneChange
  <2> QED  BY <2>1, <2>2
<1>7. Marked'
  <2> SUFFICES ASSUME NEW u \in Threads, NEW e \in Depths, NEW r \in Targets,
                      Changes(frame[u][e], r)'
               PROVE  target'[r].transition
    BY DEF Marked
  <2>1. CASE r \in S
    <3>1. u = t /\ e = d
      BY <1>3, <2>1 DEF WillChange
    <3>2. WillChange(f, r)
      BY <1>2, <3>1 DEF WillChange
    <3> QED  BY <2>1, <3>2
  <2>2. CASE r \notin S
    <3>1. Changes(frame[u][e], r)
      BY <1>3, <2>2 DEF WillChange
    <3> QED  BY <1>0, <2>2, <3>1 DEF Marked, Keeps, SameAt
  <2> QED  BY <2>1, <2>2
<1>8. Ended'
  <2> SUFFICES ASSUME NEW r \in Targets, target'[r].transition
               PROVE  \E u \in Threads, e \in Depths : Changes(frame[u][e], r)'
    BY DEF Ended
  <2>1. CASE r \in S
    BY <1>2, <2>1 DEF WillChange
  <2>2. CASE r \notin S
    <3>1. target[r].transition
      BY <2>2 DEF Keeps, SameAt
    <3>2. PICK u \in Threads, e \in Depths : Changes(frame[u][e], r)
      BY <1>0, <3>1 DEF Ended
    <3>3. Changes(frame[u][e], r)'
      BY <1>3, <2>2, <3>2 DEF WillChange
    <3> QED  BY <3>3
  <2> QED  BY <2>1, <2>2
<1>9. InstalledOK'
  <2>1. \A u \in Threads, e \in Depths : InstalledFor(frame[u][e])'
    BY <1>3 DEF Settled
  <2>2. ASSUME NEW r \in Targets
        PROVE  InPlace(r)
    <3>1. CASE r \in S
      BY <3>1
    <3>2. CASE r \notin S
      <4>1. SameAt(r)
        BY <3>2 DEF Keeps
      <4>2. CallbacksOf(r)' = CallbacksOf(r)
        BY <4>1 DEF SameAt, CallbacksOf
      <4> QED  BY <1>0, <4>1, <4>2 DEF InPlace, SameAt, InstalledOK, InstalledIffUsed, Live
    <3> QED  BY <3>1, <3>2
  <2> QED  BY <2>1, <2>2 DEF InPlace, InstalledOK, InstalledIffUsed, Live
<1> QED  BY <1>4, <1>5, <1>6, <1>7, <1>8, <1>9 DEF TransitionInv

\* No target and no plugin changes.
Quietly ==
  /\ Stays /\ \A r \in Targets : SameAt(r)
  /\ owner' = owner /\ shutdown' = shutdown

\* The frames that change are of calls that change no target, before and after.
Aside(g, f) ==
  /\ ~Changing(g) /\ ~Changing(f)
  /\ f.call \in HostCalls => g.call \in HostCalls /\ g.plugin = f.plugin
  /\ f.call = "remove" => g.call = "remove" /\ g.callback = f.callback /\ g.target = f.target
  /\ f.call \notin {"none", "dispatch", "shutdown"} => shutdown = "no"
  /\ f.call = "shutdown" => shutdown # "no"

\* Nothing happens to the calls that change targets.
LEMMA AsideStep ==
  ASSUME HookInv, CountInv', Quietly,
         \A u \in Threads, e \in Depths :
           frame'[u][e] = frame[u][e] \/ Aside(frame[u][e], frame'[u][e])
  PROVE  TransitionInv' /\ InstalledOK'
<1>0. /\ CountInv /\ CallsOK /\ OneHostCall /\ RegistryOK /\ OneChange /\ Marked /\ Ended
      /\ InstalledOK /\ Stays /\ (\A r \in Targets : SameAt(r)) /\ shutdown' = shutdown
      /\ owner' = owner
  BY DEF HookInv, TransitionInv, Quietly
<1> DEFINE none == [call |-> "none"]
<1>1. Keeps({}, none)
  BY <1>0 DEF Keeps
<1>2. ASSUME NEW u \in Threads, NEW e \in Depths, NEW h, h = frame'[u][e]
      PROVE  /\ Settled(h)
             /\ \A r \in Targets : WillChange(h, r) <=> Changes(frame[u][e], r)
  <2>1. PICK g : g = frame[u][e]
    OBVIOUS
  <2>2. CASE h = g
    <3>1. Apart(h, none)
      BY DEF Apart, Changes, HostCalls
    <3> HIDE DEF none
    <3> QED  BY <1>0, <1>1, <2>1, <2>2, <3>1, Elsewhere
  <2>3. CASE h # g
    <3>1. Aside(g, h)
      BY <1>2, <2>1, <2>3
    <3>2. ~Changing(g) /\ ~Changing(h)
      BY <3>1 DEF Aside
    <3>3. \A r \in Targets : ~WillChange(h, r) /\ ~Changes(g, r)
      BY <3>2 DEF WillChange, Changes, Changing
    <3>4. InstalledFor(h)'
      BY <3>2 DEF InstalledFor, Changing
    <3>5. (h.call = "remove" =>
             /\ callback[h.callback].state # "free"
             /\ callback[h.callback].state = "live" => callback[h.callback].target = h.target)'
      <4>1. ASSUME h.call = "remove" PROVE g.call = "remove" /\ g.callback = h.callback
                                           /\ g.target = h.target
        BY <3>1, <4>1 DEF Aside
      <4>2. g.call = "remove" => g.callback \in Callbacks
        BY <1>0, <2>1, FrameNames
      <4>3. ReliesOn(g)
        BY <1>0, <2>1 DEF CallsOK
      <4> QED  BY <1>0, <4>1, <4>2, <4>3 DEF Stays, ReliesOn
    <3>6. ReliesOn(h)'
      BY <3>2, <3>5 DEF ReliesOn, Changing
    <3> QED  BY <2>1, <3>3, <3>4, <3>6 DEF Settled
  <2> QED  BY <2>2, <2>3
<1>3. CallsOK'
  <2>1. \A u \in Threads, e \in Depths : ReliesOn(frame[u][e])'
    BY <1>2 DEF Settled
  <2>2. ASSUME NEW u \in Threads, NEW e \in Depths
        PROVE  /\ frame'[u][e].call \notin {"none", "dispatch", "shutdown"} => shutdown = "no"
               /\ frame'[u][e].call = "shutdown" => shutdown # "no"
    BY <1>0 DEF CallsOK, Aside
  <2> QED  BY <1>0, <2>1, <2>2 DEF CallsOK
<1>4. OneHostCall'
  <2>1. ASSUME NEW u \in Threads, NEW e \in Depths, frame'[u][e].call \in HostCalls
        PROVE  /\ frame[u][e].call \in HostCalls
               /\ frame'[u][e].plugin = frame[u][e].plugin
    BY <2>1 DEF Aside
  <2> QED  BY <1>0, <2>1 DEF OneHostCall, HostCalls
<1>5. \A u \in Threads, e \in Depths, r \in Targets :
        Changes(frame[u][e], r)' <=> Changes(frame[u][e], r)
  BY <1>2 DEF WillChange
<1>6. OneChange' /\ Marked' /\ Ended'
  BY <1>0, <1>5 DEF OneChange, Marked, Ended, SameAt
<1>7. RegistryOK'
  <2>1. ASSUME NEW c \in Callbacks, callback'[c].state = "live"
        PROVE  /\ callback[c].state = "live" /\ callback'[c].owner = callback[c].owner
               /\ callback'[c].target = callback[c].target /\ callback[c].target \in Targets
    BY <1>0, <2>1 DEF CountInv, LiveOK, SameAt
  <2>2. \A r \in Targets : (r \in Live)' <=> r \in Live
    BY <1>0 DEF Live, SameAt
  <2> QED  BY <1>0, <2>1, <2>2 DEF RegistryOK, SameAt, Live
<1>8. InstalledOK'
  <2>1. \A u \in Threads, e \in Depths : InstalledFor(frame[u][e])'
    BY <1>2 DEF Settled
  <2>2. ASSUME NEW r \in Targets
        PROVE  /\ CallbacksOf(r)' = CallbacksOf(r)
               /\ target'[r].enabled = target[r].enabled
               /\ target'[r].transition = target[r].transition
               /\ target'[r].state = "live" <=> target[r].state = "live"
    BY <1>0 DEF SameAt, CallbacksOf
  <2>3. ASSUME shutdown = "no", NEW r \in Targets
        PROVE  /\ target[r].state = "live" /\ ~target[r].transition =>
                    (target[r].enabled <=> CallbacksOf(r) # {})
               /\ target[r].state # "live" => ~target[r].enabled
    BY <1>0, <2>3 DEF InstalledOK, InstalledIffUsed, Live
  <2> QED  BY <1>0, <2>1, <2>2, <2>3 DEF InstalledOK, InstalledIffUsed, Live
<1> QED  BY <1>3, <1>4, <1>6, <1>7, <1>8 DEF TransitionInv

\* After Shutdown has begun no call of a plugin or for a plugin is left.
LEMMA DownStep ==
  ASSUME HookInv, CountInv', shutdown' # "no",
         \A u \in Threads, e \in Depths : frame'[u][e].call \in {"none", "dispatch", "shutdown"},
         \A c \in Callbacks : callback'[c].state # "live",
         \A r \in Targets : target'[r].state = "live" => target'[r].leases = {},
         \A p \in Plugins : ~owner'[p].known
  PROVE  TransitionInv' /\ InstalledOK'
<1>1. ASSUME NEW u \in Threads, NEW e \in Depths
      PROVE  /\ ReliesOn(frame[u][e])' /\ InstalledFor(frame[u][e])'
             /\ \A r \in Targets : ~Changes(frame[u][e], r)'
             /\ frame'[u][e].call \notin HostCalls
  BY DEF ReliesOn, InstalledFor, Changing, Changes, HostCalls
<1>2. CallsOK'
  BY <1>1 DEF CallsOK
<1>3. OneHostCall'
  BY <1>1 DEF OneHostCall, HostCalls
<1>4. OneChange' /\ Marked' /\ Ended'
  BY <1>1 DEF OneChange, Marked, Ended
<1>5. RegistryOK'
  BY DEF RegistryOK, Live
<1>6. InstalledOK'
  BY <1>1 DEF InstalledOK, InstalledIffUsed
<1> QED  BY <1>2, <1>3, <1>4, <1>5, <1>6 DEF TransitionInv

\* No thread moves, and what the registry knows of the plugins that the host has in
\* hand stays.
LEMMA StandStill ==
  ASSUME HookInv, CountInv', frame' = frame, UNCHANGED <<target, callback, shutdown>>,
         NEW p \in Plugins, ~InHand(p), \A q \in Plugins : q # p => owner'[q] = owner[q],
         owner[p].known => owner'[p].known, shutdown = "no"
  PROVE  TransitionInv' /\ InstalledOK'
<1>0. /\ CountInv /\ CallsOK /\ OneHostCall /\ RegistryOK /\ OneChange /\ Marked /\ Ended
      /\ InstalledOK
  BY DEF HookInv, TransitionInv
<1> DEFINE none == [call |-> "none"]
<1>1. Keeps({}, none)
  BY DEF Keeps, Stays, SameAt
<1>2. ASSUME NEW u \in Threads, NEW e \in Depths, NEW h, h = frame[u][e]
      PROVE  Settled(h) /\ \A r \in Targets : WillChange(h, r) <=> Changes(h, r)
  <2>1. Apart(h, none)
    BY DEF Apart, Changes, HostCalls
  <2> HIDE DEF none
  <2> QED  BY <1>0, <1>1, <1>2, <2>1, Elsewhere
<1>3. \A u \in Threads, e \in Depths, r \in Targets :
        Changes(frame[u][e], r)' <=> Changes(frame[u][e], r)
  BY <1>2 DEF WillChange
<1>4. \A u \in Threads, e \in Depths : ReliesOn(frame[u][e])' /\ InstalledFor(frame[u][e])'
  BY <1>2 DEF Settled
<1>5. CallsOK' /\ OneHostCall'
  BY <1>0, <1>4 DEF CallsOK, OneHostCall, HostCalls
<1>6. OneChange' /\ Marked' /\ Ended'
  BY <1>0, <1>3 DEF OneChange, Marked, Ended
<1>7. RegistryOK'
  <2>1. \A q \in Plugins : owner[q].known => owner'[q].known
    OBVIOUS
  <2>2. \A r \in Targets : target[r].leases \subseteq Plugins
    BY <1>0, TargetFields DEF CountInv, TypeOK
  <2> QED  BY <1>0, <2>1, <2>2 DEF RegistryOK, Live, CountInv, LiveOK
<1>8. InstalledOK'
  BY <1>0, <1>4 DEF InstalledOK, InstalledIffUsed, Live, CallbacksOf
<1> QED  BY <1>5, <1>6, <1>7, <1>8 DEF TransitionInv

-----------------------------------------------------------------------------
(* How the frames move.                                                    *)

LEMMA SetTopMoves ==
  ASSUME CountInv, CountInv', NEW t \in Threads, depth[t] # 0, NEW f, SetTop(t, f)
  PROVE  /\ f \in Frame /\ depth[t] \in Depths /\ Top(t) = frame[t][depth[t]]
         /\ Changed(t, depth[t], f) /\ FrameOK(f)
<1>0. TypeOK /\ TypeOK' /\ StackOK'
  BY DEF CountInv
<1>1. depth[t] \in Depths /\ Top(t) = frame[t][depth[t]]
  BY <1>0, TopFrame
<1>2. frame'[t][depth[t]] = f
  BY <1>0, <1>1 DEF SetTop, TypeOK, Depths
<1>3. f \in Frame
  BY <1>0, <1>1, <1>2 DEF TypeOK, Depths
<1>4. Changed(t, depth[t], f)
  BY <1>0, <1>3, SetTopChanges
<1>5. FrameOK(f)
  BY <1>0, <1>1, <1>2 DEF StackOK
<1> QED  BY <1>1, <1>3, <1>4, <1>5

LEMMA PushMoves ==
  ASSUME CountInv, CountInv', NEW t \in Threads, NEW f, Push(t, f)
  PROVE  /\ f \in Frame /\ depth[t] + 1 \in Depths /\ frame[t][depth[t] + 1].call = "none"
         /\ Changed(t, depth[t] + 1, f) /\ FrameOK(f)
<1>0. TypeOK /\ TypeOK' /\ StackOK /\ StackOK'
  BY DEF CountInv
<1>1. depth[t] + 1 \in Depths /\ depth[t] \in Nat
  BY <1>0, HookAssumption DEF Push, TypeOK, HookAssumption, Depths
<1>2. frame'[t][depth[t] + 1] = f
  BY <1>0, <1>1 DEF Push, TypeOK, Depths
<1>3. f \in Frame
  BY <1>0, <1>1, <1>2 DEF TypeOK, Depths
<1>4. Changed(t, depth[t] + 1, f)
  BY <1>0, <1>3, PushChanges
<1>5. frame[t][depth[t] + 1].call = "none"
  <2>1. ~(depth[t] + 1 <= depth[t])
    BY <1>1
  <2> QED  BY <1>0, <1>1, <2>1 DEF StackOK
<1>6. FrameOK(f)
  BY <1>0, <1>1, <1>2 DEF StackOK
<1> QED  BY <1>1, <1>3, <1>4, <1>5, <1>6

LEMMA PopMoves ==
  ASSUME CountInv, NEW t \in Threads, depth[t] # 0, Pop(t)
  PROVE  /\ depth[t] \in Depths /\ Top(t) = frame[t][depth[t]]
         /\ Changed(t, depth[t], Idle)
<1>0. TypeOK
  BY DEF CountInv
<1> QED  BY <1>0, TopFrame, PopChanges

\* The records that nobody writes.
LEMMA UnwrittenQuiet ==
  ASSUME UNCHANGED <<owner, target, callback, shutdown>> PROVE Quietly
BY DEF Quietly, Stays, SameAt

\* A thread goes on, starts or ends a call that changes no target.
LEMMA AsideTop ==
  ASSUME HookInv, CountInv', Quietly, NEW t \in Threads, depth[t] # 0, NEW f, SetTop(t, f),
         Aside(Top(t), f)
  PROVE  TransitionInv' /\ InstalledOK'
<1>1. CountInv
  BY DEF HookInv
<1>2. depth[t] \in Depths /\ Top(t) = frame[t][depth[t]] /\ Changed(t, depth[t], f)
  BY <1>1, SetTopMoves
<1> QED  BY <1>2, AsideStep DEF Changed

LEMMA AsidePop ==
  ASSUME HookInv, CountInv', Quietly, NEW t \in Threads, depth[t] # 0, Pop(t),
         ~Changing(Top(t))
  PROVE  TransitionInv' /\ InstalledOK'
<1>1. CountInv
  BY DEF HookInv
<1>2. depth[t] \in Depths /\ Top(t) = frame[t][depth[t]] /\ Changed(t, depth[t], Idle)
  BY <1>1, PopMoves
<1>3. Aside(Top(t), Idle)
  BY IdleFrame DEF Aside, Changing, HostCalls
<1> QED  BY <1>2, <1>3, AsideStep DEF Changed

LEMMA AsidePush ==
  ASSUME HookInv, CountInv', Quietly, NEW t \in Threads, NEW f, Push(t, f),
         f.call \in {"dispatch", "direct", "set"}, f.call # "dispatch" => shutdown = "no"
  PROVE  TransitionInv' /\ InstalledOK'
<1>1. CountInv
  BY DEF HookInv
<1>2. /\ depth[t] + 1 \in Depths /\ frame[t][depth[t] + 1].call = "none"
      /\ Changed(t, depth[t] + 1, f)
  BY <1>1, PushMoves
<1>3. Aside(frame[t][depth[t] + 1], f)
  BY <1>2 DEF Aside, Changing, HostCalls
<1> QED  BY <1>2, <1>3, AsideStep DEF Changed

\* A call of a plugin or for a plugin starts.
LEMMA BeginsCall ==
  ASSUME HookInv, CountInv', Quietly, NEW t \in Threads, NEW f, Push(t, f), shutdown = "no",
         ~Changing(f), f.call # "shutdown", f.call \in HostCalls => ~InHand(f.plugin),
         f.call = "remove" => /\ callback[f.callback].state = "live"
                              /\ callback[f.callback].target = f.target,
         UNCHANGED callback
  PROVE  TransitionInv' /\ InstalledOK'
<1>0. CountInv /\ shutdown' = "no" /\ RegistryOK
  BY DEF HookInv, Quietly, TransitionInv
<1>1. /\ depth[t] + 1 \in Depths /\ frame[t][depth[t] + 1].call = "none"
      /\ Changed(t, depth[t] + 1, f)
  BY <1>0, PushMoves
<1>2. PICK g : g = frame[t][depth[t] + 1]
  OBVIOUS
<1>3. Keeps({}, g)
  BY DEF Quietly, Keeps
<1>4. Settled(f)
  BY DEF Settled, ReliesOn, InstalledFor, Changing
<1>5. \A r \in Targets : ~WillChange(f, r) /\ ~Changes(g, r)
  BY <1>1, <1>2 DEF WillChange, Changes, Changing
<1>6. RegistryOK'
  BY <1>0 DEF RegistryOK, Quietly, SameAt, Live, CountInv, LiveOK
<1> QED  BY <1>0, <1>1, <1>2, <1>3, <1>4, <1>5, <1>6, StepAt

-----------------------------------------------------------------------------
(* Dispatches.                                                             *)

\* How a frame changes while thread t dispatches: the dispatch of a target goes on
\* or ends, or starts through its hook, below a dispatch of it, or below a direct
\* call through its closure.
Dispatches(t, g, f) ==
  /\ g.call \in {"none", "dispatch"} /\ f.call \in {"none", "dispatch"}
  /\ f.call = "dispatch" =>
       \/ g.call = "dispatch" /\ f.target = g.target
       \/ target[f.target].enabled
       \/ \E x \in Depths : /\ frame[t][x].target = f.target
                            /\ \/ frame[t][x].call = "dispatch"
                               \/ frame[t][x].call = "direct" /\ frame[t][x].flag

\* Thread t's innermost dispatch goes on.
LEMMA DispatchGoes ==
  ASSUME CountInv, CountInv', NEW t \in Threads, DispatchStep(t),
         ~(\E r \in Targets : Enter(t, r)), ~Recall(t), ~Leave(t)
  PROVE  /\ depth[t] # 0 /\ Top(t).call = "dispatch"
         /\ \/ Pop(t)
            \/ \E f : SetTop(t, f) /\ f.call = "dispatch" /\ f.target = Top(t).target
<1>1. PICK g : g = Top(t)
  OBVIOUS
<1>2. /\ depth[t] # 0 /\ Top(t).call = "dispatch"
      /\ g \in Frame
  BY <1>1, TopOK DEF DispatchStep, Bind, Count, Snapshot, Pick, Check, Answer, CallOriginal,
                     BackInCallback, Original, OriginalReturns, At
<1>3. CASE Bind(t)
  <2>1. Pop(t) \/ SetTop(t, [g EXCEPT !.at = "bound"])
    BY <1>1, <1>3 DEF Bind, Goto
  <2>2. [g EXCEPT !.at = "bound"].call = g.call /\ [g EXCEPT !.at = "bound"].target = g.target
    BY <1>2 DEF Frame
  <2> QED  BY <1>1, <1>2, <2>1, <2>2
<1>4. CASE Count(t)
  <2> DEFINE f == [g EXCEPT !.at = "counted"]
  <2>1. SetTop(t, f)
    BY <1>1, <1>4 DEF Count, Goto
  <2>2. f.call = g.call /\ f.target = g.target
    BY <1>2 DEF Frame
  <2> HIDE DEF f
  <2> QED  BY <1>1, <1>2, <2>1, <2>2
<1>5. CASE Snapshot(t)
  <2>1. PICK ops, todo : SetTop(t, [g EXCEPT !.at = "pick", !.ops = ops, !.todo = todo])
    BY <1>1, <1>5 DEF Snapshot
  <2> DEFINE f == [g EXCEPT !.at = "pick", !.ops = ops, !.todo = todo]
  <2>2. f.call = g.call /\ f.target = g.target
    BY <1>2 DEF Frame
  <2> HIDE DEF f
  <2> QED  BY <1>1, <1>2, <2>1, <2>2 DEF f
<1>6. CASE Pick(t)
  <2>1. PICK c, todo : SetTop(t, [g EXCEPT !.at = "check", !.callback = c, !.todo = todo])
    BY <1>1, <1>6 DEF Pick
  <2> DEFINE f == [g EXCEPT !.at = "check", !.callback = c, !.todo = todo]
  <2>2. f.call = g.call /\ f.target = g.target
    BY <1>2 DEF Frame
  <2> HIDE DEF f
  <2> QED  BY <1>1, <1>2, <2>1, <2>2 DEF f
<1>7. CASE Check(t)
  <2>1. SetTop(t, [g EXCEPT !.at = "in"]) \/ SetTop(t, [g EXCEPT !.at = "pick", !.callback = None])
    BY <1>1, <1>7 DEF Check, Goto
  <2>2. /\ [g EXCEPT !.at = "in"].call = g.call
        /\ [g EXCEPT !.at = "in"].target = g.target
        /\ [g EXCEPT !.at = "pick", !.callback = None].call = g.call
        /\ [g EXCEPT !.at = "pick", !.callback = None].target = g.target
    BY <1>2 DEF Frame
  <2> QED  BY <1>1, <1>2, <2>1, <2>2
<1>8. CASE \E supersede \in BOOLEAN : Answer(t, supersede)
  <2>1. PICK over, todo : SetTop(t, [g EXCEPT !.at = "pick", !.callback = None,
                                              !.superseded = over, !.todo = todo])
    BY <1>1, <1>8 DEF Answer
  <2> DEFINE f == [g EXCEPT !.at = "pick", !.callback = None, !.superseded = over, !.todo = todo]
  <2>2. f.call = g.call /\ f.target = g.target
    BY <1>2 DEF Frame
  <2> HIDE DEF f
  <2> QED  BY <1>1, <1>2, <2>1, <2>2 DEF f
<1>9. CASE CallOriginal(t)
  <2> DEFINE f == [g EXCEPT !.at = "explicit", !.calls = g.calls + 1]
  <2>1. SetTop(t, f)
    BY <1>1, <1>9 DEF CallOriginal
  <2>2. f.call = g.call /\ f.target = g.target
    BY <1>2 DEF Frame
  <2> HIDE DEF f
  <2> QED  BY <1>1, <1>2, <2>1, <2>2
<1>10. CASE BackInCallback(t)
  <2>1. SetTop(t, [g EXCEPT !.at = "in"]) \/ SetTop(t, [g EXCEPT !.at = "in", !.recalled = TRUE])
    BY <1>1, <1>10 DEF BackInCallback, Goto
  <2>2. /\ [g EXCEPT !.at = "in"].call = g.call
        /\ [g EXCEPT !.at = "in"].target = g.target
        /\ [g EXCEPT !.at = "in", !.recalled = TRUE].call = g.call
        /\ [g EXCEPT !.at = "in", !.recalled = TRUE].target = g.target
    BY <1>2 DEF Frame
  <2> QED  BY <1>1, <1>2, <2>1, <2>2
<1>11. CASE Original(t)
  <2>1. PICK todo : \/ SetTop(t, [g EXCEPT !.at = "original", !.calls = g.calls + 1])
                    \/ SetTop(t, [g EXCEPT !.post = TRUE, !.todo = todo])
    BY <1>1, <1>11 DEF Original
  <2>2. /\ [g EXCEPT !.at = "original", !.calls = g.calls + 1].call = g.call
        /\ [g EXCEPT !.at = "original", !.calls = g.calls + 1].target = g.target
        /\ [g EXCEPT !.post = TRUE, !.todo = todo].call = g.call
        /\ [g EXCEPT !.post = TRUE, !.todo = todo].target = g.target
    BY <1>2 DEF Frame
  <2> QED  BY <1>1, <1>2, <2>1, <2>2
<1>12. CASE OriginalReturns(t)
  <2>1. PICK todo : SetTop(t, [g EXCEPT !.at = "pick", !.post = TRUE, !.todo = todo])
    BY <1>1, <1>12 DEF OriginalReturns
  <2> DEFINE f == [g EXCEPT !.at = "pick", !.post = TRUE, !.todo = todo]
  <2>2. f.call = g.call /\ f.target = g.target
    BY <1>2 DEF Frame
  <2> HIDE DEF f
  <2> QED  BY <1>1, <1>2, <2>1, <2>2 DEF f
<1> QED  BY <1>2, <1>3, <1>4, <1>5, <1>6, <1>7, <1>8, <1>9, <1>10, <1>11, <1>12 DEF DispatchStep

\* What each step of a dispatch does to the frames.
LEMMA DispatchMoves ==
  ASSUME CountInv, CountInv', NEW t \in Threads, DispatchStep(t)
  PROVE  \A u \in Threads, e \in Depths :
           frame'[u][e] = frame[u][e] \/ Dispatches(t, frame[u][e], frame'[u][e])
<1>1. CASE \E r \in Targets : Enter(t, r)
  <2>1. PICK r \in Targets : Enter(t, r)
    BY <1>1
  <2>2. Push(t, Entry(r)) /\ Entry(r).call = "dispatch" /\ Entry(r).target = r
    BY <2>1, EntryFrame DEF Enter
  <2>3. /\ depth[t] + 1 \in Depths /\ frame[t][depth[t] + 1].call = "none"
        /\ Changed(t, depth[t] + 1, Entry(r))
    BY <2>2, PushMoves
  <2>4. \/ target[r].enabled
        \/ /\ depth[t] # 0 /\ Top(t).call = "direct" /\ Top(t).flag /\ Top(t).target = r
    BY <2>1 DEF Enter, At
  <2>5. depth[t] # 0 => depth[t] \in Depths /\ Top(t) = frame[t][depth[t]]
    BY TopFrame DEF CountInv
  <2>6. Dispatches(t, frame[t][depth[t] + 1], Entry(r))
    BY <2>2, <2>3, <2>4, <2>5 DEF Dispatches
  <2> QED  BY <2>3, <2>6 DEF Changed
<1>2. CASE Recall(t)
  <2>1. PICK f \in Frame, h \in Frame :
           /\ f.call = "dispatch" /\ h.call = "dispatch"
           /\ f.target = Top(t).target /\ h.target = Top(t).target
           /\ frame' = [frame EXCEPT ![t] = [frame[t] EXCEPT ![depth[t]] = f,
                                                             ![depth[t] + 1] = h]]
    BY <1>2, RecallFrames
  <2>2. At(t, "dispatch", "in") /\ depth[t] < MaxDepth
    BY <1>2 DEF Recall
  <2>3. /\ depth[t] # 0 /\ depth[t] \in Depths /\ Top(t) = frame[t][depth[t]]
        /\ Top(t).call = "dispatch"
    BY <2>2, TopFrame DEF At, CountInv
  <2>4. frame[t][depth[t] + 1].call = "none" /\ depth[t] + 1 \in Depths
    <3>1. depth[t] \in Nat /\ MaxDepth \in Nat
      BY <2>3, HookAssumption DEF HookAssumption, Depths
    <3>2. depth[t] + 1 \in Depths /\ ~(depth[t] + 1 <= depth[t])
      BY <2>2, <3>1 DEF Depths
    <3> QED  BY <3>2 DEF CountInv, StackOK
  <2>5. Dispatches(t, frame[t][depth[t]], f) /\ Dispatches(t, frame[t][depth[t] + 1], h)
    BY <2>1, <2>3, <2>4 DEF Dispatches
  <2>6. \A e \in Depths : frame'[t][e] = IF e = depth[t] + 1 THEN h
                                         ELSE IF e = depth[t] THEN f ELSE frame[t][e]
    BY <2>1, <2>3, <2>4 DEF CountInv, TypeOK, Depths
  <2>7. \A u \in Threads : u # t => frame'[u] = frame[u]
    BY <2>1 DEF CountInv, TypeOK
  <2> QED  BY <2>5, <2>6, <2>7
<1>3. CASE Leave(t)
  <2>1. depth[t] # 0 /\ Top(t).call = "dispatch" /\ Pop(t)
    BY <1>3 DEF Leave, At
  <2>2. depth[t] \in Depths /\ Top(t) = frame[t][depth[t]] /\ Changed(t, depth[t], Idle)
    BY <2>1, PopMoves
  <2>3. Dispatches(t, Top(t), Idle)
    BY <2>1, IdleFrame DEF Dispatches
  <2> QED  BY <2>2, <2>3 DEF Changed
<1>4. CASE ~(\E r \in Targets : Enter(t, r)) /\ ~Recall(t) /\ ~Leave(t)
  <2>1. /\ depth[t] # 0 /\ Top(t).call = "dispatch"
        /\ \/ Pop(t)
           \/ \E f : SetTop(t, f) /\ f.call = "dispatch" /\ f.target = Top(t).target
    BY <1>4, DispatchGoes
  <2>2. CASE Pop(t)
    <3>1. depth[t] \in Depths /\ Top(t) = frame[t][depth[t]] /\ Changed(t, depth[t], Idle)
      BY <2>1, <2>2, PopMoves
    <3>2. Dispatches(t, Top(t), Idle)
      BY <2>1, IdleFrame DEF Dispatches
    <3> QED  BY <3>1, <3>2 DEF Changed
  <2>3. CASE \E f : SetTop(t, f) /\ f.call = "dispatch" /\ f.target = Top(t).target
    <3>1. PICK f : SetTop(t, f) /\ f.call = "dispatch" /\ f.target = Top(t).target
      BY <2>3
    <3>2. depth[t] \in Depths /\ Top(t) = frame[t][depth[t]] /\ Changed(t, depth[t], f)
      BY <2>1, <3>1, SetTopMoves
    <3>3. Dispatches(t, Top(t), f)
      BY <2>1, <3>1 DEF Dispatches
    <3> QED  BY <3>2, <3>3 DEF Changed
  <2> QED  BY <2>1, <2>2, <2>3
<1> QED  BY <1>1, <1>2, <1>3, <1>4

\* Of the records only the counts change.
LEMMA DispatchRecords ==
  ASSUME CountInv, CountInv', NEW t \in Threads, DispatchStep(t)
  PROVE  /\ UNCHANGED <<owner, quiet, shutdown>>
         /\ \A r \in Targets : /\ target'[r].state = target[r].state
                               /\ target'[r].leases = target[r].leases
                               /\ target'[r].bindings = target[r].bindings
                               /\ target'[r].transition = target[r].transition
                               /\ target'[r].enabled = target[r].enabled
                               /\ target'[r].storage = target[r].storage
                               /\ target'[r].direct = target[r].direct
         /\ \A c \in Callbacks : /\ callback'[c].state = callback[c].state
                                 /\ callback'[c].owner = callback[c].owner
                                 /\ callback'[c].target = callback[c].target
                                 /\ callback'[c].enabled = callback[c].enabled
<1>0. target \in [Targets -> Target] /\ callback \in [Callbacks -> Callback]
  BY TypesOf
<1>1. UNCHANGED <<owner, quiet, shutdown>>
  BY DEF DispatchStep, Enter, Bind, Count, Snapshot, Pick, Check, Answer, CallOriginal, Recall,
         BackInCallback, Original, OriginalReturns, Leave
<1>2. \/ UNCHANGED target
      \/ \E r, n : target' = [target EXCEPT ![r].active = n]
  BY DEF DispatchStep, Enter, Bind, Count, Snapshot, Pick, Check, Answer, CallOriginal, Recall,
         BackInCallback, Original, OriginalReturns, Leave
<1>3. \/ UNCHANGED callback
      \/ \E c, n : callback' = [callback EXCEPT ![c].active = n]
  BY DEF DispatchStep, Enter, Bind, Count, Snapshot, Pick, Check, Answer, CallOriginal, Recall,
         BackInCallback, Original, OriginalReturns, Leave, Left
<1>4. ASSUME NEW r, NEW n, target' = [target EXCEPT ![r].active = n], NEW q \in Targets
      PROVE  /\ target'[q].state = target[q].state
             /\ target'[q].leases = target[q].leases
             /\ target'[q].bindings = target[q].bindings
             /\ target'[q].transition = target[q].transition
             /\ target'[q].enabled = target[q].enabled
             /\ target'[q].storage = target[q].storage
             /\ target'[q].direct = target[q].direct
  <2>1. target[q] \in Target
    BY <1>0
  <2>2. target'[q] = target[q] \/ target'[q] = [target[q] EXCEPT !.active = n]
    BY <1>0, <1>4
  <2> QED  BY <2>1, <2>2 DEF Target
<1>5. ASSUME NEW c, NEW n, callback' = [callback EXCEPT ![c].active = n], NEW b \in Callbacks
      PROVE  /\ callback'[b].state = callback[b].state
             /\ callback'[b].owner = callback[b].owner
             /\ callback'[b].target = callback[b].target
             /\ callback'[b].enabled = callback[b].enabled
  <2>1. callback[b] \in Callback
    BY <1>0
  <2>2. callback'[b] = callback[b] \/ callback'[b] = [callback[b] EXCEPT !.active = n]
    BY <1>0, <1>5
  <2> QED  BY <2>1, <2>2 DEF Callback
<1>6. ASSUME NEW q \in Targets
      PROVE  /\ target'[q].state = target[q].state
             /\ target'[q].leases = target[q].leases
             /\ target'[q].bindings = target[q].bindings
             /\ target'[q].transition = target[q].transition
             /\ target'[q].enabled = target[q].enabled
             /\ target'[q].storage = target[q].storage
             /\ target'[q].direct = target[q].direct
  BY <1>2, <1>4
<1>7. ASSUME NEW b \in Callbacks
      PROVE  /\ callback'[b].state = callback[b].state
             /\ callback'[b].owner = callback[b].owner
             /\ callback'[b].target = callback[b].target
             /\ callback'[b].enabled = callback[b].enabled
  BY <1>3, <1>5
<1> QED  BY <1>1, <1>6, <1>7

LEMMA DispatchHeld ==
  ASSUME HookInv, CountInv', NEW t \in Threads, DispatchStep(t)
  PROVE  TransitionInv' /\ InstalledOK'
<1>1. CountInv
  BY DEF HookInv
<1>2. Quietly
  BY <1>1, DispatchRecords DEF Quietly, Stays, SameAt
<1>3. \A g, f : Dispatches(t, g, f) => Aside(g, f)
  BY DEF Dispatches, Aside, Changing, HostCalls
<1> QED  BY <1>1, <1>2, <1>3, DispatchMoves, AsideStep

-----------------------------------------------------------------------------
(* Calls that begin or that change nothing the others go by.               *)

\* A call that collects first.
LEMMA StartHeld ==
  ASSUME HookInv, CountInv', NEW t \in Threads, NEW f \in Frame, Start(t, f), shutdown = "no",
         f.call \in StartCalls, f.call = "release" => ~InHand(f.plugin),
         f.call = "remove" => /\ callback[f.callback].state = "live"
                              /\ callback[f.callback].target = f.target
  PROVE  TransitionInv' /\ InstalledOK'
<1>0. PICK at \in {"begin", "collect"} :
        Push(t, [f EXCEPT !.at = at, !.todo = Collectable(t)])
  BY DEF Start
<1>1. PICK todo : Push(t, [f EXCEPT !.at = at, !.todo = todo])
  BY <1>0
<1> DEFINE h == [f EXCEPT !.at = at, !.todo = todo]
<1>2. /\ h.call = f.call /\ h.at = at /\ h.plugin = f.plugin
      /\ h.target = f.target /\ h.callback = f.callback
  BY DEF Frame
<1>3. Push(t, h)
  BY <1>1
<1> HIDE DEF h
<1>4. Quietly /\ UNCHANGED callback
  BY UnwrittenQuiet DEF Start
<1>5. ~Changing(h)
  BY <1>2 DEF Changing
<1> QED  BY <1>2, <1>3, <1>4, <1>5, BeginsCall DEF StartCalls, HostCalls

LEMMA StartResolveHeld ==
  ASSUME HookInv, CountInv', NEW t \in Threads, NEW p \in Plugins, StartResolve(t, p)
  PROVE  TransitionInv' /\ InstalledOK'
<1> DEFINE f == [Idle EXCEPT !.call = "resolve", !.plugin = p]
<1>1. f \in Frame
  BY IdleFrame, Names, Zenon DEF Frame
<1>2. f.call = "resolve"
  BY IdleFrame DEF Frame
<1>3. Start(t, f) /\ shutdown = "no"
  BY DEF StartResolve, OwnerReady, OwnerExists
<1> HIDE DEF f
<1> QED  BY <1>1, <1>2, <1>3, StartHeld DEF StartCalls

LEMMA StartReleaseTargetHeld ==
  ASSUME HookInv, CountInv', NEW t \in Threads, NEW p \in Plugins, NEW r \in Targets,
         StartReleaseTarget(t, p, r)
  PROVE  TransitionInv' /\ InstalledOK'
<1> DEFINE f == [Idle EXCEPT !.call = "release_target", !.plugin = p, !.target = r]
<1>1. f \in Frame
  BY IdleFrame, Names, Zenon DEF Frame
<1>2. f.call = "release_target"
  BY IdleFrame DEF Frame
<1>3. Start(t, f) /\ shutdown = "no"
  BY DEF StartReleaseTarget, OwnerExists
<1> HIDE DEF f
<1> QED  BY <1>1, <1>2, <1>3, StartHeld DEF StartCalls

LEMMA StartAddHeld ==
  ASSUME HookInv, CountInv', NEW t \in Threads, NEW p \in Plugins, NEW r \in Targets,
         StartAdd(t, p, r)
  PROVE  TransitionInv' /\ InstalledOK'
<1> DEFINE f == [Idle EXCEPT !.call = "add", !.plugin = p, !.target = r]
<1>1. f \in Frame
  BY IdleFrame, Names, Zenon DEF Frame
<1>2. f.call = "add"
  BY IdleFrame DEF Frame
<1>3. Start(t, f) /\ shutdown = "no"
  BY DEF StartAdd, OwnerReady, OwnerExists
<1> HIDE DEF f
<1> QED  BY <1>1, <1>2, <1>3, StartHeld DEF StartCalls

LEMMA StartReleaseHeld ==
  ASSUME HookInv, CountInv', NEW t \in Threads, NEW p \in Plugins, StartRelease(t, p)
  PROVE  TransitionInv' /\ InstalledOK'
<1> DEFINE f == [Idle EXCEPT !.call = "release", !.plugin = p]
<1>1. f \in Frame
  BY IdleFrame, Names, Zenon DEF Frame
<1>2. f.call = "release" /\ f.plugin = p
  BY IdleFrame DEF Frame
<1>3. Start(t, f) /\ shutdown = "no" /\ ~InHand(p)
  BY DEF StartRelease, OwnerExists
<1> HIDE DEF f
<1> QED  BY <1>1, <1>2, <1>3, StartHeld DEF StartCalls

LEMMA StartRemoveHeld ==
  ASSUME HookInv, CountInv', NEW t \in Threads, NEW p \in Plugins, NEW c \in Callbacks,
         StartRemove(t, p, c)
  PROVE  TransitionInv' /\ InstalledOK'
<1> DEFINE f == [Idle EXCEPT !.call = "remove", !.plugin = p, !.callback = c,
                             !.target = callback[c].target]
<1>0. callback[c].state = "live" /\ callback[c].target \in Targets
  BY DEF StartRemove, OwnedBy, CountInv, LiveOK, HookInv
<1>1. f \in Frame
  BY <1>0, IdleFrame, Names, Zenon DEF Frame
<1>2. f.call = "remove" /\ f.callback = c /\ f.target = callback[c].target
  BY <1>0, IdleFrame DEF Frame
<1>3. Start(t, f) /\ shutdown = "no"
  BY DEF StartRemove, OwnerExists
<1> HIDE DEF f
<1> QED  BY <1>0, <1>1, <1>2, <1>3, StartHeld DEF StartCalls

LEMMA DirectCallHeld ==
  ASSUME HookInv, CountInv', NEW t \in Threads, NEW p \in Plugins, NEW r \in Targets,
         DirectCall(t, p, r)
  PROVE  TransitionInv' /\ InstalledOK'
<1>1. PICK flag : Push(t, [Idle EXCEPT !.call = "direct", !.at = "direct", !.target = r,
                                       !.flag = flag])
  BY DEF DirectCall
<1> DEFINE f == [Idle EXCEPT !.call = "direct", !.at = "direct", !.target = r, !.flag = flag]
<1>2. f.call = "direct"
  BY IdleFrame DEF Frame
<1>3. Push(t, f)
  BY <1>1
<1> HIDE DEF f
<1>4. /\ target \in [Targets -> Target] /\ shutdown = "no"
      /\ target' = [target EXCEPT ![r].active = target[r].active + 1,
                                  ![r].direct = target[r].direct + 1]
      /\ UNCHANGED <<owner, callback, shutdown>>
  BY TypesOf DEF DirectCall, OwnerReady, OwnerExists, HookInv
<1>5. target' = [target EXCEPT ![r] = [target[r] EXCEPT !.active = target[r].active + 1,
                                                        !.direct = target[r].direct + 1]]
  BY <1>4
<1>6. ASSUME NEW q \in Targets
      PROVE  /\ target'[q].state = target[q].state /\ target'[q].leases = target[q].leases
             /\ target'[q].bindings = target[q].bindings
             /\ target'[q].transition = target[q].transition
             /\ target'[q].enabled = target[q].enabled
  <2>1. target[q] \in Target
    BY <1>4
  <2>2. \/ target'[q] = target[q]
        \/ target'[q] = [target[q] EXCEPT !.active = target[r].active + 1,
                                          !.direct = target[r].direct + 1]
    BY <1>4, <1>5
  <2> QED  BY <2>1, <2>2 DEF Target
<1>7. Quietly
  BY <1>4, <1>6 DEF Quietly, Stays, SameAt
<1> QED  BY <1>2, <1>3, <1>4, <1>7, AsidePush

LEMMA DirectReturnsHeld ==
  ASSUME HookInv, CountInv', NEW t \in Threads, DirectReturns(t)
  PROVE  TransitionInv' /\ InstalledOK'
<1>1. /\ target \in [Targets -> Target] /\ Pop(t) /\ depth[t] # 0 /\ Top(t).call = "direct"
      /\ UNCHANGED <<owner, callback, shutdown>>
  BY TypesOf DEF DirectReturns, At, HookInv
<1>2. PICK r : target' = [target EXCEPT ![r].active = target[r].active - 1,
                                        ![r].direct = target[r].direct - 1]
  BY DEF DirectReturns
<1>3. target' = [target EXCEPT ![r] = [target[r] EXCEPT !.active = target[r].active - 1,
                                                        !.direct = target[r].direct - 1]]
  BY <1>1, <1>2
<1>4. ASSUME NEW q \in Targets
      PROVE  /\ target'[q].state = target[q].state /\ target'[q].leases = target[q].leases
             /\ target'[q].bindings = target[q].bindings
             /\ target'[q].transition = target[q].transition
             /\ target'[q].enabled = target[q].enabled
  <2>1. target[q] \in Target
    BY <1>1
  <2>2. \/ target'[q] = target[q]
        \/ target'[q] = [target[q] EXCEPT !.active = target[r].active - 1,
                                          !.direct = target[r].direct - 1]
    BY <1>1, <1>3
  <2> QED  BY <2>1, <2>2 DEF Target
<1>5. Quietly
  BY <1>1, <1>4 DEF Quietly, Stays, SameAt
<1>6. ~Changing(Top(t))
  BY <1>1 DEF Changing
<1> QED  BY <1>1, <1>5, <1>6, AsidePop

LEMMA RefuseHeld ==
  ASSUME HookInv, CountInv', NEW t \in Threads, depth[t] # 0, Refuse(t), ~Changing(Top(t))
  PROVE  TransitionInv' /\ InstalledOK'
<1>1. Quietly /\ Pop(t)
  BY UnwrittenQuiet DEF Refuse
<1> QED  BY <1>1, AsidePop

LEMMA CollectAgainHeld ==
  ASSUME HookInv, CountInv', NEW t \in Threads, CollectAgain(t)
  PROVE  TransitionInv' /\ InstalledOK'
<1>1. PICK g : g = Top(t)
  OBVIOUS
<1>2. CountInv /\ CallsOK
  BY DEF HookInv, TransitionInv
<1>3. depth[t] # 0 /\ g \in Frame /\ g.call = "collect"
  BY <1>1, <1>2, TopOK DEF CollectAgain, At
<1>4. PICK todo : SetTop(t, [g EXCEPT !.at = "collect", !.todo = todo])
  BY <1>1 DEF CollectAgain
<1> DEFINE f == [g EXCEPT !.at = "collect", !.todo = todo]
<1>5. f.call = "collect"
  BY <1>3 DEF Frame
<1>6. SetTop(t, f)
  BY <1>4
<1> HIDE DEF f
<1>7. Quietly
  BY UnwrittenQuiet DEF CollectAgain
<1>8. shutdown = "no"
  <2>1. depth[t] \in Depths /\ g = frame[t][depth[t]]
    BY <1>1, <1>2, <1>3, TopFrame DEF CountInv
  <2> QED  BY <1>2, <1>3, <2>1 DEF CallsOK
<1>9. Aside(g, f)
  BY <1>3, <1>5, <1>8 DEF Aside, Changing, HostCalls
<1> QED  BY <1>1, <1>3, <1>6, <1>7, <1>9, AsideTop

LEMMA CollectHeld ==
  ASSUME HookInv, CountInv', NEW t \in Threads, Collect(t)
  PROVE  TransitionInv' /\ InstalledOK'
<1>1. PICK g : g = Top(t)
  OBVIOUS
<1>2. CountInv /\ CallsOK /\ TypeOK
  BY DEF HookInv, TransitionInv, CountInv
<1>3. depth[t] # 0 /\ g \in Frame /\ FrameOK(g) /\ g.at = "collect" /\ g.call # "none"
  BY <1>1, <1>2, TopOK DEF Collect
<1>4. /\ g.todo # {} => \/ UNCHANGED target
                        \/ target' = Destroyed(Min(g.todo))
      /\ g.todo = {} => target' = Swept(target)
      /\ UNCHANGED <<owner, callback, shutdown>>
  BY <1>1 DEF Collect
<1>5. ASSUME NEW q \in Targets
      PROVE  /\ target'[q].state = "live" <=> target[q].state = "live"
             /\ target'[q].leases = target[q].leases
             /\ target'[q].bindings = target[q].bindings
             /\ target'[q].transition = target[q].transition
             /\ target'[q].enabled = target[q].enabled
  <2>1. CASE g.todo # {}
    <3>1. g.todo \in SUBSET Targets /\ g.todo \in SUBSET Nat
      BY <1>3, HandleFacts DEF FrameOK
    <3>2. Min(g.todo) \in Targets
      BY <2>1, <3>1, MinMember
    <3> QED  BY <1>2, <1>4, <2>1, <3>2, DestroyedFacts
  <2>2. CASE g.todo = {}
    BY <1>2, <1>4, <2>2, SweptFacts
  <2> QED  BY <2>1, <2>2
<1>6. Quietly
  BY <1>4, <1>5 DEF Quietly, Stays, SameAt
<1>7. ~Changing(g)
  BY <1>3 DEF Changing
<1>8. CASE g.todo # {}
  <2>1. PICK todo : SetTop(t, [g EXCEPT !.todo = todo])
    BY <1>1, <1>8 DEF Collect
  <2> DEFINE f == [g EXCEPT !.todo = todo]
  <2>2. f.call = g.call /\ f.at = g.at /\ f.plugin = g.plugin /\ f.callback = g.callback
        /\ f.target = g.target
    BY <1>3 DEF Frame
  <2>3. SetTop(t, f)
    BY <2>1
  <2> HIDE DEF f
  <2>4. depth[t] \in Depths /\ g = frame[t][depth[t]]
    BY <1>1, <1>2, <1>3, TopFrame
  <2>5. Aside(g, f)
    BY <1>2, <1>3, <1>7, <2>2, <2>4 DEF Aside, Changing, CallsOK
  <2> QED  BY <1>1, <1>3, <1>6, <2>3, <2>5, AsideTop
<1>9. CASE g.todo = {} /\ g.call = "collect"
  <2>1. Pop(t)
    BY <1>1, <1>9 DEF Collect
  <2> QED  BY <1>1, <1>3, <1>6, <1>7, <2>1, AsidePop
<1>10. CASE g.todo = {} /\ g.call # "collect"
  <2> DEFINE f == [g EXCEPT !.at = "begin"]
  <2>1. SetTop(t, f)
    BY <1>1, <1>10 DEF Collect, Goto
  <2>2. f.call = g.call /\ f.at = "begin" /\ f.plugin = g.plugin /\ f.callback = g.callback
        /\ f.target = g.target
    BY <1>3 DEF Frame
  <2> HIDE DEF f
  <2>4. depth[t] \in Depths /\ g = frame[t][depth[t]]
    BY <1>1, <1>2, <1>3, TopFrame
  <2>5. Aside(g, f)
    BY <1>2, <1>3, <1>7, <2>2, <2>4 DEF Aside, Changing, CallsOK
  <2> QED  BY <1>1, <1>3, <1>6, <2>1, <2>5, AsideTop
<1> QED  BY <1>8, <1>9, <1>10

\* A call that changes targets and goes on as it is.
LEMMA WaitsOn ==
  ASSUME HookInv, CountInv', NEW t \in Threads, depth[t] # 0, NEW g, g = Top(t), NEW f,
         SetTop(t, f), UNCHANGED <<owner, quiet, target, callback, shutdown>>,
         f.call = g.call, f.at = g.at, f.plugin = g.plugin, f.target = g.target,
         f.callback = g.callback, f.ops = g.ops, f.failed = g.failed, f.flag = g.flag
  PROVE  TransitionInv' /\ InstalledOK'
<1>0. CountInv /\ CallsOK /\ RegistryOK /\ InstalledOK
  BY DEF HookInv, TransitionInv
<1>1. depth[t] \in Depths /\ g = frame[t][depth[t]] /\ Changed(t, depth[t], f) /\ FrameOK(f)
  BY <1>0, SetTopMoves
<1>2. CASE ~Changing(g)
  <2>1. Aside(g, f)
    BY <1>0, <1>1, <1>2 DEF Aside, Changing, CallsOK
  <2> QED  BY <2>1, AsideTop, UnwrittenQuiet
<1>3. CASE Changing(g)
  <2>1. shutdown = "no" /\ shutdown' = "no"
    BY <1>0, <1>1, <1>3 DEF Changing, CallsOK
  <2>2. Keeps({}, g)
    BY DEF Keeps, Stays, SameAt
  <2>3. ReliesOn(g) /\ InstalledFor(g)
    BY <1>0, <1>1 DEF CallsOK, InstalledOK
  <2>4. ReliesOn(f)'
    BY <2>3 DEF ReliesOn, Changing, OwnedOn, CallbacksOf, OwnedBy
  <2>5. InstalledFor(f)'
    BY <2>3 DEF InstalledFor, Untouched, Changing, Concerns, Live, OwnedOn, CallbacksOf, OwnedBy
  <2>6. Settled(f)
    BY <2>4, <2>5 DEF Settled
  <2>7. \A r \in Targets : WillChange(f, r) <=> Changes(g, r)
    BY DEF WillChange, Changes, Concerns, Live, OwnedOn, CallbacksOf, OwnedBy
  <2>8. RegistryOK'
    BY <1>0 DEF RegistryOK, Live
  <2>9. f.call # "shutdown" /\ (f.call \in HostCalls => g.call \in HostCalls /\ g.plugin = f.plugin)
    BY <1>3 DEF Changing
  <2> QED  BY <1>1, <2>1, <2>2, <2>6, <2>7, <2>8, <2>9, StepAt
<1> QED  BY <1>2, <1>3

LEMMA AwaitHeld ==
  ASSUME HookInv, CountInv', NEW t \in Threads, AwaitCallback(t)
  PROVE  TransitionInv' /\ InstalledOK'
<1>1. PICK g : g = Top(t)
  OBVIOUS
<1>2. depth[t] # 0 /\ g \in Frame
  BY <1>1, TopOK DEF AwaitCallback, HookInv
<1>3. PICK todo : SetTop(t, [g EXCEPT !.todo = todo])
  BY <1>1 DEF AwaitCallback
<1> DEFINE f == [g EXCEPT !.todo = todo]
<1>4. /\ f.call = g.call /\ f.at = g.at /\ f.plugin = g.plugin /\ f.target = g.target
      /\ f.callback = g.callback /\ f.ops = g.ops /\ f.failed = g.failed /\ f.flag = g.flag
  BY <1>2 DEF Frame
<1>5. SetTop(t, f)
  BY <1>3
<1> HIDE DEF f
<1>6. UNCHANGED <<owner, quiet, target, callback, shutdown>>
  BY DEF AwaitCallback
<1> QED  BY <1>1, <1>2, <1>4, <1>5, <1>6, WaitsOn

\* Enabling callbacks says nothing about which there are.
LEMMA EnabledQuiet ==
  ASSUME UNCHANGED <<owner, target, shutdown>>,
         \A c \in Callbacks : /\ callback'[c].state = callback[c].state
                              /\ callback'[c].owner = callback[c].owner
                              /\ callback'[c].target = callback[c].target
  PROVE  Quietly
BY DEF Quietly, Stays, SameAt

LEMMA SetEnabledHeld ==
  ASSUME HookInv, CountInv', NEW t \in Threads, NEW p \in Plugins, NEW c \in Callbacks,
         NEW on \in BOOLEAN, SetEnabled(t, p, c, on)
  PROVE  TransitionInv' /\ InstalledOK'
<1>0. callback \in [Callbacks -> Callback] /\ CountInv
  BY TypesOf DEF HookInv
<1>1. ASSUME NEW b \in Callbacks
      PROVE  /\ callback'[b].state = callback[b].state
             /\ callback'[b].owner = callback[b].owner
             /\ callback'[b].target = callback[b].target
  <2>1. callback'[b] = callback[b] \/ callback'[b] = [callback[b] EXCEPT !.enabled = on]
    BY <1>0 DEF SetEnabled
  <2>2. callback[b] \in Callback
    BY <1>0
  <2> QED  BY <2>1, <2>2 DEF Callback
<1>2. Quietly
  BY <1>1, EnabledQuiet DEF SetEnabled
<1>3. CASE UNCHANGED threads
  <2>1. frame' = frame
    BY <1>3 DEF threads
  <2> QED  BY <1>2, <2>1, AsideStep
<1>4. CASE ~UNCHANGED threads
  <2> DEFINE f == [Idle EXCEPT !.call = "set", !.at = "wait", !.todo = {c}]
  <2>1. Push(t, f)
    BY <1>4 DEF SetEnabled
  <2>2. f.call = "set"
    BY IdleFrame DEF Frame
  <2>3. shutdown = "no"
    BY DEF SetEnabled, OwnerExists
  <2> HIDE DEF f
  <2> QED  BY <1>2, <2>1, <2>2, <2>3, AsidePush
<1> QED  BY <1>3, <1>4

LEMMA SetDoneHeld ==
  ASSUME HookInv, CountInv', NEW t \in Threads, SetDone(t)
  PROVE  TransitionInv' /\ InstalledOK'
<1>1. depth[t] # 0 /\ Top(t).call = "set" /\ Refuse(t)
  BY DEF SetDone, Waited, At
<1>2. ~Changing(Top(t))
  BY <1>1 DEF Changing
<1> QED  BY <1>1, <1>2, RefuseHeld

-----------------------------------------------------------------------------
(* The host's calls, but for ReleasePlugin and Shutdown.                   *)

LEMMA AuthorizeHeld ==
  ASSUME HookInv, CountInv', NEW t \in Threads, NEW p \in Plugins, NEW active \in BOOLEAN,
         Authorize(t, p, active)
  PROVE  TransitionInv' /\ InstalledOK'
<1>1. owner \in [Plugins -> Owner]
  BY TypesOf DEF HookInv
<1>2. /\ ~InHand(p) /\ shutdown = "no" /\ frame' = frame
      /\ UNCHANGED <<target, callback, shutdown>>
      /\ \A q \in Plugins : q # p => owner'[q] = owner[q]
      /\ owner'[p].known
  BY <1>1 DEF Authorize, threads
<1> QED  BY <1>2, StandStill

LEMMA RestoreHeld ==
  ASSUME HookInv, CountInv', NEW t \in Threads, NEW p \in Plugins, Restore(t, p)
  PROVE  TransitionInv' /\ InstalledOK'
<1> DEFINE f == [Idle EXCEPT !.call = "activate", !.at = "begin", !.plugin = p]
<1>1. f.call = "activate" /\ f.plugin = p
  BY IdleFrame DEF Frame
<1>2. Push(t, f) /\ shutdown = "no" /\ ~InHand(p)
  BY DEF Restore, OwnerExists
<1> HIDE DEF f
<1>3. Quietly /\ UNCHANGED callback
  BY UnwrittenQuiet DEF Restore
<1>4. ~Changing(f)
  BY <1>1 DEF Changing
<1> QED  BY <1>1, <1>2, <1>3, <1>4, BeginsCall

LEMMA DeactivateDoneHeld ==
  ASSUME HookInv, CountInv', NEW t \in Threads, DeactivateDone(t)
  PROVE  TransitionInv' /\ InstalledOK'
<1>1. depth[t] # 0 /\ Top(t).call = "deactivate" /\ Pop(t)
  BY DEF DeactivateDone, Waited, At
<1>2. Quietly
  BY UnwrittenQuiet DEF DeactivateDone
<1>3. ~Changing(Top(t))
  BY <1>1 DEF Changing
<1> QED  BY <1>1, <1>2, <1>3, AsidePop

LEMMA ActivateHeld ==
  ASSUME HookInv, CountInv', NEW t \in Threads, Activate(t)
  PROVE  TransitionInv' /\ InstalledOK'
<1>1. PICK g : g = Top(t)
  OBVIOUS
<1> DEFINE p == g.plugin
<1>2. /\ CountInv /\ RegistryOK /\ owner \in [Plugins -> Owner]
      /\ callback \in [Callbacks -> Callback]
  BY TypesOf DEF HookInv, TransitionInv
<1>3. /\ depth[t] # 0 /\ g.call = "activate" /\ Pop(t) /\ shutdown = "no"
      /\ UNCHANGED <<target, shutdown>>
      /\ owner' = [owner EXCEPT ![p] = [owner[p] EXCEPT !.accepting = TRUE, !.active = TRUE]]
      /\ callback' = [c \in Callbacks |-> IF c \in OwnedBy(p)
                                          THEN [callback[c] EXCEPT !.enabled = TRUE]
                                          ELSE callback[c]]
  BY <1>1, <1>2 DEF Activate, At
<1>4. depth[t] \in Depths /\ g = frame[t][depth[t]] /\ Changed(t, depth[t], Idle)
  BY <1>1, <1>2, <1>3, PopMoves
<1>5. p \in Plugins
  BY <1>2, <1>3, <1>4, FrameNames DEF HostCalls
<1>6. ASSUME NEW b \in Callbacks
      PROVE  /\ callback'[b].state = callback[b].state
             /\ callback'[b].owner = callback[b].owner
             /\ callback'[b].target = callback[b].target
  <2>1. callback'[b] = callback[b] \/ callback'[b] = [callback[b] EXCEPT !.enabled = TRUE]
    BY <1>3
  <2>2. callback[b] \in Callback
    BY <1>2
  <2> QED  BY <2>1, <2>2 DEF Callback
<1>7. /\ \A q \in Plugins : q # p => owner'[q] = owner[q]
      /\ owner'[p].known = owner[p].known
  BY <1>2, <1>3, <1>5 DEF Owner
<1>8. Keeps({}, g)
  BY <1>3, <1>6, <1>7 DEF Keeps, Stays, SameAt, HostCalls
<1>9. Settled(Idle)
  BY IdleFrame DEF Settled, ReliesOn, InstalledFor, Changing
<1>10. \A r \in Targets : ~WillChange(Idle, r) /\ ~Changes(g, r)
  BY <1>3, IdleFrame DEF WillChange, Changes
<1>11. RegistryOK'
  <2>1. \A q \in Plugins : owner'[q].known = owner[q].known
    BY <1>7
  <2>2. \A r \in Targets : target[r].leases \subseteq Plugins
    BY <1>2, TargetFields DEF CountInv, TypeOK
  <2> QED  BY <1>2, <1>3, <1>6, <2>1, <2>2 DEF RegistryOK, Live, CountInv, LiveOK
<1>12. Idle.call \notin HostCalls /\ Idle.call # "shutdown"
  BY IdleFrame DEF HostCalls
<1> QED  BY <1>3, <1>4, <1>8, <1>9, <1>10, <1>11, <1>12, StepAt

LEMMA DeactivateHeld ==
  ASSUME HookInv, CountInv', NEW t \in Threads, NEW p \in Plugins, Deactivate(t, p)
  PROVE  TransitionInv' /\ InstalledOK'
<1>2. /\ CountInv /\ RegistryOK /\ owner \in [Plugins -> Owner]
      /\ callback \in [Callbacks -> Callback]
  BY TypesOf DEF HookInv, TransitionInv
<1>0. PICK todo : todo = OwnedBy(p)
  OBVIOUS
<1> DEFINE f == [Idle EXCEPT !.call = "deactivate", !.at = "wait", !.plugin = p, !.todo = todo]
<1>1. f.call = "deactivate" /\ f.plugin = p
  BY IdleFrame DEF Frame
<1>3. /\ Push(t, f) /\ shutdown = "no" /\ ~InHand(p) /\ UNCHANGED <<target, shutdown>>
      /\ owner' = [owner EXCEPT ![p] = [owner[p] EXCEPT !.accepting = FALSE, !.active = FALSE]]
      /\ callback' = Disabled(OwnedBy(p))
  BY <1>0, <1>2 DEF Deactivate, OwnerExists
<1> HIDE DEF f
<1>4. /\ depth[t] + 1 \in Depths /\ frame[t][depth[t] + 1].call = "none"
      /\ Changed(t, depth[t] + 1, f)
  BY <1>2, <1>3, PushMoves
<1>5. PICK g : g = frame[t][depth[t] + 1]
  OBVIOUS
<1>6. \A b \in Callbacks : /\ callback'[b].state = callback[b].state
                           /\ callback'[b].owner = callback[b].owner
                           /\ callback'[b].target = callback[b].target
  BY <1>2, <1>3, DisabledFacts
<1>7. /\ \A q \in Plugins : q # p => owner'[q] = owner[q]
      /\ owner'[p].known = owner[p].known /\ ~owner'[p].accepting
  BY <1>2, <1>3 DEF Owner
<1>8. Keeps({}, g)
  BY <1>3, <1>6, <1>7 DEF Keeps, Stays, SameAt
<1>9. Settled(f)
  BY <1>1 DEF Settled, ReliesOn, InstalledFor, Changing
<1>10. \A r \in Targets : ~WillChange(f, r) /\ ~Changes(g, r)
  BY <1>1, <1>4, <1>5 DEF WillChange, Changes
<1>11. RegistryOK'
  <2>1. \A q \in Plugins : owner'[q].known = owner[q].known
    BY <1>7
  <2>2. \A r \in Targets : target[r].leases \subseteq Plugins
    BY <1>2, TargetFields DEF CountInv, TypeOK
  <2> QED  BY <1>2, <1>3, <1>6, <2>1, <2>2 DEF RegistryOK, Live, CountInv, LiveOK
<1> QED  BY <1>1, <1>3, <1>4, <1>5, <1>8, <1>9, <1>10, <1>11, StepAt

-----------------------------------------------------------------------------
(* Targets and their callbacks.                                            *)

\* A frame that is in no call that changes targets.
LEMMA Passive ==
  ASSUME NEW f, f.call \notin {"add", "remove", "release"}
  PROVE  Settled(f) /\ \A r \in Targets : ~WillChange(f, r)
BY DEF Settled, ReliesOn, InstalledFor, Changing, WillChange, Changes

LEMMA PassiveIdle ==
  /\ Settled(Idle) /\ (\A r \in Targets : ~WillChange(Idle, r))
  /\ Idle.call # "shutdown" /\ Idle.call \notin HostCalls
BY IdleFrame, Passive DEF HostCalls

LEMMA PassiveCollect ==
  ASSUME NEW f, f = [Idle EXCEPT !.call = "collect", !.at = "begin"]
  PROVE  /\ Settled(f) /\ (\A r \in Targets : ~WillChange(f, r))
         /\ f.call # "shutdown" /\ f.call \notin HostCalls
<1>1. f.call = "collect"
  BY IdleFrame DEF Frame
<1> QED  BY <1>1, Passive DEF HostCalls

\* A target and its hook while the service runs.
LEMMA TargetFacts ==
  ASSUME HookInv, shutdown = "no", NEW r \in Targets
  PROVE  /\ r \in Live /\ ~target[r].transition => (target[r].enabled <=> CallbacksOf(r) # {})
         /\ target[r].state # "live" => ~target[r].enabled
         /\ r \notin Live => ~target[r].transition /\ CallbacksOf(r) = {}
         /\ r \in Live => target[r].bindings = target[r].leases
         /\ r \in Live <=> target[r].state = "live"
<1>0. /\ CountInv /\ CallsOK /\ RegistryOK /\ Ended /\ InstalledOK
  BY DEF HookInv, TransitionInv
<1>1. r \notin Live => CallbacksOf(r) = {}
  BY <1>0 DEF RegistryOK, CallbacksOf
<1>2. ASSUME target[r].transition PROVE r \in Live
  <2>1. PICK u \in Threads, e \in Depths : Changes(frame[u][e], r)
    BY <1>0, <1>2 DEF Ended
  <2>2. PICK h : h = frame[u][e]
    OBVIOUS
  <2>3. ReliesOn(h) /\ Changes(h, r)
    BY <1>0, <2>1, <2>2 DEF CallsOK
  <2>4. CASE h.call = "release"
    BY <2>3, <2>4 DEF Changes, Concerns
  <2>5. CASE h.call # "release"
    <3>1. h.target = r /\ Changing(h)
      BY <2>3, <2>5 DEF Changes, Changing
    <3>2. CallbacksOf(r) # {}
      BY <2>3, <2>5, <3>1 DEF ReliesOn, OwnedOn
    <3> QED  BY <1>1, <3>2
  <2> QED  BY <2>4, <2>5
<1> QED  BY <1>0, <1>1, <1>2 DEF RegistryOK, InstalledOK, InstalledIffUsed, Live

\* A plugin leases a target.
LEMMA LeaseTaken ==
  ASSUME HookInv, CountInv', NEW t \in Threads, depth[t] # 0, Pop(t), ~Changing(Top(t)),
         NEW p \in Plugins, OwnerReady(p), NEW r \in Targets, ~target[r].transition,
         \A q \in Targets : q # r => target'[q] = target[q],
         target'[r].state = "live", ~target'[r].transition,
         target'[r].enabled = target[r].enabled, target'[r].leases = target'[r].bindings,
         \A x \in target'[r].leases : x = p \/ (r \in Live /\ x \in target[r].leases),
         UNCHANGED <<owner, callback, shutdown>>
  PROVE  TransitionInv' /\ InstalledOK'
<1>0. CountInv /\ RegistryOK /\ shutdown = "no" /\ shutdown' = "no" /\ owner[p].known
      /\ owner[p].accepting
  BY DEF HookInv, TransitionInv, OwnerReady, OwnerExists
<1>1. PICK g : g = Top(t)
  OBVIOUS
<1>2. depth[t] \in Depths /\ g = frame[t][depth[t]] /\ Changed(t, depth[t], Idle)
  BY <1>0, <1>1, PopMoves
<1>3. /\ r \in Live /\ ~target[r].transition => (target[r].enabled <=> CallbacksOf(r) # {})
      /\ target[r].state # "live" => ~target[r].enabled
      /\ r \notin Live => ~target[r].transition /\ CallbacksOf(r) = {}
      /\ r \in Live <=> target[r].state = "live"
  BY <1>0, TargetFacts
<1>4. ASSUME NEW q \in Plugins PROVE Concerns(r, q)' => Concerns(r, q) \/ owner[q].accepting
  <2>1. CASE q = p
    BY <1>0, <2>1
  <2>2. CASE q # p /\ r \in Live
    BY <2>2 DEF Concerns, OwnedOn, CallbacksOf, OwnedBy, Live
  <2>3. CASE q # p /\ r \notin Live
    <3>1. \A c \in Callbacks : ~(callback[c].state = "live" /\ callback[c].target = r)
      BY <1>3, <2>3 DEF CallbacksOf
    <3> QED  BY <2>3, <3>1 DEF Concerns, OwnedOn, CallbacksOf, OwnedBy
  <2> QED  BY <2>1, <2>2, <2>3
<1>5. Keeps({r}, g)
  BY <1>4 DEF Keeps, Stays, SameAt
<1>6. CallbacksOf(r)' = CallbacksOf(r)
  BY DEF CallbacksOf
<1>7. InPlace(r)
  BY <1>3, <1>6 DEF InPlace
<1>8. RegistryOK'
  BY <1>0 DEF RegistryOK, Live
<1>9. \A q \in Targets : ~Changes(g, q)
  BY <1>1 DEF Changes, Changing
<1> QED  BY <1>0, <1>2, <1>5, <1>7, <1>8, <1>9, PassiveIdle, StepAt

LEMMA ResolveHeld ==
  ASSUME HookInv, CountInv', NEW t \in Threads, Resolve(t)
  PROVE  TransitionInv' /\ InstalledOK'
<1>0. CountInv /\ target \in [Targets -> Target]
  BY TypesOf DEF HookInv
<1>1. PICK g : g = Top(t)
  OBVIOUS
<1>8. PICK p : p = g.plugin
  OBVIOUS
<1>2. /\ depth[t] # 0 /\ g.call = "resolve" /\ g.at = "begin" /\ FrameOK(g) /\ Pop(t)
      /\ UNCHANGED <<owner, callback, shutdown>>
  BY <1>0, <1>1, TopOK DEF Resolve, At
<1>3. p \in Plugins /\ ~Changing(g)
  BY <1>2, <1>8 DEF FrameOK, Changing
<1>4. CASE UNCHANGED target
  BY <1>1, <1>2, <1>3, <1>4, UnwrittenQuiet, AsidePop
<1>5. ASSUME OwnerReady(p), NEW r \in Live, ~target[r].transition,
             target' = [target EXCEPT ![r].leases = @ \cup {p}, ![r].bindings = @ \cup {p}]
      PROVE  TransitionInv' /\ InstalledOK'
  <2>1. r \in Targets /\ target[r] \in Target /\ target[r].bindings = target[r].leases
        /\ target[r].state = "live"
    BY <1>0, <1>5, TargetFacts DEF Live, OwnerReady, OwnerExists
  <2>5. PICK y \in Target : y = target[r]
    BY <2>1
  <2> DEFINE x == [y EXCEPT !.leases = y.leases \cup {p}, !.bindings = y.bindings \cup {p}]
  <2>2. target' = [target EXCEPT ![r] = x]
    BY <1>0, <1>5, <2>1, <2>5
  <2>6. /\ x.state = y.state /\ x.transition = y.transition /\ x.enabled = y.enabled
        /\ x.leases = y.leases \cup {p} /\ x.bindings = y.bindings \cup {p}
    BY DEF Target
  <2> HIDE DEF x
  <2>3. target'[r] = x /\ \A q \in Targets : q # r => target'[q] = target[q]
    BY <1>0, <2>1, <2>2
  <2>4. /\ target'[r].state = "live" /\ ~target'[r].transition
        /\ target'[r].enabled = target[r].enabled
        /\ target'[r].leases = target[r].leases \cup {p}
        /\ target'[r].bindings = target[r].bindings \cup {p}
    BY <1>5, <2>1, <2>3, <2>5, <2>6
  <2>7. /\ target'[r].leases = target'[r].bindings
        /\ \A z \in target'[r].leases : z = p \/ (r \in Live /\ z \in target[r].leases)
    BY <1>1, <1>5, <2>1, <2>4 DEF RegistryOK
  <2>8. OwnerReady(p) /\ ~target[r].transition
    BY <1>5, <2>1
  <2> QED  BY <1>1, <1>2, <1>3, <2>1, <2>3, <2>4, <2>7, <2>8, LeaseTaken
<1>6. ASSUME OwnerReady(p), NEW r \in Targets, target[r].state = "free", NEW f \in Functions,
             target' = [target EXCEPT ![r].state = "live", ![r].fn = f,
                                      ![r].leases = {p}, ![r].bindings = {p}]
      PROVE  TransitionInv' /\ InstalledOK'
  <2>1. target[r] \in Target /\ r \notin Live /\ ~target[r].transition
    BY <1>0, <1>6, TargetFacts DEF Live, OwnerReady, OwnerExists
  <2>5. PICK y \in Target : y = target[r]
    BY <2>1
  <2> DEFINE x == [y EXCEPT !.state = "live", !.fn = f, !.leases = {p}, !.bindings = {p}]
  <2>2. target' = [target EXCEPT ![r] = x]
    BY <1>0, <1>6, <2>1, <2>5
  <2>6. /\ x.state = "live" /\ x.transition = y.transition /\ x.enabled = y.enabled
        /\ x.leases = {p} /\ x.bindings = {p}
    BY DEF Target
  <2> HIDE DEF x
  <2>3. target'[r] = x /\ \A q \in Targets : q # r => target'[q] = target[q]
    BY <1>0, <2>1, <2>2
  <2>4. /\ target'[r].state = "live" /\ ~target'[r].transition
        /\ target'[r].enabled = target[r].enabled
        /\ target'[r].leases = {p} /\ target'[r].bindings = {p}
    BY <1>6, <2>1, <2>3, <2>5, <2>6
  <2>7. /\ target'[r].leases = target'[r].bindings
        /\ \A z \in target'[r].leases : z = p \/ (r \in Live /\ z \in target[r].leases)
    BY <2>4
  <2>8. OwnerReady(p) /\ ~target[r].transition
    BY <1>6, <2>1
  <2> QED  BY <1>1, <1>2, <1>3, <2>1, <2>3, <2>4, <2>7, <2>8, LeaseTaken
<1>7. CASE OwnerReady(p)
  <2>1. PICK f \in Functions :
          LET old == {r \in Live : target[r].fn = f}
              new == {r \in Targets : /\ target[r].state = "free"
                                      /\ \A s \in 1..(r - 1) : target[s].state # "free"}
          IN \/ \E r \in old : /\ target[r].transition
                               /\ UNCHANGED target
             \/ \E r \in old : /\ ~target[r].transition
                               /\ target' = [target EXCEPT ![r].leases = @ \cup {p},
                                                           ![r].bindings = @ \cup {p}]
             \/ \E r \in new : /\ old = {}
                               /\ target' = [target EXCEPT ![r].state = "live", ![r].fn = f,
                                               ![r].leases = {p}, ![r].bindings = {p}]
    BY <1>1, <1>7, <1>8, Zenon DEF Resolve
  <2>2. CASE UNCHANGED target
    BY <1>4, <2>2
  <2>3. CASE \E r \in Live :
               /\ ~target[r].transition
               /\ target' = [target EXCEPT ![r].leases = @ \cup {p}, ![r].bindings = @ \cup {p}]
    BY <1>5, <1>7, <2>3, Zenon
  <2>4. CASE \E r \in Targets :
               /\ target[r].state = "free"
               /\ target' = [target EXCEPT ![r].state = "live", ![r].fn = f,
                                           ![r].leases = {p}, ![r].bindings = {p}]
    BY <1>6, <1>7, <2>4, Zenon
  <2> QED  BY <2>1, <2>2, <2>3, <2>4, Zenon
<1>9. CASE ~OwnerReady(p)
  BY <1>1, <1>4, <1>8, <1>9 DEF Resolve
<1> QED  BY <1>7, <1>9

\* A call leaves the targets in H, and targets without leases and callbacks are
\* retired.
Leaves(g, H, tg) ==
  /\ tg \in [Targets -> Target] /\ target' = Pruned(tg, Used(callback'))
  /\ \A r \in Targets : Changes(g, r) => r \in H
  /\ \A r \in Targets : r \notin H => tg[r] = target[r]
  /\ \A r \in H : /\ target[r].transition => Changes(g, r)
                  /\ target[r].state = "live" /\ tg[r].state = "live" /\ ~tg[r].transition
                  /\ tg[r].leases \subseteq target[r].leases /\ tg[r].bindings = tg[r].leases
                  /\ tg[r].enabled <=> CallbacksOf(r)' # {}
  /\ Stays
  /\ \A c \in Callbacks :
       /\ callback'[c].state = "live" => /\ callback[c].state = "live"
                                         /\ callback'[c].owner = callback[c].owner
       /\ callback[c].state = "live" => callback'[c].state = "live" \/ callback[c].target \in H

\* What the registry knows is not more, and no less but for the host's own plugin.
Knows(g, tg) ==
  /\ \A q \in Plugins : \/ g.call \in HostCalls /\ g.plugin = q
                        \/ owner'[q] = owner[q]
  /\ \A c \in Callbacks : callback'[c].state = "live" => owner'[callback'[c].owner].known
  /\ \A r \in Targets : target[r].state = "live" => \A p \in tg[r].leases : owner'[p].known

LEMMA PrunedHeld ==
  ASSUME HookInv, CountInv', NEW t \in Threads, NEW d \in Depths, NEW g, g = frame[t][d],
         NEW f, Changed(t, d, f), f.call \in {"none", "collect"}, shutdown = "no",
         shutdown' = "no", NEW H \in SUBSET Targets, NEW tg, Leaves(g, H, tg), Knows(g, tg)
  PROVE  TransitionInv' /\ InstalledOK'
<1>0. CountInv /\ RegistryOK
  BY DEF HookInv, TransitionInv
<1> DEFINE S == H \cup {r \in Targets : target'[r].state # target[r].state}
<1>1. ASSUME NEW r \in Targets
      PROVE  /\ target'[r].state =
                  IF tg[r].state = "live" /\ ~tg[r].transition /\ tg[r].leases = {}
                     /\ r \notin Used(callback')
                  THEN "retired" ELSE tg[r].state
             /\ target'[r].leases = tg[r].leases /\ target'[r].bindings = tg[r].bindings
             /\ target'[r].transition = tg[r].transition /\ target'[r].enabled = tg[r].enabled
  BY PrunedFacts DEF Leaves
<1>2. \A r \in Targets : r \in Used(callback') <=> CallbacksOf(r)' # {}
  BY DEF Used, CallbacksOf
<1>3. \A c \in Callbacks : callback'[c].state = "live" =>
        /\ callback[c].state = "live" /\ callback'[c].target = callback[c].target
        /\ callback'[c].owner = callback[c].owner
  BY DEF Leaves, Stays
<1>4. ASSUME NEW r \in Targets, r \notin H
      PROVE  /\ CallbacksOf(r)' = CallbacksOf(r) /\ tg[r] = target[r]
             /\ \A c \in Callbacks :
                  callback[c].state = "live" /\ callback[c].target = r =>
                    callback'[c].state = "live" /\ callback'[c].target = r
  <2>1. ASSUME NEW c \in Callbacks, callback[c].state = "live", callback[c].target = r
        PROVE  callback'[c].state = "live" /\ callback'[c].target = r
    BY <1>3, <1>4, <2>1 DEF Leaves
  <2> QED  BY <1>3, <1>4, <2>1 DEF CallbacksOf, Leaves
<1>5. ASSUME NEW r \in Targets, r \notin H, target'[r].state # target[r].state
      PROVE  /\ target[r].state = "live" /\ target'[r].state = "retired" /\ ~target[r].transition
             /\ ~target'[r].transition /\ ~target'[r].enabled
  <2>1. /\ target[r].state = "live" /\ target'[r].state = "retired" /\ ~target[r].transition
        /\ CallbacksOf(r) = {}
    BY <1>1, <1>2, <1>4, <1>5
  <2>2. ~target[r].enabled
    BY <2>1, TargetFacts
  <2> QED  BY <1>1, <1>4, <1>5, <2>1, <2>2
<1>6. ASSUME NEW r \in Targets, r \notin S PROVE SameAt(r)
  BY <1>1, <1>3, <1>4, <1>6 DEF SameAt
<1>7. ASSUME NEW r \in S
      PROVE  /\ r \in Targets /\ target[r].state = "live" /\ ~target'[r].transition /\ InPlace(r)
             /\ target'[r].leases \subseteq target[r].leases
             /\ target[r].transition => Changes(g, r)
  <2>1. CASE r \in H
    <3>1. /\ r \in Targets /\ target[r].state = "live" /\ ~tg[r].transition
          /\ tg[r].leases \subseteq target[r].leases /\ (target[r].transition => Changes(g, r))
          /\ tg[r].state = "live" /\ (tg[r].enabled <=> CallbacksOf(r)' # {})
      BY <2>1 DEF Leaves
    <3> QED  BY <1>1, <1>2, <3>1 DEF InPlace
  <2>2. CASE r \notin H
    BY <1>1, <1>4, <1>5, <1>7, <2>2 DEF InPlace
  <2> QED  BY <2>1, <2>2
<1>8. ASSUME NEW r \in S, NEW q \in Plugins, Concerns(r, q)' PROVE Concerns(r, q)
  BY <1>3, <1>7, <1>8 DEF Concerns, OwnedOn, CallbacksOf, OwnedBy, Live
<1>9. Keeps(S, g)
  <2>1. \A q \in Plugins :
          \/ g.call \in HostCalls /\ g.plugin = q
          \/ (owner[q].known => owner'[q].known) /\ (owner'[q].accepting => owner[q].accepting)
    BY DEF Knows
  <2>2. Stays
    BY DEF Leaves
  <2> HIDE DEF S
  <2> QED  BY <1>6, <1>7, <1>8, <2>1, <2>2 DEF Keeps
<1>10. /\ Settled(f) /\ (\A r \in Targets : ~WillChange(f, r))
       /\ f.call # "shutdown" /\ f.call \notin HostCalls
  BY Passive DEF HostCalls
<1>11. \A r \in Targets : r \notin S => ~Changes(g, r)
  BY DEF Leaves
<1>12. RegistryOK'
  <2>1. ASSUME NEW c \in Callbacks, callback'[c].state = "live"
        PROVE  owner'[callback'[c].owner].known /\ callback'[c].target \in Live'
    <3>1. PICK r : r = callback'[c].target
      OBVIOUS
    <3>2. r \in Targets /\ target[r].state = "live" /\ r \in Used(callback')
      BY <1>0, <1>3, <2>1, <3>1 DEF RegistryOK, Live, Used
    <3>3. tg[r].state = "live"
      BY <1>4, <3>2 DEF Leaves
    <3>4. target'[r].state = "live"
      BY <1>1, <3>2, <3>3
    <3> QED  BY <2>1, <3>1, <3>2, <3>4 DEF Live, Knows
  <2>2. ASSUME NEW r \in Targets, target'[r].state = "live"
        PROVE  /\ target'[r].bindings = target'[r].leases
               /\ \A p \in target'[r].leases : owner'[p].known
    <3>1. target[r].state = "live"
      BY <1>1, <1>4, <2>2 DEF Leaves
    <3>2. tg[r].bindings = tg[r].leases
      BY <1>0, <1>4, <3>1 DEF Leaves, RegistryOK, Live
    <3> QED  BY <1>1, <3>1, <3>2 DEF Knows
  <2> QED  BY <2>1, <2>2 DEF RegistryOK, Live
<1> HIDE DEF S
<1>13. S \in SUBSET Targets
  BY <1>7
<1> QED  BY <1>7, <1>9, <1>10, <1>11, <1>12, <1>13, StepAt

\* One flag of one target.
WithTransition(r, b) == [target EXCEPT ![r].transition = b]

LEMMA WithTransitionFacts ==
  ASSUME target \in [Targets -> Target], NEW r \in Targets, NEW b \in BOOLEAN
  PROVE  /\ WithTransition(r, b) \in [Targets -> Target]
         /\ \A q \in Targets : q # r => WithTransition(r, b)[q] = target[q]
         /\ WithTransition(r, b)[r].state = target[r].state
         /\ WithTransition(r, b)[r].fn = target[r].fn
         /\ WithTransition(r, b)[r].leases = target[r].leases
         /\ WithTransition(r, b)[r].bindings = target[r].bindings
         /\ WithTransition(r, b)[r].transition <=> b
         /\ WithTransition(r, b)[r].enabled = target[r].enabled
         /\ WithTransition(r, b)[r].storage = target[r].storage
         /\ WithTransition(r, b)[r].active = target[r].active
         /\ WithTransition(r, b)[r].direct = target[r].direct
<1>1. PICK y \in Target : y = target[r]
  OBVIOUS
<1> DEFINE x == [y EXCEPT !.transition = b]
<1>2. WithTransition(r, b) = [target EXCEPT ![r] = x]
  BY <1>1 DEF WithTransition
<1>3. x \in Target
  BY DEF Target
<1>4. /\ x.state = y.state /\ x.fn = y.fn /\ x.leases = y.leases
      /\ x.bindings = y.bindings
      /\ x.transition <=> b
      /\ x.enabled = y.enabled /\ x.storage = y.storage /\ x.active = y.active
      /\ x.direct = y.direct
  BY DEF Target
<1> HIDE DEF x
<1>5. /\ WithTransition(r, b) \in [Targets -> Target] /\ WithTransition(r, b)[r] = x
      /\ \A q \in Targets : q # r => WithTransition(r, b)[q] = target[q]
  BY <1>2, <1>3
<1> QED  BY <1>1, <1>4, <1>5

\* The two changes it makes.
LEMMA TransitionBegins ==
  ASSUME target \in [Targets -> Target], NEW r \in Targets
  PROVE  /\ WithTransition(r, TRUE) \in [Targets -> Target]
         /\ \A q \in Targets : q # r => WithTransition(r, TRUE)[q] = target[q]
         /\ WithTransition(r, TRUE)[r].state = target[r].state
         /\ WithTransition(r, TRUE)[r].fn = target[r].fn
         /\ WithTransition(r, TRUE)[r].leases = target[r].leases
         /\ WithTransition(r, TRUE)[r].bindings = target[r].bindings
         /\ WithTransition(r, TRUE)[r].transition
         /\ WithTransition(r, TRUE)[r].enabled = target[r].enabled
         /\ WithTransition(r, TRUE)[r].storage = target[r].storage
         /\ WithTransition(r, TRUE)[r].active = target[r].active
         /\ WithTransition(r, TRUE)[r].direct = target[r].direct
BY WithTransitionFacts, Zenon

LEMMA TransitionEnds ==
  ASSUME target \in [Targets -> Target], NEW r \in Targets
  PROVE  /\ WithTransition(r, FALSE) \in [Targets -> Target]
         /\ \A q \in Targets : q # r => WithTransition(r, FALSE)[q] = target[q]
         /\ WithTransition(r, FALSE)[r].state = target[r].state
         /\ WithTransition(r, FALSE)[r].fn = target[r].fn
         /\ WithTransition(r, FALSE)[r].leases = target[r].leases
         /\ WithTransition(r, FALSE)[r].bindings = target[r].bindings
         /\ ~WithTransition(r, FALSE)[r].transition
         /\ WithTransition(r, FALSE)[r].enabled = target[r].enabled
         /\ WithTransition(r, FALSE)[r].storage = target[r].storage
         /\ WithTransition(r, FALSE)[r].active = target[r].active
         /\ WithTransition(r, FALSE)[r].direct = target[r].direct
BY WithTransitionFacts, Zenon

LEMMA RestoredFacts ==
  ASSUME target \in [Targets -> Target], NEW r \in Targets
  PROVE  /\ Restored(r) \in [Targets -> Target]
         /\ \A q \in Targets : q # r => Restored(r)[q] = target[q]
         /\ Restored(r)[r].state = target[r].state /\ Restored(r)[r].fn = target[r].fn
         /\ Restored(r)[r].leases = target[r].leases
         /\ Restored(r)[r].bindings = target[r].bindings
         /\ Restored(r)[r].transition = target[r].transition
         /\ Restored(r)[r].enabled <=> FALSE
         /\ Restored(r)[r].storage = target[r].storage
         /\ Restored(r)[r].active = target[r].active
         /\ Restored(r)[r].direct = target[r].direct
<1>1. PICK y \in Target : y = target[r]
  OBVIOUS
<1> DEFINE x == [y EXCEPT !.enabled = FALSE]
<1>2. Restored(r) = [target EXCEPT ![r] = x]
  BY <1>1 DEF Restored
<1>3. x \in Target
  BY DEF Target
<1>4. /\ x.state = y.state /\ x.fn = y.fn /\ x.leases = y.leases
      /\ x.bindings = y.bindings /\ x.transition = y.transition
      /\ x.enabled <=> FALSE
      /\ x.storage = y.storage /\ x.active = y.active /\ x.direct = y.direct
  BY DEF Target
<1> HIDE DEF x
<1>5. /\ Restored(r) \in [Targets -> Target] /\ Restored(r)[r] = x
      /\ \A q \in Targets : q # r => Restored(r)[q] = target[q]
  BY <1>2, <1>3
<1> QED  BY <1>1, <1>4, <1>5

LEMMA EnabledFacts ==
  ASSUME target \in [Targets -> Target], NEW r \in Targets
  PROVE  /\ Enabled(r) \in [Targets -> Target]
         /\ \A q \in Targets : q # r => Enabled(r)[q] = target[q]
         /\ Enabled(r)[r].state = target[r].state /\ Enabled(r)[r].fn = target[r].fn
         /\ Enabled(r)[r].leases = target[r].leases
         /\ Enabled(r)[r].bindings = target[r].bindings
         /\ Enabled(r)[r].transition = target[r].transition
         /\ Enabled(r)[r].enabled <=> TRUE
         /\ Enabled(r)[r].storage <=> TRUE
         /\ Enabled(r)[r].active = target[r].active
         /\ Enabled(r)[r].direct = target[r].direct
<1>1. PICK y \in Target : y = target[r]
  OBVIOUS
<1> DEFINE x == [y EXCEPT !.enabled = TRUE, !.storage = TRUE]
<1>2. Enabled(r) = [target EXCEPT ![r] = x]
  BY <1>1 DEF Enabled
<1>3. x \in Target
  BY DEF Target
<1>4. /\ x.state = y.state /\ x.fn = y.fn /\ x.leases = y.leases
      /\ x.bindings = y.bindings /\ x.transition = y.transition
      /\ x.enabled <=> TRUE
      /\ x.storage <=> TRUE
      /\ x.active = y.active /\ x.direct = y.direct
  BY DEF Target
<1> HIDE DEF x
<1>5. /\ Enabled(r) \in [Targets -> Target] /\ Enabled(r)[r] = x
      /\ \A q \in Targets : q # r => Enabled(r)[q] = target[q]
  BY <1>2, <1>3
<1> QED  BY <1>1, <1>4, <1>5

LEMMA NotEnabledFacts ==
  ASSUME target \in [Targets -> Target], NEW r \in Targets
  PROVE  /\ NotEnabled(r) \in [Targets -> Target]
         /\ \A q \in Targets : q # r => NotEnabled(r)[q] = target[q]
         /\ NotEnabled(r)[r].state = target[r].state
         /\ NotEnabled(r)[r].fn = target[r].fn
         /\ NotEnabled(r)[r].leases = target[r].leases
         /\ NotEnabled(r)[r].bindings = target[r].bindings
         /\ NotEnabled(r)[r].transition = target[r].transition
         /\ NotEnabled(r)[r].enabled = target[r].enabled
         /\ NotEnabled(r)[r].storage <=> FALSE
         /\ NotEnabled(r)[r].active = target[r].active
         /\ NotEnabled(r)[r].direct = target[r].direct
<1>1. PICK y \in Target : y = target[r]
  OBVIOUS
<1> DEFINE x == [y EXCEPT !.storage = FALSE]
<1>2. NotEnabled(r) = [target EXCEPT ![r] = x]
  BY <1>1 DEF NotEnabled
<1>3. x \in Target
  BY DEF Target
<1>4. /\ x.state = y.state /\ x.fn = y.fn /\ x.leases = y.leases
      /\ x.bindings = y.bindings /\ x.transition = y.transition
      /\ x.enabled = y.enabled
      /\ x.storage <=> FALSE
      /\ x.active = y.active /\ x.direct = y.direct
  BY DEF Target
<1> HIDE DEF x
<1>5. /\ NotEnabled(r) \in [Targets -> Target] /\ NotEnabled(r)[r] = x
      /\ \A q \in Targets : q # r => NotEnabled(r)[q] = target[q]
  BY <1>2, <1>3
<1> QED  BY <1>1, <1>4, <1>5

LEMMA ReleaseTargetHeld ==
  ASSUME HookInv, CountInv', NEW t \in Threads, ReleaseTarget(t)
  PROVE  TransitionInv' /\ InstalledOK'
<1>0. CountInv /\ RegistryOK /\ target \in [Targets -> Target]
  BY TypesOf DEF HookInv, TransitionInv
<1>1. PICK g : g = Top(t)
  OBVIOUS
<1>2. PICK p, r : p = g.plugin /\ r = g.target
  OBVIOUS
<1>3. depth[t] # 0 /\ g.call = "release_target" /\ g.at = "begin" /\ FrameOK(g)
  BY <1>0, <1>1, TopOK DEF ReleaseTarget, At
<1>4. p \in Plugins /\ r \in Targets /\ ~Changing(g)
  BY <1>2, <1>3 DEF FrameOK, PluginCallOK, Changing
<1>5. CASE Refuse(t)
  BY <1>1, <1>3, <1>4, <1>5, RefuseHeld
<1>6. CASE ~Refuse(t)
  <2>1. PICK tg : tg = [target EXCEPT ![r].leases = @ \ {p}, ![r].bindings = @ \ {p}]
    OBVIOUS
  <2>2. /\ target' = Pruned(tg, Used(callback')) /\ CollectLast(t)
        /\ OwnerExists(p) /\ r \in Live /\ ~target[r].transition
        /\ UNCHANGED <<owner, callback, shutdown>>
    BY <1>1, <1>2, <1>6, <2>1 DEF ReleaseTarget, Steady
  <2>3. PICK y \in Target : y = target[r]
    BY <1>0, <1>4
  <2> DEFINE x == [y EXCEPT !.leases = y.leases \ {p}, !.bindings = y.bindings \ {p}]
  <2>4. tg = [target EXCEPT ![r] = x]
    BY <1>0, <1>4, <2>1, <2>3
  <2>5. /\ x \in Target /\ x.state = y.state /\ x.transition = y.transition
        /\ x.enabled = y.enabled /\ x.leases = y.leases \ {p} /\ x.bindings = y.bindings \ {p}
    BY DEF Target
  <2> HIDE DEF x
  <2>6. tg \in [Targets -> Target] /\ tg[r] = x /\ \A q \in Targets : q # r => tg[q] = target[q]
    BY <1>0, <1>4, <2>4, <2>5
  <2>7. /\ tg[r].state = target[r].state /\ tg[r].transition = target[r].transition
        /\ tg[r].enabled = target[r].enabled /\ tg[r].leases = target[r].leases \ {p}
        /\ tg[r].bindings = target[r].bindings \ {p}
    BY <2>3, <2>5, <2>6
  <2>8. shutdown = "no" /\ shutdown' = "no" /\ CallbacksOf(r)' = CallbacksOf(r)
    BY <2>2 DEF OwnerExists, CallbacksOf
  <2>9. /\ target[r].state = "live" /\ target[r].bindings = target[r].leases
        /\ target[r].enabled <=> CallbacksOf(r) # {}
    BY <1>4, <2>2, <2>8, TargetFacts
  <2>10. \A q \in Targets : ~Changes(g, q)
    BY <1>4 DEF Changes, Changing
  <2>11. Leaves(g, {r}, tg)
    BY <1>4, <2>2, <2>6, <2>7, <2>8, <2>9, <2>10 DEF Leaves, Stays
  <2>12. \A q \in Targets : tg[q].leases \subseteq target[q].leases
    BY <2>6, <2>7
  <2>13. Knows(g, tg)
    BY <1>0, <2>2, <2>12 DEF Knows, RegistryOK, Live
  <2>14. PICK f : f = [Idle EXCEPT !.call = "collect", !.at = "begin"]
    OBVIOUS
  <2>15. f.call = "collect" /\ SetTop(t, f)
    BY <2>2, <2>14, IdleFrame DEF CollectLast, Frame
  <2>16. depth[t] \in Depths /\ g = frame[t][depth[t]] /\ Changed(t, depth[t], f)
    BY <1>0, <1>1, <1>3, <2>15, SetTopMoves
  <2> QED  BY <1>4, <2>8, <2>11, <2>13, <2>15, <2>16, PrunedHeld
<1> QED  BY <1>5, <1>6

\* A callback is added to a target.
Adds(c, p, r) ==
  /\ callback[c].state = "free"
  /\ callback'[c].state = "live" /\ callback'[c].owner = p /\ callback'[c].target = r
  /\ \A b \in Callbacks : b # c => callback'[b] = callback[b]

LEMMA AddsFacts ==
  ASSUME HookInv, NEW c \in Callbacks, NEW p \in Plugins, NEW r \in Targets, Adds(c, p, r),
         r \in Live, OwnerReady(p), ~target[r].transition,
         \A q \in Targets : q # r => target'[q] = target[q],
         target'[r].state = "live", target'[r].leases = target[r].leases,
         target'[r].bindings = target[r].bindings, UNCHANGED <<owner, shutdown>>, NEW g
  PROVE  /\ Keeps({r}, g) /\ RegistryOK'
         /\ CallbacksOf(r)' = CallbacksOf(r) \cup {c}
         /\ (c \in OwnedOn(p, r))'
         /\ shutdown = "no" /\ shutdown' = "no"
<1>0. CountInv /\ RegistryOK /\ owner[p].known /\ owner[p].accepting /\ shutdown = "no"
  BY DEF HookInv, TransitionInv, OwnerReady, OwnerExists
<1>1. CallbacksOf(r)' = CallbacksOf(r) \cup {c}
  BY DEF Adds, CallbacksOf
<1>2. (c \in OwnedOn(p, r))'
  BY DEF Adds, OwnedOn, OwnedBy, CallbacksOf
<1>3. Stays
  BY DEF Adds, Stays
<1>4. \A q \in Targets : q # r => SameAt(q)
  BY DEF Adds, SameAt
<1>5. ASSUME NEW q \in Plugins PROVE Concerns(r, q)' => Concerns(r, q) \/ owner[q].accepting
  <2>1. CASE q = p
    BY <1>0, <2>1
  <2>2. CASE q # p
    <3>1. OwnedOn(q, r)' = OwnedOn(q, r)
      BY <2>2 DEF Adds, OwnedOn, OwnedBy, CallbacksOf
    <3> QED  BY <3>1 DEF Concerns
  <2> QED  BY <2>1, <2>2
<1>6. Keeps({r}, g)
  BY <1>3, <1>4, <1>5 DEF Keeps
<1>7. RegistryOK'
  <2>1. ASSUME NEW b \in Callbacks, callback'[b].state = "live"
        PROVE  owner[callback'[b].owner].known /\ callback'[b].target \in Live'
    <3>1. CASE b = c
      BY <1>0, <3>1 DEF Adds, Live
    <3>2. CASE b # c
      BY <1>0, <2>1, <3>2 DEF Adds, Live, RegistryOK
    <3> QED  BY <3>1, <3>2
  <2> QED  BY <1>0, <2>1 DEF RegistryOK, Live
<1> QED  BY <1>0, <1>1, <1>2, <1>6, <1>7

LEMMA AddHeld ==
  ASSUME HookInv, CountInv', NEW t \in Threads, Add(t)
  PROVE  TransitionInv' /\ InstalledOK'
<1>0. /\ CountInv /\ CallsOK /\ target \in [Targets -> Target]
      /\ callback \in [Callbacks -> Callback]
  BY TypesOf DEF HookInv, TransitionInv
<1>1. PICK g : g = Top(t)
  OBVIOUS
<1>2. PICK p, r : p = g.plugin /\ r = g.target
  OBVIOUS
<1>3. /\ depth[t] # 0 /\ g.call = "add" /\ g.at = "begin" /\ FrameOK(g) /\ g \in Frame
      /\ depth[t] \in Depths /\ g = frame[t][depth[t]]
  BY <1>0, <1>1, TopOK, TopFrame DEF Add, At, CountInv
<1>4. p \in Plugins /\ r \in Targets /\ ~Changing(g)
  BY <1>2, <1>3 DEF FrameOK, PluginCallOK, Changing
<1>5. CASE Refuse(t)
  BY <1>1, <1>3, <1>4, <1>5, RefuseHeld
<1>6. CASE ~Refuse(t)
  <2>1. PICK c \in Callbacks, pre \in BOOLEAN :
          /\ OwnerReady(p) /\ r \in Live /\ ~target[r].transition
          /\ callback[c].state = "free"
          /\ callback' = [callback EXCEPT ![c] =
               [state |-> "live", owner |-> p, target |-> r,
                enabled |-> owner[p].active, active |-> 0, pre |-> pre]]
          /\ IF CallbacksOf(r) = {}
             THEN /\ target' = [target EXCEPT ![r].transition = TRUE]
                  /\ SetTop(t, [g EXCEPT !.at = "install", !.callback = c])
             ELSE UNCHANGED target /\ Pop(t)
          /\ UNCHANGED <<owner, shutdown>>
    BY <1>1, <1>2, <1>6 DEF Add, Steady
  <2>2. Adds(c, p, r)
    BY <1>0, <2>1 DEF Adds
  <2>5. /\ \A q \in Targets : q # r => target'[q] = target[q]
        /\ target'[r].state = "live" /\ target'[r].leases = target[r].leases
        /\ target'[r].bindings = target[r].bindings
        /\ target'[r].enabled = target[r].enabled
        /\ target'[r].transition <=> CallbacksOf(r) = {}
    <3>1. CASE CallbacksOf(r) = {}
      <4>1. target' = WithTransition(r, TRUE)
        BY <2>1, <3>1 DEF WithTransition
      <4> QED  BY <1>0, <1>4, <2>1, <3>1, <4>1, TransitionBegins DEF Live
    <3>2. CASE CallbacksOf(r) # {}
      <4>1. target' = target
        BY <2>1, <3>2
      <4> QED  BY <1>4, <2>1, <3>2, <4>1 DEF Live
    <3> QED  BY <3>1, <3>2
  <2>6. /\ Keeps({r}, g) /\ RegistryOK' /\ CallbacksOf(r)' = CallbacksOf(r) \cup {c}
        /\ (c \in OwnedOn(p, r))' /\ shutdown = "no" /\ shutdown' = "no"
    BY <1>4, <2>1, <2>2, <2>5, AddsFacts
  <2>7. target[r].enabled <=> CallbacksOf(r) # {}
    BY <1>4, <2>1, <2>6, TargetFacts
  <2>8. \A q \in Targets : ~Changes(g, q)
    BY <1>4 DEF Changes, Changing
  <2>9. CASE CallbacksOf(r) = {}
    <3> DEFINE f == [g EXCEPT !.at = "install", !.callback = c]
    <3>1. SetTop(t, f)
      BY <2>1, <2>9
    <3>2. /\ f.call = "add" /\ f.at = "install" /\ f.callback = c /\ f.plugin = p
          /\ f.target = r
      BY <1>2, <1>3 DEF Frame
    <3> HIDE DEF f
    <3>3. Changed(t, depth[t], f)
      BY <1>0, <1>3, <3>1, SetTopMoves
    <3>4. ReliesOn(f)'
      BY <2>6, <3>2 DEF ReliesOn, Changing
    <3>5. InstalledFor(f)'
      BY <2>5, <2>6, <2>7, <2>9, <3>2 DEF InstalledFor, Changing
    <3>6. Settled(f)
      BY <3>4, <3>5 DEF Settled
    <3>7. \A q \in Targets : WillChange(f, q) <=> q = r
      BY <3>2 DEF WillChange, Changes
    <3>8. InPlace(r)
      BY <2>5, <2>9 DEF InPlace
    <3>9. f.call # "shutdown" /\ f.call \notin HostCalls /\ {r} \in SUBSET Targets
      BY <1>4, <3>2 DEF HostCalls
    <3> QED  BY <1>3, <2>5, <2>6, <2>8, <2>9, <3>3, <3>6, <3>7, <3>8, <3>9, StepAt
  <2>10. CASE CallbacksOf(r) # {}
    <3>1. Changed(t, depth[t], Idle)
      BY <1>0, <1>3, <2>1, <2>10, PopMoves
    <3>2. InPlace(r)
      BY <2>5, <2>6, <2>7, <2>10 DEF InPlace
    <3>3. {r} \in SUBSET Targets
      BY <1>4
    <3> QED  BY <1>3, <2>5, <2>6, <2>8, <2>10, <3>1, <3>2, <3>3, PassiveIdle, StepAt
  <2> QED  BY <2>9, <2>10
<1> QED  BY <1>5, <1>6

\* The callbacks are registered as they were; of target r only the flags change.
FlagsOnly(r) ==
  /\ \A q \in Targets : q # r => target'[q] = target[q]
  /\ target'[r].state = target[r].state /\ target'[r].leases = target[r].leases
  /\ target'[r].bindings = target[r].bindings
  /\ \A c \in Callbacks : /\ callback'[c].state = callback[c].state
                          /\ callback'[c].owner = callback[c].owner
                          /\ callback'[c].target = callback[c].target
  /\ owner' = owner /\ shutdown' = shutdown

LEMMA DisabledKeeps ==
  ASSUME callback \in [Callbacks -> Callback], NEW S
  PROVE  \A c \in Callbacks : /\ Disabled(S)[c].state = callback[c].state
                               /\ Disabled(S)[c].owner = callback[c].owner
                               /\ Disabled(S)[c].target = callback[c].target
BY DisabledFacts, Zenon

LEMMA FlagsFacts ==
  ASSUME NEW r \in Targets, FlagsOnly(r)
  PROVE  /\ \A q \in Targets : CallbacksOf(q)' = CallbacksOf(q)
         /\ \A q \in Targets, p \in Plugins :
              /\ OwnedOn(p, q)' = OwnedOn(p, q) /\ (Concerns(q, p)' <=> Concerns(q, p))
              /\ (CallbacksOf(q) \ OwnedBy(p))' = CallbacksOf(q) \ OwnedBy(p)
         /\ \A p \in Plugins : OwnedBy(p)' = OwnedBy(p)
<1>1. \A q \in Targets : target'[q].state = target[q].state /\ target'[q].leases = target[q].leases
  BY DEF FlagsOnly
<1>2. \A q \in Targets : CallbacksOf(q)' = CallbacksOf(q)
  BY DEF FlagsOnly, CallbacksOf
<1>3. \A p \in Plugins : OwnedBy(p)' = OwnedBy(p)
  BY DEF FlagsOnly, OwnedBy
<1>4. \A q \in Targets, p \in Plugins :
              /\ OwnedOn(p, q)' = OwnedOn(p, q) /\ (Concerns(q, p)' <=> Concerns(q, p))
              /\ (CallbacksOf(q) \ OwnedBy(p))' = CallbacksOf(q) \ OwnedBy(p)
  BY <1>1, <1>2, <1>3 DEF OwnedOn, Concerns, Live
<1> QED  BY <1>2, <1>3, <1>4

\* A call goes on, ends or is at an end with one target.
LEMMA FlagsHeld ==
  ASSUME HookInv, CountInv', NEW t \in Threads, NEW d \in Depths, NEW g, g = frame[t][d],
         NEW f, Changed(t, d, f), NEW r \in Targets, FlagsOnly(r), shutdown = "no",
         f.call # "shutdown",
         f.call \in HostCalls => g.call \in HostCalls /\ g.plugin = f.plugin, Settled(f),
         target[r].transition => Changes(g, r),
         \A q \in Targets : q # r => (WillChange(f, q) <=> Changes(g, q)),
         WillChange(f, r) <=> target'[r].transition, InPlace(r)
  PROVE  TransitionInv' /\ InstalledOK'
<1>0. CountInv /\ RegistryOK /\ shutdown' = "no"
  BY DEF HookInv, TransitionInv, FlagsOnly
<1>1. Stays
  BY DEF FlagsOnly, Stays
<1>2. \A q \in Targets : q # r => SameAt(q)
  BY DEF FlagsOnly, SameAt
<1>3. Keeps({r}, g)
  <2>1. \A q \in Plugins : Concerns(r, q)' => Concerns(r, q)
    BY FlagsFacts
  <2>2. owner' = owner
    BY DEF FlagsOnly
  <2> QED  BY <1>1, <1>2, <2>1, <2>2 DEF Keeps
<1>4. RegistryOK'
  <2>1. \A q \in Targets : /\ target'[q].state = target[q].state
                           /\ target'[q].leases = target[q].leases
                           /\ target'[q].bindings = target[q].bindings
    BY DEF FlagsOnly
  <2> QED  BY <1>0, <2>1 DEF RegistryOK, Live, FlagsOnly
<1>5. {r} \in SUBSET Targets
  OBVIOUS
<1> QED  BY <1>0, <1>3, <1>4, <1>5, StepAt

\* An AddCallback that has put its target in transition.
LEMMA AddTop ==
  ASSUME HookInv, NEW t \in Threads, NEW at \in {"install", "finish"}, At(t, "add", at),
         NEW g, g = Top(t)
  PROVE  /\ depth[t] # 0 /\ g \in Frame /\ FrameOK(g) /\ depth[t] \in Depths
         /\ g = frame[t][depth[t]] /\ g.call = "add" /\ g.at = at
         /\ g.plugin \in Plugins /\ g.target \in Targets /\ g.callback \in Callbacks
         /\ shutdown = "no" /\ g.target \in Live /\ g.callback \in OwnedOn(g.plugin, g.target)
         /\ CallbacksOf(g.target) = {g.callback}
         /\ target[g.target].enabled <=> at = "finish" /\ ~g.flag
         /\ \A q \in Targets : Changes(g, q) <=> q = g.target
<1>0. CountInv /\ CallsOK /\ RegistryOK /\ InstalledOK
  BY DEF HookInv, TransitionInv
<1>1. /\ depth[t] # 0 /\ g \in Frame /\ FrameOK(g) /\ depth[t] \in Depths
      /\ g = frame[t][depth[t]] /\ g.call = "add" /\ g.at = at
  BY <1>0, TopOK, TopFrame DEF At, CountInv
<1>2. Changing(g) /\ g.plugin \in Plugins /\ g.target \in Targets /\ g.callback \in Callbacks
  BY <1>0, <1>1, FrameNames DEF Changing
<1>3. ReliesOn(g) /\ InstalledFor(g) /\ shutdown = "no"
  BY <1>0, <1>1 DEF CallsOK, InstalledOK
<1>4. g.callback \in OwnedOn(g.plugin, g.target)
  BY <1>1, <1>2, <1>3 DEF ReliesOn
<1>5. g.target \in Live
  BY <1>0, <1>4 DEF RegistryOK, OwnedOn, CallbacksOf
<1>6. /\ CallbacksOf(g.target) = {g.callback}
      /\ target[g.target].enabled <=> at = "finish" /\ ~g.flag
  BY <1>1, <1>3 DEF InstalledFor
<1>7. \A q \in Targets : Changes(g, q) <=> q = g.target
  BY <1>1 DEF Changes
<1> QED  BY <1>1, <1>2, <1>3, <1>4, <1>5, <1>6, <1>7

LEMMA InstallHeld ==
  ASSUME HookInv, CountInv', NEW t \in Threads, Install(t)
  PROVE  TransitionInv' /\ InstalledOK'
<1>0. /\ CountInv /\ target \in [Targets -> Target] /\ callback \in [Callbacks -> Callback]
      /\ Marked
  BY TypesOf DEF HookInv, TransitionInv
<1>1. PICK g : g = Top(t)
  OBVIOUS
<1>2. PICK p, r, c : p = g.plugin /\ r = g.target /\ c = g.callback
  OBVIOUS
<1>3. /\ depth[t] # 0 /\ g \in Frame /\ depth[t] \in Depths /\ FrameOK(g)
      /\ g = frame[t][depth[t]] /\ g.call = "add" /\ g.at = "install"
      /\ p \in Plugins /\ r \in Targets /\ c \in Callbacks
      /\ shutdown = "no" /\ r \in Live /\ c \in OwnedOn(p, r)
      /\ CallbacksOf(r) = {c} /\ ~target[r].enabled
      /\ \A q \in Targets : Changes(g, q) <=> q = r
  BY <1>1, <1>2, AddTop DEF Install
<1>4. target[r].transition /\ ~g.flag
  BY <1>0, <1>3 DEF Marked, FrameOK, PluginCallOK
<1>5. PICK b \in BOOLEAN :
        /\ b => /\ target' = Enabled(r) /\ SetTop(t, [g EXCEPT !.at = "finish"])
                /\ UNCHANGED callback
        /\ ~b => /\ target' = NotEnabled(r)
                 /\ SetTop(t, [g EXCEPT !.at = "finish", !.flag = TRUE])
                 /\ callback' = Disabled({c})
        /\ UNCHANGED <<owner, shutdown>>
  <2>1. \/ /\ target' = Enabled(r) /\ SetTop(t, [g EXCEPT !.at = "finish"])
           /\ UNCHANGED callback
        \/ /\ target' = NotEnabled(r)
           /\ SetTop(t, [g EXCEPT !.at = "finish", !.flag = TRUE])
           /\ callback' = Disabled({c})
    BY <1>1, <1>2 DEF Install, Goto
  <2> QED  BY <2>1 DEF Install
<1>6. /\ \A q \in Targets : q # r => target'[q] = target[q]
      /\ target'[r].state = target[r].state /\ target'[r].leases = target[r].leases
      /\ target'[r].bindings = target[r].bindings /\ target'[r].transition
      /\ target'[r].enabled <=> b
  <2>1. CASE b
    BY <1>0, <1>3, <1>4, <1>5, <2>1, EnabledFacts
  <2>2. CASE ~b
    BY <1>0, <1>3, <1>4, <1>5, <2>2, NotEnabledFacts
  <2> QED  BY <2>1, <2>2
<1>7. \A a \in Callbacks : /\ callback'[a].state = callback[a].state
                           /\ callback'[a].owner = callback[a].owner
                           /\ callback'[a].target = callback[a].target
  BY <1>0, <1>5, DisabledFacts
<1>8. FlagsOnly(r)
  BY <1>5, <1>6, <1>7 DEF FlagsOnly
<1>9. PICK f : f = IF b THEN [g EXCEPT !.at = "finish"] ELSE [g EXCEPT !.at = "finish", !.flag = TRUE]
  OBVIOUS
<1>10. /\ f.call = "add" /\ f.at = "finish" /\ f.plugin = p /\ f.target = r /\ f.callback = c
       /\ f.flag <=> ~b
  <2>1. CASE b
    BY <1>2, <1>3, <1>4, <1>9, <2>1 DEF Frame
  <2>2. CASE ~b
    BY <1>2, <1>3, <1>9, <2>2 DEF Frame
  <2> QED  BY <2>1, <2>2
<1>11. Changed(t, depth[t], f)
  <2>1. SetTop(t, f)
    BY <1>5, <1>9
  <2> QED  BY <1>0, <1>3, <2>1, SetTopMoves
<1>12. CallbacksOf(r)' = {c} /\ (c \in OwnedOn(p, r))'
  BY <1>3, <1>8, FlagsFacts
<1>13. Settled(f)
  <2>1. ReliesOn(f)'
    BY <1>10, <1>12 DEF ReliesOn, Changing
  <2>2. InstalledFor(f)'
    BY <1>6, <1>10, <1>12 DEF InstalledFor
  <2> QED  BY <2>1, <2>2 DEF Settled
<1>14. \A q \in Targets : WillChange(f, q) <=> q = r
  BY <1>10 DEF WillChange, Changes
<1>15. InPlace(r) /\ f.call # "shutdown" /\ f.call \notin HostCalls
  BY <1>3, <1>6, <1>10 DEF InPlace, HostCalls, Live
<1> QED  BY <1>3, <1>6, <1>8, <1>11, <1>13, <1>14, <1>15, FlagsHeld

\* Callbacks in E leave callbacks_.
LEMMA ErasedStays ==
  ASSUME CountInv, NEW E, callback' = Erased(E)
  PROVE  /\ Stays
         /\ \A c \in Callbacks : /\ c \notin E => callback'[c] = callback[c]
                                 /\ c \in E => callback'[c].state = "erased"
                                 /\ callback'[c].state = "live" => callback[c].state = "live"
         /\ \A r \in Targets : CallbacksOf(r)' = CallbacksOf(r) \ E
         /\ \A p \in Plugins : OwnedBy(p)' = OwnedBy(p) \ E
<1>1. \A c \in Callbacks : /\ c \notin E => callback'[c] = callback[c]
                           /\ c \in E => callback'[c].state = "erased"
  BY TypesOf, ErasedFacts
<1>2. Stays
  BY <1>1 DEF Stays
<1>3. \A r \in Targets : CallbacksOf(r)' = CallbacksOf(r) \ E
  BY <1>1 DEF CallbacksOf
<1>4. \A p \in Plugins : OwnedBy(p)' = OwnedBy(p) \ E
  BY <1>1 DEF OwnedBy
<1>5. \A c \in Callbacks : callback'[c].state = "live" => callback[c].state = "live"
  BY <1>1
<1> QED  BY <1>1, <1>2, <1>3, <1>4, <1>5

LEMMA AddDoneHeld ==
  ASSUME HookInv, CountInv', NEW t \in Threads, AddDone(t)
  PROVE  TransitionInv' /\ InstalledOK'
<1>0. CountInv /\ target \in [Targets -> Target] /\ RegistryOK
  BY TypesOf DEF HookInv, TransitionInv
<1>1. PICK g : g = Top(t)
  OBVIOUS
<1>2. PICK p, r, c : p = g.plugin /\ r = g.target /\ c = g.callback
  OBVIOUS
<1>3. /\ depth[t] # 0 /\ depth[t] \in Depths
      /\ g = frame[t][depth[t]] /\ g.call = "add"
      /\ p \in Plugins /\ r \in Targets /\ c \in Callbacks
      /\ shutdown = "no" /\ r \in Live
      /\ CallbacksOf(r) = {c} /\ (target[r].enabled <=> ~g.flag)
      /\ \A q \in Targets : Changes(g, q) <=> q = r
  BY <1>1, <1>2, AddTop DEF AddDone
<1>4. /\ target' = WithTransition(r, FALSE) /\ Pop(t)
      /\ callback' = IF g.flag THEN Erased({c}) ELSE callback
      /\ owner' = owner /\ shutdown' = shutdown
  BY <1>1, <1>2 DEF AddDone, WithTransition
<1>5. /\ \A q \in Targets : q # r => target'[q] = target[q]
      /\ target'[r].state = target[r].state /\ target'[r].leases = target[r].leases
      /\ target'[r].bindings = target[r].bindings /\ ~target'[r].transition
      /\ target'[r].enabled = target[r].enabled
  BY <1>0, <1>3, <1>4, TransitionEnds
<1>6. Changed(t, depth[t], Idle)
  BY <1>0, <1>3, <1>4, PopMoves
<1>7. CASE ~g.flag
  <2>1. FlagsOnly(r)
    BY <1>4, <1>5, <1>7 DEF FlagsOnly
  <2>2. InPlace(r)
    <3>1. CallbacksOf(r)' = {c}
      BY <1>3, <2>1, FlagsFacts
    <3> QED  BY <1>3, <1>5, <1>7, <3>1 DEF InPlace, Live
  <2> QED  BY <1>3, <1>5, <1>6, <2>1, <2>2, PassiveIdle, FlagsHeld
<1>8. CASE g.flag
  <2> DEFINE E == {c}
  <2>0. callback' = Erased(E)
    BY <1>4, <1>8
  <2>1. c \in E /\ \A b \in Callbacks : b \in E => b = c
    OBVIOUS
  <2> HIDE DEF E
  <2>2. /\ Stays /\ CallbacksOf(r)' = CallbacksOf(r) \ E
        /\ \A b \in Callbacks : /\ b # c => callback'[b] = callback[b]
                                /\ b = c => callback'[b].state = "erased"
                                /\ callback'[b].state = "live" => callback[b].state = "live"
    BY <1>0, <1>3, <2>0, <2>1, ErasedStays
  <2>3. callback[c].state = "live" /\ callback[c].target = r
    BY <1>3 DEF CallbacksOf
  <2>4. CallbacksOf(r)' = {}
    BY <1>3, <2>1, <2>2
  <2>5. \A q \in Targets : q # r => SameAt(q)
    BY <1>5, <2>2, <2>3 DEF SameAt
  <2>6. Keeps({r}, g)
    <3>1. \A q \in Plugins : Concerns(r, q)' => Concerns(r, q)
      BY <1>5, <2>2, <2>4 DEF Concerns, OwnedOn, Live
    <3> QED  BY <1>3, <1>4, <2>2, <2>5, <3>1 DEF Keeps
  <2>7. RegistryOK'
    <3>1. \A q \in Targets : /\ target'[q].state = target[q].state
                             /\ target'[q].leases = target[q].leases
                             /\ target'[q].bindings = target[q].bindings
      BY <1>5
    <3>2. owner' = owner /\ shutdown' = shutdown /\ shutdown = "no"
      BY <1>3, <1>4
    <3>3. ASSUME NEW b \in Callbacks, callback'[b].state = "live"
          PROVE  /\ owner[callback'[b].owner].known
                 /\ callback'[b].target \in Targets /\ target[callback'[b].target].state = "live"
      <4>1. callback'[b] = callback[b] /\ callback[b].state = "live"
        BY <2>2, <3>3
      <4> QED  BY <1>0, <4>1 DEF RegistryOK, Live
    <3> QED  BY <1>0, <3>1, <3>2, <3>3 DEF RegistryOK, Live
  <2>8. InPlace(r) /\ {r} \in SUBSET Targets
    BY <1>3, <1>5, <1>8, <2>4 DEF InPlace, Live
  <2> QED  BY <1>3, <1>4, <1>5, <1>6, <2>6, <2>7, <2>8, PassiveIdle, StepAt
<1> QED  BY <1>7, <1>8

LEMMA RemoveHeld ==
  ASSUME HookInv, CountInv', NEW t \in Threads, Remove(t)
  PROVE  TransitionInv' /\ InstalledOK'
<1>0. /\ CountInv /\ CallsOK /\ target \in [Targets -> Target]
      /\ callback \in [Callbacks -> Callback]
  BY TypesOf DEF HookInv, TransitionInv
<1>1. PICK g : g = Top(t)
  OBVIOUS
<1>2. PICK p, r, c : p = g.plugin /\ r = g.target /\ c = g.callback
  OBVIOUS
<1>3. /\ depth[t] # 0 /\ g.call = "remove" /\ g.at = "begin" /\ FrameOK(g) /\ g \in Frame
      /\ depth[t] \in Depths /\ g = frame[t][depth[t]]
  BY <1>0, <1>1, TopOK, TopFrame DEF Remove, At, CountInv
<1>4. p \in Plugins /\ r \in Targets /\ c \in Callbacks /\ ~Changing(g)
  BY <1>2, <1>3 DEF FrameOK, PluginCallOK, Changing
<1>5. CASE Refuse(t)
  BY <1>1, <1>3, <1>4, <1>5, RefuseHeld
<1>6. CASE ~Refuse(t)
  <2>1. PICK at, todo, flag :
          /\ at = IF CallbacksOf(r) = {c} THEN "restore" ELSE "wait"
          /\ SetTop(t, [g EXCEPT !.at = at, !.todo = todo, !.flag = flag])
    BY <1>1, <1>2, <1>6 DEF Remove
  <2>2. /\ OwnerExists(p) /\ c \in OwnedBy(p) /\ ~target[r].transition
        /\ callback' = Disabled({c}) /\ target' = WithTransition(r, TRUE)
        /\ UNCHANGED <<owner, shutdown>>
    BY <1>1, <1>2, <1>6 DEF Remove, Steady, WithTransition
  <2> DEFINE f == [g EXCEPT !.at = at, !.todo = todo, !.flag = flag]
  <2>3. /\ f.call = "remove" /\ f.at = at /\ f.plugin = p /\ f.target = r /\ f.callback = c
        /\ SetTop(t, f)
    BY <1>2, <1>3, <2>1 DEF Frame
  <2> HIDE DEF f
  <2>4. Changed(t, depth[t], f)
    BY <1>0, <1>3, <2>3, SetTopMoves
  <2>5. c \in OwnedOn(p, r) /\ shutdown = "no"
    <3>1. ReliesOn(g)
      BY <1>0, <1>3 DEF CallsOK
    <3>2. callback[c].state = "live" /\ callback[c].target = r
      BY <1>2, <1>3, <2>2, <3>1 DEF ReliesOn, OwnedBy
    <3> QED  BY <1>4, <2>2, <3>2 DEF OwnedOn, CallbacksOf, OwnerExists
  <2>6. /\ \A q \in Targets : q # r => target'[q] = target[q]
        /\ target'[r].state = target[r].state /\ target'[r].leases = target[r].leases
        /\ target'[r].bindings = target[r].bindings /\ target'[r].transition
        /\ target'[r].enabled = target[r].enabled
    BY <1>0, <1>4, <2>2, TransitionBegins
  <2>7. FlagsOnly(r)
    <3>1. \A b \in Callbacks : /\ callback'[b].state = callback[b].state
                                /\ callback'[b].owner = callback[b].owner
                                /\ callback'[b].target = callback[b].target
      BY <1>0, <2>2, TypesOf, DisabledKeeps
    <3> QED  BY <2>2, <2>6, <3>1 DEF FlagsOnly
  <2>8. (c \in OwnedOn(p, r))' /\ CallbacksOf(r)' = CallbacksOf(r)
    BY <1>4, <2>5, <2>7, FlagsFacts
  <2>9. r \in Live /\ target[r].enabled /\ c \in CallbacksOf(r)
    BY <1>4, <2>2, <2>5, TargetFacts DEF OwnedOn
  <2>10. Settled(f)
    <3>1. ReliesOn(f)'
      BY <2>3, <2>8 DEF ReliesOn, OwnedOn, CallbacksOf
    <3>2. InstalledFor(f)'
      BY <2>1, <2>3, <2>6, <2>8, <2>9 DEF InstalledFor, Changing
    <3> QED  BY <3>1, <3>2 DEF Settled
  <2>11. \A q \in Targets : (WillChange(f, q) <=> q = r) /\ ~Changes(g, q)
    BY <1>4, <2>1, <2>3 DEF WillChange, Changes, Changing
  <2>12. InPlace(r) /\ f.call # "shutdown" /\ f.call \notin HostCalls
    BY <2>3, <2>6, <2>9 DEF InPlace, Live, HostCalls
  <2> QED  BY <1>3, <1>4, <2>2, <2>4, <2>5, <2>6, <2>7, <2>10, <2>11, <2>12, FlagsHeld
<1> QED  BY <1>5, <1>6

\* A RemoveCallback that has put its target in transition.
LEMMA RemoveTop ==
  ASSUME HookInv, NEW t \in Threads, NEW at \in {"restore", "wait"}, At(t, "remove", at),
         NEW g, g = Top(t)
  PROVE  /\ depth[t] # 0 /\ g \in Frame /\ FrameOK(g) /\ depth[t] \in Depths
         /\ g = frame[t][depth[t]] /\ g.call = "remove" /\ g.at = at
         /\ g.plugin \in Plugins /\ g.target \in Targets /\ g.callback \in Callbacks
         /\ shutdown = "no" /\ g.target \in Live /\ g.callback \in OwnedOn(g.plugin, g.target)
         /\ at = "restore" => CallbacksOf(g.target) = {g.callback} /\ target[g.target].enabled
         /\ at = "wait" => (target[g.target].enabled <=> CallbacksOf(g.target) # {g.callback})
         /\ \A q \in Targets : Changes(g, q) <=> q = g.target
<1>0. CountInv /\ CallsOK /\ RegistryOK /\ InstalledOK
  BY DEF HookInv, TransitionInv
<1>1. /\ depth[t] # 0 /\ g \in Frame /\ FrameOK(g) /\ depth[t] \in Depths
      /\ g = frame[t][depth[t]] /\ g.call = "remove" /\ g.at = at
  BY <1>0, TopOK, TopFrame DEF At, CountInv
<1>2. Changing(g) /\ g.plugin \in Plugins /\ g.target \in Targets /\ g.callback \in Callbacks
  BY <1>0, <1>1, FrameNames DEF Changing
<1>3. ReliesOn(g) /\ InstalledFor(g) /\ shutdown = "no"
  BY <1>0, <1>1 DEF CallsOK, InstalledOK
<1>4. g.callback \in OwnedOn(g.plugin, g.target)
  BY <1>1, <1>2, <1>3 DEF ReliesOn
<1>5. g.target \in Live
  BY <1>0, <1>4 DEF RegistryOK, OwnedOn, CallbacksOf
<1>6. /\ at = "restore" => CallbacksOf(g.target) = {g.callback} /\ target[g.target].enabled
      /\ at = "wait" => (target[g.target].enabled <=> CallbacksOf(g.target) # {g.callback})
  BY <1>1, <1>3 DEF InstalledFor
<1>7. \A q \in Targets : Changes(g, q) <=> q = g.target
  BY <1>1 DEF Changes
<1> QED  BY <1>1, <1>2, <1>3, <1>4, <1>5, <1>6, <1>7

LEMMA RestoreForRemoveHeld ==
  ASSUME HookInv, CountInv', NEW t \in Threads, RestoreForRemove(t)
  PROVE  TransitionInv' /\ InstalledOK'
<1>0. /\ CountInv /\ target \in [Targets -> Target] /\ callback \in [Callbacks -> Callback]
      /\ Marked
  BY TypesOf DEF HookInv, TransitionInv
<1>1. PICK g : g = Top(t)
  OBVIOUS
<1>2. PICK p, r, c : p = g.plugin /\ r = g.target /\ c = g.callback
  OBVIOUS
<1>3. /\ depth[t] # 0 /\ g \in Frame /\ depth[t] \in Depths
      /\ g = frame[t][depth[t]] /\ g.call = "remove" /\ g.at = "restore"
      /\ p \in Plugins /\ r \in Targets /\ c \in Callbacks
      /\ shutdown = "no" /\ r \in Live /\ c \in OwnedOn(p, r)
      /\ CallbacksOf(r) = {c} /\ target[r].enabled
      /\ \A q \in Targets : Changes(g, q) <=> q = r
  BY <1>1, <1>2, RemoveTop DEF RestoreForRemove
<1>4. target[r].transition
  BY <1>0, <1>3 DEF Marked
<1>5. CASE target' = Restored(r) /\ Goto(t, "wait") /\ UNCHANGED <<callback, owner, shutdown>>
  <2> DEFINE f == [g EXCEPT !.at = "wait"]
  <2>1. f.call = "remove" /\ f.at = "wait" /\ f.plugin = p /\ f.target = r /\ f.callback = c
    BY <1>2, <1>3 DEF Frame
  <2>2. SetTop(t, f)
    BY <1>1, <1>5 DEF Goto
  <2> HIDE DEF f
  <2>3. Changed(t, depth[t], f)
    BY <1>0, <1>3, <2>2, SetTopMoves
  <2>4. /\ \A q \in Targets : q # r => target'[q] = target[q]
        /\ target'[r].state = target[r].state /\ target'[r].leases = target[r].leases
        /\ target'[r].bindings = target[r].bindings /\ target'[r].transition
        /\ ~target'[r].enabled
    BY <1>0, <1>3, <1>4, <1>5, RestoredFacts
  <2>5. FlagsOnly(r)
    BY <1>5, <2>4 DEF FlagsOnly
  <2>6. CallbacksOf(r)' = {c} /\ (c \in OwnedOn(p, r))'
    BY <1>3, <2>5, FlagsFacts
  <2>7. Settled(f)
    <3>1. ReliesOn(f)'
      BY <2>1, <2>6 DEF ReliesOn, OwnedOn, CallbacksOf
    <3>2. InstalledFor(f)'
      BY <2>1, <2>4, <2>6 DEF InstalledFor
    <3> QED  BY <3>1, <3>2 DEF Settled
  <2>8. \A q \in Targets : WillChange(f, q) <=> q = r
    BY <2>1 DEF WillChange, Changes
  <2>9. InPlace(r) /\ f.call # "shutdown" /\ f.call \notin HostCalls
    BY <1>3, <2>1, <2>4 DEF InPlace, HostCalls, Live
  <2> QED  BY <1>3, <2>3, <2>4, <2>5, <2>7, <2>8, <2>9, FlagsHeld
<1>6. CASE /\ target' = WithTransition(r, FALSE)
           /\ callback' = [callback EXCEPT ![c].enabled = g.flag]
           /\ Pop(t) /\ UNCHANGED <<owner, shutdown>>
  <2>1. Changed(t, depth[t], Idle)
    BY <1>0, <1>3, <1>6, PopMoves
  <2>2. /\ \A q \in Targets : q # r => target'[q] = target[q]
        /\ target'[r].state = target[r].state /\ target'[r].leases = target[r].leases
        /\ target'[r].bindings = target[r].bindings /\ ~target'[r].transition
        /\ target'[r].enabled
    BY <1>0, <1>3, <1>6, TransitionEnds
  <2>3. ASSUME NEW b \in Callbacks
        PROVE  /\ callback'[b].state = callback[b].state
               /\ callback'[b].owner = callback[b].owner
               /\ callback'[b].target = callback[b].target
    <3>1. callback'[b] = callback[b] \/ callback'[b] = [callback[b] EXCEPT !.enabled = g.flag]
      BY <1>0, <1>6
    <3>2. callback[b] \in Callback
      BY <1>0
    <3> QED  BY <3>1, <3>2 DEF Callback
  <2>4. FlagsOnly(r)
    BY <1>6, <2>2, <2>3 DEF FlagsOnly
  <2>5. CallbacksOf(r)' = {c}
    BY <1>3, <2>4, FlagsFacts
  <2>6. InPlace(r)
    BY <2>2, <2>5, <1>3 DEF InPlace, Live
  <2> QED  BY <1>3, <2>1, <2>2, <2>4, <2>6, PassiveIdle, FlagsHeld
<1> QED  BY <1>1, <1>2, <1>5, <1>6 DEF RestoreForRemove, WithTransition

LEMMA RemoveDoneHeld ==
  ASSUME HookInv, CountInv', NEW t \in Threads, RemoveDone(t)
  PROVE  TransitionInv' /\ InstalledOK'
<1>0. CountInv /\ target \in [Targets -> Target] /\ RegistryOK
  BY TypesOf DEF HookInv, TransitionInv
<1>1. PICK g : g = Top(t)
  OBVIOUS
<1>2. PICK p, r, c, tg : /\ p = g.plugin /\ r = g.target /\ c = g.callback
                         /\ tg = WithTransition(r, FALSE)
  OBVIOUS
<1>3. /\ depth[t] # 0 /\ depth[t] \in Depths /\ g = frame[t][depth[t]]
      /\ p \in Plugins /\ r \in Targets /\ c \in Callbacks
      /\ shutdown = "no" /\ r \in Live /\ c \in OwnedOn(p, r)
      /\ target[r].enabled <=> CallbacksOf(r) # {c}
      /\ \A q \in Targets : Changes(g, q) <=> q = r
  BY <1>1, <1>2, RemoveTop DEF RemoveDone, Waited
<1>4. /\ target' = Pruned(tg, Used(callback')) /\ CollectLast(t) /\ callback' = Erased({c})
      /\ owner' = owner /\ shutdown' = shutdown
  BY <1>1, <1>2 DEF RemoveDone, WithTransition
<1>5. /\ tg \in [Targets -> Target] /\ \A q \in Targets : q # r => tg[q] = target[q]
      /\ tg[r].state = target[r].state /\ tg[r].leases = target[r].leases
      /\ tg[r].bindings = target[r].bindings /\ ~tg[r].transition
      /\ tg[r].enabled = target[r].enabled
  BY <1>0, <1>2, <1>3, TransitionEnds
<1>6. /\ Stays /\ CallbacksOf(r)' = CallbacksOf(r) \ {c}
      /\ \A b \in Callbacks : /\ b \notin {c} => callback'[b] = callback[b]
                              /\ b \in {c} => callback'[b].state = "erased"
                              /\ callback'[b].state = "live" => callback[b].state = "live"
  BY <1>0, <1>3, <1>4, ErasedStays
<1>7. /\ target[r].state = "live" /\ target[r].bindings = target[r].leases
      /\ callback[c].target = r /\ c \in CallbacksOf(r)
  BY <1>3, TargetFacts DEF OwnedOn, CallbacksOf
<1>8. tg[r].enabled <=> CallbacksOf(r)' # {}
  BY <1>3, <1>5, <1>6, <1>7
<1>9. \A b \in Callbacks :
        /\ callback'[b].state = "live" => /\ callback[b].state = "live"
                                          /\ callback'[b].owner = callback[b].owner
        /\ callback[b].state = "live" => callback'[b].state = "live" \/ callback[b].target \in {r}
  BY <1>6, <1>7
<1>10. Leaves(g, {r}, tg)
  <2>1. target' = Pruned(tg, Used(callback')) /\ Stays
    BY <1>4, <1>6
  <2>2. ASSUME NEW q \in {r}
        PROVE  /\ target[q].transition => Changes(g, q)
               /\ target[q].state = "live" /\ tg[q].state = "live" /\ ~tg[q].transition
               /\ tg[q].leases \subseteq target[q].leases /\ tg[q].bindings = tg[q].leases
               /\ tg[q].enabled <=> CallbacksOf(q)' # {}
    <3>1. q = r
      OBVIOUS
    <3> QED  BY <1>3, <1>5, <1>7, <1>8, <3>1
  <2>3. (\A q \in Targets : Changes(g, q) => q \in {r}) /\ tg \in [Targets -> Target]
    BY <1>3, <1>5
  <2>4. \A q \in Targets : q \notin {r} => tg[q] = target[q]
    BY <1>5
  <2> QED  BY <1>9, <2>1, <2>2, <2>3, <2>4 DEF Leaves
<1>11. Knows(g, tg)
  <2>1. \A q \in Targets : tg[q].leases = target[q].leases
    BY <1>5
  <2> QED  BY <1>0, <1>4, <1>9, <2>1 DEF Knows, RegistryOK, Live
<1>12. PICK f : f = [Idle EXCEPT !.call = "collect", !.at = "begin"]
  OBVIOUS
<1>13. f.call = "collect" /\ SetTop(t, f)
  BY <1>4, <1>12, IdleFrame DEF CollectLast, Frame
<1>14. Changed(t, depth[t], f) /\ {r} \in SUBSET Targets
  BY <1>0, <1>3, <1>13, SetTopMoves
<1> QED  BY <1>3, <1>4, <1>10, <1>11, <1>13, <1>14, PrunedHeld

-----------------------------------------------------------------------------
(* ReleasePlugin.                                                          *)

\* Callbacks and targets are registered as they were.
SameRegistry ==
  /\ \A q \in Targets : /\ target'[q].state = target[q].state
                        /\ target'[q].leases = target[q].leases
                        /\ target'[q].bindings = target[q].bindings
  /\ \A c \in Callbacks : /\ callback'[c].state = callback[c].state
                          /\ callback'[c].owner = callback[c].owner
                          /\ callback'[c].target = callback[c].target

LEMMA RegistryFacts ==
  ASSUME SameRegistry
  PROVE  /\ \A q \in Targets : CallbacksOf(q)' = CallbacksOf(q)
         /\ \A q \in Targets, p \in Plugins :
              /\ OwnedOn(p, q)' = OwnedOn(p, q) /\ (Concerns(q, p)' <=> Concerns(q, p))
              /\ (CallbacksOf(q) \ OwnedBy(p))' = CallbacksOf(q) \ OwnedBy(p)
         /\ Stays
<1>1. \A q \in Targets : target'[q].state = target[q].state /\ target'[q].leases = target[q].leases
  BY DEF SameRegistry
<1>2. \A q \in Targets : CallbacksOf(q)' = CallbacksOf(q)
  BY DEF SameRegistry, CallbacksOf
<1>3. \A p \in Plugins : OwnedBy(p)' = OwnedBy(p)
  BY DEF SameRegistry, OwnedBy
<1>4. \A q \in Targets, p \in Plugins :
              /\ OwnedOn(p, q)' = OwnedOn(p, q) /\ (Concerns(q, p)' <=> Concerns(q, p))
              /\ (CallbacksOf(q) \ OwnedBy(p))' = CallbacksOf(q) \ OwnedBy(p)
  BY <1>1, <1>2, <1>3 DEF OwnedOn, Concerns, Live
<1>5. Stays
  BY DEF SameRegistry, Stays
<1> QED  BY <1>2, <1>4, <1>5

\* A release takes its targets.
LEMMA TakenFacts ==
  ASSUME CountInv, NEW S,
         target' = [r \in Targets |-> IF r \in S THEN [target[r] EXCEPT !.transition = TRUE]
                                      ELSE target[r]],
         NEW r \in Targets
  PROVE  /\ target'[r].state = target[r].state /\ target'[r].leases = target[r].leases
         /\ target'[r].bindings = target[r].bindings /\ target'[r].enabled = target[r].enabled
         /\ target'[r].storage = target[r].storage /\ target'[r].direct = target[r].direct
         /\ target'[r].transition <=> r \in S \/ target[r].transition
         /\ r \notin S => target'[r] = target[r]
<1>1. PICK y \in Target : y = target[r]
  BY TypesOf
<1>2. target'[r] = IF r \in S THEN [y EXCEPT !.transition = TRUE] ELSE y
  BY <1>1
<1> QED  BY <1>1, <1>2 DEF Target

LEMMA ReleaseHeld ==
  ASSUME HookInv, CountInv', NEW t \in Threads, Release(t)
  PROVE  TransitionInv' /\ InstalledOK'
<1>0. CountInv /\ RegistryOK
  BY DEF HookInv, TransitionInv
<1>1. PICK g : g = Top(t)
  OBVIOUS
<1>2. /\ depth[t] # 0 /\ g.call = "release" /\ g.at = "begin" /\ FrameOK(g) /\ g \in Frame
      /\ depth[t] \in Depths /\ g = frame[t][depth[t]]
  BY <1>0, <1>1, TopOK, TopFrame DEF Release, At, CountInv
<1>3. /\ g.plugin \in Plugins /\ ~Changing(g) /\ g.failed = {} /\ ~g.flag
  BY <1>2 DEF FrameOK, HostCallOK, Changing
<1>4. CASE Refuse(t)
  BY <1>1, <1>2, <1>3, <1>4, RefuseHeld
<1>5. CASE ~Refuse(t)
  <2>1. PICK p, ops : p = g.plugin /\ ops = {r \in Live : Concerns(r, p)}
    OBVIOUS
  <2>2. /\ ~BusyToRelease(t, p) /\ OwnerExists(p)
        /\ owner' = [owner EXCEPT ![p].accepting = FALSE]
        /\ target' = [r \in Targets |-> IF r \in ops
                        THEN [target[r] EXCEPT !.transition = TRUE] ELSE target[r]]
        /\ callback' = Disabled(UNION {OwnedOn(p, r) : r \in ops})
        /\ SetTop(t, [g EXCEPT !.at = "restore", !.ops = ops])
        /\ UNCHANGED shutdown
    BY <1>1, <1>5, <2>1 DEF Release
  <2>3. ops \in SUBSET Targets /\ \A r \in Targets : r \in ops <=> Concerns(r, p)
    BY <2>1 DEF Live, Concerns
  <2>4. \A r \in ops : ~target[r].transition /\ r \in Live
    BY <2>1, <2>2 DEF BusyToRelease
  <2>5. p \in Plugins /\ shutdown = "no" /\ owner[p].known
    BY <1>3, <2>1, <2>2 DEF OwnerExists
  <2>6. /\ \A q \in Plugins : q # p => owner'[q] = owner[q]
        /\ owner'[p].known /\ ~owner'[p].accepting
    <3>1. PICK y \in Owner : y = owner[p]
      BY <1>0, <2>5, TypesOf
    <3>2. owner' = [owner EXCEPT ![p] = [y EXCEPT !.accepting = FALSE]]
      BY <2>2, <3>1
    <3> QED  BY <1>0, <2>5, <3>1, <3>2, TypesOf DEF Owner
  <2>7. \A r \in Targets :
          /\ target'[r].state = target[r].state /\ target'[r].leases = target[r].leases
          /\ target'[r].bindings = target[r].bindings /\ target'[r].enabled = target[r].enabled
          /\ target'[r].transition <=> r \in ops \/ target[r].transition
          /\ r \notin ops => target'[r] = target[r]
    BY <1>0, <2>2, TakenFacts
  <2>8. SameRegistry
    BY <1>0, <2>2, <2>7, TypesOf, DisabledFacts DEF SameRegistry
  <2>9. /\ \A q \in Targets : CallbacksOf(q)' = CallbacksOf(q)
        /\ \A q \in Targets, x \in Plugins : Concerns(q, x)' <=> Concerns(q, x)
        /\ Stays
    BY <2>8, RegistryFacts
  <2>10. ASSUME NEW r \in Targets, r \notin ops PROVE SameAt(r)
    BY <2>7, <2>8, <2>10 DEF SameAt, SameRegistry
  <2>11. Keeps(ops, g)
    BY <1>2, <2>1, <2>3, <2>4, <2>6, <2>9, <2>10 DEF Keeps, HostCalls
  <2> DEFINE f == [g EXCEPT !.at = "restore", !.ops = ops]
  <2>12. /\ f.call = "release" /\ f.at = "restore" /\ f.plugin = p /\ f.ops = ops /\ f.failed = {}
         /\ SetTop(t, f)
    BY <1>2, <1>3, <2>1, <2>2 DEF Frame
  <2> HIDE DEF f
  <2>13. Changed(t, depth[t], f)
    BY <1>0, <1>2, <2>12, SetTopMoves
  <2>14. Changing(f) /\ Untouched(f) = ops
    BY <2>12 DEF Changing, Untouched
  <2>15. Settled(f)
    <3>1. ReliesOn(f)'
      BY <2>6, <2>12, <2>14 DEF ReliesOn
    <3>2. ASSUME NEW r \in Targets, Concerns(r, p)'
          PROVE  r \in ops /\ (target'[r].enabled <=> CallbacksOf(r)' # {})
      <4>1. r \in ops
        BY <2>3, <2>5, <2>9, <3>2
      <4>2. target[r].enabled <=> CallbacksOf(r) # {}
        BY <2>4, <2>5, <4>1, TargetFacts
      <4> QED  BY <2>7, <2>9, <4>1, <4>2
    <3>3. InstalledFor(f)'
      <4>1. \A r \in Targets : Concerns(r, p)' => (target'[r].enabled <=> IF r \in Untouched(f)
               THEN CallbacksOf(r)' # {} ELSE (CallbacksOf(r) \ OwnedBy(p))' # {})
        BY <2>14, <3>2
      <4> QED  BY <2>12, <4>1 DEF InstalledFor, Untouched
    <3> QED  BY <3>1, <3>3 DEF Settled
  <2>16. \A r \in Targets : (WillChange(f, r) <=> r \in ops) /\ ~Changes(g, r)
    <3>1. \A r \in Targets : WillChange(f, r) <=> Concerns(r, p)'
      BY <2>12 DEF WillChange, Changes
    <3> QED  BY <1>3, <2>3, <2>5, <2>9, <3>1 DEF Changes, Changing
  <2>17. RegistryOK'
    <3>1. \A q \in Plugins : owner'[q].known <=> owner[q].known
      BY <2>5, <2>6
    <3>2. \A r \in Targets : target[r].leases \subseteq Plugins
      BY <1>0, TypesOf, TargetFields
    <3> QED  BY <1>0, <2>2, <2>8, <3>1, <3>2 DEF RegistryOK, Live, SameRegistry, CountInv, LiveOK
  <2>18. \A r \in ops : target'[r].transition /\ InPlace(r)
    BY <2>3, <2>4, <2>7 DEF InPlace, Live
  <2>19. f.call # "shutdown" /\ shutdown' = "no" /\ g.call \in HostCalls /\ g.plugin = f.plugin
    BY <1>2, <2>1, <2>2, <2>5, <2>12 DEF HostCalls
  <2> QED  BY <1>2, <2>3, <2>5, <2>11, <2>13, <2>15, <2>16, <2>17, <2>18, <2>19, StepAt
<1> QED  BY <1>4, <1>5

\* A ReleasePlugin that has put its targets in transition.
LEMMA ReleaseHolds ==
  ASSUME HookInv, NEW t \in Threads, NEW at \in {"restore", "wait", "drain"},
         At(t, "release", at), NEW g, g = Top(t)
  PROVE  /\ depth[t] # 0 /\ g \in Frame /\ FrameOK(g) /\ depth[t] \in Depths
         /\ g = frame[t][depth[t]] /\ g.call = "release" /\ g.at = at /\ g.plugin \in Plugins
         /\ g.ops \in SUBSET Targets /\ g.failed \in SUBSET Targets /\ g.ops \cap g.failed = {}
         /\ at \in {"wait", "drain"} => g.target \in g.ops /\ g.target \in Targets
         /\ at \in {"restore"} => ~g.flag
         /\ Changing(g) /\ shutdown = "no" /\ InstalledFor(g)
         /\ owner[g.plugin].known /\ ~owner[g.plugin].accepting
         /\ \A q \in Targets : /\ Changes(g, q) <=> Concerns(q, g.plugin)
                               /\ Changes(g, q) => target[q].transition
<1>0. CountInv /\ CallsOK /\ RegistryOK /\ InstalledOK /\ Marked
  BY DEF HookInv, TransitionInv
<1>1. /\ depth[t] # 0 /\ g \in Frame /\ FrameOK(g) /\ depth[t] \in Depths
      /\ g = frame[t][depth[t]] /\ g.call = "release" /\ g.at = at
  BY <1>0, TopOK, TopFrame DEF At, CountInv
<1>2. /\ g.plugin \in Plugins /\ g.ops \in SUBSET Targets /\ g.failed \in SUBSET Targets
      /\ g.ops \cap g.failed = {}
      /\ at \in {"wait", "drain"} => g.target \in g.ops /\ g.target \in Targets
      /\ at \in {"restore"} => ~g.flag
  BY <1>1, FrameFields DEF FrameOK, HostCallOK
<1>3. Changing(g) /\ \A q \in Targets : Changes(g, q) <=> Concerns(q, g.plugin)
  BY <1>1 DEF Changing, Changes
<1>4. ReliesOn(g) /\ InstalledFor(g) /\ shutdown = "no"
  BY <1>0, <1>1 DEF CallsOK, InstalledOK
<1>5. owner[g.plugin].known /\ ~owner[g.plugin].accepting
  BY <1>1, <1>3, <1>4 DEF ReliesOn
<1>6. \A q \in Targets : Changes(g, q) => target[q].transition
  BY <1>0, <1>1 DEF Marked
<1> QED  BY <1>1, <1>2, <1>3, <1>4, <1>5, <1>6

\* A release goes on in its loop, at most the hook of target r changes.
LEMMA ReleaseMoves ==
  ASSUME HookInv, CountInv', NEW t \in Threads, NEW at \in {"restore", "wait", "drain"},
         At(t, "release", at), NEW g, g = Top(t), NEW f, SetTop(t, f),
         f.call = "release", Changing(f), f.plugin = g.plugin, NEW r \in Targets, FlagsOnly(r),
         target'[r].transition = target[r].transition,
         target' = target \/ Concerns(r, g.plugin),
         \A q \in Targets : q # r => (q \in Untouched(f) <=> q \in Untouched(g)),
         Concerns(r, g.plugin) =>
           (target'[r].enabled <=> IF r \in Untouched(f) THEN CallbacksOf(r) # {}
                                   ELSE CallbacksOf(r) \ OwnedBy(g.plugin) # {}),
         f.at = "wait" /\ f.flag =>
           /\ f.target \in Targets /\ OwnedOn(g.plugin, f.target) # {}
           /\ CallbacksOf(f.target) \subseteq OwnedBy(g.plugin)
  PROVE  TransitionInv' /\ InstalledOK'
<1>0. CountInv /\ RegistryOK /\ Marked
  BY DEF HookInv, TransitionInv
<1>1. PICK p : p = g.plugin
  OBVIOUS
<1>2. /\ depth[t] # 0 /\ depth[t] \in Depths /\ g = frame[t][depth[t]] /\ g.call = "release"
      /\ p \in Plugins /\ shutdown = "no" /\ InstalledFor(g) /\ Changing(g)
      /\ owner[p].known /\ ~owner[p].accepting
      /\ \A q \in Targets : /\ Changes(g, q) <=> Concerns(q, p)
                            /\ Changes(g, q) => target[q].transition
  BY <1>1, ReleaseHolds
<1>3. Changed(t, depth[t], f)
  BY <1>0, <1>2, SetTopMoves
<1>4. /\ \A q \in Targets : /\ CallbacksOf(q)' = CallbacksOf(q)
                            /\ OwnedOn(p, q)' = OwnedOn(p, q)
                            /\ Concerns(q, p)' <=> Concerns(q, p)
                            /\ (CallbacksOf(q) \ OwnedBy(p))' = CallbacksOf(q) \ OwnedBy(p)
      /\ owner' = owner /\ shutdown' = shutdown /\ \A q \in Targets : q # r => target'[q] = target[q]
  BY <1>2, FlagsFacts DEF FlagsOnly
<1>5. ASSUME NEW q \in Targets, Concerns(q, p)'
      PROVE  target'[q].enabled <=> IF q \in Untouched(f) THEN CallbacksOf(q)' # {}
                                    ELSE (CallbacksOf(q) \ OwnedBy(p))' # {}
  <2>1. CASE q = r
    BY <1>1, <1>4, <1>5, <2>1
  <2>2. CASE q # r
    <3>1. target[q].enabled <=> IF q \in Untouched(g) THEN CallbacksOf(q) # {}
                                ELSE CallbacksOf(q) \ OwnedBy(p) # {}
      BY <1>1, <1>2, <1>4, <1>5 DEF InstalledFor
    <3> QED  BY <1>4, <2>2, <3>1
  <2> QED  BY <2>1, <2>2
<1>6. Settled(f)
  <2>1. ReliesOn(f)'
    BY <1>1, <1>2, <1>4 DEF ReliesOn
  <2>2. ASSUME f.at = "wait", f.flag
        PROVE  OwnedOn(p, f.target)' # {} /\ (CallbacksOf(f.target) \ OwnedBy(p))' = {}
    BY <1>1, <1>4, <2>2
  <2>3. InstalledFor(f)'
    BY <1>1, <1>5, <2>2 DEF InstalledFor, Untouched
  <2> QED  BY <2>1, <2>3 DEF Settled
<1>7. \A q \in Targets : WillChange(f, q) <=> Changes(g, q)
  <2>1. \A q \in Targets : WillChange(f, q) <=> Concerns(q, p)'
    BY <1>1 DEF WillChange, Changes, Changing
  <2> QED  BY <1>2, <1>4, <2>1
<1>8. f.call # "shutdown" /\ g.call \in HostCalls /\ g.plugin = f.plugin
  BY <1>2 DEF HostCalls
<1>9. CASE Concerns(r, p)
  <2>1. Changes(g, r) /\ target[r].transition
    BY <1>2, <1>9
  <2>2. InPlace(r)
    BY <1>9, <2>1 DEF InPlace, FlagsOnly, Concerns, Live
  <2> QED  BY <1>2, <1>3, <1>6, <1>7, <1>8, <2>1, <2>2, FlagsHeld
<1>10. CASE target' = target
  <2>1. Keeps({}, g)
    <3>1. Stays
      BY DEF FlagsOnly, Stays
    <3>2. \A q \in Targets : SameAt(q)
      BY <1>10 DEF SameAt, FlagsOnly
    <3> QED  BY <1>4, <3>1, <3>2 DEF Keeps
  <2>2. RegistryOK'
    BY <1>0, <1>10 DEF RegistryOK, Live, FlagsOnly
  <2>3. {} \in SUBSET Targets
    OBVIOUS
  <2>4. /\ depth[t] \in Depths /\ g = frame[t][depth[t]] /\ shutdown = "no" /\ shutdown' = "no"
        /\ f.call \in HostCalls => (g.call \in HostCalls /\ g.plugin = f.plugin) \/ ~InHand(f.plugin)
    BY <1>2, <1>4, <1>8
  <2> QED  BY <1>3, <1>6, <1>7, <1>8, <2>1, <2>2, <2>3, <2>4, StepAt
<1> QED  BY <1>1, <1>9, <1>10

\* A callback of the plugin on a target makes the target one of the plugin's.
LEMMA OwnedConcerns ==
  ASSUME RegistryOK, NEW r \in Targets, NEW p \in Plugins, OwnedOn(p, r) # {}
  PROVE  Concerns(r, p)
BY DEF RegistryOK, OwnedOn, CallbacksOf, Concerns, Live

LEMMA ReleaseOpHeld ==
  ASSUME HookInv, CountInv', NEW t \in Threads, ReleaseOp(t)
  PROVE  TransitionInv' /\ InstalledOK'
<1>0. CountInv /\ RegistryOK /\ target \in [Targets -> Target]
  BY TypesOf DEF HookInv, TransitionInv
<1>1. PICK g : g = Top(t)
  OBVIOUS
<1>2. PICK p, r, mine : p = g.plugin /\ r = Min(g.ops) /\ mine = OwnedOn(p, r)
  OBVIOUS
<1>3. /\ g \in Frame /\ g.call = "release" /\ g.at = "restore" /\ p \in Plugins
      /\ g.ops \in SUBSET Targets /\ g.ops # {} /\ g.failed \in SUBSET Targets
      /\ g.ops \cap g.failed = {} /\ InstalledFor(g) /\ Changing(g) /\ ~g.flag
  BY <1>1, <1>2, ReleaseHolds DEF ReleaseOp
<1>4. r \in g.ops /\ r \in Targets
  BY <1>2, <1>3, MinMember, HandleFacts
<1>5. PICK refused \in BOOLEAN :
        /\ refused => mine # {} /\ CallbacksOf(r) = mine
        /\ target' = IF mine # {} /\ CallbacksOf(r) = mine /\ ~refused THEN Restored(r) ELSE target
        /\ SetTop(t, [g EXCEPT !.at = "wait", !.target = r, !.todo = mine, !.flag = refused])
        /\ UNCHANGED <<owner, callback, shutdown>>
  BY <1>1, <1>2 DEF ReleaseOp
<1> DEFINE f == [g EXCEPT !.at = "wait", !.target = r, !.todo = mine, !.flag = refused]
<1>6. /\ f.call = "release" /\ f.at = "wait" /\ f.plugin = p /\ f.target = r
      /\ f.ops = g.ops /\ f.failed = g.failed /\ (f.flag <=> refused) /\ SetTop(t, f)
  BY <1>2, <1>3, <1>5 DEF Frame
<1> HIDE DEF f
<1>7. Changing(f)
  BY <1>6 DEF Changing
<1>8. /\ \A q \in Targets : q # r => (q \in Untouched(f) <=> q \in Untouched(g))
      /\ r \in Untouched(g) /\ (r \in Untouched(f) <=> refused)
  BY <1>3, <1>4, <1>6 DEF Untouched
<1>9. Concerns(r, p) => (target[r].enabled <=> CallbacksOf(r) # {})
  BY <1>2, <1>3, <1>4, <1>8 DEF InstalledFor
<1>10. refused => OwnedOn(p, r) # {} /\ CallbacksOf(r) \subseteq OwnedBy(p)
  BY <1>2, <1>5 DEF OwnedOn
<1>11. CASE mine # {} /\ CallbacksOf(r) = mine /\ ~refused
  <2>1. /\ \A q \in Targets : q # r => target'[q] = target[q]
        /\ target'[r].state = target[r].state /\ target'[r].leases = target[r].leases
        /\ target'[r].bindings = target[r].bindings
        /\ target'[r].transition = target[r].transition /\ ~target'[r].enabled
    BY <1>0, <1>4, <1>5, <1>11, RestoredFacts
  <2>2. FlagsOnly(r)
    BY <1>5, <2>1 DEF FlagsOnly
  <2>3. Concerns(r, p)
    BY <1>0, <1>2, <1>3, <1>4, <1>11, OwnedConcerns
  <2>4. CallbacksOf(r) \ OwnedBy(p) = {}
    BY <1>2, <1>11 DEF OwnedOn
  <2>5. At(t, "release", "restore")
    BY DEF ReleaseOp
  <2> QED  BY <1>1, <1>2, <1>4, <1>6, <1>7, <1>8, <1>11, <2>1, <2>2, <2>3, <2>4, <2>5, ReleaseMoves
<1>12. CASE ~(mine # {} /\ CallbacksOf(r) = mine /\ ~refused)
  <2>1. target' = target
    BY <1>5, <1>12
  <2>2. FlagsOnly(r)
    BY <1>5, <2>1 DEF FlagsOnly
  <2>3. ~refused => (CallbacksOf(r) # {} <=> CallbacksOf(r) \ OwnedBy(p) # {})
    BY <1>2, <1>12 DEF OwnedOn
  <2>4. Concerns(r, p) => (target'[r].enabled <=>
          IF r \in Untouched(f) THEN CallbacksOf(r) # {} ELSE CallbacksOf(r) \ OwnedBy(p) # {})
    BY <1>8, <1>9, <2>1, <2>3
  <2>5. At(t, "release", "restore")
    BY DEF ReleaseOp
  <2> QED  BY <1>1, <1>2, <1>4, <1>6, <1>7, <1>8, <1>10, <2>1, <2>2, <2>4, <2>5, ReleaseMoves
<1> QED  BY <1>11, <1>12

\* The next target of the loop.
LEMMA NextOpFacts ==
  ASSUME NEW g \in Frame, NEW f, f = NextOp(g)
  PROVE  /\ f.call = g.call /\ f.plugin = g.plugin /\ f.at = "restore" /\ f.target = g.target
         /\ f.ops = g.ops \ {g.target} /\ f.failed = g.failed /\ ~f.flag
BY DEF NextOp, Frame

LEMMA ReleaseRetryHeld ==
  ASSUME HookInv, CountInv', NEW t \in Threads, ReleaseRetry(t)
  PROVE  TransitionInv' /\ InstalledOK'
<1>0. /\ CountInv /\ RegistryOK /\ target \in [Targets -> Target]
      /\ At(t, "release", "wait")
  BY TypesOf DEF HookInv, TransitionInv, ReleaseRetry, Waited
<1>1. PICK g : g = Top(t)
  OBVIOUS
<1>2. PICK p, r : p = g.plugin /\ r = g.target
  OBVIOUS
<1>3. /\ g \in Frame /\ g.call = "release" /\ g.at = "wait" /\ p \in Plugins
      /\ g.ops \in SUBSET Targets /\ g.failed \in SUBSET Targets
      /\ g.ops \cap g.failed = {} /\ InstalledFor(g) /\ Changing(g)
      /\ r \in g.ops /\ r \in Targets
  BY <1>0, <1>1, <1>2, ReleaseHolds
<1>4. PICK f :
        /\ SetTop(t, f)
        /\ \/ ~g.flag /\ target' = target /\ f = [g EXCEPT !.at = "drain"]
           \/ ~g.flag /\ target' = target /\ f = NextOp(g)
           \/ g.flag /\ target' = Restored(r) /\ f = [g EXCEPT !.at = "drain"]
           \/ g.flag /\ target' = Restored(r) /\ f = NextOp(g)
           \/ /\ g.flag /\ target' = target
              /\ f = NextOp([g EXCEPT !.failed = g.failed \cup {r}])
  BY <1>1, <1>2 DEF ReleaseRetry
<1>5. PICK more : more = /\ g.flag /\ target' = target
                         /\ f = NextOp([g EXCEPT !.failed = g.failed \cup {r}])
  OBVIOUS
<1>6. PICK again : again = (g.flag /\ ~more)
  OBVIOUS
<1>7. /\ SetTop(t, f)
      /\ ~more => f = [g EXCEPT !.at = "drain"] \/ f = NextOp(g)
      /\ more => g.flag /\ ~again /\ f = NextOp([g EXCEPT !.failed = g.failed \cup {r}])
      /\ again <=> g.flag /\ ~more
      /\ target' = IF again THEN Restored(r) ELSE target
      /\ UNCHANGED <<owner, callback, shutdown>>
  <2>1. UNCHANGED <<owner, callback, shutdown>>
    BY DEF ReleaseRetry
  <2> QED  BY <1>4, <1>5, <1>6, <2>1
<1>8. /\ f.call = "release" /\ f.plugin = p /\ f.target = r /\ f.at \in {"drain", "restore"}
      /\ f.at = "drain" => f.ops = g.ops /\ f.failed = g.failed
      /\ f.at = "restore" => f.ops = g.ops \ {r}
                             /\ f.failed = g.failed \cup (IF more THEN {r} ELSE {})
      /\ more => f.at = "restore"
  <2>1. CASE f = [g EXCEPT !.at = "drain"] /\ ~more
    BY <1>2, <1>3, <2>1 DEF Frame
  <2>2. CASE f = NextOp(g) /\ ~more
    BY <1>2, <1>3, <2>2, NextOpFacts
  <2>3. CASE more
    <3> DEFINE k == [g EXCEPT !.failed = g.failed \cup {r}]
    <3>1. /\ k \in Frame /\ k.call = g.call /\ k.plugin = g.plugin /\ k.target = g.target
          /\ k.ops = g.ops /\ k.failed = g.failed \cup {r}
      BY <1>3 DEF Frame
    <3>2. f = NextOp(k)
      BY <1>7, <2>3
    <3> HIDE DEF k
    <3> QED  BY <1>2, <1>3, <2>3, <3>1, <3>2, NextOpFacts
  <2> QED  BY <1>7, <2>1, <2>2, <2>3
<1>9. Changing(f)
  BY <1>8 DEF Changing
<1>10. /\ \A q \in Targets : q # r => (q \in Untouched(f) <=> q \in Untouched(g))
       /\ r \in Untouched(g) <=> g.flag
       /\ r \in Untouched(f) <=> more
  BY <1>2, <1>3, <1>8 DEF Untouched
<1>11. Concerns(r, p) => (target[r].enabled <=> IF g.flag THEN CallbacksOf(r) # {}
                                                ELSE CallbacksOf(r) \ OwnedBy(p) # {})
  BY <1>2, <1>3, <1>10 DEF InstalledFor
<1>12. CASE again
  <2>1. /\ \A q \in Targets : q # r => target'[q] = target[q]
        /\ target'[r].state = target[r].state /\ target'[r].leases = target[r].leases
        /\ target'[r].bindings = target[r].bindings
        /\ target'[r].transition = target[r].transition /\ ~target'[r].enabled
    BY <1>0, <1>3, <1>7, <1>12, RestoredFacts
  <2>2. FlagsOnly(r)
    BY <1>7, <2>1 DEF FlagsOnly
  <2>3. OwnedOn(p, r) # {} /\ CallbacksOf(r) \ OwnedBy(p) = {}
    BY <1>2, <1>3, <1>7, <1>12 DEF InstalledFor
  <2>4. Concerns(r, p)
    BY <1>0, <1>3, <2>3, OwnedConcerns
  <2> QED  BY <1>0, <1>1, <1>2, <1>3, <1>7, <1>8, <1>9, <1>10, <1>12, <2>1, <2>2, <2>3, <2>4, ReleaseMoves
<1>13. CASE ~again
  <2>1. target' = target
    BY <1>7, <1>13
  <2>2. FlagsOnly(r)
    BY <1>7, <2>1 DEF FlagsOnly
  <2>3. g.flag <=> more
    BY <1>7, <1>13
  <2>4. Concerns(r, p) => (target'[r].enabled <=>
          IF r \in Untouched(f) THEN CallbacksOf(r) # {} ELSE CallbacksOf(r) \ OwnedBy(p) # {})
    BY <1>10, <1>11, <2>1, <2>3
  <2> QED  BY <1>0, <1>1, <1>2, <1>3, <1>7, <1>8, <1>9, <1>10, <2>1, <2>2, <2>4, ReleaseMoves
<1> QED  BY <1>12, <1>13

LEMMA ReleaseDrainHeld ==
  ASSUME HookInv, CountInv', NEW t \in Threads, ReleaseDrain(t)
  PROVE  TransitionInv' /\ InstalledOK'
<1>0. /\ CountInv /\ At(t, "release", "drain") /\ UNCHANGED <<owner, target, callback, shutdown>>
  BY DEF HookInv, ReleaseDrain
<1>1. PICK g : g = Top(t)
  OBVIOUS
<1>2. PICK p, r : p = g.plugin /\ r = g.target
  OBVIOUS
<1>3. /\ g \in Frame /\ g.call = "release" /\ g.at = "drain" /\ p \in Plugins
      /\ g.ops \in SUBSET Targets /\ g.failed \in SUBSET Targets
      /\ g.ops \cap g.failed = {} /\ InstalledFor(g) /\ Changing(g)
      /\ r \in g.ops /\ r \in Targets
  BY <1>0, <1>1, <1>2, ReleaseHolds
<1>4. PICK f : f = NextOp(g)
  OBVIOUS
<1>5. /\ f.call = "release" /\ f.plugin = p /\ f.target = r /\ f.at = "restore"
      /\ f.ops = g.ops \ {r} /\ f.failed = g.failed /\ SetTop(t, f)
  BY <1>1, <1>2, <1>3, <1>4, NextOpFacts DEF ReleaseDrain
<1>6. Changing(f) /\ \A q \in Targets : q \in Untouched(f) <=> q \in Untouched(g)
  BY <1>2, <1>3, <1>5 DEF Untouched, Changing
<1>7. FlagsOnly(r)
  BY <1>0 DEF FlagsOnly
<1>8. Concerns(r, p) => (target[r].enabled <=>
          IF r \in Untouched(f) THEN CallbacksOf(r) # {} ELSE CallbacksOf(r) \ OwnedBy(p) # {})
  BY <1>2, <1>3, <1>6 DEF InstalledFor
<1> QED  BY <1>0, <1>1, <1>2, <1>3, <1>5, <1>6, <1>7, <1>8, ReleaseMoves

\* What ReleasePlugin's last step makes of the targets that it held.
Freed(p, held, done) ==
  [r \in Targets |->
     IF r \notin held THEN target[r]
     ELSE [target[r] EXCEPT !.transition = FALSE,
                            !.leases = IF r \in done THEN @ \ {p} ELSE @,
                            !.bindings = IF r \in done THEN @ \ {p} ELSE @]]

\* The records tg after that, as far as a call that changes targets can tell.
IsFreed(tg, p, held, done) ==
  /\ tg \in [Targets -> Target]
  /\ \A r \in Targets :
       /\ r \notin held => tg[r] = target[r]
       /\ tg[r].state = target[r].state /\ tg[r].enabled = target[r].enabled
       /\ tg[r].storage = target[r].storage /\ tg[r].direct = target[r].direct
       /\ r \in held =>
            /\ ~tg[r].transition
            /\ tg[r].leases = IF r \in done THEN target[r].leases \ {p} ELSE target[r].leases
            /\ tg[r].bindings =
                 IF r \in done THEN target[r].bindings \ {p} ELSE target[r].bindings

LEMMA FreedFacts ==
  ASSUME target \in [Targets -> Target], NEW p, NEW held, NEW done
  PROVE  IsFreed(Freed(p, held, done), p, held, done)
<1>1. ASSUME NEW r \in Targets
      PROVE  /\ Freed(p, held, done)[r] \in Target
             /\ r \notin held => Freed(p, held, done)[r] = target[r]
             /\ Freed(p, held, done)[r].state = target[r].state
             /\ Freed(p, held, done)[r].enabled = target[r].enabled
             /\ Freed(p, held, done)[r].storage = target[r].storage
             /\ Freed(p, held, done)[r].direct = target[r].direct
             /\ r \in held =>
                  /\ ~Freed(p, held, done)[r].transition
                  /\ Freed(p, held, done)[r].leases =
                       IF r \in done THEN target[r].leases \ {p} ELSE target[r].leases
                  /\ Freed(p, held, done)[r].bindings =
                       IF r \in done THEN target[r].bindings \ {p} ELSE target[r].bindings
  <2>1. PICK y \in Target : y = target[r]
    OBVIOUS
  <2>2. PICK L, B : /\ L = IF r \in done THEN y.leases \ {p} ELSE y.leases
                    /\ B = IF r \in done THEN y.bindings \ {p} ELSE y.bindings
    OBVIOUS
  <2>3. L \in SUBSET Plugins /\ B \in SUBSET Plugins
    BY <2>2, TargetFields
  <2>4. PICK z : z = [y EXCEPT !.transition = FALSE, !.leases = L, !.bindings = B]
    OBVIOUS
  <2>5. Freed(p, held, done)[r] = IF r \notin held THEN y ELSE z
    BY <2>1, <2>2, <2>4 DEF Freed
  <2>6. z \in Target
    BY <2>3, <2>4, Zenon DEF Target
  <2>7. /\ z.state = y.state /\ z.enabled = y.enabled /\ ~z.transition
        /\ z.storage = y.storage /\ z.direct = y.direct
    BY <2>4 DEF Target
  <2>8. z.leases = L /\ z.bindings = B
    BY <2>4 DEF Target
  <2> QED  BY <2>1, <2>2, <2>5, <2>6, <2>7, <2>8
<1>2. Freed(p, held, done) \in [Targets -> Target]
  BY <1>1 DEF Freed
<1> QED  BY <1>1, <1>2 DEF IsFreed

LEMMA ReleaseDoneHeld ==
  ASSUME HookInv, CountInv', NEW t \in Threads, ReleaseDone(t)
  PROVE  TransitionInv' /\ InstalledOK'
<1>0. /\ CountInv /\ RegistryOK /\ target \in [Targets -> Target]
      /\ owner \in [Plugins -> Owner] /\ At(t, "release", "restore")
  BY TypesOf DEF HookInv, TransitionInv, ReleaseDone
<1>1. PICK g : g = Top(t)
  OBVIOUS
<1>2. PICK p, held, done, tg, E :
        /\ p = g.plugin /\ held = HeldBy(g) /\ done = held \ g.failed
        /\ tg = Freed(p, held, done) /\ E = UNION {OwnedOn(p, r) : r \in done}
  OBVIOUS
<1>3. /\ g \in Frame /\ g.call = "release" /\ g.at = "restore" /\ p \in Plugins
      /\ depth[t] # 0 /\ depth[t] \in Depths /\ g = frame[t][depth[t]]
      /\ g.failed \in SUBSET Targets /\ InstalledFor(g) /\ Changing(g) /\ ~g.flag
      /\ owner[p].known /\ shutdown = "no"
      /\ \A q \in Targets : Changes(g, q) <=> Concerns(q, p)
  BY <1>0, <1>1, <1>2, ReleaseHolds
<1>4. /\ callback' = Erased(E) /\ target' = Pruned(tg, Used(callback'))
      /\ g.ops = {} /\ CollectLast(t) /\ UNCHANGED shutdown
      /\ \/ owner' = owner /\ g.failed # {}
         \/ owner' = [owner EXCEPT ![p].known = FALSE, ![p].active = FALSE] /\ g.failed = {}
  BY <1>1, <1>2 DEF ReleaseDone, Freed, Succeeded
<1>5. /\ \A q \in Targets : q \in held <=> Concerns(q, p)
      /\ held \in SUBSET Targets /\ done \in SUBSET Targets
      /\ \A q \in Targets : q \in done <=> q \in held /\ q \notin g.failed
  BY <1>2 DEF HeldBy
<1>6. /\ tg \in [Targets -> Target]
      /\ \A r \in Targets :
           /\ r \notin held => tg[r] = target[r]
           /\ tg[r].state = target[r].state
           /\ tg[r].enabled = target[r].enabled
           /\ r \in held =>
                /\ ~tg[r].transition
                /\ tg[r].leases = IF r \in done THEN target[r].leases \ {p} ELSE target[r].leases
                /\ tg[r].bindings =
                     IF r \in done THEN target[r].bindings \ {p} ELSE target[r].bindings
  <2>1. IsFreed(tg, p, held, done)
    BY <1>0, <1>2, FreedFacts
  <2> QED  BY <2>1 DEF IsFreed
<1>7. /\ Stays
      /\ \A c \in Callbacks : /\ c \notin E => callback'[c] = callback[c]
                              /\ c \in E => callback'[c].state = "erased"
                              /\ callback'[c].state = "live" => callback[c].state = "live"
      /\ \A r \in Targets : CallbacksOf(r)' = CallbacksOf(r) \ E
  BY <1>0, <1>4, ErasedStays
<1>8. \A c \in E : /\ c \in Callbacks /\ callback[c].state = "live"
                   /\ callback[c].target \in done /\ callback[c].owner = p
  BY <1>2 DEF OwnedOn, OwnedBy, CallbacksOf
<1>9. ASSUME NEW r \in held
      PROVE  CallbacksOf(r) \ E = IF r \in done THEN CallbacksOf(r) \ OwnedBy(p) ELSE CallbacksOf(r)
  <2>1. CASE r \in done
    <3>1. CallbacksOf(r) \cap E = OwnedOn(p, r)
      BY <1>2, <1>8, <2>1 DEF OwnedOn, CallbacksOf, OwnedBy
    <3> QED  BY <2>1, <3>1 DEF OwnedOn
  <2>2. CASE r \notin done
    <3>1. CallbacksOf(r) \cap E = {}
      BY <1>8, <2>2 DEF CallbacksOf
    <3> QED  BY <2>2, <3>1
  <2> QED  BY <2>1, <2>2
<1>10. ASSUME NEW r \in held PROVE tg[r].enabled <=> CallbacksOf(r)' # {}
  <2>1. Untouched(g) = g.failed
    BY <1>3, <1>4 DEF Untouched
  <2>2. target[r].enabled <=> IF r \in g.failed THEN CallbacksOf(r) # {}
                              ELSE CallbacksOf(r) \ OwnedBy(p) # {}
    BY <1>2, <1>3, <1>5, <2>1 DEF InstalledFor
  <2> QED  BY <1>5, <1>6, <1>7, <1>9, <2>2
<1>11. ASSUME NEW r \in held
       PROVE  /\ r \in Targets /\ Changes(g, r) /\ target[r].state = "live"
              /\ tg[r].state = "live" /\ ~tg[r].transition
              /\ tg[r].leases \subseteq target[r].leases /\ tg[r].bindings = tg[r].leases
  <2>1. r \in Targets /\ Changes(g, r) /\ target[r].state = "live"
    BY <1>3, <1>5 DEF Concerns, Live
  <2>2. target[r].bindings = target[r].leases
    BY <1>3, <2>1, TargetFacts
  <2> QED  BY <1>6, <2>1, <2>2
<1>12. \A c \in Callbacks :
         /\ callback'[c].state = "live" => /\ callback[c].state = "live"
                                           /\ callback'[c].owner = callback[c].owner
         /\ callback[c].state = "live" => callback'[c].state = "live" \/ callback[c].target \in held
  <2>1. ASSUME NEW c \in Callbacks, callback'[c].state = "live"
        PROVE  callback[c].state = "live" /\ callback'[c].owner = callback[c].owner
    <3>1. c \notin E
      BY <1>7, <2>1
    <3> QED  BY <1>7, <2>1, <3>1
  <2>2. ASSUME NEW c \in Callbacks, callback[c].state = "live", callback'[c].state # "live"
        PROVE  callback[c].target \in held
    <3>1. c \in E
      BY <1>7, <2>2
    <3> QED  BY <1>5, <1>8, <3>1
  <2> QED  BY <2>1, <2>2
<1>13. Leaves(g, held, tg)
  <2>1. \A r \in Targets : Changes(g, r) => r \in held
    BY <1>3, <1>5
  <2>2. target' = Pruned(tg, Used(callback')) /\ Stays
    BY <1>4, <1>7
  <2>3. tg \in [Targets -> Target] /\ \A r \in Targets : r \notin held => tg[r] = target[r]
    BY <1>6
  <2> QED  BY <1>10, <1>11, <1>12, <2>1, <2>2, <2>3 DEF Leaves
<1>14. /\ \A q \in Plugins : q # p => owner'[q] = owner[q]
       /\ g.failed # {} => owner' = owner
  BY <1>0, <1>4
<1>15. Knows(g, tg)
  <2>1. ASSUME NEW c \in Callbacks, callback'[c].state = "live"
        PROVE  owner'[callback'[c].owner].known
    <3>1. /\ callback[c].state = "live" /\ callback'[c].owner = callback[c].owner /\ c \notin E
          /\ callback[c].owner \in Plugins /\ owner[callback[c].owner].known
          /\ callback[c].target \in Live /\ callback[c].target \in Targets
      BY <1>0, <1>7, <1>12, <2>1 DEF RegistryOK, CountInv, LiveOK
    <3>2. CASE g.failed # {}
      BY <1>14, <3>1, <3>2
    <3>3. CASE g.failed = {}
      <4>1. ASSUME callback[c].owner = p PROVE FALSE
        <5>1. PICK r \in Targets : r = callback[c].target
          BY <3>1
        <5>2. c \in OwnedOn(p, r)
          BY <3>1, <4>1, <5>1 DEF OwnedOn, OwnedBy, CallbacksOf
        <5>3. r \in done
          BY <1>0, <1>3, <1>5, <3>3, <5>2, OwnedConcerns
        <5> QED  BY <1>2, <3>1, <5>2, <5>3
      <4> QED  BY <1>14, <3>1, <4>1
    <3> QED  BY <3>2, <3>3
  <2>2. ASSUME NEW r \in Targets, target[r].state = "live", NEW q \in tg[r].leases
        PROVE  owner'[q].known
    <3>1. q \in target[r].leases /\ q \in Plugins /\ owner[q].known
      <4>1. q \in target[r].leases
        BY <1>6, <2>2
      <4>2. target[r].leases \subseteq Plugins
        BY <1>0, TargetFields
      <4> QED  BY <1>0, <2>2, <4>1, <4>2 DEF RegistryOK, Live
    <3>2. CASE g.failed # {}
      BY <1>14, <3>1, <3>2
    <3>3. CASE g.failed = {}
      <4>1. ASSUME q = p PROVE FALSE
        <5>1. r \in done
          BY <1>5, <2>2, <3>1, <3>3, <4>1 DEF Concerns, Live
        <5> QED  BY <1>5, <1>6, <2>2, <4>1, <5>1
      <4> QED  BY <1>14, <3>1, <4>1
    <3> QED  BY <3>2, <3>3
  <2>3. \A q \in Plugins : \/ g.call \in HostCalls /\ g.plugin = q
                           \/ owner'[q] = owner[q]
    BY <1>2, <1>3, <1>14 DEF HostCalls
  <2> QED  BY <2>1, <2>2, <2>3 DEF Knows
<1>16. PICK f : f = [Idle EXCEPT !.call = "collect", !.at = "begin"]
  OBVIOUS
<1>17. f.call = "collect" /\ SetTop(t, f)
  BY <1>4, <1>16, IdleFrame DEF CollectLast, Frame
<1>18. Changed(t, depth[t], f)
  BY <1>0, <1>3, <1>17, SetTopMoves
<1>19. shutdown' = "no"
  BY <1>3, <1>4
<1> QED  BY <1>3, <1>5, <1>13, <1>15, <1>17, <1>18, <1>19, PrunedHeld

-----------------------------------------------------------------------------
(* Shutdown.                                                               *)

LEMMA StartShutdownHeld ==
  ASSUME HookInv, CountInv', NEW t \in Threads, StartShutdown(t)
  PROVE  TransitionInv' /\ InstalledOK'
<1>0. CountInv /\ RegistryOK
  BY DEF HookInv, TransitionInv
<1>1. PICK f : /\ Push(t, f)
               /\ \E ops, todo : f = [Idle EXCEPT !.call = "shutdown", !.at = "restore",
                                                  !.ops = ops, !.todo = todo]
  BY DEF StartShutdown
<1>2. f.call = "shutdown"
  <2>1. PICK x \in Frame : x = Idle
    BY IdleFrame
  <2> QED  BY <1>1, <2>1 DEF Frame
<1>3. ASSUME NEW u \in Threads, NEW e \in Depths
      PROVE  frame'[u][e].call \in {"none", "dispatch", "shutdown"}
  <2>1. frame'[u][e] = f \/ frame'[u][e] = frame[u][e]
    BY <1>0, <1>1, PushMoves DEF Changed
  <2>2. frame[u][e].call # "none" => frame[u][e].call = "dispatch"
    BY <1>0, FrameThere DEF StartShutdown
  <2> QED  BY <1>2, <2>1, <2>2
<1>4. ASSUME NEW c \in Callbacks PROVE callback'[c].state # "live"
  <2>1. PICK live : live = {x \in Callbacks : callback[x].state = "live"}
    OBVIOUS
  <2>2. callback' = [x \in Callbacks |-> IF x \in live
                       THEN [callback[x] EXCEPT !.state = "erased", !.enabled = FALSE]
                       ELSE callback[x]]
    BY <2>1 DEF StartShutdown
  <2>3. PICK y \in Callback : y = callback[c]
    BY <1>0, TypesOf
  <2>4. callback'[c] = IF y.state = "live" THEN [y EXCEPT !.state = "erased", !.enabled = FALSE]
                       ELSE y
    BY <2>1, <2>2, <2>3
  <2> QED  BY <2>4 DEF Callback
<1>5. ASSUME NEW r \in Targets, target'[r].state = "live" PROVE target'[r].leases = {}
  <2>1. PICK y \in Target : y = target[r]
    BY <1>0, TypesOf
  <2>2. target' = [x \in Targets |-> IF shutdown = "no" /\ x \in Live
                     THEN [target[x] EXCEPT !.leases = {}, !.transition = TRUE]
                     ELSE target[x]]
    BY DEF StartShutdown
  <2>3. target'[r] = IF shutdown = "no" /\ r \in Live
                     THEN [y EXCEPT !.leases = {}, !.transition = TRUE] ELSE y
    BY <2>1, <2>2
  <2>4. CASE shutdown = "no" /\ r \in Live
    BY <2>3, <2>4 DEF Target
  <2>5. CASE ~(shutdown = "no" /\ r \in Live)
    <3>1. r \in Live /\ shutdown # "no"
      BY <1>5, <2>1, <2>3, <2>5 DEF Live
    <3>2. y.leases \subseteq Plugins
      BY TargetFields
    <3> QED  BY <1>0, <2>1, <2>3, <2>5, <3>1, <3>2 DEF RegistryOK
  <2> QED  BY <2>4, <2>5
<1>6. shutdown' # "no" /\ \A p \in Plugins : ~owner'[p].known
  <2>1. shutdown' = "begun"
    BY DEF StartShutdown
  <2>2. owner' = [p \in Plugins |-> [known |-> FALSE, accepting |-> FALSE, active |-> FALSE]]
    BY DEF StartShutdown
  <2> QED  BY <2>1, <2>2
<1> QED  BY <1>3, <1>4, <1>5, <1>6, DownStep

\* Shutdown goes on or ends.
LEMMA ShutdownHolds ==
  ASSUME HookInv, CountInv', NEW t \in Threads, NEW at \in {"restore", "wait", "destroy"},
         At(t, "shutdown", at), NEW f, f.call \in {"none", "shutdown"},
         Changed(t, depth[t], f), owner' = owner, callback' = callback,
         shutdown' \in {shutdown, "complete"},
         \A r \in Targets : target'[r].state = "live" =>
           target[r].state = "live" /\ target'[r].leases = target[r].leases
  PROVE  TransitionInv' /\ InstalledOK'
<1>0. CountInv /\ CallsOK /\ RegistryOK
  BY DEF HookInv, TransitionInv
<1>1. depth[t] \in Depths /\ frame[t][depth[t]].call = "shutdown"
  BY <1>0, TopFrame DEF At, CountInv
<1>2. shutdown # "no" /\ shutdown' # "no"
  BY <1>0, <1>1 DEF CallsOK
<1>3. ASSUME NEW u \in Threads, NEW e \in Depths
      PROVE  frame'[u][e].call \in {"none", "dispatch", "shutdown"}
  <2>1. frame'[u][e] = f \/ frame'[u][e] = frame[u][e]
    BY DEF Changed
  <2>2. frame[u][e].call \in {"none", "dispatch", "shutdown"}
    BY <1>0, <1>2 DEF CallsOK
  <2> QED  BY <2>1, <2>2
<1>4. \A c \in Callbacks : callback'[c].state # "live"
  BY <1>0, <1>2 DEF RegistryOK
<1>5. \A p \in Plugins : ~owner'[p].known
  BY <1>0, <1>2 DEF RegistryOK
<1>6. ASSUME NEW r \in Targets, target'[r].state = "live" PROVE target'[r].leases = {}
  <2>1. target[r].leases \subseteq Plugins
    BY <1>0, TypesOf, TargetFields
  <2> QED  BY <1>0, <1>2, <1>6, <2>1 DEF RegistryOK, Live
<1> QED  BY <1>2, <1>3, <1>4, <1>5, <1>6, DownStep

\* The innermost frame of a Shutdown that goes on.
LEMMA ShutdownSetTop ==
  ASSUME HookInv, CountInv', NEW t \in Threads, NEW at \in {"restore", "wait", "destroy"},
         At(t, "shutdown", at), NEW f, SetTop(t, f), f.call = "shutdown",
         UNCHANGED <<owner, callback, shutdown>>,
         \A r \in Targets : target'[r].state = "live" =>
           target[r].state = "live" /\ target'[r].leases = target[r].leases
  PROVE  TransitionInv' /\ InstalledOK'
<1>1. CountInv
  BY DEF HookInv
<1>2. Changed(t, depth[t], f)
  BY <1>1, SetTopMoves DEF At
<1> QED  BY <1>2, ShutdownHolds

LEMMA ShutdownRestoreHeld ==
  ASSUME HookInv, CountInv', NEW t \in Threads, ShutdownRestore(t)
  PROVE  TransitionInv' /\ InstalledOK'
<1>0. /\ CountInv /\ target \in [Targets -> Target] /\ At(t, "shutdown", "restore")
      /\ UNCHANGED <<owner, callback, shutdown>>
  BY TypesOf DEF HookInv, ShutdownRestore
<1>1. PICK g : g = Top(t)
  OBVIOUS
<1>2. g \in Frame /\ g.call = "shutdown" /\ g.ops \in SUBSET Targets
  BY <1>0, <1>1, ShutdownTop
<1>3. PICK r : r = Min(g.ops)
  OBVIOUS
<1>4. PICK f :
        /\ SetTop(t, f)
        /\ \/ target' = target /\ f = [g EXCEPT !.at = "wait"]
           \/ g.ops # {} /\ target' = Restored(r) /\ f = [g EXCEPT !.ops = g.ops \ {r}]
           \/ /\ target' = target
              /\ f = [g EXCEPT !.ops = g.ops \ {r}, !.failed = g.failed \cup {r}]
  BY <1>1, <1>3 DEF ShutdownRestore, Goto
<1>5. f.call = "shutdown"
  BY <1>2, <1>4 DEF Frame
<1>6. \A q \in Targets : target'[q].state = target[q].state /\ target'[q].leases = target[q].leases
  <2>1. CASE target' = target
    BY <2>1
  <2>2. CASE g.ops # {} /\ target' = Restored(r)
    <3>1. r \in Targets
      BY <1>2, <1>3, <2>2, MinMember, HandleFacts
    <3> QED  BY <1>0, <2>2, <3>1, RestoredFacts
  <2> QED  BY <1>4, <2>1, <2>2
<1> QED  BY <1>0, <1>4, <1>5, <1>6, ShutdownSetTop

LEMMA ShutdownWaitedHeld ==
  ASSUME HookInv, CountInv', NEW t \in Threads, ShutdownWaited(t)
  PROVE  TransitionInv' /\ InstalledOK'
<1>0. /\ CountInv /\ At(t, "shutdown", "wait") /\ UNCHANGED <<owner, target, callback, shutdown>>
  BY DEF HookInv, ShutdownWaited, Waited
<1>1. PICK g : g = Top(t)
  OBVIOUS
<1>2. g \in Frame /\ g.call = "shutdown"
  BY <1>0, <1>1, ShutdownTop
<1>3. PICK ops : SetTop(t, [g EXCEPT !.at = "destroy", !.ops = ops])
  BY <1>1 DEF ShutdownWaited
<1>4. PICK f : f = [g EXCEPT !.at = "destroy", !.ops = ops]
  OBVIOUS
<1>5. f.call = "shutdown" /\ SetTop(t, f)
  BY <1>2, <1>3, <1>4 DEF Frame
<1> QED  BY <1>0, <1>5, ShutdownSetTop

LEMMA ShutdownDestroyHeld ==
  ASSUME HookInv, CountInv', NEW t \in Threads, ShutdownDestroy(t)
  PROVE  TransitionInv' /\ InstalledOK'
<1>0. /\ CountInv /\ target \in [Targets -> Target] /\ At(t, "shutdown", "destroy")
      /\ UNCHANGED <<owner, callback, shutdown>>
  BY TypesOf DEF HookInv, ShutdownDestroy
<1>1. PICK g : g = Top(t)
  OBVIOUS
<1>2. g \in Frame /\ g.call = "shutdown" /\ g.ops \in SUBSET Targets /\ g.ops # {}
  BY <1>0, <1>1, ShutdownTop DEF ShutdownDestroy
<1>3. PICK r : r = Min(g.ops)
  OBVIOUS
<1>4. r \in Targets
  BY <1>2, <1>3, MinMember, HandleFacts
<1>5. PICK gone, S :
        /\ gone \in {Destroyed(r), target} /\ target' = gone
        /\ S = IF gone[r].storage THEN g.failed \cup {r} ELSE g.failed
        /\ SetTop(t, [g EXCEPT !.ops = g.ops \ {r}, !.failed = S])
  BY <1>1, <1>3 DEF ShutdownDestroy
<1>6. PICK f : f = [g EXCEPT !.ops = g.ops \ {r}, !.failed = S]
  OBVIOUS
<1>7. f.call = "shutdown" /\ SetTop(t, f)
  BY <1>2, <1>5, <1>6 DEF Frame
<1>8. \A q \in Targets : target'[q].state = target[q].state /\ target'[q].leases = target[q].leases
  <2>1. CASE target' = target
    BY <2>1
  <2>2. CASE target' = Destroyed(r)
    BY <1>0, <1>4, <2>2, TypesOf, DestroyedFacts
  <2> QED  BY <1>5, <2>1, <2>2
<1> QED  BY <1>0, <1>7, <1>8, ShutdownSetTop

LEMMA ShutdownDoneHeld ==
  ASSUME HookInv, CountInv', NEW t \in Threads, ShutdownDone(t)
  PROVE  TransitionInv' /\ InstalledOK'
<1>0. /\ CountInv /\ target \in [Targets -> Target] /\ At(t, "shutdown", "destroy")
      /\ owner' = owner /\ callback' = callback /\ Pop(t) /\ shutdown' \in {shutdown, "complete"}
  BY TypesOf DEF HookInv, ShutdownDone
<1>1. Changed(t, depth[t], Idle) /\ Idle.call = "none"
  BY <1>0, PopMoves, IdleFrame DEF At
<1>2. ASSUME NEW r \in Targets, target'[r].state = "live" PROVE target'[r] = target[r]
  <2>1. PICK y \in Target : y = target[r]
    BY <1>0
  <2>2. CASE target' = target
    BY <2>2
  <2>3. CASE target' # target
    <3>1. target' = [x \in Targets |-> IF target[x].state \in {"live", "retired"}
                       THEN [target[x] EXCEPT !.state = "gone"] ELSE target[x]]
      BY <2>3 DEF ShutdownDone
    <3>2. target'[r] = IF y.state \in {"live", "retired"} THEN [y EXCEPT !.state = "gone"] ELSE y
      BY <2>1, <3>1
    <3> QED  BY <1>2, <2>1, <3>2 DEF Target
  <2> QED  BY <2>2, <2>3
<1> QED  BY <1>0, <1>1, <1>2, ShutdownHolds

-----------------------------------------------------------------------------
(* The invariant.                                                          *)

\* Nobody has a part in anything before anything has begun.
LEMMA HookInvInit == Init => HookInv
<1> SUFFICES ASSUME Init PROVE HookInv
  OBVIOUS
<1>1. CountInv
  BY CountInit
<1>2. \A u \in Threads, e \in Depths : frame[u][e] = Idle
  BY DEF Init, Depths
<1>3. /\ \A r \in Targets : /\ target[r].state = "free" /\ ~target[r].enabled
                            /\ ~target[r].transition
      /\ \A c \in Callbacks : callback[c].state = "free"
      /\ shutdown = "no"
  BY DEF Init
<1>4. /\ ~Changing(Idle) /\ Idle.call = "none" /\ (\A r \in Targets : ~Changes(Idle, r))
      /\ ReliesOn(Idle) /\ InstalledFor(Idle)
  BY IdleFrame DEF Changing, Changes, ReliesOn, InstalledFor
<1>5. CallsOK /\ OneHostCall /\ OneChange /\ Marked
  BY <1>2, <1>4 DEF CallsOK, OneHostCall, OneChange, Marked, HostCalls
<1>6. Ended
  BY <1>3 DEF Ended
<1>7. RegistryOK
  BY <1>3 DEF RegistryOK, Live
<1>8. InstalledOK
  BY <1>2, <1>3, <1>4 DEF InstalledOK, InstalledIffUsed, Live
<1> QED  BY <1>1, <1>5, <1>6, <1>7, <1>8 DEF HookInv, TransitionInv

\* Nothing happens.
LEMMA StutterHeld ==
  ASSUME HookInv, CountInv', UNCHANGED vars PROVE TransitionInv' /\ InstalledOK'
<1>1. Quietly /\ frame' = frame
  BY UnwrittenQuiet DEF vars, threads
<1> QED  BY <1>1, AsideStep

LEMMA PluginCallHeld ==
  ASSUME HookInv, CountInv', NEW t \in Threads, NEW p \in Plugins, PluginCall(t, p)
  PROVE  TransitionInv' /\ InstalledOK'
BY StartReleaseTargetHeld, StartAddHeld, DirectCallHeld, StartResolveHeld, StartRemoveHeld,
   SetEnabledHeld DEF PluginCall

LEMMA CallStepHeld ==
  ASSUME HookInv, CountInv', NEW t \in Threads, CallStep(t)
  PROVE  TransitionInv' /\ InstalledOK'
BY CollectAgainHeld, CollectHeld, ResolveHeld, ReleaseTargetHeld, AddHeld, InstallHeld,
   AddDoneHeld, RemoveHeld, RestoreForRemoveHeld, AwaitHeld, RemoveDoneHeld, SetDoneHeld,
   DirectReturnsHeld DEF CallStep

LEMMA HostCallHeld ==
  ASSUME HookInv, CountInv', NEW t \in Threads, HostCall(t)
  PROVE  TransitionInv' /\ InstalledOK'
BY AuthorizeHeld, RestoreHeld, DeactivateHeld, StartReleaseHeld, StartShutdownHeld DEF HostCall

LEMMA HostStepHeld ==
  ASSUME HookInv, CountInv', NEW t \in Threads, HostStep(t)
  PROVE  TransitionInv' /\ InstalledOK'
BY ActivateHeld, DeactivateDoneHeld, ReleaseHeld, ReleaseOpHeld, ReleaseRetryHeld,
   ReleaseDrainHeld, ReleaseDoneHeld, ShutdownRestoreHeld, ShutdownWaitedHeld,
   ShutdownDestroyHeld, ShutdownDoneHeld DEF HostStep

LEMMA HookInvNext == HookInv /\ [Next]_vars => HookInv'
<1> SUFFICES ASSUME HookInv, [Next]_vars PROVE HookInv'
  OBVIOUS
<1>1. CountInv'
  BY CountNext DEF HookInv
<1>2. TransitionInv' /\ InstalledOK'
  <2>1. CASE UNCHANGED vars
    BY <1>1, <2>1, StutterHeld
  <2>2. CASE Next
    BY <1>1, <2>2, PluginCallHeld, CallStepHeld, HostCallHeld, HostStepHeld, DispatchHeld DEF Next
  <2> QED  BY <2>1, <2>2
<1> QED  BY <1>1, <1>2 DEF HookInv

\* The invariant that the rest follows from: which call has which target in
\* transition, what a call that waits outside the locks goes by, what the registry
\* names, and where the hooks are at each point of a change.
THEOREM HookTransitionInvariant == Spec => []HookInv
BY HookInvInit, HookInvNext, PTL DEF Spec

\* A target is in transition exactly while one AddCallback, RemoveCallback or
\* ReleasePlugin is in the middle of changing it, so no path of them leaves the flag
\* behind, for any constants, whatever Risks allows and whatever the library refuses.
THEOREM HookTransitionHeld == Spec => []TransitionHeld
<1>1. HookInv => TransitionHeld
  <2> SUFFICES ASSUME HookInv, shutdown = "no", NEW r \in Targets
               PROVE  CountOf({x \in Positions : Changes(FrameAt(x), r)}) =
                        IF target[r].transition THEN 1 ELSE 0
    BY DEF TransitionHeld
  <2> DEFINE X == {x \in Positions : Changes(FrameAt(x), r)}
  <2>1. OneChange /\ Marked /\ Ended
    BY DEF HookInv, TransitionInv
  <2>2. CASE target[r].transition
    <3>1. PICK t \in Threads, d \in Depths : Changes(frame[t][d], r)
      BY <2>1, <2>2 DEF Ended
    <3>2. <<t, d>> \in Positions /\ FrameAt(<<t, d>>) = frame[t][d]
      BY DEF Positions, FrameAt, Depths
    <3>3. ASSUME NEW x \in Positions, Changes(FrameAt(x), r) PROVE x = <<t, d>>
      <4>1. PICK u \in Threads, e \in Depths : x = <<u, e>>
        BY DEF Positions, Depths
      <4>2. Changes(frame[u][e], r)
        BY <3>3, <4>1 DEF FrameAt
      <4>3. u = t /\ e = d
        BY <2>1, <3>1, <4>2 DEF OneChange
      <4> QED  BY <4>1, <4>3
    <3>4. X = {<<t, d>>}
      BY <3>1, <3>2, <3>3
    <3>5. Cardinality({<<t, d>>}) = 1
      BY FS_Singleton
    <3> QED  BY <2>2, <3>4, <3>5 DEF CountOf
  <2>3. CASE ~target[r].transition
    <3>1. ASSUME NEW x \in Positions PROVE ~Changes(FrameAt(x), r)
      <4>1. PICK u \in Threads, e \in Depths : x = <<u, e>>
        BY DEF Positions, Depths
      <4> QED  BY <2>1, <2>3, <4>1 DEF Marked, FrameAt
    <3>2. X = {}
      BY <3>1
    <3>3. Cardinality(X) = 0
      BY <3>2, FS_EmptySet
    <3> QED  BY <2>3, <3>3 DEF CountOf
  <2> QED  BY <2>2, <2>3
<1> QED  BY <1>1, HookTransitionInvariant, PTL

\* A hook is installed exactly as long as its target has callbacks, except while a call
\* is changing that, and never on a target that was retired, for any constants.
THEOREM HookInstalledIffUsed == Spec => []InstalledIffUsed
<1>1. HookInv => InstalledIffUsed
  BY DEF HookInv, InstalledOK
<1> QED  BY <1>1, HookTransitionInvariant, PTL

-----------------------------------------------------------------------------
(* What KeelHook frees, for libraries that install a kept hook again (Risks  *)
(* without "reinstall"): the closure and the trampoline of a target exist as *)
(* long as its hook is installed or a thread is inside, a direct call's      *)
(* entry stays the target's, and nothing is left when Shutdown has answered  *)
(* TRUE.                                                                     *)

\* The inductive invariant.
StorageInv == HookInv /\ StorageOK

-----------------------------------------------------------------------------
(* What a step may do with the storage of a target.                        *)

\* Freed with no thread inside, made with no direct call in progress; no direct
\* call begins while the target is in transition.
StorageSafe(r) ==
  /\ target'[r].enabled => target'[r].storage
  /\ target'[r].storage => target'[r].state \in {"live", "retired"}
  /\ \/ target'[r].storage <=> target[r].storage
     \/ ~target'[r].storage /\ target[r].active = 0 /\ ~Entering(r)
     \/ target'[r].storage /\ shutdown = "no" /\ target[r].direct = 0
  /\ target'[r].direct = 0 \/ target[r].direct # 0 \/ ~target[r].transition

\* The storage, the installed hook and the direct calls stay.
Mild(r) ==
  /\ target'[r].storage <=> target[r].storage
  /\ target'[r].enabled => target[r].enabled
  /\ target'[r].direct = target[r].direct
  /\ \/ target'[r].state = target[r].state
     \/ target'[r].state \in {"live", "retired"}
     \/ ~target[r].storage

LEMMA MildSafe ==
  ASSUME StorageOK, NEW r \in Targets, Mild(r) PROVE StorageSafe(r)
BY DEF StorageOK, Mild, StorageSafe

\* A frame's part of the invariant after the step.
Kept(h) == StorageFor(h)'
KeptAt(u, e) == StorageFor(frame[u][e])'

\* Frames about which the invariant says nothing.
Tame(f) ==
  /\ f.call \notin {"dispatch", "direct"}
  /\ ~(f.call = "add" /\ f.at = "install") /\ ~(f.call = "shutdown" /\ f.at = "destroy")

\* The frames that change are such, or keep their part.
Calm ==
  \A u \in Threads, e \in Depths :
    frame'[u][e] = frame[u][e] \/ Tame(frame'[u][e]) \/ KeptAt(u, e)

\* A call in progress is not disturbed.
LEMMA StorageKept ==
  ASSUME StorageInv, \A r \in Targets : StorageSafe(r),
         NEW u \in Threads, NEW e \in Depths, NEW h, h = frame[u][e]
  PROVE  Kept(h)
<1>0. CountInv /\ StorageFor(h) /\ TypeOK /\ ActiveBalanced /\ CallsOK /\ Marked
  BY DEF StorageInv, HookInv, TransitionInv, StorageOK, CountInv
<1>1. FrameOK(h) /\ h \in Frame
  BY <1>0, FrameNames
<1>2. ASSUME h.call = "dispatch" PROVE target'[h.target].storage
  <2>1. h.target \in Targets /\ target[h.target].storage /\ h \in AllFrames
    BY <1>0, <1>1, <1>2, FrameThere DEF FrameOK, DispatchOK, StorageFor
  <2>2. target[h.target].active > 0 \/ Entering(h.target)
    <3>1. CASE h.at \in {"entered", "bound"}
      BY <1>2, <2>1, <3>1 DEF Entering
    <3>2. CASE h.at \notin {"entered", "bound"}
      <4>1. On(h, h.target) = 1
        BY <1>2, <3>2 DEF On, OnTargetStack
      <4> QED  BY <1>0, <2>1, <4>1, CountedPositive
    <3> QED  BY <3>1, <3>2
  <2> QED  BY <2>1, <2>2 DEF StorageSafe
<1>3. ASSUME h.call = "direct" PROVE h.flag <=> target'[h.target].storage
  <2>1. h.target \in Targets /\ (h.flag <=> target[h.target].storage)
    BY <1>0, <1>1, <1>3 DEF FrameOK, StorageFor
  <2>2. On(h, h.target) = 1 /\ Dir(h, h.target) = 1
    BY <1>3 DEF On, Dir, OnTargetStack
  <2>3. target[h.target].active > 0 /\ target[h.target].direct > 0
    BY <1>0, <2>1, <2>2, CountedPositive
  <2> QED  BY <2>1, <2>3 DEF StorageSafe
<1>4. ASSUME h.call = "add", h.at = "install" PROVE target'[h.target].direct = 0
  <2>1. Changes(h, h.target) /\ h.target \in Targets
    BY <1>0, <1>4, FrameNames DEF Changes, Changing
  <2>2. target[h.target].transition /\ target[h.target].direct = 0
    BY <1>0, <1>4, <2>1 DEF Marked, StorageFor
  <2> QED  BY <2>1, <2>2 DEF StorageSafe
<1>5. ASSUME h.call = "shutdown", h.at = "destroy"
      PROVE  \A r \in Targets : target'[r].storage => r \in h.ops \cup h.failed
  BY <1>0, <1>5 DEF CallsOK, StorageSafe, StorageFor
<1> QED  BY <1>2, <1>3, <1>4, <1>5 DEF Kept, StorageFor

LEMMA StorageStep ==
  ASSUME StorageInv, Calm, \A r \in Targets : StorageSafe(r),
         shutdown' = "complete" => \A r \in Targets : ~target'[r].storage
  PROVE  StorageOK'
<1>1. ASSUME NEW u \in Threads, NEW e \in Depths PROVE KeptAt(u, e)
  <2>1. CASE frame'[u][e] = frame[u][e]
    <3>1. PICK h : h = frame[u][e]
      OBVIOUS
    <3>2. Kept(h)
      BY <3>1, StorageKept
    <3> QED  BY <2>1, <3>1, <3>2 DEF Kept, KeptAt
  <2>2. CASE Tame(frame'[u][e])
    BY <2>2 DEF Tame, KeptAt, StorageFor
  <2> QED  BY <2>1, <2>2 DEF Calm
<1>2. \A u \in Threads, e \in Depths : StorageFor(frame[u][e])'
  BY <1>1 DEF KeptAt
<1> QED  BY <1>2 DEF StorageOK, StorageSafe

LEMMA StorageMild ==
  ASSUME StorageInv, Calm, \A r \in Targets : Mild(r), shutdown' = shutdown
  PROVE  StorageOK'
<1>1. \A r \in Targets : StorageSafe(r)
  BY MildSafe DEF StorageInv
<1>2. shutdown' = "complete" => \A r \in Targets : ~target'[r].storage
  BY DEF StorageInv, StorageOK, Mild
<1> QED  BY <1>1, <1>2, StorageStep

LEMMA StorageSame ==
  ASSUME StorageInv, Calm, UNCHANGED <<target, shutdown>> PROVE StorageOK'
<1>1. \A r \in Targets : Mild(r)
  BY DEF Mild
<1> QED  BY <1>1, StorageMild

-----------------------------------------------------------------------------
(* How the frames move.                                                    *)

LEMMA CalmAt ==
  ASSUME NEW t \in Threads, NEW d \in Depths, NEW f, Changed(t, d, f), Tame(f) \/ Kept(f)
  PROVE  Calm
<1>1. frame'[t][d] = f
  BY DEF Changed
<1>2. Kept(f) => KeptAt(t, d)
  BY <1>1 DEF Kept, KeptAt
<1> QED  BY <1>1, <1>2 DEF Calm, Changed

LEMMA CalmSetTop ==
  ASSUME CountInv, CountInv', NEW t \in Threads, depth[t] # 0, NEW f, SetTop(t, f),
         Tame(f) \/ Kept(f)
  PROVE  Calm
<1>1. PICK d \in Depths : Changed(t, d, f)
  BY SetTopMoves
<1> QED  BY <1>1, CalmAt

LEMMA CalmPush ==
  ASSUME CountInv, CountInv', NEW t \in Threads, NEW f, Push(t, f), Tame(f) \/ Kept(f)
  PROVE  Calm
<1>1. PICK d \in Depths : Changed(t, d, f)
  BY PushMoves
<1> QED  BY <1>1, CalmAt

LEMMA CalmPop ==
  ASSUME CountInv, NEW t \in Threads, depth[t] # 0, Pop(t) PROVE Calm
<1>1. depth[t] \in Depths /\ Changed(t, depth[t], Idle)
  BY PopMoves
<1>2. Tame(Idle)
  BY IdleFrame DEF Tame
<1> QED  BY <1>1, <1>2 DEF Calm, Changed

LEMMA CalmStill ==
  ASSUME UNCHANGED frame PROVE Calm
BY DEF Calm

\* The call of Top(t) goes on, at a point that is none of those of the invariant.
LEMMA CalmCollectLast ==
  ASSUME CountInv, CountInv', NEW t \in Threads, depth[t] # 0, CollectLast(t)
  PROVE  Calm
<1> DEFINE f == [Idle EXCEPT !.call = "collect", !.at = "begin"]
<1>1. f.call = "collect"
  BY IdleFrame DEF Frame
<1>2. SetTop(t, f)
  BY DEF CollectLast
<1> HIDE DEF f
<1>3. Tame(f)
  BY <1>1 DEF Tame
<1> QED  BY <1>2, <1>3, CalmSetTop

-----------------------------------------------------------------------------
(* Calls that start.                                                       *)

LEMMA StartStored ==
  ASSUME StorageInv, CountInv', NEW t \in Threads, NEW f \in Frame, Start(t, f),
         f.call \in StartCalls
  PROVE  StorageOK'
<1>0. CountInv /\ UNCHANGED <<target, shutdown>>
  BY DEF StorageInv, HookInv, Start
<1>1. PICK at \in {"begin", "collect"} :
        Push(t, [f EXCEPT !.at = at, !.todo = Collectable(t)])
  BY DEF Start
<1>2. PICK todo : Push(t, [f EXCEPT !.at = at, !.todo = todo])
  BY <1>1
<1> DEFINE h == [f EXCEPT !.at = at, !.todo = todo]
<1>3. h.call = f.call /\ h.at = at
  BY DEF Frame
<1>4. Push(t, h)
  BY <1>2
<1> HIDE DEF h
<1>5. Tame(h)
  BY <1>3 DEF Tame, StartCalls
<1>6. Calm
  BY <1>0, <1>4, <1>5, CalmPush
<1> QED  BY <1>0, <1>6, StorageSame

LEMMA StartResolveStored ==
  ASSUME StorageInv, CountInv', NEW t \in Threads, NEW p \in Plugins, StartResolve(t, p)
  PROVE  StorageOK'
<1> DEFINE f == [Idle EXCEPT !.call = "resolve", !.plugin = p]
<1>1. f \in Frame
  BY IdleFrame, Names, Zenon DEF Frame
<1>2. f.call \in StartCalls
  BY IdleFrame DEF Frame, StartCalls
<1>3. Start(t, f)
  BY DEF StartResolve
<1> HIDE DEF f
<1> QED  BY <1>1, <1>2, <1>3, StartStored

LEMMA StartReleaseTargetStored ==
  ASSUME StorageInv, CountInv', NEW t \in Threads, NEW p \in Plugins, NEW r \in Targets,
         StartReleaseTarget(t, p, r)
  PROVE  StorageOK'
<1> DEFINE f == [Idle EXCEPT !.call = "release_target", !.plugin = p, !.target = r]
<1>1. f \in Frame
  BY IdleFrame, Names, Zenon DEF Frame
<1>2. f.call \in StartCalls
  BY IdleFrame DEF Frame, StartCalls
<1>3. Start(t, f)
  BY DEF StartReleaseTarget
<1> HIDE DEF f
<1> QED  BY <1>1, <1>2, <1>3, StartStored

LEMMA StartAddStored ==
  ASSUME StorageInv, CountInv', NEW t \in Threads, NEW p \in Plugins, NEW r \in Targets,
         StartAdd(t, p, r)
  PROVE  StorageOK'
<1> DEFINE f == [Idle EXCEPT !.call = "add", !.plugin = p, !.target = r]
<1>1. f \in Frame
  BY IdleFrame, Names, Zenon DEF Frame
<1>2. f.call \in StartCalls
  BY IdleFrame DEF Frame, StartCalls
<1>3. Start(t, f)
  BY DEF StartAdd
<1> HIDE DEF f
<1> QED  BY <1>1, <1>2, <1>3, StartStored

LEMMA StartReleaseStored ==
  ASSUME StorageInv, CountInv', NEW t \in Threads, NEW p \in Plugins, StartRelease(t, p)
  PROVE  StorageOK'
<1> DEFINE f == [Idle EXCEPT !.call = "release", !.plugin = p]
<1>1. f \in Frame
  BY IdleFrame, Names, Zenon DEF Frame
<1>2. f.call \in StartCalls
  BY IdleFrame DEF Frame, StartCalls
<1>3. Start(t, f)
  BY DEF StartRelease
<1> HIDE DEF f
<1> QED  BY <1>1, <1>2, <1>3, StartStored

LEMMA StartRemoveStored ==
  ASSUME StorageInv, CountInv', NEW t \in Threads, NEW p \in Plugins, NEW c \in Callbacks,
         StartRemove(t, p, c)
  PROVE  StorageOK'
<1> DEFINE f == [Idle EXCEPT !.call = "remove", !.plugin = p, !.callback = c,
                             !.target = callback[c].target]
<1>0. callback[c].target \in Targets
  BY DEF StartRemove, OwnedBy, CountInv, LiveOK, HookInv, StorageInv
<1>1. f \in Frame
  BY <1>0, IdleFrame, Names, Zenon DEF Frame
<1>2. f.call \in StartCalls
  BY <1>0, IdleFrame DEF Frame, StartCalls
<1>3. Start(t, f)
  BY DEF StartRemove
<1> HIDE DEF f
<1> QED  BY <1>1, <1>2, <1>3, StartStored

-----------------------------------------------------------------------------
(* Calls that leave the targets alone.                                     *)

LEMMA RefuseStored ==
  ASSUME StorageInv, CountInv', NEW t \in Threads, depth[t] # 0, Refuse(t)
  PROVE  StorageOK'
<1>1. CountInv /\ Pop(t) /\ UNCHANGED <<target, shutdown>>
  BY DEF Refuse, StorageInv, HookInv
<1>2. Calm
  BY <1>1, CalmPop
<1> QED  BY <1>1, <1>2, StorageSame

LEMMA CollectAgainStored ==
  ASSUME StorageInv, CountInv', NEW t \in Threads, CollectAgain(t)
  PROVE  StorageOK'
<1>0. CountInv /\ UNCHANGED <<target, shutdown>>
  BY DEF StorageInv, HookInv, CollectAgain
<1>1. PICK g : g = Top(t)
  OBVIOUS
<1>2. depth[t] # 0 /\ g \in Frame /\ g.call = "collect"
  BY <1>0, <1>1, TopOK DEF CollectAgain, At
<1>3. PICK todo : SetTop(t, [g EXCEPT !.at = "collect", !.todo = todo])
  BY <1>1 DEF CollectAgain
<1> DEFINE f == [g EXCEPT !.at = "collect", !.todo = todo]
<1>4. f.call = "collect"
  BY <1>2 DEF Frame
<1>5. SetTop(t, f)
  BY <1>3
<1> HIDE DEF f
<1>6. Tame(f)
  BY <1>4 DEF Tame
<1>7. Calm
  BY <1>0, <1>2, <1>5, <1>6, CalmSetTop
<1> QED  BY <1>0, <1>7, StorageSame

LEMMA AwaitStored ==
  ASSUME StorageInv, CountInv', NEW t \in Threads, AwaitCallback(t)
  PROVE  StorageOK'
<1>0. CountInv /\ UNCHANGED <<target, shutdown>>
  BY DEF StorageInv, HookInv, AwaitCallback
<1>1. PICK g : g = Top(t)
  OBVIOUS
<1>2. depth[t] # 0 /\ g \in Frame /\ g.at = "wait" /\ FrameOK(g)
  BY <1>0, <1>1, TopOK DEF AwaitCallback
<1>3. PICK todo : SetTop(t, [g EXCEPT !.todo = todo])
  BY <1>1 DEF AwaitCallback
<1> DEFINE f == [g EXCEPT !.todo = todo]
<1>4. f.call = g.call /\ f.at = g.at
  BY <1>2 DEF Frame
<1>5. SetTop(t, f)
  BY <1>3
<1> HIDE DEF f
<1>6. Tame(f)
  BY <1>2, <1>4 DEF Tame, FrameOK, DispatchOK
<1>7. Calm
  BY <1>0, <1>2, <1>5, <1>6, CalmSetTop
<1> QED  BY <1>0, <1>7, StorageSame

LEMMA SetDoneStored ==
  ASSUME StorageInv, CountInv', NEW t \in Threads, SetDone(t) PROVE StorageOK'
<1>1. depth[t] # 0 /\ Refuse(t)
  BY DEF SetDone, Waited, At
<1> QED  BY <1>1, RefuseStored

LEMMA SetEnabledStored ==
  ASSUME StorageInv, CountInv', NEW t \in Threads, NEW p \in Plugins, NEW c \in Callbacks,
         NEW on \in BOOLEAN, SetEnabled(t, p, c, on)
  PROVE  StorageOK'
<1>0. CountInv /\ UNCHANGED <<target, shutdown>>
  BY DEF StorageInv, HookInv, SetEnabled
<1>1. CASE UNCHANGED threads
  <2>1. Calm
    BY <1>1, CalmStill DEF threads
  <2> QED  BY <1>0, <2>1, StorageSame
<1>2. CASE ~UNCHANGED threads
  <2> DEFINE f == [Idle EXCEPT !.call = "set", !.at = "wait", !.todo = {c}]
  <2>1. Push(t, f)
    BY <1>2 DEF SetEnabled
  <2>2. f.call = "set"
    BY IdleFrame DEF Frame
  <2> HIDE DEF f
  <2>3. Tame(f)
    BY <2>2 DEF Tame
  <2>4. Calm
    BY <1>0, <2>1, <2>3, CalmPush
  <2> QED  BY <1>0, <2>4, StorageSame
<1> QED  BY <1>1, <1>2

LEMMA AuthorizeStored ==
  ASSUME StorageInv, CountInv', NEW t \in Threads, NEW p \in Plugins, NEW active \in BOOLEAN,
         Authorize(t, p, active)
  PROVE  StorageOK'
<1>1. UNCHANGED <<target, shutdown>> /\ Calm
  BY CalmStill DEF Authorize, threads
<1> QED  BY <1>1, StorageSame

LEMMA RestoreStored ==
  ASSUME StorageInv, CountInv', NEW t \in Threads, NEW p \in Plugins, Restore(t, p)
  PROVE  StorageOK'
<1>0. CountInv /\ UNCHANGED <<target, shutdown>>
  BY DEF StorageInv, HookInv, Restore
<1> DEFINE f == [Idle EXCEPT !.call = "activate", !.at = "begin", !.plugin = p]
<1>1. f.call = "activate"
  BY IdleFrame DEF Frame
<1>2. Push(t, f)
  BY DEF Restore
<1> HIDE DEF f
<1>3. Tame(f)
  BY <1>1 DEF Tame
<1>4. Calm
  BY <1>0, <1>2, <1>3, CalmPush
<1> QED  BY <1>0, <1>4, StorageSame

LEMMA ActivateStored ==
  ASSUME StorageInv, CountInv', NEW t \in Threads, Activate(t) PROVE StorageOK'
<1>1. /\ CountInv /\ UNCHANGED <<target, shutdown>>
      /\ depth[t] # 0 /\ Pop(t)
  BY DEF StorageInv, HookInv, Activate, At
<1>2. Calm
  BY <1>1, CalmPop
<1> QED  BY <1>1, <1>2, StorageSame

LEMMA DeactivateStored ==
  ASSUME StorageInv, CountInv', NEW t \in Threads, NEW p \in Plugins, Deactivate(t, p)
  PROVE  StorageOK'
<1>0. CountInv /\ UNCHANGED <<target, shutdown>>
  BY DEF StorageInv, HookInv, Deactivate
<1>1. PICK todo : todo = OwnedBy(p)
  OBVIOUS
<1> DEFINE f == [Idle EXCEPT !.call = "deactivate", !.at = "wait", !.plugin = p, !.todo = todo]
<1>2. f.call = "deactivate"
  BY IdleFrame DEF Frame
<1>3. Push(t, f)
  BY <1>1 DEF Deactivate
<1> HIDE DEF f
<1>4. Tame(f)
  BY <1>2 DEF Tame
<1>5. Calm
  BY <1>0, <1>3, <1>4, CalmPush
<1> QED  BY <1>0, <1>5, StorageSame

LEMMA DeactivateDoneStored ==
  ASSUME StorageInv, CountInv', NEW t \in Threads, DeactivateDone(t) PROVE StorageOK'
<1>1. /\ CountInv /\ UNCHANGED <<target, shutdown>>
      /\ depth[t] # 0 /\ Pop(t)
  BY DEF StorageInv, HookInv, DeactivateDone, Waited, At
<1>2. Calm
  BY <1>1, CalmPop
<1> QED  BY <1>1, <1>2, StorageSame

-----------------------------------------------------------------------------
(* Collecting.                                                             *)

LEMMA CollectStored ==
  ASSUME StorageInv, CountInv', NEW t \in Threads, Collect(t) PROVE StorageOK'
<1>1. PICK g : g = Top(t)
  OBVIOUS
<1>2. CountInv /\ TypeOK /\ StorageOK
  BY DEF StorageInv, HookInv, CountInv
<1>3. depth[t] # 0 /\ g \in Frame /\ FrameOK(g) /\ g.at = "collect" /\ g.call # "none"
  BY <1>1, <1>2, TopOK DEF Collect
<1>4. g.call \notin {"dispatch", "direct", "shutdown"}
  BY <1>3 DEF FrameOK, DispatchOK, HostCallOK
<1>5. /\ g.todo # {} => \/ UNCHANGED target
                        \/ target' = Destroyed(Min(g.todo))
      /\ g.todo = {} => target' = Swept(target)
      /\ UNCHANGED <<owner, callback, shutdown>>
  BY <1>1 DEF Collect
<1>6. ASSUME NEW q \in Targets PROVE StorageSafe(q)
  <2>0. /\ target[q].enabled => target[q].storage
        /\ target[q].storage => target[q].state \in {"live", "retired"}
    BY <1>2 DEF StorageOK
  <2>1. CASE UNCHANGED target
    BY <2>0, <2>1 DEF StorageSafe
  <2>2. CASE g.todo # {} /\ target' = Destroyed(Min(g.todo))
    <3>1. g.todo \in SUBSET Targets /\ g.todo \in SUBSET Nat
      BY <1>3, HandleFacts DEF FrameOK
    <3>2. PICK r \in Targets : r = Min(g.todo)
      BY <2>2, <3>1, MinMember
    <3>3. /\ target'[q].state = target[q].state /\ target'[q].enabled = target[q].enabled
          /\ target'[q].direct = target[q].direct
          /\ target'[q].storage = (target[q].storage /\ ~(q = r /\ target[r].active = 0
                                     /\ ~target[r].enabled /\ ~Entering(r)))
      BY <1>2, <2>2, <3>2, DestroyedFacts
    <3> QED  BY <2>0, <3>3 DEF StorageSafe
  <2>3. CASE g.todo = {}
    <3>1. Mild(q)
      BY <1>2, <1>5, <2>3, SweptFacts DEF Mild
    <3> QED  BY <1>2, <3>1, MildSafe
  <2> QED  BY <1>5, <2>1, <2>2, <2>3
<1>7. Calm
  <2>1. CASE g.todo # {}
    <3>1. PICK todo : SetTop(t, [g EXCEPT !.todo = todo])
      BY <1>1, <2>1 DEF Collect
    <3> DEFINE f == [g EXCEPT !.todo = todo]
    <3>2. f.call = g.call /\ f.at = g.at
      BY <1>3 DEF Frame
    <3>3. SetTop(t, f)
      BY <3>1
    <3> HIDE DEF f
    <3>4. Tame(f)
      BY <1>3, <1>4, <3>2 DEF Tame
    <3> QED  BY <1>2, <1>3, <3>3, <3>4, CalmSetTop
  <2>2. CASE g.todo = {} /\ g.call = "collect"
    <3>1. Pop(t)
      BY <1>1, <2>2 DEF Collect
    <3> QED  BY <1>2, <1>3, <3>1, CalmPop
  <2>3. CASE g.todo = {} /\ g.call # "collect"
    <3> DEFINE f == [g EXCEPT !.at = "begin"]
    <3>1. SetTop(t, f)
      BY <1>1, <2>3 DEF Collect, Goto
    <3>2. f.call = g.call /\ f.at = "begin"
      BY <1>3 DEF Frame
    <3> HIDE DEF f
    <3>4. Tame(f)
      BY <1>4, <3>2 DEF Tame
    <3> QED  BY <1>2, <1>3, <3>1, <3>4, CalmSetTop
  <2> QED  BY <2>1, <2>2, <2>3
<1>8. shutdown' = "complete" => \A r \in Targets : ~target'[r].storage
  <2>1. \A r \in Targets : shutdown = "complete" => ~target[r].storage
    BY <1>2 DEF StorageOK
  <2> QED  BY <1>5, <1>6, <2>1 DEF StorageSafe
<1> QED  BY <1>6, <1>7, <1>8, StorageStep

-----------------------------------------------------------------------------
(* Targets and their callbacks.                                            *)

\* Records tg of the targets with the storage, the hooks, the direct calls and the
\* states of before.
MildTo(tg) ==
  \A q \in Targets : /\ tg[q].storage <=> target[q].storage
                     /\ tg[q].enabled => target[q].enabled
                     /\ tg[q].direct = target[q].direct
                     /\ tg[q].state = target[q].state

LEMMA MildPruned ==
  ASSUME NEW tg \in [Targets -> Target], MildTo(tg), NEW used, target' = Pruned(tg, used),
         NEW q \in Targets
  PROVE  Mild(q)
<1>1. /\ target'[q].state = tg[q].state \/ target'[q].state = "retired"
      /\ target'[q].enabled = tg[q].enabled /\ target'[q].storage = tg[q].storage
      /\ target'[q].direct = tg[q].direct
  BY PrunedFacts
<1> QED  BY <1>1 DEF MildTo, Mild

LEMMA MildPut ==
  ASSUME target \in [Targets -> Target], NEW r \in Targets, NEW x, NEW tg,
         tg = [target EXCEPT ![r] = x], x.storage = target[r].storage,
         x.enabled = target[r].enabled, x.direct = target[r].direct, x.state = target[r].state
  PROVE  MildTo(tg)
<1>1. tg[r] = x /\ \A q \in Targets : q # r => tg[q] = target[q]
  OBVIOUS
<1> QED  BY <1>1 DEF MildTo

LEMMA ResolveStored ==
  ASSUME StorageInv, CountInv', NEW t \in Threads, Resolve(t) PROVE StorageOK'
<1>0. /\ CountInv /\ target \in [Targets -> Target] /\ UNCHANGED shutdown
      /\ depth[t] # 0 /\ Pop(t)
  BY TypesOf DEF StorageInv, HookInv, Resolve, At
<1>1. PICK g : g = Top(t)
  OBVIOUS
<1>8. PICK p : p = g.plugin
  OBVIOUS
<1>5. ASSUME NEW r \in Live,
             target' = [target EXCEPT ![r].leases = @ \cup {p}, ![r].bindings = @ \cup {p}],
             NEW q \in Targets
      PROVE  Mild(q)
  <2>1. PICK y \in Target : y = target[r]
    BY <1>0 DEF Live
  <2> DEFINE x == [y EXCEPT !.leases = y.leases \cup {p}, !.bindings = y.bindings \cup {p}]
  <2>2. target' = [target EXCEPT ![r] = x]
    BY <1>0, <1>5, <2>1 DEF Live
  <2>3. x.state = y.state /\ x.storage = y.storage /\ x.enabled = y.enabled
        /\ x.direct = y.direct
    BY DEF Target
  <2> HIDE DEF x
  <2>4. target'[q] = IF q = r THEN x ELSE target[q]
    BY <1>0, <2>2
  <2> QED  BY <2>1, <2>3, <2>4 DEF Mild
<1>6. ASSUME NEW r \in Targets, target[r].state = "free", NEW f \in Functions,
             target' = [target EXCEPT ![r].state = "live", ![r].fn = f,
                                      ![r].leases = {p}, ![r].bindings = {p}],
             NEW q \in Targets
      PROVE  Mild(q)
  <2>1. PICK y \in Target : y = target[r]
    BY <1>0
  <2> DEFINE x == [y EXCEPT !.state = "live", !.fn = f, !.leases = {p}, !.bindings = {p}]
  <2>2. target' = [target EXCEPT ![r] = x]
    BY <1>0, <1>6, <2>1
  <2>3. x.state = "live" /\ x.storage = y.storage /\ x.enabled = y.enabled
        /\ x.direct = y.direct
    BY <2>1 DEF Target
  <2> HIDE DEF x
  <2>4. target'[q] = IF q = r THEN x ELSE target[q]
    BY <1>0, <2>2
  <2> QED  BY <2>1, <2>3, <2>4 DEF Mild
<1>7. \A q \in Targets : Mild(q)
  <2>0. CASE UNCHANGED target
    BY <2>0 DEF Mild
  <2>1. CASE OwnerReady(p)
    <3>1. PICK f \in Functions :
            LET old == {r \in Live : target[r].fn = f}
                new == {r \in Targets : /\ target[r].state = "free"
                                        /\ \A s \in 1..(r - 1) : target[s].state # "free"}
            IN \/ \E r \in old : /\ target[r].transition
                                 /\ UNCHANGED target
               \/ \E r \in old : /\ ~target[r].transition
                                 /\ target' = [target EXCEPT ![r].leases = @ \cup {p},
                                                             ![r].bindings = @ \cup {p}]
               \/ \E r \in new : /\ old = {}
                                 /\ target' = [target EXCEPT ![r].state = "live", ![r].fn = f,
                                                 ![r].leases = {p}, ![r].bindings = {p}]
      BY <1>1, <1>8, <2>1, Zenon DEF Resolve
    <3>3. CASE \E r \in Live :
                 target' = [target EXCEPT ![r].leases = @ \cup {p}, ![r].bindings = @ \cup {p}]
      BY <1>5, <3>3, Zenon
    <3>4. CASE \E r \in Targets :
                 /\ target[r].state = "free"
                 /\ target' = [target EXCEPT ![r].state = "live", ![r].fn = f,
                                             ![r].leases = {p}, ![r].bindings = {p}]
      BY <1>6, <3>4, Zenon
    <3> QED  BY <2>0, <3>1, <3>3, <3>4, Zenon
  <2>2. CASE ~OwnerReady(p)
    BY <1>1, <1>8, <2>0, <2>2 DEF Resolve
  <2> QED  BY <2>1, <2>2
<1> QED  BY <1>0, <1>7, CalmPop, StorageMild

LEMMA ReleaseTargetStored ==
  ASSUME StorageInv, CountInv', NEW t \in Threads, ReleaseTarget(t) PROVE StorageOK'
<1>0. CountInv /\ target \in [Targets -> Target]
  BY TypesOf DEF StorageInv, HookInv
<1>1. PICK g : g = Top(t)
  OBVIOUS
<1>2. PICK p, r : p = g.plugin /\ r = g.target
  OBVIOUS
<1>3. depth[t] # 0 /\ g.call = "release_target" /\ FrameOK(g)
  BY <1>0, <1>1, TopOK DEF ReleaseTarget, At
<1>4. r \in Targets
  BY <1>2, <1>3 DEF FrameOK, PluginCallOK
<1>5. CASE Refuse(t)
  BY <1>3, <1>5, RefuseStored
<1>6. CASE ~Refuse(t)
  <2>1. PICK tg : tg = [target EXCEPT ![r].leases = @ \ {p}, ![r].bindings = @ \ {p}]
    OBVIOUS
  <2>2. /\ target' = Pruned(tg, Used(callback)) /\ CollectLast(t) /\ UNCHANGED shutdown
    BY <1>1, <1>2, <1>6, <2>1 DEF ReleaseTarget
  <2>3. PICK y \in Target : y = target[r]
    BY <1>0, <1>4
  <2> DEFINE x == [y EXCEPT !.leases = y.leases \ {p}, !.bindings = y.bindings \ {p}]
  <2>4. tg = [target EXCEPT ![r] = x]
    BY <1>0, <1>4, <2>1, <2>3
  <2>5. /\ x \in Target /\ x.state = y.state /\ x.storage = y.storage
        /\ x.enabled = y.enabled /\ x.direct = y.direct
    BY DEF Target
  <2> HIDE DEF x
  <2>6. tg \in [Targets -> Target] /\ MildTo(tg)
    BY <1>0, <1>4, <2>3, <2>4, <2>5, MildPut
  <2>7. \A q \in Targets : Mild(q)
    BY <2>2, <2>6, MildPruned
  <2> QED  BY <1>0, <1>3, <2>2, <2>7, CalmCollectLast, StorageMild
<1> QED  BY <1>5, <1>6

-----------------------------------------------------------------------------
(* AddCallback.                                                            *)

\* One target changes, and its storage does not.
LEMMA MildAt ==
  ASSUME NEW r \in Targets, \A q \in Targets : q # r => target'[q] = target[q],
         target'[r].storage = target[r].storage, target'[r].direct = target[r].direct,
         target'[r].state = target[r].state, target'[r].enabled => target[r].enabled
  PROVE  \A q \in Targets : Mild(q)
<1>1. ASSUME NEW q \in Targets, q # r PROVE Mild(q)
  <2>1. target'[q] = target[q]
    BY <1>1
  <2> QED  BY <2>1 DEF Mild
<1>2. Mild(r)
  BY DEF Mild
<1> QED  BY <1>1, <1>2

LEMMA AddStored ==
  ASSUME StorageInv, CountInv', NEW t \in Threads, Add(t) PROVE StorageOK'
<1>0. CountInv /\ target \in [Targets -> Target]
  BY TypesOf DEF StorageInv, HookInv
<1>1. PICK g : g = Top(t)
  OBVIOUS
<1>2. PICK r : r = g.target
  OBVIOUS
<1>3. depth[t] # 0 /\ g.call = "add" /\ g.at = "begin" /\ FrameOK(g) /\ g \in Frame
  BY <1>0, <1>1, TopOK DEF Add, At
<1>4. r \in Targets
  BY <1>2, <1>3 DEF FrameOK, PluginCallOK
<1>5. CASE Refuse(t)
  BY <1>3, <1>5, RefuseStored
<1>6. CASE ~Refuse(t)
  <2>1. PICK c \in Callbacks :
          /\ ~target[r].transition /\ target[r].direct = 0
          /\ IF CallbacksOf(r) = {}
             THEN /\ target' = [target EXCEPT ![r].transition = TRUE]
                  /\ SetTop(t, [g EXCEPT !.at = "install", !.callback = c])
             ELSE UNCHANGED target /\ Pop(t)
          /\ UNCHANGED shutdown
    BY <1>1, <1>2, <1>6 DEF Add, Steady
  <2>2. CASE CallbacksOf(r) = {}
    <3>1. target' = WithTransition(r, TRUE)
      BY <2>1, <2>2 DEF WithTransition
    <3>2. /\ \A q \in Targets : q # r => target'[q] = target[q]
          /\ target'[r].storage = target[r].storage /\ target'[r].direct = target[r].direct
          /\ target'[r].state = target[r].state /\ target'[r].enabled = target[r].enabled
      BY <1>0, <1>4, <3>1, TransitionBegins
    <3>3. \A q \in Targets : Mild(q)
      BY <1>4, <3>2, MildAt
    <3> DEFINE f == [g EXCEPT !.at = "install", !.callback = c]
    <3>4. f.call = "add" /\ f.at = "install" /\ f.target = r
      BY <1>2, <1>3 DEF Frame
    <3>5. SetTop(t, f)
      BY <2>1, <2>2
    <3> HIDE DEF f
    <3>6. Kept(f)
      BY <2>1, <3>2, <3>4 DEF Kept, StorageFor
    <3>7. Calm
      BY <1>0, <1>3, <3>5, <3>6, CalmSetTop
    <3> QED  BY <2>1, <3>3, <3>7, StorageMild
  <2>3. CASE CallbacksOf(r) # {}
    <3>1. UNCHANGED <<target, shutdown>> /\ Pop(t)
      BY <2>1, <2>3
    <3>2. Calm
      BY <1>0, <1>3, <3>1, CalmPop
    <3> QED  BY <3>1, <3>2, StorageSame
  <2> QED  BY <2>2, <2>3
<1> QED  BY <1>5, <1>6

LEMMA InstallStored ==
  ASSUME StorageInv, CountInv', "reinstall" \notin Risks, NEW t \in Threads, Install(t)
  PROVE  StorageOK'
<1>0. HookInv /\ CountInv /\ target \in [Targets -> Target] /\ StorageOK
  BY TypesOf DEF StorageInv, HookInv
<1>1. PICK g : g = Top(t)
  OBVIOUS
<1>2. PICK r : r = g.target
  OBVIOUS
<1>3. /\ depth[t] # 0 /\ g \in Frame /\ depth[t] \in Depths
      /\ g = frame[t][depth[t]] /\ g.call = "add" /\ g.at = "install"
      /\ r \in Targets /\ shutdown = "no" /\ r \in Live
  BY <1>0, <1>1, <1>2, AddTop DEF Install
<1>4. target[r].direct = 0 /\ target[r].state = "live"
  BY <1>0, <1>2, <1>3 DEF StorageOK, StorageFor, Live
<1>5. /\ UNCHANGED shutdown
      /\ \/ target' = Enabled(r)
         \/ target' = NotEnabled(r) /\ ~target[r].storage
      /\ \/ SetTop(t, [g EXCEPT !.at = "finish"])
         \/ SetTop(t, [g EXCEPT !.at = "finish", !.flag = TRUE])
  BY <1>1, <1>2 DEF Install, Goto
<1>6. Calm
  <2>1. PICK f : SetTop(t, f) /\ \/ f = [g EXCEPT !.at = "finish"]
                                 \/ f = [g EXCEPT !.at = "finish", !.flag = TRUE]
    BY <1>5
  <2>2. f.call = "add" /\ f.at = "finish"
    BY <1>3, <2>1 DEF Frame
  <2>3. Tame(f)
    BY <2>2 DEF Tame
  <2> QED  BY <1>0, <1>3, <2>1, <2>3, CalmSetTop
<1>7. CASE target' = NotEnabled(r) /\ ~target[r].storage
  <2>1. /\ \A q \in Targets : q # r => target'[q] = target[q]
        /\ target'[r].storage = target[r].storage /\ target'[r].direct = target[r].direct
        /\ target'[r].state = target[r].state /\ target'[r].enabled = target[r].enabled
    <3>1. target[r].storage \in BOOLEAN /\ target'[r].storage = FALSE
      BY <1>0, <1>3, <1>7 DEF NotEnabled, Target
    <3> QED  BY <1>0, <1>3, <1>7, <3>1, NotEnabledFacts
  <2>2. \A q \in Targets : Mild(q)
    BY <1>3, <2>1, MildAt
  <2> QED  BY <1>5, <1>6, <2>2, StorageMild
<1>8. CASE target' = Enabled(r)
  <2>1. /\ \A q \in Targets : q # r => target'[q] = target[q]
        /\ target'[r].storage /\ target'[r].direct = target[r].direct
        /\ target'[r].state = target[r].state
    BY <1>0, <1>3, <1>8, EnabledFacts
  <2>2. StorageSafe(r)
    BY <1>3, <1>4, <2>1 DEF StorageSafe
  <2>3. ASSUME NEW q \in Targets, q # r PROVE StorageSafe(q)
    <3>1. Mild(q)
      BY <2>1, <2>3 DEF Mild
    <3> QED  BY <1>0, <3>1, MildSafe
  <2>4. \A q \in Targets : StorageSafe(q)
    BY <2>2, <2>3
  <2>5. shutdown' # "complete"
    BY <1>3, <1>5
  <2> QED  BY <1>6, <2>4, <2>5, StorageStep
<1> QED  BY <1>5, <1>7, <1>8

LEMMA AddDoneStored ==
  ASSUME StorageInv, CountInv', NEW t \in Threads, AddDone(t) PROVE StorageOK'
<1>0. HookInv /\ CountInv /\ target \in [Targets -> Target]
  BY TypesOf DEF StorageInv, HookInv
<1>1. PICK g : g = Top(t)
  OBVIOUS
<1>2. PICK r : r = g.target
  OBVIOUS
<1>3. depth[t] # 0 /\ r \in Targets
  BY <1>0, <1>1, <1>2, AddTop DEF AddDone
<1>4. target' = WithTransition(r, FALSE) /\ Pop(t) /\ shutdown' = shutdown
  BY <1>1, <1>2 DEF AddDone, WithTransition
<1>5. /\ \A q \in Targets : q # r => target'[q] = target[q]
      /\ target'[r].storage = target[r].storage /\ target'[r].direct = target[r].direct
      /\ target'[r].state = target[r].state /\ target'[r].enabled = target[r].enabled
  BY <1>0, <1>3, <1>4, TransitionEnds
<1>6. \A q \in Targets : Mild(q)
  BY <1>3, <1>5, MildAt
<1>7. Calm
  BY <1>0, <1>3, <1>4, CalmPop
<1> QED  BY <1>4, <1>6, <1>7, StorageMild

-----------------------------------------------------------------------------
(* RemoveCallback.                                                         *)

LEMMA RemoveStored ==
  ASSUME StorageInv, CountInv', NEW t \in Threads, Remove(t) PROVE StorageOK'
<1>0. CountInv /\ target \in [Targets -> Target]
  BY TypesOf DEF StorageInv, HookInv
<1>1. PICK g : g = Top(t)
  OBVIOUS
<1>2. PICK r : r = g.target
  OBVIOUS
<1>3. depth[t] # 0 /\ g.call = "remove" /\ FrameOK(g) /\ g \in Frame
  BY <1>0, <1>1, TopOK DEF Remove, At
<1>4. r \in Targets
  BY <1>2, <1>3 DEF FrameOK, PluginCallOK
<1>5. CASE Refuse(t)
  BY <1>3, <1>5, RefuseStored
<1>6. CASE ~Refuse(t)
  <2>1. PICK at, todo, flag : SetTop(t, [g EXCEPT !.at = at, !.todo = todo, !.flag = flag])
    BY <1>1, <1>2, <1>6 DEF Remove
  <2>2. target' = WithTransition(r, TRUE) /\ UNCHANGED shutdown
    BY <1>1, <1>2, <1>6 DEF Remove, WithTransition
  <2> DEFINE f == [g EXCEPT !.at = at, !.todo = todo, !.flag = flag]
  <2>3. f.call = "remove" /\ SetTop(t, f)
    BY <1>3, <2>1 DEF Frame
  <2> HIDE DEF f
  <2>4. Tame(f)
    BY <2>3 DEF Tame
  <2>5. Calm
    BY <1>0, <1>3, <2>3, <2>4, CalmSetTop
  <2>6. /\ \A q \in Targets : q # r => target'[q] = target[q]
        /\ target'[r].storage = target[r].storage /\ target'[r].direct = target[r].direct
        /\ target'[r].state = target[r].state /\ target'[r].enabled = target[r].enabled
    BY <1>0, <1>4, <2>2, TransitionBegins
  <2>7. \A q \in Targets : Mild(q)
    BY <1>4, <2>6, MildAt
  <2> QED  BY <2>2, <2>5, <2>7, StorageMild
<1> QED  BY <1>5, <1>6

LEMMA RestoreForRemoveStored ==
  ASSUME StorageInv, CountInv', NEW t \in Threads, RestoreForRemove(t) PROVE StorageOK'
<1>0. HookInv /\ CountInv /\ target \in [Targets -> Target]
  BY TypesOf DEF StorageInv, HookInv
<1>1. PICK g : g = Top(t)
  OBVIOUS
<1>2. PICK r : r = g.target
  OBVIOUS
<1>3. depth[t] # 0 /\ r \in Targets /\ g \in Frame /\ g.call = "remove"
  BY <1>0, <1>1, <1>2, RemoveTop DEF RestoreForRemove
<1>4. /\ UNCHANGED shutdown
      /\ \/ target' = Restored(r) /\ SetTop(t, [g EXCEPT !.at = "wait"])
         \/ target' = WithTransition(r, FALSE) /\ Pop(t)
  BY <1>1, <1>2 DEF RestoreForRemove, Goto, WithTransition
<1>5. CASE target' = Restored(r) /\ SetTop(t, [g EXCEPT !.at = "wait"])
  <2> DEFINE f == [g EXCEPT !.at = "wait"]
  <2>1. f.call = "remove" /\ SetTop(t, f)
    BY <1>3, <1>5 DEF Frame
  <2> HIDE DEF f
  <2>2. Tame(f)
    BY <2>1 DEF Tame
  <2>3. Calm
    BY <1>0, <1>3, <2>1, <2>2, CalmSetTop
  <2>4. /\ \A q \in Targets : q # r => target'[q] = target[q]
        /\ target'[r].storage = target[r].storage /\ target'[r].direct = target[r].direct
        /\ target'[r].state = target[r].state /\ ~target'[r].enabled
    BY <1>0, <1>3, <1>5, RestoredFacts
  <2>5. \A q \in Targets : Mild(q)
    BY <1>3, <2>4, MildAt
  <2> QED  BY <1>4, <2>3, <2>5, StorageMild
<1>6. CASE target' = WithTransition(r, FALSE) /\ Pop(t)
  <2>1. Calm
    BY <1>0, <1>3, <1>6, CalmPop
  <2>2. /\ \A q \in Targets : q # r => target'[q] = target[q]
        /\ target'[r].storage = target[r].storage /\ target'[r].direct = target[r].direct
        /\ target'[r].state = target[r].state /\ target'[r].enabled = target[r].enabled
    BY <1>0, <1>3, <1>6, TransitionEnds
  <2>3. \A q \in Targets : Mild(q)
    BY <1>3, <2>2, MildAt
  <2> QED  BY <1>4, <2>1, <2>3, StorageMild
<1> QED  BY <1>4, <1>5, <1>6

LEMMA RemoveDoneStored ==
  ASSUME StorageInv, CountInv', NEW t \in Threads, RemoveDone(t) PROVE StorageOK'
<1>0. HookInv /\ CountInv /\ target \in [Targets -> Target]
  BY TypesOf DEF StorageInv, HookInv
<1>1. PICK g : g = Top(t)
  OBVIOUS
<1>2. PICK r, tg : r = g.target /\ tg = WithTransition(r, FALSE)
  OBVIOUS
<1>3. depth[t] # 0 /\ r \in Targets
  BY <1>0, <1>1, <1>2, RemoveTop DEF RemoveDone, Waited
<1>4. PICK used : target' = Pruned(tg, used)
  BY <1>1, <1>2 DEF RemoveDone, WithTransition
<1>5. CollectLast(t) /\ shutdown' = shutdown
  BY DEF RemoveDone
<1>6. /\ tg \in [Targets -> Target] /\ \A q \in Targets : q # r => tg[q] = target[q]
      /\ tg[r].state = target[r].state /\ tg[r].storage = target[r].storage
      /\ tg[r].enabled = target[r].enabled /\ tg[r].direct = target[r].direct
  BY <1>0, <1>2, <1>3, TransitionEnds
<1>7. MildTo(tg)
  <2>1. ASSUME NEW q \in Targets
        PROVE  /\ tg[q].storage = target[q].storage /\ tg[q].enabled = target[q].enabled
               /\ tg[q].direct = target[q].direct /\ tg[q].state = target[q].state
    BY <1>6
  <2> QED  BY <2>1 DEF MildTo
<1>8. \A q \in Targets : Mild(q)
  BY <1>4, <1>6, <1>7, MildPruned
<1>9. Calm
  BY <1>0, <1>3, <1>5, CalmCollectLast
<1> QED  BY <1>5, <1>8, <1>9, StorageMild

-----------------------------------------------------------------------------
(* ReleasePlugin.                                                          *)

LEMMA ReleaseStored ==
  ASSUME StorageInv, CountInv', NEW t \in Threads, Release(t) PROVE StorageOK'
<1>0. CountInv
  BY DEF StorageInv, HookInv
<1>1. PICK g : g = Top(t)
  OBVIOUS
<1>2. depth[t] # 0 /\ g.call = "release" /\ g \in Frame
  BY <1>0, <1>1, TopOK DEF Release, At
<1>3. CASE Refuse(t)
  BY <1>2, <1>3, RefuseStored
<1>4. CASE ~Refuse(t)
  <2>1. PICK ops :
          /\ SetTop(t, [g EXCEPT !.at = "restore", !.ops = ops])
          /\ target' = [r \in Targets |-> IF r \in ops
                          THEN [target[r] EXCEPT !.transition = TRUE] ELSE target[r]]
          /\ UNCHANGED shutdown
    BY <1>1, <1>4 DEF Release
  <2> DEFINE f == [g EXCEPT !.at = "restore", !.ops = ops]
  <2>2. f.call = "release" /\ SetTop(t, f)
    BY <1>2, <2>1 DEF Frame
  <2> HIDE DEF f
  <2>3. Tame(f)
    BY <2>2 DEF Tame
  <2>4. Calm
    BY <1>0, <1>2, <2>2, <2>3, CalmSetTop
  <2>5. ASSUME NEW q \in Targets PROVE Mild(q)
    <3>1. /\ target'[q].state = target[q].state /\ target'[q].enabled = target[q].enabled
          /\ target'[q].storage = target[q].storage /\ target'[q].direct = target[q].direct
      BY <1>0, <2>1, TakenFacts
    <3> QED  BY <3>1 DEF Mild
  <2> QED  BY <2>1, <2>4, <2>5, StorageMild
<1> QED  BY <1>3, <1>4

\* A release goes on, and restores no more than one function.
LEMMA ReleaseGoesOn ==
  ASSUME StorageInv, CountInv', NEW t \in Threads, depth[t] # 0, NEW f, SetTop(t, f),
         f.call = "release", NEW r \in Targets, target' = target \/ target' = Restored(r),
         UNCHANGED shutdown
  PROVE  StorageOK'
<1>0. CountInv /\ target \in [Targets -> Target]
  BY TypesOf DEF StorageInv, HookInv
<1>1. Tame(f)
  BY DEF Tame
<1>2. Calm
  BY <1>0, <1>1, CalmSetTop
<1>3. CASE target' = target
  BY <1>2, <1>3, StorageSame
<1>4. CASE target' = Restored(r)
  <2>1. /\ \A q \in Targets : q # r => target'[q] = target[q]
        /\ target'[r].storage = target[r].storage /\ target'[r].direct = target[r].direct
        /\ target'[r].state = target[r].state /\ ~target'[r].enabled
    BY <1>0, <1>4, RestoredFacts
  <2>2. \A q \in Targets : Mild(q)
    BY <2>1, MildAt
  <2> QED  BY <1>2, <2>2, StorageMild
<1> QED  BY <1>3, <1>4

LEMMA ReleaseOpStored ==
  ASSUME StorageInv, CountInv', NEW t \in Threads, ReleaseOp(t) PROVE StorageOK'
<1>0. HookInv
  BY DEF StorageInv
<1>1. PICK g : g = Top(t)
  OBVIOUS
<1>2. PICK p, r, mine : p = g.plugin /\ r = Min(g.ops) /\ mine = OwnedOn(p, r)
  OBVIOUS
<1>3. g \in Frame /\ depth[t] # 0 /\ g.call = "release" /\ g.ops \in SUBSET Targets /\ g.ops # {}
  BY <1>0, <1>1, ReleaseHolds DEF ReleaseOp
<1>4. r \in Targets
  BY <1>2, <1>3, MinMember, HandleFacts
<1>5. PICK refused \in BOOLEAN :
        /\ target' = target \/ target' = Restored(r)
        /\ SetTop(t, [g EXCEPT !.at = "wait", !.target = r, !.todo = mine, !.flag = refused])
        /\ UNCHANGED shutdown
  BY <1>1, <1>2 DEF ReleaseOp
<1> DEFINE f == [g EXCEPT !.at = "wait", !.target = r, !.todo = mine, !.flag = refused]
<1>6. f.call = "release" /\ SetTop(t, f)
  BY <1>3, <1>5 DEF Frame
<1> HIDE DEF f
<1> QED  BY <1>3, <1>4, <1>5, <1>6, ReleaseGoesOn

LEMMA ReleaseRetryStored ==
  ASSUME StorageInv, CountInv', NEW t \in Threads, ReleaseRetry(t) PROVE StorageOK'
<1>0. HookInv /\ At(t, "release", "wait") /\ UNCHANGED shutdown
  BY DEF StorageInv, ReleaseRetry, Waited
<1>1. PICK g : g = Top(t)
  OBVIOUS
<1>2. PICK r : r = g.target
  OBVIOUS
<1>3. g \in Frame /\ depth[t] # 0 /\ g.call = "release" /\ r \in Targets
  BY <1>0, <1>1, <1>2, ReleaseHolds
<1>4. PICK f :
        /\ SetTop(t, f)
        /\ target' = target \/ target' = Restored(r)
        /\ \/ f = [g EXCEPT !.at = "drain"]
           \/ f = NextOp(g)
           \/ f = NextOp([g EXCEPT !.failed = g.failed \cup {r}])
  BY <1>1, <1>2 DEF ReleaseRetry
<1>5. f.call = "release"
  BY <1>3, <1>4 DEF NextOp, Frame
<1> QED  BY <1>0, <1>3, <1>4, <1>5, ReleaseGoesOn

LEMMA ReleaseDrainStored ==
  ASSUME StorageInv, CountInv', NEW t \in Threads, ReleaseDrain(t) PROVE StorageOK'
<1>0. HookInv /\ At(t, "release", "drain") /\ UNCHANGED <<target, shutdown>>
  BY DEF StorageInv, ReleaseDrain
<1>1. PICK g : g = Top(t)
  OBVIOUS
<1>2. PICK r : r = g.target
  OBVIOUS
<1>3. g \in Frame /\ depth[t] # 0 /\ g.call = "release" /\ r \in Targets
  BY <1>0, <1>1, <1>2, ReleaseHolds
<1>4. PICK f : f = NextOp(g)
  OBVIOUS
<1>5. f.call = "release" /\ SetTop(t, f)
  BY <1>1, <1>3, <1>4, NextOpFacts DEF ReleaseDrain
<1> QED  BY <1>0, <1>3, <1>5, ReleaseGoesOn

LEMMA ReleaseDoneStored ==
  ASSUME StorageInv, CountInv', NEW t \in Threads, ReleaseDone(t) PROVE StorageOK'
<1>0. /\ HookInv /\ CountInv /\ target \in [Targets -> Target]
      /\ depth[t] # 0 /\ CollectLast(t) /\ UNCHANGED shutdown
  BY TypesOf DEF StorageInv, HookInv, ReleaseDone, At
<1>1. PICK g : g = Top(t)
  OBVIOUS
<1>2. PICK p, held, done, tg :
        /\ p = g.plugin /\ held = HeldBy(g) /\ done = held \ g.failed
        /\ tg = Freed(p, held, done)
  OBVIOUS
<1>3. PICK used : target' = Pruned(tg, used)
  BY <1>1, <1>2 DEF ReleaseDone, Freed
<1>4. IsFreed(tg, p, held, done)
  BY <1>0, <1>2, FreedFacts
<1>5. tg \in [Targets -> Target] /\ MildTo(tg)
  BY <1>4 DEF IsFreed, MildTo
<1>6. \A q \in Targets : Mild(q)
  BY <1>3, <1>5, MildPruned
<1>7. Calm
  BY <1>0, CalmCollectLast
<1> QED  BY <1>0, <1>6, <1>7, StorageMild

-----------------------------------------------------------------------------
(* Shutdown.                                                               *)

LEMMA StartShutdownStored ==
  ASSUME StorageInv, CountInv', NEW t \in Threads, StartShutdown(t) PROVE StorageOK'
<1>0. CountInv /\ target \in [Targets -> Target] /\ StorageOK /\ shutdown' = "begun"
  BY TypesOf DEF StorageInv, HookInv, StartShutdown
<1>1. PICK f : /\ Push(t, f)
               /\ \E ops, todo : f = [Idle EXCEPT !.call = "shutdown", !.at = "restore",
                                                  !.ops = ops, !.todo = todo]
  BY DEF StartShutdown
<1>2. f.call = "shutdown" /\ f.at = "restore"
  <2>1. PICK x \in Frame : x = Idle
    BY IdleFrame
  <2> QED  BY <1>1, <2>1 DEF Frame
<1>3. Tame(f)
  BY <1>2 DEF Tame
<1>4. Calm
  BY <1>0, <1>1, <1>3, CalmPush
<1>5. ASSUME NEW q \in Targets PROVE StorageSafe(q)
  <2>1. PICK y \in Target : y = target[q]
    BY <1>0
  <2>2. target' = [x \in Targets |-> IF shutdown = "no" /\ x \in Live
                     THEN [target[x] EXCEPT !.leases = {}, !.transition = TRUE]
                     ELSE target[x]]
    BY DEF StartShutdown
  <2>3. target'[q] = IF shutdown = "no" /\ q \in Live
                     THEN [y EXCEPT !.leases = {}, !.transition = TRUE] ELSE y
    BY <2>1, <2>2
  <2>4. /\ target'[q].state = target[q].state /\ target'[q].enabled = target[q].enabled
        /\ target'[q].storage = target[q].storage /\ target'[q].direct = target[q].direct
    BY <2>1, <2>3 DEF Target
  <2>5. Mild(q)
    BY <2>4 DEF Mild
  <2> QED  BY <1>0, <2>5, MildSafe
<1> QED  BY <1>0, <1>4, <1>5, StorageStep

LEMMA ShutdownRestoreStored ==
  ASSUME StorageInv, CountInv', NEW t \in Threads, ShutdownRestore(t) PROVE StorageOK'
<1>0. /\ CountInv /\ target \in [Targets -> Target] /\ At(t, "shutdown", "restore")
      /\ depth[t] # 0 /\ UNCHANGED shutdown
  BY TypesOf DEF StorageInv, HookInv, ShutdownRestore, At
<1>1. PICK g : g = Top(t)
  OBVIOUS
<1>2. g \in Frame /\ g.call = "shutdown" /\ g.at = "restore" /\ g.ops \in SUBSET Targets
  BY <1>0, <1>1, ShutdownTop DEF At
<1>3. PICK r : r = Min(g.ops)
  OBVIOUS
<1>4. PICK f :
        /\ SetTop(t, f)
        /\ \/ target' = target /\ f = [g EXCEPT !.at = "wait"]
           \/ g.ops # {} /\ target' = Restored(r) /\ f = [g EXCEPT !.ops = g.ops \ {r}]
           \/ /\ target' = target
              /\ f = [g EXCEPT !.ops = g.ops \ {r}, !.failed = g.failed \cup {r}]
  BY <1>1, <1>3 DEF ShutdownRestore, Goto
<1>5. f.call = "shutdown" /\ f.at # "destroy"
  BY <1>2, <1>4 DEF Frame
<1>6. Tame(f)
  BY <1>5 DEF Tame
<1>7. Calm
  BY <1>0, <1>4, <1>6, CalmSetTop
<1>8. CASE target' = target
  BY <1>0, <1>7, <1>8, StorageSame
<1>9. CASE g.ops # {} /\ target' = Restored(r)
  <2>1. r \in Targets
    BY <1>2, <1>3, <1>9, MinMember, HandleFacts
  <2>2. /\ \A q \in Targets : q # r => target'[q] = target[q]
        /\ target'[r].storage = target[r].storage /\ target'[r].direct = target[r].direct
        /\ target'[r].state = target[r].state /\ ~target'[r].enabled
    BY <1>0, <1>9, <2>1, RestoredFacts
  <2>3. \A q \in Targets : Mild(q)
    BY <2>1, <2>2, MildAt
  <2> QED  BY <1>0, <1>7, <2>3, StorageMild
<1> QED  BY <1>4, <1>8, <1>9

LEMMA ShutdownWaitedStored ==
  ASSUME StorageInv, CountInv', NEW t \in Threads, ShutdownWaited(t) PROVE StorageOK'
<1>0. /\ CountInv /\ StorageOK /\ At(t, "shutdown", "wait") /\ UNCHANGED <<target, shutdown>>
      /\ depth[t] # 0
  BY DEF StorageInv, HookInv, ShutdownWaited, Waited, At
<1>1. PICK g : g = Top(t)
  OBVIOUS
<1>2. g \in Frame /\ g.call = "shutdown"
  BY <1>0, <1>1, ShutdownTop
<1>3. PICK ops : ops = {r \in Targets : target[r].state \in {"live", "retired"}} \ g.failed
  OBVIOUS
<1>4. PICK f : f = [g EXCEPT !.at = "destroy", !.ops = ops]
  OBVIOUS
<1>5. SetTop(t, f)
  BY <1>1, <1>3, <1>4 DEF ShutdownWaited
<1>6. f.call = "shutdown" /\ f.at = "destroy" /\ f.ops = ops /\ f.failed = g.failed
  BY <1>2, <1>4 DEF Frame
<1>7. \A r \in Targets : target[r].storage => r \in ops \cup g.failed
  BY <1>0, <1>3 DEF StorageOK
<1>8. Kept(f)
  BY <1>0, <1>6, <1>7 DEF Kept, StorageFor
<1>9. Calm
  BY <1>0, <1>5, <1>8, CalmSetTop
<1> QED  BY <1>0, <1>9, StorageSame

LEMMA ShutdownDestroyStored ==
  ASSUME StorageInv, CountInv', NEW t \in Threads, ShutdownDestroy(t) PROVE StorageOK'
<1>0. /\ CountInv /\ TypeOK /\ StorageOK /\ At(t, "shutdown", "destroy")
      /\ depth[t] # 0 /\ depth[t] \in Depths /\ UNCHANGED shutdown
  BY TypesOf DEF StorageInv, HookInv, CountInv, ShutdownDestroy, At, TypeOK, Depths
<1>1. PICK g : g = Top(t)
  OBVIOUS
<1>2. /\ g \in Frame /\ g.call = "shutdown" /\ g.at = "destroy"
      /\ g.ops \in SUBSET Targets /\ g.ops # {}
  BY <1>0, <1>1, ShutdownTop DEF ShutdownDestroy, At
<1>3. PICK r : r = Min(g.ops)
  OBVIOUS
<1>4. r \in Targets
  BY <1>2, <1>3, MinMember, HandleFacts
<1>5. PICK gone, S :
        /\ gone \in {Destroyed(r), target} /\ target' = gone
        /\ S = IF gone[r].storage THEN g.failed \cup {r} ELSE g.failed
        /\ SetTop(t, [g EXCEPT !.ops = g.ops \ {r}, !.failed = S])
  BY <1>1, <1>3 DEF ShutdownDestroy
<1>6. PICK f : f = [g EXCEPT !.ops = g.ops \ {r}, !.failed = S]
  OBVIOUS
<1>7. /\ f.call = "shutdown" /\ f.at = "destroy" /\ f.ops = g.ops \ {r} /\ f.failed = S
      /\ SetTop(t, f)
  BY <1>2, <1>5, <1>6 DEF Frame
<1>8. ASSUME NEW q \in Targets
      PROVE  StorageSafe(q) /\ (target'[q].storage => target[q].storage)
  <2>0. /\ target[q].enabled => target[q].storage
        /\ target[q].storage => target[q].state \in {"live", "retired"}
    BY <1>0 DEF StorageOK
  <2>1. CASE target' = target
    BY <2>0, <2>1 DEF StorageSafe
  <2>2. CASE target' = Destroyed(r)
    <3>1. /\ target'[q].state = target[q].state /\ target'[q].enabled = target[q].enabled
          /\ target'[q].direct = target[q].direct
          /\ target'[q].storage = (target[q].storage /\ ~(q = r /\ target[r].active = 0
                                     /\ ~target[r].enabled /\ ~Entering(r)))
      BY <1>0, <1>4, <2>2, DestroyedFacts
    <3> QED  BY <2>0, <3>1 DEF StorageSafe
  <2> QED  BY <1>5, <2>1, <2>2
<1>9. \A q \in Targets : target'[q].storage => q \in f.ops \cup f.failed
  <2>1. g = frame[t][depth[t]]
    BY <1>1 DEF Top
  <2>2. StorageFor(g)
    BY <1>0, <2>1 DEF StorageOK
  <2>3. \A q \in Targets : target[q].storage => q \in g.ops \cup g.failed
    BY <1>2, <2>2 DEF StorageFor
  <2>4. ASSUME NEW q \in Targets, target'[q].storage PROVE q \in f.ops \cup f.failed
    <3>1. q \in g.ops \cup g.failed
      BY <1>8, <2>3, <2>4
    <3>2. CASE q = r
      BY <1>5, <1>7, <2>4, <3>2
    <3>3. CASE q # r
      BY <1>5, <1>7, <3>1, <3>3
    <3> QED  BY <3>2, <3>3
  <2> QED  BY <2>4
<1>10. Kept(f)
  BY <1>7, <1>9 DEF Kept, StorageFor
<1>11. Calm
  BY <1>0, <1>7, <1>10, CalmSetTop
<1>12. shutdown' = "complete" => \A q \in Targets : ~target'[q].storage
  BY <1>0, <1>8 DEF StorageOK
<1> QED  BY <1>8, <1>11, <1>12, StorageStep

LEMMA ShutdownDoneStored ==
  ASSUME StorageInv, CountInv', NEW t \in Threads, ShutdownDone(t) PROVE StorageOK'
<1>0. /\ CountInv /\ target \in [Targets -> Target] /\ StorageOK
      /\ depth[t] # 0 /\ depth[t] \in Depths /\ Pop(t)
  BY TypesOf DEF StorageInv, HookInv, CountInv, ShutdownDone, At, TypeOK, Depths
<1>1. PICK g : g = Top(t)
  OBVIOUS
<1>2. g = frame[t][depth[t]] /\ g.call = "shutdown" /\ g.at = "destroy" /\ g.ops = {}
  BY <1>1 DEF ShutdownDone, At, Top
<1>3. Calm
  BY <1>0, CalmPop
<1>4. CASE g.failed # {}
  <2>1. UNCHANGED <<target, shutdown>>
    BY <1>1, <1>4 DEF ShutdownDone
  <2> QED  BY <1>3, <2>1, StorageSame
<1>5. CASE g.failed = {}
  <2>1. \A r \in Targets : ~target[r].storage
    <3>1. StorageFor(g)
      BY <1>0, <1>2 DEF StorageOK
    <3> QED  BY <1>2, <1>5, <3>1 DEF StorageFor
  <2>2. ASSUME NEW q \in Targets
        PROVE  /\ target'[q].enabled = target[q].enabled
               /\ target'[q].storage = target[q].storage
               /\ target'[q].direct = target[q].direct
    <3>1. PICK y \in Target : y = target[q]
      BY <1>0
    <3>2. target' = [x \in Targets |-> IF target[x].state \in {"live", "retired"}
                       THEN [target[x] EXCEPT !.state = "gone"] ELSE target[x]]
      BY <1>1, <1>5 DEF ShutdownDone
    <3>3. target'[q] = IF y.state \in {"live", "retired"} THEN [y EXCEPT !.state = "gone"] ELSE y
      BY <3>1, <3>2
    <3> QED  BY <3>1, <3>3 DEF Target
  <2>3. \A q \in Targets : StorageSafe(q) /\ ~target'[q].storage
    BY <1>0, <2>1, <2>2 DEF StorageSafe, StorageOK
  <2> QED  BY <1>3, <2>3, StorageStep
<1> QED  BY <1>4, <1>5

-----------------------------------------------------------------------------
(* Dispatches and direct calls.                                            *)

LEMMA DispatchStored ==
  ASSUME StorageInv, CountInv', NEW t \in Threads, DispatchStep(t) PROVE StorageOK'
<1>0. CountInv /\ StorageOK /\ UNCHANGED shutdown
  BY DispatchRecords DEF StorageInv, HookInv
<1>1. \A q \in Targets : target'[q].storage = target[q].storage
  BY <1>0, DispatchRecords
<1>2. ASSUME NEW q \in Targets PROVE Mild(q)
  <2>1. /\ target'[q].state = target[q].state /\ target'[q].enabled = target[q].enabled
        /\ target'[q].direct = target[q].direct
    BY <1>0, DispatchRecords
  <2> QED  BY <1>1, <2>1 DEF Mild
<1>3. ASSUME NEW u \in Threads, NEW e \in Depths
      PROVE  frame'[u][e] = frame[u][e] \/ KeptAt(u, e)
  <2>1. PICK g, f : g = frame[u][e] /\ f = frame'[u][e]
    OBVIOUS
  <2>2. f = g \/ Dispatches(t, g, f)
    BY <1>0, <2>1, DispatchMoves
  <2>3. CASE Dispatches(t, g, f)
    <3>1. f.call \in {"none", "dispatch"}
      BY <2>3 DEF Dispatches
    <3>2. ASSUME f.call = "dispatch" PROVE target'[f.target].storage
      <4>1. FrameOK(f)
        BY <2>1 DEF CountInv, StackOK
      <4>2. f.target \in Targets
        BY <3>2, <4>1 DEF FrameOK, DispatchOK
      <4>3. target[f.target].storage
        <5>1. CASE g.call = "dispatch" /\ f.target = g.target
          BY <1>0, <2>1, <5>1 DEF StorageOK, StorageFor
        <5>2. CASE target[f.target].enabled
          BY <1>0, <4>2, <5>2 DEF StorageOK
        <5>3. CASE \E x \in Depths : /\ frame[t][x].target = f.target
                                     /\ \/ frame[t][x].call = "dispatch"
                                        \/ frame[t][x].call = "direct" /\ frame[t][x].flag
          <6>1. PICK x \in Depths : /\ frame[t][x].target = f.target
                                    /\ \/ frame[t][x].call = "dispatch"
                                       \/ frame[t][x].call = "direct" /\ frame[t][x].flag
            BY <5>3
          <6>2. StorageFor(frame[t][x])
            BY <1>0 DEF StorageOK
          <6> QED  BY <6>1, <6>2 DEF StorageFor
        <5> QED  BY <2>3, <3>2, <5>1, <5>2, <5>3 DEF Dispatches
      <4> QED  BY <1>1, <4>2, <4>3
    <3> QED  BY <2>1, <3>1, <3>2 DEF KeptAt, StorageFor
  <2> QED  BY <2>1, <2>2, <2>3
<1>4. Calm
  BY <1>3 DEF Calm
<1> QED  BY <1>0, <1>2, <1>4, StorageMild

LEMMA DirectCallStored ==
  ASSUME StorageInv, CountInv', NEW t \in Threads, NEW p \in Plugins, NEW r \in Targets,
         DirectCall(t, p, r)
  PROVE  StorageOK'
<1>0. /\ CountInv /\ StorageOK /\ target \in [Targets -> Target] /\ UNCHANGED shutdown
      /\ ~target[r].transition
  BY TypesOf DEF StorageInv, HookInv, DirectCall
<1>1. PICK flag : flag = target[r].storage
  OBVIOUS
<1> DEFINE f == [Idle EXCEPT !.call = "direct", !.at = "direct", !.target = r, !.flag = flag]
<1>2. f.call = "direct" /\ f.target = r /\ f.flag = flag
  BY IdleFrame DEF Frame
<1>3. Push(t, f)
  BY <1>1 DEF DirectCall
<1> HIDE DEF f
<1>4. target' = [target EXCEPT ![r] = [target[r] EXCEPT !.active = target[r].active + 1,
                                                        !.direct = target[r].direct + 1]]
  BY <1>0 DEF DirectCall
<1>5. ASSUME NEW q \in Targets
      PROVE  /\ target'[q].state = target[q].state /\ target'[q].enabled = target[q].enabled
             /\ target'[q].storage = target[q].storage
             /\ q # r => target'[q] = target[q]
  <2>1. PICK y \in Target : y = target[q]
    BY <1>0
  <2>2. \/ target'[q] = y
        \/ target'[q] = [y EXCEPT !.active = target[r].active + 1,
                                  !.direct = target[r].direct + 1]
    BY <1>0, <1>4, <2>1
  <2>3. q # r => target'[q] = target[q]
    BY <1>0, <1>4
  <2> QED  BY <2>1, <2>2, <2>3 DEF Target
<1>6. ASSUME NEW q \in Targets PROVE StorageSafe(q)
  <2>1. target'[q].direct = 0 \/ target[q].direct # 0 \/ ~target[q].transition
    BY <1>0, <1>5
  <2> QED  BY <1>0, <1>5, <2>1 DEF StorageSafe, StorageOK
<1>7. Kept(f)
  BY <1>1, <1>2, <1>5 DEF Kept, StorageFor
<1>8. Calm
  BY <1>0, <1>3, <1>7, CalmPush
<1>9. shutdown' = "complete" => \A q \in Targets : ~target'[q].storage
  BY <1>0, <1>5 DEF StorageOK
<1> QED  BY <1>6, <1>8, <1>9, StorageStep

LEMMA DirectReturnsStored ==
  ASSUME StorageInv, CountInv', NEW t \in Threads, DirectReturns(t) PROVE StorageOK'
<1>0. /\ CountInv /\ TypeOK /\ ActiveBalanced /\ StorageOK /\ target \in [Targets -> Target]
      /\ Pop(t) /\ UNCHANGED shutdown
  BY TypesOf DEF StorageInv, HookInv, CountInv, DirectReturns
<1>1. PICK g : g = Top(t)
  OBVIOUS
<1>2. PICK r : r = g.target
  OBVIOUS
<1>3. depth[t] # 0 /\ g.call = "direct" /\ FrameOK(g) /\ depth[t] \in Depths
      /\ g = frame[t][depth[t]]
  BY <1>0, <1>1, TopOK, TopFrame DEF DirectReturns, At
<1>4. r \in Targets
  BY <1>2, <1>3 DEF FrameOK
<1>5. target[r].direct # 0
  <2>1. Dir(g, r) = 1
    BY <1>2, <1>3 DEF Dir
  <2>2. target[r].direct > 0
    BY <1>0, <1>3, <1>4, <2>1, CountedPositive
  <2> QED  BY <2>2
<1>6. target' = [target EXCEPT ![r] = [target[r] EXCEPT !.active = target[r].active - 1,
                                                        !.direct = target[r].direct - 1]]
  BY <1>0, <1>1, <1>2 DEF DirectReturns
<1>7. ASSUME NEW q \in Targets
      PROVE  /\ target'[q].state = target[q].state /\ target'[q].enabled = target[q].enabled
             /\ target'[q].storage = target[q].storage
             /\ q # r => target'[q] = target[q]
  <2>1. PICK y \in Target : y = target[q]
    BY <1>0
  <2>2. \/ target'[q] = y
        \/ target'[q] = [y EXCEPT !.active = target[r].active - 1,
                                  !.direct = target[r].direct - 1]
    BY <1>0, <1>6, <2>1
  <2>3. q # r => target'[q] = target[q]
    BY <1>0, <1>6
  <2> QED  BY <2>1, <2>2, <2>3 DEF Target
<1>8. ASSUME NEW q \in Targets PROVE StorageSafe(q)
  <2>1. target'[q].direct = 0 \/ target[q].direct # 0
    BY <1>5, <1>7
  <2> QED  BY <1>0, <1>7, <2>1 DEF StorageSafe, StorageOK
<1>9. Calm
  BY <1>0, <1>3, CalmPop
<1>10. shutdown' = "complete" => \A q \in Targets : ~target'[q].storage
  BY <1>0, <1>7 DEF StorageOK
<1> QED  BY <1>8, <1>9, <1>10, StorageStep

-----------------------------------------------------------------------------
(* The invariant.                                                          *)

LEMMA StorageInit == Init => StorageInv
<1> SUFFICES ASSUME Init PROVE StorageInv
  OBVIOUS
<1>1. HookInv
  BY HookInvInit
<1>2. \A u \in Threads, e \in Depths : frame[u][e] = Idle
  BY DEF Init, Depths
<1>3. \A r \in Targets : ~target[r].enabled /\ ~target[r].storage
  BY DEF Init
<1>4. StorageFor(Idle)
  BY IdleFrame DEF StorageFor
<1> QED  BY <1>1, <1>2, <1>3, <1>4 DEF StorageInv, StorageOK

LEMMA PluginCallStored ==
  ASSUME StorageInv, CountInv', NEW t \in Threads, NEW p \in Plugins, PluginCall(t, p)
  PROVE  StorageOK'
BY StartReleaseTargetStored, StartAddStored, DirectCallStored, StartResolveStored,
   StartRemoveStored, SetEnabledStored DEF PluginCall

LEMMA CallStepStored ==
  ASSUME StorageInv, CountInv', "reinstall" \notin Risks, NEW t \in Threads, CallStep(t)
  PROVE  StorageOK'
BY CollectAgainStored, CollectStored, ResolveStored, ReleaseTargetStored, AddStored,
   InstallStored, AddDoneStored, RemoveStored, RestoreForRemoveStored, AwaitStored,
   RemoveDoneStored, SetDoneStored, DirectReturnsStored DEF CallStep

LEMMA HostCallStored ==
  ASSUME StorageInv, CountInv', NEW t \in Threads, HostCall(t) PROVE StorageOK'
BY AuthorizeStored, RestoreStored, DeactivateStored, StartReleaseStored, StartShutdownStored
   DEF HostCall

LEMMA HostStepStored ==
  ASSUME StorageInv, CountInv', NEW t \in Threads, HostStep(t) PROVE StorageOK'
BY ActivateStored, DeactivateDoneStored, ReleaseStored, ReleaseOpStored, ReleaseRetryStored,
   ReleaseDrainStored, ReleaseDoneStored, ShutdownRestoreStored, ShutdownWaitedStored,
   ShutdownDestroyStored, ShutdownDoneStored DEF HostStep

LEMMA StorageNext ==
  ASSUME "reinstall" \notin Risks PROVE StorageInv /\ [Next]_vars => StorageInv'
<1> SUFFICES ASSUME StorageInv, [Next]_vars PROVE StorageInv'
  OBVIOUS
<1>1. HookInv'
  BY HookInvNext DEF StorageInv
<1>2. CountInv'
  BY <1>1 DEF HookInv
<1>3. StorageOK'
  <2>1. CASE UNCHANGED vars
    <3>1. Calm /\ UNCHANGED <<target, shutdown>>
      BY <2>1, CalmStill DEF vars, threads
    <3> QED  BY <3>1, StorageSame
  <2>2. CASE Next
    BY <1>2, <2>2, PluginCallStored, CallStepStored, HostCallStored, HostStepStored,
       DispatchStored DEF Next
  <2> QED  BY <2>1, <2>2
<1> QED  BY <1>1, <1>3 DEF StorageInv

\* What is there to run, and for whom: the storage of a target exists while its hook
\* is installed or a thread is inside, and a Shutdown that is over leaves none.
THEOREM HookStorageInvariant ==
  ASSUME "reinstall" \notin Risks PROVE Spec => []StorageInv
<1>1. Init => StorageInv
  BY StorageInit
<1>2. StorageInv /\ [Next]_vars => StorageInv'
  BY StorageNext
<1> QED  BY <1>1, <1>2, PTL DEF Spec

\* A frame of a thread is one of its stack.
LEMMA FrameFrom ==
  ASSUME CountInv, NEW f \in AllFrames
  PROVE  \E t \in Threads, d \in Depths : f = frame[t][d]
<1>1. PICK t \in Threads : f \in FramesOf(t)
  BY DEF AllFrames
<1>2. PICK d \in 1..depth[t] : f = frame[t][d]
  BY <1>1 DEF FramesOf
<1>3. depth[t] \in 0..MaxDepth /\ MaxDepth \in Nat
  BY HookAssumption DEF CountInv, TypeOK, HookAssumption
<1>4. d \in Depths
  BY <1>3 DEF Depths
<1> QED  BY <1>2, <1>4

\* Nothing that a thread still runs is freed by CollectPhysical, by a failed
\* EnablePhysical or by Shutdown, for any constants and whatever the library refuses, if
\* a hook that was kept can be installed again.
THEOREM HookStorageInUse ==
  ASSUME "reinstall" \notin Risks PROVE Spec => []StorageInUse
<1>1. StorageInv => StorageInUse
  <2> SUFFICES ASSUME StorageInv, NEW f \in AllFrames
               PROVE  /\ InDispatch(f) \/ (f.call = "direct" /\ f.flag) =>
                           target[f.target].storage
                      /\ InDispatch(f) => target[f.target].state \in {"live", "retired"}
    BY DEF StorageInUse
  <2>1. CountInv /\ StorageOK
    BY DEF StorageInv, HookInv
  <2>2. PICK t \in Threads, d \in Depths : f = frame[t][d]
    BY <2>1, FrameFrom
  <2>3. StorageFor(f) /\ FrameOK(f)
    BY <2>1, <2>2 DEF StorageOK, CountInv, StackOK
  <2>4. InDispatch(f) => f.target \in Targets
    BY <2>3 DEF InDispatch, FrameOK, DispatchOK
  <2> QED  BY <2>1, <2>3, <2>4 DEF StorageFor, StorageOK, InDispatch
<1> QED  BY <1>1, HookStorageInvariant, PTL

\* The entry that InvokeScalar chose under physical_mutex is the one the target has until
\* the call returns, for any constants.
THEOREM HookDirectEntryStable ==
  ASSUME "reinstall" \notin Risks PROVE Spec => []DirectEntryStable
<1>1. StorageInv => DirectEntryStable
  <2> SUFFICES ASSUME StorageInv, NEW f \in AllFrames, f.call = "direct"
               PROVE  f.flag <=> target[f.target].storage
    BY DEF DirectEntryStable
  <2>1. CountInv /\ StorageOK
    BY DEF StorageInv, HookInv
  <2>2. PICK t \in Threads, d \in Depths : f = frame[t][d]
    BY <2>1, FrameFrom
  <2> QED  BY <2>1, <2>2 DEF StorageOK, StorageFor
<1> QED  BY <1>1, HookStorageInvariant, PTL

\* What was released stays released: after ReleasePlugin answered OK the registry names
\* the plugin nowhere, and after Shutdown answered TRUE no hook is installed, nothing is
\* left to free and no thread is in a dispatch, for any constants.
THEOREM HookGoneForGood ==
  ASSUME "reinstall" \notin Risks PROVE Spec => []GoneForGood
<1>1. StorageInv => ReleasedIsGone
  <2> SUFFICES ASSUME StorageInv, NEW p \in Plugins, ~owner[p].known
               PROVE  /\ OwnedBy(p) = {}
                      /\ \A r \in Live : p \notin target[r].leases
                      /\ shutdown = "no" => \A r \in Live : p \notin target[r].bindings
    BY DEF ReleasedIsGone
  <2>1. RegistryOK
    BY DEF StorageInv, HookInv, TransitionInv
  <2>2. OwnedBy(p) = {}
    BY <2>1 DEF RegistryOK, OwnedBy
  <2>3. \A r \in Live : p \notin target[r].leases
    BY <2>1 DEF RegistryOK
  <2>4. shutdown = "no" => \A r \in Live : target[r].bindings = target[r].leases
    BY <2>1 DEF RegistryOK
  <2> QED  BY <2>2, <2>3, <2>4
<1>2. StorageInv => ShutdownIsFinal
  <2> SUFFICES ASSUME StorageInv, shutdown = "complete"
               PROVE  /\ \A r \in Targets : ~target[r].enabled /\ ~target[r].storage
                      /\ \A f \in AllFrames : ~InDispatch(f)
    BY DEF ShutdownIsFinal
  <2>1. CountInv /\ StorageOK
    BY DEF StorageInv, HookInv
  <2>2. \A r \in Targets : ~target[r].enabled /\ ~target[r].storage
    BY <2>1 DEF StorageOK
  <2>3. ASSUME NEW f \in AllFrames, InDispatch(f) PROVE FALSE
    <3>1. PICK t \in Threads, d \in Depths : f = frame[t][d]
      BY <2>1, <2>3, FrameFrom
    <3>2. StorageFor(f) /\ FrameOK(f)
      BY <2>1, <3>1 DEF StorageOK, CountInv, StackOK
    <3>3. f.target \in Targets /\ target[f.target].storage
      BY <2>3, <3>2 DEF FrameOK, DispatchOK, InDispatch, StorageFor
    <3> QED  BY <2>2, <3>3
  <2> QED  BY <2>2, <2>3
<1>3. StorageInv => GoneForGood
  BY <1>1, <1>2 DEF GoneForGood
<1> QED  BY <1>3, HookStorageInvariant, PTL
=============================================================================
