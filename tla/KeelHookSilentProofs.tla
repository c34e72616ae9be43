------------------------ MODULE KeelHookSilentProofs ------------------------
(***************************************************************************)
(* Proofs about whom KeelHook calls, when plugins and host keep their      *)
(* calls apart and the library installs a kept hook again (no Risks): no   *)
(* callback of a plugin runs between an OK of Deactivate and its next      *)
(* activation, and KeelHook implements the dispatch layer.                 *)
(***************************************************************************)
EXTENDS KeelHookTransitionProofs

\* The inductive invariant.
SilentInv == StorageInv /\ SilentOK

\* A frame's part of it after the step.
SilentNext(h) == SilentFor(h)'
SilentAt(u, e) == SilentFor(frame[u][e])'

\* The dispatches stay where they are.
StillRuns ==
  \A u \in Threads, e \in Depths :
    InDispatch(frame[u][e]) \/ InDispatch(frame'[u][e]) => frame'[u][e] = frame[u][e]

\* Nobody waits for the callbacks of p, which may be enabled again.
Opens(p) ==
  /\ p \notin quiet'
  /\ \A u \in Threads, e \in Depths :
       \/ frame'[u][e].call = "deactivate"
       \/ frame'[u][e].call = "release" /\ Changing(frame'[u][e])
       => frame'[u][e].plugin # p

\* A callback is not enabled by the step, or may be.
CallbackStays(c) ==
  /\ callback'[c].enabled => callback[c].enabled
  /\ callback'[c].state = "live" => /\ callback[c].state = "live"
                                    /\ callback'[c].owner = callback[c].owner
                                    /\ callback'[c].target = callback[c].target
CallbackOpens(c) ==
  /\ callback'[c].state = "live" /\ Opens(callback'[c].owner)
  /\ \/ callback[c].state = "free"
     \/ callback[c].state = "live" /\ callback'[c].target = callback[c].target
  /\ \A u \in Threads, e \in Depths :
       frame'[u][e].call = "remove" /\ frame'[u][e].at \in {"restore", "wait"} =>
         frame'[u][e].callback # c

\* A callback that is erased runs nowhere, and if enabled, is in no snapshot.
Gone(c) ==
  /\ ~Runs(c)
  /\ callback'[c].enabled => \A u \in Threads, e \in Depths :
                               InDispatch(frame[u][e]) => c \notin frame[u][e].ops

\* A plugin becomes quiet.
OffNext(p) == QuietIsOff(p)'
Quiets(p) ==
  /\ OffNext(p)
  /\ \A u \in Threads, e \in Depths :
       \/ frame'[u][e].call = "activate"
       \/ frame'[u][e].call = "remove" /\ frame'[u][e].at = "restore" /\ frame'[u][e].flag
       => frame'[u][e].plugin # p

OwnerStays(p) ==
  /\ owner'[p].accepting => owner[p].accepting
  /\ shutdown' = "no" /\ owner'[p].known => shutdown = "no" /\ owner[p].known

\* What a step leaves of the promises that the calls rely on.
Promises ==
  /\ \A c \in Callbacks : CallbackStays(c) \/ CallbackOpens(c)
  /\ \A c \in Callbacks : callback'[c].state = "erased" =>
                            (callback[c].state = "erased" /\ CallbackStays(c)) \/ Gone(c)
  /\ \A p \in Plugins : OwnerStays(p) \/ Opens(p)
  /\ \A p \in quiet' : p \in quiet \/ Quiets(p)

\* Direct calls through a hook begin at targets that nobody changes.
DirectBegins ==
  \A u \in Threads, e \in Depths :
    frame'[u][e].call = "direct" /\ frame'[u][e].flag =>
      \/ frame'[u][e] = frame[u][e]
      \/ ~target[frame'[u][e].target].transition

LEMMA RunsStill ==
  ASSUME StillRuns PROVE \A c \in Callbacks : Runs(c)' <=> Runs(c)
BY DEF StillRuns, Runs, InCallback, InDispatch

\* A call that waits goes on waiting for what it waited for.
LEMMA SilentKept ==
  ASSUME SilentInv, StillRuns, Promises, DirectBegins, NEW u \in Threads, NEW e \in Depths,
         NEW h, h = frame[u][e], frame'[u][e] = h
  PROVE  SilentNext(h)
<1>0. /\ CountInv /\ CallsOK /\ Marked /\ FrameOK(h) /\ SilentFor(h) /\ ReliesOn(h)
      /\ Changing(h) => h.plugin \in Plugins
      /\ h.call = "remove" => h.callback \in Callbacks
      /\ h.call \in HostCalls => h.plugin \in Plugins
  BY FrameNames DEF SilentInv, StorageInv, HookInv, TransitionInv, SilentOK, CallsOK
<1>1. \A c \in Callbacks : Runs(c)' <=> Runs(c)
  BY RunsStill
<1>2. ASSUME NEW p \in Plugins, ~Opens(p), NEW c \in Callbacks, (c \in OwnedBy(p))'
      PROVE  c \in OwnedBy(p) /\ CallbackStays(c)
  <2>1. callback'[c].state = "live" /\ callback'[c].owner = p
    BY <1>2 DEF OwnedBy
  <2>2. CallbackStays(c)
    BY <1>2, <2>1 DEF Promises, CallbackOpens
  <2> QED  BY <2>1, <2>2 DEF CallbackStays, OwnedBy
<1>3. ASSUME h.call = "add", h.at = "finish", h.flag, NEW v \in Threads, NEW x \in Depths,
             frame'[v][x].target = h.target
      PROVE  ~InDispatch(frame'[v][x]) /\ ~(frame'[v][x].call = "direct" /\ frame'[v][x].flag)
  <2>1. CASE frame'[v][x] = frame[v][x]
    BY <1>0, <1>3, <2>1 DEF SilentFor
  <2>2. CASE frame'[v][x] # frame[v][x]
    <3>1. ~InDispatch(frame'[v][x])
      BY <2>2 DEF StillRuns
    <3>2. h.target \in Targets /\ Changes(h, h.target)
      BY <1>0, <1>3 DEF FrameOK, PluginCallOK, Changes
    <3>3. target[h.target].transition
      BY <1>0, <3>2 DEF Marked
    <3> QED  BY <1>3, <2>2, <3>1, <3>3 DEF DirectBegins
  <2> QED  BY <2>1, <2>2
<1>4. ASSUME h.call = "activate" PROVE h.plugin \notin quiet'
  BY <1>0, <1>4 DEF SilentFor, Promises, Quiets
<1>5. ASSUME h.call = "deactivate"
      PROVE  ~owner'[h.plugin].accepting
             /\ \A c \in OwnedBy(h.plugin)' : ~callback'[c].enabled /\ (Runs(c)' => c \in h.todo)
  <2>1. h.plugin \in Plugins /\ ~Opens(h.plugin)
    BY <1>0, <1>5 DEF Opens, HostCalls
  <2>2. ~owner'[h.plugin].accepting
    BY <1>0, <1>5, <2>1 DEF Promises, OwnerStays, SilentFor
  <2>3. ASSUME NEW c \in OwnedBy(h.plugin)'
        PROVE  ~callback'[c].enabled /\ (Runs(c)' => c \in h.todo)
    <3>1. c \in Callbacks
      BY <2>3 DEF OwnedBy
    <3>2. c \in OwnedBy(h.plugin) /\ CallbackStays(c)
      BY <1>2, <2>1, <2>3, <3>1
    <3>3. ~callback[c].enabled /\ (Runs(c) => c \in h.todo)
      BY <1>0, <1>5, <3>2 DEF SilentFor, Quieting
    <3> QED  BY <1>1, <3>1, <3>2, <3>3 DEF CallbackStays
  <2> QED  BY <2>2, <2>3
<1>6. ASSUME h.call = "remove", h.at \in {"restore", "wait"}
      PROVE  ~callback'[h.callback].enabled /\ (Runs(h.callback)' => h.callback \in h.todo)
  <2>1. h.callback \in Callbacks
    BY <1>0, <1>6
  <2>2. CallbackStays(h.callback)
    BY <1>6, <2>1 DEF Promises, CallbackOpens
  <2>3. ~callback[h.callback].enabled /\ (Runs(h.callback) => h.callback \in h.todo)
    BY <1>0, <1>6 DEF SilentFor, Quieting
  <2> QED  BY <1>1, <2>1, <2>2, <2>3 DEF CallbackStays
<1>7. ASSUME h.call = "remove", h.at = "restore", h.flag PROVE h.plugin \notin quiet'
  BY <1>0, <1>7 DEF SilentFor, Promises, Quiets
<1>8. ASSUME h.call = "release", Changing(h), NEW c \in OwnedBy(h.plugin)'
      PROVE  /\ ~callback'[c].enabled
             /\ Runs(c)' => /\ callback'[c].target \in h.ops
                            /\ h.at \in {"wait", "drain"} /\ callback'[c].target = h.target =>
                                 h.at = "wait" /\ c \in h.todo
  <2>1. h.plugin \in Plugins /\ ~Opens(h.plugin) /\ c \in Callbacks
    BY <1>0, <1>8 DEF Opens, OwnedBy
  <2>2. c \in OwnedBy(h.plugin) /\ CallbackStays(c) /\ callback'[c].state = "live"
    BY <1>2, <1>8, <2>1 DEF OwnedBy
  <2>3. /\ ~callback[c].enabled
        /\ Runs(c) => /\ callback[c].target \in h.ops
                      /\ h.at \in {"wait", "drain"} /\ callback[c].target = h.target =>
                           h.at = "wait" /\ c \in h.todo
    BY <1>0, <1>8, <2>2 DEF SilentFor
  <2> QED  BY <1>1, <2>1, <2>2, <2>3 DEF CallbackStays
<1> QED  BY <1>3, <1>4, <1>5, <1>6, <1>7, <1>8 DEF SilentNext, SilentFor, Quieting

\* What holds of the calls together.
LEMMA SilentTogether ==
  ASSUME SilentInv, StillRuns, Promises PROVE SnapshotsOn' /\ ErasedIsSilent'
<1>0. /\ CountInv /\ SnapshotsOn /\ ErasedIsSilent /\ SnapshotOK
      /\ \A c \in Callbacks : Runs(c)' <=> Runs(c)
  BY RunsStill DEF SilentInv, SilentOK, StorageInv, HookInv, CountInv
<1>1. ASSUME NEW u \in Threads, NEW e \in Depths, InDispatch(frame'[u][e]),
             NEW c \in frame'[u][e].ops, callback'[c].state = "live"
      PROVE  callback'[c].target = frame'[u][e].target
  <2>1. frame'[u][e] = frame[u][e] /\ InDispatch(frame[u][e])
    BY <1>1 DEF StillRuns
  <2>2. PICK h : h = frame[u][e]
    OBVIOUS
  <2>3. FrameOK(h) /\ InDispatch(h)
    BY <1>0, <2>1, <2>2, FrameNames
  <2>4. c \in Callbacks
    BY <1>1, <2>1, <2>2, <2>3 DEF FrameOK, DispatchOK, InDispatch
  <2>5. callback[c].state # "free"
    BY <1>0, <1>1, <2>1 DEF SnapshotOK, InDispatch
  <2>6. callback[c].state = "live" /\ callback'[c].target = callback[c].target
    BY <1>1, <2>4, <2>5 DEF Promises, CallbackStays, CallbackOpens
  <2> QED  BY <1>0, <1>1, <2>1, <2>6 DEF SnapshotsOn
<1>2. ASSUME NEW c \in Callbacks, callback'[c].state = "erased"
      PROVE  /\ ~Runs(c)
             /\ callback'[c].enabled => \A u \in Threads, e \in Depths :
                                          InDispatch(frame[u][e]) => c \notin frame[u][e].ops
  BY <1>0, <1>2 DEF Promises, Gone, CallbackStays, ErasedIsSilent
<1>3. ErasedIsSilent'
  BY <1>0, <1>2 DEF ErasedIsSilent, StillRuns
<1> QED  BY <1>1, <1>3 DEF SnapshotsOn

LEMMA QuietStaysOff ==
  ASSUME SilentInv, StillRuns, Promises, NEW p \in Plugins, p \in quiet' PROVE OffNext(p)
<1>1. CASE p \notin quiet
  BY <1>1 DEF Promises, Quiets
<1>2. CASE p \in quiet
  <2>1. QuietIsOff(p) /\ OwnerStays(p) /\ \A c \in Callbacks : Runs(c)' <=> Runs(c)
    BY <1>2, RunsStill DEF SilentInv, SilentOK, Promises, Opens
  <2>2. ~OwnerReady(p)'
    BY <2>1 DEF OwnerStays, OwnerReady, OwnerExists, QuietIsOff
  <2>3. ASSUME NEW c \in OwnedBy(p)' PROVE ~callback'[c].enabled /\ ~Runs(c)'
    <3>1. c \in Callbacks /\ callback'[c].state = "live" /\ callback'[c].owner = p
      BY <2>3 DEF OwnedBy
    <3>2. CallbackStays(c)
      BY <3>1 DEF Promises, CallbackOpens, Opens
    <3>3. c \in OwnedBy(p)
      BY <3>1, <3>2 DEF CallbackStays, OwnedBy
    <3> QED  BY <2>1, <3>1, <3>2, <3>3 DEF QuietIsOff, Quieting, CallbackStays
  <2> QED  BY <2>2, <2>3 DEF OffNext, QuietIsOff, Quieting
<1> QED  BY <1>1, <1>2

\* A frame keeps its part, or has it anew.
LEMMA SilentCore ==
  ASSUME SilentInv, CountInv', StillRuns, Promises, DirectBegins, CallsApart',
         \A u \in Threads, e \in Depths : frame'[u][e] = frame[u][e] \/ SilentAt(u, e)
  PROVE  SilentOK'
<1>1. ASSUME NEW u \in Threads, NEW e \in Depths PROVE SilentAt(u, e)
  <2>1. CASE frame'[u][e] = frame[u][e]
    <3>1. PICK h : h = frame[u][e]
      OBVIOUS
    <3>2. SilentNext(h)
      BY <2>1, <3>1, SilentKept
    <3> QED  BY <2>1, <3>1, <3>2 DEF SilentNext, SilentAt
  <2> QED  BY <2>1
<1>2. \A u \in Threads, e \in Depths : SilentFor(frame[u][e])'
  BY <1>1 DEF SilentAt
<1>3. ASSUME NEW p \in quiet' PROVE QuietIsOff(p)'
  <2>1. p \in Plugins
    BY <1>3 DEF CountInv, TypeOK
  <2> QED  BY <1>3, <2>1, QuietStaysOff DEF OffNext
<1>4. SnapshotsOn' /\ ErasedIsSilent'
  BY SilentTogether
<1> QED  BY <1>2, <1>3, <1>4 DEF SilentOK

-----------------------------------------------------------------------------
(* Calls apart.                                                            *)

\* The frame f of thread t, if a RemoveCallback, and the frame h of u.
ApartFrom(t, f, u, h) ==
  f.call = "remove" =>
    /\ h.call = "activate" => h.plugin # f.plugin
    /\ h.call = "deactivate" /\ f.at = "restore" /\ f.flag => h.plugin # f.plugin
    /\ t = u /\ InCallback(h) => h.callback # f.callback

\* In what the calls are to be kept apart, f is as g.
Alike(f, g) ==
  /\ f.call = "remove" =>
       /\ g.call = "remove" /\ f.plugin = g.plugin /\ f.callback = g.callback
       /\ f.at = "restore" /\ f.flag => g.at = "restore" /\ g.flag
  /\ f.call \in {"activate", "deactivate"} => g.call = f.call /\ g.plugin = f.plugin
  /\ InCallback(f) => InCallback(g) /\ f.callback = g.callback

LEMMA ApartAll ==
  CallsApart <=> \A t, u \in Threads, d, e \in Depths : ApartFrom(t, frame[t][d], u, frame[u][e])
BY DEF CallsApart, ApartFrom

LEMMA ApartNext ==
  CallsApart' <=> \A t, u \in Threads, d, e \in Depths : ApartFrom(t, frame'[t][d], u, frame'[u][e])
BY DEF CallsApart, ApartFrom

LEMMA ApartStep ==
  ASSUME CallsApart, NEW t \in Threads, NEW d \in Depths, NEW f, Changed(t, d, f),
         ApartFrom(t, f, t, f),
         \A u \in Threads, e \in Depths :
           u # t \/ e # d => ApartFrom(t, f, u, frame[u][e]) /\ ApartFrom(u, frame[u][e], t, f)
  PROVE  CallsApart'
<1>1. ASSUME NEW u \in Threads, NEW v \in Threads, NEW e \in Depths, NEW x \in Depths
      PROVE  ApartFrom(u, frame'[u][e], v, frame'[v][x])
  <2>1. /\ frame'[t][d] = f
        /\ u # t \/ e # d => frame'[u][e] = frame[u][e]
        /\ v # t \/ x # d => frame'[v][x] = frame[v][x]
    BY DEF Changed
  <2>2. CASE u = t /\ e = d
    BY <2>1, <2>2
  <2>3. CASE v = t /\ x = d
    BY <2>1, <2>3
  <2>4. CASE (u # t \/ e # d) /\ (v # t \/ x # d)
    BY <2>1, <2>4, ApartAll
  <2> QED  BY <2>2, <2>3, <2>4
<1> QED  BY <1>1, ApartNext

LEMMA ApartSame ==
  ASSUME CallsApart, NEW t \in Threads, NEW d \in Depths, NEW f, NEW g, g = frame[t][d],
         Changed(t, d, f), Alike(f, g)
  PROVE  CallsApart'
<1>1. ASSUME NEW u \in Threads, NEW e \in Depths
      PROVE  ApartFrom(t, f, u, frame[u][e]) /\ ApartFrom(u, frame[u][e], t, f)
  <2>1. ApartFrom(t, g, u, frame[u][e]) /\ ApartFrom(u, frame[u][e], t, g)
    BY ApartAll
  <2> QED  BY <2>1 DEF ApartFrom, Alike
<1>2. ApartFrom(t, f, t, f)
  BY DEF ApartFrom, Alike, InCallback
<1> QED  BY <1>1, <1>2, ApartStep

-----------------------------------------------------------------------------
(* How the frames move, but for dispatches.                                *)

\* Frames of which the invariant says nothing by themselves.
Loose(f) ==
  /\ f.call \notin {"dispatch", "activate", "deactivate"}
  /\ ~(f.call = "add" /\ f.at = "finish" /\ f.flag)
  /\ ~(f.call = "remove" /\ f.at \in {"restore", "wait"})
  /\ ~(f.call = "release" /\ Changing(f))

\* A direct call begins where nobody changes the target.
Begins(f) == f.call = "direct" /\ f.flag => ~target[f.target].transition

\* The step keeps the invariant and moves no dispatch.
SilentAside == SilentOK' /\ StillRuns

LEMMA SilentMove ==
  ASSUME SilentInv, CountInv', Promises, CallsApart',
         NEW t \in Threads, NEW d \in Depths, NEW f, NEW g, g = frame[t][d], Changed(t, d, f),
         ~InDispatch(f), ~InDispatch(g), Begins(f), Loose(f) \/ SilentNext(f)
  PROVE  SilentAside
<1>1. frame'[t][d] = f /\ \A u \in Threads, e \in Depths : u # t \/ e # d => frame'[u][e] = frame[u][e]
  BY DEF Changed
<1>2. StillRuns
  BY <1>1 DEF StillRuns
<1>3. DirectBegins
  BY <1>1 DEF DirectBegins, Begins
<1>4. SilentAt(t, d)
  <2>1. CASE Loose(f)
    BY <1>1, <2>1 DEF Loose, SilentAt, SilentFor
  <2>2. CASE SilentNext(f)
    BY <1>1, <2>2 DEF SilentAt, SilentNext
  <2> QED  BY <2>1, <2>2
<1>5. \A u \in Threads, e \in Depths : frame'[u][e] = frame[u][e] \/ SilentAt(u, e)
  BY <1>1, <1>4
<1> QED  BY <1>2, <1>3, <1>5, SilentCore DEF SilentAside

LEMMA SilentStep ==
  ASSUME SilentInv, CountInv', Promises,
         NEW t \in Threads, NEW d \in Depths, NEW f, NEW g, g = frame[t][d], Changed(t, d, f),
         ~InDispatch(f), ~InDispatch(g), Begins(f), Loose(f) \/ SilentNext(f), Alike(f, g)
  PROVE  SilentAside
<1>1. CallsApart'
  BY ApartSame DEF SilentInv, SilentOK
<1> QED  BY <1>1, SilentMove

LEMMA SilentSetTop ==
  ASSUME SilentInv, CountInv', Promises, NEW t \in Threads, depth[t] # 0, NEW f, SetTop(t, f),
         ~InDispatch(f), ~InDispatch(Top(t)), Begins(f), Loose(f) \/ SilentNext(f),
         Alike(f, Top(t))
  PROVE  SilentAside
<1>1. CountInv
  BY DEF SilentInv, StorageInv, HookInv
<1>2. PICK g : g = Top(t)
  OBVIOUS
<1>3. PICK d \in Depths : g = frame[t][d] /\ Changed(t, d, f)
  BY <1>1, <1>2, SetTopMoves
<1> QED  BY <1>2, <1>3, SilentStep

LEMMA SilentPop ==
  ASSUME SilentInv, CountInv', Promises, NEW t \in Threads, depth[t] # 0, Pop(t),
         ~InDispatch(Top(t))
  PROVE  SilentAside
<1>1. CountInv
  BY DEF SilentInv, StorageInv, HookInv
<1>2. PICK g : g = Top(t)
  OBVIOUS
<1>3. depth[t] \in Depths /\ g = frame[t][depth[t]] /\ Changed(t, depth[t], Idle)
  BY <1>1, <1>2, PopMoves
<1>4. /\ ~InDispatch(Idle) /\ Begins(Idle) /\ Loose(Idle) /\ Alike(Idle, g)
  BY IdleFrame DEF InDispatch, Begins, Loose, Alike, InCallback, Changing
<1> QED  BY <1>2, <1>3, <1>4, SilentStep

\* A call starts that is not one of those to be kept apart.
LEMMA SilentPush ==
  ASSUME SilentInv, CountInv', Promises, NEW t \in Threads, NEW f, Push(t, f),
         f.call \notin {"dispatch", "remove", "activate", "deactivate"}, Begins(f),
         Loose(f) \/ SilentNext(f)
  PROVE  SilentAside
<1>1. CountInv
  BY DEF SilentInv, StorageInv, HookInv
<1>2. PICK d \in Depths : frame[t][d].call = "none" /\ Changed(t, d, f)
  BY <1>1, PushMoves
<1>3. PICK g : g = frame[t][d]
  OBVIOUS
<1>4. Alike(f, g) /\ ~InDispatch(f) /\ ~InDispatch(g)
  BY <1>2, <1>3 DEF Alike, InCallback, InDispatch
<1> QED  BY <1>2, <1>3, <1>4, SilentStep

\* A call starts that is.
LEMMA SilentBegins ==
  ASSUME SilentInv, CountInv', Promises, NEW t \in Threads, NEW f, Push(t, f),
         f.call \in {"remove", "activate", "deactivate"}, Loose(f) \/ SilentNext(f),
         \A u \in Threads, e \in Depths :
           ApartFrom(t, f, u, frame[u][e]) /\ ApartFrom(u, frame[u][e], t, f)
  PROVE  SilentAside
<1>1. CountInv
  BY DEF SilentInv, StorageInv, HookInv
<1>2. PICK d \in Depths : frame[t][d].call = "none" /\ Changed(t, d, f)
  BY <1>1, PushMoves
<1>3. PICK g : g = frame[t][d]
  OBVIOUS
<1>4. ~InDispatch(f) /\ ~InDispatch(g) /\ Begins(f) /\ ApartFrom(t, f, t, f)
  BY <1>2, <1>3 DEF InDispatch, Begins, ApartFrom, InCallback
<1>5. CallsApart'
  BY <1>2, <1>4, ApartStep DEF SilentInv, SilentOK
<1> QED  BY <1>2, <1>3, <1>4, <1>5, SilentMove

LEMMA SilentUnmoved ==
  ASSUME SilentInv, CountInv', Promises, UNCHANGED frame PROVE SilentAside
<1>1. StillRuns /\ DirectBegins
  BY DEF StillRuns, DirectBegins
<1>2. CallsApart'
  BY DEF SilentInv, SilentOK, CallsApart, InCallback
<1> QED  BY <1>1, <1>2, SilentCore DEF SilentAside

-----------------------------------------------------------------------------
(* The records.                                                            *)

LEMMA PromisesSame ==
  ASSUME UNCHANGED <<owner, quiet, callback, shutdown>> PROVE Promises
<1>1. \A c \in Callbacks : CallbackStays(c)
  BY DEF CallbackStays
<1>2. \A p \in Plugins : OwnerStays(p)
  BY DEF OwnerStays
<1> QED  BY <1>1, <1>2 DEF Promises

\* Only flags of callbacks are cleared.
LEMMA PromisesDisabled ==
  ASSUME CountInv, NEW S, callback' = Disabled(S), quiet' = quiet,
         \A p \in Plugins : OwnerStays(p)
  PROVE  Promises
<1>1. \A c \in Callbacks : CallbackStays(c) /\ (callback'[c].state = "erased" => callback[c].state = "erased")
  BY DisabledFacts DEF CountInv, TypeOK, CallbackStays
<1> QED  BY <1>1 DEF Promises

LEMMA OwnersStay ==
  ASSUME UNCHANGED <<owner, shutdown>> PROVE \A p \in Plugins : OwnerStays(p)
BY DEF OwnerStays

-----------------------------------------------------------------------------
(* Calls that start.                                                       *)

\* A call that collects first, but for RemoveCallback.
LEMMA StartSilent ==
  ASSUME SilentInv, CountInv', NEW t \in Threads, NEW f \in Frame, Start(t, f),
         f.call \in StartCalls \ {"remove"}
  PROVE  SilentAside
<1>1. PICK at \in {"begin", "collect"} :
        Push(t, [f EXCEPT !.at = at, !.todo = Collectable(t)])
  BY DEF Start
<1>2. PICK todo : Push(t, [f EXCEPT !.at = at, !.todo = todo])
  BY <1>1
<1> DEFINE h == [f EXCEPT !.at = at, !.todo = todo]
<1>3. h.call = f.call /\ h.at = at
  BY DEF Frame
<1>4. Push(t, h)
  BY <1>2
<1> HIDE DEF h
<1>5. Loose(h) /\ Begins(h) /\ h.call \notin {"dispatch", "remove", "activate", "deactivate"}
  BY <1>3 DEF Loose, Changing, Begins, StartCalls
<1>6. Promises
  BY PromisesSame DEF Start
<1> QED  BY <1>4, <1>5, <1>6, SilentPush

LEMMA StartResolveSilent ==
  ASSUME SilentInv, CountInv', NEW t \in Threads, NEW p \in Plugins, StartResolve(t, p)
  PROVE  SilentAside
<1> DEFINE f == [Idle EXCEPT !.call = "resolve", !.plugin = p]
<1>1. f \in Frame
  BY IdleFrame, Names, Zenon DEF Frame
<1>2. f.call \in StartCalls \ {"remove"}
  BY IdleFrame DEF Frame, StartCalls
<1>3. Start(t, f)
  BY DEF StartResolve
<1> HIDE DEF f
<1> QED  BY <1>1, <1>2, <1>3, StartSilent

LEMMA StartReleaseTargetSilent ==
  ASSUME SilentInv, CountInv', NEW t \in Threads, NEW p \in Plugins, NEW r \in Targets,
         StartReleaseTarget(t, p, r)
  PROVE  SilentAside
<1> DEFINE f == [Idle EXCEPT !.call = "release_target", !.plugin = p, !.target = r]
<1>1. f \in Frame
  BY IdleFrame, Names, Zenon DEF Frame
<1>2. f.call \in StartCalls \ {"remove"}
  BY IdleFrame DEF Frame, StartCalls
<1>3. Start(t, f)
  BY DEF StartReleaseTarget
<1> HIDE DEF f
<1> QED  BY <1>1, <1>2, <1>3, StartSilent

LEMMA StartAddSilent ==
  ASSUME SilentInv, CountInv', NEW t \in Threads, NEW p \in Plugins, NEW r \in Targets,
         StartAdd(t, p, r)
  PROVE  SilentAside
<1> DEFINE f == [Idle EXCEPT !.call = "add", !.plugin = p, !.target = r]
<1>1. f \in Frame
  BY IdleFrame, Names, Zenon DEF Frame
<1>2. f.call \in StartCalls \ {"remove"}
  BY IdleFrame DEF Frame, StartCalls
<1>3. Start(t, f)
  BY DEF StartAdd
<1> HIDE DEF f
<1> QED  BY <1>1, <1>2, <1>3, StartSilent

LEMMA StartReleaseSilent ==
  ASSUME SilentInv, CountInv', NEW t \in Threads, NEW p \in Plugins, StartRelease(t, p)
  PROVE  SilentAside
<1> DEFINE f == [Idle EXCEPT !.call = "release", !.plugin = p]
<1>1. f \in Frame
  BY IdleFrame, Names, Zenon DEF Frame
<1>2. f.call \in StartCalls \ {"remove"}
  BY IdleFrame DEF Frame, StartCalls
<1>3. Start(t, f)
  BY DEF StartRelease
<1> HIDE DEF f
<1> QED  BY <1>1, <1>2, <1>3, StartSilent

\* A frame in a call is one of its thread's.
LEMMA FrameOf ==
  ASSUME CountInv, NEW u \in Threads, NEW e \in Depths, frame[u][e].call # "none"
  PROVE  frame[u][e] \in FramesOf(u)
<1>1. e <= depth[u]
  BY DEF CountInv, StackOK
<1>2. e \in 1..depth[u]
  BY <1>1, HookAssumption DEF CountInv, TypeOK, HookAssumption, Depths
<1> QED  BY <1>2 DEF FramesOf

LEMMA StartRemoveSilent ==
  ASSUME SilentInv, CountInv', Risks = {}, NEW t \in Threads, NEW p \in Plugins,
         NEW c \in Callbacks, StartRemove(t, p, c)
  PROVE  SilentAside
<1> DEFINE f == [Idle EXCEPT !.call = "remove", !.plugin = p, !.callback = c,
                             !.target = callback[c].target]
<1>0. CountInv
  BY DEF SilentInv, StorageInv, HookInv
<1>8. PICK at \in {"begin", "collect"} :
        Push(t, [f EXCEPT !.at = at, !.todo = Collectable(t)])
  BY DEF StartRemove, Start
<1>1. PICK todo : Push(t, [f EXCEPT !.at = at, !.todo = todo])
  BY <1>8
<1>2. PICK h : h = [f EXCEPT !.at = at, !.todo = todo]
  OBVIOUS
<1>3. h.call = "remove" /\ h.plugin = p /\ h.callback = c /\ h.at = at
  BY <1>2, IdleFrame DEF Frame
<1>4. Push(t, h)
  BY <1>1, <1>2
<1>5. Loose(h)
  BY <1>3 DEF Loose, Changing
<1>6. ASSUME NEW u \in Threads, NEW e \in Depths
      PROVE  ApartFrom(t, h, u, frame[u][e]) /\ ApartFrom(u, frame[u][e], t, h)
  <2>1. frame[u][e].call = "activate" => frame[u][e].plugin # p
    <3>1. ASSUME frame[u][e].call = "activate" PROVE frame[u][e] \in AllFrames
      BY <1>0, <3>1, FrameThere
    <3> QED  BY <3>1 DEF StartRemove
  <2>2. t = u /\ InCallback(frame[u][e]) => frame[u][e].callback # c
    <3>1. ASSUME InCallback(frame[u][e]) PROVE frame[u][e] \in FramesOf(u)
      BY <1>0, <3>1, FrameOf DEF InCallback
    <3> QED  BY <3>1 DEF StartRemove, IsCurrentCallback
  <2> QED  BY <1>3, <2>1, <2>2 DEF ApartFrom, InCallback
<1>7. Promises
  BY PromisesSame DEF StartRemove, Start
<1> QED  BY <1>3, <1>4, <1>5, <1>6, <1>7, SilentBegins

-----------------------------------------------------------------------------
(* Calls that tell nobody anything.                                        *)

LEMMA SilentCollectLast ==
  ASSUME SilentInv, CountInv', Promises, NEW t \in Threads, depth[t] # 0, CollectLast(t),
         ~InDispatch(Top(t))
  PROVE  SilentAside
<1>1. PICK f : f = [Idle EXCEPT !.call = "collect", !.at = "begin"]
  OBVIOUS
<1>2. f.call = "collect"
  BY <1>1, IdleFrame DEF Frame
<1>3. SetTop(t, f)
  BY <1>1 DEF CollectLast
<1>4. ~InDispatch(f) /\ Begins(f) /\ Loose(f) /\ Alike(f, Top(t))
  BY <1>2 DEF InDispatch, Begins, Loose, Alike, InCallback, Changing
<1> QED  BY <1>3, <1>4, SilentSetTop

LEMMA RefuseSilent ==
  ASSUME SilentInv, CountInv', NEW t \in Threads, depth[t] # 0, Refuse(t), ~InDispatch(Top(t))
  PROVE  SilentAside
<1>1. Pop(t) /\ Promises
  BY PromisesSame DEF Refuse
<1> QED  BY <1>1, SilentPop

LEMMA CollectAgainSilent ==
  ASSUME SilentInv, CountInv', NEW t \in Threads, CollectAgain(t) PROVE SilentAside
<1>0. CountInv
  BY DEF SilentInv, StorageInv, HookInv
<1>1. PICK g : g = Top(t)
  OBVIOUS
<1>2. depth[t] # 0 /\ g \in Frame /\ g.call = "collect"
  BY <1>0, <1>1, TopOK DEF CollectAgain, At
<1>3. PICK todo, f : f = [g EXCEPT !.at = "collect", !.todo = todo] /\ SetTop(t, f)
  BY <1>1 DEF CollectAgain
<1>4. f.call = "collect"
  BY <1>2, <1>3 DEF Frame
<1>5. /\ ~InDispatch(f) /\ ~InDispatch(g) /\ Begins(f) /\ Loose(f) /\ Alike(f, g)
  BY <1>2, <1>4 DEF InDispatch, Begins, Loose, Alike, InCallback, Changing
<1>6. Promises
  BY PromisesSame DEF CollectAgain
<1> QED  BY <1>1, <1>2, <1>3, <1>5, <1>6, SilentSetTop

LEMMA CollectSilent ==
  ASSUME SilentInv, CountInv', NEW t \in Threads, Collect(t) PROVE SilentAside
<1>0. CountInv /\ Promises
  BY PromisesSame DEF SilentInv, StorageInv, HookInv, Collect
<1>1. PICK g : g = Top(t)
  OBVIOUS
<1>2. depth[t] # 0 /\ g \in Frame /\ FrameOK(g) /\ g.at = "collect" /\ g.call # "none"
  BY <1>0, <1>1, TopOK DEF Collect
<1>3. g.call \notin {"dispatch", "direct", "activate", "deactivate"}
  BY <1>2 DEF FrameOK, DispatchOK, HostCallOK
<1>4. \/ Pop(t)
      \/ \E todo : SetTop(t, [g EXCEPT !.todo = todo])
      \/ SetTop(t, [g EXCEPT !.at = "begin"])
  BY <1>1 DEF Collect, Goto
<1>5. CASE Pop(t)
  BY <1>0, <1>1, <1>2, <1>3, <1>5, SilentPop DEF InDispatch
<1>6. ASSUME NEW f, SetTop(t, f), f.call = g.call, f.plugin = g.plugin, f.callback = g.callback,
             f.at \in {"begin", "collect"}
      PROVE  SilentAside
  <2>1. ~InDispatch(f) /\ ~InDispatch(g) /\ Begins(f) /\ Loose(f) /\ Alike(f, g)
    BY <1>3, <1>6 DEF InDispatch, Begins, Loose, Alike, InCallback, Changing
  <2> QED  BY <1>0, <1>1, <1>2, <1>6, <2>1, SilentSetTop
<1>7. CASE \E todo : SetTop(t, [g EXCEPT !.todo = todo])
  <2>1. PICK todo, f : f = [g EXCEPT !.todo = todo] /\ SetTop(t, f)
    BY <1>7
  <2>2. f.call = g.call /\ f.plugin = g.plugin /\ f.callback = g.callback /\ f.at = "collect"
    BY <1>2, <2>1 DEF Frame
  <2> QED  BY <1>6, <2>1, <2>2
<1>8. CASE SetTop(t, [g EXCEPT !.at = "begin"])
  <2>1. PICK f : f = [g EXCEPT !.at = "begin"] /\ SetTop(t, f)
    BY <1>8
  <2>2. f.call = g.call /\ f.plugin = g.plugin /\ f.callback = g.callback /\ f.at = "begin"
    BY <1>2, <2>1 DEF Frame
  <2> QED  BY <1>6, <2>1, <2>2
<1> QED  BY <1>4, <1>5, <1>7, <1>8

LEMMA ResolveSilent ==
  ASSUME SilentInv, CountInv', NEW t \in Threads, Resolve(t) PROVE SilentAside
<1>1. depth[t] # 0 /\ Pop(t) /\ ~InDispatch(Top(t)) /\ Promises
  BY PromisesSame DEF Resolve, At, InDispatch
<1> QED  BY <1>1, SilentPop

LEMMA ReleaseTargetSilent ==
  ASSUME SilentInv, CountInv', NEW t \in Threads, ReleaseTarget(t) PROVE SilentAside
<1>1. depth[t] # 0 /\ ~InDispatch(Top(t)) /\ Promises /\ (Pop(t) \/ CollectLast(t))
  BY PromisesSame DEF ReleaseTarget, Refuse, At, InDispatch
<1> QED  BY <1>1, SilentPop, SilentCollectLast

LEMMA SetDoneSilent ==
  ASSUME SilentInv, CountInv', NEW t \in Threads, SetDone(t) PROVE SilentAside
<1>1. depth[t] # 0 /\ ~InDispatch(Top(t)) /\ Refuse(t)
  BY DEF SetDone, Waited, At, InDispatch
<1> QED  BY <1>1, RefuseSilent

LEMMA DirectCallSilent ==
  ASSUME SilentInv, CountInv', NEW t \in Threads, NEW p \in Plugins, NEW r \in Targets,
         DirectCall(t, p, r)
  PROVE  SilentAside
<1>1. PICK flag, f : f = [Idle EXCEPT !.call = "direct", !.at = "direct", !.target = r,
                                      !.flag = flag] /\ Push(t, f)
  BY DEF DirectCall
<1>2. f.call = "direct" /\ f.target = r
  BY <1>1, IdleFrame DEF Frame
<1>3. f.call \notin {"dispatch", "remove", "activate", "deactivate"} /\ Begins(f) /\ Loose(f)
  BY <1>2 DEF DirectCall, Begins, Loose, Changing
<1>4. Promises
  BY PromisesSame DEF DirectCall
<1> QED  BY <1>1, <1>3, <1>4, SilentPush

LEMMA DirectReturnsSilent ==
  ASSUME SilentInv, CountInv', NEW t \in Threads, DirectReturns(t) PROVE SilentAside
<1>1. depth[t] # 0 /\ Pop(t) /\ ~InDispatch(Top(t)) /\ Promises
  BY PromisesSame DEF DirectReturns, At, InDispatch
<1> QED  BY <1>1, SilentPop

-----------------------------------------------------------------------------
(* AddCallback.                                                            *)

\* Nobody waits for the callbacks of a plugin that is accepting.
LEMMA OpensReady ==
  ASSUME SilentInv, NEW p \in Plugins, OwnerReady(p), quiet' = quiet,
         \A u \in Threads, e \in Depths :
           \/ frame'[u][e] = frame[u][e]
           \/ frame'[u][e].call \notin {"deactivate", "release"}
  PROVE  Opens(p)
<1>0. CallsOK
  BY DEF SilentInv, StorageInv, HookInv, TransitionInv
<1>1. p \notin quiet'
  BY DEF SilentInv, SilentOK, QuietIsOff
<1>2. ASSUME NEW u \in Threads, NEW e \in Depths, frame'[u][e].plugin = p,
             \/ frame'[u][e].call = "deactivate"
             \/ frame'[u][e].call = "release" /\ Changing(frame'[u][e])
      PROVE  FALSE
  <2>1. PICK h : h = frame[u][e]
    OBVIOUS
  <2>2. frame'[u][e] = h
    BY <1>2, <2>1
  <2>3. SilentFor(h) /\ ReliesOn(h)
    BY <1>0, <2>1 DEF SilentInv, SilentOK, CallsOK
  <2> QED  BY <1>2, <2>2, <2>3 DEF SilentFor, ReliesOn, OwnerReady
<1> QED  BY <1>1, <1>2 DEF Opens

\* One callback is added or enabled.
LEMMA OneOpens ==
  ASSUME SilentInv, NEW c \in Callbacks, NEW p \in Plugins, Opens(p),
         callback'[c].state = "live", callback'[c].owner = p,
         \/ callback[c].state = "free"
         \/ callback[c].state = "live" /\ callback'[c].target = callback[c].target,
         \A u \in Threads, e \in Depths :
           frame'[u][e].call = "remove" /\ frame'[u][e].at \in {"restore", "wait"} =>
             frame'[u][e].callback # c,
         \A b \in Callbacks : b # c => callback'[b] = callback[b],
         UNCHANGED <<owner, quiet, shutdown>>
  PROVE  Promises
<1>1. CallbackOpens(c)
  BY DEF CallbackOpens
<1>2. ASSUME NEW b \in Callbacks, b # c
      PROVE  CallbackStays(b) /\ (callback'[b].state = "erased" => callback[b].state = "erased")
  <2>1. callback'[b] = callback[b]
    BY <1>2
  <2> QED  BY <2>1 DEF CallbackStays
<1>3. \A q \in Plugins : OwnerStays(q)
  BY OwnersStay
<1> QED  BY <1>1, <1>2, <1>3 DEF Promises

LEMMA AddSilent ==
  ASSUME SilentInv, CountInv', NEW t \in Threads, Add(t) PROVE SilentAside
<1>0. CountInv /\ CallsOK /\ callback \in [Callbacks -> Callback]
  BY TypesOf DEF SilentInv, StorageInv, HookInv, TransitionInv
<1>1. PICK g : g = Top(t)
  OBVIOUS
<1>2. PICK p, r : p = g.plugin /\ r = g.target
  OBVIOUS
<1>3. depth[t] # 0 /\ g.call = "add" /\ g.at = "begin" /\ g \in Frame /\ FrameOK(g)
  BY <1>0, <1>1, TopOK DEF Add, At
<1>4. p \in Plugins
  BY <1>2, <1>3 DEF FrameOK
<1>5. CASE Refuse(t)
  BY <1>1, <1>3, <1>5, RefuseSilent DEF InDispatch
<1>6. CASE ~Refuse(t)
  <2>1. PICK c \in Callbacks, pre \in BOOLEAN :
          /\ OwnerReady(p) /\ callback[c].state = "free"
          /\ callback' = [callback EXCEPT ![c] =
               [state |-> "live", owner |-> p, target |-> r,
                enabled |-> owner[p].active, active |-> 0, pre |-> pre]]
          /\ Pop(t) \/ SetTop(t, [g EXCEPT !.at = "install", !.callback = c])
          /\ UNCHANGED <<owner, quiet, shutdown>>
    BY <1>1, <1>2, <1>6 DEF Add
  <2>2. PICK f : \/ (f = Idle /\ Pop(t))
                 \/ (f = [g EXCEPT !.at = "install", !.callback = c] /\ SetTop(t, f))
    <3>1. CASE Pop(t)
      BY <3>1
    <3>2. CASE SetTop(t, [g EXCEPT !.at = "install", !.callback = c])
      BY <3>2
    <3> QED  BY <2>1, <3>1, <3>2
  <2>3. f = Idle \/ (f.call = "add" /\ f.at = "install")
    BY <1>3, <2>2 DEF Frame
  <2>4. PICK d \in Depths : g = frame[t][d] /\ Changed(t, d, f)
    BY <1>0, <1>1, <1>3, <2>2, SetTopMoves, PopMoves
  <2>5. \A u \in Threads, e \in Depths :
          frame'[u][e] = frame[u][e] \/ frame'[u][e].call \in {"none", "add"}
    BY <2>3, <2>4, IdleFrame DEF Changed
  <2>6. Opens(p)
    BY <1>4, <2>1, <2>5, OpensReady
  <2>7. \A u \in Threads, e \in Depths :
          frame'[u][e].call = "remove" => frame'[u][e].callback # c
    <3>1. \A u \in Threads, e \in Depths :
            frame[u][e].call = "remove" => frame[u][e].callback # c
      BY <1>0, <2>1 DEF CallsOK, ReliesOn
    <3> QED  BY <2>5, <3>1
  <2>8. /\ callback'[c].state = "live" /\ callback'[c].owner = p
        /\ \A b \in Callbacks : b # c => callback'[b] = callback[b]
    BY <1>0, <2>1
  <2>9. Promises
    BY <1>4, <2>1, <2>6, <2>7, <2>8, OneOpens
  <2>10. ~InDispatch(f) /\ ~InDispatch(g) /\ Begins(f) /\ Loose(f) /\ Alike(f, g)
    BY <1>3, <2>3, IdleFrame DEF InDispatch, Begins, Loose, Alike, InCallback, Changing
  <2> QED  BY <2>4, <2>9, <2>10, SilentStep
<1> QED  BY <1>5, <1>6

LEMMA InstallSilent ==
  ASSUME SilentInv, CountInv', Risks = {}, NEW t \in Threads, Install(t) PROVE SilentAside
<1>0. HookInv /\ CountInv /\ StorageOK
  BY DEF SilentInv, StorageInv, HookInv
<1>1. PICK g : g = Top(t)
  OBVIOUS
<1>2. PICK r : r = g.target
  OBVIOUS
<1>3. /\ depth[t] # 0 /\ g \in Frame /\ depth[t] \in Depths /\ FrameOK(g)
      /\ g = frame[t][depth[t]] /\ g.call = "add" /\ g.at = "install" /\ r \in Targets
  BY <1>0, <1>1, <1>2, AddTop DEF Install
<1>4. ~g.flag
  BY <1>3 DEF FrameOK, PluginCallOK
<1>5. \/ UNCHANGED callback /\ SetTop(t, [g EXCEPT !.at = "finish"])
      \/ /\ ~target[r].storage /\ callback' = Disabled({g.callback})
         /\ SetTop(t, [g EXCEPT !.at = "finish", !.flag = TRUE])
  BY <1>1, <1>2 DEF Install, Goto
<1>6. UNCHANGED <<owner, quiet, shutdown>>
  BY DEF Install
<1>7. CASE UNCHANGED callback /\ SetTop(t, [g EXCEPT !.at = "finish"])
  <2>1. PICK f : f = [g EXCEPT !.at = "finish"] /\ SetTop(t, f)
    BY <1>7
  <2>2. f.call = "add" /\ ~f.flag
    BY <1>3, <1>4, <2>1 DEF Frame
  <2>3. Promises
    BY <1>6, <1>7, PromisesSame
  <2>4. ~InDispatch(f) /\ ~InDispatch(g) /\ Begins(f) /\ Loose(f) /\ Alike(f, g)
    BY <1>3, <2>2 DEF InDispatch, Begins, Loose, Alike, InCallback
  <2> QED  BY <1>1, <1>3, <2>1, <2>3, <2>4, SilentSetTop
<1>8. CASE /\ ~target[r].storage /\ callback' = Disabled({g.callback})
           /\ SetTop(t, [g EXCEPT !.at = "finish", !.flag = TRUE])
  <2>1. PICK f : f = [g EXCEPT !.at = "finish", !.flag = TRUE] /\ SetTop(t, f)
    BY <1>8
  <2>2. f.call = "add" /\ f.target = r
    BY <1>2, <1>3, <2>1 DEF Frame
  <2>3. Promises
    BY <1>0, <1>6, <1>8, PromisesDisabled, OwnersStay
  <2>4. Changed(t, depth[t], f)
    BY <1>0, <1>3, <2>1, SetTopMoves
  <2>5. ASSUME NEW u \in Threads, NEW e \in Depths, frame'[u][e].target = r
        PROVE  ~InDispatch(frame'[u][e]) /\ ~(frame'[u][e].call = "direct" /\ frame'[u][e].flag)
    <3>1. CASE frame'[u][e] = f
      BY <2>2, <3>1 DEF InDispatch
    <3>2. CASE frame'[u][e] = frame[u][e]
      <4>1. StorageFor(frame[u][e])
        BY <1>0 DEF StorageOK
      <4> QED  BY <1>8, <2>5, <3>2, <4>1 DEF StorageFor, InDispatch
    <3> QED  BY <2>4, <3>1, <3>2 DEF Changed
  <2>6. SilentNext(f)
    BY <2>2, <2>5 DEF SilentNext, SilentFor
  <2>7. ~InDispatch(f) /\ ~InDispatch(g) /\ Begins(f) /\ Alike(f, g)
    BY <1>3, <2>2 DEF InDispatch, Begins, Alike, InCallback
  <2> QED  BY <1>1, <1>3, <2>1, <2>3, <2>6, <2>7, SilentSetTop
<1> QED  BY <1>5, <1>7, <1>8

\* Some callbacks are erased that run nowhere.
LEMMA PromisesErased ==
  ASSUME SilentInv, NEW S, callback' = Erased(S), \A c \in S : Gone(c),
         \A p \in quiet' : p \in quiet \/ Quiets(p), \A p \in Plugins : OwnerStays(p)
  PROVE  Promises
<1>1. callback \in [Callbacks -> Callback]
  BY TypesOf DEF SilentInv, StorageInv, HookInv
<1>2. ASSUME NEW c \in Callbacks
      PROVE  CallbackStays(c) /\ (callback'[c].state = "erased" => callback[c].state = "erased" \/ Gone(c))
  <2>1. CASE c \in S
    <3>1. callback'[c].state = "erased" /\ callback'[c].enabled = callback[c].enabled
      BY <1>1, <2>1, ErasedFacts
    <3> QED  BY <2>1, <3>1 DEF CallbackStays
  <2>2. CASE c \notin S
    <3>1. callback'[c] = callback[c]
      BY <1>1, <2>2, ErasedFacts
    <3> QED  BY <3>1 DEF CallbackStays
  <2> QED  BY <2>1, <2>2
<1> QED  BY <1>2 DEF Promises

LEMMA AddDoneSilent ==
  ASSUME SilentInv, CountInv', NEW t \in Threads, AddDone(t) PROVE SilentAside
<1>0. HookInv /\ CountInv /\ SnapshotsOn
  BY DEF SilentInv, StorageInv, HookInv, SilentOK
<1>1. PICK g : g = Top(t)
  OBVIOUS
<1>2. PICK r, c, p : r = g.target /\ c = g.callback /\ p = g.plugin
  OBVIOUS
<1>3. /\ depth[t] # 0 /\ depth[t] \in Depths /\ g = frame[t][depth[t]] /\ g.call = "add"
      /\ g.at = "finish" /\ c \in Callbacks /\ c \in OwnedOn(p, r)
  BY <1>0, <1>1, <1>2, AddTop DEF AddDone
<1>4. /\ callback' = IF g.flag THEN Erased({c}) ELSE callback
      /\ Pop(t) /\ UNCHANGED <<owner, quiet, shutdown>>
  BY <1>1, <1>2 DEF AddDone
<1>5. CASE ~g.flag
  <2>1. Promises
    BY <1>4, <1>5, PromisesSame
  <2> QED  BY <1>1, <1>3, <1>4, <2>1, SilentPop DEF InDispatch
<1>6. CASE g.flag
  <2>1. ASSUME NEW u \in Threads, NEW e \in Depths, InDispatch(frame[u][e])
        PROVE  c \notin frame[u][e].ops
    <3>1. frame[u][e].target # r
      BY <1>2, <1>3, <1>6, <2>1 DEF SilentInv, SilentOK, SilentFor
    <3>2. callback[c].state = "live" /\ callback[c].target = r
      BY <1>3 DEF OwnedOn, CallbacksOf
    <3> QED  BY <1>0, <2>1, <3>1, <3>2 DEF SnapshotsOn
  <2>2. ~Runs(c)
    <3>1. ASSUME NEW u \in Threads, NEW e \in Depths, InCallback(frame[u][e]),
                 frame[u][e].callback = c
          PROVE  FALSE
      <4>1. InDispatch(frame[u][e]) /\ FrameOK(frame[u][e])
        BY <1>0, <3>1, FrameNames DEF InCallback, InDispatch
      <4>2. c \in frame[u][e].ops
        BY <3>1, <4>1 DEF FrameOK, DispatchOK, InCallback
      <4> QED  BY <2>1, <4>1, <4>2
    <3> QED  BY <3>1 DEF Runs
  <2>3. Gone(c)
    BY <2>1, <2>2 DEF Gone
  <2>4. Promises
    BY <1>4, <1>6, <2>3, PromisesErased, OwnersStay
  <2> QED  BY <1>1, <1>3, <1>4, <2>4, SilentPop DEF InDispatch
<1> QED  BY <1>5, <1>6

-----------------------------------------------------------------------------
(* RemoveCallback.                                                         *)

\* A frame that is no dispatch changes, so what runs stays.
LEMMA RunsMoved ==
  ASSUME NEW t \in Threads, NEW d \in Depths, NEW f, NEW g, g = frame[t][d], Changed(t, d, f),
         ~InDispatch(f), ~InDispatch(g)
  PROVE  \A c \in Callbacks : Runs(c)' <=> Runs(c)
<1>1. StillRuns
  BY DEF StillRuns, Changed
<1> QED  BY <1>1, RunsStill

\* The flag of one callback is set.
LEMMA FlagSet ==
  ASSUME callback \in [Callbacks -> Callback], NEW c \in Callbacks, NEW b \in BOOLEAN,
         callback' = [callback EXCEPT ![c].enabled = b]
  PROVE  /\ callback'[c].enabled = b
         /\ callback'[c].state = callback[c].state /\ callback'[c].owner = callback[c].owner
         /\ callback'[c].target = callback[c].target
         /\ \A x \in Callbacks : x # c => callback'[x] = callback[x]
<1>1. PICK y \in Callback : y = callback[c]
  OBVIOUS
<1>2. callback'[c] = [y EXCEPT !.enabled = b]
  BY <1>1
<1> QED  BY <1>1, <1>2 DEF Callback

LEMMA RemoveSilent ==
  ASSUME SilentInv, CountInv', NEW t \in Threads, Remove(t) PROVE SilentAside
<1>0. CountInv /\ CallsApart /\ callback \in [Callbacks -> Callback]
  BY TypesOf DEF SilentInv, StorageInv, HookInv, SilentOK
<1>1. PICK g : g = Top(t)
  OBVIOUS
<1>2. PICK p, c : p = g.plugin /\ c = g.callback
  OBVIOUS
<1>3. /\ depth[t] # 0 /\ g.call = "remove" /\ g.at = "begin" /\ g \in Frame /\ FrameOK(g)
      /\ depth[t] \in Depths /\ g = frame[t][depth[t]]
  BY <1>0, <1>1, TopOK, TopFrame DEF Remove, At, CountInv
<1>4. p \in Plugins /\ c \in Callbacks
  BY <1>2, <1>3 DEF FrameOK, PluginCallOK
<1>5. CASE Refuse(t)
  BY <1>1, <1>3, <1>5, RefuseSilent DEF InDispatch
<1>6. CASE ~Refuse(t)
  <2>1. PICK at \in {"restore", "wait"}, flag \in BOOLEAN :
          /\ SetTop(t, [g EXCEPT !.at = at, !.flag = flag,
                                 !.todo = IF IsCurrentCallback(t, c) THEN {} ELSE {c}])
          /\ flag = callback[c].enabled
          /\ c \in OwnedBy(p) /\ callback' = Disabled({c}) /\ UNCHANGED <<owner, quiet, shutdown>>
    <3>1. callback[c].enabled \in BOOLEAN
      BY <1>0, <1>4, CallbackFields
    <3> QED  BY <1>1, <1>2, <1>6, <3>1 DEF Remove
  <2>2. ~IsCurrentCallback(t, c)
    <3>1. ASSUME NEW e \in 1..depth[t], InCallback(frame[t][e]), frame[t][e].callback = c
          PROVE  FALSE
      <4>1. e \in Depths
        BY <1>3, HookAssumption DEF HookAssumption, Depths
      <4> QED  BY <1>0, <1>2, <1>3, <3>1, <4>1 DEF CallsApart
    <3> QED  BY <3>1 DEF IsCurrentCallback, FramesOf
  <2>3. PICK f : f = [g EXCEPT !.at = at, !.flag = flag, !.todo = {c}] /\ SetTop(t, f)
    BY <2>1, <2>2
  <2>4. /\ f.call = "remove" /\ f.at = at /\ f.flag = flag /\ f.todo = {c}
        /\ f.plugin = p /\ f.callback = c
    BY <1>2, <1>3, <2>3 DEF Frame
  <2>5. Changed(t, depth[t], f)
    BY <1>0, <1>3, <2>3, SetTopMoves
  <2>6. Promises
    BY <1>0, <2>1, PromisesDisabled, OwnersStay
  <2>7. flag => p \notin quiet'
    BY <1>4, <2>1 DEF SilentInv, SilentOK, QuietIsOff, Quieting
  <2>8. ~callback'[c].enabled
    BY <1>0, <1>4, <2>1, DisabledFacts
  <2>9. SilentNext(f)
    BY <2>4, <2>7, <2>8 DEF SilentNext, SilentFor, Quieting
  <2>10. ASSUME NEW u \in Threads, NEW e \in Depths
         PROVE  ApartFrom(t, f, u, frame[u][e]) /\ ApartFrom(u, frame[u][e], t, f)
    <3>1. ApartFrom(t, g, u, frame[u][e])
      BY <1>0, <1>3, ApartAll
    <3>2. frame[u][e].call = "deactivate" /\ flag => frame[u][e].plugin # p
      BY <2>1 DEF SilentInv, SilentOK, SilentFor, Quieting
    <3> QED  BY <1>2, <1>3, <2>4, <3>1, <3>2 DEF ApartFrom, InCallback
  <2>11. ApartFrom(t, f, t, f)
    BY <2>4 DEF ApartFrom, InCallback
  <2>12. CallsApart'
    BY <1>0, <1>3, <2>5, <2>10, <2>11, ApartStep
  <2>13. ~InDispatch(f) /\ ~InDispatch(g) /\ Begins(f)
    BY <1>3, <2>4 DEF InDispatch, Begins
  <2> QED  BY <1>3, <2>5, <2>6, <2>9, <2>12, <2>13, SilentMove
<1> QED  BY <1>5, <1>6

LEMMA AwaitSilent ==
  ASSUME SilentInv, CountInv', NEW t \in Threads, AwaitCallback(t) PROVE SilentAside
<1>0. CountInv /\ TypeOK /\ ActiveBalanced
  BY DEF SilentInv, StorageInv, HookInv, CountInv
<1>1. PICK g : g = Top(t)
  OBVIOUS
<1>2. /\ depth[t] # 0 /\ g.at = "wait" /\ g \in Frame /\ FrameOK(g)
      /\ depth[t] \in Depths /\ g = frame[t][depth[t]]
  BY <1>0, <1>1, TopOK, TopFrame DEF AwaitCallback
<1>3. PICK c \in g.todo : callback[c].active = 0 /\ SetTop(t, [g EXCEPT !.todo = g.todo \ {c}])
  BY <1>1 DEF AwaitCallback
<1>4. PICK f : f = [g EXCEPT !.todo = g.todo \ {c}] /\ SetTop(t, f)
  BY <1>3
<1>5. /\ f.call = g.call /\ f.at = g.at /\ f.plugin = g.plugin /\ f.target = g.target
      /\ f.callback = g.callback /\ f.ops = g.ops /\ f.flag = g.flag
      /\ f.todo = g.todo \ {c}
  BY <1>2, <1>4 DEF Frame
<1>6. c \in Callbacks /\ g.call \notin {"dispatch", "direct"}
  BY <1>2, <1>3 DEF FrameOK, DispatchOK
<1>7. ~Runs(c)
  <2>1. ASSUME NEW u \in Threads, NEW e \in Depths, InCallback(frame[u][e]),
               frame[u][e].callback = c
        PROVE  FALSE
    <3>1. Held(frame[u][e], c) = 1
      BY <2>1 DEF Held, Holds, InCallback, InDispatch
    <3> QED  BY <1>0, <1>3, <1>6, <3>1, CountedPositive
  <2> QED  BY <2>1 DEF Runs
<1>8. Changed(t, depth[t], f)
  BY <1>0, <1>1, <1>2, <1>4, SetTopMoves
<1>9. ~InDispatch(f) /\ ~InDispatch(g) /\ Begins(f) /\ Alike(f, g)
  BY <1>5, <1>6 DEF InDispatch, Begins, Alike, InCallback
<1>10. \A x \in Callbacks : Runs(x)' => Runs(x) /\ x # c
  BY <1>2, <1>7, <1>8, <1>9, RunsMoved
<1>11. UNCHANGED <<owner, quiet, callback, shutdown>>
  BY DEF AwaitCallback
<1>12. SilentFor(g)
  BY <1>2 DEF SilentInv, SilentOK
<1>13. SilentNext(f)
  <2>1. \A x \in Callbacks : (Runs(x)' => Runs(x)) /\ (x \in g.todo /\ Runs(x)' => x \in f.todo)
    BY <1>5, <1>10
  <2>2. f.call = "activate" => f.plugin \notin quiet'
    BY <1>5, <1>11, <1>12 DEF SilentFor
  <2>3. f.call = "deactivate" =>
          ~owner'[f.plugin].accepting /\ \A x \in OwnedBy(f.plugin)' : Quieting(x, f.todo)'
    BY <1>5, <1>11, <1>12, <2>1 DEF SilentFor, OwnedBy, Quieting
  <2>4. f.call = "remove" => Quieting(f.callback, f.todo)'
    <3>1. f.call = "remove" => f.callback \in Callbacks
      BY <1>2, <1>5 DEF FrameOK, PluginCallOK
    <3> QED  BY <1>2, <1>5, <1>11, <1>12, <2>1, <3>1 DEF SilentFor, Quieting
  <2>5. ASSUME f.call = "release", NEW x \in OwnedBy(f.plugin)'
        PROVE  /\ ~callback'[x].enabled
               /\ Runs(x)' => /\ callback'[x].target \in f.ops
                              /\ callback'[x].target = f.target => x \in f.todo
    <3>1. x \in Callbacks /\ x \in OwnedBy(g.plugin) /\ g.call = "release" /\ Changing(g)
      BY <1>2, <1>5, <1>11, <2>5 DEF OwnedBy, Changing
    <3>2. /\ ~callback[x].enabled
          /\ Runs(x) => /\ callback[x].target \in g.ops
                        /\ callback[x].target = g.target => x \in g.todo
      BY <1>2, <1>12, <3>1 DEF SilentFor
    <3> QED  BY <1>5, <1>11, <2>1, <3>1, <3>2
  <2> QED  BY <1>2, <1>5, <2>2, <2>3, <2>4, <2>5 DEF SilentNext, SilentFor
<1>14. Promises
  BY <1>11, PromisesSame
<1> QED  BY <1>1, <1>2, <1>4, <1>9, <1>13, <1>14, SilentSetTop

LEMMA RemoveDoneSilent ==
  ASSUME SilentInv, CountInv', NEW t \in Threads, RemoveDone(t) PROVE SilentAside
<1>0. HookInv /\ callback \in [Callbacks -> Callback]
  BY TypesOf DEF SilentInv, StorageInv, HookInv
<1>1. PICK g : g = Top(t)
  OBVIOUS
<1>2. PICK c : c = g.callback
  OBVIOUS
<1>3. /\ depth[t] # 0 /\ depth[t] \in Depths /\ g = frame[t][depth[t]] /\ c \in Callbacks
      /\ g.call = "remove" /\ g.at = "wait"
  BY <1>0, <1>1, <1>2, RemoveTop DEF RemoveDone, Waited
<1>4. /\ g.todo = {} /\ callback' = Erased({c}) /\ CollectLast(t)
      /\ UNCHANGED <<owner, quiet, shutdown>>
  BY <1>1, <1>2 DEF RemoveDone, Waited
<1>5. ~callback[c].enabled /\ ~Runs(c)
  BY <1>2, <1>3, <1>4 DEF SilentInv, SilentOK, SilentFor, Quieting
<1>6. Gone(c)
  <2>1. ~callback'[c].enabled
    BY <1>0, <1>3, <1>4, <1>5, ErasedFacts
  <2> QED  BY <1>5, <2>1 DEF Gone
<1>7. Promises
  BY <1>4, <1>6, PromisesErased, OwnersStay
<1> QED  BY <1>1, <1>3, <1>4, <1>7, SilentCollectLast DEF InDispatch

LEMMA RestoreForRemoveSilent ==
  ASSUME SilentInv, CountInv', NEW t \in Threads, RestoreForRemove(t) PROVE SilentAside
<1>0. /\ HookInv /\ CountInv /\ CallsOK /\ OneChange /\ CallsApart
      /\ callback \in [Callbacks -> Callback]
  BY TypesOf DEF SilentInv, StorageInv, HookInv, TransitionInv, SilentOK
<1>1. PICK g : g = Top(t)
  OBVIOUS
<1>2. PICK p, r, c : p = g.plugin /\ r = g.target /\ c = g.callback
  OBVIOUS
<1>3. /\ depth[t] # 0 /\ g \in Frame /\ depth[t] \in Depths /\ FrameOK(g)
      /\ g = frame[t][depth[t]] /\ g.call = "remove" /\ g.at = "restore"
      /\ p \in Plugins /\ r \in Targets /\ c \in Callbacks /\ c \in OwnedOn(p, r)
      /\ Changes(g, r)
  BY <1>0, <1>1, <1>2, RemoveTop DEF RestoreForRemove
<1>4. SilentFor(g) /\ g.flag \in BOOLEAN
  BY <1>3, FrameFields DEF SilentInv, SilentOK
<1>5. UNCHANGED <<owner, quiet, shutdown>>
  BY DEF RestoreForRemove
<1>6. \/ SetTop(t, [g EXCEPT !.at = "wait"]) /\ UNCHANGED callback
      \/ Pop(t) /\ callback' = [callback EXCEPT ![c].enabled = g.flag]
  BY <1>1, <1>2 DEF RestoreForRemove, Goto
<1>7. CASE SetTop(t, [g EXCEPT !.at = "wait"]) /\ UNCHANGED callback
  <2>1. PICK f : f = [g EXCEPT !.at = "wait"] /\ SetTop(t, f)
    BY <1>7
  <2>2. /\ f.call = "remove" /\ f.at = "wait" /\ f.plugin = p /\ f.callback = c
        /\ f.todo = g.todo
    BY <1>2, <1>3, <2>1 DEF Frame
  <2>3. Changed(t, depth[t], f)
    BY <1>0, <1>3, <2>1, SetTopMoves
  <2>4. ~InDispatch(f) /\ ~InDispatch(g) /\ Begins(f) /\ Alike(f, g)
    BY <1>2, <1>3, <2>2 DEF InDispatch, Begins, Alike, InCallback
  <2>5. Runs(c)' <=> Runs(c)
    BY <1>3, <2>3, <2>4, RunsMoved
  <2>6. SilentNext(f)
    BY <1>2, <1>3, <1>4, <1>7, <2>2, <2>5 DEF SilentNext, SilentFor, Quieting
  <2>7. Promises
    BY <1>5, <1>7, PromisesSame
  <2> QED  BY <1>1, <1>3, <2>1, <2>4, <2>6, <2>7, SilentSetTop
<1>8. CASE Pop(t) /\ callback' = [callback EXCEPT ![c].enabled = g.flag]
  <2>1. /\ callback'[c].enabled = g.flag
        /\ callback'[c].state = callback[c].state /\ callback'[c].owner = callback[c].owner
        /\ callback'[c].target = callback[c].target
        /\ \A x \in Callbacks : x # c => callback'[x] = callback[x]
    BY <1>0, <1>3, <1>4, <1>8, FlagSet
  <2>2. callback[c].state = "live" /\ callback[c].owner = p /\ callback[c].target = r
    BY <1>3 DEF OwnedOn, OwnedBy, CallbacksOf
  <2>3. Changed(t, depth[t], Idle)
    BY <1>0, <1>1, <1>3, <1>8, PopMoves
  <2>4. Promises
    <3>1. CASE ~g.flag
      <4>1. CallbackStays(c)
        BY <2>1, <3>1 DEF CallbackStays
      <4>2. \A x \in Callbacks : x # c => CallbackStays(x)
        BY <2>1 DEF CallbackStays
      <4>3. \A q \in Plugins : OwnerStays(q)
        BY <1>5, OwnersStay
      <4> QED  BY <1>5, <2>1, <2>2, <4>1, <4>2, <4>3 DEF Promises
    <3>2. CASE g.flag
      <4>1. p \notin quiet'
        BY <1>2, <1>3, <1>4, <1>5, <3>2 DEF SilentFor
      <4>2. ASSUME NEW u \in Threads, NEW e \in Depths, frame'[u][e].plugin = p,
                   \/ frame'[u][e].call = "deactivate"
                   \/ frame'[u][e].call = "release" /\ Changing(frame'[u][e])
            PROVE  FALSE
        <5>1. frame'[u][e] = frame[u][e] /\ (u # t \/ e # depth[t])
          BY <2>3, <4>2, IdleFrame DEF Changed
        <5>2. PICK h : h = frame[u][e]
          OBVIOUS
        <5>3. h.call # "deactivate"
          BY <1>0, <1>2, <1>3, <3>2, <4>2, <5>1, <5>2 DEF CallsApart
        <5>4. h.call = "release" /\ Changing(h) /\ h.plugin = p
          BY <4>2, <5>1, <5>2, <5>3
        <5>5. r \in Live
          BY <1>0, <1>1, <1>2, RemoveTop DEF RestoreForRemove
        <5>6. Changes(h, r)
          BY <1>3, <5>4, <5>5 DEF Changes, Changing, Concerns
        <5> QED  BY <1>0, <1>3, <5>1, <5>2, <5>6 DEF OneChange
      <4>3. Opens(p)
        BY <4>1, <4>2 DEF Opens
      <4>4. ASSUME NEW u \in Threads, NEW e \in Depths, frame'[u][e].call = "remove",
                   frame'[u][e].at \in {"restore", "wait"}, frame'[u][e].callback = c
            PROVE  FALSE
        <5>1. frame'[u][e] = frame[u][e] /\ (u # t \/ e # depth[t])
          BY <2>3, <4>4, IdleFrame DEF Changed
        <5>2. PICK h : h = frame[u][e]
          OBVIOUS
        <5>3. h.call = "remove" /\ h.at \in {"restore", "wait"} /\ h.callback = c
          BY <4>4, <5>1, <5>2
        <5>4. h.target = r
          BY <1>0, <2>2, <5>2, <5>3 DEF CallsOK, ReliesOn
        <5>5. Changes(h, r)
          BY <5>3, <5>4 DEF Changes
        <5> QED  BY <1>0, <1>3, <5>1, <5>2, <5>5 DEF OneChange
      <4> QED  BY <1>3, <1>5, <2>1, <2>2, <4>3, <4>4, OneOpens
    <3> QED  BY <1>4, <3>1, <3>2
  <2> QED  BY <1>1, <1>3, <1>8, <2>4, SilentPop DEF InDispatch
<1> QED  BY <1>6, <1>7, <1>8

-----------------------------------------------------------------------------
(* SetCallbackEnabled, and the host's calls.                               *)

LEMMA SetEnabledSilent ==
  ASSUME SilentInv, CountInv', Risks = {}, NEW t \in Threads, NEW p \in Plugins,
         NEW c \in Callbacks, NEW on \in BOOLEAN, SetEnabled(t, p, c, on)
  PROVE  SilentAside
<1>0. CountInv /\ callback \in [Callbacks -> Callback]
  BY TypesOf DEF SilentInv, StorageInv, HookInv
<1>1. callback[c].state = "live" /\ callback[c].owner = p
  BY DEF SetEnabled, OwnedBy
<1>2. UNCHANGED <<owner, quiet, shutdown>>
  BY DEF SetEnabled
<1>3. /\ callback'[c].enabled = on
      /\ callback'[c].state = callback[c].state /\ callback'[c].owner = callback[c].owner
      /\ callback'[c].target = callback[c].target
      /\ \A x \in Callbacks : x # c => callback'[x] = callback[x]
  BY <1>0, FlagSet DEF SetEnabled
<1>4. CASE on
  <2>1. UNCHANGED frame /\ OwnerReady(p) /\ ~Removing(c)
    BY <1>4 DEF SetEnabled, threads
  <2>2. Opens(p)
    BY <1>2, <2>1, OpensReady
  <2>3. ASSUME NEW u \in Threads, NEW e \in Depths, frame'[u][e].call = "remove",
               frame'[u][e].at \in {"restore", "wait"}, frame'[u][e].callback = c
        PROVE  FALSE
    <3>1. frame[u][e] \in AllFrames
      BY <1>0, <2>1, <2>3, FrameThere
    <3> QED  BY <2>1, <2>3, <3>1 DEF Removing
  <2>4. Promises
    BY <1>1, <1>2, <1>3, <2>2, <2>3, OneOpens
  <2> QED  BY <2>1, <2>4, SilentUnmoved
<1>5. CASE ~on
  <2>1. Promises
    <3>1. CallbackStays(c)
      BY <1>3, <1>5 DEF CallbackStays
    <3>2. \A x \in Callbacks : x # c => CallbackStays(x)
      BY <1>3 DEF CallbackStays
    <3>3. \A q \in Plugins : OwnerStays(q)
      BY <1>2, OwnersStay
    <3> QED  BY <1>1, <1>2, <1>3, <3>1, <3>2, <3>3 DEF Promises
  <2>2. CASE UNCHANGED threads
    BY <2>1, <2>2, SilentUnmoved DEF threads
  <2>3. CASE ~UNCHANGED threads
    <3>1. PICK f : f = [Idle EXCEPT !.call = "set", !.at = "wait", !.todo = {c}] /\ Push(t, f)
      BY <2>3 DEF SetEnabled
    <3>2. f.call = "set"
      BY <3>1, IdleFrame DEF Frame
    <3>3. f.call \notin {"dispatch", "remove", "activate", "deactivate"} /\ Begins(f) /\ Loose(f)
      BY <3>2 DEF Begins, Loose, Changing
    <3> QED  BY <2>1, <3>1, <3>3, SilentPush
  <2> QED  BY <2>2, <2>3
<1> QED  BY <1>4, <1>5

LEMMA AuthorizeSilent ==
  ASSUME SilentInv, CountInv', NEW t \in Threads, NEW p \in Plugins, NEW active \in BOOLEAN,
         Authorize(t, p, active)
  PROVE  SilentAside
<1>0. CountInv /\ owner \in [Plugins -> Owner]
  BY DEF SilentInv, StorageInv, HookInv, CountInv, TypeOK
<1>1. /\ UNCHANGED <<callback, frame, shutdown>> /\ ~InHand(p) /\ quiet' = quiet \ {p}
      /\ \A q \in Plugins : q # p => owner'[q] = owner[q]
  BY <1>0 DEF Authorize, threads
<1>2. \A q \in Plugins : q # p => OwnerStays(q)
  BY <1>1 DEF OwnerStays
<1>3. Opens(p)
  <2>1. ASSUME NEW u \in Threads, NEW e \in Depths, frame[u][e].call \in {"deactivate", "release"}
        PROVE  frame[u][e].plugin # p
    <3>1. frame[u][e] \in AllFrames
      BY <1>0, <2>1, FrameThere
    <3> QED  BY <1>1, <2>1, <3>1 DEF InHand, HostCalls
  <2> QED  BY <1>1, <2>1 DEF Opens
<1>4. \A c \in Callbacks : CallbackStays(c)
  BY <1>1 DEF CallbackStays
<1>5. Promises
  BY <1>1, <1>2, <1>3, <1>4 DEF Promises
<1> QED  BY <1>1, <1>5, SilentUnmoved

LEMMA RestoreSilent ==
  ASSUME SilentInv, CountInv', Risks = {}, NEW t \in Threads, NEW p \in Plugins, Restore(t, p)
  PROVE  SilentAside
<1>0. CountInv
  BY DEF SilentInv, StorageInv, HookInv
<1>1. UNCHANGED <<owner, callback, shutdown>> /\ quiet' = quiet \ {p}
  BY DEF Restore
<1>2. PICK f : f = [Idle EXCEPT !.call = "activate", !.at = "begin", !.plugin = p] /\ Push(t, f)
  BY DEF Restore
<1>3. f.call = "activate" /\ f.plugin = p
  BY <1>2, IdleFrame DEF Frame
<1>4. Promises
  <2>1. \A c \in Callbacks : CallbackStays(c)
    BY <1>1 DEF CallbackStays
  <2>2. \A q \in Plugins : OwnerStays(q)
    BY <1>1, OwnersStay
  <2> QED  BY <1>1, <2>1, <2>2 DEF Promises
<1>5. SilentNext(f)
  BY <1>1, <1>3 DEF SilentNext, SilentFor
<1>6. ASSUME NEW u \in Threads, NEW e \in Depths
      PROVE  ApartFrom(t, f, u, frame[u][e]) /\ ApartFrom(u, frame[u][e], t, f)
  <2>1. frame[u][e].call = "remove" => frame[u][e].plugin # p
    <3>1. ASSUME frame[u][e].call = "remove" PROVE frame[u][e] \in AllFrames
      BY <1>0, <3>1, FrameThere
    <3> QED  BY <3>1 DEF Restore, MayOverlap
  <2> QED  BY <1>3, <2>1 DEF ApartFrom, InCallback
<1> QED  BY <1>2, <1>3, <1>4, <1>5, <1>6, SilentBegins

LEMMA ActivateSilent ==
  ASSUME SilentInv, CountInv', NEW t \in Threads, Activate(t) PROVE SilentAside
<1>0. /\ CountInv /\ CallsOK /\ OneHostCall /\ CallsApart
      /\ callback \in [Callbacks -> Callback] /\ owner \in [Plugins -> Owner]
  BY TypesOf DEF SilentInv, StorageInv, HookInv, TransitionInv, SilentOK, CountInv, TypeOK
<1>1. PICK g : g = Top(t)
  OBVIOUS
<1>2. PICK p : p = g.plugin
  OBVIOUS
<1>3. /\ depth[t] # 0 /\ g.call = "activate" /\ g \in Frame /\ FrameOK(g)
      /\ depth[t] \in Depths /\ g = frame[t][depth[t]]
  BY <1>0, <1>1, TopOK, TopFrame DEF Activate, At, CountInv
<1>4. p \in Plugins
  BY <1>2, <1>3 DEF FrameOK
<1>5. /\ owner' = [owner EXCEPT ![p].accepting = TRUE, ![p].active = TRUE]
      /\ callback' = [c \in Callbacks |-> IF c \in OwnedBy(p)
                                          THEN [callback[c] EXCEPT !.enabled = TRUE]
                                          ELSE callback[c]]
      /\ Pop(t) /\ UNCHANGED <<quiet, shutdown>>
  BY <1>1, <1>2 DEF Activate
<1>6. Changed(t, depth[t], Idle)
  BY <1>0, <1>3, <1>5, PopMoves
<1>7. ASSUME NEW u \in Threads, NEW e \in Depths, frame'[u][e].call # "none"
      PROVE  frame'[u][e] = frame[u][e] /\ (u # t \/ e # depth[t])
  BY <1>6, <1>7, IdleFrame DEF Changed
<1>8. Opens(p)
  <2>1. p \notin quiet'
    BY <1>2, <1>3, <1>5 DEF SilentInv, SilentOK, SilentFor
  <2>2. ASSUME NEW u \in Threads, NEW e \in Depths,
               frame'[u][e].call \in {"deactivate", "release"}
        PROVE  frame'[u][e].plugin # p
    <3>1. frame'[u][e] = frame[u][e] /\ (u # t \/ e # depth[t])
      BY <1>7, <2>2
    <3> QED  BY <1>0, <1>2, <1>3, <2>2, <3>1 DEF OneHostCall, HostCalls
  <2> QED  BY <2>1, <2>2 DEF Opens
<1>9. ASSUME NEW c \in OwnedBy(p) PROVE CallbackOpens(c)
  <2>0. c \in Callbacks /\ callback[c].state = "live" /\ callback[c].owner = p
    BY <1>9 DEF OwnedBy
  <2>1. PICK y \in Callback : y = callback[c]
    BY <1>0, <2>0
  <2>2. callback'[c] = [y EXCEPT !.enabled = TRUE]
    BY <1>5, <1>9, <2>0, <2>1
  <2>3. callback'[c].state = "live" /\ callback'[c].owner = p
        /\ callback'[c].target = callback[c].target
    BY <2>0, <2>1, <2>2 DEF Callback
  <2>4. ASSUME NEW u \in Threads, NEW e \in Depths, frame'[u][e].call = "remove",
               frame'[u][e].at \in {"restore", "wait"}, frame'[u][e].callback = c
        PROVE  FALSE
    <3>1. PICK h : h = frame[u][e]
      OBVIOUS
    <3>2. frame'[u][e] = h
      BY <1>7, <2>4, <3>1
    <3>3. h.call = "remove" /\ h.callback = c /\ Changing(h)
      BY <2>4, <3>2 DEF Changing
    <3>4. h.plugin = p
      BY <1>0, <2>0, <3>1, <3>3 DEF CallsOK, ReliesOn, OwnedOn, OwnedBy
    <3> QED  BY <1>0, <1>2, <1>3, <3>1, <3>3, <3>4 DEF CallsApart
  <2> QED  BY <1>8, <2>0, <2>3, <2>4 DEF CallbackOpens
<1>10. ASSUME NEW c \in Callbacks, c \notin OwnedBy(p)
       PROVE  CallbackStays(c) /\ (callback'[c].state = "erased" => callback[c].state = "erased")
  <2>1. callback'[c] = callback[c]
    BY <1>5, <1>10
  <2> QED  BY <2>1 DEF CallbackStays
<1>11. \A q \in Plugins : OwnerStays(q) \/ Opens(q)
  <2>1. \A q \in Plugins : q # p => owner'[q] = owner[q]
    BY <1>0, <1>5
  <2> QED  BY <1>5, <1>8, <2>1 DEF OwnerStays
<1>12. Promises
  BY <1>5, <1>9, <1>10, <1>11 DEF Promises, CallbackOpens
<1> QED  BY <1>1, <1>3, <1>5, <1>12, SilentPop DEF InDispatch

LEMMA DeactivateSilent ==
  ASSUME SilentInv, CountInv', Risks = {}, NEW t \in Threads, NEW p \in Plugins,
         Deactivate(t, p)
  PROVE  SilentAside
<1>0. CountInv /\ callback \in [Callbacks -> Callback] /\ owner \in [Plugins -> Owner]
  BY TypesOf DEF SilentInv, StorageInv, HookInv, CountInv, TypeOK
<1>1. PICK mine : mine = OwnedBy(p)
  OBVIOUS
<1>2. /\ owner' = [owner EXCEPT ![p].accepting = FALSE, ![p].active = FALSE]
      /\ callback' = Disabled(mine) /\ UNCHANGED <<quiet, shutdown>>
      /\ Push(t, [Idle EXCEPT !.call = "deactivate", !.at = "wait", !.plugin = p, !.todo = mine])
  BY <1>1 DEF Deactivate
<1>3. PICK f : /\ f = [Idle EXCEPT !.call = "deactivate", !.at = "wait", !.plugin = p, !.todo = mine]
               /\ Push(t, f)
  BY <1>2
<1>4. f.call = "deactivate" /\ f.plugin = p /\ f.todo = mine
  BY <1>3, IdleFrame DEF Frame
<1>5. ~owner'[p].accepting /\ \A q \in Plugins : owner'[q].accepting => owner[q].accepting
  <2>1. PICK y \in Owner : y = owner[p]
    BY <1>0
  <2>2. owner' = [owner EXCEPT ![p] = [y EXCEPT !.accepting = FALSE, !.active = FALSE]]
    BY <1>0, <1>2, <2>1
  <2>3. owner'[p] = [y EXCEPT !.accepting = FALSE, !.active = FALSE]
    BY <1>0, <2>2
  <2>4. ~owner'[p].accepting
    BY <2>3 DEF Owner
  <2> QED  BY <1>0, <2>2, <2>4
<1>6. \A q \in Plugins : OwnerStays(q)
  <2>1. \A q \in Plugins : owner'[q].known = owner[q].known
    <3>1. PICK y \in Owner : y = owner[p]
      BY <1>0
    <3>2. owner' = [owner EXCEPT ![p] = [y EXCEPT !.accepting = FALSE, !.active = FALSE]]
      BY <1>0, <1>2, <3>1
    <3>3. [y EXCEPT !.accepting = FALSE, !.active = FALSE].known = y.known
      BY DEF Owner
    <3> QED  BY <1>0, <3>1, <3>2, <3>3
  <2> QED  BY <1>2, <1>5, <2>1 DEF OwnerStays
<1>7. Promises
  BY <1>0, <1>2, <1>6, PromisesDisabled
<1>8. SilentNext(f)
  <2>1. \A c \in OwnedBy(p)' : c \in mine /\ ~callback'[c].enabled
    <3>1. PICK D : D = Disabled(mine)
      OBVIOUS
    <3>2. \A c \in Callbacks : D[c].state = callback[c].state /\ D[c].owner = callback[c].owner
                               /\ D[c].enabled = (callback[c].enabled /\ c \notin mine)
      BY <1>0, <3>1, DisabledFacts
    <3>3. callback' = D
      BY <1>2, <3>1
    <3> QED  BY <1>1, <3>2, <3>3 DEF OwnedBy
  <2> QED  BY <1>4, <1>5, <2>1 DEF SilentNext, SilentFor, Quieting
<1>9. ASSUME NEW u \in Threads, NEW e \in Depths
      PROVE  ApartFrom(t, f, u, frame[u][e]) /\ ApartFrom(u, frame[u][e], t, f)
  <2>1. frame[u][e].call = "remove" => frame[u][e].plugin # p
    <3>1. ASSUME frame[u][e].call = "remove" PROVE frame[u][e] \in AllFrames
      BY <1>0, <3>1, FrameThere
    <3> QED  BY <3>1 DEF Deactivate, MayOverlap
  <2> QED  BY <1>4, <2>1 DEF ApartFrom, InCallback
<1> QED  BY <1>3, <1>4, <1>7, <1>8, <1>9, SilentBegins

LEMMA DeactivateDoneSilent ==
  ASSUME SilentInv, CountInv', NEW t \in Threads, DeactivateDone(t) PROVE SilentAside
<1>0. CountInv /\ OneHostCall /\ CallsApart
  BY DEF SilentInv, StorageInv, HookInv, TransitionInv, SilentOK
<1>1. PICK g : g = Top(t)
  OBVIOUS
<1>2. PICK p : p = g.plugin
  OBVIOUS
<1>3. /\ depth[t] # 0 /\ g.call = "deactivate" /\ g.todo = {} /\ g \in Frame /\ FrameOK(g)
      /\ depth[t] \in Depths /\ g = frame[t][depth[t]]
  BY <1>0, <1>1, TopOK, TopFrame DEF DeactivateDone, Waited, At, CountInv
<1>4. quiet' = quiet \cup {p} /\ Pop(t) /\ UNCHANGED <<owner, callback, shutdown>>
  BY <1>1, <1>2 DEF DeactivateDone
<1>5. Changed(t, depth[t], Idle)
  BY <1>0, <1>3, <1>4, PopMoves
<1>6. ~InDispatch(g) /\ ~InDispatch(Idle)
  BY <1>3, IdleFrame DEF InDispatch
<1>7. \A c \in Callbacks : Runs(c)' <=> Runs(c)
  BY <1>3, <1>5, <1>6, RunsMoved
<1>8. OffNext(p)
  <2>1. ~owner[p].accepting /\ \A c \in OwnedBy(p) : ~callback[c].enabled /\ ~Runs(c)
    BY <1>2, <1>3 DEF SilentInv, SilentOK, SilentFor, Quieting
  <2> QED  BY <1>4, <1>7, <2>1 DEF OffNext, QuietIsOff, Quieting, OwnerReady, OwnedBy
<1>9. ASSUME NEW u \in Threads, NEW e \in Depths, frame'[u][e].plugin = p,
             \/ frame'[u][e].call = "activate"
             \/ frame'[u][e].call = "remove" /\ frame'[u][e].at = "restore" /\ frame'[u][e].flag
      PROVE  FALSE
  <2>1. frame'[u][e] = frame[u][e] /\ (u # t \/ e # depth[t])
    BY <1>5, <1>9, IdleFrame DEF Changed
  <2> QED  BY <1>0, <1>2, <1>3, <1>9, <2>1 DEF OneHostCall, HostCalls, CallsApart
<1>10. Quiets(p)
  BY <1>8, <1>9 DEF Quiets
<1>11. \A c \in Callbacks : CallbackStays(c)
  BY <1>4 DEF CallbackStays
<1>12. \A q \in Plugins : OwnerStays(q)
  BY <1>4, OwnersStay
<1>13. Promises
  BY <1>4, <1>10, <1>11, <1>12 DEF Promises
<1> QED  BY <1>1, <1>3, <1>4, <1>6, <1>13, SilentPop

-----------------------------------------------------------------------------
(* ReleasePlugin.                                                          *)

\* A release goes on: what still runs of the plugin is on a target it has before it.
LEMMA SilentGoesOn ==
  ASSUME SilentInv, CountInv', NEW t \in Threads, depth[t] # 0, NEW f, NEW g, g = Top(t),
         SetTop(t, f), g.call = "release", Changing(g), f.call = "release",
         f.plugin = g.plugin, UNCHANGED <<owner, quiet, callback, shutdown>>,
         \A c \in OwnedBy(g.plugin) : Runs(c) =>
           /\ callback[c].target \in f.ops
           /\ f.at \in {"wait", "drain"} /\ callback[c].target = f.target =>
                f.at = "wait" /\ c \in f.todo
  PROVE  SilentAside
<1>0. CountInv
  BY DEF SilentInv, StorageInv, HookInv
<1>1. PICK d \in Depths : g = frame[t][d] /\ Changed(t, d, f)
  BY <1>0, SetTopMoves
<1>2. ~InDispatch(f) /\ ~InDispatch(g) /\ Begins(f) /\ Alike(f, g)
  BY DEF InDispatch, Begins, Alike, InCallback
<1>3. \A c \in Callbacks : Runs(c)' <=> Runs(c)
  BY <1>1, <1>2, RunsMoved
<1>4. \A c \in OwnedBy(g.plugin) : ~callback[c].enabled
  BY <1>1 DEF SilentInv, SilentOK, SilentFor
<1>5. ASSUME NEW c \in OwnedBy(f.plugin)'
      PROVE  /\ ~callback'[c].enabled
             /\ Runs(c)' => /\ callback'[c].target \in f.ops
                            /\ f.at \in {"wait", "drain"} /\ callback'[c].target = f.target =>
                                 f.at = "wait" /\ c \in f.todo
  <2>1. c \in Callbacks /\ c \in OwnedBy(g.plugin)
    BY <1>5 DEF OwnedBy
  <2> QED  BY <1>3, <1>4, <2>1
<1>6. SilentNext(f)
  BY <1>5 DEF SilentNext, SilentFor
<1> QED  BY <1>2, <1>6, PromisesSame, SilentSetTop

LEMMA ReleaseOpSilent ==
  ASSUME SilentInv, CountInv', NEW t \in Threads, ReleaseOp(t) PROVE SilentAside
<1>0. HookInv
  BY DEF SilentInv, StorageInv
<1>1. PICK g : g = Top(t)
  OBVIOUS
<1>2. PICK p, r, mine : p = g.plugin /\ r = Min(g.ops) /\ mine = OwnedOn(p, r)
  OBVIOUS
<1>3. /\ g \in Frame /\ depth[t] # 0 /\ g.call = "release" /\ g.at = "restore" /\ Changing(g)
      /\ depth[t] \in Depths /\ g = frame[t][depth[t]]
  BY <1>0, <1>1, ReleaseHolds DEF ReleaseOp
<1>4. PICK refused \in BOOLEAN :
        /\ SetTop(t, [g EXCEPT !.at = "wait", !.target = r, !.todo = mine, !.flag = refused])
        /\ UNCHANGED <<owner, quiet, callback, shutdown>>
  BY <1>1, <1>2 DEF ReleaseOp
<1>5. PICK f : /\ f = [g EXCEPT !.at = "wait", !.target = r, !.todo = mine, !.flag = refused]
               /\ SetTop(t, f)
  BY <1>4
<1>6. /\ f.call = "release" /\ f.plugin = p /\ f.at = "wait" /\ f.target = r /\ f.todo = mine
      /\ f.ops = g.ops
  BY <1>2, <1>3, <1>5 DEF Frame
<1>7. ASSUME NEW c \in OwnedBy(p), Runs(c)
      PROVE  callback[c].target \in f.ops /\ (callback[c].target = f.target => c \in f.todo)
  <2>1. callback[c].target \in g.ops
    BY <1>2, <1>3, <1>7 DEF SilentInv, SilentOK, SilentFor
  <2>2. callback[c].target = r => c \in mine
    BY <1>2, <1>7 DEF OwnedOn, OwnedBy, CallbacksOf
  <2> QED  BY <1>6, <2>1, <2>2
<1> QED  BY <1>1, <1>2, <1>3, <1>4, <1>5, <1>6, <1>7, SilentGoesOn

\* The callbacks on the target are waited for.
LEMMA ReleaseRetrySilent ==
  ASSUME SilentInv, CountInv', NEW t \in Threads, ReleaseRetry(t) PROVE SilentAside
<1>0. HookInv /\ At(t, "release", "wait") /\ UNCHANGED <<owner, quiet, callback, shutdown>>
  BY DEF SilentInv, StorageInv, ReleaseRetry, Waited
<1>1. PICK g : g = Top(t)
  OBVIOUS
<1>2. /\ g \in Frame /\ depth[t] # 0 /\ g.call = "release" /\ g.at = "wait" /\ Changing(g)
      /\ depth[t] \in Depths /\ g = frame[t][depth[t]]
  BY <1>0, <1>1, ReleaseHolds
<1>3. g.todo = {}
  BY <1>1 DEF ReleaseRetry, Waited
<1>4. PICK f :
        /\ SetTop(t, f)
        /\ \/ f = [g EXCEPT !.at = "drain"]
           \/ f = NextOp(g)
           \/ f = NextOp([g EXCEPT !.failed = g.failed \cup {g.target}])
  BY <1>1 DEF ReleaseRetry
<1>5. /\ f.call = "release" /\ f.plugin = g.plugin /\ f.target = g.target
      /\ f.at \in {"restore", "drain"}
      /\ f.ops = g.ops \/ f.ops = g.ops \ {g.target}
  <2>1. CASE f = [g EXCEPT !.at = "drain"]
    BY <1>2, <2>1 DEF Frame
  <2>2. CASE f = NextOp(g)
    BY <1>2, <2>2 DEF NextOp, Frame
  <2>3. CASE f = NextOp([g EXCEPT !.failed = g.failed \cup {g.target}])
    BY <1>2, <2>3 DEF NextOp, Frame
  <2> QED  BY <1>4, <2>1, <2>2, <2>3
<1>6. \A c \in OwnedBy(g.plugin) : Runs(c) => callback[c].target \in g.ops /\ callback[c].target # g.target
  BY <1>2, <1>3 DEF SilentInv, SilentOK, SilentFor
<1> QED  BY <1>0, <1>1, <1>2, <1>4, <1>5, <1>6, SilentGoesOn

LEMMA ReleaseDrainSilent ==
  ASSUME SilentInv, CountInv', NEW t \in Threads, ReleaseDrain(t) PROVE SilentAside
<1>0. HookInv /\ At(t, "release", "drain") /\ UNCHANGED <<owner, quiet, callback, shutdown>>
  BY DEF SilentInv, StorageInv, ReleaseDrain
<1>1. PICK g : g = Top(t)
  OBVIOUS
<1>2. /\ g \in Frame /\ depth[t] # 0 /\ g.call = "release" /\ g.at = "drain" /\ Changing(g)
      /\ depth[t] \in Depths /\ g = frame[t][depth[t]]
  BY <1>0, <1>1, ReleaseHolds
<1>3. PICK f : f = NextOp(g)
  OBVIOUS
<1>4. SetTop(t, f)
  BY <1>1, <1>3 DEF ReleaseDrain
<1>5. /\ f.call = "release" /\ f.plugin = g.plugin /\ f.at = "restore"
      /\ f.ops = g.ops \ {g.target}
  BY <1>2, <1>3, NextOpFacts
<1>6. \A c \in OwnedBy(g.plugin) : Runs(c) => callback[c].target \in g.ops /\ callback[c].target # g.target
  BY <1>2 DEF SilentInv, SilentOK, SilentFor
<1> QED  BY <1>0, <1>1, <1>2, <1>4, <1>5, <1>6, SilentGoesOn

LEMMA ReleaseSilent ==
  ASSUME SilentInv, CountInv', NEW t \in Threads, Release(t) PROVE SilentAside
<1>0. /\ CountInv /\ RegistryOK /\ callback \in [Callbacks -> Callback]
      /\ owner \in [Plugins -> Owner]
  BY TypesOf DEF SilentInv, StorageInv, HookInv, TransitionInv
<1>1. PICK g : g = Top(t)
  OBVIOUS
<1>2. PICK p : p = g.plugin
  OBVIOUS
<1>3. depth[t] # 0 /\ g.call = "release" /\ g.at = "begin" /\ g \in Frame /\ p \in Plugins
  BY <1>0, <1>1, <1>2, TopOK DEF Release, At, FrameOK
<1>4. CASE Refuse(t)
  BY <1>1, <1>3, <1>4, RefuseSilent DEF InDispatch
<1>5. CASE ~Refuse(t)
  <2>1. PICK ops : ops = {r \in Live : Concerns(r, p)}
    OBVIOUS
  <2>2. PICK S : S = UNION {OwnedOn(p, r) : r \in ops}
    OBVIOUS
  <2>3. /\ owner' = [owner EXCEPT ![p].accepting = FALSE]
        /\ callback' = Disabled(S) /\ UNCHANGED <<quiet, shutdown>>
        /\ SetTop(t, [g EXCEPT !.at = "restore", !.ops = ops])
    BY <1>1, <1>2, <1>5, <2>1, <2>2 DEF Release
  <2>4. PICK f : f = [g EXCEPT !.at = "restore", !.ops = ops] /\ SetTop(t, f)
    BY <2>3
  <2>5. f.call = "release" /\ f.at = "restore" /\ f.plugin = p /\ f.ops = ops
    BY <1>2, <1>3, <2>4 DEF Frame
  <2>6. \A q \in Plugins : OwnerStays(q)
    <3>1. PICK y \in Owner : y = owner[p]
      BY <1>0, <1>3
    <3>2. owner' = [owner EXCEPT ![p] = [y EXCEPT !.accepting = FALSE]]
      BY <1>0, <1>3, <2>3, <3>1
    <3>3. ~[y EXCEPT !.accepting = FALSE].accepting /\ [y EXCEPT !.accepting = FALSE].known = y.known
      BY DEF Owner
    <3> QED  BY <1>0, <1>3, <2>3, <3>1, <3>2, <3>3 DEF OwnerStays
  <2>7. Promises
    BY <1>0, <2>3, <2>6, PromisesDisabled
  <2>8. PICK D : D = Disabled(S)
    OBVIOUS
  <2>9. /\ callback' = D
        /\ \A c \in Callbacks : /\ D[c].state = callback[c].state /\ D[c].owner = callback[c].owner
                                /\ D[c].target = callback[c].target
                                /\ D[c].enabled = (callback[c].enabled /\ c \notin S)
    BY <1>0, <2>3, <2>8, DisabledFacts
  <2>10. ASSUME NEW c \in OwnedBy(p)'
         PROVE  ~callback'[c].enabled /\ callback'[c].target \in ops
    <3>1. c \in Callbacks /\ c \in OwnedBy(p)
      BY <2>9, <2>10 DEF OwnedBy
    <3>2. PICK r : r = callback[c].target
      OBVIOUS
    <3>3. r \in Live /\ c \in OwnedOn(p, r)
      BY <1>0, <3>1, <3>2 DEF RegistryOK, OwnedOn, OwnedBy, CallbacksOf
    <3>4. r \in ops
      BY <2>1, <3>3 DEF Concerns
    <3> QED  BY <2>2, <2>9, <3>1, <3>2, <3>3, <3>4
  <2>11. SilentNext(f)
    BY <2>5, <2>10 DEF SilentNext, SilentFor
  <2>12. ~InDispatch(f) /\ ~InDispatch(g) /\ Begins(f) /\ Alike(f, g)
    BY <1>3, <2>5 DEF InDispatch, Begins, Alike, InCallback
  <2> QED  BY <1>1, <1>3, <2>4, <2>7, <2>11, <2>12, SilentSetTop
<1> QED  BY <1>4, <1>5

\* ReleasePlugin has waited for every callback of the plugin.
LEMMA ReleaseDoneSilent ==
  ASSUME SilentInv, CountInv', NEW t \in Threads, ReleaseDone(t) PROVE SilentAside
<1>0. /\ HookInv /\ CountInv /\ RegistryOK /\ CallsOK /\ OneHostCall /\ OneChange
      /\ callback \in [Callbacks -> Callback] /\ owner \in [Plugins -> Owner]
      /\ At(t, "release", "restore")
  BY TypesOf DEF SilentInv, StorageInv, HookInv, TransitionInv, ReleaseDone
<1>1. PICK g : g = Top(t)
  OBVIOUS
<1>2. PICK p : p = g.plugin
  OBVIOUS
<1>3. /\ depth[t] # 0 /\ g.call = "release" /\ Changing(g) /\ p \in Plugins /\ depth[t] \in Depths
      /\ g = frame[t][depth[t]]
      /\ \A q \in Targets : Changes(g, q) <=> Concerns(q, p)
  BY <1>0, <1>1, <1>2, ReleaseHolds
<1>4. PICK S : /\ S = UNION {OwnedOn(p, r) : r \in HeldBy(g) \ g.failed}
               /\ callback' = Erased(S)
  BY <1>1, <1>2 DEF ReleaseDone
<1>5. /\ g.ops = {} /\ CollectLast(t) /\ UNCHANGED shutdown
      /\ \/ /\ owner' = [owner EXCEPT ![p].known = FALSE, ![p].active = FALSE]
            /\ quiet' = quiet \cup {p}
         \/ UNCHANGED <<owner, quiet>>
  BY <1>1, <1>2 DEF ReleaseDone
<1>6. PICK f : f = [Idle EXCEPT !.call = "collect", !.at = "begin"]
  OBVIOUS
<1>7. f.call = "collect" /\ ~InDispatch(f) /\ ~InDispatch(g)
  BY <1>3, <1>6, IdleFrame DEF Frame, InDispatch
<1>8. Changed(t, depth[t], f)
  BY <1>0, <1>3, <1>5, <1>6, SetTopMoves DEF CollectLast
<1>9. \A c \in Callbacks : Runs(c)' <=> Runs(c)
  BY <1>3, <1>7, <1>8, RunsMoved
<1>10. \A c \in OwnedBy(p) : ~callback[c].enabled /\ ~Runs(c)
  BY <1>2, <1>3, <1>5 DEF SilentInv, SilentOK, SilentFor
<1>11. PICK E : E = Erased(S)
  OBVIOUS
<1>12. /\ callback' = E
       /\ \A c \in Callbacks : /\ c \notin S => E[c] = callback[c]
                               /\ c \in S => E[c].state = "erased"
                               /\ E[c].enabled = callback[c].enabled
  BY <1>0, <1>4, <1>11, ErasedFacts
<1>13. \A c \in S : Gone(c)
  <2>1. ASSUME NEW c \in S PROVE c \in Callbacks /\ c \in OwnedBy(p)
    BY <1>4, <2>1 DEF OwnedOn, OwnedBy
  <2> QED  BY <1>10, <1>12, <2>1 DEF Gone
<1>14. \A q \in Plugins : OwnerStays(q)
  <2>1. CASE UNCHANGED owner
    BY <1>5, <2>1, OwnersStay
  <2>2. CASE owner' = [owner EXCEPT ![p].known = FALSE, ![p].active = FALSE]
    <3>1. PICK y \in Owner : y = owner[p]
      BY <1>0, <1>3
    <3>2. owner' = [owner EXCEPT ![p] = [y EXCEPT !.known = FALSE, !.active = FALSE]]
      BY <1>0, <1>3, <2>2, <3>1
    <3>3. /\ ~[y EXCEPT !.known = FALSE, !.active = FALSE].known
          /\ [y EXCEPT !.known = FALSE, !.active = FALSE].accepting = y.accepting
      BY DEF Owner
    <3> QED  BY <1>0, <1>3, <1>5, <3>1, <3>2, <3>3 DEF OwnerStays
  <2> QED  BY <1>5, <2>1, <2>2
<1>15. ASSUME quiet' = quiet \cup {p},
              owner' = [owner EXCEPT ![p].known = FALSE, ![p].active = FALSE]
       PROVE  Quiets(p)
  <2>1. ~owner'[p].known
    <3>1. PICK y \in Owner : y = owner[p]
      BY <1>0, <1>3
    <3>2. owner' = [owner EXCEPT ![p] = [y EXCEPT !.known = FALSE, !.active = FALSE]]
      BY <1>0, <1>3, <1>15, <3>1
    <3>3. ~[y EXCEPT !.known = FALSE, !.active = FALSE].known
      BY DEF Owner
    <3> QED  BY <1>0, <1>3, <3>2, <3>3
  <2>2. ASSUME NEW c \in OwnedBy(p)' PROVE ~callback'[c].enabled /\ ~Runs(c)'
    <3>1. c \in Callbacks /\ callback'[c].state = "live" /\ callback'[c].owner = p
      BY <2>2 DEF OwnedBy
    <3>2. callback'[c] = callback[c]
      BY <1>12, <3>1
    <3>3. c \in OwnedBy(p)
      BY <3>1, <3>2 DEF OwnedBy
    <3> QED  BY <1>9, <1>10, <3>1, <3>2, <3>3
  <2>3. OffNext(p)
    BY <2>1, <2>2 DEF OffNext, QuietIsOff, Quieting, OwnerReady, OwnerExists
  <2>4. ASSUME NEW u \in Threads, NEW e \in Depths,
               \/ frame'[u][e].call = "activate"
               \/ frame'[u][e].call = "remove" /\ frame'[u][e].at = "restore" /\ frame'[u][e].flag,
               frame'[u][e].plugin = p
        PROVE  FALSE
    <3>1. PICK h : h = frame[u][e]
      OBVIOUS
    <3>2. frame'[u][e] = h
      BY <1>7, <1>8, <2>4, <3>1 DEF Changed
    <3>3. CASE h.call = "activate"
      <4>1. h.call \in HostCalls /\ g.call \in HostCalls /\ h.plugin = g.plugin
        BY <1>2, <1>3, <2>4, <3>2, <3>3 DEF HostCalls
      <4>2. u = t /\ e = depth[t]
        BY <1>0, <1>3, <3>1, <4>1 DEF OneHostCall
      <4> QED  BY <1>3, <3>1, <3>3, <4>2
    <3>4. CASE h.call = "remove" /\ h.at = "restore"
      <4>1. PICK r : r = h.target
        OBVIOUS
      <4>2. Changing(h) /\ r \in Targets /\ h.callback \in OwnedOn(p, r)
        BY <1>0, <2>4, <3>1, <3>2, <3>4, <4>1, FrameNames DEF Changing, CallsOK, ReliesOn
      <4>3. Changes(g, r) /\ Changes(h, r)
        BY <1>0, <1>3, <3>4, <4>1, <4>2, OwnedConcerns DEF Changes
      <4>4. u = t /\ e = depth[t]
        BY <1>0, <1>3, <3>1, <4>2, <4>3 DEF OneChange
      <4> QED  BY <1>3, <3>1, <3>4, <4>4
    <3> QED  BY <2>4, <3>2, <3>3, <3>4
  <2> QED  BY <2>3, <2>4 DEF Quiets
<1>16. \A q \in quiet' : q \in quiet \/ Quiets(q)
  BY <1>5, <1>15
<1>17. Promises
  BY <1>4, <1>13, <1>14, <1>16, PromisesErased
<1> QED  BY <1>1, <1>3, <1>5, <1>7, <1>17, SilentCollectLast

-----------------------------------------------------------------------------
(* Shutdown.                                                               *)

\* The plugins that the registry knows are quiet.
LEMMA StartShutdownSilent ==
  ASSUME SilentInv, CountInv', NEW t \in Threads, StartShutdown(t) PROVE SilentAside
<1>0. CountInv /\ RegistryOK /\ LiveOK /\ callback \in [Callbacks -> Callback]
  BY TypesOf DEF SilentInv, StorageInv, HookInv, TransitionInv, CountInv
<1>1. PICK live : live = {c \in Callbacks : callback[c].state = "live"}
  OBVIOUS
<1>2. /\ \A p \in Plugins : owner[p].known => p \in quiet
      /\ owner' = [p \in Plugins |-> [known |-> FALSE, accepting |-> FALSE, active |-> FALSE]]
      /\ callback' = [c \in Callbacks |-> IF c \in live
                        THEN [callback[c] EXCEPT !.state = "erased", !.enabled = FALSE]
                        ELSE callback[c]]
      /\ shutdown' = "begun" /\ quiet' = quiet
  BY <1>1, Zenon DEF StartShutdown
<1>3. PICK all, todo : Push(t, [Idle EXCEPT !.call = "shutdown", !.at = "restore", !.ops = all,
                                            !.todo = todo])
  BY Zenon DEF StartShutdown
<1>4. PICK f : /\ f = [Idle EXCEPT !.call = "shutdown", !.at = "restore", !.ops = all, !.todo = todo]
               /\ Push(t, f)
  BY <1>3
<1>5. f.call = "shutdown"
  BY <1>4, IdleFrame DEF Frame
<1>6. ASSUME NEW c \in Callbacks
      PROVE  CallbackStays(c) /\ (callback'[c].state = "erased" => callback[c].state = "erased" \/ Gone(c))
  <2>1. CASE c \in live
    <3>1. PICK y \in Callback : y = callback[c]
      BY <1>0
    <3>2. callback'[c] = [y EXCEPT !.state = "erased", !.enabled = FALSE]
      BY <1>2, <2>1, <3>1
    <3>3. callback'[c].state = "erased" /\ ~callback'[c].enabled
      BY <3>2 DEF Callback
    <3>4. PICK p \in Plugins : p = callback[c].owner
      BY <1>0, <1>1, <2>1 DEF LiveOK
    <3>5. c \in OwnedBy(p) /\ p \in quiet
      BY <1>0, <1>1, <1>2, <2>1, <3>4 DEF OwnedBy, RegistryOK
    <3>6. ~Runs(c)
      BY <3>5 DEF SilentInv, SilentOK, QuietIsOff, Quieting
    <3> QED  BY <3>3, <3>6 DEF CallbackStays, Gone
  <2>2. CASE c \notin live
    <3>1. callback'[c] = callback[c]
      BY <1>2, <2>2
    <3> QED  BY <3>1 DEF CallbackStays
  <2> QED  BY <2>1, <2>2
<1>7. \A p \in Plugins : OwnerStays(p)
  BY <1>2 DEF OwnerStays
<1>8. Promises
  BY <1>2, <1>6, <1>7 DEF Promises
<1>9. Begins(f) /\ Loose(f)
  BY <1>5 DEF Begins, Loose, Changing
<1> QED  BY <1>4, <1>5, <1>8, <1>9, SilentPush

LEMMA SilentShutdown ==
  ASSUME SilentInv, CountInv', NEW t \in Threads, depth[t] # 0, Top(t).call = "shutdown",
         NEW f, f.call = "shutdown", SetTop(t, f), UNCHANGED <<owner, quiet, callback, shutdown>>
  PROVE  SilentAside
<1>1. PICK g : g = Top(t)
  OBVIOUS
<1>2. ~InDispatch(f) /\ ~InDispatch(g) /\ Begins(f) /\ Loose(f) /\ Alike(f, g)
  BY <1>1 DEF InDispatch, Begins, Loose, Alike, InCallback, Changing
<1> QED  BY <1>1, <1>2, PromisesSame, SilentSetTop

LEMMA ShutdownStepSilent ==
  ASSUME SilentInv, CountInv', NEW t \in Threads,
         ShutdownRestore(t) \/ ShutdownWaited(t) \/ ShutdownDestroy(t)
  PROVE  SilentAside
<1>0. CountInv /\ UNCHANGED <<owner, quiet, callback, shutdown>>
  BY DEF SilentInv, StorageInv, HookInv, ShutdownRestore, ShutdownWaited, ShutdownDestroy
<1>1. depth[t] # 0 /\ Top(t).call = "shutdown"
  BY DEF ShutdownRestore, ShutdownWaited, ShutdownDestroy, Waited, At
<1>2. PICK g : g = Top(t)
  OBVIOUS
<1>3. g \in Frame /\ g.call = "shutdown"
  BY <1>0, <1>1, <1>2, TopOK
<1>4. CASE ShutdownRestore(t)
  <2>1. PICK r : r = Min(g.ops)
    OBVIOUS
  <2>2. PICK f : /\ SetTop(t, f)
                 /\ \/ f = [g EXCEPT !.at = "wait"]
                    \/ f = [g EXCEPT !.ops = g.ops \ {r}]
                    \/ f = [g EXCEPT !.ops = g.ops \ {r}, !.failed = g.failed \cup {r}]
    BY <1>2, <1>4, <2>1 DEF ShutdownRestore, Goto
  <2>3. f.call = "shutdown"
    BY <1>3, <2>2 DEF Frame
  <2> QED  BY <1>0, <1>1, <2>2, <2>3, SilentShutdown
<1>5. CASE ShutdownWaited(t)
  <2>1. PICK f, ops : f = [g EXCEPT !.at = "destroy", !.ops = ops] /\ SetTop(t, f)
    BY <1>2, <1>5 DEF ShutdownWaited
  <2>2. f.call = "shutdown"
    BY <1>3, <2>1 DEF Frame
  <2> QED  BY <1>0, <1>1, <2>1, <2>2, SilentShutdown
<1>6. CASE ShutdownDestroy(t)
  <2>1. PICK f, ops, failed : f = [g EXCEPT !.ops = ops, !.failed = failed] /\ SetTop(t, f)
    BY <1>2, <1>6 DEF ShutdownDestroy
  <2>2. f.call = "shutdown"
    BY <1>3, <2>1 DEF Frame
  <2> QED  BY <1>0, <1>1, <2>1, <2>2, SilentShutdown
<1> QED  BY <1>4, <1>5, <1>6

LEMMA ShutdownDoneSilent ==
  ASSUME SilentInv, CountInv', NEW t \in Threads, ShutdownDone(t) PROVE SilentAside
<1>0. CountInv /\ CallsOK /\ RegistryOK
  BY DEF SilentInv, StorageInv, HookInv, TransitionInv
<1>1. PICK g : g = Top(t)
  OBVIOUS
<1>2. depth[t] # 0 /\ g.call = "shutdown" /\ depth[t] \in Depths /\ g = frame[t][depth[t]]
  BY <1>0, <1>1, TopFrame DEF ShutdownDone, At, CountInv
<1>3. shutdown # "no" /\ ~InDispatch(g)
  BY <1>0, <1>2 DEF CallsOK, InDispatch
<1>4. /\ Pop(t) /\ UNCHANGED <<owner, callback>>
      /\ \/ shutdown' = "complete" /\ quiet' = Plugins
         \/ UNCHANGED <<shutdown, quiet>>
  BY DEF ShutdownDone
<1>5. \A c \in Callbacks : callback[c].state # "live"
  BY <1>0, <1>3 DEF RegistryOK
<1>6. Changed(t, depth[t], Idle)
  BY <1>0, <1>2, <1>4, PopMoves
<1>7. CASE UNCHANGED <<shutdown, quiet>>
  <2>1. Promises
    BY <1>4, <1>7, PromisesSame
  <2> QED  BY <1>1, <1>2, <1>3, <1>4, <2>1, SilentPop
<1>8. CASE shutdown' = "complete" /\ quiet' = Plugins
  <2>1. ASSUME NEW p \in Plugins PROVE Quiets(p)
    <3>1. OffNext(p)
      BY <1>4, <1>5, <1>8 DEF OffNext, QuietIsOff, OwnerReady, OwnerExists, OwnedBy
    <3>2. \A u \in Threads, e \in Depths : frame'[u][e].call \notin {"activate", "remove"}
      BY <1>0, <1>3, <1>6, IdleFrame DEF Changed, CallsOK
    <3> QED  BY <3>1, <3>2 DEF Quiets
  <2>2. \A p \in Plugins : OwnerStays(p)
    BY <1>4, <1>8 DEF OwnerStays
  <2>3. \A c \in Callbacks : CallbackStays(c) /\ (callback'[c].state = "erased" => callback[c].state = "erased")
    BY <1>4 DEF CallbackStays
  <2>4. Promises
    BY <1>8, <2>1, <2>2, <2>3 DEF Promises
  <2> QED  BY <1>1, <1>2, <1>3, <1>4, <2>4, SilentPop
<1> QED  BY <1>4, <1>7, <1>8

-----------------------------------------------------------------------------
(* Dispatches.                                                             *)

\* A frame g of thread t, at depth e, is f after a step of a dispatch: its snapshot
\* is taken of the target's callbacks, and a callback is entered that is enabled.
Turned(t, e, g, f) ==
  /\ g.call \in {"none", "dispatch"} /\ f.call \in {"none", "dispatch"}
  /\ InDispatch(f) => \/ InDispatch(g) /\ f.ops = g.ops /\ f.target = g.target
                      \/ f.ops = {}
                      \/ f.ops = CallbacksOf(f.target)
  /\ InCallback(f) => \/ InCallback(g) /\ f.callback = g.callback
                      \/ /\ InDispatch(g) /\ ~InCallback(g) /\ e = depth[t]
                         /\ f.callback \in g.ops /\ callback[f.callback].enabled
Turns(t) ==
  \A u \in Threads, e \in Depths :
    frame'[u][e] = frame[u][e] \/ (u = t /\ Turned(t, e, frame[u][e], frame'[u][e]))

\* One frame does, as in every step but a recall.
TurnsOnce(t) ==
  \E d \in Depths : \E f : Changed(t, d, f) /\ Turned(t, d, frame[t][d], f)

\* Whoever is in a callback stays there, and nobody else enters one.
StaysInside ==
  \A u \in Threads, e \in Depths :
    /\ InCallback(frame'[u][e]) <=> InCallback(frame[u][e])
    /\ InCallback(frame[u][e]) => frame'[u][e].callback = frame[u][e].callback

LEMMA OnceTurns == ASSUME NEW t \in Threads, TurnsOnce(t) PROVE Turns(t)
<1>1. PICK d \in Depths : \E f : Changed(t, d, f) /\ Turned(t, d, frame[t][d], f)
  BY DEF TurnsOnce
<1>2. PICK f : Changed(t, d, f) /\ Turned(t, d, frame[t][d], f)
  BY <1>1
<1> QED  BY <1>2 DEF Turns, Changed

LEMMA TurnsTop ==
  ASSUME CountInv, CountInv', NEW t \in Threads, depth[t] # 0, NEW g, g = Top(t),
         NEW f, SetTop(t, f), Turned(t, depth[t], g, f)
  PROVE  TurnsOnce(t)
<1>1. depth[t] \in Depths /\ g = frame[t][depth[t]] /\ Changed(t, depth[t], f)
  BY SetTopMoves
<1> QED  BY <1>1 DEF TurnsOnce

LEMMA TurnsPop ==
  ASSUME CountInv, NEW t \in Threads, depth[t] # 0, InDispatch(Top(t)), Pop(t)
  PROVE  TurnsOnce(t)
<1>1. PICK g : g = Top(t)
  OBVIOUS
<1>2. depth[t] \in Depths /\ g = frame[t][depth[t]] /\ Changed(t, depth[t], Idle)
  BY <1>1, PopMoves
<1>3. Turned(t, depth[t], g, Idle)
  BY <1>1, IdleFrame DEF Turned, InDispatch, InCallback
<1> QED  BY <1>2, <1>3 DEF TurnsOnce

\* A dispatch goes on without entering another callback.
LEMMA TurnsOn ==
  ASSUME CountInv, CountInv', NEW t \in Threads, depth[t] # 0, NEW g, g = Top(t), InDispatch(g),
         NEW f, SetTop(t, f), f.call = g.call, f.ops = g.ops, f.target = g.target,
         InCallback(f) => InCallback(g) /\ f.callback = g.callback
  PROVE  TurnsOnce(t)
<1>1. Turned(t, depth[t], g, f)
  BY DEF Turned, InDispatch
<1> QED  BY <1>1, TurnsTop

LEMMA EnterTurns ==
  ASSUME CountInv, CountInv', NEW t \in Threads, NEW r \in Targets, Enter(t, r)
  PROVE  TurnsOnce(t)
<1>1. PICK f : f = Entry(r)
  OBVIOUS
<1>2. Push(t, f) /\ f.call = "dispatch" /\ f.at = "entered" /\ f.ops = {}
  BY <1>1, EntryFrame DEF Enter
<1>3. /\ depth[t] + 1 \in Depths /\ frame[t][depth[t] + 1].call = "none"
      /\ Changed(t, depth[t] + 1, f)
  BY <1>2, PushMoves
<1>4. PICK g : g = frame[t][depth[t] + 1]
  OBVIOUS
<1>5. Turned(t, depth[t] + 1, g, f)
  BY <1>2, <1>3, <1>4 DEF Turned, InCallback
<1> QED  BY <1>3, <1>4, <1>5 DEF TurnsOnce

LEMMA BindTurns ==
  ASSUME CountInv, CountInv', NEW t \in Threads, Bind(t) \/ Count(t) PROVE TurnsOnce(t)
<1>0. At(t, "dispatch", "entered") \/ At(t, "dispatch", "bound")
  BY DEF Bind, Count
<1>1. PICK g : g = Top(t)
  OBVIOUS
<1>2. depth[t] # 0 /\ g \in Frame /\ InDispatch(g)
  BY <1>0, <1>1, DispatchTop DEF InDispatch
<1>3. CASE Pop(t)
  BY <1>1, <1>2, <1>3, TurnsPop
<1>4. CASE ~Pop(t)
  <2>1. PICK at \in {"bound", "counted"} : SetTop(t, [g EXCEPT !.at = at])
    BY <1>1, <1>4 DEF Bind, Count, Goto
  <2>2. PICK f : f = [g EXCEPT !.at = at] /\ SetTop(t, f)
    BY <2>1
  <2>3. f.call = g.call /\ f.ops = g.ops /\ f.target = g.target /\ f.at = at
    BY <1>2, <2>1, <2>2 DEF Frame
  <2> QED  BY <1>1, <1>2, <2>1, <2>2, <2>3, TurnsOn DEF InCallback
<1> QED  BY <1>3, <1>4

LEMMA SnapshotTurns ==
  ASSUME CountInv, CountInv', NEW t \in Threads, Snapshot(t) PROVE TurnsOnce(t)
<1>0. At(t, "dispatch", "counted")
  BY DEF Snapshot
<1>1. PICK g : g = Top(t)
  OBVIOUS
<1>2. depth[t] # 0 /\ g \in Frame /\ InDispatch(g)
  BY <1>0, <1>1, DispatchTop DEF InDispatch
<1>3. PICK todo : SetTop(t, [g EXCEPT !.at = "pick", !.ops = CallbacksOf(g.target), !.todo = todo])
  BY <1>1 DEF Snapshot
<1>4. PICK f : /\ f = [g EXCEPT !.at = "pick", !.ops = CallbacksOf(g.target), !.todo = todo]
               /\ SetTop(t, f)
  BY <1>3
<1>5. f.call = g.call /\ f.at = "pick" /\ f.ops = CallbacksOf(f.target)
  BY <1>2, <1>4 DEF Frame
<1>6. Turned(t, depth[t], g, f)
  BY <1>2, <1>5 DEF Turned, InDispatch, InCallback
<1> QED  BY <1>1, <1>2, <1>4, <1>6, TurnsTop

\* InvokeCallback.
LEMMA PickTurns ==
  ASSUME CountInv, CountInv', NEW t \in Threads, Pick(t) \/ Check(t) PROVE TurnsOnce(t)
<1>0. At(t, "dispatch", "pick") \/ At(t, "dispatch", "check")
  BY DEF Pick, Check
<1>1. PICK g : g = Top(t)
  OBVIOUS
<1>2. depth[t] # 0 /\ g \in Frame /\ InDispatch(g) /\ DispatchOK(g)
  BY <1>0, <1>1, DispatchTop DEF InDispatch
<1>3. CASE Pick(t)
  <2>1. PICK c, todo : SetTop(t, [g EXCEPT !.at = "check", !.callback = c, !.todo = todo])
    BY <1>1, <1>3 DEF Pick
  <2>2. PICK f : /\ f = [g EXCEPT !.at = "check", !.callback = c, !.todo = todo]
                 /\ SetTop(t, f)
    BY <2>1
  <2>3. f.call = g.call /\ f.ops = g.ops /\ f.target = g.target /\ f.at = "check"
    BY <1>2, <2>2 DEF Frame
  <2> QED  BY <1>1, <1>2, <2>2, <2>3, TurnsOn DEF InCallback
<1>4. CASE Check(t)
  <2>1. CASE callback[g.callback].enabled
    <3>1. PICK f : f = [g EXCEPT !.at = "in"] /\ SetTop(t, f)
      BY <1>1, <1>4, <2>1 DEF Check, Goto
    <3>2. /\ f.call = g.call /\ f.ops = g.ops /\ f.target = g.target
          /\ f.callback = g.callback
      BY <1>2, <3>1 DEF Frame
    <3>3. g.callback \in g.ops /\ ~InCallback(g)
      BY <1>1, <1>2, <1>4 DEF Check, At, DispatchOK, InCallback
    <3>4. Turned(t, depth[t], g, f)
      BY <1>2, <2>1, <3>2, <3>3 DEF Turned, InDispatch
    <3> QED  BY <1>1, <1>2, <3>1, <3>4, TurnsTop
  <2>2. CASE ~callback[g.callback].enabled
    <3>1. PICK f : f = [g EXCEPT !.at = "pick", !.callback = None] /\ SetTop(t, f)
      BY <1>1, <1>4, <2>2 DEF Check
    <3>2. f.call = g.call /\ f.ops = g.ops /\ f.target = g.target /\ f.at = "pick"
      BY <1>2, <3>1 DEF Frame
    <3> QED  BY <1>1, <1>2, <3>1, <3>2, TurnsOn DEF InCallback
  <2> QED  BY <2>1, <2>2
<1> QED  BY <1>3, <1>4

\* The callback answers, calls the original or is back from it.
LEMMA AnswerTurns ==
  ASSUME CountInv, CountInv', NEW t \in Threads,
         (\E supersede \in BOOLEAN : Answer(t, supersede)) \/ CallOriginal(t) \/ BackInCallback(t)
  PROVE  TurnsOnce(t)
<1>0. PICK at \in {"in", "explicit", "recalling"} : At(t, "dispatch", at)
  BY DEF Answer, CallOriginal, BackInCallback
<1>1. PICK g : g = Top(t)
  OBVIOUS
<1>2. depth[t] # 0 /\ g \in Frame /\ InDispatch(g) /\ InCallback(g)
  BY <1>0, <1>1, DispatchTop DEF InDispatch, InCallback
<1>3. CASE \E supersede \in BOOLEAN : Answer(t, supersede)
  <2>1. PICK superseded, todo :
          SetTop(t, [g EXCEPT !.at = "pick", !.callback = None, !.superseded = superseded,
                              !.todo = todo])
    BY <1>1, <1>3 DEF Answer
  <2>2. PICK f : /\ f = [g EXCEPT !.at = "pick", !.callback = None, !.superseded = superseded,
                                  !.todo = todo]
                 /\ SetTop(t, f)
    BY <2>1
  <2>3. f.call = g.call /\ f.ops = g.ops /\ f.target = g.target /\ f.at = "pick"
    BY <1>2, <2>2 DEF Frame
  <2> QED  BY <1>1, <1>2, <2>2, <2>3, TurnsOn DEF InCallback
<1>4. CASE CallOriginal(t)
  <2>1. PICK f, calls : f = [g EXCEPT !.at = "explicit", !.calls = calls] /\ SetTop(t, f)
    BY <1>1, <1>4 DEF CallOriginal
  <2>2. /\ f.call = g.call /\ f.ops = g.ops /\ f.target = g.target
        /\ f.callback = g.callback
    BY <1>2, <2>1 DEF Frame
  <2> QED  BY <1>1, <1>2, <2>1, <2>2, TurnsOn
<1>5. CASE BackInCallback(t)
  <2>1. PICK f : /\ f = [g EXCEPT !.at = "in"] \/ f = [g EXCEPT !.at = "in", !.recalled = TRUE]
                 /\ SetTop(t, f)
    BY <1>1, <1>5 DEF BackInCallback, Goto
  <2>2. /\ f.call = g.call /\ f.ops = g.ops /\ f.target = g.target
        /\ f.callback = g.callback
    BY <1>2, <2>1 DEF Frame
  <2> QED  BY <1>1, <1>2, <2>1, <2>2, TurnsOn
<1> QED  BY <1>3, <1>4, <1>5

LEMMA RecallTurns ==
  ASSUME CountInv, CountInv', NEW t \in Threads, Recall(t)
  PROVE  Turns(t) /\ StaysInside
<1>0. At(t, "dispatch", "in") /\ depth[t] < MaxDepth
  BY DEF Recall
<1>1. PICK g : g = Top(t)
  OBVIOUS
<1>2. /\ depth[t] # 0 /\ depth[t] \in Depths /\ g = frame[t][depth[t]] /\ InDispatch(g)
      /\ InCallback(g)
  BY <1>0, <1>1, DispatchTop DEF InDispatch, InCallback
<1>3. PICK f \in Frame, h \in Frame :
        /\ f.call = "dispatch" /\ h.call = "dispatch" /\ f.at = "recalling"
        /\ h.at = "entered" /\ h.ops = {}
        /\ f.ops = g.ops /\ f.target = g.target /\ f.callback = g.callback
        /\ frame' = [frame EXCEPT ![t] = [frame[t] EXCEPT ![depth[t]] = f,
                                                          ![depth[t] + 1] = h]]
  BY <1>1, RecallFrames
<1>4. depth[t] + 1 \in Depths /\ frame[t][depth[t] + 1].call = "none"
  <2>1. depth[t] \in Nat /\ MaxDepth \in Nat
    BY <1>2, HookAssumption DEF HookAssumption, Depths
  <2>2. depth[t] + 1 \in Depths /\ ~(depth[t] + 1 <= depth[t])
    BY <1>0, <2>1 DEF Depths
  <2> QED  BY <2>2 DEF CountInv, StackOK
<1>5. PICK n : n = frame[t][depth[t] + 1]
  OBVIOUS
<1>6. Turned(t, depth[t], g, f) /\ Turned(t, depth[t] + 1, n, h)
  BY <1>2, <1>3, <1>4, <1>5 DEF Turned, InDispatch, InCallback
<1>7. \A e \in Depths : frame'[t][e] = IF e = depth[t] + 1 THEN h
                                       ELSE IF e = depth[t] THEN f ELSE frame[t][e]
  BY <1>2, <1>3, <1>4 DEF CountInv, TypeOK, Depths
<1>8. \A u \in Threads : u # t => frame'[u] = frame[u]
  BY <1>3 DEF CountInv, TypeOK
<1>9. InCallback(f) /\ ~InCallback(h) /\ ~InCallback(n)
  BY <1>3, <1>4, <1>5 DEF InCallback
<1>10. StaysInside
  BY <1>2, <1>3, <1>5, <1>7, <1>8, <1>9 DEF StaysInside
<1> QED  BY <1>2, <1>5, <1>6, <1>7, <1>8, <1>10 DEF Turns

LEMMA OriginalTurns ==
  ASSUME CountInv, CountInv', NEW t \in Threads, Original(t) \/ OriginalReturns(t)
  PROVE  TurnsOnce(t)
<1>0. At(t, "dispatch", "pick") \/ At(t, "dispatch", "original")
  BY DEF Original, OriginalReturns
<1>1. PICK g : g = Top(t)
  OBVIOUS
<1>2. depth[t] # 0 /\ g \in Frame /\ InDispatch(g) /\ g.at \in {"pick", "original"}
  BY <1>0, <1>1, DispatchTop DEF InDispatch
<1>3. CASE Original(t)
  <2>1. PICK calls, todo :
          \/ SetTop(t, [g EXCEPT !.at = "original", !.calls = calls])
          \/ SetTop(t, [g EXCEPT !.post = TRUE, !.todo = todo])
    BY <1>1, <1>3 DEF Original
  <2>2. PICK f : /\ \/ f = [g EXCEPT !.at = "original", !.calls = calls]
                    \/ f = [g EXCEPT !.post = TRUE, !.todo = todo]
                 /\ SetTop(t, f)
    BY <2>1
  <2>3. /\ f.call = g.call /\ f.ops = g.ops /\ f.target = g.target
        /\ f.at \in {"pick", "original"}
    BY <1>2, <2>2 DEF Frame
  <2> QED  BY <1>1, <1>2, <2>2, <2>3, TurnsOn DEF InCallback
<1>4. CASE OriginalReturns(t)
  <2>1. PICK f, todo : f = [g EXCEPT !.at = "pick", !.post = TRUE, !.todo = todo] /\ SetTop(t, f)
    BY <1>1, <1>4 DEF OriginalReturns
  <2>2. f.call = g.call /\ f.ops = g.ops /\ f.target = g.target /\ f.at = "pick"
    BY <1>2, <2>1 DEF Frame
  <2> QED  BY <1>1, <1>2, <2>1, <2>2, TurnsOn DEF InCallback
<1> QED  BY <1>3, <1>4

LEMMA DispatchTurns ==
  ASSUME CountInv, CountInv', NEW t \in Threads, DispatchStep(t)
  PROVE  Turns(t) /\ (TurnsOnce(t) \/ StaysInside)
<1>1. Leave(t) => TurnsOnce(t)
  <2>1. ASSUME Leave(t) PROVE TurnsOnce(t)
    <3>1. depth[t] # 0 /\ InDispatch(Top(t)) /\ Pop(t)
      BY <2>1 DEF Leave, At, InDispatch
    <3> QED  BY <3>1, TurnsPop
  <2> QED  BY <2>1
<1>2. TurnsOnce(t) \/ Recall(t)
  BY <1>1, EnterTurns, BindTurns, SnapshotTurns, PickTurns, AnswerTurns, OriginalTurns
     DEF DispatchStep
<1> QED  BY <1>2, OnceTurns, RecallTurns

\* A callback starts running if it is enabled and in a snapshot.
LEMMA RunsAnew ==
  ASSUME NEW t \in Threads, Turns(t), NEW c \in Callbacks, Runs(c)', ~Runs(c)
  PROVE  /\ callback[c].enabled
         /\ \E u \in Threads, e \in Depths : InDispatch(frame[u][e]) /\ c \in frame[u][e].ops
<1>1. PICK u \in Threads, e \in Depths : InCallback(frame'[u][e]) /\ frame'[u][e].callback = c
  BY DEF Runs, InCallback
<1>2. PICK g, f : g = frame[u][e] /\ f = frame'[u][e]
  OBVIOUS
<1>3. f = g \/ Turned(t, e, g, f)
  BY <1>2 DEF Turns
<1>4. ~(InCallback(g) /\ g.callback = c)
  BY <1>2 DEF Runs
<1>5. InDispatch(g) /\ c \in g.ops /\ callback[c].enabled
  BY <1>1, <1>2, <1>3, <1>4 DEF Turned
<1> QED  BY <1>2, <1>5

\* A snapshot is an old one, or of the callbacks that are live.
LEMMA SnapshotAnew ==
  ASSUME NEW t \in Threads, Turns(t), NEW u \in Threads, NEW e \in Depths, NEW f,
         f = frame'[u][e], InDispatch(f), NEW c \in f.ops
  PROVE  \/ InDispatch(frame[u][e]) /\ c \in frame[u][e].ops /\ frame[u][e].target = f.target
         \/ callback[c].state = "live" /\ callback[c].target = f.target
<1>1. PICK g : g = frame[u][e]
  OBVIOUS
<1>2. f = g \/ Turned(t, e, g, f)
  BY <1>1 DEF Turns
<1> QED  BY <1>1, <1>2 DEF Turned, CallbacksOf

\* A thread in a dispatch is not in the middle of a RemoveCallback below it.
LEMMA DispatchApart ==
  ASSUME CountInv, CallsApart, NEW t \in Threads, Turns(t) PROVE CallsApart'
<1>1. ASSUME NEW u \in Threads, NEW v \in Threads, NEW e \in Depths, NEW x \in Depths
      PROVE  ApartFrom(u, frame'[u][e], v, frame'[v][x])
  <2>1. PICK f, g, h, k : /\ f = frame'[u][e] /\ g = frame[u][e]
                          /\ h = frame'[v][x] /\ k = frame[v][x]
    OBVIOUS
  <2>2. ApartFrom(u, g, v, k)
    BY <2>1, ApartAll
  <2>3. f.call = "remove" => f = g
    BY <2>1 DEF Turns, Turned
  <2>4. h.call \in {"activate", "deactivate"} => h = k
    BY <2>1 DEF Turns, Turned
  <2>5. ASSUME f.call = "remove", u = v, InCallback(h) PROVE h.callback # f.callback
    <3>1. CASE h = k \/ (InCallback(k) /\ h.callback = k.callback)
      BY <2>2, <2>3, <2>5, <3>1 DEF ApartFrom
    <3>2. CASE ~(h = k \/ (InCallback(k) /\ h.callback = k.callback))
      <4>1. v = t /\ Turned(t, x, k, h)
        BY <2>1, <3>2 DEF Turns
      <4>2. x = depth[t] /\ InDispatch(k)
        BY <2>5, <3>2, <4>1 DEF Turned
      <4>3. e # depth[t]
        BY <2>1, <2>3, <2>5, <4>1, <4>2 DEF InDispatch
      <4>4. e < depth[t]
        <5>1. e <= depth[t]
          BY <2>1, <2>3, <2>5, <4>1 DEF CountInv, StackOK
        <5> QED  BY <4>2, <4>3, <5>1 DEF Depths
      <4>5. g.at \in {"in", "explicit", "recalling", "original", "direct"}
        BY <2>1, <2>5, <4>1, <4>4 DEF CountInv, StackOK
      <4>6. g.at \in {"collect", "begin", "restore", "wait"}
        BY <2>1, <2>3, <2>5, FrameNames DEF FrameOK, PluginCallOK
      <4> QED  BY <4>5, <4>6
    <3> QED  BY <3>1, <3>2
  <2> QED  BY <2>1, <2>2, <2>3, <2>4, <2>5 DEF ApartFrom
<1> QED  BY <1>1, ApartNext

LEMMA DispatchSilent ==
  ASSUME SilentInv, CountInv', NEW t \in Threads, DispatchStep(t) PROVE SilentOK'
<1>0. /\ CountInv /\ SnapshotsOn /\ ErasedIsSilent /\ CallsApart /\ InstalledOK
  BY DEF SilentInv, SilentOK, StorageInv, HookInv
<1>1. Turns(t) /\ UNCHANGED <<owner, quiet, shutdown>>
  BY <1>0, DispatchTurns, DispatchRecords
<1>2. \A c \in Callbacks :
        /\ callback'[c].state = callback[c].state /\ callback'[c].owner = callback[c].owner
        /\ callback'[c].target = callback[c].target /\ callback'[c].enabled = callback[c].enabled
  BY <1>0, DispatchRecords
<1>3. \A c \in Callbacks : Runs(c)' /\ ~callback[c].enabled => Runs(c)
  BY <1>1, RunsAnew
<1>4. \A p : OwnedBy(p)' = OwnedBy(p)
  BY <1>2 DEF OwnedBy
<1>5. SnapshotsOn'
  <2>1. ASSUME NEW u \in Threads, NEW e \in Depths, InDispatch(frame'[u][e]),
               NEW c \in frame'[u][e].ops, callback'[c].state = "live"
        PROVE  callback'[c].target = frame'[u][e].target
    <3>1. PICK f : f = frame'[u][e]
      OBVIOUS
    <3>2. FrameOK(f)
      BY <3>1 DEF CountInv, StackOK
    <3>3. c \in Callbacks
      BY <2>1, <3>1, <3>2 DEF FrameOK, DispatchOK, InDispatch
    <3>4. \/ InDispatch(frame[u][e]) /\ c \in frame[u][e].ops /\ frame[u][e].target = f.target
          \/ callback[c].state = "live" /\ callback[c].target = f.target
      BY <1>1, <2>1, <3>1, SnapshotAnew
    <3> QED  BY <1>0, <1>2, <2>1, <3>1, <3>3, <3>4 DEF SnapshotsOn
  <2> QED  BY <2>1 DEF SnapshotsOn, InDispatch
<1>6. ErasedIsSilent'
  <2>1. ASSUME NEW c \in Callbacks, callback'[c].state = "erased"
        PROVE  /\ ~Runs(c)'
               /\ callback'[c].enabled => \A u \in Threads, e \in Depths :
                                            InDispatch(frame'[u][e]) => c \notin frame'[u][e].ops
    <3>1. callback[c].state = "erased" /\ ~Runs(c)
      BY <1>0, <1>2, <2>1 DEF ErasedIsSilent
    <3>2. callback[c].enabled => \A u \in Threads, e \in Depths :
                                   InDispatch(frame[u][e]) => c \notin frame[u][e].ops
      BY <1>0, <3>1 DEF ErasedIsSilent
    <3>3. ~Runs(c)'
      BY <1>1, <3>1, <3>2, RunsAnew
    <3>4. ASSUME callback'[c].enabled, NEW u \in Threads, NEW e \in Depths,
                 InDispatch(frame'[u][e]), c \in frame'[u][e].ops
          PROVE  FALSE
      BY <1>1, <1>2, <3>1, <3>2, <3>4, SnapshotAnew
    <3> QED  BY <3>3, <3>4
  <2> QED  BY <2>1 DEF ErasedIsSilent, InDispatch
<1>7. ASSUME NEW p \in quiet' PROVE QuietIsOff(p)'
  <2>1. QuietIsOff(p)
    BY <1>1, <1>7 DEF SilentInv, SilentOK
  <2>2. ~OwnerReady(p)'
    BY <1>1, <2>1 DEF QuietIsOff, OwnerReady, OwnerExists
  <2>3. \A c \in OwnedBy(p) : c \in Callbacks /\ ~callback[c].enabled /\ ~Runs(c)
    BY <2>1 DEF QuietIsOff, Quieting, OwnedBy
  <2> QED  BY <1>2, <1>3, <1>4, <2>2, <2>3 DEF QuietIsOff, Quieting
<1>8. ASSUME NEW u \in Threads, NEW e \in Depths PROVE SilentFor(frame[u][e])'
  <2>1. PICK g, h : g = frame[u][e] /\ h = frame'[u][e]
    OBVIOUS
  <2>2. CASE h # g
    <3>1. h.call \in {"none", "dispatch"}
      BY <1>1, <2>1, <2>2 DEF Turns, Turned
    <3> QED  BY <2>1, <3>1 DEF SilentFor
  <2>3. CASE h = g
    <3>1. SilentFor(h) /\ FrameOK(h) /\ InstalledFor(h)
      BY <1>0, <2>1, <2>3, FrameNames DEF SilentInv, SilentOK, InstalledOK
    <3>2. ASSUME h.call = "add", h.at = "finish", h.flag, NEW v \in Threads, NEW x \in Depths,
                 frame'[v][x].target = h.target
          PROVE  ~InDispatch(frame'[v][x]) /\ ~(frame'[v][x].call = "direct" /\ frame'[v][x].flag)
      <4>1. PICK k, j : k = frame[v][x] /\ j = frame'[v][x]
        OBVIOUS
      <4>2. CASE j = k
        BY <3>1, <3>2, <4>1, <4>2 DEF SilentFor
      <4>3. CASE j # k
        <5>1. Dispatches(t, k, j)
          BY <1>0, <4>1, <4>3, DispatchMoves
        <5>2. ~target[h.target].enabled
          BY <3>1, <3>2 DEF InstalledFor
        <5>3. \A w \in Threads, y \in Depths : frame[w][y].target = h.target =>
                ~(frame[w][y].call = "dispatch") /\ ~(frame[w][y].call = "direct" /\ frame[w][y].flag)
          BY <3>1, <3>2 DEF SilentFor, InDispatch
        <5>4. j.call # "dispatch" /\ j.call # "direct"
          BY <3>2, <4>1, <5>1, <5>2, <5>3 DEF Dispatches
        <5> QED  BY <4>1, <5>4 DEF InDispatch
      <4> QED  BY <4>2, <4>3
    <3>3. ASSUME h.call = "deactivate", NEW c \in OwnedBy(h.plugin)
          PROVE  ~callback'[c].enabled /\ (Runs(c)' => c \in h.todo)
      <4>1. c \in Callbacks /\ ~callback[c].enabled /\ (Runs(c) => c \in h.todo)
        BY <3>1, <3>3 DEF SilentFor, Quieting, OwnedBy
      <4> QED  BY <1>2, <1>3, <4>1
    <3>4. ASSUME h.call = "remove", h.at \in {"restore", "wait"}
          PROVE  ~callback'[h.callback].enabled /\ (Runs(h.callback)' => h.callback \in h.todo)
      <4>1. h.callback \in Callbacks
        BY <3>1, <3>4 DEF FrameOK, PluginCallOK
      <4>2. ~callback[h.callback].enabled /\ (Runs(h.callback) => h.callback \in h.todo)
        BY <3>1, <3>4 DEF SilentFor, Quieting
      <4> QED  BY <1>2, <1>3, <4>1, <4>2
    <3>5. ASSUME h.call = "release", Changing(h), NEW c \in OwnedBy(h.plugin)
          PROVE  /\ ~callback'[c].enabled
                 /\ Runs(c)' => /\ callback'[c].target \in h.ops
                                /\ h.at \in {"wait", "drain"} /\ callback'[c].target = h.target =>
                                     h.at = "wait" /\ c \in h.todo
      <4>1. c \in Callbacks
        BY <3>5 DEF OwnedBy
      <4>2. /\ ~callback[c].enabled
            /\ Runs(c) => /\ callback[c].target \in h.ops
                          /\ h.at \in {"wait", "drain"} /\ callback[c].target = h.target =>
                               h.at = "wait" /\ c \in h.todo
        BY <3>1, <3>5 DEF SilentFor
      <4> QED  BY <1>2, <1>3, <4>1, <4>2
    <3>6. /\ h.call = "activate" => h.plugin \notin quiet'
          /\ h.call = "remove" /\ h.at = "restore" /\ h.flag => h.plugin \notin quiet'
          /\ h.call = "deactivate" => ~owner'[h.plugin].accepting
      BY <1>1, <3>1 DEF SilentFor
    <3>7. SilentNext(h)
      BY <1>4, <3>2, <3>3, <3>4, <3>5, <3>6 DEF SilentNext, SilentFor, Quieting
    <3> QED  BY <2>1, <2>3, <3>7 DEF SilentNext
  <2> QED  BY <2>2, <2>3
<1>9. CallsApart'
  BY <1>0, <1>1, DispatchApart
<1> QED  BY <1>5, <1>6, <1>7, <1>8, <1>9 DEF SilentOK

-----------------------------------------------------------------------------
(* The invariant.                                                          *)

LEMMA SilentInit == Init => SilentInv
<1> SUFFICES ASSUME Init PROVE SilentInv
  OBVIOUS
<1>1. StorageInv
  BY StorageInit
<1>2. \A u \in Threads, e \in Depths : frame[u][e] = Idle
  BY DEF Init, Depths
<1>3. quiet = {} /\ \A c \in Callbacks : callback[c].state = "free"
  BY DEF Init
<1>4. Idle.call = "none"
  BY IdleFrame
<1>5. SnapshotsOn /\ CallsApart /\ ErasedIsSilent
  BY <1>2, <1>3, <1>4 DEF SnapshotsOn, CallsApart, ErasedIsSilent, InDispatch
<1>6. \A u \in Threads, e \in Depths : SilentFor(frame[u][e])
  BY <1>2, <1>4 DEF SilentFor
<1> QED  BY <1>1, <1>3, <1>5, <1>6 DEF SilentInv, SilentOK

LEMMA PluginCallSilent ==
  ASSUME SilentInv, CountInv', Risks = {}, NEW t \in Threads, NEW p \in Plugins, PluginCall(t, p)
  PROVE  SilentAside
BY StartReleaseTargetSilent, StartAddSilent, DirectCallSilent, StartResolveSilent,
   StartRemoveSilent, SetEnabledSilent DEF PluginCall

LEMMA CallStepSilent ==
  ASSUME SilentInv, CountInv', Risks = {}, NEW t \in Threads, CallStep(t)
  PROVE  SilentAside
BY CollectAgainSilent, CollectSilent, ResolveSilent, ReleaseTargetSilent, AddSilent,
   InstallSilent, AddDoneSilent, RemoveSilent, RestoreForRemoveSilent, AwaitSilent,
   RemoveDoneSilent, SetDoneSilent, DirectReturnsSilent DEF CallStep

LEMMA HostCallSilent ==
  ASSUME SilentInv, CountInv', Risks = {}, NEW t \in Threads, HostCall(t) PROVE SilentAside
BY AuthorizeSilent, RestoreSilent, DeactivateSilent, StartReleaseSilent, StartShutdownSilent
   DEF HostCall

LEMMA HostStepSilent ==
  ASSUME SilentInv, CountInv', Risks = {}, NEW t \in Threads, HostStep(t) PROVE SilentAside
BY ActivateSilent, DeactivateDoneSilent, ReleaseSilent, ReleaseOpSilent, ReleaseRetrySilent,
   ReleaseDrainSilent, ReleaseDoneSilent, ShutdownStepSilent, ShutdownDoneSilent DEF HostStep

LEMMA SilentInvNext ==
  ASSUME Risks = {} PROVE SilentInv /\ [Next]_vars => SilentInv'
<1> SUFFICES ASSUME SilentInv, [Next]_vars PROVE SilentInv'
  OBVIOUS
<1>1. StorageInv'
  BY StorageNext DEF SilentInv
<1>2. CountInv'
  BY <1>1 DEF StorageInv, HookInv
<1>3. SilentOK'
  <2>1. CASE UNCHANGED vars
    <3>1. UNCHANGED frame /\ UNCHANGED <<owner, quiet, callback, shutdown>>
      BY <2>1 DEF vars, threads
    <3> QED  BY <1>2, <3>1, PromisesSame, SilentUnmoved DEF SilentAside
  <2>2. CASE Next
    BY <1>2, <2>2, PluginCallSilent, CallStepSilent, HostCallSilent, HostStepSilent,
       DispatchSilent DEF Next, SilentAside
  <2> QED  BY <2>1, <2>2
<1> QED  BY <1>1, <1>3 DEF SilentInv

\* Who may still be called: a call that waits for callbacks has disabled them, and those
\* that are quiet are not enabled again while it waits, if plugins neither remove a
\* callback from inside it nor make the calls that the host keeps apart.
THEOREM HookSilentInvariant ==
  ASSUME Risks = {} PROVE Spec => []SilentInv
<1>1. Init => SilentInv
  BY SilentInit
<1>2. SilentInv /\ [Next]_vars => SilentInv'
  BY SilentInvNext
<1> QED  BY <1>1, <1>2, PTL DEF Spec

\* A callback that a plugin has in a dispatch, or that a dispatch may call.
LEMMA SilentPlugin ==
  ASSUME SilentInv, NEW p \in quiet, NEW c \in Callbacks, callback[c].owner = p
  PROVE  c \notin Callable /\ ~Runs(c)
<1>0. CountInv /\ SnapshotOK /\ ErasedIsSilent /\ QuietIsOff(p)
  BY DEF SilentInv, SilentOK, StorageInv, HookInv, CountInv
<1>1. CASE callback[c].state = "live"
  <2>1. ~callback[c].enabled /\ ~Runs(c)
    BY <1>0, <1>1 DEF QuietIsOff, OwnedBy, Quieting
  <2> QED  BY <2>1 DEF Callable
<1>2. CASE callback[c].state = "erased"
  <2>1. ~Runs(c)
    BY <1>0, <1>2 DEF ErasedIsSilent
  <2>2. ASSUME callback[c].enabled, NEW f \in AllFrames, InDispatch(f), c \in f.ops PROVE FALSE
    <3>1. PICK t \in Threads, d \in Depths : f = frame[t][d]
      BY <1>0, FrameFrom
    <3> QED  BY <1>0, <1>2, <2>2, <3>1 DEF ErasedIsSilent
  <2> QED  BY <1>2, <2>1, <2>2 DEF Callable
<1>3. CASE callback[c].state = "free"
  <2>1. \A t \in Threads, d \in Depths : InDispatch(frame[t][d]) => c \notin frame[t][d].ops
    BY <1>0, <1>3 DEF SnapshotOK, InDispatch
  <2>2. ASSUME NEW f \in AllFrames, InDispatch(f), c \in f.ops PROVE FALSE
    <3>1. PICK t \in Threads, d \in Depths : f = frame[t][d]
      BY <1>0, FrameFrom
    <3> QED  BY <2>1, <2>2, <3>1
  <2>3. ASSUME NEW t \in Threads, NEW d \in Depths, InCallback(frame[t][d]),
               frame[t][d].callback = c
        PROVE  FALSE
    <3>1. InDispatch(frame[t][d]) /\ FrameOK(frame[t][d])
      BY <1>0, <2>3, FrameNames DEF InCallback, InDispatch
    <3>2. c \in frame[t][d].ops
      BY <2>3, <3>1 DEF FrameOK, DispatchOK, InCallback
    <3> QED  BY <2>1, <3>1, <3>2
  <2> QED  BY <1>3, <2>2, <2>3 DEF Callable, Runs
<1> QED  BY <1>0, <1>1, <1>2, <1>3 DEF CountInv, TypeOK, Callback

\* A plugin whose Deactivate or ReleasePlugin answered OK is called by no dispatch, on
\* whatever snapshot a thread still goes, until it is activated again, for any constants
\* and whatever the library refuses, without the three risks.
THEOREM HookQuietIsSilent ==
  ASSUME Risks = {} PROVE Spec => []QuietIsSilent
<1>1. SilentInv => QuietIsSilent
  <2> SUFFICES ASSUME SilentInv, NEW p \in quiet
               PROVE  /\ \A c \in Callable : callback[c].owner # p
                      /\ \A t \in Threads, d \in 1..MaxDepth :
                           (IF InCallback(frame[t][d]) THEN callback[frame[t][d].callback].owner
                            ELSE NoPlugin) # p
    BY DEF QuietIsSilent, Layer!StoppedIsSilent, Layer!Runs, Opened, InsideOf
  <2>1. CountInv /\ p \in Plugins
    BY DEF SilentInv, StorageInv, HookInv, CountInv, TypeOK
  <2>2. \A c \in Callable : callback[c].owner # p
    BY SilentPlugin DEF Callable
  <2>3. ASSUME NEW t \in Threads, NEW d \in Depths, InCallback(frame[t][d])
        PROVE  callback[frame[t][d].callback].owner # p
    <3>1. FrameOK(frame[t][d])
      BY <2>1, FrameNames
    <3>2. PICK c \in Callbacks : c = frame[t][d].callback
      BY <2>3, <3>1 DEF FrameOK, DispatchOK, InCallback
    <3>3. Runs(c)
      BY <2>3, <3>2 DEF Runs
    <3> QED  BY <3>2, <3>3, SilentPlugin
  <2>4. p # NoPlugin
    BY <2>1, HookAssumption DEF HookAssumption
  <2> QED  BY <2>2, <2>3, <2>4 DEF Depths
<1> QED  BY <1>1, HookSilentInvariant, PTL

-----------------------------------------------------------------------------
(* KeelHook implements the dispatch layer.                                 *)

\* Who may be called is read from the callbacks alone: a snapshot has none that
\* was erased while enabled.
OpenedIs ==
  /\ \A p : p \in Opened <=> \E c \in Callbacks : /\ callback[c].state = "live"
                                                  /\ callback[c].enabled
                                                  /\ callback[c].owner = p
  /\ Opened \subseteq Plugins

LEMMA OpenedLive == SilentInv => OpenedIs
<1> SUFFICES ASSUME SilentInv PROVE OpenedIs
  OBVIOUS
<1>1. CountInv /\ SnapshotOK /\ ErasedIsSilent /\ LiveOK
  BY DEF SilentInv, SilentOK, StorageInv, HookInv, CountInv
<1>2. ASSUME NEW c \in Callbacks, callback[c].enabled, NEW f \in AllFrames, InDispatch(f),
             c \in f.ops
      PROVE  callback[c].state = "live"
  <2>1. PICK t \in Threads, d \in Depths : f = frame[t][d]
    BY <1>1, FrameFrom
  <2>2. callback[c].state # "free" /\ callback[c].state # "erased"
    BY <1>1, <1>2, <2>1 DEF SnapshotOK, ErasedIsSilent, InDispatch
  <2> QED  BY <1>1, <2>2 DEF CountInv, TypeOK, Callback
<1>3. Callable = {c \in Callbacks : callback[c].state = "live" /\ callback[c].enabled}
  BY <1>2 DEF Callable
<1> QED  BY <1>1, <1>3 DEF OpenedIs, Opened, LiveOK

\* What runs has not been erased.
RunningLive ==
  \A t \in Threads, d \in Depths : InCallback(frame[t][d]) =>
    /\ frame[t][d].callback \in Callbacks
    /\ callback[frame[t][d].callback].state = "live"

LEMMA RunsLive == SilentInv => RunningLive
<1> SUFFICES ASSUME SilentInv, NEW t \in Threads, NEW d \in Depths, InCallback(frame[t][d])
             PROVE  /\ frame[t][d].callback \in Callbacks
                    /\ callback[frame[t][d].callback].state = "live"
  BY DEF RunningLive
<1>1. CountInv /\ SnapshotOK /\ ErasedIsSilent
  BY DEF SilentInv, SilentOK, StorageInv, HookInv, CountInv
<1>2. FrameOK(frame[t][d]) /\ frame[t][d].call = "dispatch"
  BY <1>1, FrameNames DEF InCallback
<1>3. PICK c \in Callbacks : c = frame[t][d].callback /\ c \in frame[t][d].ops
  BY <1>2 DEF FrameOK, DispatchOK, InCallback
<1>4. Runs(c)
  BY <1>3 DEF Runs
<1>5. callback[c].state # "free" /\ callback[c].state # "erased"
  BY <1>1, <1>2, <1>3, <1>4 DEF SnapshotOK, ErasedIsSilent
<1>6. callback[c].state = "live"
  BY <1>1, <1>5 DEF CountInv, TypeOK, Callback
<1> QED  BY <1>3, <1>6

\* A callback in the registry does not change its owner.
OwnersKept ==
  \A c \in Callbacks : callback[c].state = "live" /\ callback'[c].state = "live" =>
    callback'[c].owner = callback[c].owner

LEMMA StillInside == ASSUME StillRuns PROVE StaysInside
BY DEF StillRuns, StaysInside, InCallback, InDispatch

\* Whoever is inside a callback stays inside its plugin.
LEMMA InsideStays ==
  ASSUME SilentInv, SilentInv', StaysInside, OwnersKept PROVE InsideOf' = InsideOf
<1>1. RunningLive /\ RunningLive'
  BY RunsLive, PTL
<1>2. ASSUME NEW t \in Threads, NEW d \in 1..MaxDepth
      PROVE  (IF InCallback(frame'[t][d]) THEN callback'[frame'[t][d].callback].owner ELSE NoPlugin)
             = IF InCallback(frame[t][d]) THEN callback[frame[t][d].callback].owner ELSE NoPlugin
  <2>1. CASE InCallback(frame[t][d])
    <3>1. InCallback(frame'[t][d]) /\ frame'[t][d].callback = frame[t][d].callback
      BY <2>1 DEF StaysInside, Depths
    <3>2. PICK c \in Callbacks : c = frame[t][d].callback /\ callback[c].state = "live"
      BY <1>1, <2>1 DEF RunningLive, Depths
    <3>3. callback'[c].state = "live"
      BY <1>1, <3>1, <3>2 DEF RunningLive, Depths, InCallback
    <3> QED  BY <2>1, <3>1, <3>2, <3>3 DEF OwnersKept
  <2>2. CASE ~InCallback(frame[t][d])
    <3>1. ~InCallback(frame'[t][d])
      BY <2>2 DEF StaysInside, Depths
    <3> QED  BY <2>2, <3>1
  <2> QED  BY <2>1, <2>2
<1> QED  BY <1>2, Zenon DEF InsideOf, InCallback

\* What a step may do to the callbacks and to the plugins that are quiet: disable
\* and erase callbacks, add or enable one plugin's, begin its activation, or answer
\* OK.
Shuts == quiet' = quiet /\ \A c \in Callbacks : CallbackStays(c)
OpensOnly(p) ==
  /\ quiet' = quiet /\ p \notin quiet
  /\ \A c \in Callbacks :
       \/ callback'[c] = callback[c]
       \/ /\ callback[c].state = "live" => callback[c].owner = p
          /\ callback'[c].state = "live" => callback'[c].owner = p
Restarts(p) == quiet' = quiet \ {p} /\ callback' = callback
Quiesces ==
  /\ quiet \subseteq quiet'
  /\ \A c \in Callbacks :
       /\ CallbackStays(c)
       /\ callback[c].state = "live" /\ callback[c].enabled =>
            callback'[c].state = "live" /\ callback'[c].enabled
Admitted ==
  Shuts \/ Quiesces \/ \E p \in Plugins : OpensOnly(p) \/ Restarts(p)

\* Callbacks are disabled or erased.
LEMMA LayerShuts ==
  ASSUME SilentInv, SilentInv', StaysInside, Shuts PROVE [Layer!Next]_(Layer!layer)
<1>1. OpenedIs /\ OpenedIs'
  BY OpenedLive, PTL
<1>2. InsideOf' = InsideOf
  BY InsideStays DEF Shuts, CallbackStays, OwnersKept
<1>3. Opened' \subseteq Opened
  BY <1>1 DEF OpenedIs, Shuts, CallbackStays
<1>4. PICK S \in SUBSET Plugins : S = Opened \ Opened'
  BY <1>1 DEF OpenedIs
<1>5. Layer!Shut(S)
  BY <1>2, <1>3, <1>4 DEF Layer!Shut, Shuts
<1> QED  BY <1>5 DEF Layer!Next

\* AddCallback, SetCallbackEnabled, Activate, or a removal that was refused.
LEMMA LayerOpens ==
  ASSUME SilentInv, SilentInv', StaysInside, NEW p \in Plugins, OpensOnly(p)
  PROVE  [Layer!Next]_(Layer!layer)
<1>1. OpenedIs /\ OpenedIs'
  BY OpenedLive, PTL
<1>2. InsideOf' = InsideOf
  BY InsideStays DEF OpensOnly, OwnersKept
<1>3. \A q : q # p => (q \in Opened' <=> q \in Opened)
  BY <1>1 DEF OpenedIs, OpensOnly
<1>4. CASE p \in Opened'
  <2>1. Layer!Open(p)
    BY <1>2, <1>3, <1>4 DEF Layer!Open, OpensOnly
  <2> QED  BY <2>1 DEF Layer!Next
<1>5. CASE p \notin Opened'
  <2>1. Layer!Shut({p})
    BY <1>2, <1>3, <1>5 DEF Layer!Shut, OpensOnly
  <2>2. {p} \in SUBSET Plugins
    OBVIOUS
  <2> QED  BY <2>1, <2>2 DEF Layer!Next
<1> QED  BY <1>4, <1>5

\* The host authorizes a plugin or marks it running.
LEMMA LayerRestarts ==
  ASSUME SilentInv, SilentInv', StaysInside, NEW p \in Plugins, Restarts(p)
  PROVE  [Layer!Next]_(Layer!layer)
<1>1. OpenedIs /\ OpenedIs'
  BY OpenedLive, PTL
<1>2. InsideOf' = InsideOf
  BY InsideStays DEF Restarts, OwnersKept
<1>3. Opened' = Opened
  BY <1>1 DEF OpenedIs, Restarts
<1>4. Layer!Restart(p)
  BY <1>2, <1>3 DEF Layer!Restart, Restarts
<1> QED  BY <1>4 DEF Layer!Next

\* Deactivate, ReleasePlugin or Shutdown answers OK: nothing of the plugins is enabled
\* or running.
LEMMA LayerQuiesces ==
  ASSUME SilentInv, SilentInv', QuietIsSilent', StaysInside, Quiesces
  PROVE  [Layer!Next]_(Layer!layer)
<1>1. OpenedIs /\ OpenedIs'
  BY OpenedLive, PTL
<1>2. InsideOf' = InsideOf
  BY InsideStays DEF Quiesces, CallbackStays, OwnersKept
<1>3. Opened' = Opened
  <2>1. ASSUME NEW x \in Opened PROVE x \in Opened'
    <3>1. PICK c \in Callbacks :
            callback[c].state = "live" /\ callback[c].enabled /\ callback[c].owner = x
      BY <1>1, <2>1 DEF OpenedIs
    <3>2. callback'[c].state = "live" /\ callback'[c].enabled /\ callback'[c].owner = x
      BY <3>1 DEF Quiesces, CallbackStays
    <3> QED  BY <1>1, <3>2 DEF OpenedIs
  <2>2. ASSUME NEW x \in Opened' PROVE x \in Opened
    BY <1>1, <2>2 DEF OpenedIs, Quiesces, CallbackStays
  <2> QED  BY <2>1, <2>2
<1>4. PICK S \in SUBSET Plugins : S = quiet'
  BY DEF SilentInv, StorageInv, HookInv, CountInv, TypeOK
<1>5. \A q \in S : q \notin Opened /\ ~Layer!Runs(q)
  BY <1>2, <1>3, <1>4 DEF QuietIsSilent, Layer!StoppedIsSilent, Layer!Runs
<1>6. Layer!Quiesce(S)
  BY <1>2, <1>3, <1>4, <1>5 DEF Layer!Quiesce, Quiesces
<1> QED  BY <1>6 DEF Layer!Next

LEMMA LayerAdmits ==
  ASSUME SilentInv, SilentInv', QuietIsSilent', StillRuns, Admitted
  PROVE  [Layer!Next]_(Layer!layer)
BY StillInside, LayerShuts, LayerQuiesces, LayerOpens, LayerRestarts DEF Admitted

\* A layer that is left alone.
LEMMA LayerStands ==
  ASSUME Opened' = Opened, InsideOf' = InsideOf, quiet' = quiet
  PROVE  [Layer!Next]_(Layer!layer)
BY DEF Layer!layer

LEMMA InsideSame ==
  ASSUME NEW t \in Threads, NEW d \in Depths
  PROVE  [InsideOf EXCEPT ![t][d] = InsideOf[t][d]] = InsideOf
<1> DEFINE In(u, e) == IF InCallback(frame[u][e]) THEN callback[frame[u][e].callback].owner
                       ELSE NoPlugin
<1>1. InsideOf = [u \in Threads |-> [e \in 1..MaxDepth |-> In(u, e)]]
  BY DEF InsideOf
<1> HIDE DEF In
<1>2. PICK I : I = InsideOf
  OBVIOUS
<1>3. PICK y : y = I[t]
  OBVIOUS
<1>4. y = [e \in 1..MaxDepth |-> In(t, e)]
  BY <1>1, <1>2, <1>3
<1>5. [y EXCEPT ![d] = y[d]] = y
  BY <1>4
<1>6. [I EXCEPT ![t] = y] = I
  BY <1>1, <1>2, <1>3
<1> QED  BY <1>2, <1>3, <1>5, <1>6

\* Who is inside after one frame was replaced.
LEMMA InsideTurned ==
  ASSUME RunningLive, NEW t \in Threads, NEW d \in Depths, NEW f, NEW v, Changed(t, d, f),
         v = IF InCallback(f) THEN callback'[f.callback].owner ELSE NoPlugin,
         \A c \in Callbacks : callback'[c].owner = callback[c].owner
  PROVE  InsideOf' = [InsideOf EXCEPT ![t][d] = v]
<1> DEFINE In(u, e) == IF InCallback(frame[u][e]) THEN callback[frame[u][e].callback].owner
                       ELSE NoPlugin
           New(u, e) == IF InCallback(frame'[u][e])
                        THEN callback'[frame'[u][e].callback].owner ELSE NoPlugin
           Put(u, e) == IF u = t /\ e = d THEN v ELSE In(u, e)
<1>1. ASSUME NEW u \in Threads, NEW e \in 1..MaxDepth
      PROVE  New(u, e) = Put(u, e)
  <2>1. CASE u = t /\ e = d
    BY <2>1 DEF Changed
  <2>2. CASE ~(u = t /\ e = d)
    <3>1. frame'[u][e] = frame[u][e]
      BY <2>2 DEF Changed, Depths
    <3>2. InCallback(frame[u][e]) => frame[u][e].callback \in Callbacks
      BY DEF RunningLive, Depths
    <3> QED  BY <2>2, <3>1, <3>2
  <2> QED  BY <2>1, <2>2
<1>2. InsideOf = [u \in Threads |-> [e \in 1..MaxDepth |-> In(u, e)]]
  BY DEF InsideOf
<1>3. InsideOf' = [u \in Threads |-> [e \in 1..MaxDepth |-> New(u, e)]]
  BY DEF InsideOf, InCallback
<1> HIDE DEF In, New
<1>4. InsideOf' = [u \in Threads |-> [e \in 1..MaxDepth |-> Put(u, e)]]
  BY <1>1, <1>3, Zenon
<1>5. [InsideOf EXCEPT ![t][d] = v] = [u \in Threads |-> [e \in 1..MaxDepth |-> Put(u, e)]]
  BY <1>2 DEF Depths
<1> QED  BY <1>4, <1>5

\* Dispatch: InvokeCallback enters a callback only if it is enabled, whatever the
\* snapshot is worth.
LEMMA LayerDispatches ==
  ASSUME SilentInv, SilentInv', NEW t \in Threads, DispatchStep(t)
  PROVE  [Layer!Next]_(Layer!layer)
<1>1. CountInv /\ CountInv'
  BY DEF SilentInv, StorageInv, HookInv
<1>2. /\ quiet' = quiet
      /\ \A c \in Callbacks : /\ callback'[c].state = callback[c].state
                              /\ callback'[c].owner = callback[c].owner
                              /\ callback'[c].enabled = callback[c].enabled
  BY <1>1, DispatchRecords
<1>3. OpenedIs /\ OpenedIs' /\ RunningLive
  BY OpenedLive, RunsLive, PTL
<1>4. Opened' = Opened
  <2>1. \A x : x \in Opened' <=> x \in Opened
    BY <1>2, <1>3 DEF OpenedIs
  <2> QED  BY <2>1
<1>5. CASE StaysInside
  <2>1. InsideOf' = InsideOf
    BY <1>2, <1>5, InsideStays DEF OwnersKept
  <2> QED  BY <1>2, <1>4, <2>1, LayerStands
<1>6. CASE TurnsOnce(t)
  <2>1. PICK d \in Depths : \E f : Changed(t, d, f) /\ Turned(t, d, frame[t][d], f)
    BY <1>6 DEF TurnsOnce
  <2>2. PICK f, g : Changed(t, d, f) /\ Turned(t, d, g, f) /\ g = frame[t][d]
    BY <2>1
  <2>3. PICK v : v = IF InCallback(f) THEN callback'[f.callback].owner ELSE NoPlugin
    OBVIOUS
  <2>4. InsideOf' = [InsideOf EXCEPT ![t][d] = v]
    BY <1>2, <1>3, <2>2, <2>3, InsideTurned
  <2>5. InsideOf[t][d] = IF InCallback(g) THEN callback[g.callback].owner ELSE NoPlugin
    BY <2>2 DEF InsideOf, Depths
  <2>6. CASE ~InCallback(f)
    <3>1. Layer!Leave(t, d)
      BY <1>2, <1>4, <2>3, <2>4, <2>6 DEF Layer!Leave
    <3> QED  BY <3>1 DEF Layer!Next, Depths
  <2>7. CASE InCallback(f) /\ InCallback(g) /\ f.callback = g.callback
    <3>1. g.callback \in Callbacks
      BY <1>3, <2>2, <2>7 DEF RunningLive
    <3>2. v = InsideOf[t][d]
      BY <1>2, <2>3, <2>5, <2>7, <3>1
    <3>3. InsideOf' = InsideOf
      BY <2>2, <2>4, <3>2, InsideSame
    <3> QED  BY <1>2, <1>4, <3>3, LayerStands
  <2>8. CASE InCallback(f) /\ ~(InCallback(g) /\ f.callback = g.callback)
    <3>1. InDispatch(g) /\ ~InCallback(g) /\ f.callback \in g.ops /\ callback[f.callback].enabled
      BY <2>2, <2>8 DEF Turned
    <3>2. RunningLive'
      BY RunsLive, PTL
    <3>3. PICK c \in Callbacks : c = f.callback /\ callback'[c].state = "live"
      BY <2>2, <2>8, <3>2 DEF RunningLive, Changed, InCallback
    <3>4. PICK p : p = callback[c].owner
      OBVIOUS
    <3>5. p \in Opened /\ p \in Plugins /\ v = p
      BY <1>2, <1>3, <2>3, <2>8, <3>1, <3>3, <3>4 DEF OpenedIs
    <3>6. InsideOf[t][d] = NoPlugin
      BY <2>5, <3>1
    <3>7. Layer!Enter(t, d, p)
      BY <1>2, <1>4, <2>4, <3>5, <3>6 DEF Layer!Enter
    <3> QED  BY <3>5, <3>7 DEF Layer!Next, Depths
  <2> QED  BY <2>6, <2>7, <2>8
<1> QED  BY <1>1, <1>5, <1>6, DispatchTurns

-----------------------------------------------------------------------------
(* What each action does to the callbacks and to the quiet plugins.        *)

LEMMA AdmitsSame == ASSUME UNCHANGED <<quiet, callback>> PROVE Admitted
BY DEF Admitted, Shuts, CallbackStays

LEMMA AdmitsDisabled ==
  ASSUME CountInv, NEW S, callback' = Disabled(S), quiet' = quiet PROVE Admitted
<1>1. PICK D : D = Disabled(S)
  OBVIOUS
<1>2. /\ callback' = D
      /\ \A c \in Callbacks : /\ D[c].state = callback[c].state
                              /\ D[c].owner = callback[c].owner
                              /\ D[c].target = callback[c].target
                              /\ D[c].enabled = (callback[c].enabled /\ c \notin S)
  BY <1>1, TypesOf, DisabledFacts
<1>3. \A c \in Callbacks : CallbackStays(c)
  BY <1>2 DEF CallbackStays
<1> QED  BY <1>3 DEF Admitted, Shuts

\* What is erased is not enabled, if a plugin becomes quiet by it.
LEMMA AdmitsErased ==
  ASSUME CountInv, NEW S, callback' = Erased(S), quiet \subseteq quiet',
         quiet' = quiet \/ \A c \in S : c \in Callbacks /\ ~callback[c].enabled
  PROVE  Admitted
<1>1. PICK D : D = Erased(S)
  OBVIOUS
<1>2. /\ callback' = D
      /\ \A c \in Callbacks : /\ c \notin S => D[c] = callback[c]
                              /\ c \in S => D[c].state = "erased"
                              /\ D[c].enabled = callback[c].enabled
  BY <1>1, TypesOf, ErasedFacts
<1>3. \A c \in Callbacks : CallbackStays(c)
  BY <1>2 DEF CallbackStays
<1>4. CASE quiet' = quiet
  BY <1>3, <1>4 DEF Admitted, Shuts
<1>5. CASE \A c \in S : c \in Callbacks /\ ~callback[c].enabled
  <2>1. Quiesces
    BY <1>2, <1>3, <1>5 DEF Quiesces
  <2> QED  BY <2>1 DEF Admitted
<1> QED  BY <1>4, <1>5

\* One callback of a plugin that is not quiet is added or enabled, or is disabled.
LEMMA AdmitsOne ==
  ASSUME NEW p \in Plugins, NEW c \in Callbacks, quiet' = quiet,
         p \notin quiet \/ CallbackStays(c),
         callback[c].state = "live" => callback[c].owner = p,
         callback'[c].state = "live" => callback'[c].owner = p,
         \A b \in Callbacks : b # c => callback'[b] = callback[b]
  PROVE  Admitted
<1>1. CASE p \notin quiet
  BY <1>1 DEF Admitted, OpensOnly
<1>2. CASE CallbackStays(c)
  <2>1. \A b \in Callbacks : CallbackStays(b)
    BY <1>2 DEF CallbackStays
  <2> QED  BY <2>1 DEF Admitted, Shuts
<1> QED  BY <1>1, <1>2

\* A plugin that is accepting is not quiet.
LEMMA ReadyNotQuiet == ASSUME SilentInv, NEW p, OwnerReady(p) PROVE p \notin quiet
BY DEF SilentInv, SilentOK, QuietIsOff

LEMMA PluginCallAdmits ==
  ASSUME SilentInv, NEW t \in Threads, NEW p \in Plugins, PluginCall(t, p) PROVE Admitted
<1>0. CountInv /\ callback \in [Callbacks -> Callback]
  BY TypesOf DEF SilentInv, StorageInv, HookInv
<1>1. ASSUME NEW c \in Callbacks, NEW on \in BOOLEAN, SetEnabled(t, p, c, on) PROVE Admitted
  <2>1. callback[c].state = "live" /\ callback[c].owner = p /\ quiet' = quiet
    BY <1>1 DEF SetEnabled, OwnedBy
  <2>2. /\ callback'[c].enabled = on
        /\ callback'[c].state = callback[c].state /\ callback'[c].owner = callback[c].owner
        /\ callback'[c].target = callback[c].target
        /\ \A x \in Callbacks : x # c => callback'[x] = callback[x]
    BY <1>0, <1>1, FlagSet DEF SetEnabled
  <2>3. on => p \notin quiet
    BY <1>1, ReadyNotQuiet DEF SetEnabled
  <2>4. ~on => CallbackStays(c)
    BY <2>2 DEF CallbackStays
  <2> QED  BY <2>1, <2>2, <2>3, <2>4, AdmitsOne
<1>2. \/ UNCHANGED <<quiet, callback>>
      \/ \E c \in Callbacks, on \in BOOLEAN : SetEnabled(t, p, c, on)
  BY DEF PluginCall, StartReleaseTarget, StartAdd, DirectCall, StartResolve, StartRemove, Start
<1> QED  BY <1>1, <1>2, AdmitsSame

LEMMA AddAdmits == ASSUME SilentInv, NEW t \in Threads, Add(t) PROVE Admitted
<1>0. CountInv /\ callback \in [Callbacks -> Callback]
  BY TypesOf DEF SilentInv, StorageInv, HookInv
<1>1. PICK g : g = Top(t)
  OBVIOUS
<1>2. PICK p : p = g.plugin
  OBVIOUS
<1>3. p \in Plugins
  <2>1. g.call = "add" /\ FrameOK(g)
    BY <1>0, <1>1, TopOK DEF Add, At
  <2> QED  BY <1>2, <2>1 DEF FrameOK
<1>4. CASE Refuse(t)
  BY <1>4, AdmitsSame DEF Refuse
<1>5. CASE ~Refuse(t)
  <2>1. PICK c \in Callbacks, pre \in BOOLEAN :
          /\ OwnerReady(p) /\ callback[c].state = "free" /\ quiet' = quiet
          /\ callback' = [callback EXCEPT ![c] =
               [state |-> "live", owner |-> p, target |-> g.target,
                enabled |-> owner[p].active, active |-> 0, pre |-> pre]]
    BY <1>1, <1>2, <1>5 DEF Add
  <2>2. callback'[c].owner = p /\ \A b \in Callbacks : b # c => callback'[b] = callback[b]
    BY <1>0, <2>1
  <2> QED  BY <1>3, <2>1, <2>2, ReadyNotQuiet, AdmitsOne
<1> QED  BY <1>4, <1>5

LEMMA RestoreForRemoveAdmits ==
  ASSUME SilentInv, NEW t \in Threads, RestoreForRemove(t) PROVE Admitted
<1>0. HookInv /\ CountInv /\ callback \in [Callbacks -> Callback]
  BY TypesOf DEF SilentInv, StorageInv, HookInv
<1>1. PICK g : g = Top(t)
  OBVIOUS
<1>2. PICK p, c : p = g.plugin /\ c = g.callback
  OBVIOUS
<1>3. /\ g \in Frame /\ depth[t] \in Depths /\ g = frame[t][depth[t]] /\ g.call = "remove"
      /\ g.at = "restore" /\ p \in Plugins /\ c \in Callbacks /\ callback[c].state = "live"
      /\ callback[c].owner = p
  BY <1>0, <1>1, <1>2, RemoveTop DEF RestoreForRemove, OwnedOn, OwnedBy
<1>4. SilentFor(g) /\ g.flag \in BOOLEAN
  BY <1>3, FrameFields DEF SilentInv, SilentOK
<1>5. quiet' = quiet
  BY DEF RestoreForRemove
<1>6. UNCHANGED callback \/ callback' = [callback EXCEPT ![c].enabled = g.flag]
  BY <1>1, <1>2 DEF RestoreForRemove
<1>7. CASE UNCHANGED callback
  BY <1>5, <1>7, AdmitsSame
<1>8. CASE callback' = [callback EXCEPT ![c].enabled = g.flag]
  <2>1. /\ callback'[c].enabled = g.flag
        /\ callback'[c].state = callback[c].state /\ callback'[c].owner = callback[c].owner
        /\ callback'[c].target = callback[c].target
        /\ \A x \in Callbacks : x # c => callback'[x] = callback[x]
    BY <1>0, <1>3, <1>4, <1>8, FlagSet
  <2>2. g.flag => p \notin quiet
    BY <1>2, <1>3, <1>4 DEF SilentFor
  <2>3. ~g.flag => CallbackStays(c)
    BY <2>1 DEF CallbackStays
  <2> QED  BY <1>3, <1>5, <2>1, <2>2, <2>3, AdmitsOne
<1> QED  BY <1>6, <1>7, <1>8

LEMMA CallStepAdmits ==
  ASSUME SilentInv, NEW t \in Threads, CallStep(t) PROVE Admitted
<1>0. CountInv
  BY DEF SilentInv, StorageInv, HookInv
<1>1. CASE Add(t)
  BY <1>1, AddAdmits
<1>2. CASE RestoreForRemove(t)
  BY <1>2, RestoreForRemoveAdmits
<1>3. CASE ~Add(t) /\ ~RestoreForRemove(t)
  <2>1. /\ quiet' = quiet
        /\ \/ UNCHANGED callback
           \/ \E S : callback' = Disabled(S)
           \/ \E S : callback' = Erased(S)
    BY <1>3 DEF CallStep, CollectAgain, Collect, Resolve, ReleaseTarget, Install, AddDone,
                Remove, AwaitCallback, RemoveDone, SetDone, Refuse, DirectReturns
  <2> QED  BY <1>0, <2>1, AdmitsSame, AdmitsDisabled, AdmitsErased
<1> QED  BY <1>1, <1>2, <1>3

\* Shutdown erases what is registered.
LEMMA StartShutdownAdmits ==
  ASSUME SilentInv, NEW t \in Threads, StartShutdown(t) PROVE Admitted
<1>0. callback \in [Callbacks -> Callback]
  BY TypesOf DEF SilentInv, StorageInv, HookInv
<1>1. PICK live : live = {c \in Callbacks : callback[c].state = "live"}
  OBVIOUS
<1>2. /\ callback' = [c \in Callbacks |-> IF c \in live
                        THEN [callback[c] EXCEPT !.state = "erased", !.enabled = FALSE]
                        ELSE callback[c]]
      /\ quiet' = quiet
  BY <1>1, Zenon DEF StartShutdown
<1>3. ASSUME NEW c \in Callbacks PROVE CallbackStays(c)
  <2>1. CASE c \in live
    <3>1. PICK y \in Callback : y = callback[c]
      BY <1>0
    <3>2. callback'[c] = [y EXCEPT !.state = "erased", !.enabled = FALSE]
      BY <1>2, <2>1, <3>1
    <3>3. callback'[c].state = "erased" /\ ~callback'[c].enabled
      BY <3>2 DEF Callback
    <3> QED  BY <3>3 DEF CallbackStays
  <2>2. CASE c \notin live
    <3>1. callback'[c] = callback[c]
      BY <1>2, <2>2
    <3> QED  BY <3>1 DEF CallbackStays
  <2> QED  BY <2>1, <2>2
<1> QED  BY <1>2, <1>3 DEF Admitted, Shuts

LEMMA HostCallAdmits ==
  ASSUME SilentInv, NEW t \in Threads, HostCall(t) PROVE Admitted
<1>0. CountInv
  BY DEF SilentInv, StorageInv, HookInv
<1>1. ASSUME NEW p \in Plugins,
             (\E active \in BOOLEAN : Authorize(t, p, active)) \/ Restore(t, p)
      PROVE  Admitted
  <2>1. Restarts(p)
    BY <1>1 DEF Authorize, Restore, Restarts
  <2> QED  BY <2>1 DEF Admitted
<1>2. ASSUME NEW p \in Plugins, Deactivate(t, p) PROVE Admitted
  <2>1. callback' = Disabled(OwnedBy(p)) /\ quiet' = quiet
    BY <1>2 DEF Deactivate
  <2> QED  BY <1>0, <2>1, AdmitsDisabled
<1>3. ASSUME NEW p \in Plugins, StartRelease(t, p) PROVE Admitted
  BY <1>3, AdmitsSame DEF StartRelease, Start
<1> QED  BY <1>1, <1>2, <1>3, StartShutdownAdmits DEF HostCall

\* Activate enables what the plugin has.
LEMMA ActivateAdmits ==
  ASSUME SilentInv, NEW t \in Threads, Activate(t) PROVE Admitted
<1>0. CountInv /\ callback \in [Callbacks -> Callback]
  BY TypesOf DEF SilentInv, StorageInv, HookInv
<1>1. PICK g : g = Top(t)
  OBVIOUS
<1>2. PICK p : p = g.plugin
  OBVIOUS
<1>3. g.call = "activate" /\ FrameOK(g) /\ depth[t] \in Depths /\ g = frame[t][depth[t]]
  BY <1>0, <1>1, TopOK, TopFrame DEF Activate, At, CountInv
<1>4. p \in Plugins /\ p \notin quiet
  BY <1>2, <1>3 DEF FrameOK, SilentInv, SilentOK, SilentFor
<1>5. /\ callback' = [c \in Callbacks |-> IF c \in OwnedBy(p)
                                          THEN [callback[c] EXCEPT !.enabled = TRUE]
                                          ELSE callback[c]]
      /\ quiet' = quiet
  BY <1>1, <1>2 DEF Activate
<1>6. ASSUME NEW c \in Callbacks, c \in OwnedBy(p)
      PROVE  callback[c].owner = p /\ callback'[c].owner = p
  <2>1. PICK y \in Callback : y = callback[c]
    BY <1>0
  <2>2. callback'[c] = [y EXCEPT !.enabled = TRUE]
    BY <1>5, <1>6, <2>1
  <2> QED  BY <1>6, <2>1, <2>2 DEF Callback, OwnedBy
<1>7. \A c \in Callbacks : c \notin OwnedBy(p) => callback'[c] = callback[c]
  BY <1>5
<1>8. OpensOnly(p)
  BY <1>4, <1>5, <1>6, <1>7 DEF OpensOnly
<1> QED  BY <1>4, <1>8 DEF Admitted

\* ReleasePlugin erases callbacks that it has disabled.
LEMMA ReleaseDoneAdmits ==
  ASSUME SilentInv, NEW t \in Threads, ReleaseDone(t) PROVE Admitted
<1>0. HookInv /\ CountInv /\ At(t, "release", "restore")
  BY DEF SilentInv, StorageInv, HookInv, ReleaseDone
<1>1. PICK g : g = Top(t)
  OBVIOUS
<1>2. PICK p : p = g.plugin
  OBVIOUS
<1>3. /\ g.call = "release" /\ Changing(g) /\ depth[t] \in Depths /\ g = frame[t][depth[t]]
  BY <1>0, <1>1, <1>2, ReleaseHolds
<1>4. PICK S : /\ S = UNION {OwnedOn(p, r) : r \in HeldBy(g) \ g.failed}
               /\ callback' = Erased(S)
  BY <1>1, <1>2 DEF ReleaseDone
<1>5. quiet \subseteq quiet'
  BY DEF ReleaseDone
<1>6. \A c \in OwnedBy(p) : ~callback[c].enabled
  BY <1>2, <1>3 DEF SilentInv, SilentOK, SilentFor
<1>7. \A c \in S : c \in Callbacks /\ ~callback[c].enabled
  BY <1>4, <1>6 DEF OwnedOn, OwnedBy
<1> QED  BY <1>0, <1>4, <1>5, <1>7, AdmitsErased

LEMMA HostStepAdmits ==
  ASSUME SilentInv, NEW t \in Threads, HostStep(t) PROVE Admitted
<1>0. CountInv
  BY DEF SilentInv, StorageInv, HookInv
<1>1. CASE DeactivateDone(t) \/ ShutdownDone(t)
  <2>1. quiet \subseteq Plugins
    BY <1>0 DEF CountInv, TypeOK
  <2>2. callback' = callback /\ quiet \subseteq quiet'
    BY <1>1, <2>1 DEF DeactivateDone, ShutdownDone
  <2>3. Quiesces
    BY <2>2 DEF Quiesces, CallbackStays
  <2> QED  BY <2>3 DEF Admitted
<1>2. CASE Release(t)
  <2>1. quiet' = quiet /\ (UNCHANGED callback \/ \E S : callback' = Disabled(S))
    BY <1>2 DEF Release, Refuse
  <2> QED  BY <1>0, <2>1, AdmitsSame, AdmitsDisabled
<1>3. CASE ReleaseOp(t) \/ ReleaseRetry(t) \/ ReleaseDrain(t)
  BY <1>3, AdmitsSame DEF ReleaseOp, ReleaseRetry, ReleaseDrain
<1>4. CASE ShutdownRestore(t) \/ ShutdownWaited(t) \/ ShutdownDestroy(t)
  BY <1>4, AdmitsSame DEF ShutdownRestore, ShutdownWaited, ShutdownDestroy
<1> QED  BY <1>1, <1>2, <1>3, <1>4, ActivateAdmits, ReleaseDoneAdmits DEF HostStep

LEMMA LayerInit == Init => Layer!Init
<1> SUFFICES ASSUME Init PROVE Layer!Init
  OBVIOUS
<1>1. \A t \in Threads, d \in 1..MaxDepth : ~InCallback(frame[t][d])
  BY IdleFrame DEF Init, InCallback
<1>2. InsideOf = [t \in Threads |-> [d \in 1..MaxDepth |-> NoPlugin]]
  BY <1>1 DEF InsideOf
<1>3. Opened = {}
  BY DEF Init, Opened, Callable
<1> QED  BY <1>2, <1>3 DEF Init, Layer!Init

LEMMA LayerNext ==
  ASSUME Risks = {}, SilentInv, SilentInv', QuietIsSilent', [Next]_vars
  PROVE  [Layer!Next]_(Layer!layer)
<1>1. CountInv'
  BY DEF SilentInv, StorageInv, HookInv
<1>2. CASE UNCHANGED vars
  <2>1. UNCHANGED frame /\ UNCHANGED <<quiet, callback>>
    BY <1>2 DEF vars, threads
  <2>2. StillRuns
    BY <2>1 DEF StillRuns
  <2> QED  BY <2>1, <2>2, AdmitsSame, LayerAdmits
<1>3. ASSUME NEW t \in Threads,
             (\E p \in Plugins : PluginCall(t, p)) \/ CallStep(t) \/ HostCall(t) \/ HostStep(t)
      PROVE  [Layer!Next]_(Layer!layer)
  <2>1. StillRuns
    BY <1>1, <1>3, PluginCallSilent, CallStepSilent, HostCallSilent, HostStepSilent
       DEF SilentAside
  <2>2. Admitted
    BY <1>3, PluginCallAdmits, CallStepAdmits, HostCallAdmits, HostStepAdmits
  <2> QED  BY <2>1, <2>2, LayerAdmits
<1> QED  BY <1>2, <1>3, LayerDispatches DEF Next

\* KeelHook is a dispatch layer: every step of it is a step of the layer's
\* specification, or leaves alone who may be called, who is being called and who is
\* quiet.  The callbacks that a dispatch goes through may have been disabled or erased
\* since they were snapshotted, and Deactivate may answer while it still holds them.
THEOREM HookImplementsLayer ==
  ASSUME Risks = {} PROVE Spec => ImplementsLayer
<1>1. Init => Layer!Init
  BY LayerInit
<1>2. SilentInv /\ SilentInv' /\ QuietIsSilent' /\ [Next]_vars => [Layer!Next]_(Layer!layer)
  BY LayerNext
<1> QED
  BY <1>1, <1>2, HookSilentInvariant, HookQuietIsSilent, PTL DEF Spec, ImplementsLayer, Layer!Spec
=============================================================================
