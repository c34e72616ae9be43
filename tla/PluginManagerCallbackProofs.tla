-------------------- MODULE PluginManagerCallbackProofs --------------------
(***************************************************************************)
(* Proofs about PluginManager that rest on its IInv, each part with an     *)
(* inductive invariant of its own:                                         *)
(*   CallbackInv  callbacks and closed images, and transitioning marks;    *)
(*   ProgressInv  what a paused and a running plugin receive;              *)
(*   ImageInv     open images, and how operations nest on a thread;        *)
(*   CycleInv     reports of dependency cycles.                            *)
(***************************************************************************)
EXTENDS PluginManagerProofs

-----------------------------------------------------------------------------
(* Stacks.  Operations push and pop frames of their own: only the dispatch *)
(* of a layer brings a thread into a callback.                             *)

\* No thread enters a callback in this step.
NoneEnters ==
  \A t \in Threads, q \in Plugins, l \in Layers : Inside(t, q, l)' => Inside(t, q, l)

\* A step that leaves the stacks alone.
LEMMA SameStacks ==
  ASSUME stack' = stack
  PROVE  NoneEnters
BY DEF NoneEnters, Inside

\* What a push puts at each place of a stack.
LEMMA Pushed ==
  ASSUME NEW S, NEW s \in Seq(S), NEW x
  PROVE  \A i \in DOMAIN (<<x>> \o s) :
           \/ (<<x>> \o s)[i] = x
           \/ i - 1 \in DOMAIN s /\ (<<x>> \o s)[i] = s[i - 1]
<1>1. Len(s) \in Nat /\ DOMAIN s = 1..Len(s) /\ <<x>> \in Seq({x}) /\ Len(<<x>>) = 1
  BY LenProperties
<1>2. DOMAIN (<<x>> \o s) = 1..(Len(s) + 1)
  BY <1>1
<1>3. \A i \in 1..(Len(s) + 1) : (<<x>> \o s)[i] = IF i = 1 THEN x ELSE s[i - 1]
  BY <1>1
<1> QED  BY <1>1, <1>2, <1>3

\* A step that pops a frame.
LEMMA PopEnters ==
  ASSUME TypeOK, NEW t \in Threads, stack[t] # <<>>,
         stack' = [stack EXCEPT ![t] = Tail(@)]
  PROVE  NoneEnters
<1> SUFFICES ASSUME NEW u \in Threads, NEW q \in Plugins, NEW l \in Layers,
                    NEW i \in DOMAIN stack'[u], stack'[u][i] = <<q, l>>
             PROVE  Inside(u, q, l)
  BY DEF NoneEnters, Inside
<1>1. CASE u # t
  BY <1>1 DEF TypeOK, Inside
<1>2. CASE u = t
  <2>1. stack[t] \in Seq(Frame) /\ stack'[t] = Tail(stack[t])
    BY DEF TypeOK
  <2>2. /\ Len(stack[t]) \in Nat /\ DOMAIN stack[t] = 1..Len(stack[t])
        /\ Tail(stack[t]) \in Seq(Frame) /\ Len(Tail(stack[t])) = Len(stack[t]) - 1
        /\ \A k \in 1..Len(Tail(stack[t])) : Tail(stack[t])[k] = stack[t][k + 1]
    BY <2>1, LenProperties, HeadTailProperties
  <2>3. i \in 1..(Len(stack[t]) - 1)
    BY <1>2, <2>1, <2>2, LenProperties
  <2>4. i + 1 \in DOMAIN stack[t]
    BY <2>2, <2>3
  <2>5. Tail(stack[t])[i] = stack[t][i + 1]
    BY <2>2, <2>3
  <2> QED  BY <1>2, <2>1, <2>4, <2>5 DEF Inside
<1> QED  BY <1>1, <1>2

\* A step that pushes an operation.
LEMMA PushEnters ==
  ASSUME TypeOK, NEW t \in Threads, NEW a \in Actors,
         stack' = [stack EXCEPT ![t] = <<a>> \o @]
  PROVE  NoneEnters
<1> SUFFICES ASSUME NEW u \in Threads, NEW q \in Plugins, NEW l \in Layers,
                    NEW i \in DOMAIN stack'[u], stack'[u][i] = <<q, l>>
             PROVE  Inside(u, q, l)
  BY DEF NoneEnters, Inside
<1>1. CASE u # t
  BY <1>1 DEF TypeOK, Inside
<1>2. CASE u = t
  <2>1. stack[t] \in Seq(Frame) /\ stack'[t] = <<a>> \o stack[t]
    BY DEF TypeOK
  <2>2. a # <<q, l>>
    <3>1. <<q, l>> \in Plugins \X Layers
      OBVIOUS
    <3> QED  BY <3>1, ConstantsAssumption DEF ConstantsAssumption
  <2>3. \/ stack'[t][i] = a
        \/ i - 1 \in DOMAIN stack[t] /\ stack'[t][i] = stack[t][i - 1]
    BY <1>2, <2>1, Pushed
  <2> QED  BY <1>2, <2>2, <2>3 DEF Inside
<1> QED  BY <1>1, <1>2

\* The thread of a slot is a thread.
LEMMA ThreadType ==
  ASSUME NEW a \in Actors
  PROVE  ThreadOf[a] \in Threads
BY ConstantsAssumption DEF ConstantsAssumption

\* The end of an operation enters nothing.
LEMMA EndEnters ==
  ASSUME TypeOK, NEW a \in Actors, stack[ThreadOf[a]] # <<>>, End(a)
  PROVE  NoneEnters
BY ThreadType, PopEnters DEF End

\* The next segment of an operation stays where it is or returns.
LEMMA StepEnters ==
  ASSUME TypeOK, NEW a \in Actors, Step(a)
  PROVE  NoneEnters
<1>1. stack[ThreadOf[a]] # <<>>
  BY DEF Step, LoadStep, BatchStep, TransitionStep, AfterStep, At, QueryRejected,
         QueryAccepted, StartPlugin, RejectUnstartedPlugin, LoadSucceeds, LoadFails,
         ReplacementPrepared, ReplacementUnloadPrepared, RollbackLayer, RollbackDone,
         DiscoverPlugin, StartDiscovered, DiscoveryDone, RejectCycle, BatchDone, Deactivate,
         DeactivateDone, DeactivateBusy, PausePrepared, UnloadPrepared, ReleaseLayer,
         ReleaseFails, UnloadPlugin, PublishDone, PublishUnloadedDone, CandidateKept,
         CandidateUnloaded, CandidateDiscarded
<1>2. stack' = stack \/ End(a)
  <2>1. CASE LoadStep(a)
    BY <2>1 DEF LoadStep, Goto, LoadEnds, QueryRejected, QueryAccepted, StartPlugin,
                RejectUnstartedPlugin, LoadSucceeds, LoadFails, ReplacementPrepared,
                ReplacementUnloadPrepared, RollbackLayer, RollbackDone
  <2>2. CASE BatchStep(a)
    BY <2>2 DEF BatchStep, Goto, DiscoverPlugin, StartDiscovered, DiscoveryDone,
                RejectCycle, BatchDone
  <2>3. CASE TransitionStep(a)
    BY <2>3 DEF TransitionStep, Goto, Abandon, Deactivate, DeactivateDone, DeactivateBusy,
                PausePrepared, UnloadPrepared, ReleaseLayer, ReleaseFails, UnloadPlugin
  <2>4. CASE AfterStep(a)
    BY <2>4 DEF AfterStep, LoadEnds, Goto, LoadReplacement, PublishDone,
                PublishUnloadedDone, CandidateKept, CandidateUnloaded, CandidateDiscarded
  <2> QED  BY <2>1, <2>2, <2>3, <2>4 DEF Step
<1> QED  BY <1>1, <1>2, EndEnters, SameStacks

\* A command pushes its operation.
LEMMA CommandEnters ==
  ASSUME TypeOK, NEW a \in Actors, Command(a)
  PROVE  NoneEnters
<1>1. stack' = [stack EXCEPT ![ThreadOf[a]] = <<a>> \o @]
  BY DEF Command, BeginBatch, BeginLoad, BeginPause, BeginResume, BeginUnload, Begin
<1> QED  BY <1>1, ThreadType, PushEnters

-----------------------------------------------------------------------------
(* What such a step must respect, stated once and shown to be enough.      *)

\* Slot a writes the records of the plugins in S, which are its own: the layers it
\* counts on afterwards, or every layer of an image it closes, are quiet, and a mark it
\* leaves is one it will clear.
MuteStep(a, S) ==
  /\ \A b \in Actors \ {a} : op'[b] = op[b] /\ \A q \in S : ~Holds(op[b], q)
  /\ \A q \in Plugins \ S :
       /\ plugin'[q] = plugin[q]
       /\ ~Owns(op[a], q) /\ ~Owns(op'[a], q)
       /\ q \in op'[a].batch => q \in op[a].batch
  /\ \A q \in S :
       /\ \A l \in Layers :
            ~plugin'[q].image \/ CountsOn(op'[a], q, plugin'[q], l) =>
              l \notin plugin'[q].live /\ \A t \in Threads : ~Inside(t, q, l)
       /\ plugin'[q].transitioning => Marks(op'[a], q, plugin'[q])
  /\ NoneEnters

\* Who counts on a layer of a plugin, or marked it, holds it.
LEMMA CountsOnHolds ==
  ASSUME NEW o, NEW p, NEW r
  PROVE  /\ \A l : CountsOn(o, p, r, l) => Holds(o, p)
         /\ Marks(o, p, r) => Owns(o, p)
BY DepartsOwns DEF CountsOn, Holds, Marks

\* Such a step keeps the callback invariant.
LEMMA MuteStepInv ==
  ASSUME CallbackInv, NEW a \in Actors, NEW S \in SUBSET Plugins, MuteStep(a, S)
  PROVE  CallbackInv'
<1> USE DEF MuteStep
<1>1. QuietInv'
  <2> SUFFICES ASSUME NEW q \in Plugins, NEW l \in Layers,
                      \/ ~plugin'[q].image
                      \/ \E b \in Actors : CountsOn(op'[b], q, plugin'[q], l)
               PROVE  l \notin plugin'[q].live /\ \A t \in Threads : ~Inside(t, q, l)
    BY DEF QuietInv, Quiet, CountsOn, Owns, Departs, NoneEnters
  <2>1. CASE q \in S
    BY <2>1, CountsOnHolds
  <2>2. CASE q \notin S
    <3>1. ~plugin[q].image \/ \E b \in Actors : CountsOn(op[b], q, plugin[q], l)
      <4>1. ASSUME CountsOn(op'[a], q, plugin[q], l)  PROVE CountsOn(op[a], q, plugin[q], l)
        <5>1. ~Owns(op'[a], q)
          BY <2>2
        <5>2. q \in op[a].batch
          BY <2>2, <4>1, <5>1 DEF CountsOn
        <5> QED  BY <5>2 DEF CountsOn
      <4> QED  BY <2>2, <4>1
    <3> QED  BY <2>2, <3>1 DEF CallbackInv, QuietInv, Quiet
  <2> QED  BY <2>1, <2>2
<1>2. MarkInv'
  <2> SUFFICES ASSUME NEW q \in Plugins, plugin'[q].transitioning
               PROVE  \E b \in Actors : Marks(op'[b], q, plugin'[q])
    BY DEF MarkInv, Marks, Departs, Owns
  <2>1. CASE q \in S
    BY <2>1
  <2>2. CASE q \notin S
    <3>1. PICK b \in Actors : Marks(op[b], q, plugin[q])
      BY <2>2 DEF CallbackInv, MarkInv
    <3>2. b # a
      BY <2>2, <3>1, CountsOnHolds
    <3> QED  BY <2>2, <3>1, <3>2
  <2> QED  BY <2>1, <2>2
<1> QED  BY <1>1, <1>2 DEF CallbackInv

\* A plugin is not marked when nobody holds it, or its owner has not marked it.
LEMMA Unmarked ==
  ASSUME IInv, CallbackInv, NEW p \in Plugins, NEW a \in Actors,
         \A b \in Actors \ {a} : ~Holds(op[b], p),
         ~Marks(op[a], p, plugin[p])
  PROVE  ~plugin[p].transitioning
BY CountsOnHolds DEF CallbackInv, MarkInv, Holds

\* An operation that owns its plugin writes no other record.
LEMMA OwnerStep ==
  ASSUME TypeOK, IInv, CallbackInv, NEW a \in Actors, op[a].at \in OwningPoints,
         NEW p, p = op[a].target, NoneEnters,
         \A b \in Actors \ {a} : op'[b] = op[b],
         op'[a].target \in {p, NoPlugin}, op'[a].batch \subseteq op[a].batch \cup {p},
         \A q \in Plugins \ {p} : plugin'[q] = plugin[q],
         \A l \in Layers :
           ~plugin'[p].image \/ CountsOn(op'[a], p, plugin'[p], l) =>
             l \notin plugin'[p].live /\ \A t \in Threads : ~Inside(t, p, l),
         plugin'[p].transitioning => Marks(op'[a], p, plugin'[p])
  PROVE  CallbackInv'
<1>1. p \in Plugins /\ \A b \in Actors \ {a} : ~Holds(op[b], p)
  BY Owned
<1>2. \A q \in Plugins \ {p} : ~Owns(op[a], q) /\ ~Owns(op'[a], q)
  BY ConstantsAssumption DEF Owns, ConstantsAssumption
<1>3. MuteStep(a, {p})
  BY <1>1, <1>2 DEF MuteStep
<1> QED  BY <1>1, <1>3, MuteStepInv

-----------------------------------------------------------------------------
(* The actions.                                                            *)

\* Goto and End change one slot; the plugin it names and its batch stay or go.
SlotKeeps(a) ==
  /\ \A b \in Actors \ {a} : op'[b] = op[b]
  /\ op'[a].target \in {op[a].target, NoPlugin}
  /\ op'[a].batch \subseteq op[a].batch

\* Goto keeps the locals of the operation.
LEMMA GotoKeeps ==
  ASSUME TypeOK, NEW a \in Actors, NEW at, Goto(a, at)
  PROVE  /\ SlotKeeps(a)
         /\ op'[a].at = at /\ op'[a].target = op[a].target /\ op'[a].cmd = op[a].cmd
         /\ op'[a].batch = op[a].batch /\ op'[a].step = 1
BY DEF SlotKeeps, Goto, TypeOK, Operation

\* The end of an operation leaves the slot idle.
LEMMA EndKeeps ==
  ASSUME TypeOK, NEW a \in Actors, End(a)
  PROVE  /\ SlotKeeps(a)
         /\ op'[a].at = "idle" /\ op'[a].batch = {}
BY DEF SlotKeeps, End, TypeOK, Idle

\* The end of a load, in a batch, a reload or a command.
LEMMA LoadEndsKeeps ==
  ASSUME TypeOK, NEW a \in Actors, LoadEnds(a)
  PROVE  /\ SlotKeeps(a)
         /\ op'[a].at \in {"idle", "batch", "candidate"}
BY GotoKeeps, EndKeeps DEF LoadEnds

\* What the rollback of a layer makes of its plugin's record.
LEMMA RollbackRecord ==
  ASSUME TypeOK, NEW a \in Actors, op[a].target \in Plugins, RollbackLayer(a)
  PROVE  \E f, l :
           \/ plugin'[op[a].target] = [plugin[op[a].target] EXCEPT !.state = "error", !.live = {},
                                                                 !.cleanup_pending = f]
           \/ plugin'[op[a].target] = [plugin[op[a].target] EXCEPT !.live = @ \ {l}]
<1>1. PICK r : SetRecord(op[a].target, r)
                 /\ \E f, l : \/ r = [plugin[op[a].target] EXCEPT !.state = "error", !.live = {},
                                                                 !.cleanup_pending = f]
                             \/ r = [plugin[op[a].target] EXCEPT !.live = @ \ {l}]
  <2>1. CASE LastLayer(a)
    BY <2>1 DEF RollbackLayer
  <2>2. CASE ~LastLayer(a)
    BY <2>2 DEF RollbackLayer
  <2> QED  BY <2>1, <2>2
<1>2. plugin'[op[a].target] = r
  BY <1>1 DEF SetRecord, TypeOK
<1> QED  BY <1>1, <1>2

\* Steps of a load: the plugin has no callback before it is loaded, and none once it is
\* rejected.
LEMMA LoadStepMute ==
  ASSUME TypeOK, IInv, CallbackInv, NEW a \in Actors, LoadStep(a)
  PROVE  CallbackInv'
<1> DEFINE p == op[a].target
<1>0. op[a].at \in OwningPoints
  BY DEF LoadStep, OwningPoints, At, QueryRejected, QueryAccepted, StartPlugin,
         RejectUnstartedPlugin, LoadSucceeds, LoadFails, ReplacementPrepared,
         ReplacementUnloadPrepared, RollbackLayer, RollbackDone
<1>1. /\ p \in Plugins /\ op[a] \in Operation /\ plugin[p] \in PluginRecord
      /\ Owns(op[a], p) /\ plugin[p].image /\ p \notin op[a].batch
      /\ \A b \in Actors \ {a} : ~Holds(op[b], p)
  BY <1>0, Owned DEF Consistent
<1>2. /\ \A l : CountsOn(op[a], p, plugin[p], l)
      /\ ~Marks(op[a], p, plugin[p])
  BY <1>1 DEF LoadStep, At, QueryRejected, QueryAccepted, StartPlugin,
         RejectUnstartedPlugin, LoadSucceeds, LoadFails, ReplacementPrepared,
         ReplacementUnloadPrepared, RollbackLayer, RollbackDone, CountsOn, Marks, Departs
<1>3. \A l \in Layers : l \notin plugin[p].live /\ \A t \in Threads : ~Inside(t, p, l)
  BY <1>1, <1>2 DEF CallbackInv, QuietInv, Quiet
<1>4. plugin[p].live = {} /\ ~plugin[p].transitioning
  BY <1>1, <1>2, <1>3, Unmarked DEF PluginRecord
<1>5. NoneEnters
  BY StepEnters DEF Step
<1>6. \A q \in Plugins \ {p} : plugin'[q] = plugin[q]
  BY DEF LoadStep, SetRecord, TypeOK, QueryRejected, QueryAccepted, StartPlugin,
         RejectUnstartedPlugin, LoadSucceeds, LoadFails, ReplacementPrepared,
         ReplacementUnloadPrepared, RollbackLayer, RollbackDone
<1>7. /\ \A b \in Actors \ {a} : op'[b] = op[b]
      /\ op'[a].target \in {p, NoPlugin} /\ op'[a].batch \subseteq op[a].batch \cup {p}
  <2>1. CASE \/ LoadEnds(a)
             \/ \E at : Goto(a, at)
    BY <2>1, GotoKeeps, LoadEndsKeeps DEF SlotKeeps
  <2>2. CASE QueryAccepted(a)
    BY <1>1, <2>1, <2>2 DEF QueryAccepted, TypeOK, Operation
  <2>3. CASE RollbackLayer(a)
    BY <1>1, <2>1, <2>3 DEF RollbackLayer, TypeOK, Operation
  <2> QED  BY <2>1, <2>2, <2>3 DEF LoadStep, QueryRejected, StartPlugin,
         RejectUnstartedPlugin, LoadSucceeds, LoadFails, ReplacementPrepared,
         ReplacementUnloadPrepared, RollbackDone
<1>8. CASE LoadSucceeds(a) /\ ActivateDispatch(a)
  <2>1. plugin'[p] = Restored([plugin[p] EXCEPT !.loading = FALSE, !.state = "loaded"])
    BY <1>1, <1>8 DEF LoadSucceeds, SetRecord, TypeOK
  <2>2. plugin'[p].image /\ ~plugin'[p].transitioning
    BY <1>1, <1>4, <2>1 DEF Restored, PluginRecord
  <2>3. op[a].at = "load" /\ Goto(a, "publish")
    BY <1>8 DEF LoadSucceeds, At
  <2>4. op'[a].at = "publish" /\ op'[a].batch = op[a].batch
    BY <2>3, GotoKeeps
  <2>5. \A l : ~CountsOn(op'[a], p, plugin'[p], l)
    BY <1>1, <2>4 DEF CountsOn, Departs
  <2> QED  BY <1>0, <1>5, <1>6, <1>7, <2>2, <2>5, OwnerStep
<1>9. CASE ~(LoadSucceeds(a) /\ ActivateDispatch(a))
  <2>1. plugin'[p].live = {} /\ ~plugin'[p].transitioning
    <3>1. CASE RollbackLayer(a)
      <4>1. PICK f, l :
              \/ plugin'[p] = [plugin[p] EXCEPT !.state = "error", !.live = {},
                                               !.cleanup_pending = f]
              \/ plugin'[p] = [plugin[p] EXCEPT !.live = @ \ {l}]
        BY <1>1, <3>1 DEF RollbackLayer, SetRecord, TypeOK
      <4> QED  BY <1>1, <1>4, <4>1 DEF PluginRecord
    <3>2. CASE ReplacementPrepared(a) \/ ReplacementUnloadPrepared(a)
      <4>1. \/ \E st : plugin'[p] = [plugin[p] EXCEPT !.state = st]
            \/ plugin'[p] = [plugin[p] EXCEPT !.cleanup_pending = TRUE]
            \/ plugin'[p] = plugin[p]
        BY <1>1, <3>2 DEF ReplacementPrepared, ReplacementUnloadPrepared, SetRecord, TypeOK
      <4> QED  BY <1>1, <1>4, <4>1 DEF PluginRecord
    <3>3. CASE QueryRejected(a) \/ RejectUnstartedPlugin(a) \/ RollbackDone(a)
      <4>1. plugin'[p] = Closed("error")
        BY <1>1, <3>3 DEF QueryRejected, RejectUnstartedPlugin, RollbackDone, SetRecord, TypeOK
      <4> QED  BY <4>1 DEF Closed, NoRecord
    <3>4. CASE QueryAccepted(a) \/ StartPlugin(a) \/ LoadFails(a)
      <4>1. \/ plugin'[p] = [plugin[p] EXCEPT !.state = "loading"]
            \/ plugin'[p] = Started(plugin[p])
            \/ plugin'[p] = [plugin[p] EXCEPT !.loading = FALSE, !.accepting = FALSE]
        BY <1>1, <3>4 DEF QueryAccepted, StartPlugin, LoadFails, SetRecord, TypeOK
      <4> QED  BY <1>1, <1>4, <4>1 DEF Started, PluginRecord
    <3>5. CASE LoadSucceeds(a)
      <4>1. plugin'[p] = [plugin[p] EXCEPT !.loading = FALSE, !.accepting = FALSE]
        BY <1>1, <1>9, <3>5 DEF LoadSucceeds, SetRecord, TypeOK
      <4> QED  BY <1>1, <1>4, <4>1 DEF PluginRecord
    <3> QED  BY <3>1, <3>2, <3>3, <3>4, <3>5 DEF LoadStep
  <2> QED  BY <1>0, <1>3, <1>5, <1>6, <1>7, <2>1, OwnerStep
<1> QED  BY <1>8, <1>9

\* Steps of a batch: it rejects plugins nobody has called yet.
LEMMA BatchStepMute ==
  ASSUME TypeOK, IInv, CallbackInv, NEW a \in Actors, BatchStep(a)
  PROVE  CallbackInv'
<1>1. /\ op[a] \in Operation /\ op[a].batch \in SUBSET Plugins
      /\ NoneEnters
      /\ \A b \in Actors \ {a} : op'[b] = op[b]
  BY StepEnters DEF TypeOK, Operation, Step, BatchStep, DiscoverPlugin, StartDiscovered,
         DiscoveryDone, RejectCycle, BatchDone, Goto
<1>2. op[a].at \in {"discover", "batch"}
  BY DEF BatchStep, At, DiscoverPlugin, StartDiscovered, DiscoveryDone, RejectCycle, BatchDone
<1>3. \A q : ~Owns(op[a], q)
  BY <1>2 DEF Owns, OwningPoints
<1>4. ASSUME NEW p \in op[a].batch
      PROVE  /\ p \in Plugins /\ plugin[p].image
             /\ \A b \in Actors \ {a} : ~Holds(op[b], p)
             /\ \A l \in Layers : Quiet(p, l)
             /\ ~plugin[p].transitioning
  <2>1. p \in Plugins /\ Holds(op[a], p)
    BY <1>1 DEF Holds
  <2>2. /\ Consistent(op[a], p, plugin[p])
        /\ \A b \in Actors \ {a} : ~Holds(op[b], p)
    BY <2>1 DEF IInv, HoldInv
  <2>3. \A l \in Layers : Quiet(p, l)
    BY <2>1 DEF CallbackInv, QuietInv, CountsOn
  <2>4. ~Marks(op[a], p, plugin[p])
    BY <1>3, CountsOnHolds
  <2> QED  BY <2>1, <2>2, <2>3, <2>4, Unmarked DEF Consistent
<1>5. Closed("error").live = {} /\ ~Closed("error").transitioning
      /\ Discovered.live = {} /\ ~Discovered.transitioning
  BY DEF Closed, Discovered, NoRecord
<1>6. ASSUME NEW p \in Plugins, DiscoverPlugin(a, p)
      PROVE  CallbackInv'
  <2>1. CASE plugin[p].state \in {"absent", "disabled"}
    <3>1. ~plugin[p].image
      BY <2>1 DEF IInv, RecordInv, RecordOK
    <3>2. /\ \A b \in Actors : ~Holds(op[b], p)
          /\ \A l \in Layers : Quiet(p, l)
      BY <3>1, Free DEF CallbackInv, QuietInv
    <3>3. /\ plugin'[p] = Discovered /\ \A q \in Plugins \ {p} : plugin'[q] = plugin[q]
          /\ op'[a].target = p /\ op'[a].batch = op[a].batch
      BY <1>1, <1>6, <2>1 DEF DiscoverPlugin, SetRecord, TypeOK, Operation
    <3>4. \A q \in Plugins \ {p} : ~Owns(op'[a], q)
      BY <3>3 DEF Owns
    <3>5. MuteStep(a, {p})
      BY <1>1, <1>3, <1>5, <3>2, <3>3, <3>4 DEF MuteStep, Quiet
    <3> QED  BY <3>5, MuteStepInv
  <2>2. CASE plugin[p].state \notin {"absent", "disabled"}
    <3>1. /\ plugin' = plugin
          /\ op'[a].at = op[a].at /\ op'[a].batch = op[a].batch
      BY <1>1, <1>6, <2>2 DEF DiscoverPlugin, TypeOK, Operation
    <3>2. \A q : ~Owns(op'[a], q)
      BY <1>2, <3>1 DEF Owns, OwningPoints
    <3>3. MuteStep(a, {})
      BY <1>1, <1>3, <3>1, <3>2 DEF MuteStep
    <3> QED  BY <3>3, MuteStepInv
  <2> QED  BY <2>1, <2>2
<1>7. ASSUME NEW p \in Plugins, StartDiscovered(a, p)
      PROVE  CallbackInv'
  <2>1. p \in op[a].batch
    BY <1>7 DEF StartDiscovered
  <2>2. plugin[p].live = {} /\ plugin[p] \in PluginRecord
    BY <1>4, <2>1 DEF Quiet, TypeOK, PluginRecord
  <2>3. plugin'[p] = Closed("error") \/ plugin'[p] = Started(plugin[p])
    BY <1>7 DEF StartDiscovered, SetRecord, TypeOK
  <2>4. plugin'[p].live = {} /\ ~plugin'[p].transitioning
    BY <1>4, <1>5, <2>1, <2>2, <2>3 DEF Started, PluginRecord
  <2>5. /\ \A q \in Plugins \ {p} : plugin'[q] = plugin[q]
        /\ op'[a].batch = op[a].batch \ {p}
        /\ op'[a].at = op[a].at \/ op'[a].target = p
    BY <1>1, <1>7 DEF StartDiscovered, SetRecord, TypeOK, Operation
  <2>6. \A q \in Plugins \ {p} : ~Owns(op'[a], q)
    BY <1>2, <2>5 DEF Owns, OwningPoints
  <2>7. MuteStep(a, {p})
    BY <1>1, <1>3, <1>4, <2>1, <2>4, <2>5, <2>6 DEF MuteStep, Quiet
  <2> QED  BY <2>7, MuteStepInv
<1>8. CASE RejectCycle(a)
  <2> DEFINE B == op[a].batch
  <2>1. /\ \A q \in B : plugin'[q] = [Closed("error") EXCEPT !.cycle = TRUE]
        /\ \A q \in Plugins \ B : plugin'[q] = plugin[q]
        /\ op'[a].at = op[a].at /\ op'[a].batch = {}
    BY <1>1, <1>8 DEF RejectCycle, TypeOK, Operation
  <2>2. \A q \in B : plugin'[q].live = {} /\ ~plugin'[q].transitioning
    BY <2>1 DEF Closed, NoRecord
  <2>3. \A q : ~Owns(op'[a], q)
    BY <1>2, <2>1 DEF Owns, OwningPoints
  <2>4. MuteStep(a, B)
    BY <1>1, <1>3, <1>4, <2>1, <2>2, <2>3 DEF MuteStep, Quiet
  <2> QED  BY <1>1, <2>4, MuteStepInv
<1>9. CASE DiscoveryDone(a) \/ BatchDone(a)
  <2>1. /\ plugin' = plugin /\ op'[a].batch = op[a].batch
        /\ op'[a].at = "batch" \/ op'[a].target = NoPlugin
    BY <1>1, <1>9 DEF DiscoveryDone, BatchDone, Goto, TypeOK, Operation
  <2>2. \A q \in Plugins : ~Owns(op'[a], q)
    BY <2>1, ConstantsAssumption DEF Owns, OwningPoints, ConstantsAssumption
  <2>3. MuteStep(a, {})
    BY <1>1, <1>3, <2>1, <2>2 DEF MuteStep
  <2> QED  BY <2>3, MuteStepInv
<1> QED  BY <1>6, <1>7, <1>8, <1>9 DEF BatchStep

\* Steps of an unload and a pause: commands stay quiet from the beginning, the other
\* layers from their release on, and what is restored is no longer stopped.
LEMMA TransitionStepMute ==
  ASSUME TypeOK, IInv, CallbackInv, NEW a \in Actors, TransitionStep(a)
  PROVE  CallbackInv'
<1> DEFINE p == op[a].target
<1>0. op[a].at \in OwningPoints
  BY DEF TransitionStep, OwningPoints, At, Deactivate, DeactivateDone, DeactivateBusy,
         PausePrepared, UnloadPrepared, ReleaseLayer, ReleaseFails, UnloadPlugin
<1>1. /\ p \in Plugins /\ op[a] \in Operation /\ plugin[p] \in PluginRecord
      /\ Owns(op[a], p) /\ plugin[p].image /\ p \notin op[a].batch
      /\ Consistent(op[a], p, plugin[p])
  BY <1>0, Owned DEF Consistent
<1>2. Departs(op[a], p, plugin[p])
  BY <1>1 DEF TransitionStep, Departs, At, Deactivate, DeactivateDone, DeactivateBusy,
         PausePrepared, UnloadPrepared, ReleaseLayer, ReleaseFails, UnloadPlugin
<1>3. plugin[p].state \in {"loaded", "paused"}
  BY <1>1, <1>2 DEF Consistent
<1>4. \A l \in Layers : CountsOn(op[a], p, plugin[p], l) =>
        l \notin plugin[p].live /\ \A t \in Threads : ~Inside(t, p, l)
  BY <1>1 DEF CallbackInv, QuietInv, Quiet
<1>5. "commands" \in Layers /\ CountsOn(op[a], p, plugin[p], "commands")
  BY <1>1, <1>2 DEF CountsOn, Layers
<1>6. NoneEnters
  BY StepEnters DEF Step
<1>7. \A q \in Plugins \ {p} : plugin'[q] = plugin[q]
  BY DEF TransitionStep, SetRecord, TypeOK, Abandon, Deactivate, DeactivateDone,
         DeactivateBusy, PausePrepared, UnloadPrepared, ReleaseLayer, ReleaseFails, UnloadPlugin
<1>8. ASSUME NEW r, Abandon(a, r), r \in PluginRecord, r.image
      PROVE  CallbackInv'
  <2>1. plugin'[p] = Settled(r) /\ End(a)
    BY <1>1, <1>8 DEF Abandon, SetRecord, TypeOK
  <2>2. plugin'[p].image /\ ~plugin'[p].transitioning
    BY <1>8, <2>1 DEF Settled, PluginRecord
  <2>3. SlotKeeps(a) /\ op'[a].at = "idle" /\ op'[a].batch = {}
    BY <2>1, EndKeeps
  <2>4. \A l : ~CountsOn(op'[a], p, plugin'[p], l)
    BY <2>3 DEF CountsOn, Departs
  <2> QED  BY <1>0, <1>6, <1>7, <2>2, <2>3, <2>4, OwnerStep DEF SlotKeeps
<1>9. Restored(plugin[p]) \in PluginRecord /\ Restored(plugin[p]).image
  BY <1>1 DEF Restored, PluginRecord
<1>10. ASSUME \A b \in Actors \ {a} : op'[b] = op[b],
              op'[a].target = p, op'[a].batch = op[a].batch, op'[a].cmd = op[a].cmd,
              \/ op'[a].at \in {"deactivate", "drain", "prepare_unload"}
              \/ op'[a].at = "prepare" /\ op[a].cmd = "pause"
              \/ op'[a].at = "release" /\ op'[a].step = 1,
              plugin'[p].live \subseteq plugin[p].live, plugin'[p].image,
              plugin'[p].state = plugin[p].state
       PROVE  CallbackInv'
  <2>1. Departs(op'[a], p, plugin'[p])
    BY <1>3, <1>10 DEF Departs
  <2>2. Marks(op'[a], p, plugin'[p])
    BY <2>1 DEF Marks
  <2>3. \A l : CountsOn(op'[a], p, plugin'[p], l) => l = "commands"
    BY <1>1, <1>3, <1>10 DEF CountsOn
  <2> QED  BY <1>0, <1>4, <1>5, <1>6, <1>7, <1>10, <2>2, <2>3, OwnerStep
<1>11. CASE Deactivate(a)
  <2>1. plugin'[p] = [plugin[p] EXCEPT !.live = @ \ {DeactivateOrder[op[a].step]}]
    BY <1>1, <1>11 DEF Deactivate, SetRecord, TypeOK
  <2>2. /\ plugin'[p].live \subseteq plugin[p].live /\ plugin'[p].image
        /\ plugin'[p].state = plugin[p].state
    BY <1>1, <2>1 DEF PluginRecord
  <2>3. /\ \A b \in Actors \ {a} : op'[b] = op[b]
        /\ op'[a].target = p /\ op'[a].batch = op[a].batch /\ op'[a].cmd = op[a].cmd
        /\ op'[a].at = "drain"
    BY <1>1, <1>11 DEF Deactivate, TypeOK, Operation
  <2> QED  BY <1>10, <2>2, <2>3
<1>12. CASE DeactivateDone(a)
  <2>1. plugin' = plugin
    BY <1>12 DEF DeactivateDone
  <2>2. /\ \A b \in Actors \ {a} : op'[b] = op[b]
        /\ op'[a].target = p /\ op'[a].batch = op[a].batch /\ op'[a].cmd = op[a].cmd
        /\ \/ op'[a].at \in {"deactivate", "prepare_unload"}
           \/ op'[a].at = "prepare" /\ op[a].cmd = "pause"
    BY <1>1, <1>12 DEF DeactivateDone, Goto, TypeOK, Operation
  <2> QED  BY <1>1, <1>10, <2>1, <2>2
<1>13. CASE DeactivateBusy(a)
  <2> DEFINE r == RestoredAfter(plugin[p], op[a].cmd, DeactivateOrder[op[a].step])
  <2>1. r \in PluginRecord /\ r.image
    BY <1>1 DEF RestoredAfter, Restored, PluginRecord, Layers
  <2> QED  BY <1>8, <1>13, <2>1 DEF DeactivateBusy
<1>14. CASE PausePrepared(a)
  <2>1. CASE Abandon(a, Restored(plugin[p]))
    BY <1>8, <1>9, <2>1
  <2>2. CASE SetRecord(p, [plugin[p] EXCEPT !.state = "paused"]) /\ Goto(a, "publish")
    <3>1. op[a].cmd = "pause"
      BY <1>14 DEF PausePrepared
    <3>2. plugin'[p] = [plugin[p] EXCEPT !.state = "paused"]
      BY <1>1, <2>2 DEF SetRecord, TypeOK
    <3>3. plugin'[p].image
      BY <1>1, <3>2 DEF PluginRecord
    <3>4. /\ SlotKeeps(a) /\ op'[a].at = "publish" /\ op'[a].target = p
          /\ op'[a].cmd = "pause" /\ op'[a].batch = op[a].batch
      BY <2>2, <3>1, GotoKeeps
    <3>5. /\ Marks(op'[a], p, plugin'[p])
          /\ \A l : ~CountsOn(op'[a], p, plugin'[p], l)
      BY <1>1, <3>4 DEF Marks, Owns, CountsOn, Departs
    <3> QED  BY <1>0, <1>6, <1>7, <3>3, <3>4, <3>5, OwnerStep DEF SlotKeeps
  <2> QED  BY <1>14, <2>1, <2>2 DEF PausePrepared
<1>15. CASE UnloadPrepared(a)
  <2>1. CASE Goto(a, "release") /\ UNCHANGED <<plugin, services>>
    BY <1>1, <1>10, <2>1, GotoKeeps DEF SlotKeeps
  <2>2. CASE Abandon(a, IF op[a].was_running THEN Restored(plugin[p]) ELSE plugin[p])
    BY <1>1, <1>8, <1>9, <2>2
  <2> QED  BY <1>15, <2>1, <2>2 DEF UnloadPrepared
<1>16. CASE ReleaseLayer(a)
  <2> DEFINE k == op[a].step
             l == ReleaseOrder[k]
  <2>1. op[a].at = "release" /\ k \in 1..8 /\ \A t \in Threads : ~Inside(t, p, l)
    BY <1>1, <1>16 DEF ReleaseLayer, At, Operation, Drained
  <2>2. plugin'[p] = [plugin[p] EXCEPT !.live = @ \ (IF LastLayer(a) THEN Layers ELSE {l})]
    BY <1>1, <1>16 DEF ReleaseLayer, SetRecord, TypeOK
  <2>3. /\ plugin'[p].image /\ (l \in Layers => l \notin plugin'[p].live)
        /\ plugin'[p].live \subseteq plugin[p].live
        /\ LastLayer(a) => plugin'[p].live = {}
    BY <1>1, <2>2 DEF PluginRecord
  <2>4. \A s \in 1..(k - 1) : ReleaseOrder[s] \in Layers =>
           /\ ReleaseOrder[s] \notin plugin[p].live
           /\ \A t \in Threads : ~Inside(t, p, ReleaseOrder[s])
    BY <1>1, <1>4, <2>1 DEF CountsOn
  <2>5. \A s \in 1..k : ReleaseOrder[s] \in Layers =>
           /\ ReleaseOrder[s] \notin plugin'[p].live
           /\ \A t \in Threads : ~Inside(t, p, ReleaseOrder[s])
    <3> SUFFICES ASSUME NEW s \in 1..k, ReleaseOrder[s] \in Layers
                 PROVE  /\ ReleaseOrder[s] \notin plugin'[p].live
                        /\ \A t \in Threads : ~Inside(t, p, ReleaseOrder[s])
      OBVIOUS
    <3>1. CASE s = k
      BY <2>1, <2>3, <3>1
    <3>2. CASE s # k
      <4>1. s \in 1..(k - 1)
        BY <2>1, <3>2
      <4> QED  BY <2>3, <2>4, <4>1
    <3> QED  BY <3>1, <3>2
  <2>6. CASE LastLayer(a)
    <3>1. /\ SlotKeeps(a) /\ op'[a].at = "unload" /\ op'[a].target = p
          /\ op'[a].batch = op[a].batch
      BY <1>16, <2>6, GotoKeeps DEF ReleaseLayer
    <3>2. Marks(op'[a], p, plugin'[p])
      BY <3>1 DEF Marks, Departs
    <3>3. ASSUME NEW m \in Layers, m # "commands"
          PROVE  \A t \in Threads : ~Inside(t, p, m)
      <4>1. k = 8
        BY <2>6 DEF LastLayer, ReleaseOrder
      <4>2. \E s \in 1..8 : ReleaseOrder[s] = m
        <5>1. /\ ReleaseOrder[1] = "keelhook" /\ ReleaseOrder[2] = "lifecycle"
              /\ ReleaseOrder[3] = "source2" /\ ReleaseOrder[4] = "convars"
              /\ ReleaseOrder[6] = "events" /\ ReleaseOrder[8] = "factories"
          BY DEF ReleaseOrder
        <5>2. m \in {"factories", "source2", "lifecycle", "convars", "events", "keelhook"}
          BY <3>3 DEF Layers
        <5> HIDE <3>3
        <5> QED  BY <5>1, <5>2
      <4> QED  BY <2>5, <4>1, <4>2
    <3>4. \A m \in Layers : m \notin plugin'[p].live /\ \A t \in Threads : ~Inside(t, p, m)
      BY <1>4, <1>5, <2>3, <2>6, <3>3
    <3> QED  BY <1>0, <1>6, <1>7, <3>1, <3>2, <3>4, OwnerStep DEF SlotKeeps
  <2>7. CASE ~LastLayer(a)
    <3>1. /\ \A b \in Actors \ {a} : op'[b] = op[b]
          /\ op'[a].at = "release" /\ op'[a].step = k + 1
          /\ op'[a].target = p /\ op'[a].batch = op[a].batch
      BY <1>1, <1>16, <2>1, <2>7 DEF ReleaseLayer, TypeOK, Operation
    <3>2. Marks(op'[a], p, plugin'[p])
      BY <3>1 DEF Marks, Departs
    <3>3. ASSUME NEW m \in Layers, CountsOn(op'[a], p, plugin'[p], m)
          PROVE  m \notin plugin'[p].live /\ \A t \in Threads : ~Inside(t, p, m)
      <4>1. CASE m = "commands"
        BY <1>4, <1>5, <2>3, <4>1
      <4>2. CASE m # "commands"
        <5>1. PICK s \in 1..(op'[a].step - 1) : ReleaseOrder[s] = m
          BY <1>1, <3>1, <3>3, <4>2 DEF CountsOn
        <5>2. s \in 1..k
          BY <2>1, <3>1, <5>1
        <5> QED  BY <2>5, <3>3, <5>1, <5>2
      <4> QED  BY <4>1, <4>2
    <3>4. \A m \in Layers : ~plugin'[p].image \/ CountsOn(op'[a], p, plugin'[p], m) =>
             m \notin plugin'[p].live /\ \A t \in Threads : ~Inside(t, p, m)
      BY <2>3, <3>3
    <3> QED  BY <1>0, <1>6, <1>7, <3>1, <3>2, <3>4, OwnerStep
  <2> QED  BY <2>6, <2>7
<1>17. CASE ReleaseFails(a)
  <2>1. [plugin[p] EXCEPT !.cleanup_pending = TRUE] \in PluginRecord
        /\ [plugin[p] EXCEPT !.cleanup_pending = TRUE].image
    BY <1>1 DEF PluginRecord
  <2> QED  BY <1>8, <1>9, <1>17, <2>1 DEF ReleaseFails
<1>18. CASE UnloadPlugin(a)
  <2>1. \A l \in Layers : \A t \in Threads : ~Inside(t, p, l)
    BY <1>1, <1>4, <1>18 DEF UnloadPlugin, At, CountsOn
  <2>2. \E s : plugin'[p] = Closed(s)
    BY <1>1, <1>18 DEF UnloadPlugin, SetRecord, TypeOK
  <2>3. plugin'[p].live = {} /\ ~plugin'[p].transitioning
    BY <2>2 DEF Closed, NoRecord
  <2>4. SlotKeeps(a)
    BY <1>18, GotoKeeps DEF UnloadPlugin
  <2> QED  BY <1>0, <1>6, <1>7, <2>1, <2>3, <2>4, OwnerStep DEF SlotKeeps
<1> QED  BY <1>11, <1>12, <1>13, <1>14, <1>15, <1>16, <1>17, <1>18 DEF TransitionStep

\* The first segment of a pause or an unload: no command of the plugin runs
\* (HasRunningDependent) and none is dispatched any more.
LEMMA CloseMute ==
  ASSUME TypeOK, IInv, CallbackInv, NEW a \in Actors, NEW p \in Plugins,
         plugin[p].state \in {"loaded", "paused"}, ~plugin[p].transitioning,
         ~PluginCommandActive(p), SetRecord(p, Closing(plugin[p])), NoneEnters,
         \A q \in Plugins : ~Owns(op[a], q),
         \A b \in Actors \ {a} : op'[b] = op[b],
         op'[a].at = "deactivate", op'[a].target = p, op'[a].batch \subseteq op[a].batch
  PROVE  CallbackInv'
<1>1. /\ plugin[p] \in PluginRecord /\ plugin[p].image
      /\ \A b \in Actors : ~Holds(op[b], p)
  BY Free DEF TypeOK, IInv, RecordInv, RecordOK
<1>2. plugin'[p] = Closing(plugin[p]) /\ \A q \in Plugins \ {p} : plugin'[q] = plugin[q]
  BY DEF SetRecord, TypeOK
<1>3. plugin'[p].image /\ "commands" \notin plugin'[p].live
  BY <1>1, <1>2 DEF Closing, PluginRecord
<1>4. Marks(op'[a], p, plugin'[p])
  BY DEF Marks, Departs
<1>5. \A l \in Layers : CountsOn(op'[a], p, plugin'[p], l) => l = "commands"
  BY <1>1 DEF CountsOn, Holds
<1>6. \A t \in Threads : ~Inside(t, p, "commands")
  BY DEF PluginCommandActive
<1>7. \A q \in Plugins \ {p} : ~Owns(op'[a], q)
  BY DEF Owns
<1>8. MuteStep(a, {p})
  BY <1>1, <1>2, <1>3, <1>4, <1>5, <1>6, <1>7 DEF MuteStep
<1> QED  BY <1>8, MuteStepInv

\* An operation opens an image: no thread is in a callback of the plugin.
LEMMA DiscoverMute ==
  ASSUME TypeOK, IInv, CallbackInv, NEW a \in Actors, NEW p \in Plugins,
         ~plugin[p].image, SetRecord(p, Discovered), NoneEnters,
         \A q \in Plugins : ~Owns(op[a], q),
         \A b \in Actors \ {a} : op'[b] = op[b],
         op'[a].target = p, op'[a].batch \subseteq op[a].batch
  PROVE  CallbackInv'
<1>1. /\ \A b \in Actors : ~Holds(op[b], p)
      /\ \A l \in Layers : Quiet(p, l)
  BY Free DEF CallbackInv, QuietInv
<1>2. plugin'[p] = Discovered /\ \A q \in Plugins \ {p} : plugin'[q] = plugin[q]
  BY DEF SetRecord, TypeOK
<1>3. plugin'[p].live = {} /\ ~plugin'[p].transitioning
  BY <1>2 DEF Discovered, NoRecord
<1>4. \A q \in Plugins \ {p} : ~Owns(op'[a], q)
  BY DEF Owns
<1>5. MuteStep(a, {p})
  BY <1>1, <1>2, <1>3, <1>4 DEF MuteStep, Quiet
<1> QED  BY <1>5, MuteStepInv

\* A slot that owned nothing owns nothing and writes no record.
LEMMA LooseMute ==
  ASSUME CallbackInv, NEW a \in Actors, plugin' = plugin, NoneEnters,
         \A q \in Plugins : ~Owns(op[a], q) /\ ~Owns(op'[a], q),
         \A b \in Actors \ {a} : op'[b] = op[b],
         op'[a].batch \subseteq op[a].batch
  PROVE  CallbackInv'
<1>1. MuteStep(a, {})
  BY DEF MuteStep
<1> QED  BY <1>1, MuteStepInv

\* The loads of a reload find the image closed.
LEMMA ReplacementMute ==
  ASSUME TypeOK, IInv, CallbackInv, NEW a \in Actors, NEW attempt,
         op[a].target \in Plugins, LoadReplacement(a, attempt), NoneEnters,
         \A q \in Plugins : ~Owns(op[a], q)
  PROVE  CallbackInv'
<1> DEFINE p == op[a].target
<1>1. CASE plugin[p].state \in {"absent", "disabled"}
  <2>1. ~plugin[p].image
    BY <1>1 DEF IInv, RecordInv, RecordOK
  <2>2. /\ SetRecord(p, Discovered)
        /\ \A b \in Actors \ {a} : op'[b] = op[b]
        /\ op'[a].target = p /\ op'[a].batch = op[a].batch
    BY <1>1 DEF LoadReplacement, TypeOK, Operation
  <2> QED  BY <2>1, <2>2, DiscoverMute
<1>2. CASE plugin[p].state \notin {"absent", "disabled"}
  <2>1. End(a) /\ plugin' = plugin
    BY <1>2 DEF LoadReplacement
  <2>2. SlotKeeps(a) /\ op'[a].at = "idle"
    BY <2>1, EndKeeps
  <2>3. \A q \in Plugins : ~Owns(op'[a], q)
    BY <2>2 DEF Owns, OwningPoints
  <2> QED  BY <2>1, <2>2, <2>3, LooseMute DEF SlotKeeps
<1> QED  BY <1>1, <1>2

\* Steps after an unload, and the last of a pause and a resume, which settles the mark.
LEMMA AfterStepMute ==
  ASSUME TypeOK, IInv, CallbackInv, NEW a \in Actors, AfterStep(a)
  PROVE  CallbackInv'
<1> DEFINE p == op[a].target
<1>1. NoneEnters /\ op[a] \in Operation /\ OperationOK(op[a])
  BY StepEnters DEF Step, TypeOK, IInv, TargetInv
<1>2. CASE PublishDone(a)
  <2>1. op[a].at = "publish" /\ (End(a) \/ LoadEnds(a))
    BY <1>2 DEF PublishDone, At
  <2>2. SlotKeeps(a) /\ op'[a].at \in {"idle", "batch", "candidate"}
    BY <2>1, EndKeeps, LoadEndsKeeps
  <2>3. \A q \in Plugins : ~Owns(op'[a], q)
    BY <2>2 DEF Owns, OwningPoints
  <2>4. CASE op[a].cmd \in {"pause", "resume"} /\ p \in Plugins
    <3>1. plugin'[p] = Settled(plugin[p]) /\ \A q \in Plugins \ {p} : plugin'[q] = plugin[q]
      BY <1>2, <2>4 DEF PublishDone, SetRecord, TypeOK
    <3>2. Owns(op[a], p) /\ \A q \in Plugins \ {p} : ~Owns(op[a], q)
      BY <2>1, <2>4 DEF Owns
    <3>3. /\ plugin[p].image /\ plugin[p] \in PluginRecord /\ p \notin op[a].batch
          /\ \A b \in Actors \ {a} : ~Holds(op[b], p)
      BY <2>4, <3>2 DEF IInv, HoldInv, Holds, Consistent, TypeOK
    <3>4. plugin'[p].image /\ ~plugin'[p].transitioning
      BY <3>1, <3>3 DEF Settled, PluginRecord
    <3>5. ~Holds(op'[a], p)
      BY <2>2, <2>3, <2>4, <3>3 DEF Holds, SlotKeeps
    <3>6. \A l : ~CountsOn(op'[a], p, plugin'[p], l)
      BY <3>5, CountsOnHolds
    <3>7. MuteStep(a, {p})
      BY <1>1, <2>2, <2>3, <3>1, <3>2, <3>3, <3>4, <3>6 DEF MuteStep, SlotKeeps
    <3> QED  BY <2>4, <3>7, MuteStepInv
  <2>5. CASE ~(op[a].cmd \in {"pause", "resume"} /\ p \in Plugins)
    <3>1. plugin' = plugin
      BY <1>2, <2>5 DEF PublishDone, SetRecord, TypeOK
    <3>2. \A q \in Plugins : ~Owns(op[a], q)
      BY <2>1, <2>5 DEF Owns, OwningPoints
    <3> QED  BY <1>1, <2>2, <2>3, <3>1, <3>2, LooseMute DEF SlotKeeps
  <2> QED  BY <2>4, <2>5
<1>3. ASSUME ~PublishDone(a)
      PROVE  op[a].at \in {"publish_unloaded", "candidate"} /\ p \in Plugins
  BY <1>1, <1>3 DEF AfterStep, At, PublishUnloadedDone, CandidateKept, CandidateUnloaded,
         CandidateDiscarded, OperationOK
<1>4. ASSUME ~PublishDone(a)
      PROVE  \A q \in Plugins : ~Owns(op[a], q)
  BY <1>3, <1>4 DEF Owns, OwningPoints
<1>5. ASSUME ~PublishDone(a), End(a), plugin' = plugin
      PROVE  CallbackInv'
  <2>1. SlotKeeps(a) /\ op'[a].at = "idle"
    BY <1>5, EndKeeps
  <2>2. \A q \in Plugins : ~Owns(op'[a], q)
    BY <2>1 DEF Owns, OwningPoints
  <2> QED  BY <1>1, <1>4, <1>5, <2>1, <2>2, LooseMute DEF SlotKeeps
<1>6. CASE ~PublishDone(a) /\ (PublishUnloadedDone(a) \/ CandidateKept(a))
  <2>1. \/ End(a) /\ plugin' = plugin
        \/ \E n : LoadReplacement(a, n)
    BY <1>6 DEF PublishUnloadedDone, CandidateKept
  <2> QED  BY <1>1, <1>3, <1>4, <1>5, <1>6, <2>1, ReplacementMute
<1>7. CASE ~PublishDone(a) /\ CandidateUnloaded(a)
  <2>1. /\ plugin[p].state \in {"loaded", "paused"} /\ ~plugin[p].transitioning
        /\ ~PluginCommandActive(p) /\ SetRecord(p, Closing(plugin[p]))
    BY <1>7 DEF CandidateUnloaded, CanUnload, HasRunningDependent
  <2>2. /\ \A b \in Actors \ {a} : op'[b] = op[b]
        /\ op'[a].at = "deactivate" /\ op'[a].target = p /\ op'[a].batch = op[a].batch
    BY <1>1, <1>7 DEF CandidateUnloaded, TypeOK, Operation
  <2> QED  BY <1>1, <1>3, <1>4, <1>7, <2>1, <2>2, CloseMute
<1>8. CASE ~PublishDone(a) /\ CandidateDiscarded(a)
  <2>1. CASE plugin[p].state = "error" /\ ~plugin[p].image
    <3>1. /\ SetRecord(p, Discovered)
          /\ \A b \in Actors \ {a} : op'[b] = op[b]
          /\ op'[a].target = p /\ op'[a].batch = op[a].batch
      BY <1>1, <1>8, <2>1 DEF CandidateDiscarded, TypeOK, Operation
    <3> QED  BY <1>1, <1>3, <1>4, <1>8, <2>1, <3>1, DiscoverMute
  <2>2. CASE ~(plugin[p].state = "error" /\ ~plugin[p].image)
    BY <1>1, <1>3, <1>4, <1>8, <2>2, ReplacementMute DEF CandidateDiscarded
  <2> QED  BY <2>1, <2>2
<1> QED  BY <1>2, <1>6, <1>7, <1>8 DEF AfterStep

\* The beginning of an operation.
LEMMA CommandMute ==
  ASSUME TypeOK, IInv, CallbackInv, NEW a \in Actors, Command(a)
  PROVE  CallbackInv'
<1>1. NoneEnters /\ op[a].at = "idle"
  BY CommandEnters DEF Command, BeginBatch, BeginLoad, BeginPause, BeginResume, BeginUnload,
                       Begin, Admitted
<1>2. \A q \in Plugins : ~Owns(op[a], q)
  BY <1>1 DEF Owns, OwningPoints
<1>3. ASSUME NEW c, NEW p, NEW at, Begin(a, c, p, at)
      PROVE  /\ \A b \in Actors \ {a} : op'[b] = op[b]
             /\ op'[a].at = at /\ op'[a].target = p /\ op'[a].cmd = c /\ op'[a].batch = {}
  BY <1>3 DEF Begin, TypeOK, Idle
<1>4. CASE BeginBatch(a)
  <2>1. /\ plugin' = plugin /\ \A b \in Actors \ {a} : op'[b] = op[b]
        /\ op'[a].at = "discover" /\ op'[a].batch = {}
    BY <1>4 DEF BeginBatch, TypeOK, Idle
  <2>2. \A q \in Plugins : ~Owns(op'[a], q)
    BY <2>1 DEF Owns, OwningPoints
  <2> QED  BY <1>1, <1>2, <2>1, <2>2, LooseMute
<1>5. ASSUME NEW p \in Plugins, BeginLoad(a, p)
      PROVE  CallbackInv'
  BY <1>1, <1>2, <1>3, <1>5, DiscoverMute DEF BeginLoad
<1>6. ASSUME NEW p \in Plugins, BeginPause(a, p) \/ BeginUnload(a, p)
      PROVE  CallbackInv'
  <2>1. /\ \E c : Begin(a, c, p, "deactivate")
        /\ plugin[p].state \in {"loaded", "paused"} /\ ~plugin[p].transitioning
        /\ ~PluginCommandActive(p) /\ SetRecord(p, Closing(plugin[p]))
    BY <1>6 DEF BeginPause, BeginUnload, CanUnload, HasRunningDependent
  <2> QED  BY <1>1, <1>2, <1>3, <2>1, CloseMute
<1>7. ASSUME NEW p \in Plugins, BeginResume(a, p)
      PROVE  CallbackInv'
  <2> DEFINE r == Restored([plugin[p] EXCEPT !.state = "loaded", !.transitioning = TRUE])
  <2>1. /\ plugin[p].state = "paused" /\ ~plugin[p].transitioning
        /\ plugin[p] \in PluginRecord /\ plugin[p].image
    BY <1>7 DEF BeginResume, TypeOK, IInv, RecordInv, RecordOK
  <2>2. \A b \in Actors : ~Holds(op[b], p)
    BY <2>1, Free
  <2>3. plugin'[p] = r /\ \A q \in Plugins \ {p} : plugin'[q] = plugin[q]
    BY <1>7 DEF BeginResume, SetRecord, TypeOK
  <2>4. plugin'[p].image
    BY <2>1, <2>3 DEF Restored, PluginRecord
  <2>5. /\ \A b \in Actors \ {a} : op'[b] = op[b]
        /\ op'[a].at = "publish" /\ op'[a].target = p /\ op'[a].cmd = "resume"
        /\ op'[a].batch = {}
    BY <1>3, <1>7 DEF BeginResume
  <2>6. /\ Marks(op'[a], p, plugin'[p])
        /\ \A l : ~CountsOn(op'[a], p, plugin'[p], l)
        /\ \A q \in Plugins \ {p} : ~Owns(op'[a], q)
    BY <2>5 DEF Marks, Owns, CountsOn, Departs
  <2>7. MuteStep(a, {p})
    BY <1>1, <1>2, <2>2, <2>3, <2>4, <2>5, <2>6 DEF MuteStep
  <2> QED  BY <2>7, MuteStepInv
<1> QED  BY <1>4, <1>5, <1>6, <1>7 DEF Command

\* A step that changes neither records nor operations, and enters a callback only where
\* the layer is live.
LEMMA StackMute ==
  ASSUME CallbackInv, plugin' = plugin, op' = op,
         \A t \in Threads, q \in Plugins, l \in Layers :
           Inside(t, q, l)' => Inside(t, q, l) \/ l \in plugin[q].live
  PROVE  CallbackInv'
BY DEF CallbackInv, QuietInv, Quiet, MarkInv, CountsOn, Marks, Owns, Departs

\* A dispatch reaches live layers only.
LEMMA CallbackMute ==
  ASSUME TypeOK, CallbackInv, NEW t \in Threads, Callback(t)
  PROVE  CallbackInv'
<1>1. CASE LeaveCallback(t)
  <2>1. NoneEnters
    BY <1>1, PopEnters DEF LeaveCallback
  <2> QED  BY <1>1, <2>1, StackMute DEF LeaveCallback, NoneEnters
<1>2. ASSUME NEW p \in Plugins, NEW m \in Layers, EnterCallback(t, p, m)
      PROVE  CallbackInv'
  <2>1. ASSUME NEW u \in Threads, NEW q \in Plugins, NEW l \in Layers,
               NEW i \in DOMAIN stack'[u], stack'[u][i] = <<q, l>>
        PROVE  Inside(u, q, l) \/ l \in plugin[q].live
    <3>1. CASE u # t
      BY <1>2, <2>1, <3>1 DEF EnterCallback, TypeOK, Inside
    <3>2. CASE u = t
      <4>1. stack[t] \in Seq(Frame) /\ stack'[t] = <<<<p, m>>>> \o stack[t]
        BY <1>2 DEF EnterCallback, TypeOK
      <4>2. PICK x : x = <<p, m>>
        OBVIOUS
      <4>3. stack'[t] = <<x>> \o stack[t]
        BY <4>1, <4>2
      <4> HIDE <4>2
      <4>4. \/ <<q, l>> = x
            \/ i - 1 \in DOMAIN stack[t] /\ stack[t][i - 1] = <<q, l>>
        BY <2>1, <3>2, <4>1, <4>3, Pushed
      <4>5. x = <<q, l>> => l \in plugin[q].live
        BY <1>2, <4>2 DEF EnterCallback
      <4> QED  BY <3>2, <4>4, <4>5 DEF Inside
    <3> QED  BY <3>1, <3>2
  <2>2. plugin' = plugin /\ op' = op
    BY <1>2 DEF EnterCallback
  <2> QED  BY <2>1, <2>2, StackMute DEF Inside
<1> QED  BY <1>1, <1>2 DEF Callback

-----------------------------------------------------------------------------
(* The theorems.                                                           *)

\* No callback and no mark initially.
LEMMA InitMute == Init => CallbackInv
<1> SUFFICES ASSUME Init  PROVE CallbackInv
  OBVIOUS
<1>1. \A p \in Plugins : plugin[p].live = {} /\ ~plugin[p].transitioning
  BY DEF Init, NoRecord
<1>2. \A t \in Threads, p \in Plugins, l \in Layers : ~Inside(t, p, l)
  BY DEF Init, Inside
<1> QED  BY <1>1, <1>2 DEF CallbackInv, QuietInv, Quiet, MarkInv

\* Every step keeps the callback invariant.
LEMMA NextMute ==
  ASSUME TypeOK, IInv, CallbackInv, [Next]_vars
  PROVE  CallbackInv'
<1>1. CASE UNCHANGED vars
  BY <1>1, StackMute DEF vars, services, Inside
<1>2. ASSUME NEW a \in Actors, Command(a) \/ Step(a)
      PROVE  CallbackInv'
  BY <1>2, CommandMute, LoadStepMute, BatchStepMute, TransitionStepMute, AfterStepMute DEF Step
<1>3. CASE Service
  BY <1>3, StackMute DEF Service, Publish, Withdraw, Query, Release, Inside
<1> QED  BY <1>1, <1>2, <1>3, CallbackMute DEF Next

\* Beside IInv: what is closed, not started, rejected or released is quiet (disabled and
\* with no thread inside), and a mark belongs to an operation that clears it.
THEOREM CallbackInvariance == Spec => []CallbackInv
<1>1. TypeOK /\ IInv /\ CallbackInv /\ [Next]_vars => CallbackInv'
  BY NextMute
<1> QED  BY <1>1, InitMute, Invariance, PTL DEF Spec

\* No thread is inside a callback of a plugin whose image is closed, for any manifests,
\* threads and operations: ReleasePlugin waits for the callbacks of a layer that is
\* disabled, layer after layer, before UnloadPluginCommand and RollbackPlugin close it.
THEOREM CallbacksHold == Spec => []NoCallbackIntoClosedImage
<1>1. CallbackInv => NoCallbackIntoClosedImage
  BY DEF CallbackInv, QuietInv, Quiet, NoCallbackIntoClosedImage
<1> QED  BY <1>1, CallbackInvariance, PTL

\* A plugin is marked transitioning only while the pause, resume, unload or reload that
\* clears the mark runs: no failed path of PluginTransition leaves it stuck.
THEOREM MarksHold == Spec => []TransitionOwned
<1>1. IInv /\ CallbackInv => TransitionOwned
  BY DEF CallbackInv, MarkInv, Marks, Departs, Owns, TransitionOwned
<1> QED  BY <1>1, Invariance, CallbackInvariance, PTL

-----------------------------------------------------------------------------
(* What a paused and a running plugin hear.                                *)

\* Slot a writes the records of the plugins in S, which are its own: it knows what it has
\* made of them, and only a refused unload leaves one half enabled.
RestStep(a, S) ==
  /\ \A b \in Actors \ {a} : op'[b] = op[b] /\ \A q \in S : ~Holds(op[b], q)
  /\ \A q \in Plugins \ S : plugin'[q] = plugin[q] /\ ~Owns(op'[a], q)
  /\ \A q \in S :
       /\ Progressed(op'[a], q, plugin'[q])
       /\ Silent(plugin[q]) => Silent(plugin'[q]) \/ Wakes(a, q)
       /\ Dispatched(plugin[q]) => Dispatched(plugin'[q]) \/ LosesLayers(a, q)

\* What a step keeps: the knowledge of the operations, and what a plugin hears.
Rested ==
  /\ ProgressInv'
  /\ \A p \in Plugins : Silent(plugin[p]) => Silent(plugin'[p]) \/ \E a \in Actors : Wakes(a, p)
  /\ \A p \in Plugins : Dispatched(plugin[p]) =>
       Dispatched(plugin'[p]) \/ \E a \in Actors : LosesLayers(a, p)

\* An operation knows something of the plugin it owns only.
LEMMA UnownedProgress ==
  ASSUME NEW o, NEW p, NEW r, ~Owns(o, p)
  PROVE  Progressed(o, p, r)
<1>1. ~Departs(o, p, r)
  BY DepartsOwns
<1> QED  BY <1>1 DEF Progressed, Owns, OwningPoints

\* Such a step rests.
LEMMA RestStepRests ==
  ASSUME ProgressInv, NEW a \in Actors, NEW S \in SUBSET Plugins, RestStep(a, S)
  PROVE  Rested
<1> USE DEF RestStep
<1>1. ASSUME NEW b \in Actors, NEW q \in Plugins
      PROVE  Progressed(op'[b], q, plugin'[q])
  <2>1. CASE q \in S /\ b = a
    BY <2>1
  <2>2. CASE q \in S /\ b # a
    <3>1. ~Owns(op'[b], q)
      BY <2>2 DEF Holds
    <3> QED  BY <3>1, UnownedProgress
  <2>3. CASE q \notin S /\ b # a
    BY <2>3 DEF ProgressInv
  <2>4. CASE q \notin S /\ b = a
    <3>1. ~Owns(op'[b], q)
      BY <2>4
    <3> QED  BY <3>1, UnownedProgress
  <2> QED  BY <2>1, <2>2, <2>3, <2>4
<1>2. ProgressInv'
  BY <1>1 DEF ProgressInv, Progressed, Departs
<1> QED  BY <1>2 DEF Rested

\* A slot that owns nothing afterwards, or whose plugin's record is settled, knows nothing.
LEMMA LooseRests ==
  ASSUME ProgressInv, NEW a \in Actors, plugin' = plugin,
         \A q \in Plugins : ~Owns(op'[a], q),
         \A b \in Actors \ {a} : op'[b] = op[b]
  PROVE  Rested
<1>1. RestStep(a, {})
  BY DEF RestStep
<1> QED  BY <1>1, RestStepRests

\* A step that changes neither records nor operations.
LEMMA StillRests ==
  ASSUME ProgressInv, plugin' = plugin, op' = op
  PROVE  Rested
BY DEF Rested, ProgressInv, Progressed, Departs

\* An operation that owns its plugin writes no other record.
LEMMA OwnerRests ==
  ASSUME TypeOK, IInv, ProgressInv, NEW a \in Actors, op[a].at \in OwningPoints,
         NEW p, p = op[a].target,
         \A b \in Actors \ {a} : op'[b] = op[b],
         op'[a].target \in {p, NoPlugin},
         \A q \in Plugins \ {p} : plugin'[q] = plugin[q],
         Progressed(op'[a], p, plugin'[p]),
         Silent(plugin[p]) => Silent(plugin'[p]) \/ Wakes(a, p),
         Dispatched(plugin[p]) => Dispatched(plugin'[p]) \/ LosesLayers(a, p)
  PROVE  Rested
<1>1. p \in Plugins /\ \A b \in Actors \ {a} : ~Holds(op[b], p)
  BY Owned
<1>2. \A q \in Plugins \ {p} : ~Owns(op'[a], q)
  BY ConstantsAssumption DEF Owns, ConstantsAssumption
<1>3. RestStep(a, {p})
  BY <1>1, <1>2 DEF RestStep
<1> QED  BY <1>1, <1>3, RestStepRests

\* An operation that neither stops a plugin nor publishes a pause or a resume knows nothing.
LEMMA LoadingProgress ==
  ASSUME NEW o, NEW p, NEW r,
         o.at \notin {"deactivate", "drain", "release", "unload"},
         o.at = "prepare" => o.cmd # "pause",
         o.at = "prepare_unload" => r.state = "error",
         o.at = "publish" => o.cmd \notin {"pause", "resume"}
  PROVE  Progressed(o, p, r)
BY DEF Progressed, Departs

\* A record without an enabled layer is silent when it accepts nothing, and one that
\* accepts in all layers is dispatched.
LEMMA RecordRests ==
  /\ \A r : r.state \notin {"loaded", "paused"} => Silent(r) /\ Dispatched(r)
  /\ \A r : r.state = "paused" => Dispatched(r)
  /\ \A r : r.state = "loaded" => Silent(r)
  /\ \A r \in PluginRecord :
       /\ r.state = "loaded" => Silent(Restored(r))
       /\ Dispatched(Restored(r)) /\ Dispatched(Settled(Restored(r)))
       /\ r.state = "paused" /\ r.live = {} /\ ~r.accepting => Silent(r)
       /\ Silent(r) <=> Silent(Settled(r))
  /\ \A s \in {"error", "absent", "disabled"} : Silent(Closed(s)) /\ Dispatched(Closed(s))
  /\ Silent(Discovered) /\ Dispatched(Discovered)
<1>1. \A r \in PluginRecord :
        /\ r.state = "loaded" => Silent(Restored(r))
        /\ Dispatched(Restored(r)) /\ Dispatched(Settled(Restored(r)))
        /\ Silent(r) <=> Silent(Settled(r))
  BY DEF Silent, Dispatched, Restored, Settled, PluginRecord
<1>2. Silent(Discovered) /\ Dispatched(Discovered)
  BY DEF Silent, Dispatched, Discovered, NoRecord
<1>3. \A s \in {"error", "absent", "disabled"} : Silent(Closed(s)) /\ Dispatched(Closed(s))
  BY DEF Silent, Dispatched, Closed, NoRecord
<1> QED  BY <1>1, <1>2, <1>3 DEF Silent, Dispatched

\* Steps of a load: a plugin that becomes loaded hears everything, and one that becomes
\* paused nothing.
LEMMA LoadStepRests ==
  ASSUME TypeOK, IInv, CallbackInv, ProgressInv, NEW a \in Actors, LoadStep(a)
  PROVE  Rested
<1> DEFINE p == op[a].target
<1>0. op[a].at \in OwningPoints
  BY DEF LoadStep, OwningPoints, At, QueryRejected, QueryAccepted, StartPlugin,
         RejectUnstartedPlugin, LoadSucceeds, LoadFails, ReplacementPrepared,
         ReplacementUnloadPrepared, RollbackLayer, RollbackDone
<1>1. /\ p \in Plugins /\ op[a] \in Operation /\ plugin[p] \in PluginRecord
      /\ Owns(op[a], p) /\ Consistent(op[a], p, plugin[p]) /\ OperationOK(op[a])
  BY <1>0, Owned DEF IInv, TargetInv
<1>2. \A l : CountsOn(op[a], p, plugin[p], l)
  BY <1>1 DEF LoadStep, At, QueryRejected, QueryAccepted, StartPlugin,
         RejectUnstartedPlugin, LoadSucceeds, LoadFails, ReplacementPrepared,
         ReplacementUnloadPrepared, RollbackLayer, RollbackDone, CountsOn
<1>3. plugin[p].live = {}
  BY <1>1, <1>2 DEF CallbackInv, QuietInv, Quiet, PluginRecord
<1>4. \A q \in Plugins \ {p} : plugin'[q] = plugin[q]
  BY DEF LoadStep, SetRecord, TypeOK, QueryRejected, QueryAccepted, StartPlugin,
         RejectUnstartedPlugin, LoadSucceeds, LoadFails, ReplacementPrepared,
         ReplacementUnloadPrepared, RollbackLayer, RollbackDone
<1>5. ASSUME SlotKeeps(a), Progressed(op'[a], p, plugin'[p]),
             Silent(plugin'[p]), Dispatched(plugin'[p])
      PROVE  Rested
  BY <1>0, <1>4, <1>5, OwnerRests DEF SlotKeeps
<1>6. ASSUME NEW at, Goto(a, at), at \notin {"deactivate", "drain", "release", "unload"},
             at = "prepare" => op[a].cmd # "pause",
             at = "prepare_unload" => plugin'[p].state = "error",
             at = "publish" => op[a].cmd \notin {"pause", "resume"}
      PROVE  SlotKeeps(a) /\ Progressed(op'[a], p, plugin'[p])
  <2>1. SlotKeeps(a) /\ op'[a].at = at /\ op'[a].cmd = op[a].cmd
    BY <1>6, GotoKeeps
  <2> QED  BY <1>6, <2>1, LoadingProgress
<1>7. ASSUME LoadEnds(a)
      PROVE  SlotKeeps(a) /\ Progressed(op'[a], p, plugin'[p])
  BY <1>7, LoadEndsKeeps, LoadingProgress
<1>8. CASE QueryRejected(a) \/ RejectUnstartedPlugin(a) \/ RollbackDone(a)
  <2>1. plugin'[p] = Closed("error") /\ (LoadEnds(a) \/ Goto(a, "discover"))
    BY <1>1, <1>8 DEF QueryRejected, RejectUnstartedPlugin, RollbackDone, SetRecord, TypeOK
  <2>2. SlotKeeps(a) /\ Progressed(op'[a], p, plugin'[p])
    BY <1>6, <1>7, <2>1
  <2> QED  BY <1>5, <2>1, <2>2, RecordRests
<1>9. CASE QueryAccepted(a)
  <2>1. plugin'[p].state = "loading"
    BY <1>1, <1>9 DEF QueryAccepted, SetRecord, TypeOK, PluginRecord
  <2>2. CASE Goto(a, "start")
    BY <1>5, <1>6, <2>1, <2>2, RecordRests
  <2>3. CASE op[a].cmd = "batch"
    <3>1. /\ \A b \in Actors \ {a} : op'[b] = op[b]
          /\ op'[a].target = p /\ op'[a].at = "discover"
      BY <1>1, <1>9, <2>3 DEF QueryAccepted, TypeOK, Operation
    <3>2. Progressed(op'[a], p, plugin'[p])
      BY <3>1, LoadingProgress
    <3> QED  BY <1>0, <1>4, <2>1, <3>1, <3>2, RecordRests, OwnerRests
  <2> QED  BY <1>9, <2>2, <2>3 DEF QueryAccepted
<1>10. CASE StartPlugin(a) \/ LoadFails(a)
  <2>1. /\ plugin[p].state = "loading" /\ (Goto(a, "load") \/ Goto(a, "rollback"))
        /\ \/ plugin'[p] = Started(plugin[p])
           \/ plugin'[p] = [plugin[p] EXCEPT !.loading = FALSE, !.accepting = FALSE]
    BY <1>1, <1>10 DEF StartPlugin, LoadFails, SetRecord, TypeOK, Consistent, At
  <2>2. plugin'[p].state = "loading"
    BY <1>1, <2>1 DEF Started, PluginRecord
  <2>3. SlotKeeps(a) /\ Progressed(op'[a], p, plugin'[p])
    BY <1>6, <2>1
  <2> QED  BY <1>5, <2>2, <2>3, RecordRests
<1>11. CASE LoadSucceeds(a)
  <2>1. op[a].at = "load" /\ plugin[p].state = "loading"
        /\ op[a].cmd \in {"load", "batch", "reload"}
    BY <1>1, <1>11 DEF LoadSucceeds, At, Consistent, OperationOK
  <2>2. CASE ActivateDispatch(a)
    <3> DEFINE r == [plugin[p] EXCEPT !.loading = FALSE, !.state = "loaded"]
    <3>1. plugin'[p] = Restored(r) /\ Goto(a, "publish")
      BY <1>1, <1>11, <2>2 DEF LoadSucceeds, SetRecord, TypeOK
    <3>2. r \in PluginRecord /\ r.state = "loaded"
      BY <1>1 DEF PluginRecord, States
    <3> HIDE DEF r
    <3>3. SlotKeeps(a) /\ Progressed(op'[a], p, plugin'[p])
      BY <1>6, <2>1, <3>1
    <3> QED  BY <1>5, <3>1, <3>2, <3>3, RecordRests
  <2>3. CASE ~ActivateDispatch(a)
    <3>1. /\ plugin'[p] = [plugin[p] EXCEPT !.loading = FALSE, !.accepting = FALSE]
          /\ Goto(a, "prepare")
      BY <1>1, <1>11, <2>3 DEF LoadSucceeds, SetRecord, TypeOK
    <3>2. plugin'[p].state = "loading"
      BY <1>1, <2>1, <3>1 DEF PluginRecord
    <3>3. SlotKeeps(a) /\ Progressed(op'[a], p, plugin'[p])
      BY <1>6, <2>1, <3>1
    <3> QED  BY <1>5, <3>2, <3>3, RecordRests
  <2> QED  BY <2>2, <2>3
<1>12. CASE ReplacementPrepared(a)
  <2>1. op[a].at = "prepare" /\ op[a].cmd = "reload" /\ ~plugin[p].accepting
    BY <1>1, <1>12 DEF ReplacementPrepared, At, Consistent
  <2>2. CASE plugin'[p] = [plugin[p] EXCEPT !.state = "paused"] /\ Goto(a, "publish")
    <3>1. plugin'[p].state = "paused" /\ plugin'[p].live = {} /\ ~plugin'[p].accepting
      BY <1>1, <1>3, <2>1, <2>2 DEF PluginRecord
    <3>2. Silent(plugin'[p]) /\ Dispatched(plugin'[p])
      BY <3>1 DEF Silent, Dispatched
    <3> QED  BY <1>5, <1>6, <2>1, <2>2, <3>2
  <2>3. CASE plugin'[p] = [plugin[p] EXCEPT !.state = "error"] /\ Goto(a, "prepare_unload")
    <3>1. plugin'[p].state = "error"
      BY <1>1, <2>3 DEF PluginRecord
    <3> QED  BY <1>5, <1>6, <2>3, <3>1, RecordRests
  <2> QED  BY <1>1, <1>12, <2>2, <2>3 DEF ReplacementPrepared, SetRecord, TypeOK
<1>13. CASE ReplacementUnloadPrepared(a)
  <2>1. /\ plugin[p].state = "error" /\ (LoadEnds(a) \/ Goto(a, "rollback"))
        /\ \/ plugin'[p] = plugin[p]
           \/ plugin'[p] = [plugin[p] EXCEPT !.cleanup_pending = TRUE]
    BY <1>1, <1>13 DEF ReplacementUnloadPrepared, SetRecord, TypeOK
  <2>2. plugin'[p].state = "error"
    BY <1>1, <2>1 DEF PluginRecord
  <2>3. SlotKeeps(a) /\ Progressed(op'[a], p, plugin'[p])
    BY <1>6, <1>7, <2>1
  <2> QED  BY <1>5, <2>2, <2>3, RecordRests
<1>14. CASE RollbackLayer(a)
  <2>1. plugin[p].state \in {"loading", "error"}
    BY <1>1, <1>14 DEF RollbackLayer, At, Consistent
  <2>2. PICK f, l :
          \/ plugin'[p] = [plugin[p] EXCEPT !.state = "error", !.live = {},
                                           !.cleanup_pending = f]
          \/ plugin'[p] = [plugin[p] EXCEPT !.live = @ \ {l}]
    BY <1>1, <1>14, RollbackRecord
  <2>3. plugin'[p].state \in {"loading", "error"}
    <3>1. CASE plugin'[p] = [plugin[p] EXCEPT !.state = "error", !.live = {}, !.cleanup_pending = f]
      BY <1>1, <3>1 DEF PluginRecord
    <3>2. CASE plugin'[p] = [plugin[p] EXCEPT !.live = @ \ {l}]
      BY <1>1, <2>1, <3>2 DEF PluginRecord
    <3> QED  BY <2>2, <3>1, <3>2
  <2>4. SlotKeeps(a) /\ Progressed(op'[a], p, plugin'[p])
    <3>1. CASE LastLayer(a)
      BY <1>6, <1>7, <1>14, <3>1 DEF RollbackLayer
    <3>2. CASE ~LastLayer(a)
      <4>1. PICK g \in BOOLEAN : op' = [op EXCEPT ![a].step = @ + 1, ![a].failed = g]
        BY <1>1, <1>14, <3>2 DEF RollbackLayer, Operation
      <4>2. SlotKeeps(a) /\ op'[a].at = op[a].at /\ op[a].at = "rollback"
        BY <1>1, <1>14, <4>1 DEF RollbackLayer, At, TypeOK, Operation, SlotKeeps
      <4> QED  BY <4>2, LoadingProgress
    <3> QED  BY <3>1, <3>2
  <2> QED  BY <1>5, <2>3, <2>4, RecordRests
<1> QED  BY <1>8, <1>9, <1>10, <1>11, <1>12, <1>13, <1>14 DEF LoadStep

\* Steps of a batch: nothing is loaded or paused by them.
LEMMA BatchStepRests ==
  ASSUME TypeOK, IInv, ProgressInv, NEW a \in Actors, BatchStep(a)
  PROVE  Rested
<1>1. /\ op[a] \in Operation /\ op[a].batch \in SUBSET Plugins
      /\ \A b \in Actors \ {a} : op'[b] = op[b]
  BY DEF TypeOK, Operation, BatchStep, DiscoverPlugin, StartDiscovered, DiscoveryDone,
         RejectCycle, BatchDone, Goto
<1>2. op[a].at \in {"discover", "batch"} /\ op[a].cmd = "batch"
  BY DEF BatchStep, At, DiscoverPlugin, StartDiscovered, DiscoveryDone, RejectCycle,
         BatchDone, IInv, TargetInv, OperationOK
<1>3. ASSUME NEW p \in op[a].batch
      PROVE  /\ p \in Plugins /\ plugin[p].state = "loading"
             /\ \A b \in Actors \ {a} : ~Holds(op[b], p)
  BY <1>1 DEF IInv, HoldInv, Holds, Consistent
<1>4. ASSUME NEW S \in SUBSET Plugins,
             \A b \in Actors \ {a}, q \in S : ~Holds(op[b], q),
             \A q \in Plugins \ S : plugin'[q] = plugin[q],
             \A q \in S : plugin'[q].state \notin {"loaded", "paused"},
             op'[a].at \in {"query", "load", "discover", "batch"},
             op'[a].at \in {"discover", "batch"} \/ op'[a].target \in S
      PROVE  Rested
  <2>1. \A q : Progressed(op'[a], q, plugin'[q])
    BY <1>4, LoadingProgress
  <2>2. \A q \in Plugins \ S : ~Owns(op'[a], q)
    BY <1>4 DEF Owns, OwningPoints
  <2>3. RestStep(a, S)
    BY <1>1, <1>4, <2>1, <2>2, RecordRests DEF RestStep
  <2> QED  BY <2>3, RestStepRests
<1>5. ASSUME NEW p \in Plugins, DiscoverPlugin(a, p)
      PROVE  Rested
  <2>1. CASE plugin[p].state \in {"absent", "disabled"}
    <3>1. \A b \in Actors : ~Holds(op[b], p)
      BY <2>1, Free DEF IInv, RecordInv, RecordOK
    <3>2. /\ plugin'[p] = Discovered /\ \A q \in Plugins \ {p} : plugin'[q] = plugin[q]
          /\ op'[a].target = p /\ op'[a].at = "query"
      BY <1>1, <1>5, <2>1 DEF DiscoverPlugin, SetRecord, TypeOK, Operation
    <3>3. plugin'[p].state = "error"
      BY <3>2 DEF Discovered, NoRecord
    <3>4. PICK S \in SUBSET Plugins : S = {p}
      OBVIOUS
    <3> QED  BY <1>4, <3>1, <3>2, <3>3, <3>4
  <2>2. CASE plugin[p].state \notin {"absent", "disabled"}
    <3>1. plugin' = plugin /\ op'[a].at = op[a].at
      BY <1>1, <1>5, <2>2 DEF DiscoverPlugin, TypeOK, Operation
    <3>2. \A q \in Plugins : ~Owns(op'[a], q)
      BY <1>2, <3>1 DEF Owns, OwningPoints
    <3> QED  BY <1>1, <3>1, <3>2, LooseRests
  <2> QED  BY <2>1, <2>2
<1>6. ASSUME NEW p \in Plugins, StartDiscovered(a, p)
      PROVE  Rested
  <2>1. p \in op[a].batch
    BY <1>6 DEF StartDiscovered
  <2>2. plugin[p].state = "loading" /\ plugin[p] \in PluginRecord
    BY <1>3, <2>1 DEF TypeOK
  <2>3. plugin'[p] = Closed("error") \/ plugin'[p] = Started(plugin[p])
    BY <1>6 DEF StartDiscovered, SetRecord, TypeOK
  <2>4. plugin'[p].state \in {"error", "loading"}
    BY <2>2, <2>3 DEF Started, PluginRecord, Closed, NoRecord
  <2>5. /\ \A q \in Plugins \ {p} : plugin'[q] = plugin[q]
        /\ op'[a].at = op[a].at \/ (op'[a].at = "load" /\ op'[a].target = p)
    BY <1>1, <1>6 DEF StartDiscovered, SetRecord, TypeOK, Operation
  <2> QED  BY <1>2, <1>3, <1>4, <2>1, <2>4, <2>5
<1>7. CASE RejectCycle(a)
  <2> DEFINE B == op[a].batch
  <2>1. /\ \A q \in B : plugin'[q] = [Closed("error") EXCEPT !.cycle = TRUE]
        /\ \A q \in Plugins \ B : plugin'[q] = plugin[q]
        /\ op'[a].at = op[a].at
    BY <1>1, <1>7 DEF RejectCycle, TypeOK, Operation
  <2>2. \A q \in B : plugin'[q].state = "error"
    BY <2>1 DEF Closed, NoRecord
  <2> QED  BY <1>1, <1>2, <1>3, <1>4, <2>1, <2>2
<1>8. CASE DiscoveryDone(a) \/ BatchDone(a)
  <2>1. /\ plugin' = plugin
        /\ op'[a].at = "batch" \/ op'[a].target = NoPlugin
    BY <1>1, <1>8 DEF DiscoveryDone, BatchDone, Goto, TypeOK, Operation
  <2>2. \A q \in Plugins : ~Owns(op'[a], q)
    BY <2>1, ConstantsAssumption DEF Owns, OwningPoints, ConstantsAssumption
  <2> QED  BY <1>1, <2>1, <2>2, LooseRests
<1> QED  BY <1>5, <1>6, <1>7, <1>8 DEF BatchStep

\* An operation that gives up a transition knows nothing any more.
LEMMA AbandonRests ==
  ASSUME TypeOK, IInv, ProgressInv, NEW a \in Actors, op[a].at \in OwningPoints,
         NEW p, p = op[a].target, NEW r \in PluginRecord, Abandon(a, r),
         Silent(plugin[p]) => Silent(r) \/ Wakes(a, p),
         Dispatched(plugin[p]) => Dispatched(Settled(r)) \/ LosesLayers(a, p)
  PROVE  Rested
<1>1. p \in Plugins
  BY Owned
<1>2. plugin'[p] = Settled(r) /\ \A q \in Plugins \ {p} : plugin'[q] = plugin[q]
  BY <1>1 DEF Abandon, SetRecord, TypeOK
<1>3. SlotKeeps(a) /\ op'[a].at = "idle"
  BY EndKeeps DEF Abandon
<1>4. Progressed(op'[a], p, plugin'[p])
  BY <1>3, LoadingProgress
<1>5. Silent(r) => Silent(plugin'[p])
  BY <1>2, RecordRests
<1> QED  BY <1>2, <1>3, <1>4, <1>5, OwnerRests DEF SlotKeeps

\* Steps of an unload and a pause: what they disable stays disabled until the plugin is
\* paused, closed or restored as a whole.
LEMMA TransitionStepRests ==
  ASSUME TypeOK, IInv, CallbackInv, ProgressInv, NEW a \in Actors, TransitionStep(a)
  PROVE  Rested
<1> DEFINE p == op[a].target
           l == DeactivateOrder[op[a].step]
<1>0. op[a].at \in OwningPoints
  BY DEF TransitionStep, OwningPoints, At, Deactivate, DeactivateDone, DeactivateBusy,
         PausePrepared, UnloadPrepared, ReleaseLayer, ReleaseFails, UnloadPlugin
<1>1. /\ p \in Plugins /\ op[a] \in Operation /\ plugin[p] \in PluginRecord
      /\ Owns(op[a], p) /\ Consistent(op[a], p, plugin[p])
  BY <1>0, Owned
<1>2. Departs(op[a], p, plugin[p])
  BY <1>1 DEF TransitionStep, Departs, At, Deactivate, DeactivateDone, DeactivateBusy,
         PausePrepared, UnloadPrepared, ReleaseLayer, ReleaseFails, UnloadPlugin
<1>3. /\ plugin[p].state \in {"loaded", "paused"} /\ plugin[p].transitioning
      /\ ~plugin[p].accepting /\ Progressed(op[a], p, plugin[p])
  BY <1>1, <1>2 DEF Consistent, Departs, ProgressInv
<1>4. \A q \in Plugins \ {p} : plugin'[q] = plugin[q]
  BY DEF TransitionStep, SetRecord, TypeOK, Abandon, Deactivate, DeactivateDone,
         DeactivateBusy, PausePrepared, UnloadPrepared, ReleaseLayer, ReleaseFails, UnloadPlugin
<1>5. op[a].was_running <=> plugin[p].state = "loaded"
  BY <1>2, <1>3 DEF Progressed
<1>6. Restored(plugin[p]) \in PluginRecord
  BY <1>1, RecordTypes
<1>7. ASSUME \A b \in Actors \ {a} : op'[b] = op[b],
             op'[a].target = p, op'[a].cmd = op[a].cmd,
             op'[a].was_running = op[a].was_running,
             op'[a].at \in {"deactivate", "drain", "prepare_unload", "release", "unload"}
               \/ (op'[a].at = "prepare" /\ op[a].cmd = "pause" /\ plugin'[p].live = {}),
             plugin'[p].live \subseteq plugin[p].live,
             plugin'[p].state = plugin[p].state,
             plugin'[p].transitioning, ~plugin'[p].accepting,
             op'[a].at \in {"deactivate", "drain"} =>
               /\ op'[a].step \in 1..6 /\ (op[a].was_running \/ op'[a].step = 1)
               /\ \A s \in 1..6 : s < op'[a].step \/ (s = op'[a].step /\ op'[a].at = "drain") =>
                    DeactivateOrder[s] \notin plugin'[p].live
      PROVE  Rested
  <2>1. Departs(op'[a], p, plugin'[p])
    BY <1>3, <1>7 DEF Departs
  <2>2. op'[a].cmd = "pause" => op'[a].was_running
    BY <1>2, <1>3, <1>7 DEF Progressed
  <2>3. Progressed(op'[a], p, plugin'[p])
    BY <1>5, <1>7, <2>1, <2>2 DEF Progressed
  <2>4. Silent(plugin[p]) => Silent(plugin'[p])
    BY <1>7 DEF Silent
  <2>5. Dispatched(plugin'[p])
    BY <1>7 DEF Dispatched
  <2> QED  BY <1>0, <1>4, <1>7, <2>3, <2>4, <2>5, OwnerRests
<1>8. CASE Deactivate(a)
  <2>1. plugin'[p] = [plugin[p] EXCEPT !.live = @ \ {l}]
    BY <1>1, <1>8 DEF Deactivate, SetRecord, TypeOK
  <2>2. /\ plugin'[p].live = plugin[p].live \ {l}
        /\ plugin'[p].state = plugin[p].state /\ plugin'[p].transitioning
        /\ ~plugin'[p].accepting
    BY <1>1, <1>3, <2>1 DEF PluginRecord
  <2>3. /\ \A b \in Actors \ {a} : op'[b] = op[b]
        /\ op'[a].target = p /\ op'[a].cmd = op[a].cmd
        /\ op'[a].was_running = op[a].was_running
        /\ op'[a].at = "drain" /\ op'[a].step = op[a].step
    BY <1>1, <1>8 DEF Deactivate, TypeOK, Operation
  <2>4. op[a].at = "deactivate"
    BY <1>8 DEF Deactivate, At
  <2>5. /\ op[a].step \in 1..6 /\ (op[a].was_running \/ op[a].step = 1)
        /\ \A s \in 1..6 : s < op[a].step => DeactivateOrder[s] \notin plugin[p].live
    BY <1>3, <2>4 DEF Progressed
  <2>6. \A s \in 1..6 : s < op[a].step \/ s = op[a].step => DeactivateOrder[s] \notin plugin'[p].live
    BY <2>2, <2>5
  <2> QED  BY <1>7, <2>2, <2>3, <2>5, <2>6
<1>9. CASE DeactivateDone(a)
  <2>1. plugin' = plugin /\ op[a].at = "drain"
    BY <1>9 DEF DeactivateDone, At
  <2>2. /\ op[a].step \in 1..6 /\ (op[a].was_running \/ op[a].step = 1)
        /\ \A s \in 1..6 : s < op[a].step \/ s = op[a].step =>
             DeactivateOrder[s] \notin plugin[p].live
    BY <1>3, <2>1 DEF Progressed
  <2>3. CASE op[a].was_running /\ op[a].step < 6
    <3>1. /\ \A b \in Actors \ {a} : op'[b] = op[b]
          /\ op'[a].target = p /\ op'[a].cmd = op[a].cmd
          /\ op'[a].was_running = op[a].was_running
          /\ op'[a].at = "deactivate" /\ op'[a].step = op[a].step + 1
      BY <1>1, <1>9, <2>3 DEF DeactivateDone, TypeOK, Operation
    <3>2. \A s \in 1..6 : s < op[a].step + 1 => DeactivateOrder[s] \notin plugin[p].live
      BY <2>2
    <3> QED  BY <1>3, <1>7, <2>1, <2>2, <2>3, <3>1, <3>2
  <2>4. CASE ~(op[a].was_running /\ op[a].step < 6)
    <3>1. /\ \A b \in Actors \ {a} : op'[b] = op[b]
          /\ op'[a].target = p /\ op'[a].cmd = op[a].cmd
          /\ op'[a].was_running = op[a].was_running
          /\ op'[a].at = IF op[a].cmd = "pause" THEN "prepare" ELSE "prepare_unload"
      BY <1>1, <1>9, <2>4 DEF DeactivateDone, Goto, TypeOK, Operation
    <3>2. CASE op[a].cmd = "pause"
      <4>1. op[a].step = 6
        BY <1>2, <1>3, <2>2, <2>4, <3>2 DEF Progressed
      <4>2. "commands" \notin plugin[p].live
        BY <1>1, <1>2 DEF CallbackInv, QuietInv, Quiet, CountsOn, Layers
      <4>3. \A s \in 1..6 : DeactivateOrder[s] \notin plugin[p].live
        BY <2>2, <4>1
      <4>4. plugin[p].live = {}
        <5>1. /\ "factories" \notin plugin[p].live /\ "source2" \notin plugin[p].live
              /\ "lifecycle" \notin plugin[p].live /\ "convars" \notin plugin[p].live
              /\ "events" \notin plugin[p].live /\ "keelhook" \notin plugin[p].live
          BY <4>3 DEF DeactivateOrder
        <5> QED  BY <1>1, <4>2, <5>1 DEF PluginRecord, Layers
      <4> QED  BY <1>3, <1>7, <2>1, <3>1, <3>2, <4>4
    <3>3. CASE op[a].cmd # "pause"
      BY <1>3, <1>7, <2>1, <3>1, <3>3
    <3> QED  BY <3>2, <3>3
  <2> QED  BY <2>3, <2>4
<1>10. CASE DeactivateBusy(a)
  <2> DEFINE r == RestoredAfter(plugin[p], op[a].cmd, l)
  <2>1. r \in PluginRecord /\ r.state = plugin[p].state
    BY <1>1 DEF RestoredAfter, Restored, PluginRecord, Layers
  <2>2. op[a].at = "deactivate" /\ Abandon(a, r)
    BY <1>10 DEF DeactivateBusy, At
  <2>3. op[a].was_running \/ op[a].step = 1
    BY <1>3, <2>2 DEF Progressed
  <2>4. Silent(r) \/ Wakes(a, p)
    BY <1>5, <1>10, <2>1, <2>3, RecordRests DEF Wakes
  <2>5. Dispatched(Settled(r)) \/ LosesLayers(a, p)
    BY <1>1, <1>10, RecordRests DEF RestoredAfter, LosesLayers
  <2> HIDE DEF r
  <2> QED  BY <1>0, <2>1, <2>2, <2>4, <2>5, AbandonRests
<1>11. CASE PausePrepared(a)
  <2>1. op[a].at = "prepare" /\ op[a].cmd = "pause"
    BY <1>11 DEF PausePrepared, At
  <2>2. plugin[p].live = {} /\ plugin[p].state = "loaded"
    BY <1>2, <1>3, <2>1 DEF Progressed
  <2>3. CASE Abandon(a, Restored(plugin[p]))
    BY <1>0, <1>1, <1>6, <2>2, <2>3, RecordRests, AbandonRests
  <2>4. CASE SetRecord(p, [plugin[p] EXCEPT !.state = "paused"]) /\ Goto(a, "publish")
    <3>1. plugin'[p] = [plugin[p] EXCEPT !.state = "paused"]
      BY <1>1, <2>4 DEF SetRecord, TypeOK
    <3>2. plugin'[p].state = "paused" /\ plugin'[p].live = {} /\ ~plugin'[p].accepting
      BY <1>1, <1>3, <2>2, <3>1 DEF PluginRecord
    <3>3. SlotKeeps(a) /\ op'[a].at = "publish" /\ op'[a].cmd = "pause"
      BY <2>1, <2>4, GotoKeeps
    <3>4. Progressed(op'[a], p, plugin'[p])
      BY <3>2, <3>3 DEF Progressed, Departs
    <3>5. Silent(plugin'[p]) /\ Dispatched(plugin'[p])
      BY <3>2 DEF Silent, Dispatched
    <3> QED  BY <1>0, <1>4, <3>3, <3>4, <3>5, OwnerRests DEF SlotKeeps
  <2> QED  BY <1>11, <2>3, <2>4 DEF PausePrepared
<1>12. CASE UnloadPrepared(a)
  <2>1. CASE Goto(a, "release") /\ UNCHANGED <<plugin, services>>
    <3>1. /\ SlotKeeps(a) /\ op'[a].at = "release" /\ op'[a].target = p
          /\ op'[a].cmd = op[a].cmd
      BY <2>1, GotoKeeps
    <3>2. op'[a].was_running = op[a].was_running
      BY <1>1, <2>1 DEF Goto, TypeOK, Operation
    <3> QED  BY <1>3, <1>7, <2>1, <3>1, <3>2 DEF SlotKeeps
  <2>2. CASE Abandon(a, IF op[a].was_running THEN Restored(plugin[p]) ELSE plugin[p])
    <3>1. CASE op[a].was_running
      BY <1>0, <1>1, <1>5, <1>6, <2>2, <3>1, RecordRests, AbandonRests
    <3>2. CASE ~op[a].was_running
      <4>1. plugin[p].state = "paused"
        BY <1>3, <1>5, <3>2
      <4>2. Settled(plugin[p]).state = "paused"
        BY <1>1, <4>1 DEF Settled, PluginRecord
      <4> QED  BY <1>0, <1>1, <2>2, <3>2, <4>2, RecordRests, AbandonRests
    <3> QED  BY <3>1, <3>2
  <2> QED  BY <1>12, <2>1, <2>2 DEF UnloadPrepared
<1>13. CASE ReleaseLayer(a)
  <2>1. \E S : plugin'[p] = [plugin[p] EXCEPT !.live = @ \ S]
    BY <1>1, <1>13 DEF ReleaseLayer, SetRecord, TypeOK
  <2>2. /\ plugin'[p].live \subseteq plugin[p].live
        /\ plugin'[p].state = plugin[p].state /\ plugin'[p].transitioning
        /\ ~plugin'[p].accepting
    BY <1>1, <1>3, <2>1 DEF PluginRecord
  <2>3. op[a].at = "release"
    BY <1>13 DEF ReleaseLayer, At
  <2>4. /\ \A b \in Actors \ {a} : op'[b] = op[b]
        /\ op'[a].target = p /\ op'[a].cmd = op[a].cmd
        /\ op'[a].was_running = op[a].was_running
        /\ op'[a].at \in {"release", "unload"}
    BY <1>1, <1>13, <2>3 DEF ReleaseLayer, Goto, TypeOK, Operation
  <2> QED  BY <1>7, <2>2, <2>4
<1>14. CASE ReleaseFails(a)
  <2> DEFINE r == [plugin[p] EXCEPT !.cleanup_pending = TRUE]
  <2>1. r \in PluginRecord /\ (Silent(plugin[p]) => Silent(r)) /\ Dispatched(Settled(r))
    BY <1>1 DEF PluginRecord, Silent, Dispatched, Settled
  <2>2. ~HasLeasedPublication(p)
    BY <1>1, <1>2 DEF IInv, DepartInv, HasLeasedPublication
  <2>3. CASE Abandon(a, r)
    BY <1>0, <2>1, <2>3, AbandonRests
  <2>4. CASE op[a].was_running /\ Abandon(a, Restored(plugin[p]))
    BY <1>0, <1>1, <1>5, <1>6, <2>4, RecordRests, AbandonRests
  <2> QED  BY <1>14, <2>2, <2>3, <2>4 DEF ReleaseFails
<1>15. CASE UnloadPlugin(a)
  <2>1. /\ \E s \in {"absent", "disabled"} : plugin'[p] = Closed(s)
        /\ Goto(a, "publish_unloaded")
    BY <1>1, <1>15 DEF UnloadPlugin, SetRecord, TypeOK
  <2>2. SlotKeeps(a) /\ op'[a].at = "publish_unloaded"
    BY <2>1, GotoKeeps
  <2>3. Progressed(op'[a], p, plugin'[p])
    BY <2>2, LoadingProgress
  <2> QED  BY <1>0, <1>4, <2>1, <2>2, <2>3, RecordRests, OwnerRests DEF SlotKeeps
<1> QED  BY <1>8, <1>9, <1>10, <1>11, <1>12, <1>13, <1>14, <1>15 DEF TransitionStep

\* The first segment of a pause or an unload disables the commands of its plugin.
LEMMA CloseRests ==
  ASSUME TypeOK, IInv, ProgressInv, NEW a \in Actors, NEW p \in Plugins,
         plugin[p].state \in {"loaded", "paused"}, ~plugin[p].transitioning,
         SetRecord(p, Closing(plugin[p])),
         \A b \in Actors \ {a} : op'[b] = op[b],
         op'[a].at = "deactivate", op'[a].target = p, op'[a].step = 1,
         op'[a].was_running <=> plugin[p].state = "loaded",
         op'[a].cmd = "pause" => plugin[p].state = "loaded"
  PROVE  Rested
<1>1. plugin[p] \in PluginRecord /\ \A b \in Actors : ~Holds(op[b], p)
  BY Free DEF TypeOK
<1>2. plugin'[p] = Closing(plugin[p]) /\ \A q \in Plugins \ {p} : plugin'[q] = plugin[q]
  BY DEF SetRecord, TypeOK
<1>3. /\ plugin'[p].state = plugin[p].state /\ plugin'[p].transitioning
      /\ ~plugin'[p].accepting /\ plugin'[p].live \subseteq plugin[p].live
  BY <1>1, <1>2 DEF Closing, PluginRecord
<1>4. Progressed(op'[a], p, plugin'[p])
  BY <1>3 DEF Progressed, Departs
<1>5. (Silent(plugin[p]) => Silent(plugin'[p])) /\ Dispatched(plugin'[p])
  BY <1>3 DEF Silent, Dispatched
<1>6. \A q \in Plugins \ {p} : ~Owns(op'[a], q)
  BY DEF Owns
<1>7. RestStep(a, {p})
  BY <1>1, <1>2, <1>4, <1>5, <1>6 DEF RestStep
<1> QED  BY <1>7, RestStepRests

\* The discovery of a plugin whose image is closed.
LEMMA DiscoverRests ==
  ASSUME TypeOK, IInv, ProgressInv, NEW a \in Actors, NEW p \in Plugins,
         ~plugin[p].image, SetRecord(p, Discovered),
         \A b \in Actors \ {a} : op'[b] = op[b],
         op'[a].at = "query", op'[a].target = p
  PROVE  Rested
<1>1. \A b \in Actors : ~Holds(op[b], p)
  BY Free
<1>2. plugin'[p] = Discovered /\ \A q \in Plugins \ {p} : plugin'[q] = plugin[q]
  BY DEF SetRecord, TypeOK
<1>3. Progressed(op'[a], p, plugin'[p])
  BY LoadingProgress
<1>4. \A q \in Plugins \ {p} : ~Owns(op'[a], q)
  BY DEF Owns
<1>5. RestStep(a, {p})
  BY <1>1, <1>2, <1>3, <1>4, RecordRests DEF RestStep
<1> QED  BY <1>5, RestStepRests

\* The loads of a reload.
LEMMA ReplacementRests ==
  ASSUME TypeOK, IInv, ProgressInv, NEW a \in Actors, NEW attempt,
         op[a].target \in Plugins, LoadReplacement(a, attempt)
  PROVE  Rested
<1> DEFINE p == op[a].target
<1>1. CASE plugin[p].state \in {"absent", "disabled"}
  <2>1. ~plugin[p].image
    BY <1>1 DEF IInv, RecordInv, RecordOK
  <2>2. /\ SetRecord(p, Discovered)
        /\ \A b \in Actors \ {a} : op'[b] = op[b]
        /\ op'[a].target = p /\ op'[a].at = "query"
    BY <1>1 DEF LoadReplacement, TypeOK, Operation
  <2> QED  BY <2>1, <2>2, DiscoverRests
<1>2. CASE plugin[p].state \notin {"absent", "disabled"}
  <2>1. End(a) /\ plugin' = plugin
    BY <1>2 DEF LoadReplacement
  <2>2. SlotKeeps(a) /\ op'[a].at = "idle"
    BY <2>1, EndKeeps
  <2>3. \A q \in Plugins : ~Owns(op'[a], q)
    BY <2>2 DEF Owns, OwningPoints
  <2> QED  BY <2>1, <2>2, <2>3, LooseRests DEF SlotKeeps
<1> QED  BY <1>1, <1>2

\* Steps after an unload, and the last of a pause and a resume, which settles the mark.
LEMMA AfterStepRests ==
  ASSUME TypeOK, IInv, ProgressInv, NEW a \in Actors, AfterStep(a)
  PROVE  Rested
<1> DEFINE p == op[a].target
<1>1. op[a] \in Operation /\ OperationOK(op[a])
  BY DEF TypeOK, IInv, TargetInv
<1>2. CASE PublishDone(a)
  <2>1. op[a].at = "publish" /\ (End(a) \/ LoadEnds(a))
    BY <1>2 DEF PublishDone, At
  <2>2. SlotKeeps(a) /\ op'[a].at \in {"idle", "batch", "candidate"}
    BY <2>1, EndKeeps, LoadEndsKeeps
  <2>3. \A q \in Plugins : ~Owns(op'[a], q)
    BY <2>2 DEF Owns, OwningPoints
  <2>4. CASE op[a].cmd \in {"pause", "resume"} /\ p \in Plugins
    <3>1. plugin'[p] = Settled(plugin[p]) /\ \A q \in Plugins \ {p} : plugin'[q] = plugin[q]
      BY <1>2, <2>4 DEF PublishDone, SetRecord, TypeOK
    <3>2. /\ plugin[p] \in PluginRecord /\ \A b \in Actors \ {a} : ~Holds(op[b], p)
      BY <2>1, <2>4 DEF IInv, HoldInv, Holds, Owns, TypeOK
    <3>3. Progressed(op[a], p, plugin[p])
      BY <2>4 DEF ProgressInv
    <3>4. \/ plugin[p].state = "paused"
          \/ plugin[p].state = "loaded" /\ plugin[p].live = Layers /\ plugin[p].accepting
      BY <2>1, <2>4, <3>3 DEF Progressed
    <3>5. /\ Silent(plugin[p]) => Silent(plugin'[p])
          /\ Dispatched(plugin'[p])
      BY <3>1, <3>2, <3>4 DEF Silent, Dispatched, Settled, PluginRecord
    <3>6. Progressed(op'[a], p, plugin'[p])
      BY <2>2, LoadingProgress
    <3>7. RestStep(a, {p})
      BY <2>2, <2>3, <3>1, <3>2, <3>5, <3>6 DEF RestStep, SlotKeeps
    <3> QED  BY <2>4, <3>7, RestStepRests
  <2>5. CASE ~(op[a].cmd \in {"pause", "resume"} /\ p \in Plugins)
    <3>1. plugin' = plugin
      BY <1>2, <2>5 DEF PublishDone, SetRecord, TypeOK
    <3> QED  BY <2>2, <2>3, <3>1, LooseRests DEF SlotKeeps
  <2> QED  BY <2>4, <2>5
<1>3. ASSUME ~PublishDone(a)
      PROVE  op[a].at \in {"publish_unloaded", "candidate"} /\ p \in Plugins
             /\ (op[a].at = "candidate" => op[a].cmd = "reload")
  BY <1>1, <1>3 DEF AfterStep, At, PublishUnloadedDone, CandidateKept, CandidateUnloaded,
         CandidateDiscarded, OperationOK
<1>4. ASSUME ~PublishDone(a), End(a), plugin' = plugin
      PROVE  Rested
  <2>1. SlotKeeps(a) /\ op'[a].at = "idle"
    BY <1>4, EndKeeps
  <2>2. \A q \in Plugins : ~Owns(op'[a], q)
    BY <2>1 DEF Owns, OwningPoints
  <2> QED  BY <1>4, <2>1, <2>2, LooseRests DEF SlotKeeps
<1>5. CASE ~PublishDone(a) /\ (PublishUnloadedDone(a) \/ CandidateKept(a))
  <2>1. \/ End(a) /\ plugin' = plugin
        \/ \E n : LoadReplacement(a, n)
    BY <1>5 DEF PublishUnloadedDone, CandidateKept
  <2> QED  BY <1>3, <1>4, <1>5, <2>1, ReplacementRests
<1>6. CASE ~PublishDone(a) /\ CandidateUnloaded(a)
  <2>1. /\ plugin[p].state \in {"loaded", "paused"} /\ ~plugin[p].transitioning
        /\ SetRecord(p, Closing(plugin[p])) /\ op[a].at = "candidate"
    BY <1>6 DEF CandidateUnloaded, CanUnload, At
  <2>2. /\ \A b \in Actors \ {a} : op'[b] = op[b]
        /\ op'[a].at = "deactivate" /\ op'[a].target = p /\ op'[a].step = 1
        /\ op'[a].was_running <=> plugin[p].state = "loaded"
        /\ op'[a].cmd = op[a].cmd
    BY <1>1, <1>6 DEF CandidateUnloaded, TypeOK, Operation
  <2> QED  BY <1>3, <1>6, <2>1, <2>2, CloseRests
<1>7. CASE ~PublishDone(a) /\ CandidateDiscarded(a)
  <2>1. CASE plugin[p].state = "error" /\ ~plugin[p].image
    <3>1. /\ SetRecord(p, Discovered)
          /\ \A b \in Actors \ {a} : op'[b] = op[b]
          /\ op'[a].target = p /\ op'[a].at = "query"
      BY <1>1, <1>7, <2>1 DEF CandidateDiscarded, TypeOK, Operation
    <3> QED  BY <1>3, <1>7, <2>1, <3>1, DiscoverRests
  <2>2. CASE ~(plugin[p].state = "error" /\ ~plugin[p].image)
    BY <1>3, <1>7, <2>2, ReplacementRests DEF CandidateDiscarded
  <2> QED  BY <2>1, <2>2
<1> QED  BY <1>2, <1>5, <1>6, <1>7 DEF AfterStep

\* The beginning of an operation.
LEMMA CommandRests ==
  ASSUME TypeOK, IInv, ProgressInv, NEW a \in Actors, Command(a)
  PROVE  Rested
<1>1. ASSUME NEW c, NEW p, NEW at, Begin(a, c, p, at)
      PROVE  /\ \A b \in Actors \ {a} : op'[b] = op[b]
             /\ op'[a].at = at /\ op'[a].target = p /\ op'[a].cmd = c /\ op'[a].step = 1
             /\ op'[a].was_running <=> plugin[p].state = "loaded"
  BY <1>1 DEF Begin, TypeOK, Idle
<1>2. CASE BeginBatch(a)
  <2>1. /\ plugin' = plugin /\ \A b \in Actors \ {a} : op'[b] = op[b]
        /\ op'[a].at = "discover"
    BY <1>2 DEF BeginBatch, TypeOK, Idle
  <2>2. \A q \in Plugins : ~Owns(op'[a], q)
    BY <2>1 DEF Owns, OwningPoints
  <2> QED  BY <2>1, <2>2, LooseRests
<1>3. ASSUME NEW p \in Plugins, BeginLoad(a, p)
      PROVE  Rested
  BY <1>1, <1>3, DiscoverRests DEF BeginLoad
<1>4. ASSUME NEW p \in Plugins, BeginPause(a, p)
      PROVE  Rested
  BY <1>1, <1>4, CloseRests DEF BeginPause
<1>5. ASSUME NEW p \in Plugins, BeginUnload(a, p)
      PROVE  Rested
  BY <1>1, <1>5, CloseRests DEF BeginUnload, CanUnload
<1>6. ASSUME NEW p \in Plugins, BeginResume(a, p)
      PROVE  Rested
  <2> DEFINE r == Restored([plugin[p] EXCEPT !.state = "loaded", !.transitioning = TRUE])
  <2>1. \A b \in Actors : ~Holds(op[b], p)
    BY <1>6, Free DEF BeginResume
  <2>2. /\ plugin'[p] = r /\ plugin[p] \in PluginRecord
        /\ \A q \in Plugins \ {p} : plugin'[q] = plugin[q]
    BY <1>6 DEF BeginResume, SetRecord, TypeOK
  <2>3. plugin'[p].state = "loaded" /\ plugin'[p].live = Layers /\ plugin'[p].accepting
    BY <2>2 DEF Restored, PluginRecord
  <2>4. Silent(plugin'[p]) /\ Dispatched(plugin'[p])
    BY <2>3 DEF Silent, Dispatched
  <2>5. /\ \A b \in Actors \ {a} : op'[b] = op[b]
        /\ op'[a].at = "publish" /\ op'[a].target = p /\ op'[a].cmd = "resume"
    BY <1>1, <1>6 DEF BeginResume
  <2>6. Progressed(op'[a], p, plugin'[p])
    BY <2>3, <2>5 DEF Progressed, Departs
  <2>7. \A q \in Plugins \ {p} : ~Owns(op'[a], q)
    BY <2>5 DEF Owns
  <2>8. RestStep(a, {p})
    BY <2>1, <2>2, <2>4, <2>5, <2>6, <2>7 DEF RestStep
  <2> QED  BY <2>8, RestStepRests
<1> QED  BY <1>2, <1>3, <1>4, <1>5, <1>6 DEF Command

\* Every step rests.
LEMMA NextRests ==
  ASSUME TypeOK, IInv, CallbackInv, ProgressInv, [Next]_vars
  PROVE  Rested
<1>1. CASE UNCHANGED vars
  BY <1>1, StillRests DEF vars
<1>2. ASSUME NEW a \in Actors, Command(a) \/ Step(a)
      PROVE  Rested
  BY <1>2, CommandRests, LoadStepRests, BatchStepRests, TransitionStepRests,
     AfterStepRests DEF Step
<1>3. CASE Service
  BY <1>3, StillRests DEF Service, Publish, Withdraw, Query, Release
<1>4. ASSUME NEW t \in Threads, Callback(t)
      PROVE  Rested
  BY <1>4, StillRests DEF Callback, LeaveCallback, EnterCallback
<1> QED  BY <1>1, <1>2, <1>3, <1>4 DEF Next

\* No operation runs initially.
LEMMA InitRests == Init => ProgressInv
<1> SUFFICES ASSUME Init  PROVE ProgressInv
  OBVIOUS
<1>1. \A a \in Actors : op[a].at = "idle"
  BY DEF Init, Idle
<1> QED  BY <1>1, LoadingProgress DEF ProgressInv

\* Callbacks are explored in some layers only.
BoundedCallbacks ==
  \A t \in Threads, p \in Plugins, l \in Layers : Inside(t, p, l) => l \in CallbackLayers

\* Only the dispatch of such a layer enters a callback.
LEMMA NextBounded ==
  ASSUME TypeOK, BoundedCallbacks, [Next]_vars
  PROVE  BoundedCallbacks'
<1>1. ASSUME NoneEnters
      PROVE  BoundedCallbacks'
  BY <1>1 DEF NoneEnters, BoundedCallbacks
<1>2. ASSUME stack' = stack
      PROVE  BoundedCallbacks'
  BY <1>1, <1>2, SameStacks
<1>3. ASSUME NEW t \in Threads, NEW p \in Plugins, NEW m \in Layers, EnterCallback(t, p, m)
      PROVE  BoundedCallbacks'
  <2> SUFFICES ASSUME NEW u \in Threads, NEW q \in Plugins, NEW l \in Layers,
                      NEW i \in DOMAIN stack'[u], stack'[u][i] = <<q, l>>
               PROVE  l \in CallbackLayers
    BY DEF BoundedCallbacks, Inside
  <2>1. CASE u # t
    BY <1>3, <2>1 DEF EnterCallback, TypeOK, Inside, BoundedCallbacks
  <2>2. CASE u = t
    <3>1. stack[t] \in Seq(Frame) /\ stack'[t] = <<<<p, m>>>> \o stack[t]
      BY <1>3 DEF EnterCallback, TypeOK
    <3>2. PICK x : x = <<p, m>>
      OBVIOUS
    <3>3. stack'[t] = <<x>> \o stack[t]
      BY <3>1, <3>2
    <3> HIDE <3>2
    <3>4. \/ <<q, l>> = x
          \/ i - 1 \in DOMAIN stack[t] /\ stack[t][i - 1] = <<q, l>>
      BY <2>2, <3>1, <3>3, Pushed
    <3>5. x = <<q, l>> => l \in CallbackLayers
      BY <1>3, <3>2 DEF EnterCallback
    <3> QED  BY <2>2, <3>4, <3>5 DEF Inside, BoundedCallbacks
  <2> QED  BY <2>1, <2>2
<1>4. CASE UNCHANGED vars
  BY <1>2, <1>4 DEF vars
<1>5. ASSUME NEW a \in Actors, Command(a) \/ Step(a)
      PROVE  BoundedCallbacks'
  BY <1>1, <1>5, CommandEnters, StepEnters
<1>6. CASE Service
  BY <1>2, <1>6 DEF Service, Publish, Withdraw, Query, Release
<1>7. ASSUME NEW t \in Threads, LeaveCallback(t)
      PROVE  BoundedCallbacks'
  BY <1>1, <1>7, PopEnters DEF LeaveCallback
<1> QED  BY <1>3, <1>4, <1>5, <1>6, <1>7 DEF Next, Callback

\* Operations know how far they have come with the plugin they stop or publish: which
\* layers are disabled, and whether the plugin was running.
THEOREM ProgressInvariance == Spec => [](ProgressInv /\ BoundedCallbacks)
<1>1. Init => BoundedCallbacks
  BY DEF Init, BoundedCallbacks, Inside
<1>2. TypeOK /\ IInv /\ CallbackInv /\ ProgressInv /\ [Next]_vars => ProgressInv'
  BY NextRests DEF Rested
<1>3. TypeOK /\ BoundedCallbacks /\ [Next]_vars => BoundedCallbacks'
  BY NextBounded
<1> QED  BY <1>1, <1>2, <1>3, InitRests, Invariance, CallbackInvariance, PTL DEF Spec

\* A paused plugin is woken by a resume or by an unload that the factory service
\* refuses, which RestorePluginDispatch answers as if the plugin had been running, and by
\* no other step: pausing, a refused pause, unload or release, a reload that prepares
\* its paused replacement, and everything other operations do leave it silent.
THEOREM PausedIsWokenOnlySo == Spec => OnlyBusyUnloadWakes
<1>1. TypeOK /\ IInv /\ CallbackInv /\ ProgressInv /\ [Next]_vars =>
        [\A p \in Plugins : Silent(plugin[p]) =>
           Silent(plugin'[p]) \/ \E a \in Actors : Wakes(a, p)]_vars
  BY NextRests DEF Rested
<1> QED  BY <1>1, Invariance, CallbackInvariance, ProgressInvariance, PTL
         DEF Spec, OnlyBusyUnloadWakes

\* A running plugin that no transition works on loses layers by an unload that a Source
\* 2 callback refuses, and by no other step: every other refused pause or unload restores
\* all of them.
THEOREM RunningIsMutedOnlySo == Spec => OnlySource2BusyMutes
<1>1. TypeOK /\ IInv /\ CallbackInv /\ ProgressInv /\ [Next]_vars =>
        [\A p \in Plugins : Dispatched(plugin[p]) =>
           Dispatched(plugin'[p]) \/ \E a \in Actors : LosesLayers(a, p)]_vars
  BY NextRests DEF Rested
<1> QED  BY <1>1, Invariance, CallbackInvariance, ProgressInvariance, PTL
         DEF Spec, OnlySource2BusyMutes

\* What a layer without callbacks answers.
LEMMA NeverBusy ==
  ASSUME BoundedCallbacks, NEW a \in Actors, NEW p \in Plugins, NEW l \in Layers,
         l \notin CallbackLayers,
         l = "factories" => \A t, u \in Threads : t = u
  PROVE  ~MayBeBusy(a, p, l)
BY ThreadType DEF MayBeBusy, OwnCallback, BoundedCallbacks

\* A paused plugin that no operation works on receives nothing, when no factory callback
\* runs an operation and no other thread can be inside an interface query: all the
\* callbacks of other layers, refused operations and reloads are allowed for.
THEOREM PausedHolds ==
  ASSUME "factories" \notin CallbackLayers, \A t, u \in Threads : t = u
  PROVE  Spec => []PausedIsSilent
<1> DEFINE AllSilent == \A p \in Plugins : Silent(plugin[p])
<1>1. Init => AllSilent
  BY DEF Init, NoRecord, Silent
<1>2. ASSUME TypeOK, IInv, CallbackInv, ProgressInv, BoundedCallbacks, AllSilent, [Next]_vars
      PROVE  AllSilent'
  <2>1. ASSUME NEW a \in Actors, NEW p \in Plugins, Wakes(a, p)
        PROVE  FALSE
    <3>1. MayBeBusy(a, p, "factories")
      BY <2>1 DEF Wakes, DeactivateBusy, DeactivateOrder
    <3> QED  BY <1>2, <3>1, NeverBusy DEF Layers
  <2>2. Rested
    BY <1>2, NextRests
  <2> QED  BY <1>2, <2>1, <2>2 DEF Rested
<1>3. AllSilent => PausedIsSilent
  BY DEF Silent, PausedIsSilent
<1> HIDE DEF AllSilent
<1> QED  BY <1>1, <1>2, <1>3, Invariance, CallbackInvariance, ProgressInvariance, PTL DEF Spec

\* A running plugin that no operation works on receives everything, when no Source 2
\* callback runs an operation: for any threads, and callbacks of all other layers.
THEOREM RunningHolds ==
  ASSUME "source2" \notin CallbackLayers
  PROVE  Spec => []RunningIsFullyDispatched
<1> DEFINE AllDispatched == \A p \in Plugins : Dispatched(plugin[p])
<1>1. Init => AllDispatched
  BY DEF Init, NoRecord, Dispatched
<1>2. ASSUME TypeOK, IInv, CallbackInv, ProgressInv, BoundedCallbacks, AllDispatched,
             [Next]_vars
      PROVE  AllDispatched'
  <2>1. ASSUME NEW a \in Actors, NEW p \in Plugins, LosesLayers(a, p)
        PROVE  FALSE
    <3>1. MayBeBusy(a, p, "source2")
      BY <2>1 DEF LosesLayers, DeactivateBusy
    <3> QED  BY <1>2, <3>1, NeverBusy DEF Layers
  <2>2. Rested
    BY <1>2, NextRests
  <2> QED  BY <1>2, <2>1, <2>2 DEF Rested
<1>3. AllDispatched => RunningIsFullyDispatched
  BY DEF Dispatched, RunningIsFullyDispatched
<1> HIDE DEF AllDispatched
<1> QED  BY <1>1, <1>2, <1>3, Invariance, CallbackInvariance, ProgressInvariance, PTL DEF Spec

-----------------------------------------------------------------------------
(* Which operation runs inside which.                                      *)

\* What is on a stack stays on it, but for the operation a and callbacks that return.
AboveKept(X) == \A x, y \in Actors : Above(x, y) /\ x \notin X => Above(x, y)'

\* Where a push puts what was on the stack.
LEMMA PushPlaces ==
  ASSUME NEW S, NEW s \in Seq(S), NEW x
  PROVE  /\ DOMAIN s \subseteq Int /\ 1 \in DOMAIN (<<x>> \o s) /\ (<<x>> \o s)[1] = x
         /\ \A i \in DOMAIN s : 1 # i + 1 /\ i + 1 \in DOMAIN (<<x>> \o s)
                               /\ (<<x>> \o s)[i + 1] = s[i]
         /\ \A i \in DOMAIN (<<x>> \o s) :
              i # 1 => i - 1 \in DOMAIN s /\ (<<x>> \o s)[i] = s[i - 1] /\ i = (i - 1) + 1
<1>1. Len(s) \in Nat /\ DOMAIN s = 1..Len(s) /\ <<x>> \in Seq({x}) /\ Len(<<x>>) = 1
  BY LenProperties
<1>2. DOMAIN (<<x>> \o s) = 1..(Len(s) + 1)
  BY <1>1
<1>3. \A i \in 1..(Len(s) + 1) : (<<x>> \o s)[i] = IF i = 1 THEN x ELSE s[i - 1]
  BY <1>1
<1> QED  BY <1>1, <1>2, <1>3

\* Where a pop leaves what was below.
LEMMA PopPlaces ==
  ASSUME NEW S, NEW s \in Seq(S), s # <<>>
  PROVE  /\ DOMAIN s \subseteq Int /\ 1 \in DOMAIN s /\ Head(s) = s[1]
         /\ \A i \in DOMAIN Tail(s) : i + 1 \in DOMAIN s /\ Tail(s)[i] = s[i + 1]
                                     /\ i = (i + 1) - 1 /\ i + 1 # 1
         /\ \A i \in DOMAIN s : i # 1 => i - 1 \in DOMAIN Tail(s) /\ Tail(s)[i - 1] = s[i]
<1>1. /\ Len(s) \in Nat /\ DOMAIN s = 1..Len(s) /\ Len(s) # 0
      /\ Tail(s) \in Seq(S) /\ Len(Tail(s)) = Len(s) - 1 /\ Head(s) = s[1]
      /\ \A k \in 1..Len(Tail(s)) : Tail(s)[k] = s[k + 1]
  BY LenProperties, HeadTailProperties
<1>2. DOMAIN Tail(s) = 1..(Len(s) - 1)
  BY <1>1, LenProperties
<1> QED  BY <1>1, <1>2

\* The same operations run, on stacks nobody touched.
LEMMA SameNests ==
  ASSUME NestInv, stack' = stack,
         \A x \in Actors : op'[x].at # "idle" <=> op[x].at # "idle"
  PROVE  NestInv' /\ AboveKept({})
<1>1. NestInv'
  BY DEF NestInv
<1>2. AboveKept({})
  BY DEF AboveKept, Above
<1> QED  BY <1>1, <1>2

\* A callback or an idle operation comes on top.
LEMMA PushNests ==
  ASSUME TypeOK, NestInv, NEW t \in Threads, NEW f,
         stack' = [stack EXCEPT ![t] = <<f>> \o @],
         f \in Actors => ThreadOf[f] = t /\ op[f].at = "idle" /\ op'[f].at # "idle",
         \A x \in Actors \ {f} : op'[x].at # "idle" <=> op[x].at # "idle"
  PROVE  NestInv' /\ AboveKept({})
<1>1. stack'[t] = <<f>> \o stack[t] /\ \A u \in Threads \ {t} : stack'[u] = stack[u]
  BY DEF TypeOK
<1>2. PICK s \in Seq(Frame) : s = stack[t]
  BY DEF TypeOK
<1>3. PICK z : z = <<f>> \o s
  OBVIOUS
<1>4. /\ stack'[t] = z
      /\ DOMAIN s \subseteq Int /\ 1 \in DOMAIN z /\ z[1] = f
      /\ \A i \in DOMAIN s : 1 # i + 1 /\ i + 1 \in DOMAIN z /\ z[i + 1] = s[i]
      /\ \A i \in DOMAIN z : i # 1 => i - 1 \in DOMAIN s /\ z[i] = s[i - 1] /\ i = (i - 1) + 1
  BY <1>1, <1>2, <1>3, PushPlaces
<1> HIDE <1>3
<1>5. \A i \in DOMAIN s : s[i] # f \/ f \notin Actors
  BY <1>2 DEF NestInv
<1>6. ASSUME NEW i \in DOMAIN z, z[i] \in Actors
      PROVE  /\ ThreadOf[z[i]] = t /\ op'[z[i]].at # "idle"
             /\ \A j \in DOMAIN z : z[j] = z[i] => j = i
  <2>1. CASE i = 1
    <3>1. z[i] = f /\ f \in Actors
      BY <1>4, <1>6, <2>1
    <3>2. \A j \in DOMAIN z : j # 1 => z[j] # f
      BY <1>4, <1>5, <3>1
    <3> QED  BY <2>1, <3>1, <3>2
  <2>2. CASE i # 1
    <3>1. PICK k \in DOMAIN s : k = i - 1 /\ z[i] = s[k] /\ i = k + 1
      BY <1>4, <2>2
    <3>2. s[k] \in Actors /\ s[k] # f
      BY <1>5, <1>6, <3>1
    <3>3. /\ ThreadOf[s[k]] = t /\ op[s[k]].at # "idle"
          /\ \A j \in DOMAIN s : s[j] = s[k] => j = k
      BY <1>2, <3>2 DEF NestInv
    <3>4. ASSUME NEW j \in DOMAIN z, z[j] = z[i]
          PROVE  j = i
      <4>1. j # 1
        BY <1>4, <3>1, <3>2, <3>4
      <4>2. PICK m \in DOMAIN s : m = j - 1 /\ z[j] = s[m] /\ j = m + 1
        BY <1>4, <4>1
      <4> QED  BY <3>1, <3>3, <3>4, <4>2
    <3>5. op'[s[k]].at # "idle"
      BY <3>2, <3>3
    <3> QED  BY <3>1, <3>3, <3>4, <3>5
  <2> QED  BY <2>1, <2>2
<1>7. NestInv'
  <2>1. ASSUME NEW u \in Threads, NEW i \in DOMAIN stack'[u], stack'[u][i] \in Actors
        PROVE  /\ ThreadOf[stack'[u][i]] = u /\ op'[stack'[u][i]].at # "idle"
               /\ \A j \in DOMAIN stack'[u] : stack'[u][j] = stack'[u][i] => j = i
    <3>1. CASE u # t
      <4>1. stack'[u] = stack[u]
        BY <1>1, <3>1
      <4>2. /\ ThreadOf[stack[u][i]] = u /\ op[stack[u][i]].at # "idle"
            /\ \A j \in DOMAIN stack[u] : stack[u][j] = stack[u][i] => j = i
        BY <2>1, <4>1 DEF NestInv
      <4> QED  BY <2>1, <3>1, <4>1, <4>2
    <3>2. CASE u = t
      <4>1. stack'[u] = z
        BY <1>4, <3>2
      <4>2. i \in DOMAIN z /\ z[i] \in Actors
        BY <2>1, <4>1
      <4>3. /\ ThreadOf[z[i]] = u /\ op'[z[i]].at # "idle"
            /\ \A j \in DOMAIN z : z[j] = z[i] => j = i
        BY <1>6, <3>2, <4>2
      <4> QED  BY <4>1, <4>3
    <3> QED  BY <3>1, <3>2
  <2>2. ASSUME NEW x \in Actors, op'[x].at # "idle"
        PROVE  \E i \in DOMAIN stack'[ThreadOf[x]] : stack'[ThreadOf[x]][i] = x
    <3>1. CASE x = f
      BY <1>4, <3>1
    <3>2. CASE x # f
      <4>1. PICK i \in DOMAIN stack[ThreadOf[x]] : stack[ThreadOf[x]][i] = x
        BY <2>2, <3>2 DEF NestInv
      <4>2. CASE ThreadOf[x] # t
        BY <1>1, <4>1, <4>2, ThreadType
      <4>3. CASE ThreadOf[x] = t
        <5>1. \E k \in DOMAIN z : z[k] = x
          BY <1>2, <1>4, <4>1, <4>3
        <5> QED  BY <1>4, <4>3, <5>1
      <4> QED  BY <4>2, <4>3
    <3> QED  BY <3>1, <3>2
  <2> QED  BY <2>1, <2>2 DEF NestInv
<1>8. ASSUME NEW x \in Actors, NEW y \in Actors, Above(x, y)
      PROVE  Above(x, y)'
  <2>1. CASE ThreadOf[y] # t
    BY <1>1, <1>8, <2>1, ThreadType DEF Above
  <2>2. CASE ThreadOf[y] = t
    <3>1. PICK i \in DOMAIN s, j \in DOMAIN s : i < j /\ s[i] = x /\ s[j] = y
      BY <1>2, <1>8, <2>2 DEF Above
    <3>2. i + 1 < j + 1
      BY <1>4, <3>1
    <3>3. \E k, m \in DOMAIN z : k < m /\ z[k] = x /\ z[m] = y
      BY <1>4, <3>1, <3>2
    <3>4. stack'[ThreadOf[y]] = z
      BY <1>4, <2>2
    <3> QED  BY <3>3, <3>4 DEF Above
  <2> QED  BY <2>1, <2>2
<1> QED  BY <1>7, <1>8 DEF AboveKept

\* What is on top returns.
LEMMA PopNests ==
  ASSUME TypeOK, NestInv, NEW t \in Threads, stack[t] # <<>>,
         stack' = [stack EXCEPT ![t] = Tail(@)],
         NEW f, f = Head(stack[t]), f \in Actors => op'[f].at = "idle",
         \A x \in Actors \ {f} : op'[x].at # "idle" <=> op[x].at # "idle"
  PROVE  NestInv' /\ AboveKept({f})
<1>1. stack'[t] = Tail(stack[t]) /\ \A u \in Threads \ {t} : stack'[u] = stack[u]
  BY DEF TypeOK
<1>2. PICK s \in Seq(Frame) : s = stack[t]
  BY DEF TypeOK
<1>3. PICK z : z = Tail(s)
  OBVIOUS
<1>4. /\ stack'[t] = z
      /\ DOMAIN s \subseteq Int /\ 1 \in DOMAIN s /\ s[1] = f
      /\ \A i \in DOMAIN z : i + 1 \in DOMAIN s /\ z[i] = s[i + 1] /\ i = (i + 1) - 1 /\ i + 1 # 1
      /\ \A i \in DOMAIN s : i # 1 => i - 1 \in DOMAIN z /\ z[i - 1] = s[i]
  BY <1>1, <1>2, <1>3, PopPlaces
<1> HIDE <1>3
<1>5. \A i \in DOMAIN z : z[i] # f \/ f \notin Actors
  BY <1>2, <1>4 DEF NestInv
<1>6. ASSUME NEW i \in DOMAIN z, z[i] \in Actors
      PROVE  /\ ThreadOf[z[i]] = t /\ op'[z[i]].at # "idle"
             /\ \A j \in DOMAIN z : z[j] = z[i] => j = i
  <2>1. PICK k \in DOMAIN s : k = i + 1 /\ z[i] = s[k] /\ i = k - 1
    BY <1>4
  <2>2. s[k] \in Actors /\ s[k] # f
    BY <1>5, <1>6, <2>1
  <2>3. /\ ThreadOf[s[k]] = t /\ op[s[k]].at # "idle"
        /\ \A j \in DOMAIN s : s[j] = s[k] => j = k
    BY <1>2, <2>2 DEF NestInv
  <2>4. ASSUME NEW j \in DOMAIN z, z[j] = z[i]
        PROVE  j = i
    <3>1. PICK m \in DOMAIN s : m = j + 1 /\ z[j] = s[m] /\ j = m - 1
      BY <1>4
    <3> QED  BY <2>1, <2>3, <2>4, <3>1
  <2>5. op'[s[k]].at # "idle"
    BY <2>2, <2>3
  <2> QED  BY <2>1, <2>3, <2>4, <2>5
<1>7. NestInv'
  <2>1. ASSUME NEW u \in Threads, NEW i \in DOMAIN stack'[u], stack'[u][i] \in Actors
        PROVE  /\ ThreadOf[stack'[u][i]] = u /\ op'[stack'[u][i]].at # "idle"
               /\ \A j \in DOMAIN stack'[u] : stack'[u][j] = stack'[u][i] => j = i
    <3>1. CASE u # t
      <4>1. stack'[u] = stack[u]
        BY <1>1, <3>1
      <4>2. /\ ThreadOf[stack[u][i]] = u /\ op[stack[u][i]].at # "idle"
            /\ \A j \in DOMAIN stack[u] : stack[u][j] = stack[u][i] => j = i
        BY <2>1, <4>1 DEF NestInv
      <4>3. f \in Actors => ThreadOf[f] = t
        BY <1>2, <1>4 DEF NestInv
      <4> QED  BY <2>1, <3>1, <4>1, <4>2, <4>3
    <3>2. CASE u = t
      <4>1. stack'[u] = z
        BY <1>4, <3>2
      <4>2. i \in DOMAIN z /\ z[i] \in Actors
        BY <2>1, <4>1
      <4>3. /\ ThreadOf[z[i]] = u /\ op'[z[i]].at # "idle"
            /\ \A j \in DOMAIN z : z[j] = z[i] => j = i
        BY <1>6, <3>2, <4>2
      <4> QED  BY <4>1, <4>3
    <3> QED  BY <3>1, <3>2
  <2>2. ASSUME NEW x \in Actors, op'[x].at # "idle"
        PROVE  \E i \in DOMAIN stack'[ThreadOf[x]] : stack'[ThreadOf[x]][i] = x
    <3>1. x # f
      BY <2>2
    <3>2. PICK i \in DOMAIN stack[ThreadOf[x]] : stack[ThreadOf[x]][i] = x
      BY <2>2, <3>1 DEF NestInv
    <3>3. CASE ThreadOf[x] # t
      BY <1>1, <3>2, <3>3, ThreadType
    <3>4. CASE ThreadOf[x] = t
      <4>1. i \in DOMAIN s /\ s[i] = x
        BY <1>2, <3>2, <3>4
      <4>2. i # 1
        BY <1>4, <3>1, <4>1
      <4>3. i - 1 \in DOMAIN z /\ z[i - 1] = x
        BY <1>4, <4>1, <4>2
      <4> QED  BY <1>4, <3>4, <4>3
    <3> QED  BY <3>3, <3>4
  <2> QED  BY <2>1, <2>2 DEF NestInv
<1>8. ASSUME NEW x \in Actors, NEW y \in Actors, Above(x, y), x # f
      PROVE  Above(x, y)'
  <2>1. CASE ThreadOf[y] # t
    BY <1>1, <1>8, <2>1, ThreadType DEF Above
  <2>2. CASE ThreadOf[y] = t
    <3>1. PICK i \in DOMAIN s, j \in DOMAIN s : i < j /\ s[i] = x /\ s[j] = y
      BY <1>2, <1>8, <2>2 DEF Above
    <3>2. i # 1
      BY <1>4, <1>8, <3>1
    <3>3. j # 1
      <4> SUFFICES ASSUME j = 1  PROVE FALSE
        OBVIOUS
      <4>1. y = f
        BY <1>4, <3>1
      <4>2. i \in Int /\ i < 1
        BY <1>4, <3>1
      <4>3. i \in 1..Len(s)
        BY <3>1, LenProperties
      <4> QED  BY <4>2, <4>3
    <3>4. i - 1 < j - 1
      BY <1>4, <3>1
    <3>5. \E k, m \in DOMAIN z : k < m /\ z[k] = x /\ z[m] = y
      BY <1>4, <3>1, <3>2, <3>3, <3>4
    <3>6. stack'[ThreadOf[y]] = z
      BY <1>4, <2>2
    <3> QED  BY <3>5, <3>6 DEF Above
  <2> QED  BY <2>1, <2>2
<1> QED  BY <1>7, <1>8 DEF AboveKept

\* An operation that takes a step is innermost on its thread; it stays there or ends.
LEMMA StepSlot ==
  ASSUME TypeOK, NEW a \in Actors, Step(a)
  PROVE  /\ op[a].at # "idle"
         /\ stack[ThreadOf[a]] # <<>> /\ Head(stack[ThreadOf[a]]) = a
         /\ \A b \in Actors \ {a} : op'[b] = op[b]
         /\ \/ stack' = stack /\ op'[a].at # "idle"
            \/ End(a)
<1>1. op[a] \in Operation /\ op \in [Actors -> Operation]
  BY DEF TypeOK
<1>2. /\ op[a].at # "idle"
      /\ stack[ThreadOf[a]] # <<>> /\ Head(stack[ThreadOf[a]]) = a
  BY DEF Step, LoadStep, BatchStep, TransitionStep, AfterStep, At, QueryRejected,
         QueryAccepted, StartPlugin, RejectUnstartedPlugin, LoadSucceeds, LoadFails,
         ReplacementPrepared, ReplacementUnloadPrepared, RollbackLayer, RollbackDone,
         DiscoverPlugin, StartDiscovered, DiscoveryDone, RejectCycle, BatchDone, Deactivate,
         DeactivateDone, DeactivateBusy, PausePrepared, UnloadPrepared, ReleaseLayer,
         ReleaseFails, UnloadPlugin, PublishDone, PublishUnloadedDone, CandidateKept,
         CandidateUnloaded, CandidateDiscarded
<1>3. ASSUME NEW at, Goto(a, at), at # "idle"
      PROVE  (\A b \in Actors \ {a} : op'[b] = op[b]) /\ stack' = stack /\ op'[a].at # "idle"
  BY <1>3, GotoKeeps DEF SlotKeeps, Goto
<1>4. End(a) => \A b \in Actors \ {a} : op'[b] = op[b]
  BY EndKeeps DEF SlotKeeps
<1>5. ASSUME LoadEnds(a)
      PROVE  /\ \A b \in Actors \ {a} : op'[b] = op[b]
             /\ (stack' = stack /\ op'[a].at # "idle") \/ End(a)
  BY <1>3, <1>4, <1>5 DEF LoadEnds
<1>6. CASE LoadStep(a)
  <2>1. CASE RollbackLayer(a) /\ ~LastLayer(a)
    <3>1. PICK g \in BOOLEAN : op' = [op EXCEPT ![a].step = @ + 1, ![a].failed = g]
                               /\ stack' = stack
      BY <1>1, <2>1 DEF RollbackLayer, Operation
    <3>2. op'[a].at = op[a].at /\ \A b \in Actors \ {a} : op'[b] = op[b]
      BY <1>1, <3>1 DEF Operation
    <3> QED  BY <1>2, <3>1, <3>2
  <2>2. CASE RollbackLayer(a) /\ LastLayer(a)
    <3>1. LoadEnds(a) \/ Goto(a, "cleanup")
      BY <2>2 DEF RollbackLayer
    <3> QED  BY <1>2, <1>3, <1>5, <3>1
  <2>3. CASE QueryAccepted(a)
    <3>1. \/ Goto(a, "start")
          \/ /\ op' = [op EXCEPT ![a].at = "discover", ![a].batch = @ \cup {op[a].target}]
             /\ stack' = stack
      BY <2>3 DEF QueryAccepted
    <3>2. ASSUME op' = [op EXCEPT ![a].at = "discover", ![a].batch = @ \cup {op[a].target}]
          PROVE  op'[a].at = "discover" /\ \A b \in Actors \ {a} : op'[b] = op[b]
      BY <1>1, <3>2 DEF Operation
    <3> QED  BY <1>2, <1>3, <3>1, <3>2
  <2>4. CASE ~RollbackLayer(a) /\ ~QueryAccepted(a)
    <3>1. \/ LoadEnds(a)
          \/ \E at : at # "idle" /\ Goto(a, at)
      BY <1>6, <2>4 DEF LoadStep, QueryRejected, StartPlugin, RejectUnstartedPlugin,
             LoadSucceeds, LoadFails, ReplacementPrepared, ReplacementUnloadPrepared,
             RollbackDone
    <3> QED  BY <1>2, <1>3, <1>5, <3>1
  <2> QED  BY <2>1, <2>2, <2>3, <2>4
<1>7. CASE BatchStep(a)
  <2>1. stack' = stack
    BY <1>7 DEF BatchStep, Goto, DiscoverPlugin, StartDiscovered, DiscoveryDone,
                RejectCycle, BatchDone
  <2>2. CASE \E p \in Plugins : DiscoverPlugin(a, p)
    <3>1. /\ \A b \in Actors \ {a} : op'[b] = op[b]
          /\ op'[a].at \in {op[a].at, "query"}
      BY <1>1, <2>2 DEF DiscoverPlugin, Operation
    <3> QED  BY <1>2, <2>1, <3>1
  <2>3. CASE \E p \in Plugins : StartDiscovered(a, p)
    <3>1. /\ \A b \in Actors \ {a} : op'[b] = op[b]
          /\ op'[a].at \in {op[a].at, "load"}
      BY <1>1, <2>3 DEF StartDiscovered, Operation
    <3> QED  BY <1>2, <2>1, <3>1
  <2>4. CASE DiscoveryDone(a)
    BY <1>2, <1>3, <2>4 DEF DiscoveryDone
  <2>5. CASE RejectCycle(a) \/ BatchDone(a)
    <3>1. /\ \A b \in Actors \ {a} : op'[b] = op[b]
          /\ op'[a].at \in {op[a].at, "publish"}
      BY <1>1, <2>5 DEF RejectCycle, BatchDone, Operation
    <3> QED  BY <1>2, <2>1, <3>1
  <2> QED  BY <1>7, <2>2, <2>3, <2>4, <2>5 DEF BatchStep
<1>8. CASE TransitionStep(a)
  <2>1. CASE Deactivate(a) \/ DeactivateDone(a) \/ ReleaseLayer(a)
    <3>1. stack' = stack
      BY <2>1 DEF Goto, Deactivate, DeactivateDone, ReleaseLayer
    <3>2. /\ \A b \in Actors \ {a} : op'[b] = op[b]
          /\ op'[a].at \in {op[a].at, "drain", "deactivate", "prepare", "prepare_unload", "unload"}
      BY <1>1, <2>1 DEF Goto, Deactivate, DeactivateDone, ReleaseLayer, Operation
    <3> QED  BY <1>2, <3>1, <3>2
  <2>2. CASE ~(Deactivate(a) \/ DeactivateDone(a) \/ ReleaseLayer(a))
    <3>1. \/ End(a)
          \/ \E at : at # "idle" /\ Goto(a, at)
      BY <1>8, <2>2 DEF TransitionStep, Abandon, DeactivateBusy, PausePrepared,
             UnloadPrepared, ReleaseFails, UnloadPlugin
    <3> QED  BY <1>2, <1>3, <1>4, <3>1
  <2> QED  BY <2>1, <2>2
<1>9. CASE AfterStep(a)
  <2>1. ASSUME NEW n, LoadReplacement(a, n)
        PROVE  /\ \A b \in Actors \ {a} : op'[b] = op[b]
               /\ (stack' = stack /\ op'[a].at # "idle") \/ End(a)
    BY <1>1, <1>4, <2>1 DEF LoadReplacement, Operation
  <2>2. CASE \/ CandidateUnloaded(a)
             \/ CandidateDiscarded(a) /\ stack' = stack
    BY <1>1, <1>2, <2>1, <2>2 DEF CandidateUnloaded, CandidateDiscarded, Operation
  <2>3. CASE \/ PublishDone(a) \/ PublishUnloadedDone(a) \/ CandidateKept(a)
             \/ CandidateDiscarded(a) /\ stack' # stack
    BY <1>2, <1>4, <1>5, <2>1, <2>3 DEF PublishDone, PublishUnloadedDone, CandidateKept,
       CandidateDiscarded
  <2> QED  BY <1>9, <2>2, <2>3 DEF AfterStep
<1> QED  BY <1>6, <1>7, <1>8, <1>9 DEF Step

\* The nesting after the next segment of an operation.
LEMMA StepNests ==
  ASSUME TypeOK, NestInv, NEW a \in Actors, Step(a)
  PROVE  /\ NestInv' /\ AboveKept({a})
         /\ \A x \in Actors : ~Above(x, a)
         /\ \A b \in Actors \ {a} : op'[b].at # "idle" /\ ThreadOf[b] = ThreadOf[a] /\ op'[a].at # "idle" =>
              Above(a, b)'
<1>1. /\ op[a].at # "idle"
      /\ stack[ThreadOf[a]] # <<>> /\ Head(stack[ThreadOf[a]]) = a
      /\ \A b \in Actors \ {a} : op'[b] = op[b]
      /\ \/ stack' = stack /\ op'[a].at # "idle"
         \/ End(a)
  BY StepSlot
<1>2. NestInv' /\ AboveKept({a})
  <2>1. CASE stack' = stack /\ op'[a].at # "idle"
    BY <1>1, <2>1, SameNests DEF AboveKept
  <2>2. CASE End(a)
    <3>1. op'[a].at = "idle"
      BY <2>2, EndKeeps
    <3>2. stack' = [stack EXCEPT ![ThreadOf[a]] = Tail(@)]
      BY <2>2 DEF End
    <3> QED  BY <1>1, <3>1, <3>2, ThreadType, PopNests
  <2> QED  BY <1>1, <2>1, <2>2
<1>3. PICK s \in Seq(Frame) : s = stack[ThreadOf[a]]
  BY ThreadType DEF TypeOK
<1>4. 1 \in DOMAIN s /\ s[1] = a /\ DOMAIN s = 1..Len(s) /\ Len(s) \in Nat
  BY <1>1, <1>3, PopPlaces, LenProperties
<1>5. \A j \in DOMAIN s : s[j] = a => j = 1
  BY <1>3, <1>4, ThreadType DEF NestInv
<1>6. ASSUME NEW x \in Actors, Above(x, a)
      PROVE  FALSE
  <2>1. PICK i \in DOMAIN s, j \in DOMAIN s : i < j /\ s[j] = a
    BY <1>3, <1>6 DEF Above
  <2> QED  BY <1>4, <1>5, <2>1
<1>7. ASSUME NEW b \in Actors \ {a}, op'[b].at # "idle", ThreadOf[b] = ThreadOf[a], op'[a].at # "idle"
      PROVE  Above(a, b)'
  <2>1. stack' = stack
    BY <1>1, <1>7, EndKeeps
  <2>2. PICK j \in DOMAIN s : s[j] = b
    BY <1>1, <1>3, <1>7 DEF NestInv
  <2>3. 1 < j
    BY <1>4, <2>2
  <2>4. stack'[ThreadOf[b]] = s
    BY <1>3, <1>7, <2>1
  <2>5. \E i, k \in DOMAIN s : i < k /\ s[i] = a /\ s[k] = b
    BY <1>4, <2>2, <2>3
  <2> QED  BY <2>4, <2>5 DEF Above
<1> QED  BY <1>2, <1>6, <1>7

-----------------------------------------------------------------------------
(* Which images are relied on.                                             *)

\* No plugin that is running, paused or being loaded depends on q.
Unneeded(q) == \A p \in Plugins : q \in Deps[p] => ~Relies(p)

\* What operation a may do to the record of q, which it holds.
ImageRecord(a, q) ==
  /\ Installed(q) /\ plugin'[q].state \notin {"loaded", "paused"} => Unneeded(q)
  /\ ~Installed(q) /\ plugin'[q].state \in {"loaded", "paused"} =>
       DependenciesReady(q) \/ (Loads(a, q) /\ op[a].at = "prepare")
  /\ op'[a].target = q /\ op'[a].at \in {"load", "prepare"} =>
       \/ DependenciesReady(q) \/ Installed(q)
       \/ /\ op[a].at = "batch" /\ op[a].cmd = "batch" /\ op'[a].at = "load"
          /\ \A d \in Deps[q] : Installed(d)
  /\ plugin'[q].loading => op'[a].target = q /\ op'[a].at = "load"
  /\ Departs(op'[a], q, plugin'[q]) /\ op'[a].cmd # "pause" =>
       (Departs(op[a], q, plugin[q]) /\ op[a].cmd # "pause") \/ Unneeded(q)

\* Slot a writes the records of the plugins in S, which are its own.
ImageStep(a, S) ==
  /\ \A b \in Actors \ {a} : op'[b] = op[b] /\ \A q \in S : ~Holds(op[b], q)
  /\ \A q \in Plugins \ S : plugin'[q] = plugin[q] /\ ~Owns(op[a], q) /\ ~Owns(op'[a], q)
  /\ \A q \in S : /\ ImageRecord(a, q)
                  /\ S = {q} \/ (~Installed(q) /\ ~Owns(op'[a], q))
  /\ CommandOK(op'[a], Kind[a])

\* Slot a is innermost on its thread, or not on it.
Innermost(a) ==
  /\ AboveKept({a}) /\ \A x \in Actors : ~Above(x, a)
  /\ op[a].at # "idle" /\ op'[a].at # "idle" =>
       \A b \in Actors \ {a} : op'[b].at # "idle" /\ ThreadOf[b] = ThreadOf[a] => Above(a, b)'

\* Nobody needs what the innermost operation of its thread unloads.
LEMMA UnloadUnneeded ==
  ASSUME ClosingInv, NEW a \in Actors, \A x \in Actors : ~Above(x, a),
         NEW d \in Plugins, Departs(op[a], d, plugin[d]), op[a].cmd # "pause"
  PROVE  Unneeded(d)
BY DEF ClosingInv, Unneeded, Relies

\* Nobody needs what may be unloaded.
LEMMA CanUnloadUnneeded ==
  ASSUME IInv, NEW p \in Plugins, CanUnload(p)
  PROVE  Unneeded(p)
<1> SUFFICES ASSUME NEW q \in Plugins, p \in Deps[q], Relies(q)  PROVE FALSE
  BY DEF Unneeded
<1>1. q # p
  BY ConstantsAssumption DEF ConstantsAssumption
<1>2. plugin[q].image => Querying(q)
  BY <1>1 DEF CanUnload, HasRunningDependent
<1>3. ASSUME NEW b \in Actors, op[b].at = "query", op[b].target = q
      PROVE  plugin[q].state = "error" /\ \A x \in Actors \ {b} : ~Holds(op[x], q)
  <2>1. Owns(op[b], q)
    BY <1>3 DEF Owns, OwningPoints
  <2> QED  BY <1>3, <2>1 DEF IInv, HoldInv, Holds, Consistent
<1>4. CASE Installed(q)
  BY <1>2, <1>3, <1>4 DEF Installed, IInv, RecordInv, RecordOK, Querying
<1>5. ASSUME NEW x \in Actors, Loads(x, q)
      PROVE  FALSE
  <2>1. Holds(op[x], q) /\ op[x].at # "query"
    BY <1>5 DEF Loads, Holds, Owns, OwningPoints
  <2>2. plugin[q].image
    BY <2>1 DEF IInv, HoldInv, Consistent
  <2> QED  BY <1>2, <1>3, <2>1, <2>2 DEF Querying
<1> QED  BY <1>4, <1>5 DEF Relies

\* A record whose holder does not run the load callback is not marked as loading.
LEMMA NotLoading ==
  ASSUME IInv, RelyInv, NEW p \in Plugins
  PROVE  /\ (\A b \in Actors : ~Holds(op[b], p)) => ~plugin[p].loading
         /\ \A a \in Actors : Holds(op[a], p) /\ op[a].at # "load" => ~plugin[p].loading
<1>1. ASSUME plugin[p].loading
      PROVE  \E b \in Actors : op[b].at = "load" /\ Holds(op[b], p)
  BY <1>1 DEF RelyInv, Holds, Owns, OwningPoints
<1> QED  BY <1>1 DEF IInv, HoldInv

\* Such a step keeps what is relied on loaded or paused.
LEMMA ImageStepRelies ==
  ASSUME RelyInv, NEW a \in Actors, NEW S \in SUBSET Plugins, ImageStep(a, S)
  PROVE  RelyInv'
<1>1. ASSUME NEW d \in Plugins, Installed(d), plugin'[d].state \notin {"loaded", "paused"}
      PROVE  Unneeded(d) /\ S = {d}
  <2>1. d \in S
    BY <1>1 DEF ImageStep, Installed
  <2> QED  BY <1>1, <2>1 DEF ImageStep, ImageRecord
<1>2. ASSUME NEW p \in Plugins, NEW b \in Actors, op'[b].target = p, op'[b].at \in {"load", "prepare"}
      PROVE  IF p \in S THEN b = a ELSE Loads(b, p)
  <2>1. Owns(op'[b], p)
    BY <1>2 DEF Owns, OwningPoints
  <2> QED  BY <1>2, <2>1 DEF ImageStep, Loads, Holds
<1>3. ASSUME NEW p \in Plugins,
             \/ plugin'[p].state \in {"loaded", "paused"}
             \/ \E b \in Actors : op'[b].target = p /\ op'[b].at \in {"load", "prepare"},
             NEW d \in Deps[p]
      PROVE  Installed(d) /\ p # d /\ (p \in S \/ Relies(p))
  <2>1. p # d
    BY <1>3, ConstantsAssumption DEF ConstantsAssumption
  <2>2. CASE p \notin S
    BY <1>2, <1>3, <2>1, <2>2 DEF ImageStep, Relies, Installed, RelyInv
  <2>3. CASE p \in S
    <3>1. ImageRecord(a, p)
      BY <2>3 DEF ImageStep
    <3>2. Relies(p) \/ DependenciesReady(p) \/ \A e \in Deps[p] : Installed(e)
      BY <1>2, <1>3, <2>3, <3>1 DEF ImageRecord, Relies, Installed
    <3> QED  BY <1>3, <2>1, <2>3, <3>2 DEF RelyInv, DependenciesReady, Installed
  <2> QED  BY <2>2, <2>3
<1>4. ASSUME NEW p \in Plugins,
             \/ plugin'[p].state \in {"loaded", "paused"}
             \/ \E b \in Actors : op'[b].target = p /\ op'[b].at \in {"load", "prepare"},
             NEW d \in Deps[p]
      PROVE  plugin'[d].state \in {"loaded", "paused"}
  <2>1. Installed(d) /\ p # d /\ (p \in S \/ Relies(p)) /\ d \in Plugins
    BY <1>3, <1>4, ConstantsAssumption DEF ConstantsAssumption
  <2> QED  BY <1>1, <1>4, <2>1 DEF Unneeded
<1>5. ASSUME NEW p \in Plugins, plugin'[p].loading
      PROVE  \E b \in Actors : op'[b].target = p /\ op'[b].at = "load"
  <2>1. CASE p \in S
    BY <1>5, <2>1 DEF ImageStep, ImageRecord
  <2>2. CASE p \notin S
    <3>1. PICK b \in Actors : op[b].target = p /\ op[b].at = "load"
      BY <1>5, <2>2 DEF ImageStep, RelyInv
    <3>2. b # a
      BY <2>2, <3>1 DEF ImageStep, Owns, OwningPoints
    <3> QED  BY <3>1, <3>2 DEF ImageStep
  <2> QED  BY <2>1, <2>2
<1> QED  BY <1>4, <1>5 DEF RelyInv, Relies, Installed, Loads

\* Such a step keeps what is being unloaded unneeded.
LEMMA ImageStepCloses ==
  ASSUME OneCommandThread, TypeOK, IInv, CommandsInv, ClosingInv,
         NEW a \in Actors, NEW S \in SUBSET Plugins, ImageStep(a, S), Innermost(a)
  PROVE  ClosingInv'
<1>1. ASSUME NEW d \in Plugins, Departs(op'[a], d, plugin'[d]), op'[a].cmd # "pause",
             NEW p \in Plugins, d \in Deps[p]
      PROVE  /\ plugin'[p].state \notin {"loaded", "paused"}
             /\ \A x \in Actors : ~(op'[x].target = p /\ op'[x].at \in {"load", "prepare"})
  <2>1. Owns(op'[a], d) /\ p # d
    BY <1>1, DepartsOwns, ConstantsAssumption DEF ConstantsAssumption
  <2>2. d \in S /\ S = {d}
    BY <2>1 DEF ImageStep
  <2>3. Unneeded(d)
    <3>1. ImageRecord(a, d)
      BY <2>2 DEF ImageStep
    <3>2. (Departs(op[a], d, plugin[d]) /\ op[a].cmd # "pause") \/ Unneeded(d)
      BY <1>1, <3>1 DEF ImageRecord
    <3> QED  BY <3>2, UnloadUnneeded DEF Innermost
  <2>4. ~Installed(p) /\ \A x \in Actors : ~Loads(x, p)
    BY <1>1, <2>3 DEF Unneeded, Relies
  <2>5. plugin'[p] = plugin[p] /\ ~Owns(op'[a], p) /\ \A x \in Actors \ {a} : op'[x] = op[x]
    BY <2>1, <2>2 DEF ImageStep
  <2>6. ~(op'[a].target = p /\ op'[a].at \in {"load", "prepare"})
    BY <2>5 DEF Owns, OwningPoints
  <2> QED  BY <2>4, <2>5, <2>6 DEF Installed, Loads
<1>2. ASSUME NEW b \in Actors \ {a}, NEW d \in Plugins,
             Departs(op'[b], d, plugin'[d]), op'[b].cmd # "pause",
             NEW p \in Plugins, d \in Deps[p]
      PROVE  /\ plugin'[p].state \notin {"loaded", "paused"}
             /\ \A x \in Actors : op'[x].target = p /\ op'[x].at \in {"load", "prepare"} =>
                  op'[x].at = "load" /\ Above(x, b)'
  <2>1. op'[b] = op[b] /\ Holds(op[b], d)
    BY <1>2, DepartsOwns DEF ImageStep, Holds
  <2>2. d \notin S /\ plugin'[d] = plugin[d]
    BY <2>1 DEF ImageStep
  <2>3. Departs(op[b], d, plugin[d]) /\ op[b].cmd # "pause"
    BY <1>2, <2>1, <2>2
  <2>4. /\ ~Installed(p)
        /\ \A x \in Actors : Loads(x, p) => op[x].at = "load" /\ Above(x, b)
    BY <1>2, <2>3 DEF ClosingInv
  <2>5. plugin[d].transitioning
    BY <2>1, <2>3, DepartsOwns DEF IInv, HoldInv, Consistent
  <2>6. ~DependenciesReady(p)
    BY <1>2, <2>5 DEF DependenciesReady
  <2>7. plugin'[p].state \notin {"loaded", "paused"}
    <3>1. CASE p \notin S
      BY <2>4, <3>1 DEF ImageStep, Installed
    <3>2. CASE p \in S
      <4>1. ImageRecord(a, p)
        BY <3>2 DEF ImageStep
      <4> QED  BY <2>4, <2>6, <4>1 DEF ImageRecord
    <3> QED  BY <3>1, <3>2
  <2>8. ASSUME NEW x \in Actors \ {a}, op'[x].target = p, op'[x].at \in {"load", "prepare"}
        PROVE  op'[x].at = "load" /\ Above(x, b)'
    <3>1. op'[x] = op[x]
      BY DEF ImageStep
    <3>2. Loads(x, p)
      BY <2>8, <3>1 DEF Loads
    <3> QED  BY <2>4, <3>1, <3>2 DEF Innermost, AboveKept
  <2>9. ASSUME op'[a].target = p, op'[a].at \in {"load", "prepare"}
        PROVE  op'[a].at = "load" /\ Above(a, b)'
    <3>1. p \in S
      BY <2>9 DEF ImageStep, Owns, OwningPoints
    <3>2. ImageRecord(a, p)
      BY <3>1 DEF ImageStep
    <3>3. op[a].at = "batch" /\ op[a].cmd = "batch" /\ op'[a].at = "load"
      BY <2>4, <2>6, <2>9, <3>2 DEF ImageRecord
    <3>4. op[b].at # "idle" /\ op[b].cmd \notin {"pause", "resume"}
      <4>1. op[b].at # "idle" /\ op[b].at # "publish"
        BY <2>3 DEF Departs
      <4> QED  BY <2>3, <4>1 DEF CommandsInv, CommandOK
    <3>5. Kind[b] # "api" /\ Kind[a] # "api"
      <4>1. op[a].cmd \in CommandsOf(Kind[a]) /\ op[b].cmd \in CommandsOf(Kind[b])
        BY <3>3, <3>4 DEF CommandsInv, CommandOK
      <4> QED  BY <3>3, <3>4, <4>1 DEF CommandsOf
    <3>6. ThreadOf[a] = ThreadOf[b]
      BY <3>5 DEF OneCommandThread
    <3> QED  BY <2>1, <3>3, <3>4, <3>6 DEF Innermost
  <2> QED  BY <2>7, <2>8, <2>9
<1> QED  BY <1>1, <1>2 DEF ClosingInv, Installed, Loads, Departs

\* Such a step keeps the commands of the slots.
LEMMA ImageStepCommands ==
  ASSUME CommandsInv, NEW a \in Actors, NEW S \in SUBSET Plugins, ImageStep(a, S)
  PROVE  CommandsInv'
BY DEF ImageStep, CommandsInv, CommandOK

\* What the actions of a slot keep beside the nesting.
Kept == RelyInv' /\ ClosingInv' /\ CommandsInv'

\* All of it together.
LEMMA ImageStepKeeps ==
  ASSUME OneCommandThread, TypeOK, IInv, ImageInv,
         NEW a \in Actors, NEW S \in SUBSET Plugins, ImageStep(a, S), Innermost(a)
  PROVE  Kept
BY ImageStepRelies, ImageStepCloses, ImageStepCommands DEF ImageInv, Kept

\* An operation that owns nothing, before and after, writes nothing.
LEMMA LooseKeeps ==
  ASSUME OneCommandThread, TypeOK, IInv, ImageInv,
         NEW a \in Actors, Innermost(a), plugin' = plugin,
         \A b \in Actors \ {a} : op'[b] = op[b],
         \A q \in Plugins : ~Owns(op[a], q) /\ ~Owns(op'[a], q),
         CommandOK(op'[a], Kind[a])
  PROVE  Kept
<1>1. ImageStep(a, {})
  BY DEF ImageStep
<1> QED  BY <1>1, ImageStepKeeps

\* An operation that owns its plugin writes no other record.
LEMMA OwnerKeeps ==
  ASSUME OneCommandThread, TypeOK, IInv, ImageInv,
         NEW a \in Actors, Innermost(a), op[a].at \in OwningPoints,
         NEW p, p = op[a].target,
         \A b \in Actors \ {a} : op'[b] = op[b],
         op'[a].target \in {p, NoPlugin},
         \A q \in Plugins \ {p} : plugin'[q] = plugin[q],
         CommandOK(op'[a], Kind[a]), ImageRecord(a, p)
  PROVE  Kept
<1>1. p \in Plugins /\ \A b \in Actors \ {a} : ~Holds(op[b], p)
  BY Owned
<1>2. \A q \in Plugins \ {p} : ~Owns(op'[a], q) /\ ~Owns(op[a], q)
  BY ConstantsAssumption DEF Owns, ConstantsAssumption
<1>3. ImageStep(a, {p})
  BY <1>1, <1>2 DEF ImageStep
<1> QED  BY <1>1, <1>3, ImageStepKeeps

\* The beginning of an operation, or of an attempt, on a plugin that nobody holds.
LEMMA TakeKeeps ==
  ASSUME OneCommandThread, TypeOK, IInv, ImageInv,
         NEW a \in Actors, Innermost(a), NEW p \in Plugins,
         \A b \in Actors : ~Holds(op[b], p),
         \A q \in Plugins : ~Owns(op[a], q),
         \A b \in Actors \ {a} : op'[b] = op[b], op'[a].target = p,
         \A q \in Plugins \ {p} : plugin'[q] = plugin[q],
         CommandOK(op'[a], Kind[a]), ImageRecord(a, p)
  PROVE  Kept
<1>1. \A q \in Plugins \ {p} : ~Owns(op'[a], q)
  BY DEF Owns
<1>2. ImageStep(a, {p})
  BY <1>1 DEF ImageStep
<1> QED  BY <1>2, ImageStepKeeps

\* An operation keeps its command; the points of a pause and of a resume are few.
LEMMA CommandKept ==
  ASSUME CommandsInv, NEW a \in Actors, op[a].at # "idle",
         op'[a].at # "idle" => op'[a].cmd = op[a].cmd,
         op[a].cmd = "pause" => op'[a].at \in {"idle", "deactivate", "drain", "prepare", "publish"},
         op[a].cmd = "resume" => op'[a].at \in {"idle", "publish"}
  PROVE  CommandOK(op'[a], Kind[a])
BY DEF CommandsInv, CommandOK

\* What is neither loaded nor paused before and after needs no dependency.
LEMMA RestingImage ==
  ASSUME NEW a \in Actors, NEW p \in Plugins, ~Installed(p),
         plugin'[p].state \notin {"loaded", "paused"}, ~plugin'[p].loading,
         op'[a].at \notin {"load", "prepare", "deactivate", "drain", "release", "unload"},
         op'[a].at = "prepare_unload" => plugin'[p].state = "error"
  PROVE  ImageRecord(a, p)
BY DEF ImageRecord, Departs

\* The end of a load keeps the command.
LEMMA LoadEndsCommand ==
  ASSUME TypeOK, CommandsInv, NEW a \in Actors, op[a].at # "idle", LoadEnds(a)
  PROVE  CommandOK(op'[a], Kind[a])
<1>1. op'[a].at # "idle" => op'[a].cmd = op[a].cmd
  BY GotoKeeps, EndKeeps DEF LoadEnds
<1>2. op[a].cmd \in {"pause", "resume"} => op'[a].at = "idle"
  BY EndKeeps DEF LoadEnds
<1> QED  BY <1>1, <1>2, CommandKept

\* Steps of a load: the load callback begins, and its plugin is loaded, with the
\* dependencies running.
LEMMA LoadStepKeeps ==
  ASSUME OneCommandThread, TypeOK, IInv, ImageInv, NEW a \in Actors, Innermost(a), LoadStep(a)
  PROVE  Kept
<1> DEFINE p == op[a].target
<1>0. op[a].at \in OwningPoints
  BY DEF LoadStep, OwningPoints, At, QueryRejected, QueryAccepted, StartPlugin,
         RejectUnstartedPlugin, LoadSucceeds, LoadFails, ReplacementPrepared,
         ReplacementUnloadPrepared, RollbackLayer, RollbackDone
<1>1. /\ p \in Plugins /\ op[a] \in Operation /\ plugin[p] \in PluginRecord
      /\ Owns(op[a], p) /\ Consistent(op[a], p, plugin[p]) /\ OperationOK(op[a])
  BY <1>0, Owned DEF IInv, TargetInv
<1>2. op[a].at # "load" => ~plugin[p].loading
  BY <1>1, NotLoading DEF Holds, ImageInv
<1>3. plugin[p].state \in {"error", "loading"} /\ ~Installed(p)
  BY <1>1 DEF LoadStep, At, QueryRejected, QueryAccepted, StartPlugin,
         RejectUnstartedPlugin, LoadSucceeds, LoadFails, ReplacementPrepared,
         ReplacementUnloadPrepared, RollbackLayer, RollbackDone, Consistent, Installed
<1>4. \A q \in Plugins \ {p} : plugin'[q] = plugin[q]
  BY DEF LoadStep, SetRecord, TypeOK, QueryRejected, QueryAccepted, StartPlugin,
         RejectUnstartedPlugin, LoadSucceeds, LoadFails, ReplacementPrepared,
         ReplacementUnloadPrepared, RollbackLayer, RollbackDone
<1>5. op[a].cmd \notin {"pause", "resume"} /\ op[a].at # "idle"
  <2>1. \/ op[a].at \in {"query", "start", "load", "rollback", "cleanup", "prepare_unload"}
        \/ op[a].at = "prepare" /\ op[a].cmd = "reload"
    BY DEF LoadStep, At, QueryRejected, QueryAccepted, StartPlugin,
         RejectUnstartedPlugin, LoadSucceeds, LoadFails, ReplacementPrepared,
         ReplacementUnloadPrepared, RollbackLayer, RollbackDone
  <2> QED  BY <2>1 DEF ImageInv, CommandsInv, CommandOK
<1>6. ASSUME SlotKeeps(a), CommandOK(op'[a], Kind[a]), ImageRecord(a, p)
      PROVE  Kept
  BY <1>0, <1>4, <1>6, OwnerKeeps DEF SlotKeeps
<1>7. ASSUME NEW at, Goto(a, at)
      PROVE  /\ SlotKeeps(a) /\ op'[a].target = p /\ op'[a].at = at /\ op'[a].cmd = op[a].cmd
             /\ CommandOK(op'[a], Kind[a])
  <2>1. SlotKeeps(a) /\ op'[a].target = p /\ op'[a].at = at /\ op'[a].cmd = op[a].cmd
    BY <1>7, GotoKeeps
  <2> QED  BY <1>5, <2>1, CommandKept DEF ImageInv
<1>8. ASSUME LoadEnds(a)
      PROVE  /\ SlotKeeps(a) /\ op'[a].at \in {"idle", "batch", "candidate"}
             /\ CommandOK(op'[a], Kind[a])
  BY <1>5, <1>8, LoadEndsKeeps, LoadEndsCommand DEF ImageInv
<1>9. ASSUME plugin'[p].state \notin {"loaded", "paused"}, ~plugin'[p].loading,
             \/ LoadEnds(a)
             \/ \E at : /\ Goto(a, at) /\ at \in {"discover", "start", "rollback", "cleanup", "prepare_unload"}
                        /\ at = "prepare_unload" => plugin'[p].state = "error"
      PROVE  Kept
  <2>1. SlotKeeps(a) /\ CommandOK(op'[a], Kind[a])
    BY <1>7, <1>8, <1>9
  <2>2. ImageRecord(a, p)
    BY <1>1, <1>3, <1>7, <1>8, <1>9, RestingImage
  <2> QED  BY <1>6, <2>1, <2>2
<1>10. CASE QueryRejected(a) \/ RejectUnstartedPlugin(a) \/ RollbackDone(a)
  <2>1. plugin'[p] = Closed("error") /\ (LoadEnds(a) \/ Goto(a, "discover"))
    BY <1>1, <1>10 DEF QueryRejected, RejectUnstartedPlugin, RollbackDone, SetRecord, TypeOK
  <2>2. plugin'[p].state = "error" /\ ~plugin'[p].loading
    BY <2>1 DEF Closed, NoRecord
  <2> QED  BY <1>9, <2>1, <2>2
<1>11. CASE QueryAccepted(a)
  <2>1. plugin'[p].state = "loading" /\ plugin'[p].loading = plugin[p].loading
    BY <1>1, <1>11 DEF QueryAccepted, SetRecord, TypeOK, PluginRecord
  <2>2. ~plugin'[p].loading
    BY <1>2, <1>11, <2>1 DEF QueryAccepted, At
  <2>3. CASE Goto(a, "start")
    BY <1>9, <2>1, <2>2, <2>3
  <2>4. CASE op[a].cmd = "batch"
    <3>1. /\ \A b \in Actors \ {a} : op'[b] = op[b]
          /\ op'[a].target = p /\ op'[a].at = "discover" /\ op'[a].cmd = op[a].cmd
      BY <1>1, <1>11, <2>4 DEF QueryAccepted, TypeOK, Operation
    <3>2. ImageRecord(a, p)
      BY <1>1, <1>3, <2>1, <2>2, <3>1, RestingImage
    <3>3. CommandOK(op'[a], Kind[a])
      BY <1>5, <3>1, CommandKept DEF ImageInv
    <3> QED  BY <1>0, <1>4, <3>1, <3>2, <3>3, OwnerKeeps
  <2> QED  BY <1>11, <2>3, <2>4 DEF QueryAccepted
<1>12. CASE StartPlugin(a)
  <2>1. /\ plugin'[p] = Started(plugin[p]) /\ Goto(a, "load")
        /\ DependenciesReady(p) /\ op[a].at = "start"
    BY <1>1, <1>12 DEF StartPlugin, SetRecord, TypeOK, At
  <2>2. plugin'[p].state = plugin[p].state
    BY <1>1, <2>1 DEF Started, PluginRecord
  <2>3. op'[a].target = p /\ op'[a].at = "load"
    BY <1>7, <2>1
  <2>4. ImageRecord(a, p)
    BY <1>3, <2>1, <2>2, <2>3 DEF ImageRecord, Departs, Installed
  <2> QED  BY <1>6, <1>7, <2>1, <2>4
<1>13. CASE LoadSucceeds(a)
  <2>1. DependenciesReady(p)
    BY <1>13 DEF LoadSucceeds
  <2>2. PICK at \in {"publish", "prepare"} : Goto(a, at) /\ ~plugin'[p].loading
    <3>1. CASE ActivateDispatch(a)
      <4>1. /\ plugin'[p] = Restored([plugin[p] EXCEPT !.loading = FALSE, !.state = "loaded"])
            /\ Goto(a, "publish")
        BY <1>1, <1>13, <3>1 DEF LoadSucceeds, SetRecord, TypeOK
      <4> QED  BY <1>1, <4>1 DEF Restored, PluginRecord
    <3>2. CASE ~ActivateDispatch(a)
      <4>1. /\ plugin'[p] = [plugin[p] EXCEPT !.loading = FALSE, !.accepting = FALSE]
            /\ Goto(a, "prepare")
        BY <1>1, <1>13, <3>2 DEF LoadSucceeds, SetRecord, TypeOK
      <4> QED  BY <1>1, <4>1 DEF PluginRecord
    <3> QED  BY <3>1, <3>2
  <2>3. /\ SlotKeeps(a) /\ CommandOK(op'[a], Kind[a]) /\ op'[a].target = p /\ op'[a].at = at
        /\ op'[a].cmd = op[a].cmd
    BY <1>7, <2>2
  <2>4. ~Departs(op'[a], p, plugin'[p])
    BY <1>5, <2>2, <2>3 DEF Departs
  <2>5. ImageRecord(a, p)
    BY <1>3, <2>1, <2>2, <2>4 DEF ImageRecord
  <2> QED  BY <1>6, <2>3, <2>5
<1>14. CASE LoadFails(a)
  <2>1. /\ plugin'[p] = [plugin[p] EXCEPT !.loading = FALSE, !.accepting = FALSE]
        /\ Goto(a, "rollback")
    BY <1>1, <1>14 DEF LoadFails, SetRecord, TypeOK
  <2>2. plugin'[p].state = plugin[p].state /\ ~plugin'[p].loading
    BY <1>1, <2>1 DEF PluginRecord
  <2> QED  BY <1>3, <1>9, <2>1, <2>2
<1>15. CASE ReplacementPrepared(a)
  <2>1. op[a].at = "prepare" /\ ~plugin[p].loading
    BY <1>2, <1>15 DEF ReplacementPrepared, At
  <2>2. CASE plugin'[p] = [plugin[p] EXCEPT !.state = "paused"] /\ Goto(a, "publish")
    <3>1. ~plugin'[p].loading
      BY <1>1, <2>1, <2>2 DEF PluginRecord
    <3>2. op'[a].at = "publish"
      BY <1>7, <2>2
    <3>3. ImageRecord(a, p)
      BY <1>3, <2>1, <3>1, <3>2 DEF ImageRecord, Departs, Loads
    <3> QED  BY <1>6, <1>7, <2>2, <3>3
  <2>3. CASE plugin'[p] = [plugin[p] EXCEPT !.state = "error"] /\ Goto(a, "prepare_unload")
    <3>1. plugin'[p].state = "error" /\ ~plugin'[p].loading
      BY <1>1, <2>1, <2>3 DEF PluginRecord
    <3> QED  BY <1>9, <2>3, <3>1
  <2> QED  BY <1>1, <1>15, <2>2, <2>3 DEF ReplacementPrepared, SetRecord, TypeOK
<1>16. CASE ReplacementUnloadPrepared(a)
  <2>1. /\ plugin[p].state = "error" /\ ~plugin[p].loading
        /\ LoadEnds(a) \/ Goto(a, "rollback")
        /\ \/ plugin'[p] = plugin[p]
           \/ plugin'[p] = [plugin[p] EXCEPT !.cleanup_pending = TRUE]
    BY <1>1, <1>2, <1>16 DEF ReplacementUnloadPrepared, SetRecord, TypeOK, At
  <2>2. plugin'[p].state = "error" /\ ~plugin'[p].loading
    BY <1>1, <2>1 DEF PluginRecord
  <2> QED  BY <1>9, <2>1, <2>2
<1>17. CASE RollbackLayer(a)
  <2>1. op[a].at = "rollback" /\ ~plugin[p].loading
    BY <1>2, <1>17 DEF RollbackLayer, At
  <2>2. PICK f, l :
          \/ plugin'[p] = [plugin[p] EXCEPT !.state = "error", !.live = {},
                                           !.cleanup_pending = f]
          \/ plugin'[p] = [plugin[p] EXCEPT !.live = @ \ {l}]
    BY <1>1, <1>17, RollbackRecord
  <2>3. plugin'[p].state \in {"loading", "error"} /\ ~plugin'[p].loading
    BY <1>1, <1>3, <2>1, <2>2 DEF PluginRecord
  <2>4. CASE LastLayer(a)
    BY <1>9, <1>17, <2>3, <2>4 DEF RollbackLayer
  <2>5. CASE ~LastLayer(a)
    <3>1. PICK g \in BOOLEAN : op' = [op EXCEPT ![a].step = @ + 1, ![a].failed = g]
      BY <1>1, <1>17, <2>5 DEF RollbackLayer, Operation
    <3>2. SlotKeeps(a) /\ op'[a].at = op[a].at /\ op'[a].cmd = op[a].cmd
      BY <1>1, <3>1 DEF TypeOK, Operation, SlotKeeps
    <3>3. CommandOK(op'[a], Kind[a])
      BY <1>5, <3>2, CommandKept DEF ImageInv
    <3>4. ImageRecord(a, p)
      BY <1>1, <1>3, <2>1, <2>3, <3>2, RestingImage
    <3> QED  BY <1>6, <3>2, <3>3, <3>4
  <2> QED  BY <2>4, <2>5
<1> QED  BY <1>10, <1>11, <1>12, <1>13, <1>14, <1>15, <1>16, <1>17 DEF LoadStep

\* Steps of a batch: a plugin is started when its dependencies are loaded, as the plugins
\* that run a command stand.
LEMMA BatchStepKeeps ==
  ASSUME OneCommandThread, TypeOK, IInv, ImageInv, NEW a \in Actors, Innermost(a), BatchStep(a)
  PROVE  Kept
<1>1. /\ op[a] \in Operation /\ op[a].batch \in SUBSET Plugins
      /\ \A b \in Actors \ {a} : op'[b] = op[b]
  BY DEF TypeOK, Operation, BatchStep, DiscoverPlugin, StartDiscovered, DiscoveryDone,
         RejectCycle, BatchDone, Goto
<1>2. op[a].at \in {"discover", "batch"} /\ op[a].cmd = "batch"
  BY DEF BatchStep, At, DiscoverPlugin, StartDiscovered, DiscoveryDone, RejectCycle,
         BatchDone, IInv, TargetInv, OperationOK
<1>3. ASSUME NEW p \in op[a].batch
      PROVE  /\ p \in Plugins /\ plugin[p].state = "loading" /\ ~plugin[p].loading
             /\ \A b \in Actors \ {a} : ~Holds(op[b], p)
  <2>1. p \in Plugins /\ Holds(op[a], p)
    BY <1>1 DEF Holds
  <2> QED  BY <1>2, <2>1, NotLoading DEF IInv, HoldInv, Consistent, ImageInv
<1>4. \A q : ~Owns(op[a], q)
  BY <1>2 DEF Owns, OwningPoints
<1>5. ASSUME op'[a].cmd = op[a].cmd
      PROVE  CommandOK(op'[a], Kind[a])
  BY <1>2, <1>5, CommandKept DEF ImageInv
<1>6. ASSUME plugin' = plugin, op'[a].cmd = op[a].cmd, op'[a].at \notin OwningPoints
      PROVE  Kept
  <2>1. \A q \in Plugins : ~Owns(op'[a], q)
    BY <1>2, <1>6 DEF Owns
  <2> QED  BY <1>1, <1>4, <1>5, <1>6, <2>1, LooseKeeps
<1>7. ASSUME NEW S \in SUBSET Plugins, op'[a].cmd = op[a].cmd,
             \A b \in Actors \ {a}, q \in S : ~Holds(op[b], q),
             \A q \in Plugins \ S : plugin'[q] = plugin[q] /\ ~Owns(op'[a], q),
             \A q \in S : ImageRecord(a, q) /\ (S = {q} \/ (~Installed(q) /\ ~Owns(op'[a], q)))
      PROVE  Kept
  <2>1. ImageStep(a, S)
    BY <1>1, <1>4, <1>5, <1>7 DEF ImageStep
  <2> QED  BY <2>1, ImageStepKeeps
<1>8. ASSUME NEW p \in Plugins, DiscoverPlugin(a, p)
      PROVE  Kept
  <2>1. CASE plugin[p].state \in {"absent", "disabled"}
    <3>1. \A b \in Actors : ~Holds(op[b], p)
      BY <2>1, Free DEF IInv, RecordInv, RecordOK
    <3>2. /\ plugin'[p] = Discovered /\ \A q \in Plugins \ {p} : plugin'[q] = plugin[q]
          /\ op'[a].target = p /\ op'[a].at = "query" /\ op'[a].cmd = op[a].cmd
      BY <1>1, <1>8, <2>1 DEF DiscoverPlugin, SetRecord, TypeOK, Operation
    <3>3. plugin'[p].state = "error" /\ ~plugin'[p].loading
      BY <3>2 DEF Discovered, NoRecord
    <3>4. ImageRecord(a, p)
      BY <2>1, <3>2, <3>3, RestingImage DEF Installed
    <3>5. \A q \in Plugins \ {p} : ~Owns(op'[a], q)
      BY <3>2 DEF Owns
    <3>6. PICK S \in SUBSET Plugins : S = {p}
      OBVIOUS
    <3> QED  BY <1>7, <3>1, <3>2, <3>4, <3>5, <3>6
  <2>2. CASE plugin[p].state \notin {"absent", "disabled"}
    <3>1. plugin' = plugin /\ op'[a].at = op[a].at /\ op'[a].cmd = op[a].cmd
      BY <1>1, <1>8, <2>2 DEF DiscoverPlugin, TypeOK, Operation
    <3> QED  BY <1>2, <1>6, <3>1 DEF OwningPoints
  <2> QED  BY <2>1, <2>2
<1>9. ASSUME NEW p \in Plugins, StartDiscovered(a, p)
      PROVE  Kept
  <2>1. p \in op[a].batch /\ op[a].at = "batch"
    BY <1>9 DEF StartDiscovered, At
  <2>2. /\ plugin[p].state = "loading" /\ ~plugin[p].loading /\ plugin[p] \in PluginRecord
        /\ ~Installed(p)
    BY <1>3, <2>1 DEF TypeOK, Installed
  <2>3. \A q \in Plugins \ {p} : plugin'[q] = plugin[q]
    BY <1>9 DEF StartDiscovered, SetRecord, TypeOK
  <2>4. PICK S \in SUBSET Plugins : S = {p}
    OBVIOUS
  <2>5. ASSUME ImageRecord(a, p), op'[a].cmd = op[a].cmd, op'[a].at = "batch" \/ op'[a].target = p
        PROVE  Kept
    <3>1. \A q \in Plugins \ {p} : ~Owns(op'[a], q)
      BY <2>5 DEF Owns, OwningPoints
    <3> QED  BY <1>3, <1>7, <2>1, <2>3, <2>4, <2>5, <3>1
  <2>6. CASE Blocked(p)
    <3>1. plugin'[p] = Closed("error")
      BY <1>9, <2>6 DEF StartDiscovered, SetRecord, TypeOK
    <3>2. op'[a].at = "batch" /\ op'[a].cmd = op[a].cmd
      BY <1>1, <1>9, <2>1, <2>6 DEF StartDiscovered, TypeOK, Operation
    <3>3. plugin'[p].state = "error" /\ ~plugin'[p].loading
      BY <3>1 DEF Closed, NoRecord
    <3>4. ImageRecord(a, p)
      BY <2>2, <3>2, <3>3, RestingImage
    <3> QED  BY <2>5, <3>2, <3>4
  <2>7. CASE ~Blocked(p)
    <3>1. plugin'[p] = Started(plugin[p]) /\ ~Waiting(p)
      BY <1>9, <2>7 DEF StartDiscovered, SetRecord, TypeOK
    <3>2. op'[a].at = "load" /\ op'[a].target = p /\ op'[a].cmd = op[a].cmd
      BY <1>1, <1>9, <2>7 DEF StartDiscovered, TypeOK, Operation
    <3>3. \A d \in Deps[p] : Installed(d)
      BY <2>7, <3>1 DEF Blocked, Waiting, Installed
    <3>4. plugin'[p].state = "loading"
      BY <2>2, <3>1 DEF Started, PluginRecord
    <3>5. ImageRecord(a, p)
      BY <1>2, <2>1, <2>2, <3>2, <3>3, <3>4 DEF ImageRecord, Departs
    <3> QED  BY <2>5, <3>2, <3>5
  <2> QED  BY <2>6, <2>7
<1>10. CASE RejectCycle(a)
  <2> DEFINE B == op[a].batch
  <2>1. /\ \A q \in B : plugin'[q] = [Closed("error") EXCEPT !.cycle = TRUE]
        /\ \A q \in Plugins \ B : plugin'[q] = plugin[q]
        /\ op'[a].at = op[a].at /\ op'[a].cmd = op[a].cmd
    BY <1>1, <1>10 DEF RejectCycle, TypeOK, Operation
  <2>2. \A q \in B : plugin'[q].state = "error" /\ ~plugin'[q].loading
    BY <2>1 DEF Closed, NoRecord
  <2>3. \A q : ~Owns(op'[a], q)
    BY <1>2, <2>1 DEF Owns, OwningPoints
  <2>4. \A q \in B : ~Installed(q) /\ ImageRecord(a, q)
    <3>1. \A q \in B : q \in Plugins /\ ~Installed(q)
      BY <1>3 DEF Installed
    <3> QED  BY <1>2, <2>1, <2>2, <3>1, RestingImage
  <2> QED  BY <1>1, <1>3, <1>7, <2>1, <2>3, <2>4
<1>11. CASE DiscoveryDone(a) \/ BatchDone(a)
  <2>1. plugin' = plugin /\ op'[a].at \in {"batch", "publish"} /\ op'[a].cmd = op[a].cmd
    BY <1>1, <1>11 DEF DiscoveryDone, BatchDone, Goto, TypeOK, Operation
  <2> QED  BY <1>6, <2>1 DEF OwningPoints
<1> QED  BY <1>8, <1>9, <1>10, <1>11 DEF BatchStep

\* What is loaded or paused before and after, and departs only if it departed before.
LEMMA StayingImage ==
  ASSUME NEW a \in Actors, NEW p \in Plugins, Installed(p),
         plugin'[p].state \in {"loaded", "paused"}, ~plugin'[p].loading,
         op'[a].at \in {"deactivate", "drain", "prepare", "prepare_unload", "release", "unload"} =>
           op'[a].cmd = "pause" \/ Unneeded(p)
             \/ (Departs(op[a], p, plugin[p]) /\ op[a].cmd # "pause")
  PROVE  ImageRecord(a, p)
BY DEF ImageRecord, Departs, Installed

\* Steps of an unload and a pause: only the unload closes an image, and nobody needs it then.
LEMMA TransitionStepKeeps ==
  ASSUME OneCommandThread, TypeOK, IInv, ImageInv, NEW a \in Actors, Innermost(a),
         TransitionStep(a)
  PROVE  Kept
<1> DEFINE p == op[a].target
<1>0. op[a].at \in OwningPoints
  BY DEF TransitionStep, OwningPoints, At, Deactivate, DeactivateDone, DeactivateBusy,
         PausePrepared, UnloadPrepared, ReleaseLayer, ReleaseFails, UnloadPlugin
<1>1. /\ p \in Plugins /\ op[a] \in Operation /\ plugin[p] \in PluginRecord
      /\ Owns(op[a], p) /\ Consistent(op[a], p, plugin[p])
  BY <1>0, Owned
<1>2. Departs(op[a], p, plugin[p]) /\ op[a].at # "load" /\ op[a].at # "idle" /\ op[a].cmd # "resume"
  <2>1. Departs(op[a], p, plugin[p]) /\ op[a].at \notin {"load", "idle", "publish"}
    BY <1>1 DEF TransitionStep, Departs, At, Deactivate, DeactivateDone, DeactivateBusy,
         PausePrepared, UnloadPrepared, ReleaseLayer, ReleaseFails, UnloadPlugin
  <2> QED  BY <2>1 DEF ImageInv, CommandsInv, CommandOK
<1>3. plugin[p].state \in {"loaded", "paused"} /\ Installed(p)
  BY <1>1, <1>2 DEF Consistent, Installed
<1>4. ~plugin[p].loading
  BY <1>1, <1>2, NotLoading DEF Holds, ImageInv
<1>5. \A q \in Plugins \ {p} : plugin'[q] = plugin[q]
  BY DEF TransitionStep, SetRecord, TypeOK, Abandon, Deactivate, DeactivateDone,
         DeactivateBusy, PausePrepared, UnloadPrepared, ReleaseLayer, ReleaseFails, UnloadPlugin
<1>6. ASSUME SlotKeeps(a), op'[a].at # "idle" => op'[a].cmd = op[a].cmd,
             op[a].cmd = "pause" => op'[a].at \in {"idle", "deactivate", "drain", "prepare", "publish"},
             plugin'[p].state \in {"loaded", "paused"}, ~plugin'[p].loading
      PROVE  Kept
  <2>1. CommandOK(op'[a], Kind[a])
    BY <1>2, <1>6, CommandKept DEF ImageInv
  <2>2. ImageRecord(a, p)
    BY <1>1, <1>2, <1>3, <1>6, StayingImage
  <2> QED  BY <1>0, <1>5, <1>6, <2>1, <2>2, OwnerKeeps DEF SlotKeeps
<1>7. ASSUME NEW r \in PluginRecord, r.state = plugin[p].state, r.loading = plugin[p].loading,
             Abandon(a, r)
      PROVE  Kept
  <2>1. plugin'[p] = Settled(r)
    BY <1>1, <1>7 DEF Abandon, SetRecord, TypeOK
  <2>2. plugin'[p].state \in {"loaded", "paused"} /\ ~plugin'[p].loading
    BY <1>3, <1>4, <1>7, <2>1 DEF Settled, PluginRecord
  <2>3. SlotKeeps(a) /\ op'[a].at = "idle"
    BY <1>7, EndKeeps DEF Abandon
  <2> QED  BY <1>6, <2>2, <2>3
<1>8. Restored(plugin[p]) \in PluginRecord /\ Restored(plugin[p]).state = plugin[p].state
      /\ Restored(plugin[p]).loading = plugin[p].loading
  BY <1>1, RecordTypes DEF Restored, PluginRecord
<1>9. op[a].at \in {"prepare_unload", "release", "unload"} => op[a].cmd # "pause"
  BY DEF ImageInv, CommandsInv, CommandOK
<1>10. CASE Deactivate(a)
  <2>1. \E l : plugin'[p] = [plugin[p] EXCEPT !.live = @ \ {l}]
    BY <1>1, <1>10 DEF Deactivate, SetRecord, TypeOK
  <2>2. plugin'[p].state \in {"loaded", "paused"} /\ ~plugin'[p].loading
    BY <1>1, <1>3, <1>4, <2>1 DEF PluginRecord
  <2>3. SlotKeeps(a) /\ op'[a].at = "drain" /\ op'[a].cmd = op[a].cmd
    BY <1>1, <1>10 DEF Deactivate, TypeOK, Operation, SlotKeeps
  <2> QED  BY <1>6, <2>2, <2>3
<1>11. CASE DeactivateDone(a)
  <2>1. /\ SlotKeeps(a) /\ op'[a].cmd = op[a].cmd
        /\ op'[a].at \in {"deactivate", IF op[a].cmd = "pause" THEN "prepare" ELSE "prepare_unload"}
    <3>1. CASE op[a].was_running /\ op[a].step < 6
      BY <1>1, <1>11, <3>1 DEF DeactivateDone, TypeOK, Operation, SlotKeeps
    <3>2. CASE ~(op[a].was_running /\ op[a].step < 6)
      BY <1>11, <3>2, GotoKeeps DEF DeactivateDone
    <3> QED  BY <3>1, <3>2
  <2>2. plugin' = plugin
    BY <1>11 DEF DeactivateDone
  <2> QED  BY <1>3, <1>4, <1>6, <2>1, <2>2
<1>12. CASE DeactivateBusy(a)
  <2> DEFINE r == RestoredAfter(plugin[p], op[a].cmd, DeactivateOrder[op[a].step])
  <2>1. r \in PluginRecord /\ r.state = plugin[p].state /\ r.loading = plugin[p].loading
    BY <1>1 DEF RestoredAfter, Restored, PluginRecord, Layers
  <2>2. Abandon(a, r)
    BY <1>12 DEF DeactivateBusy
  <2> HIDE DEF r
  <2> QED  BY <1>7, <2>1, <2>2
<1>13. CASE PausePrepared(a)
  <2>1. CASE Abandon(a, Restored(plugin[p]))
    BY <1>7, <1>8, <2>1
  <2>2. CASE SetRecord(p, [plugin[p] EXCEPT !.state = "paused"]) /\ Goto(a, "publish")
    <3>1. plugin'[p] = [plugin[p] EXCEPT !.state = "paused"]
      BY <1>1, <2>2 DEF SetRecord, TypeOK
    <3>2. plugin'[p].state = "paused" /\ ~plugin'[p].loading
      BY <1>1, <1>4, <3>1 DEF PluginRecord
    <3>3. SlotKeeps(a) /\ op'[a].at = "publish" /\ op'[a].cmd = op[a].cmd
      BY <2>2, GotoKeeps
    <3> QED  BY <1>6, <3>2, <3>3
  <2> QED  BY <1>13, <2>1, <2>2 DEF PausePrepared
<1>14. CASE UnloadPrepared(a)
  <2>1. CASE Goto(a, "release") /\ UNCHANGED <<plugin, services>>
    <3>1. SlotKeeps(a) /\ op'[a].at = "release" /\ op'[a].cmd = op[a].cmd
      BY <2>1, GotoKeeps
    <3>2. op[a].at = "prepare_unload"
      BY <1>14 DEF UnloadPrepared, At
    <3> QED  BY <1>3, <1>4, <1>6, <1>9, <2>1, <3>1, <3>2
  <2>2. CASE Abandon(a, IF op[a].was_running THEN Restored(plugin[p]) ELSE plugin[p])
    BY <1>1, <1>7, <1>8, <2>2
  <2> QED  BY <1>14, <2>1, <2>2 DEF UnloadPrepared
<1>15. CASE ReleaseLayer(a)
  <2>1. \E S : plugin'[p] = [plugin[p] EXCEPT !.live = @ \ S]
    BY <1>1, <1>15 DEF ReleaseLayer, SetRecord, TypeOK
  <2>2. plugin'[p].state \in {"loaded", "paused"} /\ ~plugin'[p].loading
    BY <1>1, <1>3, <1>4, <2>1 DEF PluginRecord
  <2>3. op[a].at = "release"
    BY <1>15 DEF ReleaseLayer, At
  <2>4. SlotKeeps(a) /\ op'[a].at \in {"release", "unload"} /\ op'[a].cmd = op[a].cmd
    <3>1. CASE LastLayer(a)
      BY <1>15, <3>1, GotoKeeps DEF ReleaseLayer
    <3>2. CASE ~LastLayer(a)
      BY <1>1, <1>15, <2>3, <3>2 DEF ReleaseLayer, TypeOK, Operation, SlotKeeps
    <3> QED  BY <3>1, <3>2
  <2> QED  BY <1>6, <1>9, <2>2, <2>3, <2>4
<1>16. CASE ReleaseFails(a)
  <2> DEFINE r == [plugin[p] EXCEPT !.cleanup_pending = TRUE]
  <2>1. r \in PluginRecord /\ r.state = plugin[p].state /\ r.loading = plugin[p].loading
    BY <1>1 DEF PluginRecord
  <2>2. Abandon(a, r) \/ Abandon(a, Restored(plugin[p]))
    BY <1>16 DEF ReleaseFails
  <2> HIDE DEF r
  <2> QED  BY <1>7, <1>8, <2>1, <2>2
<1>17. CASE UnloadPlugin(a)
  <2>1. op[a].at = "unload" /\ Goto(a, "publish_unloaded")
    BY <1>17 DEF UnloadPlugin, At
  <2>2. \E s \in {"absent", "disabled"} : plugin'[p] = Closed(s)
    BY <1>1, <1>17 DEF UnloadPlugin, SetRecord, TypeOK
  <2>3. ~plugin'[p].loading
    BY <2>2 DEF Closed, NoRecord
  <2>4. SlotKeeps(a) /\ op'[a].at = "publish_unloaded" /\ op'[a].cmd = op[a].cmd
    BY <2>1, GotoKeeps
  <2>5. Unneeded(p) /\ op[a].cmd # "pause"
    BY <1>1, <1>2, <1>9, <2>1, UnloadUnneeded DEF ImageInv, Innermost
  <2>6. ImageRecord(a, p)
    BY <1>3, <2>3, <2>4, <2>5 DEF ImageRecord, Departs
  <2>7. CommandOK(op'[a], Kind[a])
    BY <1>2, <2>4, <2>5, CommandKept DEF ImageInv
  <2> QED  BY <1>0, <1>5, <2>4, <2>6, <2>7, OwnerKeeps DEF SlotKeeps
<1> QED  BY <1>10, <1>11, <1>12, <1>13, <1>14, <1>15, <1>16, <1>17 DEF TransitionStep

\* The first segment of a pause or an unload.
LEMMA CloseKeeps ==
  ASSUME OneCommandThread, TypeOK, IInv, ImageInv, NEW a \in Actors, Innermost(a),
         NEW p \in Plugins, \A q \in Plugins : ~Owns(op[a], q),
         plugin[p].state \in {"loaded", "paused"}, ~plugin[p].transitioning,
         SetRecord(p, Closing(plugin[p])),
         \A b \in Actors \ {a} : op'[b] = op[b],
         op'[a].at = "deactivate", op'[a].target = p, CommandOK(op'[a], Kind[a]),
         op'[a].cmd = "pause" \/ Unneeded(p)
  PROVE  Kept
<1>1. plugin[p] \in PluginRecord /\ \A b \in Actors : ~Holds(op[b], p)
  BY Free DEF TypeOK
<1>2. plugin'[p] = Closing(plugin[p]) /\ \A q \in Plugins \ {p} : plugin'[q] = plugin[q]
  BY DEF SetRecord, TypeOK
<1>3. ~plugin[p].loading
  BY <1>1, NotLoading DEF ImageInv
<1>4. plugin'[p].state = plugin[p].state /\ ~plugin'[p].loading
  BY <1>1, <1>2, <1>3 DEF Closing, PluginRecord
<1>5. ImageRecord(a, p)
  BY <1>4, StayingImage DEF Installed
<1> QED  BY <1>1, <1>2, <1>5, TakeKeeps

\* The discovery of a plugin whose image is closed.
LEMMA DiscoverKeeps ==
  ASSUME OneCommandThread, TypeOK, IInv, ImageInv, NEW a \in Actors, Innermost(a),
         NEW p \in Plugins, \A q \in Plugins : ~Owns(op[a], q),
         ~plugin[p].image, SetRecord(p, Discovered),
         \A b \in Actors \ {a} : op'[b] = op[b],
         op'[a].at = "query", op'[a].target = p, CommandOK(op'[a], Kind[a])
  PROVE  Kept
<1>1. \A b \in Actors : ~Holds(op[b], p)
  BY Free
<1>2. plugin'[p] = Discovered /\ \A q \in Plugins \ {p} : plugin'[q] = plugin[q]
  BY DEF SetRecord, TypeOK
<1>3. plugin'[p].state = "error" /\ ~plugin'[p].loading
  BY <1>2 DEF Discovered, NoRecord
<1>4. ~Installed(p)
  BY DEF IInv, RecordInv, RecordOK, Installed
<1>5. ImageRecord(a, p)
  BY <1>3, <1>4, RestingImage
<1> QED  BY <1>1, <1>2, <1>5, TakeKeeps

\* The loads of a reload.
LEMMA ReplacementKeeps ==
  ASSUME OneCommandThread, TypeOK, IInv, ImageInv, NEW a \in Actors, Innermost(a),
         op[a].at \in {"publish_unloaded", "candidate"}, op[a].cmd = "reload",
         op[a].target \in Plugins, NEW attempt, LoadReplacement(a, attempt)
  PROVE  Kept
<1> DEFINE p == op[a].target
<1>0. \A q \in Plugins : ~Owns(op[a], q)
  BY DEF Owns, OwningPoints
<1>1. CASE plugin[p].state \in {"absent", "disabled"}
  <2>1. ~plugin[p].image
    BY <1>1 DEF IInv, RecordInv, RecordOK
  <2>2. /\ SetRecord(p, Discovered)
        /\ \A b \in Actors \ {a} : op'[b] = op[b]
        /\ op'[a].target = p /\ op'[a].at = "query" /\ op'[a].cmd = op[a].cmd
    BY <1>1 DEF LoadReplacement, TypeOK, Operation
  <2>3. CommandOK(op'[a], Kind[a])
    BY <2>2, CommandKept DEF ImageInv
  <2> QED  BY <1>0, <2>1, <2>2, <2>3, DiscoverKeeps
<1>2. CASE plugin[p].state \notin {"absent", "disabled"}
  <2>1. End(a) /\ plugin' = plugin
    BY <1>2 DEF LoadReplacement
  <2>2. SlotKeeps(a) /\ op'[a].at = "idle"
    BY <2>1, EndKeeps
  <2>3. \A q \in Plugins : ~Owns(op'[a], q)
    BY <2>2 DEF Owns, OwningPoints
  <2>4. CommandOK(op'[a], Kind[a])
    BY <2>2 DEF CommandOK
  <2> QED  BY <1>0, <2>1, <2>2, <2>3, <2>4, LooseKeeps DEF SlotKeeps
<1> QED  BY <1>1, <1>2

\* Steps after an unload, and the last of a pause and a resume.
LEMMA AfterStepKeeps ==
  ASSUME OneCommandThread, TypeOK, IInv, ImageInv, NEW a \in Actors, Innermost(a), AfterStep(a)
  PROVE  Kept
<1> DEFINE p == op[a].target
<1>1. op[a] \in Operation /\ OperationOK(op[a])
  BY DEF TypeOK, IInv, TargetInv
<1>2. CASE PublishDone(a)
  <2>1. op[a].at = "publish" /\ (End(a) \/ LoadEnds(a))
    BY <1>2 DEF PublishDone, At
  <2>2. SlotKeeps(a) /\ op'[a].at \in {"idle", "batch", "candidate"}
    BY <2>1, EndKeeps, LoadEndsKeeps
  <2>3. \A q \in Plugins : ~Owns(op'[a], q)
    BY <2>2 DEF Owns, OwningPoints
  <2>4. CommandOK(op'[a], Kind[a])
    <3>1. CASE End(a)
      BY <3>1, EndKeeps DEF CommandOK
    <3>2. CASE LoadEnds(a)
      BY <2>1, <3>2, LoadEndsCommand DEF ImageInv
    <3> QED  BY <2>1, <3>1, <3>2
  <2>5. CASE op[a].cmd \in {"pause", "resume"} /\ p \in Plugins
    <3>1. plugin'[p] = Settled(plugin[p]) /\ \A q \in Plugins \ {p} : plugin'[q] = plugin[q]
      BY <1>2, <2>5 DEF PublishDone, SetRecord, TypeOK
    <3>2. /\ plugin[p] \in PluginRecord /\ Holds(op[a], p)
          /\ \A b \in Actors \ {a} : ~Holds(op[b], p)
      BY <2>1, <2>5 DEF IInv, HoldInv, Holds, Owns, TypeOK
    <3>0. ~plugin[p].loading
      BY <2>1, <2>5, <3>2, NotLoading DEF ImageInv
    <3>3. plugin'[p].state = plugin[p].state /\ ~plugin'[p].loading
      BY <3>0, <3>1, <3>2 DEF Settled, PluginRecord
    <3>4. ImageRecord(a, p)
      BY <2>2, <3>3 DEF ImageRecord, Departs, Installed
    <3>5. \A q \in Plugins \ {p} : ~Owns(op[a], q)
      BY DEF Owns
    <3>6. ImageStep(a, {p})
      BY <2>2, <2>3, <2>4, <3>1, <3>2, <3>4, <3>5 DEF ImageStep, SlotKeeps
    <3> QED  BY <2>5, <3>6, ImageStepKeeps
  <2>6. CASE ~(op[a].cmd \in {"pause", "resume"} /\ p \in Plugins)
    <3>1. plugin' = plugin
      BY <1>2, <2>6 DEF PublishDone, SetRecord, TypeOK
    <3>2. \A q \in Plugins : ~Owns(op[a], q)
      BY <2>1, <2>6 DEF Owns, OwningPoints
    <3> QED  BY <2>2, <2>3, <2>4, <3>1, <3>2, LooseKeeps DEF SlotKeeps
  <2> QED  BY <2>5, <2>6
<1>3. ASSUME ~PublishDone(a)
      PROVE  /\ op[a].at \in {"publish_unloaded", "candidate"} /\ p \in Plugins
             /\ op[a].at = "candidate" => op[a].cmd = "reload"
             /\ \A q \in Plugins : ~Owns(op[a], q)
  <2>1. /\ op[a].at \in {"publish_unloaded", "candidate"} /\ p \in Plugins
        /\ op[a].at = "candidate" => op[a].cmd = "reload"
    BY <1>1, <1>3 DEF AfterStep, At, PublishUnloadedDone, CandidateKept, CandidateUnloaded,
         CandidateDiscarded, OperationOK
  <2> QED  BY <2>1 DEF Owns, OwningPoints
<1>4. ASSUME ~PublishDone(a), End(a), plugin' = plugin
      PROVE  Kept
  <2>1. SlotKeeps(a) /\ op'[a].at = "idle"
    BY <1>4, EndKeeps
  <2>2. (\A q \in Plugins : ~Owns(op'[a], q)) /\ CommandOK(op'[a], Kind[a])
    BY <2>1 DEF Owns, OwningPoints, CommandOK
  <2> QED  BY <1>3, <1>4, <2>1, <2>2, LooseKeeps DEF SlotKeeps
<1>5. CASE ~PublishDone(a) /\ (PublishUnloadedDone(a) \/ CandidateKept(a))
  <2>1. \/ End(a) /\ plugin' = plugin
        \/ op[a].cmd = "reload" /\ \E n : LoadReplacement(a, n)
    BY <1>5 DEF PublishUnloadedDone, CandidateKept
  <2> QED  BY <1>3, <1>4, <1>5, <2>1, ReplacementKeeps
<1>6. CASE ~PublishDone(a) /\ CandidateUnloaded(a)
  <2>1. /\ plugin[p].state \in {"loaded", "paused"} /\ ~plugin[p].transitioning
        /\ SetRecord(p, Closing(plugin[p])) /\ op[a].at = "candidate"
        /\ CanUnload(p)
    BY <1>6 DEF CandidateUnloaded, CanUnload, At
  <2>2. /\ \A b \in Actors \ {a} : op'[b] = op[b]
        /\ op'[a].at = "deactivate" /\ op'[a].target = p /\ op'[a].cmd = op[a].cmd
    BY <1>1, <1>6 DEF CandidateUnloaded, TypeOK, Operation
  <2>3. Unneeded(p)
    BY <1>3, <1>6, <2>1, CanUnloadUnneeded
  <2>4. CommandOK(op'[a], Kind[a])
    BY <1>3, <1>6, <2>1, <2>2, CommandKept DEF ImageInv
  <2> QED  BY <1>3, <1>6, <2>1, <2>2, <2>3, <2>4, CloseKeeps
<1>7. CASE ~PublishDone(a) /\ CandidateDiscarded(a)
  <2>0. op[a].at = "candidate"
    BY <1>7 DEF CandidateDiscarded, At
  <2>1. CASE plugin[p].state = "error" /\ ~plugin[p].image
    <3>1. /\ SetRecord(p, Discovered)
          /\ \A b \in Actors \ {a} : op'[b] = op[b]
          /\ op'[a].target = p /\ op'[a].at = "query" /\ op'[a].cmd = op[a].cmd
      BY <1>1, <1>7, <2>1 DEF CandidateDiscarded, TypeOK, Operation
    <3>2. CommandOK(op'[a], Kind[a])
      BY <1>3, <1>7, <2>0, <3>1, CommandKept DEF ImageInv
    <3> QED  BY <1>3, <1>7, <2>1, <3>1, <3>2, DiscoverKeeps
  <2>2. CASE ~(plugin[p].state = "error" /\ ~plugin[p].image)
    BY <1>3, <1>7, <2>0, <2>2, ReplacementKeeps DEF CandidateDiscarded
  <2> QED  BY <2>1, <2>2
<1> QED  BY <1>2, <1>5, <1>6, <1>7 DEF AfterStep

\* The beginning of an operation: what is unloaded is unneeded.
LEMMA CommandKeeps ==
  ASSUME OneCommandThread, TypeOK, IInv, ImageInv, NEW a \in Actors, Innermost(a), Command(a)
  PROVE  Kept
<1>1. ASSUME NEW c, NEW p, NEW at, Begin(a, c, p, at)
      PROVE  /\ \A b \in Actors \ {a} : op'[b] = op[b]
             /\ op'[a].at = at /\ op'[a].target = p /\ op'[a].cmd = c
             /\ c \in CommandsOf(Kind[a])
  BY <1>1 DEF Begin, TypeOK, Idle
<1>2. op[a].at = "idle"
  BY DEF Command, BeginBatch, BeginLoad, BeginPause, BeginResume, BeginUnload, Begin, Admitted
<1>3. \A q \in Plugins : ~Owns(op[a], q)
  BY <1>2 DEF Owns, OwningPoints
<1>4. CASE BeginBatch(a)
  <2>1. /\ plugin' = plugin /\ \A b \in Actors \ {a} : op'[b] = op[b]
        /\ op'[a].at = "discover" /\ op'[a].cmd = "batch" /\ "batch" \in CommandsOf(Kind[a])
    BY <1>4 DEF BeginBatch, TypeOK, Idle
  <2>2. (\A q \in Plugins : ~Owns(op'[a], q)) /\ CommandOK(op'[a], Kind[a])
    BY <2>1 DEF Owns, OwningPoints, CommandOK
  <2> QED  BY <1>3, <2>1, <2>2, LooseKeeps
<1>5. ASSUME NEW p \in Plugins, BeginLoad(a, p)
      PROVE  Kept
  <2>1. ~plugin[p].image /\ SetRecord(p, Discovered) /\ Begin(a, "load", p, "query")
    BY <1>5 DEF BeginLoad
  <2>2. CommandOK(op'[a], Kind[a])
    BY <1>1, <2>1 DEF CommandOK
  <2> QED  BY <1>1, <1>3, <2>1, <2>2, DiscoverKeeps
<1>6. ASSUME NEW p \in Plugins, BeginPause(a, p)
      PROVE  Kept
  <2>1. /\ plugin[p].state = "loaded" /\ ~plugin[p].transitioning
        /\ SetRecord(p, Closing(plugin[p])) /\ Begin(a, "pause", p, "deactivate")
    BY <1>6 DEF BeginPause
  <2>2. CommandOK(op'[a], Kind[a])
    BY <1>1, <2>1 DEF CommandOK
  <2> QED  BY <1>1, <1>3, <2>1, <2>2, CloseKeeps
<1>7. ASSUME NEW p \in Plugins, BeginUnload(a, p)
      PROVE  Kept
  <2>1. PICK c \in {"unload", "reload"} : Begin(a, c, p, "deactivate")
    BY <1>7 DEF BeginUnload
  <2>2. /\ plugin[p].state \in {"loaded", "paused"} /\ ~plugin[p].transitioning
        /\ SetRecord(p, Closing(plugin[p])) /\ Unneeded(p)
    BY <1>7, CanUnloadUnneeded DEF BeginUnload, CanUnload
  <2>3. CommandOK(op'[a], Kind[a])
    BY <1>1, <2>1 DEF CommandOK
  <2> QED  BY <1>1, <1>3, <2>1, <2>2, <2>3, CloseKeeps
<1>8. ASSUME NEW p \in Plugins, BeginResume(a, p)
      PROVE  Kept
  <2>1. \A b \in Actors : ~Holds(op[b], p)
    BY <1>8, Free DEF BeginResume
  <2>2. /\ plugin'[p] = Restored([plugin[p] EXCEPT !.state = "loaded", !.transitioning = TRUE])
        /\ plugin[p] \in PluginRecord /\ plugin[p].state = "paused"
        /\ \A q \in Plugins \ {p} : plugin'[q] = plugin[q]
    BY <1>8 DEF BeginResume, SetRecord, TypeOK
  <2>3. plugin'[p].state = "loaded" /\ ~plugin'[p].loading
    BY <2>1, <2>2, NotLoading DEF Restored, PluginRecord, ImageInv
  <2>4. Begin(a, "resume", p, "publish")
    BY <1>8 DEF BeginResume
  <2>5. CommandOK(op'[a], Kind[a])
    BY <1>1, <2>4 DEF CommandOK
  <2>6. ImageRecord(a, p)
    BY <1>1, <2>2, <2>3, <2>4, StayingImage DEF Installed
  <2> QED  BY <1>1, <1>3, <2>1, <2>2, <2>4, <2>5, <2>6, TakeKeeps
<1> QED  BY <1>4, <1>5, <1>6, <1>7, <1>8 DEF Command

\* A slot that begins an operation, or takes a step of one, is innermost on its thread.
LEMMA SlotNests ==
  ASSUME TypeOK, NestInv, NEW a \in Actors, Command(a) \/ Step(a)
  PROVE  NestInv' /\ Innermost(a)
<1>1. CASE Step(a)
  BY <1>1, StepNests DEF Innermost
<1>2. CASE Command(a)
  <2>1. /\ op[a].at = "idle" /\ op'[a].at # "idle"
        /\ \A b \in Actors \ {a} : op'[b] = op[b]
        /\ stack' = [stack EXCEPT ![ThreadOf[a]] = <<a>> \o @]
    <3>1. ASSUME NEW c, NEW p, NEW at, at # "idle", Begin(a, c, p, at)
          PROVE  /\ op[a].at = "idle" /\ op'[a].at # "idle"
                 /\ \A b \in Actors \ {a} : op'[b] = op[b]
                 /\ stack' = [stack EXCEPT ![ThreadOf[a]] = <<a>> \o @]
      BY <3>1 DEF Begin, Admitted, TypeOK, Idle
    <3>2. CASE BeginBatch(a)
      BY <3>2 DEF BeginBatch, Admitted, TypeOK, Idle
    <3>3. ASSUME NEW p \in Plugins,
                 BeginLoad(a, p) \/ BeginPause(a, p) \/ BeginResume(a, p) \/ BeginUnload(a, p)
          PROVE  \E c, at : at # "idle" /\ Begin(a, c, p, at)
      <4>1. Begin(a, "load", p, "query") => \E c, at : at # "idle" /\ Begin(a, c, p, at)
        OBVIOUS
      <4>2. Begin(a, "resume", p, "publish") => \E c, at : at # "idle" /\ Begin(a, c, p, at)
        OBVIOUS
      <4>3. \A c : Begin(a, c, p, "deactivate") => \E at : at # "idle" /\ Begin(a, c, p, at)
        OBVIOUS
      <4> QED  BY <3>3, <4>1, <4>2, <4>3 DEF BeginLoad, BeginPause, BeginResume, BeginUnload
    <3>4. CASE \E p \in Plugins :
                 BeginLoad(a, p) \/ BeginPause(a, p) \/ BeginResume(a, p) \/ BeginUnload(a, p)
      <4>1. PICK p, c, at : at # "idle" /\ Begin(a, c, p, at)
        BY <3>3, <3>4
      <4> QED  BY <3>1, <4>1
    <3> QED  BY <1>2, <3>2, <3>4 DEF Command
  <2>2. NestInv' /\ AboveKept({})
    <3>1. PICK t \in Threads : t = ThreadOf[a]
      BY ThreadType
    <3>2. stack' = [stack EXCEPT ![t] = <<a>> \o @]
      BY <2>1, <3>1
    <3>3. \A x \in Actors \ {a} : op'[x].at # "idle" <=> op[x].at # "idle"
      BY <2>1
    <3> QED  BY <2>1, <3>1, <3>2, <3>3, PushNests
  <2>3. ASSUME NEW x \in Actors, Above(x, a)
        PROVE  FALSE
    <3>1. PICK j \in DOMAIN stack[ThreadOf[a]] : stack[ThreadOf[a]][j] = a
      BY <2>3 DEF Above
    <3> QED  BY <2>1, <3>1, ThreadType DEF NestInv
  <2> QED  BY <2>1, <2>2, <2>3 DEF Innermost, AboveKept
<1> QED  BY <1>1, <1>2

\* Steps of callbacks and services leave the operations alone.
LEMMA QuietNests ==
  ASSUME TypeOK, ImageInv, plugin' = plugin, op' = op, NestInv' /\ AboveKept({})
  PROVE  ImageInv'
<1>1. RelyInv' /\ CommandsInv'
  BY DEF ImageInv, RelyInv, Relies, Installed, Loads, CommandsInv
<1>2. ClosingInv'
  <2>1. ASSUME NEW b \in Actors, NEW d \in Plugins, Departs(op[b], d, plugin[d]),
               op[b].cmd # "pause", NEW p \in Plugins, d \in Deps[p]
        PROVE  /\ ~Installed(p)
               /\ \A x \in Actors : Loads(x, p) => op[x].at = "load" /\ Above(x, b)'
    BY <2>1 DEF ImageInv, ClosingInv, AboveKept
  <2> QED  BY <2>1 DEF ClosingInv, Installed, Loads, Departs
<1> QED  BY <1>1, <1>2 DEF ImageInv

\* Every step keeps what ImageClosure needs.
LEMMA NextImages ==
  ASSUME OneCommandThread, TypeOK, IInv, ImageInv, [Next]_vars
  PROVE  ImageInv'
<1>1. ASSUME NEW a \in Actors, Command(a) \/ Step(a)
      PROVE  ImageInv'
  <2>1. NestInv' /\ Innermost(a)
    BY <1>1, SlotNests DEF ImageInv
  <2>2. Kept
    BY <1>1, <2>1, CommandKeeps, LoadStepKeeps, BatchStepKeeps, TransitionStepKeeps,
       AfterStepKeeps DEF Step
  <2> QED  BY <2>1, <2>2 DEF Kept, ImageInv
<1>2. ASSUME stack' = stack, op' = op, plugin' = plugin
      PROVE  ImageInv'
  BY <1>2, SameNests, QuietNests DEF ImageInv
<1>3. CASE UNCHANGED vars
  BY <1>2, <1>3 DEF vars
<1>4. CASE Service
  BY <1>2, <1>4 DEF Service, Publish, Withdraw, Query, Release
<1>5. ASSUME NEW t \in Threads, NEW p \in Plugins, NEW l \in Layers, EnterCallback(t, p, l)
      PROVE  ImageInv'
  <2>1. PICK f : f = <<p, l>>
    OBVIOUS
  <2>2. f \notin Actors
    BY <2>1, ConstantsAssumption DEF ConstantsAssumption
  <2>3. /\ stack' = [stack EXCEPT ![t] = <<f>> \o @]
        /\ op' = op /\ plugin' = plugin
    BY <1>5, <2>1 DEF EnterCallback
  <2> HIDE <2>1
  <2>4. NestInv' /\ AboveKept({})
    BY <2>2, <2>3, PushNests DEF ImageInv
  <2> QED  BY <2>3, <2>4, QuietNests
<1>6. ASSUME NEW t \in Threads, LeaveCallback(t)
      PROVE  ImageInv'
  <2>1. PICK f : f = Head(stack[t])
    OBVIOUS
  <2>2. f \notin Actors /\ stack[t] # <<>>
    BY <1>6, <2>1 DEF LeaveCallback, InnermostOp
  <2>3. /\ stack' = [stack EXCEPT ![t] = Tail(@)]
        /\ op' = op /\ plugin' = plugin
    BY <1>6 DEF LeaveCallback
  <2>4. NestInv' /\ AboveKept({f})
    BY <2>1, <2>2, <2>3, PopNests DEF ImageInv
  <2>5. AboveKept({})
    BY <2>2, <2>4 DEF AboveKept
  <2> QED  BY <2>3, <2>4, <2>5, QuietNests
<1> QED  BY <1>1, <1>3, <1>4, <1>5, <1>6 DEF Next, Callback

\* No operation runs, and nothing is loaded, initially.
LEMMA InitImages == Init => ImageInv
<1> SUFFICES ASSUME Init  PROVE ImageInv
  OBVIOUS
<1>1. NestInv
  BY DEF Init, Idle, NestInv
<1>2. \A a \in Actors : op[a].at = "idle"
  BY DEF Init, Idle
<1>3. CommandsInv /\ ClosingInv
  BY <1>2 DEF CommandsInv, CommandOK, ClosingInv, Departs
<1>4. \A p \in Plugins : ~Installed(p) /\ ~plugin[p].loading
  BY DEF Init, Installed, NoRecord
<1>5. RelyInv
  BY <1>2, <1>4 DEF RelyInv, Relies, Loads
<1> QED  BY <1>1, <1>3, <1>5 DEF ImageInv

\* What a loaded, paused or loading plugin depends on is loaded or paused, and nobody
\* needs what is being unloaded, but for a load that a callback of the unload runs.
THEOREM ImageInvariance ==
  ASSUME OneCommandThread
  PROVE  Spec => []ImageInv
<1>1. TypeOK /\ IInv /\ ImageInv /\ [Next]_vars => ImageInv'
  BY NextImages
<1> QED  BY <1>1, InitImages, Invariance, PTL DEF Spec

\* The images of the dependencies of a plugin are open while its load callback runs, and
\* as long as it is running or paused: for any manifests, callbacks that run further
\* operations, other threads' pauses and resumes, and reloads, given that the commands
\* that load and unload run on one thread.
THEOREM ImagesHold ==
  ASSUME OneCommandThread
  PROVE  Spec => []ImageClosure
<1>1. IInv /\ ImageInv => ImageClosure
  <2> SUFFICES ASSUME IInv, ImageInv, NEW p \in Plugins,
                      plugin[p].state \in {"loaded", "paused"} \/ plugin[p].loading,
                      NEW d \in Deps[p]
               PROVE  plugin[d].image
    BY DEF ImageClosure
  <2>1. Relies(p)
    BY DEF ImageInv, RelyInv, Relies, Installed, Loads
  <2>2. Installed(d) /\ d \in Plugins
    BY <2>1, ConstantsAssumption DEF ImageInv, RelyInv, ConstantsAssumption
  <2> QED  BY <2>2 DEF IInv, RecordInv, RecordOK, Installed
<1> QED  BY <1>1, ImageInvariance, Invariance, PTL

-----------------------------------------------------------------------------
(* Who is told that it is part of a dependency cycle.                      *)

\* What an action of slot a leaves of the facts about its commands and its batch.
SlotOK(a) == CommandOK(op'[a], Kind[a]) /\ BatchOK(op'[a])

\* The step of a slot that has begun: whoever held a loading plugin holds it still.
LEMMA CycleStepKeeps ==
  ASSUME CycleInv, NEW a \in Actors, op[a].at # "idle",
         \A b \in Actors \ {a} : op'[b] = op[b], SlotOK(a),
         \A q \in Plugins : plugin'[q].state = "loading" =>
           Holds(op'[a], q) \/ (plugin[q].state = "loading" /\ ~Holds(op[a], q))
  PROVE  CycleInv'
<1>1. CommandsInv' /\ BatchInv'
  BY DEF CycleInv, CommandsInv, BatchInv, SlotOK
<1>2. LoadingInv'
  <2> SUFFICES ASSUME NEW q \in Plugins, plugin'[q].state = "loading"
               PROVE  \E b \in Actors : Holds(op'[b], q)
    BY DEF LoadingInv
  <2>1. CASE ~Holds(op'[a], q)
    <3>1. PICK b \in Actors : Holds(op[b], q) /\ b # a
      BY <2>1 DEF CycleInv, LoadingInv
    <3> QED  BY <3>1
  <2> QED  BY <2>1
<1>3. TurnInv'
  BY DEF CycleInv, TurnInv
<1> QED  BY <1>1, <1>2, <1>3 DEF CycleInv

\* Such a step that writes at most the record of p.
LEMMA CycleOwner ==
  ASSUME CycleInv, NEW a \in Actors, op[a].at # "idle",
         \A b \in Actors \ {a} : op'[b] = op[b], SlotOK(a),
         NEW p, \A q \in Plugins \ {p} : plugin'[q] = plugin[q] /\ ~Owns(op[a], q),
         op[a].batch \subseteq op'[a].batch,
         p \in Plugins => /\ plugin'[p].state = "loading" => Holds(op'[a], p)
                          /\ plugin'[p].cycle => plugin[p].cycle
  PROVE  CycleInv' /\ \A q \in Plugins : plugin'[q].cycle => plugin[q].cycle
<1>1. \A q \in Plugins : plugin'[q].state = "loading" =>
        Holds(op'[a], q) \/ (plugin[q].state = "loading" /\ ~Holds(op[a], q))
  BY DEF Holds
<1> QED  BY <1>1, CycleStepKeeps

\* An operation keeps its command and its batch; where a batch can be is in BatchOK.
LEMMA SlotStays ==
  ASSUME CycleInv, NEW a \in Actors, op[a].at # "idle",
         op'[a].cmd = op[a].cmd, op'[a].batch = op[a].batch,
         op[a].cmd = "pause" => op'[a].at \in {"deactivate", "drain", "prepare", "publish"},
         op[a].cmd = "resume" => op'[a].at = "publish",
         op[a].cmd = "batch" =>
           op'[a].at \in {"discover", "query", "batch", "load", "rollback", "cleanup"}
             \/ (op'[a].at = "publish" /\ op'[a].target # NoPlugin)
  PROVE  SlotOK(a)
BY DEF CycleInv, CommandsInv, BatchInv, SlotOK, CommandOK, BatchOK

\* The end of an operation that is no batch, or of a batch that has started all it has.
LEMMA EndSlot ==
  ASSUME TypeOK, CycleInv, NEW a \in Actors, End(a),
         op[a].cmd # "batch" \/ (op[a].at = "publish" /\ op[a].target = NoPlugin)
  PROVE  /\ SlotOK(a) /\ op[a].batch = {} /\ \A b \in Actors \ {a} : op'[b] = op[b]
         /\ op'[a].at = "idle"
<1>1. op[a].batch = {}
  BY DEF CycleInv, BatchInv, BatchOK
<1>2. op'[a] = Idle /\ \A b \in Actors \ {a} : op'[b] = op[b]
  BY DEF End, TypeOK
<1>3. SlotOK(a)
  BY <1>2 DEF SlotOK, CommandOK, BatchOK, Idle
<1> QED  BY <1>1, <1>2, <1>3 DEF Idle

\* The next point of an operation.
LEMMA GotoSlot ==
  ASSUME TypeOK, CycleInv, NEW a \in Actors, op[a].at # "idle", NEW at, Goto(a, at),
         op[a].cmd = "pause" => at \in {"deactivate", "drain", "prepare", "publish"},
         op[a].cmd = "resume" => at = "publish",
         op[a].cmd = "batch" =>
           at \in {"discover", "query", "batch", "load", "rollback", "cleanup"}
             \/ (at = "publish" /\ op[a].target # NoPlugin)
  PROVE  /\ SlotOK(a) /\ op'[a].batch = op[a].batch /\ \A b \in Actors \ {a} : op'[b] = op[b]
         /\ op'[a].at = at /\ op'[a].target = op[a].target /\ op'[a].cmd = op[a].cmd
<1>1. /\ op'[a].batch = op[a].batch /\ \A b \in Actors \ {a} : op'[b] = op[b]
      /\ op'[a].at = at /\ op'[a].target = op[a].target /\ op'[a].cmd = op[a].cmd
  BY GotoKeeps DEF SlotKeeps
<1>2. SlotOK(a)
  BY <1>1, SlotStays
<1> QED  BY <1>1, <1>2

\* The end of a load.
LEMMA LoadEndsSlot ==
  ASSUME TypeOK, CycleInv, NEW a \in Actors, op[a].at # "idle", LoadEnds(a)
  PROVE  /\ SlotOK(a) /\ op[a].batch \subseteq op'[a].batch
         /\ \A b \in Actors \ {a} : op'[b] = op[b]
<1>1. CASE op[a].cmd = "batch"
  BY <1>1, GotoSlot DEF LoadEnds
<1>2. CASE op[a].cmd = "reload" /\ op[a].attempt = "candidate"
  BY <1>2, GotoSlot DEF LoadEnds
<1>3. CASE ~(op[a].cmd = "batch") /\ ~(op[a].cmd = "reload" /\ op[a].attempt = "candidate")
  BY <1>3, EndSlot DEF LoadEnds
<1> QED  BY <1>1, <1>2, <1>3

\* What a step of a running operation may not do to the diagnoses and the hands.
Judged == CycleInv' /\ \A q \in Plugins : plugin'[q].cycle => plugin[q].cycle

\* Steps of a load: the plugin is loading in the hands of its operation.
LEMMA LoadStepJudges ==
  ASSUME TypeOK, IInv, CycleInv, NEW a \in Actors, LoadStep(a)
  PROVE  Judged
<1> DEFINE p == op[a].target
<1>0. op[a].at \in OwningPoints
  BY DEF LoadStep, OwningPoints, At, QueryRejected, QueryAccepted, StartPlugin,
         RejectUnstartedPlugin, LoadSucceeds, LoadFails, ReplacementPrepared,
         ReplacementUnloadPrepared, RollbackLayer, RollbackDone
<1>1. /\ p \in Plugins /\ p # NoPlugin /\ op[a] \in Operation /\ plugin[p] \in PluginRecord
      /\ Owns(op[a], p) /\ Consistent(op[a], p, plugin[p]) /\ OperationOK(op[a])
      /\ op[a].at # "idle"
  BY <1>0, Owned, ConstantsAssumption DEF IInv, TargetInv, ConstantsAssumption, OwningPoints
<1>2. \A q \in Plugins \ {p} : plugin'[q] = plugin[q] /\ ~Owns(op[a], q)
  <2>1. \A q \in Plugins \ {p} : plugin'[q] = plugin[q]
    BY DEF LoadStep, SetRecord, TypeOK, QueryRejected, QueryAccepted, StartPlugin,
         RejectUnstartedPlugin, LoadSucceeds, LoadFails, ReplacementPrepared,
         ReplacementUnloadPrepared, RollbackLayer, RollbackDone
  <2> QED  BY <2>1 DEF Owns
<1>3. op[a].cmd \notin {"pause", "resume"}
  <2>1. \/ op[a].at \in {"query", "start", "load", "rollback", "cleanup", "prepare_unload"}
        \/ op[a].at = "prepare" /\ op[a].cmd = "reload"
    BY DEF LoadStep, At, QueryRejected, QueryAccepted, StartPlugin,
         RejectUnstartedPlugin, LoadSucceeds, LoadFails, ReplacementPrepared,
         ReplacementUnloadPrepared, RollbackLayer, RollbackDone
  <2> QED  BY <2>1 DEF CycleInv, CommandsInv, CommandOK
<1>4. op[a].cmd = "batch" => op[a].at \in {"query", "load", "rollback", "cleanup"}
  BY <1>0 DEF CycleInv, BatchInv, BatchOK, OwningPoints
<1>5. ASSUME NEW at, Goto(a, at), plugin'[p].cycle => plugin[p].cycle,
             at \in {"start", "load", "prepare", "rollback", "cleanup"}
                \/ (at \in {"publish", "prepare_unload", "discover"} /\ plugin'[p].state # "loading"),
             at \notin {"start", "prepare", "prepare_unload"} \/ op[a].cmd # "batch"
      PROVE  Judged
  <2>1. /\ SlotOK(a) /\ op'[a].batch = op[a].batch /\ \A b \in Actors \ {a} : op'[b] = op[b]
        /\ op'[a].at = at /\ op'[a].target = op[a].target
    BY <1>1, <1>3, <1>5, GotoSlot
  <2>2. plugin'[p].state = "loading" => Holds(op'[a], p)
    BY <1>5, <2>1 DEF Holds, Owns, OwningPoints
  <2> QED  BY <1>1, <1>2, <1>5, <2>1, <2>2, CycleOwner DEF Judged
<1>6. ASSUME LoadEnds(a), plugin'[p].state # "loading", plugin'[p].cycle => plugin[p].cycle
      PROVE  Judged
  BY <1>1, <1>2, <1>6, LoadEndsSlot, CycleOwner DEF Judged
<1>7. CASE QueryRejected(a) \/ RejectUnstartedPlugin(a) \/ RollbackDone(a)
  <2>1. plugin'[p] = Closed("error") /\ (LoadEnds(a) \/ Goto(a, "discover"))
    BY <1>1, <1>7 DEF QueryRejected, RejectUnstartedPlugin, RollbackDone, SetRecord, TypeOK
  <2>2. plugin'[p].state = "error" /\ ~plugin'[p].cycle
    BY <2>1 DEF Closed, NoRecord
  <2> QED  BY <1>5, <1>6, <2>1, <2>2
<1>8. CASE QueryAccepted(a)
  <2>1. plugin'[p].cycle = plugin[p].cycle
    BY <1>1, <1>8 DEF QueryAccepted, SetRecord, TypeOK, PluginRecord
  <2>2. CASE op[a].cmd # "batch"
    BY <1>5, <1>8, <2>1, <2>2 DEF QueryAccepted
  <2>3. CASE op[a].cmd = "batch"
    <3>1. /\ \A b \in Actors \ {a} : op'[b] = op[b]
          /\ op'[a].at = "discover" /\ op'[a].cmd = op[a].cmd
          /\ op'[a].batch = op[a].batch \cup {p}
      BY <1>1, <1>8, <2>3 DEF QueryAccepted, TypeOK, Operation
    <3>2. SlotOK(a)
      BY <1>1, <2>3, <3>1 DEF CycleInv, CommandsInv, BatchInv, SlotOK, CommandOK, BatchOK
    <3>3. Holds(op'[a], p)
      BY <3>1 DEF Holds
    <3> QED  BY <1>1, <1>2, <2>1, <3>1, <3>2, <3>3, CycleOwner DEF Judged
  <2> QED  BY <2>2, <2>3
<1>9. CASE StartPlugin(a)
  <2>1. plugin'[p] = Started(plugin[p]) /\ Goto(a, "load")
    BY <1>1, <1>9 DEF StartPlugin, SetRecord, TypeOK
  <2>2. plugin'[p].cycle = plugin[p].cycle
    BY <1>1, <2>1 DEF Started, PluginRecord
  <2> QED  BY <1>5, <2>1, <2>2
<1>10. CASE LoadSucceeds(a) /\ ActivateDispatch(a)
  <2>1. /\ plugin'[p] = Restored([plugin[p] EXCEPT !.loading = FALSE, !.state = "loaded"])
        /\ Goto(a, "publish")
    BY <1>1, <1>10 DEF LoadSucceeds, SetRecord, TypeOK
  <2>2. plugin'[p].cycle = plugin[p].cycle /\ plugin'[p].state = "loaded"
    BY <1>1, <2>1 DEF Restored, PluginRecord
  <2> QED  BY <1>5, <2>1, <2>2
<1>11. CASE LoadSucceeds(a) /\ ~ActivateDispatch(a)
  <2>1. /\ plugin'[p] = [plugin[p] EXCEPT !.loading = FALSE, !.accepting = FALSE]
        /\ Goto(a, "prepare") /\ op[a].cmd # "batch"
    BY <1>1, <1>11 DEF LoadSucceeds, SetRecord, TypeOK, ActivateDispatch
  <2>2. plugin'[p].cycle = plugin[p].cycle
    BY <1>1, <2>1 DEF PluginRecord
  <2> QED  BY <1>5, <2>1, <2>2
<1>12. CASE LoadFails(a)
  <2>1. /\ plugin'[p] = [plugin[p] EXCEPT !.loading = FALSE, !.accepting = FALSE]
        /\ Goto(a, "rollback")
    BY <1>1, <1>12 DEF LoadFails, SetRecord, TypeOK
  <2>2. plugin'[p].cycle = plugin[p].cycle
    BY <1>1, <2>1 DEF PluginRecord
  <2> QED  BY <1>5, <2>1, <2>2
<1>13. CASE ReplacementPrepared(a)
  <2>1. PICK st \in {"paused", "error"}, at \in {"publish", "prepare_unload"} :
          plugin'[p] = [plugin[p] EXCEPT !.state = st] /\ Goto(a, at)
    BY <1>1, <1>13 DEF ReplacementPrepared, SetRecord, TypeOK
  <2>2. plugin'[p].cycle = plugin[p].cycle /\ plugin'[p].state = st
    BY <1>1, <2>1 DEF PluginRecord
  <2>3. op[a].cmd # "batch"
    BY <1>13 DEF ReplacementPrepared
  <2> QED  BY <1>5, <2>1, <2>2, <2>3
<1>14. CASE ReplacementUnloadPrepared(a)
  <2>1. /\ plugin[p].state = "error" /\ op[a].at = "prepare_unload"
        /\ LoadEnds(a) \/ Goto(a, "rollback")
        /\ \/ plugin'[p] = plugin[p]
           \/ plugin'[p] = [plugin[p] EXCEPT !.cleanup_pending = TRUE]
    BY <1>1, <1>14 DEF ReplacementUnloadPrepared, SetRecord, TypeOK, At
  <2>2. plugin'[p].state = "error" /\ plugin'[p].cycle = plugin[p].cycle
    BY <1>1, <2>1 DEF PluginRecord
  <2> QED  BY <1>5, <1>6, <2>1, <2>2
<1>15. CASE RollbackLayer(a)
  <2>1. op[a].at = "rollback"
    BY <1>15 DEF RollbackLayer, At
  <2>2. PICK f, l :
          \/ plugin'[p] = [plugin[p] EXCEPT !.state = "error", !.live = {},
                                           !.cleanup_pending = f]
          \/ plugin'[p] = [plugin[p] EXCEPT !.live = @ \ {l}]
    BY <1>1, <1>15, RollbackRecord
  <2>3. plugin'[p].cycle = plugin[p].cycle
    BY <1>1, <2>2 DEF PluginRecord
  <2>4. CASE LastLayer(a)
    <3>1. \E f2 : SetRecord(p, [plugin[p] EXCEPT !.state = "error", !.live = {},
                                                !.cleanup_pending = f2])
      BY <1>15, <2>4 DEF RollbackLayer
    <3>2. plugin'[p].state = "error"
      BY <1>1, <3>1 DEF SetRecord, TypeOK, PluginRecord
    <3>3. LoadEnds(a) \/ Goto(a, "cleanup")
      BY <1>15, <2>4 DEF RollbackLayer
    <3> QED  BY <1>5, <1>6, <2>3, <3>2, <3>3
  <2>5. CASE ~LastLayer(a)
    <3>1. PICK g \in BOOLEAN : op' = [op EXCEPT ![a].step = @ + 1, ![a].failed = g]
      BY <1>1, <1>15, <2>5 DEF RollbackLayer, Operation
    <3>2. /\ \A b \in Actors \ {a} : op'[b] = op[b]
          /\ op'[a].at = op[a].at /\ op'[a].cmd = op[a].cmd
          /\ op'[a].batch = op[a].batch /\ op'[a].target = p
      BY <1>1, <3>1 DEF TypeOK, Operation
    <3>3. SlotOK(a)
      BY <1>1, <1>3, <2>1, <3>2, SlotStays
    <3>4. Holds(op'[a], p)
      BY <2>1, <3>2 DEF Holds, Owns, OwningPoints
    <3> QED  BY <1>1, <1>2, <2>3, <3>2, <3>3, <3>4, CycleOwner DEF Judged
  <2> QED  BY <2>4, <2>5
<1> QED  BY <1>7, <1>8, <1>9, <1>10, <1>11, <1>12, <1>13, <1>14, <1>15 DEF LoadStep

\* Steps of a batch: what it no longer holds is started or rejected.
LEMMA BatchStepJudges ==
  ASSUME TypeOK, IInv, CycleInv, NEW a \in Actors, BatchStep(a)
  PROVE  /\ CycleInv'
         /\ \A q \in Plugins : plugin'[q].cycle =>
              plugin[q].cycle \/ (RejectCycle(a) /\ q \in op[a].batch)
<1>1. /\ op[a] \in Operation /\ op[a].batch \in SUBSET Plugins
      /\ \A b \in Actors \ {a} : op'[b] = op[b]
  BY DEF TypeOK, Operation, BatchStep, DiscoverPlugin, StartDiscovered, DiscoveryDone,
         RejectCycle, BatchDone, Goto
<1>2. op[a].at \in {"discover", "batch"} /\ op[a].cmd = "batch" /\ op[a].at # "idle"
  <2>1. op[a].at \in {"discover", "batch"}
    BY DEF BatchStep, At, DiscoverPlugin, StartDiscovered, DiscoveryDone, RejectCycle, BatchDone
  <2> QED  BY <2>1 DEF IInv, TargetInv, OperationOK
<1>3. \A q \in Plugins : ~Owns(op[a], q) /\ (Holds(op[a], q) <=> q \in op[a].batch)
  BY <1>2 DEF Owns, OwningPoints, Holds
<1>4. ASSUME op'[a].cmd = op[a].cmd,
             op'[a].at \in {"discover", "query", "batch", "load"}
               \/ (op'[a].at = "publish" /\ op'[a].batch = {})
      PROVE  SlotOK(a)
  <2>1. CommandOK(op'[a], Kind[a])
    BY <1>2, <1>4, CommandKept DEF CycleInv
  <2>2. BatchOK(op'[a])
    BY <1>2, <1>4 DEF BatchOK
  <2> QED  BY <2>1, <2>2 DEF SlotOK
<1>5. ASSUME NEW p \in Plugins, DiscoverPlugin(a, p)
      PROVE  Judged
  <2>1. /\ op'[a].cmd = op[a].cmd /\ op'[a].batch = op[a].batch
        /\ op'[a].at \in {"discover", "query"}
    BY <1>1, <1>5 DEF DiscoverPlugin, TypeOK, Operation, At
  <2>2. /\ \A q \in Plugins \ {p} : plugin'[q] = plugin[q]
        /\ plugin'[p] \in {plugin[p], Discovered}
    BY <1>5 DEF DiscoverPlugin, SetRecord, TypeOK
  <2>3. Discovered.state = "error" /\ ~Discovered.cycle
    BY DEF Discovered, NoRecord
  <2>4. plugin'[p].state = "loading" => Holds(op'[a], p) \/ (plugin[p].state = "loading" /\ ~Holds(op[a], p))
    BY <2>1, <2>2, <2>3, <1>3 DEF Holds
  <2>5. \A q \in Plugins : plugin'[q].state = "loading" =>
          Holds(op'[a], q) \/ (plugin[q].state = "loading" /\ ~Holds(op[a], q))
    BY <1>3, <2>1, <2>2, <2>4 DEF Holds
  <2>6. CycleInv'
    BY <1>1, <1>2, <1>4, <2>1, <2>5, CycleStepKeeps
  <2> QED  BY <2>2, <2>3, <2>6 DEF Judged
<1>6. ASSUME NEW p \in Plugins, StartDiscovered(a, p)
      PROVE  Judged
  <2>1. p \in op[a].batch /\ Holds(op[a], p) /\ plugin[p] \in PluginRecord
    BY <1>6 DEF StartDiscovered, Holds, TypeOK
  <2>2. /\ op'[a].cmd = op[a].cmd /\ op'[a].batch = op[a].batch \ {p}
        /\ \A q \in Plugins \ {p} : plugin'[q] = plugin[q]
        /\ \/ plugin'[p] = Closed("error") /\ op'[a].at = op[a].at
           \/ plugin'[p] = Started(plugin[p]) /\ op'[a].at = "load" /\ op'[a].target = p
    BY <1>1, <1>6 DEF StartDiscovered, SetRecord, TypeOK, Operation
  <2>3. plugin'[p].cycle => plugin[p].cycle
    BY <2>1, <2>2 DEF Closed, NoRecord, Started, PluginRecord
  <2>4. plugin'[p].state = "loading" => Holds(op'[a], p)
    BY <2>2 DEF Closed, NoRecord, Holds, Owns, OwningPoints
  <2>5. \A q \in Plugins : plugin'[q].state = "loading" =>
          Holds(op'[a], q) \/ (plugin[q].state = "loading" /\ ~Holds(op[a], q))
    BY <1>3, <2>2, <2>4 DEF Holds
  <2>6. CycleInv'
    BY <1>1, <1>2, <1>4, <2>2, <2>5, CycleStepKeeps
  <2> QED  BY <2>2, <2>3, <2>6 DEF Judged
<1>7. CASE DiscoveryDone(a) \/ BatchDone(a)
  <2>1. plugin' = plugin
    BY <1>7 DEF DiscoveryDone, BatchDone
  <2>2. /\ op'[a].cmd = op[a].cmd /\ op'[a].batch = op[a].batch
        /\ op'[a].at = "batch" \/ (op'[a].at = "publish" /\ op'[a].batch = {})
    BY <1>1, <1>7 DEF DiscoveryDone, BatchDone, Goto, TypeOK, Operation
  <2>3. \A q \in Plugins : plugin'[q].state = "loading" =>
          Holds(op'[a], q) \/ (plugin[q].state = "loading" /\ ~Holds(op[a], q))
    BY <1>3, <2>1, <2>2 DEF Holds
  <2>4. CycleInv'
    BY <1>1, <1>2, <1>4, <2>2, <2>3, CycleStepKeeps
  <2> QED  BY <2>1, <2>4 DEF Judged
<1>8. CASE RejectCycle(a)
  <2>1. op'[a].cmd = op[a].cmd /\ op'[a].at = op[a].at
    BY <1>1, <1>8 DEF RejectCycle, TypeOK, Operation
  <2>2. \A q \in Plugins : IF q \in op[a].batch THEN plugin'[q] = [Closed("error") EXCEPT !.cycle = TRUE]
                                                ELSE plugin'[q] = plugin[q]
    BY <1>8 DEF RejectCycle
  <2>3. \A q \in Plugins : plugin'[q].state = "loading" =>
          Holds(op'[a], q) \/ (plugin[q].state = "loading" /\ ~Holds(op[a], q))
    BY <1>3, <2>2 DEF Closed, NoRecord
  <2>4. CycleInv'
    BY <1>1, <1>2, <1>4, <2>1, <2>3, CycleStepKeeps
  <2> QED  BY <1>8, <2>2, <2>4
<1> QED  BY <1>5, <1>6, <1>7, <1>8 DEF BatchStep, Judged

\* Steps of a transition: no plugin is loading there, and a batch has none.
LEMMA TransitionStepJudges ==
  ASSUME TypeOK, IInv, CycleInv, NEW a \in Actors, TransitionStep(a)
  PROVE  Judged
<1> DEFINE p == op[a].target
<1>0. op[a].at \in {"deactivate", "drain", "prepare", "prepare_unload", "release", "unload"}
  BY DEF TransitionStep, At, Deactivate, DeactivateDone, DeactivateBusy, PausePrepared,
         UnloadPrepared, ReleaseLayer, ReleaseFails, UnloadPlugin
<1>1. /\ p \in Plugins /\ op[a] \in Operation /\ plugin[p] \in PluginRecord
      /\ Consistent(op[a], p, plugin[p]) /\ op[a].at # "idle"
  BY <1>0, Owned DEF OwningPoints
<1>2. plugin[p].state # "loading" /\ Owns(op[a], p)
  <2>1. Departs(op[a], p, plugin[p])
    BY DEF Departs, TransitionStep, At, Deactivate, DeactivateDone, DeactivateBusy,
         PausePrepared, UnloadPrepared, ReleaseLayer, ReleaseFails, UnloadPlugin
  <2>2. Owns(op[a], p)
    BY <1>0 DEF Owns, OwningPoints
  <2> QED  BY <1>1, <2>1, <2>2 DEF Consistent
<1>3. op[a].cmd # "batch" /\ op[a].cmd # "resume"
  BY <1>0 DEF CycleInv, BatchInv, BatchOK, CommandsInv, CommandOK
<1>4. \A q \in Plugins \ {p} : plugin'[q] = plugin[q] /\ ~Owns(op[a], q)
  <2>1. \A q \in Plugins \ {p} : plugin'[q] = plugin[q]
    BY DEF TransitionStep, SetRecord, TypeOK, Deactivate, DeactivateDone, DeactivateBusy,
         PausePrepared, UnloadPrepared, ReleaseLayer, ReleaseFails, UnloadPlugin, Abandon
  <2> QED  BY <2>1 DEF Owns
<1>5. ASSUME SlotOK(a), op[a].batch \subseteq op'[a].batch,
             \A b \in Actors \ {a} : op'[b] = op[b],
             plugin'[p].state # "loading", plugin'[p].cycle => plugin[p].cycle
      PROVE  Judged
  BY <1>1, <1>4, <1>5, CycleOwner DEF Judged
<1>6. ASSUME NEW r, Abandon(a, r), r \in PluginRecord, r.state = plugin[p].state,
             r.cycle = plugin[p].cycle
      PROVE  Judged
  <2>1. plugin'[p].state = plugin[p].state /\ plugin'[p].cycle = plugin[p].cycle
    BY <1>1, <1>6 DEF Abandon, SetRecord, Settled, PluginRecord, TypeOK
  <2> QED  BY <1>1, <1>2, <1>3, <1>5, <1>6, <2>1, EndSlot DEF Abandon
<1>7. ASSUME NEW at, Goto(a, at), at \in {"prepare", "prepare_unload", "release", "unload",
                                         "publish", "publish_unloaded"},
             op[a].cmd = "pause" => at \in {"prepare", "publish"},
             plugin'[p].state # "loading", plugin'[p].cycle => plugin[p].cycle
      PROVE  Judged
  BY <1>1, <1>3, <1>5, <1>7, GotoSlot
<1>8. ASSUME op'[a].cmd = op[a].cmd, op'[a].batch = op[a].batch,
             \A b \in Actors \ {a} : op'[b] = op[b],
             op'[a].at \in {"deactivate", "drain", "release"},
             op[a].cmd = "pause" => op'[a].at # "release",
             plugin'[p].state # "loading", plugin'[p].cycle => plugin[p].cycle
      PROVE  Judged
  BY <1>1, <1>3, <1>5, <1>8, SlotStays
<1>9. Restored(plugin[p]) \in PluginRecord /\ Restored(plugin[p]).state = plugin[p].state
      /\ Restored(plugin[p]).cycle = plugin[p].cycle
  BY <1>1 DEF Restored, PluginRecord, Layers
<1>10. op[a].cmd = "pause" => op[a].at \in {"deactivate", "drain", "prepare"}
  BY <1>0 DEF CycleInv, CommandsInv, CommandOK
<1>11. CASE Deactivate(a)
  <2>1. \E l : plugin'[p] = [plugin[p] EXCEPT !.live = @ \ {l}]
    BY <1>1, <1>11 DEF Deactivate, SetRecord, TypeOK
  <2>2. plugin'[p].state = plugin[p].state /\ plugin'[p].cycle = plugin[p].cycle
    BY <1>1, <2>1 DEF PluginRecord
  <2>3. /\ op'[a].cmd = op[a].cmd /\ op'[a].batch = op[a].batch /\ op'[a].at = "drain"
        /\ \A b \in Actors \ {a} : op'[b] = op[b]
    BY <1>1, <1>11 DEF Deactivate, TypeOK, Operation
  <2> QED  BY <1>2, <1>8, <2>2, <2>3
<1>12. CASE DeactivateDone(a)
  <2>1. plugin' = plugin
    BY <1>12 DEF DeactivateDone
  <2>2. CASE op[a].was_running /\ op[a].step < 6
    <3>1. /\ op'[a].cmd = op[a].cmd /\ op'[a].batch = op[a].batch /\ op'[a].at = "deactivate"
          /\ \A b \in Actors \ {a} : op'[b] = op[b]
      BY <1>1, <1>12, <2>2 DEF DeactivateDone, TypeOK, Operation
    <3> QED  BY <1>2, <1>8, <2>1, <3>1
  <2>3. CASE ~(op[a].was_running /\ op[a].step < 6)
    <3>1. Goto(a, IF op[a].cmd = "pause" THEN "prepare" ELSE "prepare_unload")
      BY <1>12, <2>3 DEF DeactivateDone
    <3> QED  BY <1>2, <1>7, <2>1, <3>1
  <2> QED  BY <2>2, <2>3
<1>13. CASE DeactivateBusy(a)
  <2>1. \E l : Abandon(a, RestoredAfter(plugin[p], op[a].cmd, l))
    BY <1>13 DEF DeactivateBusy
  <2>2. \A l : LET r == RestoredAfter(plugin[p], op[a].cmd, l) IN
                 r \in PluginRecord /\ r.state = plugin[p].state /\ r.cycle = plugin[p].cycle
    BY <1>1, <1>9 DEF RestoredAfter, PluginRecord, Layers
  <2> QED  BY <1>6, <2>1, <2>2
<1>14. CASE PausePrepared(a)
  <2>1. CASE plugin'[p] = [plugin[p] EXCEPT !.state = "paused"] /\ Goto(a, "publish")
    <3>1. plugin'[p].state = "paused" /\ plugin'[p].cycle = plugin[p].cycle
      BY <1>1, <2>1 DEF PluginRecord
    <3> QED  BY <1>7, <2>1, <3>1
  <2>2. CASE Abandon(a, Restored(plugin[p]))
    BY <1>6, <1>9, <2>2
  <2> QED  BY <1>1, <1>14, <2>1, <2>2 DEF PausePrepared, SetRecord, TypeOK
<1>15. CASE UnloadPrepared(a)
  <2>1. op[a].cmd # "pause"
    BY <1>10, <1>15 DEF UnloadPrepared, At
  <2> QED  BY <1>1, <1>2, <1>6, <1>7, <1>9, <1>15, <2>1 DEF UnloadPrepared
<1>16. CASE ReleaseLayer(a)
  <2>1. \E S : plugin'[p] = [plugin[p] EXCEPT !.live = @ \ S]
    BY <1>1, <1>16 DEF ReleaseLayer, SetRecord, TypeOK
  <2>2. plugin'[p].state = plugin[p].state /\ plugin'[p].cycle = plugin[p].cycle
    BY <1>1, <2>1 DEF PluginRecord
  <2>3. op[a].at = "release" /\ op[a].cmd # "pause"
    BY <1>10, <1>16 DEF ReleaseLayer, At
  <2>4. CASE LastLayer(a)
    BY <1>2, <1>7, <1>16, <2>2, <2>3, <2>4 DEF ReleaseLayer
  <2>5. CASE ~LastLayer(a)
    <3>1. /\ op'[a].cmd = op[a].cmd /\ op'[a].batch = op[a].batch /\ op'[a].at = op[a].at
          /\ \A b \in Actors \ {a} : op'[b] = op[b]
      BY <1>1, <1>16, <2>5 DEF ReleaseLayer, TypeOK, Operation
    <3> QED  BY <1>2, <1>8, <2>2, <2>3, <3>1
  <2> QED  BY <2>4, <2>5
<1>17. CASE ReleaseFails(a)
  <2> DEFINE r == [plugin[p] EXCEPT !.cleanup_pending = TRUE]
  <2>1. r \in PluginRecord /\ r.state = plugin[p].state /\ r.cycle = plugin[p].cycle
    BY <1>1 DEF PluginRecord
  <2>2. Abandon(a, r) \/ Abandon(a, Restored(plugin[p]))
    BY <1>17 DEF ReleaseFails
  <2> HIDE DEF r
  <2> QED  BY <1>6, <1>9, <2>1, <2>2
<1>18. CASE UnloadPlugin(a)
  <2>1. \E s \in {"absent", "disabled"} : plugin'[p] = Closed(s)
    BY <1>1, <1>18 DEF UnloadPlugin, SetRecord, TypeOK
  <2>2. plugin'[p].state # "loading" /\ ~plugin'[p].cycle
    BY <2>1 DEF Closed, NoRecord
  <2>3. op[a].cmd # "pause" /\ Goto(a, "publish_unloaded")
    BY <1>10, <1>18 DEF UnloadPlugin, At
  <2> QED  BY <1>7, <2>2, <2>3
<1> QED  BY <1>11, <1>12, <1>13, <1>14, <1>15, <1>16, <1>17, <1>18 DEF TransitionStep

\* The loads of a reload.
LEMMA ReplacementJudges ==
  ASSUME TypeOK, CycleInv, NEW a \in Actors,
         op[a].at \in {"publish_unloaded", "candidate"}, op[a].cmd = "reload",
         op[a].target \in Plugins, NEW attempt, LoadReplacement(a, attempt)
  PROVE  Judged
<1> DEFINE p == op[a].target
<1>1. \A q \in Plugins : ~Owns(op[a], q)
  BY DEF Owns, OwningPoints
<1>2. CASE plugin[p].state \in {"absent", "disabled"}
  <2>1. /\ plugin'[p] = Discovered /\ \A q \in Plugins \ {p} : plugin'[q] = plugin[q]
        /\ op'[a].at = "query" /\ op'[a].cmd = op[a].cmd /\ op'[a].batch = op[a].batch
        /\ \A b \in Actors \ {a} : op'[b] = op[b]
    BY <1>2 DEF LoadReplacement, SetRecord, TypeOK, Operation
  <2>2. plugin'[p].state # "loading" /\ ~plugin'[p].cycle
    BY <2>1 DEF Discovered, NoRecord
  <2>3. SlotOK(a)
    BY <2>1, SlotStays
  <2> QED  BY <1>1, <2>1, <2>2, <2>3, CycleOwner DEF Judged
<1>3. CASE plugin[p].state \notin {"absent", "disabled"}
  <2>1. End(a) /\ plugin' = plugin
    BY <1>3 DEF LoadReplacement
  <2>2. SlotOK(a) /\ op[a].batch = {} /\ \A b \in Actors \ {a} : op'[b] = op[b]
    BY <2>1, EndSlot
  <2>3. \A q \in Plugins : ~Holds(op[a], q)
    BY <1>1, <2>2 DEF Holds
  <2>4. CycleInv'
    BY <2>1, <2>2, <2>3, CycleStepKeeps
  <2> QED  BY <2>1, <2>4 DEF Judged
<1> QED  BY <1>2, <1>3

\* Steps after an unload, and the last of a pause, a resume and a load.
LEMMA AfterStepJudges ==
  ASSUME TypeOK, IInv, ProgressInv, CycleInv, NEW a \in Actors, AfterStep(a)
  PROVE  Judged
<1> DEFINE p == op[a].target
<1>1. op[a] \in Operation /\ OperationOK(op[a])
  BY DEF TypeOK, IInv, TargetInv
<1>2. ASSUME SlotOK(a), op[a].batch \subseteq op'[a].batch, op[a].at # "idle",
             \A b \in Actors \ {a} : op'[b] = op[b], plugin' = plugin,
             \A q \in Plugins : ~Owns(op[a], q)
      PROVE  Judged
  <2>1. \A q \in Plugins : plugin'[q].state = "loading" =>
          Holds(op'[a], q) \/ (plugin[q].state = "loading" /\ ~Holds(op[a], q))
    BY <1>2 DEF Holds
  <2> QED  BY <1>2, <2>1, CycleStepKeeps DEF Judged
<1>3. CASE PublishDone(a)
  <2>1. op[a].at = "publish" /\ op[a].at # "idle"
    BY <1>3 DEF PublishDone, At
  <2>2. /\ SlotOK(a) /\ op[a].batch \subseteq op'[a].batch
        /\ \A b \in Actors \ {a} : op'[b] = op[b]
    <3>1. CASE p = NoPlugin
      BY <1>3, <2>1, <3>1, EndSlot DEF PublishDone
    <3>2. CASE p # NoPlugin
      BY <1>3, <2>1, <3>2, LoadEndsSlot DEF PublishDone
    <3> QED  BY <3>1, <3>2
  <2>3. CASE op[a].cmd \in {"pause", "resume"} /\ p \in Plugins
    <3>1. plugin'[p] = Settled(plugin[p]) /\ \A q \in Plugins \ {p} : plugin'[q] = plugin[q]
      BY <1>3, <2>3 DEF PublishDone, SetRecord, TypeOK
    <3>2. plugin[p].state \in {"paused", "loaded"} /\ plugin[p] \in PluginRecord
      BY <2>1, <2>3 DEF ProgressInv, Progressed, TypeOK
    <3>3. plugin'[p].state # "loading" /\ plugin'[p].cycle = plugin[p].cycle
      BY <3>1, <3>2 DEF Settled, PluginRecord
    <3>4. \A q \in Plugins \ {p} : ~Owns(op[a], q)
      BY DEF Owns
    <3> QED  BY <2>1, <2>2, <3>1, <3>3, <3>4, CycleOwner DEF Judged
  <2>4. CASE ~(op[a].cmd \in {"pause", "resume"} /\ p \in Plugins)
    <3>1. plugin' = plugin
      BY <1>3, <2>4 DEF PublishDone, SetRecord, TypeOK
    <3>2. \A q \in Plugins : ~Owns(op[a], q)
      BY <2>1, <2>4 DEF Owns, OwningPoints
    <3> QED  BY <1>2, <2>1, <2>2, <3>1, <3>2
  <2> QED  BY <2>3, <2>4
<1>4. ASSUME ~PublishDone(a)
      PROVE  /\ op[a].at \in {"publish_unloaded", "candidate"} /\ p \in Plugins
             /\ op[a].at = "candidate" => op[a].cmd = "reload"
             /\ op[a].cmd # "batch" /\ op[a].at # "idle"
             /\ \A q \in Plugins : ~Owns(op[a], q)
  <2>1. /\ op[a].at \in {"publish_unloaded", "candidate"} /\ p \in Plugins
        /\ op[a].at = "candidate" => op[a].cmd = "reload"
    BY <1>1, <1>4 DEF AfterStep, At, PublishUnloadedDone, CandidateKept, CandidateUnloaded,
         CandidateDiscarded, OperationOK
  <2>2. op[a].cmd # "batch"
    BY <2>1 DEF CycleInv, BatchInv, BatchOK
  <2> QED  BY <2>1, <2>2 DEF Owns, OwningPoints
<1>5. ASSUME ~PublishDone(a), End(a), plugin' = plugin
      PROVE  Judged
  BY <1>2, <1>4, <1>5, EndSlot
<1>6. CASE ~PublishDone(a) /\ (PublishUnloadedDone(a) \/ CandidateKept(a))
  <2>1. \/ End(a) /\ plugin' = plugin
        \/ op[a].cmd = "reload" /\ \E n : LoadReplacement(a, n)
    BY <1>6 DEF PublishUnloadedDone, CandidateKept
  <2> QED  BY <1>4, <1>5, <1>6, <2>1, ReplacementJudges
<1>7. CASE ~PublishDone(a) /\ CandidateUnloaded(a)
  <2>1. /\ plugin[p].state \in {"loaded", "paused"} /\ op[a].at = "candidate"
        /\ plugin'[p] = Closing(plugin[p]) /\ plugin[p] \in PluginRecord
        /\ \A q \in Plugins \ {p} : plugin'[q] = plugin[q]
    BY <1>4, <1>7 DEF CandidateUnloaded, CanUnload, At, SetRecord, TypeOK
  <2>2. /\ op'[a].at = "deactivate" /\ op'[a].cmd = op[a].cmd /\ op'[a].batch = op[a].batch
        /\ \A b \in Actors \ {a} : op'[b] = op[b]
    BY <1>1, <1>7 DEF CandidateUnloaded, TypeOK, Operation
  <2>3. plugin'[p].state # "loading" /\ plugin'[p].cycle = plugin[p].cycle
    BY <2>1 DEF Closing, PluginRecord
  <2>4. SlotOK(a)
    BY <1>4, <1>7, <2>1, <2>2, SlotStays
  <2> QED  BY <1>4, <1>7, <2>1, <2>2, <2>3, <2>4, CycleOwner DEF Judged
<1>8. CASE ~PublishDone(a) /\ CandidateDiscarded(a)
  <2>0. op[a].at = "candidate"
    BY <1>8 DEF CandidateDiscarded, At
  <2>1. CASE plugin[p].state = "error" /\ ~plugin[p].image
    <3>1. /\ plugin'[p] = Discovered /\ \A q \in Plugins \ {p} : plugin'[q] = plugin[q]
          /\ op'[a].at = "query" /\ op'[a].cmd = op[a].cmd /\ op'[a].batch = op[a].batch
          /\ \A b \in Actors \ {a} : op'[b] = op[b]
      BY <1>1, <1>4, <1>8, <2>1 DEF CandidateDiscarded, SetRecord, TypeOK, Operation
    <3>2. plugin'[p].state # "loading" /\ ~plugin'[p].cycle
      BY <3>1 DEF Discovered, NoRecord
    <3>3. SlotOK(a)
      BY <1>4, <1>8, <2>0, <3>1, SlotStays
    <3> QED  BY <1>4, <1>8, <3>1, <3>2, <3>3, CycleOwner DEF Judged
  <2>2. CASE ~(plugin[p].state = "error" /\ ~plugin[p].image)
    BY <1>4, <1>8, <2>0, <2>2, ReplacementJudges DEF CandidateDiscarded
  <2> QED  BY <2>1, <2>2
<1> QED  BY <1>3, <1>6, <1>7, <1>8 DEF AfterStep

\* The beginning of an operation: it is the only one of its kind.
LEMMA CommandJudges ==
  ASSUME TypeOK, IInv, CycleInv, NEW a \in Actors, Command(a)
  PROVE  Judged
<1>1. ASSUME NEW c, NEW p, NEW at, Begin(a, c, p, at)
      PROVE  /\ \A b \in Actors \ {a} : op'[b] = op[b]
             /\ op'[a].at = at /\ op'[a].target = p /\ op'[a].cmd = c /\ op'[a].batch = {}
             /\ c \in CommandsOf(Kind[a]) /\ Admitted(a)
  BY <1>1 DEF Begin, TypeOK, Idle
<1>2. Admitted(a) /\ op[a].at = "idle"
  BY DEF Command, BeginBatch, BeginLoad, BeginPause, BeginResume, BeginUnload, Begin, Admitted
<1>3. op[a].batch = {} /\ \A q \in Plugins : ~Holds(op[a], q)
  <2>1. op[a].batch = {}
    BY <1>2 DEF CycleInv, BatchInv, BatchOK
  <2> QED  BY <1>2, <2>1 DEF Holds, Owns, OwningPoints
<1>4. ASSUME SlotOK(a), \A b \in Actors \ {a} : op'[b] = op[b],
             \A q \in Plugins : plugin'[q].state = "loading" => plugin[q].state = "loading"
      PROVE  CycleInv'
  <2>1. CommandsInv' /\ BatchInv'
    BY <1>4 DEF CycleInv, CommandsInv, BatchInv, SlotOK
  <2>2. LoadingInv'
    BY <1>3, <1>4 DEF CycleInv, LoadingInv
  <2>3. TurnInv'
    BY <1>2, <1>4 DEF CycleInv, TurnInv, Admitted
  <2> QED  BY <2>1, <2>2, <2>3 DEF CycleInv
<1>5. CASE BeginBatch(a)
  <2>1. /\ plugin' = plugin /\ \A b \in Actors \ {a} : op'[b] = op[b]
        /\ op'[a].at = "discover" /\ op'[a].cmd = "batch" /\ "batch" \in CommandsOf(Kind[a])
        /\ op'[a].batch = {}
    BY <1>5 DEF BeginBatch, TypeOK, Idle
  <2>2. SlotOK(a)
    BY <2>1 DEF SlotOK, CommandOK, BatchOK
  <2> QED  BY <1>4, <2>1, <2>2 DEF Judged
<1>6. ASSUME NEW c \in Commands \ {"batch"}, NEW p \in Plugins, NEW at, Begin(a, c, p, at), NEW r,
             SetRecord(p, r), r.state # "loading", r.cycle => plugin[p].cycle,
             c = "pause" => at = "deactivate", c = "resume" => at = "publish"
      PROVE  Judged
  <2>1. plugin'[p] = r /\ \A q \in Plugins \ {p} : plugin'[q] = plugin[q]
    BY <1>6 DEF SetRecord, TypeOK
  <2>2. SlotOK(a)
    BY <1>1, <1>6 DEF SlotOK, CommandOK, BatchOK
  <2> QED  BY <1>1, <1>4, <1>6, <2>1, <2>2 DEF Judged
<1>7. ASSUME NEW p \in Plugins, BeginLoad(a, p)
      PROVE  Judged
  <2>1. SetRecord(p, Discovered) /\ Begin(a, "load", p, "query") /\ "load" \in Commands \ {"batch"}
    BY <1>7 DEF BeginLoad, Commands
  <2>2. Discovered.state # "loading" /\ ~Discovered.cycle
    BY DEF Discovered, NoRecord
  <2> QED  BY <1>6, <2>1, <2>2
<1>8. ASSUME NEW p \in Plugins, plugin[p].state \in {"loaded", "paused"}
      PROVE  Closing(plugin[p]).state # "loading" /\ Closing(plugin[p]).cycle = plugin[p].cycle
  <2>1. plugin[p] \in PluginRecord
    BY DEF TypeOK
  <2> QED  BY <1>8, <2>1 DEF Closing, PluginRecord
<1>9. ASSUME NEW p \in Plugins, BeginPause(a, p)
      PROVE  Judged
  <2>1. /\ SetRecord(p, Closing(plugin[p])) /\ Begin(a, "pause", p, "deactivate")
        /\ plugin[p].state = "loaded" /\ "pause" \in Commands \ {"batch"}
    BY <1>9 DEF BeginPause, Commands
  <2> QED  BY <1>6, <1>8, <2>1
<1>10. ASSUME NEW p \in Plugins, BeginUnload(a, p)
      PROVE  Judged
  <2>1. PICK c \in {"unload", "reload"} : Begin(a, c, p, "deactivate")
    BY <1>10 DEF BeginUnload
  <2>2. /\ SetRecord(p, Closing(plugin[p])) /\ plugin[p].state \in {"loaded", "paused"}
        /\ c \in Commands \ {"batch"}
    BY <1>10 DEF BeginUnload, CanUnload, Commands
  <2> QED  BY <1>6, <1>8, <2>1, <2>2
<1>11. ASSUME NEW p \in Plugins, BeginResume(a, p)
      PROVE  Judged
  <2> DEFINE r == Restored([plugin[p] EXCEPT !.state = "loaded", !.transitioning = TRUE])
  <2>1. plugin[p] \in PluginRecord
    BY DEF TypeOK
  <2>2. r.state = "loaded" /\ r.cycle = plugin[p].cycle
    BY <2>1 DEF Restored, PluginRecord
  <2>3. SetRecord(p, r) /\ Begin(a, "resume", p, "publish") /\ "resume" \in Commands \ {"batch"}
    BY <1>11 DEF BeginResume, Commands
  <2> HIDE DEF r
  <2> QED  BY <1>6, <2>2, <2>3
<1> QED  BY <1>5, <1>7, <1>9, <1>10, <1>11 DEF Command

\* A batch that rejects what waits: everything waits for a plugin that is loading, and
\* the batch itself holds all of those but the ones it is overtaken by.
LEMMA RejectedReachesCycle ==
  ASSUME TypeOK, IInv, CycleInv, NEW a \in Actors, RejectCycle(a), NEW p \in op[a].batch
  PROVE  ReachesCycle(p) \/ Overtaken(a)
<1>1. op[a].batch \in SUBSET Plugins /\ op[a].at = "batch"
  BY DEF TypeOK, Operation, RejectCycle, At
<1>2. PICK S \in SUBSET Plugins : S = op[a].batch
  BY <1>1
<1>3. CASE \A q \in S : Deps[q] \cap S # {}
  BY <1>2, <1>3 DEF ReachesCycle
<1>4. CASE \E q \in S : Deps[q] \cap S = {}
  <2>1. PICK q \in S : Deps[q] \cap S = {}
    BY <1>4
  <2>2. PICK d \in Deps[q] : plugin[d].state = "loading"
    BY <1>2, <2>1 DEF RejectCycle, NoProgress, Waiting
  <2>3. d \in Plugins /\ d \notin op[a].batch
    BY <1>2, <2>1, ConstantsAssumption DEF ConstantsAssumption
  <2>4. PICK b \in Actors : Holds(op[b], d)
    BY <2>2, <2>3 DEF CycleInv, LoadingInv
  <2>5. b # a
    BY <1>1, <2>3, <2>4 DEF Holds, Owns, OwningPoints
  <2> QED  BY <1>2, <2>1, <2>2, <2>4, <2>5 DEF Overtaken
<1> QED  BY <1>3, <1>4

\* Every step keeps the hands and the turns, and says of whom a cycle is reported.
LEMMA NextJudges ==
  ASSUME TypeOK, IInv, ProgressInv, CycleInv, [Next]_vars
  PROVE  /\ CycleInv'
         /\ \A p \in Plugins : plugin'[p].cycle /\ ~plugin[p].cycle =>
              \E a \in Actors : /\ RejectCycle(a) /\ p \in op[a].batch
                                /\ ReachesCycle(p) \/ Overtaken(a)
<1>1. ASSUME op' = op, plugin' = plugin
      PROVE  Judged
  <2>1. CommandsInv' /\ BatchInv' /\ LoadingInv' /\ TurnInv'
    BY <1>1 DEF CycleInv, CommandsInv, BatchInv, LoadingInv, TurnInv
  <2> QED  BY <1>1, <2>1 DEF CycleInv, Judged
<1>2. CASE UNCHANGED vars
  BY <1>1, <1>2 DEF vars, Judged
<1>3. CASE Service \/ \E t \in Threads : Callback(t)
  BY <1>1, <1>3 DEF Service, Publish, Withdraw, Query, Release, Callback, EnterCallback,
       LeaveCallback, Judged
<1>4. ASSUME NEW a \in Actors, Command(a) \/ LoadStep(a) \/ TransitionStep(a) \/ AfterStep(a)
      PROVE  Judged
  BY <1>4, CommandJudges, LoadStepJudges, TransitionStepJudges, AfterStepJudges
<1>5. ASSUME NEW a \in Actors, BatchStep(a)
      PROVE  /\ CycleInv'
             /\ \A p \in Plugins : plugin'[p].cycle /\ ~plugin[p].cycle =>
                  /\ RejectCycle(a) /\ p \in op[a].batch
                  /\ ReachesCycle(p) \/ Overtaken(a)
  BY <1>5, BatchStepJudges, RejectedReachesCycle
<1> QED  BY <1>2, <1>3, <1>4, <1>5 DEF Next, Step, Judged

\* No operation runs and no plugin is loading initially.
LEMMA InitJudges == Init => CycleInv /\ CycleIsReal
<1> SUFFICES ASSUME Init  PROVE CycleInv /\ CycleIsReal
  OBVIOUS
<1>1. \A a \in Actors : op[a] = Idle
  BY DEF Init
<1>2. \A p \in Plugins : plugin[p].state # "loading" /\ ~plugin[p].cycle
  BY DEF Init, NoRecord
<1>3. CommandsInv /\ BatchInv /\ TurnInv
  BY <1>1 DEF CommandsInv, CommandOK, BatchInv, BatchOK, TurnInv, Idle
<1> QED  BY <1>2, <1>3 DEF CycleInv, LoadingInv, CycleIsReal

\* Whatever is loading is in the hands of an operation, a batch gives up what it
\* discovered only by starting or rejecting it, and one command of a kind runs at a time.
THEOREM CycleInvariance == Spec => []CycleInv
<1>1. TypeOK /\ IInv /\ ProgressInv /\ CycleInv /\ [Next]_vars => CycleInv'
  BY NextJudges
<1> QED  BY <1>1, InitJudges, Invariance, ProgressInvariance, PTL DEF Spec

\* "dependency cycle detected" is wrong in one case only: StartDiscoveredPlugins gives up
\* waiting for a plugin that an operation outside the batch is loading.  No assumption on
\* the commands that run.
THEOREM CycleIsMisjudgedOnlySo == Spec => OnlyOvertakenMisjudges
<1>1. TypeOK /\ IInv /\ ProgressInv /\ CycleInv /\ [Next]_vars =>
        [\A p \in Plugins : plugin'[p].cycle /\ ~plugin[p].cycle =>
           \E a \in Actors : /\ RejectCycle(a) /\ p \in op[a].batch
                             /\ ReachesCycle(p) \/ Overtaken(a)]_vars
  BY NextJudges
<1> QED  BY <1>1, CycleInvariance, Invariance, ProgressInvariance, PTL
      DEF Spec, OnlyOvertakenMisjudges

\* A batch is not overtaken while commands of one kind run: the plugins API cannot load,
\* and a second command of that kind waits its turn.
LEMMA NotOvertaken ==
  ASSUME OneCommandKind, TypeOK, IInv, ProgressInv, CycleInv, NEW a \in Actors, RejectCycle(a)
  PROVE  ~Overtaken(a)
<1> SUFFICES ASSUME NEW b \in Actors \ {a}, NEW p \in op[a].batch, NEW d \in Deps[p],
                    plugin[d].state = "loading", Holds(op[b], d)
             PROVE  FALSE
  BY DEF Overtaken
<1>1. op[a].at = "batch" /\ op[a].cmd = "batch" /\ p \in Plugins
  BY DEF RejectCycle, At, IInv, TargetInv, OperationOK, TypeOK, Operation
<1>2. d \in Plugins /\ Consistent(op[b], d, plugin[d])
  BY <1>1, ConstantsAssumption DEF ConstantsAssumption, IInv, HoldInv
<1>3. op[b].at # "idle"
  BY DEF Holds, Owns, OwningPoints, CycleInv, BatchInv, BatchOK
<1>4. op[b].cmd \notin {"pause", "resume"}
  <2>1. CASE d \in op[b].batch
    BY <2>1 DEF CycleInv, BatchInv, BatchOK
  <2>2. CASE Owns(op[b], d)
    <3>1. ~Departs(op[b], d, plugin[d]) /\ op[b].target = d
      BY <1>2, <2>2 DEF Consistent, Owns
    <3>2. op[b].at = "publish" => op[b].cmd \notin {"pause", "resume"}
      BY <1>2, <3>1 DEF ProgressInv, Progressed
    <3> QED  BY <1>3, <2>2, <3>1, <3>2 DEF CycleInv, CommandsInv, CommandOK, Departs, Owns, OwningPoints
  <2> QED  BY <2>1, <2>2 DEF Holds
<1>5. Kind[a] # "api" /\ Kind[b] # "api"
  BY <1>1, <1>3, <1>4, ConstantsAssumption DEF CycleInv, CommandsInv, CommandOK, CommandsOf, ConstantsAssumption
<1> QED  BY <1>1, <1>3, <1>5 DEF OneCommandKind, CycleInv, TurnInv

\* Every plugin that is told that it is part of a dependency cycle reaches one, as long
\* as the commands of one kind only are given: for any manifests, callbacks and pauses.
THEOREM CyclesAreReal ==
  ASSUME OneCommandKind
  PROVE  Spec => []CycleIsReal
<1>1. TypeOK /\ IInv /\ ProgressInv /\ CycleInv /\ CycleIsReal /\ [Next]_vars => CycleIsReal'
  <2> SUFFICES ASSUME TypeOK, IInv, ProgressInv, CycleInv, CycleIsReal, [Next]_vars,
                      NEW p \in Plugins, plugin'[p].cycle
               PROVE  ReachesCycle(p)
    BY DEF CycleIsReal, ReachesCycle
  <2>1. CASE plugin[p].cycle
    BY <2>1 DEF CycleIsReal
  <2>2. CASE ~plugin[p].cycle
    BY <2>2, NextJudges, NotOvertaken
  <2> QED  BY <2>1, <2>2
<1> QED  BY <1>1, InitJudges, CycleInvariance, Invariance, ProgressInvariance, PTL DEF Spec
=============================================================================
