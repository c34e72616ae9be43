------------------------ MODULE PluginManagerProofs ------------------------
(***************************************************************************)
(* Proofs about PluginManager for any set of plugins, any manifests, any   *)
(* threads and operation slots: its types, and the inductive invariant     *)
(* behind the dependency, ownership and lease properties.                  *)
(***************************************************************************)
EXTENDS PluginManager, SequenceTheorems, TLAPS

-----------------------------------------------------------------------------
(* What the shared operators do to the types.                              *)

\* What an operation makes of a plugin's record is a record.
LEMMA RecordTypes ==
  ASSUME NEW r \in PluginRecord
  PROVE  /\ Restored(r) \in PluginRecord
         /\ Settled(r) \in PluginRecord
         /\ Closing(r) \in PluginRecord
         /\ Started(r) \in PluginRecord
         /\ \A l : [r EXCEPT !.live = @ \ {l}] \in PluginRecord
BY DEF PluginRecord, Restored, Settled, Closing, Started, Layers

\* The records an operation starts from are records.
LEMMA FreshRecords ==
  /\ NoRecord \in PluginRecord
  /\ Discovered \in PluginRecord
  /\ \A s \in States : Closed(s) \in PluginRecord
BY DEF PluginRecord, NoRecord, Discovered, Closed, States, Layers

\* An idle slot is an operation.
LEMMA IdleType == Idle \in Operation
BY DEF Idle, Operation, Points, Commands

\* Replacing one plugin's record keeps the type of plugin.
LEMMA SetRecordType ==
  ASSUME TypeOK, NEW p, NEW r \in PluginRecord, SetRecord(p, r)
  PROVE  plugin' \in [Plugins -> PluginRecord]
BY DEF TypeOK, SetRecord

\* Pushing the operation a, or a callback, on a thread's stack, and popping.
LEMMA PushType ==
  ASSUME TypeOK, NEW t \in Threads, NEW f \in Frame,
         stack' = [stack EXCEPT ![t] = <<f>> \o @]
  PROVE  stack' \in [Threads -> Seq(Frame)]
<1>1. <<f>> \in Seq(Frame)
  OBVIOUS
<1>2. <<f>> \o stack[t] \in Seq(Frame)
  BY <1>1, ConcatProperties DEF TypeOK
<1> QED  BY <1>2 DEF TypeOK

\* Returning from a frame keeps the type of stack.
LEMMA PopType ==
  ASSUME TypeOK, NEW t \in Threads, stack[t] # <<>>,
         stack' = [stack EXCEPT ![t] = Tail(@)]
  PROVE  stack' \in [Threads -> Seq(Frame)]
<1>1. Tail(stack[t]) \in Seq(Frame)
  BY HeadTailProperties DEF TypeOK
<1> QED  BY <1>1 DEF TypeOK

\* The ways the actions change the operation of one slot.
LEMMA OperationTypes ==
  ASSUME NEW o \in Operation
  PROVE  /\ \A at \in Points : [o EXCEPT !.at = at] \in Operation
         /\ \A at \in Points, s \in 1..8 : [o EXCEPT !.at = at, !.step = s] \in Operation
         /\ \A s \in 1..8 : [o EXCEPT !.step = s] \in Operation
         /\ \A s \in 1..8, b \in BOOLEAN :
              [o EXCEPT !.step = s, !.failed = b] \in Operation
         /\ \A at \in Points, s \in 1..8, b \in BOOLEAN :
              [o EXCEPT !.at = at, !.step = s, !.was_running = b] \in Operation
BY DEF Operation

\* The locals of a batch have their types.
LEMMA BatchTypes ==
  ASSUME NEW o \in Operation
  PROVE  \A S \in SUBSET Plugins :
           /\ [o EXCEPT !.batch = S] \in Operation
           /\ [o EXCEPT !.todo = S] \in Operation
           /\ \A at \in Points :
                /\ [o EXCEPT !.at = at, !.batch = S] \in Operation
                /\ \A p \in Plugins :
                     /\ [o EXCEPT !.batch = S, !.target = p, !.at = at] \in Operation
                     /\ [o EXCEPT !.at = at, !.target = p, !.todo = S] \in Operation
BY ZenonT(60) DEF Operation

\* The locals of a reload's attempts have their types.
LEMMA AttemptTypes ==
  ASSUME NEW o \in Operation, NEW at \in Points
  PROVE  /\ [o EXCEPT !.at = at, !.target = NoPlugin] \in Operation
         /\ \A n \in {"first", "candidate", "rollback"} :
              [o EXCEPT !.at = at, !.attempt = n, !.failed = FALSE] \in Operation
BY DEF Operation

\* Replacing one slot keeps the type of op.
LEMMA OpType ==
  ASSUME TypeOK, NEW a \in Actors, NEW o \in Operation, op' = [op EXCEPT ![a] = o]
  PROVE  op' \in [Actors -> Operation]
BY DEF TypeOK

\* Going to another point keeps the types.
LEMMA GotoType ==
  ASSUME TypeOK, NEW a \in Actors, NEW at \in Points, Goto(a, at)
  PROVE  op' \in [Actors -> Operation] /\ stack' \in [Threads -> Seq(Frame)]
<1>1. PICK one \in 1..8 : one = 1
  OBVIOUS
<1>2. op[a] \in Operation
  BY DEF TypeOK
<1>3. op' = [op EXCEPT ![a] = [op[a] EXCEPT !.at = at, !.step = one]]
  BY <1>1 DEF Goto, TypeOK
<1> HIDE <1>1
<1>4. [op[a] EXCEPT !.at = at, !.step = one] \in Operation
  BY <1>2, OperationTypes
<1> QED  BY <1>3, <1>4, OpType DEF TypeOK, Goto

\* The end of an operation keeps the types.
LEMMA EndType ==
  ASSUME TypeOK, NEW a \in Actors, stack[ThreadOf[a]] # <<>>, End(a)
  PROVE  op' \in [Actors -> Operation] /\ stack' \in [Threads -> Seq(Frame)]
<1>1. op' \in [Actors -> Operation]
  BY IdleType DEF TypeOK, End
<1>2. stack' \in [Threads -> Seq(Frame)]
  BY PopType, ConstantsAssumption DEF End, ConstantsAssumption
<1> QED  BY <1>1, <1>2

\* The end of a load keeps the types.
LEMMA LoadEndsType ==
  ASSUME TypeOK, NEW a \in Actors, stack[ThreadOf[a]] # <<>>, LoadEnds(a)
  PROVE  op' \in [Actors -> Operation] /\ stack' \in [Threads -> Seq(Frame)]
<1>1. CASE Goto(a, "batch") \/ Goto(a, "candidate")
  BY <1>1, GotoType DEF Points
<1>2. CASE End(a)
  BY <1>2, EndType
<1> QED  BY <1>1, <1>2 DEF LoadEnds

\* The beginning of an operation keeps the types.
LEMMA BeginType ==
  ASSUME TypeOK, NEW a \in Actors, NEW c \in Commands, NEW p \in Plugins,
         NEW at \in Points, Begin(a, c, p, at)
  PROVE  op' \in [Actors -> Operation] /\ stack' \in [Threads -> Seq(Frame)]
<1>1. op' \in [Actors -> Operation]
  BY IdleType DEF TypeOK, Begin, Operation
<1>2. stack' \in [Threads -> Seq(Frame)]
  BY PushType, ConstantsAssumption DEF Begin, Frame, ConstantsAssumption
<1> QED  BY <1>1, <1>2

\* At(a, ..) leaves a frame to pop, and names a plugin of the module.
LEMMA AtFrame ==
  ASSUME TypeOK, NEW a \in Actors, NEW at, At(a, at)
  PROVE  /\ stack[ThreadOf[a]] # <<>>
         /\ op[a] \in Operation
         /\ op[a].target \in Plugins \cup {NoPlugin}
BY DEF At, TypeOK, Operation

\* Withdrawing a layer's factories and leases keeps the types.
LEMMA WithdrawnType ==
  ASSUME TypeOK, NEW p, NEW l, Withdrawn(p, l)
  PROVE  published' \in SUBSET Plugins /\ leases' \in SUBSET (Plugins \X Plugins)
BY DEF TypeOK, Withdrawn, services

\* The types of what operations change.
Typed == /\ plugin' \in [Plugins -> PluginRecord]
         /\ op' \in [Actors -> Operation]
         /\ stack' \in [Threads -> Seq(Frame)]
         /\ published' \in SUBSET Plugins
         /\ leases' \in SUBSET (Plugins \X Plugins)

\* A record of a target outside Plugins is written nowhere.
LEMMA SetType ==
  ASSUME TypeOK, NEW p, NEW r, SetRecord(p, r), p \in Plugins => r \in PluginRecord
  PROVE  plugin' \in [Plugins -> PluginRecord]
BY DEF TypeOK, SetRecord

\* Steps of a load keep the types.
LEMMA LoadStepType ==
  ASSUME TypeOK, TargetInv, NEW a \in Actors, LoadStep(a)
  PROVE  Typed
<1> DEFINE p == op[a].target
<1> USE DEF Points
<1>0. p \in Plugins => plugin[p] \in PluginRecord
  BY DEF TypeOK
<1>1. CASE QueryRejected(a)
  <2>1. stack[ThreadOf[a]] # <<>>
    BY <1>1, AtFrame DEF QueryRejected
  <2>2. op' \in [Actors -> Operation] /\ stack' \in [Threads -> Seq(Frame)]
    BY <1>1, <2>1, GotoType, LoadEndsType DEF QueryRejected
  <2>3. plugin' \in [Plugins -> PluginRecord]
    BY <1>1, FreshRecords, SetType DEF QueryRejected, States
  <2> QED  BY <1>1, <2>2, <2>3 DEF QueryRejected, Typed, TypeOK, services
<1>2. CASE QueryAccepted(a)
  <2>1. plugin' \in [Plugins -> PluginRecord]
    BY <1>0, <1>2, SetType DEF QueryAccepted, PluginRecord, States
  <2>2. CASE Goto(a, "start")
    BY <1>2, <2>1, <2>2, GotoType DEF QueryAccepted, Typed, TypeOK, services
  <2>3. CASE op[a].cmd = "batch"
    <3>1. p \in Plugins /\ op[a] \in Operation
      BY <1>2, AtFrame DEF QueryAccepted, TargetInv, OperationOK, At
    <3>2. op' = [op EXCEPT ![a] = [op[a] EXCEPT !.at = "discover", !.batch = @ \cup {p}]]
      BY <1>2, <2>3 DEF QueryAccepted, TypeOK
    <3>3. op[a].batch \cup {p} \in SUBSET Plugins
      BY <3>1 DEF Operation
    <3> QED  BY <1>2, <2>1, <2>3, <3>1, <3>2, <3>3, BatchTypes, OpType
             DEF QueryAccepted, Typed, TypeOK, services
  <2> QED  BY <1>2, <2>2, <2>3 DEF QueryAccepted
<1>3. CASE StartPlugin(a)
  BY <1>0, <1>3, RecordTypes, SetType, GotoType DEF StartPlugin, Typed, TypeOK, services
<1>4. CASE RejectUnstartedPlugin(a)
  <2>1. stack[ThreadOf[a]] # <<>>
    BY <1>4, AtFrame DEF RejectUnstartedPlugin
  <2> QED  BY <1>4, <2>1, FreshRecords, SetType, LoadEndsType
           DEF RejectUnstartedPlugin, Typed, TypeOK, services, States
<1>5. CASE LoadSucceeds(a)
  <2> DEFINE r == [plugin[p] EXCEPT !.loading = FALSE]
  <2>1. p \in Plugins => /\ Restored([r EXCEPT !.state = "loaded"]) \in PluginRecord
                          /\ [r EXCEPT !.accepting = FALSE] \in PluginRecord
    BY <1>0 DEF PluginRecord, Restored, States, Layers
  <2> QED  BY <1>5, <2>1, SetType, GotoType DEF LoadSucceeds, Typed, TypeOK, services
<1>6. CASE LoadFails(a)
  <2>1. p \in Plugins =>
          [plugin[p] EXCEPT !.loading = FALSE, !.accepting = FALSE] \in PluginRecord
    BY <1>0 DEF PluginRecord
  <2> QED  BY <1>6, <2>1, SetType, GotoType DEF LoadFails, Typed, TypeOK, services
<1>7. CASE ReplacementPrepared(a)
  <2>1. p \in Plugins => /\ [plugin[p] EXCEPT !.state = "paused"] \in PluginRecord
                          /\ [plugin[p] EXCEPT !.state = "error"] \in PluginRecord
    BY <1>0 DEF PluginRecord, States
  <2> QED  BY <1>7, <2>1, SetType, GotoType DEF ReplacementPrepared, Typed, TypeOK, services
<1>8. CASE ReplacementUnloadPrepared(a)
  <2>1. stack[ThreadOf[a]] # <<>>
    BY <1>8, AtFrame DEF ReplacementUnloadPrepared
  <2>2. p \in Plugins => [plugin[p] EXCEPT !.cleanup_pending = TRUE] \in PluginRecord
    BY <1>0 DEF PluginRecord
  <2> QED  BY <1>8, <2>1, <2>2, SetType, GotoType, LoadEndsType
           DEF ReplacementUnloadPrepared, Typed, TypeOK, services
<1>9. CASE RollbackLayer(a)
  <2> DEFINE l == RollbackOrder[op[a].step]
             r(f) == [plugin[p] EXCEPT !.state = "error", !.live = {}, !.cleanup_pending = f]
  <2>1. stack[ThreadOf[a]] # <<>> /\ op[a] \in Operation
    BY <1>9, AtFrame DEF RollbackLayer
  <2>2. p \in Plugins => \A f \in BOOLEAN : r(f) \in PluginRecord
    BY <1>0 DEF PluginRecord, States
  <2>3. published' \in SUBSET Plugins /\ leases' \in SUBSET (Plugins \X Plugins)
    BY <1>9, WithdrawnType DEF RollbackLayer, TypeOK, services
  <2>4. PICK f \in BOOLEAN :
          IF LastLayer(a)
          THEN /\ SetRecord(p, r(f))
               /\ LoadEnds(a) \/ Goto(a, "cleanup")
          ELSE /\ op' = [op EXCEPT ![a].step = @ + 1, ![a].failed = f]
               /\ SetRecord(p, [plugin[p] EXCEPT !.live = @ \ {l}])
               /\ UNCHANGED stack
    BY <1>9, <2>1 DEF RollbackLayer, Operation
  <2>5. CASE LastLayer(a)
    BY <2>1, <2>2, <2>3, <2>4, <2>5, SetType, GotoType, LoadEndsType DEF Typed
  <2>6. CASE ~LastLayer(a)
    <3>1. op[a].step + 1 \in 1..8
      BY <2>1, <2>6 DEF Operation, LastLayer, ReleaseOrder
    <3>2. op' = [op EXCEPT ![a] = [op[a] EXCEPT !.step = op[a].step + 1, !.failed = f]]
      BY <2>4, <2>6 DEF TypeOK
    <3>3. op' \in [Actors -> Operation]
      BY <2>1, <3>1, <3>2, OperationTypes, OpType
    <3>4. plugin' \in [Plugins -> PluginRecord]
      BY <1>0, <2>4, <2>6, RecordTypes, SetType
    <3> QED  BY <2>3, <2>4, <2>6, <3>3, <3>4 DEF Typed, TypeOK
  <2> QED  BY <2>5, <2>6
<1>10. CASE RollbackDone(a)
  <2>1. stack[ThreadOf[a]] # <<>>
    BY <1>10, AtFrame DEF RollbackDone
  <2> QED  BY <1>10, <2>1, FreshRecords, SetType, LoadEndsType
           DEF RollbackDone, Typed, TypeOK, services, States
<1> QED  BY <1>1, <1>2, <1>3, <1>4, <1>5, <1>6, <1>7, <1>8, <1>9, <1>10 DEF LoadStep

\* Steps of a batch keep the types.
LEMMA BatchStepType ==
  ASSUME TypeOK, TargetInv, NEW a \in Actors, BatchStep(a)
  PROVE  Typed
<1> USE DEF Points
<1>0. op[a] \in Operation /\ op[a].todo \in SUBSET Plugins /\ op[a].batch \in SUBSET Plugins
  BY DEF TypeOK, Operation
<1>1. ASSUME NEW p \in Plugins, DiscoverPlugin(a, p)
      PROVE  Typed
  <2>1. op[a].todo \ {p} \in SUBSET Plugins
    BY <1>0
  <2>2. \/ op' = [op EXCEPT ![a] = [op[a] EXCEPT !.at = "query", !.target = p, !.todo = op[a].todo \ {p}]]
        \/ op' = [op EXCEPT ![a] = [op[a] EXCEPT !.todo = op[a].todo \ {p}]]
    BY <1>1 DEF DiscoverPlugin, TypeOK
  <2>3. op' \in [Actors -> Operation]
    BY <1>0, <2>1, <2>2, BatchTypes, AttemptTypes, OpType
  <2>4. plugin' \in [Plugins -> PluginRecord]
    BY <1>1, FreshRecords, SetType DEF DiscoverPlugin, TypeOK
  <2> QED  BY <1>1, <2>3, <2>4 DEF DiscoverPlugin, Typed, TypeOK, services
<1>2. ASSUME NEW p \in Plugins, StartDiscovered(a, p)
      PROVE  Typed
  <2>1. op[a].batch \ {p} \in SUBSET Plugins
    BY <1>0
  <2>2. \/ op' = [op EXCEPT ![a] = [op[a] EXCEPT !.batch = op[a].batch \ {p}]]
        \/ op' = [op EXCEPT ![a] = [op[a] EXCEPT !.batch = op[a].batch \ {p}, !.target = p, !.at = "load"]]
    BY <1>2 DEF StartDiscovered, TypeOK
  <2>3. op' \in [Actors -> Operation]
    BY <1>0, <2>1, <2>2, BatchTypes, AttemptTypes, OpType
  <2>4. plugin[p] \in PluginRecord
    BY DEF TypeOK
  <2>5. plugin' \in [Plugins -> PluginRecord]
    BY <1>2, <2>4, FreshRecords, RecordTypes, SetType DEF StartDiscovered, States
  <2> QED  BY <1>2, <2>3, <2>5 DEF StartDiscovered, Typed, TypeOK, services
<1>3. CASE DiscoveryDone(a)
  BY <1>3, GotoType DEF DiscoveryDone, Typed, TypeOK, services
<1>4. CASE RejectCycle(a)
  <2>1. op' = [op EXCEPT ![a] = [op[a] EXCEPT !.batch = {}]]
    BY <1>4 DEF RejectCycle, TypeOK
  <2>2. [Closed("error") EXCEPT !.cycle = TRUE] \in PluginRecord
    BY DEF Closed, NoRecord, PluginRecord, States
  <2>3. plugin' \in [Plugins -> PluginRecord]
    BY <1>4, <2>2 DEF RejectCycle, TypeOK
  <2>4. op' \in [Actors -> Operation]
    BY <1>0, <2>1, BatchTypes, AttemptTypes, OpType
  <2> QED  BY <1>4, <2>3, <2>4 DEF RejectCycle, Typed, TypeOK, services
<1>5. CASE BatchDone(a)
  <2>1. op' = [op EXCEPT ![a] = [op[a] EXCEPT !.at = "publish", !.target = NoPlugin]]
    BY <1>5 DEF BatchDone, TypeOK
  <2>2. op' \in [Actors -> Operation]
    BY <1>0, <2>1, BatchTypes, AttemptTypes, OpType
  <2> QED  BY <1>5, <2>2 DEF BatchDone, Typed, TypeOK, services
<1> QED  BY <1>1, <1>2, <1>3, <1>4, <1>5 DEF BatchStep

\* Refusing an operation keeps the types.
LEMMA AbandonType ==
  ASSUME TypeOK, NEW a \in Actors, NEW r, stack[ThreadOf[a]] # <<>>, Abandon(a, r),
         op[a].target \in Plugins => r \in PluginRecord
  PROVE  Typed
BY RecordTypes, SetType, EndType DEF Abandon, Typed, TypeOK, services

\* Steps of an unload, a pause and a resume keep the types.
LEMMA TransitionStepType ==
  ASSUME TypeOK, TargetInv, NEW a \in Actors, TransitionStep(a)
  PROVE  Typed
<1> DEFINE p == op[a].target
<1> USE DEF Points
<1>0. /\ op[a] \in Operation /\ op[a].step \in 1..8
      /\ p \in Plugins => plugin[p] \in PluginRecord
  BY DEF TypeOK, Operation
<1>1. CASE Deactivate(a)
  <2>1. op' = [op EXCEPT ![a] = [op[a] EXCEPT !.at = "drain"]]
    BY <1>1 DEF Deactivate, TypeOK
  <2>2. op' \in [Actors -> Operation]
    BY <1>0, <2>1, OperationTypes, OpType
  <2>3. plugin' \in [Plugins -> PluginRecord]
    BY <1>0, <1>1, RecordTypes, SetType DEF Deactivate
  <2> QED  BY <1>1, <2>2, <2>3 DEF Deactivate, Typed, TypeOK, services
<1>2. CASE DeactivateDone(a)
  <2>1. CASE op[a].was_running /\ op[a].step < 6
    <3>1. op' = [op EXCEPT ![a] = [op[a] EXCEPT !.at = "deactivate", !.step = op[a].step + 1]]
      BY <1>2, <2>1 DEF DeactivateDone, TypeOK
    <3>2. op[a].step + 1 \in 1..8
      BY <1>0, <2>1
    <3>3. op' \in [Actors -> Operation]
      BY <1>0, <3>1, <3>2, OperationTypes, OpType
    <3> QED  BY <1>2, <2>1, <3>3 DEF DeactivateDone, Typed, TypeOK, services
  <2>2. CASE ~(op[a].was_running /\ op[a].step < 6)
    BY <1>2, <2>2, GotoType DEF DeactivateDone, Typed, TypeOK, services
  <2> QED  BY <2>1, <2>2
<1>3. CASE DeactivateBusy(a)
  <2>1. \A l : p \in Plugins => RestoredAfter(plugin[p], op[a].cmd, l) \in PluginRecord
    BY <1>0, RecordTypes DEF RestoredAfter, PluginRecord, Layers
  <2>2. stack[ThreadOf[a]] # <<>>
    BY <1>3, AtFrame DEF DeactivateBusy
  <2> QED  BY <1>3, <2>1, <2>2, AbandonType DEF DeactivateBusy
<1>4. CASE PausePrepared(a)
  <2>1. stack[ThreadOf[a]] # <<>>
    BY <1>4, AtFrame DEF PausePrepared
  <2>2. p \in Plugins => [plugin[p] EXCEPT !.state = "paused"] \in PluginRecord
    BY <1>0 DEF PluginRecord, States
  <2>3. CASE Abandon(a, Restored(plugin[p]))
    BY <1>0, <2>1, <2>3, RecordTypes, AbandonType
  <2>4. CASE /\ SetRecord(p, [plugin[p] EXCEPT !.state = "paused"])
             /\ Goto(a, "publish") /\ UNCHANGED services
    BY <2>2, <2>4, SetType, GotoType DEF Typed, TypeOK, services
  <2> QED  BY <1>4, <2>3, <2>4 DEF PausePrepared
<1>5. CASE UnloadPrepared(a)
  <2>1. stack[ThreadOf[a]] # <<>>
    BY <1>5, AtFrame DEF UnloadPrepared
  <2>2. CASE Goto(a, "release") /\ UNCHANGED <<plugin, services>>
    BY <2>2, GotoType DEF Typed, TypeOK, services
  <2>3. CASE Abandon(a, IF op[a].was_running THEN Restored(plugin[p]) ELSE plugin[p])
    BY <1>0, <2>1, <2>3, RecordTypes, AbandonType
  <2> QED  BY <1>5, <2>2, <2>3 DEF UnloadPrepared
<1>6. CASE ReleaseLayer(a)
  <2>1. PICK S : SetRecord(p, [plugin[p] EXCEPT !.live = @ \ S])
    BY <1>6 DEF ReleaseLayer
  <2>2. plugin' \in [Plugins -> PluginRecord]
    BY <1>0, <2>1, SetType DEF PluginRecord
  <2>3. op' \in [Actors -> Operation] /\ stack' \in [Threads -> Seq(Frame)]
    <3>1. CASE LastLayer(a)
      BY <1>6, <3>1, GotoType DEF ReleaseLayer
    <3>2. CASE ~LastLayer(a)
      <4>1. op' = [op EXCEPT ![a] = [op[a] EXCEPT !.step = op[a].step + 1]]
        BY <1>6, <3>2 DEF ReleaseLayer, TypeOK
      <4>2. op[a].step + 1 \in 1..8
        BY <1>0, <3>2 DEF LastLayer, ReleaseOrder
      <4> QED  BY <1>0, <1>6, <3>2, <4>1, <4>2, OperationTypes, OpType DEF ReleaseLayer, TypeOK
    <3> QED  BY <3>1, <3>2
  <2> QED  BY <1>6, <2>2, <2>3, WithdrawnType DEF ReleaseLayer, Typed
<1>7. CASE ReleaseFails(a)
  <2>1. stack[ThreadOf[a]] # <<>>
    BY <1>7, AtFrame DEF ReleaseFails
  <2>2. p \in Plugins => [plugin[p] EXCEPT !.cleanup_pending = TRUE] \in PluginRecord
    BY <1>0 DEF PluginRecord
  <2> QED  BY <1>0, <1>7, <2>1, <2>2, RecordTypes, AbandonType DEF ReleaseFails
<1>8. CASE UnloadPlugin(a)
  BY <1>8, FreshRecords, SetType, GotoType DEF UnloadPlugin, Typed, TypeOK, services, States
<1> QED  BY <1>1, <1>2, <1>3, <1>4, <1>5, <1>6, <1>7, <1>8 DEF TransitionStep

\* A reload's candidate and rollback are records.
LEMMA ReplacementType ==
  ASSUME TypeOK, NEW a \in Actors, stack[ThreadOf[a]] # <<>>,
         NEW n \in {"candidate", "rollback"}, LoadReplacement(a, n)
  PROVE  /\ plugin' \in [Plugins -> PluginRecord]
         /\ op' \in [Actors -> Operation]
         /\ stack' \in [Threads -> Seq(Frame)]
<1> DEFINE p == op[a].target
<1>1. CASE plugin[p].state \in {"absent", "disabled"}
  <2>1. op' = [op EXCEPT ![a] = [op[a] EXCEPT !.at = "query", !.attempt = n, !.failed = FALSE]]
    BY <1>1 DEF LoadReplacement, TypeOK
  <2>2. op[a] \in Operation
    BY DEF TypeOK
  <2>3. op' \in [Actors -> Operation]
    BY <2>1, <2>2, AttemptTypes, OpType DEF Points
  <2> QED  BY <1>1, <2>3, FreshRecords, SetType DEF LoadReplacement, TypeOK
<1>2. CASE plugin[p].state \notin {"absent", "disabled"}
  BY <1>2, EndType DEF LoadReplacement, TypeOK
<1> QED  BY <1>1, <1>2

\* Steps after an unload keep the types.
LEMMA AfterStepType ==
  ASSUME TypeOK, TargetInv, NEW a \in Actors, AfterStep(a)
  PROVE  Typed
<1> DEFINE p == op[a].target
<1>0. /\ op[a] \in Operation
      /\ p \in Plugins => plugin[p] \in PluginRecord
  BY DEF TypeOK, Operation
<1>1. CASE PublishDone(a)
  <2>1. stack[ThreadOf[a]] # <<>>
    BY <1>1, AtFrame DEF PublishDone
  <2>2. op' \in [Actors -> Operation] /\ stack' \in [Threads -> Seq(Frame)]
    BY <1>1, <2>1, EndType, LoadEndsType DEF PublishDone
  <2>3. plugin' \in [Plugins -> PluginRecord]
    BY <1>0, <1>1, RecordTypes, SetType DEF PublishDone, TypeOK
  <2> QED  BY <1>1, <2>2, <2>3 DEF PublishDone, Typed, TypeOK, services
<1>2. CASE PublishUnloadedDone(a)
  <2>1. stack[ThreadOf[a]] # <<>>
    BY <1>2, AtFrame DEF PublishUnloadedDone
  <2> QED  BY <1>2, <2>1, ReplacementType, EndType DEF PublishUnloadedDone, Typed, TypeOK, services
<1>3. CASE CandidateKept(a)
  BY <1>3, AtFrame, EndType DEF CandidateKept, Typed, TypeOK, services
<1>4. CASE CandidateUnloaded(a)
  <2>1. PICK one \in 1..8 : one = 1
    OBVIOUS
  <2>2. op' = [op EXCEPT ![a] = [op[a] EXCEPT !.at = "deactivate", !.step = one,
                                              !.was_running = plugin[p].state = "loaded"]]
    BY <1>4, <2>1 DEF CandidateUnloaded, TypeOK
  <2> HIDE <2>1
  <2>3. (plugin[p].state = "loaded") \in BOOLEAN
    OBVIOUS
  <2>4. op' \in [Actors -> Operation]
    BY ZenonT(60), <1>0, <2>2, <2>3, OperationTypes, OpType DEF Points
  <2>5. plugin' \in [Plugins -> PluginRecord]
    BY <1>0, <1>4, RecordTypes, SetType DEF CandidateUnloaded
  <2> QED  BY <1>4, <2>4, <2>5 DEF CandidateUnloaded, Typed, TypeOK, services
<1>5. CASE CandidateDiscarded(a)
  <2>1. stack[ThreadOf[a]] # <<>>
    BY <1>5, AtFrame DEF CandidateDiscarded
  <2>2. CASE LoadReplacement(a, "rollback")
    BY <1>5, <2>1, <2>2, ReplacementType DEF CandidateDiscarded, Typed, TypeOK, services
  <2>3. CASE /\ SetRecord(p, Discovered)
             /\ op' = [op EXCEPT ![a].at = "query", ![a].attempt = "rollback", ![a].failed = FALSE]
             /\ UNCHANGED stack
    <3>1. op' = [op EXCEPT ![a] = [op[a] EXCEPT !.at = "query", !.attempt = "rollback", !.failed = FALSE]]
      BY <2>3 DEF TypeOK
    <3>2. op' \in [Actors -> Operation]
      BY <1>0, <3>1, AttemptTypes, OpType DEF Points
    <3> QED  BY <1>5, <2>3, <3>2, FreshRecords, SetType
             DEF CandidateDiscarded, Typed, TypeOK, services
  <2> QED  BY <1>5, <2>2, <2>3 DEF CandidateDiscarded
<1> QED  BY <1>1, <1>2, <1>3, <1>4, <1>5 DEF AfterStep

\* Commands keep the types.
LEMMA CommandType ==
  ASSUME TypeOK, NEW a \in Actors, Command(a)
  PROVE  Typed
<1> USE DEF Points, Commands
<1>1. CASE BeginBatch(a)
  <2> DEFINE new == {p \in Plugins : plugin[p].state = "absent"}
  <2>1. [Idle EXCEPT !.at = "discover", !.cmd = "batch", !.todo = new] \in Operation
    <3>1. \A o \in Operation, S \in SUBSET Plugins :
            [o EXCEPT !.at = "discover", !.cmd = "batch", !.todo = S] \in Operation
      BY ZenonT(60) DEF Operation
    <3>2. new \in SUBSET Plugins
      OBVIOUS
    <3> QED  BY <3>1, <3>2, IdleType
  <2>2. op' \in [Actors -> Operation]
    BY <1>1, <2>1 DEF BeginBatch, TypeOK
  <2>3. stack' \in [Threads -> Seq(Frame)]
    BY <1>1, PushType, ConstantsAssumption DEF BeginBatch, Frame, ConstantsAssumption
  <2> QED  BY <1>1, <2>2, <2>3 DEF BeginBatch, Typed, TypeOK, services
<1>2. ASSUME NEW p \in Plugins,
             BeginLoad(a, p) \/ BeginPause(a, p) \/ BeginResume(a, p) \/ BeginUnload(a, p)
      PROVE  Typed
  <2>1. \E c \in Commands, at \in Points : Begin(a, c, p, at)
    BY <1>2 DEF BeginLoad, BeginPause, BeginResume, BeginUnload
  <2>2. op' \in [Actors -> Operation] /\ stack' \in [Threads -> Seq(Frame)]
    BY <2>1, BeginType
  <2>3. /\ plugin[p] \in PluginRecord
        /\ [plugin[p] EXCEPT !.state = "loaded", !.transitioning = TRUE] \in PluginRecord
    BY DEF TypeOK, PluginRecord, States
  <2>4. plugin' \in [Plugins -> PluginRecord]
    BY <1>2, <2>3, FreshRecords, RecordTypes, SetType
       DEF BeginLoad, BeginPause, BeginResume, BeginUnload
  <2> QED  BY <1>2, <2>2, <2>4
           DEF BeginLoad, BeginPause, BeginResume, BeginUnload, Typed, TypeOK, services
<1> QED  BY <1>1, <1>2 DEF Command

\* The plugins' uses of services keep the types.
LEMMA ServiceType ==
  ASSUME TypeOK, Service
  PROVE  Typed
<1>1. ASSUME NEW p \in Plugins, Publish(p) \/ Withdraw(p)
      PROVE  Typed
  BY <1>1 DEF Publish, Withdraw, Typed, TypeOK
<1>2. ASSUME NEW p \in Plugins, NEW c \in Plugins, Query(c, p)
      PROVE  Typed
  BY <1>2 DEF Query, Typed, TypeOK
<1>3. ASSUME NEW p \in Plugins, NEW c \in Plugins, Release(c, p)
      PROVE  Typed
  BY <1>3 DEF Release, Typed, TypeOK
<1> QED  BY <1>1, <1>2, <1>3 DEF Service

\* Entering and leaving callbacks keeps the types.
LEMMA CallbackType ==
  ASSUME TypeOK, NEW t \in Threads, Callback(t)
  PROVE  Typed
<1>1. CASE LeaveCallback(t)
  BY <1>1, PopType DEF LeaveCallback, Typed, TypeOK, services
<1>2. ASSUME NEW p \in Plugins, NEW l \in Layers, EnterCallback(t, p, l)
      PROVE  Typed
  <2>1. <<p, l>> \in Frame
    BY DEF Frame
  <2> QED  BY <1>2, <2>1, PushType DEF EnterCallback, Typed, TypeOK, services
<1> QED  BY <1>1, <1>2 DEF Callback

-----------------------------------------------------------------------------
(* The inductive invariant.  Almost every action changes the operation of  *)
(* one slot and the record of one plugin that no other slot holds; what    *)
(* such a step must respect is stated once and shown to be enough.         *)

\* Nobody that runs depends on p.
NoRunningDependent(p) == \A q \in Plugins : plugin[q].state = "loaded" => p \notin Deps[q]
\* Nobody holds a lease on p.
NoLeaseOn(p) == \A c \in Plugins : <<c, p>> \notin leases

\* A step of one slot on one record, under the conditions that make it safe.
LocalStep(a, p, o, r) ==
  /\ op' = [op EXCEPT ![a] = o] /\ o \in Operation
  /\ plugin' = [plugin EXCEPT ![p] = r] /\ r \in PluginRecord
  /\ leases' \subseteq leases
  /\ \A b \in Actors \ {a} : ~Holds(op[b], p)
  /\ o.batch \subseteq op[a].batch \cup {p}
  /\ \A q \in Plugins \ {p} : ~Owns(o, q)
  /\ OperationOK(o)
  /\ Holds(o, p) => Consistent(o, p, r)
  /\ Departs(o, p, r) => NoRunningDependent(p) /\ NoLeaseOn(p)
  /\ Released(o, p) => \A q \in Plugins : <<p, q>> \notin leases'
  /\ RecordOK(r)
  /\ ~r.image => \A q \in Plugins : <<p, q>> \notin leases'
  /\ r.state = "loaded" /\ plugin[p].state # "loaded" => DependenciesReady(p)
  /\ r.state # "loaded" /\ plugin[p].state = "loaded" =>
       NoRunningDependent(p) /\ NoLeaseOn(p)

\* A slot that stops a plugin owns it.
LEMMA DepartsOwns ==
  ASSUME NEW o, NEW p, NEW r, Departs(o, p, r)
  PROVE  Owns(o, p)
BY DEF Departs, Owns, OwningPoints

\* Such a step keeps the invariant: others own other plugins.
LEMMA LocalStepInv ==
  ASSUME TypeOK, IInv, NEW a \in Actors, NEW p \in Plugins, NEW o, NEW r,
         LocalStep(a, p, o, r)
  PROVE  IInv'
<1> USE DEF LocalStep
<1>0. /\ op'[a] = o /\ \A b \in Actors \ {a} : op'[b] = op[b]
      /\ plugin'[p] = r /\ \A q \in Plugins \ {p} : plugin'[q] = plugin[q]
  BY DEF TypeOK
<1>1. TargetInv'
  BY <1>0 DEF TargetInv, OperationOK, IInv
<1>2. \A q \in Plugins \ {p} : Holds(o, q) => q \in op[a].batch /\ Holds(op[a], q)
  BY DEF Holds
<1>3. HoldInv'
  <2> SUFFICES ASSUME NEW b \in Actors, NEW q \in Plugins, Holds(op'[b], q)
               PROVE  /\ Consistent(op'[b], q, plugin'[q])
                      /\ \A c \in Actors \ {b} : ~Holds(op'[c], q)
    BY DEF HoldInv, Holds, Consistent, Owns, Departs
  <2>1. CASE q = p
    BY <1>0, <2>1
  <2>2. CASE q # p /\ b # a
    <3>1. /\ Consistent(op[b], q, plugin[q])
          /\ \A c \in Actors \ {b} : ~Holds(op[c], q)
      BY <1>0, <2>2 DEF IInv, HoldInv
    <3> QED  BY <1>0, <1>2, <2>2, <3>1
  <2>3. CASE q # p /\ b = a
    <3>1. q \in op[a].batch /\ Holds(op[a], q)
      BY <1>0, <1>2, <2>3
    <3>2. /\ Consistent(op[a], q, plugin[q])
          /\ \A c \in Actors \ {a} : ~Holds(op[c], q)
      BY <3>1 DEF IInv, HoldInv
    <3>3. ~Owns(o, q)
      BY <2>3
    <3> QED  BY <1>0, <2>3, <3>1, <3>2, <3>3 DEF Consistent
  <2> QED  BY <2>1, <2>2, <2>3
<1>4. \A q \in Plugins : plugin'[q].state = "loaded" /\ plugin[q].state # "loaded" =>
                        q = p /\ DependenciesReady(p)
  BY <1>0
<1>5. DepartInv'
  <2> SUFFICES ASSUME NEW b \in Actors, NEW q \in Plugins, Departs(op'[b], q, plugin'[q])
               PROVE  /\ \A c \in Plugins : plugin'[c].state = "loaded" => q \notin Deps[c]
                      /\ \A c \in Plugins : <<c, q>> \notin leases'
    BY DEF DepartInv, Departs
  <2>1. CASE b = a
    <3>1. q = p
      BY <1>0, <2>1, DepartsOwns
    <3>2. NoRunningDependent(p) /\ NoLeaseOn(p)
      BY <1>0, <2>1, <3>1
    <3>3. p \notin Deps[p]
      BY ConstantsAssumption DEF ConstantsAssumption
    <3> QED  BY <1>4, <3>1, <3>2, <3>3 DEF NoRunningDependent, NoLeaseOn
  <2>2. CASE b # a
    <3>1. q # p /\ Holds(op[b], q)
      BY <1>0, <2>2, DepartsOwns DEF Holds
    <3>2. Departs(op[b], q, plugin[q])
      BY <1>0, <2>2, <3>1
    <3>3. NoRunningDependent(q) /\ NoLeaseOn(q)
      BY <3>2 DEF IInv, DepartInv, NoRunningDependent, NoLeaseOn
    <3>4. plugin[q].transitioning
      BY <3>1, <3>2, DepartsOwns DEF IInv, HoldInv, Consistent
    <3>5. ~(DependenciesReady(p) /\ q \in Deps[p])
      BY <3>4 DEF DependenciesReady
    <3> QED  BY <1>4, <3>3, <3>5 DEF NoRunningDependent, NoLeaseOn
  <2> QED  BY <2>1, <2>2
<1>6. ReleasedInv'
  <2> SUFFICES ASSUME NEW b \in Actors, NEW q \in Plugins, Released(op'[b], q)
               PROVE  \A c \in Plugins : <<q, c>> \notin leases'
    BY DEF ReleasedInv, Released, Owns
  <2>1. CASE b # a
    BY <1>0, <2>1 DEF IInv, ReleasedInv
  <2>2. CASE b = a /\ q = p
    BY <1>0, <2>2
  <2>3. CASE b = a /\ q # p
    <3>1. q \in op[a].batch
      BY <1>0, <2>3 DEF Released
    <3> QED  BY <3>1 DEF IInv, ReleasedInv, Released
  <2> QED  BY <2>1, <2>2, <2>3
<1>7. RecordInv'
  BY <1>0 DEF IInv, RecordInv, RecordOK
<1>8. DependencyClosure'
  <2> SUFFICES ASSUME NEW q \in Plugins, plugin'[q].state = "loaded", NEW d \in Deps[q]
               PROVE  plugin'[d].state = "loaded"
    BY DEF DependencyClosure
  <2>1. d \in Plugins /\ q \notin Deps[q]
    BY ConstantsAssumption DEF ConstantsAssumption
  <2>2. plugin[d].state = "loaded"
    BY <1>4, <2>1 DEF IInv, DependencyClosure, DependenciesReady
  <2>3. CASE d # p
    BY <1>0, <2>1, <2>2, <2>3
  <2>4. CASE d = p
    BY <1>0, <1>4, <2>1, <2>2, <2>4 DEF NoRunningDependent
  <2> QED  BY <2>3, <2>4
<1>9. LeasesPinProviders'
  <2> SUFFICES ASSUME NEW e \in leases'
               PROVE  plugin'[e[2]].state = "loaded" /\ plugin'[e[1]].image
    BY DEF LeasesPinProviders
  <2>1. PICK c \in Plugins, q \in Plugins : e = <<c, q>>
    BY DEF TypeOK
  <2>2. plugin[q].state = "loaded" /\ plugin[c].image
    BY <2>1 DEF IInv, LeasesPinProviders
  <2>3. plugin'[q].state = "loaded"
    BY <1>0, <2>1, <2>2 DEF NoLeaseOn
  <2>4. plugin'[c].image
    BY <1>0, <2>1, <2>2
  <2> QED  BY <2>1, <2>3, <2>4
<1> QED  BY <1>1, <1>3, <1>5, <1>6, <1>7, <1>8, <1>9 DEF IInv

\* A step that changes no record and after which its slot owns nothing.
QuietStep(a, o) ==
  /\ op' = [op EXCEPT ![a] = o]
  /\ plugin' = plugin
  /\ leases' = leases
  /\ o.batch \subseteq op[a].batch
  /\ \A q \in Plugins : ~Owns(o, q)
  /\ OperationOK(o)

\* Such a step keeps the invariant.
LEMMA QuietStepInv ==
  ASSUME TypeOK, IInv, NEW a \in Actors, NEW o, QuietStep(a, o)
  PROVE  IInv'
<1> USE DEF QuietStep
<1>0. op'[a] = o /\ \A b \in Actors \ {a} : op'[b] = op[b]
  BY DEF TypeOK
<1>1. \A q \in Plugins : Holds(o, q) => q \in op[a].batch /\ Holds(op[a], q)
  BY DEF Holds
<1>2. TargetInv'
  BY <1>0 DEF TargetInv, OperationOK, IInv
<1>3. HoldInv'
  <2> SUFFICES ASSUME NEW b \in Actors, NEW q \in Plugins, Holds(op'[b], q)
               PROVE  /\ Consistent(op'[b], q, plugin[q])
                      /\ \A c \in Actors \ {b} : ~Holds(op'[c], q)
    BY DEF HoldInv, Holds, Consistent, Owns, Departs
  <2>1. Holds(op[b], q)
    BY <1>0, <1>1
  <2>2. /\ Consistent(op[b], q, plugin[q])
        /\ \A c \in Actors \ {b} : ~Holds(op[c], q)
    BY <2>1 DEF IInv, HoldInv
  <2>3. CASE b # a
    BY <1>0, <1>1, <2>2, <2>3
  <2>4. CASE b = a
    BY <1>0, <1>1, <2>2, <2>4 DEF Consistent
  <2> QED  BY <2>3, <2>4
<1>4. DepartInv'
  <2> SUFFICES ASSUME NEW b \in Actors, NEW q \in Plugins, Departs(op'[b], q, plugin[q])
               PROVE  /\ \A c \in Plugins : plugin[c].state = "loaded" => q \notin Deps[c]
                      /\ \A c \in Plugins : <<c, q>> \notin leases
    BY DEF DepartInv, Departs
  <2>1. b # a
    BY <1>0, DepartsOwns
  <2> QED  BY <1>0, <2>1 DEF IInv, DepartInv
<1>5. ReleasedInv'
  BY <1>0 DEF ReleasedInv, Released, Owns, IInv
<1>6. RecordInv' /\ DependencyClosure' /\ LeasesPinProviders'
  BY DEF IInv, RecordInv, RecordOK, DependencyClosure, LeasesPinProviders
<1> QED  BY <1>2, <1>3, <1>4, <1>5, <1>6 DEF IInv

\* Nothing holds a plugin whose image is closed, or one that is loaded or
\* paused and not transitioning.
LEMMA Free ==
  ASSUME IInv, NEW p \in Plugins,
         \/ ~plugin[p].image
         \/ plugin[p].state \in {"loaded", "paused"} /\ ~plugin[p].transitioning
  PROVE  \A b \in Actors : ~Holds(op[b], p)
<1> SUFFICES ASSUME NEW b \in Actors, Holds(op[b], p)  PROVE FALSE
  OBVIOUS
<1>1. Consistent(op[b], p, plugin[p])
  BY DEF IInv, HoldInv
<1>2. plugin[p].image
  BY <1>1 DEF Consistent
<1>3. Owns(op[b], p)
  BY <1>1, <1>2 DEF Consistent, Holds
<1>4. Departs(op[b], p, plugin[p]) => plugin[p].transitioning
  BY <1>1, <1>3 DEF Consistent
<1> QED  BY <1>1, <1>2, <1>3, <1>4 DEF Consistent, Owns, OwningPoints, Departs

\* What an operation knows of the plugin it owns.
LEMMA Owned ==
  ASSUME TypeOK, IInv, NEW a \in Actors, op[a].at \in OwningPoints
  PROVE  /\ op[a].target \in Plugins
         /\ op[a] \in Operation /\ plugin[op[a].target] \in PluginRecord
         /\ Owns(op[a], op[a].target)
         /\ Consistent(op[a], op[a].target, plugin[op[a].target])
         /\ op[a].target \notin op[a].batch
         /\ \A b \in Actors \ {a} : ~Holds(op[b], op[a].target)
         /\ RecordOK(plugin[op[a].target])
<1>1. op[a].target \in Plugins
  BY DEF IInv, TargetInv, OperationOK, OwningPoints
<1>2. Owns(op[a], op[a].target)
  BY DEF Owns
<1>3. /\ Consistent(op[a], op[a].target, plugin[op[a].target])
      /\ \A b \in Actors \ {a} : ~Holds(op[b], op[a].target)
  BY <1>1, <1>2 DEF Holds, IInv, HoldInv
<1> QED  BY <1>1, <1>2, <1>3 DEF Consistent, IInv, RecordInv, TypeOK

\* What Goto does to the slot.
LEMMA GotoOp ==
  ASSUME TypeOK, NEW a \in Actors, NEW at \in Points, Goto(a, at)
  PROVE  /\ op' = [op EXCEPT ![a] = [op[a] EXCEPT !.at = at, !.step = 1]]
         /\ [op[a] EXCEPT !.at = at, !.step = 1] \in Operation
<1>1. op' = [op EXCEPT ![a] = [op[a] EXCEPT !.at = at, !.step = 1]]
  BY DEF TypeOK, Goto
<1>2. op[a] \in Operation
  BY DEF TypeOK
<1>3. PICK one \in 1..8 : one = 1
  OBVIOUS
<1>4. [op[a] EXCEPT !.at = at, !.step = one] \in Operation
  BY <1>2, OperationTypes
<1> QED  BY <1>1, <1>3, <1>4

\* Where an operation stands once it has let go of its plugin.
Loose == {"idle", "discover", "batch", "candidate", "publish_unloaded"}

\* LoadEnds, End and the Gotos of a batch leave such an operation.
LetsGo(a, o) ==
  /\ op' = [op EXCEPT ![a] = o]
  /\ o \in Operation
  /\ o.at \in Loose \/ (o.at = "publish" /\ o.cmd \notin {"pause", "resume"})
  /\ o.batch \subseteq op[a].batch
  /\ o.at \in {"candidate", "publish_unloaded"} => o.target = op[a].target
  /\ o.at \in {"discover", "batch"} => o.cmd = "batch"
  /\ o.at = "candidate" => o.cmd = "reload"

\* Who lets go owns nothing.
LEMMA LetsGoOwnsNothing ==
  ASSUME NEW a, NEW o, LetsGo(a, o)
  PROVE  \A q : ~Owns(o, q)
BY DEF LetsGo, Loose, Owns, OwningPoints

\* The end of an operation lets go of its plugin.
LEMMA EndLetsGo ==
  ASSUME TypeOK, NEW a \in Actors, End(a)
  PROVE  LetsGo(a, Idle)
BY IdleType DEF End, LetsGo, Loose, Idle

\* Going to a loose point lets go of the plugin.
LEMMA GotoLetsGo ==
  ASSUME TypeOK, NEW a \in Actors, NEW at \in Loose, Goto(a, at),
         at \in {"discover", "batch"} => op[a].cmd = "batch",
         at = "candidate" => op[a].cmd = "reload"
  PROVE  LetsGo(a, [op[a] EXCEPT !.at = at, !.step = 1])
<1>1. at \in Points
  BY DEF Loose, Points
<1>2. op[a] \in Operation
  BY DEF TypeOK
<1> QED  BY <1>1, <1>2, GotoOp DEF LetsGo, Operation

\* The end of a load lets go of the plugin.
LEMMA LoadEndsLetsGo ==
  ASSUME TypeOK, NEW a \in Actors, LoadEnds(a)
  PROVE  \E o : LetsGo(a, o)
<1>1. CASE End(a)
  BY <1>1, EndLetsGo
<1>2. CASE op[a].cmd = "batch" /\ Goto(a, "batch")
  BY <1>2, GotoLetsGo DEF Loose
<1>3. CASE op[a].cmd = "reload" /\ Goto(a, "candidate")
  BY <1>3, GotoLetsGo DEF Loose
<1> QED  BY <1>1, <1>2, <1>3 DEF LoadEnds

\* An operation that lets go of its plugin p and leaves it the record r.
LEMMA LetGoInv ==
  ASSUME TypeOK, IInv, NEW a \in Actors, op[a].at \in OwningPoints,
         NEW o, LetsGo(a, o),
         NEW p, p = op[a].target,
         NEW r \in PluginRecord, SetRecord(p, r), RecordOK(r),
         leases' \subseteq leases,
         ~r.image => \A q \in Plugins : <<p, q>> \notin leases',
         r.state = "loaded" <=> plugin[p].state = "loaded"
  PROVE  IInv'
<1>1. LocalStep(a, p, o, r)
  BY Owned, LetsGoOwnsNothing, DepartsOwns DEF LocalStep, LetsGo, SetRecord, Holds, Released, Loose, OperationOK
<1> QED  BY <1>1, Owned, LocalStepInv

\* Steps of a load keep the invariant: from the discovery to the end or to the
\* rejection, the plugin is its loader's alone.
LEMMA LoadStepInv ==
  ASSUME TypeOK, IInv, NEW a \in Actors, LoadStep(a)
  PROVE  IInv'
<1> DEFINE p == op[a].target
           to(at) == [op[a] EXCEPT !.at = at, !.step = 1]
<1>0. op[a].at \in OwningPoints
  BY DEF LoadStep, OwningPoints, At, QueryRejected, QueryAccepted, StartPlugin,
         RejectUnstartedPlugin, LoadSucceeds, LoadFails, ReplacementPrepared,
         ReplacementUnloadPrepared, RollbackLayer, RollbackDone
<1>1. /\ p \in Plugins /\ op[a] \in Operation /\ plugin[p] \in PluginRecord
      /\ Owns(op[a], p) /\ Consistent(op[a], p, plugin[p]) /\ p \notin op[a].batch
      /\ \A b \in Actors \ {a} : ~Holds(op[b], p)
      /\ RecordOK(plugin[p]) /\ OperationOK(op[a])
  BY <1>0, Owned DEF IInv, TargetInv
<1>c. Closed("error") \in PluginRecord /\ RecordOK(Closed("error"))
      /\ Closed("error").state = "error" /\ ~Closed("error").image
  BY FreshRecords DEF Closed, NoRecord, RecordOK, States
<1>2. CASE QueryRejected(a)
  <2>1. PICK o : LetsGo(a, o)
    BY <1>2, GotoLetsGo, LoadEndsLetsGo DEF QueryRejected, Loose
  <2>2. \A q \in Plugins : <<p, q>> \notin leases
    BY <1>1, <1>2 DEF QueryRejected, At, IInv, ReleasedInv, Released
  <2>3. plugin[p].state # "loaded"
    BY <1>1, <1>2 DEF QueryRejected, At, Consistent
  <2> QED  BY <1>0, <1>2, <1>c, <2>1, <2>2, <2>3, LetGoInv DEF QueryRejected, services
<1>3. CASE QueryAccepted(a)
  <2> DEFINE r == [plugin[p] EXCEPT !.state = "loading"]
  <2>1. /\ op[a].at = "query" /\ plugin[p].state = "error" /\ plugin[p].image
        /\ ~plugin[p].accepting
    BY <1>1, <1>3 DEF QueryAccepted, At, Consistent
  <2>2. \A q \in Plugins : <<p, q>> \notin leases
    BY <1>1, <2>1 DEF IInv, ReleasedInv, Released
  <2>3. r \in PluginRecord /\ r.state = "loading" /\ r.image /\ ~r.accepting /\ RecordOK(r)
    BY <1>1, <2>1 DEF PluginRecord, States, RecordOK
  <2>4. PICK o : /\ op' = [op EXCEPT ![a] = o] /\ o \in Operation
                 /\ \/ o.at = "discover" /\ o.batch = op[a].batch \cup {p}
                    \/ o.at = "start" /\ o.batch = op[a].batch
                 /\ o.target = p /\ o.cmd = op[a].cmd
                 /\ o.at = "discover" => o.cmd = "batch"
    <3>1. CASE op[a].cmd = "batch"
      <4> DEFINE S == op[a].batch \cup {p}
                 w == [op[a] EXCEPT !.at = "discover", !.batch = S]
      <4>1. op' = [op EXCEPT ![a] = w]
        BY <1>3, <3>1 DEF QueryAccepted, TypeOK
      <4>2. S \in SUBSET Plugins
        BY <1>1 DEF Operation
      <4>3. w \in Operation
        BY <1>1, <4>2, BatchTypes DEF Points
      <4>4. w.at = "discover" /\ w.batch = S /\ w.target = p /\ w.cmd = op[a].cmd
        BY <1>1 DEF Operation
      <4> QED  BY <3>1, <4>1, <4>3, <4>4
    <3>2. CASE op[a].cmd # "batch"
      <4>1. op' = [op EXCEPT ![a] = to("start")] /\ to("start") \in Operation
        BY <1>3, <3>2, GotoOp DEF QueryAccepted, Points
      <4>2. to("start").at = "start" /\ to("start").batch = op[a].batch /\ to("start").target = p
             /\ to("start").cmd = op[a].cmd
        BY <1>1 DEF Operation
      <4> QED  BY <4>1, <4>2
    <3> QED  BY <3>1, <3>2
  <2>5. Holds(o, p) => Consistent(o, p, r)
    BY <1>1, <2>3, <2>4 DEF Holds, Consistent, Owns, OwningPoints, Departs
  <2>6. LocalStep(a, p, o, r)
    BY <1>1, <1>3, <2>1, <2>2, <2>3, <2>4, <2>5
       DEF LocalStep, OperationOK, QueryAccepted, SetRecord, services, Owns, OwningPoints, Departs
  <2> QED  BY <1>1, <2>6, LocalStepInv
<1>4. CASE StartPlugin(a)
  <2> DEFINE r == Started(plugin[p])
  <2>1. op[a].at = "start" /\ plugin[p].state = "loading" /\ plugin[p].image
    BY <1>1, <1>4 DEF StartPlugin, At, Consistent
  <2>2. r \in PluginRecord /\ r.state = "loading" /\ r.image /\ RecordOK(r)
    BY <1>1, <2>1 DEF Started, PluginRecord, States, RecordOK
  <2>3. op' = [op EXCEPT ![a] = to("load")] /\ to("load") \in Operation
    BY <1>4, GotoOp DEF StartPlugin, Points
  <2>4. Holds(to("load"), p) => Consistent(to("load"), p, r)
    BY <1>1, <2>2 DEF Holds, Consistent, Owns, OwningPoints, Departs, Operation
  <2>5. LocalStep(a, p, to("load"), r)
    BY <1>1, <1>4, <2>1, <2>2, <2>3, <2>4
       DEF LocalStep, OperationOK, StartPlugin, SetRecord, services, Owns, Departs, Released, Operation
  <2> QED  BY <1>1, <2>5, LocalStepInv
<1>5. CASE RejectUnstartedPlugin(a)
  <2>1. PICK o : LetsGo(a, o)
    BY <1>5, LoadEndsLetsGo DEF RejectUnstartedPlugin
  <2>2. \A q \in Plugins : <<p, q>> \notin leases
    BY <1>1, <1>5 DEF RejectUnstartedPlugin, At, IInv, ReleasedInv, Released
  <2>3. plugin[p].state # "loaded"
    BY <1>1, <1>5 DEF RejectUnstartedPlugin, At, Consistent
  <2> QED  BY <1>0, <1>5, <1>c, <2>1, <2>2, <2>3, LetGoInv DEF RejectUnstartedPlugin, services
<1>6. CASE LoadSucceeds(a)
  <2> DEFINE q0 == [plugin[p] EXCEPT !.loading = FALSE]
             r1 == Restored([q0 EXCEPT !.state = "loaded"])
             r2 == [q0 EXCEPT !.accepting = FALSE]
  <2>1. op[a].at = "load" /\ plugin[p].state = "loading" /\ plugin[p].image
    BY <1>1, <1>6 DEF LoadSucceeds, At, Consistent
  <2>2. DependenciesReady(p)
    BY <1>6 DEF LoadSucceeds
  <2>3. CASE ActivateDispatch(a)
    <3>1. r1 \in PluginRecord /\ r1.state = "loaded" /\ r1.image /\ RecordOK(r1)
      BY <1>1, <2>1 DEF Restored, PluginRecord, States, RecordOK, Layers
    <3>2. op' = [op EXCEPT ![a] = to("publish")] /\ to("publish") \in Operation
      BY <1>6, <2>3, GotoOp DEF LoadSucceeds, Points
    <3>3. op[a].cmd \notin {"pause", "resume"}
      BY <1>1, <2>1 DEF OperationOK
    <3>4. ~Holds(to("publish"), p)
      BY <1>1, <3>3 DEF Holds, Owns, OwningPoints, Operation
    <3>5. LocalStep(a, p, to("publish"), r1)
      BY <1>1, <1>6, <2>1, <2>2, <2>3, <3>1, <3>2, <3>4
         DEF LocalStep, OperationOK, LoadSucceeds, SetRecord, services, Owns, Holds, OwningPoints,
             Departs, Released, Operation
    <3> QED  BY <1>1, <3>5, LocalStepInv
  <2>4. CASE ~ActivateDispatch(a)
    <3>1. r2 \in PluginRecord /\ r2.state = "loading" /\ r2.image /\ ~r2.accepting /\ RecordOK(r2)
      BY <1>1, <2>1 DEF PluginRecord, States, RecordOK
    <3>2. op' = [op EXCEPT ![a] = to("prepare")] /\ to("prepare") \in Operation
      BY <1>6, <2>4, GotoOp DEF LoadSucceeds, Points
    <3>3. op[a].cmd = "reload"
      BY <2>4 DEF ActivateDispatch
    <3>4. Holds(to("prepare"), p) => Consistent(to("prepare"), p, r2)
      BY <1>1, <3>1, <3>3 DEF Holds, Consistent, Owns, OwningPoints, Departs, Operation
    <3>5. LocalStep(a, p, to("prepare"), r2)
      BY <1>1, <1>6, <2>1, <2>4, <3>1, <3>2, <3>3, <3>4
         DEF LocalStep, OperationOK, LoadSucceeds, SetRecord, services, Owns, Departs, Released, Operation
    <3> QED  BY <1>1, <3>5, LocalStepInv
  <2> QED  BY <2>3, <2>4
<1>7. CASE LoadFails(a)
  <2> DEFINE r == [plugin[p] EXCEPT !.loading = FALSE, !.accepting = FALSE]
  <2>1. op[a].at = "load" /\ plugin[p].state = "loading" /\ plugin[p].image
    BY <1>1, <1>7 DEF LoadFails, At, Consistent
  <2>2. r \in PluginRecord /\ r.state = "loading" /\ r.image /\ ~r.accepting /\ RecordOK(r)
    BY <1>1, <2>1 DEF PluginRecord, States, RecordOK
  <2>3. op' = [op EXCEPT ![a] = to("rollback")] /\ to("rollback") \in Operation
    BY <1>7, GotoOp DEF LoadFails, Points
  <2>4. Holds(to("rollback"), p) => Consistent(to("rollback"), p, r)
    BY <1>1, <2>2 DEF Holds, Consistent, Owns, OwningPoints, Departs, Operation
  <2>5. LocalStep(a, p, to("rollback"), r)
    BY <1>1, <1>7, <2>1, <2>2, <2>3, <2>4
       DEF LocalStep, OperationOK, LoadFails, SetRecord, services, Owns, Departs, Released, Operation
  <2> QED  BY <1>1, <2>5, LocalStepInv
<1>8. CASE ReplacementPrepared(a)
  <2> DEFINE r1 == [plugin[p] EXCEPT !.state = "paused"]
             r2 == [plugin[p] EXCEPT !.state = "error"]
  <2>1. /\ op[a].at = "prepare" /\ op[a].cmd = "reload"
        /\ plugin[p].state = "loading" /\ plugin[p].image /\ ~plugin[p].accepting
    BY <1>1, <1>8 DEF ReplacementPrepared, At, Consistent
  <2>2. CASE SetRecord(p, r1) /\ Goto(a, "publish")
    <3>1. r1 \in PluginRecord /\ r1.state = "paused" /\ r1.image /\ RecordOK(r1)
      BY <1>1, <2>1 DEF PluginRecord, States, RecordOK
    <3>2. op' = [op EXCEPT ![a] = to("publish")] /\ to("publish") \in Operation
      BY <2>2, GotoOp DEF Points
    <3>3. LetsGo(a, to("publish"))
      BY <1>1, <2>1, <3>2 DEF LetsGo, Operation
    <3> QED  BY <1>0, <1>8, <2>1, <2>2, <3>1, <3>3, LetGoInv DEF ReplacementPrepared, services
  <2>3. CASE SetRecord(p, r2) /\ Goto(a, "prepare_unload")
    <3>1. r2 \in PluginRecord /\ r2.state = "error" /\ r2.image /\ ~r2.accepting /\ RecordOK(r2)
      BY <1>1, <2>1 DEF PluginRecord, States, RecordOK
    <3>2. op' = [op EXCEPT ![a] = to("prepare_unload")] /\ to("prepare_unload") \in Operation
      BY <2>3, GotoOp DEF Points
    <3>3. Holds(to("prepare_unload"), p) => Consistent(to("prepare_unload"), p, r2)
      BY <1>1, <3>1 DEF Holds, Consistent, Owns, OwningPoints, Departs, Operation
    <3>4. LocalStep(a, p, to("prepare_unload"), r2)
      BY <1>1, <1>8, <2>1, <2>3, <3>1, <3>2, <3>3
         DEF LocalStep, OperationOK, ReplacementPrepared, SetRecord, services, Owns, Departs, Released, Operation
    <3> QED  BY <1>1, <3>4, LocalStepInv
  <2> QED  BY <1>8, <2>2, <2>3 DEF ReplacementPrepared
<1>9. CASE ReplacementUnloadPrepared(a)
  <2>1. /\ op[a].at = "prepare_unload" /\ plugin[p].state = "error"
        /\ plugin[p].image /\ ~plugin[p].accepting
    BY <1>1, <1>9 DEF ReplacementUnloadPrepared, At, Consistent
  <2>2. CASE UNCHANGED plugin /\ Goto(a, "rollback")
    <3>1. op' = [op EXCEPT ![a] = to("rollback")] /\ to("rollback") \in Operation
      BY <2>2, GotoOp DEF Points
    <3>2. plugin' = [plugin EXCEPT ![p] = plugin[p]]
      BY <1>1, <2>2 DEF TypeOK
    <3>3. Holds(to("rollback"), p) => Consistent(to("rollback"), p, plugin[p])
      BY <1>1, <2>1 DEF Holds, Consistent, Owns, OwningPoints, Departs, Operation
    <3>4. LocalStep(a, p, to("rollback"), plugin[p])
      BY <1>1, <1>9, <2>1, <3>1, <3>2, <3>3
         DEF LocalStep, OperationOK, ReplacementUnloadPrepared, services, Owns, Departs, Released, Operation
    <3> QED  BY <1>1, <3>4, LocalStepInv
  <2>3. CASE SetRecord(p, [plugin[p] EXCEPT !.cleanup_pending = TRUE]) /\ LoadEnds(a)
    <3> DEFINE r == [plugin[p] EXCEPT !.cleanup_pending = TRUE]
    <3>1. r \in PluginRecord /\ r.state = "error" /\ r.image /\ RecordOK(r)
      BY <1>1, <2>1 DEF PluginRecord, RecordOK
    <3>2. PICK o : LetsGo(a, o)
      BY <2>3, LoadEndsLetsGo
    <3> QED  BY <1>0, <1>9, <2>1, <2>3, <3>1, <3>2, LetGoInv
             DEF ReplacementUnloadPrepared, services
  <2> QED  BY <1>9, <2>2, <2>3 DEF ReplacementUnloadPrepared
<1>10. CASE RollbackLayer(a)
  <2> DEFINE l == RollbackOrder[op[a].step]
             end(f) == [plugin[p] EXCEPT !.state = "error", !.live = {}, !.cleanup_pending = f]
             r == [plugin[p] EXCEPT !.live = @ \ {l}]
  <2>1. /\ op[a].at = "rollback" /\ plugin[p].state \in {"loading", "error"}
        /\ plugin[p].image /\ ~plugin[p].accepting /\ op[a].step \in 1..8
    BY <1>1, <1>10 DEF RollbackLayer, At, Consistent, Operation
  <2>2. NoLeaseOn(p)
    BY <1>1, <2>1 DEF NoLeaseOn, IInv, LeasesPinProviders
  <2>3. leases' \subseteq leases
    BY <1>10 DEF RollbackLayer, Withdrawn, services
  <2>4. op[a].step >= 3 => \A q \in Plugins : <<p, q>> \notin leases'
    <3>1. CASE op[a].step > 3
      BY <1>1, <2>1, <2>3, <3>1 DEF IInv, ReleasedInv, Released
    <3>2. CASE op[a].step = 3
      <4>1. l = "services"
        BY <3>2 DEF RollbackOrder
      <4>2. ~MayBeBusy(a, p, l) /\ l \notin EngineLayers /\ ~HasLeasedPublication(p)
        BY <2>2, <4>1 DEF MayBeBusy, OwnCallback, Layers, EngineLayers, HasLeasedPublication, NoLeaseOn
      <4> QED  BY <1>10, <4>1, <4>2 DEF RollbackLayer, Withdrawn
    <3> QED  BY <2>1, <3>1, <3>2
  <2>5. PICK f \in BOOLEAN :
          IF LastLayer(a)
          THEN /\ SetRecord(p, end(f))
               /\ LoadEnds(a) \/ Goto(a, "cleanup")
          ELSE /\ op' = [op EXCEPT ![a].step = @ + 1, ![a].failed = f]
               /\ SetRecord(p, r)
               /\ UNCHANGED stack
    BY <1>1, <1>10 DEF RollbackLayer, Operation
  <2>6. CASE LastLayer(a)
    <3>1. /\ end(f) \in PluginRecord /\ end(f).state = "error" /\ end(f).image
          /\ ~end(f).accepting /\ RecordOK(end(f))
      BY <1>1, <2>1 DEF PluginRecord, States, RecordOK
    <3>2. CASE LoadEnds(a)
      <4>1. PICK o : LetsGo(a, o)
        BY <3>2, LoadEndsLetsGo
      <4> QED  BY <1>0, <2>1, <2>3, <2>5, <2>6, <3>1, <4>1, LetGoInv
    <3>3. CASE Goto(a, "cleanup")
      <4>1. op' = [op EXCEPT ![a] = to("cleanup")] /\ to("cleanup") \in Operation
        BY <3>3, GotoOp DEF Points
      <4>2. Holds(to("cleanup"), p) => Consistent(to("cleanup"), p, end(f))
        BY <1>1, <3>1 DEF Holds, Consistent, Owns, OwningPoints, Departs, Operation
      <4>3. \A q \in Plugins : <<p, q>> \notin leases'
        BY <2>4, <2>6 DEF LastLayer, ReleaseOrder
      <4>4. LocalStep(a, p, to("cleanup"), end(f))
        BY <1>1, <2>1, <2>3, <2>5, <2>6, <3>1, <4>1, <4>2, <4>3
           DEF LocalStep, OperationOK, SetRecord, Owns, Departs, Operation
      <4> QED  BY <1>1, <4>4, LocalStepInv
    <3> QED  BY <2>5, <2>6, <3>2, <3>3
  <2>7. CASE ~LastLayer(a)
    <3> DEFINE o == [op[a] EXCEPT !.step = op[a].step + 1, !.failed = f]
    <3>1. op[a].step + 1 \in 1..8
      BY <2>1, <2>7 DEF LastLayer, ReleaseOrder
    <3>2. op' = [op EXCEPT ![a] = o] /\ o \in Operation
      BY <1>1, <2>5, <2>7, <3>1, OperationTypes DEF TypeOK
    <3>3. /\ r \in PluginRecord /\ r.state = plugin[p].state /\ r.image
          /\ ~r.accepting /\ RecordOK(r)
      BY <1>1, <2>1 DEF PluginRecord, RecordOK
    <3>4. /\ o.at = "rollback" /\ o.target = p /\ o.cmd = op[a].cmd
          /\ o.batch = op[a].batch /\ o.step = op[a].step + 1
      BY <1>1, <2>1 DEF Operation
    <3>5. Holds(o, p) => Consistent(o, p, r)
      BY <1>1, <2>1, <3>3, <3>4 DEF Holds, Consistent, Owns, OwningPoints, Departs
    <3>6. Released(o, p) => \A q \in Plugins : <<p, q>> \notin leases'
      BY <1>1, <2>1, <2>4, <3>4 DEF Released
    <3>7. LocalStep(a, p, o, r)
      BY <1>1, <2>1, <2>3, <2>5, <2>7, <3>2, <3>3, <3>4, <3>5, <3>6
         DEF LocalStep, OperationOK, SetRecord, Owns, Departs
    <3> QED  BY <1>1, <3>7, LocalStepInv
  <2> QED  BY <2>6, <2>7
<1>11. CASE RollbackDone(a)
  <2>1. PICK o : LetsGo(a, o)
    BY <1>11, LoadEndsLetsGo DEF RollbackDone
  <2>2. \A q \in Plugins : <<p, q>> \notin leases
    BY <1>1, <1>11 DEF RollbackDone, At, IInv, ReleasedInv, Released
  <2>3. plugin[p].state # "loaded"
    BY <1>1, <1>11 DEF RollbackDone, At, Consistent
  <2> QED  BY <1>0, <1>11, <1>c, <2>1, <2>2, <2>3, LetGoInv DEF RollbackDone, services
<1> QED  BY <1>2, <1>3, <1>4, <1>5, <1>6, <1>7, <1>8, <1>9, <1>10, <1>11 DEF LoadStep

\* Steps of a batch keep the invariant.
LEMMA BatchStepInv ==
  ASSUME TypeOK, IInv, NEW a \in Actors, BatchStep(a)
  PROVE  IInv'
<1>0. /\ op[a] \in Operation /\ op[a].batch \in SUBSET Plugins /\ OperationOK(op[a])
  BY DEF TypeOK, Operation, IInv, TargetInv
<1>c. /\ Closed("error") \in PluginRecord /\ RecordOK(Closed("error"))
      /\ Closed("error").state = "error" /\ ~Closed("error").image
      /\ Discovered \in PluginRecord /\ RecordOK(Discovered)
      /\ Discovered.state = "error" /\ Discovered.image /\ ~Discovered.accepting
  BY FreshRecords DEF Closed, Discovered, NoRecord, RecordOK, States
<1>1. ASSUME NEW p \in Plugins, DiscoverPlugin(a, p)
      PROVE  IInv'
  <2>1. op[a].at = "discover" /\ op[a].cmd = "batch"
    BY <1>0, <1>1 DEF DiscoverPlugin, At, OperationOK
  <2>2. CASE plugin[p].state \in {"absent", "disabled"}
    <3> DEFINE S == op[a].todo \ {p}
               o == [op[a] EXCEPT !.at = "query", !.target = p, !.todo = S]
    <3>1. S \in SUBSET Plugins
      BY <1>0 DEF Operation
    <3>2. op' = [op EXCEPT ![a] = o] /\ o \in Operation
      BY <1>0, <1>1, <2>2, <3>1, BatchTypes DEF DiscoverPlugin, TypeOK, Points
    <3>3. ~plugin[p].image
      BY <2>2 DEF IInv, RecordInv, RecordOK
    <3>4. \A b \in Actors : ~Holds(op[b], p)
      BY <3>3, Free
    <3>5. /\ o.at = "query" /\ o.target = p /\ o.cmd = "batch" /\ o.batch = op[a].batch
          /\ p \notin o.batch
      BY <1>0, <2>1, <3>4 DEF Operation, Holds
    <3>6. \A q \in Plugins : <<p, q>> \notin leases
      BY <3>3 DEF IInv, LeasesPinProviders
    <3>7. LocalStep(a, p, o, Discovered)
      BY <1>c, <1>1, <2>2, <3>2, <3>4, <3>5, <3>6
         DEF LocalStep, OperationOK, DiscoverPlugin, SetRecord, services, Holds, Owns,
             OwningPoints, Departs, Consistent
    <3> QED  BY <3>7, LocalStepInv
  <2>3. CASE plugin[p].state \notin {"absent", "disabled"}
    <3> DEFINE o == [op[a] EXCEPT !.todo = op[a].todo \ {p}]
    <3>1. op' = [op EXCEPT ![a] = o]
      BY <1>1, <2>3 DEF DiscoverPlugin, TypeOK
    <3>2. o.at = "discover" /\ o.batch = op[a].batch /\ o.cmd = "batch"
      BY <1>0, <2>1 DEF Operation
    <3>3. QuietStep(a, o)
      BY <1>1, <2>3, <3>1, <3>2 DEF QuietStep, DiscoverPlugin, services, Owns, OwningPoints, OperationOK
    <3> QED  BY <3>3, QuietStepInv
  <2> QED  BY <2>2, <2>3
<1>2. ASSUME NEW p \in op[a].batch
      PROVE  /\ p \in Plugins /\ plugin[p] \in PluginRecord
             /\ plugin[p].image /\ plugin[p].state = "loading" /\ ~plugin[p].accepting
             /\ \A b \in Actors \ {a} : ~Holds(op[b], p)
             /\ \A q \in Plugins : <<p, q>> \notin leases
  <2>1. p \in Plugins /\ Holds(op[a], p) /\ Released(op[a], p)
    BY <1>0 DEF Holds, Released
  <2>2. Consistent(op[a], p, plugin[p]) /\ \A b \in Actors \ {a} : ~Holds(op[b], p)
    BY <2>1 DEF IInv, HoldInv
  <2> QED  BY <2>1, <2>2 DEF Consistent, IInv, ReleasedInv, TypeOK
<1>3. ASSUME NEW p \in Plugins, StartDiscovered(a, p)
      PROVE  IInv'
  <2> DEFINE S == op[a].batch \ {p}
  <2>1. op[a].at = "batch" /\ op[a].cmd = "batch" /\ p \in op[a].batch
    BY <1>0, <1>3 DEF StartDiscovered, At, OperationOK
  <2>2. S \in SUBSET Plugins
    BY <1>0
  <2>3. CASE SetRecord(p, Closed("error")) /\ op' = [op EXCEPT ![a].batch = @ \ {p}]
    <3> DEFINE o == [op[a] EXCEPT !.batch = S]
    <3>1. op' = [op EXCEPT ![a] = o] /\ o \in Operation
      BY <1>0, <2>2, <2>3, BatchTypes DEF TypeOK
    <3>2. o.at = "batch" /\ o.batch = S /\ o.cmd = "batch"
      BY <1>0, <2>1 DEF Operation
    <3>3. ~Holds(o, p)
      BY <3>2 DEF Holds, Owns, OwningPoints
    <3>4. LocalStep(a, p, o, Closed("error"))
      BY <1>c, <1>2, <1>3, <2>1, <2>3, <3>1, <3>2, <3>3
         DEF LocalStep, OperationOK, StartDiscovered, SetRecord, services, Owns, Holds,
             OwningPoints, Departs, Released
    <3> QED  BY <3>4, LocalStepInv
  <2>4. CASE /\ SetRecord(p, Started(plugin[p]))
             /\ op' = [op EXCEPT ![a].batch = @ \ {p}, ![a].target = p, ![a].at = "load"]
    <3> DEFINE o == [op[a] EXCEPT !.batch = S, !.target = p, !.at = "load"]
               r == Started(plugin[p])
    <3>1. op' = [op EXCEPT ![a] = o] /\ o \in Operation
      BY <1>0, <2>2, <2>4, BatchTypes DEF TypeOK, Points
    <3>2. o.at = "load" /\ o.batch = S /\ o.cmd = "batch" /\ o.target = p
      BY <1>0, <2>1 DEF Operation
    <3>3. r \in PluginRecord /\ r.state = "loading" /\ r.image /\ RecordOK(r)
      BY <1>2, <2>1 DEF Started, PluginRecord, States, RecordOK
    <3>4. LocalStep(a, p, o, r)
      BY <1>2, <1>3, <2>1, <2>4, <3>1, <3>2, <3>3
         DEF LocalStep, OperationOK, StartDiscovered, SetRecord, services, Owns, Holds,
             OwningPoints, Departs, Released, Consistent
    <3> QED  BY <3>4, LocalStepInv
  <2> QED  BY <1>3, <2>3, <2>4 DEF StartDiscovered
<1>4. CASE DiscoveryDone(a)
  <2> DEFINE o == [op[a] EXCEPT !.at = "batch", !.step = 1]
  <2>1. op[a].cmd = "batch"
    BY <1>0, <1>4 DEF DiscoveryDone, At, OperationOK
  <2>2. LetsGo(a, o)
    BY <1>4, <2>1, GotoLetsGo DEF DiscoveryDone, Loose
  <2>3. o.at = "batch"
    BY <1>0 DEF Operation
  <2>4. QuietStep(a, o)
    BY <1>4, <2>2, <2>3, LetsGoOwnsNothing
       DEF DiscoveryDone, LetsGo, QuietStep, OperationOK, services
  <2> QED  BY <2>4, QuietStepInv
<1>5. CASE BatchDone(a)
  <2> DEFINE o == [op[a] EXCEPT !.at = "publish", !.target = NoPlugin]
  <2>1. op' = [op EXCEPT ![a] = o]
    BY <1>5 DEF BatchDone, TypeOK
  <2>2. o.at = "publish" /\ o.target = NoPlugin /\ o.batch = op[a].batch
    BY <1>0 DEF Operation
  <2>3. QuietStep(a, o)
    BY <1>5, <2>1, <2>2, ConstantsAssumption
       DEF BatchDone, QuietStep, OperationOK, services, Owns, ConstantsAssumption
  <2> QED  BY <2>3, QuietStepInv
<1>6. CASE RejectCycle(a)
  <2> DEFINE B == op[a].batch
             o == [op[a] EXCEPT !.batch = {}]
             r == [Closed("error") EXCEPT !.cycle = TRUE]
  <2>1. op[a].at = "batch" /\ op[a].cmd = "batch"
    BY <1>0, <1>6 DEF RejectCycle, At, OperationOK
  <2>2. /\ op'[a] = o /\ \A b \in Actors \ {a} : op'[b] = op[b]
        /\ \A q \in B : plugin'[q] = r
        /\ \A q \in Plugins \ B : plugin'[q] = plugin[q]
        /\ leases' = leases
    BY <1>0, <1>6 DEF RejectCycle, TypeOK, services
  <2>3. o.at = "batch" /\ o.cmd = "batch" /\ o.batch = {}
    BY <1>0, <2>1 DEF Operation
  <2>4. r.state = "error" /\ ~r.image /\ ~r.accepting /\ RecordOK(r)
    BY DEF Closed, NoRecord, RecordOK
  <2>5. \A q \in Plugins : ~Holds(o, q)
    BY <2>3 DEF Holds, Owns, OwningPoints
  <2>6. TargetInv'
    BY ZenonT(60), <2>2, <2>3 DEF TargetInv, OperationOK, IInv
  <2>7. HoldInv'
    <3> SUFFICES ASSUME NEW b \in Actors, NEW q \in Plugins, Holds(op'[b], q)
                 PROVE  /\ Consistent(op'[b], q, plugin'[q])
                        /\ \A c \in Actors \ {b} : ~Holds(op'[c], q)
      BY DEF HoldInv, Holds, Consistent, Owns, Departs
    <3>1. b # a /\ op'[b] = op[b]
      BY <2>2, <2>5
    <3>2. q \notin B /\ plugin'[q] = plugin[q]
      BY <1>2, <2>2, <3>1
    <3>3. /\ Consistent(op[b], q, plugin[q])
          /\ \A c \in Actors \ {b} : ~Holds(op[c], q)
      BY <3>1 DEF IInv, HoldInv
    <3> QED  BY <2>2, <2>5, <3>1, <3>2, <3>3
  <2>8. DepartInv'
    <3> SUFFICES ASSUME NEW b \in Actors, NEW q \in Plugins, Departs(op'[b], q, plugin'[q])
                 PROVE  /\ \A c \in Plugins : plugin'[c].state = "loaded" => q \notin Deps[c]
                        /\ \A c \in Plugins : <<c, q>> \notin leases
      BY <2>2 DEF DepartInv, Departs
    <3>1. Holds(op'[b], q)
      BY DepartsOwns DEF Holds
    <3>2. b # a /\ op'[b] = op[b]
      BY <2>2, <2>5, <3>1
    <3>3. plugin'[q] = plugin[q]
      BY <1>2, <2>2, <3>1, <3>2
    <3> QED  BY <2>2, <2>4, <3>2, <3>3 DEF IInv, DepartInv
  <2>9. ReleasedInv'
    BY <2>2, <2>3 DEF IInv, ReleasedInv, Released, Owns
  <2>10. RecordInv'
    BY <2>2, <2>4 DEF IInv, RecordInv, RecordOK
  <2>11. DependencyClosure'
    <3> SUFFICES ASSUME NEW q \in Plugins, plugin'[q].state = "loaded", NEW d \in Deps[q]
                 PROVE  plugin'[d].state = "loaded"
      BY DEF DependencyClosure
    <3>1. d \in Plugins
      BY ConstantsAssumption DEF ConstantsAssumption
    <3>2. plugin[q].state = "loaded" /\ plugin[d].state = "loaded"
      BY <2>2, <2>4 DEF IInv, DependencyClosure
    <3> QED  BY <1>2, <2>2, <3>1, <3>2
  <2>12. LeasesPinProviders'
    <3> SUFFICES ASSUME NEW e \in leases
                 PROVE  plugin'[e[2]].state = "loaded" /\ plugin'[e[1]].image
      BY <2>2 DEF LeasesPinProviders
    <3>1. PICK c \in Plugins, q \in Plugins : e = <<c, q>>
      BY DEF TypeOK
    <3>2. plugin[q].state = "loaded" /\ plugin[c].image
      BY <3>1 DEF IInv, LeasesPinProviders
    <3>3. c \notin B /\ q \notin B
      BY <1>2, <3>1, <3>2
    <3> QED  BY <2>2, <3>1, <3>2, <3>3
  <2> QED  BY <2>6, <2>7, <2>8, <2>9, <2>10, <2>11, <2>12 DEF IInv
<1> QED  BY <1>1, <1>3, <1>4, <1>5, <1>6 DEF BatchStep

\* A refused transition hands its plugin back.
LEMMA AbandonInv ==
  ASSUME TypeOK, IInv, NEW a \in Actors, op[a].at \in OwningPoints,
         NEW r \in PluginRecord, Abandon(a, r), r.image,
         r.state = plugin[op[a].target].state
  PROVE  IInv'
<1> DEFINE p == op[a].target
<1>1. Settled(r) \in PluginRecord /\ Settled(r).image /\ Settled(r).state = r.state
  BY RecordTypes DEF Settled, PluginRecord
<1>2. RecordOK(Settled(r))
  <2>1. plugin[p].image /\ RecordOK(plugin[p])
    BY Owned DEF Consistent
  <2> QED  BY <1>1, <2>1 DEF RecordOK
<1>3. LetsGo(a, Idle)
  BY EndLetsGo DEF Abandon
<1> QED  BY <1>1, <1>2, <1>3, LetGoInv DEF Abandon, services

\* Steps of an unload, a pause and a resume keep the invariant.
LEMMA TransitionStepInv ==
  ASSUME TypeOK, IInv, NEW a \in Actors, TransitionStep(a)
  PROVE  IInv'
<1> DEFINE p == op[a].target
           to(at) == [op[a] EXCEPT !.at = at, !.step = 1]
<1>0. op[a].at \in OwningPoints
  BY DEF TransitionStep, OwningPoints, At, Deactivate, DeactivateDone, DeactivateBusy,
         PausePrepared, UnloadPrepared, ReleaseLayer, ReleaseFails, UnloadPlugin
<1>1. /\ p \in Plugins /\ op[a] \in Operation /\ plugin[p] \in PluginRecord
      /\ Owns(op[a], p) /\ Consistent(op[a], p, plugin[p]) /\ p \notin op[a].batch
      /\ \A b \in Actors \ {a} : ~Holds(op[b], p)
      /\ RecordOK(plugin[p]) /\ OperationOK(op[a])
  BY <1>0, Owned DEF IInv, TargetInv
<1>2. Departs(op[a], p, plugin[p])
  BY <1>1 DEF TransitionStep, Departs, At, Deactivate, DeactivateDone, DeactivateBusy,
         PausePrepared, UnloadPrepared, ReleaseLayer, ReleaseFails, UnloadPlugin
<1>3. /\ plugin[p].image /\ ~plugin[p].accepting /\ plugin[p].transitioning
      /\ plugin[p].state \in {"loaded", "paused"}
      /\ NoRunningDependent(p) /\ NoLeaseOn(p)
  BY <1>1, <1>2 DEF Consistent, Departs, Owns, IInv, DepartInv, NoRunningDependent, NoLeaseOn
<1>4. CASE Deactivate(a)
  <2> DEFINE r == [plugin[p] EXCEPT !.live = @ \ {DeactivateOrder[op[a].step]}]
             o == [op[a] EXCEPT !.at = "drain"]
  <2>1. op' = [op EXCEPT ![a] = o] /\ o \in Operation
    BY <1>1, <1>4, OperationTypes DEF Deactivate, TypeOK, Points
  <2>2. o.at = "drain" /\ o.target = p /\ o.cmd = op[a].cmd /\ o.batch = op[a].batch
    BY <1>1 DEF Operation
  <2>3. /\ r \in PluginRecord /\ r.state = plugin[p].state /\ r.image /\ ~r.accepting
        /\ r.transitioning /\ RecordOK(r)
    BY <1>1, <1>3 DEF PluginRecord, RecordOK
  <2>4. LocalStep(a, p, o, r)
    BY <1>1, <1>3, <1>4, <2>1, <2>2, <2>3
       DEF LocalStep, OperationOK, Deactivate, SetRecord, services, Holds, Owns, OwningPoints,
           Consistent, Released
  <2> QED  BY <1>1, <2>4, LocalStepInv
<1>5. CASE DeactivateDone(a)
  <2>1. PICK o : /\ op' = [op EXCEPT ![a] = o] /\ o \in Operation
                 /\ \/ o.at = "deactivate"
                    \/ o.at = "prepare" /\ o.cmd = "pause"
                    \/ o.at = "prepare_unload"
                 /\ o.target = p /\ o.batch = op[a].batch /\ o.cmd = op[a].cmd
    <3>1. CASE op[a].was_running /\ op[a].step < 6
      <4> DEFINE o == [op[a] EXCEPT !.at = "deactivate", !.step = op[a].step + 1]
      <4>1. op[a].step + 1 \in 1..8
        BY <1>1, <3>1 DEF Operation
      <4>2. op' = [op EXCEPT ![a] = o] /\ o \in Operation
        BY <1>1, <1>5, <3>1, <4>1, OperationTypes DEF DeactivateDone, TypeOK, Points
      <4> QED  BY <1>1, <4>2 DEF Operation
    <3>2. CASE ~(op[a].was_running /\ op[a].step < 6)
      <4>1. PICK at \in {"prepare", "prepare_unload"} :
               Goto(a, at) /\ (at = "prepare" => op[a].cmd = "pause")
        BY <1>5, <3>2 DEF DeactivateDone
      <4>2. op' = [op EXCEPT ![a] = to(at)] /\ to(at) \in Operation
        BY ZenonT(60), <4>1, GotoOp DEF Points
      <4>3. /\ to(at).at = at /\ to(at).target = p /\ to(at).batch = op[a].batch
            /\ to(at).cmd = op[a].cmd
        BY <1>1 DEF Operation
      <4> QED  BY <4>1, <4>2, <4>3
    <3> QED  BY <3>1, <3>2
  <2>2. plugin' = [plugin EXCEPT ![p] = plugin[p]]
    BY <1>1, <1>5 DEF DeactivateDone, TypeOK
  <2>3. LocalStep(a, p, o, plugin[p])
    BY <1>1, <1>3, <1>5, <2>1, <2>2
       DEF LocalStep, OperationOK, DeactivateDone, services, Holds, Owns, OwningPoints,
           Consistent, Released
  <2> QED  BY <1>1, <2>3, LocalStepInv
<1>6. CASE DeactivateBusy(a)
  <2> DEFINE r == RestoredAfter(plugin[p], op[a].cmd, DeactivateOrder[op[a].step])
  <2>1. r \in PluginRecord /\ r.state = plugin[p].state /\ r.image
    BY <1>1, <1>3 DEF RestoredAfter, Restored, PluginRecord, Layers
  <2> QED  BY <1>0, <1>6, <2>1, AbandonInv DEF DeactivateBusy
<1>7. Restored(plugin[p]) \in PluginRecord /\ Restored(plugin[p]).state = plugin[p].state
      /\ Restored(plugin[p]).image
  BY <1>1, <1>3 DEF Restored, PluginRecord
<1>8. CASE PausePrepared(a)
  <2> DEFINE r == [plugin[p] EXCEPT !.state = "paused"]
  <2>1. CASE SetRecord(p, r) /\ Goto(a, "publish") /\ UNCHANGED services
    <3>1. op' = [op EXCEPT ![a] = to("publish")] /\ to("publish") \in Operation
      BY <2>1, GotoOp DEF Points
    <3>2. /\ to("publish").at = "publish" /\ to("publish").target = p
          /\ to("publish").batch = op[a].batch
      BY <1>1 DEF Operation
    <3>3. r \in PluginRecord /\ r.state = "paused" /\ r.image /\ r.transitioning /\ RecordOK(r)
      BY <1>1, <1>3 DEF PluginRecord, RecordOK, States
    <3>4. LocalStep(a, p, to("publish"), r)
      BY <1>1, <1>3, <2>1, <3>1, <3>2, <3>3
         DEF LocalStep, OperationOK, SetRecord, services, Holds, Owns, OwningPoints,
             Consistent, Departs, Released
    <3> QED  BY <1>1, <3>4, LocalStepInv
  <2>2. CASE Abandon(a, Restored(plugin[p]))
    BY <1>0, <1>7, <2>2, AbandonInv
  <2> QED  BY <1>8, <2>1, <2>2 DEF PausePrepared
<1>9. CASE UnloadPrepared(a)
  <2>1. CASE Goto(a, "release") /\ UNCHANGED <<plugin, services>>
    <3>1. op' = [op EXCEPT ![a] = to("release")] /\ to("release") \in Operation
      BY <2>1, GotoOp DEF Points
    <3>2. /\ to("release").at = "release" /\ to("release").target = p
          /\ to("release").batch = op[a].batch /\ to("release").step = 1
          /\ to("release").cmd = op[a].cmd
      BY <1>1 DEF Operation
    <3>3. plugin' = [plugin EXCEPT ![p] = plugin[p]]
      BY <1>1, <2>1 DEF TypeOK
    <3>4. Consistent(to("release"), p, plugin[p]) /\ ~Released(to("release"), p)
      BY <1>1, <1>3, <3>2 DEF Consistent, Owns, OwningPoints, Released
    <3>5. LocalStep(a, p, to("release"), plugin[p])
      BY <1>1, <1>3, <2>1, <3>1, <3>2, <3>3, <3>4
         DEF LocalStep, OperationOK, services, Owns
    <3> QED  BY <1>1, <3>5, LocalStepInv
  <2>2. CASE Abandon(a, IF op[a].was_running THEN Restored(plugin[p]) ELSE plugin[p])
    BY <1>0, <1>1, <1>3, <1>7, <2>2, AbandonInv
  <2> QED  BY <1>9, <2>1, <2>2 DEF UnloadPrepared
<1>10. CASE ReleaseLayer(a)
  <2> DEFINE l == ReleaseOrder[op[a].step]
  <2>1. op[a].at = "release" /\ op[a].step \in 1..8
    BY <1>1, <1>10 DEF ReleaseLayer, At, Operation
  <2>2. leases' \subseteq leases
    BY <1>10 DEF ReleaseLayer, Withdrawn, services
  <2>3. op[a].step >= 7 => \A q \in Plugins : <<p, q>> \notin leases'
    <3>1. CASE op[a].step > 7
      BY <1>1, <2>1, <2>2, <3>1 DEF IInv, ReleasedInv, Released
    <3>2. CASE op[a].step = 7
      <4>1. l = "services"
        BY <3>2 DEF ReleaseOrder
      <4> QED  BY <1>10, <4>1 DEF ReleaseLayer, Withdrawn
    <3> QED  BY <2>1, <3>1, <3>2
  <2>4. PICK L : SetRecord(p, [plugin[p] EXCEPT !.live = @ \ L])
    BY <1>10 DEF ReleaseLayer
  <2> DEFINE r == [plugin[p] EXCEPT !.live = @ \ L]
  <2>5. /\ r \in PluginRecord /\ r.state = plugin[p].state /\ r.image /\ ~r.accepting
        /\ r.transitioning /\ RecordOK(r)
    BY <1>1, <1>3 DEF PluginRecord, RecordOK
  <2>6. PICK o : /\ op' = [op EXCEPT ![a] = o] /\ o \in Operation
                 /\ \/ o.at = "release" /\ o.step = op[a].step + 1
                    \/ o.at = "unload" /\ op[a].step = 8
                 /\ o.target = p /\ o.batch = op[a].batch /\ o.cmd = op[a].cmd
    <3>1. CASE LastLayer(a)
      <4>1. op' = [op EXCEPT ![a] = to("unload")] /\ to("unload") \in Operation
        BY <1>10, <3>1, GotoOp DEF ReleaseLayer, Points
      <4> QED  BY <1>1, <3>1, <4>1 DEF Operation, LastLayer, ReleaseOrder
    <3>2. CASE ~LastLayer(a)
      <4> DEFINE o == [op[a] EXCEPT !.step = op[a].step + 1]
      <4>1. op[a].step + 1 \in 1..8
        BY <2>1, <3>2 DEF LastLayer, ReleaseOrder
      <4>2. op' = [op EXCEPT ![a] = o] /\ o \in Operation
        BY <1>1, <1>10, <3>2, <4>1, OperationTypes DEF ReleaseLayer, TypeOK
      <4>3. o.at = "release" /\ o.step = op[a].step + 1 /\ o.target = p
            /\ o.batch = op[a].batch /\ o.cmd = op[a].cmd
        BY <1>1, <2>1 DEF Operation
      <4> QED  BY <4>2, <4>3
    <3> QED  BY <3>1, <3>2
  <2>7. Released(o, p) => \A q \in Plugins : <<p, q>> \notin leases'
    BY <1>1, <2>1, <2>3, <2>6 DEF Released
  <2>8. Holds(o, p) => Consistent(o, p, r)
    BY <1>1, <1>3, <2>5, <2>6 DEF Holds, Owns, OwningPoints, Consistent
  <2>9. LocalStep(a, p, o, r)
    BY <1>1, <1>3, <2>2, <2>4, <2>5, <2>6, <2>7, <2>8
       DEF LocalStep, OperationOK, SetRecord, Owns
  <2> QED  BY <1>1, <2>9, LocalStepInv
<1>11. CASE ReleaseFails(a)
  <2> DEFINE r == [plugin[p] EXCEPT !.cleanup_pending = TRUE]
  <2>1. r \in PluginRecord /\ r.state = plugin[p].state /\ r.image
    BY <1>1, <1>3 DEF PluginRecord
  <2> QED  BY <1>0, <1>7, <1>11, <2>1, AbandonInv DEF ReleaseFails
<1>12. CASE UnloadPlugin(a)
  <2> DEFINE s == IF op[a].cmd = "unload" THEN "disabled" ELSE "absent"
             r == Closed(s)
  <2>1. op[a].at = "unload"
    BY <1>12 DEF UnloadPlugin, At
  <2>2. r \in PluginRecord /\ r.state = s /\ ~r.image /\ RecordOK(r)
    BY FreshRecords DEF Closed, NoRecord, RecordOK, States
  <2>3. op' = [op EXCEPT ![a] = to("publish_unloaded")] /\ to("publish_unloaded") \in Operation
    BY <1>12, GotoOp DEF UnloadPlugin, Points
  <2>4. \A q \in Plugins : <<p, q>> \notin leases
    BY <1>1, <2>1 DEF IInv, ReleasedInv, Released
  <2>5. /\ to("publish_unloaded").at = "publish_unloaded"
        /\ to("publish_unloaded").target = p /\ to("publish_unloaded").batch = op[a].batch
    BY <1>1 DEF Operation
  <2>6. LocalStep(a, p, to("publish_unloaded"), r)
    BY <1>1, <1>3, <1>12, <2>2, <2>3, <2>4, <2>5
       DEF LocalStep, OperationOK, UnloadPlugin, SetRecord, services, Holds, Owns,
           OwningPoints, Departs, Released
  <2> QED  BY <1>1, <2>6, LocalStepInv
<1> QED  BY <1>4, <1>5, <1>6, <1>8, <1>9, <1>10, <1>11, <1>12 DEF TransitionStep

\* What HasRunningDependent rules out.  A plugin in its query window is not
\* loaded, so that window hides no running dependent.
LEMMA NoDependentFound ==
  ASSUME IInv, NEW p \in Plugins, NEW retained, ~HasRunningDependent(p, retained)
  PROVE  NoRunningDependent(p) /\ NoLeaseOn(p)
<1>1. NoLeaseOn(p)
  BY DEF HasRunningDependent, HasLeasedPublication, NoLeaseOn
<1>2. ASSUME NEW q \in Plugins, plugin[q].state = "loaded", p \in Deps[q]
      PROVE  FALSE
  <2>1. q # p
    BY <1>2, ConstantsAssumption DEF ConstantsAssumption
  <2>2. PICK b \in Actors : op[b].at = "query" /\ op[b].target = q
    BY <1>2, <2>1 DEF HasRunningDependent, Querying
  <2>3. Owns(op[b], q)
    BY <2>2 DEF Owns, OwningPoints
  <2>4. Consistent(op[b], q, plugin[q])
    BY <2>3 DEF IInv, HoldInv, Holds
  <2> QED  BY <1>2, <2>2, <2>3, <2>4 DEF Consistent
<1> QED  BY <1>1, <1>2 DEF NoRunningDependent

\* An operation opens the image of a plugin that has none: its query begins.
LEMMA DiscoverInv ==
  ASSUME TypeOK, IInv, NEW a \in Actors, NEW p \in Plugins, ~plugin[p].image,
         NEW o \in Operation, op' = [op EXCEPT ![a] = o],
         o.at = "query", o.target = p, o.batch \subseteq op[a].batch,
         o.cmd \in {"load", "batch", "reload"},
         SetRecord(p, Discovered), leases' = leases
  PROVE  IInv'
<1>1. \A b \in Actors : ~Holds(op[b], p)
  BY Free
<1>2. plugin[p].state \notin {"loading", "loaded", "paused"}
  BY DEF IInv, RecordInv, RecordOK
<1>3. \A q \in Plugins : <<p, q>> \notin leases
  <2> SUFFICES ASSUME NEW q \in Plugins, <<p, q>> \in leases  PROVE FALSE
    OBVIOUS
  <2>1. plugin[<<p, q>>[1]].image
    BY DEF IInv, LeasesPinProviders
  <2> QED  BY <2>1
<1>4. /\ Discovered \in PluginRecord /\ RecordOK(Discovered) /\ Discovered.image
      /\ Discovered.state = "error" /\ ~Discovered.accepting
  BY FreshRecords DEF Discovered, NoRecord, RecordOK
<1>5. Holds(o, p) => Consistent(o, p, Discovered)
  BY <1>1, <1>4 DEF Holds, Consistent, Departs
<1>6. LocalStep(a, p, o, Discovered)
  BY <1>1, <1>2, <1>3, <1>4, <1>5 DEF LocalStep, OperationOK, SetRecord, Owns, Departs
<1> QED  BY <1>6, LocalStepInv

\* The first segment of a pause or an unload.
LEMMA CloseInv ==
  ASSUME TypeOK, IInv, NEW a \in Actors, NEW p \in Plugins,
         plugin[p].state \in {"loaded", "paused"}, ~plugin[p].transitioning,
         NEW retained, ~HasRunningDependent(p, retained),
         NEW o \in Operation, op' = [op EXCEPT ![a] = o],
         o.at = "deactivate", o.target = p, o.batch \subseteq op[a].batch,
         SetRecord(p, Closing(plugin[p])), leases' = leases
  PROVE  IInv'
<1> DEFINE r == Closing(plugin[p])
<1>1. \A b \in Actors : ~Holds(op[b], p)
  BY Free
<1>2. NoRunningDependent(p) /\ NoLeaseOn(p)
  BY NoDependentFound
<1>3. plugin[p].image /\ plugin[p] \in PluginRecord
  BY DEF IInv, RecordInv, RecordOK, TypeOK
<1>4. /\ r \in PluginRecord /\ r.state = plugin[p].state /\ r.image /\ ~r.accepting
      /\ r.transitioning /\ RecordOK(r)
  BY <1>3 DEF Closing, PluginRecord, RecordOK
<1>5. Holds(o, p) => Consistent(o, p, r)
  BY <1>1, <1>4 DEF Holds, Consistent, Departs
<1>6. LocalStep(a, p, o, r)
  BY <1>1, <1>2, <1>4, <1>5 DEF LocalStep, OperationOK, SetRecord, Owns, Holds, Released
<1> QED  BY <1>6, LocalStepInv

\* A slot that lets go of nothing and touches no record.
LEMMA LetsGoQuietly ==
  ASSUME TypeOK, IInv, NEW a \in Actors, NEW o, LetsGo(a, o),
         o.at \in {"candidate", "publish_unloaded"} => op[a].target \in Plugins,
         plugin' = plugin, leases' = leases
  PROVE  IInv'
<1>1. \A q \in Plugins : ~Owns(o, q)
  BY LetsGoOwnsNothing
<1>2. OperationOK(o)
  BY DEF LetsGo, Loose, OperationOK
<1>3. QuietStep(a, o)
  BY <1>1, <1>2 DEF QuietStep, LetsGo
<1> QED  BY <1>3, QuietStepInv

\* A reload's next attempt starts from a plugin nobody holds.
LEMMA ReplacementInv ==
  ASSUME TypeOK, IInv, NEW a \in Actors, op[a].target \in Plugins,
         op[a].cmd = "reload", NEW n \in {"candidate", "rollback"},
         LoadReplacement(a, n), leases' = leases
  PROVE  IInv'
<1> DEFINE p == op[a].target
           o == [op[a] EXCEPT !.at = "query", !.attempt = n, !.failed = FALSE]
<1>0. op[a] \in Operation
  BY DEF TypeOK
<1>1. CASE plugin[p].state \in {"absent", "disabled"}
  <2>1. ~plugin[p].image
    BY <1>1 DEF IInv, RecordInv, RecordOK
  <2>2. op' = [op EXCEPT ![a] = o] /\ SetRecord(p, Discovered)
    BY <1>1 DEF LoadReplacement, TypeOK
  <2>3. o \in Operation
    BY <1>0, AttemptTypes DEF Points
  <2>4. o.at = "query" /\ o.target = p /\ o.batch = op[a].batch /\ o.cmd = "reload"
    BY <1>0 DEF Operation
  <2> QED  BY <2>1, <2>2, <2>3, <2>4, DiscoverInv
<1>2. CASE plugin[p].state \notin {"absent", "disabled"}
  <2>1. End(a) /\ plugin' = plugin
    BY <1>2 DEF LoadReplacement
  <2>2. LetsGo(a, Idle)
    BY <2>1, EndLetsGo
  <2> QED  BY <2>1, <2>2, LetsGoQuietly
<1> QED  BY <1>1, <1>2

\* Steps after an unload keep the invariant.
LEMMA AfterStepInv ==
  ASSUME TypeOK, IInv, NEW a \in Actors, AfterStep(a)
  PROVE  IInv'
<1> DEFINE p == op[a].target
<1>0. op[a] \in Operation /\ OperationOK(op[a])
  BY DEF TypeOK, IInv, TargetInv
<1>1. CASE PublishDone(a)
  <2>1. op[a].at = "publish" /\ leases' = leases
    BY <1>1 DEF PublishDone, At, services
  <2>2. PICK o : /\ LetsGo(a, o)
                 /\ o.at \in {"candidate", "publish_unloaded"} => p \in Plugins
    <3>1. CASE p = NoPlugin
      BY <1>1, <3>1, EndLetsGo DEF PublishDone, Idle
    <3>2. CASE p # NoPlugin
      BY <1>0, <1>1, <3>2, LoadEndsLetsGo DEF PublishDone, Operation
    <3> QED  BY <3>1, <3>2
  <2>3. CASE op[a].cmd \in {"pause", "resume"} /\ p \in Plugins
    <3> DEFINE r == Settled(plugin[p])
    <3>1. Owns(op[a], p)
      BY <2>1, <2>3 DEF Owns
    <3>2. /\ Consistent(op[a], p, plugin[p]) /\ \A b \in Actors \ {a} : ~Holds(op[b], p)
          /\ p \notin op[a].batch
      BY <2>3, <3>1 DEF IInv, HoldInv, Holds, Consistent
    <3>3. plugin[p] \in PluginRecord /\ RecordOK(plugin[p]) /\ plugin[p].image
      BY <2>3, <3>2 DEF TypeOK, IInv, RecordInv, Consistent
    <3>4. /\ r \in PluginRecord /\ r.state = plugin[p].state /\ r.image /\ RecordOK(r)
      BY <3>3 DEF Settled, PluginRecord, RecordOK
    <3>5. SetRecord(p, r)
      BY <1>1, <2>3 DEF PublishDone
    <3>6. ~Holds(o, p)
      BY <2>2, <3>2, LetsGoOwnsNothing DEF Holds, LetsGo
    <3>7. OperationOK(o)
      BY <2>2 DEF LetsGo, Loose, OperationOK
    <3>8. LocalStep(a, p, o, r)
      BY <2>1, <2>2, <3>2, <3>4, <3>5, <3>6, <3>7, LetsGoOwnsNothing, DepartsOwns
         DEF LocalStep, LetsGo, SetRecord, Holds, Released
    <3> QED  BY <2>3, <3>8, LocalStepInv
  <2>4. CASE ~(op[a].cmd \in {"pause", "resume"} /\ p \in Plugins)
    <3>1. plugin' = plugin
      BY <1>1, <2>4 DEF PublishDone, SetRecord, TypeOK
    <3> QED  BY <2>1, <2>2, <3>1, LetsGoQuietly
  <2> QED  BY <2>3, <2>4
<1>2. CASE PublishUnloadedDone(a)
  <2>1. p \in Plugins /\ leases' = leases
    BY <1>0, <1>2 DEF PublishUnloadedDone, At, OperationOK, services
  <2>2. CASE op[a].cmd = "reload"
    BY <1>2, <2>1, <2>2, ReplacementInv DEF PublishUnloadedDone
  <2>3. CASE op[a].cmd # "reload"
    BY <1>2, <2>1, <2>3, EndLetsGo, LetsGoQuietly DEF PublishUnloadedDone
  <2> QED  BY <2>2, <2>3
<1>3. CASE CandidateKept(a)
  <2>1. End(a) /\ plugin' = plugin /\ leases' = leases
    BY <1>3 DEF CandidateKept, services
  <2>2. LetsGo(a, Idle)
    BY <2>1, EndLetsGo
  <2>3. Idle.at = "idle"
    BY DEF Idle
  <2> QED  BY <2>1, <2>2, <2>3, LetsGoQuietly
<1>4. CASE CandidateUnloaded(a)
  <2> DEFINE w == plugin[p].state = "loaded"
             o == [op[a] EXCEPT !.at = "deactivate", !.step = 1, !.was_running = w]
  <2>1. /\ p \in Plugins /\ leases' = leases /\ SetRecord(p, Closing(plugin[p]))
        /\ plugin[p].state \in {"loaded", "paused"} /\ ~plugin[p].transitioning
        /\ ~HasRunningDependent(p, TRUE)
    BY <1>0, <1>4 DEF CandidateUnloaded, At, OperationOK, services, CanUnload
  <2>2. op' = [op EXCEPT ![a] = o]
    BY <1>4 DEF CandidateUnloaded, TypeOK
  <2>3. o \in Operation
    <3>1. PICK one \in 1..8 : one = 1
      OBVIOUS
    <3>2. w \in BOOLEAN
      OBVIOUS
    <3>3. [op[a] EXCEPT !.at = "deactivate", !.step = one, !.was_running = w] \in Operation
      BY <1>0, <3>2, OperationTypes DEF Points
    <3> QED  BY <3>1, <3>3
  <2>4. o.at = "deactivate" /\ o.target = p /\ o.batch = op[a].batch
    BY <1>0 DEF Operation
  <2> QED  BY <2>1, <2>2, <2>3, <2>4, CloseInv
<1>5. CASE CandidateDiscarded(a)
  <2>1. p \in Plugins /\ op[a].cmd = "reload" /\ leases' = leases
    BY <1>0, <1>5 DEF CandidateDiscarded, At, OperationOK, services
  <2>2. CASE plugin[p].state = "error" /\ ~plugin[p].image
    <3> DEFINE o == [op[a] EXCEPT !.at = "query", !.attempt = "rollback", !.failed = FALSE]
    <3>1. op' = [op EXCEPT ![a] = o] /\ SetRecord(p, Discovered)
      BY <1>5, <2>2 DEF CandidateDiscarded, TypeOK
    <3>2. o \in Operation
      BY <1>0, AttemptTypes DEF Points
    <3>3. o.at = "query" /\ o.target = p /\ o.batch = op[a].batch /\ o.cmd = "reload"
      BY <1>0, <2>1 DEF Operation
    <3> QED  BY <2>1, <2>2, <3>1, <3>2, <3>3, DiscoverInv
  <2>3. CASE ~(plugin[p].state = "error" /\ ~plugin[p].image)
    BY <1>5, <2>1, <2>3, ReplacementInv DEF CandidateDiscarded
  <2> QED  BY <2>2, <2>3
<1> QED  BY <1>1, <1>2, <1>3, <1>4, <1>5 DEF AfterStep

\* The operation a command begins.
LEMMA BeginOp ==
  ASSUME TypeOK, NEW a \in Actors, NEW c \in Commands, NEW p \in Plugins,
         NEW at \in Points, Begin(a, c, p, at)
  PROVE  \E o \in Operation :
           /\ op' = [op EXCEPT ![a] = o]
           /\ o.at = at /\ o.target = p /\ o.cmd = c /\ o.batch = {}
<1> DEFINE o == [Idle EXCEPT !.at = at, !.cmd = c, !.target = p,
                             !.was_running = plugin[p].state = "loaded",
                             !.was_paused = plugin[p].state = "paused"]
<1>1. op' = [op EXCEPT ![a] = o]
  BY DEF Begin
<1>2. o \in Operation
  BY IdleType DEF Operation
<1>3. o.at = at /\ o.target = p /\ o.cmd = c /\ o.batch = {}
  BY DEF Idle
<1> QED  BY <1>1, <1>2, <1>3

\* Commands establish what their steps rely on.
LEMMA CommandInv ==
  ASSUME TypeOK, IInv, NEW a \in Actors, Command(a)
  PROVE  IInv'
<1>0. /\ {"load", "pause", "resume", "unload", "reload"} \subseteq Commands
      /\ {"query", "deactivate", "publish"} \subseteq Points
  BY DEF Points, Commands
<1>1. CASE BeginBatch(a)
  <2> DEFINE new == {p \in Plugins : plugin[p].state = "absent"}
             o == [Idle EXCEPT !.at = "discover", !.cmd = "batch", !.todo = new]
  <2>1. o.at = "discover" /\ o.cmd = "batch" /\ o.batch = {}
    BY DEF Idle
  <2>2. op' = [op EXCEPT ![a] = o] /\ plugin' = plugin /\ leases' = leases
    BY <1>1 DEF BeginBatch, services
  <2>3. QuietStep(a, o)
    BY <2>1, <2>2 DEF QuietStep, OperationOK, Owns, OwningPoints
  <2> QED  BY <2>3, QuietStepInv
<1>2. ASSUME NEW p \in Plugins, BeginLoad(a, p)
      PROVE  IInv'
  <2>1. PICK o \in Operation : /\ op' = [op EXCEPT ![a] = o]
                               /\ o.at = "query" /\ o.target = p /\ o.cmd = "load"
                               /\ o.batch = {}
    <3>1. Begin(a, "load", p, "query")
      BY <1>2 DEF BeginLoad
    <3> HIDE <1>2
    <3> QED  BY <1>0, <3>1, BeginOp
  <2> QED  BY <1>2, <2>1, DiscoverInv DEF BeginLoad, services
<1>3. ASSUME NEW p \in Plugins, BeginPause(a, p)
      PROVE  IInv'
  <2>1. PICK o \in Operation : /\ op' = [op EXCEPT ![a] = o]
                               /\ o.at = "deactivate" /\ o.target = p /\ o.batch = {}
    <3>1. Begin(a, "pause", p, "deactivate")
      BY <1>3 DEF BeginPause
    <3> HIDE <1>3
    <3> QED  BY <1>0, <3>1, BeginOp
  <2> QED  BY <1>3, <2>1, CloseInv DEF BeginPause, services
<1>4. ASSUME NEW p \in Plugins, BeginUnload(a, p)
      PROVE  IInv'
  <2>1. PICK c \in {"unload", "reload"} : Begin(a, c, p, "deactivate")
    BY <1>4 DEF BeginUnload
  <2>2. PICK o \in Operation : /\ op' = [op EXCEPT ![a] = o]
                               /\ o.at = "deactivate" /\ o.target = p /\ o.batch = {}
    BY <1>0, <2>1, BeginOp
  <2> QED  BY <1>4, <2>2, CloseInv DEF BeginUnload, CanUnload, services
<1>5. ASSUME NEW p \in Plugins, BeginResume(a, p)
      PROVE  IInv'
  <2> DEFINE r == Restored([plugin[p] EXCEPT !.state = "loaded", !.transitioning = TRUE])
  <2>1. PICK o \in Operation : /\ op' = [op EXCEPT ![a] = o]
                               /\ o.at = "publish" /\ o.target = p /\ o.batch = {}
    <3>1. Begin(a, "resume", p, "publish")
      BY <1>5 DEF BeginResume
    <3> HIDE <1>5
    <3> QED  BY <1>0, <3>1, BeginOp
  <2>2. /\ plugin[p].state = "paused" /\ ~plugin[p].transitioning /\ DependenciesReady(p)
        /\ SetRecord(p, r) /\ leases' = leases
    BY <1>5 DEF BeginResume, services
  <2>3. \A b \in Actors : ~Holds(op[b], p)
    BY <2>2, Free
  <2>4. plugin[p].image /\ plugin[p] \in PluginRecord
    BY <2>2 DEF IInv, RecordInv, RecordOK, TypeOK
  <2>5. /\ r \in PluginRecord /\ r.state = "loaded" /\ r.image /\ r.transitioning
        /\ RecordOK(r)
    BY <2>4 DEF Restored, PluginRecord, States, RecordOK
  <2>6. LocalStep(a, p, o, r)
    BY <2>1, <2>2, <2>3, <2>5
       DEF LocalStep, OperationOK, SetRecord, Owns, OwningPoints, Holds, Released, Departs,
           Consistent
  <2> QED  BY <2>6, LocalStepInv
<1> QED  BY <1>1, <1>2, <1>3, <1>4, <1>5 DEF Command

\* The service calls of the plugins.
LEMMA ServiceInv ==
  ASSUME TypeOK, IInv, Service
  PROVE  IInv'
<1>1. op' = op /\ plugin' = plugin
  BY DEF Service, Publish, Withdraw, Query, Release
<1>2. /\ TargetInv' /\ HoldInv' /\ RecordInv' /\ DependencyClosure'
  BY <1>1 DEF IInv, TargetInv, OperationOK, HoldInv, Holds, Owns, Consistent, Departs,
              RecordInv, RecordOK, DependencyClosure
<1>3. CASE leases' \subseteq leases
  <2>1. DepartInv'
    BY <1>1, <1>3 DEF IInv, DepartInv, Departs
  <2>2. ReleasedInv'
    BY <1>1, <1>3 DEF IInv, ReleasedInv, Released, Owns
  <2>3. LeasesPinProviders'
    BY <1>1, <1>3 DEF IInv, LeasesPinProviders
  <2> QED  BY <1>2, <2>1, <2>2, <2>3 DEF IInv
<1>4. ASSUME NEW p \in Plugins, NEW c \in Plugins, Query(c, p)
      PROVE  IInv'
  <2>1. /\ plugin[c].accepting /\ plugin[p].state = "loaded" /\ ~plugin[p].transitioning
        /\ leases' = leases \cup {<<c, p>>}
    BY <1>4 DEF Query
  <2>2. DepartInv'
    <3> SUFFICES ASSUME NEW b \in Actors, NEW q \in Plugins, Departs(op[b], q, plugin[q])
                 PROVE  /\ NoRunningDependent(q)
                        /\ \A x \in Plugins : <<x, q>> \notin leases'
      BY <1>1 DEF DepartInv, Departs, NoRunningDependent
    <3>1. Holds(op[b], q) /\ Owns(op[b], q)
      BY DepartsOwns DEF Holds
    <3>2. plugin[q].transitioning
      BY <3>1 DEF IInv, HoldInv, Consistent
    <3> QED  BY <2>1, <3>2 DEF IInv, DepartInv, NoRunningDependent
  <2>3. ReleasedInv'
    <3> SUFFICES ASSUME NEW b \in Actors, NEW q \in Plugins, Released(op[b], q)
                 PROVE  \A x \in Plugins : <<q, x>> \notin leases'
      BY <1>1 DEF ReleasedInv, Released, Owns
    <3>1. Consistent(op[b], q, plugin[q])
      BY DEF IInv, HoldInv, Holds, Released
    <3>2. ~plugin[q].accepting
      BY <3>1 DEF Consistent, Released
    <3> QED  BY <2>1, <3>2 DEF IInv, ReleasedInv
  <2>4. plugin[c].image
    BY <2>1 DEF IInv, RecordInv, RecordOK
  <2>5. LeasesPinProviders'
    BY <1>1, <2>1, <2>4 DEF IInv, LeasesPinProviders
  <2> QED  BY <1>2, <2>2, <2>3, <2>5 DEF IInv
<1>5. leases' \subseteq leases \/ \E p \in Plugins, c \in Plugins : Query(c, p)
  BY DEF Service, Publish, Withdraw, Release
<1> QED  BY <1>3, <1>4, <1>5

\* A step that changes only stacks, or nothing the invariant speaks of.
LEMMA StackStepInv ==
  ASSUME IInv, op' = op, plugin' = plugin, leases' = leases
  PROVE  IInv'
BY DEF IInv, TargetInv, OperationOK, HoldInv, Holds, Owns, Consistent, Departs, DepartInv,
       ReleasedInv, Released, RecordInv, RecordOK, DependencyClosure, LeasesPinProviders

\* The invariant holds initially.
LEMMA InitInv == Init => TypeOK /\ IInv
<1> SUFFICES ASSUME Init  PROVE TypeOK /\ IInv
  OBVIOUS
<1> USE DEF Init
<1>1. TypeOK
  <2>1. NoRecord \in PluginRecord
    BY FreshRecords
  <2>2. <<>> \in Seq(Frame)
    OBVIOUS
  <2> QED  BY <2>1, <2>2, IdleType DEF TypeOK
<1>2. \A a \in Actors : op[a].at = "idle" /\ op[a].batch = {}
  BY DEF Idle
<1>3. \A a \in Actors, p \in Plugins : ~Holds(op[a], p) /\ ~Released(op[a], p)
  BY <1>2 DEF Holds, Owns, OwningPoints, Released
<1>4. \A p \in Plugins : plugin[p].state = "absent" /\ ~plugin[p].image /\ ~plugin[p].accepting
  BY DEF NoRecord
<1>5. TargetInv /\ HoldInv /\ ReleasedInv
  BY <1>2, <1>3 DEF TargetInv, OperationOK, HoldInv, ReleasedInv
<1>6. DepartInv
  BY <1>2 DEF DepartInv, Departs
<1>7. RecordInv /\ DependencyClosure /\ LeasesPinProviders
  BY <1>4 DEF RecordInv, RecordOK, DependencyClosure, LeasesPinProviders
<1> QED  BY <1>1, <1>5, <1>6, <1>7 DEF IInv

\* Every step keeps the types.
LEMMA NextType ==
  ASSUME TypeOK, TargetInv, [Next]_vars
  PROVE  TypeOK'
<1>1. CASE UNCHANGED vars
  BY <1>1 DEF vars, services, TypeOK
<1>2. ASSUME NEW a \in Actors, Command(a) \/ Step(a)
      PROVE  Typed
  BY <1>2, CommandType, LoadStepType, BatchStepType, TransitionStepType, AfterStepType DEF Step
<1>3. ASSUME NEW t \in Threads, Callback(t)
      PROVE  Typed
  BY <1>3, CallbackType
<1>4. CASE Next
  BY <1>2, <1>3, <1>4, ServiceType DEF Next, Typed, TypeOK
<1> QED  BY <1>1, <1>4

\* Every step keeps the invariant.
LEMMA NextInv ==
  ASSUME TypeOK, IInv, [Next]_vars
  PROVE  IInv'
<1>1. CASE UNCHANGED vars
  BY <1>1, StackStepInv DEF vars, services
<1>2. ASSUME NEW a \in Actors, Command(a) \/ Step(a)
      PROVE  IInv'
  BY <1>2, CommandInv, LoadStepInv, BatchStepInv, TransitionStepInv, AfterStepInv DEF Step
<1>3. ASSUME NEW t \in Threads, Callback(t)
      PROVE  IInv'
  BY <1>3, StackStepInv DEF Callback, EnterCallback, LeaveCallback, services
<1> QED  BY <1>1, <1>2, <1>3, ServiceInv DEF Next

-----------------------------------------------------------------------------
(* The theorems.                                                           *)

\* The inductive invariant: every record, operation and stack has its type,
\* and whoever holds a plugin (discovery to settlement of a transition) holds
\* it alone, in the state its next locked segment relies on.
THEOREM Invariance == Spec => [](TypeOK /\ IInv)
<1>1. TypeOK /\ IInv /\ [Next]_vars => (TypeOK /\ IInv)'
  BY NextType, NextInv DEF IInv
<1> QED  BY <1>1, InitInv, PTL DEF Spec

\* Every variable keeps its type.
THEOREM TypeCorrect == Spec => []TypeOK
BY Invariance, PTL

\* A running plugin's dependencies run: the checks of DependenciesReady
\* and HasRunningDependent and the transitioning mark between them suffice
\* although every plugin callback runs without the lock.
THEOREM ClosureHolds == Spec => []DependencyClosure
<1>1. IInv => DependencyClosure
  BY DEF IInv
<1> QED  BY <1>1, Invariance, PTL

\* A leased provider runs and a lease ends with its consumer's image: Query
\* and ReleasePlugin of the service registry keep it so.
THEOREM LeasesHold == Spec => []LeasesPinProviders
<1>1. IInv => LeasesPinProviders
  BY DEF IInv
<1> QED  BY <1>1, Invariance, PTL

\* The record pointer an operation keeps across its unlocked windows stays
\* valid, and no other operation works on that plugin.
THEOREM OwnershipHolds == Spec => []ExclusiveOwnership
<1>1. IInv => ExclusiveOwnership
  BY DEF IInv, HoldInv, Holds, Consistent, ExclusiveOwnership
<1> QED  BY <1>1, Invariance, PTL

\* The services step of an unload or of a rollback never finds a lease on the
\* plugin, so UnloadPluginCommand is not turned back after KeelHook released.
THEOREM NoLateLease == Spec => []NoLeaseAtRelease
<1>1. IInv => NoLeaseAtRelease
  <2> SUFFICES ASSUME IInv, NEW a \in Actors, op[a].at \in {"release", "rollback"},
                      NEW c \in Plugins, <<c, op[a].target>> \in leases
               PROVE  FALSE
    BY DEF NoLeaseAtRelease, HasLeasedPublication
  <2> DEFINE p == op[a].target
  <2>1. p \in Plugins /\ Owns(op[a], p)
    BY DEF IInv, TargetInv, OperationOK, Owns, OwningPoints
  <2>2. Consistent(op[a], p, plugin[p])
    BY <2>1 DEF IInv, HoldInv, Holds
  <2>3. CASE op[a].at = "release"
    BY <2>1, <2>3 DEF IInv, DepartInv, Departs
  <2>4. CASE op[a].at = "rollback"
    <3>1. plugin[p].state # "loaded"
      BY <2>1, <2>2, <2>4 DEF Consistent
    <3>2. plugin[<<c, p>>[2]].state = "loaded"
      BY DEF IInv, LeasesPinProviders
    <3> QED  BY <3>1, <3>2
  <2> QED  BY <2>3, <2>4
<1> QED  BY <1>1, Invariance, PTL
=============================================================================
