------------------------- MODULE RuntimeGroupProofs -------------------------
(***************************************************************************)
(* Type correctness of the runtime group.                                  *)
(*                                                                         *)
(* The argument.  Most of a step is Leave, Raise, Return or Step, so there *)
(* is one lemma for each of those; the lemmas per operation then only say  *)
(* what its own assignments do to trees, receipts and records.             *)
(***************************************************************************)
EXTENDS SpeechService, TLAPS, FiniteSetTheorems

\* What the locals of a thread hold at its program point.
FlowOf(t) ==
    /\ pc[t] # "idle" /\ op[t] # "shutdown" => eng[t] \in Engines
    /\ op[t] = "shutdown" => pc[t] \in {"idle", "lock", "next", "guard"} \cup StopPcs
    /\ pc[t] \in StopPcs \cup {"sibling"} => victim[t] \in Engines
    /\ op[t] = "shutdown" /\ pc[t] = "guard" => victim[t] \in Engines
    /\ pc[t] \in {"popen", "confirm", "abort", "abandon"} => launch[t] \in Launches
    /\ pc[t] \in InferPcs \cup {"admit"} => op[t] = "synth"

Flow == \A t \in Threads : FlowOf(t)

\* The inductive invariant for types: TypeOK alone does not know that a victim
\* or a launch has been chosen before it is used as an index.
FlowInv == TypeOK /\ Flow

USE SupervisorAssumption, OwnerAssumption, TreeAssumption

\* An exception or the end of a call keeps the types of locks and locals.
LEMMA LeaveFlow ==
    ASSUME ThreadsType, GuardType, Flow, NEW t \in Threads, Leave(t)
    PROVE  ThreadsType' /\ GuardType' /\ Flow'
<1> USE DEF ThreadsType, GuardType, Leave, Goto, LeaveLock, LeaveGuard, ForgetLocals
<1>1. ThreadsType' BY DEF Pcs, OpNames
<1>2. GuardType' OBVIOUS
<1>3. Flow' BY DEF Flow, FlowOf, StopPcs, InferPcs
<1> QED BY <1>1, <1>2, <1>3

\* So does an exception that shutdown_all swallows.
LEMMA RaiseFlow ==
    ASSUME ThreadsType, GuardType, Flow, NEW t \in Threads, Raise(t)
    PROVE  ThreadsType' /\ GuardType' /\ Flow'
<1>1. CASE op[t] # "shutdown" BY <1>1, LeaveFlow DEF Raise
<1>2. CASE op[t] = "shutdown"
  <2> USE <1>2 DEF ThreadsType, GuardType, Raise, Goto, LeaveGuard, locals
  <2>1. ThreadsType' BY DEF Pcs
  <2>2. GuardType' OBVIOUS
  <2>3. Flow' BY DEF Flow, FlowOf, StopPcs, InferPcs
  <2> QED BY <2>1, <2>2, <2>3
<1> QED BY <1>1, <1>2

\* So does the return of status() into speech or synthesize.
LEMMA ReturnFlow ==
    ASSUME ThreadsType, GuardType, Flow, NEW t \in Threads, Return(t),
           pc[t] = "status"
    PROVE  ThreadsType' /\ GuardType' /\ Flow'
<1>1. CASE op[t] \notin {"speech", "synth"} BY <1>1, LeaveFlow DEF Return
<1>2. CASE op[t] \in {"speech", "synth"}
  <2> USE <1>2 DEF ThreadsType, GuardType, Return, Goto, LeaveLock, LeaveGuard, guardVars, locals
  <2>1. ThreadsType' BY DEF Pcs, InferPcs, OpNames
  <2>2. GuardType' OBVIOUS
  <2>3. Flow' BY DEF Flow, FlowOf, StopPcs, InferPcs
  <2> QED BY <2>1, <2>2, <2>3
<1> QED BY <1>1, <1>2

\* A step of a thread to a place whose locals it has already chosen keeps Flow.
LEMMA StepFlow ==
    ASSUME ThreadsType, GuardType, Flow, NEW t \in Threads, NEW l \in Pcs, Step(t, l),
           op[t] = "shutdown" => l \in StopPcs, pc[t] # "idle",
           l \in StopPcs \cup {"sibling"} => victim[t] \in Engines,
           l \in {"popen", "confirm", "abort", "abandon"} => launch[t] \in Launches,
           l \notin InferPcs \cup {"admit"} \/ op[t] = "synth"
    PROVE  ThreadsType' /\ GuardType' /\ Flow'
<1> USE DEF Step, Goto, locals, guardVars, ThreadsType, GuardType
<1>1. ThreadsType' OBVIOUS
<1>2. GuardType' OBVIOUS
<1>3. Flow' BY DEF Flow, FlowOf, StopPcs, InferPcs
<1> QED BY <1>1, <1>2, <1>3

\* _clean_exited keeps the types of the records, slot and receipt.
LEMMA CleanExitedType ==
    ASSUME RecordsType, OwnerType, NEW c \in Ctrls, NEW e \in Engines, CleanExited(c, e)
    PROVE  RecordsType' /\ OwnerType'
<1> USE DEF RecordsType, OwnerType, records, ownerVars
<1>1. CASE ~Owns(c, e) \/ OwnedRunning(c, e)
  BY <1>1 DEF CleanExited
<1>2. CASE Owns(c, e) /\ ~OwnedRunning(c, e)
  <2>1. cooldown' \in [Ctrls -> SUBSET Engines]
    BY <1>2 DEF CleanExited, RecordFailure
  <2>2. CASE /\ ClearLaunchReceipt(owned[c][e])
             /\ ForgetOwned(c, e)
             /\ ReleaseSlot
    BY <2>1, <2>2 DEF ClearLaunchReceipt, ForgetOwned, ReleaseSlot, Receipts
  <2>3. CASE /\ MarkUncertain(c, e)
             /\ exitSeen' = [exitSeen EXCEPT ![c] = @ \cup {e}]
             /\ UNCHANGED <<owned, ownerVars>>
    BY <2>1, <2>3 DEF MarkUncertain
  <2> QED BY <1>2, <2>2, <2>3 DEF CleanExited
<1> QED BY <1>1, <1>2

\* Whatever a controller or the host does to the process trees keeps their types.
LEMMA TreeType ==
    ASSUME ProcessTreeType,
           \/ UNCHANGED treeVars
           \/ ProcessTreeStep
           \/ \E n \in Launches : SignalGroup(n)
           \/ \E n \in Launches, e \in Engines : Spawn(n, e)
    PROVE  ProcessTreeType'
<1> USE DEF ProcessTreeType, treeVars
<1>1. CASE UNCHANGED treeVars BY <1>1
<1>2. CASE \E n \in Launches : SignalGroup(n) BY <1>2 DEF SignalGroup, Alive
<1>3. CASE \E n \in Launches, e \in Engines : Spawn(n, e) BY <1>3 DEF Spawn
<1>4. CASE \E n \in Launches : LeaderExits(n) \/ WorkerForked(n) \/ WorkersExit(n)
  BY <1>4 DEF LeaderExits, WorkerForked, WorkersExit, GroupEmptied, JobsServedBy
<1>5. CASE \E e \in Manual : ExternalToggled(e)
  BY <1>5 DEF ExternalToggled, JobsServedBy
<1>6. CASE \E j \in jobs : BackendFinishes(j)
  BY <1>6 DEF BackendFinishes
<1> QED BY <1>1, <1>2, <1>3, <1>4, <1>5, <1>6 DEF ProcessTreeStep

\* _record_failure keeps the types of the records.
LEMMA FailureType ==
    ASSUME RecordsType, NEW c \in Ctrls, NEW e \in Engines, RecordFailure(c, e),
           UNCHANGED records
    PROVE  RecordsType'
  BY DEF RecordsType, RecordFailure, records

\* A step of a thread that leaves the trees, the receipts and the supervisor's
\* records alone.
Quiet == UNCHANGED <<treeVars, ownerVars, records, cooldown>>

\* A step that leaves trees, receipts and records alone keeps their types.
LEMMA QuietType ==
    ASSUME ProcessTreeType, OwnerType, RecordsType, Quiet
    PROVE  ProcessTreeType' /\ OwnerType' /\ RecordsType'
  BY DEF Quiet, ProcessTreeType, OwnerType, RecordsType, treeVars, ownerVars, records

\* A client call keeps FlowInv.
LEMMA CallFlow ==
    ASSUME FlowInv, NEW t \in Threads, ClientCalls(t)
    PROVE  FlowInv'
<1> USE DEF FlowInv, TypeOK, SupervisorType
<1>1. PICK o \in OpNames \ {"none", "synth"}, e \in Engines \cup {NoEngine},
           l \in {"lock", "status", "ready"} :
         /\ Call(t, o, e, l)
         /\ o # "shutdown" => e \in Engines
         /\ o = "shutdown" => l = "lock"
  BY DEF ClientCalls, CallStart, CallStop, CallRestart, CallStatus, CallSpeech,
         CallShutdown, OpNames
<1>2. Quiet /\ UNCHANGED <<guardVars, rlock>>
  BY <1>1 DEF Call, Quiet, supVars, records
<1>3. ThreadsType' BY <1>1, <1>2 DEF Call, Goto, ThreadsType, Pcs
<1>4. GuardType' BY <1>2 DEF GuardType, guardVars
<1>5. Flow' BY <1>1 DEF Call, Goto, Flow, FlowOf, StopPcs, InferPcs, ThreadsType
<1> QED BY <1>2, <1>3, <1>4, <1>5, QuietType

\* Every step of start() keeps FlowInv.
LEMMA StartFlow ==
    ASSUME FlowInv, NEW t \in Threads, StartSteps(t)
    PROVE  FlowInv'
<1> USE DEF FlowInv, TypeOK, SupervisorType
<1>0. /\ pc[t] \in Pcs /\ FlowOf(t)
      /\ pc[t] \in StartPcs \cup SlotPcs \cup {"slot", "await"} =>
           op[t] # "shutdown" /\ eng[t] \in Engines /\ Home[t] \in Ctrls
  BY DEF Flow, FlowOf, ThreadsType, StartPcs, SlotPcs, StopPcs, Pcs
<1>1. CASE StartReap(t)
  <2>1. RecordsType' /\ OwnerType' BY <1>0, <1>1, CleanExitedType DEF StartReap, StartPcs
  <2>2. ProcessTreeType' BY <1>1, TreeType DEF StartReap
  <2>3. ThreadsType' /\ GuardType' /\ Flow'
    BY <1>0, <1>1, StepFlow DEF StartReap, StartPcs, StopPcs, InferPcs, Pcs
  <2> QED BY <2>1, <2>2, <2>3
<1>2. CASE StartDecide(t)
  <2>1. Quiet BY <1>2 DEF StartDecide, Quiet
  <2>2. CASE Raise(t) \/ Step(t, "status")
    BY <1>0, <1>2, <2>1, <2>2, RaiseFlow, StepFlow, QuietType
       DEF StartDecide, StartPcs, StopPcs, InferPcs, Pcs
  <2>3. CASE /\ Goto(t, "enforce")
             /\ todo' = [todo EXCEPT ![t] = Engines \ {eng[t]}]
             /\ UNCHANGED <<rlock, guardVars, op, eng, victim, launch>>
    <3> USE DEF Goto, guardVars
    <3>1. ThreadsType' /\ GuardType' BY <2>3 DEF ThreadsType, GuardType, Pcs, StartPcs
    <3>2. Flow' BY <1>0, <1>2, <2>3 DEF StartDecide, Flow, FlowOf, StartPcs, StopPcs, InferPcs, ThreadsType
    <3> QED BY <2>1, <3>1, <3>2, QuietType
  <2> QED BY <1>2, <2>2, <2>3 DEF StartDecide
<1>3. CASE EnforceReap(t)
  <2> USE <1>3 DEF EnforceReap, Goto, guardVars
  <2>0. PICK s \in todo[t] : /\ CleanExited(Home[t], s)
                             /\ victim' = [victim EXCEPT ![t] = s]
                             /\ todo' = [todo EXCEPT ![t] = @ \ {s}]
    OBVIOUS
  <2>1. s \in Engines BY DEF ThreadsType
  <2>2. RecordsType' /\ OwnerType' BY <1>0, <2>0, <2>1, CleanExitedType DEF StartPcs
  <2>3. ProcessTreeType' BY TreeType
  <2>4. ThreadsType' /\ GuardType' BY <2>0, <2>1 DEF ThreadsType, GuardType, Pcs, StartPcs
  <2>5. Flow' BY <1>0, <2>0, <2>1 DEF Flow, FlowOf, StartPcs, StopPcs, InferPcs, ThreadsType
  <2> QED BY <2>2, <2>3, <2>4, <2>5
<1>4. CASE EnforceSibling(t)
  <2>1. Quiet BY <1>4 DEF EnforceSibling, Quiet
  <2>2. Raise(t) \/ Step(t, "stopping") \/ Step(t, "enforce") BY <1>4 DEF EnforceSibling
  <2> QED BY <1>0, <1>4, <2>1, <2>2, RaiseFlow, StepFlow, QuietType
          DEF EnforceSibling, FlowOf, StartPcs, StopPcs, InferPcs, Pcs
<1>5. CASE EnforceDone(t)
  <2> USE <1>5 DEF EnforceDone, Goto, guardVars, supVars
  <2>1. Quiet BY DEF Quiet, records
  <2>2. ThreadsType' /\ GuardType' BY DEF ThreadsType, GuardType, Pcs
  <2>3. Flow' BY <1>0 DEF Flow, FlowOf, StartPcs, StopPcs, InferPcs, ThreadsType
  <2> QED BY <2>1, <2>2, <2>3, QuietType
<1>6. CASE TakeSlot(t)
  <2>1. RecordsType' /\ OwnerType' /\ ProcessTreeType'
    BY <1>0, <1>6, TreeType DEF TakeSlot, AcquireSlot, RecordsType, OwnerType, records
  <2>2. ThreadsType' /\ GuardType' /\ Flow'
    BY <1>0, <1>6, RaiseFlow, StepFlow DEF TakeSlot, StopPcs, SlotPcs, InferPcs, Pcs
  <2> QED BY <2>1, <2>2
<1>7. CASE ReconcilePriorOwner(t)
  <2>1. RecordsType' /\ OwnerType' /\ ProcessTreeType'
    BY <1>7, TreeType DEF ReconcilePriorOwner, ReleaseSlot, RecordsType, OwnerType,
                          Receipts, records
  <2>2. ThreadsType' /\ GuardType' /\ Flow'
    BY <1>0, <1>7, RaiseFlow, StepFlow DEF ReconcilePriorOwner, StopPcs, SlotPcs, InferPcs, Pcs
  <2> QED BY <2>1, <2>2
<1>8. CASE PublishIntent(t)
  <2>1. ProcessTreeType' BY <1>8, TreeType DEF PublishIntent
  <2>2. CASE ReleaseSlot /\ RecordFailure(Home[t], eng[t]) /\ Raise(t) /\ UNCHANGED receipt
    BY <1>0, <1>8, <2>1, <2>2, RaiseFlow, FailureType DEF PublishIntent, ReleaseSlot, OwnerType, SlotPcs
  <2>3. CASE \E n \in Launches :
                /\ FreshLaunch(n)
                /\ PublishStarting(n)
                /\ launch' = [launch EXCEPT ![t] = n]
                /\ Goto(t, "popen")
                /\ UNCHANGED <<slot, rlock, guardVars, cooldown, op, eng, victim, todo>>
    <3> USE <1>8, <2>3 DEF PublishIntent, PublishStarting, Goto, guardVars
    <3>1. RecordsType' /\ OwnerType' BY DEF RecordsType, OwnerType, Receipts, records
    <3>2. ThreadsType' /\ GuardType' BY DEF ThreadsType, GuardType, Pcs, SlotPcs
    <3>3. Flow' BY <1>0 DEF Flow, FlowOf, SlotPcs, StopPcs, InferPcs, ThreadsType
    <3> QED BY <2>1, <3>1, <3>2, <3>3
  <2> QED BY <1>8, <2>2, <2>3 DEF PublishIntent
<1>9. CASE SpawnEngine(t)
  <2>1. ProcessTreeType'
    BY <1>0, <1>9, TreeType DEF SpawnEngine, FlowOf, SlotPcs
  <2>2. RecordsType' /\ OwnerType'
    BY <1>0, <1>9, FailureType DEF SpawnEngine, ReleaseSlot, OwnerType, RecordsType, SlotPcs, records
  <2>3. ThreadsType' /\ GuardType' /\ Flow'
    BY <1>0, <1>9, RaiseFlow, StepFlow DEF SpawnEngine, FlowOf, StopPcs, SlotPcs, InferPcs, Pcs
  <2> QED BY <2>1, <2>2, <2>3
<1>10. CASE ConfirmLaunch(t)
  <2>1. ProcessTreeType' BY <1>10, TreeType DEF ConfirmLaunch
  <2>2. launch[t] \in Launches BY <1>0, <1>10 DEF ConfirmLaunch, FlowOf
  <2>3. RecordsType' /\ OwnerType'
    <3>1. /\ UNCHANGED <<slot, uncertain, exitSeen, cooldown>>
          /\ \/ /\ receipt' = Running(launch[t])
                /\ owned' = [owned EXCEPT ![Home[t]][eng[t]] = launch[t]]
             \/ UNCHANGED <<receipt, owned>>
      BY <1>10 DEF ConfirmLaunch, PublishRunning
    <3>2. OwnerType' BY <2>2, <3>1 DEF OwnerType, Receipts
    <3>3. owned' \in [Ctrls -> [Engines -> Launches \cup {NoLaunch}]]
      <4>1. /\ eng[t] \in Engines
            /\ Home[t] \in Ctrls
            /\ owned \in [Ctrls -> [Engines -> Launches \cup {NoLaunch}]]
        BY <1>0, <1>10 DEF ConfirmLaunch, RecordsType, SlotPcs
      <4>2. [owned[Home[t]] EXCEPT ![eng[t]] = launch[t]]
               \in [Engines -> Launches \cup {NoLaunch}]
        BY <2>2, <4>1
      <4> QED BY <3>1, <4>1, <4>2
    <3> QED BY <3>1, <3>2, <3>3 DEF RecordsType
  <2>4. ThreadsType' /\ GuardType' /\ Flow'
    BY <1>0, <1>10, <2>2, StepFlow DEF ConfirmLaunch, StopPcs, SlotPcs, InferPcs, Pcs
  <2> QED BY <2>1, <2>3, <2>4
<1>11. CASE AbortLaunch(t)
  <2>1. launch[t] \in Launches BY <1>0, <1>11 DEF AbortLaunch, FlowOf
  <2>2. ProcessTreeType' BY <1>11, <2>1, TreeType DEF AbortLaunch
  <2>3. RecordsType' /\ OwnerType'
    BY <1>11 DEF AbortLaunch, OwnerType, RecordsType, ownerVars, records
  <2>4. ThreadsType' /\ GuardType' /\ Flow'
    BY <1>0, <1>11, <2>1, StepFlow DEF AbortLaunch, StopPcs, SlotPcs, InferPcs, Pcs
  <2> QED BY <2>2, <2>3, <2>4
<1>12. CASE AbandonLaunch(t)
  <2>1. ProcessTreeType' BY <1>12, TreeType DEF AbandonLaunch
  <2>2. RecordsType'
    BY <1>0, <1>12, FailureType DEF AbandonLaunch, RecordsType, SlotPcs, records
  <2>3. OwnerType'
    BY <1>12 DEF AbandonLaunch, ReleaseSlot, ClearLaunchReceipt, OwnerType, Receipts
  <2>4. ThreadsType' /\ GuardType' /\ Flow' BY <1>12, RaiseFlow DEF AbandonLaunch
  <2> QED BY <2>1, <2>2, <2>3, <2>4
<1>13. CASE AwaitExited(t)
  <2>1. ProcessTreeType' BY <1>13, TreeType DEF AwaitExited
  <2>2. RecordsType' /\ OwnerType' BY <1>0, <1>13, CleanExitedType DEF AwaitExited
  <2>3. ThreadsType' /\ GuardType' /\ Flow' BY <1>13, RaiseFlow DEF AwaitExited
  <2> QED BY <2>1, <2>2, <2>3
<1>14. CASE AwaitReady(t)
  BY <1>0, <1>14, QuietType, StepFlow DEF AwaitReady, Quiet, StopPcs, InferPcs, Pcs
<1>15. CASE AwaitTimeout(t)
  <2> USE <1>15 DEF AwaitTimeout, Goto, guardVars, supVars
  <2>1. Quiet BY DEF Quiet, records
  <2>2. ThreadsType' /\ GuardType' BY <1>0 DEF ThreadsType, GuardType, Pcs, StopPcs
  <2>3. Flow' BY <1>0 DEF Flow, FlowOf, StopPcs, InferPcs, ThreadsType
  <2> QED BY <2>1, <2>2, <2>3, QuietType
<1> QED BY <1>1, <1>2, <1>3, <1>4, <1>5, <1>6, <1>7, <1>8, <1>9, <1>10, <1>11, <1>12,
           <1>13, <1>14, <1>15 DEF StartSteps

\* Every step of _stop_owned and its callers keeps FlowInv, except the end of
\* the process after shutdown_all.
LEMMA StopFlow ==
    ASSUME FlowInv, NEW t \in Threads, StopSteps(t)
    PROVE  FlowInv' \/ ShutdownDone(t)
<1> USE DEF FlowInv, TypeOK, SupervisorType
<1>0. /\ pc[t] \in Pcs /\ FlowOf(t) /\ Home[t] \in Ctrls
      /\ pc[t] \in StopPcs => victim[t] \in Engines
      /\ pc[t] # "idle" /\ op[t] # "shutdown" => eng[t] \in Engines
  BY DEF Flow, FlowOf, ThreadsType
<1>1. CASE StopReap(t)
  <2>1. RecordsType' /\ OwnerType' BY <1>0, <1>1, CleanExitedType DEF StopReap, StopPcs
  <2>2. ProcessTreeType' BY <1>1, TreeType DEF StopReap
  <2>3. ThreadsType' /\ GuardType' /\ Flow'
    BY <1>0, <1>1, StepFlow DEF StopReap, StopPcs, InferPcs, Pcs
  <2> QED BY <2>1, <2>2, <2>3
<1>2. CASE StopNothing(t)
  BY <1>0, <1>2, QuietType, StepFlow DEF StopNothing, Quiet, StopPcs, InferPcs, Pcs
<1>3. CASE StopSignal(t)
  <2>0. owned[Home[t]][victim[t]] \in Launches
    BY <1>0, <1>3 DEF StopSignal, Owns, StopPcs, RecordsType
  <2>1. ProcessTreeType' BY <1>3, <2>0, TreeType DEF StopSignal
  <2>2. RecordsType' /\ OwnerType'
    BY <1>0, <1>3 DEF StopSignal, MarkUncertain, RecordsType, OwnerType, ownerVars, StopPcs
  <2>3. ThreadsType' /\ GuardType' /\ Flow'
    BY <1>0, <1>3, RaiseFlow, StepFlow DEF StopSignal, StopPcs, InferPcs, Pcs
  <2> QED BY <2>1, <2>2, <2>3
<1>4. CASE StopVerify(t)
  <2>1. ProcessTreeType' BY <1>4, TreeType DEF StopVerify
  <2>2. CASE /\ ClearLaunchReceipt(owned[Home[t]][victim[t]])
             /\ ForgetOwned(Home[t], victim[t])
             /\ ReleaseSlot
             /\ Step(t, "stopped")
    <3> USE <1>4, <2>2 DEF StopVerify
    <3>1. OwnerType' BY DEF ClearLaunchReceipt, ReleaseSlot, OwnerType, Receipts
    <3>2. RecordsType' BY <1>0 DEF ForgetOwned, RecordsType
    <3>3. ThreadsType' /\ GuardType' /\ Flow' BY <1>0, StepFlow DEF StopPcs, InferPcs, Pcs
    <3> QED BY <2>1, <3>1, <3>2, <3>3
  <2>3. CASE /\ MarkUncertain(Home[t], victim[t])
             /\ Raise(t)
             /\ UNCHANGED <<ownerVars, owned, exitSeen>>
    <3> USE <1>4, <2>3 DEF StopVerify
    <3>1. OwnerType' BY DEF OwnerType, ownerVars
    <3>2. RecordsType' BY <1>0 DEF MarkUncertain, RecordsType, StopPcs
    <3> QED BY <2>1, <3>1, <3>2, RaiseFlow
  <2> QED BY <1>4, <2>2, <2>3 DEF StopVerify
<1>5. CASE StopReturns(t)
  BY <1>5, QuietType, LeaveFlow, RaiseFlow DEF StopReturns, Quiet
<1>6. CASE SiblingStopped(t)
  BY <1>0, <1>6, QuietType, StepFlow DEF SiblingStopped, Quiet, StartPcs, StopPcs, InferPcs, Pcs
<1>7. CASE StartupTimedOut(t)
  <2>1. ProcessTreeType' BY <1>7, TreeType DEF StartupTimedOut
  <2>2. RecordsType' /\ OwnerType'
    BY <1>0, <1>7, FailureType DEF StartupTimedOut, OwnerType, ownerVars
  <2> QED BY <1>7, <2>1, <2>2, RaiseFlow DEF StartupTimedOut
<1>8. CASE RestartContinues(t)
  <2>1. ProcessTreeType' BY <1>8, TreeType DEF RestartContinues
  <2>2. RecordsType' /\ OwnerType'
    BY <1>0, <1>8 DEF RestartContinues, RecordsType, OwnerType, ownerVars, records
  <2>3. CASE Raise(t) BY <2>1, <2>2, <2>3, RaiseFlow
  <2>4. CASE /\ op' = [op EXCEPT ![t] = "start"]
             /\ victim' = [victim EXCEPT ![t] = NoEngine]
             /\ Goto(t, "reap")
             /\ UNCHANGED <<rlock, guardVars, eng, todo, launch>>
    <3> USE <2>4 DEF Goto, guardVars
    <3>1. ThreadsType' /\ GuardType' BY DEF ThreadsType, GuardType, Pcs, StartPcs, OpNames
    <3>2. Flow'
      BY <1>0, <1>8 DEF RestartContinues, Flow, FlowOf, StopPcs, InferPcs, ThreadsType
    <3> QED BY <2>1, <2>2, <3>1, <3>2
  <2> QED BY <1>8, <2>3, <2>4 DEF RestartContinues
<1>9. CASE ShutdownNext(t)
  <2> USE <1>9 DEF ShutdownNext, Goto, guardVars, supVars
  <2>1. Quiet BY DEF Quiet, records
  <2>2. PICK e \in todo[t] : /\ victim' = [victim EXCEPT ![t] = e]
                             /\ todo' = [todo EXCEPT ![t] = @ \ {e}]
    OBVIOUS
  <2>3. e \in Engines BY DEF ThreadsType
  <2>4. ThreadsType' /\ GuardType' BY <2>2, <2>3 DEF ThreadsType, GuardType, Pcs
  <2>5. Flow' BY <1>0, <2>2, <2>3 DEF Flow, FlowOf, StopPcs, InferPcs, ThreadsType
  <2> QED BY <2>1, <2>4, <2>5, QuietType
<1>10. CASE ShutdownDone(t) BY <1>10
<1> QED BY <1>1, <1>2, <1>3, <1>4, <1>5, <1>6, <1>7, <1>8, <1>9, <1>10 DEF StopSteps

\* The end of a controller process keeps FlowInv.
LEMMA ProcessGoneFlow ==
    ASSUME FlowInv, NEW c \in Ctrls, ProcessGone(c)
    PROVE  FlowInv'
<1> USE DEF FlowInv, TypeOK, SupervisorType, ProcessGone, FlocksReleased
<1>1. ProcessTreeType' BY TreeType
<1>2. OwnerType' /\ GuardType' BY DEF OwnerType, GuardType
<1>3. RecordsType' BY DEF RecordsType
<1>4. ThreadsType' BY DEF ThreadsType, Pcs, OpNames
<1>5. Flow' BY DEF Flow, FlowOf, StopPcs, InferPcs
<1> QED BY <1>1, <1>2, <1>3, <1>4, <1>5

\* Locking, guarding, status and the steps of synthesize keep FlowInv.
LEMMA OtherFlow ==
    ASSUME FlowInv, NEW t \in Threads,
           \/ LockSupervisor(t) \/ GuardGroup(t) \/ GuardRefused(t) \/ Status(t)
           \/ SpeechSteps(t)
    PROVE  FlowInv'
<1> USE DEF FlowInv, TypeOK, SupervisorType
<1>0. /\ pc[t] \in Pcs /\ FlowOf(t) /\ Home[t] \in Ctrls
      /\ pc[t] # "idle" /\ op[t] # "shutdown" => eng[t] \in Engines
  BY DEF Flow, FlowOf, ThreadsType
<1>1. CASE LockSupervisor(t)
  <2> USE <1>1 DEF LockSupervisor, Goto, guardVars
  <2>1. Quiet BY DEF Quiet
  <2>2. ThreadsType' /\ GuardType' BY <1>0 DEF ThreadsType, GuardType, Pcs
  <2>3. Flow' BY <1>0 DEF Flow, FlowOf, StopPcs, InferPcs, ThreadsType
  <2> QED BY <2>1, <2>2, <2>3, QuietType
<1>2. CASE GuardGroup(t)
  <2> USE <1>2 DEF GuardGroup, Goto, guardVars, supVars
  <2>1. Quiet BY DEF Quiet, records
  <2>2. GuardType' BY DEF GuardType, EnterGuard
  <2>3. ThreadsType' BY <1>0 DEF ThreadsType, Pcs, StartPcs, StopPcs
  <2>4. Flow' BY <1>0 DEF Flow, FlowOf, StopPcs, InferPcs, ThreadsType
  <2> QED BY <2>1, <2>2, <2>3, <2>4, QuietType
<1>3. CASE GuardRefused(t)
  BY <1>3, QuietType, RaiseFlow DEF GuardRefused, Quiet
<1>4. CASE Status(t)
  <2>1. ProcessTreeType' BY <1>4, TreeType DEF Status
  <2>2. RecordsType' /\ OwnerType'
    BY <1>0, <1>4, CleanExitedType
       DEF Status, FlowOf, StopPcs, RecordsType, OwnerType, records, ownerVars
  <2> QED BY <1>4, <2>1, <2>2, ReturnFlow DEF Status
<1>5. CASE EnsureReady(t)
  BY <1>0, <1>5, QuietType, StepFlow DEF EnsureReady, Quiet, FlowOf, StopPcs, InferPcs, Pcs
<1>6. CASE AdmitInference(t)
  <2>1. Quiet BY <1>6 DEF AdmitInference, Quiet
  <2>2. CASE Raise(t) BY <2>1, <2>2, QuietType, RaiseFlow
  <2>3. CASE EnterGuard(t) /\ Goto(t, "ready") /\ UNCHANGED <<rlock, locals>>
    <3> USE <1>6, <2>3 DEF AdmitInference, Goto, EnterGuard, locals
    <3>1. ThreadsType' /\ GuardType' BY DEF ThreadsType, GuardType, Pcs
    <3>2. Flow' BY <1>0 DEF Flow, FlowOf, StopPcs, InferPcs, ThreadsType
    <3> QED BY <2>1, <3>1, <3>2, QuietType
  <2> QED BY <1>6, <2>2, <2>3 DEF AdmitInference
<1>7. CASE Begin(t)
  <2>1. Quiet BY <1>7 DEF Begin, Quiet
  <2>2. CASE Raise(t) BY <2>1, <2>2, QuietType, RaiseFlow
  <2>3. CASE BeginInference(t) /\ Goto(t, "submit") /\ UNCHANGED <<activity, rlock, locals>>
    <3> USE <1>7, <2>3 DEF Begin, Goto, BeginInference, locals
    <3>1. ThreadsType' /\ GuardType' BY DEF ThreadsType, GuardType, Pcs, InferPcs
    <3>2. Flow' BY <1>0 DEF Flow, FlowOf, StopPcs, InferPcs, ThreadsType
    <3> QED BY <2>1, <3>1, <3>2, QuietType
  <2> QED BY <1>7, <2>2, <2>3 DEF Begin
<1>8. CASE Submit(t)
  <2> USE <1>8 DEF Submit
  <2>1. ProcessTreeType'
    BY DEF ProcessTreeType, ServersOf, Alive, Servers
  <2>2. RecordsType' /\ OwnerType' BY DEF RecordsType, OwnerType, records, ownerVars
  <2>3. ThreadsType' /\ GuardType' /\ Flow'
    BY <1>0, StepFlow DEF FlowOf, StopPcs, InferPcs, Pcs
  <2> QED BY <2>1, <2>2, <2>3
<1>9. CASE RefuseLocally(t) \/ Answered(t)
  <2> USE <1>9 DEF RefuseLocally, Answered, FinishInference, Goto, LeaveLock, LeaveGuard, ForgetLocals
  <2>1. Quiet BY DEF Quiet
  <2>2. ThreadsType' /\ GuardType' BY DEF ThreadsType, GuardType, Pcs, OpNames
  <2>3. Flow' BY DEF Flow, FlowOf, StopPcs, InferPcs, ThreadsType
  <2> QED BY <2>1, <2>2, <2>3, QuietType
<1>10. CASE OutcomeUnknown(t)
  BY <1>10, QuietType, RaiseFlow DEF OutcomeUnknown, Quiet
<1> QED BY <1>1, <1>2, <1>3, <1>4, <1>5, <1>6, <1>7, <1>8, <1>9, <1>10 DEF SpeechSteps

\* The host, the operators and the clock keep FlowInv.
LEMMA EnvironmentFlow ==
    ASSUME FlowInv, Environment \/ UNCHANGED vars
    PROVE  FlowInv'
<1> USE DEF FlowInv, TypeOK, SupervisorType
<1> DEFINE Rest == UNCHANGED <<supVars, pc, locals>>
<1>0. Rest => RecordsType' /\ ThreadsType' /\ Flow'
  BY DEF RecordsType, ThreadsType, Flow, FlowOf, supVars, locals
<1>1. CASE ProcessTreeStep /\ UNCHANGED <<ownerVars, guardVars, supVars, pc, locals>>
  BY <1>0, <1>1, TreeType DEF OwnerType, GuardType, ownerVars, guardVars
<1>2. CASE \E c \in Ctrls : Crash(c) BY <1>2, ProcessGoneFlow DEF Crash
<1>3. CASE \E c \in Ctrls : CooldownExpires(c)
  <2> USE <1>3 DEF CooldownExpires
  <2>1. ProcessTreeType' BY TreeType
  <2>2. OwnerType' /\ GuardType' BY DEF OwnerType, GuardType, ownerVars, guardVars
  <2>3. RecordsType' BY DEF RecordsType, records
  <2>4. ThreadsType' /\ Flow' BY DEF ThreadsType, Flow, FlowOf, locals
  <2> QED BY <2>1, <2>2, <2>3, <2>4
<1>4. CASE OperatorClearsReceipt /\ UNCHANGED <<treeVars, guardVars, supVars, pc, locals>>
  BY <1>0, <1>4, TreeType DEF OperatorClearsReceipt, OwnerType, GuardType, Receipts, guardVars
<1>5. CASE /\ OperatorReconcilesPending
           /\ UNCHANGED <<treeVars, ownerVars, supVars, pc, locals>>
  BY <1>0, <1>5, TreeType DEF OperatorReconcilesPending, OwnerType, GuardType, ownerVars
<1>6. CASE UNCHANGED vars
  BY <1>0, <1>6, TreeType DEF vars, OwnerType, GuardType, ownerVars, guardVars
<1> QED BY <1>1, <1>2, <1>3, <1>4, <1>5, <1>6 DEF Environment

\* FlowInv is inductive.
LEMMA FlowStep == FlowInv /\ [Next]_vars => FlowInv'
<1> SUFFICES ASSUME FlowInv, [Next]_vars PROVE FlowInv' OBVIOUS
<1>1. CASE \E t \in Threads : ClientCalls(t) BY <1>1, CallFlow
<1>2. CASE \E t \in Threads : LockSupervisor(t) \/ ThreadStep(t)
  <2>1. PICK t \in Threads : LockSupervisor(t) \/ ThreadStep(t) BY <1>2
  <2>2. CASE StartSteps(t) BY <2>2, StartFlow
  <2>3. CASE StopSteps(t)
    BY <2>3, StopFlow, ProcessGoneFlow DEF ShutdownDone
  <2> QED BY <2>1, <2>2, <2>3, OtherFlow DEF ThreadStep
<1>3. CASE Environment \/ UNCHANGED vars BY <1>3, EnvironmentFlow
<1> QED BY <1>1, <1>2, <1>3 DEF Next

\* FlowInv holds initially.
LEMMA FlowInit == Init => FlowInv
<1> SUFFICES ASSUME Init PROVE FlowInv OBVIOUS
<1> USE DEF Init, FlowInv, TypeOK, SupervisorType
<1>1. ProcessTreeType BY DEF ProcessTreeInit, ProcessTreeType
<1>2. OwnerType BY DEF OwnerInit, OwnerType, Receipts
<1>3. GuardType BY DEF GuardInit, GuardType
<1>4. RecordsType BY DEF SupervisorInit, RecordsType
<1>5. ThreadsType BY DEF SupervisorInit, ThreadsType, Pcs, OpNames
<1>6. Flow BY DEF SupervisorInit, Flow, FlowOf, StopPcs, InferPcs
<1> QED BY <1>1, <1>2, <1>3, <1>4, <1>5, <1>6

\* Type correctness of the whole runtime group.
THEOREM TypeCorrect == Spec => []TypeOK
<1>1. FlowInv => TypeOK BY DEF FlowInv
<1> QED BY <1>1, FlowInit, FlowStep, PTL DEF Spec

-----------------------------------------------------------------------------
(***************************************************************************)
(* One process tree per exclusive group, for any number of controllers,    *)
(* threads, engines and launches.                                          *)
(*                                                                         *)
(* The argument.  A tree is created only at pc "popen", under a "starting" *)
(* receipt that names it and with no tree alive.  The thread there holds   *)
(* its supervisor lock and its controller the slot lease, and no _owned    *)
(* entry exists anywhere, so no other thread can touch slot or receipt     *)
(* until the launch is confirmed or abandoned.  Afterwards the receipt is  *)
(* cleared only by a step that has seen the tree empty.                    *)
(***************************************************************************)


\* Where a thread is inside "with self._lock".
LockPcs == StartPcs \cup SlotPcs \cup StopPcs \cup {"guard", "slot", "await", "next"}

\* Inside that block the thread holds its controller's lock.
LockHeld == \A t \in Threads : pc[t] \in LockPcs => rlock[Home[t]] = t

\* No controller lists a process of the group.
NoOwner == \A c \in Ctrls, e \in Engines : ~Owns(c, e)

\* What a thread knows about the group at its program point.
ThreadOwn(t) ==
    /\ pc[t] \in SlotPcs => slot = Home[t] /\ NoOwner
    /\ pc[t] = "publish" => receipt = NoReceipt
    /\ pc[t] \in {"popen", "confirm", "abort", "abandon"} => receipt = Starting(launch[t])
    /\ pc[t] = "popen" => Alive = {}
    /\ pc[t] = "verify" => Owns(Home[t], victim[t])

ThreadsOwn == \A t \in Threads : ThreadOwn(t)

\* A controller lists at most one process of the group.
OneOwner ==
    \A c \in Ctrls, e, f \in Engines : Owns(c, e) /\ Owns(c, f) => e = f

OwnCore == ThreadsOwn /\ OneOwner /\ ReceiptCoversTree /\ OwnerKeepsLease

\* The inductive invariant for ownership.
OwnInv == FlowInv /\ LockHeld /\ OwnCore

-----------------------------------------------------------------------------
(* The supervisor lock.                                                    *)

\* A step that stays inside the lock keeps LockHeld.
LEMMA LockKept ==
    ASSUME FlowInv, LockHeld, NEW t \in Threads, NEW l, Goto(t, l), UNCHANGED rlock,
           l \in LockPcs => pc[t] \in LockPcs
    PROVE  LockHeld'
  BY DEF FlowInv, TypeOK, SupervisorType, ThreadsType, LockHeld, Goto

\* A step that releases the lock and leaves the block keeps LockHeld.
LEMMA LockLeft ==
    ASSUME FlowInv, LockHeld, NEW t \in Threads, NEW l, Goto(t, l), LeaveLock(t),
           l \notin LockPcs
    PROVE  LockHeld'
  BY DEF FlowInv, TypeOK, SupervisorType, ThreadsType, LockHeld, Goto, LeaveLock

\* An exception keeps LockHeld, whether or not shutdown_all swallows it.
LEMMA LockRaise ==
    ASSUME FlowInv, LockHeld, NEW t \in Threads, Raise(t), pc[t] \notin {"idle", "lock"}
    PROVE  LockHeld'
<1>1. CASE op[t] = "shutdown"
  <2>1. pc[t] \in LockPcs BY <1>1 DEF FlowInv, Flow, FlowOf, LockPcs
  <2> QED BY <1>1, <2>1, LockKept DEF Raise
<1>2. CASE op[t] # "shutdown"
  BY <1>2, LockLeft DEF Raise, Leave, LockPcs, StartPcs, SlotPcs, StopPcs
<1> QED BY <1>1, <1>2

\* The return of status() keeps LockHeld.
LEMMA LockReturn ==
    ASSUME FlowInv, LockHeld, NEW t \in Threads, Return(t)
    PROVE  LockHeld'
  BY LockLeft DEF Return, Leave, LockPcs, StartPcs, SlotPcs, StopPcs

\* LockHeld is inductive given FlowInv: the RLock excludes other threads.
LEMMA LockStep == FlowInv /\ LockHeld /\ [Next]_vars => LockHeld'
<1> SUFFICES ASSUME FlowInv, LockHeld, [Next]_vars PROVE LockHeld' OBVIOUS
<1> USE DEF LockPcs, StartPcs, SlotPcs, StopPcs, Step
<1>1. ASSUME NEW t \in Threads, ClientCalls(t) PROVE LockHeld'
  <2>1. PICK o \in OpNames, e \in Engines \cup {NoEngine},
             l \in {"lock", "status", "ready"} : Call(t, o, e, l)
    BY <1>1 DEF OpNames, ClientCalls, CallStart, CallStop, CallRestart, CallStatus, CallSpeech, CallShutdown
  <2> QED BY <2>1, LockKept DEF Call, supVars
<1>2. ASSUME NEW t \in Threads, LockSupervisor(t) PROVE LockHeld'
  <2>1. PICK l \in {"next", "guard"} : Goto(t, l) BY <1>2 DEF LockSupervisor
  <2>2. /\ rlock[Home[t]] = NoOne
        /\ rlock' = [rlock EXCEPT ![Home[t]] = t]
    BY <1>2 DEF LockSupervisor
  <2>3. Home[t] \in Ctrls OBVIOUS
  <2> QED BY <2>1, <2>2, <2>3 DEF Goto, LockHeld, FlowInv, TypeOK, SupervisorType, ThreadsType
<1>3. ASSUME NEW t \in Threads, GuardGroup(t) \/ GuardRefused(t) \/ Status(t) PROVE LockHeld'
  <2>1. CASE GuardGroup(t) BY <2>1, LockKept DEF GuardGroup, supVars
  <2>2. CASE GuardRefused(t) BY <2>2, LockRaise DEF GuardRefused
  <2>3. CASE Status(t) BY <2>3, LockReturn DEF Status
  <2> QED BY <1>3, <2>1, <2>2, <2>3
<1>4. ASSUME NEW t \in Threads, StartSteps(t) PROVE LockHeld'
  <2>1. CASE StartReap(t) BY <2>1, LockKept DEF StartReap
  <2>2. CASE StartDecide(t) BY <2>2, LockKept, LockRaise DEF StartDecide
  <2>3. CASE EnforceReap(t) BY <2>3, LockKept DEF EnforceReap
  <2>4. CASE EnforceSibling(t) BY <2>4, LockKept, LockRaise DEF EnforceSibling
  <2>5. CASE EnforceDone(t) BY <2>5, LockKept DEF EnforceDone, supVars
  <2>6. CASE TakeSlot(t) BY <2>6, LockKept, LockRaise DEF TakeSlot
  <2>7. CASE ReconcilePriorOwner(t) BY <2>7, LockKept, LockRaise DEF ReconcilePriorOwner
  <2>8. CASE PublishIntent(t) BY <2>8, LockKept, LockRaise DEF PublishIntent
  <2>9. CASE SpawnEngine(t) BY <2>9, LockKept, LockRaise DEF SpawnEngine
  <2>10. CASE ConfirmLaunch(t) BY <2>10, LockKept DEF ConfirmLaunch
  <2>11. CASE AbortLaunch(t) BY <2>11, LockKept DEF AbortLaunch
  <2>12. CASE AbandonLaunch(t) BY <2>12, LockRaise DEF AbandonLaunch
  <2>13. CASE AwaitExited(t) BY <2>13, LockRaise DEF AwaitExited
  <2>14. CASE AwaitReady(t) BY <2>14, LockKept DEF AwaitReady
  <2>15. CASE AwaitTimeout(t) BY <2>15, LockKept DEF AwaitTimeout, supVars
  <2> QED BY <1>4, <2>1, <2>2, <2>3, <2>4, <2>5, <2>6, <2>7, <2>8, <2>9, <2>10, <2>11,
             <2>12, <2>13, <2>14, <2>15 DEF StartSteps
<1>5. ASSUME NEW c \in Ctrls, ProcessGone(c) PROVE LockHeld'
  BY <1>5 DEF ProcessGone, LockHeld, FlowInv, TypeOK, SupervisorType, ThreadsType
<1>6. ASSUME NEW t \in Threads, StopSteps(t) PROVE LockHeld'
  <2>1. CASE StopReap(t) BY <2>1, LockKept DEF StopReap
  <2>2. CASE StopNothing(t) BY <2>2, LockKept DEF StopNothing
  <2>3. CASE StopSignal(t) BY <2>3, LockKept, LockRaise DEF StopSignal
  <2>4. CASE StopVerify(t) BY <2>4, LockKept, LockRaise DEF StopVerify
  <2>5. CASE StopReturns(t) BY <2>5, LockLeft, LockRaise DEF StopReturns, Leave
  <2>6. CASE SiblingStopped(t) BY <2>6, LockKept DEF SiblingStopped
  <2>7. CASE StartupTimedOut(t) BY <2>7, LockRaise DEF StartupTimedOut
  <2>8. CASE RestartContinues(t) BY <2>8, LockKept, LockRaise DEF RestartContinues
  <2>9. CASE ShutdownNext(t) BY <2>9, LockKept DEF ShutdownNext, supVars
  <2>10. CASE ShutdownDone(t) BY <1>5, <2>10, SupervisorAssumption DEF ShutdownDone
  <2> QED BY <1>6, <2>1, <2>2, <2>3, <2>4, <2>5, <2>6, <2>7, <2>8, <2>9, <2>10 DEF StopSteps
<1>7. ASSUME NEW t \in Threads, SpeechSteps(t) PROVE LockHeld'
  <2>1. CASE EnsureReady(t) BY <2>1, LockKept DEF EnsureReady
  <2>2. CASE AdmitInference(t) BY <2>2, LockKept, LockRaise DEF AdmitInference
  <2>3. CASE Begin(t) BY <2>3, LockKept, LockRaise DEF Begin
  <2>4. CASE Submit(t) BY <2>4, LockKept DEF Submit
  <2>5. CASE RefuseLocally(t) BY <2>5, LockLeft DEF RefuseLocally
  <2>6. CASE Answered(t) BY <2>6, LockLeft DEF Answered
  <2>7. CASE OutcomeUnknown(t) BY <2>7, LockRaise DEF OutcomeUnknown
  <2> QED BY <1>7, <2>1, <2>2, <2>3, <2>4, <2>5, <2>6, <2>7 DEF SpeechSteps
<1>8. ASSUME UNCHANGED <<rlock, pc>> PROVE LockHeld' BY <1>8 DEF LockHeld
<1>9. CASE Environment
  BY <1>5, <1>8, <1>9 DEF Environment, Crash, CooldownExpires, supVars
<1>10. CASE UNCHANGED vars BY <1>8, <1>10 DEF vars, supVars
<1> QED BY <1>1, <1>2, <1>3, <1>4, <1>6, <1>7, <1>9, <1>10 DEF Next, ThreadStep

-----------------------------------------------------------------------------
(* Slot, receipt and trees.                                                *)

\* A step of one thread leaves the place and locals of the others alone.
OthersStay(t) ==
    \A u \in Threads \ {t} :
        pc'[u] = pc[u] /\ launch'[u] = launch[u] /\ victim'[u] = victim[u]

\* A thread whose step leaves slot, receipt and _owned alone keeps OwnCore.
LEMMA QuietOwn ==
    ASSUME OwnCore, NEW t \in Threads, OthersStay(t), ThreadOwn(t)',
           UNCHANGED <<slot, receipt, owned>>, Alive' \subseteq Alive
    PROVE  OwnCore'
<1>1. ASSUME NEW u \in Threads, u # t PROVE ThreadOwn(u)'
  BY <1>1 DEF OwnCore, ThreadsOwn, ThreadOwn, OthersStay, NoOwner, Owns
<1>2. ThreadsOwn' BY <1>1 DEF ThreadsOwn
<1>3. OneOwner' /\ OwnerKeepsLease' BY DEF OwnCore, OneOwner, OwnerKeepsLease, Owns
<1>4. ReceiptCoversTree' BY DEF OwnCore, ReceiptCoversTree
<1> QED BY <1>2, <1>3, <1>4 DEF OwnCore

\* Reaping: the last member is gone, so is the only owner and its receipt.
LEMMA ReapOwn ==
    ASSUME FlowInv, LockHeld, OwnCore, NEW t \in Threads, OthersStay(t), ThreadOwn(t)',
           NEW e \in Engines, Owns(Home[t], e), owned[Home[t]][e] \notin Alive,
           rlock[Home[t]] \in {NoOne, t},
           ClearLaunchReceipt(owned[Home[t]][e]), ForgetOwned(Home[t], e), ReleaseSlot,
           UNCHANGED treeVars
    PROVE  OwnCore'
<1> DEFINE c == Home[t]
<1> USE DEF FlowInv, TypeOK, SupervisorType, RecordsType, ThreadsType
<1>0. c \in Ctrls OBVIOUS
<1>1. slot = c /\ receipt = Running(owned[c][e])
  BY <1>0 DEF OwnCore, OwnerKeepsLease
<1>2. \A d \in Ctrls, f \in Engines : Owns(d, f) => d = c /\ f = e
  BY <1>0, <1>1 DEF OwnCore, OwnerKeepsLease, OneOwner
<1>3. NoOwner' BY <1>0, <1>2 DEF NoOwner, Owns, ForgetOwned
<1>4. Alive = {} /\ Alive' = {}
  BY <1>1 DEF OwnCore, ReceiptCoversTree, Running, Alive, treeVars
<1>5. ASSUME NEW u \in Threads, u # t PROVE ThreadOwn(u)'
  <2>1. pc[u] \notin SlotPcs BY <1>0 DEF OwnCore, ThreadsOwn, ThreadOwn, NoOwner
  <2>2. pc[u] # "verify"
    <3> SUFFICES ASSUME pc[u] = "verify" PROVE FALSE OBVIOUS
    <3>1. Owns(Home[u], victim[u]) /\ Home[u] \in Ctrls /\ victim[u] \in Engines
      BY DEF OwnCore, ThreadsOwn, ThreadOwn, Flow, FlowOf, StopPcs
    <3>2. Home[u] = c BY <1>2, <3>1
    <3>3. rlock[c] = u BY <3>2 DEF LockHeld, LockPcs, StopPcs
    <3> QED BY <3>3, <1>5, OwnerAssumption
  <2> QED BY <1>5, <2>1, <2>2 DEF ThreadOwn, OthersStay, SlotPcs
<1>6. ThreadsOwn' BY <1>5 DEF ThreadsOwn
<1>7. OneOwner' /\ OwnerKeepsLease' BY <1>3 DEF NoOwner, OneOwner, OwnerKeepsLease
<1>8. ReceiptCoversTree' BY <1>4 DEF ReceiptCoversTree
<1> QED BY <1>6, <1>7, <1>8 DEF OwnCore

\* _clean_exited in a thread that holds or finds free its lock keeps OwnCore.
LEMMA CleanExitedOwn ==
    ASSUME FlowInv, LockHeld, OwnCore, NEW t \in Threads, OthersStay(t), ThreadOwn(t)',
           NEW e \in Engines, CleanExited(Home[t], e), rlock[Home[t]] \in {NoOne, t},
           UNCHANGED treeVars
    PROVE  OwnCore'
<1>1. CASE UNCHANGED <<slot, receipt, owned>>
  BY <1>1, QuietOwn DEF treeVars, Alive
<1>2. CASE ~UNCHANGED <<slot, receipt, owned>>
  BY <1>2, ReapOwn DEF CleanExited, records, ownerVars
<1> QED BY <1>1, <1>2

\* While a thread holds the slot to start an engine, nobody else is concerned.
LEMMA SlotExclusive ==
    ASSUME FlowInv, LockHeld, OwnCore, NEW t \in Threads, pc[t] \in SlotPcs,
           NEW u \in Threads, u # t
    PROVE  pc[u] \notin SlotPcs \cup {"verify"}
<1> USE DEF FlowInv, TypeOK, SupervisorType, ThreadsType
<1>1. slot = Home[t] /\ NoOwner /\ rlock[Home[t]] = t
  BY DEF OwnCore, ThreadsOwn, ThreadOwn, LockHeld, LockPcs
<1>2. pc[u] # "verify"
  BY <1>1, SupervisorAssumption
     DEF OwnCore, ThreadsOwn, ThreadOwn, NoOwner, Flow, FlowOf, StopPcs
<1>3. pc[u] \notin SlotPcs
  <2> SUFFICES ASSUME pc[u] \in SlotPcs PROVE FALSE OBVIOUS
  <2>1. slot = Home[u] /\ rlock[Home[u]] = u
    BY DEF OwnCore, ThreadsOwn, ThreadOwn, LockHeld, LockPcs
  <2> QED BY <1>1, <2>1
<1> QED BY <1>2, <1>3

-----------------------------------------------------------------------------
(* Steps that leave thread t with nothing to say about slot and receipt.   *)

\* A step of one thread to a place where it claims nothing about the group.
Aside(t) == OthersStay(t) /\ pc'[t] \notin SlotPcs \cup {"verify"}

\* A thread at such a place knows nothing that could be wrong.
LEMMA AsideOwn ==
    ASSUME NEW t \in Threads, Aside(t)
    PROVE  OthersStay(t) /\ ThreadOwn(t)'
  BY DEF Aside, ThreadOwn, SlotPcs

\* Exceptions, returns and steps to unclaimed places are such steps.
LEMMA MovesAside ==
    ASSUME FlowInv, NEW t \in Threads,
           \/ Raise(t) \/ Leave(t) \/ Return(t)
           \/ \E l \in Pcs \ (SlotPcs \cup {"verify"}) : Step(t, l)
    PROVE  Aside(t)
<1> USE DEF FlowInv, TypeOK, SupervisorType, ThreadsType, Aside, OthersStay, Goto, SlotPcs
<1>1. Leave(t) => Aside(t) BY DEF Leave, ForgetLocals
<1>2. Raise(t) => Aside(t) BY <1>1 DEF Raise, locals
<1>3. Return(t) => Aside(t) BY <1>1 DEF Return, locals
<1>4. ASSUME NEW l \in Pcs \ (SlotPcs \cup {"verify"}), Step(t, l) PROVE Aside(t)
  BY <1>4 DEF Step, locals
<1> QED BY <1>1, <1>2, <1>3, <1>4

\* Such a step that changes no ownership keeps OwnCore.
LEMMA AsideQuiet ==
    ASSUME OwnInv, NEW t \in Threads, Aside(t), UNCHANGED <<ownerVars, records>>,
           Alive' \subseteq Alive
    PROVE  OwnCore'
  BY AsideOwn, QuietOwn DEF OwnInv, ownerVars, records

\* Such a step that reaps an exited process keeps OwnCore.
LEMMA AsideReap ==
    ASSUME OwnInv, NEW t \in Threads, Aside(t), NEW e \in Engines,
           CleanExited(Home[t], e), rlock[Home[t]] \in {NoOne, t}, UNCHANGED treeVars
    PROVE  OwnCore'
  BY AsideOwn, CleanExitedOwn DEF OwnInv

\* Client calls and waiting for the lock keep OwnCore.
LEMMA OwnCalls ==
    ASSUME OwnInv, NEW t \in Threads, ClientCalls(t) \/ LockSupervisor(t) \/ GuardGroup(t)
    PROVE  OwnCore'
<1> USE DEF OwnInv, FlowInv, TypeOK, SupervisorType, ThreadsType, OthersStay, Aside, Goto, SlotPcs
<1>1. CASE ClientCalls(t)
  <2>1. PICK o \in OpNames, e \in Engines \cup {NoEngine},
             l \in {"lock", "status", "ready"} : Call(t, o, e, l)
    BY <1>1 DEF OpNames, ClientCalls, CallStart, CallStop, CallRestart, CallStatus,
                CallSpeech, CallShutdown
  <2>2. Aside(t) BY <2>1 DEF Call
  <2> QED BY <2>1, <2>2, AsideQuiet DEF Call, supVars, records, treeVars, Alive
<1>2. CASE LockSupervisor(t)
  <2>1. PICK l \in {"next", "guard"} : Goto(t, l) BY <1>2 DEF LockSupervisor
  <2>2. Aside(t) BY <1>2, <2>1 DEF LockSupervisor
  <2> QED BY <1>2, <2>2, AsideQuiet DEF LockSupervisor, treeVars, Alive
<1>3. CASE GuardGroup(t)
  <2>1. PICK l \in {"stopping", "reap"} : Goto(t, l) BY <1>3 DEF GuardGroup
  <2>2. Aside(t)
    BY <1>3, <2>1 DEF GuardGroup
  <2> QED BY <1>3, <2>2, AsideQuiet DEF GuardGroup, supVars, records, treeVars, Alive
<1> QED BY <1>1, <1>2, <1>3

\* Guarding, status and the steps of synthesize keep OwnCore.
LEMMA OwnSpeech ==
    ASSUME OwnInv, NEW t \in Threads, GuardRefused(t) \/ Status(t) \/ SpeechSteps(t)
    PROVE  OwnCore'
<1> USE DEF OwnInv
<1>1. CASE GuardRefused(t)
  BY <1>1, MovesAside, AsideQuiet DEF GuardRefused, treeVars, Alive
<1>2. CASE Status(t)
  <2>1. Aside(t) BY <1>2, MovesAside DEF Status
  <2>2. CASE UNCHANGED <<records, ownerVars>>
    BY <1>2, <2>1, <2>2, AsideQuiet DEF Status, treeVars, Alive
  <2>3. CASE ~UNCHANGED <<records, ownerVars>>
    <3>1. eng[t] \in Engines
      BY <1>2 DEF Status, FlowInv, Flow, FlowOf, StopPcs
    <3> QED BY <1>2, <2>1, <2>3, <3>1, AsideReap DEF Status
  <2> QED BY <2>2, <2>3
<1>3. CASE EnsureReady(t)
  BY <1>3, MovesAside, AsideQuiet DEF EnsureReady, treeVars, Alive, Pcs, SlotPcs
<1>4. CASE AdmitInference(t) \/ Begin(t)
  <2>1. UNCHANGED <<ownerVars, records, treeVars>> BY <1>4 DEF AdmitInference, Begin
  <2>2. CASE Raise(t) BY <2>1, <2>2, MovesAside, AsideQuiet DEF treeVars, Alive
  <2>3. CASE ~Raise(t)
    <3>1. PICK l \in {"ready", "submit"} : Goto(t, l) /\ UNCHANGED locals
      BY <1>4, <2>3 DEF AdmitInference, Begin
    <3>2. Aside(t)
      BY <3>1 DEF Aside, OthersStay, Goto, SlotPcs, locals, FlowInv, TypeOK, SupervisorType, ThreadsType
    <3> QED BY <2>1, <3>2, AsideQuiet DEF treeVars, Alive
  <2> QED BY <2>2, <2>3
<1>5. CASE Submit(t)
  <2>1. Aside(t) BY <1>5, MovesAside DEF Submit, Pcs, SlotPcs, InferPcs
  <2> QED BY <1>5, <2>1, AsideQuiet DEF Submit, Alive
<1>6. CASE RefuseLocally(t) \/ Answered(t)
  <2>1. Aside(t)
    BY <1>6 DEF RefuseLocally, Answered, Aside, OthersStay, Goto, ForgetLocals, SlotPcs,
                FlowInv, TypeOK, SupervisorType, ThreadsType
  <2> QED BY <1>6, <2>1, AsideQuiet DEF RefuseLocally, Answered, treeVars, Alive
<1>7. CASE OutcomeUnknown(t)
  BY <1>7, MovesAside, AsideQuiet DEF OutcomeUnknown, treeVars, Alive
<1> QED BY <1>1, <1>2, <1>3, <1>4, <1>5, <1>6, <1>7 DEF SpeechSteps

\* Every step of _stop_owned and its callers keeps OwnCore, except the end of
\* the process after shutdown_all.
LEMMA OwnStop ==
    ASSUME OwnInv, NEW t \in Threads, StopSteps(t)
    PROVE  OwnCore' \/ ShutdownDone(t)
<1> USE DEF OwnInv
<1>0. pc[t] \in StopPcs => rlock[Home[t]] = t /\ victim[t] \in Engines
  BY DEF LockHeld, LockPcs, FlowInv, Flow, FlowOf
<1>1. CASE StopReap(t)
  BY <1>0, <1>1, MovesAside, AsideReap DEF StopReap, Pcs, SlotPcs, StopPcs
<1>2. CASE StopNothing(t) \/ SiblingStopped(t)
  BY <1>2, MovesAside, AsideQuiet
     DEF StopNothing, SiblingStopped, treeVars, Alive, Pcs, SlotPcs, StopPcs, StartPcs
<1>3. CASE StopSignal(t)
  <2>1. UNCHANGED <<slot, receipt, owned>> /\ Alive' = Alive
    BY <1>3 DEF StopSignal, SignalGroup, treeVars, ownerVars, Alive
  <2>2. CASE Raise(t)
    BY <2>1, <2>2, MovesAside, AsideOwn, QuietOwn
  <2>3. CASE Step(t, "verify")
    <3>1. OthersStay(t) /\ ThreadOwn(t)'
      BY <1>3, <2>1, <2>3 DEF StopSignal, Step, Goto, locals, OthersStay, ThreadOwn, Owns, SlotPcs,
                         FlowInv, TypeOK, SupervisorType, ThreadsType
    <3> QED BY <2>1, <3>1, QuietOwn
  <2> QED BY <1>3, <2>2, <2>3 DEF StopSignal
<1>4. CASE StopVerify(t)
  <2>1. Owns(Home[t], victim[t])
    BY <1>4 DEF StopVerify, OwnCore, ThreadsOwn, ThreadOwn
  <2>2. CASE Raise(t) /\ UNCHANGED <<ownerVars, owned>>
    BY <1>4, <2>2, MovesAside, AsideOwn, QuietOwn DEF StopVerify, treeVars, Alive, ownerVars
  <2>3. CASE ~(Raise(t) /\ UNCHANGED <<ownerVars, owned>>)
    <3>1. Step(t, "stopped") BY <1>4, <2>3 DEF StopVerify
    <3>2. Aside(t) BY <3>1, MovesAside DEF Pcs, SlotPcs, StopPcs
    <3> QED BY <1>0, <1>4, <2>1, <2>3, <3>2, AsideOwn, ReapOwn DEF StopVerify, StopPcs
  <2> QED BY <2>2, <2>3
<1>5. CASE StopReturns(t)
  BY <1>5, MovesAside, AsideQuiet DEF StopReturns, treeVars, Alive
<1>6. CASE StartupTimedOut(t)
  BY <1>6, MovesAside, AsideQuiet DEF StartupTimedOut, treeVars, Alive
<1>7. CASE RestartContinues(t)
  <2>1. UNCHANGED <<ownerVars, records, treeVars>> BY <1>7 DEF RestartContinues
  <2>2. Aside(t)
    <3>1. CASE Raise(t) BY <3>1, MovesAside
    <3>2. CASE ~Raise(t)
      BY <1>7, <3>2 DEF RestartContinues, Aside, OthersStay, Goto, SlotPcs, FlowInv, TypeOK,
                        SupervisorType, ThreadsType
    <3> QED BY <3>1, <3>2
  <2> QED BY <2>1, <2>2, AsideQuiet DEF treeVars, Alive
<1>8. CASE ShutdownNext(t)
  <2>1. Aside(t)
    BY <1>8 DEF ShutdownNext, Aside, OthersStay, Goto, SlotPcs, FlowInv, TypeOK,
                SupervisorType, ThreadsType
  <2> QED BY <1>8, <2>1, AsideQuiet DEF ShutdownNext, supVars, records, treeVars, Alive
<1>9. CASE ShutdownDone(t) BY <1>9
<1> QED BY <1>1, <1>2, <1>3, <1>4, <1>5, <1>6, <1>7, <1>8, <1>9 DEF StopSteps

-----------------------------------------------------------------------------
(* start: the only code that takes the slot and creates a tree.            *)

\* Once t alone is concerned, its own knowledge is all there is to re-establish.
LEMMA AloneOwn ==
    ASSUME OwnInv, NEW t \in Threads, OthersStay(t), ThreadOwn(t)',
           \A u \in Threads \ {t} : pc[u] \notin SlotPcs \cup {"verify"},
           NoOwner', ReceiptCoversTree'
    PROVE  OwnCore'
<1>1. ASSUME NEW u \in Threads, u # t PROVE ThreadOwn(u)'
  BY <1>1 DEF OthersStay, ThreadOwn, SlotPcs
<1>2. ThreadsOwn' BY <1>1 DEF ThreadsOwn
<1> QED BY <1>2 DEF OwnCore, NoOwner, OneOwner, OwnerKeepsLease

\* Every step of start() keeps OwnCore.
LEMMA OwnStart ==
    ASSUME OwnInv, NEW t \in Threads, StartSteps(t)
    PROVE  OwnCore'
<1> USE DEF OwnInv
<1>0. /\ pc[t] \in StartPcs \cup SlotPcs \cup {"slot", "await"} =>
           rlock[Home[t]] = t /\ eng[t] \in Engines /\ Home[t] \in Ctrls
      /\ pc[t] \in SlotPcs => /\ slot = Home[t] /\ NoOwner
                              /\ \A u \in Threads \ {t} : pc[u] \notin SlotPcs \cup {"verify"}
  <2>1. pc[t] \in SlotPcs => slot = Home[t] /\ NoOwner BY DEF OwnCore, ThreadsOwn, ThreadOwn
  <2>2. pc[t] \in StartPcs \cup SlotPcs \cup {"slot", "await"} =>
           rlock[Home[t]] = t /\ eng[t] \in Engines /\ Home[t] \in Ctrls
    BY DEF LockHeld, LockPcs, FlowInv, Flow, FlowOf, StartPcs, SlotPcs, StopPcs
  <2> QED BY <2>1, <2>2, SlotExclusive
<1>1. CASE StartReap(t)
  BY <1>0, <1>1, MovesAside, AsideReap DEF StartReap, Pcs, SlotPcs, StartPcs
<1>2. CASE StartDecide(t)
  <2>1. UNCHANGED <<ownerVars, records, treeVars>> BY <1>2 DEF StartDecide
  <2>2. Aside(t)
    <3>1. CASE Raise(t) \/ Step(t, "status") BY <3>1, MovesAside DEF Pcs, SlotPcs
    <3>2. CASE ~(Raise(t) \/ Step(t, "status"))
      BY <1>2, <3>2 DEF StartDecide, Aside, OthersStay, Goto, SlotPcs, FlowInv, TypeOK,
                        SupervisorType, ThreadsType
    <3> QED BY <3>1, <3>2
  <2> QED BY <2>1, <2>2, AsideQuiet DEF treeVars, Alive
<1>3. CASE EnforceReap(t)
  <2>1. PICK s \in todo[t] : CleanExited(Home[t], s) BY <1>3 DEF EnforceReap
  <2>2. s \in Engines BY DEF FlowInv, TypeOK, SupervisorType, ThreadsType
  <2>3. Aside(t)
    BY <1>3 DEF EnforceReap, Aside, OthersStay, Goto, SlotPcs, FlowInv, TypeOK,
                SupervisorType, ThreadsType
  <2> QED BY <1>0, <1>3, <2>1, <2>2, <2>3, AsideReap DEF EnforceReap, StartPcs
<1>4. CASE EnforceSibling(t)
  BY <1>4, MovesAside, AsideQuiet
     DEF EnforceSibling, treeVars, Alive, Pcs, SlotPcs, StartPcs, StopPcs
<1>5. CASE EnforceDone(t)
  <2>1. Aside(t)
    BY <1>5 DEF EnforceDone, Aside, OthersStay, Goto, SlotPcs, FlowInv, TypeOK,
                SupervisorType, ThreadsType
  <2> QED BY <1>5, <2>1, AsideQuiet DEF EnforceDone, supVars, records, treeVars, Alive
<1>6. CASE TakeSlot(t)
  <2>1. CASE Raise(t) /\ UNCHANGED slot
    BY <1>6, <2>1, MovesAside, AsideQuiet DEF TakeSlot, ownerVars, treeVars, Alive
  <2>2. CASE AcquireSlot(Home[t]) /\ Step(t, "reconcile")
    <3> USE <1>6, <2>2 DEF TakeSlot, AcquireSlot, Step, Goto
    <3>1. NoOwner
      BY DEF OwnCore, OwnerKeepsLease, NoOwner
    <3>2. \A u \in Threads : pc[u] \notin SlotPcs \cup {"verify"}
      BY <3>1 DEF OwnCore, ThreadsOwn, ThreadOwn, NoOwner, FlowInv, Flow, FlowOf, StopPcs
    <3>3. OthersStay(t) /\ pc'[t] = "reconcile"
      BY DEF OthersStay, locals, FlowInv, TypeOK, SupervisorType, ThreadsType
    <3>4. NoOwner' BY <3>1 DEF NoOwner, Owns, records
    <3>5. ThreadOwn(t)' BY <3>3, <3>4 DEF ThreadOwn
    <3>6. ReceiptCoversTree' BY DEF OwnCore, ReceiptCoversTree, treeVars, Alive
    <3> QED BY <3>2, <3>3, <3>4, <3>5, <3>6, AloneOwn
  <2> QED BY <1>6, <2>1, <2>2 DEF TakeSlot
<1> DEFINE Alone == /\ slot = Home[t] /\ NoOwner
                    /\ \A u \in Threads \ {t} : pc[u] \notin SlotPcs \cup {"verify"}
<1>7. CASE ReconcilePriorOwner(t)
  <2>0. Alone /\ NoOwner'
    BY <1>0, <1>7 DEF ReconcilePriorOwner, SlotPcs, NoOwner, Owns, records
  <2>1. CASE Raise(t) /\ UNCHANGED receipt
    <3>1. Aside(t) BY <2>1, MovesAside
    <3>2. ReceiptCoversTree'
      BY <1>7, <2>1 DEF ReconcilePriorOwner, OwnCore, ReceiptCoversTree, treeVars, Alive
    <3> QED BY <2>0, <3>1, <3>2, AsideOwn, AloneOwn
  <2>2. CASE /\ receipt = NoReceipt \/ ProvablyGone(receipt)
             /\ receipt' = NoReceipt
             /\ Step(t, "publish")
             /\ UNCHANGED slot
    <3>1. Alive = {} /\ Alive' = {}
      BY <1>7, <2>2 DEF ReconcilePriorOwner, OwnCore, ReceiptCoversTree, ProvablyGone, NoReceipt, treeVars, Alive,
             FlowInv, TypeOK, ProcessTreeType
    <3>2. OthersStay(t) /\ pc'[t] = "publish"
      BY <2>2 DEF Step, Goto, OthersStay, locals, FlowInv, TypeOK, SupervisorType, ThreadsType
    <3>3. ThreadOwn(t)' BY <2>0, <2>2, <3>2 DEF ThreadOwn
    <3>4. ReceiptCoversTree' BY <3>1 DEF ReceiptCoversTree
    <3> QED BY <2>0, <3>2, <3>3, <3>4, AloneOwn
  <2> QED BY <1>7, <2>1, <2>2 DEF ReconcilePriorOwner
<1>8. CASE PublishIntent(t)
  <2>0. Alone /\ NoOwner'
    BY <1>0, <1>8 DEF PublishIntent, SlotPcs, NoOwner, Owns, records
  <2>1. CASE Raise(t) /\ UNCHANGED receipt
    <3>1. Aside(t) BY <2>1, MovesAside
    <3>2. ReceiptCoversTree'
      BY <1>8, <2>1 DEF PublishIntent, OwnCore, ReceiptCoversTree, treeVars, Alive
    <3> QED BY <2>0, <3>1, <3>2, AsideOwn, AloneOwn
  <2>2. CASE ~(Raise(t) /\ UNCHANGED receipt)
    <3>1. PICK n \in Launches :
             /\ PublishStarting(n)
             /\ launch' = [launch EXCEPT ![t] = n]
             /\ Goto(t, "popen")
             /\ UNCHANGED <<slot, victim>>
      BY <1>8, <2>2 DEF PublishIntent
    <3>2. Alive = {} /\ Alive' = {}
      BY <1>8 DEF PublishIntent, OwnCore, ThreadsOwn, ThreadOwn, ReceiptCoversTree, NoReceipt,
             treeVars, Alive, FlowInv, TypeOK, ProcessTreeType
    <3>3. OthersStay(t) /\ pc'[t] = "popen" /\ launch'[t] = n
      BY <3>1 DEF Goto, OthersStay, FlowInv, TypeOK, SupervisorType, ThreadsType
    <3>4. ThreadOwn(t)' BY <2>0, <3>1, <3>2, <3>3 DEF ThreadOwn, PublishStarting
    <3>5. ReceiptCoversTree' BY <3>2 DEF ReceiptCoversTree
    <3> QED BY <2>0, <3>3, <3>4, <3>5, AloneOwn
  <2> QED BY <2>1, <2>2
<1>9. CASE SpawnEngine(t)
  <2>0. Alone /\ NoOwner' /\ Alive = {} /\ receipt = Starting(launch[t]) /\ UNCHANGED receipt
    BY <1>0, <1>9 DEF SpawnEngine, SlotPcs, NoOwner, Owns, records, OwnCore, ThreadsOwn, ThreadOwn
  <2>1. ReceiptCoversTree'
    BY <1>9, <2>0 DEF SpawnEngine, Spawn, ReceiptCoversTree, treeVars, Alive, Starting
  <2>2. CASE Raise(t)
    BY <2>0, <2>1, <2>2, MovesAside, AsideOwn, AloneOwn
  <2>3. CASE Step(t, "confirm") /\ UNCHANGED slot
    <3>1. OthersStay(t) /\ pc'[t] = "confirm" /\ launch'[t] = launch[t]
      BY <2>3 DEF Step, Goto, OthersStay, locals, FlowInv, TypeOK, SupervisorType, ThreadsType
    <3>2. ThreadOwn(t)' BY <2>0, <2>3, <3>1 DEF ThreadOwn
    <3> QED BY <2>0, <2>1, <3>1, <3>2, AloneOwn
  <2> QED BY <1>9, <2>2, <2>3 DEF SpawnEngine
<1>10. CASE ConfirmLaunch(t)
  <2>0. Alone /\ receipt = Starting(launch[t]) /\ launch[t] \in Launches
        /\ eng[t] \in Engines /\ Home[t] \in Ctrls
    BY <1>0, <1>10 DEF ConfirmLaunch, SlotPcs, OwnCore, ThreadsOwn, ThreadOwn, FlowInv, Flow, FlowOf
  <2>1. CASE UNCHANGED <<receipt, owned>> /\ Step(t, "abort")
    <3>1. OthersStay(t) /\ pc'[t] = "abort" /\ launch'[t] = launch[t]
      BY <2>1 DEF Step, Goto, OthersStay, locals, FlowInv, TypeOK, SupervisorType, ThreadsType
    <3>2. NoOwner' BY <2>0, <2>1 DEF NoOwner, Owns
    <3>3. ThreadOwn(t)' BY <1>10, <2>0, <2>1, <3>1, <3>2 DEF ConfirmLaunch, ThreadOwn
    <3>4. ReceiptCoversTree'
      BY <1>10, <2>1 DEF ConfirmLaunch, OwnCore, ReceiptCoversTree, treeVars, Alive
    <3> QED BY <2>0, <3>1, <3>2, <3>3, <3>4, AloneOwn
  <2>2. CASE /\ receipt' = Running(launch[t])
             /\ owned' = [owned EXCEPT ![Home[t]][eng[t]] = launch[t]]
             /\ Step(t, "await")
    <3>1. Aside(t) BY <2>2, MovesAside DEF Pcs, SlotPcs
    <3>2. ThreadsOwn'
      <4>1. ASSUME NEW u \in Threads, u # t PROVE ThreadOwn(u)'
        BY <2>0, <3>1, <4>1 DEF Aside, OthersStay, ThreadOwn, SlotPcs
      <4> QED BY <3>1, <4>1, AsideOwn DEF ThreadsOwn
    <3>3. \A c \in Ctrls, e \in Engines :
             Owns(c, e)' => c = Home[t] /\ e = eng[t] /\ owned'[c][e] = launch[t]
      BY <2>0, <2>2 DEF NoOwner, Owns, FlowInv, TypeOK, SupervisorType, RecordsType
    <3>4. OneOwner' BY <3>3 DEF OneOwner
    <3>5. OwnerKeepsLease' BY <1>10, <2>0, <2>2, <3>3 DEF ConfirmLaunch, OwnerKeepsLease
    <3>6. ReceiptCoversTree'
      BY <1>10, <2>0, <2>2 DEF ConfirmLaunch, OwnCore, ReceiptCoversTree, treeVars, Alive,
                               Starting, Running
    <3> QED BY <3>2, <3>4, <3>5, <3>6 DEF OwnCore
  <2> QED BY <1>10, <2>1, <2>2 DEF ConfirmLaunch, PublishRunning
<1>11. CASE AbortLaunch(t)
  <2>0. Alone /\ receipt = Starting(launch[t])
    BY <1>0, <1>11 DEF AbortLaunch, SlotPcs, OwnCore, ThreadsOwn, ThreadOwn
  <2>1. UNCHANGED <<slot, receipt, owned>> /\ Alive' = Alive
    BY <1>11 DEF AbortLaunch, SignalGroup, treeVars, Alive, ownerVars, records
  <2>2. OthersStay(t) /\ pc'[t] = "abandon" /\ launch'[t] = launch[t]
    BY <1>11 DEF AbortLaunch, Step, Goto, OthersStay, locals, FlowInv, TypeOK, SupervisorType, ThreadsType
  <2>3. NoOwner' BY <2>0, <2>1 DEF NoOwner, Owns
  <2>4. ThreadOwn(t)' BY <2>0, <2>1, <2>2, <2>3 DEF ThreadOwn
  <2> QED BY <2>1, <2>2, <2>4, QuietOwn
<1>12. CASE AbandonLaunch(t)
  <2>0. Alone /\ NoOwner' /\ receipt = Starting(launch[t])
    BY <1>0, <1>12 DEF AbandonLaunch, SlotPcs, NoOwner, Owns, records, OwnCore, ThreadsOwn, ThreadOwn
  <2>1. ReceiptCoversTree'
    BY <1>12, <2>0 DEF AbandonLaunch, ClearLaunchReceipt, OwnCore, ReceiptCoversTree, treeVars, Alive, Starting
  <2>2. Aside(t) BY <1>12, MovesAside DEF AbandonLaunch
  <2> QED BY <2>0, <2>1, <2>2, AsideOwn, AloneOwn
<1>13. CASE AwaitExited(t)
  BY <1>0, <1>13, MovesAside, AsideReap DEF AwaitExited
<1>14. CASE AwaitReady(t)
  BY <1>14, MovesAside, AsideQuiet DEF AwaitReady, treeVars, Alive, Pcs, SlotPcs
<1>15. CASE AwaitTimeout(t)
  <2>1. Aside(t)
    BY <1>15 DEF AwaitTimeout, Aside, OthersStay, Goto, SlotPcs, FlowInv, TypeOK,
                 SupervisorType, ThreadsType
  <2> QED BY <1>15, <2>1, AsideQuiet DEF AwaitTimeout, supVars, records, treeVars, Alive
<1> QED BY <1>1, <1>2, <1>3, <1>4, <1>5, <1>6, <1>7, <1>8, <1>9, <1>10, <1>11, <1>12,
           <1>13, <1>14, <1>15 DEF StartSteps

-----------------------------------------------------------------------------
(* Crashes, operators and the processes themselves.                        *)

\* The end of a controller process keeps OwnCore: its slot goes with its memory.
LEMMA OwnGone ==
    ASSUME OwnInv, NEW c \in Ctrls, ProcessGone(c)
    PROVE  OwnCore'
<1> USE DEF OwnInv, ProcessGone, FlocksReleased, FlowInv, TypeOK, SupervisorType,
            RecordsType, ThreadsType
<1>1. \A d \in Ctrls, e \in Engines : owned'[d][e] # NoLaunch => d # c /\ owned'[d][e] = owned[d][e]
  OBVIOUS
<1>2. Alive' = Alive BY DEF treeVars, Alive
<1>3. ASSUME NEW u \in Threads PROVE ThreadOwn(u)'
  <2>1. CASE Home[u] = c BY <2>1 DEF ThreadOwn, SlotPcs
  <2>2. CASE Home[u] # c
    BY <1>1, <1>2, <2>2 DEF OwnCore, ThreadsOwn, ThreadOwn, NoOwner, Owns, SlotPcs
  <2> QED BY <2>1, <2>2
<1>4. ThreadsOwn' BY <1>3 DEF ThreadsOwn
<1>5. OneOwner' BY <1>1 DEF OwnCore, OneOwner, Owns
<1>6. OwnerKeepsLease' BY <1>1 DEF OwnCore, OwnerKeepsLease, Owns
<1>7. ReceiptCoversTree' BY <1>2 DEF OwnCore, ReceiptCoversTree
<1> QED BY <1>4, <1>5, <1>6, <1>7 DEF OwnCore

\* A step outside the controllers that creates no tree keeps OwnCore.
LEMMA OwnUndisturbed ==
    ASSUME OwnInv, UNCHANGED <<slot, receipt, owned, pc, launch, victim>>,
           Alive' \subseteq Alive
    PROVE  OwnCore'
  BY DEF OwnInv, OwnCore, ThreadsOwn, ThreadOwn, NoOwner, Owns, OneOwner,
         OwnerKeepsLease, ReceiptCoversTree

\* The host, the operators and the clock keep OwnCore.
LEMMA OwnEnvironment ==
    ASSUME OwnInv, Environment \/ UNCHANGED vars
    PROVE  OwnCore'
<1>1. CASE ProcessTreeStep /\ UNCHANGED <<ownerVars, guardVars, supVars, pc, locals>>
  <2>1. Alive' \subseteq Alive
    BY <1>1 DEF ProcessTreeStep, LeaderExits, WorkerForked, WorkersExit, ExternalToggled,
                BackendFinishes, Alive
  <2> QED BY <1>1, <2>1, OwnUndisturbed DEF ownerVars, supVars, records, locals
<1>2. CASE \E c \in Ctrls : Crash(c) BY <1>2, OwnGone DEF Crash
<1>3. CASE \E c \in Ctrls : CooldownExpires(c)
  BY <1>3, OwnUndisturbed DEF CooldownExpires, ownerVars, records, locals, treeVars, Alive
<1>4. CASE OperatorClearsReceipt /\ UNCHANGED <<treeVars, guardVars, supVars, pc, locals>>
  <2> USE <1>4 DEF OperatorClearsReceipt, OwnInv, supVars, records, locals
  <2>1. Alive = {} /\ Alive' = {}
    BY DEF OwnCore, ReceiptCoversTree, treeVars, Alive
  <2>2. NoOwner BY DEF OwnCore, OwnerKeepsLease, NoOwner
  <2>3. NoOwner' BY <2>2 DEF NoOwner, Owns
  <2>4. ASSUME NEW u \in Threads PROVE pc[u] \notin SlotPcs \cup {"verify"}
    BY <2>2 DEF OwnCore, ThreadsOwn, ThreadOwn, NoOwner, FlowInv, Flow, FlowOf, StopPcs
  <2>5. ThreadsOwn' BY <2>4 DEF ThreadsOwn, ThreadOwn, SlotPcs
  <2> QED BY <2>1, <2>3, <2>5 DEF OwnCore, NoOwner, OneOwner, OwnerKeepsLease, ReceiptCoversTree
<1>5. CASE /\ OperatorReconcilesPending
           /\ UNCHANGED <<treeVars, ownerVars, supVars, pc, locals>>
  BY <1>5, OwnUndisturbed DEF ownerVars, supVars, records, locals, treeVars, Alive
<1>6. CASE UNCHANGED vars
  BY <1>6, OwnUndisturbed DEF vars, ownerVars, supVars, records, locals, treeVars, Alive
<1> QED BY <1>1, <1>2, <1>3, <1>4, <1>5, <1>6 DEF Environment

\* OwnInv is inductive.
LEMMA OwnStep == OwnInv /\ [Next]_vars => OwnInv'
<1> SUFFICES ASSUME OwnInv, [Next]_vars PROVE OwnInv' OBVIOUS
<1>1. FlowInv' BY FlowStep DEF OwnInv
<1>2. LockHeld' BY LockStep DEF OwnInv
<1>3. OwnCore'
  <2>1. CASE Environment \/ UNCHANGED vars BY <2>1, OwnEnvironment
  <2>2. CASE \E t \in Threads : ClientCalls(t) \/ LockSupervisor(t) \/ ThreadStep(t)
    <3>1. PICK t \in Threads : ClientCalls(t) \/ LockSupervisor(t) \/ ThreadStep(t) BY <2>2
    <3>2. CASE StopSteps(t) BY <3>2, OwnStop, OwnGone DEF ShutdownDone
    <3> QED BY <3>1, <3>2, OwnCalls, OwnSpeech, OwnStart DEF ThreadStep
  <2> QED BY <2>1, <2>2 DEF Next
<1> QED BY <1>1, <1>2, <1>3 DEF OwnInv

\* OwnInv holds initially.
LEMMA OwnInit == Init => OwnInv
<1> SUFFICES ASSUME Init PROVE OwnInv OBVIOUS
<1> USE DEF Init, SupervisorInit, OwnerInit, ProcessTreeInit
<1>1. FlowInv BY FlowInit
<1>2. LockHeld BY DEF LockHeld, LockPcs, StartPcs, SlotPcs, StopPcs
<1>3. ThreadsOwn BY DEF ThreadsOwn, ThreadOwn, SlotPcs
<1>4. OneOwner /\ ReceiptCoversTree /\ OwnerKeepsLease
  BY DEF OneOwner, ReceiptCoversTree, OwnerKeepsLease, Owns, Alive
<1> QED BY <1>1, <1>2, <1>3, <1>4 DEF OwnInv, OwnCore

\* Every live managed tree is named by the durable owner receipt.
THEOREM ReceiptAlwaysCovers == Spec => []ReceiptCoversTree
<1>1. OwnInv => ReceiptCoversTree BY DEF OwnInv, OwnCore
<1> QED BY <1>1, OwnInit, OwnStep, PTL DEF Spec

\* Whoever lists a process in _owned holds the slot lease and its receipt.
THEOREM OwnerAlwaysLeased == Spec => []OwnerKeepsLease
<1>1. OwnInv => OwnerKeepsLease BY DEF OwnInv, OwnCore
<1> QED BY <1>1, OwnInit, OwnStep, PTL DEF Spec

\* One managed process tree per exclusive group, ever.
THEOREM OneTreeEver == Spec => []OneTree
<1>1. ASSUME ReceiptCoversTree PROVE OneTree
  <2>1. IsFiniteSet({receipt.launch}) /\ Cardinality({receipt.launch}) = 1
    BY FS_Singleton
  <2>2. Cardinality(Alive) <= 1 BY <1>1, <2>1, FS_Subset DEF ReceiptCoversTree
  <2> QED BY <2>2 DEF OneTree
<1> QED BY <1>1, ReceiptAlwaysCovers, PTL

-----------------------------------------------------------------------------
(***************************************************************************)
(* The restart backoff.                                                    *)
(*                                                                         *)
(* The argument.  start() looks at the backoff once, at "decide", and      *)
(* spawns much later, having reaped and stopped every sibling in between.  *)
(* All that time it holds the supervisor lock, so no other thread of its   *)
(* controller records a failure, and what it reaps itself is a sibling.    *)
(***************************************************************************)

\* Between its look at the backoff and Popen, a start passes these points; it
\* stops a sibling through the points stop() uses, with its own op.
StopsSibling(t) ==
    pc[t] \in StopPcs /\ op[t] \in {"start", "speech", "synth"} /\ victim[t] # eng[t]
MayLaunch(t) ==
    \/ pc[t] \in {"enforce", "sibling", "slot", "reconcile", "publish", "popen"}
    \/ StopsSibling(t)

\* What such a thread knows: its engine is in no backoff and no sibling of its.
ThreadBackoff(t) ==
    MayLaunch(t) =>
        /\ eng[t] \notin cooldown[Home[t]]
        /\ pc[t] \in StopPcs \cup {"enforce", "sibling"} => eng[t] \notin todo[t]
        /\ pc[t] = "sibling" => victim[t] # eng[t]

BackoffCore == \A t \in Threads : ThreadBackoff(t)
BackoffInv == FlowInv /\ LockHeld /\ BackoffCore

\* A step of one thread leaves place and locals of the others alone.
OthersWait(t) ==
    \A u \in Threads \ {t} :
        /\ pc'[u] = pc[u] /\ op'[u] = op[u] /\ eng'[u] = eng[u]
        /\ victim'[u] = victim[u] /\ todo'[u] = todo[u]

\* A step of one thread records no failure but of its own controller, and that
\* only under the lock or while the lock is free.
OwnFailures(t) ==
    \/ UNCHANGED cooldown
    \/ /\ rlock[Home[t]] \in {NoOne, t}
       /\ \A c \in Ctrls \ {Home[t]} : cooldown'[c] = cooldown[c]

\* Then the other threads know what they knew.
LEMMA OthersBackoff ==
    ASSUME BackoffInv, NEW t \in Threads, OthersWait(t), OwnFailures(t), ThreadBackoff(t)'
    PROVE  BackoffCore'
<1>1. ASSUME NEW u \in Threads, u # t PROVE ThreadBackoff(u)'
  <2> SUFFICES ASSUME MayLaunch(u)' PROVE ThreadBackoff(u)' BY DEF ThreadBackoff
  <2>1. MayLaunch(u) /\ ThreadBackoff(u)
    BY <1>1 DEF MayLaunch, StopsSibling, OthersWait, BackoffInv, BackoffCore
  <2>2. rlock[Home[u]] = u
    BY <2>1 DEF BackoffInv, LockHeld, MayLaunch, StopsSibling, LockPcs, StartPcs, SlotPcs
  <2>3. cooldown'[Home[u]] = cooldown[Home[u]]
    BY <1>1, <2>2 DEF OwnFailures
  <2> QED BY <1>1, <2>1, <2>3 DEF ThreadBackoff, OthersWait
<1> QED BY <1>1 DEF BackoffCore

\* Exceptions, returns and plain steps concern one thread; the first two leave
\* it where it launches nothing.
LEMMA MovesBackoff ==
    ASSUME FlowInv, NEW t \in Threads
    PROVE  /\ Raise(t) \/ Leave(t) \/ Return(t) => OthersWait(t) /\ ~MayLaunch(t)'
           /\ \A l : Step(t, l) => /\ OthersWait(t)
                                   /\ pc'[t] = l /\ op'[t] = op[t] /\ eng'[t] = eng[t]
                                   /\ victim'[t] = victim[t] /\ todo'[t] = todo[t]
<1> USE DEF FlowInv, TypeOK, SupervisorType, ThreadsType, OthersWait, Goto, locals,
            MayLaunch, StopsSibling, StopPcs
<1>1. Leave(t) => OthersWait(t) /\ ~MayLaunch(t)' BY DEF Leave, ForgetLocals
<1>2. Raise(t) => OthersWait(t) /\ ~MayLaunch(t)' BY <1>1 DEF Raise
<1>3. Return(t) => OthersWait(t) /\ ~MayLaunch(t)' BY <1>1 DEF Return
<1>4. ASSUME NEW l, Step(t, l)
      PROVE  /\ OthersWait(t)
             /\ pc'[t] = l /\ op'[t] = op[t] /\ eng'[t] = eng[t]
             /\ victim'[t] = victim[t] /\ todo'[t] = todo[t]
  BY <1>4 DEF Step
<1> QED BY <1>1, <1>2, <1>3, <1>4

\* An exception or a return keeps BackoffCore, whatever failure it records.
LEMMA EndsBackoff ==
    ASSUME BackoffInv, NEW t \in Threads, Raise(t) \/ Leave(t) \/ Return(t), OwnFailures(t)
    PROVE  BackoffCore'
  BY MovesBackoff, OthersBackoff DEF BackoffInv, ThreadBackoff

\* So does a step to a place where t launches nothing.
LEMMA PassesBackoff ==
    ASSUME BackoffInv, NEW t \in Threads, OwnFailures(t),
           NEW l \in {"decide", "status", "confirm", "await", "abort", "abandon", "lock",
                      "ready", "next", "guard", "admit", "begin", "submit", "wait", "idle"},
           Step(t, l)
    PROVE  BackoffCore'
<1>1. OthersWait(t) /\ pc'[t] = l BY MovesBackoff DEF BackoffInv
<1>2. ~MayLaunch(t)' BY <1>1 DEF MayLaunch, StopsSibling, StopPcs
<1> QED BY <1>1, <1>2, OthersBackoff DEF ThreadBackoff

\* And a step from one of its points to the next, if it records no failure.
LEMMA GoesOnBackoff ==
    ASSUME BackoffInv, NEW t \in Threads, NEW l, Step(t, l),
           \/ pc[t] \in StopPcs /\ l \in StopPcs
           \/ MayLaunch(t) /\ l \in {"enforce", "reconcile", "publish", "popen"}
           \/ MayLaunch(t) /\ l \in StopPcs /\ pc[t] = "sibling",
           l = "enforce" => pc[t] \in StopPcs \cup {"sibling"},
           OwnFailures(t), eng[t] \in cooldown'[Home[t]] => eng[t] \in cooldown[Home[t]] \/ ~MayLaunch(t)
    PROVE  BackoffCore'
<1>1. /\ OthersWait(t)
      /\ pc'[t] = l /\ op'[t] = op[t] /\ eng'[t] = eng[t]
      /\ victim'[t] = victim[t] /\ todo'[t] = todo[t]
  BY MovesBackoff DEF BackoffInv
<1>2. ThreadBackoff(t) BY DEF BackoffInv, BackoffCore
<1>3. ThreadBackoff(t)'
  <2> SUFFICES ASSUME MayLaunch(t)' PROVE ThreadBackoff(t)' BY DEF ThreadBackoff
  <2>1. MayLaunch(t) BY <1>1 DEF MayLaunch, StopsSibling, StopPcs
  <2> QED BY <1>1, <1>2, <2>1 DEF ThreadBackoff, StopPcs
<1> QED BY <1>1, <1>3, OthersBackoff

\* What _clean_exited and _record_failure may do to the backoffs.
LEMMA FailureOf ==
    ASSUME FlowInv, NEW t \in Threads, NEW e \in Engines,
           CleanExited(Home[t], e) \/ RecordFailure(Home[t], e),
           rlock[Home[t]] \in {NoOne, t}
    PROVE  /\ OwnFailures(t)
           /\ cooldown'[Home[t]] \subseteq cooldown[Home[t]] \cup {e}
<1> USE DEF FlowInv, TypeOK, SupervisorType, RecordsType
<1>1. Home[t] \in Ctrls OBVIOUS
<1>2. RecordFailure(Home[t], e) =>
        /\ \A c \in Ctrls \ {Home[t]} : cooldown'[c] = cooldown[c]
        /\ cooldown'[Home[t]] \subseteq cooldown[Home[t]] \cup {e}
  BY <1>1 DEF RecordFailure
<1> QED BY <1>1, <1>2 DEF CleanExited, OwnFailures

\* Every step of start() keeps BackoffCore.
LEMMA StartBackoff ==
    ASSUME BackoffInv, NEW t \in Threads, StartSteps(t)
    PROVE  BackoffCore'
<1> USE DEF StartPcs, SlotPcs
<1>1. pc[t] \in LockPcs /\ rlock[Home[t]] = t /\ eng[t] \in Engines
  <2>1. pc[t] \in LockPcs \ {"next", "guard"} /\ pc[t] \notin StopPcs
    BY DEF LockPcs, StopPcs, StartSteps, StartReap, StartDecide, EnforceReap, EnforceSibling,
           EnforceDone, TakeSlot, ReconcilePriorOwner, PublishIntent, SpawnEngine,
           ConfirmLaunch, AbortLaunch, AbandonLaunch, AwaitExited, AwaitReady, AwaitTimeout
  <2> QED BY <2>1 DEF BackoffInv, LockHeld, FlowInv, Flow, FlowOf, LockPcs
<1>2. FlowInv /\ ThreadBackoff(t) BY DEF BackoffInv, BackoffCore
<1>3. ASSUME RecordFailure(Home[t], eng[t]) PROVE OwnFailures(t)
  BY <1>1, <1>2, <1>3, FailureOf
<1>4. CASE StartReap(t)
  BY <1>1, <1>2, <1>4, FailureOf, PassesBackoff DEF StartReap
<1>5. CASE StartDecide(t)
  <2>1. OwnFailures(t) BY <1>5 DEF StartDecide, OwnFailures
  <2>2. CASE Raise(t) \/ Step(t, "status") BY <2>1, <2>2, EndsBackoff, PassesBackoff
  <2>3. CASE ~(Raise(t) \/ Step(t, "status"))
    <3>1. /\ eng[t] \notin cooldown[Home[t]] /\ Goto(t, "enforce")
          /\ todo' = [todo EXCEPT ![t] = Engines \ {eng[t]}]
          /\ UNCHANGED <<op, eng, victim, cooldown>>
      BY <1>5, <2>3 DEF StartDecide, InBackoff
    <3>2. ThreadBackoff(t)' /\ OthersWait(t)
      BY <1>2, <3>1 DEF ThreadBackoff, OthersWait, Goto, FlowInv, TypeOK, SupervisorType,
         ThreadsType
    <3> QED BY <2>1, <3>2, OthersBackoff
  <2> QED BY <2>2, <2>3
<1>6. CASE EnforceReap(t)
  <2>1. PICK s \in todo[t] :
          /\ CleanExited(Home[t], s)
          /\ victim' = [victim EXCEPT ![t] = s]
          /\ todo' = [todo EXCEPT ![t] = @ \ {s}]
    BY <1>6 DEF EnforceReap
  <2>2. eng[t] \notin cooldown[Home[t]] /\ eng[t] \notin todo[t] /\ s \in Engines
    BY <1>2, <1>6 DEF EnforceReap, ThreadBackoff, MayLaunch, FlowInv, TypeOK,
       SupervisorType, ThreadsType
  <2>3. OwnFailures(t) /\ eng[t] \notin cooldown'[Home[t]]
    BY <1>1, <1>2, <2>1, <2>2, FailureOf
  <2>4. ThreadBackoff(t)' /\ OthersWait(t)
    BY <1>2, <1>6, <2>1, <2>2, <2>3 DEF EnforceReap, ThreadBackoff, OthersWait, Goto,
       FlowInv, TypeOK, SupervisorType, ThreadsType
  <2> QED BY <2>3, <2>4, OthersBackoff
<1>7. CASE EnforceSibling(t)
  <2>1. OwnFailures(t) /\ UNCHANGED cooldown /\ MayLaunch(t) /\ pc[t] = "sibling"
    BY <1>7 DEF EnforceSibling, OwnFailures, MayLaunch
  <2>2. Raise(t) \/ Step(t, "stopping") \/ Step(t, "enforce") BY <1>7 DEF EnforceSibling
  <2> QED BY <2>1, <2>2, EndsBackoff, GoesOnBackoff DEF StopPcs
<1>8. CASE EnforceDone(t)
  <2>1. ThreadBackoff(t)' /\ OthersWait(t) /\ OwnFailures(t)
    BY <1>2, <1>8 DEF EnforceDone, supVars, ThreadBackoff, MayLaunch, StopsSibling, StopPcs,
       OthersWait, OwnFailures, Goto, FlowInv, TypeOK, SupervisorType, ThreadsType
  <2> QED BY <2>1, OthersBackoff
<1>9. CASE TakeSlot(t)
  <2>1. /\ OwnFailures(t) /\ UNCHANGED cooldown /\ MayLaunch(t)
        /\ Raise(t) \/ Step(t, "reconcile")
    BY <1>9 DEF TakeSlot, OwnFailures, MayLaunch
  <2> QED BY <2>1, EndsBackoff, GoesOnBackoff
<1>10. CASE ReconcilePriorOwner(t)
  <2>1. /\ OwnFailures(t) /\ UNCHANGED cooldown /\ MayLaunch(t)
        /\ Raise(t) \/ Step(t, "publish")
    BY <1>10 DEF ReconcilePriorOwner, OwnFailures, MayLaunch
  <2> QED BY <2>1, EndsBackoff, GoesOnBackoff
<1>11. CASE PublishIntent(t)
  <2>1. CASE Raise(t) /\ RecordFailure(Home[t], eng[t]) BY <1>3, <2>1, EndsBackoff
  <2>2. CASE ~(Raise(t) /\ RecordFailure(Home[t], eng[t]))
    <3>1. Goto(t, "popen") /\ UNCHANGED <<cooldown, op, eng, victim, todo>>
      BY <1>11, <2>2 DEF PublishIntent
    <3>2. ThreadBackoff(t)' /\ OthersWait(t) /\ OwnFailures(t)
      BY <1>2, <1>11, <3>1 DEF PublishIntent, ThreadBackoff, MayLaunch, StopsSibling, StopPcs,
         OthersWait, OwnFailures, Goto, FlowInv, TypeOK, SupervisorType, ThreadsType
    <3> QED BY <3>2, OthersBackoff
  <2> QED BY <2>1, <2>2
<1>12. CASE SpawnEngine(t)
  BY <1>3, <1>12, EndsBackoff, PassesBackoff DEF SpawnEngine, OwnFailures
<1>13. CASE ConfirmLaunch(t)
  BY <1>13, PassesBackoff DEF ConfirmLaunch, OwnFailures
<1>14. CASE AbortLaunch(t)
  BY <1>14, PassesBackoff DEF AbortLaunch, OwnFailures
<1>15. CASE AbandonLaunch(t)
  BY <1>3, <1>15, EndsBackoff DEF AbandonLaunch, OwnFailures
<1>16. CASE AwaitExited(t)
  BY <1>1, <1>2, <1>16, FailureOf, EndsBackoff DEF AwaitExited
<1>17. CASE AwaitReady(t)
  BY <1>17, PassesBackoff DEF AwaitReady, OwnFailures
<1>18. CASE AwaitTimeout(t)
  <2>1. ~MayLaunch(t)' /\ OthersWait(t) /\ OwnFailures(t)
    BY <1>2, <1>18 DEF AwaitTimeout, supVars, MayLaunch, StopsSibling, StopPcs,
       OthersWait, OwnFailures, Goto, FlowInv, TypeOK, SupervisorType, ThreadsType
  <2> QED BY <2>1, OthersBackoff DEF ThreadBackoff
<1> QED BY <1>4, <1>5, <1>6, <1>7, <1>8, <1>9, <1>10, <1>11, <1>12, <1>13, <1>14, <1>15,
           <1>16, <1>17, <1>18 DEF StartSteps

\* So does every step of _stop_owned and of the operations that call it.
LEMMA StopBackoff ==
    ASSUME BackoffInv, NEW t \in Threads, StopSteps(t), ~ShutdownDone(t)
    PROVE  BackoffCore'
<1>1. ASSUME pc[t] \in StopPcs
      PROVE  rlock[Home[t]] = t /\ victim[t] \in Engines
  BY <1>1 DEF BackoffInv, LockHeld, LockPcs, FlowInv, Flow, FlowOf
<1>2. FlowInv /\ ThreadBackoff(t) BY DEF BackoffInv, BackoffCore
<1>3. CASE StopReap(t)
  <2>1. pc[t] \in StopPcs BY <1>3 DEF StopReap, StopPcs
  <2>2. OwnFailures(t) /\ cooldown'[Home[t]] \subseteq cooldown[Home[t]] \cup {victim[t]}
    BY <1>1, <1>2, <1>3, <2>1, FailureOf DEF StopReap
  <2>3. MayLaunch(t) => eng[t] # victim[t] BY <2>1 DEF MayLaunch, StopsSibling, StopPcs
  <2> QED BY <1>3, <2>1, <2>2, <2>3, GoesOnBackoff DEF StopReap, StopPcs
<1>4. CASE StopNothing(t)
  BY <1>4, GoesOnBackoff DEF StopNothing, OwnFailures, StopPcs
<1>5. CASE StopSignal(t)
  BY <1>5, GoesOnBackoff, EndsBackoff DEF StopSignal, OwnFailures, StopPcs
<1>6. CASE StopVerify(t)
  BY <1>6, GoesOnBackoff, EndsBackoff DEF StopVerify, OwnFailures, StopPcs
<1>7. CASE StopReturns(t)
  BY <1>7, EndsBackoff DEF StopReturns, OwnFailures
<1>8. CASE SiblingStopped(t)
  BY <1>8, GoesOnBackoff DEF SiblingStopped, OwnFailures, StopPcs, MayLaunch, StopsSibling
<1>9. CASE StartupTimedOut(t)
  <2>1. pc[t] \in StopPcs /\ victim[t] = eng[t] BY <1>9 DEF StartupTimedOut, StopPcs
  <2> QED BY <1>1, <1>2, <1>9, <2>1, FailureOf, EndsBackoff DEF StartupTimedOut
<1>10. CASE RestartContinues(t)
  <2>1. pc[t] \in StopPcs BY <1>10 DEF RestartContinues, StopPcs
  <2>2. CASE Raise(t) /\ UNCHANGED cooldown BY <2>2, EndsBackoff DEF OwnFailures
  <2>3. CASE ~(Raise(t) /\ UNCHANGED cooldown)
    <3>1. /\ cooldown' = [cooldown EXCEPT ![Home[t]] = @ \ {eng[t]}]
          /\ op' = [op EXCEPT ![t] = "start"]
          /\ victim' = [victim EXCEPT ![t] = NoEngine]
          /\ Goto(t, "reap") /\ UNCHANGED <<eng, todo>>
      BY <1>10, <2>3 DEF RestartContinues
    <3>2. OwnFailures(t)
      BY <1>1, <1>2, <2>1, <3>1 DEF OwnFailures, FlowInv, TypeOK, SupervisorType, RecordsType
    <3>3. ~MayLaunch(t)' /\ OthersWait(t)
      BY <1>2, <3>1 DEF MayLaunch, StopsSibling, StopPcs, OthersWait, Goto, FlowInv, TypeOK,
         SupervisorType, ThreadsType
    <3> QED BY <3>2, <3>3, OthersBackoff DEF ThreadBackoff
  <2> QED BY <2>2, <2>3
<1>11. CASE ShutdownNext(t)
  <2>1. ~MayLaunch(t)' /\ OthersWait(t) /\ OwnFailures(t)
    BY <1>2, <1>11 DEF ShutdownNext, supVars, MayLaunch, StopsSibling, StopPcs,
       OthersWait, OwnFailures, Goto, FlowInv, TypeOK, SupervisorType, ThreadsType
  <2> QED BY <2>1, OthersBackoff DEF ThreadBackoff
<1> QED BY <1>3, <1>4, <1>5, <1>6, <1>7, <1>8, <1>9, <1>10, <1>11 DEF StopSteps

\* So do requests, calls and waiting for locks.
LEMMA CallBackoff ==
    ASSUME BackoffInv, NEW t \in Threads,
           \/ ClientCalls(t) \/ LockSupervisor(t) \/ GuardGroup(t) \/ GuardRefused(t)
           \/ Status(t) \/ SpeechSteps(t)
    PROVE  BackoffCore'
<1>1. FlowInv BY DEF BackoffInv
<1> DEFINE Aloof == ~MayLaunch(t)' /\ OthersWait(t) /\ OwnFailures(t)
<1>2. Aloof => BackoffCore' BY OthersBackoff DEF ThreadBackoff
<1>3. CASE ClientCalls(t)
  <2>1. PICK o \in OpNames, e \in Engines \cup {NoEngine},
             l \in {"lock", "status", "ready"} : Call(t, o, e, l)
    BY <1>3 DEF OpNames, ClientCalls, CallStart, CallStop, CallRestart, CallStatus,
                CallSpeech, CallShutdown
  <2>2. Aloof
    BY <1>1, <2>1 DEF Call, supVars, MayLaunch, StopsSibling, StopPcs, OthersWait,
       OwnFailures, Goto, FlowInv, TypeOK, SupervisorType, ThreadsType
  <2> QED BY <1>2, <2>2
<1>4. CASE LockSupervisor(t)
  <2>1. PICK l \in {"next", "guard"} : Goto(t, l) BY <1>4 DEF LockSupervisor
  <2>2. Aloof
    BY <1>1, <1>4, <2>1 DEF LockSupervisor, MayLaunch, StopsSibling, StopPcs, OthersWait,
       OwnFailures, Goto, FlowInv, TypeOK, SupervisorType, ThreadsType
  <2> QED BY <1>2, <2>2
<1>5. CASE GuardGroup(t)
  <2>1. op[t] \in {"stop", "restart", "shutdown"} \/ pc'[t] = "reap"
    BY <1>1, <1>5 DEF GuardGroup, Goto, FlowInv, TypeOK, SupervisorType, ThreadsType
  <2>2. Aloof
    BY <1>1, <1>5, <2>1 DEF GuardGroup, supVars, MayLaunch, StopsSibling, StopPcs, OthersWait,
       OwnFailures, Goto, FlowInv, TypeOK, SupervisorType, ThreadsType
  <2> QED BY <1>2, <2>2
<1>6. CASE GuardRefused(t)
  BY <1>6, EndsBackoff DEF GuardRefused, OwnFailures
<1>7. CASE Status(t)
  <2>1. eng[t] \in Engines BY <1>1, <1>7 DEF Status, FlowInv, Flow, FlowOf, StopPcs
  <2>2. OwnFailures(t) BY <1>1, <1>7, <2>1, FailureOf DEF Status, OwnFailures
  <2> QED BY <1>7, <2>2, EndsBackoff DEF Status
<1>8. CASE SpeechSteps(t)
  <2>1. OwnFailures(t)
    BY <1>8 DEF SpeechSteps, EnsureReady, AdmitInference, Begin, Submit, RefuseLocally,
       Answered, OutcomeUnknown, OwnFailures
  <2>2. CASE RefuseLocally(t) \/ Answered(t)
    <3>1. Aloof
      BY <1>1, <2>1, <2>2 DEF RefuseLocally, Answered, ForgetLocals, MayLaunch, StopsSibling,
         StopPcs, OthersWait, Goto, FlowInv, TypeOK, SupervisorType, ThreadsType
    <3> QED BY <1>2, <3>1
  <2>3. ASSUME NEW l \in {"ready", "submit"}, Goto(t, l), UNCHANGED locals
        PROVE  Aloof
    BY <1>1, <2>1, <2>3 DEF locals, MayLaunch, StopsSibling, StopPcs, OthersWait, Goto,
       FlowInv, TypeOK, SupervisorType, ThreadsType
  <2>4. CASE AdmitInference(t) \/ Begin(t)
    BY <1>2, <2>1, <2>3, <2>4, EndsBackoff DEF AdmitInference, Begin
  <2>5. CASE EnsureReady(t) \/ Submit(t) \/ OutcomeUnknown(t)
    BY <2>1, <2>5, PassesBackoff, EndsBackoff DEF EnsureReady, Submit, OutcomeUnknown
  <2> QED BY <1>8, <2>2, <2>4, <2>5 DEF SpeechSteps
<1> QED BY <1>3, <1>4, <1>5, <1>6, <1>7, <1>8

\* So does the end of a controller process, and whatever happens outside.
LEMMA EnvironmentBackoff ==
    ASSUME BackoffInv,
           \/ \E c \in Ctrls : ProcessGone(c)
           \/ Environment \/ UNCHANGED vars
    PROVE  BackoffCore'
<1>1. ASSUME NEW c \in Ctrls, ProcessGone(c), NEW u \in Threads PROVE ThreadBackoff(u)'
  <2> USE <1>1 DEF ProcessGone, BackoffInv, BackoffCore, FlowInv, TypeOK, SupervisorType,
               RecordsType, ThreadsType
  <2>1. CASE Home[u] = c BY <2>1 DEF ThreadBackoff, MayLaunch, StopsSibling, StopPcs
  <2>2. CASE Home[u] # c BY <2>2 DEF ThreadBackoff, MayLaunch, StopsSibling
  <2> QED BY <2>1, <2>2
<1>2. ASSUME UNCHANGED <<pc, op, eng, victim, todo>>,
             \A c \in Ctrls : cooldown'[c] \subseteq cooldown[c],
             NEW u \in Threads
      PROVE  ThreadBackoff(u)'
  BY <1>2 DEF BackoffInv, BackoffCore, ThreadBackoff, MayLaunch, StopsSibling
<1>3. CASE \E c \in Ctrls : ProcessGone(c) BY <1>1, <1>3 DEF BackoffCore
<1>4. CASE \E c \in Ctrls : CooldownExpires(c)
  <2>1. \A c \in Ctrls : cooldown'[c] \subseteq cooldown[c]
    BY <1>4 DEF CooldownExpires, BackoffInv, FlowInv, TypeOK, SupervisorType, RecordsType
  <2> QED BY <1>2, <1>4, <2>1 DEF CooldownExpires, locals, BackoffCore
<1>5. CASE UNCHANGED <<supVars, pc, locals>>
  BY <1>2, <1>5 DEF supVars, locals, BackoffCore
<1>6. CASE UNCHANGED vars BY <1>5, <1>6 DEF vars
<1> QED BY <1>3, <1>4, <1>5, <1>6 DEF Environment, Crash

\* BackoffInv is inductive.
LEMMA BackoffStep == BackoffInv /\ [Next]_vars => BackoffInv'
<1> SUFFICES ASSUME BackoffInv, [Next]_vars PROVE BackoffInv' OBVIOUS
<1>1. FlowInv' /\ LockHeld' BY FlowStep, LockStep DEF BackoffInv
<1>2. BackoffCore'
  <2>1. CASE Environment \/ UNCHANGED vars BY <2>1, EnvironmentBackoff
  <2>2. CASE \E t \in Threads : ClientCalls(t) \/ LockSupervisor(t) \/ ThreadStep(t)
    <3>1. PICK t \in Threads : ClientCalls(t) \/ LockSupervisor(t) \/ ThreadStep(t) BY <2>2
    <3>2. CASE ShutdownDone(t) BY <3>2, EnvironmentBackoff DEF ShutdownDone
    <3>3. CASE ~ShutdownDone(t)
      BY <3>1, <3>3, StartBackoff, StopBackoff, CallBackoff DEF ThreadStep
    <3> QED BY <3>2, <3>3
  <2> QED BY <2>1, <2>2 DEF Next
<1> QED BY <1>1, <1>2 DEF BackoffInv

\* A tree comes to life only in Popen.
LEMMA OnlyPopen ==
    ASSUME [Next]_vars, NEW n \in leaders' \ leaders
    PROVE  \E t \in Threads : pc[t] = "popen" /\ launch[t] = n
<1>1. ASSUME leaders' \subseteq leaders PROVE FALSE BY <1>1
<1>2. CASE Environment \/ UNCHANGED vars
  BY <1>1, <1>2 DEF Environment, ProcessTreeStep, LeaderExits, WorkerForked, WorkersExit,
     ExternalToggled, BackendFinishes, Crash, ProcessGone, CooldownExpires, vars, treeVars
<1>3. ASSUME NEW t \in Threads, ClientCalls(t) \/ LockSupervisor(t) PROVE FALSE
  BY <1>1, <1>3 DEF ClientCalls, CallStart, CallStop, CallRestart, CallStatus, CallSpeech,
         CallShutdown, Call, LockSupervisor, treeVars
<1>4. ASSUME NEW t \in Threads, StartSteps(t) PROVE pc[t] = "popen" /\ launch[t] = n
  <2>1. SpawnEngine(t)
    BY <1>1, <1>4 DEF StartSteps, StartReap, StartDecide, EnforceReap, EnforceSibling,
           EnforceDone, TakeSlot, ReconcilePriorOwner, PublishIntent, ConfirmLaunch,
           AbortLaunch, SignalGroup, AbandonLaunch, AwaitExited, AwaitReady, AwaitTimeout,
           treeVars
  <2> QED BY <1>1, <2>1 DEF SpawnEngine, Spawn, treeVars
<1>5. ASSUME NEW t \in Threads, StopSteps(t) PROVE FALSE
  BY <1>1, <1>5 DEF StopSteps, StopReap, StopNothing, StopSignal, SignalGroup, StopVerify,
         StopReturns, SiblingStopped, StartupTimedOut, RestartContinues, ShutdownNext,
         ShutdownDone, ProcessGone, treeVars
<1>6. ASSUME NEW t \in Threads, SpeechSteps(t) PROVE FALSE
  BY <1>1, <1>6 DEF SpeechSteps, EnsureReady, AdmitInference, Begin, Submit, RefuseLocally,
         Answered, OutcomeUnknown, treeVars
<1>7. ASSUME NEW t \in Threads, GuardGroup(t) \/ GuardRefused(t) \/ Status(t) PROVE FALSE
  BY <1>1, <1>7 DEF GuardGroup, GuardRefused, Status, treeVars
<1> QED BY <1>2, <1>3, <1>4, <1>5, <1>6, <1>7 DEF Next, ThreadStep

\* No controller launches an engine inside its restart backoff, however long
\* the start was busy with siblings since it looked.
THEOREM BackoffAlwaysRespected == Spec => BackoffRespected
<1> DEFINE A == \A n \in Launches : n \in leaders' \ leaders =>
                  \E t \in Threads : /\ pc[t] = "popen"
                                     /\ launch[t] = n
                                     /\ eng[t] \notin cooldown[Home[t]]
<1>1. Init => BackoffInv
  <2> SUFFICES ASSUME Init PROVE BackoffInv OBVIOUS
  <2>1. FlowInv /\ LockHeld BY OwnInit DEF OwnInv
  <2>2. BackoffCore
    BY DEF Init, SupervisorInit, BackoffCore, ThreadBackoff, MayLaunch, StopsSibling, StopPcs
  <2> QED BY <2>1, <2>2 DEF BackoffInv
<1>2. ASSUME BackoffInv, [Next]_vars PROVE A
  BY <1>2, OnlyPopen DEF BackoffInv, BackoffCore, ThreadBackoff, MayLaunch
<1>3. BackoffInv /\ [Next]_vars => [A]_vars BY <1>2
<1> QED BY <1>1, <1>3, BackoffStep, PTL DEF Spec, BackoffRespected

-----------------------------------------------------------------------------
(***************************************************************************)
(* The inference guard, for any number of controllers, threads, engines    *)
(* and launches: one job at a time, always with durable evidence, never    *)
(* under a signal; and from these the refinement of GpuGroup.              *)
(*                                                                         *)
(* The argument.  A thread at a guarded program point holds the activity   *)
(* lock, and while a thread holds it the pending receipt is absent, except *)
(* between begin_inference and finish_inference of that very thread.       *)
(* Every job belongs to the thread the receipt names.  So a thread at a    *)
(* lifecycle point sees no receipt, hence no job; and a thread about to    *)
(* submit has just written the first receipt, hence there is no job yet.   *)
(***************************************************************************)


\* Where a thread is inside runtime_group_guard.
GuardPcs == StartPcs \cup SlotPcs \cup StopPcs \cup InferPcs \cup {"slot", "await"}
InGuard(t) == pc[t] \in GuardPcs \/ (op[t] = "synth" /\ pc[t] # "admit")

\* Between begin_inference and finish_inference.
Asked(t) == pc[t] \in {"submit", "wait"}

\* What a thread knows about the guard at its program point.
ThreadGuard(t) ==
    /\ InGuard(t) => activity = t
    /\ activity = t => pending = IF Asked(t) THEN t ELSE NoOne
    /\ pc[t] = "submit" => jobs = {}

ThreadsGuard == \A t \in Threads : ThreadGuard(t)

\* At most one job, of the thread the receipt names.
NamedJob ==
    /\ \A j \in jobs : j[1] = pending
    /\ \A j, k \in jobs : j = k

GuardCore == ThreadsGuard /\ NamedJob

\* The inductive invariant for admission.
AdmitInv == OwnInv /\ GuardCore

\* A step of one thread leaves the place and operation of the others alone.
PlacesStay(t) == \A u \in Threads \ {t} : pc'[u] = pc[u] /\ op'[u] = op[u]

-----------------------------------------------------------------------------
(* The ways a step can treat the guard.                                    *)

\* The guard, the receipt and the jobs belong to the holder: the other threads
\* keep what they know.
LEMMA OthersGuard ==
    ASSUME AdmitInv, NEW t \in Threads, PlacesStay(t),
           activity' = activity \/ (activity = NoOne /\ activity' = t)
                                \/ (activity = t /\ activity' = NoOne),
           pending' = pending \/ activity = t,
           jobs' = jobs \/ activity = t
    PROVE  \A u \in Threads \ {t} : ThreadGuard(u)'
<1> SUFFICES ASSUME NEW u \in Threads \ {t} PROVE ThreadGuard(u)' OBVIOUS
<1>1. ThreadGuard(u) /\ t # NoOne /\ u # NoOne BY DEF AdmitInv, GuardCore, ThreadsGuard
<1>2. pc'[u] = pc[u] /\ op'[u] = op[u] BY DEF PlacesStay
<1>3. InGuard(u)' <=> InGuard(u) BY <1>2 DEF InGuard
<1>4. Asked(u)' <=> Asked(u) BY <1>2 DEF Asked
<1>5. activity' = u <=> activity = u BY <1>1
<1>6. activity = u => pending' = pending /\ jobs' = jobs BY <1>1
<1>7. pc[u] = "submit" => InGuard(u) BY DEF InGuard, GuardPcs, InferPcs
<1> QED BY <1>1, <1>2, <1>3, <1>4, <1>5, <1>6, <1>7 DEF ThreadGuard

\* A step inside the guard, or wholly outside it.
LEMMA GuardStays ==
    ASSUME AdmitInv, NEW t \in Threads, PlacesStay(t), UNCHANGED <<guardVars, jobs>>,
           InGuard(t)' => InGuard(t), Asked(t)' <=> Asked(t), pc'[t] # "submit"
    PROVE  GuardCore'
<1>1. UNCHANGED <<activity, pending, jobs>> BY DEF guardVars
<1>2. ThreadGuard(t) BY DEF AdmitInv, GuardCore, ThreadsGuard
<1>3. ThreadGuard(t)' BY <1>1, <1>2 DEF ThreadGuard
<1>4. NamedJob' BY <1>1 DEF AdmitInv, GuardCore, NamedJob
<1> QED BY <1>1, <1>3, <1>4, OthersGuard DEF GuardCore, ThreadsGuard

\* A step that leaves the guard, whatever becomes of the receipt.
LEMMA GuardLeft ==
    ASSUME AdmitInv, NEW t \in Threads, PlacesStay(t), LeaveGuard(t), UNCHANGED jobs,
           ~InGuard(t)', pending' = pending \/ (activity = t /\ jobs = {})
    PROVE  GuardCore'
<1>1. activity' = IF activity = t THEN NoOne ELSE activity BY DEF LeaveGuard
<1>2. t # NoOne OBVIOUS
<1>3. pc'[t] # "submit" BY DEF InGuard, GuardPcs, InferPcs
<1>4. ThreadGuard(t)' BY <1>1, <1>2, <1>3 DEF ThreadGuard
<1>5. NamedJob' BY DEF AdmitInv, GuardCore, NamedJob
<1> QED BY <1>1, <1>4, <1>5, OthersGuard DEF GuardCore, ThreadsGuard

\* A step that enters the guard finds no receipt.
LEMMA GuardEntered ==
    ASSUME AdmitInv, NEW t \in Threads, PlacesStay(t), EnterGuard(t), UNCHANGED jobs,
           ~Asked(t)'
    PROVE  GuardCore'
<1>1. activity = NoOne /\ activity' = t /\ pending = NoOne /\ pending' = NoOne /\ t # NoOne
  BY DEF EnterGuard
<1>2. ThreadGuard(t)' BY <1>1 DEF ThreadGuard, Asked
<1>3. NamedJob' BY DEF AdmitInv, GuardCore, NamedJob, EnterGuard
<1> QED BY <1>1, <1>2, <1>3, OthersGuard DEF GuardCore, ThreadsGuard

\* An exception leaves the guard and the receipt stays.
LEMMA RaiseGuard ==
    ASSUME AdmitInv, NEW t \in Threads, Raise(t), UNCHANGED jobs
    PROVE  GuardCore'
<1> USE DEF AdmitInv, OwnInv, FlowInv, TypeOK, SupervisorType, ThreadsType
<1>1. LeaveGuard(t) /\ pending' = pending BY DEF Raise, Leave
<1>2. PlacesStay(t) BY DEF Raise, Leave, Goto, ForgetLocals, PlacesStay, locals
<1>3. ~InGuard(t)'
  BY DEF Raise, Leave, Goto, ForgetLocals, locals, InGuard, GuardPcs, StartPcs, SlotPcs,
         StopPcs, InferPcs
<1> QED BY <1>1, <1>2, <1>3, GuardLeft

\* A step of the program counter alone.
LEMMA StepGuard ==
    ASSUME AdmitInv, NEW t \in Threads, NEW l \in Pcs, Step(t, l), UNCHANGED jobs,
           l \in GuardPcs => InGuard(t), ~Asked(t), l \notin {"submit", "wait", "admit"},
           pc[t] # "admit"
    PROVE  GuardCore'
<1> USE DEF AdmitInv, OwnInv, FlowInv, TypeOK, SupervisorType, ThreadsType
<1>1. /\ pc'[t] = l /\ op'[t] = op[t] /\ UNCHANGED guardVars
      /\ PlacesStay(t)
  BY DEF Step, Goto, PlacesStay, locals
<1>2. InGuard(t)' => InGuard(t) BY <1>1 DEF InGuard
<1>3. ~Asked(t)' /\ pc'[t] # "submit" BY <1>1 DEF Asked
<1> QED BY <1>1, <1>2, <1>3, GuardStays

\* The return of status(): out of the guard, except inside synthesize.
LEMMA ReturnGuard ==
    ASSUME AdmitInv, NEW t \in Threads, Return(t), UNCHANGED jobs, pc[t] = "status"
    PROVE  GuardCore'
<1> USE DEF AdmitInv, OwnInv, FlowInv, TypeOK, SupervisorType, ThreadsType
<1>1. CASE op[t] = "synth"
  <2>1. /\ PlacesStay(t) /\ pc'[t] = "begin" /\ UNCHANGED guardVars
    BY <1>1 DEF Return, Goto, PlacesStay, locals
  <2>2. InGuard(t) BY <1>1 DEF InGuard
  <2>3. ~Asked(t) /\ ~Asked(t)' BY <2>1 DEF Asked
  <2> QED BY <2>1, <2>2, <2>3, GuardStays
<1>2. CASE op[t] # "synth"
  <2>1. LeaveGuard(t) /\ pending' = pending BY <1>2 DEF Return, Leave
  <2>2. PlacesStay(t) BY <1>2 DEF Return, Leave, Goto, ForgetLocals, PlacesStay
  <2>3. ~InGuard(t)'
    BY <1>2 DEF Return, Leave, Goto, ForgetLocals, InGuard, GuardPcs, StartPcs, SlotPcs,
                StopPcs, InferPcs, OpNames
  <2> QED BY <2>1, <2>2, <2>3, GuardLeft
<1> QED BY <1>1, <1>2

-----------------------------------------------------------------------------
(* The operations.                                                         *)

\* A client call is made outside the guard.
LEMMA CallGuard ==
    ASSUME AdmitInv, NEW t \in Threads, ClientCalls(t)
    PROVE  GuardCore'
<1> USE DEF AdmitInv, OwnInv, FlowInv, TypeOK, SupervisorType, ThreadsType
<1>1. PICK o \in OpNames \ {"none", "synth"}, e \in Engines \cup {NoEngine},
           l \in {"lock", "status", "ready"} : Call(t, o, e, l)
  BY DEF ClientCalls, CallStart, CallStop, CallRestart, CallStatus, CallSpeech,
         CallShutdown, OpNames
<1>2. /\ PlacesStay(t) /\ pc[t] = "idle" /\ pc'[t] = l /\ op'[t] = o
      /\ UNCHANGED <<guardVars, jobs>>
  BY <1>1 DEF Call, Goto, PlacesStay, treeVars
<1>3. ~InGuard(t)'
  BY <1>2 DEF InGuard, GuardPcs, StartPcs, SlotPcs, StopPcs, InferPcs
<1>4. ~Asked(t) /\ ~Asked(t)' BY <1>2 DEF Asked
<1> QED BY <1>2, <1>3, <1>4, GuardStays

\* Taking the supervisor lock, entering the group guard and status().
LEMMA EntryGuard ==
    ASSUME AdmitInv, NEW t \in Threads,
           LockSupervisor(t) \/ GuardGroup(t) \/ GuardRefused(t) \/ Status(t)
    PROVE  GuardCore'
<1> USE DEF AdmitInv, OwnInv, FlowInv, TypeOK, SupervisorType, ThreadsType
<1>1. CASE LockSupervisor(t)
  <2>1. /\ PlacesStay(t) /\ pc[t] = "lock" /\ pc'[t] \in {"next", "guard"} /\ op'[t] = op[t]
        /\ UNCHANGED <<guardVars, jobs>>
    BY <1>1 DEF LockSupervisor, Goto, PlacesStay, treeVars
  <2>2. InGuard(t)' => InGuard(t)
    BY <2>1 DEF InGuard, GuardPcs, StartPcs, SlotPcs, StopPcs, InferPcs
  <2>3. ~Asked(t) /\ ~Asked(t)' BY <2>1 DEF Asked
  <2> QED BY <2>1, <2>2, <2>3, GuardStays
<1>2. CASE GuardGroup(t)
  <2>1. /\ PlacesStay(t) /\ pc[t] = "guard" /\ pc'[t] \in {"stopping", "reap"}
        /\ op'[t] = op[t] /\ UNCHANGED jobs
    BY <1>2 DEF GuardGroup, Goto, PlacesStay, treeVars
  <2>2. ~Asked(t) /\ ~Asked(t)' BY <2>1 DEF Asked
  <2>3. CASE EnterGuard(t) BY <2>1, <2>2, <2>3, GuardEntered
  <2>4. CASE NestedGuard(t) /\ UNCHANGED guardVars
    <3>1. UNCHANGED <<activity, pending>> /\ activity = t BY <2>4 DEF NestedGuard, guardVars
    <3>2. ThreadGuard(t) /\ NamedJob BY DEF GuardCore, ThreadsGuard
    <3>3. ThreadGuard(t)' BY <2>1, <2>2, <3>1, <3>2 DEF ThreadGuard
    <3>4. NamedJob' BY <2>1, <3>1, <3>2 DEF NamedJob
    <3> QED BY <2>1, <3>1, <3>3, <3>4, OthersGuard DEF GuardCore, ThreadsGuard
  <2> QED BY <1>2, <2>3, <2>4 DEF GuardGroup
<1>3. CASE GuardRefused(t) BY <1>3, RaiseGuard DEF GuardRefused, treeVars
<1>4. CASE Status(t) BY <1>4, ReturnGuard DEF Status, treeVars
<1> QED BY <1>1, <1>2, <1>3, <1>4

\* Every step of start() stays in the guard or raises.
LEMMA StartGuard ==
    ASSUME AdmitInv, NEW t \in Threads, StartSteps(t)
    PROVE  GuardCore'
<1> USE DEF AdmitInv, OwnInv, FlowInv, TypeOK, SupervisorType, ThreadsType
<1>1. UNCHANGED jobs
  BY DEF StartSteps, StartReap, StartDecide, EnforceReap, EnforceSibling, EnforceDone,
         TakeSlot, ReconcilePriorOwner, PublishIntent, SpawnEngine, ConfirmLaunch,
         AbortLaunch, AbandonLaunch, AwaitExited, AwaitReady, AwaitTimeout, Spawn,
         SignalGroup, treeVars
<1>2. /\ pc[t] \in StartPcs \cup SlotPcs \cup {"slot", "await"}
      /\ InGuard(t) /\ ~Asked(t) /\ pc[t] # "admit"
  <2>1. pc[t] \in StartPcs \cup SlotPcs \cup {"slot", "await"}
    BY DEF StartSteps, StartReap, StartDecide, EnforceReap, EnforceSibling, EnforceDone,
           TakeSlot, ReconcilePriorOwner, PublishIntent, SpawnEngine, ConfirmLaunch,
           AbortLaunch, AbandonLaunch, AwaitExited, AwaitReady, AwaitTimeout,
           StartPcs, SlotPcs
  <2> QED BY <2>1 DEF InGuard, GuardPcs, Asked, StartPcs, SlotPcs
<1>3. \/ Raise(t)
      \/ \E l \in StartPcs \cup SlotPcs \cup StopPcs \cup {"slot", "await", "status"} :
            \/ Step(t, l)
            \/ Goto(t, l) /\ UNCHANGED <<guardVars, op>>
  BY DEF StartSteps, StartReap, StartDecide, EnforceReap, EnforceSibling, EnforceDone,
         TakeSlot, ReconcilePriorOwner, PublishIntent, SpawnEngine, ConfirmLaunch,
         AbortLaunch, AbandonLaunch, AwaitExited, AwaitReady, AwaitTimeout,
         StartPcs, SlotPcs, StopPcs
<1>4. CASE Raise(t) BY <1>1, <1>4, RaiseGuard
<1>5. CASE \E l \in StartPcs \cup SlotPcs \cup StopPcs \cup {"slot", "await", "status"} :
              Goto(t, l) /\ UNCHANGED <<guardVars, op>>
  <2>1. PlacesStay(t) BY <1>5 DEF Goto, PlacesStay
  <2>2. ~Asked(t)' /\ pc'[t] # "submit"
    BY <1>5 DEF Goto, Asked, StartPcs, SlotPcs, StopPcs
  <2> QED BY <1>1, <1>2, <1>5, <2>1, <2>2, GuardStays
<1>6. CASE \E l \in StartPcs \cup SlotPcs \cup StopPcs \cup {"slot", "await", "status"} : Step(t, l)
  BY <1>5, <1>6 DEF Step, locals
<1> QED BY <1>3, <1>4, <1>5, <1>6

\* Every step of _stop_owned and its callers stays in the guard or leaves it,
\* except the end of the process after shutdown_all.
LEMMA StopGuard ==
    ASSUME AdmitInv, NEW t \in Threads, StopSteps(t)
    PROVE  GuardCore' \/ ShutdownDone(t)
<1> USE DEF AdmitInv, OwnInv, FlowInv, TypeOK, SupervisorType, ThreadsType
<1>1. CASE ShutdownDone(t) BY <1>1
<1>2. CASE ShutdownNext(t)
  <2>1. /\ PlacesStay(t) /\ pc[t] = "next" /\ pc'[t] = "guard" /\ op'[t] = op[t]
        /\ UNCHANGED <<guardVars, jobs>>
    BY <1>2 DEF ShutdownNext, Goto, PlacesStay, treeVars
  <2>2. InGuard(t)' => InGuard(t)
    BY <2>1 DEF InGuard, GuardPcs, StartPcs, SlotPcs, StopPcs, InferPcs
  <2>3. ~Asked(t) /\ ~Asked(t)' BY <2>1 DEF Asked
  <2> QED BY <2>1, <2>2, <2>3, GuardStays
<1>3. CASE ~ShutdownDone(t) /\ ~ShutdownNext(t)
  <2>1. UNCHANGED jobs
    BY <1>3 DEF StopSteps, StopReap, StopNothing, StopSignal, StopVerify, StopReturns,
           SiblingStopped, StartupTimedOut, RestartContinues, SignalGroup, treeVars
  <2>2. pc[t] \in StopPcs /\ InGuard(t) /\ ~Asked(t)
    <3>1. pc[t] \in StopPcs
      BY <1>3 DEF StopSteps, StopReap, StopNothing, StopSignal, StopVerify, StopReturns,
             SiblingStopped, StartupTimedOut, RestartContinues, StopPcs
    <3> QED BY <3>1 DEF InGuard, GuardPcs, Asked, StopPcs
  <2>3. \/ Raise(t)
        \/ op[t] = "stop" /\ Leave(t)
        \/ \E l \in StartPcs \cup StopPcs : Step(t, l)
        \/ Goto(t, "reap") /\ op' = [op EXCEPT ![t] = "start"] /\ UNCHANGED guardVars
    BY <1>3 DEF StopSteps, StopReap, StopNothing, StopSignal, StopVerify, StopReturns,
           SiblingStopped, StartupTimedOut, RestartContinues, StartPcs, StopPcs
  <2>4. CASE Raise(t) \/ (op[t] = "stop" /\ Leave(t))
    BY <2>1, <2>4, RaiseGuard DEF Raise
  <2>5. CASE \E l \in StartPcs \cup StopPcs : Step(t, l)
    BY <2>1, <2>2, <2>5, StepGuard DEF Pcs, StartPcs, StopPcs
  <2>6. CASE Goto(t, "reap") /\ op' = [op EXCEPT ![t] = "start"] /\ UNCHANGED guardVars
    <3>1. PlacesStay(t) /\ pc'[t] = "reap" BY <2>6 DEF Goto, PlacesStay
    <3>2. ~Asked(t)' BY <3>1 DEF Asked
    <3> QED BY <2>1, <2>2, <2>6, <3>1, <3>2, GuardStays
  <2> QED BY <2>3, <2>4, <2>5, <2>6
<1> QED BY <1>1, <1>2, <1>3

\* ensure_ready and the steps of engines.synthesize.
LEMMA SpeechGuard ==
    ASSUME AdmitInv, NEW t \in Threads, SpeechSteps(t)
    PROVE  GuardCore'
<1> USE DEF AdmitInv, OwnInv, FlowInv, TypeOK, SupervisorType, ThreadsType
<1>0. ThreadGuard(t) /\ NamedJob /\ t # NoOne BY DEF GuardCore, ThreadsGuard
<1>1. CASE EnsureReady(t)
  <2>1. PICK l \in {"lock", "status"} : Step(t, l) BY <1>1 DEF EnsureReady
  <2>2. l \notin GuardPcs /\ l \in Pcs
    BY DEF GuardPcs, StartPcs, SlotPcs, StopPcs, InferPcs, Pcs
  <2>3. UNCHANGED jobs /\ pc[t] = "ready" BY <1>1 DEF EnsureReady, treeVars
  <2> QED BY <2>1, <2>2, <2>3, StepGuard DEF Asked
<1>2. CASE AdmitInference(t)
  <2>1. UNCHANGED jobs BY <1>2 DEF AdmitInference, treeVars
  <2>2. CASE Raise(t) BY <2>1, <2>2, RaiseGuard
  <2>3. CASE EnterGuard(t) /\ Goto(t, "ready") /\ UNCHANGED <<rlock, locals>>
    <3>1. PlacesStay(t) /\ ~Asked(t)' BY <2>3 DEF Goto, PlacesStay, Asked, locals
    <3> QED BY <2>1, <2>3, <3>1, GuardEntered
  <2> QED BY <1>2, <2>2, <2>3 DEF AdmitInference
<1>3. CASE Begin(t)
  <2>1. UNCHANGED jobs BY <1>3 DEF Begin, treeVars
  <2>2. CASE Raise(t) BY <2>1, <2>2, RaiseGuard
  <2>3. CASE BeginInference(t) /\ Goto(t, "submit") /\ UNCHANGED <<activity, rlock, locals>>
    <3>1. PlacesStay(t) /\ pc'[t] = "submit" BY <2>3 DEF Goto, PlacesStay, locals
    <3>2. /\ activity = t /\ activity' = t /\ pending = NoOne /\ pending' = t
      BY <2>3 DEF BeginInference
    <3>3. jobs = {} BY <1>0, <3>2 DEF TypeOK, ProcessTreeType, NamedJob
    <3>4. ThreadGuard(t)' BY <2>1, <3>1, <3>2, <3>3 DEF ThreadGuard, Asked
    <3>5. NamedJob' BY <2>1, <3>3 DEF NamedJob
    <3> QED BY <2>1, <3>1, <3>2, <3>4, <3>5, OthersGuard DEF GuardCore, ThreadsGuard
  <2> QED BY <1>3, <2>2, <2>3 DEF Begin
<1>4. CASE Submit(t)
  <2>1. /\ PlacesStay(t) /\ pc[t] = "submit" /\ pc'[t] = "wait"
        /\ UNCHANGED <<activity, pending>>
    BY <1>4 DEF Submit, Step, Goto, PlacesStay, locals, guardVars
  <2>2. activity = t /\ pending = t /\ jobs = {}
    BY <1>0, <2>1 DEF ThreadGuard, InGuard, GuardPcs, InferPcs, Asked
  <2>3. PICK x \in ServersOf(eng[t]) : jobs' = {<<t, x>>} BY <1>4, <2>2 DEF Submit
  <2>4. ThreadGuard(t)' BY <2>1, <2>2 DEF ThreadGuard, Asked
  <2>5. NamedJob' BY <2>1, <2>2, <2>3 DEF NamedJob
  <2> QED BY <2>1, <2>2, <2>4, <2>5, OthersGuard DEF GuardCore, ThreadsGuard
<1>5. CASE RefuseLocally(t) \/ Answered(t)
  <2>1. /\ PlacesStay(t) /\ LeaveGuard(t) /\ UNCHANGED jobs
        /\ pc'[t] = "idle" /\ op'[t] = "none"
    BY <1>5 DEF RefuseLocally, Answered, Goto, ForgetLocals, PlacesStay, treeVars
  <2>2. ~InGuard(t)'
    BY <2>1 DEF InGuard, GuardPcs, StartPcs, SlotPcs, StopPcs, InferPcs
  <2>3. pc[t] \in {"submit", "wait"} /\ activity = t /\ pending = t
    BY <1>0, <1>5 DEF RefuseLocally, Answered, ThreadGuard, InGuard, GuardPcs, InferPcs, Asked
  <2>4. jobs = {}
    BY <1>0, <1>5, <2>3 DEF RefuseLocally, Answered, ThreadGuard, MyJobs, NamedJob
  <2> QED BY <2>1, <2>2, <2>3, <2>4, GuardLeft
<1>6. CASE OutcomeUnknown(t) BY <1>6, RaiseGuard DEF OutcomeUnknown, treeVars
<1> QED BY <1>1, <1>2, <1>3, <1>4, <1>5, <1>6 DEF SpeechSteps

\* The end of a controller process frees its locks and keeps the receipt.
LEMMA GoneGuard ==
    ASSUME AdmitInv, NEW c \in Ctrls, ProcessGone(c)
    PROVE  GuardCore'
<1> USE DEF AdmitInv, OwnInv, FlowInv, TypeOK, SupervisorType, ThreadsType
<1>1. UNCHANGED <<pending, jobs>> BY DEF ProcessGone, FlocksReleased, treeVars
<1>2. activity' = IF activity \in ThreadsOf(c) THEN NoOne ELSE activity
  BY DEF ProcessGone, FlocksReleased
<1>3. ASSUME NEW u \in Threads PROVE ThreadGuard(u)'
  <2>0. ThreadGuard(u) /\ u # NoOne BY DEF GuardCore, ThreadsGuard
  <2>1. CASE Home[u] = c
    <3>1. pc'[u] = "idle" /\ op'[u] = "none" BY <2>1 DEF ProcessGone
    <3>2. activity' # u BY <1>2, <2>0, <2>1 DEF ThreadsOf
    <3> QED BY <3>1, <3>2 DEF ThreadGuard, InGuard, GuardPcs, StartPcs, SlotPcs, StopPcs, InferPcs
  <2>2. CASE Home[u] # c
    <3>1. pc'[u] = pc[u] /\ op'[u] = op[u] BY <2>2 DEF ProcessGone
    <3>2. activity' = u <=> activity = u BY <1>2, <2>0, <2>2 DEF ThreadsOf
    <3> QED BY <1>1, <2>0, <3>1, <3>2 DEF ThreadGuard, InGuard, Asked
  <2> QED BY <2>1, <2>2
<1>4. NamedJob' BY <1>1 DEF GuardCore, NamedJob
<1> QED BY <1>3, <1>4 DEF GuardCore, ThreadsGuard

\* The host may end jobs, an operator may retire a receipt without a job.
LEMMA EnvironmentGuard ==
    ASSUME AdmitInv, Environment \/ UNCHANGED vars
    PROVE  GuardCore'
<1>1. CASE ProcessTreeStep /\ UNCHANGED <<ownerVars, guardVars, supVars, pc, locals>>
  <2>1. jobs' \subseteq jobs
    BY <1>1 DEF ProcessTreeStep, LeaderExits, WorkerForked, WorkersExit, GroupEmptied,
                ExternalToggled, BackendFinishes, JobsServedBy
  <2>2. UNCHANGED <<activity, pending, pc, op>> BY <1>1 DEF guardVars, locals
  <2>3. ThreadsGuard'
    BY <2>1, <2>2 DEF AdmitInv, GuardCore, ThreadsGuard, ThreadGuard, InGuard, Asked
  <2>4. NamedJob' BY <2>1, <2>2 DEF AdmitInv, GuardCore, NamedJob
  <2> QED BY <2>3, <2>4 DEF GuardCore
<1>2. CASE \E c \in Ctrls : Crash(c) BY <1>2, GoneGuard DEF Crash
<1>3. CASE OperatorReconcilesPending /\ UNCHANGED <<treeVars, ownerVars, supVars, pc, locals>>
  <2>1. activity = NoOne /\ activity' = NoOne /\ jobs = {} /\ UNCHANGED <<jobs, pc, op>>
    BY <1>3 DEF OperatorReconcilesPending, treeVars, locals
  <2>2. ThreadsGuard'
    BY <2>1 DEF AdmitInv, GuardCore, ThreadsGuard, ThreadGuard, InGuard, Asked
  <2>3. NamedJob' BY <2>1 DEF NamedJob
  <2> QED BY <2>2, <2>3 DEF GuardCore
<1>4. CASE UNCHANGED <<guardVars, jobs, pc, op>>
  BY <1>4 DEF guardVars, AdmitInv, GuardCore, ThreadsGuard, ThreadGuard, InGuard, Asked, NamedJob
<1> QED BY <1>1, <1>2, <1>3, <1>4 DEF Environment, CooldownExpires, OperatorClearsReceipt,
           vars, treeVars, locals

\* AdmitInv is inductive.
LEMMA AdmitStep == AdmitInv /\ [Next]_vars => AdmitInv'
<1> SUFFICES ASSUME AdmitInv, [Next]_vars PROVE AdmitInv' OBVIOUS
<1>1. OwnInv' BY OwnStep DEF AdmitInv
<1>2. GuardCore'
  <2>1. CASE Environment \/ UNCHANGED vars BY <2>1, EnvironmentGuard
  <2>2. CASE \E t \in Threads : ClientCalls(t) \/ LockSupervisor(t) \/ ThreadStep(t)
    <3>1. PICK t \in Threads : ClientCalls(t) \/ LockSupervisor(t) \/ ThreadStep(t) BY <2>2
    <3>2. Home[t] \in Ctrls BY SupervisorAssumption
    <3>3. CASE StopSteps(t) BY <3>2, <3>3, StopGuard, GoneGuard DEF ShutdownDone
    <3> QED BY <3>1, <3>3, CallGuard, EntryGuard, StartGuard, SpeechGuard DEF ThreadStep
  <2> QED BY <2>1, <2>2 DEF Next
<1> QED BY <1>1, <1>2 DEF AdmitInv

\* AdmitInv holds initially.
LEMMA AdmitInit == Init => AdmitInv
<1> SUFFICES ASSUME Init PROVE AdmitInv OBVIOUS
<1>1. OwnInv BY OwnInit
<1>2. GuardCore
  BY DEF Init, SupervisorInit, GuardInit, ProcessTreeInit, GuardCore, ThreadsGuard,
         ThreadGuard, NamedJob, InGuard, GuardPcs, StartPcs, SlotPcs, StopPcs, InferPcs
<1> QED BY <1>1, <1>2 DEF AdmitInv

\* AdmitInv holds throughout every behaviour.
LEMMA AlwaysAdmit == Spec => []AdmitInv
BY AdmitInit, AdmitStep, PTL DEF Spec

-----------------------------------------------------------------------------
(* What follows.                                                           *)

\* No backend computes while a thread is at a lifecycle point of the guard.
LEMMA IdleInside ==
    ASSUME AdmitInv, NEW t \in Threads, InGuard(t), ~Asked(t)
    PROVE  jobs = {}
<1>1. pending = NoOne BY DEF AdmitInv, GuardCore, ThreadsGuard, ThreadGuard
<1>2. ASSUME NEW j \in jobs PROVE FALSE
  <2>1. j[1] = NoOne BY <1>1 DEF AdmitInv, GuardCore, NamedJob
  <2>2. j[1] \in Threads
    BY DEF AdmitInv, OwnInv, FlowInv, TypeOK, ProcessTreeType
  <2> QED BY <2>1, <2>2
<1> QED BY <1>2

\* A running job always has its durable receipt.
THEOREM JobsAlwaysEvident == Spec => []JobsLeaveEvidence
<1>1. ASSUME AdmitInv PROVE JobsLeaveEvidence
  <2>1. ASSUME NEW j \in jobs PROVE pending \in Threads
    BY <1>1 DEF AdmitInv, OwnInv, FlowInv, TypeOK, ProcessTreeType, GuardCore, NamedJob
  <2> QED BY <2>1 DEF JobsLeaveEvidence
<1> QED BY <1>1, AlwaysAdmit, PTL

\* The group never computes two jobs.
THEOREM OneJobEver == Spec => []OneJob
<1>1. ASSUME AdmitInv PROVE OneJob
  <2>1. CASE jobs = {} BY <2>1, FS_EmptySet DEF OneJob
  <2>2. CASE jobs # {}
    <3>1. PICK j \in jobs : jobs = {j} BY <1>1, <2>2 DEF AdmitInv, GuardCore, NamedJob
    <3>2. Cardinality({j}) = 1 BY FS_Singleton
    <3> QED BY <3>1, <3>2 DEF OneJob
  <2> QED BY <2>1, <2>2
<1> QED BY <1>1, AlwaysAdmit, PTL

\* The steps that touch the process trees or the jobs, and what they find: this
\* is all a proof about the abstract group needs to know of a step.
LEMMA GroupSteps ==
    ASSUME AdmitInv, [Next]_vars
    PROVE  \/ UNCHANGED treeVars
           \/ ProcessTreeStep
           \/ /\ jobs = {}
              /\ \E n \in Launches : SignalGroup(n)
           \/ /\ jobs = {} /\ Alive = {}
              /\ \E n \in Launches, e \in Engines : Spawn(n, e)
           \/ /\ jobs = {} /\ UNCHANGED <<leaders, workers, signalled, serves, external>>
              /\ \E j \in Threads \X Servers : jobs' = {j}
<1> USE DEF AdmitInv, OwnInv, FlowInv, TypeOK, SupervisorType, ThreadsType
<1>1. CASE Environment \/ UNCHANGED vars
  BY <1>1 DEF Environment, Crash, ProcessGone, CooldownExpires, vars
<1>2. ASSUME NEW t \in Threads, ClientCalls(t) \/ LockSupervisor(t) PROVE UNCHANGED treeVars
  BY <1>2 DEF ClientCalls, CallStart, CallStop, CallRestart, CallStatus, CallSpeech,
         CallShutdown, Call, LockSupervisor
<1>3. ASSUME NEW t \in Threads, SpawnEngine(t), ~UNCHANGED treeVars
      PROVE  /\ jobs = {} /\ Alive = {}
             /\ \E n \in Launches, e \in Engines : Spawn(n, e)
  <2>1. pc[t] = "popen" /\ Spawn(launch[t], eng[t]) BY <1>3 DEF SpawnEngine
  <2>2. launch[t] \in Launches /\ eng[t] \in Engines
    BY <2>1 DEF Flow, FlowOf, StopPcs
  <2>3. jobs = {} BY <2>1, IdleInside DEF InGuard, GuardPcs, SlotPcs, Asked
  <2>4. Alive = {} BY <2>1 DEF OwnCore, ThreadsOwn, ThreadOwn
  <2> QED BY <2>1, <2>2, <2>3, <2>4
<1>4. ASSUME NEW t \in Threads, AbortLaunch(t), ~UNCHANGED treeVars
      PROVE  jobs = {} /\ \E n \in Launches : SignalGroup(n)
  <2>1. pc[t] = "abort" /\ SignalGroup(launch[t]) BY <1>4 DEF AbortLaunch
  <2>2. launch[t] \in Launches BY <2>1 DEF Flow, FlowOf
  <2>3. jobs = {} BY <2>1, IdleInside DEF InGuard, GuardPcs, SlotPcs, Asked
  <2> QED BY <2>1, <2>2, <2>3
<1>5. ASSUME NEW t \in Threads, StopSignal(t), ~UNCHANGED treeVars
      PROVE  jobs = {} /\ \E n \in Launches : SignalGroup(n)
  <2>1. /\ pc[t] = "signal" /\ Owns(Home[t], victim[t])
        /\ SignalGroup(owned[Home[t]][victim[t]])
    BY <1>5 DEF StopSignal
  <2>2. victim[t] \in Engines BY <2>1 DEF Flow, FlowOf, StopPcs
  <2>3. owned[Home[t]][victim[t]] \in Launches BY <2>1, <2>2 DEF Owns, RecordsType
  <2>4. jobs = {} BY <2>1, IdleInside DEF InGuard, GuardPcs, StopPcs, Asked
  <2> QED BY <2>1, <2>3, <2>4
<1>6. ASSUME NEW t \in Threads, Submit(t)
      PROVE  /\ jobs = {} /\ UNCHANGED <<leaders, workers, signalled, serves, external>>
             /\ \E j \in Threads \X Servers : jobs' = {j}
  <2>1. pc[t] = "submit" BY <1>6 DEF Submit
  <2>2. jobs = {} BY <2>1 DEF GuardCore, ThreadsGuard, ThreadGuard
  <2>3. PICK x \in ServersOf(eng[t]) : jobs' = {<<t, x>>} BY <1>6, <2>2 DEF Submit
  <2>4. x \in Servers BY DEF ServersOf, Servers, Alive, ProcessTreeType
  <2> QED BY <1>6, <2>2, <2>3, <2>4 DEF Submit
<1>7. ASSUME NEW t \in Threads, ThreadStep(t),
             ~SpawnEngine(t), ~AbortLaunch(t), ~StopSignal(t), ~Submit(t)
      PROVE  UNCHANGED treeVars
  <2>1. CASE StartSteps(t)
    BY <1>7, <2>1 DEF StartSteps, StartReap, StartDecide, EnforceReap, EnforceSibling,
           EnforceDone, TakeSlot, ReconcilePriorOwner, PublishIntent, ConfirmLaunch,
           AbandonLaunch, AwaitExited, AwaitReady, AwaitTimeout
  <2>2. CASE StopSteps(t)
    BY <1>7, <2>2 DEF StopSteps, StopReap, StopNothing, StopVerify, StopReturns,
           SiblingStopped, StartupTimedOut, RestartContinues, ShutdownNext, ShutdownDone,
           ProcessGone
  <2>3. CASE SpeechSteps(t)
    BY <1>7, <2>3 DEF SpeechSteps, EnsureReady, AdmitInference, Begin, RefuseLocally,
           Answered, OutcomeUnknown
  <2>4. CASE GuardGroup(t) \/ GuardRefused(t) \/ Status(t)
    BY <2>4 DEF GuardGroup, GuardRefused, Status
  <2> QED BY <1>7, <2>1, <2>2, <2>3, <2>4 DEF ThreadStep
<1> QED BY <1>1, <1>2, <1>3, <1>4, <1>5, <1>6, <1>7 DEF Next

\* No engine is signalled under a running job, whoever asked for it.
THEOREM NeverSignalledDuringInference == Spec => NoSignalDuringInference
<1> DEFINE A == \A n \in Launches : n \in signalled' \ signalled => jobs = {}
<1>1. ASSUME AdmitInv, [Next]_vars PROVE A
  BY <1>1, GroupSteps
     DEF treeVars, ProcessTreeStep, LeaderExits, WorkerForked, WorkersExit, ExternalToggled,
         BackendFinishes, Spawn
<1>2. AdmitInv /\ [Next]_vars => [A]_vars BY <1>1
<1> QED BY <1>2, AlwaysAdmit, PTL DEF Spec, NoSignalDuringInference

-----------------------------------------------------------------------------
(* The refinement of GpuGroup.                                             *)

\* What the host does to trees and jobs is a Vacate, a Finish or nothing.
LEMMA HostStepMaps ==
    ASSUME AdmitInv, ProcessTreeStep
    PROVE  [Group!Next]_(Group!groupVars)
<1> USE DEF Group!groupVars, Group!Next, Alive
<1>0. /\ leaders \subseteq Launches /\ workers \subseteq Launches
      /\ \A j, k \in jobs : j = k
  BY DEF AdmitInv, OwnInv, FlowInv, TypeOK, ProcessTreeType, GuardCore, NamedJob
<1>1. ASSUME NEW n \in Launches, LeaderExits(n) \/ WorkersExit(n)
      PROVE  [Group!Next]_(Group!groupVars)
  <2>1. CASE n \in leaders /\ n \in workers
    BY <1>1, <2>1 DEF LeaderExits, WorkersExit
  <2>2. CASE ~(n \in leaders /\ n \in workers)
    <3>1. /\ n \in Alive /\ Alive' = Alive \ {n} /\ signalled' = signalled
          /\ jobs' = {j \in jobs : j[2] # n}
      BY <1>1, <2>2 DEF LeaderExits, WorkersExit, GroupEmptied, JobsServedBy
    <3>2. Group!Vacate(n) BY <3>1 DEF Group!Vacate
    <3> QED BY <3>2
  <2> QED BY <2>1, <2>2
<1>2. ASSUME NEW n \in Launches, WorkerForked(n) PROVE UNCHANGED Group!groupVars
  BY <1>2 DEF WorkerForked
<1>3. ASSUME UNCHANGED <<leaders, workers, signalled>>, jobs' \subseteq jobs
      PROVE  [Group!Next]_(Group!groupVars)
  <2>1. CASE jobs' = jobs BY <1>3, <2>1
  <2>2. CASE jobs' # jobs
    <3>1. jobs # {} /\ jobs' = {} BY <1>0, <1>3, <2>2
    <3>2. Group!Finish BY <1>3, <3>1 DEF Group!Finish
    <3> QED BY <3>2
  <2> QED BY <2>1, <2>2
<1>4. ASSUME NEW e \in Manual, ExternalToggled(e) PROVE [Group!Next]_(Group!groupVars)
  BY <1>3, <1>4 DEF ExternalToggled
<1>5. ASSUME NEW j \in jobs, BackendFinishes(j) PROVE [Group!Next]_(Group!groupVars)
  BY <1>3, <1>5 DEF BackendFinishes
<1> QED BY <1>1, <1>2, <1>4, <1>5 DEF ProcessTreeStep

\* Every step of the runtime group is a step of the abstract group or nothing.
LEMMA GroupStepMaps ==
    ASSUME AdmitInv, [Next]_vars
    PROVE  [Group!Next]_(Group!groupVars)
<1> USE DEF Group!groupVars, Group!Next, Alive
<1>0. leaders \subseteq Launches /\ workers \subseteq Launches
  BY DEF AdmitInv, OwnInv, FlowInv, TypeOK, ProcessTreeType
<1>1. CASE UNCHANGED treeVars BY <1>1 DEF treeVars
<1>2. CASE ProcessTreeStep BY <1>2, HostStepMaps
<1>3. ASSUME NEW n \in Launches, jobs = {}, SignalGroup(n)
      PROVE  [Group!Next]_(Group!groupVars)
  <2>1. CASE n \in Alive
    <3>1. Group!Evict(n) BY <1>3, <2>1 DEF SignalGroup, Group!Evict
    <3> QED BY <3>1
  <2>2. CASE n \notin Alive BY <1>3, <2>2 DEF SignalGroup
  <2> QED BY <2>1, <2>2
<1>4. ASSUME NEW n \in Launches, NEW e \in Engines, jobs = {}, Alive = {}, Spawn(n, e)
      PROVE  [Group!Next]_(Group!groupVars)
  <2>1. Alive' = {n} /\ signalled' = signalled \ {n} /\ jobs' = jobs BY <1>4 DEF Spawn
  <2>2. Group!Load(n) BY <1>4, <2>1 DEF Group!Load
  <2> QED BY <2>2
<1>5. ASSUME NEW j \in Threads \X Servers, jobs = {}, jobs' = {j},
             UNCHANGED <<leaders, workers, signalled, serves, external>>
      PROVE  [Group!Next]_(Group!groupVars)
  <2>1. Group!Accept(j) BY <1>5 DEF Group!Accept
  <2> QED BY <2>1
<1> QED BY <1>1, <1>2, <1>3, <1>4, <1>5, GroupSteps

\* Whatever the controllers, their crashes and their retries do, the group
\* hosts one tree and one job, and nothing is loaded or evicted under a job.
THEOREM GroupImplemented == Spec => ImplementsGroup
<1>1. Init => Group!Init
  BY DEF Init, ProcessTreeInit, Group!Init, Alive
<1>2. AdmitInv /\ [Next]_vars => [Group!Next]_(Group!groupVars)
  BY GroupStepMaps
<1> QED BY <1>1, <1>2, AlwaysAdmit, PTL DEF Spec, ImplementsGroup, Group!Spec

=============================================================================
