-------------------------- MODULE RuntimeSupervisor --------------------------
(***************************************************************************)
(* server/runtime_supervisor.py for the managed engines of one exclusive   *)
(* group: several CVS controllers, each with a RuntimeSupervisor and       *)
(* threads calling start, stop, restart, status, shutdown_all and          *)
(* ensure_ready.  A thread's program counter names the point the source    *)
(* has reached; one action is one observation or change of something       *)
(* another actor can see or touch.                                         *)
(*                                                                         *)
(* pc values, in source order                                              *)
(*   idle                                                                  *)
(*   ready                     ensure_ready, no supervisor lock yet        *)
(*   lock guard                waiting for _lock, then _guard_group        *)
(*   reap decide               start: _clean_exited, then its checks       *)
(*   enforce sibling           _enforce_exclusive_group                    *)
(*   slot reconcile publish    lease, prior owner, publish_starting        *)
(*   popen confirm await       Popen, publish_running, health polling      *)
(*   abort abandon             the except branch of a failed launch        *)
(*   stopping signal verify stopped      _stop_owned and its caller        *)
(*   next                      shutdown_all between two engines            *)
(*   status                    the trailing self.status(engine_id)         *)
(*   admit begin submit wait   engines.synthesize (module SpeechService)   *)
(***************************************************************************)
EXTENDS GroupGuard

CONSTANTS
    Home,      \* Home[t]: the controller process thread t belongs to
    OnDemand,  \* engines configured start_on_demand
    Slow,      \* engines that may miss their startup deadline
    Ops        \* the operations clients use in this instance

ASSUME SupervisorAssumption ==
    /\ Home \in [Threads -> Ctrls]
    /\ OnDemand \subseteq Engines
    /\ Slow \subseteq Engines
    /\ Ops \subseteq {"start", "stop", "restart", "status", "shutdown", "speech"}

VARIABLES
    rlock,      \* rlock[c]: the thread holding c's _lock (an RLock)
    owned,      \* owned[c][e]: launch of c's _owned[e]
    uncertain,  \* uncertain[c]: engines whose tree_uncertain is set
    exitSeen,   \* exitSeen[c]: engines whose exit_observed is set
    cooldown,   \* cooldown[c]: engines inside their restart backoff
    pc, op, eng, victim, todo, launch   \* the local state of each thread

supVars == <<rlock, owned, uncertain, exitSeen, cooldown>>
records == <<owned, uncertain, exitSeen>>
locals == <<op, eng, victim, todo, launch>>
vars == <<treeVars, ownerVars, guardVars, supVars, pc, locals>>

StartPcs == {"reap", "decide", "enforce", "sibling"}
SlotPcs == {"reconcile", "publish", "popen", "confirm", "abort", "abandon"}
StopPcs == {"stopping", "signal", "verify", "stopped"}
InferPcs == {"begin", "submit", "wait"}
Pcs == StartPcs \cup SlotPcs \cup StopPcs \cup InferPcs \cup
       {"idle", "ready", "lock", "guard", "slot", "await", "next", "status", "admit"}

\* "synth" is the second half of a speech call, inside engines.synthesize.
OpNames == {"none", "start", "stop", "restart", "status", "shutdown", "speech", "synth"}

RecordsType ==
    /\ owned \in [Ctrls -> [Engines -> Launches \cup {NoLaunch}]]
    /\ uncertain \in [Ctrls -> SUBSET Engines]
    /\ exitSeen \in [Ctrls -> SUBSET Engines]
    /\ cooldown \in [Ctrls -> SUBSET Engines]

ThreadsType ==
    /\ rlock \in [Ctrls -> Threads \cup {NoOne}]
    /\ pc \in [Threads -> Pcs]
    /\ op \in [Threads -> OpNames]
    /\ eng \in [Threads -> Engines \cup {NoEngine}]
    /\ victim \in [Threads -> Engines \cup {NoEngine}]
    /\ todo \in [Threads -> SUBSET Engines]
    /\ launch \in [Threads -> Launches \cup {NoLaunch}]

SupervisorType == RecordsType /\ ThreadsType

SupervisorInit ==
    /\ rlock = [c \in Ctrls |-> NoOne]
    /\ owned = [c \in Ctrls |-> [e \in Engines |-> NoLaunch]]
    /\ uncertain = [c \in Ctrls |-> {}]
    /\ exitSeen = [c \in Ctrls |-> {}]
    /\ cooldown = [c \in Ctrls |-> {}]
    /\ pc = [t \in Threads |-> "idle"]
    /\ op = [t \in Threads |-> "none"]
    /\ eng = [t \in Threads |-> NoEngine]
    /\ victim = [t \in Threads |-> NoEngine]
    /\ todo = [t \in Threads |-> {}]
    /\ launch = [t \in Threads |-> NoLaunch]

-----------------------------------------------------------------------------
(* Control flow of one thread.                                             *)

Goto(t, l) == pc' = [pc EXCEPT ![t] = l]

LeaveLock(t) ==
    rlock' = [rlock EXCEPT ![Home[t]] = IF @ = t THEN NoOne ELSE @]

ForgetLocals(t) ==
    /\ op' = [op EXCEPT ![t] = "none"]
    /\ eng' = [eng EXCEPT ![t] = NoEngine]
    /\ victim' = [victim EXCEPT ![t] = NoEngine]
    /\ todo' = [todo EXCEPT ![t] = {}]
    /\ launch' = [launch EXCEPT ![t] = NoLaunch]

\* An exception, or the end of the call, unwinds every with block: the group
\* guard and the supervisor lock are released if this thread holds them.
Leave(t) ==
    /\ Goto(t, "idle")
    /\ LeaveLock(t)
    /\ LeaveGuard(t)
    /\ UNCHANGED pending
    /\ ForgetLocals(t)

\* An exception inside a lifecycle operation.  shutdown_all alone swallows it
\* and goes on with the next engine, still holding the supervisor lock.
Raise(t) ==
    IF op[t] = "shutdown"
    THEN /\ Goto(t, "next")
         /\ LeaveGuard(t)
         /\ UNCHANGED <<pending, rlock, locals>>
    ELSE Leave(t)

\* A lifecycle operation, or ensure_ready, returns normally.  speech goes on to
\* synthesize; inside synthesize the guard of the caller stays held.
Return(t) ==
    CASE op[t] = "speech" ->
            /\ Goto(t, "admit")
            /\ op' = [op EXCEPT ![t] = "synth"]
            /\ LeaveLock(t)
            /\ LeaveGuard(t)
            /\ UNCHANGED <<pending, eng, victim, todo, launch>>
      [] op[t] = "synth" ->
            /\ Goto(t, "begin")
            /\ LeaveLock(t)
            /\ UNCHANGED <<guardVars, locals>>
      [] OTHER -> Leave(t)

\* A step that only moves the program counter.
Step(t, l) ==
    /\ Goto(t, l)
    /\ UNCHANGED <<rlock, guardVars, locals>>

-----------------------------------------------------------------------------
(* The supervisor's records.                                               *)

Owns(c, e) == owned[c][e] # NoLaunch

\* owned.process.poll() is None
OwnedRunning(c, e) == Owns(c, e) /\ owned[c][e] \in leaders

Uncertain(c, e) == e \in uncertain[c]

\* _owned.pop(engine_id) together with the _OwnedProcess it held
ForgetOwned(c, e) ==
    /\ owned' = [owned EXCEPT ![c][e] = NoLaunch]
    /\ uncertain' = [uncertain EXCEPT ![c] = @ \ {e}]
    /\ exitSeen' = [exitSeen EXCEPT ![c] = @ \ {e}]

\* _restart_cooldown(engine_id) > 0
BackoffWhileOwned(c, e) == e \in cooldown[c] /\ Owns(c, e)   \* mutant
InBackoff(c, e) == e \in cooldown[c]

RecordFailure(c, e) == cooldown' = [cooldown EXCEPT ![c] = @ \cup {e}]

MarkUncertain(c, e) == uncertain' = [uncertain EXCEPT ![c] = @ \cup {e}]

\* Mutant: the exit of the leader alone gives the slot away.
CleanExitedByPoll(c, e) ==
    IF ~Owns(c, e) \/ OwnedRunning(c, e)
    THEN UNCHANGED <<records, cooldown, ownerVars>>
    ELSE /\ RecordFailure(c, e)
         /\ exitSeen' = [exitSeen EXCEPT ![c] = @ \cup {e}]
         /\ MarkUncertain(c, e)
         /\ ReleaseSlot
         /\ UNCHANGED <<owned, receipt>>

\* _clean_exited: nothing while the leader runs.  An exit seen for the first
\* time is a failure; the slot and the receipt go only with the last member.
CleanExited(c, e) ==
    IF ~Owns(c, e) \/ OwnedRunning(c, e)
    THEN UNCHANGED <<records, cooldown, ownerVars>>
    ELSE /\ IF e \in exitSeen[c] THEN UNCHANGED cooldown ELSE RecordFailure(c, e)
         /\ \/ /\ owned[c][e] \notin Alive
               /\ ClearLaunchReceipt(owned[c][e])
               /\ ForgetOwned(c, e)
               /\ ReleaseSlot
            \/ /\ MarkUncertain(c, e)     \* descendants live or unverifiable
               /\ exitSeen' = [exitSeen EXCEPT ![c] = @ \cup {e}]
               /\ UNCHANGED <<owned, ownerVars>>

-----------------------------------------------------------------------------
(* Calls.                                                                  *)

Call(t, o, e, l) ==
    /\ o \in Ops
    /\ pc[t] = "idle"
    /\ op' = [op EXCEPT ![t] = o]
    /\ eng' = [eng EXCEPT ![t] = e]
    /\ Goto(t, l)
    /\ UNCHANGED <<treeVars, ownerVars, guardVars, supVars, victim, todo, launch>>

CallStart(t, e) == Call(t, "start", e, "lock")
CallStop(t, e) == Call(t, "stop", e, "lock")
CallRestart(t, e) == Call(t, "restart", e, "lock")
CallStatus(t, e) == Call(t, "status", e, "status")
CallShutdown(t) == Call(t, "shutdown", NoEngine, "lock")

\* ensure_ready, up to the point where it starts the engine or reports status.
\* Without on-demand start it reports an unhealthy engine as a success.
EnsureReady(t) ==
    /\ pc[t] = "ready"
    /\ \/ /\ eng[t] \in OnDemand
          /\ Step(t, "lock")
       \/ /\ eng[t] \in OnDemand => ~InBackoff(Home[t], eng[t])
          /\ MayAnswerHealth(eng[t])
          /\ Step(t, "status")
       \/ /\ eng[t] \notin OnDemand
          /\ Step(t, "status")
    /\ UNCHANGED <<treeVars, ownerVars, records, cooldown>>

\* with self._lock
LockSupervisor(t) ==
    /\ pc[t] = "lock"
    /\ rlock[Home[t]] = NoOne
    /\ rlock' = [rlock EXCEPT ![Home[t]] = t]
    /\ IF op[t] = "shutdown"
       THEN /\ Goto(t, "next")
            /\ todo' = [todo EXCEPT ![t] = {e \in Engines : Owns(Home[t], e)}]
       ELSE Goto(t, "guard") /\ UNCHANGED todo
    /\ UNCHANGED <<treeVars, ownerVars, guardVars, records, cooldown,
                   op, eng, victim, launch>>

\* with self._guard_group(spec), for start, stop, restart and shutdown_all
GuardGroup(t) ==
    /\ pc[t] = "guard"
    /\ \/ EnterGuard(t)
       \/ NestedGuard(t) /\ UNCHANGED guardVars
    /\ Goto(t, IF op[t] \in {"stop", "restart", "shutdown"} THEN "stopping" ELSE "reap")
    /\ victim' = IF op[t] \in {"stop", "restart"}
                 THEN [victim EXCEPT ![t] = eng[t]] ELSE victim
    /\ UNCHANGED <<treeVars, ownerVars, supVars, op, eng, todo, launch>>

\* Mutant: waits for the guard with the supervisor lock held.
GuardAwaited(t) ==
    /\ pc[t] = "guard"
    /\ GuardDenied(t)
    /\ UNCHANGED vars

GuardRefused(t) ==
    /\ pc[t] = "guard"
    /\ GuardDenied(t)
    /\ Raise(t)
    /\ UNCHANGED <<treeVars, ownerVars, records, cooldown>>

\* self.status(engine_id): it takes the lock only if it is free (or held by
\* this very thread), reaps an exited process without the group guard, and
\* otherwise reports "supervisor-transition".
Status(t) ==
    /\ pc[t] = "status"
    /\ IF rlock[Home[t]] \in {NoOne, t}
       THEN CleanExited(Home[t], eng[t])
       ELSE UNCHANGED <<records, cooldown, ownerVars>>
    /\ Return(t)
    /\ UNCHANGED treeVars

-----------------------------------------------------------------------------
(* start                                                                   *)

StartReap(t) ==
    /\ pc[t] = "reap"
    /\ CleanExited(Home[t], eng[t])
    /\ Step(t, "decide")
    /\ UNCHANGED treeVars

\* An unanswered probe is possible whatever runs: only "ready" has a guard.
StartDecide(t) ==
    LET c == Home[t]  e == eng[t] IN
    /\ pc[t] = "decide"
    /\ \/ /\ MayAnswerHealth(e)
          /\ Step(t, "status")
       \/ /\ Uncertain(c, e)
          /\ Raise(t)
       \/ /\ ~Uncertain(c, e)
          /\ OwnedRunning(c, e)
          /\ Step(t, "status")
       \/ /\ ~Uncertain(c, e)
          /\ ~OwnedRunning(c, e)
          /\ InBackoff(c, e)
          /\ Raise(t)
       \/ /\ ~Uncertain(c, e)
          /\ ~OwnedRunning(c, e)
          /\ ~InBackoff(c, e)
          /\ Goto(t, "enforce")
          /\ todo' = [todo EXCEPT ![t] = Engines \ {e}]
          /\ UNCHANGED <<rlock, guardVars, op, eng, victim, launch>>
    /\ UNCHANGED <<treeVars, ownerVars, records, cooldown>>

\* _enforce_exclusive_group, one sibling at a time
EnforceReap(t) ==
    /\ pc[t] = "enforce"
    /\ \E s \in todo[t] :
          /\ CleanExited(Home[t], s)
          /\ victim' = [victim EXCEPT ![t] = s]
          /\ todo' = [todo EXCEPT ![t] = @ \ {s}]
    /\ Goto(t, "sibling")
    /\ UNCHANGED <<treeVars, guardVars, rlock, op, eng, launch>>

EnforceSibling(t) ==
    LET c == Home[t]  s == victim[t] IN
    /\ pc[t] = "sibling"
    /\ \/ /\ Uncertain(c, s)
          /\ Raise(t)
       \/ /\ ~Uncertain(c, s)
          /\ OwnedRunning(c, s)
          /\ Step(t, "stopping")
       \/ /\ ~Uncertain(c, s)
          /\ ~OwnedRunning(c, s)
          /\ \/ MayAnswerHealth(s) /\ Raise(t)
             \/ Step(t, "enforce")
    /\ UNCHANGED <<treeVars, ownerVars, records, cooldown>>

EnforceDone(t) ==
    /\ pc[t] = "enforce"
    /\ todo[t] = {}
    /\ Goto(t, "slot")
    /\ victim' = [victim EXCEPT ![t] = NoEngine]
    /\ UNCHANGED <<treeVars, ownerVars, guardVars, supVars, op, eng, todo, launch>>

TakeSlot(t) ==
    /\ pc[t] = "slot"
    /\ \/ /\ AcquireSlot(Home[t])
          /\ Step(t, "reconcile")
       \/ /\ slot # NoOne
          /\ Raise(t)
          /\ UNCHANGED slot
    /\ UNCHANGED <<treeVars, receipt, records, cooldown>>

\* Mutant: takes a "starting" receipt for a launch that never happened.
ReconcileStaleIntent(t) ==
    /\ pc[t] = "reconcile"
    /\ receipt.state # "running" \/ ProvablyGone(receipt)
    /\ receipt' = NoReceipt
    /\ Step(t, "publish")
    /\ UNCHANGED <<slot, treeVars, records, cooldown>>

\* A refusal is a conflict, never a backoff; an unreadable identity or session
\* refuses a receipt whose processes are in fact gone.
ReconcilePriorOwner(t) ==
    /\ pc[t] = "reconcile"
    /\ \/ /\ receipt = NoReceipt \/ ProvablyGone(receipt)
          /\ receipt' = NoReceipt
          /\ Step(t, "publish")
          /\ UNCHANGED slot
       \/ /\ receipt # NoReceipt
          /\ ReleaseSlot
          /\ Raise(t)
          /\ UNCHANGED receipt
    /\ UNCHANGED <<treeVars, records, cooldown>>

FreshLaunch(n) ==
    /\ n \notin Alive
    /\ receipt.launch # n
    /\ \A c \in Ctrls, e \in Engines : owned[c][e] # n

\* The log file and the "starting" receipt, or an OSError before either counts.
PublishIntent(t) ==
    /\ pc[t] = "publish"
    /\ \/ \E n \in Launches :
             /\ FreshLaunch(n)
             /\ PublishStarting(n)
             /\ launch' = [launch EXCEPT ![t] = n]
             /\ Goto(t, "popen")
             /\ UNCHANGED <<slot, rlock, guardVars, cooldown, op, eng, victim, todo>>
       \/ /\ ReleaseSlot
          /\ RecordFailure(Home[t], eng[t])
          /\ Raise(t)
          /\ UNCHANGED receipt
    /\ UNCHANGED <<treeVars, records>>

\* Popen, or its OSError: that leaves the "starting" receipt for an operator.
SpawnEngine(t) ==
    /\ pc[t] = "popen"
    /\ \/ /\ Spawn(launch[t], eng[t])
          /\ Step(t, "confirm")
          /\ UNCHANGED <<slot, cooldown>>
       \/ /\ ReleaseSlot
          /\ RecordFailure(Home[t], eng[t])
          /\ Raise(t)
          /\ UNCHANGED treeVars
    /\ UNCHANGED <<receipt, records>>

\* publish_running and the insertion into _owned
ConfirmLaunch(t) ==
    /\ pc[t] = "confirm"
    /\ \/ /\ PublishRunning(launch[t])
          /\ owned' = [owned EXCEPT ![Home[t]][eng[t]] = launch[t]]
          /\ Step(t, "await")
       \/ /\ Step(t, "abort")
          /\ UNCHANGED <<receipt, owned>>
    /\ UNCHANGED <<treeVars, slot, uncertain, exitSeen, cooldown>>

\* stop_managed_tree of a child whose identity could not be published
AbortLaunch(t) ==
    /\ pc[t] = "abort"
    /\ SignalGroup(launch[t]) \/ UNCHANGED treeVars
    /\ Step(t, "abandon")
    /\ UNCHANGED <<ownerVars, records, cooldown>>

\* Mutant: clears the receipt without having seen the tree die.
AbandonUnverified(t) ==
    /\ pc[t] = "abandon"
    /\ ClearLaunchReceipt(launch[t])
    /\ ReleaseSlot
    /\ RecordFailure(Home[t], eng[t])
    /\ Raise(t)
    /\ UNCHANGED <<treeVars, records>>

\* The receipt goes only if the tree was reaped; the slot goes in any case.
\* UncertainRuntimeOwner is a conflict, every other failure a backoff.
AbandonLaunch(t) ==
    /\ pc[t] = "abandon"
    /\ \/ launch[t] \notin Alive /\ ClearLaunchReceipt(launch[t])
       \/ UNCHANGED receipt
    /\ ReleaseSlot
    /\ UNCHANGED cooldown \/ RecordFailure(Home[t], eng[t])
    /\ Raise(t)
    /\ UNCHANGED <<treeVars, records>>

\* The startup polling loop: exited, healthy, or past its deadline.
AwaitExited(t) ==
    /\ pc[t] = "await"
    /\ ~OwnedRunning(Home[t], eng[t])
    /\ CleanExited(Home[t], eng[t])
    /\ Raise(t)
    /\ UNCHANGED treeVars

AwaitReady(t) ==
    /\ pc[t] = "await"
    /\ MayAnswerHealth(eng[t])
    /\ Step(t, "status")
    /\ UNCHANGED <<treeVars, ownerVars, records, cooldown>>

AwaitTimeout(t) ==
    /\ pc[t] = "await"
    /\ eng[t] \in Slow
    /\ Goto(t, "stopping")
    /\ victim' = [victim EXCEPT ![t] = eng[t]]
    /\ UNCHANGED <<treeVars, ownerVars, guardVars, supVars, op, eng, todo, launch>>

-----------------------------------------------------------------------------
(* _stop_owned, called by stop, restart, shutdown_all, by start for a      *)
(* sibling and by start for an engine that missed its startup deadline.    *)

StopReap(t) ==
    /\ pc[t] = "stopping"
    /\ CleanExited(Home[t], victim[t])
    /\ Step(t, "signal")
    /\ UNCHANGED treeVars

StopNothing(t) ==
    /\ pc[t] = "signal"
    /\ ~Owns(Home[t], victim[t])
    /\ Step(t, "stopped")
    /\ UNCHANGED <<treeVars, ownerVars, records, cooldown>>

\* stop_managed_tree signals a populated group and refuses an unreadable one.
StopSignal(t) ==
    /\ pc[t] = "signal"
    /\ Owns(Home[t], victim[t])
    /\ \/ /\ SignalGroup(owned[Home[t]][victim[t]])
          /\ Step(t, "verify")
          /\ UNCHANGED uncertain
       \/ /\ MarkUncertain(Home[t], victim[t])
          /\ Raise(t)
          /\ UNCHANGED treeVars
    /\ UNCHANGED <<ownerVars, owned, exitSeen, cooldown>>

StopVerify(t) ==
    LET c == Home[t]  v == victim[t] IN
    /\ pc[t] = "verify"
    /\ \/ /\ owned[c][v] \notin Alive
          /\ ClearLaunchReceipt(owned[c][v])
          /\ ForgetOwned(c, v)
          /\ ReleaseSlot
          /\ Step(t, "stopped")
       \/ /\ MarkUncertain(c, v)
          /\ Raise(t)
          /\ UNCHANGED <<ownerVars, owned, exitSeen>>
    /\ UNCHANGED <<treeVars, cooldown>>

\* The teardown is confirmed: back to the caller of _stop_owned.
StopReturns(t) ==
    /\ pc[t] = "stopped"
    /\ op[t] \in {"stop", "shutdown"}
    /\ IF op[t] = "stop" THEN Leave(t) ELSE Raise(t)
    /\ UNCHANGED <<treeVars, ownerVars, records, cooldown>>

SiblingStopped(t) ==
    /\ pc[t] = "stopped"
    /\ op[t] \in {"start", "speech", "synth"}
    /\ victim[t] # eng[t]
    /\ Step(t, "enforce")
    /\ UNCHANGED <<treeVars, ownerVars, records, cooldown>>

StartupTimedOut(t) ==
    /\ pc[t] = "stopped"
    /\ op[t] \in {"start", "speech", "synth"}
    /\ victim[t] = eng[t]
    /\ RecordFailure(Home[t], eng[t])
    /\ Raise(t)
    /\ UNCHANGED <<treeVars, ownerVars, records>>

\* restart clears the backoff and calls start, inside the same lock and guard.
RestartContinues(t) ==
    /\ pc[t] = "stopped"
    /\ op[t] = "restart"
    /\ \/ /\ MayAnswerHealth(eng[t])
          /\ Raise(t)
          /\ UNCHANGED cooldown
       \/ /\ cooldown' = [cooldown EXCEPT ![Home[t]] = @ \ {eng[t]}]
          /\ op' = [op EXCEPT ![t] = "start"]
          /\ victim' = [victim EXCEPT ![t] = NoEngine]
          /\ Goto(t, "reap")
          /\ UNCHANGED <<rlock, guardVars, eng, todo, launch>>
    /\ UNCHANGED <<treeVars, ownerVars, records>>

\* shutdown_all: the next engine still owned when the list was taken.
ShutdownNext(t) ==
    /\ pc[t] = "next"
    /\ \E e \in todo[t] :
          /\ victim' = [victim EXCEPT ![t] = e]
          /\ todo' = [todo EXCEPT ![t] = @ \ {e}]
    /\ Goto(t, "guard")
    /\ UNCHANGED <<treeVars, ownerVars, guardVars, supVars, op, eng, launch>>

-----------------------------------------------------------------------------
(* The end of a controller process, by a crash or after shutdown_all: its  *)
(* locks and memory go; trees, receipts and backend jobs stay.             *)

ThreadsOf(c) == {t \in Threads : Home[t] = c}

\* Mutant: the pending receipt is kept in the memory of its requester.
LocksAndReceiptGone(c) ==
    /\ slot' = IF slot = c THEN NoOne ELSE slot
    /\ activity' = IF activity \in ThreadsOf(c) THEN NoOne ELSE activity
    /\ pending' = IF pending \in ThreadsOf(c) THEN NoOne ELSE pending

\* What the operating system does with the flocks of a dead process.
FlocksReleased(c) ==
    /\ slot' = IF slot = c THEN NoOne ELSE slot
    /\ activity' = IF activity \in ThreadsOf(c) THEN NoOne ELSE activity
    /\ UNCHANGED pending

ProcessGone(c) ==
    /\ FlocksReleased(c)
    /\ rlock' = [rlock EXCEPT ![c] = NoOne]
    /\ owned' = [owned EXCEPT ![c] = [e \in Engines |-> NoLaunch]]
    /\ uncertain' = [uncertain EXCEPT ![c] = {}]
    /\ exitSeen' = [exitSeen EXCEPT ![c] = {}]
    /\ cooldown' = [cooldown EXCEPT ![c] = {}]
    /\ pc' = [t \in Threads |-> IF Home[t] = c THEN "idle" ELSE pc[t]]
    /\ op' = [t \in Threads |-> IF Home[t] = c THEN "none" ELSE op[t]]
    /\ eng' = [t \in Threads |-> IF Home[t] = c THEN NoEngine ELSE eng[t]]
    /\ victim' = [t \in Threads |-> IF Home[t] = c THEN NoEngine ELSE victim[t]]
    /\ todo' = [t \in Threads |-> IF Home[t] = c THEN {} ELSE todo[t]]
    /\ launch' = [t \in Threads |-> IF Home[t] = c THEN NoLaunch ELSE launch[t]]
    /\ UNCHANGED <<treeVars, receipt>>

ShutdownDone(t) ==
    /\ pc[t] = "next"
    /\ todo[t] = {}
    /\ ProcessGone(Home[t])

Crash(c) == ProcessGone(c)

CooldownExpires(c) ==
    /\ \E e \in cooldown[c] : cooldown' = [cooldown EXCEPT ![c] = @ \ {e}]
    /\ UNCHANGED <<treeVars, ownerVars, guardVars, rlock, records, pc, locals>>

=============================================================================
