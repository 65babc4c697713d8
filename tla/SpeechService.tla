---------------------------- MODULE SpeechService ----------------------------
(***************************************************************************)
(* The speech endpoint (server/app.py) and engines.synthesize              *)
(* (server/engines/__init__.py) on top of the supervisor: the whole        *)
(* runtime group, its specification and its properties.                    *)
(***************************************************************************)
EXTENDS RuntimeSupervisor

\* speech() calls ensure_ready before, and again inside, engines.synthesize.
CallSpeech(t, e) == Call(t, "speech", e, "ready")

\* with runtime_group_guard(...) as admission
AdmitInference(t) ==
    /\ pc[t] = "admit"
    /\ \/ /\ EnterGuard(t)
          /\ Goto(t, "ready")
          /\ UNCHANGED <<rlock, locals>>
       \/ /\ GuardDenied(t)
          /\ Raise(t)
    /\ UNCHANGED <<treeVars, ownerVars, records, cooldown>>

\* begin_inference persists the pending receipt, or fails before any request.
Begin(t) ==
    /\ pc[t] = "begin"
    /\ \/ /\ BeginInference(t)
          /\ Goto(t, "submit")
          /\ UNCHANGED <<activity, rlock, locals>>
       \/ Raise(t)
    /\ UNCHANGED <<treeVars, ownerVars, records, cooldown>>

\* adapter.synthesize reaches a server of the selected engine.
Submit(t) ==
    /\ pc[t] = "submit"
    /\ \E x \in ServersOf(eng[t]) : jobs' = jobs \cup {<<t, x>>}
    /\ Step(t, "wait")
    /\ UNCHANGED <<leaders, workers, signalled, serves, external,
                   ownerVars, records, cooldown>>

\* A local 400/409 refusal: nothing was sent, the receipt is retired.
RefuseLocally(t) ==
    /\ pc[t] = "submit"
    /\ FinishInference(t)
    /\ Goto(t, "idle")
    /\ LeaveLock(t)
    /\ LeaveGuard(t)
    /\ ForgetLocals(t)
    /\ UNCHANGED <<treeVars, ownerVars, records, cooldown>>

MyJobs(t) == {j \in jobs : j[1] = t}

\* The complete response arrived: retire the receipt, then leave the guard.
Answered(t) ==
    /\ pc[t] = "wait"
    /\ MyJobs(t) = {}
    /\ FinishInference(t)
    /\ Goto(t, "idle")
    /\ LeaveLock(t)
    /\ LeaveGuard(t)
    /\ ForgetLocals(t)
    /\ UNCHANGED <<treeVars, ownerVars, records, cooldown>>

\* Mutant: an HTTP error or timeout counts as the end of the request.
OutcomeAssumed(t) ==
    /\ pc[t] \in {"submit", "wait"}
    /\ FinishInference(t)
    /\ Goto(t, "idle")
    /\ LeaveLock(t)
    /\ LeaveGuard(t)
    /\ ForgetLocals(t)
    /\ UNCHANGED <<treeVars, ownerVars, records, cooldown>>

\* Connection refused, lost or reset, an upstream error or the HTTP timeout:
\* nothing is known about the backend's work, so the receipt stays.
OutcomeUnknown(t) ==
    /\ pc[t] \in {"submit", "wait"}
    /\ Raise(t)
    /\ UNCHANGED <<treeVars, ownerVars, records, cooldown>>

-----------------------------------------------------------------------------
ClientCalls(t) ==
    \/ \E e \in Engines : \/ CallStart(t, e)   \/ CallStop(t, e)
                          \/ CallRestart(t, e) \/ CallStatus(t, e)
                          \/ CallSpeech(t, e)
    \/ CallShutdown(t)

StartSteps(t) ==
    \/ StartReap(t)           \/ StartDecide(t)   \/ EnforceReap(t)
    \/ EnforceSibling(t)      \/ EnforceDone(t)   \/ TakeSlot(t)
    \/ ReconcilePriorOwner(t) \/ PublishIntent(t) \/ SpawnEngine(t)
    \/ ConfirmLaunch(t)       \/ AbortLaunch(t)   \/ AbandonLaunch(t)
    \/ AwaitExited(t)         \/ AwaitReady(t)    \/ AwaitTimeout(t)

StopSteps(t) ==
    \/ StopReap(t)       \/ StopNothing(t)      \/ StopSignal(t)
    \/ StopVerify(t)     \/ StopReturns(t)      \/ SiblingStopped(t)
    \/ StartupTimedOut(t) \/ RestartContinues(t)
    \/ ShutdownNext(t)   \/ ShutdownDone(t)

SpeechSteps(t) ==
    \/ EnsureReady(t)   \/ AdmitInference(t) \/ Begin(t) \/ Submit(t)
    \/ RefuseLocally(t) \/ Answered(t)       \/ OutcomeUnknown(t)

ThreadStep(t) ==
    \/ GuardGroup(t) \/ GuardRefused(t) \/ Status(t)
    \/ StartSteps(t) \/ StopSteps(t)    \/ SpeechSteps(t)

Environment ==
    \/ ProcessTreeStep /\ UNCHANGED <<ownerVars, guardVars, supVars, pc, locals>>
    \/ \E c \in Ctrls : Crash(c) \/ CooldownExpires(c)
    \/ /\ OperatorClearsReceipt
       /\ UNCHANGED <<treeVars, guardVars, supVars, pc, locals>>
    \/ /\ OperatorReconcilesPending
       /\ UNCHANGED <<treeVars, ownerVars, supVars, pc, locals>>

Init == ProcessTreeInit /\ OwnerInit /\ GuardInit /\ SupervisorInit

Next ==
    \/ \E t \in Threads : ClientCalls(t) \/ LockSupervisor(t) \/ ThreadStep(t)
    \/ Environment

Spec == Init /\ [][Next]_vars

\* A thread inside a call keeps running, and a thread blocked on the RLock is
\* not starved for ever by the others.
Fairness == \A t \in Threads : WF_vars(ThreadStep(t)) /\ SF_vars(LockSupervisor(t))

FairSpec == Spec /\ Fairness

-----------------------------------------------------------------------------
(* Properties.                                                             *)

\* Every variable keeps its type.
TypeOK == ProcessTreeType /\ OwnerType /\ GuardType /\ SupervisorType

\* The GPU group never hosts two managed process trees, whatever controllers
\* crash and whichever leader dies before its workers (start, reconcile).
OneTree == Cardinality(Alive) <= 1

\* A live managed tree is always named by the durable owner receipt, through
\* a crash between publish_starting, Popen and publish_running and through
\* failed launches, so no later start can overlook it.
ReceiptCoversTree == Alive \subseteq {receipt.launch}

\* Whoever still lists a process in _owned holds the slot lease and its
\* receipt: neither a failed stop nor a status() that found surviving
\* descendants gives them away.
OwnerKeepsLease ==
    \A c \in Ctrls, e \in Engines :
        Owns(c, e) => slot = c /\ receipt = Running(owned[c][e])

\* While a backend may be computing, the pending receipt blocks the group:
\* after a timeout, a lost response or the death of the requesting process.
JobsLeaveEvidence == jobs # {} => pending # NoOne

\* The group computes at most one synthesis at a time.
OneJob == Cardinality(jobs) <= 1

\* No lifecycle operation signals an engine while a backend job is running,
\* of whichever thread or process, alive or dead.
NoSignalDuringInference ==
    [][\A n \in Launches : n \in signalled' \ signalled => jobs = {}]_vars

\* An engine in restart backoff is not launched by that controller before the
\* backoff expires or an explicit restart clears it.
BackoffRespected ==
    [][\A n \in Launches : n \in leaders' \ leaders =>
           \E t \in Threads : /\ pc[t] = "popen"
                              /\ launch[t] = n
                              /\ eng[t] \notin cooldown[Home[t]]]_vars

\* Every call ends, however the supervisor lock, the nonblocking guard and the
\* slot lease are interleaved: guard-then-lock in synthesize and
\* lock-then-guard in the lifecycle calls never wait for each other.
CallsEnd == \A t \in Threads : pc[t] # "idle" ~> pc[t] = "idle"

\* The runtime group implements the abstract group: whatever the controllers,
\* their crashes and their retries do, only the steps of GpuGroup reach the GPU.
Group == INSTANCE GpuGroup WITH
            Trees <- Launches, Clients <- Threads,
            residents <- Alive, doomed <- signalled, work <- jobs

ImplementsGroup == Group!Spec

\* docs/runtime-crash-loop-containment-v1.md: an intentional stop does not
\* create unexpected-exit backoff.
StopIsNoCrash ==
    [][\A c \in Ctrls, e \in Engines :
          e \in exitSeen'[c] \ exitSeen[c] => owned[c][e] \notin signalled]_vars

=============================================================================
