----------------------------- MODULE GroupGuard -----------------------------
(***************************************************************************)
(* The inference/lifecycle admission guard of the group                    *)
(* (server/runtime_inference_admission.py): a nonblocking activity lock    *)
(* held by one thread of one process, reentrant on that thread until it    *)
(* admits an inference, and the durable "inference-pending" receipt that   *)
(* outlives the lock when the outcome of a request is unknown.             *)
(***************************************************************************)
EXTENDS OwnerReceipt

VARIABLES
    activity,  \* the thread holding activity-<digest>.lock
    pending    \* the thread whose request the pending receipt names

guardVars == <<activity, pending>>

GuardType ==
    /\ activity \in Threads \cup {NoOne}
    /\ pending \in Threads \cup {NoOne}

GuardInit == activity = NoOne /\ pending = NoOne

\* Mutant: trusts the lock alone, as if a dead requester left no job behind.
EnterFreeGuard(t) ==
    /\ activity = NoOne
    /\ activity' = t
    /\ UNCHANGED pending

\* A thread enters an unheld guard only when no earlier outcome is open.
EnterGuard(t) ==
    /\ activity = NoOne
    /\ pending = NoOne
    /\ activity' = t
    /\ UNCHANGED pending

\* The nested call of the holder, legal until it has admitted an inference.
NestedGuard(t) == activity = t /\ pending # t

GuardDenied(t) ==
    IF activity = NoOne THEN pending # NoOne ELSE ~NestedGuard(t)

LeaveGuard(t) == activity' = IF activity = t THEN NoOne ELSE activity

BeginInference(t) ==
    /\ activity = t
    /\ pending = NoOne
    /\ pending' = t

FinishInference(t) ==
    /\ pending = t
    /\ pending' = NoOne

\* A host operator deletes the pending receipt after checking the backend is
\* idle and no CVS process is inside the guard.
OperatorReconcilesPending ==
    /\ activity = NoOne
    /\ pending # NoOne
    /\ jobs = {}
    /\ pending' = NoOne
    /\ UNCHANGED activity

=============================================================================
