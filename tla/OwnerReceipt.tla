---------------------------- MODULE OwnerReceipt ----------------------------
(***************************************************************************)
(* The two records that say who owns the group's GPU slot: the OS slot     *)
(* lease (server/runtime_slot_lease.py), a nonblocking flock that dies     *)
(* with the CVS process holding it, and the durable owner receipt          *)
(* (server/runtime_orphan_receipt.py), which survives it.                  *)
(***************************************************************************)
EXTENDS ProcessTree

CONSTANTS
    Ctrls,     \* CVS controller processes sharing the slot directory
    NoOne,     \* nobody holds a lock
    NoLaunch   \* no launch id

ASSUME OwnerAssumption ==
    /\ NoOne \notin Ctrls \cup Threads
    /\ NoLaunch \notin Launches

VARIABLES
    slot,      \* the controller whose process holds <group>.lock
    receipt    \* the content of <group>.owner.json

ownerVars == <<slot, receipt>>

NoReceipt == [state |-> "none", launch |-> NoLaunch]
Starting(n) == [state |-> "starting", launch |-> n]
Running(n) == [state |-> "running", launch |-> n]

Receipts == {NoReceipt} \cup {Starting(n) : n \in Launches}
                        \cup {Running(n) : n \in Launches}

OwnerType == slot \in Ctrls \cup {NoOne} /\ receipt \in Receipts

OwnerInit == slot = NoOne /\ receipt = NoReceipt

\* acquire_runtime_slot: one flock for the whole host; a second open file in
\* the same process conflicts as well.
AcquireSlot(c) == slot = NoOne /\ slot' = c

ReleaseSlot == slot' = NoOne

\* reconcile_prior_owner accepts a receipt only when its leader is gone (dead,
\* or its pid reused by another process) and its session has no member left.
LeaderGone(r) == r.state = "running" /\ r.launch \notin leaders   \* mutant
ProvablyGone(r) == r.state = "running" /\ r.launch \notin Alive

\* A uuid nobody has seen: no live group, owner or receipt carries it.
PublishStarting(n) == receipt' = Starting(n)

PublishRunning(n) ==
    /\ receipt = Starting(n)
    /\ n \in leaders
    /\ receipt' = Running(n)

\* Mutant: overwrites the state and leaves the launch id behind.
BlankReceipt(n) ==
    /\ receipt = NoReceipt \/ receipt.launch = n
    /\ receipt' = [receipt EXCEPT !.state = "none"]

\* clear_launch_receipt: absent is fine, another launch's receipt is refused.
ClearLaunchReceipt(n) ==
    /\ receipt = NoReceipt \/ receipt.launch = n
    /\ receipt' = NoReceipt

\* A host operator deletes a receipt nobody can reconcile, having checked that
\* no engine of the group is left.
OperatorClearsReceipt ==
    /\ slot = NoOne
    /\ receipt # NoReceipt
    /\ receipt.launch \notin Alive
    /\ receipt' = NoReceipt
    /\ UNCHANGED slot

=============================================================================
