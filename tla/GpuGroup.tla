------------------------------ MODULE GpuGroup ------------------------------
(***************************************************************************)
(* What an exclusive GPU group promises its users, without supervisors,    *)
(* locks, receipts or crashes: one resident process tree, one job, no tree *)
(* loaded or evicted under a running job.                                  *)
(* Stated by docs/runtime-gpu-group-inflight-guard-v1.md and               *)
(* docs/runtime-orphan-ownership-receipt-v1.md; SpeechService implements it.  *)
(***************************************************************************)
CONSTANTS Trees, Clients, Servers

VARIABLES residents,  \* process trees that may hold GPU memory
          doomed,     \* trees told to terminate
          work        \* <<client, server>> jobs being computed

groupVars == <<residents, doomed, work>>

Init == residents = {} /\ doomed = {} /\ work = {}

\* A tree is loaded into an empty, idle group.
Load(n) ==
    /\ residents = {}
    /\ work = {}
    /\ residents' = {n}
    /\ doomed' = doomed \ {n}
    /\ UNCHANGED work

\* A tree is told to go only while nothing is being computed.
Evict(n) ==
    /\ n \in residents
    /\ work = {}
    /\ doomed' = doomed \cup {n}
    /\ UNCHANGED <<residents, work>>

\* A tree disappears, told to or not, and takes its job along.
Vacate(n) ==
    /\ n \in residents
    /\ residents' = residents \ {n}
    /\ work' = {j \in work : j[2] # n}
    /\ UNCHANGED doomed

\* One job at a time.
Accept(j) ==
    /\ work = {}
    /\ work' = {j}
    /\ UNCHANGED <<residents, doomed>>

Finish ==
    /\ work # {}
    /\ work' = {}
    /\ UNCHANGED <<residents, doomed>>

Next ==
    \/ \E n \in Trees : Load(n) \/ Evict(n) \/ Vacate(n)
    \/ \E j \in Clients \X Servers : Accept(j)
    \/ Finish

Spec == Init /\ [][Next]_groupVars

=============================================================================
