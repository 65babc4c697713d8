------------------------- MODULE ExternalActivation -------------------------
(***************************************************************************)
(* server/runtime_external_activation.py with the external half of the     *)
(* runtime supervisor: engines owned by an external System Supervisor.     *)
(* CVS only publishes an activation command, one per service key at a      *)
(* time, under an OS lease, after writing a pending receipt; the receipt   *)
(* goes when the engine was seen healthy.  The modules of the managed      *)
(* group share no state with this one.                                     *)
(*                                                                         *)
(* pc of a caller of ensure_ready: idle, probe; reconcile, match,          *)
(* revalidate (its engine answered); request, health, pending, receipt,    *)
(* command, poll (it did not); ack (acknowledge_activation, either way).   *)
(***************************************************************************)
EXTENDS Naturals

CONSTANTS
    Callers,   \* threads of CVS processes that share the request directory
    Engines,   \* external engines configured with the one service key
    Requests,  \* request ids; an id is reused once nothing refers to it
    NoOne, NoRequest

ASSUME ExternalAssumption ==
    /\ NoOne \notin Callers
    /\ NoRequest \notin Requests

VARIABLES
    health,      \* health[e]: down; slow (healthy, may miss a probe); up
    lease,       \* the caller holding the lock of the service key
    receipt,     \* the pending receipt, or None
    unanswered,  \* commands published, the engine down ever since (history)
    pc,
    eng,         \* the engine a caller asks for
    rid,         \* the request a caller published or read
    saw          \* what its last health probe answered

vars == <<health, lease, receipt, unanswered, pc, eng, rid, saw>>

Command(r, e) == [id |-> r, engine |-> e]
None == [id |-> NoRequest]
Pending == receipt # None
Healths == {"down", "slow", "up"}
Alive(e) == health[e] # "down"
Leased == {"match", "revalidate", "health", "pending", "receipt", "command", "poll", "ack"}

TypeOK ==
    /\ health \in [Engines -> Healths]
    /\ lease \in Callers \cup {NoOne}
    /\ receipt \in [id : Requests, engine : Engines] \cup {None}
    /\ unanswered \subseteq [id : Requests, engine : Engines]
    /\ pc \in [Callers -> {"idle", "probe", "reconcile", "request"} \cup Leased]
    /\ eng \in [Callers -> Engines]
    /\ rid \in [Callers -> Requests \cup {NoRequest}]
    /\ saw \in [Callers -> BOOLEAN]

Init ==
    /\ health \in [Engines -> Healths]
    /\ lease = NoOne
    /\ receipt = None
    /\ unanswered = {}
    /\ pc = [c \in Callers |-> "idle"]
    /\ eng \in [Callers -> Engines]
    /\ rid = [c \in Callers |-> NoRequest]
    /\ saw = [c \in Callers |-> FALSE]

-----------------------------------------------------------------------------
Goto(c, l) == pc' = [pc EXCEPT ![c] = l]

\* Every way out of ensure_ready, answer or exception, releases the lease.
Return(c) ==
    /\ Goto(c, "idle")
    /\ lease' = IF lease = c THEN NoOne ELSE lease
    /\ rid' = [rid EXCEPT ![c] = NoRequest]
    /\ saw' = [saw EXCEPT ![c] = FALSE]

EnsureReady(c, e) ==
    /\ pc[c] = "idle"
    /\ Goto(c, "probe")
    /\ eng' = [eng EXCEPT ![c] = e]
    /\ UNCHANGED <<health, lease, receipt, unanswered, rid, saw>>

\* _health: an engine that is down is never seen healthy.
Probe(c, next) ==
    /\ \/ Alive(eng[c]) /\ saw' = [saw EXCEPT ![c] = TRUE]
       \/ health[eng[c]] # "up" /\ saw' = [saw EXCEPT ![c] = FALSE]
    /\ Goto(c, next[saw'[c]])
    /\ UNCHANGED <<health, lease, receipt, unanswered, eng, rid>>

Branch(yes, no) == [b \in BOOLEAN |-> IF b THEN yes ELSE no]

ProbeFirst(c) == pc[c] = "probe" /\ Probe(c, Branch("reconcile", "request"))

\* acquire_activation_lease never waits: somebody else's lease is a refusal.
Acquire(c) ==
    /\ pc[c] \in {"reconcile", "request"}
    /\ \/ /\ lease = NoOne
          /\ lease' = c
          /\ Goto(c, IF pc[c] = "reconcile" THEN "match" ELSE "health")
          /\ UNCHANGED <<rid, saw>>
       \/ lease # NoOne /\ Return(c)
    /\ UNCHANGED <<health, receipt, unanswered, eng>>

Unreadable(c) == Return(c)   \* the receipt exists and cannot be read

\* Mutants: the health sample taken before the lease is trusted; a healthy
\* engine does not look for a receipt.
MatchTrusting(c) ==
    /\ pc[c] = "match"
    /\ \/ /\ Pending /\ receipt.engine = eng[c]
          /\ rid' = [rid EXCEPT ![c] = receipt.id]
          /\ Goto(c, "ack")
          /\ UNCHANGED <<lease, saw>>
       \/ ~(Pending /\ receipt.engine = eng[c]) /\ Return(c)
    /\ UNCHANGED <<health, receipt, unanswered, eng>>
MatchNothing(c) ==
    /\ pc[c] = "match"
    /\ Return(c)
    /\ UNCHANGED <<health, receipt, unanswered, eng>>

\* _reconcile_healthy_external_activation under its lease.
MatchReceipt(c) ==
    /\ pc[c] = "match"
    /\ \/ /\ Pending /\ receipt.engine = eng[c]
          /\ rid' = [rid EXCEPT ![c] = receipt.id]
          /\ Goto(c, "revalidate")
          /\ UNCHANGED <<lease, saw>>
       \/ ~(Pending /\ receipt.engine = eng[c]) /\ Return(c)
       \/ Pending /\ Unreadable(c)
    /\ UNCHANGED <<health, receipt, unanswered, eng>>

Revalidate(c) ==
    /\ pc[c] = "revalidate"
    /\ \/ Alive(eng[c]) /\ Goto(c, "ack") /\ UNCHANGED <<lease, rid, saw>>
       \/ health[eng[c]] # "up" /\ Return(c)
    /\ UNCHANGED <<health, receipt, unanswered, eng>>

\* acknowledge_activation: only the receipt with this request's id goes.
Acknowledge(c) ==
    /\ pc[c] = "ack"
    /\ receipt' \in IF Pending /\ receipt.id = rid[c] THEN {None, receipt} ELSE {receipt}
    /\ Return(c)
    /\ UNCHANGED <<health, unanswered, eng>>

-----------------------------------------------------------------------------
(* _request_external_activation under its lease.                           *)

ProbeLeased(c) == pc[c] = "health" /\ Probe(c, Branch("pending", "pending"))

\* Mutant: the receipt of another engine of the service is taken for one's own.
InspectAnyEngine(c) ==
    /\ pc[c] = "pending"
    /\ \/ /\ Pending /\ saw[c]
          /\ rid' = [rid EXCEPT ![c] = receipt.id]
          /\ Goto(c, "ack")
          /\ UNCHANGED <<lease, saw>>
       \/ ~Pending /\ ~saw[c] /\ Goto(c, "receipt") /\ UNCHANGED <<lease, rid, saw>>
       \/ Pending # saw[c] /\ Return(c)
    /\ UNCHANGED <<health, receipt, unanswered, eng>>

InspectReceipt(c) ==
    /\ pc[c] = "pending"
    /\ \/ /\ Pending /\ receipt.engine = eng[c] /\ saw[c]
          /\ rid' = [rid EXCEPT ![c] = receipt.id]
          /\ Goto(c, "ack")
          /\ UNCHANGED <<lease, saw>>
       \/ ~Pending /\ ~saw[c] /\ Goto(c, "receipt") /\ UNCHANGED <<lease, rid, saw>>
       \/ Pending # saw[c] /\ Return(c)
       \/ Pending /\ receipt.engine # eng[c] /\ Return(c)
       \/ Pending /\ Unreadable(c)
    /\ UNCHANGED <<health, receipt, unanswered, eng>>

Fresh(r) ==
    /\ receipt.id # r
    /\ \A m \in unanswered : m.id # r
    /\ \A c \in Callers : rid[c] # r

\* publish_activation, first half: the intent is durable before the command.
PublishReceipt(c) ==
    /\ pc[c] = "receipt"
    /\ \/ /\ ~Pending
          /\ \E r \in Requests :
                /\ Fresh(r)
                /\ rid' = [rid EXCEPT ![c] = r]
                /\ receipt' = Command(r, eng[c])
          /\ Goto(c, "command")
          /\ UNCHANGED <<lease, saw>>
       \/ Return(c) /\ UNCHANGED receipt
    /\ UNCHANGED <<health, unanswered, eng>>

\* Second half: the command becomes visible at once, or its write failed.
PublishCommand(c) ==
    /\ pc[c] = "command"
    /\ \/ /\ unanswered' = IF Alive(eng[c]) THEN unanswered
                            ELSE unanswered \cup {Command(rid[c], eng[c])}
          /\ Goto(c, "poll")
          /\ UNCHANGED <<lease, rid, saw>>
       \/ Return(c) /\ UNCHANGED unanswered
    /\ UNCHANGED <<health, receipt, eng>>

\* The wait for health, then the timeout: the receipt stays.
Poll(c) ==
    /\ pc[c] = "poll"
    /\ \/ Probe(c, Branch("ack", "poll"))
       \/ Return(c) /\ UNCHANGED <<health, receipt, unanswered, eng>>

Step(c) ==
    \/ ProbeFirst(c) \/ Acquire(c) \/ MatchReceipt(c) \/ Revalidate(c)
    \/ Acknowledge(c) \/ ProbeLeased(c) \/ InspectReceipt(c)
    \/ PublishReceipt(c) \/ PublishCommand(c) \/ Poll(c)

-----------------------------------------------------------------------------
\* A caller's process dies; the OS gives its lease back.
Crash(c) ==
    /\ pc[c] # "idle"
    /\ Return(c)
    /\ UNCHANGED <<health, receipt, unanswered, eng>>

\* The external supervisor, or anybody else, brings an engine up or down.
EngineChanges(e, h) ==
    /\ health' = [health EXCEPT ![e] = h]
    /\ unanswered' = IF h = "down" THEN unanswered
                     ELSE {m \in unanswered : m.engine # e}
    /\ UNCHANGED <<lease, receipt, pc, eng, rid, saw>>

\* Controlled maintenance: the operator withdraws the command, then the receipt.
OperatorReconciles ==
    /\ lease = NoOne
    /\ Pending
    /\ receipt' = None
    /\ unanswered' = unanswered \ {receipt}
    /\ UNCHANGED <<health, lease, pc, eng, rid, saw>>

Next ==
    \/ \E c \in Callers :
          Step(c) \/ Crash(c) \/ \E e \in Engines : EnsureReady(c, e)
    \/ \E e \in Engines : \E h \in Healths : EngineChanges(e, h)
    \/ OperatorReconciles

Spec == Init /\ [][Next]_vars

\* Requests keep coming and run; and what is tried again and again while it is
\* possible is not refused, failed or cut off by a crash every time.
Fairness ==
    \A c \in Callers :
        /\ WF_vars(\E e \in Engines : EnsureReady(c, e))
        /\ WF_vars(Step(c))
        /\ SF_vars(ProbeFirst(c))
        /\ SF_vars(Acquire(c) /\ pc'[c] = "match")
        /\ SF_vars(Revalidate(c) /\ pc'[c] = "ack")
        /\ SF_vars(MatchReceipt(c) /\ pc'[c] = "revalidate")
        /\ SF_vars(Acknowledge(c) /\ receipt' = None)
FairSpec == Spec /\ Fairness

-----------------------------------------------------------------------------
\* A command the external supervisor may still act upon is named by the
\* durable receipt, whoever crashed or timed out since; so there is never a
\* second one, for this engine or another of the same service.
UnansweredIsRecorded == unanswered \subseteq {receipt}

\* A late activation is not a dead end: once the engine stays healthy and is
\* the one the callers ask for, later requests retire its receipt without an
\* operator, whatever was pending for another engine of the service before.
LateHealthRecovers ==
    \A e \in Engines :
        <>[](health[e] = "up" /\ \A c \in Callers : eng[c] = e)
            => []<>(~Pending \/ receipt.engine # e)

-----------------------------------------------------------------------------
(* What the callers implement together.                                    *)

\* Under its lease a caller may have published the receipt and not yet the
\* command, or have seen the engine of the receipt up.
Publishing(c) == pc[c] = "command"
HasSeen(c) == \/ pc[c] = "ack"
              \/ pc[c] = "pending" /\ saw[c] /\ Pending /\ receipt.engine = eng[c]

Ledger == INSTANCE ActivationLedger WITH
    Commands <- [id : Requests, engine : Engines], Nothing <- None,
    intent <- receipt,
    fresh <- \E c \in Callers : Publishing(c),
    seen <- \E c \in Callers : HasSeen(c),
    working <- unanswered,
    up <- {e \in Engines : Alive(e)}

\* Callers that crash, time out and see an engine up or down at any moment keep
\* the ledger of their service: each intent is recorded before its only command
\* and struck off only after its own engine was seen up.
ImplementsLedger == Ledger!Spec

=============================================================================
