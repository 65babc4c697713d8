---------------------- MODULE ExternalActivationProofs ----------------------
(***************************************************************************)
(* Activation commands are single-flight for any number of callers,        *)
(* engines and requests.                                                   *)
(*                                                                         *)
(* The argument.  Receipts and commands are written under the lease, the   *)
(* receipt first and only over none, so an unanswered command is the one   *)
(* the receipt names.  A receipt is removed by a caller that saw its       *)
(* engine healthy while holding the lease: from then on nothing is         *)
(* unanswered, and nobody else can publish before the removal.             *)
(***************************************************************************)
EXTENDS ExternalActivation, TLAPS

USE ExternalAssumption

LeaseHeld == \A c \in Callers : pc[c] \in Leased => lease = c

\* A command stops being unanswered the moment its engine is up.
AnsweredWhenAlive == \A m \in unanswered : ~Alive(m.engine)

\* What a caller knows of the receipt, and that its engine has answered.
Knows ==
    \A c \in Callers :
        /\ pc[c] \in {"command", "poll", "revalidate"} => receipt = Command(rid[c], eng[c])
        /\ pc[c] = "pending" /\ saw[c] => \A m \in unanswered : m.engine # eng[c]
        /\ pc[c] = "ack" => unanswered = {}

\* The inductive invariant.
Inv ==
    /\ TypeOK
    /\ LeaseHeld
    /\ AnsweredWhenAlive
    /\ Knows
    /\ UnansweredIsRecorded

\* Whoever leaves takes its knowledge along; the disk is untouched.
LEMMA ReturnKeeps ==
    ASSUME Inv, NEW c \in Callers, Return(c),
           UNCHANGED <<health, receipt, unanswered, eng>>
    PROVE  Inv'
<1>1. TypeOK'
    BY DEF Inv, TypeOK, Return, Goto
<1>2. LeaseHeld'
    BY DEF Inv, TypeOK, LeaseHeld, Return, Goto, Leased
<1>3. AnsweredWhenAlive' /\ UnansweredIsRecorded'
    BY DEF Inv, AnsweredWhenAlive, UnansweredIsRecorded, Alive
<1>4. Knows'
    BY DEF Inv, TypeOK, Knows, Return, Goto
<1>5. QED
    BY <1>1, <1>2, <1>3, <1>4 DEF Inv

-----------------------------------------------------------------------------
(* Each action preserves the invariant.                                    *)

LEMMA EnsureReadyKeeps ==
    ASSUME Inv, NEW c \in Callers, NEW e \in Engines, EnsureReady(c, e)
    PROVE  Inv'
<1>1. TypeOK'
    BY DEF Inv, TypeOK, Goto, EnsureReady
<1>2. LeaseHeld'
    BY DEF Inv, LeaseHeld, Leased, Goto, EnsureReady
<1>3. AnsweredWhenAlive' /\ UnansweredIsRecorded'
    BY DEF Inv, AnsweredWhenAlive, UnansweredIsRecorded, Alive, EnsureReady
<1>4. Knows'
    BY DEF Inv, Knows, Goto, EnsureReady
<1>5. QED
    BY <1>1, <1>2, <1>3, <1>4 DEF Inv

LEMMA ProbeFirstKeeps ==
    ASSUME Inv, NEW c \in Callers, ProbeFirst(c)
    PROVE  Inv'
<1>1. TypeOK'
    BY DEF Inv, TypeOK, Goto, ProbeFirst, Probe, Branch
<1>2. LeaseHeld'
    BY DEF Inv, TypeOK, LeaseHeld, Leased, Goto, ProbeFirst, Probe, Branch
<1>3. AnsweredWhenAlive' /\ UnansweredIsRecorded'
    BY DEF Inv, AnsweredWhenAlive, UnansweredIsRecorded, Alive, ProbeFirst, Probe
<1>4. Knows'
    BY DEF Inv, TypeOK, Knows, Goto, ProbeFirst, Probe, Branch
<1>5. QED
    BY <1>1, <1>2, <1>3, <1>4 DEF Inv

LEMMA AcquireKeeps ==
    ASSUME Inv, NEW c \in Callers, Acquire(c)
    PROVE  Inv'
<1>1. CASE Return(c) /\ UNCHANGED <<health, receipt, unanswered, eng>>
    BY <1>1, ReturnKeeps
<1>2. CASE ~(Return(c) /\ UNCHANGED <<health, receipt, unanswered, eng>>)
  <2>1. TypeOK'
      BY <1>2 DEF Inv, TypeOK, Leased, Goto, Acquire
  <2>2. LeaseHeld'
      BY <1>2 DEF Inv, TypeOK, LeaseHeld, Goto, Acquire
  <2>3. AnsweredWhenAlive' /\ UnansweredIsRecorded'
      BY <1>2 DEF Inv, AnsweredWhenAlive, UnansweredIsRecorded, Alive, Acquire
  <2>4. Knows'
      BY <1>2 DEF Inv, TypeOK, Knows, Goto, Acquire
  <2>5. QED
      BY <2>1, <2>2, <2>3, <2>4 DEF Inv
<1>3. QED
    BY <1>1, <1>2

LEMMA MatchReceiptKeeps ==
    ASSUME Inv, NEW c \in Callers, MatchReceipt(c)
    PROVE  Inv'
<1>1. CASE Return(c) /\ UNCHANGED <<health, receipt, unanswered, eng>>
    BY <1>1, ReturnKeeps
<1>2. CASE ~(Return(c) /\ UNCHANGED <<health, receipt, unanswered, eng>>)
  <2>1. TypeOK'
      BY <1>2 DEF Inv, TypeOK, Leased, Goto, None, MatchReceipt, Unreadable
  <2>2. LeaseHeld'
      BY <1>2 DEF Inv, TypeOK, LeaseHeld, Goto, MatchReceipt, Unreadable
  <2>3. AnsweredWhenAlive' /\ UnansweredIsRecorded'
      BY <1>2 DEF Inv, AnsweredWhenAlive, UnansweredIsRecorded, Alive, MatchReceipt
  <2>4. Knows'
      BY <1>2 DEF Inv, TypeOK, Knows, Goto, Pending, Command, MatchReceipt,
           Unreadable
  <2>5. QED
      BY <2>1, <2>2, <2>3, <2>4 DEF Inv
<1>3. QED
    BY <1>1, <1>2

LEMMA RevalidateKeeps ==
    ASSUME Inv, NEW c \in Callers, Revalidate(c)
    PROVE  Inv'
<1>1. CASE Return(c) /\ UNCHANGED <<health, receipt, unanswered, eng>>
    BY <1>1, ReturnKeeps
<1>2. CASE ~(Return(c) /\ UNCHANGED <<health, receipt, unanswered, eng>>)
  <2>1. TypeOK'
      BY <1>2 DEF Inv, TypeOK, Leased, Goto, Revalidate
  <2>2. LeaseHeld'
      BY <1>2 DEF Inv, TypeOK, LeaseHeld, Goto, Revalidate
  <2>3. AnsweredWhenAlive' /\ UnansweredIsRecorded'
      BY <1>2 DEF Inv, AnsweredWhenAlive, UnansweredIsRecorded, Alive, Revalidate
  <2>4. Knows'
      BY <1>2 DEF Inv, TypeOK, AnsweredWhenAlive, Knows, UnansweredIsRecorded, Goto,
           Command, Revalidate
  <2>5. QED
      BY <2>1, <2>2, <2>3, <2>4 DEF Inv
<1>3. QED
    BY <1>1, <1>2

\* A probe branches on what it saw, and sees only what is there.
LEMMA ProbeOutcome ==
    ASSUME TypeOK, NEW c \in Callers, NEW yes, NEW no, Probe(c, Branch(yes, no))
    PROVE  /\ \/ Alive(eng[c]) /\ saw' = [saw EXCEPT ![c] = TRUE] /\ Goto(c, yes)
              \/ saw' = [saw EXCEPT ![c] = FALSE] /\ Goto(c, no)
           /\ UNCHANGED <<health, lease, receipt, unanswered, eng, rid>>
<1>1. CASE Alive(eng[c]) /\ saw' = [saw EXCEPT ![c] = TRUE]
  <2>1. saw'[c] = TRUE
    BY <1>1 DEF TypeOK
  <2>2. QED
    BY <1>1, <2>1 DEF Probe, Branch
<1>2. CASE saw' = [saw EXCEPT ![c] = FALSE]
  <2>1. saw'[c] = FALSE
    BY <1>2 DEF TypeOK
  <2>2. QED
    BY <1>2, <2>1 DEF Probe, Branch
<1>3. QED
    BY <1>1, <1>2 DEF Probe

LEMMA ProbeLeasedKeeps ==
    ASSUME Inv, NEW c \in Callers, ProbeLeased(c)
    PROVE  Inv'
<1>1. TypeOK'
    BY DEF Inv, TypeOK, Leased, Goto, ProbeLeased, Probe, Branch
<1>2. LeaseHeld'
    BY DEF Inv, LeaseHeld, Leased, Goto, ProbeLeased, Probe
<1>3. AnsweredWhenAlive' /\ UnansweredIsRecorded'
    BY DEF Inv, AnsweredWhenAlive, UnansweredIsRecorded, Alive, ProbeLeased, Probe
<1>4. Knows'
  <2>1. Probe(c, Branch("pending", "pending")) /\ TypeOK
    BY SMT DEF ProbeLeased, Inv
  <2>2. CASE Alive(eng[c]) /\ saw' = [saw EXCEPT ![c] = TRUE] /\ Goto(c, "pending")
    BY <2>1, <2>2, ProbeOutcome DEF Inv, TypeOK, LeaseHeld, AnsweredWhenAlive,
         Knows, Goto, ProbeLeased
  <2>3. CASE saw' = [saw EXCEPT ![c] = FALSE] /\ Goto(c, "pending")
    BY <2>1, <2>3, ProbeOutcome DEF Inv, TypeOK, LeaseHeld, Knows, Goto
  <2>4. QED
    BY <2>1, <2>2, <2>3, ProbeOutcome
<1>5. QED
    BY <1>1, <1>2, <1>3, <1>4 DEF Inv

LEMMA InspectReceiptKeeps ==
    ASSUME Inv, NEW c \in Callers, InspectReceipt(c)
    PROVE  Inv'
<1>1. CASE Return(c) /\ UNCHANGED <<health, receipt, unanswered, eng>>
    BY <1>1, ReturnKeeps
<1>2. CASE ~(Return(c) /\ UNCHANGED <<health, receipt, unanswered, eng>>)
  <2>1. TypeOK'
      BY <1>2 DEF Inv, TypeOK, Leased, Goto, None, InspectReceipt, Unreadable
  <2>2. LeaseHeld'
      BY <1>2 DEF Inv, TypeOK, LeaseHeld, Goto, InspectReceipt, Unreadable
  <2>3. AnsweredWhenAlive' /\ UnansweredIsRecorded'
      BY <1>2 DEF Inv, AnsweredWhenAlive, UnansweredIsRecorded, Alive,
           InspectReceipt
  <2>4. Knows'
      BY <1>2 DEF Inv, TypeOK, Knows, UnansweredIsRecorded, Goto, InspectReceipt,
           Unreadable
  <2>5. QED
      BY <2>1, <2>2, <2>3, <2>4 DEF Inv
<1>3. QED
    BY <1>1, <1>2

LEMMA PublishReceiptKeeps ==
    ASSUME Inv, NEW c \in Callers, PublishReceipt(c)
    PROVE  Inv'
<1>1. CASE Return(c) /\ UNCHANGED <<health, receipt, unanswered, eng>>
    BY <1>1, ReturnKeeps
<1>2. CASE ~(Return(c) /\ UNCHANGED <<health, receipt, unanswered, eng>>)
  <2>1. TypeOK'
      BY <1>2 DEF Inv, TypeOK, Leased, Goto, Command, PublishReceipt
  <2>2. LeaseHeld'
      BY <1>2 DEF Inv, TypeOK, LeaseHeld, Goto, PublishReceipt
  <2>3. AnsweredWhenAlive' /\ UnansweredIsRecorded'
      BY <1>2 DEF Inv, TypeOK, AnsweredWhenAlive, UnansweredIsRecorded, Pending,
           None, PublishReceipt
  <2>4. Knows'
      BY <1>2 DEF Inv, TypeOK, AnsweredWhenAlive, Knows, UnansweredIsRecorded, Goto,
           Pending, None, Command, PublishReceipt
  <2>5. QED
      BY <2>1, <2>2, <2>3, <2>4 DEF Inv
<1>3. QED
    BY <1>1, <1>2

LEMMA PublishCommandKeeps ==
    ASSUME Inv, NEW c \in Callers, PublishCommand(c)
    PROVE  Inv'
<1>1. CASE Return(c) /\ UNCHANGED <<health, receipt, unanswered, eng>>
    BY <1>1, ReturnKeeps
<1>2. CASE ~(Return(c) /\ UNCHANGED <<health, receipt, unanswered, eng>>)
  <2>1. TypeOK'
      BY <1>2 DEF Inv, TypeOK, Knows, Leased, Goto, None, Command, PublishCommand
  <2>2. LeaseHeld'
      BY <1>2 DEF Inv, TypeOK, LeaseHeld, Goto, PublishCommand
  <2>3. AnsweredWhenAlive' /\ UnansweredIsRecorded'
      BY <1>2 DEF Inv, AnsweredWhenAlive, Knows, UnansweredIsRecorded, Alive,
           Command, PublishCommand
  <2>4. Knows'
      BY <1>2 DEF Inv, TypeOK, LeaseHeld, Knows, Goto, PublishCommand
  <2>5. QED
      BY <2>1, <2>2, <2>3, <2>4 DEF Inv
<1>3. QED
    BY <1>1, <1>2

LEMMA PollKeeps ==
    ASSUME Inv, NEW c \in Callers, Poll(c)
    PROVE  Inv'
<1>1. CASE Return(c) /\ UNCHANGED <<health, receipt, unanswered, eng>>
    BY <1>1, ReturnKeeps
<1>2. CASE ~(Return(c) /\ UNCHANGED <<health, receipt, unanswered, eng>>)
  <2>1. TypeOK'
      BY <1>2 DEF Inv, TypeOK, Leased, Goto, Poll, Probe, Branch
  <2>2. LeaseHeld'
      BY <1>2 DEF Inv, TypeOK, LeaseHeld, Goto, Poll, Probe
  <2>3. AnsweredWhenAlive' /\ UnansweredIsRecorded'
      BY <1>2 DEF Inv, AnsweredWhenAlive, UnansweredIsRecorded, Alive, Poll, Probe
  <2>4. Knows'
    <3>1. Probe(c, Branch("ack", "poll")) /\ TypeOK
      BY <1>2, SMT DEF Poll, Inv
    <3>2. CASE Alive(eng[c]) /\ saw' = [saw EXCEPT ![c] = TRUE] /\ Goto(c, "ack")
      <4>1. receipt.engine = eng[c]
        BY <1>2 DEF Poll, Inv, Knows, Command
      <4>2. unanswered = {}
        BY <3>2, <4>1 DEF Inv, AnsweredWhenAlive, UnansweredIsRecorded
      <4>3. QED
        BY <3>1, <3>2, <4>2, ProbeOutcome DEF Inv, TypeOK, Knows, Goto
    <3>3. CASE saw' = [saw EXCEPT ![c] = FALSE] /\ Goto(c, "poll")
      BY <3>1, <3>3, ProbeOutcome DEF Inv, TypeOK, LeaseHeld, Knows, Goto, Poll
    <3>4. QED
      BY <3>1, <3>2, <3>3, ProbeOutcome
  <2>5. QED
      BY <2>1, <2>2, <2>3, <2>4 DEF Inv
<1>3. QED
    BY <1>1, <1>2

LEMMA AcknowledgeKeeps ==
    ASSUME Inv, NEW c \in Callers, Acknowledge(c)
    PROVE  Inv'
<1>1. unanswered = {}
    BY DEF Acknowledge, Inv, Knows
<1>2. \A d \in Callers \ {c} : pc[d] \notin Leased
    BY DEF Acknowledge, Inv, LeaseHeld, Leased
<1>3. TypeOK'
    BY DEF Inv, TypeOK, Acknowledge, Return, Goto
<1>4. LeaseHeld'
    BY <1>2 DEF Inv, TypeOK, LeaseHeld, Acknowledge, Return, Goto, Leased
<1>5. AnsweredWhenAlive' /\ UnansweredIsRecorded'
    BY <1>1 DEF Acknowledge, AnsweredWhenAlive, UnansweredIsRecorded
<1>6. Knows'
    BY <1>1, <1>2 DEF Knows, Acknowledge, Return, Goto, Leased
<1>7. QED
    BY <1>3, <1>4, <1>5, <1>6 DEF Inv

LEMMA EngineChangesKeeps ==
    ASSUME Inv, NEW e \in Engines, NEW h \in Healths, EngineChanges(e, h)
    PROVE  Inv'
<1>1. TypeOK' /\ LeaseHeld' /\ UnansweredIsRecorded'
    BY DEF Inv, TypeOK, LeaseHeld, UnansweredIsRecorded, EngineChanges
<1>2. AnsweredWhenAlive'
    BY DEF Inv, AnsweredWhenAlive, EngineChanges, Alive
<1>3. Knows'
    BY DEF Inv, Knows, EngineChanges
<1>4. QED
    BY <1>1, <1>2, <1>3 DEF Inv

LEMMA OperatorReconcilesKeeps ==
    ASSUME Inv, OperatorReconciles
    PROVE  Inv'
<1>1. unanswered' = {}
    BY DEF Inv, UnansweredIsRecorded, OperatorReconciles
<1>2. \A c \in Callers : pc[c] \notin Leased
    BY DEF OperatorReconciles, Inv, LeaseHeld
<1>3. TypeOK'
    BY <1>1 DEF Inv, TypeOK, OperatorReconciles
<1>4. LeaseHeld' /\ Knows' /\ AnsweredWhenAlive' /\ UnansweredIsRecorded'
    BY <1>1, <1>2 DEF LeaseHeld, Knows, AnsweredWhenAlive, UnansweredIsRecorded,
         OperatorReconciles, Leased
<1>5. QED
    BY <1>3, <1>4 DEF Inv

-----------------------------------------------------------------------------
(* The theorem.                                                            *)

LEMMA InitInv == Init => Inv
<1>1. SUFFICES ASSUME Init
               PROVE  Inv
    OBVIOUS
<1>2. TypeOK
    BY <1>1 DEF Init, TypeOK
<1>3. unanswered = {} /\ \A c \in Callers : pc[c] = "idle"
    BY <1>1 DEF Init
<1>4. QED
    BY <1>2, <1>3 DEF Inv, LeaseHeld, AnsweredWhenAlive, Knows,
         UnansweredIsRecorded, Leased

LEMMA StepKeeps == Inv /\ [Next]_vars => Inv'
<1>1. SUFFICES ASSUME Inv, [Next]_vars
               PROVE  Inv'
    OBVIOUS
<1>2. ASSUME NEW c \in Callers, Step(c)
      PROVE  Inv'
    BY <1>1, <1>2, ProbeFirstKeeps, AcquireKeeps, MatchReceiptKeeps, RevalidateKeeps, AcknowledgeKeeps, ProbeLeasedKeeps, InspectReceiptKeeps, PublishReceiptKeeps, PublishCommandKeeps, PollKeeps DEF
         Step
<1>3. ASSUME NEW c \in Callers, NEW e \in Engines, EnsureReady(c, e)
      PROVE  Inv'
    BY <1>1, <1>3, EnsureReadyKeeps
<1>4. ASSUME NEW c \in Callers, Crash(c)
      PROVE  Inv'
    BY <1>1, <1>4, ReturnKeeps DEF Crash
<1>5. ASSUME NEW e \in Engines, NEW h \in Healths, EngineChanges(e, h)
      PROVE  Inv'
    BY <1>1, <1>5, EngineChangesKeeps
<1>6. CASE UNCHANGED vars
    BY <1>1, <1>6 DEF Inv, TypeOK, LeaseHeld, AnsweredWhenAlive, Knows,
         UnansweredIsRecorded, Alive, vars
<1>7. QED
    BY <1>1, <1>2, <1>3, <1>4, <1>5, <1>6, OperatorReconcilesKeeps DEF Next

\* For any number of callers, engines and requests, an activation command that
\* may still be acted upon is named by the receipt: runtime_external_activation
\* never issues a duplicate.
THEOREM SingleFlight == Spec => []UnansweredIsRecorded
<1>1. Inv => UnansweredIsRecorded
    BY DEF Inv
<1>2. QED
    BY InitInv, StepKeeps, <1>1, PTL DEF Spec

\* Every variable keeps its type, for any number of callers, engines and requests.
THEOREM ActivationTyped == Spec => []TypeOK
<1>1. Inv => TypeOK
    BY DEF Inv
<1>2. QED
    BY InitInv, StepKeeps, <1>1, PTL DEF Spec

-----------------------------------------------------------------------------
(* The callers keep the ledger of their service.                           *)

ServiceLedger == Ledger!ledgerVars

Writing == \E c \in Callers : Publishing(c)
Seeing == \E c \in Callers : HasSeen(c)

\* Who holds the lease is the only one that may be publishing or have seen.
LEMMA Alone ==
    ASSUME Inv, NEW c \in Callers, lease = c
    PROVE  /\ Writing <=> Publishing(c)
           /\ Seeing <=> HasSeen(c)
  BY DEF Inv, LeaseHeld, Leased, Writing, Seeing, Publishing, HasSeen

\* A step of one caller that moves nothing on disk and is not about the lease
\* shows only in that caller.
LEMMA OnlyCaller ==
    ASSUME NEW c \in Callers, UNCHANGED <<receipt, eng>>,
           \A d \in Callers \ {c} : pc'[d] = pc[d] /\ saw'[d] = saw[d],
           Publishing(c)' <=> Publishing(c), HasSeen(c)' <=> HasSeen(c)
    PROVE  (Writing' <=> Writing) /\ (Seeing' <=> Seeing)
  BY DEF Writing, Seeing, Publishing, HasSeen, Pending

\* The ledger stands still if nothing of it moves.
LEMMA LedgerStands ==
    ASSUME UNCHANGED <<health, receipt, unanswered>>, Writing' <=> Writing, Seeing' <=> Seeing
    PROVE  UNCHANGED ServiceLedger
  BY DEF ServiceLedger, Ledger!ledgerVars, Writing, Seeing, Alive

\* Who leaves never issues what it has recorded, or overlooks what it has seen.
LEMMA ReturnMaps ==
    ASSUME Inv, Inv', NEW c \in Callers, Return(c),
           UNCHANGED <<health, receipt, unanswered, eng>>
    PROVE  [Ledger!Next]_(Ledger!ledgerVars)
<1>1. /\ pc'[c] = "idle" /\ saw'[c] = FALSE
      /\ \A d \in Callers \ {c} : pc'[d] = pc[d] /\ saw'[d] = saw[d]
    BY DEF Inv, TypeOK, Return, Goto
<1>2. ~Publishing(c)' /\ ~HasSeen(c)'
    BY <1>1 DEF Publishing, HasSeen
<1>3. {e \in Engines : Alive(e)}' = {e \in Engines : Alive(e)}
    BY DEF Alive
<1>4. \A d \in Callers \ {c} :
          (Publishing(d)' <=> Publishing(d)) /\ (HasSeen(d)' <=> HasSeen(d))
    BY <1>1 DEF Publishing, HasSeen, Pending
<1>5. CASE Publishing(c)
  <2>1. lease = c
      BY <1>5 DEF Inv, LeaseHeld, Leased, Publishing
  <2>2. Writing /\ ~Seeing
      BY <1>5, <2>1, Alone DEF Publishing, HasSeen
  <2>3. ~Writing' /\ ~Seeing'
    <3>1. \A d \in Callers \ {c} : ~Publishing(d) /\ ~HasSeen(d)
        BY <2>1 DEF Inv, LeaseHeld, Leased, Publishing, HasSeen
    <3>2. QED
        BY <1>2, <1>4, <3>1 DEF Writing, Seeing
  <2>4. Ledger!Lapse
      BY <1>3, <2>2, <2>3 DEF Ledger!Lapse, Writing, Seeing
  <2>5. QED
      BY <2>4 DEF Ledger!Next
<1>6. CASE HasSeen(c)
  <2>1. lease = c
      BY <1>6 DEF Inv, LeaseHeld, Leased, HasSeen
  <2>2. ~Writing /\ Seeing
      BY <1>6, <2>1, Alone DEF Publishing, HasSeen
  <2>3. ~Writing' /\ ~Seeing'
    <3>1. \A d \in Callers \ {c} : ~Publishing(d) /\ ~HasSeen(d)
        BY <2>1 DEF Inv, LeaseHeld, Leased, Publishing, HasSeen
    <3>2. QED
        BY <1>2, <1>4, <3>1 DEF Writing, Seeing
  <2>4. Ledger!Overlook
      BY <1>3, <2>2, <2>3 DEF Ledger!Overlook, Writing, Seeing
  <2>5. QED
      BY <2>4 DEF Ledger!Next
<1>7. CASE ~Publishing(c) /\ ~HasSeen(c)
    BY <1>1, <1>2, <1>7, OnlyCaller, LedgerStands DEF ServiceLedger
<1>8. QED
    BY <1>5, <1>6, <1>7

\* Up to the receipt, and between two looks at it, nothing shows.
LEMMA QuietMaps ==
    ASSUME Inv, Inv', NEW c \in Callers,
           \/ \E e \in Engines : EnsureReady(c, e)
           \/ ProbeFirst(c)
           \/ Acquire(c)
           \/ MatchReceipt(c)
    PROVE  [Ledger!Next]_(Ledger!ledgerVars)
<1> USE DEF Goto
<1>1. CASE Return(c) /\ UNCHANGED <<health, receipt, unanswered, eng>>
    BY <1>1, ReturnMaps
<1>2. CASE ~(Return(c) /\ UNCHANGED <<health, receipt, unanswered, eng>>)
  <2>1. UNCHANGED <<health, receipt, unanswered>>
      BY DEF EnsureReady, ProbeFirst, Probe, Acquire, MatchReceipt
  <2>2. /\ \A d \in Callers \ {c} : /\ pc'[d] = pc[d] /\ saw'[d] = saw[d]
                                    /\ eng'[d] = eng[d]
        /\ pc[c] \notin {"command", "ack", "pending"}
        /\ pc'[c] \notin {"command", "ack", "pending"}
    <3>1. CASE \E e \in Engines : EnsureReady(c, e)
        BY <3>1 DEF EnsureReady, Inv, TypeOK
    <3>2. CASE ProbeFirst(c)
        BY <3>2 DEF ProbeFirst, Probe, Branch, Inv, TypeOK
    <3>3. CASE Acquire(c)
        BY <1>2, <3>3 DEF Acquire, Inv, TypeOK
    <3>4. CASE MatchReceipt(c)
        BY <1>2, <3>4 DEF MatchReceipt, Unreadable, Inv, TypeOK
    <3>5. QED
        BY <3>1, <3>2, <3>3, <3>4
  <2>3. (Writing' <=> Writing) /\ (Seeing' <=> Seeing)
      BY <2>1, <2>2 DEF Writing, Seeing, Publishing, HasSeen, Pending
  <2>4. QED
      BY <2>1, <2>3, LedgerStands DEF ServiceLedger
<1>3. QED
    BY <1>1, <1>2

\* The engine of the receipt is seen up, by a probe under the lease.
LEMMA Observed ==
    ASSUME Inv, Inv', NEW c \in Callers, lease = c, lease' = c,
           UNCHANGED <<health, receipt, unanswered, eng>>,
           ~Publishing(c), ~Publishing(c)',
           Pending, receipt.engine = eng[c], Alive(eng[c]), HasSeen(c)'
    PROVE  Ledger!Next
<1>1. ~Writing /\ ~Writing' /\ Seeing'
    BY Alone DEF Inv, LeaseHeld, Leased, Writing, Seeing, Publishing
<1>2. eng[c] \in Engines /\ receipt # None
    BY DEF Inv, TypeOK, Pending
<1>3. {e \in Engines : Alive(e)}' = {e \in Engines : Alive(e)}
    BY DEF Alive
<1>4. Ledger!Observe
    BY <1>1, <1>2, <1>3 DEF Ledger!Observe, Writing, Seeing
<1>5. QED
    BY <1>4 DEF Ledger!Next

LEMMA RevalidateMaps ==
    ASSUME Inv, Inv', NEW c \in Callers, Revalidate(c)
    PROVE  [Ledger!Next]_(Ledger!ledgerVars)
<1>1. CASE Return(c)
    BY <1>1, ReturnMaps DEF Revalidate
<1>2. CASE ~Return(c)
  <2>1. /\ pc[c] = "revalidate" /\ pc'[c] = "ack" /\ Alive(eng[c])
        /\ UNCHANGED <<health, lease, receipt, unanswered, eng>>
      BY <1>2 DEF Revalidate, Goto, Inv, TypeOK
  <2>2. lease = c /\ receipt = Command(rid[c], eng[c])
      BY <2>1 DEF Inv, LeaseHeld, Leased, Knows
  <2>3. Pending /\ receipt.engine = eng[c]
      BY <2>2 DEF Pending, Command, None
  <2>4. QED
      BY <2>1, <2>2, <2>3, Observed DEF Publishing, HasSeen
<1>3. QED
    BY <1>1, <1>2

\* The probe under the lease shows only if it sees the engine of the receipt.
LEMMA ProbeLeasedMaps ==
    ASSUME Inv, Inv', NEW c \in Callers, ProbeLeased(c)
    PROVE  [Ledger!Next]_(Ledger!ledgerVars)
<1>1. /\ pc[c] = "health" /\ lease = c /\ pc'[c] = "pending"
      /\ \A d \in Callers \ {c} : pc'[d] = pc[d] /\ saw'[d] = saw[d]
      /\ UNCHANGED <<health, lease, receipt, unanswered, eng>>
      /\ saw'[c] => Alive(eng[c])
    BY ProbeOutcome DEF ProbeLeased, Probe, Branch, Goto, Inv, TypeOK, LeaseHeld, Leased
<1>2. CASE saw'[c] /\ Pending /\ receipt.engine = eng[c]
    BY <1>1, <1>2, Observed DEF Publishing, HasSeen, Pending
<1>3. CASE ~(saw'[c] /\ Pending /\ receipt.engine = eng[c])
  <2>1. (Publishing(c)' <=> Publishing(c)) /\ (HasSeen(c)' <=> HasSeen(c))
      BY <1>1, <1>3 DEF Publishing, HasSeen, Pending
  <2>2. QED
      BY <1>1, <2>1, OnlyCaller, LedgerStands DEF ServiceLedger
<1>4. QED
    BY <1>2, <1>3

LEMMA InspectMaps ==
    ASSUME Inv, Inv', NEW c \in Callers, InspectReceipt(c)
    PROVE  [Ledger!Next]_(Ledger!ledgerVars)
<1>1. CASE Return(c)
    BY <1>1, ReturnMaps DEF InspectReceipt
<1>2. CASE ~Return(c)
  <2>1. /\ pc[c] = "pending"
        /\ \/ Pending /\ receipt.engine = eng[c] /\ saw[c] /\ pc'[c] = "ack"
           \/ ~Pending /\ ~saw[c] /\ pc'[c] = "receipt"
        /\ \A d \in Callers \ {c} : pc'[d] = pc[d]
        /\ UNCHANGED <<health, receipt, unanswered, eng, saw>>
      BY <1>2 DEF InspectReceipt, Unreadable, Goto, Inv, TypeOK
  <2>2. (Publishing(c)' <=> Publishing(c)) /\ (HasSeen(c)' <=> HasSeen(c))
      BY <2>1 DEF Publishing, HasSeen, Pending
  <2>3. QED
      BY <2>1, <2>2, OnlyCaller, LedgerStands DEF ServiceLedger
<1>3. QED
    BY <1>1, <1>2

LEMMA PublishReceiptMaps ==
    ASSUME Inv, Inv', NEW c \in Callers, PublishReceipt(c)
    PROVE  [Ledger!Next]_(Ledger!ledgerVars)
<1>1. CASE Return(c) /\ UNCHANGED receipt
    BY <1>1, ReturnMaps DEF PublishReceipt
<1>2. CASE ~(Return(c) /\ UNCHANGED receipt)
  <2>1. PICK r \in Requests :
            /\ pc[c] = "receipt" /\ ~Pending
            /\ receipt' = Command(r, eng[c])
            /\ pc' = [pc EXCEPT ![c] = "command"]
            /\ UNCHANGED <<health, lease, unanswered, eng, saw>>
      BY <1>2 DEF PublishReceipt, Goto
  <2>2. lease = c /\ lease' = c /\ pc'[c] = "command"
      BY <2>1 DEF Inv, TypeOK, LeaseHeld, Leased
  <2>3. ~Writing /\ ~Seeing
      BY <2>1, <2>2, Alone DEF Publishing, HasSeen
  <2>4. Writing' /\ ~Seeing'
      BY <2>2 DEF Inv, LeaseHeld, Leased, Writing, Seeing, Publishing, HasSeen
  <2>5. unanswered = {} /\ receipt = None
      BY <2>1 DEF Inv, TypeOK, UnansweredIsRecorded, Pending, None
  <2>6. receipt' \in [id : Requests, engine : Engines]
      BY <2>1 DEF Inv, TypeOK, Command
  <2>7. {e \in Engines : Alive(e)}' = {e \in Engines : Alive(e)}
      BY <2>1 DEF Alive
  <2>8. Ledger!Record(receipt')
      BY <2>1, <2>3, <2>4, <2>5, <2>7 DEF Ledger!Record, Writing, Seeing
  <2>9. QED
      BY <2>6, <2>8 DEF Ledger!Next
<1>3. QED
    BY <1>1, <1>2

LEMMA PublishCommandMaps ==
    ASSUME Inv, Inv', NEW c \in Callers, PublishCommand(c)
    PROVE  [Ledger!Next]_(Ledger!ledgerVars)
<1>1. CASE Return(c) /\ UNCHANGED unanswered
    BY <1>1, ReturnMaps DEF PublishCommand
<1>2. CASE ~(Return(c) /\ UNCHANGED unanswered)
  <2>1. /\ pc[c] = "command" /\ pc'[c] = "poll"
        /\ unanswered' = IF Alive(eng[c]) THEN unanswered
                         ELSE unanswered \cup {Command(rid[c], eng[c])}
        /\ UNCHANGED <<health, lease, receipt, eng, saw>>
      BY <1>2 DEF PublishCommand, Goto, Inv, TypeOK
  <2>2. lease = c /\ lease' = c /\ receipt = Command(rid[c], eng[c])
      BY <2>1 DEF Inv, LeaseHeld, Leased, Knows
  <2>3. Writing /\ ~Seeing
      BY <2>1, <2>2, Alone DEF Publishing, HasSeen
  <2>4. ~Writing' /\ ~Seeing'
      BY <2>1, <2>2 DEF Inv, LeaseHeld, Leased, Writing, Seeing, Publishing, HasSeen
  <2>5. receipt.engine = eng[c] /\ eng[c] \in Engines
      BY <2>2 DEF Command, Inv, TypeOK
  <2>6. {e \in Engines : Alive(e)}' = {e \in Engines : Alive(e)}
      BY <2>1 DEF Alive
  <2>7. Ledger!Issue
      BY <2>1, <2>2, <2>3, <2>4, <2>5, <2>6 DEF Ledger!Issue, Writing, Seeing
  <2>8. QED
      BY <2>7 DEF Ledger!Next
<1>3. QED
    BY <1>1, <1>2

LEMMA PollMaps ==
    ASSUME Inv, Inv', NEW c \in Callers, Poll(c)
    PROVE  [Ledger!Next]_(Ledger!ledgerVars)
<1>1. CASE Return(c) /\ UNCHANGED <<health, receipt, unanswered, eng>>
    BY <1>1, ReturnMaps
<1>2. CASE Probe(c, Branch("ack", "poll"))
  <2>1. /\ pc[c] = "poll" /\ lease = c /\ receipt = Command(rid[c], eng[c])
        /\ UNCHANGED <<health, lease, receipt, unanswered, eng>>
      BY <1>2 DEF Poll, Probe, Inv, LeaseHeld, Leased, Knows
  <2>2. Pending /\ receipt.engine = eng[c]
      BY <2>1 DEF Pending, Command, None
  <2>3. CASE Alive(eng[c]) /\ pc'[c] = "ack"
      BY <2>1, <2>2, <2>3, Observed DEF Publishing, HasSeen
  <2>4. CASE pc'[c] = "poll" /\ \A d \in Callers \ {c} : pc'[d] = pc[d] /\ saw'[d] = saw[d]
      BY <2>1, <2>4, OnlyCaller, LedgerStands DEF ServiceLedger, Publishing, HasSeen
  <2>5. Probe(c, Branch("ack", "poll")) /\ TypeOK
      BY <1>2 DEF Inv
  <2>6. CASE Alive(eng[c]) /\ saw' = [saw EXCEPT ![c] = TRUE] /\ Goto(c, "ack")
    <3>1. pc'[c] = "ack"
        BY <2>6 DEF Goto, Inv, TypeOK
    <3>2. QED
        BY <2>3, <2>6, <3>1
  <2>7. CASE saw' = [saw EXCEPT ![c] = FALSE] /\ Goto(c, "poll")
    <3>1. /\ pc'[c] = "poll"
          /\ \A d \in Callers \ {c} : pc'[d] = pc[d] /\ saw'[d] = saw[d]
        BY <2>7 DEF Goto, Inv, TypeOK
    <3>2. QED
        BY <2>4, <3>1
  <2>8. QED
      BY <2>5, <2>6, <2>7, ProbeOutcome
<1>3. QED
    BY <1>1, <1>2 DEF Poll

\* Only the receipt with this request's id is struck off, and it was seen.
LEMMA AcknowledgeMaps ==
    ASSUME Inv, Inv', NEW c \in Callers, Acknowledge(c)
    PROVE  [Ledger!Next]_(Ledger!ledgerVars)
<1>1. CASE UNCHANGED receipt
    BY <1>1, ReturnMaps DEF Acknowledge
<1>2. CASE ~UNCHANGED receipt
  <2>1. /\ pc[c] = "ack" /\ pc'[c] = "idle" /\ saw'[c] = FALSE
        /\ \A d \in Callers \ {c} : pc'[d] = pc[d] /\ saw'[d] = saw[d]
        /\ receipt' = None
        /\ UNCHANGED <<health, unanswered, eng>>
      BY <1>2 DEF Acknowledge, Return, Goto, Inv, TypeOK
  <2>2. lease = c
      BY <2>1 DEF Inv, LeaseHeld, Leased
  <2>3. ~Writing /\ Seeing
      BY <2>1, <2>2, Alone DEF Publishing, HasSeen
  <2>4. ~Writing' /\ ~Seeing'
    <3>1. \A d \in Callers \ {c} : pc[d] \notin Leased
        BY <2>2 DEF Inv, LeaseHeld
    <3>2. QED
        BY <2>1, <3>1 DEF Writing, Seeing, Publishing, HasSeen, Leased
  <2>5. {e \in Engines : Alive(e)}' = {e \in Engines : Alive(e)}
      BY <2>1 DEF Alive
  <2>6. Ledger!Retire
      BY <2>1, <2>3, <2>4, <2>5 DEF Ledger!Retire, Writing, Seeing
  <2>7. QED
      BY <2>6 DEF Ledger!Next
<1>3. QED
    BY <1>1, <1>2

LEMMA EngineMaps ==
    ASSUME Inv, Inv', NEW e \in Engines, NEW h \in Healths, EngineChanges(e, h)
    PROVE  [Ledger!Next]_(Ledger!ledgerVars)
<1> DEFINE U == {x \in Engines : Alive(x)}
<1>1. UNCHANGED <<receipt, pc, eng, saw>>
    BY DEF EngineChanges
<1>2. (Writing' <=> Writing) /\ (Seeing' <=> Seeing)
    BY <1>1 DEF Writing, Seeing, Publishing, HasSeen, Pending
<1>3. CASE h = "down"
  <2>1. U' = U \ {e} /\ unanswered' = unanswered
      BY <1>3 DEF EngineChanges, Alive, Inv, TypeOK
  <2>2. Ledger!Fall(e)
      BY <1>1, <1>2, <2>1 DEF Ledger!Fall, Writing, Seeing
  <2>3. QED
      BY <2>2 DEF Ledger!Next
<1>4. CASE h # "down"
  <2>1. U' = U \cup {e} /\ unanswered' = {m \in unanswered : m.engine # e}
      BY <1>4 DEF EngineChanges, Alive, Inv, TypeOK
  <2>2. Ledger!Rise(e)
      BY <1>1, <1>2, <2>1 DEF Ledger!Rise, Writing, Seeing
  <2>3. QED
      BY <2>2 DEF Ledger!Next
<1>5. QED
    BY <1>3, <1>4

\* The operator holds the lease: nobody publishes and nobody has seen.
LEMMA OperatorMaps ==
    ASSUME Inv, Inv', OperatorReconciles
    PROVE  Ledger!Next
<1>1. \A c \in Callers : pc[c] \notin Leased
    BY DEF OperatorReconciles, Inv, LeaseHeld
<1>2. ~Writing /\ ~Seeing /\ ~Writing' /\ ~Seeing'
    BY <1>1 DEF OperatorReconciles, Writing, Seeing, Publishing, HasSeen, Leased
<1>3. {e \in Engines : Alive(e)}' = {e \in Engines : Alive(e)}
    BY DEF OperatorReconciles, Alive
<1>4. Ledger!Withdraw
    BY <1>2, <1>3 DEF OperatorReconciles, Pending, Ledger!Withdraw, Writing, Seeing
<1>5. QED
    BY <1>4 DEF Ledger!Next

LEMMA LedgerStepMaps ==
    ASSUME Inv, Inv', [Next]_vars
    PROVE  [Ledger!Next]_(Ledger!ledgerVars)
<1>1. ASSUME NEW c \in Callers, Step(c) \/ \E e \in Engines : EnsureReady(c, e)
      PROVE  [Ledger!Next]_(Ledger!ledgerVars)
    BY <1>1, QuietMaps, RevalidateMaps, AcknowledgeMaps, ProbeLeasedMaps, InspectMaps,
       PublishReceiptMaps, PublishCommandMaps, PollMaps DEF Step
<1>2. ASSUME NEW c \in Callers, Crash(c)
      PROVE  [Ledger!Next]_(Ledger!ledgerVars)
    BY <1>2, ReturnMaps DEF Crash
<1>3. CASE UNCHANGED vars
    BY <1>3, LedgerStands DEF ServiceLedger, vars, Writing, Seeing, Publishing, HasSeen, Pending
<1>4. QED
    BY <1>1, <1>2, <1>3, EngineMaps, OperatorMaps DEF Next

\* For any callers, engines and requests: each intent is on record before its
\* only command, and goes only when its own engine was seen up under the lease.
THEOREM LedgerImplemented == Spec => ImplementsLedger
<1>1. Init => Ledger!Init
    BY DEF Init, Ledger!Init, Publishing, HasSeen
<1>2. Inv /\ Inv' /\ [Next]_vars => [Ledger!Next]_(Ledger!ledgerVars)
    BY LedgerStepMaps
<1>3. QED
    BY InitInv, StepKeeps, <1>1, <1>2, PTL DEF Spec, ImplementsLedger, Ledger!Spec

=============================================================================
