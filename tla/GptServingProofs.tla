-------------------------- MODULE GptServingProofs --------------------------
(***************************************************************************)
(* The serving transaction is safe for any number of CVS processes,        *)
(* threads, endpoints and voices.                                          *)
(*                                                                         *)
(* The argument.  The receipt is published only when none is there, and a  *)
(* backend that may be busy always has one, so a transaction starts on an  *)
(* idle backend; the lease keeps it to one thread and the receipt to one   *)
(* request at a time even after that thread is gone.  The weights a stage  *)
(* relies on can then only be disturbed by a restart.                      *)
(***************************************************************************)
EXTENDS GptServing, TLAPS, FiniteSetTheorems

USE GptAssumption

\* Inside the mutex and inside the lease a thread holds them.
Held ==
    /\ \A t \in Threads : pc[t] \in Locked => mutex[Home[t]] = t
    /\ \A t \in Threads : pc[t] \in Leased => lease[ep[t]] = t

\* An open transaction is the one its endpoint's receipt names.
Recorded == \A t \in Threads : pc[t] \in Open => receipt[ep[t]] = t

\* Between two calls of a transaction its backend is idle; during one it has
\* received that call and nothing else.
Quiet ==
    /\ \A t \in Threads : pc[t] \in {"select", "send", "finish"} => inbox[ep[t]] = {}
    /\ \A t \in Threads : pc[t] = "wait" =>
          inbox[ep[t]] \subseteq {Call(t, stage[t], want[t])}
    /\ \A t \in Threads : replied[t] => pc[t] = "wait" /\ inbox[ep[t]] = {}
    /\ \A b \in Endpoints : \A x, y \in inbox[b] : x = y

\* What the transaction has loaded so far, unless the backend restarted.
SovitsLoaded(t) == stage[t] # "sovits" \/ replied[t]
GptLoaded(t) == stage[t] = "tts" \/ (stage[t] = "gpt" /\ replied[t])
Loading ==
    \A t \in Threads :
        pc[t] \in {"send", "wait"} /\ want[t] # External /\ ~restarted[ep[t]] =>
            /\ SovitsLoaded(t) => loaded[ep[t]].sovits = want[t]
            /\ GptLoaded(t) => loaded[ep[t]].gpt = want[t]

\* The inductive invariant.
Inv ==
    /\ TypeOK
    /\ Held
    /\ Recorded
    /\ Quiet
    /\ Loading
    /\ UnresolvedIsRecorded
    /\ SpeaksWithItsVoice
    /\ ConflictBeforeReceipt

-----------------------------------------------------------------------------
(* Each action preserves the invariant.                                    *)

\* Leaving with the receipt untouched keeps the invariant.
LEMMA ReturnKeeps ==
    ASSUME Inv, NEW t \in Threads, Return(t),
           UNCHANGED <<backendVars, active, receipt>>
    PROVE  Inv'
<1>1. TypeOK'
  BY DEF TypeOK, Models, Calls, Leased, Locked, Open, backendVars, Return, Goto, Inv
<1>2. Held'
  BY DEF TypeOK, Held, Leased, Locked, Open, Return, Goto, Inv
<1>3. Recorded'
  BY DEF TypeOK, Recorded, Open, Return, Goto, Inv
<1>4. Quiet'
  BY DEF TypeOK, Quiet, backendVars, Return, Goto, Inv
<1>5. Loading'
  BY DEF TypeOK, Loading, backendVars, Return, Goto, Inv, SovitsLoaded, GptLoaded
<1>6. UnresolvedIsRecorded'
  BY DEF UnresolvedIsRecorded, backendVars, Inv
<1>7. SpeaksWithItsVoice'
  BY DEF SpeaksWithItsVoice, backendVars, Inv
<1>8. ConflictBeforeReceipt'
  BY DEF TypeOK, ConflictBeforeReceipt, ModeConflict, Open, Return, Goto, Inv
<1> QED
  BY <1>1, <1>2, <1>3, <1>4, <1>5, <1>6, <1>7, <1>8 DEF Inv

\* A new request touches nothing shared.
LEMMA SynthesizeKeeps ==
    ASSUME Inv, NEW t \in Threads, NEW v \in Models, Synthesize(t, v)
    PROVE  Inv'
<1>1. TypeOK'
  BY DEF TypeOK, Leased, Locked, Open, Synthesize, backendVars, Goto, Inv
<1>2. Held'
  BY DEF Held, Leased, Locked, Open, Synthesize, Goto, Inv
<1>3. Recorded'
  BY DEF Recorded, Open, Synthesize, Goto, Inv
<1>4. Quiet'
  BY DEF Held, Quiet, UnresolvedIsRecorded, Synthesize, backendVars, Goto, Inv
<1>5. Loading'
  BY DEF Loading, Synthesize, backendVars, Goto, Inv, SovitsLoaded, GptLoaded
<1>6. UnresolvedIsRecorded'
  BY DEF UnresolvedIsRecorded, Synthesize, backendVars, Inv
<1>7. SpeaksWithItsVoice'
  BY DEF SpeaksWithItsVoice, Synthesize, backendVars, Inv
<1>8. ConflictBeforeReceipt'
  BY DEF ConflictBeforeReceipt, ModeConflict, Open, Synthesize, Goto, Inv
<1> QED
  BY <1>1, <1>2, <1>3, <1>4, <1>5, <1>6, <1>7, <1>8 DEF Inv

\* The mutex is taken free and the endpoint frozen.
LEMMA EnterBackendKeeps ==
    ASSUME Inv, NEW t \in Threads, EnterBackend(t)
    PROVE  Inv'
<1>1. TypeOK'
  BY DEF TypeOK, Locked, EnterBackend, backendVars, Goto, Inv
<1>2. Held'
  BY DEF TypeOK, Held, Leased, Open, EnterBackend, Goto, Inv
<1>3. Recorded'
  BY DEF Recorded, Open, EnterBackend, Goto, Inv
<1>4. Quiet'
  BY DEF TypeOK, Quiet, EnterBackend, backendVars, Goto, Inv
<1>5. Loading'
  BY DEF Loading, EnterBackend, backendVars, Goto, Inv, SovitsLoaded, GptLoaded
<1>6. UnresolvedIsRecorded'
  BY DEF UnresolvedIsRecorded, EnterBackend, backendVars, Inv
<1>7. SpeaksWithItsVoice'
  BY DEF SpeaksWithItsVoice, EnterBackend, backendVars, Inv
<1>8. ConflictBeforeReceipt'
  BY DEF ConflictBeforeReceipt, ModeConflict, Open, EnterBackend, Goto, Inv
<1> QED
  BY <1>1, <1>2, <1>3, <1>4, <1>5, <1>6, <1>7, <1>8 DEF Inv

\* The lease is taken free, or the request ends.
LEMMA AcquireLeaseKeeps ==
    ASSUME Inv, NEW t \in Threads, AcquireLease(t)
    PROVE  Inv'
<1>1. CASE Goto(t, "begin")
  <2>1. TypeOK'
    BY <1>1 DEF TypeOK, Models, Leased, Locked, Open, AcquireLease, backendVars,
         requests, Goto, Return, Inv
  <2>2. Held'
    BY <1>1 DEF TypeOK, Held, Locked, AcquireLease, requests, Goto, Return, Inv
  <2>3. Recorded'
    BY <1>1 DEF TypeOK, Recorded, Open, AcquireLease, requests, Goto, Return, Inv
  <2>4. Quiet'
    BY <1>1 DEF TypeOK, Quiet, AcquireLease, backendVars, requests, Goto, Return,
         Inv
  <2>5. Loading'
    BY <1>1 DEF TypeOK, Loading, AcquireLease, backendVars, requests, Goto, Return,
         Inv, SovitsLoaded, GptLoaded
  <2>6. UnresolvedIsRecorded'
    BY <1>1 DEF UnresolvedIsRecorded, AcquireLease, backendVars, Inv
  <2>7. SpeaksWithItsVoice'
    BY <1>1 DEF SpeaksWithItsVoice, AcquireLease, backendVars, Inv
  <2>8. ConflictBeforeReceipt'
    BY <1>1 DEF TypeOK, ConflictBeforeReceipt, ModeConflict, Open, AcquireLease,
         requests, Goto, Return, Inv
  <2> QED
    BY <2>1, <2>2, <2>3, <2>4, <2>5, <2>6, <2>7, <2>8 DEF Inv
<1>2. CASE ~Goto(t, "begin")
  BY <1>2, ReturnKeeps DEF AcquireLease
<1> QED
  BY <1>1, <1>2

\* The receipt is published only over none, so the backend is idle.
LEMMA BeginTransactionKeeps ==
    ASSUME Inv, NEW t \in Threads, BeginTransaction(t)
    PROVE  Inv'
<1>1. CASE Goto(t, "select")
  <2>9. /\ pc[t] = "begin"
        /\ ~ModeConflict(t)
        /\ receipt[ep[t]] = NoOne
        /\ receipt' = [receipt EXCEPT ![ep[t]] = t]
        /\ restarted' = [restarted EXCEPT ![ep[t]] = FALSE]
        /\ pc' = [pc EXCEPT ![t] = "select"]
        /\ UNCHANGED <<mutex, lease, requests, replied,
                       endpoint, inbox, loaded, active>>
    BY <1>1 DEF BeginTransaction, Return, Goto, Inv, TypeOK
  <2>1. TypeOK'
    BY <2>9 DEF TypeOK, Leased, Locked, Open, requests, Inv
  <2>2. Held'
    BY <2>9 DEF Held, Leased, Locked, requests, Inv
  <2>3. Recorded'
    BY <2>9 DEF TypeOK, Recorded, requests, Inv
  <2>4. Quiet'
    BY <2>9 DEF TypeOK, Quiet, UnresolvedIsRecorded, requests, Inv
  <2>5. Loading'
    BY <2>9 DEF Recorded, Loading, Open, requests, Inv, SovitsLoaded, GptLoaded
  <2>6. UnresolvedIsRecorded'
    BY <2>9 DEF UnresolvedIsRecorded, Inv
  <2>7. SpeaksWithItsVoice'
    BY <2>9 DEF UnresolvedIsRecorded, SpeaksWithItsVoice, Inv
  <2>8. ConflictBeforeReceipt'
    BY <2>9 DEF ConflictBeforeReceipt, ModeConflict, requests, Inv
  <2> QED
    BY <2>1, <2>2, <2>3, <2>4, <2>5, <2>6, <2>7, <2>8 DEF Inv
<1>2. CASE ~Goto(t, "select")
  BY <1>2, ReturnKeeps DEF BeginTransaction, backendVars
<1> QED
  BY <1>1, <1>2

\* The first stage is chosen.
LEMMA SelectModelKeeps ==
    ASSUME Inv, NEW t \in Threads, SelectModel(t)
    PROVE  Inv'
<1>1. CASE Goto(t, "send")
  <2>1. TypeOK'
    BY <1>1 DEF TypeOK, Calls, Leased, Locked, Open, SelectModel, backendVars, Goto,
         Return, Inv
  <2>2. Held'
    BY <1>1 DEF TypeOK, Held, Locked, SelectModel, Goto, Return, Inv
  <2>3. Recorded'
    BY <1>1 DEF TypeOK, Recorded, Open, SelectModel, Goto, Return, Inv
  <2>4. Quiet'
    BY <1>1 DEF TypeOK, Quiet, SelectModel, backendVars, Goto, Return, Inv
  <2>5. Loading'
    BY <1>1 DEF TypeOK, Quiet, Loading, SelectModel, backendVars, Goto, Return, Inv,
         SovitsLoaded, GptLoaded
  <2>6. UnresolvedIsRecorded'
    BY <1>1 DEF UnresolvedIsRecorded, SelectModel, backendVars, Inv
  <2>7. SpeaksWithItsVoice'
    BY <1>1 DEF SpeaksWithItsVoice, SelectModel, backendVars, Inv
  <2>8. ConflictBeforeReceipt'
    BY <1>1 DEF ConflictBeforeReceipt, ModeConflict, Open, SelectModel, Goto, Inv
  <2> QED
    BY <2>1, <2>2, <2>3, <2>4, <2>5, <2>6, <2>7, <2>8 DEF Inv
<1>2. CASE ~Goto(t, "send")
  BY <1>2, ReturnKeeps DEF SelectModel
<1> QED
  BY <1>1, <1>2

\* A call is submitted to an idle backend with the weights of its stage.
LEMMA SubmitKeeps ==
    ASSUME Inv, NEW t \in Threads, Submit(t)
    PROVE  Inv'
<1>1. TypeOK'
  BY DEF TypeOK, Leased, Locked, Open, Submit, requests, Goto, Call, Inv
<1>2. Held'
  BY DEF Held, Leased, Locked, Open, Submit, requests, Goto, Inv
<1>3. Recorded'
  BY DEF Recorded, Open, Submit, requests, Goto, Inv
<1>4. Quiet'
  BY DEF TypeOK, Recorded, Quiet, Open, Submit, requests, Goto, Inv
<1>5. Loading'
  BY DEF Loading, Submit, requests, Goto, Inv, SovitsLoaded, GptLoaded
<1>6. UnresolvedIsRecorded'
  BY DEF Recorded, UnresolvedIsRecorded, Open, Submit, Inv
<1>7. SpeaksWithItsVoice'
  <2>1. loaded[ep[t]] \in [sovits : Models \cup {Factory}, gpt : Models \cup {Factory}]
    BY DEF Submit, Inv, TypeOK
  <2>2. stage[t] = "tts" /\ want[t] # External /\ ~restarted[ep[t]]
           => loaded[ep[t]] = Pair(want[t], want[t])
    BY <2>1 DEF Submit, Loading, SovitsLoaded, GptLoaded, Pair, Inv
  <2>3. ASSUME NEW b \in Endpoints, NEW x \in inbox'[b]
        PROVE  x \in inbox[b] \/ (b = ep[t] /\ x = Call(t, stage[t], want[t]))
    BY <2>3 DEF Submit
  <2> QED
    BY <2>2, <2>3 DEF Submit, SpeaksWithItsVoice, Call, Inv
<1>8. ConflictBeforeReceipt'
  BY DEF ConflictBeforeReceipt, ModeConflict, Open, Submit, requests, Goto, Inv
<1> QED
  BY <1>1, <1>2, <1>3, <1>4, <1>5, <1>6, <1>7, <1>8 DEF Inv

\* The stage advances over an idle backend.
LEMMA AnsweredKeeps ==
    ASSUME Inv, NEW t \in Threads, Answered(t)
    PROVE  Inv'
<1>1. TypeOK'
  BY DEF TypeOK, Calls, Leased, Locked, Open, Answered, backendVars, Goto, Inv
<1>2. Held'
  BY DEF Held, Leased, Locked, Open, Answered, Goto, Inv
<1>3. Recorded'
  BY DEF Recorded, Open, Answered, Goto, Inv
<1>4. Quiet'
  BY DEF TypeOK, Quiet, Answered, backendVars, Goto, Inv
<1>5. Loading'
  <2>1. ASSUME NEW u \in Threads, u # t
        PROVE  ep'[u] = ep[u] /\ want'[u] = want[u] /\ stage'[u] = stage[u]
               /\ replied'[u] = replied[u] /\ pc'[u] = pc[u]
    BY <2>1 DEF Answered, Goto
  <2>2. stage[t] \in Calls /\ SovitsLoaded(t)
    BY DEF Answered, SovitsLoaded, Inv, TypeOK
  <2>3. /\ stage[t] # "sovits" => GptLoaded(t)
        /\ stage[t] = "sovits" => stage'[t] = "gpt" /\ replied'[t] = FALSE
    BY <2>2 DEF Answered, GptLoaded, Calls, Inv, TypeOK
  <2>4. ep'[t] = ep[t] /\ want'[t] = want[t] /\ pc[t] = "wait"
        /\ loaded' = loaded /\ restarted' = restarted
    BY DEF Answered, backendVars
  <2> QED
    BY <2>1, <2>2, <2>3, <2>4 DEF Loading, SovitsLoaded, GptLoaded, Inv
<1>6. UnresolvedIsRecorded'
  BY DEF UnresolvedIsRecorded, Answered, backendVars, Inv
<1>7. SpeaksWithItsVoice'
  BY DEF SpeaksWithItsVoice, Answered, backendVars, Inv
<1>8. ConflictBeforeReceipt'
  BY DEF Held, ConflictBeforeReceipt, ModeConflict, Leased, Locked, Open, Answered,
       Goto, Inv
<1> QED
  BY <1>1, <1>2, <1>3, <1>4, <1>5, <1>6, <1>7, <1>8 DEF Inv

\* A failed request leaves its receipt.
LEMMA OutcomeUnknownKeeps ==
    ASSUME Inv, NEW t \in Threads, OutcomeUnknown(t)
    PROVE  Inv'
  BY ReturnKeeps DEF OutcomeUnknown

\* The receipt is retired over an idle backend.
LEMMA FinishTransactionKeeps ==
    ASSUME Inv, NEW t \in Threads, FinishTransaction(t)
    PROVE  Inv'
<1>1. CASE UNCHANGED receipt
  BY <1>1, ReturnKeeps DEF FinishTransaction
<1>2. CASE ~UNCHANGED receipt
  <2>9. /\ pc[t] = "finish"
        /\ receipt[ep[t]] = t
        /\ receipt' = [receipt EXCEPT ![ep[t]] = NoOne]
        /\ Return(t)
        /\ UNCHANGED <<backendVars, active>>
    BY <1>2 DEF FinishTransaction
  <2>1. TypeOK'
    BY <2>9 DEF TypeOK, Models, Calls, Leased, Locked, Open, backendVars, Return,
         Goto, Inv
  <2>2. Held'
    BY <2>9 DEF TypeOK, Held, Leased, Locked, Open, Return, Goto, Inv
  <2>3. Recorded'
    BY <2>9 DEF TypeOK, Recorded, Open, Return, Goto, Inv
  <2>4. Quiet'
    BY <2>9 DEF TypeOK, Quiet, backendVars, Return, Goto, Inv
  <2>5. Loading'
    BY <2>9 DEF Loading, backendVars, Return, Goto, Inv, SovitsLoaded, GptLoaded
  <2>6. UnresolvedIsRecorded'
    BY <2>9 DEF Held, Quiet, UnresolvedIsRecorded, Locked, backendVars, Inv
  <2>7. SpeaksWithItsVoice'
    BY <2>9 DEF SpeaksWithItsVoice, backendVars, Inv
  <2>8. ConflictBeforeReceipt'
    BY <2>9 DEF TypeOK, ConflictBeforeReceipt, ModeConflict, Open, Return, Goto, Inv
  <2> QED
    BY <2>1, <2>2, <2>3, <2>4, <2>5, <2>6, <2>7, <2>8 DEF Inv
<1> QED
  BY <1>1, <1>2

\* The only request of a backend is performed.
LEMMA PerformsKeeps ==
    ASSUME Inv, NEW b \in Endpoints, NEW x \in inbox[b], Performs(b, x)
    PROVE  Inv'
<1>1. TypeOK'
  BY DEF TypeOK, Performs, requests, Inv
<1>2. Held'
  BY DEF Held, Performs, requests, Inv
<1>3. Recorded'
  BY DEF Recorded, Performs, requests, Inv
<1>4. Quiet'
  BY DEF TypeOK, Quiet, Performs, requests, Awaits, Inv
<1>5. Loading'
  BY DEF TypeOK, Quiet, Loading, Performs, requests, Awaits, Call, Inv,
       SovitsLoaded, GptLoaded
<1>6. UnresolvedIsRecorded'
  BY DEF UnresolvedIsRecorded, Performs, Inv
<1>7. SpeaksWithItsVoice'
  BY DEF Quiet, SpeaksWithItsVoice, Performs, Inv
<1>8. ConflictBeforeReceipt'
  BY DEF ConflictBeforeReceipt, ModeConflict, Performs, requests, Inv
<1> QED
  BY <1>1, <1>2, <1>3, <1>4, <1>5, <1>6, <1>7, <1>8 DEF Inv

\* A refused request changes no weights.
LEMMA RejectsKeeps ==
    ASSUME Inv, NEW b \in Endpoints, NEW x \in inbox[b], Rejects(b, x)
    PROVE  Inv'
<1>1. TypeOK'
  BY DEF TypeOK, Rejects, requests, Inv
<1>2. Held'
  BY DEF Held, Rejects, requests, Inv
<1>3. Recorded'
  BY DEF Recorded, Rejects, requests, Inv
<1>4. Quiet'
  BY DEF Quiet, Rejects, requests, Inv
<1>5. Loading'
  BY DEF Loading, Rejects, requests, Inv, SovitsLoaded, GptLoaded
<1>6. UnresolvedIsRecorded'
  BY DEF UnresolvedIsRecorded, Rejects, Inv
<1>7. SpeaksWithItsVoice'
  BY DEF SpeaksWithItsVoice, Rejects, Inv
<1>8. ConflictBeforeReceipt'
  BY DEF ConflictBeforeReceipt, ModeConflict, Rejects, requests, Inv
<1> QED
  BY <1>1, <1>2, <1>3, <1>4, <1>5, <1>6, <1>7, <1>8 DEF Inv

\* A restart empties the backend and marks it.
LEMMA RestartsKeeps ==
    ASSUME Inv, NEW b \in Endpoints, Restarts(b)
    PROVE  Inv'
<1>1. TypeOK'
  BY DEF TypeOK, Restarts, requests, Pair, Inv
<1>2. Held'
  BY DEF Held, Restarts, requests, Inv
<1>3. Recorded'
  BY DEF Recorded, Restarts, requests, Inv
<1>4. Quiet'
  BY DEF Quiet, Restarts, requests, Inv
<1>5. Loading'
  BY DEF TypeOK, Loading, Restarts, requests, Inv, SovitsLoaded, GptLoaded
<1>6. UnresolvedIsRecorded'
  BY DEF UnresolvedIsRecorded, Restarts, Inv
<1>7. SpeaksWithItsVoice'
  BY DEF TypeOK, SpeaksWithItsVoice, Restarts, Inv
<1>8. ConflictBeforeReceipt'
  BY DEF ConflictBeforeReceipt, ModeConflict, Restarts, requests, Inv
<1> QED
  BY <1>1, <1>2, <1>3, <1>4, <1>5, <1>6, <1>7, <1>8 DEF Inv

\* Running transactions keep the endpoint they resolved.
LEMMA EndpointEditedKeeps ==
    ASSUME Inv, NEW b \in Endpoints, EndpointEdited(b)
    PROVE  Inv'
<1>1. TypeOK'
  BY DEF TypeOK, EndpointEdited, requests, Inv
<1>2. Held'
  BY DEF Held, EndpointEdited, requests, Inv
<1>3. Recorded'
  BY DEF Recorded, EndpointEdited, requests, Inv
<1>4. Quiet'
  BY DEF Quiet, EndpointEdited, requests, Inv
<1>5. Loading'
  BY DEF Loading, EndpointEdited, requests, Inv, SovitsLoaded, GptLoaded
<1>6. UnresolvedIsRecorded'
  BY DEF UnresolvedIsRecorded, EndpointEdited, Inv
<1>7. SpeaksWithItsVoice'
  BY DEF SpeaksWithItsVoice, EndpointEdited, Inv
<1>8. ConflictBeforeReceipt'
  BY DEF ConflictBeforeReceipt, ModeConflict, EndpointEdited, requests, Inv
<1> QED
  BY <1>1, <1>2, <1>3, <1>4, <1>5, <1>6, <1>7, <1>8 DEF Inv

\* A crash releases locks and keeps receipts.
LEMMA CrashKeeps ==
    ASSUME Inv, NEW c \in Ctrls, Crash(c)
    PROVE  Inv'
<1>1. TypeOK'
  BY DEF TypeOK, Models, Calls, Leased, Locked, Open, Crash, backendVars, Inv
<1>2. Held'
  BY DEF TypeOK, Held, Leased, Locked, Open, Crash, Inv
<1>3. Recorded'
  BY DEF Recorded, Open, Crash, Inv
<1>4. Quiet'
  BY DEF Quiet, Crash, backendVars, Inv
<1>5. Loading'
  BY DEF Loading, Crash, backendVars, Inv, SovitsLoaded, GptLoaded
<1>6. UnresolvedIsRecorded'
  BY DEF UnresolvedIsRecorded, Crash, backendVars, Inv
<1>7. SpeaksWithItsVoice'
  BY DEF SpeaksWithItsVoice, Crash, backendVars, Inv
<1>8. ConflictBeforeReceipt'
  BY DEF ConflictBeforeReceipt, ModeConflict, Open, Crash, Inv
<1> QED
  BY <1>1, <1>2, <1>3, <1>4, <1>5, <1>6, <1>7, <1>8 DEF Inv

\* The operator holds the lease, so no transaction is open.
LEMMA OperatorReconcilesKeeps ==
    ASSUME Inv, NEW b \in Endpoints, OperatorReconciles(b)
    PROVE  Inv'
<1>1. TypeOK'
  BY DEF TypeOK, OperatorReconciles, backendVars, requests, Inv
<1>2. Held'
  BY DEF Held, OperatorReconciles, requests, Inv
<1>3. Recorded'
  BY DEF Held, Recorded, Leased, OperatorReconciles, requests, Inv
<1>4. Quiet'
  BY DEF Quiet, OperatorReconciles, backendVars, requests, Inv
<1>5. Loading'
  BY DEF Loading, OperatorReconciles, backendVars, requests, Inv, SovitsLoaded,
       GptLoaded
<1>6. UnresolvedIsRecorded'
  BY DEF UnresolvedIsRecorded, OperatorReconciles, backendVars, Inv
<1>7. SpeaksWithItsVoice'
  BY DEF SpeaksWithItsVoice, OperatorReconciles, backendVars, Inv
<1>8. ConflictBeforeReceipt'
  BY DEF ConflictBeforeReceipt, ModeConflict, OperatorReconciles, requests, Inv
<1> QED
  BY <1>1, <1>2, <1>3, <1>4, <1>5, <1>6, <1>7, <1>8 DEF Inv

-----------------------------------------------------------------------------
(* The theorems.                                                           *)

\* The initial states satisfy the invariant.
LEMMA InitInv == Init => Inv
<1> SUFFICES ASSUME Init PROVE Inv
  OBVIOUS
<1>1. TypeOK
  BY DEF Init, TypeOK, Models, Calls, Pair, Locked, Leased, Open
<1>2. Held /\ Recorded /\ Quiet /\ Loading /\ ConflictBeforeReceipt
  BY DEF Init, Held, Recorded, Quiet, Loading, ConflictBeforeReceipt, Locked,
       Leased, Open
<1>3. UnresolvedIsRecorded /\ SpeaksWithItsVoice
  BY DEF Init, UnresolvedIsRecorded, SpeaksWithItsVoice
<1> QED
  BY <1>1, <1>2, <1>3 DEF Inv

\* Every step keeps the invariant.
LEMMA NextInv == Inv /\ [Next]_vars => Inv'
<1> SUFFICES ASSUME Inv, [Next]_vars PROVE Inv'
  OBVIOUS
<1>1. ASSUME NEW t \in Threads, RequestStep(t) PROVE Inv'
  BY <1>1, EnterBackendKeeps, AcquireLeaseKeeps, BeginTransactionKeeps, SelectModelKeeps, SubmitKeeps, AnsweredKeeps, OutcomeUnknownKeeps, FinishTransactionKeeps DEF
       RequestStep
<1>2. ASSUME NEW t \in Threads, NEW v \in Models, Synthesize(t, v) PROVE Inv'
  BY <1>2, SynthesizeKeeps
<1>3. ASSUME NEW b \in Endpoints, Restarts(b) \/ EndpointEdited(b) \/ OperatorReconciles(b)
      PROVE  Inv'
  BY <1>3, RestartsKeeps, EndpointEditedKeeps, OperatorReconcilesKeeps
<1>4. ASSUME NEW b \in Endpoints, NEW x \in inbox[b], Performs(b, x) \/ Rejects(b, x)
      PROVE  Inv'
  BY <1>4, PerformsKeeps, RejectsKeeps
<1>5. ASSUME NEW c \in Ctrls, Crash(c) PROVE Inv'
  BY <1>5, CrashKeeps
<1>6. CASE UNCHANGED vars
  BY <1>6 DEF vars, backendVars, requests, Inv, TypeOK, Held, Recorded, Quiet,
       Loading, SovitsLoaded, GptLoaded, UnresolvedIsRecorded, SpeaksWithItsVoice,
       ConflictBeforeReceipt, ModeConflict
<1> QED
  BY <1>1, <1>2, <1>3, <1>4, <1>5, <1>6 DEF Next

\* The invariant holds in every reachable state.
LEMMA AlwaysInv == Spec => []Inv
  BY InitInv, NextInv, PTL DEF Spec

\* A backend never has two requests of CVS at once.
THEOREM OneOperationEver == Spec => []OneOperation
<1>1. Inv => OneOperation
  <2> SUFFICES ASSUME Inv, NEW b \in Endpoints
               PROVE  Cardinality(inbox[b]) <= 1
    BY DEF OneOperation
  <2>1. CASE inbox[b] = {}
    BY <2>1, FS_EmptySet
  <2>2. CASE inbox[b] # {}
    <3>1. PICK x \in inbox[b] : inbox[b] = {x}
      BY <2>2 DEF Inv, Quiet
    <3>2. Cardinality({x}) = 1
      BY FS_Singleton
    <3> QED
      BY <3>1, <3>2
  <2> QED
    BY <2>1, <2>2
<1> QED
  BY <1>1, AlwaysInv, PTL

\* Whatever a backend may still be doing, a receipt records it.
THEOREM AlwaysRecorded == Spec => []UnresolvedIsRecorded
<1>1. Inv => UnresolvedIsRecorded
  BY DEF Inv
<1> QED
  BY <1>1, AlwaysInv, PTL

\* A managed voice is generated with its own two weights.
THEOREM AlwaysItsVoice == Spec => []SpeaksWithItsVoice
<1>1. Inv => SpeaksWithItsVoice
  BY DEF Inv
<1> QED
  BY <1>1, AlwaysInv, PTL

\* No request is refused with 409 after its receipt is written.
THEOREM ConflictNeverLate == Spec => []ConflictBeforeReceipt
<1>1. Inv => ConflictBeforeReceipt
  BY DEF Inv
<1> QED
  BY <1>1, AlwaysInv, PTL

\* Every variable keeps its type, for any number of processes, threads, endpoints
\* and voices: what a backend has loaded is a pair of weights or nothing.
THEOREM ServingTyped == Spec => []TypeOK
<1>1. Inv => TypeOK
  BY DEF Inv
<1> QED
  BY <1>1, AlwaysInv, PTL

-----------------------------------------------------------------------------
(* The transaction implements the service its clients were promised.       *)

\* A request for a hand-loaded model never switches weights.
ExternalOnlySpeaks ==
    \A t \in Threads : pc[t] \in {"send", "wait"} /\ want[t] = External => stage[t] = "tts"

\* A step moves no request's voice, and its stage only along with its pc.
LEMMA NextExternal ==
    ASSUME Inv, ExternalOnlySpeaks, [Next]_vars
    PROVE  ExternalOnlySpeaks'
<1> USE DEF ExternalOnlySpeaks, Inv, TypeOK
<1>1. ASSUME NEW t \in Threads, RequestStep(t) PROVE ExternalOnlySpeaks'
  <2>1. CASE EnterBackend(t) BY <2>1 DEF EnterBackend, Goto
  <2>2. CASE AcquireLease(t) BY <2>2 DEF AcquireLease, Goto, Return, requests
  <2>3. CASE BeginTransaction(t) BY <2>3 DEF BeginTransaction, Goto, Return, requests
  <2>4. CASE SelectModel(t) BY <2>4 DEF SelectModel, Goto, Return
  <2>5. CASE Submit(t) BY <2>5 DEF Submit, Goto, requests
  <2>6. CASE Answered(t) BY <2>6 DEF Answered, Goto
  <2>7. CASE OutcomeUnknown(t) BY <2>7 DEF OutcomeUnknown, Goto, Return
  <2>8. CASE FinishTransaction(t) BY <2>8 DEF FinishTransaction, Goto, Return
  <2> QED BY <1>1, <2>1, <2>2, <2>3, <2>4, <2>5, <2>6, <2>7, <2>8 DEF RequestStep
<1>2. ASSUME NEW t \in Threads, NEW v \in Models, Synthesize(t, v) PROVE ExternalOnlySpeaks'
  BY <1>2 DEF Synthesize, Goto
<1>3. ASSUME NEW b \in Endpoints, Restarts(b) \/ EndpointEdited(b) \/ OperatorReconciles(b)
      PROVE  ExternalOnlySpeaks'
  BY <1>3 DEF Restarts, EndpointEdited, OperatorReconciles, requests
<1>4. ASSUME NEW b \in Endpoints, NEW x \in inbox[b], Performs(b, x) \/ Rejects(b, x)
      PROVE  ExternalOnlySpeaks'
  BY <1>4 DEF Performs, Rejects, requests
<1>5. ASSUME NEW c \in Ctrls, Crash(c) PROVE ExternalOnlySpeaks'
  BY <1>5 DEF Crash
<1>6. CASE UNCHANGED vars
  BY <1>6 DEF vars, requests
<1> QED
  BY <1>1, <1>2, <1>3, <1>4, <1>5, <1>6 DEF Next

\* A function changed at one point is its own update.
LEMMA UpdatedAt ==
    ASSUME NEW S, NEW f, NEW g, NEW b \in S,
           f = [e \in S |-> f[e]], g = [e \in S |-> g[e]],
           \A e \in S : e # b => g[e] = f[e]
    PROVE  g = [f EXCEPT ![b] = g[b]]
OBVIOUS

\* What the clients see are functions of the endpoint: where they agree before
\* and after, they are the same, or one an update of the other.
LEMMA ViewsAgree ==
    ASSUME \A e \in Endpoints : Voicing'[e] = Voicing[e] /\ Spoken'[e] = Spoken[e]
    PROVE  Voicing' = Voicing /\ Spoken' = Spoken
<1>1. /\ Voicing = [e \in Endpoints |-> Voicing[e]]
      /\ Voicing' = [e \in Endpoints |-> Voicing'[e]]
      /\ Spoken = [e \in Endpoints |-> Spoken[e]]
      /\ Spoken' = [e \in Endpoints |-> Spoken'[e]]
  BY DEF Voicing, Spoken
<1> QED BY <1>1

LEMMA ViewsUpdated ==
    ASSUME NEW b \in Endpoints,
           \A e \in Endpoints \ {b} : Voicing'[e] = Voicing[e] /\ Spoken'[e] = Spoken[e]
    PROVE  /\ Voicing' = [Voicing EXCEPT ![b] = Voicing'[b]]
           /\ Spoken' = [Spoken EXCEPT ![b] = Spoken'[b]]
<1>1. /\ Voicing = [e \in Endpoints |-> Voicing[e]]
      /\ Voicing' = [e \in Endpoints |-> Voicing'[e]]
      /\ Spoken = [e \in Endpoints |-> Spoken[e]]
      /\ Spoken' = [e \in Endpoints |-> Spoken'[e]]
  BY DEF Voicing, Spoken
<1>2. Voicing' = [Voicing EXCEPT ![b] = Voicing'[b]]
  BY <1>1, UpdatedAt
<1>3. Spoken' = [Spoken EXCEPT ![b] = Spoken'[b]]
  BY <1>1, UpdatedAt
<1> QED BY <1>2, <1>3

\* What a backend does changes only with its inbox and its weights.
LEMMA SoundsUpdated ==
    ASSUME NEW b \in Endpoints,
           \A e \in Endpoints \ {b} : inbox'[e] = inbox[e] /\ loaded'[e] = loaded[e]
    PROVE  /\ Switching' = [Switching EXCEPT ![b] = Switching'[b]]
           /\ Heard' = [Heard EXCEPT ![b] = Heard'[b]]
<1>1. /\ Switching = [e \in Endpoints |-> Switching[e]]
      /\ Switching' = [e \in Endpoints |-> Switching'[e]]
      /\ Heard = [e \in Endpoints |-> Heard[e]]
      /\ Heard' = [e \in Endpoints |-> Heard'[e]]
  BY DEF Switching, Heard
<1>2. \A e \in Endpoints \ {b} : Switching'[e] = Switching[e] /\ Heard'[e] = Heard[e]
  BY DEF Switching, Heard
<1>3. Switching' = [Switching EXCEPT ![b] = Switching'[b]]
  BY <1>1, <1>2, UpdatedAt
<1>4. Heard' = [Heard EXCEPT ![b] = Heard'[b]]
  BY <1>1, <1>2, UpdatedAt
<1> QED BY <1>3, <1>4

\* An idle backend is a quiet one.
LEMMA IdleIsQuiet ==
    ASSUME NEW b \in Endpoints
    PROVE  Promise!Quiet(b) <=> inbox[b] = {}
BY DEF Promise!Quiet, Switching, Heard

\* What a thread does to its own turn shows at no other endpoint.
LEMMA OwnTurn ==
    ASSUME NEW t \in Threads, NEW b \in Endpoints,
           \A u \in Threads \ {t} :
               /\ pc'[u] = pc[u] /\ ep'[u] = ep[u] /\ want'[u] = want[u]
               /\ stage'[u] = stage[u] /\ replied'[u] = replied[u],
           \A e \in Endpoints \ {b} : receipt'[e] = receipt[e],
           pc[t] \in Open => ep[t] = b, pc'[t] \in Open => ep'[t] = b
    PROVE  \A e \in Endpoints \ {b} : Voicing'[e] = Voicing[e] /\ Spoken'[e] = Spoken[e]
<1> SUFFICES ASSUME NEW e \in Endpoints \ {b}
             PROVE  Voicing'[e] = Voicing[e] /\ Spoken'[e] = Spoken[e]
  OBVIOUS
<1>1. Serving(e)' <=> Serving(e)
  BY DEF Serving
<1>2. Serving(e) => receipt[e] \in Threads \ {t}
  BY DEF Serving
<1> QED
  BY <1>1, <1>2 DEF Voicing, Spoken, Generated

\* What a thread does outside its turn shows nowhere.
LEMMA NoTurn ==
    ASSUME NEW t \in Threads,
           \A u \in Threads \ {t} :
               /\ pc'[u] = pc[u] /\ ep'[u] = ep[u] /\ want'[u] = want[u]
               /\ stage'[u] = stage[u] /\ replied'[u] = replied[u],
           receipt' = receipt, pc[t] \notin Open, pc'[t] \notin Open
    PROVE  Voicing' = Voicing /\ Spoken' = Spoken
<1>1. ASSUME NEW e \in Endpoints
      PROVE  Voicing'[e] = Voicing[e] /\ Spoken'[e] = Spoken[e]
  <2>1. (Serving(e)' <=> Serving(e)) /\ (Serving(e) => receipt[e] \in Threads \ {t})
    BY DEF Serving
  <2> QED
    BY <2>1 DEF Voicing, Spoken, Generated
<1> QED
  BY <1>1, ViewsAgree

\* A thread that leaves an open transaction abandons its turn; one that leaves
\* before is nobody's client yet.
LEMMA ReturnMaps ==
    ASSUME Inv, Inv', NEW t \in Threads, Return(t),
           UNCHANGED <<backendVars, active, receipt>>
    PROVE  [Promise!Next]_(Promise!serviceVars)
<1> USE DEF Inv, TypeOK, Return, Goto, backendVars
<1>1. Switching' = Switching /\ Heard' = Heard
  BY DEF Switching, Heard
<1>2. pc'[t] \notin Open
  BY DEF Open
<1>3. ASSUME NEW b \in Endpoints, pc[t] \in Open, ep[t] = b
      PROVE  Promise!Next
  <2>1. receipt[b] = t /\ receipt'[b] = t
    BY <1>3 DEF Recorded
  <2>2. Serving(b) /\ ~Serving(b)'
    BY <1>2, <1>3, <2>1 DEF Serving
  <2>3. Voicing[b] = want[t] /\ Voicing'[b] = NoOne /\ Spoken'[b] = FALSE
    BY <2>1, <2>2 DEF Voicing, Spoken, Generated
  <2>4. \A e \in Endpoints \ {b} : Voicing'[e] = Voicing[e] /\ Spoken'[e] = Spoken[e]
    BY <1>2, <1>3, OwnTurn
  <2>5. /\ Voicing' = [Voicing EXCEPT ![b] = NoOne]
        /\ Spoken' = [Spoken EXCEPT ![b] = FALSE]
    BY <2>3, <2>4, ViewsUpdated
  <2>6. Promise!Abandon(b)
    BY <1>1, <2>3, <2>5 DEF Promise!Abandon, Models
  <2> QED
    BY <2>6 DEF Promise!Next
<1>4. CASE pc[t] \notin Open
  <2>1. Voicing' = Voicing /\ Spoken' = Spoken
    BY <1>2, <1>4, NoTurn
  <2> QED
    BY <1>1, <2>1 DEF Promise!serviceVars
<1>5. pc[t] \in Open => ep[t] \in Endpoints
  BY DEF Leased, Locked
<1> QED
  BY <1>3, <1>4, <1>5

\* Up to the receipt a request is invisible.
LEMMA EntryMaps ==
    ASSUME Inv, Inv', NEW t \in Threads,
           (\E v \in Models : Synthesize(t, v)) \/ EnterBackend(t) \/ AcquireLease(t)
    PROVE  [Promise!Next]_(Promise!serviceVars)
<1> USE DEF Inv, TypeOK, Goto, backendVars
<1>1. CASE pc'[t] # "idle"
  <2>1. pc[t] \notin Open /\ pc'[t] \notin Open /\ receipt' = receipt
        /\ inbox' = inbox /\ loaded' = loaded /\ restarted' = restarted
    BY <1>1 DEF Synthesize, EnterBackend, AcquireLease, Return, Open
  <2>2. \A u \in Threads \ {t} :
            /\ pc'[u] = pc[u] /\ ep'[u] = ep[u] /\ want'[u] = want[u]
            /\ stage'[u] = stage[u] /\ replied'[u] = replied[u]
    BY DEF Synthesize, EnterBackend, AcquireLease, Return, requests
  <2>4. Voicing' = Voicing /\ Spoken' = Spoken
    BY <2>1, <2>2, NoTurn
  <2>5. Switching' = Switching /\ Heard' = Heard
    BY <2>1 DEF Switching, Heard
  <2> QED
    BY <2>1, <2>4, <2>5 DEF Promise!serviceVars
<1>2. CASE pc'[t] = "idle"
  BY <1>2, ReturnMaps DEF Synthesize, EnterBackend, AcquireLease
<1> QED
  BY <1>1, <1>2

\* The receipt opens a turn on a quiet backend.
LEMMA BeginMaps ==
    ASSUME Inv, Inv', NEW t \in Threads, BeginTransaction(t)
    PROVE  [Promise!Next]_(Promise!serviceVars)
<1> USE DEF Inv, TypeOK, Goto
<1>1. CASE pc'[t] = "select"
  <2>1. /\ pc[t] = "begin"
        /\ receipt[ep[t]] = NoOne
        /\ receipt' = [receipt EXCEPT ![ep[t]] = t]
        /\ restarted' = [restarted EXCEPT ![ep[t]] = FALSE]
        /\ pc' = [pc EXCEPT ![t] = "select"]
        /\ UNCHANGED <<requests, replied, inbox, loaded>>
    BY <1>1 DEF BeginTransaction, Return
  <2>2. ep[t] \in Endpoints /\ inbox[ep[t]] = {}
    BY <2>1 DEF UnresolvedIsRecorded, Locked, Leased
  <2>3. Switching' = Switching /\ Heard' = Heard
    BY <2>1 DEF Switching, Heard
  <2>4. ~Serving(ep[t]) /\ Serving(ep[t])' /\ ~Generated(ep[t])'
    BY <2>1, <2>2 DEF Serving, Generated, Open, requests, Quiet
  <2>5. Voicing'[ep[t]] = want[t] /\ Spoken[ep[t]] = FALSE /\ Spoken'[ep[t]] = FALSE
    BY <2>1, <2>2, <2>4 DEF Voicing, Spoken, Generated, requests
  <2>6. \A e \in Endpoints \ {ep[t]} : Voicing'[e] = Voicing[e] /\ Spoken'[e] = Spoken[e]
    BY <2>1, <2>2, OwnTurn DEF requests
  <2>7. Voicing' = [Voicing EXCEPT ![ep[t]] = want[t]]
    BY <2>2, <2>5, <2>6, ViewsUpdated
  <2>9. Spoken' = Spoken
    BY <2>2, <2>5, <2>6 DEF Spoken
  <2>8. Promise!Open(ep[t], t, want[t])
    BY <2>1, <2>2, <2>3, <2>7, <2>9, IdleIsQuiet DEF Promise!Open
  <2> QED
    BY <2>2, <2>8 DEF Promise!Next, Models
<1>2. CASE pc'[t] # "select"
  BY <1>2, ReturnMaps DEF BeginTransaction, backendVars
<1> QED
  BY <1>1, <1>2

\* Choosing the first stage is invisible.
LEMMA SelectMaps ==
    ASSUME Inv, Inv', NEW t \in Threads, SelectModel(t)
    PROVE  [Promise!Next]_(Promise!serviceVars)
<1> USE DEF Inv, TypeOK, Goto, backendVars
<1>1. CASE pc'[t] = "send"
  <2>1. /\ pc[t] = "select"
        /\ pc' = [pc EXCEPT ![t] = "send"]
        /\ \A u \in Threads \ {t} : stage'[u] = stage[u]
        /\ UNCHANGED <<receipt, restarted, want, ep, replied, inbox, loaded>>
    BY <1>1 DEF SelectModel, Return
  <2>2. Switching' = Switching /\ Heard' = Heard
    BY <2>1 DEF Switching, Heard
  <2>3. ep[t] \in Endpoints /\ receipt[ep[t]] = t /\ ~replied[t]
    BY <2>1 DEF Locked, Leased, Open, Recorded, Quiet
  <2>4. Serving(ep[t]) /\ Serving(ep[t])' /\ ~Generated(ep[t]) /\ ~Generated(ep[t])'
    BY <2>1, <2>3 DEF Serving, Generated, Open
  <2>5. Voicing'[ep[t]] = Voicing[ep[t]] /\ Spoken[ep[t]] = FALSE /\ Spoken'[ep[t]] = FALSE
    BY <2>1, <2>3, <2>4 DEF Voicing, Spoken
  <2>6. \A e \in Endpoints \ {ep[t]} : Voicing'[e] = Voicing[e] /\ Spoken'[e] = Spoken[e]
    BY <2>1, <2>3, OwnTurn
  <2>7. Voicing' = Voicing /\ Spoken' = Spoken
    BY <2>5, <2>6, ViewsAgree
  <2> QED
    BY <2>1, <2>2, <2>7 DEF Promise!serviceVars
<1>2. CASE pc'[t] # "send"
  BY <1>2, ReturnMaps DEF SelectModel
<1> QED
  BY <1>1, <1>2

\* A weight call switches; a /tts call speaks, in the voice of the turn.
LEMMA SubmitMaps ==
    ASSUME Inv, Inv', ExternalOnlySpeaks, NEW t \in Threads, Submit(t)
    PROVE  Promise!Next
<1> DEFINE x == Call(t, stage[t], want[t])
<1>1. PICK b \in Endpoints : b = ep[t]
  BY DEF Submit, Inv, TypeOK, Locked, Leased, Open
<1>2. /\ pc[t] = "send" /\ pc' = [pc EXCEPT ![t] = "wait"]
      /\ inbox' = [inbox EXCEPT ![b] = @ \cup {x}]
      /\ UNCHANGED <<receipt, restarted, loaded, want, ep, stage, replied>>
  BY <1>1 DEF Submit, Goto, requests
<1>3. receipt[b] = t /\ inbox[b] = {} /\ ~replied[t]
  BY <1>1, <1>2 DEF Inv, Recorded, Quiet, Open
<1>4. inbox'[b] = {x} /\ \A e \in Endpoints : e # b => inbox'[e] = inbox[e]
  BY <1>2, <1>3 DEF Inv, TypeOK
<1>5. pc'[t] = "wait" /\ \A u \in Threads \ {t} : pc'[u] = pc[u]
  BY <1>2 DEF Inv, TypeOK
<1>6. Voicing' = Voicing /\ Spoken' = Spoken
  <2>1. \A e \in Endpoints : Serving(e)' <=> Serving(e)
    BY <1>2, <1>5 DEF Serving, Open
  <2>2. \A e \in Endpoints : Generated(e)' = Generated(e)
    BY <1>2, <1>5, <2>1 DEF Generated
  <2>3. \A e \in Endpoints : Voicing'[e] = Voicing[e] /\ Spoken'[e] = Spoken[e]
    BY <1>2, <2>1, <2>2 DEF Voicing, Spoken, Serving
  <2> QED
    BY <2>3, ViewsAgree
<1>7. Voicing[b] = want[t] /\ Spoken[b] = FALSE
  BY <1>1, <1>2, <1>3 DEF Voicing, Spoken, Generated, Serving, Open
<1>8. Promise!Quiet(b)
  BY <1>3, IdleIsQuiet
<1>9. CASE stage[t] # "tts"
  <2>1. want[t] \in Voices
    BY <1>2, <1>9 DEF ExternalOnlySpeaks, Inv, TypeOK, Models
  <2>2. x.kind # "tts"
    BY <1>9 DEF Call
  <2>3. Switching' = [Switching EXCEPT ![b] = TRUE]
    BY <1>4, <2>2 DEF Switching
  <2>4. {y \in inbox'[b] : y.kind = "tts"} = {} /\ {y \in inbox[b] : y.kind = "tts"} = {}
    BY <1>3, <1>4, <2>2
  <2>5. Heard' = Heard
    BY <1>2, <1>4, <2>4 DEF Heard
  <2>6. Promise!Switch(b)
    BY <1>2, <1>6, <1>7, <1>8, <2>1, <2>3, <2>5 DEF Promise!Switch
  <2> QED
    BY <2>6 DEF Promise!Next
<1>10. CASE stage[t] = "tts"
  <2>1. x.kind = "tts" /\ x.voice = want[t]
    BY <1>10 DEF Call
  <2>2. Switching' = Switching
    BY <1>3, <1>4, <2>1 DEF Switching
  <2>3. {y \in inbox'[b] : y.kind = "tts"} = {x}
    BY <1>4, <2>1
  <2>10. Heard'[b] = {loaded[b]}
    BY <1>2, <2>3 DEF Heard
  <2>4. Heard' = [Heard EXCEPT ![b] = {loaded[b]}]
    BY <1>2, <1>4, <2>10, SoundsUpdated
  <2>5. want[t] \in Voices /\ ~restarted[b] => loaded[b] = Pair(want[t], want[t])
    BY <1>2, <1>4, <2>1 DEF Inv, SpeaksWithItsVoice
  <2>6. Voicing[b] # NoOne
    BY <1>7 DEF Inv, TypeOK, Models
  <2>7. loaded[b] \in [sovits : Models \cup {Factory}, gpt : Models \cup {Factory}]
    BY DEF Inv, TypeOK
  <2>8. Voicing[b] \in Voices /\ ~restarted[b]
            => loaded[b] = [v \in Voices |-> Pair(v, v)][Voicing[b]]
    BY <1>7, <2>5
  <2>9. Promise!Speak(b, loaded[b])
    BY <1>2, <1>6, <1>7, <1>8, <2>2, <2>4, <2>6, <2>8 DEF Promise!Speak
  <2> QED
    BY <2>7, <2>9 DEF Promise!Next
<1> QED
  BY <1>9, <1>10

\* Reading a response is invisible: the clients saw the backend complete.
LEMMA AnsweredMaps ==
    ASSUME Inv, Inv', NEW t \in Threads, Answered(t)
    PROVE  UNCHANGED Promise!serviceVars
<1>1. PICK b \in Endpoints : b = ep[t]
  BY DEF Answered, Inv, TypeOK, Locked, Leased, Open
<1>2. /\ pc[t] = "wait" /\ replied[t]
      /\ pc'[t] = (IF stage[t] = "tts" THEN "finish" ELSE "send")
      /\ ~replied'[t]
      /\ UNCHANGED <<receipt, inbox, loaded, restarted, want, ep>>
  BY DEF Answered, Goto, backendVars, Inv, TypeOK
<1>3. \A u \in Threads \ {t} :
          pc'[u] = pc[u] /\ stage'[u] = stage[u] /\ replied'[u] = replied[u]
  BY DEF Answered, Goto
<1>4. \A e \in Endpoints : Serving(e)' <=> Serving(e)
  BY <1>2, <1>3 DEF Serving, Open
<1>5. \A e \in Endpoints : Generated(e)' = Generated(e)
  BY <1>2, <1>3, <1>4 DEF Generated, Serving, Open
<1>6. \A e \in Endpoints : Voicing'[e] = Voicing[e] /\ Spoken'[e] = Spoken[e]
  BY <1>2, <1>4, <1>5 DEF Voicing, Spoken, Serving
<1>7. Voicing' = Voicing /\ Spoken' = Spoken
  BY <1>6, ViewsAgree
<1>8. Switching' = Switching /\ Heard' = Heard
  BY <1>2 DEF Switching, Heard
<1> QED
  BY <1>2, <1>7, <1>8 DEF Promise!serviceVars

\* The receipt is retired with the answer; if it cannot be, the turn is abandoned.
LEMMA FinishMaps ==
    ASSUME Inv, Inv', NEW t \in Threads, FinishTransaction(t)
    PROVE  [Promise!Next]_(Promise!serviceVars)
<1>1. CASE UNCHANGED receipt
  BY <1>1, ReturnMaps DEF FinishTransaction
<1>2. CASE ~UNCHANGED receipt
  <2>1. PICK b \in Endpoints : b = ep[t]
    BY DEF FinishTransaction, Inv, TypeOK, Locked, Leased, Open
  <2>2. /\ pc[t] = "finish" /\ receipt[b] = t
        /\ receipt' = [receipt EXCEPT ![b] = NoOne]
        /\ Return(t)
        /\ UNCHANGED <<inbox, loaded, restarted>>
    BY <1>2, <2>1 DEF FinishTransaction, backendVars
  <2>3. Switching' = Switching /\ Heard' = Heard
    BY <2>2 DEF Switching, Heard
  <2>4. Spoken[b] = TRUE
    BY <2>1, <2>2 DEF Spoken, Generated, Serving, Open
  <2>5. receipt'[b] = NoOne /\ ~Serving(b)'
    BY <2>2 DEF Serving, Inv, TypeOK
  <2>6. Voicing'[b] = NoOne /\ Spoken'[b] = FALSE
    BY <2>5 DEF Voicing, Spoken, Generated
  <2>7. \A e \in Endpoints \ {b} : Voicing'[e] = Voicing[e] /\ Spoken'[e] = Spoken[e]
    <3>1. \A u \in Threads \ {t} :
              /\ pc'[u] = pc[u] /\ ep'[u] = ep[u] /\ want'[u] = want[u]
              /\ stage'[u] = stage[u] /\ replied'[u] = replied[u]
      BY <2>2 DEF Return, Goto
    <3>2. \A e \in Endpoints \ {b} : receipt'[e] = receipt[e]
      BY <2>2
    <3>3. pc'[t] \notin Open
      BY <2>2 DEF Return, Goto, Open, Inv, TypeOK
    <3> QED
      BY <2>1, <3>1, <3>2, <3>3, OwnTurn
  <2>8. /\ Voicing' = [Voicing EXCEPT ![b] = NoOne]
        /\ Spoken' = [Spoken EXCEPT ![b] = FALSE]
    BY <2>6, <2>7, ViewsUpdated
  <2>9. Promise!Quiet(b)
    BY <2>1, <2>2, IdleIsQuiet DEF Inv, Quiet
  <2>10. Promise!Answer(b)
    BY <2>2, <2>3, <2>4, <2>8, <2>9 DEF Promise!Answer
  <2> QED
    BY <2>10 DEF Promise!Next
<1> QED
  BY <1>1, <1>2

\* A backend that drops everything it received is quiet.
LEMMA Emptied ==
    ASSUME NEW b \in Endpoints, inbox'[b] = {}
    PROVE  Switching'[b] = FALSE /\ Heard'[b] = {}
BY DEF Switching, Heard

\* The only request of a backend completes; its thread hears of it if it waits.
LEMMA BackendMaps ==
    ASSUME Inv, Inv', NEW b \in Endpoints, NEW x \in inbox[b], Performs(b, x) \/ Rejects(b, x)
    PROVE  Promise!Next
<1>1. /\ inbox' = [inbox EXCEPT ![b] = @ \ {x}]
      /\ UNCHANGED <<receipt, restarted, pc, want, ep, stage>>
      /\ \A e \in Endpoints \ {b} : loaded'[e] = loaded[e]
  BY DEF Performs, Rejects, requests, Inv, TypeOK
<1>2. /\ inbox[b] = {x} /\ inbox'[b] = {}
      /\ \A e \in Endpoints \ {b} : inbox'[e] = inbox[e]
  BY <1>1 DEF Inv, Quiet, TypeOK
<1>3. /\ Switching' = [Switching EXCEPT ![b] = FALSE]
      /\ Heard' = [Heard EXCEPT ![b] = {}]
  BY <1>1, <1>2, SoundsUpdated, Emptied
<1>4. Voicing' = Voicing
  <2>1. \A e \in Endpoints : Serving(e)' <=> Serving(e)
    BY <1>1 DEF Serving
  <2> QED
    BY <1>1, <2>1 DEF Voicing
<1>5. ~Promise!Quiet(b)
  BY <1>2, IdleIsQuiet
<1>6. ASSUME NEW e \in Endpoints, Generated(e)' # Generated(e)
      PROVE  e = b /\ Generated(b)' /\ x.kind = "tts" /\ Serving(b)
  <2>1. Serving(e)' <=> Serving(e)
    BY <1>1 DEF Serving
  <2>2. PICK t \in Threads : t = receipt[e] /\ ep[t] = e /\ Serving(e)
    BY <1>6, <2>1 DEF Generated, Serving
  <2>3. stage[t] = "tts" /\ replied'[t] # replied[t] /\ pc[t] # "finish"
    BY <1>1, <1>6, <2>1, <2>2 DEF Generated
  <2>4. replied'[t] /\ Awaits(t, b, x)
    <3>1. Performs(b, x)
      BY <2>3 DEF Rejects
    <3>2. replied'[t] <=> replied[t] \/ Awaits(t, b, x)
      BY <3>1 DEF Performs
    <3>3. replied[t] \in BOOLEAN /\ replied'[t] \in BOOLEAN
      BY DEF Inv, TypeOK
    <3> QED
      BY <2>3, <3>2, <3>3
  <2> QED
    BY <1>1, <2>1, <2>2, <2>3, <2>4 DEF Awaits, Call, Generated, Serving
<1>7. Spoken' = [Spoken EXCEPT ![b] = Generated(b)']
  BY <1>6 DEF Spoken
<1>8. Generated(b) => Generated(b)'
  <2>1. \A t \in Threads : replied[t] => replied'[t]
    BY DEF Performs, Rejects
  <2> QED
    BY <1>1, <2>1 DEF Generated, Serving
<1>9. CASE Generated(b)' = Generated(b)
  <2>1. Spoken' = [Spoken EXCEPT ![b] = @ \/ FALSE]
    BY <1>7, <1>9 DEF Spoken, Generated
  <2>2. Promise!Complete(b, FALSE)
    BY <1>1, <1>3, <1>4, <1>5, <2>1 DEF Promise!Complete
  <2> QED
    BY <2>2 DEF Promise!Next
<1>10. CASE Generated(b)' # Generated(b)
  <2>1. Generated(b)' /\ x.kind = "tts" /\ Serving(b)
    BY <1>6, <1>10
  <2>2. Spoken' = [Spoken EXCEPT ![b] = @ \/ TRUE]
    BY <1>7, <2>1 DEF Spoken, Generated
  <2>3. Heard[b] # {}
    BY <1>2, <2>1 DEF Heard
  <2>4. Voicing[b] # NoOne
    BY <2>1 DEF Voicing, Serving, Inv, TypeOK, Models
  <2>5. Promise!Complete(b, TRUE)
    BY <1>1, <1>3, <1>4, <1>5, <2>2, <2>3, <2>4 DEF Promise!Complete
  <2> QED
    BY <2>5 DEF Promise!Next
<1> QED
  BY <1>9, <1>10

\* A restarted backend is quiet; an edited registry reaches no running turn.
LEMMA RestartsMaps ==
    ASSUME Inv, Inv', NEW b \in Endpoints, Restarts(b)
    PROVE  Promise!Next
<1>1. /\ inbox' = [inbox EXCEPT ![b] = {}]
      /\ restarted' = [restarted EXCEPT ![b] = TRUE]
      /\ UNCHANGED <<receipt, pc, want, ep, stage, replied>>
      /\ \A e \in Endpoints \ {b} : loaded'[e] = loaded[e]
  BY DEF Restarts, requests
<1>2. inbox'[b] = {} /\ \A e \in Endpoints \ {b} : inbox'[e] = inbox[e]
  BY <1>1 DEF Inv, TypeOK
<1>3. Voicing' = Voicing /\ Spoken' = Spoken
  BY <1>1 DEF Voicing, Spoken, Serving, Generated
<1>4. Promise!Restart(b)
  BY <1>1, <1>2, <1>3, SoundsUpdated, Emptied DEF Promise!Restart
<1> QED
  BY <1>4 DEF Promise!Next

LEMMA EndpointEditedMaps ==
    ASSUME NEW b \in Endpoints, EndpointEdited(b)
    PROVE  UNCHANGED Promise!serviceVars
BY DEF EndpointEdited, requests, Promise!serviceVars, Voicing, Spoken, Switching,
       Heard, Serving, Generated

\* The operator frees a backend that nobody is served by and that is quiet.
LEMMA ReconcilesMaps ==
    ASSUME Inv, Inv', NEW b \in Endpoints, OperatorReconciles(b)
    PROVE  Promise!Next
<1>1. /\ lease[b] = NoOne /\ receipt[b] # NoOne /\ inbox[b] = {}
      /\ receipt' = [receipt EXCEPT ![b] = NoOne]
      /\ UNCHANGED <<inbox, loaded, restarted, pc, want, ep, stage, replied>>
  BY DEF OperatorReconciles, backendVars, requests
<1>2. ~Serving(b) /\ ~Serving(b)'
  BY <1>1 DEF Serving, Inv, TypeOK, Held, Leased
<1>3. \A e \in Endpoints : (Serving(e)' <=> Serving(e)) /\ (e # b => receipt'[e] = receipt[e])
  BY <1>1, <1>2 DEF Serving
<1>4. \A e \in Endpoints : Voicing'[e] = Voicing[e] /\ Spoken'[e] = Spoken[e]
  BY <1>1, <1>2, <1>3 DEF Voicing, Spoken, Generated
<1>5. Voicing' = Voicing /\ Spoken' = Spoken
  BY <1>4, ViewsAgree
<1>6. Switching' = Switching /\ Heard' = Heard
  BY <1>1 DEF Switching, Heard
<1>7. Voicing[b] = NoOne
  BY <1>2 DEF Voicing
<1>8. Promise!Quiet(b)
  BY <1>1, IdleIsQuiet
<1>9. Promise!Reconcile(b)
  BY <1>1, <1>5, <1>6, <1>7, <1>8 DEF Promise!Reconcile
<1> QED
  BY <1>9 DEF Promise!Next

\* A process has one open transaction at most: its crash abandons that turn.
LEMMA CrashMaps ==
    ASSUME Inv, Inv', NEW c \in Ctrls, Crash(c)
    PROVE  [Promise!Next]_(Promise!serviceVars)
<1>1. /\ UNCHANGED <<receipt, inbox, loaded, restarted>>
      /\ \A u \in Threads : Home[u] = c => pc'[u] \notin Open
      /\ \A u \in Threads : Home[u] # c =>
            /\ pc'[u] = pc[u] /\ ep'[u] = ep[u] /\ want'[u] = want[u]
            /\ stage'[u] = stage[u] /\ replied'[u] = replied[u]
  BY DEF Crash, backendVars, Open, Inv, TypeOK
<1>2. Switching' = Switching /\ Heard' = Heard
  BY <1>1 DEF Switching, Heard
<1>3. CASE \E b \in Endpoints : Serving(b) /\ Home[receipt[b]] = c
  <2>1. PICK b \in Endpoints : Serving(b) /\ Home[receipt[b]] = c
    BY <1>3
  <2>2. ASSUME NEW e \in Endpoints \ {b}, Serving(e), Home[receipt[e]] = c PROVE FALSE
    <3>1. receipt[e] = receipt[b]
      BY <2>1, <2>2 DEF Serving, Inv, Held, Locked, Leased
    <3> QED
      BY <2>1, <2>2, <3>1 DEF Serving
  <2>3. ~Serving(b)'
    BY <1>1, <2>1 DEF Serving
  <2>4. Voicing[b] # NoOne /\ Voicing'[b] = NoOne /\ Spoken'[b] = FALSE
    BY <2>1, <2>3 DEF Voicing, Spoken, Generated, Serving, Inv, TypeOK, Models
  <2>5. \A e \in Endpoints \ {b} : Serving(e)' <=> Serving(e)
    BY <1>1, <2>2 DEF Serving
  <2>6. \A e \in Endpoints \ {b} : Voicing'[e] = Voicing[e] /\ Spoken'[e] = Spoken[e]
    BY <1>1, <2>2, <2>5 DEF Voicing, Spoken, Generated, Serving
  <2>7. Promise!Abandon(b)
    BY <1>1, <1>2, <2>4, <2>6, ViewsUpdated DEF Promise!Abandon
  <2> QED
    BY <2>7 DEF Promise!Next
<1>4. CASE ~\E b \in Endpoints : Serving(b) /\ Home[receipt[b]] = c
  <2>1. \A e \in Endpoints : Serving(e)' <=> Serving(e)
    BY <1>1, <1>4 DEF Serving
  <2>2. \A e \in Endpoints : Voicing'[e] = Voicing[e] /\ Spoken'[e] = Spoken[e]
    BY <1>1, <1>4, <2>1 DEF Voicing, Spoken, Generated, Serving
  <2> QED
    BY <1>1, <1>2, <2>2, ViewsAgree DEF Promise!serviceVars
<1> QED
  BY <1>3, <1>4

\* Every step of the transaction is a step of the service, or invisible to it.
LEMMA ServiceStepMaps ==
    ASSUME Inv, Inv', ExternalOnlySpeaks, [Next]_vars
    PROVE  [Promise!Next]_(Promise!serviceVars)
<1>1. ASSUME NEW t \in Threads, RequestStep(t) \/ \E v \in Models : Synthesize(t, v)
      PROVE  [Promise!Next]_(Promise!serviceVars)
  <2>1. CASE EnterBackend(t) \/ AcquireLease(t) \/ \E v \in Models : Synthesize(t, v)
    BY <2>1, EntryMaps
  <2>2. CASE BeginTransaction(t) BY <2>2, BeginMaps
  <2>3. CASE SelectModel(t) BY <2>3, SelectMaps
  <2>4. CASE Submit(t) BY <2>4, SubmitMaps
  <2>5. CASE Answered(t) BY <2>5, AnsweredMaps
  <2>6. CASE OutcomeUnknown(t) BY <2>6, ReturnMaps DEF OutcomeUnknown
  <2>7. CASE FinishTransaction(t) BY <2>7, FinishMaps
  <2> QED BY <1>1, <2>1, <2>2, <2>3, <2>4, <2>5, <2>6, <2>7 DEF RequestStep
<1>2. ASSUME NEW b \in Endpoints, Restarts(b) \/ EndpointEdited(b) \/ OperatorReconciles(b)
      PROVE  [Promise!Next]_(Promise!serviceVars)
  BY <1>2, RestartsMaps, EndpointEditedMaps, ReconcilesMaps
<1>3. ASSUME NEW b \in Endpoints, NEW x \in inbox[b], Performs(b, x) \/ Rejects(b, x)
      PROVE  [Promise!Next]_(Promise!serviceVars)
  BY <1>3, BackendMaps
<1>4. ASSUME NEW c \in Ctrls, Crash(c) PROVE [Promise!Next]_(Promise!serviceVars)
  BY <1>4, CrashMaps
<1>5. CASE UNCHANGED vars
  BY <1>5 DEF vars, backendVars, requests, Promise!serviceVars, Voicing, Spoken,
       Switching, Heard, Serving, Generated
<1> QED
  BY <1>1, <1>2, <1>3, <1>4, <1>5 DEF Next

\* However many processes share a backend and however they fail, their clients
\* are served as by one serial service that speaks with the voice it was asked.
THEOREM ServiceImplemented == Spec => ImplementsVoiceService
<1>1. Init => Promise!Init
  BY DEF Init, Promise!Init, Voicing, Spoken, Switching, Heard, Serving, Generated
<1>2. Init => ExternalOnlySpeaks
  BY DEF Init, ExternalOnlySpeaks
<1>3. Inv /\ ExternalOnlySpeaks /\ [Next]_vars => ExternalOnlySpeaks'
  BY NextExternal
<1>4. Inv /\ Inv' /\ ExternalOnlySpeaks /\ [Next]_vars
          => [Promise!Next]_(Promise!serviceVars)
  BY ServiceStepMaps
<1> QED
  BY <1>1, <1>2, <1>3, <1>4, AlwaysInv, PTL DEF Spec, ImplementsVoiceService, Promise!Spec

=============================================================================
