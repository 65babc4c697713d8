----------------------------- MODULE GptServing -----------------------------
(***************************************************************************)
(* The serving transaction of server/backends/gpt_sovits.py: several CVS   *)
(* processes share GPT-SoVITS backends that hold one SoVITS and one GPT    *)
(* weight file each.  A request switches both weights and then generates,  *)
(* under a process mutex, an OS lease per endpoint and a durable receipt   *)
(* that outlives every failure.  HTTP calls time out while the backend is  *)
(* still working: what was submitted is performed later, or never.         *)
(*                                                                         *)
(* pc: idle; mutex (waiting for _backend_lock); lease; begin; select;      *)
(* send and wait (one HTTP call, named by stage); finish.                  *)
(***************************************************************************)
EXTENDS Naturals, FiniteSets

CONSTANTS
    Ctrls,      \* CVS processes
    Threads,    \* their request threads
    Home,       \* Home[t]: the process of thread t
    Endpoints,  \* GPT-SoVITS base URLs, one backend each
    Voices,     \* managed models, each a pair of weights
    External,   \* a model loaded by hand: no weights to switch
    Factory,    \* the weights a backend starts with
    NoOne, NoEndpoint

ASSUME GptAssumption ==
    /\ Home \in [Threads -> Ctrls]
    /\ NoOne \notin Threads
    /\ NoOne \notin Voices
    /\ NoOne # External
    /\ NoEndpoint \notin Endpoints
    /\ External \notin Voices
    /\ Factory \notin Voices

VARIABLES
    endpoint,   \* the endpoint the runtime registry resolves to
    mutex,      \* mutex[c]: the thread holding c's _backend_lock
    active,     \* active[c]: c's _active_managed_model
    lease,      \* lease[b]: the thread holding the OS lease of b
    receipt,    \* receipt[b]: the requester named by b's pending receipt
    inbox,      \* inbox[b]: HTTP requests b has received and not finished
    loaded,     \* loaded[b]: the weights b would speak with
    restarted,  \* b restarted since its last transaction began (history)
    pc, want, ep, stage, replied   \* local state of each thread

backendVars == <<endpoint, inbox, loaded, restarted>>
requests == <<want, ep, stage>>
vars == <<backendVars, mutex, active, lease, receipt, pc, requests, replied>>

Models == Voices \cup {External}
Calls == {"sovits", "gpt", "tts"}
Pair(s, g) == [sovits |-> s, gpt |-> g]
Call(t, k, v) == [by |-> t, kind |-> k, voice |-> v]
Open == {"select", "send", "wait", "finish"}   \* the receipt is written
Leased == Open \cup {"begin"}
Locked == Leased \cup {"lease"}

TypeOK ==
    /\ endpoint \in Endpoints
    /\ mutex \in [Ctrls -> Threads \cup {NoOne}]
    /\ active \in [Ctrls -> Models]
    /\ lease \in [Endpoints -> Threads \cup {NoOne}]
    /\ receipt \in [Endpoints -> Threads \cup {NoOne}]
    /\ inbox \in [Endpoints -> SUBSET [by : Threads, kind : Calls, voice : Models]]
    /\ loaded \in [Endpoints -> [sovits : Models \cup {Factory},
                                 gpt : Models \cup {Factory}]]
    /\ restarted \in [Endpoints -> BOOLEAN]
    /\ pc \in [Threads -> {"idle", "mutex"} \cup Locked]
    /\ want \in [Threads -> Models]
    /\ ep \in [Threads -> Endpoints \cup {NoEndpoint}]
    /\ \A t \in Threads : pc[t] \in Locked => ep[t] \in Endpoints
    /\ stage \in [Threads -> Calls]
    /\ replied \in [Threads -> BOOLEAN]

Init ==
    /\ endpoint \in Endpoints
    /\ mutex = [c \in Ctrls |-> NoOne]
    /\ active = [c \in Ctrls |-> External]
    /\ lease = [b \in Endpoints |-> NoOne]
    /\ receipt = [b \in Endpoints |-> NoOne]
    /\ inbox = [b \in Endpoints |-> {}]
    /\ loaded = [b \in Endpoints |-> Pair(Factory, Factory)]
    /\ restarted = [b \in Endpoints |-> FALSE]
    /\ pc = [t \in Threads |-> "idle"]
    /\ want = [t \in Threads |-> External]
    /\ ep = [t \in Threads |-> NoEndpoint]
    /\ stage = [t \in Threads |-> "sovits"]
    /\ replied = [t \in Threads |-> FALSE]

-----------------------------------------------------------------------------
(* One request.                                                            *)

Goto(t, l) == pc' = [pc EXCEPT ![t] = l]

\* Every way out unwinds the lease and the mutex, and nothing else.
Return(t) ==
    /\ Goto(t, "idle")
    /\ mutex' = [mutex EXCEPT ![Home[t]] = IF @ = t THEN NoOne ELSE @]
    /\ lease' = [b \in Endpoints |-> IF lease[b] = t THEN NoOne ELSE lease[b]]
    /\ want' = [want EXCEPT ![t] = External]
    /\ ep' = [ep EXCEPT ![t] = NoEndpoint]
    /\ stage' = [stage EXCEPT ![t] = "sovits"]
    /\ replied' = [replied EXCEPT ![t] = FALSE]

Synthesize(t, v) ==
    /\ pc[t] = "idle"
    /\ Goto(t, "mutex")
    /\ want' = [want EXCEPT ![t] = v]
    /\ UNCHANGED <<backendVars, mutex, active, lease, receipt, ep, stage, replied>>

\* Mutant: no mutex inside the process.
EnterUnlocked(t) ==
    /\ pc[t] = "mutex"
    /\ ep' = [ep EXCEPT ![t] = endpoint]
    /\ Goto(t, "lease")
    /\ UNCHANGED <<backendVars, mutex, active, lease, receipt, want, stage, replied>>

\* with _backend_lock, then the endpoint is frozen for the whole transaction.
EnterBackend(t) ==
    /\ pc[t] = "mutex"
    /\ mutex[Home[t]] = NoOne
    /\ mutex' = [mutex EXCEPT ![Home[t]] = t]
    /\ ep' = [ep EXCEPT ![t] = endpoint]
    /\ Goto(t, "lease")
    /\ UNCHANGED <<backendVars, active, lease, receipt, want, stage, replied>>

\* acquire_runtime_slot: taken at once, or a retryable refusal.
AcquireLease(t) ==
    /\ pc[t] = "lease"
    /\ \/ /\ lease[ep[t]] = NoOne
          /\ lease' = [lease EXCEPT ![ep[t]] = t]
          /\ Goto(t, "begin")
          /\ UNCHANGED <<mutex, requests, replied>>
       \/ Return(t)
    /\ UNCHANGED <<backendVars, active, receipt>>

\* An external model is refused once this process has switched the weights.
ModeConflict(t) == want[t] = External /\ active[Home[t]] # External

\* Mutant: an unresolved receipt is overwritten.
BeginOverwriting(t) ==
    /\ pc[t] = "begin"
    /\ IF ModeConflict(t) THEN Return(t) /\ UNCHANGED <<receipt, restarted>>
       ELSE /\ receipt' = [receipt EXCEPT ![ep[t]] = t]
            /\ restarted' = [restarted EXCEPT ![ep[t]] = FALSE]
            /\ Goto(t, "select")
            /\ UNCHANGED <<mutex, lease, requests, replied>>
    /\ UNCHANGED <<endpoint, inbox, loaded, active>>

\* The mode check, then _begin_transaction: the receipt is published by one
\* rename, unless one is there or the write fails.
BeginTransaction(t) ==
    /\ pc[t] = "begin"
    /\ IF ModeConflict(t) THEN Return(t) /\ UNCHANGED <<receipt, restarted>>
       ELSE \/ /\ receipt[ep[t]] = NoOne
               /\ receipt' = [receipt EXCEPT ![ep[t]] = t]
               /\ restarted' = [restarted EXCEPT ![ep[t]] = FALSE]
               /\ Goto(t, "select")
               /\ UNCHANGED <<mutex, lease, requests, replied>>
            \/ Return(t) /\ UNCHANGED <<receipt, restarted>>
    /\ UNCHANGED <<endpoint, inbox, loaded, active>>

\* Mutant: the process believes its memory of the last switch.
SelectCached(t) ==
    /\ pc[t] = "select"
    /\ Goto(t, "send")
    /\ stage' = [stage EXCEPT ![t] =
                    IF want[t] = active[Home[t]] THEN "tts" ELSE "sovits"]
    /\ UNCHANGED <<backendVars, mutex, active, lease, receipt, want, ep, replied>>

\* _ensure_selected_model: both weights are always switched again; its own mode
\* check would answer 409 with the receipt already written.
SelectModel(t) ==
    /\ pc[t] = "select"
    /\ IF ModeConflict(t) THEN Return(t)
       ELSE /\ Goto(t, "send")
            /\ stage' = [stage EXCEPT ![t] =
                            IF want[t] = External THEN "tts" ELSE "sovits"]
            /\ UNCHANGED <<mutex, lease, want, ep, replied>>
    /\ UNCHANGED <<backendVars, active, receipt>>

\* Mutant: every call resolves the endpoint again.
SubmitResolving(t) ==
    /\ pc[t] = "send"
    /\ ep' = [ep EXCEPT ![t] = endpoint]
    /\ inbox' = [inbox EXCEPT ![endpoint] = @ \cup {Call(t, stage[t], want[t])}]
    /\ Goto(t, "wait")
    /\ UNCHANGED <<endpoint, loaded, restarted, mutex, active, lease, receipt,
                   want, stage, replied>>

\* The HTTP call of the current stage reaches the backend.
Submit(t) ==
    /\ pc[t] = "send"
    /\ inbox' = [inbox EXCEPT ![ep[t]] = @ \cup {Call(t, stage[t], want[t])}]
    /\ Goto(t, "wait")
    /\ UNCHANGED <<endpoint, loaded, restarted, mutex, active, lease, receipt,
                   requests, replied>>

\* Its response is read: the next weight, then /tts, then the receipt.
Answered(t) ==
    /\ pc[t] = "wait"
    /\ replied[t]
    /\ replied' = [replied EXCEPT ![t] = FALSE]
    /\ Goto(t, IF stage[t] = "tts" THEN "finish" ELSE "send")
    /\ stage' = [stage EXCEPT ![t] = IF @ = "sovits" THEN "gpt" ELSE "tts"]
    /\ active' = IF stage[t] = "gpt"
                 THEN [active EXCEPT ![Home[t]] = want[t]] ELSE active
    /\ UNCHANGED <<backendVars, mutex, lease, receipt, want, ep>>

\* Mutant: an error ends the transaction, so its receipt is removed.
OutcomeAssumed(t) ==
    /\ pc[t] \in {"send", "wait"}
    /\ receipt' = [receipt EXCEPT ![ep[t]] = NoOne]
    /\ Return(t)
    /\ UNCHANGED <<backendVars, active>>

\* An HTTP error, a timeout, a lost connection or an unusable body.
OutcomeUnknown(t) ==
    /\ pc[t] \in {"send", "wait"}
    /\ Return(t)
    /\ UNCHANGED <<backendVars, active, receipt>>

\* _finish_transaction; an unreadable receipt stays and fails the request.
FinishTransaction(t) ==
    /\ pc[t] = "finish"
    /\ \/ /\ receipt[ep[t]] = t
          /\ receipt' = [receipt EXCEPT ![ep[t]] = NoOne]
          /\ Return(t)
       \/ /\ Return(t)
          /\ UNCHANGED receipt
    /\ UNCHANGED <<backendVars, active>>

-----------------------------------------------------------------------------
(* The backends, the processes and the operator.                           *)

Awaits(t, b, x) == /\ pc[t] = "wait" /\ ep[t] = b
                   /\ x = Call(t, stage[t], want[t])

\* The backend completes a request it has received, in whatever order, and its
\* response arrives if the requester is still waiting for it.
Performs(b, x) ==
    /\ x \in inbox[b]
    /\ inbox' = [inbox EXCEPT ![b] = @ \ {x}]
    /\ loaded' = [loaded EXCEPT ![b] =
                    CASE x.kind = "sovits" -> [@ EXCEPT !.sovits = x.voice]
                      [] x.kind = "gpt" -> [@ EXCEPT !.gpt = x.voice]
                      [] OTHER -> @]
    /\ replied' = [t \in Threads |-> replied[t] \/ Awaits(t, b, x)]
    /\ UNCHANGED <<endpoint, restarted, mutex, active, lease, receipt, pc,
                   requests>>

\* The backend refuses a request, without effect on its weights.
Rejects(b, x) ==
    /\ x \in inbox[b]
    /\ inbox' = [inbox EXCEPT ![b] = @ \ {x}]
    /\ UNCHANGED <<endpoint, loaded, restarted, mutex, active, lease, receipt,
                   pc, requests, replied>>

\* A restarted backend forgets its weights and what it was doing.
Restarts(b) ==
    /\ inbox' = [inbox EXCEPT ![b] = {}]
    /\ loaded' = [loaded EXCEPT ![b] = Pair(Factory, Factory)]
    /\ restarted' = [restarted EXCEPT ![b] = TRUE]
    /\ UNCHANGED <<endpoint, mutex, active, lease, receipt, pc, requests, replied>>

\* The runtime registry is edited while requests are served.
EndpointEdited(b) ==
    /\ endpoint' = b
    /\ UNCHANGED <<inbox, loaded, restarted, mutex, active, lease, receipt, pc,
                   requests, replied>>

\* A process dies: its mutex, memory and leases go, receipts and requests stay.
Crash(c) ==
    /\ mutex' = [mutex EXCEPT ![c] = NoOne]
    /\ active' = [active EXCEPT ![c] = External]
    /\ lease' = [b \in Endpoints |->
                    IF lease[b] \in Threads /\ Home[lease[b]] = c
                    THEN NoOne ELSE lease[b]]
    /\ pc' = [t \in Threads |-> IF Home[t] = c THEN "idle" ELSE pc[t]]
    /\ want' = [t \in Threads |-> IF Home[t] = c THEN External ELSE want[t]]
    /\ ep' = [t \in Threads |-> IF Home[t] = c THEN NoEndpoint ELSE ep[t]]
    /\ stage' = [t \in Threads |-> IF Home[t] = c THEN "sovits" ELSE stage[t]]
    /\ replied' = [t \in Threads |-> replied[t] /\ Home[t] # c]
    /\ UNCHANGED <<backendVars, receipt>>

\* An operator holding the endpoint's lock has checked the backend is idle.
OperatorReconciles(b) ==
    /\ lease[b] = NoOne
    /\ receipt[b] # NoOne
    /\ inbox[b] = {}
    /\ receipt' = [receipt EXCEPT ![b] = NoOne]
    /\ UNCHANGED <<backendVars, mutex, active, lease, pc, requests, replied>>

RequestStep(t) ==
    \/ EnterBackend(t) \/ AcquireLease(t) \/ BeginTransaction(t)
    \/ SelectModel(t)  \/ Submit(t)       \/ Answered(t)
    \/ OutcomeUnknown(t) \/ FinishTransaction(t)

Next ==
    \/ \E t \in Threads : RequestStep(t) \/ \E v \in Models : Synthesize(t, v)
    \/ \E b \in Endpoints : \/ Restarts(b) \/ EndpointEdited(b)
                            \/ OperatorReconciles(b)
                            \/ \E x \in inbox[b] : Performs(b, x) \/ Rejects(b, x)
    \/ \E c \in Ctrls : Crash(c)

Spec == Init /\ [][Next]_vars

-----------------------------------------------------------------------------
(* Properties.                                                             *)

\* A backend never has two requests of CVS at once: not of two processes, not
\* one after another whose client gave up or died (lease and receipt).
OneOperation == \A b \in Endpoints : Cardinality(inbox[b]) <= 1

\* Whatever a backend may still be doing, its receipt blocks new transactions.
UnresolvedIsRecorded == \A b \in Endpoints : inbox[b] # {} => receipt[b] # NoOne

\* While a backend generates for a managed voice it has both of that voice's
\* weights loaded, though other processes switch the same backend and weight
\* requests may time out, unless it restarted in this very transaction.
SpeaksWithItsVoice ==
    \A b \in Endpoints : \A x \in inbox[b] :
        x.kind = "tts" /\ x.voice # External /\ ~restarted[b]
            => loaded[b] = Pair(x.voice, x.voice)

\* Once its receipt is written a request can no longer be refused with 409, a
\* status engines.synthesize takes as proof that nothing was submitted.
ConflictBeforeReceipt == \A t \in Threads : pc[t] \in Open => ~ModeConflict(t)

-----------------------------------------------------------------------------
(* What the transaction implements.                                        *)

\* The transaction of b's receipt is still being worked on by its thread.
Serving(b) ==
    /\ receipt[b] \in Threads
    /\ pc[receipt[b]] \in Open
    /\ ep[receipt[b]] = b

\* The thread knows that b has generated.
Generated(b) ==
    /\ Serving(b)
    /\ LET t == receipt[b] IN pc[t] = "finish" \/ (stage[t] = "tts" /\ replied[t])

\* The clients' view of the backends.
Voicing == [b \in Endpoints |-> IF Serving(b) THEN want[receipt[b]] ELSE NoOne]
Spoken == [b \in Endpoints |-> Generated(b)]
Switching == [b \in Endpoints |-> \E x \in inbox[b] : x.kind # "tts"]
Heard == [b \in Endpoints |-> {loaded[b] : x \in {y \in inbox[b] : y.kind = "tts"}}]

Promise == INSTANCE VoiceService WITH
    Backends <- Endpoints, Clients <- Threads, Nobody <- NoOne,
    Sounds <- [sovits : Models \cup {Factory}, gpt : Models \cup {Factory}],
    Timbre <- [v \in Voices |-> Pair(v, v)],
    client <- receipt, voice <- Voicing, spoken <- Spoken,
    switching <- Switching, heard <- Heard

\* Mutexes, leases, receipts and stages, under crashes, timeouts, late work and
\* backend restarts, implement the serial service its clients were promised: one
\* turn at a time, in the right voice, answered only when spoken.
ImplementsVoiceService == Promise!Spec

=============================================================================
