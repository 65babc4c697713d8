--------------------------- MODULE IndexTtsSidecar ---------------------------
(***************************************************************************)
(* sidecars/index_tts_api.py: one process, one model, one inference slot.  *)
(* A native inference can hang for ever; its watchdog then kills the       *)
(* process, which is the only way to free the slot.  Handlers, watchdog    *)
(* timers, the clock and the shutdown interleave; ages are counted in      *)
(* ticks and need not be told apart beyond Deadline.                       *)
(*                                                                         *)
(* pc of a handler: idle; arrive, acquire; track, infer, cancel,           *)
(* clear, release.  timer: off, armed, look, sleep, abort.                 *)
(***************************************************************************)
EXTENDS Naturals

CONSTANTS
    Handlers,  \* request threads; also the uuid of the request each serves
    Deadline,  \* INDEX_TTS_INFER_DEADLINE_SECONDS, in ticks (0 is not modelled)
    Early,     \* how many ticks too early a timer can wake
    NoOne

ASSUME SidecarAssumption ==
    /\ Deadline \in Nat \ {0}
    /\ Early \in 0..Deadline
    /\ NoOne \notin Handlers

VARIABLES
    process,   \* up, stopped, or aborted by a watchdog
    stopping,  \* _SHUTDOWN_REQUESTED
    lock,      \* the handler holding _INFER_LOCK
    active,    \* _ACTIVE_INFERENCE
    pc,
    timer,     \* timer[h]: the watchdog of h's inference
    age        \* age[h]: ticks since h's inference was tracked

vars == <<process, stopping, lock, active, pc, timer, age>>

Slot == {"track", "infer", "cancel", "clear", "release"}   \* the slot is taken
Tracked == {"infer", "cancel", "clear"}

TypeOK ==
    /\ process \in {"up", "stopped", "aborted"}
    /\ stopping \in BOOLEAN
    /\ lock \in Handlers \cup {NoOne}
    /\ active \in Handlers \cup {NoOne}
    /\ pc \in [Handlers -> {"idle", "arrive", "acquire"} \cup Slot]
    /\ timer \in [Handlers -> {"off", "armed", "look", "sleep", "abort"}]
    /\ age \in [Handlers -> 0..Deadline]

\* A process without requests, running or gone.
Fresh(p) ==
    /\ process' = p
    /\ stopping' = FALSE
    /\ lock' = NoOne
    /\ active' = NoOne
    /\ pc' = [h \in Handlers |-> "idle"]
    /\ timer' = [h \in Handlers |-> "off"]
    /\ age' = [h \in Handlers |-> 0]

Init ==
    /\ process = "up"
    /\ stopping = FALSE
    /\ lock = NoOne
    /\ active = NoOne
    /\ pc = [h \in Handlers |-> "idle"]
    /\ timer = [h \in Handlers |-> "off"]
    /\ age = [h \in Handlers |-> 0]

-----------------------------------------------------------------------------
(* do_POST /synthesize                                                     *)

Goto(h, l) == pc' = [pc EXCEPT ![h] = l]

\* The server accepts until its loop ends, which is some time after /shutdown.
Arrive(h) ==
    /\ process = "up"
    /\ pc[h] = "idle" /\ timer[h] = "off" /\ active # h
    /\ Goto(h, "arrive")
    /\ UNCHANGED <<process, stopping, lock, active, timer, age>>

\* 503 when stopping, 400 for a bad request.
Validate(h) ==
    /\ pc[h] = "arrive"
    /\ \/ Goto(h, "idle")
       \/ ~stopping /\ Goto(h, "acquire")
    /\ UNCHANGED <<process, stopping, lock, active, timer, age>>

\* The slot, or 503 at once.
Acquire(h) ==
    /\ pc[h] = "acquire"
    /\ \/ lock = NoOne /\ lock' = h /\ Goto(h, "track")
       \/ lock # NoOne /\ Goto(h, "idle") /\ UNCHANGED lock
    /\ UNCHANGED <<process, stopping, active, timer, age>>

\* The first half of infer_with_watchdog, and the call.  The deadline may be
\* invalid (nothing is tracked), a timer may not start (active stays behind).
Track(h) ==
    /\ pc[h] = "track"
    /\ \/ Goto(h, "release") /\ UNCHANGED <<active, timer, age>>
       \/ /\ active' = h
          /\ age' = [age EXCEPT ![h] = 0]
          /\ \/ timer' = [timer EXCEPT ![h] = "armed"] /\ Goto(h, "infer")
             \/ UNCHANGED timer /\ Goto(h, "release")
    /\ UNCHANGED <<process, stopping, lock>>

\* tts.infer returns or raises, sooner or later or never.
InferEnds(h) ==
    /\ pc[h] = "infer"
    /\ Goto(h, "cancel")
    /\ UNCHANGED <<process, stopping, lock, active, timer, age>>

\* timer.cancel() stops a timer that has not fired.
Cancel(h) ==
    /\ pc[h] = "cancel"
    /\ timer' = [timer EXCEPT ![h] = IF @ = "armed" THEN "off" ELSE @]
    /\ Goto(h, "clear")
    /\ UNCHANGED <<process, stopping, lock, active, age>>

\* Mutant: the slot is free before the inference is untracked.
ClearAfterRelease(h) ==
    /\ \/ pc[h] = "clear" /\ lock' = NoOne /\ Goto(h, "release") /\ UNCHANGED active
       \/ pc[h] = "release" /\ active' = NoOne /\ Goto(h, "idle") /\ UNCHANGED lock
    /\ UNCHANGED <<process, stopping, timer, age>>

Clear(h) ==
    /\ pc[h] = "clear"
    /\ active' = NoOne
    /\ Goto(h, "release")
    /\ UNCHANGED <<process, stopping, lock, timer, age>>

Release(h) ==
    /\ pc[h] = "release"
    /\ lock' = NoOne
    /\ Goto(h, "idle")
    /\ UNCHANGED <<process, stopping, active, timer, age>>

-----------------------------------------------------------------------------
(* _terminate_stalled_inference, on the timer's thread                     *)

SetTimer(h, s) ==
    /\ timer' = [timer EXCEPT ![h] = s]
    /\ UNCHANGED <<process, stopping, lock, active, pc, age>>

\* threading.Timer can wake slightly before its deadline.
Fire(h) == timer[h] = "armed" /\ age[h] + Early >= Deadline /\ SetTimer(h, "look")

\* Mutant: an early wake is taken for a late one and the watchdog gives up.
LookOnce(h) ==
    /\ timer[h] = "look"
    /\ SetTimer(h, IF active = h /\ age[h] >= Deadline THEN "abort" ELSE "off")

FirstLook(h) ==
    /\ timer[h] = "look"
    /\ \/ active # h /\ SetTimer(h, "off")
       \/ active = h /\ age[h] < Deadline /\ SetTimer(h, "sleep")
       \/ active = h /\ age[h] >= Deadline /\ SetTimer(h, "abort")

Wake(h) == timer[h] = "sleep" /\ age[h] >= Deadline /\ SetTimer(h, "abort")

\* Mutant: any running inference is taken for the stalled one.
AbortAny(h) ==
    /\ timer[h] = "abort"
    /\ IF active = NoOne THEN SetTimer(h, "off") ELSE Fresh("aborted")

\* os._exit(124), under _STATE_LOCK
Abort(h) ==
    /\ timer[h] = "abort"
    /\ \/ active # h /\ SetTimer(h, "off")
       \/ active = h /\ Fresh("aborted")

-----------------------------------------------------------------------------
RequestShutdown ==
    /\ process = "up"
    /\ stopping' = TRUE
    /\ UNCHANGED <<process, lock, active, pc, timer, age>>

\* The server loop ends and the interpreter exits under its daemon threads.
Exit == process = "up" /\ stopping /\ Fresh("stopped")

\* The runtime supervisor starts the sidecar again.
Restart == process # "up" /\ Fresh("up")

Tick ==
    /\ process = "up"
    /\ age' = [h \in Handlers |->
                 IF age[h] < Deadline /\ (active = h \/ timer[h] # "off")
                 THEN age[h] + 1 ELSE age[h]]
    /\ UNCHANGED <<process, stopping, lock, active, pc, timer>>

Handle(h) ==
    \/ Validate(h) \/ Acquire(h) \/ Track(h)
    \/ Cancel(h) \/ Clear(h) \/ Release(h)
Watch(h) == Fire(h) \/ FirstLook(h) \/ Wake(h) \/ Abort(h)

Next ==
    \/ \E h \in Handlers : Arrive(h) \/ Handle(h) \/ InferEnds(h) \/ Watch(h)
    \/ RequestShutdown \/ Exit \/ Restart \/ Tick

Spec == Init /\ [][Next]_vars

\* Threads run and the clock ticks; an inference need not end.
Fairness ==
    /\ \A h \in Handlers : WF_vars(Handle(h)) /\ WF_vars(Watch(h))
    /\ WF_vars(Tick)
FairSpec == Spec /\ Fairness

-----------------------------------------------------------------------------
\* The inference that runs is the one the watchdog sees, and the only one: the
\* end of an earlier request never untracks it.
RunningIsTracked ==
    \A h \in Handlers : pc[h] \in Tracked =>
        active = h /\ \A g \in Handlers \ {h} : pc[g] \notin Tracked

\* The process is aborted only under a request that has used up its deadline,
\* never under the next one: a late timer callback kills nothing.
AbortsOnlyOverdue ==
    [][process = "up" /\ process' = "aborted" =>
          active # NoOne /\ age[active] >= Deadline]_vars

\* A stalled inference never keeps the slot, however its timer woke up.
StallsAreBounded == \A h \in Handlers : pc[h] = "infer" ~> pc[h] # "infer"

\* Stated by the comment at sidecars/index_tts_api.py:71: an inference that has
\* returned is not killed.
ReturnedIsNotKilled ==
    [][process = "up" /\ process' = "aborted" =>
          active # NoOne /\ pc[active] = "infer"]_vars

=============================================================================
