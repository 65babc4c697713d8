------------------------ MODULE IndexTtsSidecarProofs ------------------------
(***************************************************************************)
(* The inference slot and its watchdog are safe for any number of handlers *)
(* and any deadline.                                                       *)
(*                                                                         *)
(* The argument.  Whoever uses the slot holds the lock, so only it tracks  *)
(* and untracks.  A request begins with its timer off and itself untracked *)
(* (its id is new), so when a timer that is about to abort still finds its *)
(* own request active, that request is the one whose age it has checked.   *)
(***************************************************************************)
EXTENDS IndexTtsSidecar, TLAPS

USE SidecarAssumption

LockHeld == \A h \in Handlers : pc[h] \in Slot => lock = h

\* Before a request is tracked nothing of an earlier one is left.
NewRequest ==
    \A h \in Handlers : pc[h] \in {"arrive", "acquire", "track"} =>
        timer[h] = "off" /\ active # h

\* A timer aborts only after the age was checked.
Overdue ==
    \A h \in Handlers : timer[h] = "abort" /\ active = h => age[h] >= Deadline

\* The inductive invariant.
Inv ==
    /\ TypeOK
    /\ LockHeld
    /\ NewRequest
    /\ Overdue
    /\ RunningIsTracked

LEMMA FreshKeeps ==
    ASSUME NEW q \in {"up", "stopped", "aborted"}, Fresh(q)
    PROVE  Inv'
<1>0. 0 \in 0..Deadline
    OBVIOUS
<1>1. TypeOK'
  <2>1. process' \in {"up", "stopped", "aborted"} /\ stopping' \in BOOLEAN
      BY DEF Fresh
  <2>2. lock' \in Handlers \cup {NoOne} /\ active' \in Handlers \cup {NoOne}
      BY DEF Fresh
  <2>3. pc' \in [Handlers -> {"idle", "arrive", "acquire"} \cup Slot]
      BY DEF Fresh
  <2>4. timer' \in [Handlers -> {"off", "armed", "look", "sleep", "abort"}]
      BY DEF Fresh
  <2>5. age' \in [Handlers -> 0..Deadline]
      BY <1>0 DEF Fresh
  <2>6. QED
      BY <2>1, <2>2, <2>3, <2>4, <2>5 DEF TypeOK
<1>2. QED
    BY <1>1 DEF Inv, Fresh, LockHeld, NewRequest, Overdue, RunningIsTracked, Slot, Tracked

\* A timer may change its own state, to "abort" only when overdue.
LEMMA SetTimerKeeps ==
    ASSUME Inv, NEW h \in Handlers, NEW q \in {"off", "look", "sleep", "abort"},
           SetTimer(h, q), timer[h] # "off",
           q = "abort" => active # h \/ age[h] >= Deadline
    PROVE  Inv'
<1>1. TypeOK'
    BY DEF Inv, TypeOK, SetTimer
<1>2. LockHeld' /\ RunningIsTracked'
    BY DEF Inv, LockHeld, RunningIsTracked, SetTimer
<1>3. NewRequest'
    BY DEF Inv, TypeOK, NewRequest, SetTimer
<1>4. Overdue'
    BY DEF Inv, TypeOK, Overdue, SetTimer
<1>5. QED
    BY <1>1, <1>2, <1>3, <1>4 DEF Inv

LEMMA ArriveKeeps ==
    ASSUME Inv, NEW h \in Handlers, Arrive(h)
    PROVE  Inv'
<1>1. TypeOK'
    BY DEF Inv, TypeOK, Arrive, Goto, Slot, Tracked
<1>2. LockHeld'
    BY DEF Inv, TypeOK, LockHeld, Arrive, Goto, Slot, Tracked
<1>3. NewRequest'
    BY DEF Inv, TypeOK, NewRequest, Arrive, Goto, Slot, Tracked
<1>4. Overdue'
    BY DEF Inv, TypeOK, Overdue, NewRequest, Arrive, Goto, Slot, Tracked
<1>5. RunningIsTracked'
    BY DEF Inv, TypeOK, LockHeld, RunningIsTracked, Arrive, Goto, Slot, Tracked
<1>6. QED
    BY <1>1, <1>2, <1>3, <1>4, <1>5 DEF Inv

LEMMA ValidateKeeps ==
    ASSUME Inv, NEW h \in Handlers, Validate(h)
    PROVE  Inv'
<1>1. TypeOK'
    BY DEF Inv, TypeOK, Validate, Goto, Slot, Tracked
<1>2. LockHeld'
    BY DEF Inv, TypeOK, LockHeld, Validate, Goto, Slot, Tracked
<1>3. NewRequest'
    BY DEF Inv, TypeOK, NewRequest, Validate, Goto, Slot, Tracked
<1>4. Overdue'
    BY DEF Inv, TypeOK, Overdue, NewRequest, Validate, Goto, Slot, Tracked
<1>5. RunningIsTracked'
    BY DEF Inv, TypeOK, LockHeld, RunningIsTracked, Validate, Goto, Slot, Tracked
<1>6. QED
    BY <1>1, <1>2, <1>3, <1>4, <1>5 DEF Inv

LEMMA AcquireKeeps ==
    ASSUME Inv, NEW h \in Handlers, Acquire(h)
    PROVE  Inv'
<1>1. TypeOK'
    BY DEF Inv, TypeOK, Acquire, Goto, Slot, Tracked
<1>2. LockHeld'
    BY DEF Inv, TypeOK, LockHeld, Acquire, Goto, Slot, Tracked
<1>3. NewRequest'
    BY DEF Inv, TypeOK, NewRequest, Acquire, Goto, Slot, Tracked
<1>4. Overdue'
    BY DEF Inv, TypeOK, Overdue, NewRequest, Acquire, Goto, Slot, Tracked
<1>5. RunningIsTracked'
    BY DEF Inv, TypeOK, LockHeld, RunningIsTracked, Acquire, Goto, Slot, Tracked
<1>6. QED
    BY <1>1, <1>2, <1>3, <1>4, <1>5 DEF Inv

LEMMA TrackKeeps ==
    ASSUME Inv, NEW h \in Handlers, Track(h)
    PROVE  Inv'
<1>1. TypeOK'
    BY DEF Inv, TypeOK, Track, Goto, Slot, Tracked
<1>2. LockHeld'
    BY DEF Inv, TypeOK, LockHeld, Track, Goto, Slot, Tracked
<1>3. NewRequest'
    BY DEF Inv, TypeOK, NewRequest, Track, Goto, Slot, Tracked
<1>4. Overdue'
    BY DEF Inv, TypeOK, Overdue, NewRequest, Track, Goto, Slot, Tracked
<1>5. RunningIsTracked'
    BY DEF Inv, TypeOK, LockHeld, RunningIsTracked, Track, Goto, Slot, Tracked
<1>6. QED
    BY <1>1, <1>2, <1>3, <1>4, <1>5 DEF Inv

LEMMA InferEndsKeeps ==
    ASSUME Inv, NEW h \in Handlers, InferEnds(h)
    PROVE  Inv'
<1>1. TypeOK'
    BY DEF Inv, TypeOK, InferEnds, Goto, Slot, Tracked
<1>2. LockHeld'
    BY DEF Inv, TypeOK, LockHeld, InferEnds, Goto, Slot, Tracked
<1>3. NewRequest'
    BY DEF Inv, TypeOK, NewRequest, InferEnds, Goto, Slot, Tracked
<1>4. Overdue'
    BY DEF Inv, TypeOK, Overdue, NewRequest, InferEnds, Goto, Slot, Tracked
<1>5. RunningIsTracked'
    BY DEF Inv, TypeOK, LockHeld, RunningIsTracked, InferEnds, Goto, Slot, Tracked
<1>6. QED
    BY <1>1, <1>2, <1>3, <1>4, <1>5 DEF Inv

LEMMA CancelKeeps ==
    ASSUME Inv, NEW h \in Handlers, Cancel(h)
    PROVE  Inv'
<1>1. TypeOK'
    BY DEF Inv, TypeOK, Cancel, Goto, Slot, Tracked
<1>2. LockHeld'
    BY DEF Inv, TypeOK, LockHeld, Cancel, Goto, Slot, Tracked
<1>3. NewRequest'
    BY DEF Inv, TypeOK, NewRequest, Cancel, Goto, Slot, Tracked
<1>4. Overdue'
    BY DEF Inv, TypeOK, Overdue, NewRequest, Cancel, Goto, Slot, Tracked
<1>5. RunningIsTracked'
    BY DEF Inv, TypeOK, LockHeld, RunningIsTracked, Cancel, Goto, Slot, Tracked
<1>6. QED
    BY <1>1, <1>2, <1>3, <1>4, <1>5 DEF Inv

LEMMA ClearKeeps ==
    ASSUME Inv, NEW h \in Handlers, Clear(h)
    PROVE  Inv'
<1>1. TypeOK'
    BY DEF Inv, TypeOK, Clear, Goto, Slot, Tracked
<1>2. LockHeld'
    BY DEF Inv, TypeOK, LockHeld, Clear, Goto, Slot, Tracked
<1>3. NewRequest'
    BY DEF Inv, TypeOK, NewRequest, Clear, Goto, Slot, Tracked
<1>4. Overdue'
    BY DEF Inv, TypeOK, Overdue, NewRequest, Clear, Goto, Slot, Tracked
<1>5. RunningIsTracked'
    BY DEF Inv, TypeOK, LockHeld, RunningIsTracked, Clear, Goto, Slot, Tracked
<1>6. QED
    BY <1>1, <1>2, <1>3, <1>4, <1>5 DEF Inv

LEMMA ReleaseKeeps ==
    ASSUME Inv, NEW h \in Handlers, Release(h)
    PROVE  Inv'
<1>1. TypeOK'
    BY DEF Inv, TypeOK, Release, Goto, Slot, Tracked
<1>2. LockHeld'
    BY DEF Inv, TypeOK, LockHeld, Release, Goto, Slot, Tracked
<1>3. NewRequest'
    BY DEF Inv, TypeOK, NewRequest, Release, Goto, Slot, Tracked
<1>4. Overdue'
    BY DEF Inv, TypeOK, Overdue, NewRequest, Release, Goto, Slot, Tracked
<1>5. RunningIsTracked'
    BY DEF Inv, TypeOK, LockHeld, RunningIsTracked, Release, Goto, Slot, Tracked
<1>6. QED
    BY <1>1, <1>2, <1>3, <1>4, <1>5 DEF Inv

LEMMA WatchKeeps ==
    ASSUME Inv, NEW h \in Handlers, Watch(h)
    PROVE  Inv'
<1>1. age[h] \in Nat /\ Deadline \in Nat
    BY DEF Inv, TypeOK
<1>2. CASE Fire(h)
    BY <1>2, SetTimerKeeps DEF Fire
<1>3. CASE FirstLook(h)
    BY <1>1, <1>3, SetTimerKeeps DEF FirstLook
<1>4. CASE Wake(h)
    BY <1>4, SetTimerKeeps DEF Wake
<1>5. CASE Abort(h)
    BY <1>5, SetTimerKeeps, FreshKeeps DEF Abort
<1>6. QED
    BY <1>2, <1>3, <1>4, <1>5 DEF Watch

LEMMA TickKeeps ==
    ASSUME Inv, Tick
    PROVE  Inv'
<1>1. TypeOK'
    BY DEF Inv, TypeOK, Tick
<1>2. LockHeld' /\ NewRequest' /\ RunningIsTracked'
    BY DEF Inv, LockHeld, NewRequest, RunningIsTracked, Tick
<1>3. \A h \in Handlers : age'[h] >= age[h]
    BY DEF Inv, TypeOK, Tick
<1>4. Overdue'
    BY <1>1, <1>3 DEF Inv, TypeOK, Overdue, Tick
<1>5. QED
    BY <1>1, <1>2, <1>4 DEF Inv

-----------------------------------------------------------------------------
(* The theorems.                                                           *)

LEMMA InitInv == Init => Inv
<1>1. SUFFICES ASSUME Init
               PROVE  Inv
    OBVIOUS
<1>0. 0 \in 0..Deadline
    OBVIOUS
<1>2. TypeOK
  <2>1. process \in {"up", "stopped", "aborted"} /\ stopping \in BOOLEAN
      BY <1>1 DEF Init
  <2>2. lock \in Handlers \cup {NoOne} /\ active \in Handlers \cup {NoOne}
      BY <1>1 DEF Init
  <2>3. pc \in [Handlers -> {"idle", "arrive", "acquire"} \cup Slot]
      BY <1>1 DEF Init
  <2>4. timer \in [Handlers -> {"off", "armed", "look", "sleep", "abort"}]
      BY <1>1 DEF Init
  <2>5. age \in [Handlers -> 0..Deadline]
      BY <1>0, <1>1 DEF Init
  <2>6. QED
      BY <2>1, <2>2, <2>3, <2>4, <2>5 DEF TypeOK
<1>3. QED
    BY <1>1, <1>2 DEF Init, Inv, LockHeld, NewRequest, Overdue, RunningIsTracked, Slot, Tracked

LEMMA StepKeeps == Inv /\ [Next]_vars => Inv'
<1>1. SUFFICES ASSUME Inv, [Next]_vars
               PROVE  Inv'
    OBVIOUS
<1>2. ASSUME NEW h \in Handlers, Arrive(h) \/ Handle(h) \/ InferEnds(h) \/ Watch(h)
      PROVE  Inv'
    BY <1>1, <1>2, ArriveKeeps, ValidateKeeps, AcquireKeeps, TrackKeeps,
       InferEndsKeeps, CancelKeeps, ClearKeeps, ReleaseKeeps, WatchKeeps DEF Handle
<1>3. CASE Exit \/ Restart
    BY <1>3, FreshKeeps DEF Exit, Restart
<1>4. CASE RequestShutdown
    BY <1>1, <1>4 DEF Inv, TypeOK, LockHeld, NewRequest, Overdue, RunningIsTracked,
                      RequestShutdown
<1>5. CASE UNCHANGED vars
    BY <1>1, <1>5 DEF Inv, TypeOK, LockHeld, NewRequest, Overdue, RunningIsTracked, vars
<1>6. QED
    BY <1>1, <1>2, <1>3, <1>4, <1>5, TickKeeps DEF Next

\* The running inference is always the tracked one, for any number of handlers.
THEOREM AlwaysTracked == Spec => []RunningIsTracked
<1>1. Inv => RunningIsTracked
    BY DEF Inv
<1>2. QED
    BY InitInv, StepKeeps, <1>1, PTL DEF Spec

\* The watchdog aborts the process only under a request that has used up its
\* deadline, whatever late callbacks of earlier requests do.
THEOREM NeverAbortsEarly == Spec => AbortsOnlyOverdue
<1>1. Inv /\ [Next]_vars =>
        [process = "up" /\ process' = "aborted" =>
            active # NoOne /\ age[active] >= Deadline]_vars
  <2>1. SUFFICES ASSUME Inv, [Next]_vars, process = "up", process' = "aborted"
                 PROVE  active # NoOne /\ age[active] >= Deadline
      OBVIOUS
  <2>2. PICK h \in Handlers : Abort(h) /\ Fresh("aborted") /\ active = h
      BY <2>1 DEF Next, vars, Arrive, Handle, InferEnds, Watch, Validate, Acquire,
                  Track, Cancel, Clear, Release, Fire, FirstLook, Wake, Abort,
                  SetTimer, RequestShutdown, Exit, Restart, Tick, Fresh
  <2>3. QED
      BY <2>1, <2>2 DEF Inv, Overdue, Abort
<1>2. QED
    BY InitInv, StepKeeps, <1>1, PTL DEF Spec, AbortsOnlyOverdue

\* Every variable keeps its type, for any number of handlers and any deadline:
\* the tracked request is a handler's or none.
THEOREM SidecarTyped == Spec => []TypeOK
<1>1. Inv => TypeOK
    BY DEF Inv
<1>2. QED
    BY InitInv, StepKeeps, <1>1, PTL DEF Spec

=============================================================================
