-------------------------- MODULE ActivationLedger --------------------------
(***************************************************************************)
(* What the activation of external engines promises for one service key,   *)
(* without callers, leases, probes or timeouts: an intent is on record     *)
(* before its command is issued, a command is issued at most once, and an  *)
(* intent is struck off only by somebody who has seen its own engine up,   *)
(* or by an operator.                                                      *)
(* Stated by docs/runtime-external-activation-single-flight-v1.md;         *)
(* ExternalActivation implements it.                                       *)
(***************************************************************************)
CONSTANTS Engines,
          Commands,  \* each names its engine
          Nothing

VARIABLES intent,  \* the recorded command, or Nothing
          fresh,   \* it has not been issued, but still may be
          seen,    \* its engine was seen up, and it may be struck off
          working, \* commands that the external supervisor may still obey
          up       \* engines that answer

ledgerVars == <<intent, fresh, seen, working, up>>

Init ==
    /\ intent = Nothing
    /\ fresh = FALSE
    /\ seen = FALSE
    /\ working = {}
    /\ up \in SUBSET Engines

\* Nothing is recorded over an open intent or an open command.
Record(m) ==
    /\ intent = Nothing
    /\ working = {}
    /\ intent' = m
    /\ fresh' = TRUE
    /\ UNCHANGED <<seen, working, up>>

\* The one time a command is issued.  An engine that is up already ignores it.
Issue ==
    /\ fresh
    /\ fresh' = FALSE
    /\ working' = IF intent.engine \in up THEN working ELSE working \cup {intent}
    /\ UNCHANGED <<intent, seen, up>>

\* It never will be issued, and the record stays.
Lapse ==
    /\ fresh
    /\ fresh' = FALSE
    /\ UNCHANGED <<intent, seen, working, up>>

Observe ==
    /\ intent # Nothing
    /\ ~fresh
    /\ intent.engine \in up
    /\ seen' = TRUE
    /\ UNCHANGED <<intent, fresh, working, up>>

Retire ==
    /\ seen
    /\ intent' = Nothing
    /\ seen' = FALSE
    /\ UNCHANGED <<fresh, working, up>>

\* Who saw it is gone.
Overlook ==
    /\ seen
    /\ seen' = FALSE
    /\ UNCHANGED <<intent, fresh, working, up>>

\* An engine that comes up has obeyed its command.
Rise(e) ==
    /\ up' = up \cup {e}
    /\ working' = {m \in working : m.engine # e}
    /\ UNCHANGED <<intent, fresh, seen>>

Fall(e) ==
    /\ up' = up \ {e}
    /\ UNCHANGED <<intent, fresh, seen, working>>

\* The operator takes the command back, and then its record.
Withdraw ==
    /\ intent # Nothing
    /\ ~fresh /\ ~seen
    /\ intent' = Nothing
    /\ working' = working \ {intent}
    /\ UNCHANGED <<fresh, seen, up>>

Next ==
    \/ Issue \/ Lapse \/ Observe \/ Retire \/ Overlook \/ Withdraw
    \/ \E m \in Commands : Record(m)
    \/ \E e \in Engines : Rise(e) \/ Fall(e)

Spec == Init /\ [][Next]_ledgerVars

=============================================================================
