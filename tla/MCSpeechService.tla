--------------------------- MODULE MCSpeechService ---------------------------
(* Small instances of SpeechService for TLC. *)
EXTENDS SpeechService, TLC

CONSTANTS c1, c2, t1, t2, e1, e2, n1, n2

MCHome == [t \in Threads |-> IF t = t1 THEN c1 ELSE c2]
MCOneHome == [t \in Threads |-> c1]

\* Engines and launch ids are interchangeable; so are the two controllers,
\* each taken together with its one thread.
Swap(x, y) == x :> y @@ y :> x
Together(P, Q) == {p @@ q : p \in P, q \in Q}
Controllers ==
    {[x \in {c1, c2, t1, t2} |-> x], Swap(c1, c2) @@ Swap(t1, t2)}
MCLaunchAndControllerSymmetry == Together(Permutations({n1, n2}), Controllers)
MCSymmetry == Together(Permutations({e1, e2}), MCLaunchAndControllerSymmetry)

=============================================================================
