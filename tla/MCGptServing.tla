---------------------------- MODULE MCGptServing ----------------------------
(* Small instances of GptServing for TLC. *)
EXTENDS GptServing, TLC

CONSTANTS c1, c2, t1, t2, b1, b2, v1, v2

MCHome == [t \in Threads |-> IF t = t1 THEN c1 ELSE c2]
MCOneHome == [t \in Threads |-> c1]
MCVoices == Permutations({v1, v2})
MCThreadsAndEndpoints ==
    {p @@ q : p \in Permutations({t1, t2}), q \in Permutations({b1, b2})}

=============================================================================
