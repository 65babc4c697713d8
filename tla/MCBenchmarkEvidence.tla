------------------------ MODULE MCBenchmarkEvidence ------------------------
(* A small instance of BenchmarkEvidence for TLC. *)
EXTENDS BenchmarkEvidence, TLC

CONSTANTS s1, s2, d1, d2, k1, k2, w1, w2, c1, c2

\* The reference of a corpus tells it from the other, and is named after it.
MCRef == [c \in {c1, c2} |-> c]

MCSymmetry ==
    {p @@ q @@ r @@ s @@ t :
        p \in Permutations({s1, s2}), q \in Permutations({d1, d2}),
        r \in Permutations({k1, k2}), s \in Permutations({w1, w2}),
        t \in Permutations({c1, c2})}

=============================================================================
