---------------------------- MODULE MCModelImport ----------------------------
(* A small instance of ModelImport for TLC. *)
EXTENDS ModelImport, TLC

CONSTANTS p1, p2, m1, m2, v1, d1, d2, r1, r2

MCVoiceOf == [m \in Models |-> v1]
MCProfile == [v \in Voices |-> Models]
MCHomeDir == m1 :> d1 @@ m2 :> d2
MCDeclares == r1 :> "candidate" @@ r2 :> "default"
MCEvaluated == {<<m1, r1>>, <<m2, r1>>}
MCSwap == m1 :> m2 @@ m2 :> m1 @@ d1 :> d2 @@ d2 :> d1
MCSymmetry == {p @@ q : p \in Permutations({p1, p2}), q \in {<<>>, MCSwap}}

=============================================================================
