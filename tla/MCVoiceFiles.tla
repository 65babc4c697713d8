---------------------------- MODULE MCVoiceFiles ----------------------------
(* A small instance of VoiceFiles, seen by SystemGraph, for TLC. *)
EXTENDS SystemGraph, TLC

CONSTANTS r1, own, shared, p1, p2, k1, k2, m1, g1, b1, b2, gpt, index, gpu0

MCImported == m1 :> g1
MCSharedBinding ==
    [id |-> b1, model |-> Shared, engine |-> index, speaker |-> OwnRef, emotion |-> NoFile]
\* A binding of the imported model made by hand, with a reference of the pack.
MCHandBindings ==
    {[id |-> b2, model |-> g1, engine |-> gpt, speaker |-> OwnRef, emotion |-> r]
        : r \in Refs}
MCSymmetry == {p @@ q : p \in Permutations({p1, p2}), q \in Permutations({k1, k2})}

MCNeeds == (gpt :> {<<"resource", gpu0>>}) @@ (index :> {<<"resource", gpu0>>, <<"owner", gpu0>>})

=============================================================================
