------------------------ MODULE MCExternalActivation ------------------------
(* A small instance of ExternalActivation for TLC. *)
EXTENDS ExternalActivation

CONSTANTS p1, p2, e1, e2, r1, r2, r3

=============================================================================
