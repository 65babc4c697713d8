------------------------- MODULE MCIndexTtsSidecar -------------------------
(* Small instances of IndexTtsSidecar for TLC. *)
EXTENDS IndexTtsSidecar

CONSTANTS h1, h2, h3

=============================================================================
