-------------------------- MODULE MCLayeredHistory --------------------------
(* Instances of LayeredHistory small enough for TLC: one key, two handlers. *)
EXTENDS LayeredHistory

CONSTANTS h1, h2, k1

AllOps == Operations

=============================================================================
