---------------------------- MODULE MCGhaLookup ----------------------------
(* An instance of GhaLookup small enough for TLC. *)
EXTENDS GhaLookup

CONSTANTS p1, p2, p3, k1, a1, a2
=============================================================================
