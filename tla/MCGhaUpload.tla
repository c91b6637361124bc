---------------------------- MODULE MCGhaUpload ----------------------------
(* Instances of GhaUpload small enough for TLC. *)
EXTENDS GhaUpload

CONSTANTS p1, p2, k1

=============================================================================
