---------------------------- MODULE MCBlobReads ----------------------------
(* Instances of BlobReads small enough for TLC. *)
EXTENDS BlobReads

CONSTANTS p1, k1, r1, e

AllBodies == {"short", "long"}
Sizes     == [b \in AllBodies |-> IF b = "short" THEN 1 ELSE 4]
SomeRanges == {<<0, 0>>, <<1, 2>>}
=============================================================================
