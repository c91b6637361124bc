------------------------- MODULE MCServicesHistory -------------------------
(* Instances of ServicesHistory small enough for TLC. *)
EXTENDS ServicesHistory

CONSTANTS c1, c2, a1, b1, b2, e

AllKeys   == {a1, b1, b2}
AllBodies == {"r1", "r2", "whole", "corrupt"}
TwoBlobs  == {b1, b2}
OneAction == {a1}
TwoResults == {"r1", "r2"}
\* One result costs less than a blob and fits beside no blob; the other does
\* not fit at all.
Costs     == [b \in AllBodies |-> CASE b = "r1" -> 1 [] b = "r2" -> 3 [] OTHER -> 2]
Digests   == {<<b1, e, b2>>}
Batches   == {<<[key |-> b1, body |-> "corrupt", sized |-> TRUE],
                [key |-> b2, body |-> "whole", sized |-> FALSE],
                [key |-> b2, body |-> "whole", sized |-> TRUE]>>}
Streamed  == {[key |-> b1, body |-> "corrupt"]}
=============================================================================
