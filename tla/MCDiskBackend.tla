--------------------------- MODULE MCDiskBackend ---------------------------
(* Instances of DiskBackend small enough for TLC. *)
EXTENDS DiskBackend, TLC

CONSTANTS p1, p2, k1, k2, k3, k4

UnitSize    == [k \in Keys |-> 1]
FullSize    == [k \in Keys |-> MaxLen]
MixedSize   == [k \in Keys |-> IF k = k1 THEN 1 ELSE MaxLen]
AnyUploader == [k \in Keys |-> Procs]
\* No two handlers upload the same key: p1 has k1, p2 the others.
OneUploader == [k \in Keys |-> IF k = k1 THEN {p1} ELSE {p2}]
KnownLength == 1..MaxLen
SomeLengths == {-1} \union (1..MaxLen)

\* Handlers and keys are interchangeable where no constant tells them apart.
Symmetric == Permutations(Procs) \union Permutations(Keys)
=============================================================================
