------------------------- MODULE MCByteStreamWrite -------------------------
(* Instances of ByteStreamHistory small enough for TLC. *)
EXTENDS ByteStreamHistory

CONSTANTS w1, w2, k1

TwoGood    == <<"good", "good">>
\* Honest, and as long as an honest one but wrong; streams that break cut both short.
AnyBody    == {TwoGood, <<"bad", "good">>}

=============================================================================
