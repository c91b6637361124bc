------------------------------ MODULE BlobStore ------------------------------
(***************************************************************************)
(* What a StorageBackend promises (backend.rs): it holds at most one body  *)
(* for each key, a whole one that it accepted, and loses it only as a      *)
(* whole.  A step stores one body or loses some.  When a body is stored is *)
(* left open, since put() may fail, and so is when one is lost, since      *)
(* backends evict; what is ruled out is a body that nobody may be served.  *)
(***************************************************************************)
CONSTANTS
  Keys,
  Accepted,    \* the bodies put() accepts: "whole", and "corrupt" if it does
               \* not verify the hash
  Losses       \* the sets of keys whose bodies a step may lose together

VARIABLE blob  \* blob[k]: what get() would be served for k

Init == blob = [k \in Keys |-> "absent"]

\* put() of k takes effect: the last write wins.
Keep(k, body) == blob' = [blob EXCEPT ![k] = body]

\* delete() of a key, or an eviction.
Lose(gone) == blob' = [k \in Keys |-> IF k \in gone THEN "absent" ELSE blob[k]]

Next == \/ \E k \in Keys, body \in Accepted : Keep(k, body)
        \/ \E gone \in Losses : Lose(gone)

Spec == Init /\ [][Next]_blob
=============================================================================
