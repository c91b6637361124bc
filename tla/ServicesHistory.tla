--------------------------- MODULE ServicesHistory ---------------------------
(***************************************************************************)
(* CacheServices with history variables, to say what an answer that took   *)
(* several calls of the backend still means.  The history only observes.   *)
(***************************************************************************)
EXTENDS CacheServices

VARIABLES
  rivals,   \* the clients whose update shared its action with another's put
  seen,     \* seen[c]: <<k, there>>: where c's search has seen blob k
  cut       \* an eviction was cut short (or ended like one that was, its
            \* put dropped), and none has been completed since

hvars == <<vars, rivals, seen, cut>>

HInit == Init /\ rivals = {} /\ seen = [c \in Clients |-> {}] /\ cut = FALSE

\* Another task is putting, in the next state, the key that c updates.
Rival(c) ==
  \E d \in Clients \ {c} : /\ task'[d].at \in {"insert", "evict"}
                           /\ task'[d].key = call'[c].key

\* The blobs that c's search is about in the next state.
Sought(c) ==
  Blobs \intersect IF call[c].step = "missing" THEN {s[1] : s \in seen[c]}
                   ELSE {call'[c].left[i] : i \in DOMAIN call'[c].left}

HNext ==
  /\ Next
  /\ rivals' = {c \in Clients : call'[c].step \in {"put", "back"} /\ (c \in rivals \/ Rival(c))}
  /\ seen' = [c \in Clients |->
       IF call'[c].step # "missing" THEN {}
       ELSE seen[c] \union {<<k, rows'[k] # NoRow>> : k \in Sought(c)}]
  /\ cut' = IF conn # Nobody /\ conn' = Nobody THEN SqlError(conn) \/ Restart ELSE cut

\* Fairness is that of CacheServices: the history changes with its steps.
HSpec == HInit /\ [][HNext]_hvars /\ Fairness

\* An update is answered with the result it brought, though it reads it back
\* in a second call, unless another put of the action (that of a dropped call
\* included) was under way meanwhile.
OwnResult ==
  \A c \in Clients :
    call[c].step = "back" /\ answer[c] \in Results
      => answer[c] = call[c].body \/ c \in rivals

\* What FindMissingBlobs says of each blob it was asked for was true at some
\* moment of the call, though uploads, evictions and deletes run between its
\* lookups.
MissingHonest ==
  \A c \in Clients : call[c].step = "missing" /\ call[c].left = <<>> =>
    \A k \in {s[1] : s \in seen[c]} : <<k, k \notin call[c].missing>> \in seen[c]

\* Between puts the table is within its limit, unless an eviction was cut
\* short by an error or a crash; then the next put that succeeds makes good.
LimitKept == conn = Nobody /\ ~cut => Total <= MaxSize
=============================================================================
