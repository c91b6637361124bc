--------------------------- MODULE LayeredHistory ---------------------------
(***************************************************************************)
(* LayeredBackend with history variables, to say what a miss and a delete  *)
(* promise to a client.  The history only observes: every step of          *)
(* LayeredBackend is still possible and nothing else is.                   *)
(***************************************************************************)
EXTENDS LayeredBackend

VARIABLES
  steady,    \* steady[h]: where the key of h has been found since h started
  others,    \* others[h]: something else has run on h's key since its delete started
  quiet      \* keys that a delete that ran alone has removed since their last put

hvars == <<vars, steady, others, quiet>>

HInit ==
  /\ Init
  /\ steady = [h \in Handlers |-> {}] /\ others = [h \in Handlers |-> FALSE]
  /\ quiet = {}

Reading   == {"get1", "get2", "drain", "reget2", "store1", "back1", "has1", "has2"}

\* Where k is in the next state: in L1, in L2, in "some" tier; the last only if
\* this step did not take k out of L2, since get() looks there last.
HeldNext(k) ==
  {w \in {"l1", "l2", "some"} :
     CASE w = "l1"   -> l1'[k] # "absent"
       [] w = "l2"   -> l2'[k] # "absent"
       [] w = "some" -> l2'[k] # "absent" \/ (l1'[k] # "absent" /\ l2[k] = "absent")}

\* In the next state something other than h works on k, a job of the queue
\* included.
BusyNext(h, k) ==
  \/ \E g \in Handlers \ {h} : pc'[g] # "idle" /\ req'[g].key = k
  \/ \E i \in DOMAIN queue' : queue'[i] = k
  \/ task'.at # "recv" /\ task'.key = k

\* The keys that a put starts on in a step, and those that a delete which ran
\* alone has removed.
PutStarts == {req'[h].key : h \in {g \in Handlers : pc[g] = "idle" /\ pc'[g] = "put1"}}
Deleted   == {req[h].key : h \in {g \in Handlers : pc[g] = "del" /\ reply'[g] = "ok" /\ ~others[g]}}

\* What the request of h can no longer be expected to find: its L1, if the
\* lookup there failed with an error.
Unread(h) == IF pc[h] = "get1" /\ pc'[h] = "get2" /\ l1[req[h].key] # "absent"
             THEN {"l1", "some"} ELSE {}

HNext ==
  /\ Next
  /\ steady' = [h \in Handlers |->
       IF pc[h] = "idle" /\ pc'[h] \in Reading THEN HeldNext(req'[h].key)
       ELSE IF pc[h] \in Reading /\ (pc'[h] \in Reading \/ reply'[h] = "miss")
            THEN (steady[h] \intersect HeldNext(req[h].key)) \ Unread(h)
       ELSE IF pc[h] = "idle" /\ pc'[h] = "idle" THEN steady[h]
       ELSE {}]
  /\ others' = [h \in Handlers |->
       pc'[h] = "del" /\ (others[h] \/ BusyNext(h, req'[h].key))]
  /\ quiet' = (quiet \union Deleted) \ PutStarts

\* Fairness is that of LayeredBackend: the history changes with its steps.
HSpec == HInit /\ [][HNext]_hvars /\ Fairness

\* A get() or contains() answers "not found" only if the blob was in neither
\* tier at some moment, or left L2, while it ran: write-backs, propagation and
\* L1 evictions meanwhile never hide a blob that one of the tiers has.  (One
\* that only L1 has may be missed if reading it there fails.)
NoFalseMiss == \A h \in Handlers : reply[h] = "miss" => steady[h] = {}

\* A delete that nothing else ran beside on its key, a job in the queue
\* included, removes the blob from both tiers until somebody uploads it again.
\* (With a job or a write-back beside it, it does not.)
QuietDeleteSticks == \A k \in quiet : l1[k] = "absent" /\ l2[k] = "absent"
=============================================================================
