------------------------------ MODULE GhaLookup ------------------------------
(***************************************************************************)
(* GhaBackend's contains() and get() behind its rate limiter               *)
(* (gha_backend.rs, v1.rs, v2.rs): wait for a token, ask the service for   *)
(* the entry, again if it does not answer, and, for get(), open the        *)
(* archive that it named.                                                  *)
(*                                                                         *)
(* The service and the network are external: entries are committed and     *)
(* evicted by others at any time.  The two versions of the API differ in   *)
(* how an answer is written, not in how it is read.  The limiter is that   *)
(* of TokenBucket with its meter; operations that are not lookups ask it   *)
(* for tokens too.                                                         *)
(***************************************************************************)
EXTENDS TokenBucketRate

CONSTANTS
  Lookers,    \* the operations that are calls of contains() and get()
  Keys,       \* cache keys "KIND-hash"
  Archives,   \* what an entry may name
  None,       \* no archive
  Attempts,   \* how often the service is asked (4 in the code)
  Faults      \* which of "down" (5xx, transport) and "refuse" (4xx, garbage) happen

ASSUME LookupAssumption ==
  /\ Lookers \subseteq Procs /\ None \notin Archives
  /\ Attempts \in Nat \ {0} /\ Faults \subseteq {"down", "refuse"}

VARIABLES
  entry,   \* entry[k]: the archive of the service's entry for k, or None
  pc,      \* pc[l]: the step lookup l is at
  look     \* look[l]: its operation and how it went, or how the last one did

lvars == <<rvars, entry, pc, look>>

\* tried: answers that say the service is down; archive: what the entry named;
\* refused: it answered 4xx or garbage; seen: whether the entry was there, at
\* any moment of the call; how: what the call returned.
NewLook(op, k, seen) == [op |-> op, key |-> k, tried |-> 0, archive |-> None,
                         refused |-> FALSE, seen |-> seen, how |-> "none"]

NoLook == NewLook("none", "none", {})

LookupInit ==
  /\ RInit
  /\ entry \in [Keys -> {None} \union Archives]
  /\ pc = [l \in Lookers |-> "idle"] /\ look = [l \in Lookers |-> NoLook]

Goto(l, step) == pc' = [pc EXCEPT ![l] = step]

There(k) == IF entry[k] = None THEN "absent" ELSE "present"

\* acquire(): a token is there, or the call queues for one.
Acquire(l) ==
  \/ Take(l) /\ credit' = credit - 1 /\ Goto(l, "ask")
  \/ Queue(l) /\ UNCHANGED credit /\ Goto(l, "limit")

Call(l, op, k) ==
  /\ pc[l] = "idle"
  /\ Acquire(l)
  /\ look' = [look EXCEPT ![l] = NewLook(op, k, {There(k)})]
  /\ UNCHANGED entry

Admitted(l) ==
  /\ pc[l] = "limit"
  /\ Resume(l) /\ credit' = credit - 1
  /\ Goto(l, "ask")
  /\ UNCHANGED <<entry, look>>

\* The call returns.
Return(l, l2, how) ==
  /\ Goto(l, "idle")
  /\ look' = [look EXCEPT ![l] = [l2 EXCEPT !.how = how]]

\* An error is returned as it is, but for BackendUnavailable: that is a miss.
Unavailable(l, l2) == Return(l, l2, "miss")

\* Mutant: every error is a miss.
RefusedIsMiss(l) == Return(l, [look[l] EXCEPT !.refused = TRUE], "miss")

Refused(l) == Return(l, [look[l] EXCEPT !.refused = TRUE], "error")

-----------------------------------------------------------------------------
(* The entry *)

\* contains() answers "hit", get() goes on to the archive.
Found(l) ==
  /\ entry[look[l].key] # None
  /\ IF look[l].op = "contains" THEN Return(l, look[l], "hit")
     ELSE /\ Goto(l, "open")
          /\ look' = [look EXCEPT ![l].archive = entry[look[l].key]]

NotFound(l) == entry[look[l].key] = None /\ Return(l, look[l], "miss")

\* Mutant: the count of attempts starts again.
DownForEver(l) ==
  /\ "down" \in Faults
  /\ look' = [look EXCEPT ![l].tried = (@ + 1) % Attempts]
  /\ UNCHANGED pc

\* No answer, or 5xx: asked again after a while, Attempts times in all.
Down(l) ==
  /\ "down" \in Faults
  /\ LET tried == [look[l] EXCEPT !.tried = @ + 1] IN
     IF tried.tried < Attempts THEN look' = [look EXCEPT ![l] = tried] /\ UNCHANGED pc
     ELSE Unavailable(l, tried)

\* The entry is looked up.
Ask(l) ==
  /\ pc[l] = "ask"
  /\ Found(l) \/ NotFound(l) \/ Down(l) \/ ("refuse" \in Faults /\ Refused(l))
  /\ UNCHANGED <<entry, rvars>>

-----------------------------------------------------------------------------
(* The archive *)

\* A reader of the archive is returned.
Opened(l) == entry[look[l].key] = look[l].archive /\ Return(l, look[l], "hit")

\* Its URL leads nowhere any more.
Gone(l) == entry[look[l].key] # look[l].archive /\ Return(l, look[l], "error")

\* The download is tried once; 5xx is an error like any other status.
Open(l) ==
  /\ pc[l] = "open"
  /\ \/ Opened(l) \/ Gone(l)
     \/ "down" \in Faults /\ (Refused(l) \/ Unavailable(l, look[l]))
     \/ "refuse" \in Faults /\ Refused(l)
  /\ UNCHANGED <<entry, rvars>>

\* Mutant: the queue keeps the call's place.
StayInQueue(l) == pc[l] = "limit" /\ UNCHANGED rvars

\* acquire() is dropped, and its place in the queue with it.
LeaveQueue(l) == pc[l] = "limit" /\ Drop(l) /\ UNCHANGED credit

\* The handler is dropped: in the limiter's queue, or later.
Cancel(l) ==
  /\ Cancels
  /\ \/ LeaveQueue(l)
     \/ pc[l] \in {"ask", "open"} /\ UNCHANGED rvars
  /\ Return(l, look[l], "dropped")
  /\ UNCHANGED entry

-----------------------------------------------------------------------------
(* Everybody else *)

\* An entry is committed or evicted.  Its archive is not that of an entry which
\* a lookup still holds the URL of.
Change(k) ==
  /\ \E a \in Archives \union {None} :
       /\ (a = None) # (entry[k] = None)
       /\ \A l \in Lookers : pc[l] = "open" => a # look[l].archive
       /\ entry' = [entry EXCEPT ![k] = a]
       /\ look' = [l \in Lookers |->
            IF pc[l] # "idle" /\ look[l].key = k
            THEN [look[l] EXCEPT !.seen = @ \union {IF a = None THEN "absent" ELSE "present"}]
            ELSE look[l]]
  /\ UNCHANGED <<rvars, pc>>

\* Uploads take tokens, wait for them and go away.
Other(p) ==
  /\ \/ (Take(p) \/ Resume(p)) /\ credit' = credit - 1
     \/ (Queue(p) \/ Drop(p)) /\ UNCHANGED credit
  /\ UNCHANGED <<entry, pc, look>>

Refilling ==
  /\ \/ Measure /\ credit' = Least(Full, credit + Refill)
     \/ AddPermits /\ UNCHANGED credit
  /\ UNCHANGED <<entry, pc, look>>

LookupNext ==
  \/ \E l \in Lookers : \/ \E op \in {"contains", "get"}, k \in Keys : Call(l, op, k)
                       \/ Admitted(l) \/ Ask(l) \/ Open(l) \/ Cancel(l)
  \/ \E k \in Keys : Change(k)
  \/ \E p \in Procs \ Lookers : Other(p)
  \/ Refilling

\* The limiter's fairness, and a client that goes on: every request ends, be it
\* by the time-out of 30 s.  Nothing is assumed of the service.
LookupSpec ==
  /\ LookupInit /\ [][LookupNext]_lvars
  /\ Fairness /\ \A l \in Lookers : WF_lvars(Ask(l) \/ Open(l))

-----------------------------------------------------------------------------
(* Properties *)

Looks == [op : {"none", "contains", "get"}, key : Keys \union {"none"}, tried : 0..Attempts,
          archive : Archives \union {None}, refused : BOOLEAN,
          seen : SUBSET {"absent", "present"},
          how : {"none", "hit", "miss", "error", "dropped"}]

\* The types of the limiter, the entries and the lookups; a lookup waits at the
\* limiter exactly while it is in its queue, or served and yet to be polled.
LookupTypeOK ==
  /\ TypeOK
  /\ entry \in [Keys -> Archives \union {None}]
  /\ pc \in [Lookers -> {"idle", "limit", "ask", "open"}]
  /\ look \in [Lookers -> Looks]
  /\ \A l \in Lookers : pc[l] = "limit" <=> l \in Waiting \union granted

\* What a lookup says is true of some moment of the call.  A hit was there; a
\* miss was not, unless the service was down at every attempt, or the archive
\* could not be reached; and an error that is not the service's own comes of an
\* entry that vanished in the middle of the call.
LookupHonest ==
  \A l \in Lookers :
    LET l2 == look[l] IN
    /\ l2.how = "hit" => "present" \in l2.seen
    /\ l2.how = "miss" => \/ "absent" \in l2.seen
                          \/ l2.tried = Attempts
                          \/ "down" \in Faults /\ l2.op = "get" /\ l2.archive # None
    /\ l2.how = "error" /\ ~l2.refused => l2.seen = {"absent", "present"}

\* Nobody waits at the limiter for ever, and a lookup ends, however many others
\* ask for tokens or go away, and however long the service is down.
LookupsEnd ==
  /\ WaitersServed
  /\ Refill > 0 /\ MaxTokens > 0 => \A l \in Lookers : pc[l] # "idle" ~> pc[l] = "idle"
=============================================================================
