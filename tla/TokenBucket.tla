----------------------------- MODULE TokenBucket -----------------------------
(***************************************************************************)
(* The rate limiter of the GHA backend (rate_limiter.rs): a semaphore whose*)
(* permits are consumed by acquire() and minted by a background task.      *)
(*                                                                         *)
(* The semaphore is tokio's, modelled from how it is used here: permits go *)
(* to the queue of waiters, first come first served, before they count as  *)
(* available.  A waiter that was given a permit consumes it when it is     *)
(* polled next, and gives it back if it is dropped before that.            *)
(***************************************************************************)
EXTENDS Naturals, Sequences, FiniteSets

CONSTANTS
  Procs,      \* the operations that may ask for a token at the same time
  MaxTokens,  \* max_tokens (200 in the code)
  Refill,     \* refill_count (4)
  Cancels     \* whether callers may go away while they wait

ASSUME BucketAssumption ==
  IsFiniteSet(Procs) /\ MaxTokens \in Nat /\ Refill \in Nat /\ Cancels \in BOOLEAN

VARIABLES
  available,   \* available_permits()
  waiting,     \* the operations in the semaphore's queue, first one first
  granted,     \* those that hold a permit and have yet to be polled
  adding       \* the permits the background task has decided to add

vars == <<available, waiting, granted, adding>>

Init == available = MaxTokens /\ waiting = <<>> /\ granted = {} /\ adding = 0

Waiting == {waiting[i] : i \in DOMAIN waiting}

Least(m, n) == IF m <= n THEN m ELSE n

\* n permits become free while queue waits.
Release(queue, n, holders) ==
  LET served == Least(n, Len(queue)) IN
  /\ granted' = holders \union {queue[i] : i \in 1..served}
  /\ waiting' = SubSeq(queue, served + 1, Len(queue))
  /\ available' = available + (n - served)

\* Mutant: the permit is not forgotten, and comes back.
TakeAndReturn(p) ==
  /\ p \notin Waiting \union granted /\ available > 0
  /\ UNCHANGED <<available, waiting, granted, adding>>

\* acquire() of an operation that finds a permit, and forgets it at once.
Take(p) ==
  /\ p \notin Waiting \union granted /\ available > 0
  /\ available' = available - 1
  /\ UNCHANGED <<waiting, granted, adding>>

\* acquire() of one that does not.
Queue(p) ==
  /\ p \notin Waiting \union granted /\ available = 0
  /\ waiting' = Append(waiting, p)
  /\ UNCHANGED <<available, granted, adding>>

\* A waiter with a permit is polled: acquire() returns.
Resume(p) ==
  /\ p \in granted
  /\ granted' = granted \ {p}
  /\ UNCHANGED <<available, waiting, adding>>

\* A waiter is dropped, and the permit it may have been given is not.
Drop(p) ==
  /\ Cancels
  /\ \/ /\ \E i \in DOMAIN waiting :
             /\ waiting[i] = p
             /\ waiting' = SubSeq(waiting, 1, i - 1) \o SubSeq(waiting, i + 1, Len(waiting))
        /\ UNCHANGED <<available, granted>>
     \/ /\ p \in granted
        /\ Release(waiting, 1, granted \ {p})
  /\ UNCHANGED adding

\* Mutant: all of refill_count, however full the bucket is.
MeasureFull ==
  /\ adding = 0
  /\ adding' = Refill
  /\ UNCHANGED <<available, waiting, granted>>

\* The interval is over: read available_permits() to see what is missing.
Measure ==
  /\ adding = 0
  /\ adding' = Least(Refill, IF available < MaxTokens THEN MaxTokens - available ELSE 0)
  /\ UNCHANGED <<available, waiting, granted>>

\* Add that many, whatever was taken or given back since.
AddPermits ==
  /\ adding > 0
  /\ Release(waiting, adding, granted)
  /\ adding' = 0

Next == \/ \E p \in Procs : Take(p) \/ Queue(p) \/ Resume(p) \/ Drop(p)
        \/ Measure \/ AddPermits

Spec == Init /\ [][Next]_vars

\* The background task sleeps and wakes for ever; tokio polls who was given
\* a permit.
Fairness == WF_vars(Measure \/ AddPermits) /\ \A p \in Procs : WF_vars(Resume(p))

FairSpec == Spec /\ Fairness

-----------------------------------------------------------------------------
(* Properties *)

\* The types of the counters and the queue; no operation is in it twice, and
\* none is at once waiting and served.
TypeOK ==
  /\ available \in Nat /\ adding \in 0..Refill
  /\ waiting \in Seq(Procs) /\ granted \in SUBSET Procs
  /\ \A i, j \in DOMAIN waiting : i # j => waiting[i] # waiting[j]
  /\ Waiting \intersect granted = {}

\* The bucket does not overflow, though the refill reads the level in one step
\* and adds in another: what it adds fits still, unless waiters that had been
\* served went away in between, each giving one permit back.
BucketBounded ==
  /\ available + Cardinality(granted) <= MaxTokens + Cardinality(Procs)
  /\ ~Cancels => available <= MaxTokens

\* Nobody starves: if tokens are minted at all, whoever waits is served or
\* goes away, however many others keep asking.
WaitersServed ==
  Refill > 0 /\ MaxTokens > 0 =>
    \A p \in Procs : p \in Waiting ~> p \notin Waiting \union granted
=============================================================================
