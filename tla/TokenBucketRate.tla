--------------------------- MODULE TokenBucketRate ---------------------------
(***************************************************************************)
(* TokenBucket with a meter of what it lets through.  The meter holds the  *)
(* operations that may still be let through if, in every period, they are  *)
(* no more than a full bucket and what the period's intervals minted.      *)
(***************************************************************************)
EXTENDS TokenBucket, Integers

VARIABLE credit    \* what the meter leaves

rvars == <<vars, credit>>

\* Waiters that were served and went away can overfill the bucket by one
\* permit each.
Full == MaxTokens + Cardinality(Procs)

RInit == Init /\ credit = MaxTokens

Acquires == \E p \in Procs : Take(p) \/ Resume(p)

RNext ==
  \/ Acquires /\ credit' = credit - 1
  \/ Measure /\ credit' = Least(Full, credit + Refill)
  \/ (AddPermits \/ \E p \in Procs : Queue(p) \/ Drop(p)) /\ UNCHANGED credit

\* Fairness is that of TokenBucket: the meter changes with its steps.
RSpec == RInit /\ [][RNext]_rvars /\ Fairness

\* The rate limit: in no period are more operations let through than a full
\* bucket and the intervals in it account for, however the refill races with
\* operations that take permits, wait for them or go away.
RateBounded == credit >= 0

\* Its inductive form: permits in anybody's hands are covered by the meter,
\* and would fit in a full bucket.
Minted ==
  LET held == available + Cardinality(granted) + adding
  IN held <= credit /\ held <= Full
=============================================================================
