--------------------------- MODULE GhaLookup_proofs ---------------------------
(***************************************************************************)
(* Proofs about the limiter, TokenBucketRate, for any bucket and callers   *)
(* that may go away while they wait, and about GhaLookup, for any number   *)
(* of lookups, other operations, entries and attempts: the rate limit      *)
(* holds, a lookup waits at the limiter exactly when it is at it, and what *)
(* a lookup says is true of some moment of the call.                       *)
(***************************************************************************)
EXTENDS GhaLookup, FiniteSetTheorems, TLAPS

-----------------------------------------------------------------------------
(* The limiter *)

\* The counters and the queue, as far as the count of permits needs them.
Counters ==
  /\ available \in Nat /\ adding \in 0..Refill /\ credit \in Int
  /\ waiting \in Seq(Procs) /\ granted \in SUBSET Procs

\* Without callers that go away the bucket is never more than full.
Room == ~Cancels => available <= MaxTokens - adding

RInv == Counters /\ Minted /\ Room

\* The holders of permits are finitely many.
LEMMA HoldersFinite ==
  ASSUME NEW S, S \subseteq Procs
  PROVE  IsFiniteSet(S) /\ Cardinality(S) \in Nat
  BY BucketAssumption, FS_Subset, FS_CardinalityType

\* Release hands out or keeps exactly the n permits, to nobody but waiters.
LEMMA ReleaseConserves ==
  ASSUME NEW queue \in Seq(Procs), NEW n \in Nat, NEW holders \in SUBSET Procs,
         available \in Nat, Release(queue, n, holders)
  PROVE  /\ waiting' \in Seq(Procs) /\ granted' \in SUBSET Procs
         /\ \E a, g \in Nat : /\ available' = a /\ Cardinality(granted') = g
                             /\ a + g <= available + n + Cardinality(holders)
                             /\ a <= available + n
<1> DEFINE served == Least(n, Len(queue))
           lucky  == {queue[i] : i \in 1..served}
<1>1. served \in Nat /\ served <= n /\ served <= Len(queue)
  BY DEF Least
<1>2. \A i \in 1..served : queue[i] \in Procs
  BY <1>1
<1>3. granted' \in SUBSET Procs
  BY <1>2 DEF Release
<1>4. available' = available + (n - served) /\ available' \in Nat
  BY <1>1 DEF Release
<1>5. waiting' \in Seq(Procs)
  <2>1. waiting' = SubSeq(queue, served + 1, Len(queue))
    BY DEF Release
  <2>2. served + 1 \in 1..(Len(queue) + 1)
    BY <1>1
  <2> QED
    BY <2>1, <2>2, <1>1
<1>6. IsFiniteSet(lucky) /\ Cardinality(lucky) <= served
  <2> DEFINE f == [i \in 1..served |-> queue[i]]
  <2>1. IsFiniteSet(1..served) /\ Cardinality(1..served) = served
    BY <1>1, FS_Interval, SMTT(30)
  <2>2. f \in Surjection(1..served, lucky)
    BY DEF Surjection
  <2>3. IsFiniteSet(lucky) /\ Cardinality(lucky) <= Cardinality(1..served)
    <3> HIDE DEF f, lucky, served
    <3> QED
      BY <2>1, <2>2, FS_Surjection
  <2> QED
    BY <2>1, <2>3
<1>7. Cardinality(granted') <= Cardinality(holders) + served
  <2>1. granted' = holders \union lucky
    BY DEF Release
  <2>2. IsFiniteSet(holders) /\ Cardinality(holders) \in Nat
    BY HoldersFinite
  <2>3. Cardinality(holders \union lucky)
          = Cardinality(holders) + Cardinality(lucky) - Cardinality(holders \intersect lucky)
    <3> HIDE DEF lucky
    <3> QED
      BY <1>6, <2>2, FS_Union
  <2>4. Cardinality(lucky) \in Nat /\ Cardinality(holders \intersect lucky) \in Nat
    BY <1>2, HoldersFinite
  <2> HIDE DEF lucky, served
  <2> QED
    BY <1>1, <1>6, <2>1, <2>2, <2>3, <2>4
<1>8. Cardinality(granted') \in Nat /\ Cardinality(holders) \in Nat
  BY <1>3, HoldersFinite
<1> HIDE DEF lucky, served
<1> DEFINE a == available + (n - served)
           g == Cardinality(granted')
<1>9. a \in Nat /\ g \in Nat /\ a + g <= available + n + Cardinality(holders) /\ a <= available + n
  BY <1>1, <1>4, <1>7, <1>8
<1>10. available' = a /\ Cardinality(granted') = g
  BY <1>4
<1> HIDE DEF a, g
<1> QED
  BY <1>3, <1>5, <1>9, <1>10

\* What one step does to the permits: no step but the refill's mints any, and
\* that one mints no more than the meter gains or the bucket misses.
LEMMA StepMinted ==
  ASSUME RInv, RNext
  PROVE  RInv'
<1>0. /\ Cardinality(granted) \in Nat /\ Cardinality(Procs) \in Nat
      /\ Cardinality(granted) <= Cardinality(Procs)
      /\ MaxTokens \in Nat /\ Refill \in Nat /\ Full = MaxTokens + Cardinality(Procs)
  <2>1. IsFiniteSet(Procs) /\ granted \subseteq Procs
    BY BucketAssumption DEF RInv, Counters
  <2> QED
    BY <2>1, HoldersFinite, FS_Subset, BucketAssumption DEF Full
<1>1. ASSUME NEW p \in Procs, Take(p), credit' = credit - 1
      PROVE  RInv'
  BY <1>0, <1>1 DEF Take, RInv, Counters, Minted, Room, Full
<1>2. ASSUME NEW p \in Procs, Resume(p), credit' = credit - 1
      PROVE  RInv'
  <2>1. Cardinality(granted') = Cardinality(granted) - 1
    BY <1>2, HoldersFinite, FS_RemoveElement DEF Resume, RInv, Counters
  <2> QED
    BY <1>0, <1>2, <2>1 DEF Resume, RInv, Counters, Minted, Room, Full
<1>3. ASSUME Measure, credit' = Least(Full, credit + Refill)
      PROVE  RInv'
  <2>1. adding = 0 /\ adding' \in 0..Refill
    BY <1>0, <1>3 DEF Measure, Least, RInv, Counters
  <2>2. available + adding' <= MaxTokens \/ adding' = 0
    BY <1>0, <1>3 DEF Measure, Least, RInv, Counters
  <2>3. credit' \in Int /\ (credit' = Full \/ credit' = credit + Refill)
    BY <1>0, <1>3 DEF Least, RInv, Counters
  <2> QED
    BY <1>0, <1>3, <2>1, <2>2, <2>3, SMTT(30) DEF Measure, RInv, Counters, Minted, Room, Full
<1>4. ASSUME AddPermits, UNCHANGED credit
      PROVE  RInv'
  <2>1. Release(waiting, adding, granted) /\ adding' = 0 /\ adding \in Nat
    BY <1>4 DEF AddPermits, RInv, Counters
  <2>2. PICK a, g \in Nat : /\ available' = a /\ Cardinality(granted') = g
                            /\ a + g <= available + adding + Cardinality(granted)
                            /\ a <= available + adding
    BY <2>1, ReleaseConserves DEF RInv, Counters
  <2>3. waiting' \in Seq(Procs) /\ granted' \in SUBSET Procs
    BY <2>1, ReleaseConserves DEF RInv, Counters
  <2>4. Counters'
    BY <1>0, <1>4, <2>1, <2>2, <2>3 DEF RInv, Counters
  <2>5. Minted'
    BY <1>0, <1>4, <2>1, <2>2 DEF RInv, Counters, Minted, Full
  <2>6. Room'
    BY <1>0, <1>4, <2>1, <2>2 DEF RInv, Counters, Room
  <2> QED
    BY <2>4, <2>5, <2>6 DEF RInv
<1>5. ASSUME NEW p \in Procs, Queue(p), UNCHANGED credit
      PROVE  RInv'
  BY <1>0, <1>5 DEF Queue, RInv, Counters, Minted, Room, Full
<1>6. ASSUME NEW p \in Procs, Drop(p), UNCHANGED credit
      PROVE  RInv'
  <2>1. CASE /\ \E i \in DOMAIN waiting :
                  waiting' = SubSeq(waiting, 1, i - 1) \o SubSeq(waiting, i + 1, Len(waiting))
             /\ UNCHANGED <<available, granted, adding>>
    <3>1. waiting' \in Seq(Procs)
      <4> PICK i \in DOMAIN waiting :
                 waiting' = SubSeq(waiting, 1, i - 1) \o SubSeq(waiting, i + 1, Len(waiting))
        BY <2>1
      <4>1. waiting \in Seq(Procs) /\ i \in 1..Len(waiting)
        BY DEF RInv, Counters
      <4>2. SubSeq(waiting, 1, i - 1) \in Seq(Procs) /\ SubSeq(waiting, i + 1, Len(waiting)) \in Seq(Procs)
        BY <4>1
      <4> QED
        BY <4>2
    <3> QED
      BY <1>0, <1>6, <2>1, <3>1 DEF Drop, RInv, Counters, Minted, Room, Full
  <2>2. CASE p \in granted /\ Release(waiting, 1, granted \ {p}) /\ UNCHANGED adding
    <3>1. PICK a, g \in Nat : /\ available' = a /\ Cardinality(granted') = g
                              /\ a + g <= available + 1 + Cardinality(granted \ {p})
      BY <2>2, ReleaseConserves DEF RInv, Counters
    <3>2. Cardinality(granted \ {p}) = Cardinality(granted) - 1
      BY <2>2, HoldersFinite, FS_RemoveElement DEF RInv, Counters
    <3>3. waiting' \in Seq(Procs) /\ granted' \in SUBSET Procs
      BY <2>2, ReleaseConserves DEF RInv, Counters
    <3>4. Counters'
      BY <1>0, <1>6, <2>2, <3>1, <3>3 DEF RInv, Counters
    <3>5. Minted'
      BY <1>0, <1>6, <2>2, <3>1, <3>2 DEF RInv, Counters, Minted, Full
    <3>6. Room'
      BY <1>6 DEF Drop, Room
    <3> QED
      BY <3>4, <3>5, <3>6 DEF RInv
  <2> QED
    BY <1>6, <2>1, <2>2 DEF Drop
<1> QED
  BY <1>1, <1>2, <1>3, <1>4, <1>5, <1>6 DEF RNext, Acquires

LEMMA RInvStarts == RInit => RInv
<1>1. Cardinality({}) = 0 /\ Cardinality(Procs) \in Nat
  BY FS_EmptySet, HoldersFinite
<1> QED
  BY <1>1, BucketAssumption DEF RInit, Init, RInv, Counters, Minted, Room, Full

LEMMA RInvStep == RInv /\ [RNext]_rvars => RInv'
<1>1. RInv /\ UNCHANGED rvars => RInv'
  BY DEF rvars, vars, RInv, Counters, Minted, Room, Full
<1> QED
  BY <1>1, StepMinted

LEMMA RInvBoundsRate == RInv => RateBounded
<1> SUFFICES ASSUME RInv
             PROVE  RateBounded
  OBVIOUS
<1>1. Cardinality(granted) \in Nat
  BY HoldersFinite DEF RInv, Counters
<1> QED
  BY <1>1 DEF RInv, Counters, Minted, RateBounded

LEMMA RInvBoundsBucket == RInv => BucketBounded
<1> SUFFICES ASSUME RInv
             PROVE  BucketBounded
  OBVIOUS
<1>1. Cardinality(granted) \in Nat /\ Cardinality(Procs) \in Nat
  BY HoldersFinite DEF RInv, Counters
<1> QED
  BY <1>1, BucketAssumption DEF RInv, Counters, Minted, Room, Full, BucketBounded

\* RInv holds in every state.
LEMMA RInvHolds == RSpec => []RInv
  BY RInvStarts, RInvStep, PTL DEF RSpec

\* The rate limit holds for every bucket and every number of callers: in no
\* period are more calls let through than a full bucket holds and the intervals
\* in it minted, however the refill races with callers that take tokens, wait
\* for them or go away.
THEOREM RateLimitHolds == RSpec => []RateBounded
  BY RInvBoundsRate, RInvHolds, PTL

\* The bucket overflows by no more than the permits that waiters gave back, and
\* not at all if none goes away, for every bucket and every number of callers.
THEOREM BucketNeverOverflows == RSpec => []BucketBounded
  BY RInvBoundsBucket, RInvHolds, PTL

-----------------------------------------------------------------------------
(* The queue of the limiter *)

Distinct(queue) == \A i, j \in DOMAIN queue : i # j => queue[i] # queue[j]

Members(queue) == {queue[i] : i \in DOMAIN queue}

\* Who is in the queue or holds a permit.
Inside == Waiting \union granted

\* The queue without its first n.
LEMMA QueueTail ==
  ASSUME NEW queue \in Seq(Procs), Distinct(queue), NEW n \in 0..Len(queue)
  PROVE  LET rest  == SubSeq(queue, n + 1, Len(queue))
             first == {queue[i] : i \in 1..n}
         IN  /\ rest \in Seq(Procs) /\ Distinct(rest)
             /\ first \subseteq Procs /\ Members(rest) \intersect first = {}
             /\ Members(rest) \union first = Members(queue)
<1> DEFINE rest  == SubSeq(queue, n + 1, Len(queue))
           first == {queue[i] : i \in 1..n}
<1>1. /\ rest \in Seq(Procs) /\ DOMAIN rest = 1..(Len(queue) - n) /\ DOMAIN queue = 1..Len(queue)
      /\ \A i \in 1..(Len(queue) - n) : rest[i] = queue[i + n] /\ i + n \in 1..Len(queue)
  OBVIOUS
<1>2. \A i \in 1..Len(queue) : i \in 1..n \/ (i - n \in 1..(Len(queue) - n) /\ rest[i - n] = queue[i])
  BY <1>1
<1>3. 1..n \subseteq 1..Len(queue) /\ first \subseteq Procs
  OBVIOUS
<1>4. \A i \in 1..(Len(queue) - n), j \in 1..n : rest[i] # queue[j]
  BY <1>1, <1>3 DEF Distinct
<1>5. Distinct(rest)
  <2> SUFFICES ASSUME NEW i \in 1..(Len(queue) - n), NEW j \in 1..(Len(queue) - n), i # j
               PROVE  rest[i] # rest[j]
    BY <1>1 DEF Distinct
  <2>1. /\ rest[i] = queue[i + n] /\ i + n \in 1..Len(queue)
        /\ rest[j] = queue[j + n] /\ j + n \in 1..Len(queue)
    BY <1>1
  <2>2. i + n # j + n
    OBVIOUS
  <2> QED
    BY <1>1, <2>1, <2>2 DEF Distinct
<1> HIDE DEF rest
<1>6. \A x : x \in Members(rest) <=> \E i \in 1..(Len(queue) - n) : x = rest[i]
  BY <1>1 DEF Members
<1>7. \A x : x \in Members(queue) <=> \E i \in 1..Len(queue) : x = queue[i]
  BY <1>1 DEF Members
<1>8. Members(rest) \intersect first = {}
  BY <1>4, <1>6
<1>9. Members(rest) \union first = Members(queue)
  <2>1. ASSUME NEW x \in Members(rest)
        PROVE  x \in Members(queue)
    <3>1. PICK i \in 1..(Len(queue) - n) : x = rest[i]
      BY <1>6
    <3>2. rest[i] = queue[i + n] /\ i + n \in 1..Len(queue)
      BY <1>1
    <3> QED
      BY <1>7, <3>1, <3>2
  <2>2. ASSUME NEW x \in first
        PROVE  x \in Members(queue)
    BY <1>3, <1>7, <2>2
  <2>3. ASSUME NEW x \in Members(queue)
        PROVE  x \in Members(rest) \union first
    <3>1. PICK i \in 1..Len(queue) : x = queue[i]
      BY <1>7
    <3>2. CASE i \in 1..n
      BY <3>1, <3>2
    <3>3. CASE i - n \in 1..(Len(queue) - n) /\ rest[i - n] = queue[i]
      BY <1>6, <3>1, <3>3
    <3> QED
      BY <1>2, <3>2, <3>3
  <2> QED
    BY <2>1, <2>2, <2>3
<1> QED
  BY <1>1, <1>3, <1>5, <1>8, <1>9 DEF rest

\* One sequence after the other.
LEMMA Joined ==
  ASSUME NEW S, NEW s \in Seq(S), NEW t \in Seq(S)
  PROVE  /\ s \o t \in Seq(S) /\ Len(s \o t) = Len(s) + Len(t)
         /\ \A j \in 1..(Len(s) + Len(t)) :
              (s \o t)[j] = IF j <= Len(s) THEN s[j] ELSE t[j - Len(s)]
  OBVIOUS

\* The queue without the one at i.
LEMMA QueueWithout ==
  ASSUME NEW queue \in Seq(Procs), Distinct(queue), NEW i \in DOMAIN queue
  PROVE  LET rest == SubSeq(queue, 1, i - 1) \o SubSeq(queue, i + 1, Len(queue))
         IN  /\ rest \in Seq(Procs) /\ Distinct(rest)
             /\ Members(rest) = Members(queue) \ {queue[i]}
<1> DEFINE before == SubSeq(queue, 1, i - 1)
           after  == SubSeq(queue, i + 1, Len(queue))
           rest   == before \o after
<1>1. i \in 1..Len(queue) /\ DOMAIN queue = 1..Len(queue) /\ Len(queue) \in Nat
  OBVIOUS
<1>2. /\ before \in Seq(Procs) /\ Len(before) = i - 1
      /\ \A j \in 1..(i - 1) : before[j] = queue[j]
  BY <1>1
<1>10. /\ after \in Seq(Procs) /\ Len(after) = Len(queue) - i
       /\ \A j \in 1..(Len(queue) - i) : after[j] = queue[j + i]
  BY <1>1
<1> HIDE DEF before, after
<1>11. /\ rest \in Seq(Procs) /\ Len(rest) = Len(queue) - 1
       /\ DOMAIN rest = 1..(Len(queue) - 1)
  <2>1. rest \in Seq(Procs) /\ Len(rest) = Len(before) + Len(after)
    BY <1>2, <1>10, Joined
  <2>2. Len(rest) = Len(queue) - 1 /\ DOMAIN rest = 1..Len(rest)
    BY <1>1, <1>2, <1>10, <2>1
  <2> QED
    BY <2>1, <2>2
<1>3. \A j \in 1..(Len(queue) - 1) : rest[j] = IF j < i THEN queue[j] ELSE queue[j + 1]
  <2> SUFFICES ASSUME NEW j \in 1..(Len(queue) - 1)
               PROVE  rest[j] = IF j < i THEN queue[j] ELSE queue[j + 1]
    OBVIOUS
  <2>1. j \in 1..(Len(before) + Len(after))
    BY <1>1, <1>2, <1>10
  <2>2. rest[j] = IF j <= Len(before) THEN before[j] ELSE after[j - Len(before)]
    BY <1>2, <1>10, <2>1, Joined
  <2> HIDE DEF rest
  <2>3. CASE j < i
    BY <1>1, <1>2, <2>2, <2>3
  <2>4. CASE ~(j < i)
    <3>1. j - (i - 1) \in 1..(Len(queue) - i) /\ (j - (i - 1)) + i = j + 1
      BY <1>1, <2>4
    <3>2. ~(j <= Len(before)) /\ j - Len(before) = j - (i - 1)
      BY <1>1, <1>2, <2>4
    <3>3. rest[j] = after[j - (i - 1)]
      BY <2>2, <3>2
    <3> QED
      BY <1>10, <2>4, <3>1, <3>3
  <2> QED
    BY <2>3, <2>4
<1> HIDE DEF rest
<1>4. Distinct(rest)
  <2> SUFFICES ASSUME NEW j \in 1..(Len(queue) - 1), NEW k \in 1..(Len(queue) - 1), j # k
               PROVE  rest[j] # rest[k]
    BY <1>11 DEF Distinct
  <2> DEFINE jj == IF j < i THEN j ELSE j + 1
             kk == IF k < i THEN k ELSE k + 1
  <2>1. jj \in 1..Len(queue) /\ kk \in 1..Len(queue) /\ jj # kk
    BY <1>1
  <2>2. rest[j] = queue[jj] /\ rest[k] = queue[kk]
    BY <1>3
  <2> QED
    BY <1>1, <2>1, <2>2 DEF Distinct
<1>5. \A x : x \in Members(rest) <=> \E j \in 1..(Len(queue) - 1) : x = rest[j]
  BY <1>11 DEF Members
<1>6. \A x : x \in Members(queue) <=> \E j \in 1..Len(queue) : x = queue[j]
  BY <1>1 DEF Members
<1>7. ASSUME NEW x \in Members(rest)
      PROVE  x \in Members(queue) \ {queue[i]}
  <2>1. PICK j \in 1..(Len(queue) - 1) : x = rest[j]
    BY <1>5
  <2> DEFINE jj == IF j < i THEN j ELSE j + 1
  <2>2. jj \in 1..Len(queue) /\ jj # i /\ x = queue[jj]
    BY <1>1, <1>3, <2>1
  <2> QED
    BY <1>1, <1>6, <2>2 DEF Distinct
<1>8. ASSUME NEW x \in Members(queue), x # queue[i]
      PROVE  x \in Members(rest)
  <2>1. PICK j \in 1..Len(queue) : x = queue[j]
    BY <1>6
  <2>2. CASE j < i
    BY <1>1, <1>3, <1>5, <2>1, <2>2
  <2>3. CASE j > i
    <3>1. j - 1 \in 1..(Len(queue) - 1) /\ rest[j - 1] = queue[j]
      BY <1>1, <1>3, <2>3
    <3> QED
      BY <1>5, <2>1, <3>1
  <2> QED
    BY <1>1, <1>8, <2>1, <2>2, <2>3
<1>9. Members(rest) = Members(queue) \ {queue[i]}
  BY <1>7, <1>8
<1> QED
  BY <1>4, <1>9, <1>11 DEF rest, before, after

LEMMA TypeParts ==
  TypeOK <=> /\ available \in Nat /\ adding \in 0..Refill
             /\ waiting \in Seq(Procs) /\ granted \in SUBSET Procs
             /\ Distinct(waiting) /\ Waiting \intersect granted = {}
  BY DEF TypeOK, Distinct

\* Released permits go to waiters, who are then inside as before.
LEMMA ReleaseServes ==
  ASSUME NEW n \in Nat, NEW holders \in SUBSET Procs, available \in Nat,
         waiting \in Seq(Procs), Distinct(waiting), Waiting \intersect holders = {},
         Release(waiting, n, holders)
  PROVE  /\ available' \in Nat /\ waiting' \in Seq(Procs) /\ granted' \in SUBSET Procs
         /\ Distinct(waiting') /\ Waiting' \intersect granted' = {}
         /\ Inside' = Waiting \union holders
<1> DEFINE served == Least(n, Len(waiting))
           first == {waiting[i] : i \in 1..served}
<1>1. served \in 0..Len(waiting) /\ n - served \in Nat
  BY DEF Least
<1>2. /\ granted' = holders \union first /\ available' = available + (n - served)
      /\ waiting' = SubSeq(waiting, served + 1, Len(waiting))
  BY DEF Release
<1>3. Waiting = Members(waiting) /\ Waiting' = Members(waiting')
  BY DEF Waiting, Members
<1> HIDE DEF served
<1>4. /\ waiting' \in Seq(Procs) /\ Distinct(waiting') /\ first \subseteq Procs
      /\ Waiting' \intersect first = {} /\ Waiting' \union first = Waiting
  BY <1>1, <1>2, <1>3, QueueTail
<1> HIDE DEF first
<1> QED
  BY <1>1, <1>2, <1>4 DEF Inside

\* What each step of the limiter does to those inside.
LEMMA StepInside ==
  ASSUME TypeOK
  PROVE  /\ \A p \in Procs : Take(p) => TypeOK' /\ p \notin Inside /\ Inside' = Inside
         /\ \A p \in Procs : Queue(p) => TypeOK' /\ p \notin Inside /\ Inside' = Inside \union {p}
         /\ \A p \in Procs : Resume(p) => TypeOK' /\ Inside' = Inside \ {p}
         /\ \A p \in Procs : Drop(p) => TypeOK' /\ Inside' = Inside \ {p}
         /\ Measure => TypeOK' /\ Inside' = Inside
         /\ AddPermits => TypeOK' /\ Inside' = Inside
<1>0. /\ available \in Nat /\ adding \in 0..Refill /\ Refill \in Nat
      /\ waiting \in Seq(Procs) /\ granted \in SUBSET Procs
      /\ Distinct(waiting) /\ Waiting \intersect granted = {}
  BY TypeParts, BucketAssumption
<1>1. TypeOK' <=> /\ available' \in Nat /\ adding' \in 0..Refill
                  /\ waiting' \in Seq(Procs) /\ granted' \in SUBSET Procs
                  /\ Distinct(waiting') /\ Waiting' \intersect granted' = {}
  BY DEF TypeOK, Distinct
<1>2. Waiting = Members(waiting) /\ Waiting' = Members(waiting')
  BY DEF Waiting, Members
<1>3. ASSUME NEW p \in Procs, Take(p)
      PROVE  TypeOK' /\ p \notin Inside /\ Inside' = Inside
  BY <1>0, <1>1, <1>2, <1>3 DEF Take, Inside
<1>4. ASSUME NEW p \in Procs, Queue(p)
      PROVE  TypeOK' /\ p \notin Inside /\ Inside' = Inside \union {p}
  <2>1. /\ p \notin Inside /\ waiting' = Append(waiting, p)
        /\ UNCHANGED <<available, granted, adding>>
    BY <1>4 DEF Queue, Inside
  <2>2. /\ waiting' \in Seq(Procs) /\ DOMAIN waiting' = 1..(Len(waiting) + 1)
        /\ \A i \in 1..Len(waiting) : waiting'[i] = waiting[i]
        /\ waiting'[Len(waiting) + 1] = p /\ DOMAIN waiting = 1..Len(waiting)
        /\ Len(waiting) \in Nat
    BY <1>0, <2>1
  <2>3. \A i \in 1..Len(waiting) : waiting[i] # p
    BY <2>1, <2>2 DEF Inside, Waiting
  <2>4. Distinct(waiting')
    BY <1>0, <2>2, <2>3 DEF Distinct
  <2>5. \A x : x \in Waiting' <=> (x \in Waiting \/ x = p)
    BY <2>2 DEF Waiting
  <2>6. Waiting' = Waiting \union {p}
    BY <2>5
  <2> QED
    BY <1>0, <1>1, <2>1, <2>2, <2>4, <2>6 DEF Inside
<1>5. ASSUME NEW p \in Procs, Resume(p)
      PROVE  TypeOK' /\ Inside' = Inside \ {p}
  BY <1>0, <1>1, <1>2, <1>5 DEF Resume, Inside
<1>6. ASSUME NEW p \in Procs, Drop(p)
      PROVE  TypeOK' /\ Inside' = Inside \ {p}
  <2>1. ASSUME NEW i \in DOMAIN waiting, waiting[i] = p, UNCHANGED <<available, granted, adding>>,
               waiting' = SubSeq(waiting, 1, i - 1) \o SubSeq(waiting, i + 1, Len(waiting))
        PROVE  TypeOK' /\ Inside' = Inside \ {p}
    <3>1. /\ waiting' \in Seq(Procs) /\ Distinct(waiting')
          /\ Waiting' = Waiting \ {p}
      BY <1>0, <1>2, <2>1, QueueWithout
    <3>2. p \in Waiting
      BY <2>1 DEF Waiting
    <3> QED
      BY <1>0, <1>1, <2>1, <3>1, <3>2 DEF Inside
  <2>2. ASSUME p \in granted, Release(waiting, 1, granted \ {p}), UNCHANGED adding
        PROVE  TypeOK' /\ Inside' = Inside \ {p}
    <3>1. /\ available' \in Nat /\ waiting' \in Seq(Procs) /\ granted' \in SUBSET Procs
          /\ Distinct(waiting') /\ Waiting' \intersect granted' = {}
          /\ Inside' = Waiting \union (granted \ {p})
      BY <1>0, <2>2, ReleaseServes
    <3> QED
      BY <1>0, <1>1, <2>2, <3>1 DEF Inside
  <2> QED
    BY <1>6, <2>1, <2>2 DEF Drop
<1>7. ASSUME Measure
      PROVE  TypeOK' /\ Inside' = Inside
  <2>1. adding' \in 0..Refill
    BY <1>0, <1>7, BucketAssumption DEF Measure, Least
  <2> QED
    BY <1>0, <1>1, <1>2, <1>7, <2>1 DEF Measure, Inside
<1>8. ASSUME AddPermits
      PROVE  TypeOK' /\ Inside' = Inside
  <2>1. adding \in Nat /\ adding' = 0 /\ Release(waiting, adding, granted)
    BY <1>0, <1>8 DEF AddPermits
  <2>2. /\ available' \in Nat /\ waiting' \in Seq(Procs) /\ granted' \in SUBSET Procs
        /\ Distinct(waiting') /\ Waiting' \intersect granted' = {}
        /\ Inside' = Waiting \union granted
    BY <1>0, <2>1, ReleaseServes
  <2> QED
    BY <1>0, <1>1, <2>1, <2>2 DEF Inside
<1> QED
  BY <1>3, <1>4, <1>5, <1>6, <1>7, <1>8

-----------------------------------------------------------------------------
(* The limiter under lookups *)

\* Every step of a lookup is a step of the limiter and its meter, or none.
LEMMA LookupUsesBucket == [LookupNext]_lvars => [RNext]_rvars
<1> SUFFICES ASSUME [LookupNext]_lvars
             PROVE  [RNext]_rvars
  OBVIOUS
<1>1. Lookers \subseteq Procs
  BY LookupAssumption
<1>2. ASSUME NEW l \in Lookers, Acquire(l)
      PROVE  RNext
  BY <1>1, <1>2 DEF Acquire, RNext, Acquires
<1>3. ASSUME NEW l \in Lookers, Admitted(l)
      PROVE  RNext
  BY <1>1, <1>3 DEF Admitted, RNext, Acquires
<1>4. ASSUME NEW l \in Lookers, Cancel(l)
      PROVE  [RNext]_rvars
  BY <1>1, <1>4 DEF Cancel, LeaveQueue, RNext
<1>5. ASSUME NEW p \in Procs \ Lookers, Other(p)
      PROVE  RNext
  BY <1>5 DEF Other, RNext, Acquires
<1>6. ASSUME Refilling
      PROVE  RNext
  BY <1>6 DEF Refilling, RNext
<1>7. ASSUME NEW l \in Lookers, Ask(l) \/ Open(l)
      PROVE  UNCHANGED rvars
  BY <1>7 DEF Ask, Open
<1>8. ASSUME NEW k \in Keys, Change(k)
      PROVE  UNCHANGED rvars
  BY <1>8 DEF Change
<1> QED
  BY <1>2, <1>3, <1>4, <1>5, <1>6, <1>7, <1>8 DEF LookupNext, Call, lvars

\* The lookups keep the limiter's invariant.
LEMMA LookupsKeepRInv == LookupSpec => []RInv
<1>1. LookupInit => RInv
  BY RInvStarts DEF LookupInit
<1>2. RInv /\ [LookupNext]_lvars => RInv'
  BY LookupUsesBucket, RInvStep
<1> QED
  BY <1>1, <1>2, PTL DEF LookupSpec

\* Lookups and the operations beside them are let through no faster than the
\* bucket and its refill allow, whoever waits, asks again or goes away.
THEOREM LookupsRateLimited == LookupSpec => []RateBounded
  BY RInvBoundsRate, LookupsKeepRInv, PTL

\* The bucket overflows by no more than the permits that waiters gave back, and
\* not at all if none goes away.
THEOREM LookupsBucketBounded == LookupSpec => []BucketBounded
  BY RInvBoundsBucket, LookupsKeepRInv, PTL

-----------------------------------------------------------------------------
(* What a lookup says *)

LookTypes ==
  /\ entry \in [Keys -> Archives \union {None}]
  /\ pc \in [Lookers -> {"idle", "limit", "ask", "open"}]
  /\ look \in [Lookers -> Looks]

\* What a lookup knows while it runs, and what it said when it is over.
LookSound(l) ==
  /\ pc[l] # "idle" => look[l].key \in Keys /\ There(look[l].key) \in look[l].seen
                       /\ look[l].how = "none" /\ look[l].op \in {"contains", "get"}
  /\ pc[l] \in {"limit", "ask"} => look[l].tried < Attempts
  /\ pc[l] = "open" => /\ look[l].op = "get" /\ look[l].archive # None
                       /\ "present" \in look[l].seen
                       /\ entry[look[l].key] # look[l].archive => "absent" \in look[l].seen

Honest(l2) ==
  /\ l2.how = "hit" => "present" \in l2.seen
  /\ l2.how = "miss" => \/ "absent" \in l2.seen
                        \/ l2.tried = Attempts
                        \/ "down" \in Faults /\ l2.op = "get" /\ l2.archive # None
  /\ l2.how = "error" /\ ~l2.refused => l2.seen = {"absent", "present"}

LookInv == LookTypes /\ \A l \in Lookers : LookSound(l) /\ Honest(look[l])

\* A step of one lookup leaves the others as they were.
LEMMA LookupOfOne ==
  ASSUME LookInv, NEW l \in Lookers, NEW step \in {"idle", "limit", "ask", "open"}, NEW l2 \in Looks,
         pc' = [pc EXCEPT ![l] = step], look' = [look EXCEPT ![l] = l2], UNCHANGED entry,
         pc'[l] = step /\ look'[l] = l2 => LookSound(l)' /\ Honest(l2)
  PROVE  LookInv'
<1>1. LookTypes'
  BY DEF LookInv, LookTypes
<1>2. pc'[l] = step /\ look'[l] = l2
  BY DEF LookInv, LookTypes
<1>3. ASSUME NEW m \in Lookers, m # l
      PROVE  LookSound(m)' /\ Honest(look'[m])
  <2>1. pc'[m] = pc[m] /\ look'[m] = look[m]
    BY <1>3 DEF LookInv, LookTypes
  <2>2. LookSound(m) /\ Honest(look[m])
    BY DEF LookInv
  <2>3. LookSound(m)'
    BY <2>1, <2>2 DEF LookSound, There
  <2> QED
    BY <2>1, <2>2, <2>3
<1> QED
  BY <1>1, <1>2, <1>3 DEF LookInv

\* A lookup returns.
LEMMA ReturnKeeps ==
  ASSUME LookInv, NEW l \in Lookers, NEW l2 \in Looks,
         NEW how \in {"hit", "miss", "error", "dropped"}, Return(l, l2, how), UNCHANGED entry,
         how = "hit" => "present" \in l2.seen,
         how = "miss" => \/ "absent" \in l2.seen
                         \/ l2.tried = Attempts
                         \/ "down" \in Faults /\ l2.op = "get" /\ l2.archive # None,
         how = "error" => l2.refused \/ l2.seen = {"absent", "present"}
  PROVE  LookInv'
<1> DEFINE l3 == [l2 EXCEPT !.how = how]
<1>1. /\ l3 \in Looks /\ l3.how = how /\ l3.seen = l2.seen /\ l3.tried = l2.tried /\ l3.op = l2.op
      /\ l3.archive = l2.archive /\ (l2.refused => l3.refused)
  BY DEF Looks
<1>2. pc' = [pc EXCEPT ![l] = "idle"] /\ look' = [look EXCEPT ![l] = l3]
  BY DEF Return, Goto
<1> HIDE DEF l3
<1>3. Honest(l3)
  BY <1>1 DEF Honest
<1>4. pc'[l] = "idle" => LookSound(l)'
  BY DEF LookSound
<1> QED
  BY <1>1, <1>2, <1>3, <1>4, LookupOfOne

LEMMA CallKeeps ==
  ASSUME LookInv, NEW l \in Lookers, NEW op \in {"contains", "get"}, NEW k \in Keys, Call(l, op, k)
  PROVE  LookInv'
<1> DEFINE l2 == NewLook(op, k, {There(k)})
<1>1. There(k) \in {"absent", "present"} /\ Attempts \in Nat /\ Attempts > 0
  BY LookupAssumption DEF There
<1>2. /\ l2 \in Looks /\ l2.key = k /\ l2.how = "none" /\ l2.seen = {There(k)} /\ l2.tried = 0
      /\ l2.op = op
  <2>1. {There(k)} \in SUBSET {"absent", "present"} /\ 0 \in 0..Attempts
    BY <1>1
  <2> QED
    BY <2>1 DEF NewLook, Looks
<1>3. look' = [look EXCEPT ![l] = l2] /\ entry' = entry
  BY DEF Call
<1> HIDE DEF l2
<1>4. PICK step \in {"ask", "limit"} : pc' = [pc EXCEPT ![l] = step]
  BY DEF Call, Acquire, Goto
<1>5. Honest(l2)
  BY <1>2 DEF Honest
<1>6. ASSUME pc'[l] = step, look'[l] = l2
      PROVE  LookSound(l)'
  <2>1. There(k)' = There(k)
    BY <1>3 DEF There
  <2> QED
    BY <1>1, <1>2, <1>6, <2>1 DEF LookSound
<1> QED
  BY <1>2, <1>3, <1>4, <1>5, <1>6, LookupOfOne

LEMMA AdmittedKeeps ==
  ASSUME LookInv, NEW l \in Lookers, Admitted(l)
  PROVE  LookInv'
<1>1. /\ pc' = [pc EXCEPT ![l] = "ask"] /\ look' = [look EXCEPT ![l] = look[l]] /\ entry' = entry
      /\ pc[l] = "limit" /\ look[l] \in Looks /\ LookSound(l) /\ Honest(look[l])
  BY DEF Admitted, Goto, LookInv, LookTypes
<1>2. ASSUME pc'[l] = "ask", look'[l] = look[l]
      PROVE  LookSound(l)'
  BY <1>1, <1>2 DEF LookSound, There
<1> QED
  BY <1>1, <1>2, LookupOfOne

LEMMA RefusedKeeps ==
  ASSUME LookInv, NEW l \in Lookers, Refused(l), UNCHANGED entry
  PROVE  LookInv'
<1>1. look[l] \in Looks
  BY DEF LookInv, LookTypes
<1>2. [look[l] EXCEPT !.refused = TRUE] \in Looks /\ [look[l] EXCEPT !.refused = TRUE].refused
  BY <1>1 DEF Looks
<1> QED
  BY <1>2, ReturnKeeps DEF Refused

LEMMA AskKeeps ==
  ASSUME LookInv, NEW l \in Lookers, Ask(l)
  PROVE  LookInv'
<1>1. /\ pc[l] = "ask" /\ LookSound(l) /\ look[l] \in Looks /\ entry' = entry
      /\ look[l].key \in Keys /\ There(look[l].key) \in look[l].seen /\ look[l].tried < Attempts
      /\ look[l].how = "none"
  BY DEF Ask, LookInv, LookTypes, LookSound
<1>2. CASE Found(l)
  <2>1. "present" \in look[l].seen /\ entry[look[l].key] \in Archives /\ entry[look[l].key] # None
    BY <1>1, <1>2 DEF Found, There, LookInv, LookTypes
  <2>2. CASE Return(l, look[l], "hit")
    BY <1>1, <2>1, <2>2, ReturnKeeps
  <2>3. CASE /\ look[l].op # "contains" /\ Goto(l, "open")
             /\ look' = [look EXCEPT ![l].archive = entry[look[l].key]]
    <3> DEFINE l2 == [look[l] EXCEPT !.archive = entry[look[l].key]]
    <3>1. /\ l2 \in Looks /\ l2.archive = entry[look[l].key] /\ l2.op = look[l].op
          /\ l2.key = look[l].key /\ l2.seen = look[l].seen /\ l2.how = "none"
      BY <1>1, <2>1 DEF Looks
    <3>2. look' = [look EXCEPT ![l] = l2] /\ pc' = [pc EXCEPT ![l] = "open"]
      BY <2>3 DEF Goto, LookInv, LookTypes
    <3>3. look[l].op = "get"
      BY <1>1, <2>3 DEF LookSound
    <3> HIDE DEF l2
    <3>4. Honest(l2)
      BY <3>1 DEF Honest
    <3>5. ASSUME pc'[l] = "open", look'[l] = l2
          PROVE  LookSound(l)'
      BY <1>1, <2>1, <3>1, <3>3, <3>5 DEF LookSound, There
    <3> QED
      BY <1>1, <3>1, <3>2, <3>4, <3>5, LookupOfOne
  <2> QED
    BY <1>2, <2>2, <2>3 DEF Found
<1>3. CASE NotFound(l)
  <2>1. "absent" \in look[l].seen
    BY <1>1, <1>3 DEF NotFound, There
  <2> QED
    BY <1>1, <1>3, <2>1, ReturnKeeps DEF NotFound
<1>4. CASE Down(l)
  <2> DEFINE l2 == [look[l] EXCEPT !.tried = look[l].tried + 1]
  <2>1. look[l].tried \in Nat /\ look[l].tried + 1 \in 0..Attempts /\ Attempts \in Nat
    BY <1>1, LookupAssumption DEF Looks
  <2>2. /\ l2 \in Looks /\ l2.tried = look[l].tried + 1 /\ l2.key = look[l].key
        /\ l2.seen = look[l].seen /\ l2.how = "none" /\ l2.op = look[l].op
    BY <1>1, <2>1 DEF Looks
  <2>3. \/ l2.tried < Attempts /\ look' = [look EXCEPT ![l] = l2] /\ UNCHANGED pc
        \/ ~(l2.tried < Attempts) /\ Return(l, l2, "miss")
    BY <1>4 DEF Down, Unavailable
  <2> HIDE DEF l2
  <2>4. CASE l2.tried < Attempts /\ look' = [look EXCEPT ![l] = l2] /\ UNCHANGED pc
    <3>1. pc' = [pc EXCEPT ![l] = "ask"]
      BY <1>1, <2>4 DEF LookInv, LookTypes
    <3>2. Honest(l2)
      BY <2>2 DEF Honest
    <3>3. ASSUME pc'[l] = "ask", look'[l] = l2
          PROVE  LookSound(l)'
      BY <1>1, <2>2, <2>4, <3>3 DEF LookSound, There
    <3> QED
      BY <1>1, <2>2, <2>4, <3>1, <3>2, <3>3, LookupOfOne
  <2>5. CASE ~(l2.tried < Attempts) /\ Return(l, l2, "miss")
    <3>1. l2.tried = Attempts
      BY <2>1, <2>2, <2>5
    <3> QED
      BY <1>1, <2>2, <2>5, <3>1, ReturnKeeps
  <2> QED
    BY <2>3, <2>4, <2>5
<1>5. CASE Refused(l)
  BY <1>1, <1>5, RefusedKeeps
<1> QED
  BY <1>2, <1>3, <1>4, <1>5 DEF Ask

LEMMA OpenKeeps ==
  ASSUME LookInv, NEW l \in Lookers, Open(l)
  PROVE  LookInv'
<1>1. /\ look[l] \in Looks /\ entry' = entry /\ look[l].op = "get" /\ look[l].archive # None
      /\ "present" \in look[l].seen
      /\ entry[look[l].key] # look[l].archive => "absent" \in look[l].seen
  BY DEF Open, LookInv, LookTypes, LookSound
<1>2. CASE Opened(l)
  BY <1>1, <1>2, ReturnKeeps DEF Opened
<1>3. CASE Gone(l)
  <2>1. look[l].seen = {"absent", "present"}
    BY <1>1, <1>3 DEF Gone, Looks
  <2> QED
    BY <1>1, <1>3, <2>1, ReturnKeeps DEF Gone
<1>4. CASE Refused(l)
  BY <1>1, <1>4, RefusedKeeps
<1>5. CASE "down" \in Faults /\ Unavailable(l, look[l])
  BY <1>1, <1>5, ReturnKeeps DEF Unavailable
<1> QED
  BY <1>2, <1>3, <1>4, <1>5 DEF Open

LEMMA CancelKeeps ==
  ASSUME LookInv, NEW l \in Lookers, Cancel(l)
  PROVE  LookInv'
<1>1. look[l] \in Looks
  BY DEF LookInv, LookTypes
<1> QED
  BY <1>1, ReturnKeeps DEF Cancel

\* What others do to an entry is seen by the lookups of it that run.
LEMMA ChangeKeeps ==
  ASSUME LookInv, NEW k \in Keys, Change(k)
  PROVE  LookInv'
<1>1. PICK a \in Archives \union {None} :
        /\ (a = None) # (entry[k] = None)
        /\ \A l \in Lookers : pc[l] = "open" => a # look[l].archive
        /\ entry' = [entry EXCEPT ![k] = a]
        /\ look' = [l \in Lookers |->
             IF pc[l] # "idle" /\ look[l].key = k
             THEN [look[l] EXCEPT !.seen =
                     look[l].seen \union {IF a = None THEN "absent" ELSE "present"}]
             ELSE look[l]]
  BY DEF Change
<1>2. pc' = pc
  BY DEF Change
<1>3. entry' \in [Keys -> Archives \union {None}]
  BY <1>1 DEF LookInv, LookTypes
<1>4. ASSUME NEW l \in Lookers
      PROVE  look'[l] \in Looks /\ LookSound(l)' /\ Honest(look'[l])
  <2>1. look[l] \in Looks /\ LookSound(l) /\ Honest(look[l])
    BY DEF LookInv, LookTypes
  <2>2. CASE pc[l] # "idle" /\ look[l].key = k
    <3>1. PICK now \in {"absent", "present"} :
            /\ now = "absent" <=> a = None
            /\ look'[l] = [look[l] EXCEPT !.seen = look[l].seen \union {now}]
      BY <1>1, <2>2
    <3>2. /\ look'[l] \in Looks /\ look'[l].seen = look[l].seen \union {now}
          /\ look'[l].key = k /\ look'[l].how = look[l].how /\ look'[l].op = look[l].op
          /\ look'[l].tried = look[l].tried /\ look'[l].archive = look[l].archive
      BY <2>1, <2>2, <3>1 DEF Looks
    <3>3. There(k)' = now /\ entry'[k] = a
      BY <1>1, <3>1 DEF There, LookInv, LookTypes
    <3>4. look[l].how = "none"
      BY <2>1, <2>2 DEF LookSound
    <3>5. Honest(look'[l])
      BY <3>2, <3>4 DEF Honest
    <3>6. pc[l] = "open" /\ entry'[k] # look'[l].archive => "absent" \in look'[l].seen
      <4>1. CASE a = None
        BY <3>1, <3>2, <4>1
      <4>2. CASE a # None
        BY <1>1, <2>1, <2>2, <3>2, <4>2 DEF LookSound
      <4> QED
        BY <4>1, <4>2
    <3> QED
      BY <1>2, <2>1, <2>2, <3>2, <3>3, <3>5, <3>6 DEF LookSound
  <2>3. CASE ~(pc[l] # "idle" /\ look[l].key = k)
    <3>1. look'[l] = look[l]
      BY <1>1, <2>3
    <3>2. pc[l] # "idle" => entry'[look[l].key] = entry[look[l].key]
      BY <1>1, <2>1, <2>3 DEF LookSound, LookInv, LookTypes
    <3> QED
      BY <1>2, <2>1, <3>1, <3>2 DEF LookSound, There
  <2> QED
    BY <2>2, <2>3
<1>5. look' \in [Lookers -> Looks]
  BY <1>1, <1>4
<1> QED
  BY <1>2, <1>3, <1>4, <1>5 DEF LookInv, LookTypes

LEMMA LookInvStep ==
  ASSUME LookInv, [LookupNext]_lvars
  PROVE  LookInv'
<1>1. CASE UNCHANGED <<entry, pc, look>>
  <2>1. LookTypes'
    BY <1>1 DEF LookInv, LookTypes
  <2>2. \A l \in Lookers : LookSound(l)' /\ Honest(look'[l])
    BY <1>1 DEF LookInv, LookSound, There
  <2> QED
    BY <1>1, <2>1, <2>2 DEF LookInv
<1>2. ASSUME NEW p \in Procs \ Lookers, Other(p)
      PROVE  UNCHANGED <<entry, pc, look>>
  BY <1>2 DEF Other
<1>3. ASSUME Refilling
      PROVE  UNCHANGED <<entry, pc, look>>
  BY <1>3 DEF Refilling
<1> QED
  BY <1>1, <1>2, <1>3, CallKeeps, AdmittedKeeps, AskKeeps, OpenKeeps, CancelKeeps, ChangeKeeps
     DEF LookupNext, lvars

\* A lookup is inside the limiter exactly while it is at it.
AtLimiter == \A l \in Lookers : pc[l] = "limit" <=> l \in Inside

LEMMA AtLimiterStep ==
  ASSUME TypeOK, LookTypes, AtLimiter, [LookupNext]_lvars
  PROVE  TypeOK' /\ AtLimiter'
<1> USE StepInside, LookupAssumption
<1>1. ASSUME UNCHANGED rvars
      PROVE  TypeOK' /\ Inside' = Inside
  BY <1>1 DEF rvars, vars, TypeOK, Inside, Waiting
<1>2. ASSUME NEW l \in Lookers, Acquire(l), pc[l] = "idle"
      PROVE  TypeOK' /\ AtLimiter'
  <2>1. CASE Take(l) /\ Goto(l, "ask")
    BY <2>1 DEF Goto, AtLimiter, LookTypes
  <2>2. CASE Queue(l) /\ Goto(l, "limit")
    BY <2>2 DEF Goto, AtLimiter, LookTypes
  <2> QED
    BY <1>2, <2>1, <2>2 DEF Acquire
<1>3. ASSUME NEW l \in Lookers, Admitted(l)
      PROVE  TypeOK' /\ AtLimiter'
  BY <1>3 DEF Admitted, Goto, AtLimiter, LookTypes
<1>4. ASSUME NEW l \in Lookers, Cancel(l)
      PROVE  TypeOK' /\ AtLimiter'
  <2>1. pc' = [pc EXCEPT ![l] = "idle"]
    BY <1>4 DEF Cancel, Return, Goto
  <2>2. CASE LeaveQueue(l)
    BY <2>1, <2>2 DEF LeaveQueue, AtLimiter, LookTypes
  <2>3. CASE pc[l] \in {"ask", "open"} /\ UNCHANGED rvars
    BY <1>1, <2>1, <2>3 DEF AtLimiter, LookTypes
  <2> QED
    BY <1>4, <2>2, <2>3 DEF Cancel
<1>5. ASSUME NEW l \in Lookers, Ask(l) \/ Open(l)
      PROVE  TypeOK' /\ AtLimiter'
  <2>1. pc[l] \in {"ask", "open"} /\ UNCHANGED rvars
    BY <1>5 DEF Ask, Open
  <2>2. PICK step \in {"ask", "open", "idle"} : pc' = [pc EXCEPT ![l] = step]
    <3>1. CASE UNCHANGED pc
      BY <2>1, <3>1 DEF LookTypes
    <3> QED
      BY <1>5, <3>1 DEF Ask, Open, Found, NotFound, Down, Refused, Unavailable, Opened, Gone,
         Return, Goto
  <2> QED
    BY <1>1, <2>1, <2>2 DEF AtLimiter, LookTypes
<1>6. ASSUME NEW p \in Procs \ Lookers, Other(p)
      PROVE  TypeOK' /\ AtLimiter'
  BY <1>6 DEF Other, AtLimiter
<1>7. ASSUME Refilling
      PROVE  TypeOK' /\ AtLimiter'
  BY <1>7 DEF Refilling, AtLimiter
<1>8. CASE (\E k \in Keys : Change(k)) \/ UNCHANGED lvars
  BY <1>1, <1>8 DEF Change, lvars, AtLimiter
<1> QED
  BY <1>2, <1>3, <1>4, <1>5, <1>6, <1>7, <1>8 DEF LookupNext, Call

LEMMA LookInvStarts == LookupInit => LookInv
<1>1. NoLook \in Looks /\ Honest(NoLook)
  BY LookupAssumption DEF NoLook, NewLook, Looks, Honest
<1> QED
  BY <1>1 DEF LookupInit, LookInv, LookTypes, LookSound

\* Whatever others commit and evict meanwhile, and however often the service
\* fails to answer, contains() and get() say what was true of some moment of
\* the call, or that the service could not be reached.
THEOREM LookupsHonest == LookupSpec => []LookupHonest
<1>1. LookInv => LookupHonest
  BY DEF LookInv, Honest, LookupHonest
<1>2. LookInv /\ [LookupNext]_lvars => LookInv'
  BY LookInvStep
<1> QED
  BY <1>1, <1>2, LookInvStarts, PTL DEF LookupSpec

\* The types of the limiter, the entries and the lookups: no operation is twice
\* in the limiter's queue or at once waiting and served, though waiters leave
\* it from any place and the refill serves several at once; and a lookup is at
\* the limiter exactly while the limiter knows of it.
THEOREM LookupTypeCorrect == LookupSpec => []LookupTypeOK
<1>1. LookupInit => TypeOK /\ AtLimiter
  <2>1. LookupInit => TypeOK /\ Inside = {}
    BY BucketAssumption DEF LookupInit, RInit, Init, TypeOK, Waiting, Inside
  <2> QED
    BY <2>1 DEF LookupInit, AtLimiter
<1>2. LookInv /\ TypeOK /\ AtLimiter /\ [LookupNext]_lvars => LookInv' /\ TypeOK' /\ AtLimiter'
  BY LookInvStep, AtLimiterStep DEF LookInv
<1>3. LookInv /\ TypeOK /\ AtLimiter => LookupTypeOK
  BY DEF LookInv, LookTypes, AtLimiter, Inside, LookupTypeOK
<1> QED
  BY <1>1, <1>2, <1>3, LookInvStarts, PTL DEF LookupSpec

-----------------------------------------------------------------------------

\* The meter only observes the limiter, fairness included.
THEOREM MeterObserves == RSpec => FairSpec
<1>1. RInit => Init
  BY DEF RInit
<1>2. [RNext]_rvars => [Next]_vars
  BY DEF RNext, Acquires, Next, rvars
<1> QED
  BY <1>1, <1>2, PTL DEF RSpec, FairSpec, Spec

\* Lookups and the operations beside them use the limiter as it is meant to be
\* used, fairness included: each of their steps is one of the limiter's and its
\* meter's, or none.
THEOREM LookupsUseTheLimiter == LookupSpec => RSpec
<1>1. LookupInit => RInit
  BY DEF LookupInit
<1> QED
  BY <1>1, LookupUsesBucket, PTL DEF LookupSpec, RSpec
=============================================================================
