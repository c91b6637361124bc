------------------------- MODULE DiskBackend_proofs -------------------------
(***************************************************************************)
(* Proofs about DiskBackend for any handlers, keys, blob sizes and limits: *)
(* the types and the bookkeeping of the handlers; that current_size never  *)
(* falls below what the index accounts for; with at most one uploader for  *)
(* each key, that a file at a final path is always the whole blob its hash *)
(* names, through failed and rejected uploads, eviction, deletion,         *)
(* cancellation and restarts; that the backend is a BlobStore; and, where  *)
(* nothing takes a file out of the index for good, that every file can be  *)
(* evicted and the disk holds no more than the limit and the uploads       *)
(* in flight.                                                              *)
(***************************************************************************)
EXTENDS DiskBackend, Weights_proofs

-----------------------------------------------------------------------------
(* Files and descriptors *)

\* A new file is a file.
LEMMA EmptyType == Empty \in Content /\ Empty # NoFile
  BY NoFileAssumption DEF Empty, Content, Chunk

\* A length is within the longest body.
LEMMA LengthType == ASSUME NEW c PROVE Length(c) \in 0..MaxLen
<1> DEFINE Up == {n \in 1..MaxLen : \E m \in n..MaxLen : c[m] # "none"}
<1>1. MaxLen \in Nat
  BY BoundsAssumption
<1>2. IsFiniteSet(1..MaxLen) /\ Cardinality(1..MaxLen) = MaxLen
  BY <1>1, FS_Interval
<1>3. Up \in SUBSET (1..MaxLen)
  OBVIOUS
<1> HIDE DEF Up
<1>4. IsFiniteSet(Up) /\ Cardinality(Up) <= MaxLen
  BY <1>2, <1>3, FS_Subset
<1>5. Cardinality(Up) \in Nat
  BY <1>4, FS_CardinalityType
<1>6. Length(c) = IF c = NoFile THEN 0 ELSE Cardinality(Up)
  BY DEF Length, Up
<1> QED
  BY <1>1, <1>4, <1>5, <1>6

\* Unlinking the file at the final path of k leaves no descriptor on that path.
LEMMA UnlinkFacts ==
  ASSUME job \in [Procs -> Job], NEW k
  PROVE  /\ Reopen(k, FALSE) \in [Procs -> Job]
         /\ \A q \in Procs :
              LET r == Reopen(k, FALSE)[q] IN
              /\ r.key = job[q].key
              /\ r.fd # "closed" => job[q].fd # "closed"
              /\ job[q].key # k => r = job[q]
              /\ job[q].key = k => r.fd # "final" /\ (r.fd = "tmp" => job[q].fd = "tmp")
<1> DEFINE R == Reopen(k, FALSE)
<1>1. ASSUME NEW q \in Procs
      PROVE  /\ R[q] \in Job
             /\ R[q].key = job[q].key
             /\ R[q].fd # "closed" => job[q].fd # "closed"
             /\ job[q].key # k => R[q] = job[q]
             /\ job[q].key = k => R[q].fd # "final" /\ (R[q].fd = "tmp" => job[q].fd = "tmp")
  <2>1. job[q] \in Job
    OBVIOUS
  <2>2. R[q] = IF job[q].key # k THEN job[q]
               ELSE IF job[q].fd = "final" THEN [job[q] EXCEPT !.fd = "unlinked"]
               ELSE job[q]
    BY DEF Reopen
  <2> QED
    BY <2>1, <2>2 DEF Job
<1>2. R \in [Procs -> Job]
  BY <1>1 DEF Reopen
<1> QED
  BY <1>1, <1>2

\* A rename over it leaves there the descriptors that were on the tmp path.
LEMMA RenameFacts ==
  ASSUME job \in [Procs -> Job], NEW k
  PROVE  /\ Reopen(k, TRUE) \in [Procs -> Job]
         /\ \A q \in Procs :
              LET r == Reopen(k, TRUE)[q] IN
              /\ r.key = job[q].key
              /\ r.fd # "closed" => job[q].fd # "closed"
              /\ job[q].key # k => r = job[q]
              /\ job[q].key = k => r.fd # "tmp" /\ (r.fd = "final" => job[q].fd = "tmp")
<1> DEFINE R == Reopen(k, TRUE)
<1>1. ASSUME NEW q \in Procs
      PROVE  /\ R[q] \in Job
             /\ R[q].key = job[q].key
             /\ R[q].fd # "closed" => job[q].fd # "closed"
             /\ job[q].key # k => R[q] = job[q]
             /\ job[q].key = k => R[q].fd # "tmp" /\ (R[q].fd = "final" => job[q].fd = "tmp")
  <2>1. job[q] \in Job
    OBVIOUS
  <2>2. R[q] = IF job[q].key # k THEN job[q]
               ELSE IF job[q].fd = "final" THEN [job[q] EXCEPT !.fd = "unlinked"]
               ELSE IF job[q].fd = "tmp" THEN [job[q] EXCEPT !.fd = "final"]
               ELSE job[q]
    BY DEF Reopen
  <2> QED
    BY <2>1, <2>2 DEF Job
<1>2. R \in [Procs -> Job]
  BY <1>1 DEF Reopen
<1> QED
  BY <1>1, <1>2

\* A request is one, and what it starts with.
LEMMA RequestType ==
  ASSUME NEW k \in Keys \union {NoFile}, NEW s \in Int
  PROVE  /\ Request(k, s) \in Job
         /\ Request(k, s).key = k /\ Request(k, s).fd = "closed"
         /\ NoJob \in Job /\ NoJob.fd = "closed"
  BY BoundsAssumption DEF Request, NoJob, Job

-----------------------------------------------------------------------------
(* Types and bookkeeping *)

Inv == TypeOK /\ Bookkeeping

LEMMA InvInit == Init => Inv
  BY BoundsAssumption
  DEF Init, Inv, TypeOK, Bookkeeping, Job, Victim, Labels, Request, NoJob, NoVictim

\* A handler that returns leaves nothing of its own behind.
LEMMA FinishInv ==
  ASSUME Inv, NEW p \in Procs, Finish(p),
         tmp' \in [Keys -> Content \union {NoFile}],
         final' \in [Keys -> Content \union {NoFile}],
         \A q \in Procs : /\ job[q].fd = "tmp" /\ q # p => tmp'[job[q].key] # NoFile
                          /\ job[q].fd = "final" /\ q # p => final'[job[q].key] # NoFile,
         cached' \subseteq Keys, lruSize' \in [Keys -> 0..MaxLen],
         older' \in [Keys -> SUBSET Keys], current' \in Nat,
         \A k \in Keys \ cached' : lruSize'[k] = 0
  PROVE  Inv'
<1>1. /\ pc' = [pc EXCEPT ![p] = "idle"]
      /\ job' = [job EXCEPT ![p] = NoJob]
      /\ victim' = [victim EXCEPT ![p] = NoVictim]
  BY DEF Finish, Goto
<1>2. NoJob \in Job /\ NoJob.fd = "closed" /\ NoVictim \in Victim
  BY BoundsAssumption, RequestType DEF NoVictim, Victim
<1>3. TypeOK'
  BY <1>1, <1>2 DEF Inv, TypeOK, Labels
<1>4. Bookkeeping'
  BY <1>1, <1>2 DEF Inv, TypeOK, Bookkeeping, NoVictim
<1> QED
  BY <1>3, <1>4 DEF Inv

\* What the index operations return.
LEMMA LruTypes ==
  ASSUME Inv, NEW k \in Keys
  PROVE  /\ LruPromote(k) => /\ cached' = cached /\ lruSize' = lruSize
                             /\ older' \in [Keys -> SUBSET Keys]
         /\ LruRemove(k) => /\ cached' = cached \ {k}
                            /\ lruSize' = [lruSize EXCEPT ![k] = 0]
                            /\ lruSize' \in [Keys -> 0..MaxLen]
                            /\ older' \in [Keys -> SUBSET Keys]
                            /\ \A j \in Keys \ cached' : lruSize'[j] = 0
  BY BoundsAssumption DEF Inv, TypeOK, Bookkeeping, LruPromote, LruRemove, Touched

LEMMA LruPutTypes ==
  ASSUME Inv, NEW k \in Keys, NEW size \in 0..MaxLen, LruPut(k, size)
  PROVE  /\ cached' \subseteq Keys
         /\ lruSize' \in [Keys -> 0..MaxLen]
         /\ older' \in [Keys -> SUBSET Keys]
         /\ \A j \in Keys \ cached' : lruSize'[j] = 0
         /\ lruSize'[k] = size \/ lruSize'[k] = 0
         /\ \A j \in Keys \ {k} : lruSize'[j] <= lruSize[j]
<1>1. PICK gone \in {{j} : j \in LeastRecent} \union {{}} :
        /\ cached' = (cached \ gone) \union {k}
        /\ lruSize' = [j \in Keys |-> IF j = k THEN size
                                      ELSE IF j \in gone THEN 0 ELSE lruSize[j]]
        /\ older' = Touched(k, cached \ gone, gone)
  BY DEF LruPut
<1>2. older' \in [Keys -> SUBSET Keys]
  BY <1>1 DEF Inv, TypeOK, Touched
<1>3. lruSize' \in [Keys -> 0..MaxLen]
  BY <1>1, BoundsAssumption DEF Inv, TypeOK
<1>4. \A j \in Keys \ cached' : lruSize'[j] = 0
  BY <1>1 DEF Inv, Bookkeeping
<1>5. \A j \in Keys \ {k} : lruSize'[j] <= lruSize[j]
  BY <1>1, BoundsAssumption DEF Inv, TypeOK
<1> QED
  BY <1>1, <1>2, <1>3, <1>4, <1>5 DEF Inv, TypeOK

\* Every step keeps the types and the bookkeeping.
LEMMA InvNext == Inv /\ [Next]_vars => Inv'
<1> SUFFICES ASSUME Inv, [Next]_vars PROVE Inv'
  OBVIOUS
<1> USE BoundsAssumption, SetsAssumption
<1>1. ASSUME NEW p \in Procs, NEW k \in Keys, NEW s \in Declared, PutStart(p, k, s)
      PROVE  Inv'
  <2>1. s \in Int /\ k \in Keys \union {NoFile}
    OBVIOUS
  <2>2. /\ Request(k, s) \in Job
        /\ Request(k, s).key = k /\ Request(k, s).fd = "closed"
    BY <2>1, RequestType
  <2>3. /\ pc[p] = "idle" /\ pc' = [pc EXCEPT ![p] = "check"]
        /\ job' = [job EXCEPT ![p] = Request(k, s)]
        /\ UNCHANGED <<tmp, final, cached, lruSize, older, current, victim>>
    BY <1>1 DEF PutStart, Goto, files, index
  <2> QED
    BY <2>2, <2>3 DEF Inv, TypeOK, Bookkeeping, Labels
<1>2. ASSUME NEW p \in Procs, FitCheck(p)
      PROVE  Inv'
  BY <1>2 DEF FitCheck, Goto, Inv, TypeOK, Bookkeeping, Labels, files, index
<1>3. ASSUME NEW p \in Procs, PopLru(p)
      PROVE  Inv'
  <2>1. CASE Goto(p, "create") /\ UNCHANGED <<files, index, current, job, victim>>
    BY <1>3, <2>1 DEF PopLru, Goto, Inv, TypeOK, Bookkeeping, Labels, files, index
  <2>2. ASSUME NEW k \in LeastRecent, LruRemove(k),
               victim' = [victim EXCEPT ![p] = [key |-> k, size |-> lruSize[k], take |-> 0]],
               Goto(p, "unlink"), UNCHANGED <<files, current, job>>, pc[p] = "pop"
        PROVE  Inv'
    <3>1. k \in Keys
      BY <2>2 DEF LeastRecent, Inv, TypeOK
    <3>2. /\ cached' = cached \ {k} /\ lruSize' \in [Keys -> 0..MaxLen]
          /\ older' \in [Keys -> SUBSET Keys]
          /\ \A j \in Keys \ cached' : lruSize'[j] = 0
      BY <2>2, <3>1, LruTypes
    <3>3. TypeOK'
      BY <2>2, <3>1, <3>2 DEF Goto, Inv, TypeOK, Labels, Victim, files
    <3>4. Bookkeeping'
      BY <2>2, <3>1, <3>2 DEF Goto, Inv, TypeOK, Bookkeeping, Labels, Victim, files
    <3> QED
      BY <3>3, <3>4 DEF Inv
  <2> QED
    BY <1>3, <2>1, <2>2 DEF PopLru
<1>4. ASSUME NEW p \in Procs, RemoveVictim(p)
      PROVE  Inv'
  <2> DEFINE k == victim[p].key
  <2>1. pc[p] = "unlink" /\ k \in Keys /\ UNCHANGED <<tmp, index, current>>
    BY <1>4 DEF RemoveVictim, Inv, Bookkeeping
  <2>2. CASE /\ final' = [final EXCEPT ![k] = NoFile]
             /\ job' = Reopen(k, FALSE)
             /\ victim' = [victim EXCEPT ![p].take = victim[p].size]
             /\ Goto(p, "sub")
    <3>1. job \in [Procs -> Job]
      BY DEF Inv, TypeOK
    <3>2. /\ pc' = [pc EXCEPT ![p] = "sub"]
          /\ UNCHANGED <<tmp, cached, lruSize, older, current>>
      BY <2>1, <2>2 DEF Goto, index
    <3>3. \A q \in Procs : /\ victim'[q] \in Victim /\ victim'[q].key = victim[q].key
                           /\ victim'[q].size = victim[q].size
      BY <2>2 DEF Inv, TypeOK, Victim
    <3>4. victim' \in [Procs -> Victim]
      BY <2>2, <3>3 DEF Inv, TypeOK
    <3>5. TypeOK'
      BY <2>1, <2>2, <3>1, <3>2, <3>4, UnlinkFacts DEF Inv, TypeOK, Labels
    <3>6. \A q \in Procs :
            /\ pc'[q] # "idle" => job'[q].key \in Keys
            /\ job'[q].fd = "tmp" => tmp'[job'[q].key] # NoFile
            /\ job'[q].fd = "final" => final'[job'[q].key] # NoFile
            /\ job'[q].fd # "closed" => pc'[q] = "copy"
      <4> TAKE q \in Procs
      <4> DEFINE r == Reopen(k, FALSE)[q]
      <4>1. /\ job'[q] = r /\ r.key = job[q].key
            /\ r.fd # "closed" => job[q].fd # "closed"
            /\ job[q].key # k => r = job[q]
            /\ job[q].key = k => r.fd # "final" /\ (r.fd = "tmp" => job[q].fd = "tmp")
        BY <2>2, <3>1, UnlinkFacts, ZenonT(60)
      <4> HIDE DEF r
      <4> QED
        BY <2>1, <2>2, <3>1, <3>2, <4>1, ZenonT(60) DEF Inv, TypeOK, Bookkeeping
    <3>7. Bookkeeping'
      BY <2>1, <3>2, <3>3, <3>6 DEF Inv, TypeOK, Bookkeeping
    <3> QED
      BY <3>5, <3>7 DEF Inv
  <2>3. CASE Goto(p, "reload") /\ UNCHANGED <<final, job, victim>>
    BY <2>1, <2>3 DEF Goto, Inv, TypeOK, Bookkeeping, Labels, index
  <2>4. CASE /\ victim' = [victim EXCEPT ![p] = NoVictim]
             /\ Goto(p, "check") /\ UNCHANGED <<final, job>>
    BY <2>1, <2>4 DEF Goto, Inv, TypeOK, Bookkeeping, Labels, index, NoVictim, Victim
  <2> QED
    BY <1>4, <2>2, <2>3, <2>4 DEF RemoveVictim
<1>5. ASSUME NEW p \in Procs, ReloadSize(p)
      PROVE  Inv'
  BY <1>5 DEF ReloadSize, Goto, Inv, TypeOK, Bookkeeping, Labels, Victim, files, index
<1>6. ASSUME NEW p \in Procs, SubtractVictim(p)
      PROVE  Inv'
  BY <1>6 DEF SubtractVictim, FetchSub, Goto, Inv, TypeOK, Bookkeeping, Labels, Victim,
              NoVictim, files, index
<1>7. ASSUME NEW p \in Procs, CreateTmp(p)
      PROVE  Inv'
  <2> DEFINE k == job[p].key
  <2>1. /\ k \in Keys /\ pc[p] = "create" /\ pc' = [pc EXCEPT ![p] = "copy"]
        /\ tmp' = [tmp EXCEPT ![k] = Empty]
        /\ job' = [job EXCEPT ![p].fd = "tmp"]
        /\ UNCHANGED <<final, cached, lruSize, older, current, victim>>
    BY <1>7 DEF CreateTmp, Goto, Inv, Bookkeeping, index
  <2>2. \A q \in Procs : /\ job'[q] \in Job /\ job'[q].key = job[q].key
                         /\ q # p => job'[q] = job[q]
                         /\ job'[p].fd = "tmp"
    BY <2>1 DEF Inv, TypeOK, Job
  <2>3. TypeOK'
    BY <2>1, <2>2, EmptyType DEF Inv, TypeOK, Labels
  <2>4. Bookkeeping'
    BY <2>1, <2>2, EmptyType DEF Inv, TypeOK, Bookkeeping
  <2> QED
    BY <2>3, <2>4 DEF Inv
<1>8. ASSUME NEW p \in Procs, NEW chunk \in {"good", "bad"}, CopyChunk(p, chunk)
      PROVE  Inv'
  <2> DEFINE k == job[p].key
             n == job[p].off + 1
  <2>1. k \in Keys /\ n \in 1..MaxLen
    BY <1>8 DEF CopyChunk, Inv, TypeOK, Bookkeeping, Job
  <2>2. ASSUME NEW c \in Content PROVE [c EXCEPT ![n] = chunk] \in Content
    BY <2>1 DEF Content, Chunk
  <2>3. tmp' \in [Keys -> Content \union {NoFile}] /\ (\A j \in Keys : tmp[j] # NoFile => tmp'[j] # NoFile)
    <3>1. CASE job[p].fd = "tmp"
      <4>1. tmp[k] \in Content
        BY <2>1, <3>1 DEF Inv, TypeOK, Bookkeeping
      <4>2. tmp' = [tmp EXCEPT ![k] = [tmp[k] EXCEPT ![n] = chunk]]
        BY <1>8, <3>1 DEF CopyChunk
      <4> QED
        BY <2>1, <2>2, <4>1, <4>2, NoFileAssumption DEF Inv, TypeOK
    <3>2. CASE job[p].fd # "tmp"
      BY <1>8, <3>2 DEF CopyChunk, Inv, TypeOK
    <3> QED
      BY <3>1, <3>2
  <2>4. final' \in [Keys -> Content \union {NoFile}] /\ (\A j \in Keys : final[j] # NoFile => final'[j] # NoFile)
    <3>1. CASE job[p].fd = "final"
      <4>1. final[k] \in Content
        BY <2>1, <3>1 DEF Inv, TypeOK, Bookkeeping
      <4>2. final' = [final EXCEPT ![k] = [final[k] EXCEPT ![n] = chunk]]
        BY <1>8, <3>1 DEF CopyChunk
      <4> QED
        BY <2>1, <2>2, <4>1, <4>2, NoFileAssumption DEF Inv, TypeOK
    <3>2. CASE job[p].fd # "final"
      BY <1>8, <3>2 DEF CopyChunk, Inv, TypeOK
    <3> QED
      BY <3>1, <3>2
  <2>5. /\ job' = [job EXCEPT ![p].off = n, 
                           ![p].body = IF chunk = "good" THEN job[p].body ELSE "bad"]
        /\ UNCHANGED <<index, current, pc, victim>> /\ pc[p] = "copy"
    BY <1>8 DEF CopyChunk
  <2>6. \A q \in Procs : /\ job'[q] \in Job
                         /\ job'[q].key = job[q].key /\ job'[q].fd = job[q].fd
    <3> DEFINE b == IF chunk = "good" THEN job[p].body ELSE "bad"
    <3>1. b \in {"good", "bad"}
      BY DEF Inv, TypeOK, Job
    <3>2. job[p] \in Job
      BY DEF Inv, TypeOK
    <3>3. job'[p] = [job[p] EXCEPT !.off = n, !.body = b]
      BY <2>5, <3>2 DEF Inv, TypeOK
    <3>5. n \in 0..MaxLen
      BY <2>1
    <3> HIDE DEF b, n
    <3>4. job'[p] \in Job /\ job'[p].key = job[p].key /\ job'[p].fd = job[p].fd
      BY <3>1, <3>2, <3>3, <3>5 DEF Job
    <3>6. \A q \in Procs \ {p} : job'[q] = job[q] /\ job[q] \in Job
      BY <2>5 DEF Inv, TypeOK
    <3> QED
      BY <3>4, <3>6
  <2>7. TypeOK'
    BY <2>3, <2>4, <2>5, <2>6 DEF Inv, TypeOK, index
  <2>8. Bookkeeping'
    BY <2>3, <2>4, <2>5, <2>6 DEF Inv, TypeOK, Bookkeeping, index
  <2> QED
    BY <2>7, <2>8 DEF Inv
<1>9. ASSUME NEW p \in Procs, EndOfBody(p)
      PROVE  Inv'
  BY <1>9, SMTT(30) DEF EndOfBody, Goto, Inv, TypeOK, Bookkeeping, Labels, Job, files, index
<1>10. ASSUME NEW p \in Procs, Fail(p) \/ Cancel(p)
       PROVE  Inv'
  BY <1>10, FinishInv DEF Fail, Cancel, Inv, TypeOK, Bookkeeping, files, index
<1>11. ASSUME NEW p \in Procs, RenameTmp(p)
       PROVE  Inv'
  <2> DEFINE k == job[p].key
  <2>1. pc[p] = "rename" /\ k \in Keys /\ UNCHANGED <<index, current>>
    BY <1>11 DEF RenameTmp, Inv, Bookkeeping
  <2>2. CASE /\ tmp[k] # NoFile
             /\ final' = [final EXCEPT ![k] = tmp[k]]
             /\ tmp' = [tmp EXCEPT ![k] = NoFile]
             /\ job' = Reopen(k, TRUE)
             /\ Goto(p, "record")
             /\ UNCHANGED victim
    <3>1. job \in [Procs -> Job]
      BY DEF Inv, TypeOK
    <3>2. TypeOK'
      BY <2>1, <2>2, <3>1, RenameFacts DEF Goto, Inv, TypeOK, Labels, index
    <3>3. /\ pc' = [pc EXCEPT ![p] = "record"]
          /\ UNCHANGED <<cached, lruSize, older, current, victim>>
      BY <2>1, <2>2 DEF Goto, index
    <3>4. \A q \in Procs :
            /\ pc'[q] # "idle" => job'[q].key \in Keys
            /\ job'[q].fd = "tmp" => tmp'[job'[q].key] # NoFile
            /\ job'[q].fd = "final" => final'[job'[q].key] # NoFile
            /\ job'[q].fd # "closed" => pc'[q] = "copy"
      <4> TAKE q \in Procs
      <4> DEFINE r == Reopen(k, TRUE)[q]
      <4>1. /\ job'[q] = r /\ r.key = job[q].key
            /\ r.fd # "closed" => job[q].fd # "closed"
            /\ job[q].key # k => r = job[q]
            /\ job[q].key = k => r.fd # "tmp" /\ (r.fd = "final" => job[q].fd = "tmp")
        <5>1. /\ Reopen(k, TRUE)[q].key = job[q].key
              /\ Reopen(k, TRUE)[q].fd # "closed" => job[q].fd # "closed"
              /\ job[q].key # k => Reopen(k, TRUE)[q] = job[q]
              /\ job[q].key = k =>
                   /\ Reopen(k, TRUE)[q].fd # "tmp"
                   /\ Reopen(k, TRUE)[q].fd = "final" => job[q].fd = "tmp"
          BY <3>1, RenameFacts
        <5> QED
          BY <2>2, <5>1
      <4> HIDE DEF r
      <4> QED
        BY <2>1, <2>2, <3>1, <3>3, <4>1, ZenonT(60) DEF Inv, TypeOK, Bookkeeping
    <3>5. Bookkeeping'
      BY <2>1, <3>3, <3>4 DEF Inv, TypeOK, Bookkeeping
    <3> QED
      BY <3>2, <3>5 DEF Inv
  <2>3. CASE Finish(p) /\ UNCHANGED files
    BY <2>1, <2>3, FinishInv DEF Inv, TypeOK, Bookkeeping, files, index
  <2> QED
    BY <1>11, <2>2, <2>3 DEF RenameTmp
<1>12. ASSUME NEW p \in Procs, Record(p)
       PROVE  Inv'
  <2>1. job[p].key \in Keys /\ job[p].off \in 0..MaxLen
    BY <1>12 DEF Record, Inv, TypeOK, Bookkeeping, Job
  <2>2. /\ cached' \subseteq Keys /\ lruSize' \in [Keys -> 0..MaxLen]
        /\ older' \in [Keys -> SUBSET Keys]
        /\ \A j \in Keys \ cached' : lruSize'[j] = 0
    BY <1>12, <2>1, LruPutTypes DEF Record
  <2>3. current' \in Nat
    BY <1>12, <2>1 DEF Record, Inv, TypeOK
  <2> QED
    BY <1>12, <2>2, <2>3, FinishInv DEF Record, Inv, TypeOK, Bookkeeping, files
<1>13. ASSUME NEW p \in Procs, DiscardTmp(p)
       PROVE  Inv'
  <2> DEFINE k == job[p].key
  <2>1. /\ pc[p] = "discard" /\ k \in Keys
        /\ tmp' = [tmp EXCEPT ![k] = NoFile]
        /\ UNCHANGED <<final, index, current, victim>>
        /\ pc' = [pc EXCEPT ![p] = "idle"]
    BY <1>13 DEF DiscardTmp, Inv, Bookkeeping, Goto
  <2>2. NoJob \in Job /\ NoJob.fd = "closed"
    BY RequestType
  <2>3. \A q \in Procs :
          /\ job'[q] \in Job
          /\ q = p => job'[q] = NoJob
          /\ q # p => job'[q].key = job[q].key
          /\ q # p /\ job'[q].fd = "tmp" => job[q].fd = "tmp" /\ job[q].key # k
          /\ q # p /\ job'[q].fd = "final" => job[q].fd = "final"
          /\ q # p /\ job'[q].fd # "closed" => job[q].fd # "closed"
    BY <1>13, <2>2, ZenonT(60) DEF DiscardTmp, Inv, TypeOK, Job
  <2>4. job' \in [Procs -> Job]
    BY <1>13, <2>3 DEF DiscardTmp
  <2>5. TypeOK'
    BY <2>1, <2>4 DEF Inv, TypeOK, Labels, index
  <2>6. \A q \in Procs :
          /\ pc'[q] # "idle" => job'[q].key \in Keys
          /\ job'[q].fd = "tmp" => tmp'[job'[q].key] # NoFile
          /\ job'[q].fd = "final" => final'[job'[q].key] # NoFile
          /\ job'[q].fd # "closed" => pc'[q] = "copy"
    <3> TAKE q \in Procs
    <3>1. CASE q = p
      BY <2>1, <2>2, <2>3, <3>1 DEF Inv, TypeOK
    <3>2. CASE q # p
      BY <2>1, <2>3, <3>2 DEF Inv, TypeOK, Bookkeeping
    <3> QED
      BY <3>1, <3>2
  <2>7. Bookkeeping'
    BY <2>1, <2>6 DEF Inv, TypeOK, Bookkeeping, index
  <2> QED
    BY <2>5, <2>7 DEF Inv
<1>14. ASSUME NEW p \in Procs, NEW k \in Keys, Lookup(p, k)
       PROVE  Inv'
  <2>1. /\ Request(k, 0) \in Job
        /\ Request(k, 0).key = k /\ Request(k, 0).fd = "closed"
    BY RequestType
  <2>2. /\ pc[p] = "idle" /\ pc' = [pc EXCEPT ![p] = "promote"]
        /\ job' = [job EXCEPT ![p] = Request(k, 0)]
        /\ UNCHANGED <<tmp, final, cached, lruSize, older, current, victim>>
    BY <1>14 DEF Lookup, Goto, files, index
  <2> QED
    BY <2>1, <2>2 DEF Inv, TypeOK, Bookkeeping, Labels
<1>15. ASSUME NEW p \in Procs, Promote(p)
       PROVE  Inv'
  <2>1. job[p].key \in Keys
    BY <1>15 DEF Promote, Inv, Bookkeeping
  <2>2. /\ cached' = cached /\ lruSize' = lruSize /\ older' \in [Keys -> SUBSET Keys]
    BY <1>15, <2>1, LruTypes DEF Promote
  <2> QED
    BY <1>15, <2>2, FinishInv DEF Promote, Inv, TypeOK, Bookkeeping, files
<1>16. ASSUME NEW p \in Procs, NEW k \in Keys, DeleteFile(p, k)
       PROVE  Inv'
  <2>1. /\ job \in [Procs -> Job] /\ Request(k, 0) \in Job
        /\ Request(k, 0).key = k /\ Request(k, 0).fd = "closed"
    BY RequestType DEF Inv, TypeOK
  <2>2. /\ pc[p] = "idle" /\ pc' = [pc EXCEPT ![p] = "forget"]
        /\ final' = [final EXCEPT ![k] = NoFile]
        /\ job' = [Reopen(k, FALSE) EXCEPT ![p] = Request(k, 0)]
        /\ UNCHANGED <<tmp, index, current, victim>>
    BY <1>16 DEF DeleteFile, Goto
  <2>3. TypeOK'
    BY <2>1, <2>2, UnlinkFacts DEF Inv, TypeOK, Labels, index
  <2>4. \A q \in Procs : /\ q # p => job'[q] = Reopen(k, FALSE)[q]
                         /\ q = p => job'[q] = Request(k, 0)
    BY <2>1, <2>2, UnlinkFacts
  <2>5. \A q \in Procs :
          /\ pc'[q] # "idle" => job'[q].key \in Keys
          /\ job'[q].fd = "tmp" => tmp'[job'[q].key] # NoFile
          /\ job'[q].fd = "final" => final'[job'[q].key] # NoFile
          /\ job'[q].fd # "closed" => pc'[q] = "copy"
    <3> TAKE q \in Procs
    <3>1. CASE q = p
      BY <2>1, <2>2, <2>4, <3>1, ZenonT(60) DEF Inv, TypeOK
    <3>2. CASE q # p
      <4> DEFINE r == Reopen(k, FALSE)[q]
      <4>1. /\ job'[q] = r /\ r.key = job[q].key
            /\ r.fd # "closed" => job[q].fd # "closed"
            /\ job[q].key # k => r = job[q]
            /\ job[q].key = k => r.fd # "final"
            /\ job[q].key = k /\ r.fd = "tmp" => job[q].fd = "tmp"
        BY <2>1, <2>4, <3>2, UnlinkFacts, ZenonT(60)
      <4> HIDE DEF r
      <4> QED
        BY <2>1, <2>2, <3>2, <4>1 DEF Inv, TypeOK, Bookkeeping
    <3> QED
      BY <3>1, <3>2
  <2>6. Bookkeeping'
    BY <2>2, <2>5 DEF Inv, TypeOK, Bookkeeping, index
  <2> QED
    BY <2>3, <2>6 DEF Inv
<1>17. ASSUME NEW p \in Procs, Forget(p)
       PROVE  Inv'
  <2> DEFINE k == job[p].key
  <2>1. k \in Keys /\ lruSize[k] \in 0..MaxLen
    BY <1>17 DEF Forget, Inv, TypeOK, Bookkeeping
  <2>2. CASE LruRemove(k) /\ current' = FetchSub(current, lruSize[k])
    <3>1. /\ cached' \subseteq Keys /\ lruSize' \in [Keys -> 0..MaxLen]
          /\ older' \in [Keys -> SUBSET Keys]
          /\ \A j \in Keys \ cached' : lruSize'[j] = 0
      BY <2>1, <2>2, LruTypes DEF Inv, TypeOK
    <3>2. current' \in Nat
      BY <2>1, <2>2 DEF FetchSub, Inv, TypeOK
    <3> QED
      BY <1>17, <3>1, <3>2, FinishInv DEF Forget, Inv, TypeOK, Bookkeeping, files
  <2>3. CASE UNCHANGED <<index, current>>
    BY <1>17, <2>3, FinishInv DEF Forget, Inv, TypeOK, Bookkeeping, files, index
  <2> QED
    BY <1>17, <2>2, <2>3 DEF Forget
<1>18. CASE Crash
  <2>1. \A k \in Keys : Length(final[k]) \in 0..MaxLen
    BY LengthType
  <2>2. current' \in Nat
    BY <1>18, WeightNat DEF Crash
  <2>3. PICK kept \in SUBSET Keys, rank \in ScanOrders :
          /\ cached' = kept
          /\ lruSize' = [k \in Keys |-> IF k \in kept THEN Length(final[k]) ELSE 0]
          /\ older' = [k \in Keys |->
               IF k \in kept THEN {j \in kept : rank[j] < rank[k]} ELSE {}]
    <3>1. PICK rank \in ScanOrders :
            LET kept == {k \in Stored : rank[k] + LruCap > Cardinality(Stored)} IN
            /\ cached' = kept
            /\ lruSize' = [k \in Keys |-> IF k \in kept THEN Length(final[k]) ELSE 0]
            /\ older' = [k \in Keys |->
                 IF k \in kept THEN {j \in kept : rank[j] < rank[k]} ELSE {}]
      BY <1>18 DEF Crash
    <3> DEFINE kept == {k \in Stored : rank[k] + LruCap > Cardinality(Stored)}
    <3>2. kept \in SUBSET Keys
      BY DEF Stored
    <3> QED
      BY <3>1, <3>2
  <2>4. /\ tmp' = [k \in Keys |-> NoFile] /\ UNCHANGED final
        /\ pc' = [p \in Procs |-> "idle"]
        /\ job' = [p \in Procs |-> NoJob] /\ victim' = [p \in Procs |-> NoVictim]
    BY <1>18 DEF Crash
  <2>5. NoJob \in Job /\ NoJob.fd = "closed"
    BY RequestType
  <2>6. TypeOK'
    BY <2>1, <2>2, <2>3, <2>4, <2>5 DEF Inv, TypeOK, NoVictim, Victim, Labels
  <2>7. Bookkeeping'
    BY <2>3, <2>4, <2>5 DEF Inv, TypeOK, Bookkeeping, NoVictim
  <2> QED
    BY <2>6, <2>7 DEF Inv
<1>19. CASE UNCHANGED vars
  BY <1>19 DEF vars, Inv, TypeOK, Bookkeeping
<1> QED
  BY <1>1, <1>2, <1>3, <1>4, <1>5, <1>6, <1>7, <1>8, <1>9, <1>10, <1>11, <1>12,
     <1>13, <1>14, <1>15, <1>16, <1>17, <1>18, <1>19 DEF Next, Begin, Work

\* Every variable keeps its type.
THEOREM TypeCorrect == Spec => []TypeOK
<1>1. Spec => []Inv
  BY InvInit, InvNext, PTL DEF Spec
<1>2. Inv => TypeOK
  BY DEF Inv
<1> QED
  BY <1>1, <1>2, PTL

-----------------------------------------------------------------------------
(* Accounting *)

\* Popped sizes as a function, for the lemmas about weights.
Popped == [p \in Procs |-> victim[p].size]

LEMMA Totals ==
  ASSUME Inv
  PROVE  /\ Popped \in [Procs -> 0..MaxLen] /\ lruSize \in [Keys -> 0..MaxLen]
         /\ MaxLen \in Nat /\ IsFiniteSet(Procs) /\ IsFiniteSet(Keys)
         /\ Pending = Weight(Popped, Procs, MaxLen) /\ Pending \in Nat
         /\ Indexed = Weight(lruSize, Keys, MaxLen) /\ Indexed \in Nat
         /\ current \in Nat
<1>1. Popped \in [Procs -> 0..MaxLen]
  BY DEF Inv, TypeOK, Victim, Popped
<1>2. MaxLen \in Nat /\ IsFiniteSet(Procs) /\ IsFiniteSet(Keys)
  BY SetsAssumption, BoundsAssumption
<1>3. Pending = Weight(Popped, Procs, MaxLen) /\ Pending \in Nat
  BY <1>2, WeightNat DEF Pending, Popped
<1>4. Indexed = Weight(lruSize, Keys, MaxLen) /\ Indexed \in Nat
  BY <1>2, WeightNat DEF Indexed
<1> QED
  BY <1>1, <1>2, <1>3, <1>4 DEF Inv, TypeOK

LEMMA TotalsNext ==
  ASSUME Inv'
  PROVE  /\ Popped' \in [Procs -> 0..MaxLen] /\ lruSize' \in [Keys -> 0..MaxLen]
         /\ Pending' = Weight(Popped', Procs, MaxLen) /\ Pending' \in Nat
         /\ Indexed' = Weight(lruSize', Keys, MaxLen) /\ Indexed' \in Nat
         /\ current' \in Nat
<1>1. Popped' \in [Procs -> 0..MaxLen]
  BY DEF Inv, TypeOK, Victim, Popped
<1>2. MaxLen \in Nat /\ IsFiniteSet(Procs) /\ IsFiniteSet(Keys)
  BY SetsAssumption, BoundsAssumption
<1>3. Pending' = Weight(Popped', Procs, MaxLen) /\ Pending' \in Nat
  BY <1>2, WeightNat DEF Pending, Popped
<1>4. Indexed' = Weight(lruSize', Keys, MaxLen) /\ Indexed' \in Nat
  BY <1>2, WeightNat DEF Indexed
<1> QED
  BY <1>1, <1>2, <1>3, <1>4 DEF Inv, TypeOK

\* If no entry and no popped size grows, neither does a total.
LEMMA Shrinking ==
  ASSUME Inv, Inv'
  PROVE  /\ (\A k \in Keys : lruSize'[k] <= lruSize[k]) => Indexed' <= Indexed
         /\ (\A q \in Procs : victim'[q].size <= victim[q].size) => Pending' <= Pending
<1>1. ASSUME \A k \in Keys : lruSize'[k] <= lruSize[k] PROVE Indexed' <= Indexed
  BY <1>1, Totals, TotalsNext, WeightMonotone
<1>2. ASSUME \A q \in Procs : victim'[q].size <= victim[q].size
      PROVE  Pending' <= Pending
  <2>1. \A q \in Procs : Popped'[q] <= Popped[q]
    BY <1>2 DEF Popped
  <2> QED
    BY <2>1, Totals, TotalsNext, WeightMonotone
<1> QED
  BY <1>1, <1>2

\* If only one popped size changes, the total changes with it.
LEMMA PendingChange ==
  ASSUME Inv, Inv', NEW p \in Procs,
         \A q \in Procs \ {p} : victim'[q].size = victim[q].size
  PROVE  Pending' + victim[p].size = Pending + victim'[p].size
<1>1. \A q \in Procs \ {p} : Popped[q] = Popped'[q]
  BY DEF Popped
<1>2. Weight(Popped', Procs, MaxLen) + Popped[p] = Weight(Popped, Procs, MaxLen) + Popped'[p]
  <2>1. \A f, g \in [Procs -> 0..MaxLen] :
          (\A y \in Procs \ {p} : f[y] = g[y])
            => Weight(g, Procs, MaxLen) + f[p] = Weight(f, Procs, MaxLen) + g[p]
    <3> TAKE f, g \in [Procs -> 0..MaxLen]
    <3> HAVE \A y \in Procs \ {p} : f[y] = g[y]
    <3>1. IsFiniteSet(Procs) /\ MaxLen \in Nat
      BY SetsAssumption, BoundsAssumption
    <3> QED
      BY <3>1, WeightChange
  <2> QED
    BY <1>1, <2>1, Totals, TotalsNext
<1>3. Popped[p] = victim[p].size /\ Popped'[p] = victim'[p].size
  BY DEF Popped
<1> QED
  BY <1>2, <1>3, Totals, TotalsNext

\* Likewise for the index, when the other entries do not grow.
LEMMA IndexedChange ==
  ASSUME Inv, Inv', NEW k \in Keys,
         \A j \in Keys \ {k} : lruSize'[j] <= lruSize[j]
  PROVE  Indexed' + lruSize[k] <= Indexed + lruSize'[k]
<1> DEFINE g == [lruSize EXCEPT ![k] = lruSize'[k]]
<1>1. lruSize'[k] \in 0..MaxLen /\ lruSize[k] \in 0..MaxLen
  BY Totals, TotalsNext
<1>2. g \in [Keys -> 0..MaxLen] /\ g[k] = lruSize'[k]
  BY <1>1, Totals
<1>3. \A j \in Keys \ {k} : lruSize[j] = g[j]
  BY Totals
<1>4. \A j \in Keys : lruSize'[j] <= g[j]
  <2> TAKE j \in Keys
  <2>1. CASE j = k
    BY <2>1, <1>1, <1>2
  <2>2. CASE j # k
    BY <2>2, <1>3
  <2> QED
    BY <2>1, <2>2
<1> HIDE DEF g
<1>5. Weight(g, Keys, MaxLen) + lruSize[k] = Weight(lruSize, Keys, MaxLen) + g[k]
  <2>1. \A e, f \in [Keys -> 0..MaxLen] :
          (\A y \in Keys \ {k} : e[y] = f[y])
            => Weight(f, Keys, MaxLen) + e[k] = Weight(e, Keys, MaxLen) + f[k]
    <3> TAKE e, f \in [Keys -> 0..MaxLen]
    <3> HAVE \A y \in Keys \ {k} : e[y] = f[y]
    <3>1. IsFiniteSet(Keys) /\ MaxLen \in Nat
      BY SetsAssumption, BoundsAssumption
    <3> QED
      BY <3>1, WeightChange
  <2> QED
    BY <1>2, <1>3, <2>1, Totals
<1>6. Weight(lruSize', Keys, MaxLen) <= Weight(g, Keys, MaxLen)
  BY <1>2, <1>4, Totals, TotalsNext, WeightMonotone
<1>7. Weight(g, Keys, MaxLen) \in Nat
  BY WeightNat, Totals
<1> QED
  BY <1>1, <1>2, <1>5, <1>6, <1>7, Totals, TotalsNext

Accounting == AccountingCovers /\ ClampUnused

LEMMA AccountingInit == Init => Accounting
<1> SUFFICES ASSUME Init PROVE Accounting
  OBVIOUS
<1>1. Inv
  BY InvInit
<1>2. \A k \in Keys : lruSize[k] = 0
  BY DEF Init
<1>3. \A p \in Procs : Popped[p] = 0
  BY DEF Init, Popped, NoVictim
<1>4. Indexed = 0 /\ Pending = 0
  BY <1>1, <1>2, <1>3, Totals, WeightZero
<1> QED
  BY <1>4 DEF Init, Accounting, AccountingCovers, ClampUnused

\* A step that leaves the counter alone and lets nothing grow is harmless.
LEMMA AccountingQuiet ==
  ASSUME Inv, Inv', Accounting, current' = current,
         \A k \in Keys : lruSize'[k] <= lruSize[k],
         \A q \in Procs : victim'[q].size <= victim[q].size
  PROVE  AccountingCovers'
  BY Shrinking, Totals, TotalsNext DEF Accounting, AccountingCovers

\* The sizes are numbers.
LEMMA SizesAreNumbers ==
  ASSUME Inv
  PROVE  /\ \A k \in Keys : lruSize[k] \in Nat /\ lruSize[k] <= lruSize[k]
         /\ \A q \in Procs : /\ victim[q].size \in Nat
                             /\ victim[q].size <= victim[q].size /\ 0 <= victim[q].size
  BY BoundsAssumption DEF Inv, TypeOK, Victim

\* Every step keeps the counter above what it has to cover.
LEMMA AccountingNext ==
  ASSUME Inv, Inv', Accounting, [Next]_vars
  PROVE  Accounting'
<1>1. ASSUME current' = current, UNCHANGED <<lruSize, victim>>,
             \A q \in Procs : pc'[q] = "sub" => pc[q] = "sub"
      PROVE  Accounting'
  <2>1. AccountingCovers'
    BY <1>1, SizesAreNumbers, AccountingQuiet
  <2> QED
    BY <1>1, <2>1 DEF Accounting, ClampUnused
<1>2. ASSUME NEW p \in Procs, Finish(p), current' = current, UNCHANGED lruSize
      PROVE  Accounting'
  <2>1. \A q \in Procs : /\ q = p => victim'[q].size = 0 /\ pc'[q] # "sub"
                         /\ q # p => victim'[q] = victim[q] /\ pc'[q] = pc[q]
    BY <1>2 DEF Finish, Goto, NoVictim, Inv, TypeOK
  <2>2. \A q \in Procs : victim'[q].size <= victim[q].size
    BY <2>1, SizesAreNumbers
  <2>3. AccountingCovers'
    BY <1>2, <2>2, SizesAreNumbers, AccountingQuiet
  <2> QED
    BY <2>1, <2>3 DEF Accounting, ClampUnused
<1>3. ASSUME NEW p \in Procs, PopLru(p)
      PROVE  Accounting'
  <2>1. CASE Goto(p, "create") /\ UNCHANGED <<files, index, current, job, victim>>
    BY <1>1, <2>1 DEF Goto, Inv, TypeOK, index
  <2>2. ASSUME NEW k \in LeastRecent, LruRemove(k), pc[p] = "pop",
               victim' = [victim EXCEPT ![p] = [key |-> k, size |-> lruSize[k], take |-> 0]],
               Goto(p, "unlink"), UNCHANGED <<files, current, job>>
        PROVE  Accounting'
    <3>1. k \in Keys
      BY <2>2 DEF LeastRecent, Inv, TypeOK
    <3>2. victim[p].size = 0
      BY <2>2 DEF Inv, Bookkeeping
    <3>3. \A q \in Procs : /\ q = p => victim'[q].size = lruSize[k] /\ pc'[q] = "unlink"
                           /\ q # p => victim'[q] = victim[q] /\ pc'[q] = pc[q]
      BY <2>2 DEF Goto, Inv, TypeOK
    <3>4. Pending' = Pending + lruSize[k]
      BY <3>2, <3>3, PendingChange, Totals, TotalsNext
    <3>5. lruSize'[k] = 0 /\ \A j \in Keys \ {k} : lruSize'[j] = lruSize[j]
      BY <2>2, <3>1 DEF LruRemove, Inv, TypeOK
    <3>6. Indexed' + lruSize[k] <= Indexed
      BY <3>1, <3>5, SizesAreNumbers, IndexedChange, Totals, TotalsNext
    <3>7. AccountingCovers'
      BY <2>2, <3>1, <3>4, <3>6, SizesAreNumbers, Totals, TotalsNext
      DEF Accounting, AccountingCovers
    <3> QED
      BY <3>3, <3>7 DEF Accounting, ClampUnused
  <2> QED
    BY <1>3, <2>1, <2>2 DEF PopLru
<1>4. ASSUME NEW p \in Procs, RemoveVictim(p)
      PROVE  Accounting'
  <2>1. /\ UNCHANGED <<lruSize, current>>
        /\ \A q \in Procs \ {p} : victim'[q] = victim[q] /\ pc'[q] = pc[q]
        /\ \/ /\ victim'[p].take = victim[p].size /\ victim'[p].size = victim[p].size
           \/ pc'[p] # "sub" /\ victim'[p].size \in {0, victim[p].size}
    <3>1. /\ UNCHANGED <<lruSize, current>> /\ pc \in [Procs -> Labels]
          /\ victim \in [Procs -> Victim]
      BY <1>4 DEF RemoveVictim, index, Inv, TypeOK
    <3>2. CASE victim' = [victim EXCEPT ![p].take = victim[p].size] /\ Goto(p, "sub")
      BY <3>1, <3>2 DEF Goto, Victim
    <3>3. CASE UNCHANGED victim /\ Goto(p, "reload")
      BY <3>1, <3>3 DEF Goto
    <3>4. CASE victim' = [victim EXCEPT ![p] = NoVictim] /\ Goto(p, "check")
      BY <3>1, <3>4 DEF Goto, NoVictim
    <3> QED
      BY <1>4, <3>1, <3>2, <3>3, <3>4 DEF RemoveVictim
  <2>2. \A q \in Procs : victim'[q].size <= victim[q].size
    BY <2>1, SizesAreNumbers
  <2>3. AccountingCovers'
    BY <2>1, <2>2, SizesAreNumbers, AccountingQuiet
  <2> QED
    BY <2>1, <2>3 DEF Accounting, ClampUnused
<1>5. ASSUME NEW p \in Procs, ReloadSize(p)
      PROVE  Accounting'
  <2>1. victim[p].size <= current
    <3>1. Popped[p] = victim[p].size
      BY DEF Popped
    <3>2. Popped[p] <= Pending
      BY Totals, WeightAtLeast
    <3> QED
      BY <3>1, <3>2, SizesAreNumbers, Totals DEF Accounting, AccountingCovers
  <2>2. /\ UNCHANGED <<lruSize, current>>
        /\ \A q \in Procs \ {p} : victim'[q] = victim[q] /\ pc'[q] = pc[q]
        /\ victim'[p].take = victim[p].size /\ victim'[p].size = victim[p].size
    BY <1>5, <2>1 DEF ReloadSize, Goto, Inv, TypeOK, Victim, index
  <2>3. \A q \in Procs : victim'[q].size <= victim[q].size
    BY <2>2, SizesAreNumbers
  <2>4. AccountingCovers'
    BY <2>2, <2>3, SizesAreNumbers, AccountingQuiet
  <2> QED
    BY <2>2, <2>4 DEF Accounting, ClampUnused
<1>6. ASSUME NEW p \in Procs, SubtractVictim(p)
      PROVE  Accounting'
  <2>1. victim[p].take = victim[p].size
    BY <1>6 DEF SubtractVictim, Accounting, ClampUnused
  <2>2. /\ UNCHANGED lruSize /\ victim'[p].size = 0 /\ pc'[p] = "check"
        /\ \A q \in Procs \ {p} : victim'[q] = victim[q] /\ pc'[q] = pc[q]
    BY <1>6 DEF SubtractVictim, Goto, NoVictim, Inv, TypeOK, index
  <2>3. Pending' + victim[p].size = Pending
    BY <2>2, PendingChange, Totals, TotalsNext
  <2>4. Indexed' <= Indexed
    BY <2>2, SizesAreNumbers, Shrinking
  <2>5. victim[p].size <= current
    BY <2>3, SizesAreNumbers, Totals, TotalsNext DEF Accounting, AccountingCovers
  <2>6. current' = current - victim[p].size
    BY <1>6, <2>1, <2>5 DEF SubtractVictim, FetchSub
  <2>7. AccountingCovers'
    BY <2>3, <2>4, <2>6, SizesAreNumbers, Totals, TotalsNext
    DEF Accounting, AccountingCovers
  <2> QED
    BY <2>2, <2>7 DEF Accounting, ClampUnused
<1>7. ASSUME NEW p \in Procs, Record(p)
      PROVE  Accounting'
  <2> DEFINE k == job[p].key
             n == job[p].off
  <2>1. k \in Keys /\ n \in 0..MaxLen /\ LruPut(k, n) /\ current' = current + n
    BY <1>7 DEF Record, Inv, TypeOK, Bookkeeping, Job
  <2>2. /\ lruSize'[k] = n \/ lruSize'[k] = 0
        /\ \A j \in Keys \ {k} : lruSize'[j] <= lruSize[j]
    BY <2>1, LruPutTypes
  <2>3. Indexed' + lruSize[k] <= Indexed + lruSize'[k]
    BY <2>1, <2>2, IndexedChange
  <2>4. \A q \in Procs : /\ q = p => victim'[q].size = 0 /\ pc'[q] # "sub"
                         /\ q # p => victim'[q] = victim[q] /\ pc'[q] = pc[q]
    BY <1>7 DEF Record, Finish, Goto, NoVictim, Inv, TypeOK
  <2>5. Pending' <= Pending
    BY <2>4, SizesAreNumbers, Shrinking
  <2>6. AccountingCovers'
    BY <2>1, <2>2, <2>3, <2>5, BoundsAssumption, SizesAreNumbers, Totals, TotalsNext
    DEF Accounting, AccountingCovers
  <2> QED
    BY <2>4, <2>6 DEF Accounting, ClampUnused
<1>8. ASSUME NEW p \in Procs, Forget(p)
      PROVE  Accounting'
  <2> DEFINE k == job[p].key
  <2>1. k \in Keys /\ Finish(p)
    BY <1>8 DEF Forget, Inv, Bookkeeping
  <2>2. CASE LruRemove(k) /\ current' = FetchSub(current, lruSize[k])
    <3>1. lruSize'[k] = 0 /\ \A j \in Keys \ {k} : lruSize'[j] = lruSize[j]
      BY <2>1, <2>2 DEF LruRemove, Inv, TypeOK
    <3>2. Indexed' + lruSize[k] <= Indexed
      BY <2>1, <3>1, SizesAreNumbers, IndexedChange, Totals, TotalsNext
    <3>3. lruSize[k] <= current
      BY <2>1, <3>2, SizesAreNumbers, Totals, TotalsNext DEF Accounting, AccountingCovers
    <3>4. current' = current - lruSize[k]
      BY <2>2, <3>3 DEF FetchSub
    <3>5. \A q \in Procs : /\ q = p => victim'[q].size = 0 /\ pc'[q] # "sub"
                           /\ q # p => victim'[q] = victim[q] /\ pc'[q] = pc[q]
      BY <2>1 DEF Finish, Goto, NoVictim, Inv, TypeOK
    <3>6. Pending' <= Pending
      BY <3>5, SizesAreNumbers, Shrinking
    <3>7. AccountingCovers'
      BY <2>1, <3>2, <3>4, <3>6, SizesAreNumbers, Totals, TotalsNext
      DEF Accounting, AccountingCovers
    <3> QED
      BY <3>5, <3>7 DEF Accounting, ClampUnused
  <2>3. CASE UNCHANGED <<index, current>>
    BY <1>2, <2>1, <2>3 DEF index
  <2> QED
    BY <1>8, <2>2, <2>3 DEF Forget
<1>9. CASE Crash
  <2> DEFINE len == [k \in Keys |-> Length(final[k])]
  <2>1. len \in [Keys -> 0..MaxLen]
    BY LengthType
  <2>2. PICK kept : lruSize' = [k \in Keys |-> IF k \in kept THEN Length(final[k]) ELSE 0]
    BY <1>9 DEF Crash
  <2>3. \A k \in Keys : lruSize'[k] <= len[k]
    BY <2>1, <2>2, BoundsAssumption
  <2>4. current' = Weight(len, Keys, MaxLen)
    BY <1>9 DEF Crash
  <2> HIDE DEF len
  <2>5. Indexed' <= current'
    BY <2>1, <2>3, <2>4, Totals, TotalsNext, WeightMonotone
  <2>6. \A q \in Procs : Popped'[q] = 0 /\ pc'[q] = "idle"
    BY <1>9 DEF Crash, Popped, NoVictim
  <2>7. Pending' = 0
    BY <2>6, Totals, TotalsNext, WeightZero
  <2> QED
    BY <2>5, <2>6, <2>7, TotalsNext DEF Accounting, AccountingCovers, ClampUnused
<1>10. CASE UNCHANGED vars
  BY <1>1, <1>10 DEF vars
<1>11. ASSUME NEW p \in Procs, NEW k \in Keys,
              \/ \E s \in Declared : PutStart(p, k, s)
              \/ Lookup(p, k) \/ DeleteFile(p, k)
       PROVE  Accounting'
  BY <1>1, <1>11 DEF PutStart, Lookup, DeleteFile, Goto, Inv, TypeOK, index
<1>12. ASSUME NEW p \in Procs,
              \/ FitCheck(p) \/ CreateTmp(p) \/ EndOfBody(p) \/ DiscardTmp(p)
              \/ \E chunk \in {"good", "bad"} : CopyChunk(p, chunk)
       PROVE  Accounting'
  <2>1. /\ current' = current /\ UNCHANGED <<lruSize, victim>>
        /\ \A q \in Procs : pc'[q] = "sub" => pc[q] = "sub"
    BY <1>12
    DEF FitCheck, CreateTmp, EndOfBody, DiscardTmp, CopyChunk, Goto, Inv, TypeOK, index
  <2> QED
    BY <1>1, <2>1
<1>13. ASSUME NEW p \in Procs, Fail(p) \/ Cancel(p) \/ Promote(p)
       PROVE  Accounting'
  BY <1>2, <1>13 DEF Fail, Cancel, Promote, LruPromote, index
<1>14. ASSUME NEW p \in Procs, RenameTmp(p)
       PROVE  Accounting'
  <2>1. CASE Finish(p)
    BY <1>2, <1>14, <2>1 DEF RenameTmp, index
  <2>2. CASE Goto(p, "record") /\ UNCHANGED victim
    BY <1>1, <1>14, <2>2 DEF RenameTmp, Goto, Inv, TypeOK, index
  <2> QED
    BY <1>14, <2>1, <2>2 DEF RenameTmp
<1> QED
  BY <1>3, <1>4, <1>5, <1>6, <1>7, <1>8, <1>9, <1>10, <1>11, <1>12, <1>13, <1>14
  DEF Next, Begin, Work

LEMMA AccountingInvariant == Spec => [](Inv /\ Accounting)
<1>1. Init => Inv /\ Accounting
  BY InvInit, AccountingInit
<1>2. Inv /\ Accounting /\ [Next]_vars => (Inv /\ Accounting)'
  BY InvNext, AccountingNext
<1> QED
  BY <1>1, <1>2, PTL DEF Spec

\* The counter always covers the index and what is popped from it, however
\* many handlers run and whatever fails, is cancelled or crashes.
THEOREM AccountingAlwaysCovers == Spec => []AccountingCovers
<1>1. Inv /\ Accounting => AccountingCovers
  BY DEF Accounting
<1> QED
  BY <1>1, AccountingInvariant, PTL

\* The clamp of the "already gone" branch of evict_to_fit never acts.
THEOREM ClampNeverActs == Spec => []ClampUnused
<1>1. Inv /\ Accounting => ClampUnused
  BY DEF Accounting
<1> QED
  BY <1>1, AccountingInvariant, PTL

\* A handler's step moves only its own program counter.
LEMMA OwnStep ==
  ASSUME Inv, NEW q \in Procs, Begin(q) \/ Work(q) \/ Cancel(q)
  PROVE  \A p \in Procs \ {q} : pc'[p] = pc[p]
<1>1. ASSUME NEW k \in Keys,
             \/ \E s \in Declared : PutStart(q, k, s)
             \/ Lookup(q, k) \/ DeleteFile(q, k)
      PROVE  \A p \in Procs \ {q} : pc'[p] = pc[p]
  BY <1>1 DEF PutStart, Lookup, DeleteFile, Goto, Inv, TypeOK
<1>2. CASE \/ FitCheck(q) \/ PopLru(q) \/ RemoveVictim(q) \/ ReloadSize(q)
           \/ SubtractVictim(q) \/ CreateTmp(q)
  BY <1>2 DEF FitCheck, PopLru, RemoveVictim, ReloadSize, SubtractVictim, CreateTmp,
              Goto, Inv, TypeOK
<1>3. CASE \/ \E chunk \in {"good", "bad"} : CopyChunk(q, chunk)
           \/ EndOfBody(q) \/ DiscardTmp(q)
  BY <1>3 DEF CopyChunk, EndOfBody, DiscardTmp, Goto, Inv, TypeOK
<1>4. CASE Fail(q) \/ RenameTmp(q) \/ Record(q) \/ Promote(q) \/ Forget(q) \/ Cancel(q)
  BY <1>4 DEF Fail, RenameTmp, Record, Promote, Forget, Cancel, Finish, Goto, Inv, TypeOK
<1> QED
  BY <1>1, <1>2, <1>3, <1>4 DEF Begin, Work

\* No fetch_sub, in evict_to_fit or in delete(), ever wraps current_size.
THEOREM CounterNeverWrapsTheorem == Spec => CounterNeverWraps
<1> DEFINE Shrinks ==
      \A p \in Procs : pc[p] \in {"sub", "forget"} /\ pc'[p] # pc[p] /\ ~Crash
        => current' <= current
<1>1. Inv /\ Accounting /\ [Next]_vars => [Shrinks]_vars
  <2> SUFFICES ASSUME Inv, Accounting, Next, NEW p \in Procs,
                      pc[p] \in {"sub", "forget"}, pc'[p] # pc[p], ~Crash
               PROVE  current' <= current
    BY DEF vars
  <2>1. Begin(p) \/ Work(p) \/ Cancel(p)
    BY OwnStep DEF Next
  <2>2. SubtractVictim(p) \/ Forget(p) \/ Cancel(p)
    BY <2>1 DEF Begin, Work, PutStart, Lookup, DeleteFile, FitCheck, PopLru, RemoveVictim,
                ReloadSize, CreateTmp, CopyChunk, EndOfBody, Fail, RenameTmp, Record,
                DiscardTmp, Promote
  <2>3. current \in Nat /\ Indexed \in Nat /\ Pending \in Nat
    BY Totals
  <2>4. CASE SubtractVictim(p)
    <3>1. victim[p].take = victim[p].size
      BY <2>4 DEF SubtractVictim, Accounting, ClampUnused
    <3>2. Popped[p] = victim[p].size
      BY DEF Popped
    <3>3. Popped[p] <= Pending
      BY Totals, WeightAtLeast
    <3>4. victim[p].size \in Nat /\ victim[p].size <= current
      BY <2>3, <3>2, <3>3, SizesAreNumbers DEF Accounting, AccountingCovers
    <3> QED
      BY <2>3, <2>4, <3>1, <3>4 DEF SubtractVictim, FetchSub
  <2>5. CASE Forget(p)
    <3> DEFINE k == job[p].key
    <3>1. k \in Keys
      BY <2>5 DEF Forget, Inv, Bookkeeping
    <3>2. lruSize[k] <= Indexed
      BY <3>1, Totals, WeightAtLeast
    <3>3. lruSize[k] \in Nat /\ lruSize[k] <= current
      BY <2>3, <3>1, <3>2, SizesAreNumbers DEF Accounting, AccountingCovers
    <3> QED
      BY <2>3, <2>5, <3>3 DEF Forget, FetchSub
  <2>6. CASE Cancel(p)
    BY <2>3, <2>6 DEF Cancel
  <2> QED
    BY <2>2, <2>4, <2>5, <2>6
<1>2. CounterNeverWraps <=> [][Shrinks]_vars
  BY DEF CounterNeverWraps
<1> QED
  BY <1>1, <1>2, AccountingInvariant, PTL DEF Spec

-----------------------------------------------------------------------------
(* Integrity.  The assumption of one uploader for each key is needed: the    *)
(* run disk_same_key shows two uploads of one key break it.                  *)

OneUploaderPerKey == \A k \in Keys : \A p, q \in Uploaders[k] : p = q

\* The program counters of put().
PutLabels == {"check", "pop", "unlink", "reload", "sub", "create", "copy",
              "rename", "record", "discard"}

\* Those before the body is read.
PreLabels == {"check", "pop", "unlink", "reload", "sub", "create"}

\* The tmp file holds what has been copied, if that is still a good prefix.
CopiedSoFar(p) ==
  \A n \in 1..MaxLen :
    tmp[job[p].key][n] = IF n <= job[p].off THEN "good" ELSE "none"

\* What makes FilesVerified inductive: an upload is the only one of its key,
\* its descriptor stays on the tmp path, and what it is about to rename is
\* the verified blob.
Integrity ==
  /\ \A p \in Procs : pc[p] \in PutLabels => p \in Uploaders[job[p].key]
  /\ \A p \in Procs : pc[p] = "copy" => /\ job[p].fd = "tmp"
                                        /\ job[p].body = "good" => CopiedSoFar(p)
  /\ \A p \in Procs : pc[p] = "rename" => tmp[job[p].key] = Blob(job[p].key)
  /\ \A p \in Procs : pc[p] \in PreLabels => job[p].off = 0
  /\ FilesVerified

LEMMA IntegrityInit == Init => Integrity
  BY DEF Init, Integrity, FilesVerified, Stored, PutLabels, PreLabels

\* Two uploads in progress are of different keys.
LEMMA UploadsApart ==
  ASSUME OneUploaderPerKey, Inv, Integrity, NEW p \in Procs, NEW q \in Procs, p # q,
         pc[p] \in PutLabels, pc[q] \in PutLabels
  PROVE  job[p].key # job[q].key
<1>1. job[p].key \in Keys
  BY DEF PutLabels, Inv, Bookkeeping
<1> QED
  BY <1>1 DEF OneUploaderPerKey, Integrity

\* A handler's part of the invariant that only looks at its own upload.
Mine(p) ==
  /\ pc[p] \in PutLabels => p \in Uploaders[job[p].key]
  /\ pc[p] = "copy" => /\ job[p].fd = "tmp"
                       /\ job[p].body = "good" => CopiedSoFar(p)
  /\ pc[p] = "rename" => tmp[job[p].key] = Blob(job[p].key)
  /\ pc[p] \in PreLabels => job[p].off = 0

LEMMA IntegrityParts == Integrity <=> FilesVerified /\ \A p \in Procs : Mine(p)
  BY DEF Integrity, Mine

\* What others do keeps Mine, if they leave its upload and its tmp file alone.
LEMMA MineKept ==
  ASSUME NEW p, Mine(p), pc'[p] = pc[p], job'[p] = job[p],
         pc[p] \in {"copy", "rename"} => tmp'[job[p].key] = tmp[job[p].key]
  PROVE  Mine(p)'
  BY DEF Mine, CopiedSoFar

\* A step of p that leaves the files alone.
LEMMA IntegrityLocal ==
  ASSUME Integrity, NEW p \in Procs, UNCHANGED files, Mine(p)',
         \A q \in Procs \ {p} : pc'[q] = pc[q] /\ job'[q] = job[q]
  PROVE  Integrity'
<1>1. FilesVerified'
  BY DEF files, FilesVerified, Stored, Integrity
<1>2. \A q \in Procs : Mine(q)'
  <2> TAKE q \in Procs
  <2>1. CASE q = p
    BY <2>1
  <2>2. CASE q # p
    BY <2>2, MineKept, IntegrityParts DEF files
  <2> QED
    BY <2>1, <2>2
<1> QED
  BY <1>1, <1>2 DEF Integrity, Mine

\* No descriptor is on a final path, so unlinking one moves none.
LEMMA UnlinkMovesNone ==
  ASSUME Inv, Integrity, NEW k
  PROVE  \A q \in Procs : Reopen(k, FALSE)[q] = job[q]
<1>1. \A q \in Procs : job[q].fd # "final"
  BY DEF Inv, Bookkeeping, Integrity
<1> QED
  BY <1>1 DEF Reopen

\* Every step keeps the invariant.
LEMMA IntegrityNext ==
  ASSUME OneUploaderPerKey, Inv, Integrity, [Next]_vars
  PROVE  Integrity'
<1>1. ASSUME NEW p \in Procs, NEW k \in Keys,
             Lookup(p, k) \/ \E s \in Declared : PutStart(p, k, s)
      PROVE  Integrity'
  <2>1. CASE Lookup(p, k)
    <3>1. Mine(p)'
      BY <2>1 DEF Lookup, Goto, Mine, PutLabels, PreLabels, Inv, TypeOK
    <3> QED
      BY <2>1, <3>1, IntegrityLocal DEF Lookup, Goto, Inv, TypeOK
  <2>2. ASSUME NEW s \in Declared, PutStart(p, k, s)
        PROVE  Integrity'
    <3>1. Mine(p)'
      BY <2>2 DEF PutStart, Goto, Mine, PutLabels, PreLabels, Inv, TypeOK, Request
    <3> QED
      BY <2>2, <3>1, IntegrityLocal DEF PutStart, Goto, Inv, TypeOK
  <2> QED
    BY <1>1, <2>1, <2>2
<1>2. ASSUME NEW p \in Procs, NEW k \in Keys, DeleteFile(p, k)
      PROVE  Integrity'
  <2>1. \A q \in Procs \ {p} : job'[q] = job[q] /\ pc'[q] = pc[q]
    BY <1>2, UnlinkMovesNone, UnlinkFacts, ZenonT(60) DEF DeleteFile, Goto, Inv, TypeOK
  <2>2. Mine(p)'
    BY <1>2 DEF DeleteFile, Goto, Mine, PutLabels, PreLabels, Inv, TypeOK
  <2>3. \A q \in Procs \ {p} : Mine(q)'
    BY <1>2, <2>1, MineKept, IntegrityParts DEF DeleteFile
  <2>4. FilesVerified'
    BY <1>2 DEF DeleteFile, FilesVerified, Stored, Integrity, Inv, TypeOK, Blob
  <2> QED
    BY <2>2, <2>3, <2>4 DEF Integrity, Mine
<1>3. ASSUME NEW p \in Procs,
             FitCheck(p) \/ PopLru(p) \/ ReloadSize(p) \/ SubtractVictim(p) \/ EndOfBody(p)
      PROVE  Integrity'
  <2>1. UNCHANGED files /\ \A q \in Procs \ {p} : pc'[q] = pc[q] /\ job'[q] = job[q]
    BY <1>3 DEF FitCheck, PopLru, ReloadSize, SubtractVictim, EndOfBody, Goto, Inv, TypeOK, files
  <2>2. Mine(p)
    BY IntegrityParts
  <2>3. CASE EndOfBody(p)
    <3>1. /\ pc[p] = "copy" /\ job[p] \in Job /\ tmp' = tmp
          /\ job' = [job EXCEPT ![p].fd = "closed"]
          /\ pc'[p] = IF Verified(p) THEN "rename" ELSE "discard"
      BY <2>3 DEF EndOfBody, Goto, Inv, TypeOK, files
    <3>2. job'[p].key = job[p].key
      BY <3>1 DEF Inv, TypeOK, Job
    <3>3. job[p].key \in Keys /\ tmp[job[p].key] \in Content
      BY <2>2, <3>1 DEF Inv, TypeOK, Bookkeeping, Mine
    <3>4. ASSUME Verified(p) PROVE tmp[job[p].key] = Blob(job[p].key)
      <4>1. /\ job[p].off = Size[job[p].key]
            /\ \A n \in 1..MaxLen :
                 tmp[job[p].key][n] = IF n <= job[p].off THEN "good" ELSE "none"
        BY <2>2, <3>1, <3>4 DEF Verified, Mine, CopiedSoFar
      <4> QED
        BY <3>3, <4>1 DEF Blob, Content
    <3>5. Mine(p)'
      BY <2>2, <3>1, <3>2, <3>4 DEF Mine, PutLabels, PreLabels
    <3> QED
      BY <2>1, <3>5, IntegrityLocal
  <2>4. CASE ~EndOfBody(p)
    <3>1. /\ job' = job /\ pc[p] \in PutLabels /\ pc[p] \in PreLabels
          /\ pc'[p] \in PutLabels \ {"copy", "rename"}
      BY <1>3, <2>4 DEF FitCheck, PopLru, ReloadSize, SubtractVictim, Goto, PutLabels, PreLabels,
                        Inv, TypeOK
    <3>2. Mine(p)'
      BY <2>2, <3>1 DEF Mine, PreLabels
    <3> QED
      BY <2>1, <3>2, IntegrityLocal
  <2> QED
    BY <2>3, <2>4
<1>4. ASSUME NEW p \in Procs, Finish(p), UNCHANGED files
      PROVE  Integrity'
  <2>1. Mine(p)'
    BY <1>4 DEF Finish, Goto, Mine, PutLabels, PreLabels, Inv, TypeOK
  <2> QED
    BY <1>4, <2>1, IntegrityLocal DEF Finish, Goto, Inv, TypeOK
<1>5. ASSUME NEW p \in Procs, RemoveVictim(p)
      PROVE  Integrity'
  <2>1. /\ \A q \in Procs : job'[q] = job[q]
        /\ \A q \in Procs \ {p} : pc'[q] = pc[q]
        /\ tmp' = tmp
        /\ pc[p] = "unlink" /\ pc'[p] \in {"sub", "reload", "check"}
    <3>1. \A q \in Procs : Reopen(victim[p].key, FALSE)[q] = job[q]
      BY UnlinkMovesNone
    <3> QED
      BY <1>5, <3>1 DEF RemoveVictim, Goto, Inv, TypeOK
  <2>2. \A q \in Procs \ {p} : Mine(q)'
    BY <2>1, MineKept, IntegrityParts
  <2>3. Mine(p)'
    BY <2>1, IntegrityParts DEF Mine, PutLabels, PreLabels
  <2>4. \/ final' = final
        \/ final' = [final EXCEPT ![victim[p].key] = NoFile] /\ victim[p].key \in Keys
    BY <1>5 DEF RemoveVictim, Inv, Bookkeeping
  <2>5. FilesVerified'
    <3>1. CASE final' = final
      BY <3>1 DEF FilesVerified, Stored, Integrity
    <3>2. CASE final' = [final EXCEPT ![victim[p].key] = NoFile] /\ victim[p].key \in Keys
      <4>1. \A j \in Keys : final'[j] # NoFile => final'[j] = final[j]
        BY <3>2 DEF Inv, TypeOK
      <4> QED
        BY <4>1 DEF FilesVerified, Stored, Integrity
    <3> QED
      BY <2>4, <3>1, <3>2
  <2> QED
    BY <2>2, <2>3, <2>5 DEF Integrity, Mine
<1>6. ASSUME NEW p \in Procs, CreateTmp(p)
      PROVE  Integrity'
  <2> DEFINE k == job[p].key
  <2>1. /\ pc[p] = "create" /\ k \in Keys /\ pc' = [pc EXCEPT ![p] = "copy"]
        /\ tmp' = [tmp EXCEPT ![k] = Empty] /\ final' = final
        /\ job' = [job EXCEPT ![p].fd = "tmp"]
    BY <1>6 DEF CreateTmp, Goto, Inv, Bookkeeping
  <2>2. \A q \in Procs \ {p} : pc[q] \in {"copy", "rename"} => job[q].key # k
    BY <2>1, UploadsApart DEF PutLabels, PreLabels
  <2>3. \A q \in Procs \ {p} : Mine(q)'
    <3> TAKE q \in Procs \ {p}
    <3>1. pc[q] \in {"copy", "rename"} => tmp'[job[q].key] = tmp[job[q].key]
      BY <2>1, <2>2 DEF Inv, TypeOK, Bookkeeping
    <3>2. pc'[q] = pc[q] /\ job'[q] = job[q]
      BY <2>1 DEF Inv, TypeOK
    <3> QED
      BY <3>1, <3>2, MineKept, IntegrityParts
  <2>4. Mine(p)'
    <3>1. job[p].off = 0
      BY <2>1 DEF Integrity, PreLabels
    <3>2. job'[p].key = k /\ job'[p].fd = "tmp" /\ job'[p].off = 0 /\ pc'[p] = "copy"
      BY <2>1, <3>1 DEF Inv, TypeOK, Job
    <3>3. tmp'[k] = Empty
      BY <2>1 DEF Inv, TypeOK
    <3>4. \A n \in 1..MaxLen : tmp'[k][n] = IF n <= 0 THEN "good" ELSE "none"
      BY <3>3 DEF Empty
    <3>5. CopiedSoFar(p)'
      BY <3>2, <3>4 DEF CopiedSoFar
    <3> QED
      BY <2>1, <3>2, <3>5, IntegrityParts DEF Mine, PutLabels, PreLabels
  <2>5. FilesVerified'
    BY <2>1 DEF FilesVerified, Stored, Integrity
  <2> QED
    BY <2>3, <2>4, <2>5 DEF Integrity, Mine
<1>7. ASSUME NEW p \in Procs, NEW chunk \in {"good", "bad"}, CopyChunk(p, chunk)
      PROVE  Integrity'
  <2> DEFINE k == job[p].key
             n == job[p].off + 1
  <2>1. /\ pc[p] = "copy" /\ k \in Keys /\ n \in 1..MaxLen /\ pc' = pc
        /\ job[p].fd = "tmp" /\ tmp[k] \in Content /\ final' = final
        /\ job[p] \in Job
        /\ job' = [job EXCEPT ![p].off = n,
                  ![p].body = IF chunk = "good" THEN job[p].body ELSE "bad"]
    BY <1>7 DEF CopyChunk, Inv, TypeOK, Bookkeeping, Integrity, Job
  <2>2. tmp' = [tmp EXCEPT ![k] = [tmp[k] EXCEPT ![n] = chunk]]
    BY <1>7, <2>1 DEF CopyChunk
  <2>3. \A q \in Procs \ {p} : pc[q] \in {"copy", "rename"} => job[q].key # k
    BY <2>1, UploadsApart DEF PutLabels, PreLabels
  <2>4. \A q \in Procs \ {p} : Mine(q)'
    <3> TAKE q \in Procs \ {p}
    <3>1. pc[q] \in {"copy", "rename"} => tmp'[job[q].key] = tmp[job[q].key]
      BY <2>2, <2>3 DEF Inv, TypeOK, Bookkeeping
    <3>2. pc'[q] = pc[q] /\ job'[q] = job[q]
      BY <2>1 DEF Inv, TypeOK
    <3> QED
      BY <3>1, <3>2, MineKept, IntegrityParts
  <2>5. /\ job'[p].key = k /\ job'[p].fd = "tmp" /\ job'[p].off = n
        /\ job'[p].body = "good" => chunk = "good" /\ job[p].body = "good"
    BY <2>1 DEF Inv, TypeOK, Job
  <2>6. ASSUME job'[p].body = "good"
        PROVE  CopiedSoFar(p)'
    <3>1. tmp'[k] = [tmp[k] EXCEPT ![n] = "good"]
      BY <2>1, <2>2, <2>5, <2>6 DEF Inv, TypeOK
    <3>2. \A m \in 1..MaxLen : tmp[k][m] = IF m <= job[p].off THEN "good" ELSE "none"
      BY <2>1, <2>5, <2>6 DEF Integrity, CopiedSoFar
    <3>3. job[p].off \in Nat
      BY <2>1, BoundsAssumption DEF Job
    <3>4. \A m \in 1..MaxLen : tmp'[k][m] = IF m = n THEN "good" ELSE tmp[k][m]
      BY <2>1, <3>1 DEF Content
    <3>5. \A m \in 1..MaxLen : m <= n <=> m = n \/ m <= job[p].off
      BY <3>3, BoundsAssumption
    <3>6. \A m \in 1..MaxLen : tmp'[k][m] = IF m <= n THEN "good" ELSE "none"
      <4> HIDE DEF k, n
      <4> QED
        BY <3>2, <3>4, <3>5
    <3> QED
      BY <2>5, <3>6 DEF CopiedSoFar
  <2>7. Mine(p)'
    BY <2>1, <2>5, <2>6, IntegrityParts DEF Mine, PutLabels, PreLabels
  <2>8. FilesVerified'
    BY <2>1 DEF FilesVerified, Stored, Integrity
  <2> QED
    BY <2>4, <2>7, <2>8 DEF Integrity, Mine
<1>8. ASSUME NEW p \in Procs, RenameTmp(p), tmp[job[p].key] # NoFile
      PROVE  Integrity'
  <2> DEFINE k == job[p].key
  <2>1. /\ pc[p] = "rename" /\ k \in Keys /\ pc' = [pc EXCEPT ![p] = "record"]
        /\ final' = [final EXCEPT ![k] = tmp[k]] /\ tmp' = [tmp EXCEPT ![k] = NoFile]
        /\ job' = Reopen(k, TRUE)
    BY <1>8 DEF RenameTmp, Goto, Inv, Bookkeeping
  <2>2. \A q \in Procs \ {p} : pc[q] \in {"copy", "rename"} => job[q].key # k
    BY <2>1, UploadsApart DEF PutLabels, PreLabels
  <2>3. \A q \in Procs : job[q].fd # "final" /\ (job[q].key = k => job[q].fd # "tmp")
    BY <2>1, <2>2 DEF Inv, Bookkeeping, Integrity
  <2>4. \A q \in Procs : job'[q] = job[q]
    BY <2>1, <2>3 DEF Reopen
  <2>5. \A q \in Procs \ {p} : Mine(q)'
    <3> TAKE q \in Procs \ {p}
    <3>1. pc[q] \in {"copy", "rename"} => tmp'[job[q].key] = tmp[job[q].key]
      BY <2>1, <2>2 DEF Inv, TypeOK, Bookkeeping
    <3>2. pc'[q] = pc[q] /\ job'[q] = job[q]
      BY <2>1, <2>4 DEF Inv, TypeOK
    <3> QED
      BY <3>1, <3>2, MineKept, IntegrityParts
  <2>6. Mine(p)'
    BY <2>1, <2>4, IntegrityParts DEF Mine, PutLabels, PreLabels, Inv, TypeOK
  <2>7. tmp[k] = Blob(k)
    BY <2>1 DEF Integrity
  <2>8. FilesVerified'
    BY <2>1, <2>7 DEF FilesVerified, Stored, Integrity, Inv, TypeOK, Blob
  <2> QED
    BY <2>5, <2>6, <2>8 DEF Integrity, Mine
<1>9. ASSUME NEW p \in Procs, DiscardTmp(p)
      PROVE  Integrity'
  <2> DEFINE k == job[p].key
  <2>1. /\ pc[p] = "discard" /\ k \in Keys /\ pc' = [pc EXCEPT ![p] = "idle"]
        /\ tmp' = [tmp EXCEPT ![k] = NoFile] /\ final' = final
    BY <1>9 DEF DiscardTmp, Goto, Inv, Bookkeeping
  <2>2. \A q \in Procs \ {p} : pc[q] \in {"copy", "rename"} => job[q].key # k
    BY <2>1, UploadsApart DEF PutLabels, PreLabels
  <2>3. \A q \in Procs \ {p} : job[q].key = k => job[q].fd # "tmp"
    BY <2>2 DEF Inv, Bookkeeping
  <2>4. \A q \in Procs \ {p} : job'[q] = job[q]
    BY <1>9, <2>3 DEF DiscardTmp
  <2>5. \A q \in Procs \ {p} : Mine(q)'
    <3> TAKE q \in Procs \ {p}
    <3>1. pc[q] \in {"copy", "rename"} => tmp'[job[q].key] = tmp[job[q].key]
      BY <2>1, <2>2 DEF Inv, TypeOK, Bookkeeping
    <3>2. pc'[q] = pc[q] /\ job'[q] = job[q]
      BY <2>1, <2>4 DEF Inv, TypeOK
    <3> QED
      BY <3>1, <3>2, MineKept, IntegrityParts
  <2>6. Mine(p)'
    BY <2>1 DEF Mine, PutLabels, PreLabels, Inv, TypeOK
  <2>7. FilesVerified'
    BY <2>1 DEF FilesVerified, Stored, Integrity
  <2> QED
    BY <2>5, <2>6, <2>7 DEF Integrity, Mine
<1>10. CASE Crash
  BY <1>10 DEF Crash, Integrity, FilesVerified, Stored, PutLabels, PreLabels
<1>11. CASE UNCHANGED vars
  BY <1>11 DEF vars, Integrity, FilesVerified, Stored, CopiedSoFar
<1>12. ASSUME NEW p \in Procs,
              Fail(p) \/ Cancel(p) \/ Record(p) \/ Promote(p) \/ Forget(p)
       PROVE  Integrity'
  BY <1>4, <1>12 DEF Fail, Cancel, Record, Promote, Forget
<1>13. ASSUME NEW p \in Procs, RenameTmp(p)
       PROVE  Integrity'
  <2>1. CASE Finish(p) /\ UNCHANGED files
    BY <1>4, <2>1
  <2>2. CASE tmp[job[p].key] # NoFile
    BY <1>8, <1>13, <2>2
  <2> QED
    BY <1>13, <2>1, <2>2 DEF RenameTmp
<1> QED
  BY <1>1, <1>2, <1>3, <1>5, <1>6, <1>7, <1>9, <1>10, <1>11, <1>12, <1>13
  DEF Next, Begin, Work

\* A get() never finds part of a blob, or another one, at a final path.
THEOREM FilesAlwaysVerified ==
  ASSUME OneUploaderPerKey
  PROVE  Spec => []FilesVerified
<1>1. Init => Inv /\ Integrity
  BY InvInit, IntegrityInit
<1>2. Inv /\ Integrity /\ [Next]_vars => (Inv /\ Integrity)'
  BY OneUploaderPerKey, InvNext, IntegrityNext
<1>3. Inv /\ Integrity => FilesVerified
  BY DEF Integrity
<1> QED
  BY <1>1, <1>2, <1>3, PTL DEF Spec

-----------------------------------------------------------------------------
(* The disk implements BlobStore. *)

\* The files at final paths, seen as bodies.
LEMMA HeldValues ==
  ASSUME FilesVerified
  PROVE  \A k \in Keys : Held[k] = IF final[k] = NoFile THEN "absent" ELSE "whole"
  BY DEF Held, FilesVerified, Stored

\* A step changes the file at one final path at most.
LEMMA OneFileAtATime ==
  ASSUME Inv, Integrity, [Next]_vars
  PROVE  \/ final' = final
         \/ \E k \in Keys : \A j \in Keys \ {k} : final'[j] = final[j]
<1>1. ASSUME NEW p \in Procs, NEW k \in Keys, DeleteFile(p, k)
      PROVE  \A j \in Keys \ {k} : final'[j] = final[j]
  BY <1>1 DEF DeleteFile, Inv, TypeOK
<1>2. ASSUME NEW p \in Procs, RemoveVictim(p)
      PROVE  \/ final' = final
             \/ \E k \in Keys : \A j \in Keys \ {k} : final'[j] = final[j]
  <2>1. victim[p].key \in Keys
    BY <1>2 DEF RemoveVictim, Inv, Bookkeeping
  <2>2. \/ final' = final
        \/ final' = [final EXCEPT ![victim[p].key] = NoFile]
    BY <1>2 DEF RemoveVictim
  <2> QED
    BY <2>1, <2>2 DEF Inv, TypeOK
<1>3. ASSUME NEW p \in Procs, NEW chunk \in {"good", "bad"}, CopyChunk(p, chunk)
      PROVE  final' = final
  BY <1>3 DEF CopyChunk, Integrity
<1>4. ASSUME NEW p \in Procs, RenameTmp(p)
      PROVE  \/ final' = final
             \/ \E k \in Keys : \A j \in Keys \ {k} : final'[j] = final[j]
  <2>1. job[p].key \in Keys
    BY <1>4 DEF RenameTmp, Inv, Bookkeeping
  <2>2. \/ final' = final
        \/ final' = [final EXCEPT ![job[p].key] = tmp[job[p].key]]
    BY <1>4 DEF RenameTmp, files
  <2> QED
    BY <2>1, <2>2 DEF Inv, TypeOK
<1>5. ASSUME NEW p \in Procs, NEW k \in Keys,
             Lookup(p, k) \/ \E s \in Declared : PutStart(p, k, s)
      PROVE  final' = final
  BY <1>5 DEF Lookup, PutStart, files
<1>6. ASSUME NEW p \in Procs,
             \/ FitCheck(p) \/ PopLru(p) \/ ReloadSize(p) \/ SubtractVictim(p) \/ CreateTmp(p)
             \/ EndOfBody(p) \/ Fail(p) \/ Record(p) \/ DiscardTmp(p) \/ Promote(p)
             \/ Forget(p) \/ Cancel(p)
      PROVE  final' = final
  BY <1>6 DEF FitCheck, PopLru, ReloadSize, SubtractVictim, CreateTmp, EndOfBody, Fail, Record,
              DiscardTmp, Promote, Forget, Cancel, files
<1>7. CASE Crash \/ UNCHANGED vars
  BY <1>7 DEF Crash, vars, files
<1> QED
  BY <1>1, <1>2, <1>3, <1>4, <1>5, <1>6, <1>7 DEF Next, Begin, Work

\* At first nothing is held.
LEMMA StoreInit == Init => Store!Init
  BY DEF Init, Held, Stored, Store!Init

\* Every step stores one whole blob, loses one, or shows nothing outside.
LEMMA StoreNext ==
  ASSUME Inv, Integrity, FilesVerified', [Next]_vars
  PROVE  [Store!Next]_Held
<1>1. CASE final' = final
  <2>1. Held' = Held
    BY <1>1 DEF Held, Stored, Blob
  <2> QED
    BY <2>1
<1>2. ASSUME NEW k \in Keys, \A j \in Keys \ {k} : final'[j] = final[j]
      PROVE  [Store!Next]_Held
  <2>1. \A j \in Keys : Held[j] = IF final[j] = NoFile THEN "absent" ELSE "whole"
    BY HeldValues DEF Integrity
  <2>2. \A j \in Keys : Held'[j] = IF final'[j] = NoFile THEN "absent" ELSE "whole"
    BY DEF Held, FilesVerified, Stored
  <2>3. Held' = [Held EXCEPT ![k] = Held'[k]]
    <3>1. \A j \in Keys \ {k} : Held'[j] = Held[j]
      BY <1>2, <2>1, <2>2
    <3> QED
      BY <3>1 DEF Held
  <2>4. Held'[k] = "absent" \/ Held'[k] = "whole"
    BY <2>2
  <2>5. CASE Held'[k] = "absent"
    <3>1. Held' = [j \in Keys |-> IF j \in {k} THEN "absent" ELSE Held[j]]
      BY <2>3, <2>5 DEF Held
    <3> QED
      BY <3>1 DEF Store!Next, Store!Lose
  <2>6. CASE Held'[k] = "whole"
    BY <2>3, <2>6 DEF Store!Next, Store!Keep
  <2> QED
    BY <2>4, <2>5, <2>6
<1> QED
  BY <1>1, <1>2, OneFileAtATime

\* If no two handlers upload the same key, the disk backend implements
\* BlobStore: clients see whole blobs appear and disappear, one at a time,
\* whatever handlers, faults and restarts are in the middle of.
THEOREM DiskImplementsBlobStore ==
  ASSUME OneUploaderPerKey
  PROVE  Spec => ImplementsBlobStore
<1>1. Init => Inv /\ Integrity
  BY InvInit, IntegrityInit
<1>2. Inv /\ Integrity /\ [Next]_vars => (Inv /\ Integrity)'
  BY OneUploaderPerKey, InvNext, IntegrityNext
<1>3. Inv /\ Integrity /\ (Inv /\ Integrity)' /\ [Next]_vars => [Store!Next]_Held
  <2>1. Integrity' => FilesVerified'
    BY DEF Integrity
  <2> QED
    BY <2>1, StoreNext
<1> QED
  BY <1>1, <1>2, <1>3, StoreInit, PTL DEF Spec, ImplementsBlobStore, Store!Spec
-----------------------------------------------------------------------------
(* Every file can be evicted.  A failed unlink, a handler dropped between    *)
(* the rename and the index, a delete() that races with a put() and an       *)
(* LruCache too small for the keys each leave a file that no entry stands    *)
(* for: without them, and through restarts, there is none.                   *)

IndexFollows ==
  Faults \subseteq {"crash"} /\ Deletable = {} /\ Cardinality(Keys) <= LruCap

NoneForgets == \A p \in Procs : pc[p] # "forget"

\* A handler that will index k, or is about to unlink it.
Attends(p, k) == \/ pc[p] = "record" /\ job[p].key = k
                 \/ pc[p] = "unlink" /\ victim[p].key = k

LEMMA TrackedParts ==
  Tracked <=> \A k \in Keys : final[k] # NoFile => k \in cached \/ \E p \in Procs : Attends(p, k)
  BY DEF Tracked, Stored, Attends

\* What a step of p does to the locals of the others: nothing that counts here.
LEMMA OthersKeep ==
  ASSUME Inv, NEW p \in Procs, Begin(p) \/ Work(p) \/ Cancel(p)
  PROVE  \A q \in Procs \ {p} : /\ pc'[q] = pc[q] /\ victim'[q] = victim[q]
                                /\ job'[q].key = job[q].key /\ job'[q].off = job[q].off
<1>1. ASSUME NEW k, NEW renaming \in BOOLEAN, NEW q \in Procs
      PROVE  LET r == Reopen(k, renaming)[q]
             IN  r.key = job[q].key /\ r.off = job[q].off
  <2>1. job[q] \in Job
    BY DEF Inv, TypeOK
  <2>2. \/ Reopen(k, renaming)[q] = job[q]
        \/ Reopen(k, renaming)[q] = [job[q] EXCEPT !.fd = "unlinked"]
        \/ Reopen(k, renaming)[q] = [job[q] EXCEPT !.fd = "final"]
    BY DEF Reopen
  <2> QED
    BY <2>1, <2>2 DEF Job
<1>2. ASSUME NEW k \in Keys,
             (\E s \in Declared : PutStart(p, k, s)) \/ Lookup(p, k)
      PROVE  \A q \in Procs \ {p} : job'[q] = job[q] /\ victim'[q] = victim[q]
  BY <1>2 DEF PutStart, Lookup, Inv, TypeOK
<1>3. ASSUME NEW k \in Keys, DeleteFile(p, k), NEW q \in Procs \ {p}
      PROVE  job'[q].key = job[q].key /\ job'[q].off = job[q].off /\ victim'[q] = victim[q]
  <2>1. job'[q] = Reopen(k, FALSE)[q] /\ victim' = victim
    BY <1>3 DEF DeleteFile, Reopen
  <2> QED
    BY <1>1, <2>1, ZenonT(60)
<1>4. ASSUME RemoveVictim(p) \/ RenameTmp(p), NEW q \in Procs \ {p}
      PROVE  job'[q].key = job[q].key /\ job'[q].off = job[q].off /\ victim'[q] = victim[q]
  <2>1. victim'[q] = victim[q]
    BY <1>4 DEF RemoveVictim, RenameTmp, Finish, Inv, TypeOK
  <2>2. \/ job'[q] = job[q]
        \/ \E k : \E renaming \in BOOLEAN : job'[q] = Reopen(k, renaming)[q]
    BY <1>4 DEF RemoveVictim, RenameTmp, Finish, Inv, TypeOK
  <2> QED
    BY <1>1, <2>1, <2>2
<1>5. ASSUME DiscardTmp(p), NEW q \in Procs \ {p}
      PROVE  job'[q].key = job[q].key /\ job'[q].off = job[q].off /\ victim'[q] = victim[q]
  <2>1. victim' = victim /\ job[q] \in Job
    BY <1>5 DEF DiscardTmp, Inv, TypeOK
  <2>2. job'[q] = job[q] \/ job'[q] = [job[q] EXCEPT !.fd = "unlinked"]
    BY <1>5 DEF DiscardTmp
  <2> QED
    BY <2>1, <2>2 DEF Job
<1>6. ASSUME \/ FitCheck(p) \/ PopLru(p) \/ ReloadSize(p) \/ SubtractVictim(p) \/ CreateTmp(p)
             \/ \E chunk \in {"good", "bad"} : CopyChunk(p, chunk)
             \/ EndOfBody(p)
      PROVE  \A q \in Procs \ {p} : job'[q] = job[q] /\ victim'[q] = victim[q]
  BY <1>6 DEF FitCheck, PopLru, ReloadSize, SubtractVictim, CreateTmp, CopyChunk, EndOfBody,
              Inv, TypeOK
<1>7. ASSUME Fail(p) \/ Record(p) \/ Promote(p) \/ Forget(p) \/ Cancel(p)
      PROVE  \A q \in Procs \ {p} : job'[q] = job[q] /\ victim'[q] = victim[q]
  BY <1>7 DEF Fail, Record, Promote, Forget, Cancel, Finish, Inv, TypeOK
<1>8. \A q \in Procs \ {p} : pc'[q] = pc[q]
  BY OwnStep
<1> QED
  BY <1>2, <1>3, <1>4, <1>5, <1>6, <1>7, <1>8 DEF Begin, Work

\* The files stay tracked if each that is there after a step of p is cached,
\* or attended by p, or was attended by another.
LEMMA TrackedStep ==
  ASSUME Inv, Tracked, NEW p \in Procs, Begin(p) \/ Work(p) \/ Cancel(p),
         \A k \in Keys : final'[k] # NoFile =>
           \/ k \in cached'
           \/ \E q \in {p} : Attends(q, k)'
           \/ final[k] # NoFile /\ k \notin cached /\ ~Attends(p, k)
  PROVE  Tracked'
<1>1. ASSUME NEW k \in Keys, NEW q \in Procs \ {p}, Attends(q, k)
      PROVE  Attends(q, k)'
  BY <1>1, OthersKeep DEF Attends
<1>2. ASSUME NEW k \in Keys, final'[k] # NoFile
      PROVE  k \in cached' \/ \E q \in Procs : Attends(q, k)'
  <2>1. CASE final[k] # NoFile /\ k \notin cached /\ ~Attends(p, k)
    <3>1. PICK q \in Procs : Attends(q, k)
      BY <2>1, TrackedParts
    <3> QED
      BY <1>1, <2>1, <3>1
  <2> QED
    BY <1>2, <2>1
<1> QED
  BY <1>2 DEF Tracked, Stored, Attends

\* With room for every key the LruCache drops none.
LEMMA LruPutKeepsAll ==
  ASSUME Inv, Cardinality(Keys) <= LruCap, NEW k \in Keys, NEW size, LruPut(k, size)
  PROVE  cached' = cached \union {k}
<1>1. PICK gone \in {{j} : j \in LeastRecent} \union {{}} :
        /\ (gone # {}) <=> (k \notin cached /\ Cardinality(cached) >= LruCap)
        /\ cached' = (cached \ gone) \union {k}
  BY DEF LruPut
<1>2. ASSUME k \notin cached
      PROVE  Cardinality(cached) < LruCap
  <2>1. IsFiniteSet(Keys) /\ cached \in SUBSET Keys /\ LruCap \in Nat
    BY SetsAssumption, BoundsAssumption DEF Inv, TypeOK
  <2>2. IsFiniteSet(cached) /\ Cardinality(cached) \in Nat /\ Cardinality(Keys) \in Nat
    BY <2>1, FS_Subset, FS_CardinalityType
  <2>3. Cardinality(cached \union {k}) = Cardinality(cached) + 1
    BY <1>2, <2>2, FS_AddElement
  <2>4. cached \union {k} \in SUBSET Keys
    BY <2>1
  <2>5. Cardinality(cached \union {k}) <= Cardinality(Keys)
    BY <2>1, <2>4, FS_Subset
  <2> QED
    BY <2>1, <2>2, <2>3, <2>5
<1>3. gone = {}
  <2>1. Cardinality(cached) \in Nat /\ LruCap \in Nat
    BY SetsAssumption, BoundsAssumption, FS_Subset, FS_CardinalityType DEF Inv, TypeOK
  <2> QED
    BY <1>1, <1>2, <2>1
<1> QED
  BY <1>1, <1>3

\* With room for every key new() indexes every file.
LEMMA CrashKeepsAll ==
  ASSUME Cardinality(Keys) <= LruCap, Crash
  PROVE  cached' = Stored
<1>1. PICK rank \in ScanOrders :
        cached' = {k \in Stored : rank[k] + LruCap > Cardinality(Stored)}
  BY DEF Crash
<1>2. Cardinality(Stored) \in Nat /\ Cardinality(Stored) <= LruCap /\ LruCap \in Nat
  <2>1. IsFiniteSet(Keys) /\ Stored \in SUBSET Keys /\ LruCap \in Nat
    BY SetsAssumption, BoundsAssumption DEF Stored
  <2>2. IsFiniteSet(Stored) /\ Cardinality(Stored) <= Cardinality(Keys)
    BY <2>1, FS_Subset
  <2> QED
    BY <2>1, <2>2, FS_CardinalityType
<1>3. \A k \in Stored : rank[k] \in Nat /\ rank[k] >= 1
  BY <1>1, <1>2 DEF ScanOrders
<1> QED
  BY <1>1, <1>2, <1>3

Tracking == Tracked /\ NoneForgets

LEMMA TrackingInit == Init => Tracking
  BY DEF Init, Tracking, Tracked, Stored, NoneForgets

\* Every step keeps each file within reach of eviction.
LEMMA TrackingNext ==
  ASSUME IndexFollows, Inv, Tracking, [Next]_vars
  PROVE  Tracking'
<1>1. ASSUME NEW p \in Procs, UNCHANGED <<final, cached>>, Begin(p) \/ Work(p) \/ Cancel(p),
             \A k \in Keys : ~Attends(p, k)
      PROVE  Tracked'
  BY <1>1, TrackedStep DEF Tracking
<1>2. ASSUME NEW p \in Procs, Begin(p)
      PROVE  Tracked'
  <2>1. ~\E k \in Keys : DeleteFile(p, k)
    BY DEF DeleteFile, IndexFollows
  <2>2. UNCHANGED <<final, cached>> /\ pc[p] = "idle"
    BY <1>2, <2>1 DEF Begin, PutStart, Lookup, files, index
  <2> QED
    BY <1>1, <1>2, <2>2 DEF Attends
<1>3. ASSUME NEW p \in Procs,
             \/ FitCheck(p) \/ ReloadSize(p) \/ SubtractVictim(p) \/ CreateTmp(p)
             \/ EndOfBody(p) \/ DiscardTmp(p) \/ Promote(p)
      PROVE  Tracked'
  <2>1. UNCHANGED <<final, cached>> /\ pc[p] \notin {"record", "unlink"}
    BY <1>3 DEF FitCheck, ReloadSize, SubtractVictim, CreateTmp, EndOfBody, DiscardTmp, Promote,
                LruPromote, files, index
  <2> QED
    BY <1>1, <1>3, <2>1 DEF Attends, Work
<1>4. ASSUME NEW p \in Procs, PopLru(p)
      PROVE  Tracked'
  <2>1. final' = final /\ pc[p] = "pop"
    BY <1>4 DEF PopLru, files
  <2>2. CASE cached' = cached
    BY <1>1, <1>4, <2>1, <2>2 DEF Attends, Work
  <2>3. ASSUME NEW k \in LeastRecent, LruRemove(k), Goto(p, "unlink"),
               victim' = [victim EXCEPT ![p] = [key |-> k, size |-> lruSize[k], take |-> 0]]
        PROVE  Tracked'
    <3>1. cached' = cached \ {k} /\ pc'[p] = "unlink" /\ victim'[p].key = k
      BY <2>3 DEF LruRemove, Goto, Inv, TypeOK
    <3>2. ASSUME NEW j \in Keys, final'[j] # NoFile
          PROVE  \/ j \in cached' \/ \E q \in {p} : Attends(q, j)'
                 \/ final[j] # NoFile /\ j \notin cached /\ ~Attends(p, j)
      BY <2>1, <3>1, <3>2 DEF Attends
    <3> QED
      BY <1>4, <3>2, TrackedStep DEF Tracking, Work
  <2> QED
    BY <1>4, <2>2, <2>3 DEF PopLru, index
<1>5. ASSUME NEW p \in Procs, RemoveVictim(p)
      PROVE  Tracked'
  <2>1. /\ pc[p] = "unlink" /\ cached' = cached /\ victim[p].key \in Keys
        /\ \A k \in Keys : Attends(p, k) => k = victim[p].key
    BY <1>5 DEF RemoveVictim, index, Attends, Inv, Bookkeeping
  <2>2. /\ final'[victim[p].key] = NoFile
        /\ \A k \in Keys \ {victim[p].key} : final'[k] = final[k]
    BY <1>5, <2>1 DEF RemoveVictim, IndexFollows, Inv, TypeOK
  <2> QED
    BY <1>5, <2>1, <2>2, TrackedStep DEF Tracking, Work
<1>6. ASSUME NEW p \in Procs, NEW chunk \in {"good", "bad"}, CopyChunk(p, chunk)
      PROVE  Tracked'
  <2>1. pc[p] = "copy" /\ cached' = cached /\ job[p].key \in Keys
    BY <1>6 DEF CopyChunk, index, Inv, Bookkeeping
  <2>2. \A k \in Keys : final'[k] # NoFile => final[k] # NoFile
    <3>1. CASE job[p].fd = "final"
      <4>1. final[job[p].key] # NoFile
        BY <3>1 DEF Inv, Bookkeeping
      <4>2. \A k \in Keys \ {job[p].key} : final'[k] = final[k]
        BY <1>6, <3>1 DEF CopyChunk, Inv, TypeOK
      <4> QED
        BY <4>1, <4>2
    <3>2. CASE job[p].fd # "final"
      BY <1>6, <3>2 DEF CopyChunk
    <3> QED
      BY <3>1, <3>2
  <2> QED
    BY <1>6, <2>1, <2>2, TrackedStep DEF Tracking, Attends, Work
<1>7. ASSUME NEW p \in Procs, RenameTmp(p)
      PROVE  Tracked'
  <2>1. pc[p] = "rename" /\ cached' = cached
    BY <1>7 DEF RenameTmp, index
  <2>2. CASE final' = final
    BY <1>1, <1>7, <2>1, <2>2 DEF Attends, Work
  <2>3. CASE /\ final' = [final EXCEPT ![job[p].key] = tmp[job[p].key]]
             /\ job' = Reopen(job[p].key, TRUE) /\ Goto(p, "record")
    <3>1. pc'[p] = "record" /\ job'[p].key = job[p].key
      BY <2>3, RenameFacts DEF Goto, Inv, TypeOK
    <3>2. \A k \in Keys \ {job[p].key} : final'[k] = final[k]
      BY <2>3 DEF Inv, TypeOK
    <3> QED
      BY <1>7, <2>1, <3>1, <3>2, TrackedStep DEF Tracking, Attends, Work
  <2> QED
    BY <1>7, <2>2, <2>3 DEF RenameTmp, files
<1>8. ASSUME NEW p \in Procs, Record(p)
      PROVE  Tracked'
  <2>1. job[p].key \in Keys /\ final' = final /\ pc[p] = "record"
    BY <1>8 DEF Record, files, Inv, Bookkeeping
  <2>2. cached' = cached \union {job[p].key}
    BY <1>8, <2>1, LruPutKeepsAll DEF Record, IndexFollows
  <2> QED
    BY <1>8, <2>1, <2>2, TrackedStep DEF Tracking, Attends, Work
<1>9. ASSUME NEW p \in Procs, Fail(p) \/ Cancel(p) \/ Forget(p)
      PROVE  FALSE
  BY <1>9 DEF Fail, Cancel, Forget, IndexFollows, Tracking, NoneForgets
<1>10. ASSUME Crash
       PROVE  Tracked'
  <2>1. cached' = Stored /\ final' = final
    BY <1>10, CrashKeepsAll DEF Crash, IndexFollows
  <2>2. \A k \in Stored' : k \in cached'
    BY <2>1 DEF Stored
  <2> QED
    BY <2>2 DEF Tracked
<1>11. ASSUME UNCHANGED vars
       PROVE  Tracked'
  <2>1. UNCHANGED <<final, cached, pc, job, victim>>
    BY <1>11 DEF vars, files, index
  <2> QED
    BY <2>1 DEF Tracking, Tracked, Stored
<1>12. Tracked'
  <2>1. ASSUME NEW p \in Procs, Work(p)
        PROVE  Tracked'
    BY <1>3, <1>4, <1>5, <1>6, <1>7, <1>8, <1>9, <2>1 DEF Work
  <2> QED
    BY <1>2, <1>9, <1>10, <1>11, <2>1 DEF Next
<1>13. NoneForgets'
  <2>1. ASSUME NEW p \in Procs, Begin(p) \/ Work(p) \/ Cancel(p)
        PROVE  pc'[p] # "forget"
    <3>1. ~\E k \in Keys : DeleteFile(p, k)
      BY DEF DeleteFile, IndexFollows
    <3>2. CASE Begin(p)
      BY <3>1, <3>2 DEF Begin, PutStart, Lookup, Goto, Inv, TypeOK
    <3>3. CASE \/ FitCheck(p) \/ PopLru(p) \/ RemoveVictim(p) \/ ReloadSize(p)
               \/ SubtractVictim(p) \/ CreateTmp(p)
               \/ \E chunk \in {"good", "bad"} : CopyChunk(p, chunk)
               \/ EndOfBody(p) \/ RenameTmp(p) \/ DiscardTmp(p)
      BY <3>3 DEF FitCheck, PopLru, RemoveVictim, ReloadSize, SubtractVictim, CreateTmp,
                  CopyChunk, EndOfBody, RenameTmp, DiscardTmp, Finish, Goto, Inv, TypeOK
    <3>5. CASE Record(p) \/ Promote(p)
      BY <3>5 DEF Record, Promote, Finish, Goto, Inv, TypeOK
    <3>4. CASE Cancel(p)
      BY <1>9, <3>4
    <3> QED
      BY <1>9, <2>1, <3>2, <3>3, <3>4, <3>5 DEF Work
  <2>2. ASSUME NEW p \in Procs, Begin(p) \/ Work(p) \/ Cancel(p)
        PROVE  NoneForgets'
    <3>1. pc'[p] # "forget" /\ \A q \in Procs \ {p} : pc'[q] = pc[q]
      BY <2>1, <2>2, OwnStep
    <3> QED
      BY <3>1 DEF NoneForgets, Tracking
  <2>3. CASE Crash
    BY <2>3 DEF Crash, NoneForgets
  <2>4. CASE UNCHANGED vars
    BY <2>4 DEF vars, NoneForgets, Tracking
  <2> QED
    BY <2>2, <2>3, <2>4 DEF Next
<1> QED
  BY <1>12, <1>13 DEF Tracking

\* If the index has room for every key, nothing is deleted and nothing fails or
\* is dropped half-way, every file on disk can be evicted, also after restarts.
THEOREM FilesStayTracked ==
  ASSUME IndexFollows
  PROVE  Spec => []Tracked
<1>1. Init => Inv /\ Tracking
  BY InvInit, TrackingInit
<1>2. Inv /\ Tracking /\ [Next]_vars => (Inv /\ Tracking)'
  BY IndexFollows, InvNext, TrackingNext
<1>3. Inv /\ Tracking => Tracked
  BY DEF Tracking
<1> QED
  BY <1>1, <1>2, <1>3, PTL DEF Spec
-----------------------------------------------------------------------------
(* The limit.  What is indexed, what is popped and what the uploads past     *)
(* the check may yet add stays within max_size and one blob per handler.     *)

\* Past the check of the limit, on the way to the index.
InFlight == {"create", "copy", "rename", "record"}

\* What a handler stands for: the blob it may yet add, or what it popped.
Load == [p \in Procs |-> IF pc[p] \in InFlight THEN MaxLen ELSE victim[p].size]

Allowed == MaxSize + Cardinality(Procs) * MaxLen

Budget == MaxSize > 0 => Indexed + Weight(Load, Procs, MaxLen) <= Allowed

\* The recorded sizes, and those popped or about to be recorded, are those of
\* the blobs.
Sized ==
  /\ \A k \in cached : lruSize[k] = Size[k]
  /\ \A p \in Procs : /\ pc[p] \in {"rename", "record"} => job[p].off = Size[job[p].key]
                      /\ pc[p] = "unlink" => victim[p].size = Size[victim[p].key]

\* No file is longer than the blob its hash names: because nobody else writes
\* to it, or because no body is longer than that.
SizesKept ==
  OneUploaderPerKey \/ (Faults = {} /\ \A k \in Keys : Size[k] = MaxLen)

\* A blob has the length Size says.
LEMMA BlobLength ==
  ASSUME NEW k \in Keys
  PROVE  Length(Blob(k)) = Size[k]
<1>1. Size[k] \in 1..MaxLen /\ MaxLen \in Nat
  BY BoundsAssumption
<1>2. Blob(k) \in Content
  BY <1>1 DEF Blob, Content, Chunk
<1>3. Blob(k) # NoFile
  BY <1>2, NoFileAssumption
<1>4. {n \in 1..MaxLen : \E m \in n..MaxLen : Blob(k)[m] # "none"} = 1..Size[k]
  <2>1. \A m \in 1..MaxLen : Blob(k)[m] # "none" <=> m <= Size[k]
    BY DEF Blob
  <2>2. ASSUME NEW n \in 1..MaxLen, NEW m \in n..MaxLen, Blob(k)[m] # "none"
        PROVE  n \in 1..Size[k]
    BY <1>1, <2>1, <2>2
  <2>3. ASSUME NEW n \in 1..Size[k]
        PROVE  n \in 1..MaxLen /\ Size[k] \in n..MaxLen /\ Blob(k)[Size[k]] # "none"
    BY <1>1, <2>1
  <2> QED
    BY <2>2, <2>3
<1>5. Cardinality(1..Size[k]) = Size[k]
  BY <1>1, FS_Interval
<1> QED
  BY <1>3, <1>4, <1>5 DEF Length

LEMMA LoadType ==
  ASSUME Inv
  PROVE  Load \in [Procs -> 0..MaxLen] /\ Weight(Load, Procs, MaxLen) \in Nat
<1>1. Load \in [Procs -> 0..MaxLen]
  BY BoundsAssumption DEF Load, Inv, TypeOK, Victim
<1> QED
  BY <1>1, WeightNat, SetsAssumption, BoundsAssumption

LEMMA LoadTypeNext ==
  ASSUME Inv'
  PROVE  Load' \in [Procs -> 0..MaxLen] /\ Weight(Load', Procs, MaxLen) \in Nat
<1>1. Load' \in [Procs -> 0..MaxLen]
  BY BoundsAssumption DEF Load, Inv, TypeOK, Victim
<1> QED
  BY <1>1, WeightNat, SetsAssumption, BoundsAssumption

LEMMA AllowedNat ==
  /\ Allowed \in Nat /\ MaxSize \in Nat
  /\ Cardinality(Procs) * MaxLen \in Nat /\ Allowed = MaxSize + Cardinality(Procs) * MaxLen
<1>1. Cardinality(Procs) \in Nat /\ MaxLen \in Nat /\ MaxSize \in Nat
  BY SetsAssumption, BoundsAssumption, FS_CardinalityType
<1> QED
  BY <1>1 DEF Allowed

\* All handlers together stand for no more than a blob each.
LEMMA LoadAtMost ==
  Weight(Load', Procs, MaxLen) <= Cardinality(Procs) * MaxLen
  BY SetsAssumption, BoundsAssumption, WeightAtMost

\* The load of one handler changes the total by the difference.
LEMMA LoadChange ==
  ASSUME Inv, Inv', NEW p \in Procs, \A q \in Procs \ {p} : Load'[q] = Load[q]
  PROVE  Weight(Load', Procs, MaxLen) + Load[p] = Weight(Load, Procs, MaxLen) + Load'[p]
<1>1. \A f, g \in [Procs -> 0..MaxLen] :
        (\A y \in Procs \ {p} : f[y] = g[y])
          => Weight(g, Procs, MaxLen) + f[p] = Weight(f, Procs, MaxLen) + g[p]
  <2> TAKE f, g \in [Procs -> 0..MaxLen]
  <2> HAVE \A y \in Procs \ {p} : f[y] = g[y]
  <2>1. IsFiniteSet(Procs) /\ MaxLen \in Nat
    BY SetsAssumption, BoundsAssumption
  <2> QED
    BY <2>1, WeightChange
<1> QED
  BY <1>1, LoadType, LoadTypeNext

\* A step that adds to neither keeps the budget.
LEMMA BudgetQuiet ==
  ASSUME Inv, Inv', Budget,
         \A k \in Keys : lruSize'[k] <= lruSize[k],
         \A q \in Procs : Load'[q] <= Load[q]
  PROVE  Budget'
<1>1. Indexed' <= Indexed
  BY Shrinking
<1>2. Weight(Load', Procs, MaxLen) <= Weight(Load, Procs, MaxLen)
  BY LoadType, LoadTypeNext, WeightMonotone, SetsAssumption, BoundsAssumption
<1>3. Allowed' = Allowed
  BY DEF Allowed
<1> QED
  BY <1>1, <1>2, <1>3, AllowedNat, LoadType, LoadTypeNext, Totals, TotalsNext DEF Budget

\* A step of p that lets neither the index nor the load of p grow.
LEMMA BudgetStep ==
  ASSUME Inv, Inv', Budget, NEW p \in Procs, Begin(p) \/ Work(p) \/ Cancel(p),
         \A k \in Keys : lruSize'[k] <= lruSize[k],
         Load'[p] <= Load[p]
  PROVE  Budget'
<1>1. \A q \in Procs \ {p} : Load'[q] = Load[q]
  BY OthersKeep DEF Load
<1>2. \A q \in Procs : Load[q] <= Load[q]
  BY LoadType, BoundsAssumption
<1>3. \A q \in Procs : Load'[q] <= Load[q]
  BY <1>1, <1>2
<1> QED
  BY <1>3, BudgetQuiet

LEMMA BudgetInit == Init => Budget
<1> SUFFICES ASSUME Init
             PROVE  Budget
  OBVIOUS
<1>1. Inv
  BY InvInit
<1>2. \A p \in Procs : Load[p] = 0
  BY DEF Init, Load, InFlight, NoVictim
<1>3. \A k \in Keys : lruSize[k] = 0
  BY DEF Init
<1>4. Indexed = 0 /\ Weight(Load, Procs, MaxLen) = 0
  BY <1>1, <1>2, <1>3, Totals, WeightZero
<1> QED
  BY <1>4, AllowedNat DEF Budget

\* No step but a crash breaks the budget, whatever fails, is cancelled or
\* deleted: the check is made against a counter that covers the index, and
\* with an empty index there is room for a blob of each handler.
LEMMA BudgetNext ==
  ASSUME Inv, Inv', Accounting, Budget, [Next]_vars, ~Crash
  PROVE  Budget'
<1>1. \A k \in Keys : lruSize[k] <= lruSize[k]
  BY SizesAreNumbers
<1>2. \A q \in Procs : /\ Load[q] = IF pc[q] \in InFlight THEN MaxLen ELSE victim[q].size
                       /\ Load'[q] = IF pc'[q] \in InFlight THEN MaxLen ELSE victim'[q].size
                       /\ Load[q] \in 0..MaxLen /\ Load'[q] \in 0..MaxLen
  BY LoadType, LoadTypeNext DEF Load
<1>3. MaxLen \in Nat
  BY BoundsAssumption
<1>4. ASSUME NEW p \in Procs, UNCHANGED lruSize, Begin(p) \/ Work(p) \/ Cancel(p),
             pc'[p] \in InFlight => pc[p] \in InFlight,
             victim'[p].size \in {0, victim[p].size}
      PROVE  Budget'
  <2>1. Load'[p] <= Load[p]
    <3>1. CASE pc[p] \in InFlight
      BY <1>2, <1>3, <3>1
    <3>2. CASE pc[p] \notin InFlight
      BY <1>2, <1>3, <1>4, <3>2
    <3> QED
      BY <3>1, <3>2
  <2> QED
    BY <1>1, <1>4, <2>1, BudgetStep
<1>5. ASSUME NEW p \in Procs, Begin(p)
      PROVE  Budget'
  <2>1. UNCHANGED <<lruSize, victim>> /\ pc'[p] \notin InFlight
    BY <1>5, ZenonT(60) DEF Begin, PutStart, Lookup, DeleteFile, Goto, InFlight, Inv, TypeOK, index
  <2> QED
    BY <1>4, <1>5, <2>1
<1>6. ASSUME NEW p \in Procs, FitCheck(p)
      PROVE  Budget'
  <2>1. UNCHANGED <<lruSize, victim>> /\ pc' = [pc EXCEPT ![p] = IF Fits(p) THEN "create" ELSE "pop"]
    BY <1>6 DEF FitCheck, Goto, index
  <2>2. CASE ~Fits(p)
    <3>1. pc'[p] \notin InFlight
      BY <2>1, <2>2 DEF InFlight, Inv, TypeOK
    <3> QED
      BY <1>4, <1>6, <2>1, <3>1 DEF Work
  <2>3. CASE Fits(p) /\ MaxSize > 0
    <3>1. Needed(p) \in Nat
      <4>1. job[p].size \in Int
        BY DEF Inv, TypeOK, Job
      <4> QED
        BY <4>1 DEF Needed
    <3>2. current <= MaxSize
      BY <2>3, <3>1, AllowedNat, Totals DEF Fits
    <3>3. Indexed <= current
      BY Totals DEF Accounting, AccountingCovers
    <3>4. Indexed' = Indexed
      BY <2>1 DEF Indexed
    <3>5. Allowed' = Allowed
      BY DEF Allowed
    <3> QED
      BY <3>2, <3>3, <3>4, <3>5, AllowedNat, LoadAtMost, LoadTypeNext, Totals DEF Budget
  <2>4. CASE ~(MaxSize > 0)
    BY <2>4 DEF Budget
  <2> QED
    BY <2>2, <2>3, <2>4
<1>7. ASSUME NEW p \in Procs, PopLru(p)
      PROVE  Budget'
  <2>1. CASE cached = {} /\ UNCHANGED index
    <3>1. \A k \in Keys : lruSize'[k] = 0
      BY <2>1 DEF index, Inv, Bookkeeping
    <3>2. Indexed' = 0
      BY <3>1, Totals, TotalsNext, WeightZero
    <3>3. Allowed' = Allowed
      BY DEF Allowed
    <3> QED
      BY <3>2, <3>3, AllowedNat, LoadAtMost, LoadTypeNext DEF Budget
  <2>2. ASSUME NEW k \in LeastRecent, LruRemove(k), Goto(p, "unlink"),
               victim' = [victim EXCEPT ![p] = [key |-> k, size |-> lruSize[k], take |-> 0]]
        PROVE  Budget'
    <3>1. k \in Keys /\ pc[p] = "pop"
      BY <1>7 DEF PopLru, LeastRecent, Inv, TypeOK
    <3>2. Load[p] = 0 /\ Load'[p] = lruSize[k]
      BY <1>2, <2>2, <3>1 DEF InFlight, Goto, Inv, TypeOK, Bookkeeping
    <3>3. \A q \in Procs \ {p} : Load'[q] = Load[q]
      BY <1>7, OthersKeep DEF Load, Work
    <3>4. Weight(Load', Procs, MaxLen) + Load[p] = Weight(Load, Procs, MaxLen) + Load'[p]
      BY <3>3, LoadChange
    <3>5. lruSize'[k] = 0 /\ \A j \in Keys \ {k} : lruSize'[j] = lruSize[j]
      BY <2>2, <3>1 DEF LruRemove, Inv, TypeOK
    <3>6. Indexed' + lruSize[k] <= Indexed
      BY <3>1, <3>5, SizesAreNumbers, IndexedChange, Totals, TotalsNext
    <3>7. Allowed' = Allowed /\ lruSize[k] \in Nat
      BY <3>1, SizesAreNumbers DEF Allowed
    <3> QED
      BY <3>2, <3>4, <3>6, <3>7, AllowedNat, LoadType, LoadTypeNext, Totals, TotalsNext DEF Budget
  <2> QED
    BY <1>7, <2>1, <2>2 DEF PopLru
<1>8. ASSUME NEW p \in Procs,
             RemoveVictim(p) \/ ReloadSize(p) \/ SubtractVictim(p)
      PROVE  Budget'
  <2>1. UNCHANGED lruSize /\ pc'[p] \notin InFlight
    BY <1>8 DEF RemoveVictim, ReloadSize, SubtractVictim, Goto, InFlight, Inv, TypeOK, index
  <2>2. victim'[p].size \in {0, victim[p].size}
    <3>1. victim \in [Procs -> Victim]
      BY DEF Inv, TypeOK
    <3>2. \/ victim' = victim
          \/ victim' = [victim EXCEPT ![p] = NoVictim]
          \/ \E take : victim' = [victim EXCEPT ![p].take = take]
      BY <1>8 DEF RemoveVictim, ReloadSize, SubtractVictim
    <3>3. CASE \E take : victim' = [victim EXCEPT ![p].take = take]
      BY <3>1, <3>3 DEF Victim
    <3> QED
      BY <3>1, <3>2, <3>3 DEF NoVictim
  <2> QED
    BY <1>4, <1>8, <2>1, <2>2 DEF Work
<1>9. ASSUME NEW p \in Procs,
             \/ CreateTmp(p) \/ EndOfBody(p) \/ DiscardTmp(p)
             \/ \E chunk \in {"good", "bad"} : CopyChunk(p, chunk)
      PROVE  Budget'
  <2>1. UNCHANGED <<lruSize, victim>>
    BY <1>9 DEF CreateTmp, EndOfBody, DiscardTmp, CopyChunk, index
  <2>2. pc'[p] \in InFlight => pc[p] \in InFlight
    BY <1>9 DEF CreateTmp, EndOfBody, DiscardTmp, CopyChunk, Goto, InFlight, Inv, TypeOK
  <2> QED
    BY <1>4, <1>9, <2>1, <2>2 DEF Work
<1>10. ASSUME NEW p \in Procs, Finish(p), UNCHANGED lruSize, Work(p) \/ Cancel(p)
       PROVE  Budget'
  <2>1. pc'[p] = "idle" /\ victim'[p].size = 0
    BY <1>10 DEF Finish, Goto, NoVictim, Inv, TypeOK
  <2> QED
    BY <1>4, <1>10, <2>1 DEF InFlight
<1>11. ASSUME NEW p \in Procs, RenameTmp(p)
       PROVE  Budget'
  <2>1. CASE Finish(p)
    BY <1>10, <1>11, <2>1 DEF RenameTmp, Work, index
  <2>2. CASE UNCHANGED victim
    <3>1. pc[p] \in InFlight /\ UNCHANGED lruSize
      BY <1>11 DEF RenameTmp, InFlight, index
    <3> QED
      BY <1>4, <1>11, <2>2, <3>1 DEF Work
  <2> QED
    BY <1>11, <2>1, <2>2 DEF RenameTmp
<1>12. ASSUME NEW p \in Procs, Record(p)
       PROVE  Budget'
  <2> DEFINE k == job[p].key
             n == job[p].off
  <2>1. k \in Keys /\ n \in 0..MaxLen /\ LruPut(k, n) /\ Finish(p) /\ pc[p] = "record"
    BY <1>12 DEF Record, Inv, TypeOK, Bookkeeping, Job
  <2>2. /\ lruSize'[k] = n \/ lruSize'[k] = 0
        /\ \A j \in Keys \ {k} : lruSize'[j] <= lruSize[j]
    BY <2>1, LruPutTypes
  <2>3. Indexed' + lruSize[k] <= Indexed + lruSize'[k]
    BY <2>1, <2>2, IndexedChange
  <2>4. Load[p] = MaxLen /\ Load'[p] = 0
    BY <1>2, <2>1 DEF InFlight, Finish, Goto, NoVictim, Inv, TypeOK
  <2>5. \A q \in Procs \ {p} : Load'[q] = Load[q]
    BY <1>12, OthersKeep DEF Load, Work
  <2>6. Weight(Load', Procs, MaxLen) + Load[p] = Weight(Load, Procs, MaxLen) + Load'[p]
    BY <2>5, LoadChange
  <2>7. Allowed' = Allowed /\ lruSize[k] \in Nat
    BY <2>1, SizesAreNumbers DEF Allowed
  <2>8. lruSize'[k] \in 0..MaxLen
    BY <1>3, <2>1, <2>2
  <2> QED
    BY <1>3, <2>3, <2>4, <2>6, <2>7, <2>8, AllowedNat, LoadType, LoadTypeNext, Totals, TotalsNext
    DEF Budget
<1>13. ASSUME NEW p \in Procs, Fail(p) \/ Promote(p) \/ Cancel(p)
       PROVE  Budget'
  BY <1>10, <1>13 DEF Fail, Promote, Cancel, LruPromote, Work, index
<1>14. ASSUME NEW p \in Procs, Forget(p)
       PROVE  Budget'
  <2>1. Finish(p) /\ job[p].key \in Keys
    BY <1>14 DEF Forget, Inv, Bookkeeping
  <2>2. \A k \in Keys : lruSize'[k] <= lruSize[k]
    <3>1. \/ lruSize' = lruSize
          \/ lruSize' = [lruSize EXCEPT ![job[p].key] = 0]
      BY <1>14 DEF Forget, LruRemove, index
    <3>2. \A k \in Keys : lruSize'[k] \in {0, lruSize[k]}
      BY <3>1, Totals
    <3> QED
      BY <3>2, SizesAreNumbers
  <2>3. Load'[p] = 0
    BY <1>2, <2>1 DEF InFlight, Finish, Goto, NoVictim, Inv, TypeOK
  <2>4. Load'[p] <= Load[p]
    BY <1>2, <2>3
  <2> QED
    BY <1>14, <2>2, <2>4, BudgetStep DEF Work
<1>15. ASSUME UNCHANGED vars
       PROVE  Budget'
  <2>1. UNCHANGED <<lruSize, victim, pc>>
    BY <1>15 DEF vars, index
  <2>2. Load' = Load
    BY <2>1 DEF Load
  <2>3. \A q \in Procs : Load'[q] <= Load[q]
    BY <1>2, <1>3, <2>2
  <2> QED
    BY <1>1, <2>1, <2>3, BudgetQuiet
<1>16. ASSUME NEW p \in Procs, Work(p)
       PROVE  Budget'
  BY <1>6, <1>7, <1>8, <1>9, <1>11, <1>12, <1>13, <1>14, <1>16 DEF Work
<1> QED
  BY <1>5, <1>13, <1>15, <1>16 DEF Next
\* Every step keeps the recorded sizes those of the blobs, if a crash finds
\* the files whole.
LEMMA SizedNext ==
  ASSUME Inv, Sized, Crash => FilesVerified, [Next]_vars
  PROVE  Sized'
<1> DEFINE Own(p) == /\ pc[p] \in {"rename", "record"} => job[p].off = Size[job[p].key]
                     /\ pc[p] = "unlink" => victim[p].size = Size[victim[p].key]
           Index == \A k \in cached : lruSize[k] = Size[k]
<1>1. Sized <=> Index /\ \A p \in Procs : Own(p)
  BY DEF Sized
<1>2. Sized' <=> Index' /\ \A p \in Procs : Own(p)'
  BY DEF Sized
<1>3. ASSUME NEW p \in Procs, Begin(p) \/ Work(p) \/ Cancel(p), Index', Own(p)'
      PROVE  Sized'
  <2>1. \A q \in Procs \ {p} : Own(q)'
    BY <1>1, <1>3, OthersKeep
  <2> QED
    BY <1>2, <1>3, <2>1
<1>4. ASSUME NEW p \in Procs, Begin(p) \/ Work(p) \/ Cancel(p), Index',
             pc'[p] \notin {"rename", "record", "unlink"}
      PROVE  Sized'
  BY <1>3, <1>4
<1>5. ASSUME UNCHANGED index
      PROVE  Index'
  BY <1>1, <1>5 DEF index
<1> HIDE DEF Own, Index
<1>6. ASSUME NEW p \in Procs, Begin(p)
      PROVE  Sized'
  <2>1. UNCHANGED index /\ pc'[p] \in {"check", "promote", "forget"}
    BY <1>6 DEF Begin, PutStart, Lookup, DeleteFile, Goto, Inv, TypeOK
  <2> QED
    BY <1>4, <1>5, <1>6, <2>1
<1>7. ASSUME NEW p \in Procs,
             \/ FitCheck(p) \/ RemoveVictim(p) \/ ReloadSize(p) \/ SubtractVictim(p)
             \/ CreateTmp(p) \/ \E chunk \in {"good", "bad"} : CopyChunk(p, chunk)
             \/ DiscardTmp(p)
      PROVE  Sized'
  <2>1. UNCHANGED index
    BY <1>7 DEF FitCheck, RemoveVictim, ReloadSize, SubtractVictim, CreateTmp, CopyChunk, DiscardTmp
  <2>2. pc'[p] \notin {"rename", "record", "unlink"}
    BY <1>7 DEF FitCheck, RemoveVictim, ReloadSize, SubtractVictim, CreateTmp, CopyChunk, DiscardTmp,
                Goto, Inv, TypeOK
  <2> QED
    BY <1>4, <1>5, <1>7, <2>1, <2>2 DEF Work
<1>8. ASSUME NEW p \in Procs, PopLru(p)
      PROVE  Sized'
  <2>1. CASE UNCHANGED index /\ Goto(p, "create")
    <3>1. pc'[p] = "create"
      BY <2>1 DEF Goto, Inv, TypeOK
    <3> QED
      BY <1>4, <1>5, <1>8, <2>1, <3>1 DEF Work
  <2>2. ASSUME NEW k \in LeastRecent, LruRemove(k), Goto(p, "unlink"),
               victim' = [victim EXCEPT ![p] = [key |-> k, size |-> lruSize[k], take |-> 0]]
        PROVE  Sized'
    <3>1. k \in cached /\ k \in Keys
      BY DEF LeastRecent, Inv, TypeOK
    <3>2. lruSize[k] = Size[k]
      BY <1>1, <3>1 DEF Index
    <3>3. pc'[p] = "unlink" /\ victim'[p].key = k /\ victim'[p].size = lruSize[k]
      BY <2>2 DEF Goto, Inv, TypeOK
    <3>4. Own(p)'
      BY <3>2, <3>3 DEF Own
    <3>5. Index'
      BY <1>1, <2>2 DEF Index, LruRemove, Inv, TypeOK
    <3> QED
      BY <1>3, <1>8, <3>4, <3>5 DEF Work
  <2> QED
    BY <1>8, <2>1, <2>2 DEF PopLru
<1>9. ASSUME NEW p \in Procs, EndOfBody(p)
      PROVE  Sized'
  <2>1. /\ UNCHANGED index
        /\ job' = [job EXCEPT ![p].fd = "closed"]
        /\ pc' = [pc EXCEPT ![p] = IF Verified(p) THEN "rename" ELSE "discard"]
    BY <1>9 DEF EndOfBody, Goto
  <2>2. job'[p].key = job[p].key /\ job'[p].off = job[p].off
    BY <2>1 DEF Inv, TypeOK, Job
  <2>3. pc'[p] = IF Verified(p) THEN "rename" ELSE "discard"
    BY <2>1 DEF Inv, TypeOK
  <2>4. Own(p)'
    BY <2>2, <2>3 DEF Own, Verified
  <2> QED
    BY <1>3, <1>5, <1>9, <2>1, <2>4 DEF Work
<1>10. ASSUME NEW p \in Procs, Finish(p), UNCHANGED index, Work(p) \/ Cancel(p)
       PROVE  Sized'
  <2>1. pc'[p] = "idle"
    BY <1>10 DEF Finish, Goto, Inv, TypeOK
  <2> QED
    BY <1>4, <1>5, <1>10, <2>1
<1>11. ASSUME NEW p \in Procs, RenameTmp(p)
       PROVE  Sized'
  <2>1. CASE Finish(p)
    BY <1>10, <1>11, <2>1 DEF RenameTmp, Work
  <2>2. CASE job' = Reopen(job[p].key, TRUE) /\ Goto(p, "record")
    <3>1. pc[p] = "rename" /\ UNCHANGED index /\ pc'[p] = "record"
      BY <1>11, <2>2 DEF RenameTmp, Goto, Inv, TypeOK
    <3>2. job'[p].key = job[p].key /\ job'[p].off = job[p].off
      <4>1. job[p] \in Job
        BY DEF Inv, TypeOK
      <4>2. \/ job'[p] = job[p]
            \/ job'[p] = [job[p] EXCEPT !.fd = "unlinked"]
            \/ job'[p] = [job[p] EXCEPT !.fd = "final"]
        BY <2>2 DEF Reopen
      <4> QED
        BY <4>1, <4>2 DEF Job
    <3>3. Own(p)'
      BY <1>1, <3>1, <3>2 DEF Own
    <3> QED
      BY <1>3, <1>5, <1>11, <3>1, <3>3 DEF Work
  <2> QED
    BY <1>11, <2>1, <2>2 DEF RenameTmp
<1>12. ASSUME NEW p \in Procs, Record(p)
       PROVE  Sized'
  <2>1. /\ pc[p] = "record" /\ job[p].key \in Keys /\ LruPut(job[p].key, job[p].off)
        /\ pc'[p] = "idle"
    BY <1>12 DEF Record, Finish, Goto, Inv, TypeOK, Bookkeeping
  <2>2. job[p].off = Size[job[p].key]
    BY <1>1, <2>1 DEF Own
  <2>3. Index'
    <3>1. PICK gone \in {{j} : j \in LeastRecent} \union {{}} :
            /\ cached' = (cached \ gone) \union {job[p].key}
            /\ lruSize' = [j \in Keys |-> IF j = job[p].key THEN job[p].off
                                          ELSE IF j \in gone THEN 0 ELSE lruSize[j]]
      BY <2>1 DEF LruPut
    <3>2. cached \subseteq Keys
      BY DEF Inv, TypeOK
    <3> QED
      BY <1>1, <2>1, <2>2, <3>1, <3>2 DEF Index
  <2> QED
    BY <1>4, <1>12, <2>1, <2>3 DEF Work
<1>13. ASSUME NEW p \in Procs, Fail(p) \/ Cancel(p)
       PROVE  Sized'
  BY <1>10, <1>13 DEF Fail, Cancel, Work
<1>14. ASSUME NEW p \in Procs, Promote(p) \/ Forget(p)
       PROVE  Sized'
  <2>1. Finish(p) /\ job[p].key \in Keys
    BY <1>14 DEF Promote, Forget, Inv, Bookkeeping
  <2>2. \/ UNCHANGED <<cached, lruSize>>
        \/ cached' = cached \ {job[p].key} /\ lruSize' = [lruSize EXCEPT ![job[p].key] = 0]
    BY <1>14 DEF Promote, LruPromote, Forget, LruRemove, index
  <2>3. Index'
    BY <1>1, <2>2 DEF Index, Inv, TypeOK
  <2>4. pc'[p] = "idle"
    BY <2>1 DEF Finish, Goto, Inv, TypeOK
  <2> QED
    BY <1>4, <1>14, <2>3, <2>4 DEF Work
<1>15. ASSUME Crash
       PROVE  Sized'
  <2>1. PICK kept \in SUBSET Stored :
          /\ cached' = kept
          /\ lruSize' = [k \in Keys |-> IF k \in kept THEN Length(final[k]) ELSE 0]
    BY <1>15 DEF Crash
  <2>2. \A k \in kept : k \in Keys /\ Length(final[k]) = Size[k]
    BY <1>15, BlobLength DEF FilesVerified, Stored
  <2>3. Index'
    BY <2>1, <2>2 DEF Index
  <2>4. \A p \in Procs : Own(p)'
    BY <1>15 DEF Crash, Own
  <2> QED
    BY <1>2, <2>3, <2>4
<1>16. ASSUME UNCHANGED vars
       PROVE  Sized'
  BY <1>16 DEF vars, index, Sized
<1>17. ASSUME NEW p \in Procs, Work(p)
       PROVE  Sized'
  BY <1>7, <1>8, <1>9, <1>11, <1>12, <1>13, <1>14, <1>17 DEF Work
<1> QED
  BY <1>6, <1>13, <1>15, <1>16, <1>17 DEF Next

\* The files take no more than the index and the handlers account for.
LEMMA StoredWithinBudget ==
  ASSUME Inv, Tracked, Sized, \A k \in Stored : Length(final[k]) <= Size[k]
  PROVE  StoredLength <= Indexed + Weight(Load, Procs, MaxLen)
<1> DEFINE len == [k \in Keys |-> Length(final[k])]
           at  == [p \in Procs |-> IF pc[p] = "record" THEN job[p].key ELSE victim[p].key]
<1>1. len \in [Keys -> 0..MaxLen]
  BY LengthType
<1>2. ASSUME NEW k \in Keys
      PROVE  len[k] <= lruSize[k] \/ \E p \in Procs : at[p] = k /\ len[k] <= Load[p]
  <2>1. CASE final[k] = NoFile
    <3>1. len[k] = 0 /\ lruSize[k] \in Nat
      BY <2>1, SizesAreNumbers DEF Length
    <3> QED
      BY <3>1
  <2>2. CASE final[k] # NoFile
    <3>1. len[k] <= Size[k] /\ Size[k] \in 1..MaxLen /\ len[k] \in Nat /\ MaxLen \in Nat
      BY <1>1, <2>2, BoundsAssumption DEF Stored
    <3> HIDE DEF len
    <3>2. CASE k \in cached
      BY <3>1, <3>2 DEF Sized
    <3>3. ASSUME NEW p \in Procs, Attends(p, k)
          PROVE  at[p] = k /\ len[k] <= Load[p]
      <4>1. CASE pc[p] = "record" /\ job[p].key = k
        <5>1. Load[p] = MaxLen
          BY <4>1 DEF Load, InFlight
        <5> QED
          BY <3>1, <4>1, <5>1
      <4>2. CASE pc[p] = "unlink" /\ victim[p].key = k
        <5>1. Load[p] = Size[k]
          BY <4>2 DEF Load, InFlight, Sized
        <5> QED
          BY <3>1, <4>2, <5>1
      <4> QED
        BY <3>3, <4>1, <4>2 DEF Attends
    <3>4. k \in cached \/ \E p \in Procs : Attends(p, k)
      BY <2>2, TrackedParts
    <3> QED
      BY <3>2, <3>3, <3>4
  <2> QED
    BY <2>1, <2>2
<1>3. StoredLength = Weight(len, Keys, MaxLen)
  BY DEF StoredLength
<1>4. /\ IsFiniteSet(Keys) /\ IsFiniteSet(Procs) /\ MaxLen \in Nat
      /\ lruSize \in [Keys -> 0..MaxLen] /\ Load \in [Procs -> 0..MaxLen]
      /\ Indexed = Weight(lruSize, Keys, MaxLen)
  BY Totals, LoadType
<1> HIDE DEF len, at
<1> QED
  BY <1>1, <1>2, <1>3, <1>4, WeightCovered

\* A restart indexes what is on disk, which was within the budget.
LEMMA BudgetCrash ==
  ASSUME Inv, Inv', Tracked, Sized, Budget, \A k \in Stored : Length(final[k]) <= Size[k], Crash
  PROVE  Budget'
<1> DEFINE len == [k \in Keys |-> Length(final[k])]
<1>1. len \in [Keys -> 0..MaxLen]
  BY LengthType
<1>2. PICK kept : lruSize' = [k \in Keys |-> IF k \in kept THEN Length(final[k]) ELSE 0]
  BY DEF Crash
<1>3. \A k \in Keys : lruSize'[k] <= len[k]
  BY <1>1, <1>2, BoundsAssumption
<1>4. StoredLength = Weight(len, Keys, MaxLen) /\ StoredLength \in Nat
  BY WeightNat, SetsAssumption, BoundsAssumption DEF StoredLength
<1> HIDE DEF len
<1>5. Indexed' <= StoredLength
  BY <1>1, <1>3, <1>4, Totals, TotalsNext, WeightMonotone
<1>6. \A q \in Procs : Load'[q] = 0
  BY DEF Crash, Load, InFlight, NoVictim
<1>7. Weight(Load', Procs, MaxLen) = 0
  BY <1>6, WeightZero, BoundsAssumption
<1>8. StoredLength <= Indexed + Weight(Load, Procs, MaxLen)
  BY StoredWithinBudget
<1>9. Allowed' = Allowed
  BY DEF Allowed
<1> QED
  BY <1>4, <1>5, <1>7, <1>8, <1>9, AllowedNat, LoadType, Totals, TotalsNext DEF Budget

\* All that the bound on the disk usage rests on.
UsageInv ==
  /\ Inv /\ Accounting /\ Tracking /\ Sized /\ Budget
  /\ OneUploaderPerKey => Integrity

\* No file is longer than its blob.
LEMMA FilesFit ==
  ASSUME SizesKept, UsageInv
  PROVE  \A k \in Stored : Length(final[k]) <= Size[k]
<1> SUFFICES ASSUME NEW k \in Stored
             PROVE  Length(final[k]) <= Size[k]
  OBVIOUS
<1>1. k \in Keys /\ Size[k] \in Nat
  BY BoundsAssumption DEF Stored
<1>2. CASE OneUploaderPerKey
  <2>1. Length(final[k]) = Size[k]
    BY <1>1, <1>2, BlobLength DEF UsageInv, Integrity, FilesVerified
  <2> QED
    BY <1>1, <2>1
<1>3. CASE \A j \in Keys : Size[j] = MaxLen
  BY <1>1, <1>3, LengthType, BoundsAssumption
<1> QED
  BY <1>2, <1>3 DEF SizesKept

LEMMA UsageInit == Init => UsageInv
<1> SUFFICES ASSUME Init
             PROVE  UsageInv
  OBVIOUS
<1>1. Sized
  BY DEF Init, Sized
<1> QED
  BY <1>1, InvInit, AccountingInit, TrackingInit, BudgetInit, IntegrityInit DEF UsageInv

LEMMA UsageNext ==
  ASSUME IndexFollows, SizesKept, UsageInv, [Next]_vars
  PROVE  UsageInv'
<1>1. Inv /\ Accounting /\ Tracking /\ Sized /\ Budget /\ Tracked
  BY DEF UsageInv, Tracking
<1>2. Inv'
  BY <1>1, InvNext
<1>3. Accounting' /\ Tracking'
  BY <1>1, <1>2, AccountingNext, TrackingNext
<1>4. OneUploaderPerKey => Integrity /\ Integrity'
  BY <1>1, IntegrityNext DEF UsageInv
<1>5. Crash => FilesVerified
  <2>1. Crash => OneUploaderPerKey
    BY DEF Crash, SizesKept
  <2> QED
    BY <1>4, <2>1 DEF Integrity
<1>6. Sized'
  BY <1>1, <1>5, SizedNext
<1>7. Budget'
  <2>1. CASE Crash
    BY <1>1, <1>2, <2>1, FilesFit, BudgetCrash
  <2>2. CASE ~Crash
    BY <1>1, <1>2, <2>2, BudgetNext
  <2> QED
    BY <2>1, <2>2
<1>8. OneUploaderPerKey' <=> OneUploaderPerKey
  BY DEF OneUploaderPerKey
<1> QED
  BY <1>2, <1>3, <1>4, <1>6, <1>7, <1>8 DEF UsageInv

\* Where the index follows the files, the files never exceed max_size by more
\* than one blob for each handler, for any limit, handlers, keys and blobs and
\* through restarts: uploads that pass the check together overshoot, but the
\* excess does not build up.
THEOREM DiskUsageIsBounded ==
  ASSUME IndexFollows, SizesKept
  PROVE  Spec => []DiskUsageBounded
<1>1. Init => UsageInv
  BY UsageInit
<1>2. UsageInv /\ [Next]_vars => UsageInv'
  BY IndexFollows, SizesKept, UsageNext
<1>3. UsageInv => DiskUsageBounded
  <2> SUFFICES ASSUME UsageInv, MaxSize > 0
               PROVE  StoredLength <= MaxSize + Cardinality(Procs) * MaxLen
    BY DEF DiskUsageBounded
  <2>1. Inv /\ Tracked /\ Sized /\ Budget
    BY DEF UsageInv, Tracking
  <2>2. StoredLength <= Indexed + Weight(Load, Procs, MaxLen)
    BY <2>1, SizesKept, FilesFit, StoredWithinBudget
  <2>3. Indexed + Weight(Load, Procs, MaxLen) <= Allowed
    BY <2>1 DEF Budget
  <2>4. StoredLength \in Nat
    BY WeightNat, SetsAssumption, BoundsAssumption DEF StoredLength
  <2> QED
    BY <2>1, <2>2, <2>3, <2>4, AllowedNat, LoadType, Totals
<1> QED
  BY <1>1, <1>2, <1>3, PTL DEF Spec

\* While the process runs, the index with the uploads past the check and the
\* blobs popped but not yet unlinked never exceeds max_size by more than one
\* blob for each handler, whatever fails, is cancelled or is deleted.
THEOREM IndexIsBounded ==
  ASSUME "crash" \notin Faults
  PROVE  Spec => [](MaxSize > 0 => Indexed <= Allowed)
<1>1. Init => Inv /\ Accounting /\ Budget
  BY InvInit, AccountingInit, BudgetInit
<1>2. Inv /\ Accounting /\ Budget /\ [Next]_vars => (Inv /\ Accounting /\ Budget)'
  <2> SUFFICES ASSUME Inv, Accounting, Budget, [Next]_vars
               PROVE  (Inv /\ Accounting /\ Budget)'
    OBVIOUS
  <2>1. ~Crash
    BY DEF Crash
  <2>2. Inv'
    BY InvNext
  <2> QED
    BY <2>1, <2>2, AccountingNext, BudgetNext
<1>3. Inv /\ Accounting /\ Budget => (MaxSize > 0 => Indexed <= Allowed)
  BY AllowedNat, LoadType, Totals DEF Budget
<1> QED
  BY <1>1, <1>2, <1>3, PTL DEF Spec

\* With one uploader for each key, every size in the index is that of the blob
\* its file holds, also the sizes a restart reads from the disk.
THEOREM IndexSizesAreExact ==
  ASSUME OneUploaderPerKey
  PROVE  Spec => [](\A k \in cached : lruSize[k] = Size[k])
<1>1. Init => Inv /\ Integrity /\ Sized
  BY InvInit, IntegrityInit DEF Init, Sized
<1>2. Inv /\ Integrity /\ Sized /\ [Next]_vars => (Inv /\ Integrity /\ Sized)'
  <2> SUFFICES ASSUME Inv, Integrity, Sized, [Next]_vars
               PROVE  (Inv /\ Integrity /\ Sized)'
    OBVIOUS
  <2>1. FilesVerified
    BY DEF Integrity
  <2>2. Inv'
    BY InvNext
  <2> QED
    BY <2>1, <2>2, OneUploaderPerKey, IntegrityNext, SizedNext
<1>3. Inv /\ Integrity /\ Sized => \A k \in cached : lruSize[k] = Size[k]
  BY DEF Sized
<1> QED
  BY <1>1, <1>2, <1>3, PTL DEF Spec
=============================================================================
