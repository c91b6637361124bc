--------------------------- MODULE Services_proofs ---------------------------
(***************************************************************************)
(* Proofs about CacheServices for any clients, batches, bodies, limits and *)
(* faults: types; that the table keeps within its limit; that an update is *)
(* answered with its own result and a search with what was true of some    *)
(* moment of it.                                                           *)
(***************************************************************************)
EXTENDS ServicesHistory, Weights_proofs, SequenceTheorems

USE SqliteAssumption, NoRowAssumption, ServicesAssumption

\* What TypeOK says of the table and of the tasks.
TableOK ==
  /\ rows \in [Keys -> Row \union {NoRow}] /\ now \in 0..MaxClock
  /\ conn \in Clients \union {Nobody} /\ answer \in [Clients -> Answers]

TasksOK ==
  /\ task \in [Clients -> Tasks]
  /\ \A c \in Clients : task[c].at = "evict" <=> conn = c

CallsOK == call \in [Clients -> Calls]

LEMMA TypeParts == TypeOK <=> TableOK /\ TasksOK /\ CallsOK
  BY DEF TypeOK, TableOK, TasksOK, CallsOK

LEMMA HeadTail ==
  ASSUME NEW S, NEW s \in Seq(S), s # << >>
  PROVE  Head(s) \in S /\ Tail(s) \in Seq(S)
  BY HeadTailProperties

\* The steps of the backend, as the services use it.
LEMMA AskTypes ==
  ASSUME TableOK, TasksOK, NEW c \in Clients,
         NEW s, NEW k \in Keys, NEW body, Ask(c, s, k, body),
         \/ s = "insert" /\ body \in Bodies
         \/ s \in {"select", "delete"} /\ body = NoRow
  PROVE  TableOK' /\ TasksOK'
<1> USE DEF Ask, TableOK, TasksOK, Answers, Tasks, Out
<1>1. TableOK'
  OBVIOUS
<1>2. task' \in [Clients -> Tasks]
  OBVIOUS
<1>3. ASSUME NEW d \in Clients
      PROVE  task'[d].at = "evict" <=> conn' = d
  <2>1. CASE d = c
    BY <2>1
  <2>2. CASE d # c
    BY <2>2
  <2> QED
    BY <2>1, <2>2
<1> QED
  BY <1>1, <1>2, <1>3

\* The mutex is free when the answer is due, or held by the one who answers.
LEMMA AnsweredTypes ==
  ASSUME TasksOK, answer \in [Clients -> Answers], NEW c \in Clients,
         NEW what \in Answers, Answered(c, what),
         conn' = Nobody, conn \in {c, Nobody}
  PROVE  TasksOK' /\ answer' \in [Clients -> Answers]
<1> USE DEF Answered, TasksOK, Answers, Tasks, Out
<1>1. answer' \in [Clients -> Answers]
  OBVIOUS
<1>2. task' \in [Clients -> Tasks]
  OBVIOUS
<1>3. ASSUME NEW d \in Clients
      PROVE  task'[d].at = "evict" <=> conn' = d
  <2>1. CASE d = c
    BY <2>1
  <2>2. CASE d # c
    BY <2>2
  <2> QED
    BY <2>1, <2>2
<1> QED
  BY <1>1, <1>2, <1>3

\* What a task that is at a statement has with it.
LEMMA AtStatement ==
  ASSUME TasksOK, NEW c \in Clients
  PROVE  /\ task[c].at # "out" => task[c].key \in Keys
         /\ task[c].at \in {"insert", "evict"} =>
              task[c] \in [at : {"insert", "evict"}, key : Keys, body : Bodies]
         /\ task[c].at \in {"select", "delete"} => task[c].body = NoRow
<1>1. task[c] \in Tasks
  BY DEF TasksOK
<1>2. CASE task[c] = Out
  BY <1>2 DEF Out
<1>3. CASE task[c] \in [at : {"insert", "evict"}, key : Keys, body : Bodies]
  BY <1>3
<1>4. CASE task[c] \in [at : {"select", "delete"}, key : Keys, body : {NoRow}]
  BY <1>4
<1> QED
  BY <1>1, <1>2, <1>3, <1>4 DEF Tasks

LEMMA PoolTypes ==
  ASSUME TableOK, TasksOK, NEW c \in Clients, Statement(c)
  PROVE  TableOK' /\ TasksOK'
<1> USE DEF TableOK, TasksOK, Answers, Tasks, Row
<1>0. /\ "error" \in Answers /\ "ok" \in Answers /\ "miss" \in Answers
      /\ Nobody \notin Clients
  OBVIOUS
<1>1. ASSUME SqlError(c), task[c].at # "evict" => conn = Nobody
      PROVE  TableOK' /\ TasksOK'
  <2>1. conn \in {c, Nobody}
    BY <1>1, <1>0
  <2> QED
    BY <1>0, <1>1, <2>1, AnsweredTypes DEF SqlError
<1>2. CASE Insert(c)
  <2>1. CASE SqlError(c)
    BY <1>1, <1>2, <2>1 DEF Insert
  <2>2. CASE /\ rows' = [rows EXCEPT ![task[c].key] = [body |-> task[c].body, at |-> now]]
             /\ conn' = c
             /\ task' = [task EXCEPT ![c].at = "evict"]
             /\ UNCHANGED <<now, answer>>
    <3>1. task[c] \in [at : {"insert", "evict"}, key : Keys, body : Bodies]
      BY <1>2, AtStatement DEF Insert
    <3>2. TableOK'
      BY <2>2, <3>1
    <3>3. task' \in [Clients -> Tasks]
      BY <2>2, <3>1
    <3>4. ASSUME NEW d \in Clients
          PROVE  task'[d].at = "evict" <=> conn' = d
      <4>1. task[d].at # "evict"
        BY <1>0, <1>2 DEF Insert
      <4> QED
        BY <2>2, <3>1, <4>1
    <3> QED
      BY <3>2, <3>3, <3>4
  <2> QED
    BY <1>2, <2>1, <2>2 DEF Insert
<1>3. CASE Evict(c)
  <2>1. CASE SqlError(c)
    BY <1>1, <1>3, <2>1 DEF Evict
  <2>2. CASE Total <= MaxSize /\ Answered(c, "ok") /\ conn' = Nobody /\ UNCHANGED <<rows, now>>
    <3>1. conn = c
      BY <1>3 DEF Evict
    <3> QED
      BY <1>0, <2>2, <3>1, AnsweredTypes
  <2>3. CASE /\ \E gone \in OldestRows :
                   rows' = [k \in Keys |-> IF k \in gone THEN NoRow ELSE rows[k]]
             /\ UNCHANGED <<now, conn, task, answer>>
    BY <2>3
  <2> QED
    BY <1>3, <2>1, <2>2, <2>3 DEF Evict
<1>4. CASE Select(c)
  <2>1. CASE SqlError(c)
    BY <1>1, <1>4, <2>1 DEF Select
  <2>2. CASE /\ Answered(c, IF rows[task[c].key] = NoRow THEN "miss" ELSE rows[task[c].key].body)
             /\ UNCHANGED <<rows, now, conn>>
    <3>1. rows[task[c].key] # NoRow => rows[task[c].key].body \in Answers
      BY <1>4, AtStatement DEF Select
    <3> QED
      BY <1>0, <1>4, <2>2, <3>1, AnsweredTypes DEF Select
  <2> QED
    BY <1>4, <2>1, <2>2 DEF Select
<1>5. CASE Delete(c)
  <2>1. CASE SqlError(c)
    BY <1>1, <1>5, <2>1 DEF Delete
  <2>2. CASE /\ rows' = [rows EXCEPT ![task[c].key] = NoRow]
             /\ Answered(c, "ok") /\ UNCHANGED <<now, conn>>
    BY <1>0, <1>5, <2>2, AnsweredTypes DEF Delete
  <2> QED
    BY <1>5, <2>1, <2>2 DEF Delete
<1> QED
  BY <1>2, <1>3, <1>4, <1>5 DEF Statement

\* A request that has the type of a call keeps it in every step.
LEMMA OpenTypes ==
  ASSUME TableOK, TasksOK, CallsOK, NEW c \in Clients, NEW request \in Calls,
         Open(c, request)
  PROVE  TableOK' /\ TasksOK' /\ CallsOK'
  BY DEF Open, db, TableOK, TasksOK, CallsOK

LEMMA RequestTypes ==
  ASSUME TableOK, TasksOK, CallsOK, NEW c \in Clients, Request(c)
  PROVE  TableOK' /\ TasksOK' /\ CallsOK'
<1> USE OpenTypes DEF Calls, NoCall
<1>1. CASE \E a \in Actions : GetActionResult(c, a)
  BY <1>1 DEF GetActionResult
<1>2. CASE \E a \in Actions : \E r \in Results : UpdateActionResult(c, a, r)
  BY <1>2 DEF UpdateActionResult
<1>3. CASE \E digests \in Lookups : FindMissingBlobs(c, digests)
  BY <1>3 DEF FindMissingBlobs
<1>4. CASE \E items \in Uploads : BatchUpdateBlobs(c, items)
  BY <1>4 DEF BatchUpdateBlobs
<1>5. CASE \E k \in Blobs : BatchReadBlobs(c, k)
  BY <1>5 DEF BatchReadBlobs
<1>6. CASE \E b \in Streams : StreamBlob(c, b)
  BY <1>6 DEF StreamBlob
<1> QED
  BY <1>1, <1>2, <1>3, <1>4, <1>5, <1>6 DEF Request

\* What the call of a handler has with it, by its step.
LEMMA AtStep ==
  ASSUME CallsOK, NEW c \in Clients
  PROVE  /\ call[c].step \in {"put", "back"} =>
              call[c] \in [step : {"put", "back"}, key : Actions, body : Results,
                           left : {<< >>}, missing : {{}}]
         /\ call[c].step \in {"get", "erase", "stream"} => call[c].key \in Keys
         /\ call[c].step = "stream" => call[c].body \in Bodies
         /\ call[c].step = "upload" =>
              call[c] \in [step : {"upload"}, key : {NoRow}, body : {NoRow},
                           left : Seq(Items), missing : {{}}]
         /\ call[c].step = "missing" =>
              call[c] \in [step : {"missing"}, key : {NoRow}, body : {NoRow},
                           left : Seq(Blobs \union {Empty}), missing : SUBSET (Blobs \union {Empty})]
  BY DEF CallsOK, Calls, NoCall

LEMMA HeardTypes ==
  ASSUME TableOK, TasksOK, NEW c \in Clients, Heard(c) \/ Drop(c)
  PROVE  TableOK' /\ TasksOK'
  BY DEF Heard, Drop, TableOK, TasksOK, Answers

LEMMA ActionCacheTypes ==
  ASSUME TableOK, TasksOK, CallsOK, NEW c \in Clients, ActionCache(c)
  PROVE  TableOK' /\ TasksOK' /\ CallsOK'
<1>1. CASE PutResult(c)
  BY <1>1, AtStep, AskTypes DEF PutResult, CallsOK
<1>2. CASE ResultPut(c)
  <2>1. TableOK' /\ TasksOK'
    BY <1>2, HeardTypes DEF ResultPut
  <2>2. NoCall \in Calls /\ [call[c] EXCEPT !.step = "back"] \in Calls
    BY <1>2, AtStep DEF ResultPut, Calls
  <2> QED
    BY <1>2, <2>1, <2>2 DEF ResultPut, CallsOK
<1>3. CASE ReadResult(c)
  <2>1. call[c].key \in Keys
    BY <1>3, AtStep DEF ReadResult
  <2> QED
    BY <1>3, <2>1, AskTypes DEF ReadResult, CallsOK
<1>4. CASE ReturnResult(c)
  BY <1>4, HeardTypes DEF ReturnResult, CallsOK, Calls
<1> QED
  BY <1>1, <1>2, <1>3, <1>4 DEF ActionCache

\* The items of a batch: the first, and those that are left after it.
LEMMA BatchItems ==
  ASSUME CallsOK, NEW c \in Clients
  PROVE  /\ InBatch(c, "upload") =>
              Item(c) \in Items /\ [call[c] EXCEPT !.left = Tail(call[c].left)] \in Calls
         /\ InBatch(c, "missing") =>
              /\ Item(c) \in Blobs \union {Empty}
              /\ [call[c] EXCEPT !.left = Tail(call[c].left)] \in Calls
              /\ \A lost \in SUBSET (Blobs \union {Empty}) :
                   [call[c] EXCEPT !.left = Tail(call[c].left), !.missing = lost] \in Calls
<1>1. CASE InBatch(c, "upload")
  <2>1. call[c] \in [step : {"upload"}, key : {NoRow}, body : {NoRow},
                     left : Seq(Items), missing : {{}}]
    BY <1>1, AtStep DEF InBatch
  <2>2. call[c].left \in Seq(Items) /\ call[c].left # << >>
    BY <1>1, <2>1 DEF InBatch
  <2>3. Head(call[c].left) \in Items /\ Tail(call[c].left) \in Seq(Items)
    BY <2>2, HeadTail
  <2>4. [call[c] EXCEPT !.left = Tail(call[c].left)]
          \in [step : {"upload"}, key : {NoRow}, body : {NoRow}, left : Seq(Items), missing : {{}}]
    BY <2>1, <2>3
  <2>5. ~InBatch(c, "missing")
    BY <1>1 DEF InBatch
  <2> QED
    BY <2>3, <2>4, <2>5 DEF Item, Calls
<1>2. CASE InBatch(c, "missing")
  <2>1. call[c] \in [step : {"missing"}, key : {NoRow}, body : {NoRow},
                     left : Seq(Blobs \union {Empty}), missing : SUBSET (Blobs \union {Empty})]
    BY <1>2, AtStep DEF InBatch
  <2>2. call[c].left \in Seq(Blobs \union {Empty}) /\ call[c].left # << >>
    BY <1>2, <2>1 DEF InBatch
  <2>3. /\ Head(call[c].left) \in Blobs \union {Empty}
        /\ Tail(call[c].left) \in Seq(Blobs \union {Empty})
    BY <2>2, HeadTail
  <2>4. \A lost \in SUBSET (Blobs \union {Empty}) :
          /\ [call[c] EXCEPT !.left = Tail(call[c].left), !.missing = lost] \in Calls
          /\ [call[c] EXCEPT !.left = Tail(call[c].left)] \in Calls
    BY <2>1, <2>3 DEF Calls
  <2>5. ~InBatch(c, "upload")
    BY <1>2 DEF InBatch
  <2> QED
    BY <2>3, <2>4, <2>5 DEF Item
<1> QED
  BY <1>1, <1>2

LEMMA CASTypes ==
  ASSUME TableOK, TasksOK, CallsOK, NEW c \in Clients, CAS(c)
  PROVE  TableOK' /\ TasksOK' /\ CallsOK'
<1>1. CASE SkipEmpty(c) \/ RefuseItem(c)
  <2>1. [call[c] EXCEPT !.left = Tail(call[c].left)] \in Calls
    BY <1>1, BatchItems DEF SkipEmpty, RefuseItem
  <2>2. CallsOK'
    BY <1>1, <2>1 DEF SkipEmpty, RefuseItem, NextItem, CallsOK
  <2> QED
    BY <1>1, <2>2 DEF SkipEmpty, RefuseItem, db, TableOK, TasksOK
<1>2. CASE LookUp(c)
  <2>1. Item(c) \in Keys
    BY <1>2, BatchItems DEF LookUp
  <2> QED
    BY <1>2, <2>1, AskTypes DEF LookUp, CallsOK
<1>3. CASE LookedUp(c)
  <2>1. /\ Item(c) \in Blobs \union {Empty}
        /\ call[c].missing \in SUBSET (Blobs \union {Empty})
    BY <1>3, BatchItems, AtStep DEF LookedUp, InBatch
  <2>2. [call[c] EXCEPT !.left = Tail(call[c].left), !.missing = Missing(c)] \in Calls
    <3>1. Missing(c) \in SUBSET (Blobs \union {Empty})
      BY <2>1 DEF Missing
    <3> QED
      BY <1>3, <3>1, BatchItems DEF LookedUp
  <2>3. NoCall \in Calls
    BY DEF Calls
  <2>4. CallsOK'
    BY <1>3, <2>2, <2>3 DEF LookedUp, CallsOK
  <2> QED
    BY <1>3, <2>4, HeardTypes DEF LookedUp
<1>4. CASE PutItem(c)
  <2>1. Item(c).key \in Keys /\ Item(c).body \in Bodies
    BY <1>4, BatchItems DEF PutItem, Items
  <2> QED
    BY <1>4, <2>1, AskTypes DEF PutItem, CallsOK
<1>5. CASE ItemPut(c)
  <2>1. [call[c] EXCEPT !.left = Tail(call[c].left)] \in Calls
    BY <1>5, BatchItems DEF ItemPut
  <2> QED
    BY <1>5, <2>1, HeardTypes DEF ItemPut, NextItem, CallsOK
<1>6. CASE ReturnBatch(c)
  BY <1>6 DEF ReturnBatch, db, TableOK, TasksOK, CallsOK, Calls
<1> QED
  BY <1>1, <1>2, <1>3, <1>4, <1>5, <1>6 DEF CAS

\* What a stream goes on to when it is stored.
LEMMA StreamGoesOn ==
  ASSUME CallsOK, NEW c \in Clients, StreamPut(c)
  PROVE  call'[c].step \in {"erase", "idle"}
<1>1. NoCall.step = "idle"
  BY DEF NoCall
<1>2. [NoCall EXCEPT !.step = "erase", !.key = call[c].key].step = "erase"
  BY DEF NoCall
<1> QED
  BY <1>1, <1>2 DEF StreamPut, CallsOK

LEMMA UnverifiedTypes ==
  ASSUME TableOK, TasksOK, CallsOK, NEW c \in Clients, Unverified(c)
  PROVE  TableOK' /\ TasksOK' /\ CallsOK'
<1>1. CASE PutStream(c)
  <2>1. call[c].key \in Keys /\ call[c].body \in Bodies
    BY <1>1, AtStep DEF PutStream
  <2> QED
    BY <1>1, <2>1, AskTypes DEF PutStream, CallsOK
<1>2. CASE StreamPut(c)
  <2>1. call[c].key \in Keys
    BY <1>2, AtStep DEF StreamPut
  <2>2. NoCall \in Calls /\ [NoCall EXCEPT !.step = "erase", !.key = call[c].key] \in Calls
    BY <2>1 DEF NoCall, Calls
  <2> QED
    BY <1>2, <2>2, HeardTypes DEF StreamPut, CallsOK
<1>3. CASE Erase(c)
  <2>1. call[c].key \in Keys
    BY <1>3, AtStep DEF Erase
  <2>2. CASE Ask(c, "delete", call[c].key, NoRow) /\ UNCHANGED call
    BY <2>1, <2>2, AskTypes DEF CallsOK
  <2>3. CASE Heard(c) /\ call' = [call EXCEPT ![c] = NoCall]
    BY <2>3, HeardTypes DEF CallsOK, Calls
  <2> QED
    BY <1>3, <2>2, <2>3 DEF Erase
<1> QED
  BY <1>1, <1>2, <1>3 DEF Unverified

LEMMA TypeStep ==
  ASSUME TypeOK, [Next]_vars
  PROVE  TypeOK'
<1> SUFFICES ASSUME TableOK, TasksOK, CallsOK
             PROVE  TableOK' /\ TasksOK' /\ CallsOK'
  <2>1. TypeOK' <=> TableOK' /\ TasksOK' /\ CallsOK'
    BY DEF TypeOK, TableOK, TasksOK, CallsOK
  <2> QED
    BY <2>1, TypeParts
<1>1. ASSUME NEW c \in Clients, Request(c)
      PROVE  TableOK' /\ TasksOK' /\ CallsOK'
  BY <1>1, RequestTypes
<1>2. ASSUME NEW c \in Clients, ActionCache(c)
      PROVE  TableOK' /\ TasksOK' /\ CallsOK'
  BY <1>2, ActionCacheTypes
<1>3. ASSUME NEW c \in Clients, CAS(c)
      PROVE  TableOK' /\ TasksOK' /\ CallsOK'
  BY <1>3, CASTypes
<1>4. ASSUME NEW c \in Clients, Unverified(c)
      PROVE  TableOK' /\ TasksOK' /\ CallsOK'
  BY <1>4, UnverifiedTypes
<1>5. ASSUME NEW c \in Clients, Pool(c)
      PROVE  TableOK' /\ TasksOK' /\ CallsOK'
  BY <1>5, PoolTypes DEF Pool, CallsOK
<1>6. ASSUME NEW c \in Clients, Cancel(c)
      PROVE  TableOK' /\ TasksOK' /\ CallsOK'
  BY <1>6, HeardTypes DEF Cancel, CallsOK, Calls
<1>7. CASE Tick /\ UNCHANGED call
  BY <1>7 DEF Tick, TableOK, TasksOK, CallsOK
<1>8. CASE Restart
  BY <1>8 DEF Restart, SqliteRestart, TableOK, TasksOK, CallsOK, Tasks, Calls, Out, Answers
<1>9. CASE UNCHANGED vars
  BY <1>9 DEF vars, db, TableOK, TasksOK, CallsOK
<1> QED
  BY <1>1, <1>2, <1>3, <1>4, <1>5, <1>6, <1>7, <1>8, <1>9 DEF Next

\* The table, the tasks and the calls have their types, whatever batches bring
\* and whatever fails: a batch never runs past its items, and the mutex is held
\* by the one task that evicts.
THEOREM ServicesTypeCorrect == Spec => []TypeOK
<1>1. Init => TypeOK
  BY DEF Init, SqliteInit, TypeOK, Tasks, Calls, Out, Answers
<1> QED
  BY <1>1, TypeStep, PTL DEF Spec

-----------------------------------------------------------------------------

\* Only the statements of the backend, and a restart, touch table or mutex.
LEMMA OnlyStatements ==
  ASSUME [Next]_vars
  PROVE  \/ UNCHANGED <<rows, conn>>
         \/ \E c \in Clients : Statement(c)
         \/ Restart
<1>1. ASSUME NEW c \in Clients, Request(c) \/ Cancel(c)
      PROVE  UNCHANGED <<rows, conn>>
  BY <1>1 DEF Request, Open, GetActionResult, UpdateActionResult, FindMissingBlobs,
     BatchReadBlobs, BatchUpdateBlobs, StreamBlob, Cancel, Drop, db
<1>2. ASSUME NEW c \in Clients, ActionCache(c) \/ CAS(c) \/ Unverified(c)
      PROVE  UNCHANGED <<rows, conn>>
  BY <1>2 DEF ActionCache, PutResult, ResultPut, ReadResult, ReturnResult,
     CAS, SkipEmpty, LookUp, LookedUp, RefuseItem, PutItem, ItemPut, ReturnBatch,
     Unverified, PutStream, StreamPut, Erase, Ask, Heard, db
<1>3. CASE Tick \/ UNCHANGED vars
  BY <1>3 DEF Tick, vars, db
<1> QED
  BY <1>1, <1>2, <1>3 DEF Next, Pool

-----------------------------------------------------------------------------

\* The lengths that Total adds up.
Lengths == [k \in Keys |-> IF rows[k] = NoRow THEN 0 ELSE Cost[rows[k].body]]

LEMMA LengthsType ==
  ASSUME TypeOK
  PROVE  /\ Lengths \in [Keys -> 0..MaxCost]
         /\ Total = Weight(Lengths, Keys, MaxCost) /\ Total \in Nat
<1>1. Lengths \in [Keys -> 0..MaxCost]
  BY DEF Lengths, TypeOK, Row
<1>2. Total = Weight(Lengths, Keys, MaxCost)
  BY DEF Total, Lengths
<1> QED
  BY <1>1, <1>2, WeightNat

LEMMA LimitStep ==
  ASSUME TypeOK, TypeOK', LimitKept, [HNext]_hvars
  PROVE  LimitKept'
<1> SUFFICES ASSUME conn' = Nobody, ~cut'
             PROVE  Total' <= MaxSize
  BY DEF LimitKept
<1>0. /\ Nobody \notin Clients /\ conn \in Clients \union {Nobody}
      /\ [Next]_vars
  BY DEF TypeOK, HNext, hvars
<1>1. rows' = rows => Total' = Total
  BY DEF Total
<1>2. CASE conn = Nobody
  <2>1. ~cut
    BY <1>2 DEF HNext, hvars
  <2>2. Total <= MaxSize
    BY <1>2, <2>1 DEF LimitKept
  <2>3. ASSUME NEW c \in Clients, Delete(c)
        PROVE  Total' <= Total
    <3>1. CASE rows' = rows
      BY <1>1, <3>1, LengthsType
    <3>2. CASE rows' = [rows EXCEPT ![task[c].key] = NoRow]
      <4>1. Lengths' \in [Keys -> 0..MaxCost] /\ Total' = Weight(Lengths', Keys, MaxCost)
        <5>1. Lengths' \in [Keys -> 0..MaxCost]
          BY DEF Lengths, TypeOK, Row
        <5> QED
          BY <5>1 DEF Total, Lengths
      <4>2. \A k \in Keys : Lengths'[k] <= Lengths[k]
        BY <3>2, LengthsType DEF Lengths, TypeOK, Row
      <4> QED
        BY <4>1, <4>2, LengthsType, WeightMonotone
    <3> QED
      BY <2>3, <3>1, <3>2 DEF Delete, SqlError
  <2>4. ASSUME NEW c \in Clients, Statement(c), ~Delete(c)
        PROVE  rows' = rows
    <3>1. ~Evict(c)
      BY <1>0, <1>2 DEF Evict, TypeOK
    <3>2. CASE Insert(c)
      BY <1>0, <3>2 DEF Insert, SqlError
    <3>3. CASE Select(c)
      BY <3>3 DEF Select, SqlError
    <3> QED
      BY <2>4, <3>1, <3>2, <3>3 DEF Statement
  <2>5. CASE \E c \in Clients : Statement(c)
    <3>1. Total \in Nat /\ Total' \in Nat
      BY WeightNat DEF Total
    <3>2. PICK c \in Clients : Statement(c)
      BY <2>5
    <3>3. Total' <= Total
      BY <1>1, <2>3, <2>4, <3>1, <3>2
    <3> QED
      BY <2>2, <3>1, <3>3
  <2>6. CASE UNCHANGED <<rows, conn>> \/ Restart
    BY <1>1, <2>2, <2>6 DEF Restart, SqliteRestart
  <2> QED
    BY <1>0, <2>5, <2>6, OnlyStatements
<1>3. CASE conn # Nobody
  <2>1. HNext
    BY <1>3 DEF hvars, vars, db
  <2>2. ~SqlError(conn) /\ ~Restart
    BY <1>3, <2>1 DEF HNext
  <2>3. PICK c \in Clients : Statement(c)
    BY <1>0, <1>3, <2>2, OnlyStatements
  <2>4. Evict(c)
    BY <1>3, <2>3 DEF Statement, Insert, Select, Delete
  <2>5. conn = c
    BY <2>4 DEF Evict, TypeOK
  <2>6. Total <= MaxSize /\ rows' = rows
    BY <1>3, <2>2, <2>4, <2>5 DEF Evict
  <2> QED
    BY <1>1, <2>6
<1> QED
  BY <1>2, <1>3

\* Whenever nobody has the mutex the table is within max_size_bytes, unless an
\* eviction was cut short by an error or a crash and none has ended since: for
\* every limit, every size of batch and any number of clients, and although a
\* put goes on when its handler is dropped.
THEOREM LimitAlwaysKept == HSpec => []LimitKept
<1>1. HInit => TypeOK /\ LimitKept
  <2>1. Init => TypeOK
    BY DEF Init, SqliteInit, TypeOK, Tasks, Calls, Out, Answers
  <2>2. ASSUME Init PROVE Total <= MaxSize
    <3>1. \A k \in Keys : Lengths[k] = 0
      BY <2>2 DEF Init, SqliteInit, Lengths
    <3>2. Weight(Lengths, Keys, MaxCost) = 0
      BY <3>1, WeightZero
    <3> QED
      BY <2>1, <2>2, <3>2, LengthsType
  <2> QED
    BY <2>1, <2>2 DEF HInit, LimitKept
<1>2. TypeOK /\ LimitKept /\ [HNext]_hvars => TypeOK' /\ LimitKept'
  <2>1. [HNext]_hvars => [Next]_vars
    BY DEF HNext, hvars
  <2> QED
    BY <2>1, TypeStep, LimitStep
<1> QED
  BY <1>1, <1>2, PTL DEF HSpec

-----------------------------------------------------------------------------
(* What a handler waits for, which the answers of several calls rest on. *)

\* What a handler waits for: an idle one for nothing, and the others for the
\* task that their call has started.
Wait(c) ==
  /\ call[c].step = "idle" => answer[c] = "none"
  /\ call[c].step # "idle" /\ answer[c] # "awaited" => task[c] = Out
  /\ call[c].step = "put" /\ answer[c] = "awaited" =>
       /\ task[c].at \in {"insert", "evict"}
       /\ task[c].key = call[c].key /\ task[c].body = call[c].body
  /\ call[c].step = "back" /\ answer[c] = "awaited" =>
       task[c].at = "select" /\ task[c].key = call[c].key
  /\ call[c].step = "upload" /\ answer[c] # "none" =>
       call[c].left # << >> /\ Matches(Item(c))
  /\ call[c].step = "missing" /\ answer[c] # "none" =>
       call[c].left # << >> /\ Item(c) # Empty
  /\ call[c].step = "missing" /\ answer[c] = "awaited" =>
       task[c].at = "select" /\ task[c].key = Item(c)

Waits == \A c \in Clients : Wait(c)

\* A step of one client, as opposed to the clock's and the process's.
StepOf(c) ==
  Request(c) \/ ActionCache(c) \/ CAS(c) \/ Unverified(c) \/ Pool(c) \/ Cancel(c)

\* What a request is when it starts.
LEMMA Opened ==
  ASSUME TypeOK, NEW c \in Clients, Request(c)
  PROVE  /\ call[c].step = "idle" /\ task[c] = Out /\ UNCHANGED db
         /\ call'[c].step \in {"put", "get", "missing", "upload", "stream"}
         /\ call'[c].missing = {}
         /\ \A d \in Clients \ {c} : call'[d] = call[d]
<1> DEFINE Goal(step) == /\ call[c].step = "idle" /\ task[c] = Out /\ UNCHANGED db
                         /\ call'[c].step = step /\ call'[c].missing = {}
                         /\ \A d \in Clients \ {c} : call'[d] = call[d]
<1>1. ASSUME NEW a \in Actions, GetActionResult(c, a)
      PROVE  Goal("get")
  BY <1>1 DEF GetActionResult, Open, NoCall, TypeOK
<1>2. ASSUME NEW a \in Actions, NEW r \in Results, UpdateActionResult(c, a, r)
      PROVE  Goal("put")
  BY <1>2 DEF UpdateActionResult, Open, NoCall, TypeOK
<1>3. ASSUME NEW digests \in Lookups, FindMissingBlobs(c, digests)
      PROVE  Goal("missing")
  BY <1>3 DEF FindMissingBlobs, Open, NoCall, TypeOK
<1>4. ASSUME NEW items \in Uploads, BatchUpdateBlobs(c, items)
      PROVE  Goal("upload")
  BY <1>4 DEF BatchUpdateBlobs, Open, NoCall, TypeOK
<1>5. ASSUME NEW k \in Blobs, BatchReadBlobs(c, k)
      PROVE  Goal("get")
  BY <1>5 DEF BatchReadBlobs, Open, NoCall, TypeOK
<1>6. ASSUME NEW b \in Streams, StreamBlob(c, b)
      PROVE  Goal("stream")
  BY <1>6 DEF StreamBlob, Open, NoCall, TypeOK
<1> QED
  BY <1>1, <1>2, <1>3, <1>4, <1>5, <1>6 DEF Request

\* A task that ends, and a statement that is not a task's last.
LEMMA Ended ==
  ASSUME TypeOK, NEW c \in Clients, Statement(c)
  PROVE  /\ \/ /\ task'[c] = Out
               /\ answer'[c] # "awaited" /\ (answer[c] # "awaited" => answer'[c] = answer[c])
            \/ /\ task'[c].key = task[c].key /\ task'[c].body = task[c].body
               /\ task[c].at \in {"insert", "evict"} /\ task'[c].at = "evict"
               /\ answer'[c] = answer[c]
         /\ task[c].at # "out"
         /\ \A d \in Clients \ {c} : task'[d] = task[d] /\ answer'[d] = answer[d]
<1>1. ASSUME NEW what \in Answers \ {"awaited"}, Answered(c, what)
      PROVE  /\ task'[c] = Out
             /\ answer'[c] # "awaited" /\ (answer[c] # "awaited" => answer'[c] = answer[c])
             /\ \A d \in Clients \ {c} : task'[d] = task[d] /\ answer'[d] = answer[d]
  BY <1>1 DEF Answered, TypeOK
<1>2. "ok" \in Answers \ {"awaited"} /\ "error" \in Answers \ {"awaited"}
  BY DEF Answers
<1>3. CASE SqlError(c)
  BY <1>1, <1>2, <1>3 DEF SqlError, Statement, Insert, Evict, Select, Delete
<1>4. CASE Select(c) /\ ~SqlError(c)
  <2>1. task[c].key \in Keys /\ task[c].at = "select"
    BY <1>4, AtStatement, TypeParts DEF Select
  <2>2. (IF rows[task[c].key] = NoRow THEN "miss" ELSE rows[task[c].key].body)
          \in Answers \ {"awaited"}
    BY <2>1 DEF TypeOK, Row, Answers
  <2> QED
    BY <1>1, <1>4, <2>1, <2>2 DEF Select
<1>5. CASE Insert(c) /\ ~SqlError(c)
  <2>1. /\ task[c].at = "insert" /\ task' = [task EXCEPT ![c].at = "evict"]
        /\ UNCHANGED answer
    BY <1>5 DEF Insert
  <2>2. task[c] \in [at : {"insert", "evict"}, key : Keys, body : Bodies]
    BY <2>1, AtStatement, TypeParts
  <2> QED
    BY <2>1, <2>2 DEF TypeOK
<1>6. CASE Evict(c) \/ Delete(c)
  BY <1>1, <1>2, <1>3, <1>6 DEF Evict, Delete
<1> QED
  BY <1>3, <1>4, <1>5, <1>6 DEF Statement

\* The steps of a client leave what the others are at alone.
LEMMA OthersAlone ==
  ASSUME TypeOK, NEW c \in Clients, StepOf(c), NEW d \in Clients \ {c}
  PROVE  call'[d] = call[d] /\ task'[d] = task[d] /\ answer'[d] = answer[d]
<1> USE DEF TypeOK
<1>1. CASE Request(c)
  BY <1>1, Opened DEF db
<1>2. CASE ActionCache(c)
  BY <1>2 DEF ActionCache, PutResult, ResultPut, ReadResult, ReturnResult, Ask, Heard
<1>3. CASE CAS(c)
  BY <1>3 DEF CAS, SkipEmpty, LookUp, LookedUp, RefuseItem, PutItem, ItemPut, ReturnBatch,
     NextItem, Ask, Heard, db
<1>4. CASE Unverified(c) \/ Cancel(c)
  BY <1>4 DEF Unverified, PutStream, StreamPut, Erase, Cancel, Drop, Ask, Heard
<1>5. CASE Pool(c)
  BY <1>5, Ended DEF Pool
<1> QED
  BY <1>1, <1>2, <1>3, <1>4, <1>5 DEF StepOf

LEMMA NextSteps ==
  ASSUME [Next]_vars
  PROVE  \/ \E c \in Clients : StepOf(c)
         \/ Tick /\ UNCHANGED call
         \/ Restart
         \/ UNCHANGED vars
  BY DEF Next, StepOf

\* A step of c leaves c waiting for the right thing.
LEMMA WaitStep ==
  ASSUME TypeOK, NEW c \in Clients, Wait(c), StepOf(c)
  PROVE  Wait(c)'
<1> USE DEF Wait
<1>0. NoCall.step = "idle" /\ call[c] \in Calls /\ answer[c] \in Answers /\ task[c] \in Tasks
  BY DEF NoCall, TypeOK
<1>1. CASE Request(c)
  BY <1>1, Opened DEF db, Item, Matches
<1>2. CASE ActionCache(c)
  <2>1. CASE PutResult(c) \/ ReadResult(c)
    BY <2>1 DEF PutResult, ReadResult, Ask, TypeOK
  <2>2. CASE ReturnResult(c)
    BY <1>0, <2>2 DEF ReturnResult, Heard, TypeOK
  <2>3. CASE ResultPut(c)
    <3>1. call'[c].step \in {"back", "idle"}
      BY <1>0, <2>3, AtStep, TypeParts DEF ResultPut, TypeOK
    <3> QED
      BY <2>3, <3>1 DEF ResultPut, Heard, TypeOK
  <2> QED
    BY <1>2, <2>1, <2>2, <2>3 DEF ActionCache
<1>3. CASE CAS(c)
  <2>1. CASE LookUp(c) \/ PutItem(c)
    BY <2>1 DEF LookUp, PutItem, InBatch, Ask, TypeOK, Item
  <2>2. CASE SkipEmpty(c) \/ RefuseItem(c)
    <3>1. answer[c] = "none" /\ answer' = answer /\ task' = task
      BY <2>2 DEF SkipEmpty, RefuseItem, InBatch, db
    <3>2. call'[c].step = call[c].step /\ call[c].step \in {"missing", "upload"}
      BY <1>0, <2>2, AtStep, TypeParts DEF SkipEmpty, RefuseItem, InBatch, NextItem, TypeOK
    <3> QED
      BY <3>1, <3>2
  <2>3. CASE LookedUp(c) \/ ItemPut(c)
    <3>1. answer'[c] = "none" /\ task' = task /\ task[c] = Out
      BY <2>3 DEF LookedUp, ItemPut, InBatch, Heard, TypeOK
    <3>2. call'[c].step \in {call[c].step, "idle"} /\ call[c].step \in {"missing", "upload"}
      <4>1. CASE LookedUp(c)
        <5>1. call[c].step = "missing"
          BY <4>1 DEF LookedUp, InBatch
        <5>2. [call[c] EXCEPT !.left = Tail(call[c].left), !.missing = Missing(c)].step
                = call[c].step
          BY <5>1, AtStep, TypeParts
        <5> QED
          BY <1>0, <4>1, <5>1, <5>2 DEF LookedUp, TypeOK
      <4>2. CASE ItemPut(c)
        BY <4>2, AtStep, TypeParts DEF ItemPut, InBatch, NextItem, TypeOK
      <4> QED
        BY <2>3, <4>1, <4>2
    <3> QED
      BY <3>1, <3>2
  <2>4. CASE ReturnBatch(c)
    BY <1>0, <2>4 DEF ReturnBatch, db, TypeOK
  <2> QED
    BY <1>3, <2>1, <2>2, <2>3, <2>4 DEF CAS
<1>4. CASE Unverified(c)
  <2>1. CASE PutStream(c)
    BY <2>1 DEF PutStream, Ask, TypeOK
  <2>2. CASE StreamPut(c)
    <3>1. call'[c].step \in {"erase", "idle"}
      BY <2>2, StreamGoesOn, TypeParts
    <3> QED
      BY <2>2, <3>1 DEF StreamPut, Heard, TypeOK
  <2>3. CASE Erase(c)
    BY <1>0, <2>3 DEF Erase, Ask, Heard, TypeOK
  <2> QED
    BY <1>4, <2>1, <2>2, <2>3 DEF Unverified
<1>5. CASE Pool(c)
  <2>1. call' = call
    BY <1>5 DEF Pool
  <2>2. Item(c)' = Item(c) /\ Matches(Item(c))' = Matches(Item(c))
    BY <2>1 DEF Item, Matches
  <2> QED
    BY <1>5, <2>1, <2>2, Ended DEF Pool, Out
<1>6. CASE Cancel(c)
  BY <1>0, <1>6 DEF Cancel, Drop, TypeOK
<1> QED
  BY <1>1, <1>2, <1>3, <1>4, <1>5, <1>6 DEF StepOf

LEMMA WaitsStep ==
  ASSUME TypeOK, Waits, [Next]_vars
  PROVE  Waits'
<1>1. ASSUME NEW c \in Clients, UNCHANGED <<call[c], task[c], answer[c]>>
      PROVE  Wait(c)'
  BY <1>1 DEF Waits, Wait, Item, Matches
<1>2. ASSUME NEW c \in Clients, StepOf(c), NEW d \in Clients
      PROVE  Wait(d)'
  <2>1. CASE d = c
    BY <1>2, <2>1, WaitStep DEF Waits
  <2>2. CASE d # c
    BY <1>1, <1>2, <2>2, OthersAlone
  <2> QED
    BY <2>1, <2>2
<1>3. CASE Restart
  BY <1>3 DEF Restart, SqliteRestart, NoCall, Waits, Wait
<1>4. CASE (Tick /\ UNCHANGED call) \/ UNCHANGED vars
  BY <1>1, <1>4 DEF Tick, vars, db, Waits
<1> QED
  BY <1>2, <1>3, <1>4, NextSteps DEF Waits

-----------------------------------------------------------------------------

\* The row of the action that c updates holds c's result, if it is there.
Own(c) == rows[call[c].key] # NoRow => rows[call[c].key].body = call[c].body

\* An update without a rival: nobody else puts its action, and what it stored
\* is what is there and what it is answered.
Alone(c) ==
  call[c].step \in {"put", "back"} =>
    /\ \A d \in Clients \ {c} : task[d].at \in {"insert", "evict"} => task[d].key # call[c].key
    /\ call[c].step = "put" /\ (answer[c] = "ok" \/ task[c].at = "evict") => Own(c)
    /\ call[c].step = "back" => Own(c)
    /\ call[c].step = "back" /\ answer[c] \in Results => answer[c] = call[c].body

Unrivalled == \A c \in Clients \ rivals : Alone(c)

\* A statement takes rows away, but for the one that a put brings.
LEMMA RowsStep ==
  ASSUME TypeOK, NEW c \in Clients, Statement(c), NEW k \in Keys
  PROVE  \/ rows'[k] \in {rows[k], NoRow}
         \/ task[c].at = "insert" /\ task[c].key = k /\ task'[c].at = "evict" /\ rows'[k].body = task[c].body
<1> USE DEF TypeOK, SqlError
<1>1. CASE Insert(c)
  <2>1. CASE rows' = [rows EXCEPT ![task[c].key] = [body |-> task[c].body, at |-> now]]
             /\ task' = [task EXCEPT ![c].at = "evict"]
    <3>1. task[c].at = "insert" /\ task[c] \in [at : {"insert", "evict"}, key : Keys, body : Bodies]
      BY <1>1, AtStatement, TypeParts DEF Insert
    <3>2. task'[c].at = "evict"
      BY <2>1, <3>1
    <3> QED
      BY <2>1, <3>1, <3>2
  <2> QED
    BY <1>1, <2>1 DEF Insert
<1>2. CASE Evict(c)
  BY <1>2 DEF Evict
<1>3. CASE Select(c) \/ Delete(c)
  BY <1>3 DEF Select, Delete
<1> QED
  BY <1>1, <1>2, <1>3 DEF Statement

\* What an update that goes on was before a step.
LEMMA StillAlone ==
  ASSUME TypeOK, TypeOK', NEW c \in Clients \ rivals', Unrivalled, HNext,
         call'[c].step \in {"put", "back"}
  PROVE  /\ \A d \in Clients \ {c} :
               task'[d].at \in {"insert", "evict"} => task'[d].key # call'[c].key
         /\ call[c].step \in {"put", "back"} => Alone(c)
  BY DEF HNext, Rival, Unrivalled

\* The step of another client leaves c's result alone, unless it is a rival's.
LEMMA AloneOthers ==
  ASSUME TypeOK, TypeOK', NEW c \in Clients \ rivals', Unrivalled, HNext,
         NEW d \in Clients \ {c}, StepOf(d)
  PROVE  Alone(c)'
<1>1. call'[c] = call[c] /\ task'[c] = task[c] /\ answer'[c] = answer[c]
  BY OthersAlone
<1> SUFFICES ASSUME call[c].step \in {"put", "back"}
             PROVE  Own(c) => Own(c)'
  BY <1>1, StillAlone DEF Alone
<1>2. call[c].key \in Keys
  BY AtStep, TypeParts, ServicesAssumption
<1>3. ASSUME Statement(d)
      PROVE  rows'[call[c].key] \in {rows[call[c].key], NoRow}
  BY <1>1, <1>2, <1>3, RowsStep, StillAlone DEF Alone
<1>4. CASE UNCHANGED rows
  BY <1>1, <1>4 DEF Own
<1>5. CASE Pool(d)
  BY <1>1, <1>3, <1>5 DEF Own, Pool
<1>6. ASSUME ~Pool(d)
      PROVE  UNCHANGED rows
  <2>1. CASE Request(d)
    BY <2>1, Opened DEF db
  <2>2. CASE ActionCache(d) \/ CAS(d) \/ Unverified(d) \/ Cancel(d)
    BY <2>2 DEF ActionCache, PutResult, ResultPut, ReadResult, ReturnResult,
     CAS, SkipEmpty, LookUp, LookedUp, RefuseItem, PutItem, ItemPut, ReturnBatch,
     Unverified, PutStream, StreamPut, Erase, Cancel, Drop, Ask, Heard, db
  <2> QED
    BY <1>6, <2>1, <2>2 DEF StepOf
<1> QED
  BY <1>4, <1>5, <1>6

\* The steps of c itself.
LEMMA AloneOwn ==
  ASSUME TypeOK, TypeOK', Waits, NEW c \in Clients \ rivals', Unrivalled, HNext, StepOf(c)
  PROVE  Alone(c)'
<1> SUFFICES ASSUME call'[c].step \in {"put", "back"}
             PROVE  Alone(c)'
  BY DEF Alone
<1>0. /\ Wait(c) /\ NoCall.step = "idle"
      /\ Results \intersect {"whole", "corrupt", "none", "awaited", "ok", "miss", "error"} = {}
  BY DEF Waits, NoCall
<1>1. CASE Request(c)
  BY <1>0, <1>1, Opened, StillAlone DEF Alone, Wait, db, Out
<1>2. CASE PutResult(c) \/ ReadResult(c)
  BY <1>0, <1>2, StillAlone DEF PutResult, ReadResult, Ask, Alone, Own, TypeOK
<1>3. CASE ResultPut(c)
  <2>1. answer[c] = "ok" /\ call' = [call EXCEPT ![c] = [@ EXCEPT !.step = "back"]]
    BY <1>0, <1>3 DEF ResultPut, TypeOK
  <2>2. call'[c].step = "back" /\ call'[c].key = call[c].key /\ call'[c].body = call[c].body
    BY <1>3, <2>1, AtStep, TypeParts DEF ResultPut, TypeOK
  <2>3. answer'[c] = "none" /\ UNCHANGED rows
    BY <1>3 DEF ResultPut, Heard, TypeOK
  <2> QED
    BY <1>0, <1>3, <2>1, <2>2, <2>3, StillAlone DEF ResultPut, Alone, Own
<1>4. CASE ReturnResult(c) \/ Unverified(c) \/ Cancel(c)
  <2>1. CASE StreamPut(c)
    BY <2>1, StreamGoesOn, TypeParts
  <2> QED
    BY <1>0, <1>4, <2>1 DEF ReturnResult, Unverified, PutStream, Erase, Cancel, TypeOK
<1>5. CASE CAS(c)
  <2>1. call[c].step \in {"missing", "upload"}
    BY <1>5 DEF CAS, SkipEmpty, LookUp, LookedUp, RefuseItem, PutItem, ItemPut, ReturnBatch, InBatch
  <2>2. call'[c].step \in {"missing", "upload", "idle"}
    <3>1. CASE LookedUp(c)
      <4>1. [call[c] EXCEPT !.left = Tail(call[c].left), !.missing = Missing(c)].step
              = call[c].step
        BY <2>1, AtStep, TypeParts
      <4> QED
        BY <1>0, <2>1, <3>1, <4>1 DEF LookedUp, TypeOK
    <3>2. CASE SkipEmpty(c) \/ RefuseItem(c) \/ ItemPut(c)
      BY <2>1, <3>2, AtStep, TypeParts DEF SkipEmpty, RefuseItem, ItemPut, NextItem, TypeOK
    <3>3. CASE LookUp(c) \/ PutItem(c) \/ ReturnBatch(c)
      BY <1>0, <2>1, <3>3 DEF LookUp, PutItem, ReturnBatch, TypeOK
    <3> QED
      BY <1>5, <3>1, <3>2, <3>3 DEF CAS
  <2> QED
    BY <2>2
<1>6. CASE Pool(c)
  <2>1. call' = call /\ Statement(c) /\ Alone(c) /\ call[c].key \in Keys
    BY <1>6, StillAlone, AtStep, TypeParts DEF Pool
  <2>2. answer[c] = "awaited"
    BY <1>0, <2>1, Ended DEF Wait, Out
  <2>3. CASE call[c].step = "put"
    <3>1. /\ task[c].at \in {"insert", "evict"}
          /\ task[c].key = call[c].key /\ task[c].body = call[c].body
      BY <1>0, <2>2, <2>3 DEF Wait
    <3>2. answer'[c] = "ok" \/ task'[c].at = "evict" => Own(c)'
      <4>1. CASE task[c].at = "evict"
        BY <2>1, <2>3, <3>1, <4>1, RowsStep DEF Alone, Own
      <4>2. CASE task[c].at = "insert"
        <5>1. Insert(c)
          BY <2>1, <4>2 DEF Statement, Evict, Select, Delete
        <5>2. SqlError(c) => answer'[c] = "error" /\ task'[c] = Out
          BY <2>2 DEF SqlError, Answered, TypeOK
        <5>3. ~SqlError(c) => rows'[task[c].key].body = task[c].body
          BY <2>1, <3>1, <5>1 DEF Insert, TypeOK
        <5> QED
          BY <2>1, <3>1, <5>2, <5>3 DEF Own, Out
      <4> QED
        BY <3>1, <4>1, <4>2
    <3> QED
      BY <2>1, <2>3, <3>2, StillAlone DEF Alone
  <2>4. CASE call[c].step = "back"
    <3>1. task[c].at = "select" /\ task[c].key = call[c].key
      BY <1>0, <2>2, <2>4 DEF Wait
    <3>2. Select(c)
      BY <2>1, <3>1 DEF Statement, Evict, Insert, Delete
    <3>3. answer'[c] \in Results => answer'[c] = call[c].body
      BY <1>0, <2>1, <2>2, <2>4, <3>1, <3>2 DEF Select, SqlError, Answered, TypeOK, Alone, Own
    <3> QED
      BY <2>1, <2>4, <3>2, <3>3, StillAlone DEF Alone, Own, Select, SqlError
  <2> QED
    BY <2>1, <2>3, <2>4
<1> QED
  BY <1>1, <1>2, <1>3, <1>4, <1>5, <1>6 DEF StepOf, ActionCache

LEMMA UnrivalledStep ==
  ASSUME TypeOK, TypeOK', Waits, Unrivalled, [HNext]_hvars
  PROVE  Unrivalled'
<1>1. CASE UNCHANGED hvars
  BY <1>1 DEF hvars, vars, db, Unrivalled, Alone, Own
<1>2. CASE HNext
  <2>1. [Next]_vars
    BY <1>2 DEF HNext
  <2>2. ASSUME NEW d \in Clients, StepOf(d), NEW c \in Clients \ rivals'
        PROVE  Alone(c)'
    BY <1>2, <2>2, AloneOthers, AloneOwn
  <2>3. CASE (Tick /\ UNCHANGED call) \/ UNCHANGED vars
    <3>1. UNCHANGED <<rows, call, task, answer>>
      BY <2>3 DEF Tick, vars, db
    <3>2. ASSUME NEW c \in Clients \ rivals' PROVE Alone(c)'
      BY <1>2, <3>1, <3>2, StillAlone DEF Alone, Own
    <3> QED
      BY <3>2 DEF Unrivalled
  <2>4. CASE Restart
    BY <2>4 DEF Restart, NoCall, Unrivalled, Alone
  <2> QED
    BY <2>1, <2>2, <2>3, <2>4, NextSteps DEF Unrivalled
<1> QED
  BY <1>1, <1>2

\* An update is answered with the result it brought, though it reads it back
\* in a second call of the backend, unless another put of the action was under
\* way meanwhile: for any number of clients and keys, and whatever is evicted,
\* deleted, dropped or fails between the two calls.
THEOREM OwnResultAlways == HSpec => []OwnResult
<1>1. HInit => TypeOK /\ Waits /\ Unrivalled
  BY DEF HInit, Init, SqliteInit, TypeOK, Tasks, Calls, Out, Answers, Waits, Wait, NoCall,
     Unrivalled, Alone
<1>2. TypeOK /\ Waits /\ Unrivalled /\ [HNext]_hvars => TypeOK' /\ Waits' /\ Unrivalled'
  <2>1. [HNext]_hvars => [Next]_vars
    BY DEF HNext, hvars
  <2> QED
    BY <2>1, TypeStep, WaitsStep, UnrivalledStep
<1>3. Unrivalled => OwnResult
  BY DEF Unrivalled, Alone, OwnResult
<1> QED
  BY <1>1, <1>2, <1>3, PTL DEF HSpec

-----------------------------------------------------------------------------

\* The blobs a search is about, and those it has not been answered yet.
About(c) == {s[1] : s \in seen[c]}
Left(c)  == {call[c].left[i] : i \in DOMAIN call[c].left}

\* The history of a search holds the present of what it is about, and what the
\* search has answered or is being answered is in its history.
Honest(c) ==
  /\ call[c].step # "missing" => seen[c] = {}
  /\ call[c].step = "missing" =>
       /\ About(c) \subseteq Blobs /\ Blobs \intersect Left(c) \subseteq About(c)
       /\ \A k \in About(c) : <<k, rows[k] # NoRow>> \in seen[c]
       /\ \A k \in call[c].missing : <<k, FALSE>> \in seen[c]
       /\ \A k \in About(c) \ Left(c) : k \notin call[c].missing => <<k, TRUE>> \in seen[c]
       /\ answer[c] \notin {"none", "awaited", "error"} =>
            <<Item(c), answer[c] # "miss">> \in seen[c]

Searches == seen \in [Clients -> SUBSET (Blobs \X BOOLEAN)] /\ \A c \in Clients : Honest(c)

\* What is left of a batch is its first item and what is left after it.
LEMMA LeftParts ==
  ASSUME NEW S, NEW s \in Seq(S), s # << >>
  PROVE  {s[i] : i \in DOMAIN s} = {Head(s)} \union {Tail(s)[i] : i \in DOMAIN Tail(s)}
<1>1. /\ Head(s) = s[1] /\ Len(s) \in Nat \ {0} /\ DOMAIN s = 1..Len(s)
      /\ Tail(s) \in Seq(S) /\ Len(Tail(s)) = Len(s) - 1 /\ DOMAIN Tail(s) = 1..(Len(s) - 1)
      /\ \A i \in 1..(Len(s) - 1) : Tail(s)[i] = s[i + 1]
  BY HeadTailProperties
<1>2. ASSUME NEW i \in 1..Len(s), i # 1
      PROVE  i - 1 \in 1..(Len(s) - 1) /\ Tail(s)[i - 1] = s[i]
  BY <1>1, <1>2
<1>3. \A i \in DOMAIN Tail(s) : Tail(s)[i] = s[i + 1] /\ i + 1 \in DOMAIN s
  BY <1>1
<1>4. \A i \in DOMAIN s : i = 1 \/ (i - 1 \in DOMAIN Tail(s) /\ Tail(s)[i - 1] = s[i])
  BY <1>1, <1>2
<1>5. 1 \in DOMAIN s
  BY <1>1
<1> DEFINE all == {s[i] : i \in DOMAIN s}
           rest == {Tail(s)[i] : i \in DOMAIN Tail(s)}
<1>6. ASSUME NEW x \in all PROVE x \in {Head(s)} \union rest
  <2>1. PICK i \in DOMAIN s : x = s[i]
    BY <1>6
  <2>2. i - 1 \in DOMAIN Tail(s) => Tail(s)[i - 1] \in rest
    OBVIOUS
  <2> HIDE DEF rest
  <2> QED
    BY <1>1, <1>4, <2>1, <2>2
<1>7. ASSUME NEW x \in rest PROVE x \in all
  BY <1>3, <1>7
<1>8. Head(s) \in all
  BY <1>1, <1>5
<1> HIDE DEF all, rest
<1>9. all = {Head(s)} \union rest
  BY <1>6, <1>7, <1>8
<1> QED
  BY <1>9 DEF all, rest

\* The present of the blobs in A, as a search sees it.
Seeing(A, table) == {<<k, table[k] # NoRow>> : k \in A}

LEMMA PresentPairs ==
  ASSUME NEW A, NEW table
  PROVE  /\ Seeing(A, table) \subseteq A \X BOOLEAN
         /\ {s[1] : s \in Seeing(A, table)} = A
         /\ \A k \in A : <<k, table[k] # NoRow>> \in Seeing(A, table)
<1>1. ASSUME NEW k \in A
      PROVE  <<k, table[k] # NoRow>> \in Seeing(A, table)
  BY <1>1, Zenon DEF Seeing
<1>2. ASSUME NEW s \in Seeing(A, table)
      PROVE  s \in A \X BOOLEAN /\ s[1] \in A
  <2>1. PICK k \in A : s = <<k, table[k] # NoRow>>
    BY <1>2, Zenon DEF Seeing
  <2>2. PICK b \in BOOLEAN : b = (table[k] # NoRow)
    OBVIOUS
  <2>3. s = <<k, b>>
    BY <2>1, <2>2, Zenon
  <2> QED
    BY <2>3
<1>3. ASSUME NEW k \in A
      PROVE  k \in {s[1] : s \in Seeing(A, table)}
  <2>1. <<k, table[k] # NoRow>>[1] = k
    OBVIOUS
  <2> QED
    BY <1>1, <2>1, Zenon
<1>4. ASSUME NEW k \in {s[1] : s \in Seeing(A, table)}
      PROVE  k \in A
  BY <1>2, <1>4
<1>5. {s[1] : s \in Seeing(A, table)} = A
  BY <1>3, <1>4, Zenon
<1>6. Seeing(A, table) \subseteq A \X BOOLEAN
  BY <1>2, Zenon
<1> QED
  BY <1>1, <1>5, <1>6, Zenon

\* The history of a search that goes on grows by the present of its blobs.
LEMMA SeenGrows ==
  ASSUME TypeOK, TypeOK', Searches, NEW c \in Clients, HNext,
         call[c].step = "missing", call'[c].step = "missing"
  PROVE  /\ About(c)' = About(c) /\ seen[c] \subseteq seen'[c]
         /\ \A k \in About(c) : <<k, rows'[k] # NoRow>> \in seen'[c]
         /\ seen'[c] \in SUBSET (Blobs \X BOOLEAN)
<1>1. Sought(c) = About(c) /\ About(c) \subseteq Blobs
  BY DEF Sought, About, Searches, Honest
<1>2. seen'[c] = seen[c] \union Seeing(About(c), rows')
  BY <1>1 DEF HNext, Seeing
<1>3. seen[c] \in SUBSET (Blobs \X BOOLEAN)
  BY DEF Searches
<1>4. \A s \in Seeing(About(c), rows') : s \in Blobs \X BOOLEAN /\ s[1] \in About(c)
  BY <1>1, PresentPairs
<1>5. ASSUME NEW s \in seen'[c]
      PROVE  s[1] \in About(c) /\ s \in Blobs \X BOOLEAN
  <2>1. CASE s \in seen[c]
    BY <1>3, <2>1 DEF About
  <2> QED
    BY <1>2, <1>4, <1>5, <2>1
<1>6. About(c)' \subseteq About(c)
  BY <1>5 DEF About
<1>7. About(c) \subseteq About(c)'
  BY <1>2 DEF About
<1>8. \A k \in About(c) : <<k, rows'[k] # NoRow>> \in seen'[c]
  BY <1>2, PresentPairs
<1> QED
  BY <1>2, <1>5, <1>6, <1>7, <1>8

\* The history of a search that starts is the present of what it asks for.
LEMMA SeenStarts ==
  ASSUME TypeOK, TypeOK', Searches, NEW c \in Clients, HNext,
         call[c].step # "missing", call'[c].step = "missing"
  PROVE  /\ About(c)' = Blobs \intersect Left(c)'
         /\ \A k \in About(c)' : <<k, rows'[k] # NoRow>> \in seen'[c]
         /\ seen'[c] \in SUBSET (Blobs \X BOOLEAN)
<1> DEFINE A == Blobs \intersect Left(c)'
<1>1. seen'[c] = Seeing(A, rows')
  BY DEF HNext, Sought, Searches, Honest, Left, Seeing
<1>2. A \X BOOLEAN \subseteq Blobs \X BOOLEAN
  OBVIOUS
<1> HIDE DEF A
<1>3. /\ {s[1] : s \in seen'[c]} = A /\ seen'[c] \subseteq Blobs \X BOOLEAN
      /\ \A k \in A : <<k, rows'[k] # NoRow>> \in seen'[c]
  BY <1>1, <1>2, PresentPairs
<1> QED
  BY <1>3 DEF A, About

\* A search goes on if what it has newly answered is in its history.
LEMMA SearchGoesOn ==
  ASSUME TypeOK, TypeOK', Searches, NEW c \in Clients, HNext,
         call[c].step = "missing", call'[c].step = "missing", Left(c)' \subseteq Left(c),
         \A k \in call'[c].missing : k \in call[c].missing \/ <<k, FALSE>> \in seen[c],
         \A k \in About(c) \ Left(c)' : k \notin call'[c].missing =>
           (k \notin Left(c) /\ k \notin call[c].missing) \/ <<k, TRUE>> \in seen[c],
         answer'[c] \notin {"none", "awaited", "error"} =>
           <<Item(c)', answer'[c] # "miss">> \in seen'[c]
  PROVE  Honest(c)'
<1>1. /\ About(c) \subseteq Blobs /\ Blobs \intersect Left(c) \subseteq About(c)
      /\ \A k \in call[c].missing : <<k, FALSE>> \in seen[c]
      /\ \A k \in About(c) \ Left(c) : k \notin call[c].missing => <<k, TRUE>> \in seen[c]
  BY Zenon DEF Searches, Honest
<1>2. About(c)' = About(c) /\ seen[c] \subseteq seen'[c]
  BY SeenGrows
<1>3. \A k \in About(c)' : <<k, rows'[k] # NoRow>> \in seen'[c]
  BY <1>2, SeenGrows, Zenon
<1>4. \A k \in call'[c].missing : <<k, FALSE>> \in seen'[c]
  BY <1>1, <1>2
<1>5. \A k \in About(c)' \ Left(c)' : k \notin call'[c].missing => <<k, TRUE>> \in seen'[c]
  BY <1>1, <1>2
<1>6. About(c)' \subseteq Blobs /\ Blobs \intersect Left(c)' \subseteq About(c)'
  BY <1>1, <1>2
<1> QED
  BY <1>3, <1>4, <1>5, <1>6, Zenon DEF Honest

\* A search that a step leaves where it is, and gives no answer.
LEMMA SearchStays ==
  ASSUME TypeOK, TypeOK', Searches, NEW c \in Clients, HNext,
         call'[c] = call[c], answer'[c] \in {answer[c], "none", "awaited", "error"}
  PROVE  Honest(c)'
<1>1. CASE call[c].step # "missing"
  BY <1>1 DEF HNext, Honest
<1>2. CASE call[c].step = "missing"
  <2>1. Left(c)' = Left(c) /\ Item(c)' = Item(c)
    BY DEF Left, Item
  <2>2. ASSUME answer'[c] \notin {"none", "awaited", "error"}
        PROVE  <<Item(c)', answer'[c] # "miss">> \in seen'[c]
    <3>1. answer'[c] = answer[c]
      BY <2>2
    <3>2. <<Item(c), answer[c] # "miss">> \in seen[c]
      BY <1>2, <2>2, <3>1, Zenon DEF Searches, Honest
    <3> QED
      BY <1>2, <2>1, <3>1, <3>2, SeenGrows
  <2> QED
    BY <1>2, <2>1, <2>2, SearchGoesOn
<1> QED
  BY <1>1, <1>2

\* An item of a search is one of the blobs that it is about.
LEMMA ItemAbout ==
  ASSUME TypeOK, Searches, NEW c \in Clients, InBatch(c, "missing")
  PROVE  /\ call[c].left \in Seq(Blobs \union {Empty})
         /\ Item(c) \in Left(c) /\ Left(c) = {Item(c)} \union {Tail(call[c].left)[i] :
                                                i \in DOMAIN Tail(call[c].left)}
         /\ Item(c) # Empty => Item(c) \in About(c)
<1>1. /\ call[c].left \in Seq(Blobs \union {Empty}) /\ call[c].left # << >>
      /\ Item(c) \in Blobs \union {Empty}
  <2>1. call[c].step = "missing" /\ call[c].left # << >>
    BY DEF InBatch
  <2> QED
    BY <2>1, AtStep, BatchItems, TypeParts
<1>2. Left(c) = {Item(c)} \union {Tail(call[c].left)[i] : i \in DOMAIN Tail(call[c].left)}
  <2> DEFINE s == call[c].left
  <2>1. s \in Seq(Blobs \union {Empty}) /\ s # << >>
    BY <1>1
  <2> HIDE SqliteAssumption, NoRowAssumption, ServicesAssumption DEF s
  <2>2. {s[i] : i \in DOMAIN s} = {Head(s)} \union {Tail(s)[i] : i \in DOMAIN Tail(s)}
    BY <2>1, LeftParts
  <2>3. Left(c) = {s[i] : i \in DOMAIN s}
    BY Zenon DEF s, Left
  <2>4. Item(c) = Head(s) /\ Tail(s) = Tail(call[c].left)
    BY DEF s, Item
  <2> QED
    BY <2>2, <2>3, <2>4, Zenon
<1>3. Blobs \intersect Left(c) \subseteq About(c)
  BY Zenon DEF Searches, Honest, InBatch
<1> QED
  BY <1>1, <1>2, <1>3

\* The task of a search looks the item up.
LEMMA SearchLooksUp ==
  ASSUME TypeOK, TypeOK', Waits, Searches, NEW c \in Clients, HNext, Pool(c),
         call[c].step = "missing"
  PROVE  Honest(c)'
<1>1. call' = call /\ Statement(c) /\ Wait(c)
  BY DEF Pool, Waits
<1>2. CASE answer'[c] \in {answer[c], "none", "awaited", "error"}
  BY <1>1, <1>2, SearchStays
<1>3. CASE answer'[c] \notin {answer[c], "none", "awaited", "error"}
  <2>1. answer[c] = "awaited"
    BY <1>1, <1>3, Ended
  <2>2. task[c].at = "select" /\ task[c].key = Item(c) /\ InBatch(c, "missing") /\ Item(c) # Empty
    BY <1>1, <2>1 DEF Wait, InBatch
  <2>3. Item(c) \in About(c) /\ Item(c) \in Keys
    BY <2>2, ItemAbout, BatchItems, TypeParts, ServicesAssumption
  <2>4. Select(c) /\ ~SqlError(c)
    BY <1>1, <1>3, <2>1, <2>2 DEF Statement, Insert, Evict, Delete, SqlError, Answered, TypeOK
  <2>5. (answer'[c] # "miss") <=> (rows[Item(c)] # NoRow)
    BY <2>1, <2>2, <2>3, <2>4, ServicesAssumption DEF Select, Answered, TypeOK, Row
  <2>6. <<Item(c), rows'[Item(c)] # NoRow>> \in seen'[c]
    BY <1>1, <2>3, SeenGrows, Zenon
  <2>7. rows' = rows /\ Item(c)' = Item(c) /\ Left(c)' = Left(c)
    BY <1>1, <2>4 DEF Select, Item, Left
  <2>8. (answer'[c] # "miss") = (rows'[Item(c)] # NoRow)
    BY <2>5, <2>7
  <2>9. <<Item(c)', answer'[c] # "miss">> \in seen'[c]
    BY <2>6, <2>7, <2>8, Zenon
  <2> QED
    BY <1>1, <2>7, <2>9, SearchGoesOn
<1> QED
  BY <1>2, <1>3

\* The item goes, and counts as missing if that is what was answered.
LEMMA SearchAnswered ==
  ASSUME TypeOK, TypeOK', Waits, Searches, NEW c \in Clients, HNext,
         LookedUp(c) \/ SkipEmpty(c), call'[c].step = "missing"
  PROVE  Honest(c)'
<1>0. /\ Wait(c) /\ NoCall.step = "idle" /\ Empty \notin Blobs
      /\ InBatch(c, "missing") /\ call[c].step = "missing"
      /\ About(c) \subseteq Blobs
  BY ServicesAssumption, Zenon DEF Waits, NoCall, Searches, Honest, LookedUp, SkipEmpty, InBatch
<1>1. /\ call[c].left \in Seq(Blobs \union {Empty})
      /\ call'[c].left = Tail(call[c].left) => Left(c) = {Item(c)} \union Left(c)'
  <2>1. /\ call[c].left \in Seq(Blobs \union {Empty})
        /\ Left(c) = {Item(c)} \union {Tail(call[c].left)[i] : i \in DOMAIN Tail(call[c].left)}
    BY <1>0, ItemAbout
  <2>2. ASSUME call'[c].left = Tail(call[c].left)
        PROVE  Left(c)' = {Tail(call[c].left)[i] : i \in DOMAIN Tail(call[c].left)}
    BY <2>2, Zenon DEF Left
  <2> QED
    BY <2>1, <2>2, Zenon
<1>2. CASE SkipEmpty(c)
  <2>1. call'[c].left = Tail(call[c].left) /\ call'[c].missing = call[c].missing
    BY <1>0, <1>2, AtStep, TypeParts DEF SkipEmpty, NextItem, TypeOK
  <2>2. answer'[c] = "none"
    BY <1>0, <1>2 DEF SkipEmpty, Wait, db
  <2> QED
    BY <1>0, <1>1, <1>2, <2>1, <2>2, SearchGoesOn DEF SkipEmpty
<1>3. CASE LookedUp(c)
  <2>1. /\ answer[c] # "error" /\ answer[c] \notin {"none", "awaited"} /\ answer'[c] = "none"
        /\ call' = [call EXCEPT ![c] = [@ EXCEPT !.left = Tail(call[c].left), !.missing = Missing(c)]]
    BY <1>0, <1>3 DEF LookedUp, Heard, TypeOK
  <2>2. call'[c].left = Tail(call[c].left) /\ call'[c].missing = Missing(c)
    <3> DEFINE left == Tail(call[c].left)
               lost == Missing(c)
               mid == [call[c] EXCEPT !.left = left]
    <3>1. call[c] \in [step : {"missing"}, key : {NoRow}, body : {NoRow},
                       left : Seq(Blobs \union {Empty}), missing : SUBSET (Blobs \union {Empty})]
      BY <1>0, AtStep, TypeParts
    <3>2. call'[c] = [mid EXCEPT !.missing = lost]
      BY <2>1 DEF TypeOK
    <3> HIDE DEF left, lost
    <3> QED
      BY <3>1, <3>2 DEF left, lost
  <2>3. <<Item(c), answer[c] # "miss">> \in seen[c]
    BY <1>0, <2>1, Zenon DEF Searches, Honest
  <2>4. answer[c] = "miss" => <<Item(c), FALSE>> \in seen[c]
    BY <2>3
  <2>5. answer[c] # "miss" => <<Item(c), TRUE>> \in seen[c]
    BY <2>3
  <2>6. /\ answer[c] = "miss" => Missing(c) = call[c].missing \union {Item(c)}
        /\ answer[c] # "miss" => Missing(c) = call[c].missing
    BY DEF Missing
  <2>7. \A k \in Missing(c) : k \in call[c].missing \/ <<k, FALSE>> \in seen[c]
    BY <2>4, <2>6
  <2>8. \A k \in About(c) \ Left(c)' : k \notin Missing(c) =>
          (k \notin Left(c) /\ k \notin call[c].missing) \/ <<k, TRUE>> \in seen[c]
    BY <1>1, <2>2, <2>5, <2>6
  <2> QED
    BY <1>0, <1>1, <2>1, <2>2, <2>7, <2>8, SearchGoesOn
<1> QED
  BY <1>2, <1>3

LEMMA HonestOwn ==
  ASSUME TypeOK, TypeOK', Waits, Searches, NEW c \in Clients, HNext, StepOf(c)
  PROVE  Honest(c)'
<1> SUFFICES ASSUME call'[c].step = "missing"
             PROVE  Honest(c)'
  BY DEF HNext, Honest
<1>0. Wait(c) /\ NoCall.step = "idle"
  BY DEF Waits, NoCall
<1>1. CASE Request(c)
  <2>1. call[c].step # "missing" /\ answer'[c] = "none"
    BY <1>0, <1>1, Opened DEF db, Wait
  <2>2. call'[c].missing = {}
    BY <1>1, Opened
  <2>3. About(c)' = Blobs \intersect Left(c)'
    BY <2>1, SeenStarts
  <2>4. \A k \in About(c)' : <<k, rows'[k] # NoRow>> \in seen'[c]
    BY <2>1, SeenStarts, Zenon
  <2> QED
    BY <2>1, <2>2, <2>3, <2>4, Zenon DEF Honest
<1>2. CASE ActionCache(c)
  <2>1. call[c].step \in {"put", "get", "back"}
    BY <1>2 DEF ActionCache, PutResult, ResultPut, ReadResult, ReturnResult
  <2>2. call'[c].step \in {"put", "get", "back", "idle"}
    <3>1. CASE ResultPut(c)
      BY <1>0, <3>1, AtStep, TypeParts DEF ResultPut, TypeOK
    <3>2. CASE PutResult(c) \/ ReadResult(c) \/ ReturnResult(c)
      BY <1>0, <2>1, <3>2 DEF PutResult, ReadResult, ReturnResult, TypeOK
    <3> QED
      BY <1>2, <3>1, <3>2 DEF ActionCache
  <2> QED
    BY <2>2
<1>3. CASE Unverified(c) \/ Cancel(c)
  <2>1. CASE StreamPut(c)
    BY <2>1, StreamGoesOn, TypeParts
  <2> QED
    BY <1>0, <1>3, <2>1 DEF Unverified, PutStream, Erase, Cancel, TypeOK
<1>4. CASE Pool(c)
  BY <1>4, SearchLooksUp DEF Pool
<1>5. CASE LookedUp(c) \/ SkipEmpty(c)
  BY <1>5, SearchAnswered
<1>6. CASE LookUp(c)
  BY <1>6, SearchStays DEF LookUp, Ask, TypeOK
<1>7. CASE RefuseItem(c) \/ PutItem(c) \/ ItemPut(c) \/ ReturnBatch(c)
  <2>1. CASE RefuseItem(c) \/ ItemPut(c)
    BY <2>1, AtStep, TypeParts, SMTT(30) DEF RefuseItem, ItemPut, InBatch, NextItem, TypeOK
  <2>2. CASE PutItem(c) \/ ReturnBatch(c)
    BY <1>0, <2>2 DEF PutItem, ReturnBatch, InBatch, TypeOK
  <2> QED
    BY <1>7, <2>1, <2>2
<1> QED
  BY <1>1, <1>2, <1>3, <1>4, <1>5, <1>6, <1>7 DEF StepOf, CAS

LEMMA SearchesStep ==
  ASSUME TypeOK, TypeOK', Waits, Searches, [HNext]_hvars
  PROVE  Searches'
<1>1. CASE UNCHANGED hvars
  <2>1. rows' = rows /\ call' = call /\ answer' = answer /\ seen' = seen
    BY <1>1 DEF hvars, vars, db
  <2>2. ASSUME NEW c \in Clients
        PROVE  Honest(c)'
    <3>1. /\ About(c)' = About(c) /\ Left(c)' = Left(c) /\ Item(c)' = Item(c)
          /\ Honest(c)
      BY <2>1 DEF About, Left, Item, Searches
    <3>2. CASE call[c].step # "missing"
      BY <2>1, <3>1, <3>2 DEF Honest
    <3>3. CASE call[c].step = "missing"
      <4>1. \A k \in About(c)' : <<k, rows'[k] # NoRow>> \in seen'[c]
        <5>1. \A k \in About(c) : <<k, rows[k] # NoRow>> \in seen[c]
          BY <3>1, <3>3, Zenon DEF Honest
        <5> QED
          BY <2>1, <3>1, <5>1, Zenon
      <4>2. answer'[c] \notin {"none", "awaited", "error"} =>
              <<Item(c)', answer'[c] # "miss">> \in seen'[c]
        <5>1. answer[c] \notin {"none", "awaited", "error"} =>
                <<Item(c), answer[c] # "miss">> \in seen[c]
          BY <3>1, <3>3, Zenon DEF Honest
        <5> QED
          BY <2>1, <3>1, <5>1, Zenon
      <4>3. /\ About(c)' \subseteq Blobs /\ Blobs \intersect Left(c)' \subseteq About(c)'
            /\ \A k \in call'[c].missing : <<k, FALSE>> \in seen'[c]
            /\ \A k \in About(c)' \ Left(c)' : k \notin call'[c].missing => <<k, TRUE>> \in seen'[c]
        <5>1. /\ About(c) \subseteq Blobs /\ Blobs \intersect Left(c) \subseteq About(c)
              /\ \A k \in call[c].missing : <<k, FALSE>> \in seen[c]
              /\ \A k \in About(c) \ Left(c) : k \notin call[c].missing => <<k, TRUE>> \in seen[c]
          BY <3>1, <3>3, Zenon DEF Honest
        <5> QED
          BY <2>1, <3>1, <5>1, ZenonT(60)
      <4> QED
        BY <2>1, <3>3, <4>1, <4>2, <4>3, Zenon DEF Honest
    <3> QED
      BY <3>2, <3>3
  <2> QED
    BY <2>1, <2>2 DEF Searches
<1>2. CASE HNext
  <2>1. ASSUME NEW c \in Clients
        PROVE  Honest(c)'
    <3>1. ASSUME NEW d \in Clients, StepOf(d)
          PROVE  Honest(c)'
      <4>1. CASE d = c
        BY <1>2, <3>1, <4>1, HonestOwn
      <4>2. CASE d # c
        BY <1>2, <3>1, <4>2, OthersAlone, SearchStays
      <4> QED
        BY <4>1, <4>2
    <3>2. CASE (Tick /\ UNCHANGED call) \/ UNCHANGED vars
      BY <1>2, <3>2, SearchStays DEF Tick, vars, db
    <3>3. CASE Restart
      BY <1>2, <3>3 DEF Restart, NoCall, HNext, Honest
    <3> QED
      BY <1>2, <3>1, <3>2, <3>3, NextSteps DEF HNext
  <2>2. ASSUME NEW c \in Clients
        PROVE  seen'[c] \in SUBSET (Blobs \X BOOLEAN)
    <3>1. CASE call'[c].step # "missing"
      BY <1>2, <3>1 DEF HNext
    <3>2. CASE call'[c].step = "missing"
      BY <1>2, <3>2, SeenGrows, SeenStarts
    <3> QED
      BY <3>1, <3>2
  <2>3. \E f : seen' = [c \in Clients |-> f[c]]
    <3> DEFINE f == [c \in Clients |->
                 IF call'[c].step # "missing" THEN {}
                 ELSE seen[c] \union {<<k, rows'[k] # NoRow>> : k \in Sought(c)}]
    <3>1. seen' = f
      BY <1>2, Zenon DEF HNext
    <3>2. f = [c \in Clients |-> f[c]]
      OBVIOUS
    <3> HIDE DEF f
    <3> QED
      BY <3>1, <3>2
  <2> QED
    BY <2>1, <2>2, <2>3 DEF Searches
<1> QED
  BY <1>1, <1>2

\* What a search answers of each blob was true at some moment of the call:
\* for batches of any length, a blob that is in one twice included, and
\* whatever is put, evicted or deleted between its lookups.
THEOREM MissingHonestAlways == HSpec => []MissingHonest
<1>1. HInit => TypeOK /\ Waits /\ Searches
  BY DEF HInit, Init, SqliteInit, TypeOK, Tasks, Calls, Out, Answers, Waits, Wait, NoCall,
     Searches, Honest
<1>2. TypeOK /\ Waits /\ Searches /\ [HNext]_hvars => TypeOK' /\ Waits' /\ Searches'
  <2>1. [HNext]_hvars => [Next]_vars
    BY DEF HNext, hvars
  <2> QED
    BY <2>1, TypeStep, WaitsStep, SearchesStep
<1>3. ASSUME Searches PROVE MissingHonest
  <2>1. ASSUME NEW c \in Clients, call[c].step = "missing", call[c].left = << >>,
               NEW k \in About(c)
        PROVE  <<k, k \notin call[c].missing>> \in seen[c]
    <3>1. Left(c) = {}
      BY <2>1 DEF Left
    <3>2. /\ \A j \in call[c].missing : <<j, FALSE>> \in seen[c]
          /\ \A j \in About(c) \ Left(c) : j \notin call[c].missing => <<j, TRUE>> \in seen[c]
      BY <1>3, <2>1, Zenon DEF Searches, Honest
    <3>3. CASE k \in call[c].missing
      BY <3>2, <3>3
    <3>4. CASE k \notin call[c].missing
      BY <2>1, <3>1, <3>2, <3>4
    <3> QED
      BY <3>3, <3>4
  <2> QED
    BY <2>1, Zenon DEF MissingHonest, About
<1> QED
  BY <1>1, <1>2, <1>3, PTL DEF HSpec

\* The history only observes: what is proved of CacheServices holds with it.
THEOREM ServicesHistoryObserves == HSpec => FairSpec
<1>1. HInit => Init
  BY DEF HInit
<1>2. [HNext]_hvars => [Next]_vars
  BY DEF HNext, hvars
<1> QED
  BY <1>1, <1>2, PTL DEF HSpec, FairSpec, Spec
=============================================================================
