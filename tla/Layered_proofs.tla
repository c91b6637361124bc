--------------------------- MODULE Layered_proofs ---------------------------
(***************************************************************************)
(* Proofs about LayeredBackend, for any number of handlers and keys, any   *)
(* queue capacity and any combination of faults: its type invariant, that  *)
(* a verifying L1 keeps corrupt blobs out of both tiers, that two tiers    *)
(* are used as BlobStores and are one together, and what a miss and a      *)
(* delete promise.                                                         *)
(***************************************************************************)
EXTENDS LayeredHistory, TLAPS

\* Steps at which a handler holds bytes that it read from L2.
Relaying == {"drain", "store1", "back1"}

\* Behind a verifying L1, the bytes on their way from one tier to the other
\* are as clean as the tiers they come from.
Clean ==
  Verify1 => /\ \A k \in Keys : l1[k] # "corrupt" /\ l2[k] # "corrupt"
             /\ \A h \in Handlers : /\ reply[h] # "corrupt"
                                    /\ pc[h] \in Relaying => req[h].buf # "corrupt"
             /\ task.stream # "corrupt"

\* A handler that is not idle, and a task that has a job, have a key; one that
\* relays a blob has read it.
Keyed ==
  /\ \A h \in Handlers : /\ pc[h] # "idle" => req[h].key \in Keys
                         /\ pc[h] \in Relaying => req[h].buf # "absent"
  /\ task.at # "recv" => task.key \in Keys

IInv == TypeOK /\ Keyed /\ Clean

\* The initial tiers are empty and nothing is on its way.
LEMMA InitInv == Init => IInv
  BY LayeredAssumption DEF Init, IInv, TypeOK, Keyed, Clean, Relaying, Copy, Idle, NoReq, Request

\* A request that starts brings an upload body, which only PutL1 will look at.
LEMMA StartInv ==
  ASSUME IInv, NEW h \in Handlers, NEW label \in {"put1", "get1", "has1", "del"},
         NEW r \in Request, r.key \in Keys, Start(h, label, r)
  PROVE  IInv'
  BY DEF Start, Goto, tiers, IInv, TypeOK, Keyed, Clean, Relaying

\* The four operations start with a well-formed request.
LEMMA BeginInv ==
  ASSUME IInv, NEW h \in Handlers, Begin(h)
  PROVE  IInv'
<1> PICK k \in Keys : \/ \E body \in Bodies : Put(h, k, body)
                      \/ \E known \in SizeKnown : Get(h, k, known)
                      \/ Contains(h, k)
                      \/ Delete(h, k)
  BY DEF Begin
<1>1. NoReq \in [key : {"none"}, buf : Copy, known : BOOLEAN, left : SUBSET {1, 2},
                 failed : BOOLEAN]
  BY DEF NoReq, Copy
<1>2. CASE \E body \in Bodies : Put(h, k, body)
  <2> PICK body \in Bodies : Put(h, k, body)
    BY <1>2
  <2> DEFINE r == [NoReq EXCEPT !.key = k, !.buf = body]
  <2>1. r \in Request /\ r.key \in Keys
    BY <1>1, LayeredAssumption DEF NoReq, Request, Copy
  <2>2. Start(h, "put1", r)
    BY DEF Put
  <2> QED
    BY <2>1, <2>2, StartInv
<1>3. CASE \E known \in SizeKnown : Get(h, k, known)
  <2> PICK known \in SizeKnown : Get(h, k, known)
    BY <1>3
  <2> DEFINE r == [NoReq EXCEPT !.key = k, !.known = known]
  <2>1. r \in Request /\ r.key \in Keys
    BY <1>1, LayeredAssumption DEF NoReq, Request, Copy
  <2>2. Start(h, "get1", r)
    BY DEF Get
  <2> QED
    BY <2>1, <2>2, StartInv
<1>4. CASE Contains(h, k)
  <2> DEFINE r == [NoReq EXCEPT !.key = k]
  <2>1. r \in Request /\ r.key \in Keys
    BY <1>1 DEF NoReq, Request, Copy
  <2>2. Start(h, "has1", r)
    BY <1>4 DEF Contains
  <2> QED
    BY <2>1, <2>2, StartInv
<1>5. CASE Delete(h, k)
  <2> DEFINE r == [NoReq EXCEPT !.key = k, !.left = {1, 2}]
  <2>1. r \in Request /\ r.key \in Keys
    BY <1>1 DEF NoReq, Request, Copy
  <2>2. Start(h, "del", r)
    BY <1>5 DEF Delete
  <2> QED
    BY <2>1, <2>2, StartInv
<1> QED
  BY <1>2, <1>3, <1>4, <1>5

\* A handler that returns clean bytes leaves the rest as it is.
LEMMA ReturnInv ==
  ASSUME IInv, NEW h \in Handlers,
         NEW answer \in {"none", "ok", "error", "miss", "found", "whole", "corrupt"},
         Verify1 => answer # "corrupt", Return(h, answer),
         UNCHANGED <<tiers, task>>, queue' \in Seq(Keys), Len(queue') <= Capacity
  PROVE  IInv'
  BY DEF Return, Goto, NoReq, tiers, IInv, TypeOK, Keyed, Clean, Relaying, Request, Copy

\* Steps of put(): what enters L1 has been accepted by it.
LEMMA PutInv ==
  ASSUME IInv, NEW h \in Handlers, PutL1(h) \/ Enqueue(h)
  PROVE  IInv'
<1>1. CASE PutL1(h)
  <2> DEFINE k == req[h].key
  <2>0. k \in Keys /\ req[h].buf \in Copy
    BY <1>1 DEF PutL1, IInv, Keyed, TypeOK, Request
  <2>1. CASE /\ Accepts(Verify1, req[h].buf)
             /\ l1' = [l1 EXCEPT ![req[h].key] = req[h].buf]
             /\ Goto(h, "enqueue")
             /\ UNCHANGED <<req, reply, l2, queue, task>>
    BY <1>1, <2>0, <2>1 DEF PutL1, Accepts, Goto, IInv, TypeOK, Keyed, Clean, Relaying
  <2>2. CASE Return(h, "error") /\ UNCHANGED <<l1, l2, queue, task>>
    BY <2>2, ReturnInv DEF IInv, TypeOK, tiers
  <2> QED
    BY <1>1, <2>1, <2>2 DEF PutL1
<1>2. CASE Enqueue(h)
  <2>1. queue' \in Seq(Keys) /\ Len(queue') <= Capacity
    <3>1. req[h].key \in Keys /\ queue \in Seq(Keys) /\ Len(queue) <= Capacity
      BY <1>2 DEF Enqueue, IInv, Keyed, TypeOK
    <3>2. CASE Len(queue) < Capacity
      <4>1. queue' = Append(queue, req[h].key)
        BY <1>2, <3>2 DEF Enqueue
      <4>2. Len(queue') = Len(queue) + 1 /\ queue' \in Seq(Keys)
        BY <3>1, <4>1
      <4> QED
        BY <3>1, <3>2, <4>2, LayeredAssumption
    <3>3. CASE ~(Len(queue) < Capacity)
      BY <1>2, <3>1, <3>3 DEF Enqueue
    <3> QED
      BY <3>2, <3>3
  <2>2. Return(h, "ok") /\ UNCHANGED <<tiers, task>>
    BY <1>2 DEF Enqueue
  <2> QED
    BY <2>1, <2>2, ReturnInv
<1> QED
  BY <1>1, <1>2

\* Steps of get(): a client, and L1, only see what a tier holds or has held.
LEMMA GetInv ==
  ASSUME IInv, NEW h \in Handlers,
         GetL1(h) \/ GetL2(h) \/ Drain(h) \/ RegetL2(h) \/ StoreL1(h) \/ BackL1(h)
  PROVE  IInv'
<1> DEFINE k == req[h].key
<1>0. /\ pc[h] # "idle" /\ k \in Keys
      /\ l1[k] \in Copy /\ l2[k] \in Copy /\ req[h].buf \in Copy
      /\ Verify1 => l1[k] # "corrupt" /\ l2[k] # "corrupt"
  BY DEF GetL1, GetL2, Drain, RegetL2, StoreL1, BackL1, IInv, TypeOK, Keyed, Clean, Request
<1>1. ASSUME NEW answer \in {"error", "miss", "whole", "corrupt"},
             Verify1 => answer # "corrupt", Return(h, answer),
             UNCHANGED <<tiers, queue, task>>
      PROVE  IInv'
  BY <1>1, ReturnInv DEF IInv, TypeOK
<1>2. CASE GetL1(h)
  <2>1. CASE l1[k] # "absent" /\ Return(h, l1[k])
    BY <1>0, <1>1, <1>2, <2>1 DEF GetL1, Copy
  <2>2. CASE Goto(h, "get2") /\ UNCHANGED <<req, reply>>
    BY <1>0, <1>2, <2>2 DEF GetL1, Goto, tiers, IInv, TypeOK, Keyed, Clean, Relaying
  <2> QED
    BY <1>2, <2>1, <2>2 DEF GetL1
<1>3. CASE GetL2(h)
  <2>1. CASE Return(h, "error") \/ Return(h, "miss")
    BY <1>1, <1>3, <2>1 DEF GetL2
  <2>2. CASE l2[k] # "absent" /\ Return(h, l2[k])
    BY <1>0, <1>1, <1>3, <2>2 DEF GetL2, Copy
  <2>3. CASE /\ l2[k] # "absent" /\ req' = [req EXCEPT ![h].buf = l2[k]]
             /\ Goto(h, "drain") /\ UNCHANGED reply
    <3>1. req \in [Handlers -> Request]
      BY DEF IInv, TypeOK
    <3>2. /\ req' \in [Handlers -> Request]
          /\ \A g \in Handlers : req'[g].key = req[g].key
          /\ req'[h].buf = l2[k] /\ \A g \in Handlers \ {h} : req'[g] = req[g]
      BY <1>0, <2>3, <3>1 DEF Request
    <3>3. UNCHANGED <<l1, l2, queue, task, reply>> /\ l2[k] # "absent"
      BY <1>3, <2>3 DEF GetL2, tiers, Return, Goto, IInv, TypeOK
    <3> QED
      BY <1>0, <2>3, <3>2, <3>3 DEF Goto, IInv, TypeOK, Keyed, Clean, Relaying
  <2> QED
    BY <1>3, <2>1, <2>2, <2>3 DEF GetL2
<1>4. CASE Drain(h)
  BY <1>0, <1>4 DEF Drain, Goto, tiers, IInv, TypeOK, Keyed, Clean, Relaying
<1>5. CASE RegetL2(h)
  <2>1. CASE Return(h, IF l2[k] = "absent" THEN "miss" ELSE l2[k])
    BY <1>0, <1>1, <1>5, <2>1 DEF RegetL2, Copy
  <2>2. CASE Return(h, "error")
    BY <1>1, <1>5, <2>2 DEF RegetL2
  <2> QED
    BY <1>5, <2>1, <2>2 DEF RegetL2
<1>6. CASE StoreL1(h)
  <2>0. (Verify1 => req[h].buf # "corrupt") /\ req[h].buf # "absent"
    BY <1>6 DEF StoreL1, IInv, Keyed, Clean, Relaying
  <2>1. CASE /\ l1' = [l1 EXCEPT ![k] = req[h].buf]
             /\ Goto(h, "back1")
             /\ UNCHANGED <<req, reply, l2, queue, task>>
    BY <1>0, <2>0, <2>1 DEF Goto, IInv, TypeOK, Keyed, Clean, Relaying
  <2>2. CASE Return(h, req[h].buf) /\ UNCHANGED <<l1, l2, queue, task>>
    BY <1>0, <2>0, <2>2, ReturnInv DEF IInv, TypeOK, tiers, Copy
  <2> QED
    BY <1>6, <2>1, <2>2 DEF StoreL1
<1>7. CASE BackL1(h)
  <2>1. CASE l1[k] # "absent" /\ Return(h, l1[k])
    BY <1>0, <1>1, <1>7, <2>1 DEF BackL1, Copy
  <2>2. CASE Return(h, req[h].buf)
    <3>1. (Verify1 => req[h].buf # "corrupt") /\ req[h].buf \in {"whole", "corrupt"}
      BY <1>0, <1>7 DEF BackL1, IInv, Keyed, Clean, Relaying, Copy
    <3>2. UNCHANGED <<tiers, queue, task>>
      BY <1>7 DEF BackL1
    <3> QED
      BY <1>1, <2>2, <3>1, <3>2
  <2> QED
    BY <1>7, <2>1, <2>2 DEF BackL1
<1> QED
  BY <1>2, <1>3, <1>4, <1>5, <1>6, <1>7

\* Steps of contains() and delete(): they only take entries out of tiers.
LEMMA HasDeleteInv ==
  ASSUME IInv, NEW h \in Handlers,
         HasL1(h) \/ HasL2(h) \/ (\E t \in {1, 2} : DeleteTier(h, t)) \/ EndDelete(h)
  PROVE  IInv'
<1>1. ASSUME NEW answer \in {"ok", "error", "miss", "found"}, Return(h, answer),
             UNCHANGED <<tiers, queue, task>>
      PROVE  IInv'
  BY <1>1, ReturnInv DEF IInv, TypeOK
<1>2. CASE HasL1(h)
  <2>1. CASE Return(h, "found") \/ Return(h, "error")
    BY <1>1, <1>2, <2>1 DEF HasL1
  <2>2. CASE pc[h] = "has1" /\ Goto(h, "has2") /\ UNCHANGED <<req, reply>>
    BY <1>2, <2>2 DEF HasL1, Goto, tiers, IInv, TypeOK, Keyed, Clean, Relaying
  <2> QED
    BY <1>2, <2>1, <2>2 DEF HasL1
<1>3. CASE HasL2(h)
  BY <1>1, <1>3 DEF HasL2
<1>4. CASE \E t \in {1, 2} : DeleteTier(h, t)
  <2> PICK t \in {1, 2} : DeleteTier(h, t)
    BY <1>4
  <2>1. /\ pc[h] = "del" /\ req[h].key \in Keys
        /\ l1' \in [Keys -> Copy] /\ l2' \in [Keys -> Copy]
        /\ \A j \in Keys : /\ l1'[j] = l1[j] \/ l1'[j] = "absent"
                           /\ l2'[j] = l2[j] \/ l2'[j] = "absent"
    BY DEF DeleteTier, IInv, TypeOK, Keyed, Copy, tiers
  <2>2. /\ req' \in [Handlers -> Request]
        /\ \A g \in Handlers : req'[g].key = req[g].key /\ req'[g].buf = req[g].buf
    <3>1. req \in [Handlers -> Request]
      BY DEF IInv, TypeOK
    <3>2. CASE req' = [req EXCEPT ![h].left = @ \ {t}]
      BY <3>1, <3>2 DEF Request
    <3>3. CASE req' = [req EXCEPT ![h].left = @ \ {t}, ![h].failed = TRUE]
      <4> DEFINE r == [req[h] EXCEPT !.left = @ \ {t}, !.failed = TRUE]
      <4>1. r \in Request /\ r.key = req[h].key /\ r.buf = req[h].buf
        BY <3>1 DEF Request
      <4>2. req' = [req EXCEPT ![h] = r]
        BY <3>1, <3>3
      <4> HIDE DEF r
      <4> QED
        BY <3>1, <4>1, <4>2
    <3> QED
      BY <3>2, <3>3 DEF DeleteTier
  <2>3. UNCHANGED <<queue, task, pc, reply>>
    BY DEF DeleteTier
  <2> QED
    BY <2>1, <2>2, <2>3 DEF IInv, TypeOK, Keyed, Clean, Relaying
<1>5. CASE EndDelete(h)
  BY <1>1, <1>5 DEF EndDelete
<1> QED
  BY <1>2, <1>3, <1>4, <1>5

\* The background task copies to L2 only what it has opened in L1.
LEMMA BackgroundInv ==
  ASSUME IInv, Background
  PROVE  IInv'
<1>1. CASE Receive
  <2>1. Head(queue) \in Keys /\ queue' \in Seq(Keys) /\ Len(queue') <= Capacity
    BY <1>1, LayeredAssumption DEF Receive, IInv, TypeOK
  <2> QED
    BY <1>1, <2>1 DEF Receive, Idle, tiers, IInv, TypeOK, Keyed, Clean, Relaying, Copy
<1>2. CASE OpenL1
  <2>0. task.key \in Keys
    BY <1>2 DEF OpenL1, IInv, Keyed
  <2>1. CASE /\ task' = [task EXCEPT !.at = "copy", !.stream = l1[task.key]]
             /\ UNCHANGED <<tiers, queue, pc, req, reply>>
    BY <2>0, <2>1 DEF tiers, IInv, TypeOK, Keyed, Clean, Relaying
  <2>2. CASE task' = Idle /\ UNCHANGED <<tiers, queue, pc, req, reply>>
    BY <2>2 DEF Idle, tiers, IInv, TypeOK, Keyed, Clean, Relaying, Copy
  <2> QED
    BY <1>2, <2>1, <2>2 DEF OpenL1
<1>3. CASE CopyToL2
  <2>0. task.key \in Keys /\ task.stream \in Copy /\ (Verify1 => task.stream # "corrupt")
    BY <1>3 DEF CopyToL2, IInv, TypeOK, Keyed, Clean
  <2>1. l2' = [l2 EXCEPT ![task.key] = task.stream] \/ l2' = l2
    BY <1>3 DEF CopyToL2
  <2> QED
    BY <1>3, <2>0, <2>1 DEF CopyToL2, Idle, IInv, TypeOK, Keyed, Clean, Relaying, Copy
<1> QED
  BY <1>1, <1>2, <1>3 DEF Background

\* Evictions, cancellations and restarts only lose things.
LEMMA LossInv ==
  ASSUME IInv, (\E k \in Keys : Evict(k)) \/ (\E h \in Handlers : Cancel(h)) \/ Restart
  PROVE  IInv'
<1>1. CASE \E k \in Keys : Evict(k)
  BY <1>1 DEF Evict, IInv, TypeOK, Keyed, Clean, Relaying, Copy
<1>2. CASE \E h \in Handlers : Cancel(h)
  BY <1>2, ReturnInv DEF Cancel, IInv, TypeOK
<1>3. CASE Restart
  BY <1>3, LayeredAssumption
  DEF Restart, Idle, NoReq, tiers, IInv, TypeOK, Keyed, Clean, Relaying, Request, Copy
<1> QED
  BY <1>1, <1>2, <1>3

\* Every step preserves the invariant.
LEMMA NextInv == IInv /\ [Next]_vars => IInv'
<1> SUFFICES ASSUME IInv, [Next]_vars
             PROVE  IInv'
  OBVIOUS
<1>1. ASSUME NEW h \in Handlers, Begin(h)
      PROVE  IInv'
  BY <1>1, BeginInv
<1>2. ASSUME NEW h \in Handlers, Work(h)
      PROVE  IInv'
  BY <1>2, PutInv, GetInv, HasDeleteInv DEF Work
<1>3. CASE (\E h \in Handlers : Cancel(h)) \/ (\E k \in Keys : Evict(k)) \/ Restart
  BY <1>3, LossInv
<1>4. CASE Background
  BY <1>4, BackgroundInv
<1>5. CASE UNCHANGED vars
  BY <1>5 DEF vars, tiers, IInv, TypeOK, Keyed, Clean, Relaying
<1> QED
  BY <1>1, <1>2, <1>3, <1>4, <1>5 DEF Next

\* The layered cache stays well-typed: in particular the queue of propagation
\* jobs never exceeds its capacity, because put() drops the job when it is full.
THEOREM LayeredTypeCorrect == Spec => []TypeOK
<1>1. IInv => TypeOK
  BY DEF IInv
<1> QED
  BY <1>1, InitInv, NextInv, PTL DEF Spec

\* Behind a verifying L1 (the disk) nothing corrupt enters either tier or
\* reaches a client, whatever L2 verifies, fails, evicts or is told to delete.
THEOREM LayeredNeverCorrupt == Spec => []NothingCorrupt
<1>1. IInv => NothingCorrupt
  BY DEF IInv, Clean, NothingCorrupt
<1> QED
  BY <1>1, InitInv, NextInv, PTL DEF Spec

-----------------------------------------------------------------------------
(* Two tiers implement BlobStore. *)

\* What Held is made of.
LEMMA HeldValues ==
  /\ Held \in [Keys -> {"absent", "whole", "corrupt"}]
  /\ IInv => \A k \in Keys : Verify1 => Held[k] # "corrupt"
  BY DEF Held, IInv, Clean

\* A step touches one key of the tiers at most.
LEMMA OneKeyAtATime ==
  ASSUME IInv, [Next]_vars
  PROVE  \/ UNCHANGED tiers
         \/ \E k \in Keys : \A j \in Keys \ {k} : l1'[j] = l1[j] /\ l2'[j] = l2[j]
<1>1. ASSUME NEW h \in Handlers, Begin(h)
      PROVE  UNCHANGED tiers
  BY <1>1 DEF Begin, Put, Get, Contains, Delete, Start
<1>2. ASSUME NEW h \in Handlers, PutL1(h) \/ StoreL1(h)
      PROVE  \A j \in Keys \ {req[h].key} : l1'[j] = l1[j] /\ l2'[j] = l2[j]
  BY <1>2 DEF PutL1, StoreL1, IInv, TypeOK
<1>3. ASSUME NEW h \in Handlers, NEW t \in {1, 2}, DeleteTier(h, t)
      PROVE  \A j \in Keys \ {req[h].key} : l1'[j] = l1[j] /\ l2'[j] = l2[j]
  BY <1>3 DEF DeleteTier, tiers, IInv, TypeOK
<1>4. ASSUME NEW h \in Handlers, pc[h] # "idle"
      PROVE  req[h].key \in Keys
  BY <1>4 DEF IInv, Keyed
<1>5. ASSUME NEW h \in Handlers,
             \/ Enqueue(h) \/ GetL1(h) \/ GetL2(h) \/ Drain(h) \/ RegetL2(h) \/ BackL1(h)
             \/ HasL1(h) \/ HasL2(h) \/ EndDelete(h) \/ Cancel(h)
      PROVE  UNCHANGED tiers
  BY <1>5 DEF Enqueue, GetL1, GetL2, Drain, RegetL2, BackL1, HasL1, HasL2, EndDelete, Cancel
<1>6. ASSUME NEW h \in Handlers, Work(h)
      PROVE  \/ UNCHANGED tiers
             \/ \E k \in Keys : \A j \in Keys \ {k} : l1'[j] = l1[j] /\ l2'[j] = l2[j]
  <2>1. CASE PutL1(h) \/ StoreL1(h)
    BY <1>2, <1>4, <2>1 DEF PutL1, StoreL1
  <2>2. CASE \E t \in {1, 2} : DeleteTier(h, t)
    <3>1. PICK t \in {1, 2} : DeleteTier(h, t)
      BY <2>2
    <3>2. req[h].key \in Keys
      BY <1>4, <3>1 DEF DeleteTier
    <3> QED
      BY <1>3, <3>1, <3>2
  <2> QED
    BY <1>5, <1>6, <2>1, <2>2 DEF Work
<1>7. CASE Background
  <2>1. CASE Receive \/ OpenL1
    BY <2>1 DEF Receive, OpenL1
  <2>2. CASE CopyToL2
    <3>1. task.key \in Keys
      BY <2>2 DEF CopyToL2, IInv, Keyed
    <3>2. \A j \in Keys \ {task.key} : l1'[j] = l1[j] /\ l2'[j] = l2[j]
      BY <2>2 DEF CopyToL2, IInv, TypeOK
    <3> QED
      BY <3>1, <3>2
  <2> QED
    BY <1>7, <2>1, <2>2 DEF Background
<1>8. ASSUME NEW k \in Keys, Evict(k)
      PROVE  \A j \in Keys \ {k} : l1'[j] = l1[j] /\ l2'[j] = l2[j]
  BY <1>8 DEF Evict, IInv, TypeOK
<1>9. CASE Restart \/ UNCHANGED vars
  BY <1>9 DEF Restart, vars, tiers
<1> QED
  BY <1>1, <1>5, <1>6, <1>7, <1>8, <1>9 DEF Next

LEMMA StoreInit == Init => Store!Init
  BY DEF Init, Held, Store!Init

\* Every step keeps one body that put() accepted, loses one, or shows nothing.
LEMMA StoreNext ==
  ASSUME IInv, IInv', [Next]_vars
  PROVE  [Store!Next]_Held
<1>1. CASE UNCHANGED tiers
  BY <1>1 DEF tiers, Held
<1>2. ASSUME NEW k \in Keys, \A j \in Keys \ {k} : l1'[j] = l1[j] /\ l2'[j] = l2[j]
      PROVE  [Store!Next]_Held
  <2>1. Held' = [Held EXCEPT ![k] = Held'[k]]
    <3>1. \A j \in Keys \ {k} : Held'[j] = Held[j]
      BY <1>2 DEF Held
    <3> QED
      BY <3>1 DEF Held
  <2>2. Held'[k] \in {"absent", "whole", "corrupt"} /\ (Verify1 => Held'[k] # "corrupt")
    BY DEF Held, IInv, Clean
  <2>3. CASE Held'[k] = "absent"
    <3>1. Held' = [j \in Keys |-> IF j \in {k} THEN "absent" ELSE Held[j]]
      BY <2>1, <2>3 DEF Held
    <3> QED
      BY <3>1 DEF Store!Next, Store!Lose
  <2>4. CASE Held'[k] # "absent"
    <3>1. Held'[k] \in {"whole"} \union (IF Verify1 THEN {} ELSE {"corrupt"})
      BY <2>2, <2>4
    <3> QED
      BY <2>1, <3>1 DEF Store!Next, Store!Keep
  <2> QED
    BY <2>3, <2>4
<1> QED
  BY <1>1, <1>2, OneKeyAtATime

\* The layered cache implements BlobStore over any two tiers that do: what is
\* copied between them, lost in one or deleted tier by tier is never anything
\* but a body that a put() was allowed to leave there.
THEOREM LayeredImplementsBlobStore == Spec => ImplementsBlobStore
<1>1. IInv /\ IInv' /\ [Next]_vars => [Store!Next]_Held
  BY StoreNext
<1> QED
  BY <1>1, InitInv, NextInv, StoreInit, PTL DEF Spec, ImplementsBlobStore, Store!Spec

\* What a store that verifies, or not, may hold.
Passed(verifies) == {"whole"} \union (IF verifies THEN {} ELSE {"corrupt"})

\* Each tier on its own.  An L2 that verifies nothing holds what one that does
\* would, behind an L1 that does.
Tier1 == INSTANCE BlobStore
           WITH blob <- l1, Accepted <- Passed(Verify1), Losses <- {{k} : k \in Keys}
Tier2 == INSTANCE BlobStore
           WITH blob <- l2, Accepted <- Passed(Verify1 \/ Verify2), Losses <- {{k} : k \in Keys}

\* A verifying L2 lets nothing corrupt in.
SecondClean == Verify2 => \A k \in Keys : l2[k] # "corrupt"

LEMMA SecondCleanStep ==
  ASSUME IInv, SecondClean, [Next]_vars
  PROVE  SecondClean'
<1>1. ASSUME NEW h \in Handlers, Begin(h) \/ Work(h) \/ Cancel(h)
      PROVE  \A k \in Keys : l2'[k] \in {l2[k], "absent"}
  <2>1. CASE \E t \in {1, 2} : DeleteTier(h, t)
    BY <2>1 DEF DeleteTier, tiers, IInv, TypeOK
  <2>2. CASE \/ Begin(h) \/ Cancel(h) \/ PutL1(h) \/ Enqueue(h) \/ GetL1(h) \/ GetL2(h)
             \/ Drain(h) \/ RegetL2(h) \/ StoreL1(h) \/ BackL1(h) \/ HasL1(h) \/ HasL2(h)
             \/ EndDelete(h)
    BY <2>2 DEF Begin, Put, Get, Contains, Delete, Start, Cancel, PutL1, Enqueue, GetL1, GetL2,
                Drain, RegetL2, StoreL1, BackL1, HasL1, HasL2, EndDelete, tiers
  <2> QED
    BY <1>1, <2>1, <2>2 DEF Work
<1>2. CASE Receive \/ OpenL1 \/ Restart \/ UNCHANGED vars
  BY <1>2 DEF Receive, OpenL1, Restart, vars, tiers, SecondClean
<1>3. CASE CopyToL2
  BY <1>3 DEF CopyToL2, Accepts, SecondClean, IInv, TypeOK
<1>4. ASSUME NEW k \in Keys, Evict(k)
      PROVE  \A j \in Keys : l2'[j] \in {l2[j], "absent"}
  BY <1>4 DEF Evict, IInv, TypeOK
<1> QED
  BY <1>1, <1>2, <1>3, <1>4 DEF Next, Background, SecondClean

\* Every step of the layered cache is one of each tier, or none of it.
LEMMA TierSteps ==
  ASSUME IInv, IInv', SecondClean', [Next]_vars
  PROVE  [Tier1!Next]_l1 /\ [Tier2!Next]_l2
<1>1. /\ l1 \in [Keys -> Copy] /\ l1' \in [Keys -> Copy]
      /\ l2 \in [Keys -> Copy] /\ l2' \in [Keys -> Copy]
  BY DEF IInv, TypeOK
<1>2. /\ \A k \in Keys : l1'[k] # "absent" => l1'[k] \in Passed(Verify1)
      /\ \A k \in Keys : l2'[k] # "absent" => l2'[k] \in Passed(Verify1 \/ Verify2)
  BY <1>1 DEF Passed, Copy, IInv, Clean, SecondClean
<1>3. CASE UNCHANGED tiers
  BY <1>3 DEF tiers
<1>4. ASSUME NEW k \in Keys, \A j \in Keys \ {k} : l1'[j] = l1[j] /\ l2'[j] = l2[j]
      PROVE  [Tier1!Next]_l1 /\ [Tier2!Next]_l2
  <2>1. ASSUME l1'[k] = "absent"
       PROVE  Tier1!Next
    <3>1. l1' = [j \in Keys |-> IF j \in {k} THEN "absent" ELSE l1[j]]
      BY <1>1, <1>4, <2>1
    <3> QED
      BY <3>1 DEF Tier1!Next, Tier1!Lose
  <2>2. ASSUME l1'[k] # "absent"
       PROVE  Tier1!Next
    <3>1. l1' = [l1 EXCEPT ![k] = l1'[k]]
      BY <1>1, <1>4
    <3> QED
      BY <1>2, <2>2, <3>1 DEF Tier1!Next, Tier1!Keep
  <2>3. ASSUME l2'[k] = "absent"
       PROVE  Tier2!Next
    <3>1. l2' = [j \in Keys |-> IF j \in {k} THEN "absent" ELSE l2[j]]
      BY <1>1, <1>4, <2>3
    <3> QED
      BY <3>1 DEF Tier2!Next, Tier2!Lose
  <2>4. ASSUME l2'[k] # "absent"
       PROVE  Tier2!Next
    <3>1. l2' = [l2 EXCEPT ![k] = l2'[k]]
      BY <1>1, <1>4
    <3> QED
      BY <1>2, <2>4, <3>1 DEF Tier2!Next, Tier2!Keep
  <2>5. [Tier1!Next]_l1
    BY <2>1, <2>2
  <2>6. [Tier2!Next]_l2
    BY <2>3, <2>4
  <2> QED
    BY <2>5, <2>6
<1> QED
  BY <1>3, <1>4, OneKeyAtATime

\* The layered cache only ever uses its tiers as BlobStores: nothing happens to
\* a tier that its own puts, deletes and evictions could not do.  With the
\* theorem above, whatever implements BlobStore can be a tier, and so can two
\* tiers.
THEOREM LayeredUsesBlobStores == Spec => Tier1!Spec /\ Tier2!Spec
<1>1. Init => IInv /\ SecondClean /\ Tier1!Init /\ Tier2!Init
  BY InitInv DEF Init, SecondClean, Tier1!Init, Tier2!Init
<1>2. IInv /\ SecondClean /\ [Next]_vars => (IInv /\ SecondClean)'
  BY NextInv, SecondCleanStep
<1>3. /\ IInv /\ IInv' /\ SecondClean' /\ [Next]_vars => [Tier1!Next]_l1
      /\ IInv /\ IInv' /\ SecondClean' /\ [Next]_vars => [Tier2!Next]_l2
  BY TierSteps
<1> QED
  BY <1>1, <1>2, <1>3, PTL DEF Spec, Tier1!Spec, Tier2!Spec

-----------------------------------------------------------------------------
(* What a miss promises. *)

\* A look-up that has not found its blob in L1.
Past == Reading \ {"get1", "has1"}

\* Where the blob of h has been since h started, it still is; once h has looked
\* in L1 that can only be L2, where h looks last.
Sighted(h) ==
  /\ pc[h] # "idle" => reply[h] = "none"
  /\ pc[h] \in {"get1", "has1"} =>
       /\ "l1" \in steady[h] => l1[req[h].key] # "absent"
       /\ "l2" \in steady[h] => l2[req[h].key] # "absent"
       /\ "some" \in steady[h] => l1[req[h].key] # "absent" \/ l2[req[h].key] # "absent"
  /\ pc[h] \in Past => /\ "l1" \notin steady[h]
                       /\ steady[h] # {} => l2[req[h].key] # "absent"
  /\ reply[h] = "miss" => steady[h] = {}

Sightings == \A h \in Handlers : Sighted(h)

\* A step of one handler, as opposed to the task's, the tiers' and the process's.
StepOf(h) == Begin(h) \/ Work(h) \/ Cancel(h)

LEMMA NextSteps ==
  ASSUME [Next]_vars
  PROVE  \/ \E h \in Handlers : StepOf(h)
         \/ Background
         \/ \E k \in Keys : Evict(k)
         \/ Restart
         \/ UNCHANGED vars
  BY DEF Next, StepOf

\* What a request is when it starts, and that nothing else changes.
LEMMA Begun ==
  ASSUME IInv, NEW h \in Handlers, Begin(h)
  PROVE  /\ pc[h] = "idle" /\ reply'[h] = "none" /\ UNCHANGED <<l1, l2, queue, task>>
         /\ pc'[h] \in {"put1", "get1", "has1", "del"}
         /\ req'[h].failed = FALSE /\ req'[h].key \in Keys
         /\ pc'[h] = "del" => req'[h].left = {1, 2}
         /\ \A g \in Handlers \ {h} : pc'[g] = pc[g] /\ req'[g] = req[g] /\ reply'[g] = reply[g]
<1> USE DEF Start, Goto, tiers, NoReq, IInv, TypeOK
<1>1. ASSUME NEW k \in Keys, NEW body \in Bodies, Put(h, k, body)
      PROVE  /\ pc'[h] = "put1"
             /\ req'[h].failed = FALSE /\ req'[h].key = k
  BY <1>1 DEF Put
<1>2. ASSUME NEW k \in Keys, NEW known \in SizeKnown, Get(h, k, known)
      PROVE  /\ pc'[h] = "get1"
             /\ req'[h].failed = FALSE /\ req'[h].key = k
  BY <1>2 DEF Get
<1>3. ASSUME NEW k \in Keys, Contains(h, k)
      PROVE  /\ pc'[h] = "has1"
             /\ req'[h].failed = FALSE /\ req'[h].key = k
  BY <1>3 DEF Contains
<1>4. ASSUME NEW k \in Keys, Delete(h, k)
      PROVE  /\ pc'[h] = "del" /\ req'[h].left = {1, 2}
             /\ req'[h].failed = FALSE /\ req'[h].key = k
  BY <1>4 DEF Delete
<1>5. /\ pc[h] = "idle" /\ reply'[h] = "none" /\ UNCHANGED <<l1, l2, queue, task>>
      /\ \A g \in Handlers \ {h} : pc'[g] = pc[g] /\ req'[g] = req[g] /\ reply'[g] = reply[g]
  BY ZenonT(60) DEF Begin, Put, Get, Contains, Delete
<1> QED
  BY <1>1, <1>2, <1>3, <1>4, <1>5 DEF Begin

\* The step of a handler leaves the others where they are.
LEMMA OthersStay ==
  ASSUME IInv, NEW h \in Handlers, StepOf(h), NEW g \in Handlers \ {h}
  PROVE  pc'[g] = pc[g] /\ req'[g] = req[g] /\ reply'[g] = reply[g]
<1> USE DEF IInv, TypeOK, Goto, Return
<1>1. CASE Begin(h)
  BY <1>1, Begun, ZenonT(60)
<1>2. CASE Work(h)
  BY <1>2 DEF Work, PutL1, Enqueue, GetL1, GetL2, Drain, RegetL2, StoreL1, BackL1,
     HasL1, HasL2, DeleteTier, EndDelete
<1>3. CASE Cancel(h)
  BY <1>3 DEF Cancel
<1> QED
  BY <1>1, <1>2, <1>3 DEF StepOf

\* A look-up that a step leaves where it is keeps what still holds.
LEMMA SightedStays ==
  ASSUME IInv, NEW h \in Handlers, Sighted(h), HNext,
         pc'[h] = pc[h], req'[h] = req[h], reply'[h] = reply[h]
  PROVE  Sighted(h)'
<1> DEFINE k == req[h].key
<1>1. CASE pc[h] \in Reading
  <2>1. steady'[h] = (steady[h] \intersect HeldNext(k)) \ Unread(h)
    BY <1>1 DEF HNext, Reading
  <2> QED
    BY <1>1, <2>1 DEF Sighted, HeldNext, Past, Reading
<1>2. CASE pc[h] \notin Reading
  <2>1. steady'[h] \subseteq steady[h]
    BY <1>2 DEF HNext, Reading
  <2> QED
    BY <1>2, <2>1 DEF Sighted, Past, Reading
<1> QED
  BY <1>1, <1>2

\* The steps of the look-up itself.
LEMMA SightedOwn ==
  ASSUME IInv, NEW h \in Handlers, Sighted(h), HNext, StepOf(h)
  PROVE  Sighted(h)'
<1> DEFINE k == req[h].key
<1> USE DEF IInv, TypeOK
<1>1. CASE Begin(h)
  <2>1. pc'[h] \in Reading => steady'[h] = HeldNext(req'[h].key)
    BY <1>1, Begun DEF HNext
  <2> QED
    BY <1>1, <2>1, Begun DEF Sighted, HeldNext, Past, Reading
<1>2. ASSUME NEW answer, answer # "miss", Return(h, answer), pc[h] # "idle"
      PROVE  Sighted(h)'
  BY <1>2 DEF Return, Goto, Sighted, Past, Reading
<1>3. ASSUME pc[h] \in {"get2", "reget2", "has2"}, l2[k] = "absent", Return(h, "miss")
      PROVE  Sighted(h)'
  <2>1. steady[h] = {}
    BY <1>3 DEF Sighted, Past, Reading
  <2>2. steady'[h] = {}
    BY <1>3, <2>1 DEF HNext, Return, Goto, Reading
  <2> QED
    BY <1>3, <2>2 DEF Return, Goto, Sighted, Past, Reading
<1>4. ASSUME pc[h] \in Past, pc'[h] \in Past, l2' = l2, req'[h].key = k, reply'[h] = reply[h]
      PROVE  Sighted(h)'
  <2>1. steady'[h] \subseteq steady[h]
    BY <1>4 DEF HNext, Past, Reading
  <2> QED
    BY <1>4, <2>1 DEF Sighted, Past, Reading
<1>5. CASE PutL1(h) \/ Enqueue(h)
  <2>1. CASE pc'[h] = "enqueue" /\ reply'[h] = reply[h]
    BY <1>5, <2>1 DEF PutL1, Enqueue, Sighted, Past, Reading
  <2> QED
    BY <1>2, <1>5, <2>1 DEF PutL1, Enqueue, Goto
<1>6. CASE GetL1(h)
  <2>1. CASE l1[k] # "absent" /\ Return(h, l1[k])
    BY <1>2, <1>6, <2>1 DEF GetL1, Copy, Keyed
  <2>2. CASE Goto(h, "get2") /\ UNCHANGED <<req, reply>>
    <3>1. steady'[h] = (steady[h] \intersect HeldNext(k)) \ Unread(h) /\ pc'[h] = "get2"
      BY <1>6, <2>2 DEF GetL1, HNext, Goto, Reading
    <3>2. l1' = l1 /\ l2' = l2 /\ pc[h] = "get1"
      BY <1>6 DEF GetL1, tiers
    <3> QED
      BY <2>2, <3>1, <3>2 DEF Sighted, HeldNext, Unread, Past, Reading
  <2> QED
    BY <1>6, <2>1, <2>2 DEF GetL1
<1>7. CASE GetL2(h)
  <2>1. k \in Keys /\ l2[k] \in Copy
    BY <1>7 DEF GetL2, Keyed
  <2>2. CASE Return(h, "error") \/ (l2[k] # "absent" /\ Return(h, l2[k]))
    BY <1>2, <1>7, <2>1, <2>2 DEF GetL2, Copy
  <2>3. CASE l2[k] = "absent" /\ Return(h, "miss")
    BY <1>3, <1>7, <2>3 DEF GetL2
  <2>4. CASE req' = [req EXCEPT ![h].buf = l2[k]] /\ Goto(h, "drain") /\ UNCHANGED reply
    <3>1. req'[h].key = k
      BY <2>4 DEF Request
    <3> QED
      BY <1>4, <1>7, <2>4, <3>1 DEF GetL2, Goto, tiers, Past, Reading
  <2> QED
    BY <1>7, <2>2, <2>3, <2>4 DEF GetL2
<1>8. CASE Drain(h)
  BY <1>4, <1>8 DEF Drain, Goto, tiers, Past, Reading
<1>9. CASE RegetL2(h) \/ HasL2(h)
  <2>1. k \in Keys /\ l2[k] \in Copy
    BY <1>9 DEF RegetL2, HasL2, Keyed
  <2> QED
    BY <1>2, <1>3, <1>9, <2>1 DEF RegetL2, HasL2, Copy
<1>10. CASE StoreL1(h) \/ BackL1(h)
  <2>1. k \in Keys /\ l1[k] \in Copy /\ req[h].buf \in Copy
    BY <1>10 DEF StoreL1, BackL1, Keyed, Request
  <2>2. CASE Goto(h, "back1") /\ UNCHANGED <<req, reply>>
    BY <1>4, <1>10, <2>2 DEF StoreL1, BackL1, Return, Goto, tiers, Past, Reading
  <2> QED
    BY <1>2, <1>10, <2>1, <2>2 DEF StoreL1, BackL1, Copy
<1>11. CASE HasL1(h)
  <2>1. CASE l1[k] = "absent" /\ Goto(h, "has2") /\ UNCHANGED <<req, reply>>
    <3>1. steady'[h] = (steady[h] \intersect HeldNext(k)) \ Unread(h) /\ pc'[h] = "has2"
      BY <1>11, <2>1 DEF HasL1, HNext, Goto, Reading
    <3>2. l1' = l1 /\ l2' = l2 /\ pc[h] = "has1"
      BY <1>11 DEF HasL1, tiers
    <3> QED
      BY <2>1, <3>1, <3>2 DEF Sighted, HeldNext, Past, Reading
  <2> QED
    BY <1>2, <1>11, <2>1 DEF HasL1
<1>12. CASE \E t \in {1, 2} : DeleteTier(h, t)
  BY <1>12 DEF DeleteTier, Sighted, Past, Reading
<1>13. CASE EndDelete(h) \/ Cancel(h)
  BY <1>2, <1>13 DEF EndDelete, Cancel
<1> QED
  BY <1>1, <1>5, <1>6, <1>7, <1>8, <1>9, <1>10, <1>11, <1>12, <1>13 DEF StepOf, Work

LEMMA SightingsStep ==
  ASSUME IInv, Sightings, [HNext]_hvars
  PROVE  Sightings'
<1>1. CASE UNCHANGED hvars
  BY <1>1 DEF hvars, vars, Sightings, Sighted
<1>2. CASE HNext
  <2>1. ASSUME NEW h \in Handlers, StepOf(h), NEW g \in Handlers
        PROVE  Sighted(g)'
    <3>1. CASE g = h
      BY <1>2, <2>1, <3>1, SightedOwn DEF Sightings
    <3>2. CASE g # h
      BY <1>2, <2>1, <3>2, OthersStay, SightedStays DEF Sightings
    <3> QED
      BY <3>1, <3>2
  <2>2. CASE Background \/ (\E k \in Keys : Evict(k)) \/ UNCHANGED vars
    BY <1>2, <2>2, SightedStays DEF Background, Receive, OpenL1, CopyToL2, Evict, vars, Sightings
  <2>3. CASE Restart
    BY <2>3 DEF Restart, Sightings, Sighted, Past, Reading
  <2> QED
    BY <1>2, <2>1, <2>2, <2>3, NextSteps DEF HNext, Sightings
<1> QED
  BY <1>1, <1>2

\* A get() or contains() answers "not found" only if the blob was in neither
\* tier at some moment, or left L2, while it ran: for any number of handlers,
\* whatever is written back, propagated, evicted or deleted meanwhile, and
\* whichever reads fail.
THEOREM LayeredNoFalseMiss == HSpec => []NoFalseMiss
<1>1. HInit => IInv /\ Sightings
  BY InitInv DEF HInit, Init, Sightings, Sighted, Past, Reading
<1>2. IInv /\ Sightings /\ [HNext]_hvars => IInv' /\ Sightings'
  <2>1. [HNext]_hvars => [Next]_vars
    BY DEF HNext, hvars
  <2> QED
    BY <2>1, NextInv, SightingsStep
<1>3. Sightings => NoFalseMiss
  BY DEF Sightings, Sighted, NoFalseMiss
<1> QED
  BY <1>1, <1>2, <1>3, PTL DEF HSpec

-----------------------------------------------------------------------------
(* What a delete promises. *)

\* Something other than h works on k, a job of the queue included.
Busy(h, k) ==
  \/ \E g \in Handlers \ {h} : pc[g] # "idle" /\ req[g].key = k
  \/ \E i \in DOMAIN queue : queue[i] = k
  \/ task.at # "recv" /\ task.key = k

\* A delete that has run alone so far: what it has removed is still gone.
Undisturbed(h) ==
  pc[h] = "del" /\ ~others[h] =>
    /\ ~Busy(h, req[h].key)
    /\ ~req[h].failed => /\ 1 \notin req[h].left => l1[req[h].key] = "absent"
                         /\ 2 \notin req[h].left => l2[req[h].key] = "absent"

\* Neither tier has k, and nothing under way could put it there.
Gone(k) ==
  /\ l1[k] = "absent" /\ l2[k] = "absent"
  /\ \A i \in DOMAIN queue : queue[i] # k
  /\ task.at # "recv" => task.key # k
  /\ \A h \in Handlers :
       req[h].key = k => pc[h] \in {"idle", "get1", "get2", "has1", "has2", "del"}

Quietness == (\A h \in Handlers : Undisturbed(h)) /\ quiet \subseteq Keys /\ \A k \in quiet : Gone(k)

\* A blob enters a tier by a handler that stores it or by the task.
LEMMA TierStep ==
  ASSUME IInv, [Next]_vars, NEW k \in Keys,
         \A h \in Handlers : pc[h] \in {"put1", "store1"} => req[h].key # k,
         task.at = "copy" => task.key # k
  PROVE  l1'[k] \in {l1[k], "absent"} /\ l2'[k] \in {l2[k], "absent"}
<1> USE DEF IInv, TypeOK
<1>1. ASSUME NEW h \in Handlers, Work(h)
      PROVE  l1'[k] \in {l1[k], "absent"} /\ l2'[k] \in {l2[k], "absent"}
  BY <1>1 DEF Work, PutL1, Enqueue, GetL1, GetL2, Drain, RegetL2, StoreL1, BackL1,
     HasL1, HasL2, DeleteTier, EndDelete, tiers
<1>2. ASSUME NEW h \in Handlers, Begin(h) \/ Cancel(h)
      PROVE  l1'[k] \in {l1[k], "absent"} /\ l2'[k] \in {l2[k], "absent"}
  BY <1>2, Begun DEF Cancel, tiers
<1>3. CASE Background \/ (\E j \in Keys : Evict(j)) \/ Restart \/ UNCHANGED vars
  BY <1>3 DEF Background, Receive, OpenL1, CopyToL2, Evict, Restart, vars, tiers
<1> QED
  BY <1>1, <1>2, <1>3 DEF Next

\* A job enters the queue by a handler that enqueues it, and a task takes its
\* job from the queue.
LEMMA QueueStep ==
  ASSUME IInv, [Next]_vars, NEW k \in Keys,
         \A h \in Handlers : pc[h] = "enqueue" => req[h].key # k,
         \A i \in DOMAIN queue : queue[i] # k, task.at # "recv" => task.key # k
  PROVE  /\ \A i \in DOMAIN queue' : queue'[i] # k
         /\ task'.at # "recv" => task'.key # k
<1> USE DEF IInv, TypeOK
<1>1. CASE UNCHANGED <<queue, task>>
  BY <1>1
<1>2. ASSUME NEW h \in Handlers, Enqueue(h)
      PROVE  UNCHANGED task /\ \A i \in DOMAIN queue' : queue'[i] # k
  <2>1. CASE queue' = Append(queue, req[h].key)
    <3>1. req[h].key # k /\ req[h].key \in Keys
      BY <1>2 DEF Enqueue, Keyed
    <3> QED
      BY <1>2, <2>1, <3>1 DEF Enqueue
  <2> QED
    BY <1>2, <2>1 DEF Enqueue
<1>3. CASE Receive
  <2>1. queue \in Seq(Keys) /\ queue # << >>
    BY <1>3 DEF Receive
  <2>2. \A i \in DOMAIN Tail(queue) : Tail(queue)[i] # k
    BY <2>1
  <2>3. Head(queue) # k
    BY <2>1
  <2> QED
    BY <1>3, <2>2, <2>3 DEF Receive, Idle
<1>4. CASE OpenL1 \/ CopyToL2
  <2>1. /\ queue' = queue /\ task.at # "recv"
        /\ task' = Idle \/ task' = [task EXCEPT !.at = "copy", !.stream = l1[task.key]]
    BY <1>4 DEF OpenL1, CopyToL2
  <2>2. task'.at # "recv" => task'.key = task.key
    <3>1. CASE task' = Idle
      BY <3>1 DEF Idle
    <3>2. CASE task' = [task EXCEPT !.at = "copy", !.stream = l1[task.key]]
      <4> DEFINE opened == [task EXCEPT !.at = "copy"]
      <4>1. opened.key = task.key
        OBVIOUS
      <4>2. task' = [opened EXCEPT !.stream = l1[task.key]]
        BY <3>2
      <4> QED
        BY <4>1, <4>2
    <3> QED
      BY <2>1, <3>1, <3>2
  <2> QED
    BY <2>1, <2>2
<1>5. ASSUME NEW h \in Handlers, StepOf(h), ~Enqueue(h)
      PROVE  UNCHANGED <<queue, task>>
  <2>1. CASE Begin(h) \/ Cancel(h)
    BY <2>1, Begun DEF Cancel
  <2>2. CASE Work(h)
    BY <1>5, <2>2 DEF Work, PutL1, GetL1, GetL2, Drain, RegetL2, StoreL1, BackL1,
       HasL1, HasL2, DeleteTier, EndDelete
  <2> QED
    BY <1>5, <2>1, <2>2 DEF StepOf
<1>6. CASE (\E j \in Keys : Evict(j)) \/ UNCHANGED vars
  BY <1>1, <1>6 DEF Evict, vars
<1>7. CASE Restart
  BY <1>7 DEF Restart, Idle
<1> QED
  BY <1>1, <1>2, <1>3, <1>4, <1>5, <1>6, <1>7, NextSteps DEF Background

\* What is gone stays so until a put of it starts.
LEMMA GoneStays ==
  ASSUME IInv, [Next]_vars, NEW k \in Keys, Gone(k),
         \A h \in Handlers : pc[h] = "idle" /\ pc'[h] = "put1" => req'[h].key # k
  PROVE  Gone(k)'
<1> USE DEF IInv, TypeOK
<1>1. l1'[k] = "absent" /\ l2'[k] = "absent"
  BY TierStep DEF Gone
<1>2. (\A i \in DOMAIN queue' : queue'[i] # k) /\ (task'.at # "recv" => task'.key # k)
  BY QueueStep DEF Gone
<1> DEFINE Harmless == {"idle", "get1", "get2", "has1", "has2", "del"}
<1>3. ASSUME NEW h \in Handlers, StepOf(h), req'[h].key = k
      PROVE  pc'[h] \in Harmless
  <2>1. CASE Begin(h)
    BY <1>3, <2>1, Begun
  <2>2. CASE Cancel(h)
    BY <2>2 DEF Cancel, Return, Goto
  <2>3. CASE GetL2(h)
    <3>1. CASE pc'[h] = "idle"
      BY <3>1
    <3>2. CASE req' = [req EXCEPT ![h].buf = l2[req[h].key]] /\ l2[req[h].key] # "absent"
      BY <1>3, <3>2 DEF Gone, Request
    <3> QED
      BY <2>3, <3>1, <3>2 DEF GetL2, Return, Goto
  <2>4. CASE \E t \in {1, 2} : DeleteTier(h, t)
    BY <2>4 DEF DeleteTier
  <2>5. CASE GetL1(h) \/ HasL1(h) \/ HasL2(h) \/ EndDelete(h) \/ Enqueue(h) \/ RegetL2(h) \/ BackL1(h)
    BY <2>5 DEF GetL1, HasL1, HasL2, EndDelete, Enqueue, RegetL2, BackL1, Return, Goto
  <2>6. CASE Drain(h) \/ PutL1(h) \/ StoreL1(h)
    BY <1>3, <2>6 DEF Drain, PutL1, StoreL1, Return, Goto, Gone
  <2> QED
    BY <1>3, <2>1, <2>2, <2>3, <2>4, <2>5, <2>6 DEF StepOf, Work
<1>4. ASSUME NEW h \in Handlers, req'[h].key = k
      PROVE  pc'[h] \in Harmless
  <2>1. CASE UNCHANGED <<pc, req>>
    BY <1>4, <2>1 DEF Gone
  <2>2. CASE Restart
    BY <2>2 DEF Restart
  <2>3. ASSUME NEW g \in Handlers, StepOf(g)
        PROVE  pc'[h] \in Harmless
    BY <1>3, <1>4, <2>3, OthersStay DEF Gone
  <2>4. CASE Background \/ (\E j \in Keys : Evict(j)) \/ UNCHANGED vars
    BY <2>1, <2>4 DEF Background, Receive, OpenL1, CopyToL2, Evict, vars
  <2> QED
    BY <2>2, <2>3, <2>4, NextSteps
<1> QED
  BY <1>1, <1>2, <1>4 DEF Gone

\* A delete that is still alone has had its way with the tiers it is done with,
\* if L2 can delete.
LEMMA UndisturbedStep ==
  ASSUME DeletesL2, IInv, NEW h \in Handlers, Undisturbed(h), HNext
  PROVE  Undisturbed(h)'
<1> USE DEF IInv, TypeOK
<1> SUFFICES ASSUME pc'[h] = "del", ~others'[h]
             PROVE  /\ ~Busy(h, req[h].key)'
                    /\ ~req'[h].failed => /\ 1 \notin req'[h].left => l1'[req'[h].key] = "absent"
                                          /\ 2 \notin req'[h].left => l2'[req'[h].key] = "absent"
  BY DEF Undisturbed
<1>1. ~Busy(h, req[h].key)'
  BY DEF HNext, Busy, BusyNext
<1> DEFINE k == req[h].key
<1>2. CASE Begin(h)
  BY <1>1, <1>2, Begun, ZenonT(60)
<1>3. ASSUME pc[h] = "del"
      PROVE  /\ ~Busy(h, k) /\ k \in Keys
             /\ ~req[h].failed => /\ 1 \notin req[h].left => l1[k] = "absent"
                                  /\ 2 \notin req[h].left => l2[k] = "absent"
             /\ l1'[k] \in {l1[k], "absent"} /\ l2'[k] \in {l2[k], "absent"}
  <2>1. ~others[h]
    BY <1>3 DEF HNext
  <2>2. ~Busy(h, k) /\ k \in Keys
    BY <1>3, <2>1 DEF Undisturbed, Keyed
  <2>3. \A g \in Handlers : pc[g] \in {"put1", "store1"} => req[g].key # k
    BY <1>3, <2>2 DEF Busy
  <2>4. task.at = "copy" => task.key # k
    BY <2>2 DEF Busy
  <2>5. l1'[k] \in {l1[k], "absent"} /\ l2'[k] \in {l2[k], "absent"}
    BY <2>2, <2>3, <2>4, TierStep DEF HNext
  <2> QED
    BY <1>3, <2>1, <2>2, <2>5 DEF Undisturbed
<1>4. CASE pc[h] = "del" /\ req'[h] = req[h]
  BY <1>1, <1>3, <1>4
<1>5. ASSUME NEW t \in {1, 2}, DeleteTier(h, t)
      PROVE  ~req'[h].failed => /\ 1 \notin req'[h].left => l1'[req'[h].key] = "absent"
                                /\ 2 \notin req'[h].left => l2'[req'[h].key] = "absent"
  <2>0. pc[h] = "del" /\ k \in Keys /\ req[h] \in Request
    BY <1>3, <1>5 DEF DeleteTier
  <2>1. CASE /\ req' = [req EXCEPT ![h].left = @ \ {t}]
             /\ l1' = IF t = 1 THEN [l1 EXCEPT ![k] = "absent"] ELSE l1
             /\ l2' = IF t = 2 THEN [l2 EXCEPT ![k] = "absent"] ELSE l2
    <3>1. /\ req'[h].left = req[h].left \ {t} /\ req'[h].failed = req[h].failed
          /\ req'[h].key = k
      BY <2>0, <2>1 DEF Request
    <3>2. (t = 1 => l1'[k] = "absent") /\ (t = 2 => l2'[k] = "absent")
      BY <2>0, <2>1
    <3> QED
      BY <1>3, <2>0, <3>1, <3>2
  <2>2. CASE req' = [req EXCEPT ![h].left = @ \ {t}, ![h].failed = TRUE]
    BY <2>0, <2>2 DEF Request
  <2> QED
    BY <1>5, <2>1, <2>2 DEF DeleteTier
<1>6. ASSUME StepOf(h)
      PROVE  Begin(h) \/ (\E t \in {1, 2} : DeleteTier(h, t)) \/ (pc[h] = "del" /\ req'[h] = req[h])
  BY <1>6 DEF StepOf, Work, Cancel, PutL1, Enqueue, GetL1, GetL2, Drain, RegetL2, StoreL1, BackL1,
     HasL1, HasL2, EndDelete, Return, Goto
<1>7. ASSUME \A t \in {1, 2} : ~DeleteTier(h, t), ~Begin(h)
      PROVE  pc[h] = "del" /\ req'[h] = req[h]
  <2>1. CASE Restart
    BY <2>1 DEF Restart
  <2>2. CASE UNCHANGED <<pc, req>>
    BY <2>2
  <2>3. ASSUME NEW g \in Handlers, StepOf(g)
        PROVE  pc[h] = "del" /\ req'[h] = req[h]
    BY <1>6, <1>7, <2>3, OthersStay
  <2>4. CASE Background \/ (\E j \in Keys : Evict(j)) \/ UNCHANGED vars
    BY <2>2, <2>4 DEF Background, Receive, OpenL1, CopyToL2, Evict, vars
  <2> QED
    BY <2>1, <2>3, <2>4, NextSteps DEF HNext
<1> QED
  BY <1>1, <1>2, <1>4, <1>5, <1>7

\* A delete that ran alone and was answered "ok" leaves nothing behind.
LEMMA DeletedGone ==
  ASSUME IInv, Sightings, NEW h \in Handlers, Undisturbed(h), HNext,
         pc[h] = "del", reply'[h] = "ok", ~others[h], NEW k, k = req[h].key
  PROVE  Gone(k)'
<1> USE DEF IInv, TypeOK
<1>1. reply[h] = "none"
  BY DEF Sightings, Sighted
<1>2. EndDelete(h)
  <2>1. StepOf(h)
    <3>1. ASSUME NEW g \in Handlers, StepOf(g), g # h
          PROVE  FALSE
      BY <1>1, <3>1, OthersStay
    <3>2. ~Restart
      BY DEF Restart
    <3>3. ~(Background \/ (\E j \in Keys : Evict(j)) \/ UNCHANGED vars)
      BY <1>1 DEF Background, Receive, OpenL1, CopyToL2, Evict, vars
    <3> QED
      BY <3>1, <3>2, <3>3, NextSteps DEF HNext
  <2>2. ~Begin(h)
    BY Begun
  <2> QED
    BY <1>1, <2>1, <2>2 DEF StepOf, Work, Cancel, PutL1, Enqueue, GetL1, GetL2, Drain, RegetL2,
       StoreL1, BackL1, HasL1, HasL2, DeleteTier, Return, Goto
<1>3. req[h].left = {} /\ ~req[h].failed
  BY <1>2 DEF EndDelete, Return
<1>4. /\ ~Busy(h, req[h].key)
      /\ l1[req[h].key] = "absent" /\ l2[req[h].key] = "absent"
  BY <1>3 DEF Undisturbed
<1>5. /\ UNCHANGED <<l1, l2, queue, task>> /\ pc'[h] = "idle"
      /\ \A g \in Handlers \ {h} : pc'[g] = pc[g] /\ req'[g] = req[g]
  BY <1>2 DEF EndDelete, tiers, Return, Goto
<1> QED
  BY <1>4, <1>5 DEF Gone, Busy

LEMMA QuietnessStep ==
  ASSUME DeletesL2, IInv, Sightings, Quietness, [HNext]_hvars
  PROVE  Quietness'
<1>1. CASE UNCHANGED hvars
  BY <1>1 DEF hvars, vars, Quietness, Undisturbed, Busy, Gone
<1>2. CASE HNext
  <2>1. \A h \in Handlers : Undisturbed(h)'
    BY <1>2, UndisturbedStep DEF Quietness
  <2>2. ASSUME NEW k \in quiet'
        PROVE  k \in Keys /\ Gone(k)'
    <3>1. CASE k \in Deleted
      <4>1. PICK h \in Handlers : /\ pc[h] = "del" /\ reply'[h] = "ok" /\ ~others[h]
                                  /\ k = req[h].key
        BY <3>1 DEF Deleted
      <4> QED
        BY <1>2, <4>1, DeletedGone DEF Quietness, IInv, Keyed
    <3>2. CASE k \notin Deleted
      <4>1. k \in quiet /\ k \notin PutStarts
        BY <1>2, <3>2 DEF HNext
      <4>2. k \in Keys /\ Gone(k)
        BY <4>1 DEF Quietness
      <4>3. \A h \in Handlers : pc[h] = "idle" /\ pc'[h] = "put1" => req'[h].key # k
        BY <4>1 DEF PutStarts
      <4> QED
        BY <1>2, <4>2, <4>3, GoneStays DEF HNext
    <3> QED
      BY <3>1, <3>2
  <2> QED
    BY <2>1, <2>2 DEF Quietness
<1> QED
  BY <1>1, <1>2

\* If L2 can delete, a delete that nothing else ran beside on its key removes
\* the blob from both tiers until somebody uploads it again: no look-up, job,
\* eviction, failed read or restart later brings it back.
THEOREM LayeredQuietDelete ==
  ASSUME DeletesL2
  PROVE  HSpec => []QuietDeleteSticks
<1>1. HInit => IInv /\ Sightings /\ Quietness
  BY InitInv DEF HInit, Init, Sightings, Sighted, Past, Reading, Quietness, Undisturbed
<1>2. IInv /\ Sightings /\ Quietness /\ [HNext]_hvars => IInv' /\ Sightings' /\ Quietness'
  <2>1. [HNext]_hvars => [Next]_vars
    BY DEF HNext, hvars
  <2> QED
    BY <2>1, NextInv, SightingsStep, QuietnessStep
<1>3. Quietness => QuietDeleteSticks
  BY DEF Quietness, Gone, QuietDeleteSticks
<1> QED
  BY <1>1, <1>2, <1>3, PTL DEF HSpec

\* The history only observes: what is proved of LayeredBackend holds with it.
THEOREM LayeredHistoryObserves == HSpec => FairSpec
<1>1. HInit => Init
  BY DEF HInit
<1>2. [HNext]_hvars => [Next]_vars
  BY DEF HNext, hvars
<1> QED
  BY <1>1, <1>2, PTL DEF HSpec, FairSpec, Spec
=============================================================================
