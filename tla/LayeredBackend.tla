--------------------------- MODULE LayeredBackend ---------------------------
(***************************************************************************)
(* The two-tier cache (layered.rs): a fast L1 in front of an L2, a bounded *)
(* queue of propagation jobs, and the background task that serves it.      *)
(*                                                                         *)
(* A tier is any StorageBackend.  Its get() takes effect when it opens the *)
(* stream, which keeps what it opened; its put() takes effect at the end   *)
(* of the stream, or not at all.  A tier that verifies hashes (the disk)   *)
(* refuses a corrupt body; one that does not (S3, GCS, SQLite) keeps it.   *)
(* Every await of the code is a step boundary.                             *)
(***************************************************************************)
EXTENDS Naturals, Sequences, FiniteSets

CONSTANTS
  Handlers,      \* requests that may run at the same time
  Keys,          \* the blobs
  Oversized,     \* those above write_through_limit
  Capacity,      \* L2_CHANNEL_CAPACITY (16 in the code)
  Bodies,        \* what clients upload: "whole", "corrupt"
  Ops,           \* the operations clients call
  SizeKnown,     \* whether a get names the size: TRUE, FALSE or both
  Verify1,       \* L1 refuses a body that does not have the hash
  Verify2,       \* L2 does
  DeletesL2,     \* L2 can delete (GhaBackend::delete does nothing)
  Faults         \* which faults happen

Operations == {"put", "get", "contains", "delete"}

ASSUME LayeredAssumption ==
  /\ Oversized \subseteq Keys
  /\ Capacity \in Nat \ {0}
  /\ Bodies \subseteq {"whole", "corrupt"}
  /\ Ops \subseteq Operations /\ SizeKnown \subseteq BOOLEAN
  /\ Verify1 \in BOOLEAN /\ Verify2 \in BOOLEAN /\ DeletesL2 \in BOOLEAN
  /\ Faults \subseteq {"l1get", "l1put", "l2get", "l2read", "l2put", "delete",
                       "evict1", "evict2", "cancel", "restart"}

VARIABLES
  l1, l2,    \* what each tier holds for a key
  queue,     \* the channel: keys whose L1 entry is to be copied to L2
  task,      \* the background task: its step, its job, its open stream
  pc,        \* pc[h]: where handler h is
  req,       \* req[h]: the request h serves, with the bytes it holds
  reply      \* reply[h]: what the last request of h returned

tiers == <<l1, l2>>
vars  == <<l1, l2, queue, task, pc, req, reply>>

Copy == {"absent", "whole", "corrupt"}

Idle   == [at |-> "recv", key |-> "none", stream |-> "absent"]
NoReq  == [key |-> "none", buf |-> "absent", known |-> TRUE, left |-> {}, failed |-> FALSE]

Init ==
  /\ l1 = [k \in Keys |-> "absent"] /\ l2 = [k \in Keys |-> "absent"]
  /\ queue = <<>> /\ task = Idle
  /\ pc = [h \in Handlers |-> "idle"]
  /\ req = [h \in Handlers |-> NoReq] /\ reply = [h \in Handlers |-> "none"]

Fault(f) == f \in Faults

\* A put() of this body into a tier is accepted.
Accepts(verifies, body) == verifies => body = "whole"

Goto(h, label) == pc' = [pc EXCEPT ![h] = label]

Return(h, answer) ==
  /\ Goto(h, "idle")
  /\ req' = [req EXCEPT ![h] = NoReq]
  /\ reply' = [reply EXCEPT ![h] = answer]

Start(h, label, request) ==
  /\ pc[h] = "idle"
  /\ Goto(h, label)
  /\ req' = [req EXCEPT ![h] = request]
  /\ reply' = [reply EXCEPT ![h] = "none"]
  /\ UNCHANGED <<tiers, queue, task>>

-----------------------------------------------------------------------------
(* put() *)

Put(h, k, body) ==
  "put" \in Ops /\ Start(h, "put1", [NoReq EXCEPT !.key = k, !.buf = body])

\* Mutant: the body goes to both tiers at once.
PutBoth(h) ==
  /\ pc[h] = "put1"
  /\ l2' = [l2 EXCEPT ![req[h].key] = req[h].buf]
  /\ \/ /\ Accepts(Verify1, req[h].buf)
        /\ l1' = [l1 EXCEPT ![req[h].key] = req[h].buf]
        /\ Goto(h, "enqueue")
        /\ UNCHANGED <<req, reply>>
     \/ /\ ~Accepts(Verify1, req[h].buf)
        /\ Return(h, "error")
        /\ UNCHANGED l1
  /\ UNCHANGED <<queue, task>>

\* l1.put has consumed the stream, and kept it or failed.
PutL1(h) ==
  /\ pc[h] = "put1"
  /\ \/ /\ Accepts(Verify1, req[h].buf)
        /\ l1' = [l1 EXCEPT ![req[h].key] = req[h].buf]
        /\ Goto(h, "enqueue")
        /\ UNCHANGED <<req, reply>>
     \/ /\ ~Accepts(Verify1, req[h].buf) \/ Fault("l1put")
        /\ Return(h, "error")
        /\ UNCHANGED l1
  /\ UNCHANGED <<l2, queue, task>>

\* Mutant: an unbounded queue.
EnqueueAlways(h) ==
  /\ pc[h] = "enqueue"
  /\ queue' = Append(queue, req[h].key)
  /\ Return(h, "ok")
  /\ UNCHANGED <<tiers, task>>

\* try_send: a full queue drops the job, and the client is not told.
Enqueue(h) ==
  /\ pc[h] = "enqueue"
  /\ queue' = IF Len(queue) < Capacity THEN Append(queue, req[h].key) ELSE queue
  /\ Return(h, "ok")
  /\ UNCHANGED <<tiers, task>>

-----------------------------------------------------------------------------
(* get() *)

Get(h, k, known) ==
  "get" \in Ops /\ Start(h, "get1", [NoReq EXCEPT !.key = k, !.known = known])

\* An L1 error is taken for a miss.
GetL1(h) ==
  LET k == req[h].key IN
  /\ pc[h] = "get1"
  /\ \/ /\ l1[k] # "absent"
        /\ Return(h, l1[k])
     \/ /\ l1[k] = "absent" \/ Fault("l1get")
        /\ Goto(h, "get2")
        /\ UNCHANGED <<req, reply>>
  /\ UNCHANGED <<tiers, queue, task>>

\* A blob whose stated size is over the limit is streamed from L2.
GetL2(h) ==
  LET k == req[h].key
      bypass == k \in Oversized /\ req[h].known IN
  /\ pc[h] = "get2"
  /\ \/ /\ Fault("l2get")
        /\ Return(h, "error")
     \/ /\ l2[k] = "absent"
        /\ Return(h, "miss")
     \/ /\ l2[k] # "absent" /\ bypass
        /\ Return(h, l2[k])
     \/ /\ l2[k] # "absent" /\ ~bypass
        /\ req' = [req EXCEPT ![h].buf = l2[k]]
        /\ Goto(h, "drain")
        /\ UNCHANGED reply
  /\ UNCHANGED <<tiers, queue, task>>

\* read_to_end of the L2 stream.
Drain(h) ==
  /\ pc[h] = "drain"
  /\ \/ Goto(h, "store1")
     \/ Fault("l2read") /\ Goto(h, "reget2")
  /\ UNCHANGED <<tiers, queue, task, req, reply>>

\* Mutant: an entry that could not be read is not looked for again.
RegetNothing(h) ==
  /\ pc[h] = "reget2"
  /\ Return(h, "miss")
  /\ UNCHANGED <<tiers, queue, task>>

\* The fallback after a failed read: whatever l2.get answers now.
RegetL2(h) ==
  LET k == req[h].key IN
  /\ pc[h] = "reget2"
  /\ \/ Return(h, IF l2[k] = "absent" THEN "miss" ELSE l2[k])
     \/ Fault("l2get") /\ Return(h, "error")
  /\ UNCHANGED <<tiers, queue, task>>

\* Write-back; if L1 refuses it, the buffer is served all the same.
StoreL1(h) ==
  LET buf == req[h].buf IN
  /\ pc[h] = "store1"
  /\ \/ /\ Accepts(Verify1, buf)
        /\ l1' = [l1 EXCEPT ![req[h].key] = buf]
        /\ Goto(h, "back1")
        /\ UNCHANGED <<req, reply>>
     \/ /\ ~Accepts(Verify1, buf) \/ Fault("l1put")
        /\ Return(h, buf)
        /\ UNCHANGED l1
  /\ UNCHANGED <<l2, queue, task>>

\* Serve from L1 if it still has the entry, else from the buffer.
BackL1(h) ==
  LET k == req[h].key IN
  /\ pc[h] = "back1"
  /\ \/ l1[k] # "absent" /\ Return(h, l1[k])
     \/ (l1[k] = "absent" \/ Fault("l1get")) /\ Return(h, req[h].buf)
  /\ UNCHANGED <<tiers, queue, task>>

-----------------------------------------------------------------------------
(* contains() and delete() *)

Contains(h, k) ==
  "contains" \in Ops /\ Start(h, "has1", [NoReq EXCEPT !.key = k])

\* Unlike in get(), an L1 error is the answer.
HasL1(h) ==
  /\ pc[h] = "has1"
  /\ \/ l1[req[h].key] # "absent" /\ Return(h, "found")
     \/ Fault("l1get") /\ Return(h, "error")
     \/ l1[req[h].key] = "absent" /\ Goto(h, "has2") /\ UNCHANGED <<req, reply>>
  /\ UNCHANGED <<tiers, queue, task>>

HasL2(h) ==
  /\ pc[h] = "has2"
  /\ \/ Return(h, IF l2[req[h].key] = "absent" THEN "miss" ELSE "found")
     \/ Fault("l2get") /\ Return(h, "error")
  /\ UNCHANGED <<tiers, queue, task>>

Delete(h, k) ==
  "delete" \in Ops /\ Start(h, "del", [NoReq EXCEPT !.key = k, !.left = {1, 2}])

\* One of the two deletes that join! runs; it may fail, the other still runs.
DeleteTier(h, t) ==
  LET k == req[h].key
      erased == [l \in {1, 2} |-> t = l /\ (l = 2 => DeletesL2)] IN
  /\ pc[h] = "del" /\ t \in req[h].left
  /\ \/ /\ l1' = IF erased[1] THEN [l1 EXCEPT ![k] = "absent"] ELSE l1
        /\ l2' = IF erased[2] THEN [l2 EXCEPT ![k] = "absent"] ELSE l2
        /\ req' = [req EXCEPT ![h].left = @ \ {t}]
     \/ /\ Fault("delete")
        /\ req' = [req EXCEPT ![h].left = @ \ {t}, ![h].failed = TRUE]
        /\ UNCHANGED tiers
  /\ UNCHANGED <<queue, task, pc, reply>>

\* Mutant: the first of the two deletes to end is taken for both.
EndDeleteEarly(h) ==
  /\ pc[h] = "del" /\ req[h].left # {1, 2}
  /\ Return(h, IF req[h].failed THEN "error" ELSE "ok")
  /\ UNCHANGED <<tiers, queue, task>>

\* join! is done: r1?; r2?.
EndDelete(h) ==
  /\ pc[h] = "del" /\ req[h].left = {}
  /\ Return(h, IF req[h].failed THEN "error" ELSE "ok")
  /\ UNCHANGED <<tiers, queue, task>>

-----------------------------------------------------------------------------
(* The background task *)

Receive ==
  /\ task.at = "recv" /\ queue # <<>>
  /\ task' = [Idle EXCEPT !.at = "open", !.key = Head(queue)]
  /\ queue' = Tail(queue)
  /\ UNCHANGED <<tiers, pc, req, reply>>

\* Mutant: an entry that is gone ends the task, not only the job.
OpenL1Breaks ==
  /\ task.at = "open"
  /\ task' = IF l1[task.key] # "absent"
             THEN [task EXCEPT !.at = "copy", !.stream = l1[task.key]]
             ELSE [Idle EXCEPT !.at = "ended"]
  /\ UNCHANGED <<tiers, queue, pc, req, reply>>

\* l1.get: the entry may have left L1 by now; the job is then over.
OpenL1 ==
  /\ task.at = "open"
  /\ \/ /\ l1[task.key] # "absent"
        /\ task' = [task EXCEPT !.at = "copy", !.stream = l1[task.key]]
     \/ /\ l1[task.key] = "absent" \/ Fault("l1get")
        /\ task' = Idle
  /\ UNCHANGED <<tiers, queue, pc, req, reply>>

\* l2.put of that stream, done or failed; a failed job is not tried again.
CopyToL2 ==
  /\ task.at = "copy"
  /\ \/ /\ Accepts(Verify2, task.stream)
        /\ l2' = [l2 EXCEPT ![task.key] = task.stream]
     \/ /\ ~Accepts(Verify2, task.stream) \/ Fault("l2put")
        /\ UNCHANGED l2
  /\ task' = Idle
  /\ UNCHANGED <<l1, queue, pc, req, reply>>

-----------------------------------------------------------------------------
(* What the tiers and the process do on their own *)

Evict(k) ==
  /\ \/ Fault("evict1") /\ l1' = [l1 EXCEPT ![k] = "absent"] /\ UNCHANGED l2
     \/ Fault("evict2") /\ l2' = [l2 EXCEPT ![k] = "absent"] /\ UNCHANGED l1
  /\ UNCHANGED <<queue, task, pc, req, reply>>

\* The client goes away: the handler stops at its await.
Cancel(h) ==
  /\ Fault("cancel") /\ pc[h] # "idle"
  /\ Return(h, "none")
  /\ UNCHANGED <<tiers, queue, task>>

\* The process stops; the queue and the task's job are only in memory.
Restart ==
  /\ Fault("restart")
  /\ queue' = <<>> /\ task' = Idle
  /\ pc' = [h \in Handlers |-> "idle"]
  /\ req' = [h \in Handlers |-> NoReq] /\ reply' = [h \in Handlers |-> "none"]
  /\ UNCHANGED tiers

-----------------------------------------------------------------------------

Begin(h) == \E k \in Keys : \/ \E body \in Bodies : Put(h, k, body)
                            \/ \E known \in SizeKnown : Get(h, k, known)
                            \/ Contains(h, k)
                            \/ Delete(h, k)

Work(h) == \/ PutL1(h) \/ Enqueue(h)
           \/ GetL1(h) \/ GetL2(h) \/ Drain(h) \/ RegetL2(h) \/ StoreL1(h) \/ BackL1(h)
           \/ HasL1(h) \/ HasL2(h)
           \/ \E t \in {1, 2} : DeleteTier(h, t)
           \/ EndDelete(h)

Background == Receive \/ OpenL1 \/ CopyToL2

Next == \/ \E h \in Handlers : Begin(h) \/ Work(h) \/ Cancel(h)
        \/ Background
        \/ \E k \in Keys : Evict(k)
        \/ Restart

Spec == Init /\ [][Next]_vars

\* Tokio polls the background task whenever it is ready, and the tiers answer.
Fairness == WF_vars(Background) /\ \A h \in Handlers : WF_vars(Work(h))

FairSpec == Spec /\ Fairness

-----------------------------------------------------------------------------
(* Properties *)

Request == [key : Keys \union {"none"}, buf : Copy, known : BOOLEAN,
            left : SUBSET {1, 2}, failed : BOOLEAN]

\* The types of the tiers, the queue, the task and the handlers.
TypeOK ==
  /\ l1 \in [Keys -> Copy] /\ l2 \in [Keys -> Copy]
  /\ queue \in Seq(Keys) /\ Len(queue) <= Capacity
  /\ task \in [at : {"recv", "open", "copy"}, key : Keys \union {"none"}, stream : Copy]
  /\ pc \in [Handlers -> {"idle", "put1", "enqueue", "get1", "get2", "drain", "reget2",
                          "store1", "back1", "has1", "has2", "del"}]
  /\ req \in [Handlers -> Request]
  /\ reply \in [Handlers -> {"none", "ok", "error", "miss", "found", "whole", "corrupt"}]

\* Behind a verifying L1 nothing corrupt gets anywhere, though L2 may verify
\* nothing: not into a tier, and not to a client.  L2 is only ever fed from L1,
\* through a stream that is opened after L1 has verified the entry.
NothingCorrupt ==
  Verify1 => /\ \A k \in Keys : l1[k] # "corrupt" /\ l2[k] # "corrupt"
             /\ \A h \in Handlers : reply[h] # "corrupt"

\* What the two tiers hold together: a get() may be served from either.
Held ==
  [k \in Keys |-> CASE "corrupt" \in {l1[k], l2[k]} -> "corrupt"
                    [] "whole" \in {l1[k], l2[k]} /\ "corrupt" \notin {l1[k], l2[k]} -> "whole"
                    [] OTHER -> "absent"]

Store == INSTANCE BlobStore
           WITH blob <- Held, Losses <- {{k} : k \in Keys},
                Accepted <- {"whole"} \union (IF Verify1 THEN {} ELSE {"corrupt"})

\* Two StorageBackends make a StorageBackend again, which verifies if its L1
\* does: whatever is copied between the tiers, lost in one of them or deleted
\* tier by tier, a key has a body that put() accepted, or none.
ImplementsBlobStore == Store!Spec

\* The background task outlives its jobs: whatever becomes of one, the task
\* comes back for the next, and no job waits for ever in the queue.
QueueServed ==
  /\ task.at # "recv" ~> task.at = "recv"
  /\ queue # <<>> ~> (task.at = "open" \/ queue = <<>>)
=============================================================================
