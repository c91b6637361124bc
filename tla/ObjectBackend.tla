---------------------------- MODULE ObjectBackend ----------------------------
(***************************************************************************)
(* The S3 and the GCS backend (s3_backend.rs, gcs_backend.rs): put() and   *)
(* delete() against an object store.                                       *)
(*                                                                         *)
(* The store is external.  It replaces an object as a whole when a PUT or  *)
(* the completion of a multipart upload is carried out, which may be after *)
(* the client gave the request up.  A body that says it is long goes up in *)
(* parts, as it is read; the store refuses to assemble parts that are too  *)
(* small, the last one excepted.  S3Backend makes a part of whatever one   *)
(* read returns; GcsBackend fills a buffer first.                          *)
(*                                                                         *)
(* Lengths are in units of which MinPart make 5 MiB.  Nothing is verified. *)
(***************************************************************************)
EXTENDS Naturals, FiniteSets

CONSTANTS
  Puts,        \* calls of put() and delete() that may run at the same time
  Keys,        \* object paths, of kind and hash
  Bodies,      \* what clients bring
  Size,        \* Size[b]: the length of b
  MaxSize,     \* bound of Size
  Claims,      \* the logical sizes that callers name (gRPC: the digest's)
  Threshold,   \* MULTIPART_THRESHOLD (100 MiB)
  Chunk,       \* the buffer of a read (8 MiB)
  MinPart,     \* the least size of a part but the last (5 MiB)
  WriterPart,  \* the parts that WriteMultipart cuts (5 MiB)
  Faults,      \* which of "body", "net", "cancel" happen
  NoBody       \* the body of no object

ASSUME ObjectAssumption ==
  /\ MaxSize \in Nat /\ Size \in [Bodies -> 1..MaxSize]
  /\ Claims \subseteq Nat /\ Threshold \in Nat
  /\ MinPart \in Nat \ {0} /\ Chunk \in Nat /\ Chunk >= MinPart
  /\ WriterPart \in Nat /\ WriterPart >= MinPart
  /\ NoBody \notin Bodies \union {"absent", "partial"}
  /\ Bodies \intersect {"absent", "partial"} = {}

VARIABLES
  store,     \* the configured backend, "s3" or "gcs": it never changes
  object,    \* object[k]: whose bytes the store has for k, and how many
  open,      \* the calls whose multipart upload the store holds open
  wire,      \* requests on their way that replace or remove an object
  pc,        \* pc[p]: the step call p is at
  job,       \* job[p]: its body, how far it is read, and its parts
  outcome    \* outcome[p]: how its last call ended, if all it asked for was done,
             \* and if a read had come short

ovars == <<store, object, open, wire, pc, job, outcome>>

NoObject == [body |-> NoBody, len |-> 0]

\* buffer: bytes read that are in no part; flying: parts under way; last: the
\* size of the last part; thin: a part too small has another one after it;
\* failed: a part has failed; short: a read gave less than there was room for.
NewJob(k, b) == [key |-> k, body |-> b, read |-> 0, buffer |-> 0, flying |-> 0,
                 last |-> 0, thin |-> FALSE, failed |-> FALSE, short |-> FALSE]

NoJob == NewJob("none", NoBody)

NoOutcome == [how |-> "none", done |-> FALSE, short |-> FALSE]

ObjectInit ==
  /\ store \in {"s3", "gcs"}
  /\ object = [k \in Keys |-> NoObject] /\ open = {} /\ wire = {}
  /\ pc = [p \in Puts |-> "idle"] /\ job = [p \in Puts |-> NoJob]
  /\ outcome = [p \in Puts |-> NoOutcome]

Goto(p, step) == pc' = [pc EXCEPT ![p] = step]

\* The call returns.  The code aborts no upload that is left open; whether
\* WriteMultipart does, when its completion fails, no property relies on.
Return(p, how, done) ==
  /\ Goto(p, "idle")
  /\ job' = [job EXCEPT ![p] = NoJob]
  /\ outcome' = [outcome EXCEPT ![p] = [how |-> how, done |-> done, short |-> job[p].short]]

Fail(p) == Return(p, "error", FALSE) /\ UNCHANGED <<object, open, wire>>

\* A call begins.  What an earlier call in this slot of Puts gave up may be on
\* the wire still, and is nobody's then (one such request is enough); an upload
\* that it left open is no longer followed.
Begin(p, step, k, b) ==
  /\ pc[p] = "idle" /\ \A m \in wire : ~(m.put = p /\ m.late)
  /\ wire' = {IF m.put = p THEN [m EXCEPT !.late = TRUE] ELSE m : m \in wire}
  /\ Goto(p, step)
  /\ job' = [job EXCEPT ![p] = NewJob(k, b)]
  /\ outcome' = [outcome EXCEPT ![p] = NoOutcome]
  /\ open' = open \ {p}
  /\ UNCHANGED object

\* put(): the size that the caller names decides, whatever the body will be.
Put(p, k, b, claim) == Begin(p, IF claim > Threshold THEN "create" ELSE "whole", k, b)

\* PUT /cache/KIND/HASH: the size is the Content-Length, that of the body.
PutCache(p, k, b) == Put(p, k, b, Size[b])

Delete(p, k) == Begin(p, "delete", k, NoBody)

-----------------------------------------------------------------------------
(* A multipart upload *)

\* put_multipart(): an upload whose answer is lost stays open.
Create(p) ==
  /\ pc[p] = "create"
  /\ \/ /\ Goto(p, "read") /\ open' = open \union {p}
        /\ UNCHANGED <<job, outcome>>
     \/ /\ "net" \in Faults
        /\ open' \in {open, open \union {p}}
        /\ Return(p, "error", FALSE)
  /\ UNCHANGED <<object, wire>>

Least(m, n) == IF m <= n THEN m ELSE n

\* A read gives what has arrived, the whole buffer full or less.
Room(p) == Least(Chunk, Size[job[p].body] - job[p].read)

\* n more parts of the same size go up.
WithParts(j, n, size) ==
  IF n = 0 THEN j
  ELSE [j EXCEPT !.flying = j.flying + n, !.last = size,
                 !.thin = j.thin \/ j.last \in 1..(MinPart - 1)
                            \/ (n > 1 /\ size < MinPart)]

\* The job when n more bytes are read.
Advanced(p, n) ==
  [job[p] EXCEPT !.read = job[p].read + n, !.short = job[p].short \/ n < Room(p)]

\* S3Backend: what was read is a part, and is waited for.
SendPart(p, n) ==
  /\ store = "s3"
  /\ job' = [job EXCEPT ![p] = WithParts(Advanced(p, n), 1, n)]
  /\ Goto(p, "part")

\* Mutant: what was read goes up at once.
WriteThrough(p, n) ==
  /\ store = "gcs"
  /\ job' = [job EXCEPT ![p] = WithParts(Advanced(p, n), 1, n)]
  /\ UNCHANGED pc

\* GcsBackend: WriteMultipart::write() sends a part whenever its buffer is
\* full, and waits for none.
WriteBuffered(p, n) ==
  LET bytes == job[p].buffer + n IN
  /\ store = "gcs"
  /\ job' = [job EXCEPT ![p] = WithParts([Advanced(p, n) EXCEPT !.buffer = bytes % WriterPart],
                                         bytes \div WriterPart, WriterPart)]
  /\ UNCHANGED pc

ReadPart(p) ==
  /\ pc[p] = "read"
  /\ \E n \in 1..Room(p) : SendPart(p, n) \/ WriteBuffered(p, n)
  /\ UNCHANGED <<object, open, wire, outcome>>

\* A part is there, or it is not.  S3Backend returns the error; WriteMultipart
\* keeps it for finish().
PartDone(p) ==
  /\ job[p].flying > 0
  /\ \/ /\ job' = [job EXCEPT ![p].flying = job[p].flying - 1]
        /\ IF pc[p] = "part" THEN Goto(p, "read") ELSE UNCHANGED pc
        /\ UNCHANGED <<object, open, wire, outcome>>
     \/ /\ "net" \in Faults /\ pc[p] = "part"
        /\ Fail(p)
     \/ /\ "net" \in Faults /\ pc[p] # "part"
        /\ job' = [job EXCEPT ![p].flying = job[p].flying - 1, ![p].failed = TRUE]
        /\ UNCHANGED <<object, open, wire, pc, outcome>>

\* What is left in WriteMultipart's buffer is the last part.
LastPart(j) == WithParts([j EXCEPT !.buffer = 0], Least(j.buffer, 1), j.buffer)

\* Mutant: an error of the reader is taken for the end of the body.
BodyEndsSomehow(p) ==
  /\ pc[p] = "read"
  /\ job[p].read = Size[job[p].body] \/ "body" \in Faults
  /\ Goto(p, "finish")
  /\ job' = [job EXCEPT ![p] = LastPart(job[p])]
  /\ UNCHANGED <<object, open, wire, outcome>>

\* read() returns 0.
BodyEnds(p) ==
  /\ pc[p] = "read" /\ job[p].read = Size[job[p].body]
  /\ Goto(p, "finish")
  /\ job' = [job EXCEPT ![p] = LastPart(job[p])]
  /\ UNCHANGED <<object, open, wire, outcome>>

\* The body is read no further.  (The parts under way are dropped with the
\* upload, which the store keeps.)
BodyBreaks(p) == "body" \in Faults /\ pc[p] \in {"read", "whole"} /\ Fail(p)

-----------------------------------------------------------------------------
(* Requests that change what is visible *)

\* The request carries, or completes, the first len bytes of the body.
Send(p, what, len) ==
  /\ wire' = wire \union {[put |-> p, what |-> what, key |-> job[p].key,
                           body |-> job[p].body, len |-> len, thin |-> job[p].thin,
                           late |-> FALSE]}
  /\ Goto(p, "wait")
  /\ UNCHANGED <<object, open, job, outcome>>

\* What the parts that are there make up: less than the body without the one
\* that failed.
Uploaded(j) == IF j.failed THEN j.read - 1 ELSE j.read

\* Mutant: an error of a part is lost.
CompleteAnyway(p) ==
  /\ pc[p] = "finish" /\ job[p].flying = 0
  /\ Send(p, "complete", Uploaded(job[p]))

\* complete(), when all the parts are there.
Complete(p) ==
  /\ pc[p] = "finish" /\ job[p].flying = 0
  /\ IF job[p].failed THEN Fail(p) ELSE Send(p, "complete", Uploaded(job[p]))

\* A small body is read to its end, and goes up as one.
SendWhole(p) == pc[p] = "whole" /\ Send(p, "put", Size[job[p].body])

SendDelete(p) == pc[p] = "delete" /\ Send(p, "delete", 0)

\* The code's reading of an answer; deleting what is not there is fine.
Result(answer) == IF answer = "done" THEN "ok" ELSE answer

\* The answer to m, if its sender still waits.
Answer(m, answer, done) ==
  /\ wire' = wire \ {m}
  /\ IF pc[m.put] = "wait" /\ ~m.late THEN Return(m.put, Result(answer), done)
     ELSE UNCHANGED <<pc, job, outcome>>

\* All of what the caller wanted: the whole body, or the object gone.
AllOf(m) == m.what = "delete" \/ m.len = Size[m.body]

\* The store carries m out; the answer may be lost.
Serve(m) ==
  /\ m \in wire /\ (m.what = "complete" => ~m.thin)
  /\ object' = [object EXCEPT ![m.key] = IF m.what = "delete" THEN NoObject
                                         ELSE [body |-> m.body, len |-> m.len]]
  /\ open' = IF m.what = "complete" /\ ~m.late THEN open \ {m.put} ELSE open
  /\ \/ Answer(m, "done", AllOf(m))
     \/ "net" \in Faults /\ Answer(m, "error", AllOf(m))

\* It does not: a part was too small, or the request is lost.
Reject(m) ==
  /\ m \in wire
  /\ \/ m.what = "complete" /\ m.thin /\ Answer(m, "refused", FALSE)
     \/ "net" \in Faults /\ Answer(m, "error", FALSE)
  /\ UNCHANGED <<object, open>>

\* The client's time is up, whatever becomes of the request.
TimeOut(p) == "net" \in Faults /\ pc[p] = "wait" /\ Fail(p)

\* The handler is dropped.
Cancel(p) ==
  /\ "cancel" \in Faults /\ pc[p] # "idle"
  /\ Return(p, "dropped", FALSE)
  /\ UNCHANGED <<object, open, wire>>

Request(p) ==
  \E k \in Keys : \/ Delete(p, k)
                  \/ \E b \in Bodies : PutCache(p, k, b) \/ \E c \in Claims : Put(p, k, b, c)

Upload(p) == \/ Create(p) \/ ReadPart(p) \/ PartDone(p) \/ BodyEnds(p) \/ BodyBreaks(p)
             \/ Complete(p) \/ SendWhole(p) \/ SendDelete(p) \/ TimeOut(p)

ObjectNext ==
  /\ \/ \E p \in Puts : Request(p) \/ Upload(p) \/ Cancel(p)
     \/ \E m \in wire : Serve(m) \/ Reject(m)
  /\ UNCHANGED store

-----------------------------------------------------------------------------
(* Properties *)

Contents == {NoObject} \union [body : Bodies, len : 0..MaxSize]

Job == [key : Keys \union {"none"}, body : Bodies \union {NoBody}, read : 0..MaxSize,
        buffer : 0..(WriterPart - 1), flying : Nat, last : Nat,
        thin : BOOLEAN, failed : BOOLEAN, short : BOOLEAN]

Outcome == [how : {"none", "ok", "error", "refused", "dropped"},
            done : BOOLEAN, short : BOOLEAN]

Steps == {"idle", "create", "read", "part", "finish", "whole", "delete", "wait"}

Message == [put : Puts, what : {"put", "complete", "delete"}, key : Keys,
            body : Bodies \union {NoBody}, len : 0..MaxSize, thin : BOOLEAN, late : BOOLEAN]

\* The types of the store's objects and uploads, the wire and the calls.
ObjectTypeOK ==
  /\ store \in {"s3", "gcs"}
  /\ object \in [Keys -> Contents] /\ open \subseteq Puts
  /\ wire \subseteq Message
  /\ pc \in [Puts -> Steps]
  /\ job \in [Puts -> Job]
  /\ outcome \in [Puts -> Outcome]

\* What get() would be served for k.
Blob(k) ==
  IF object[k] = NoObject THEN "absent"
  ELSE IF object[k].len = Size[object[k].body] THEN object[k].body ELSE "partial"

Visible == [k \in Keys |-> Blob(k)]

Store == INSTANCE BlobStore
           WITH blob <- Visible, Accepted <- Bodies, Losses <- {{k} : k \in Keys}

\* The store is a StorageBackend that takes any body: whatever breaks, is given
\* up, comes late or runs beside it, an upload becomes visible in one step and
\* whole, never as a prefix.
ImplementsBlobStore == Store!Spec

\* put() does not say Ok too early: all of the body has been visible by then,
\* and the upload it opened is closed.
OkMeansStored ==
  \A p \in Puts : outcome[p].how = "ok" => outcome[p].done /\ p \notin open

\* A long body is refused for a part that is too small only by S3Backend, and
\* only if a read came short in the middle of it: GcsBackend's buffer makes up
\* for readers that give little at a time.
RefusedOnlyIfShort ==
  \A p \in Puts : outcome[p].how = "refused" => store = "s3" /\ outcome[p].short
=============================================================================
