--------------------------- MODULE BlobReads_proofs ---------------------------
(***************************************************************************)
(* Proofs about ObjectBackend and BlobReads, for any number of uploads and *)
(* downloads, any sizes and any faults: the object stores implement        *)
(* BlobStore, Ok is never said too early, a body is refused for its parts  *)
(* only where reads come short, and a download that ends well is complete. *)
(***************************************************************************)
EXTENDS BlobReads, TLAPS

\* What the object store has is whole.
ObjectsWhole ==
  \A k \in Keys : \/ object[k] = NoObject
                  \/ object[k].body \in Bodies /\ object[k].len = Size[object[k].body]

\* What is on its way is whole, and answers to a call that is in order.
MessageSound(m) ==
  /\ m.what # "delete" => m.body \in Bodies /\ m.len = Size[m.body]
  /\ m.thin => store = "s3"
  /\ pc[m.put] \notin {"idle", "wait"} => m.late
  /\ ~m.late /\ pc[m.put] = "wait" => /\ m.thin => job[m.put].short
                                      /\ m.what # "complete" => m.put \notin open

\* How far an upload is.
UploadSound(p) ==
  /\ pc[p] # "idle" => job[p].key \in Keys /\ outcome[p] = NoOutcome
  /\ pc[p] = "idle" => job[p] = NoJob
  /\ pc[p] \in {"create", "read", "part", "finish", "whole"} =>
       job[p].body \in Bodies /\ job[p].read <= Size[job[p].body]
  /\ pc[p] = "finish" => job[p].read = Size[job[p].body]
  /\ pc[p] = "part" => job[p].flying > 0 /\ store = "s3"
  /\ pc[p] \in {"create", "whole", "delete"} => p \notin open /\ ~job[p].thin
  /\ pc[p] \in {"create", "whole", "delete", "wait"} => job[p].flying = 0

\* A part that is too small comes of a read that came short, if it is not the
\* last one.
PartsSound(p) ==
  /\ store = "s3" => /\ job[p].buffer = 0
                     /\ job[p].thin => job[p].short
                     /\ /\ pc[p] \in {"create", "read", "part"} /\ job[p].last \in 1..(MinPart - 1)
                        /\ job[p].read < Size[job[p].body]
                        => job[p].short
  /\ store = "gcs" => /\ ~job[p].thin
                      /\ pc[p] \in {"create", "read"} => job[p].last \notin 1..(MinPart - 1)

\* How a call ended.
OutcomeSound(p) ==
  /\ outcome[p].how = "ok" => outcome[p].done /\ p \notin open
  /\ outcome[p].how = "refused" => store = "s3" /\ outcome[p].short

CallSound(p) ==
  /\ UploadSound(p) /\ PartsSound(p) /\ OutcomeSound(p)
  /\ \A m \in wire : m.put = p => MessageSound(m)

ObjectInv == ObjectTypeOK /\ ObjectsWhole /\ \A p \in Puts : CallSound(p)

\* The task of a download reads one whole body, from the offset on.
TaskSound(r) ==
  /\ at[r] \in {"head", "get", "skip", "loop", "send", "fail"} => reader[r].key \in Keys
  /\ at[r] \in {"get", "skip"} => reader[r].from = 0 /\ reader[r].pos = 0
  /\ at[r] = "get" => reader[r].body = NoBody
  /\ at[r] \in {"skip", "loop", "send", "fail"} =>
       reader[r].body \in Bodies /\ reader[r].len = Size[reader[r].body]
  /\ at[r] \in {"loop", "send", "fail"} =>
       /\ reader[r].offset <= reader[r].from /\ reader[r].from <= reader[r].pos
       /\ reader[r].pos <= reader[r].len
       /\ reader[r].limit > 0 => reader[r].pos - reader[r].offset <= reader[r].limit
  /\ at[r] \in {"loop", "fail"} => reader[r].from = reader[r].pos

\* The messages in the channel join what the client has to what is sent.
Chain(r) ==
  LET c == channel[r] IN
  /\ \A i \in 1..(Len(c) - 1) : c[i] # Broken /\ (c[i + 1] # Broken => c[i + 1][1] = c[i][2])
  /\ c = <<>> => reader[r].offset + client[r].got = reader[r].from
  /\ c # <<>> => /\ c[1] # Broken => c[1][1] = reader[r].offset + client[r].got
                 /\ c[Len(c)] # Broken => c[Len(c)][2] = reader[r].from
                 /\ c[Len(c)] = Broken => at[r] = "idle"

\* The task has come to the end of what was asked for.
Finished(r) ==
  /\ reader[r].body \in Bodies /\ reader[r].len = Size[reader[r].body]
  /\ reader[r].offset <= reader[r].pos /\ reader[r].pos <= reader[r].len
  /\ reader[r].limit > 0 => reader[r].pos - reader[r].offset <= reader[r].limit
  /\ reader[r].from = reader[r].pos /\ Remaining(r) = 0

DownloadSound(r) ==
  /\ TaskSound(r)
  /\ Listening(r) /\ at[r] \in {"head", "get", "skip"} => channel[r] = <<>> /\ client[r].got = 0
  /\ Listening(r) /\ at[r] \in {"loop", "send", "fail"} => Chain(r)
  /\ Listening(r) /\ at[r] = "idle" =>
       \/ reader[r].key = Empty /\ channel[r] = <<>> /\ client[r].got = 0
       \/ Chain(r) /\ (Finished(r) \/ (channel[r] # <<>> /\ channel[r][Len(channel[r])] = Broken))

Inv == ObjectInv /\ TypeOK /\ \A r \in Readers : DownloadSound(r)
-----------------------------------------------------------------------------
(* The object stores *)

LEMMA NoJobType == NoJob \in Job /\ NoOutcome \in Outcome
  BY ObjectAssumption DEF NoJob, NewJob, Job, NoOutcome, Outcome

\* A step of one call, or of a request of it, leaves the others as they were.
LEMMA StepOfOne ==
  ASSUME ObjectInv, NEW p \in Puts, UNCHANGED store, ObjectTypeOK', ObjectsWhole',
         \A q \in Puts \ {p} : /\ pc'[q] = pc[q] /\ job'[q] = job[q] /\ outcome'[q] = outcome[q]
                               /\ q \in open' <=> q \in open,
         \A m \in wire' : m.put # p => m \in wire,
         CallSound(p)'
  PROVE  ObjectInv'
<1> SUFFICES ASSUME NEW q \in Puts, q # p
             PROVE  CallSound(q)'
  BY DEF ObjectInv
<1>1. CallSound(q)
  BY DEF ObjectInv
<1>2. UploadSound(q)'
  BY <1>1 DEF CallSound, UploadSound
<1>3. PartsSound(q)'
  BY <1>1 DEF CallSound, PartsSound
<1>4. OutcomeSound(q)'
  BY <1>1 DEF CallSound, OutcomeSound
<1>5. ASSUME NEW m \in wire', m.put = q
      PROVE  MessageSound(m)'
  BY <1>1, <1>5 DEF CallSound, MessageSound
<1> QED
  BY <1>2, <1>3, <1>4, <1>5 DEF CallSound

\* A call that has returned leaves no job.
LEMMA NoJobSound ==
  ASSUME NEW p \in Puts, pc'[p] = "idle", job'[p] = NoJob
  PROVE  PartsSound(p)'
BY ObjectAssumption DEF PartsSound, NoJob, NewJob

\* What Return() does.
LEMMA Returned ==
  ASSUME ObjectTypeOK, NEW p \in Puts, NEW how \in {"ok", "error", "refused", "dropped"},
         NEW done \in BOOLEAN, Return(p, how, done)
  PROVE  /\ pc' \in [Puts -> Steps] /\ job' \in [Puts -> Job] /\ outcome' \in [Puts -> Outcome]
         /\ pc'[p] = "idle" /\ job'[p] = NoJob
         /\ outcome'[p].how = how /\ (done => outcome'[p].done)
         /\ job[p].short => outcome'[p].short
         /\ \A q \in Puts \ {p} : pc'[q] = pc[q] /\ job'[q] = job[q] /\ outcome'[q] = outcome[q]
<1>1. [how |-> how, done |-> done, short |-> job[p].short] \in Outcome
  <2>1. job[p].short \in BOOLEAN
    BY DEF ObjectTypeOK, Job
  <2> QED
    BY <2>1 DEF Outcome
<1>2. "idle" \in Steps
  BY DEF Steps
<1>3. outcome' = [outcome EXCEPT ![p] = [how |-> how, done |-> done, short |-> job[p].short]]
  BY DEF Return
<1>4. outcome' \in [Puts -> Outcome]
  BY <1>1, <1>3 DEF ObjectTypeOK
<1>5. outcome'[p].how = how /\ (done => outcome'[p].done) /\ (job[p].short => outcome'[p].short)
  BY <1>3 DEF ObjectTypeOK
<1> QED
  BY <1>2, <1>3, <1>4, <1>5, NoJobType DEF ObjectTypeOK, Return, Goto

\* A call that returns with nothing to boast of is sound, whatever it leaves.
LEMMA ReturnSound ==
  ASSUME ObjectInv, NEW p \in Puts, NEW how \in {"error", "dropped"}, NEW done \in BOOLEAN,
         Return(p, how, done), UNCHANGED <<store, object>>,
         open' \in SUBSET (open \union {p}), open \ {p} \subseteq open', wire' \in SUBSET wire
  PROVE  ObjectInv'
<1>1. /\ pc' \in [Puts -> Steps] /\ job' \in [Puts -> Job] /\ outcome' \in [Puts -> Outcome]
      /\ pc'[p] = "idle" /\ job'[p] = NoJob
      /\ outcome'[p].how = how
      /\ \A q \in Puts \ {p} : pc'[q] = pc[q] /\ job'[q] = job[q] /\ outcome'[q] = outcome[q]
  BY Returned DEF ObjectInv
<1>2. ObjectTypeOK' /\ ObjectsWhole'
  BY <1>1 DEF ObjectInv, ObjectTypeOK, ObjectsWhole
<1>3. UploadSound(p)'
  BY <1>1 DEF UploadSound
<1>7. OutcomeSound(p)'
  <2>1. outcome'[p].how = how
    BY <1>1
  <2> QED
    BY <2>1 DEF OutcomeSound
<1>4. PartsSound(p)'
  BY <1>1, NoJobSound
<1>5. \A m \in wire' : m.put = p => MessageSound(m)'
  BY <1>1 DEF ObjectInv, CallSound, MessageSound
<1>6. CallSound(p)'
  BY <1>3, <1>4, <1>5, <1>7 DEF CallSound
<1> QED
  BY <1>1, <1>2, <1>6, StepOfOne

\* A call begins.
LEMMA BeginKeeps ==
  ASSUME ObjectInv, NEW p \in Puts, NEW step \in {"create", "whole", "delete"}, NEW k \in Keys,
         NEW b \in Bodies \union {NoBody}, step # "delete" => b \in Bodies,
         Begin(p, step, k, b), UNCHANGED store
  PROVE  ObjectInv'
<1> DEFINE fresh == NewJob(k, b)
<1>1. /\ fresh \in Job /\ fresh.key = k /\ fresh.body = b /\ fresh.read = 0 /\ fresh.buffer = 0
      /\ fresh.last = 0 /\ fresh.flying = 0 /\ ~fresh.thin
  BY ObjectAssumption DEF NewJob, Job
<1>2. step \in Steps
  BY DEF Steps
<1>3. pc' = [pc EXCEPT ![p] = step] /\ job' = [job EXCEPT ![p] = fresh]
      /\ outcome' = [outcome EXCEPT ![p] = NoOutcome] /\ open' = open \ {p} /\ object' = object
  BY DEF Begin, Goto
<1> HIDE DEF fresh
<1>4. /\ pc' \in [Puts -> Steps] /\ job' \in [Puts -> Job] /\ outcome' \in [Puts -> Outcome]
      /\ open' \subseteq Puts /\ object' \in [Keys -> Contents]
      /\ pc'[p] = step /\ job'[p] = fresh /\ outcome'[p] = NoOutcome
      /\ \A q \in Puts \ {p} : /\ pc'[q] = pc[q] /\ job'[q] = job[q] /\ outcome'[q] = outcome[q]
                               /\ q \in open' <=> q \in open
  BY <1>1, <1>2, <1>3, NoJobType DEF ObjectInv, ObjectTypeOK
<1>5. \A m \in wire : m \in Message /\ [m EXCEPT !.late = TRUE] \in Message
  BY DEF ObjectInv, ObjectTypeOK, Message
<1>6. wire' = {IF m.put = p THEN [m EXCEPT !.late = TRUE] ELSE m : m \in wire}
  BY DEF Begin
<1>7. wire' \subseteq Message
  BY <1>5, <1>6
<1>8. \A m \in wire' : m.put # p => m \in wire
  BY <1>5, <1>6 DEF Message
<1>9. ASSUME NEW m \in wire', m.put = p
      PROVE  MessageSound(m)'
  <2>1. PICK m2 \in wire : m2.put = p /\ m = [m2 EXCEPT !.late = TRUE]
    BY <1>5, <1>6, <1>9 DEF Message
  <2>2. MessageSound(m2) /\ m2 \in Message
    BY <1>5, <2>1 DEF ObjectInv, CallSound
  <2>3. m.what = m2.what /\ m.body = m2.body /\ m.len = m2.len /\ m.thin = m2.thin /\ m.late
    BY <2>1, <2>2 DEF Message
  <2> QED
    BY <2>2, <2>3 DEF MessageSound
<1>10. ObjectTypeOK' /\ ObjectsWhole'
  BY <1>3, <1>4, <1>7 DEF ObjectInv, ObjectTypeOK, ObjectsWhole
<1>11. UploadSound(p)'
  <2>1. b \in Bodies => Size[b] \in Nat
    BY ObjectAssumption
  <2> QED
    BY <1>1, <1>3, <1>4, <2>1 DEF UploadSound
<1>12. PartsSound(p)' /\ OutcomeSound(p)'
  BY <1>1, <1>4, ObjectAssumption DEF PartsSound, OutcomeSound, NoOutcome
<1>13. CallSound(p)'
  BY <1>9, <1>11, <1>12 DEF CallSound
<1> QED
  BY <1>4, <1>8, <1>10, <1>13, StepOfOne

\* A call goes to another step with another job, and sends nothing.
LEMMA JobStep ==
  ASSUME ObjectInv, NEW p \in Puts, NEW step \in Steps \ {"idle"}, NEW j \in Job,
         pc' \in {pc, [pc EXCEPT ![p] = step]}, pc'[p] = step,
         job' = [job EXCEPT ![p] = j], j.key \in Keys, outcome[p] = NoOutcome,
         UNCHANGED <<store, object, wire, outcome>>,
         pc[p] \notin {"idle", "wait"},
         open' \in {open, open \union {p}}, step # "wait",
         UploadSound(p)', PartsSound(p)'
  PROVE  ObjectInv'
<1>1. /\ pc' \in [Puts -> Steps] /\ job' \in [Puts -> Job] /\ open' \subseteq Puts
      /\ job'[p] = j /\ outcome'[p] = NoOutcome
      /\ \A q \in Puts \ {p} : /\ pc'[q] = pc[q] /\ job'[q] = job[q] /\ outcome'[q] = outcome[q]
                               /\ q \in open' <=> q \in open
  BY DEF ObjectInv, ObjectTypeOK
<1>2. ObjectTypeOK' /\ ObjectsWhole'
  BY <1>1 DEF ObjectInv, ObjectTypeOK, ObjectsWhole
<1>3. OutcomeSound(p)'
  <2>1. outcome'[p].how = "none"
    BY <1>1 DEF NoOutcome
  <2> QED
    BY <2>1 DEF OutcomeSound
<1>4. \A m \in wire' : m.put = p => MessageSound(m)'
  BY <1>1 DEF ObjectInv, CallSound, MessageSound
<1>5. CallSound(p)'
  BY <1>3, <1>4 DEF CallSound
<1> QED
  BY <1>1, <1>2, <1>5, StepOfOne

LEMMA CreateKeeps ==
  ASSUME ObjectInv, NEW p \in Puts, Create(p), UNCHANGED store
  PROVE  ObjectInv'
<1>1. CASE /\ Goto(p, "read") /\ open' = open \union {p}
           /\ UNCHANGED <<job, outcome>>
  <2>1. job[p] \in Job /\ job' = [job EXCEPT ![p] = job[p]]
    BY <1>1 DEF ObjectInv, ObjectTypeOK
  <2>2. pc' = [pc EXCEPT ![p] = "read"] /\ pc'[p] = "read"
    BY <1>1 DEF ObjectInv, ObjectTypeOK, Goto
  <2>3. pc[p] = "create" /\ CallSound(p)
    BY DEF ObjectInv, Create
  <2>4. UploadSound(p)' /\ PartsSound(p)' /\ job[p].key \in Keys /\ outcome[p] = NoOutcome
    <3>1. UploadSound(p)' /\ job[p].key \in Keys /\ outcome[p] = NoOutcome
      BY <1>1, <2>2, <2>3 DEF CallSound, UploadSound
    <3>2. PartsSound(p)'
      BY <1>1, <2>2, <2>3 DEF CallSound, UploadSound, PartsSound
    <3> QED
      BY <3>1, <3>2
  <2>5. "read" \in Steps \ {"idle"}
    BY DEF Steps
  <2> QED
    BY <1>1, <2>1, <2>2, <2>4, <2>5, JobStep DEF Create
<1>2. CASE open' \in {open, open \union {p}} /\ Return(p, "error", FALSE)
  BY <1>2, ReturnSound DEF Create
<1> QED
  BY <1>1, <1>2 DEF Create

\* What a job is after more parts went up.
LEMMA OnePartMore ==
  ASSUME NEW j \in Job, NEW n \in Nat, NEW size \in Nat, NEW up, up = WithParts(j, n, size)
  PROVE  /\ up \in Job /\ up.key = j.key /\ up.body = j.body /\ up.read = j.read
         /\ up.buffer = j.buffer /\ (j.short => up.short)
         /\ up.flying = j.flying + n
         /\ n = 0 => up.last = j.last /\ (up.thin => j.thin)
         /\ n > 0 => up.last = size
         /\ n > 0 /\ up.thin => \/ j.thin
                                \/ j.last \in 1..(MinPart - 1)
                                \/ n > 1 /\ size < MinPart
<1>1. CASE n = 0
  BY <1>1 DEF WithParts, Job
<1>2. CASE n > 0
  <2> DEFINE thin == j.thin \/ j.last \in 1..(MinPart - 1) \/ (n > 1 /\ size < MinPart)
  <2>1. up = [j EXCEPT !.flying = j.flying + n, !.last = size, !.thin = thin]
    BY <1>2 DEF WithParts
  <2>2. thin \in BOOLEAN /\ j.flying + n \in Nat
    BY DEF Job
  <2> HIDE DEF thin
  <2>3. /\ up \in Job /\ up.key = j.key /\ up.body = j.body /\ up.read = j.read
        /\ up.buffer = j.buffer /\ (j.short => up.short)
        /\ up.flying = j.flying + n /\ up.last = size /\ up.thin = thin
    BY <2>1, <2>2 DEF Job
  <2>4. up.thin => \/ j.thin
                   \/ j.last \in 1..(MinPart - 1)
                   \/ n > 1 /\ size < MinPart
    <3>1. up.thin => thin
      BY <2>3, Zenon
    <3> QED
      BY <3>1 DEF thin
  <2> QED
    BY <1>2, <2>3, <2>4
<1> QED
  BY <1>1, <1>2

\* The parts of a job: what stays, and what the new ones are.
LEMMA PartsUp ==
  ASSUME NEW j \in Job, NEW n \in Nat, NEW size \in Nat
  PROVE  /\ WithParts(j, n, size) \in Job /\ WithParts(j, n, size).key = j.key
         /\ WithParts(j, n, size).body = j.body /\ WithParts(j, n, size).read = j.read
         /\ WithParts(j, n, size).buffer = j.buffer
         /\ WithParts(j, n, size).flying = j.flying + n
         /\ n = 0 => WithParts(j, n, size).last = j.last
         /\ n > 0 => WithParts(j, n, size).last = size
  BY OnePartMore

LEMMA PartsUpShort ==
  ASSUME NEW j \in Job, NEW n \in Nat, NEW size \in Nat, j.short
  PROVE  WithParts(j, n, size).short
  BY OnePartMore

LEMMA PartsUpThin ==
  ASSUME NEW j \in Job, NEW n \in Nat, NEW size \in Nat, WithParts(j, n, size).thin
  PROVE  \/ j.thin
         \/ n > 0 /\ j.last \in 1..(MinPart - 1)
         \/ n > 1 /\ size < MinPart
  BY OnePartMore

LEMMA ReadPartKeeps ==
  ASSUME ObjectInv, NEW p \in Puts, ReadPart(p), UNCHANGED store
  PROVE  ObjectInv'
<1> DEFINE j == job[p]
<1>1. /\ j \in Job /\ pc[p] = "read" /\ UploadSound(p) /\ PartsSound(p) /\ outcome[p] = NoOutcome
      /\ j.key \in Keys /\ j.body \in Bodies /\ j.read <= Size[j.body]
      /\ Size[j.body] \in 1..MaxSize /\ MaxSize \in Nat
  BY ObjectAssumption DEF ReadPart, ObjectInv, ObjectTypeOK, CallSound, UploadSound
<1>2. PICK n \in 1..Room(p) : SendPart(p, n) \/ WriteBuffered(p, n)
  BY DEF ReadPart
<1>3. /\ j.read \in Nat /\ n \in Nat \ {0} /\ n <= Chunk /\ j.read + n <= Size[j.body]
      /\ Room(p) \in Nat /\ (n < Room(p) \/ n = Chunk \/ j.read + n = Size[j.body])
  BY <1>1, <1>2, ObjectAssumption DEF Room, Least, Job
<1> DEFINE more == Advanced(p, n)
<1>4. /\ more \in Job /\ more.key = j.key /\ more.body = j.body /\ more.read = j.read + n
      /\ more.buffer = j.buffer /\ more.last = j.last /\ more.thin = j.thin
      /\ more.flying = j.flying /\ (j.short \/ n < Room(p) => more.short)
  <2>1. (j.short \/ n < Room(p)) \in BOOLEAN /\ j.read + n \in 0..MaxSize
    BY <1>1, <1>3 DEF Job
  <2> QED
    BY <1>1, <2>1 DEF Advanced, Job
<1> HIDE DEF more
<1>5. CASE SendPart(p, n)
  <2> DEFINE up == WithParts(more, 1, n)
  <2>1. /\ up \in Job /\ up.key = j.key /\ up.body = j.body /\ up.read = j.read + n
        /\ up.buffer = j.buffer /\ up.last = n /\ up.flying = j.flying + 1
        /\ j.short \/ n < Room(p) => up.short
        /\ up.thin => j.thin \/ j.last \in 1..(MinPart - 1)
    <3>1. 1 \in Nat /\ n \in Nat /\ 1 > 0 /\ ~(1 > 1)
      BY <1>3
    <3>2. /\ up \in Job /\ up.key = more.key /\ up.body = more.body /\ up.read = more.read
          /\ up.buffer = more.buffer /\ (more.short => up.short) /\ up.flying = more.flying + 1
          /\ up.last = n
          /\ up.thin => more.thin \/ more.last \in 1..(MinPart - 1)
      <4>1. more \in Job
        BY <1>4
      <4> QED
        BY <3>1, <4>1, PartsUp, PartsUpShort, PartsUpThin
    <3>3. j.short \/ n < Room(p) => up.short
      BY <1>4, <3>2, Zenon
    <3>4. up.thin => j.thin \/ j.last \in 1..(MinPart - 1)
      BY <1>4, <3>2, Zenon
    <3> HIDE DEF up
    <3> QED
      BY <1>4, <3>2, <3>3, <3>4
  <2> HIDE DEF up
  <2>2. /\ job' = [job EXCEPT ![p] = up] /\ pc' = [pc EXCEPT ![p] = "part"] /\ store = "s3"
        /\ job'[p] = up /\ pc'[p] = "part"
    BY <1>5 DEF SendPart, Goto, ObjectInv, ObjectTypeOK, up, more
  <2>3. UploadSound(p)'
    BY <1>1, <1>3, <2>1, <2>2 DEF UploadSound, Job, ReadPart
  <2>4. PartsSound(p)'
    <3>1. up.thin => up.short
      BY <1>1, <1>3, <2>1, <2>2 DEF PartsSound, Job
    <3>2. up.last \in 1..(MinPart - 1) /\ up.read < Size[up.body] => up.short
      <4>1. n \in 1..(MinPart - 1) /\ j.read + n < Size[j.body] => n < Room(p)
        BY <1>1, <1>3, ObjectAssumption
      <4> QED
        BY <2>1, <4>1
    <3> QED
      BY <1>1, <2>1, <2>2, <3>1, <3>2 DEF PartsSound
  <2>5. "part" \in Steps \ {"idle"}
    BY DEF Steps
  <2> QED
    BY <1>1, <2>1, <2>2, <2>3, <2>4, <2>5, JobStep DEF ReadPart
<1>6. CASE WriteBuffered(p, n)
  <2> DEFINE bytes == j.buffer + n
             full  == bytes \div WriterPart
             rest  == bytes % WriterPart
             kept  == [more EXCEPT !.buffer = rest]
             up    == WithParts(kept, full, WriterPart)
  <2>1. full \in Nat /\ rest \in 0..(WriterPart - 1) /\ WriterPart \in Nat
    <3>1. bytes \in Nat /\ WriterPart \in Nat \ {0}
      BY <1>1, <1>3, ObjectAssumption DEF Job
    <3> HIDE DEF bytes
    <3> QED
      BY <3>1
  <2> HIDE DEF full, rest, bytes
  <2>2. /\ kept \in Job /\ kept.key = j.key /\ kept.body = j.body /\ kept.read = j.read + n
        /\ kept.last = j.last /\ kept.thin = j.thin
    BY <1>4, <2>1 DEF Job
  <2> HIDE DEF kept
  <2>3. /\ up \in Job /\ up.key = j.key /\ up.body = j.body /\ up.read = j.read + n
        /\ full = 0 => up.last = j.last /\ (up.thin => j.thin)
        /\ full > 0 => /\ up.last = WriterPart
                       /\ up.thin => j.thin \/ j.last \in 1..(MinPart - 1)
    <3>1. ~(WriterPart < MinPart)
      BY ObjectAssumption
    <3>2. kept \in Job /\ full \in Nat /\ WriterPart \in Nat
      BY <2>1, <2>2
    <3>3. /\ up \in Job /\ up.key = kept.key /\ up.body = kept.body /\ up.read = kept.read
          /\ full = 0 => up.last = kept.last
          /\ full > 0 => up.last = WriterPart
      BY ONLY <3>2, PartsUp
    <3>4. up.thin => \/ kept.thin
                     \/ full > 0 /\ kept.last \in 1..(MinPart - 1)
                     \/ full > 1 /\ WriterPart < MinPart
      BY ONLY <3>2, PartsUpThin
    <3> HIDE DEF up
    <3> QED
      BY <2>1, <2>2, <3>1, <3>3, <3>4
  <2> HIDE DEF up
  <2>4. /\ job' = [job EXCEPT ![p] = up] /\ pc' = pc /\ store = "gcs" /\ job'[p] = up /\ pc'[p] = "read"
    BY <1>1, <1>6 DEF WriteBuffered, ObjectInv, ObjectTypeOK, up, kept, full, rest, bytes, more
  <2>5. UploadSound(p)'
    BY <1>1, <1>3, <2>3, <2>4 DEF UploadSound, ReadPart
  <2>6. PartsSound(p)'
    BY <1>1, <2>1, <2>3, <2>4, ObjectAssumption DEF PartsSound
  <2>7. "read" \in Steps \ {"idle"}
    BY DEF Steps
  <2> QED
    BY <1>1, <2>3, <2>4, <2>5, <2>6, <2>7, JobStep DEF ReadPart
<1> QED
  BY <1>2, <1>5, <1>6

LEMMA PartDoneKeeps ==
  ASSUME ObjectInv, NEW p \in Puts, PartDone(p), UNCHANGED store
  PROVE  ObjectInv'
<1> DEFINE j == job[p]
<1>1. /\ j \in Job /\ UploadSound(p) /\ PartsSound(p) /\ j.flying > 0 /\ j.flying - 1 \in Nat
  BY DEF PartDone, ObjectInv, ObjectTypeOK, CallSound, Job
<1>2. pc[p] \in Steps \ {"idle"} /\ j.key \in Keys /\ outcome[p] = NoOutcome
  BY <1>1 DEF ObjectInv, ObjectTypeOK, UploadSound, NoJob, NewJob
<1>3. CASE /\ job' = [job EXCEPT ![p].flying = job[p].flying - 1]
           /\ IF pc[p] = "part" THEN Goto(p, "read") ELSE UNCHANGED pc
           /\ UNCHANGED <<object, open, wire, outcome>>
  <2> DEFINE less == [j EXCEPT !.flying = j.flying - 1]
  <2>1. /\ less \in Job /\ less.key = j.key /\ less.body = j.body /\ less.read = j.read
        /\ less.buffer = j.buffer /\ less.last = j.last /\ less.thin = j.thin /\ less.short = j.short
        /\ less.flying = j.flying - 1
    BY <1>1 DEF Job
  <2>2. job' = [job EXCEPT ![p] = less] /\ job'[p] = less
    BY <1>3 DEF ObjectInv, ObjectTypeOK
  <2> HIDE DEF less
  <2>3. CASE pc[p] = "part"
    <3>1. pc' = [pc EXCEPT ![p] = "read"] /\ pc'[p] = "read" /\ "read" \in Steps \ {"idle"}
      BY <1>3, <2>3 DEF Goto, ObjectInv, ObjectTypeOK, Steps
    <3>2. UploadSound(p)'
      BY <1>1, <1>2, <1>3, <2>1, <2>2, <2>3, <3>1 DEF UploadSound
    <3>3. PartsSound(p)'
      <4>1. store = "s3"
        BY <1>1, <2>3 DEF UploadSound
      <4> QED
        BY <1>1, <1>3, <2>1, <2>2, <2>3, <3>1, <4>1 DEF PartsSound
    <3> QED
      BY <1>2, <1>3, <2>1, <2>2, <2>3, <3>1, <3>2, <3>3, JobStep
  <2>4. CASE pc[p] # "part"
    <3>1. pc' = pc
      BY <1>3, <2>4
    <3>2. UploadSound(p)' /\ PartsSound(p)'
      <4>1. UploadSound(p)'
        BY <1>1, <1>2, <1>3, <2>1, <2>2, <2>4, <3>1 DEF UploadSound
      <4>2. PartsSound(p)'
        BY <1>1, <1>3, <2>1, <2>2, <3>1 DEF PartsSound
      <4> QED
        BY <4>1, <4>2
    <3>3. pc[p] # "wait"
      BY <1>1 DEF UploadSound, Job
    <3> QED
      BY <1>2, <1>3, <2>1, <2>2, <3>1, <3>2, <3>3, JobStep
  <2> QED
    BY <2>3, <2>4
<1>4. CASE pc[p] = "part" /\ Fail(p)
  BY <1>4, ReturnSound DEF Fail
<1>5. CASE /\ pc[p] # "part"
           /\ job' = [job EXCEPT ![p].flying = job[p].flying - 1, ![p].failed = TRUE]
           /\ UNCHANGED <<object, open, wire, pc, outcome>>
  <2> DEFINE less == [j EXCEPT !.flying = j.flying - 1, !.failed = TRUE]
  <2>1. /\ less \in Job /\ less.key = j.key /\ less.body = j.body /\ less.read = j.read
        /\ less.buffer = j.buffer /\ less.last = j.last /\ less.thin = j.thin /\ less.short = j.short
        /\ less.flying = j.flying - 1
    BY <1>1 DEF Job
  <2>2. job' = [job EXCEPT ![p] = less] /\ job'[p] = less
    BY <1>5 DEF ObjectInv, ObjectTypeOK
  <2> HIDE DEF less
  <2>3. UploadSound(p)'
    BY <1>1, <1>2, <1>5, <2>1, <2>2 DEF UploadSound
  <2>4. PartsSound(p)'
    BY <1>1, <1>5, <2>1, <2>2 DEF PartsSound
  <2>5. pc[p] # "wait"
    BY <1>1 DEF UploadSound, Job
  <2> QED
    BY <1>2, <1>5, <2>1, <2>2, <2>3, <2>4, <2>5, JobStep
<1> QED
  BY <1>3, <1>4, <1>5 DEF PartDone

LEMMA BodyEndsKeeps ==
  ASSUME ObjectInv, NEW p \in Puts, BodyEnds(p), UNCHANGED store
  PROVE  ObjectInv'
<1> DEFINE j     == job[p]
           empty == [j EXCEPT !.buffer = 0]
           n     == Least(j.buffer, 1)
           up    == WithParts(empty, n, j.buffer)
<1>1. /\ j \in Job /\ UploadSound(p) /\ PartsSound(p) /\ pc[p] = "read"
      /\ outcome[p] = NoOutcome /\ j.key \in Keys /\ j.body \in Bodies /\ j.read = Size[j.body]
      /\ Size[j.body] \in Nat
  BY ObjectAssumption DEF BodyEnds, ObjectInv, ObjectTypeOK, CallSound, UploadSound
<1>2. /\ empty \in Job /\ empty.key = j.key /\ empty.body = j.body /\ empty.read = j.read
      /\ empty.buffer = 0 /\ empty.last = j.last /\ empty.thin = j.thin /\ (j.short => empty.short)
  BY <1>1, ObjectAssumption DEF Job
<1>3. n \in Nat /\ n <= 1 /\ j.buffer \in Nat /\ (j.buffer = 0 => n = 0)
  BY <1>1 DEF Job, Least
<1> HIDE DEF empty, n
<1>4. /\ up \in Job /\ up.key = j.key /\ up.body = j.body /\ up.read = j.read /\ up.buffer = 0
      /\ j.short => up.short
      /\ n = 0 /\ up.thin => j.thin
      /\ n > 0 /\ up.thin => j.thin \/ j.last \in 1..(MinPart - 1)
  <2>1. empty \in Job /\ n \in Nat /\ j.buffer \in Nat
    BY <1>2, <1>3
  <2> HIDE DEF j
  <2>2. /\ up \in Job /\ up.key = empty.key /\ up.body = empty.body /\ up.read = empty.read
        /\ up.buffer = empty.buffer
    BY ONLY <2>1, PartsUp
  <2>3. empty.short => up.short
    BY ONLY <2>1, PartsUpShort
  <2>4. up.thin => \/ empty.thin
                   \/ n > 0 /\ empty.last \in 1..(MinPart - 1)
                   \/ n > 1 /\ j.buffer < MinPart
    BY ONLY <2>1, PartsUpThin
  <2> HIDE DEF up
  <2>5. ~(n > 1)
    BY <1>3
  <2>6. up.thin => empty.thin \/ (n > 0 /\ empty.last \in 1..(MinPart - 1))
    BY <2>4, <2>5
  <2> QED
    BY <1>2, <1>3, <2>2, <2>3, <2>6
<1> HIDE DEF up
<1>5. /\ job' = [job EXCEPT ![p] = up] /\ job'[p] = up
      /\ pc' = [pc EXCEPT ![p] = "finish"] /\ pc'[p] = "finish"
  BY DEF BodyEnds, LastPart, Goto, ObjectInv, ObjectTypeOK, up, empty, n
<1>6. UploadSound(p)'
  BY <1>1, <1>4, <1>5 DEF UploadSound, BodyEnds
<1>7. PartsSound(p)'
  <2>1. CASE store = "s3"
    BY <1>1, <1>3, <1>4, <1>5, <2>1 DEF PartsSound
  <2>2. CASE store = "gcs"
    BY <1>1, <1>3, <1>4, <1>5, <2>2 DEF PartsSound
  <2> QED
    BY <2>1, <2>2 DEF ObjectInv, ObjectTypeOK
<1>8. "finish" \in Steps \ {"idle"}
  BY DEF Steps
<1> QED
  BY <1>1, <1>4, <1>5, <1>6, <1>7, <1>8, JobStep DEF BodyEnds

\* A request is sent.
LEMMA SendKeeps ==
  ASSUME ObjectInv, NEW p \in Puts, NEW what \in {"put", "complete", "delete"},
         NEW size \in 0..MaxSize, Send(p, what, size), UNCHANGED store,
         pc[p] # "idle", pc[p] # "wait", job[p].flying = 0,
         what # "delete" => job[p].body \in Bodies /\ size = Size[job[p].body],
         what # "complete" => p \notin open
  PROVE  ObjectInv'
<1>1. /\ job[p] \in Job /\ UploadSound(p) /\ PartsSound(p) /\ OutcomeSound(p) /\ job[p].key \in Keys
      /\ \A m \in wire : m.put = p => MessageSound(m)
  BY DEF ObjectInv, ObjectTypeOK, CallSound, UploadSound
<1>2. PICK m1 \in Message : /\ m1.put = p /\ m1.what = what /\ m1.body = job[p].body
                           /\ m1.len = size /\ m1.thin = job[p].thin
                           /\ wire' = wire \union {m1}
  <2> DEFINE m1 == [put |-> p, what |-> what, key |-> job[p].key, body |-> job[p].body,
                    len |-> size, thin |-> job[p].thin, late |-> FALSE]
  <2>1. m1 \in Message
    BY <1>1 DEF Job, Message
  <2> QED
    BY <2>1 DEF Send
<1>3. /\ pc' = [pc EXCEPT ![p] = "wait"] /\ pc'[p] = "wait"
      /\ UNCHANGED <<object, open, job, outcome>>
  BY DEF Send, Goto, ObjectInv, ObjectTypeOK
<1>4. ObjectTypeOK' /\ ObjectsWhole'
  BY <1>2, <1>3 DEF ObjectInv, ObjectTypeOK, ObjectsWhole, Steps
<1>5. UploadSound(p)' /\ PartsSound(p)' /\ OutcomeSound(p)'
  <2>1. UploadSound(p)'
    BY <1>1, <1>3 DEF UploadSound
  <2>2. PartsSound(p)'
    BY <1>1, <1>3 DEF PartsSound
  <2>3. OutcomeSound(p)'
    BY <1>1, <1>3 DEF OutcomeSound
  <2> QED
    BY <2>1, <2>2, <2>3
<1>6. ASSUME NEW m \in wire', m.put = p
      PROVE  MessageSound(m)'
  <2>1. CASE m = m1
    <3>1. job[p].thin => store = "s3" /\ job[p].short
      BY <1>1 DEF PartsSound, ObjectInv, ObjectTypeOK
    <3> QED
      BY <1>2, <1>3, <2>1, <3>1 DEF MessageSound
  <2>2. CASE m \in wire
    <3>1. MessageSound(m)
      BY <1>1, <1>6, <2>2
    <3>2. m.late
      BY <1>6, <3>1 DEF MessageSound
    <3> QED
      BY <1>3, <1>6, <3>1, <3>2 DEF MessageSound
  <2> QED
    BY <1>2, <2>1, <2>2
<1>7. CallSound(p)'
  BY <1>5, <1>6 DEF CallSound
<1>8. \A m \in wire' : m.put # p => m \in wire
  BY <1>2, <1>3
<1>9. \A q \in Puts \ {p} : /\ pc'[q] = pc[q] /\ job'[q] = job[q] /\ outcome'[q] = outcome[q]
                            /\ q \in open' <=> q \in open
  BY <1>3 DEF ObjectInv, ObjectTypeOK
<1> QED
  BY <1>4, <1>7, <1>8, <1>9, StepOfOne

LEMMA CompleteKeeps ==
  ASSUME ObjectInv, NEW p \in Puts, Complete(p) \/ SendWhole(p) \/ SendDelete(p), UNCHANGED store
  PROVE  ObjectInv'
<1>1. /\ UploadSound(p) /\ job[p] \in Job /\ MaxSize \in Nat /\ 0 \in 0..MaxSize
      /\ \A b \in Bodies : Size[b] \in 0..MaxSize
  BY ObjectAssumption DEF ObjectInv, ObjectTypeOK, CallSound
<1>2. CASE Complete(p)
  <2>1. CASE job[p].failed
    BY <1>2, <2>1, ReturnSound DEF Complete, Fail
  <2>2. CASE ~job[p].failed
    <3>1. /\ Send(p, "complete", job[p].read) /\ pc[p] = "finish" /\ job[p].flying = 0
          /\ job[p].read \in 0..MaxSize
      BY <1>1, <1>2, <2>2 DEF Complete, Uploaded, Job
    <3>2. job[p].body \in Bodies /\ job[p].read = Size[job[p].body]
      BY <1>1, <3>1 DEF UploadSound
    <3> QED
      BY <3>1, <3>2, SendKeeps
  <2> QED
    BY <2>1, <2>2
<1>3. CASE SendWhole(p)
  <2>1. /\ Send(p, "put", Size[job[p].body]) /\ pc[p] = "whole" /\ job[p].flying = 0
        /\ job[p].body \in Bodies /\ p \notin open
    BY <1>1, <1>3 DEF SendWhole, UploadSound
  <2> QED
    BY <1>1, <2>1, SendKeeps
<1>4. CASE SendDelete(p)
  <2>1. Send(p, "delete", 0) /\ pc[p] = "delete" /\ job[p].flying = 0 /\ p \notin open
    BY <1>1, <1>4 DEF SendDelete, UploadSound
  <2> QED
    BY <1>1, <2>1, SendKeeps
<1> QED
  BY <1>2, <1>3, <1>4

\* A request is answered, and the call that waits for it returns.
LEMMA AnswerKeeps ==
  ASSUME ObjectInv, NEW m \in wire, NEW p \in Puts, m.put = p, NEW answer \in {"done", "error", "refused"},
         Answer(m, answer, TRUE) \/ (answer # "done" /\ Answer(m, answer, FALSE)),
         UNCHANGED store, ObjectsWhole', object' \in [Keys -> Contents],
         open' = open \/ (open' = open \ {p} /\ answer # "refused"),
         answer = "done" => (pc[p] = "wait" /\ ~m.late => p \notin open'),
         answer = "refused" => m.thin
  PROVE  ObjectInv'
<1>1. /\ m \in Message /\ MessageSound(m) /\ CallSound(p)
      /\ wire' = wire \ {m} /\ open' \subseteq Puts
      /\ \A q \in Puts \ {p} : q \in open' <=> q \in open
  BY DEF ObjectInv, ObjectTypeOK, CallSound, Answer
<1>2. CASE pc[p] = "wait" /\ ~m.late
  <2>1. PICK how \in {"ok", "error", "refused", "dropped"} :
          /\ Return(p, how, TRUE) \/ (how # "ok" /\ Return(p, how, FALSE))
          /\ how = "ok" => answer = "done"
          /\ how = "refused" => answer = "refused"
    BY <1>2 DEF Answer, Result
  <2>0. ObjectTypeOK
    BY DEF ObjectInv
  <2>2. /\ pc' \in [Puts -> Steps] /\ job' \in [Puts -> Job] /\ outcome' \in [Puts -> Outcome]
        /\ pc'[p] = "idle" /\ job'[p] = NoJob
        /\ \A q \in Puts \ {p} : pc'[q] = pc[q] /\ job'[q] = job[q] /\ outcome'[q] = outcome[q]
        /\ outcome'[p].how = how /\ (how = "ok" => outcome'[p].done)
        /\ job[p].short => outcome'[p].short
    <3>1. TRUE \in BOOLEAN /\ FALSE \in BOOLEAN
      OBVIOUS
    <3>2. CASE Return(p, how, TRUE)
      BY ONLY <2>0, <2>1, <3>1, <3>2, p \in Puts, Returned
    <3>3. CASE how # "ok" /\ Return(p, how, FALSE)
      BY ONLY <2>0, <2>1, <3>1, <3>3, p \in Puts, Returned
    <3> QED
      BY <2>1, <3>2, <3>3
  <2>9. pc'[p] = "idle" /\ job'[p] = NoJob
    BY <2>2
  <2>3. ObjectTypeOK'
    BY <1>1, <2>2 DEF ObjectInv, ObjectTypeOK
  <2>4. UploadSound(p)'
    BY <2>2 DEF UploadSound
  <2>5. PartsSound(p)'
    BY <2>9, NoJobSound
  <2>6. OutcomeSound(p)'
    <3>1. /\ outcome'[p].how = how /\ (how = "ok" => outcome'[p].done)
          /\ job[p].short => outcome'[p].short
      BY <2>2
    <3>2. how = "refused" => store = "s3" /\ job[p].short
      BY <1>1, <1>2, <2>1 DEF MessageSound
    <3>3. how = "ok" => p \notin open'
      BY <1>2, <2>1
    <3> QED
      BY <3>1, <3>2, <3>3 DEF OutcomeSound
  <2>7. \A n \in wire' : n.put = p => MessageSound(n)'
    BY <1>1, <2>2 DEF CallSound, MessageSound
  <2>8. CallSound(p)'
    BY <2>4, <2>5, <2>6, <2>7 DEF CallSound
  <2> QED
    BY <1>1, <2>2, <2>3, <2>8, StepOfOne
<1>3. CASE ~(pc[p] = "wait" /\ ~m.late)
  <2>1. UNCHANGED <<pc, job, outcome>>
    BY <1>3 DEF Answer
  <2>2. ObjectTypeOK'
    BY <1>1, <2>1 DEF ObjectInv, ObjectTypeOK
  <2>3. UploadSound(p)' /\ PartsSound(p)' /\ OutcomeSound(p)'
    <3>1. UploadSound(p)'
      BY <1>1, <2>1 DEF CallSound, UploadSound
    <3>2. PartsSound(p)'
      BY <1>1, <2>1 DEF CallSound, PartsSound
    <3>3. OutcomeSound(p)'
      BY <1>1, <2>1 DEF CallSound, OutcomeSound
    <3> QED
      BY <3>1, <3>2, <3>3
  <2>4. \A n \in wire' : n.put = p => MessageSound(n)'
    BY <1>1, <2>1 DEF CallSound, MessageSound
  <2>5. CallSound(p)'
    BY <2>3, <2>4 DEF CallSound
  <2> QED
    BY <1>1, <2>1, <2>2, <2>5, StepOfOne
<1> QED
  BY <1>2, <1>3


LEMMA ServeKeeps ==
  ASSUME ObjectInv, NEW m \in wire, Serve(m), UNCHANGED store
  PROVE  ObjectInv'
<1>1. /\ m \in Message /\ m.put \in Puts /\ MessageSound(m) /\ m.key \in Keys
      /\ m.what \in {"put", "complete", "delete"}
      /\ m.what # "delete" => m.body \in Bodies /\ m.len = Size[m.body] /\ m.len \in 0..MaxSize
  BY DEF ObjectInv, ObjectTypeOK, CallSound, Message, MessageSound
<1>2. /\ object \in [Keys -> Contents] /\ ObjectsWhole
      /\ object' = [object EXCEPT ![m.key] = IF m.what = "delete" THEN NoObject
                                             ELSE [body |-> m.body, len |-> m.len]]
  BY DEF ObjectInv, ObjectTypeOK, Serve
<1>3. object' \in [Keys -> Contents]
  BY <1>1, <1>2 DEF Contents
<1>4. ObjectsWhole'
  <2> SUFFICES ASSUME NEW k \in Keys
               PROVE  \/ object'[k] = NoObject
                      \/ object'[k].body \in Bodies /\ object'[k].len = Size[object'[k].body]
    BY DEF ObjectsWhole
  <2>1. CASE k = m.key /\ m.what # "delete"
    <3>1. object'[k] = [body |-> m.body, len |-> m.len]
      BY <1>2, <2>1
    <3> QED
      BY <1>1, <2>1, <3>1
  <2>2. CASE k = m.key /\ m.what = "delete"
    BY <1>2, <2>2
  <2>3. CASE k # m.key
    BY <1>2, <2>3 DEF ObjectsWhole
  <2> QED
    BY <2>1, <2>2, <2>3
<1>5. AllOf(m)
  BY <1>1 DEF AllOf
<1>6. open' = open \/ open' = open \ {m.put}
  BY DEF Serve
<1>7. pc[m.put] = "wait" /\ ~m.late => m.put \notin open'
  BY <1>1 DEF Serve, MessageSound
<1>8. CASE Answer(m, "done", AllOf(m))
  BY <1>1, <1>3, <1>4, <1>5, <1>6, <1>7, <1>8, AnswerKeeps
<1>9. CASE Answer(m, "error", AllOf(m))
  BY <1>1, <1>3, <1>4, <1>5, <1>6, <1>7, <1>9, AnswerKeeps
<1> QED
  BY <1>8, <1>9 DEF Serve

LEMMA RejectKeeps ==
  ASSUME ObjectInv, NEW m \in wire, Reject(m), UNCHANGED store
  PROVE  ObjectInv'
<1>1. m.put \in Puts /\ ObjectsWhole' /\ object' \in [Keys -> Contents] /\ open' = open
  BY DEF ObjectInv, ObjectTypeOK, Message, ObjectsWhole, Reject
<1>2. CASE m.thin /\ Answer(m, "refused", FALSE)
  BY <1>1, <1>2, AnswerKeeps
<1>3. CASE Answer(m, "error", FALSE)
  BY <1>1, <1>3, AnswerKeeps
<1> QED
  BY <1>2, <1>3 DEF Reject

LEMMA RequestKeeps ==
  ASSUME ObjectInv, NEW p \in Puts, Request(p), UNCHANGED store
  PROVE  ObjectInv'
<1>1. PICK k \in Keys : \/ Delete(p, k)
                        \/ \E b \in Bodies : PutCache(p, k, b) \/ \E c \in Claims : Put(p, k, b, c)
  BY DEF Request
<1>2. CASE Delete(p, k)
  BY <1>2, BeginKeeps DEF Delete
<1>3. ASSUME NEW b \in Bodies, NEW c, Put(p, k, b, c)
      PROVE  ObjectInv'
  <2>1. CASE Begin(p, "create", k, b)
    BY <2>1, BeginKeeps
  <2>2. CASE Begin(p, "whole", k, b)
    BY <2>2, BeginKeeps
  <2> QED
    BY <1>3, <2>1, <2>2 DEF Put
<1> QED
  BY <1>1, <1>2, <1>3 DEF PutCache

\* ObjectInv is inductive.
LEMMA ObjectStep ==
  ASSUME ObjectInv, ObjectNext
  PROVE  ObjectInv'
<1>1. UNCHANGED store
  BY DEF ObjectNext
<1>2. ASSUME NEW p \in Puts, Upload(p)
      PROVE  ObjectInv'
  <2>1. CASE Create(p)
    BY <1>1, <2>1, CreateKeeps
  <2>2. CASE ReadPart(p)
    BY <1>1, <2>2, ReadPartKeeps
  <2>3. CASE PartDone(p)
    BY <1>1, <2>3, PartDoneKeeps
  <2>4. CASE BodyEnds(p)
    BY <1>1, <2>4, BodyEndsKeeps
  <2>5. CASE BodyBreaks(p)
    BY <1>1, <2>5, ReturnSound DEF BodyBreaks, Fail
  <2>6. CASE Complete(p) \/ SendWhole(p) \/ SendDelete(p)
    BY <1>1, <2>6, CompleteKeeps
  <2>7. CASE TimeOut(p)
    BY <1>1, <2>7, ReturnSound DEF TimeOut, Fail
  <2> QED
    BY <1>2, <2>1, <2>2, <2>3, <2>4, <2>5, <2>6, <2>7 DEF Upload
<1>3. ASSUME NEW p \in Puts, Cancel(p)
      PROVE  ObjectInv'
  BY <1>1, <1>3, ReturnSound DEF Cancel
<1> QED
  BY <1>1, <1>2, <1>3, ServeKeeps, RejectKeeps, RequestKeeps DEF ObjectNext

LEMMA ObjectStart ==
  ASSUME ObjectInit
  PROVE  ObjectInv
<1>1. ObjectTypeOK
  BY NoJobType, ObjectAssumption DEF ObjectInit, ObjectTypeOK, Contents, NoObject, Steps
<1>2. ObjectsWhole
  BY DEF ObjectInit, ObjectsWhole
<1>3. ASSUME NEW p \in Puts
      PROVE  CallSound(p)
  <2>1. pc[p] = "idle" /\ job[p] = NoJob /\ outcome[p] = NoOutcome /\ wire = {}
    BY DEF ObjectInit
  <2>2. UploadSound(p)
    BY <2>1 DEF UploadSound
  <2>3. PartsSound(p)
    BY <2>1, ObjectAssumption DEF PartsSound, NoJob, NewJob
  <2>4. OutcomeSound(p)
    BY <2>1 DEF OutcomeSound, NoOutcome
  <2> QED
    BY <2>1, <2>2, <2>3, <2>4 DEF CallSound
<1> QED
  BY <1>1, <1>2, <1>3 DEF ObjectInv

\* The downloads change nothing of what the object stores do.
LEMMA ObjectKept ==
  ASSUME ObjectInv, UNCHANGED ovars
  PROVE  ObjectInv'
<1>1. ObjectTypeOK'
  BY DEF ovars, ObjectInv, ObjectTypeOK
<1>2. ObjectsWhole'
  BY DEF ovars, ObjectInv, ObjectsWhole
<1>3. ASSUME NEW p \in Puts
      PROVE  CallSound(p)'
  <2>1. CallSound(p)
    BY DEF ObjectInv
  <2>2. UploadSound(p)'
    BY <2>1 DEF ovars, CallSound, UploadSound
  <2>3. PartsSound(p)'
    BY <2>1 DEF ovars, CallSound, PartsSound
  <2>4. OutcomeSound(p)'
    BY <2>1 DEF ovars, CallSound, OutcomeSound
  <2>5. \A m \in wire' : m.put = p => MessageSound(m)'
    BY <2>1 DEF ovars, CallSound, MessageSound
  <2> QED
    BY <2>2, <2>3, <2>4, <2>5 DEF CallSound
<1> QED
  BY <1>1, <1>2, <1>3 DEF ObjectInv

LEMMA ObjectNextOrNot ==
  ASSUME ObjectInv, [Next]_vars
  PROVE  ObjectInv' /\ (ObjectNext \/ UNCHANGED ovars)
<1>1. ObjectNext \/ UNCHANGED ovars
  BY DEF Next, vars
<1> QED
  BY <1>1, ObjectKept, ObjectStep

LEMMA ObjectsSound == Spec => []ObjectInv
<1>1. Init => ObjectInv
  BY ObjectStart DEF Init
<1>2. ObjectInv /\ [Next]_vars => ObjectInv'
  BY ObjectNextOrNot
<1> QED
  BY <1>1, <1>2, PTL DEF Spec

\* The types of the S3 and GCS backends hold for any number of calls of any
\* size, with any faults, and with downloads beside them.
THEOREM ObjectsTyped == Spec => []ObjectTypeOK
<1>1. ObjectInv => ObjectTypeOK
  BY DEF ObjectInv
<1> QED
  BY <1>1, ObjectsSound, PTL

\* put() says Ok only after the whole body was visible, and never leaves the
\* upload it opened behind.
THEOREM ObjectsOkMeansStored == Spec => []OkMeansStored
<1>1. ObjectInv => OkMeansStored
  BY DEF ObjectInv, CallSound, OutcomeSound, OkMeansStored
<1> QED
  BY <1>1, ObjectsSound, PTL

\* Only S3Backend has a body refused for the size of a part, and only when a
\* read came short in the middle of it; the buffer of GcsBackend rules it out.
THEOREM ObjectsRefusedOnlyIfShort == Spec => []RefusedOnlyIfShort
<1>1. ObjectInv => RefusedOnlyIfShort
  BY DEF ObjectInv, CallSound, OutcomeSound, RefusedOnlyIfShort
<1> QED
  BY <1>1, ObjectsSound, PTL

\* Only a request that is carried out changes an object, and only its own.
LEMMA OneObject ==
  ASSUME ObjectInv, ObjectNext
  PROVE  \/ UNCHANGED object
         \/ \E m \in wire : /\ m \in Message /\ (m.what # "delete" => m.body \in Bodies)
                            /\ \A k \in Keys \ {m.key} : object'[k] = object[k]
                            /\ m.what = "delete" => object'[m.key] = NoObject
                            /\ m.what # "delete" =>
                                 object'[m.key] = [body |-> m.body, len |-> Size[m.body]]
<1>1. ASSUME NEW m \in wire, Serve(m)
      PROVE  /\ m \in Message /\ (m.what # "delete" => m.body \in Bodies)
             /\ \A k \in Keys \ {m.key} : object'[k] = object[k]
             /\ m.what = "delete" => object'[m.key] = NoObject
             /\ m.what # "delete" => object'[m.key] = [body |-> m.body, len |-> Size[m.body]]
  <2>1. m \in Message /\ m.put \in Puts /\ m.key \in Keys
    BY DEF ObjectInv, ObjectTypeOK, Message
  <2>2. m.what # "delete" => m.body \in Bodies /\ m.len = Size[m.body]
    BY <2>1 DEF ObjectInv, CallSound, MessageSound
  <2>3. object \in [Keys -> Contents]
    BY DEF ObjectInv, ObjectTypeOK
  <2>4. object' = [object EXCEPT ![m.key] = IF m.what = "delete" THEN NoObject
                                            ELSE [body |-> m.body, len |-> m.len]]
    BY <1>1 DEF Serve
  <2> QED
    BY <2>1, <2>2, <2>3, <2>4
<1>2. ASSUME NEW p \in Puts, Request(p)
      PROVE  UNCHANGED object
  BY <1>2 DEF Request, Delete, PutCache, Put, Begin
<1>3. ASSUME NEW p \in Puts, Upload(p)
      PROVE  UNCHANGED object
  BY <1>3 DEF Upload, Create, ReadPart, PartDone, BodyEnds, BodyBreaks, Complete, SendWhole,
              SendDelete, Send, TimeOut, Fail
<1>4. ASSUME NEW p \in Puts, Cancel(p)
      PROVE  UNCHANGED object
  BY <1>4 DEF Cancel
<1>5. ASSUME NEW m \in wire, Reject(m)
      PROVE  UNCHANGED object
  BY <1>5 DEF Reject
<1> QED
  BY <1>1, <1>2, <1>3, <1>4, <1>5 DEF ObjectNext

LEMMA VisibleInit == ObjectInit => Store!Init
<1> SUFFICES ASSUME ObjectInit
             PROVE  Store!Init
  OBVIOUS
<1>1. \A k \in Keys : Blob(k) = "absent"
  BY DEF ObjectInit, Blob
<1> QED
  BY <1>1 DEF Visible, Store!Init

LEMMA VisibleStep ==
  ASSUME ObjectInv, ObjectInv', [Next]_vars
  PROVE  [Store!Next]_Visible
<1>1. CASE UNCHANGED object
  BY <1>1 DEF Visible, Blob
<1>2. ASSUME NEW m \in Message, m.what # "delete" => m.body \in Bodies,
             \A k \in Keys \ {m.key} : object'[k] = object[k],
             m.what = "delete" => object'[m.key] = NoObject,
             m.what # "delete" => object'[m.key] = [body |-> m.body, len |-> Size[m.body]]
      PROVE  Store!Next
  <2>1. m.key \in Keys
    BY DEF Message
  <2>2. \A k \in Keys \ {m.key} : Visible'[k] = Visible[k]
    BY <1>2 DEF Visible, Blob
  <2>3. CASE m.what = "delete"
    <3>1. Visible'[m.key] = "absent"
      BY <1>2, <2>1, <2>3 DEF Visible, Blob
    <3>2. Visible' = [k \in Keys |-> IF k \in {m.key} THEN "absent" ELSE Visible[k]]
      BY <2>1, <2>2, <3>1 DEF Visible
    <3> QED
      BY <2>1, <3>2 DEF Store!Next, Store!Lose
  <2>4. CASE m.what # "delete"
    <3>1. Visible'[m.key] = m.body
      <4>1. object'[m.key] # NoObject
        BY <1>2, <2>4, ObjectAssumption DEF NoObject
      <4> QED
        BY <1>2, <2>1, <2>4, <4>1 DEF Visible, Blob
    <3>2. Visible' = [Visible EXCEPT ![m.key] = m.body]
      BY <2>1, <2>2, <3>1 DEF Visible
    <3> QED
      BY <1>2, <2>1, <2>4, <3>2 DEF Store!Next, Store!Keep
  <2> QED
    BY <2>3, <2>4
<1> QED
  BY <1>1, <1>2, ObjectNextOrNot, OneObject DEF ovars

\* The object stores implement BlobStore: however many calls run at once, and
\* whatever of theirs breaks, is given up or comes late, a body becomes visible
\* in one step and whole.
THEOREM ObjectsImplementBlobStore == Spec => ImplementsBlobStore
<1>1. ObjectInv /\ ObjectInv' /\ [Next]_vars => [Store!Next]_Visible
  BY VisibleStep
<1>2. Init => Store!Init
  BY VisibleInit DEF Init
<1> QED
  BY <1>1, <1>2, ObjectsSound, PTL DEF Spec, ImplementsBlobStore, Store!Spec

-----------------------------------------------------------------------------
(* The downloads *)

\* What a download has to do with is typed.
LEMMA ReadTypes ==
  ASSUME TypeOK, NEW r \in Readers
  PROVE  /\ reader[r] \in Reader /\ channel[r] \in Seq(Nat \X Nat)
         /\ client[r] \in [got : Int, end : Ends]
         /\ reader[r].offset \in Nat /\ reader[r].limit \in Nat /\ reader[r].len \in 0..MaxSize
         /\ reader[r].from \in 0..MaxSize /\ reader[r].pos \in 0..MaxSize
         /\ client[r].got \in Int /\ MaxSize \in Nat
  BY ObjectAssumption DEF TypeOK, Reader

\* A step of one download leaves the others as they were.
LEMMA DownloadOfOne ==
  ASSUME Inv, NEW r \in Readers, UNCHANGED ovars,
         NEW step \in {"idle", "head", "get", "skip", "loop", "send", "fail"},
         NEW rd \in Reader, NEW ch \in Seq(Nat \X Nat), Len(ch) <= Capacity,
         NEW cl \in [got : Int, end : Ends],
         at' = [at EXCEPT ![r] = step], reader' = [reader EXCEPT ![r] = rd],
         channel' = [channel EXCEPT ![r] = ch], client' = [client EXCEPT ![r] = cl],
         /\ at'[r] = step /\ reader'[r] = rd /\ channel'[r] = ch /\ client'[r] = cl
         => DownloadSound(r)'
  PROVE  Inv'
<1>1. ObjectInv' /\ ObjectTypeOK'
  <2>1. ObjectInv'
    BY ObjectKept DEF Inv
  <2> QED
    BY <2>1 DEF ObjectInv
<1>2. /\ at \in [Readers -> {"idle", "head", "get", "skip", "loop", "send", "fail"}]
      /\ reader \in [Readers -> Reader] /\ channel \in [Readers -> Seq(Nat \X Nat)]
      /\ \A q \in Readers : Len(channel[q]) <= Capacity
      /\ client \in [Readers -> [got : Int, end : Ends]]
  BY DEF Inv, TypeOK
<1>3. /\ at'[r] = step /\ reader'[r] = rd /\ channel'[r] = ch /\ client'[r] = cl
      /\ \A q \in Readers \ {r} : /\ at'[q] = at[q] /\ reader'[q] = reader[q]
                                  /\ channel'[q] = channel[q] /\ client'[q] = client[q]
  BY <1>2
<1>4. TypeOK'
  BY <1>1, <1>2, <1>3 DEF TypeOK
<1>5. DownloadSound(r)'
  BY <1>3
<1>6. ASSUME NEW q \in Readers \ {r}
      PROVE  DownloadSound(q)'
  <2>1. DownloadSound(q)
    BY DEF Inv
  <2>2. /\ at'[q] = at[q] /\ reader'[q] = reader[q]
        /\ channel'[q] = channel[q] /\ client'[q] = client[q]
    BY <1>3
  <2>3. TaskSound(q)'
    BY <2>1, <2>2 DEF DownloadSound, TaskSound
  <2>4. Chain(q) => Chain(q)'
    BY <2>2 DEF Chain
  <2>5. Finished(q) => Finished(q)'
    BY <2>2 DEF Finished, Remaining
  <2> QED
    BY <2>1, <2>2, <2>3, <2>4, <2>5 DEF DownloadSound, Listening
<1> QED
  BY <1>1, <1>4, <1>5, <1>6 DEF Inv

\* A download that is over, and has no task, is sound whatever it leaves.
LEMMA OverSound ==
  ASSUME NEW r \in Readers, at'[r] = "idle", client'[r].end # "open"
  PROVE  DownloadSound(r)'
BY DEF DownloadSound, TaskSound, Listening

LEMMA OpenKeeps ==
  ASSUME Inv, UNCHANGED ovars, NEW r \in Readers, NEW via \in {"http", "head", "grpc"},
         NEW range \in Nat \X Nat, NEW k \in Keys \union {Empty}, Open(r, via, k, range),
         \/ k \in Keys /\ (Step(r, "get") \/ Step(r, "head"))
         \/ k = Empty /\ UNCHANGED at
  PROVE  Inv'
<1> DEFINE rd == [NoReader EXCEPT !.via = via, !.key = k, !.offset = range[1], !.limit = range[2]]
           cl == [got |-> 0, end |-> "open"]
<1>1. range[1] \in Nat /\ range[2] \in Nat /\ 0 \in 0..MaxSize /\ 0 \in Int
  BY ObjectAssumption
<1>2. /\ rd \in Reader /\ rd.key = k /\ rd.from = 0 /\ rd.pos = 0 /\ rd.body = NoBody
      /\ cl \in [got : Int, end : Ends] /\ cl.got = 0
  BY <1>1 DEF NoReader, Reader, Ends
<1>3. /\ reader' = [reader EXCEPT ![r] = rd] /\ client' = [client EXCEPT ![r] = cl]
      /\ channel' = [channel EXCEPT ![r] = <<>>]
  BY DEF Open
<1>4. PICK step \in {"idle", "head", "get"} :
        /\ at' = [at EXCEPT ![r] = step]
        /\ \/ k \in Keys /\ step \in {"get", "head"}
           \/ k = Empty /\ step = "idle"
  BY DEF Open, Step, Inv, TypeOK
<1> HIDE DEF rd, cl
<1>5. ASSUME at'[r] = step, reader'[r] = rd, channel'[r] = <<>>, client'[r] = cl
      PROVE  DownloadSound(r)'
  <2>1. TaskSound(r)'
    BY <1>2, <1>4, <1>5 DEF TaskSound
  <2> QED
    BY <1>2, <1>4, <1>5, <2>1 DEF DownloadSound, Listening
<1>6. <<>> \in Seq(Nat \X Nat) /\ Len(<<>>) <= Capacity
  BY ReadsAssumption
<1> QED
  BY <1>2, <1>3, <1>4, <1>5, <1>6, DownloadOfOne

\* The handler gives up, or the client does.
LEMMA RefuseKeeps ==
  ASSUME Inv, UNCHANGED ovars, NEW r \in Readers, NEW why \in Ends \ {"open"}, Refuse(r, why),
         channel' \in {channel, [channel EXCEPT ![r] = <<>>]}
  PROVE  Inv'
<1> DEFINE cl == [NoClient EXCEPT !.end = why]
<1>1. cl \in [got : Int, end : Ends] /\ cl.end # "open" /\ NoReader \in Reader
  BY ObjectAssumption DEF NoClient, NoReader, Reader
<1>2. PICK ch \in Seq(Nat \X Nat) : Len(ch) <= Capacity /\ channel' = [channel EXCEPT ![r] = ch]
  <2>1. channel = [channel EXCEPT ![r] = channel[r]]
    BY DEF Inv, TypeOK
  <2>2. channel[r] \in Seq(Nat \X Nat) /\ Len(channel[r]) <= Capacity
    BY DEF Inv, TypeOK
  <2>3. <<>> \in Seq(Nat \X Nat) /\ Len(<<>>) <= Capacity
    BY ReadsAssumption
  <2> QED
    BY <2>1, <2>2, <2>3
<1>3. /\ at' = [at EXCEPT ![r] = "idle"] /\ reader' = [reader EXCEPT ![r] = NoReader]
      /\ client' = [client EXCEPT ![r] = cl]
  BY DEF Refuse, Step, Client
<1> HIDE DEF cl
<1> QED
  BY <1>1, <1>2, <1>3, OverSound, DownloadOfOne

LEMMA ContainsKeeps ==
  ASSUME Inv, UNCHANGED ovars, NEW r \in Readers, Contains(r)
  PROVE  Inv'
<1>1. CASE \E why \in {"missing", "error"} : Refuse(r, why)
  BY <1>1, RefuseKeeps DEF Contains, Ends
<1>2. CASE /\ object[reader[r].key] # NoObject
           /\ Step(r, "idle")
           /\ client' = [client EXCEPT ![r] = [got |-> object[reader[r].key].len, end |-> "found"]]
           /\ reader' = [reader EXCEPT ![r] = NoReader]
  <2> DEFINE cl == [got |-> object[reader[r].key].len, end |-> "found"]
  <2>1. reader[r].key \in Keys
    BY DEF Contains, Inv, DownloadSound, TaskSound
  <2>2. object[reader[r].key].len \in Int
    <3>1. object[reader[r].key].body \in Bodies
      BY <1>2, <2>1 DEF Inv, ObjectInv, ObjectsWhole
    <3>2. object[reader[r].key] \in Contents
      BY <2>1 DEF Inv, ObjectInv, ObjectTypeOK
    <3> QED
      BY <1>2, <3>1, <3>2 DEF Contents
  <2>3. cl \in [got : Int, end : Ends] /\ cl.end # "open" /\ NoReader \in Reader
    BY <2>2, ObjectAssumption DEF Ends, NoReader, Reader
  <2>4. /\ channel' = [channel EXCEPT ![r] = channel[r]] /\ channel[r] \in Seq(Nat \X Nat)
        /\ Len(channel[r]) <= Capacity
    BY DEF Contains, Inv, TypeOK
  <2>5. at' = [at EXCEPT ![r] = "idle"] /\ client' = [client EXCEPT ![r] = cl]
    BY <1>2 DEF Step
  <2> HIDE DEF cl
  <2> QED
    <3>1. at'[r] = "idle" /\ client'[r] = cl => DownloadSound(r)'
      BY <2>3, OverSound
    <3>2. reader' = [reader EXCEPT ![r] = NoReader]
      BY <1>2
    <3>3. Inv /\ UNCHANGED ovars /\ r \in Readers
      OBVIOUS
    <3> QED
      BY ONLY <2>3, <2>4, <2>5, <3>1, <3>2, <3>3, DownloadOfOne
<1> QED
  BY <1>1, <1>2 DEF Contains

LEMMA GetKeeps ==
  ASSUME Inv, UNCHANGED ovars, NEW r \in Readers, Get(r)
  PROVE  Inv'
<1>1. CASE \E why \in {"missing", "error"} : Refuse(r, why)
  BY <1>1, RefuseKeeps DEF Get, Ends
<1>2. CASE LET found == object[reader[r].key] IN
           /\ found # NoObject
           /\ reader' = [reader EXCEPT ![r].body = found.body, ![r].len = found.len]
           /\ Step(r, IF reader[r].offset > 0 THEN "skip" ELSE "loop")
           /\ UNCHANGED client
  <2>1. /\ at[r] = "get" /\ reader[r].key \in Keys /\ reader[r].from = 0 /\ reader[r].pos = 0
        /\ Listening(r) => channel[r] = <<>> /\ client[r].got = 0
    BY DEF Get, Inv, DownloadSound, TaskSound
  <2>2. PICK b \in Bodies : object[reader[r].key].body = b /\ object[reader[r].key].len = Size[b]
    BY <1>2, <2>1 DEF Inv, ObjectInv, ObjectsWhole
  <2>3. Size[b] \in 0..MaxSize
    BY ObjectAssumption
  <2>4. PICK rd \in Reader :
          /\ reader' = [reader EXCEPT ![r] = rd]
          /\ rd.body = b /\ rd.len = Size[b] /\ rd.key = reader[r].key /\ rd.from = 0 /\ rd.pos = 0
          /\ rd.offset = reader[r].offset /\ rd.limit = reader[r].limit
    <3>1. reader[r] \in Reader
      BY ReadTypes DEF Inv
    <3>2. [reader[r] EXCEPT !.body = b, !.len = Size[b]] \in Reader
      BY <2>3, <3>1 DEF Reader
    <3>3. reader' = [reader EXCEPT ![r] = [reader[r] EXCEPT !.body = b, !.len = Size[b]]]
      BY <1>2, <2>2 DEF Inv, TypeOK
    <3> QED
      BY <2>1, <3>1, <3>2, <3>3 DEF Reader
  <2>5. PICK step \in {"skip", "loop"} : /\ at' = [at EXCEPT ![r] = step]
                                         /\ step = "loop" => reader[r].offset = 0
    <3>1. reader[r].offset \in Nat
      BY ReadTypes DEF Inv
    <3>2. CASE reader[r].offset > 0
      BY <1>2, <3>2 DEF Step
    <3>3. CASE reader[r].offset = 0
      BY <1>2, <3>3 DEF Step
    <3> QED
      BY <3>1, <3>2, <3>3
  <2>6. /\ channel' = [channel EXCEPT ![r] = channel[r]] /\ channel[r] \in Seq(Nat \X Nat)
        /\ Len(channel[r]) <= Capacity
        /\ client' = [client EXCEPT ![r] = client[r]] /\ client[r] \in [got : Int, end : Ends]
    BY <1>2 DEF Get, Inv, TypeOK
  <2>7. ASSUME at'[r] = step, reader'[r] = rd, channel'[r] = channel[r], client'[r] = client[r]
        PROVE  DownloadSound(r)'
    <3>1. TaskSound(r)'
      BY <2>1, <2>3, <2>4, <2>5, <2>7, ReadTypes DEF TaskSound, Inv
    <3>2. Listening(r)' => channel'[r] = <<>> /\ client'[r].got = 0
      BY <2>1, <2>7 DEF Listening
    <3>3. Listening(r)' /\ step = "loop" => Chain(r)'
      BY <2>4, <2>5, <2>7, <3>2 DEF Chain
    <3> QED
      BY <2>5, <2>7, <3>1, <3>2, <3>3 DEF DownloadSound
  <2> QED
    BY <2>4, <2>5, <2>6, <2>7, DownloadOfOne
<1> QED
  BY <1>1, <1>2 DEF Get

LEMMA SkipKeeps ==
  ASSUME Inv, UNCHANGED ovars, NEW r \in Readers, Skip(r)
  PROVE  Inv'
<1>1. CASE Refuse(r, "error")
  BY <1>1, RefuseKeeps DEF Skip, Ends
<1>2. CASE /\ reader[r].offset <= reader[r].len
           /\ reader' = [reader EXCEPT ![r].pos = reader[r].offset, ![r].from = reader[r].offset]
           /\ Step(r, "loop")
           /\ UNCHANGED client
  <2>1. /\ at[r] = "skip" /\ reader[r].body \in Bodies /\ reader[r].len = Size[reader[r].body]
        /\ reader[r].key \in Keys
        /\ Listening(r) => channel[r] = <<>> /\ client[r].got = 0
    BY DEF Skip, Inv, DownloadSound, TaskSound
  <2>2. reader[r] \in Reader /\ reader[r].offset \in 0..MaxSize /\ reader[r].limit \in Nat
    BY <1>2, ReadTypes DEF Inv
  <2>3. PICK rd \in Reader :
          /\ reader' = [reader EXCEPT ![r] = rd]
          /\ rd.body = reader[r].body /\ rd.len = reader[r].len /\ rd.key = reader[r].key
          /\ rd.from = reader[r].offset /\ rd.pos = reader[r].offset
          /\ rd.offset = reader[r].offset /\ rd.limit = reader[r].limit
    <3>1. [reader[r] EXCEPT !.pos = reader[r].offset, !.from = reader[r].offset] \in Reader
      BY <2>2 DEF Reader
    <3>2. reader' = [reader EXCEPT
                       ![r] = [reader[r] EXCEPT !.pos = reader[r].offset, !.from = reader[r].offset]]
      BY <1>2 DEF Inv, TypeOK
    <3> QED
      BY <2>2, <3>1, <3>2 DEF Reader
  <2>4. /\ at' = [at EXCEPT ![r] = "loop"]
        /\ channel' = [channel EXCEPT ![r] = channel[r]] /\ channel[r] \in Seq(Nat \X Nat)
        /\ Len(channel[r]) <= Capacity
        /\ client' = [client EXCEPT ![r] = client[r]] /\ client[r] \in [got : Int, end : Ends]
    BY <1>2 DEF Skip, Step, Inv, TypeOK
  <2>5. ASSUME at'[r] = "loop", reader'[r] = rd, channel'[r] = channel[r], client'[r] = client[r]
        PROVE  DownloadSound(r)'
    <3>1. TaskSound(r)'
      BY <1>2, <2>1, <2>2, <2>3, <2>5 DEF TaskSound
    <3>2. Listening(r)' => Chain(r)'
      BY <2>1, <2>2, <2>3, <2>5 DEF Chain, Listening
    <3> QED
      BY <2>5, <3>1, <3>2 DEF DownloadSound
  <2> QED
    BY <2>3, <2>4, <2>5, DownloadOfOne
<1> QED
  BY <1>1, <1>2 DEF Skip

\* What remains is no more than the object, or the limit, has left.
LEMMA RemainingLeft ==
  ASSUME Inv, NEW r \in Readers, at[r] = "loop"
  PROVE  /\ Remaining(r) \in Nat /\ Remaining(r) <= reader[r].len - reader[r].pos
         /\ reader[r].limit > 0 =>
              Remaining(r) <= reader[r].limit - (reader[r].pos - reader[r].offset)
         /\ Remaining(r) = 0 => \/ reader[r].len = reader[r].pos
                                \/ /\ reader[r].limit > 0
                                   /\ reader[r].limit = reader[r].pos - reader[r].offset
<1>1. TaskSound(r)
  BY DEF Inv, DownloadSound
<1>2. /\ reader[r].offset \in Nat /\ reader[r].limit \in Nat /\ reader[r].len \in Nat
      /\ reader[r].pos \in Nat /\ reader[r].from \in Nat
  BY ReadTypes DEF Inv
<1>3. /\ reader[r].offset <= reader[r].pos /\ reader[r].pos <= reader[r].len
      /\ reader[r].limit > 0 => reader[r].pos - reader[r].offset <= reader[r].limit
  BY <1>1, <1>2 DEF TaskSound
<1>4. CASE reader[r].limit = 0
  BY <1>2, <1>3, <1>4 DEF Remaining
<1>5. CASE reader[r].limit > 0
  BY <1>2, <1>3, <1>5 DEF Remaining, Least
<1> QED
  BY <1>2, <1>4, <1>5

LEMMA ReadPieceKeeps ==
  ASSUME Inv, UNCHANGED ovars, NEW r \in Readers, ReadPiece(r)
  PROVE  Inv'
<1>1. /\ at[r] = "loop" /\ TaskSound(r) /\ (Listening(r) => Chain(r))
  BY DEF ReadPiece, Inv, DownloadSound
<1>2. PICK n \in 1..Least(Piece, Remaining(r)) :
        reader' = [reader EXCEPT ![r].pos = reader[r].pos + n]
  BY DEF ReadPiece, Inv, TypeOK
<1>3. n \in Nat /\ n > 0 /\ n <= Remaining(r)
  BY <1>1, <1>2, RemainingLeft, ReadsAssumption DEF Least
<1>4. /\ reader[r].pos + n \in 0..MaxSize /\ reader[r].pos + n <= reader[r].len
      /\ reader[r].limit > 0 => (reader[r].pos + n) - reader[r].offset <= reader[r].limit
      /\ reader[r].from <= reader[r].pos + n
  <2>1. /\ reader[r].pos \in Nat /\ reader[r].from \in Nat /\ reader[r].len \in 0..MaxSize
        /\ reader[r].offset \in Nat /\ reader[r].limit \in Nat /\ MaxSize \in Nat
    BY ReadTypes DEF Inv
  <2>2. /\ Remaining(r) \in Nat /\ Remaining(r) <= reader[r].len - reader[r].pos
        /\ reader[r].limit > 0 =>
             Remaining(r) <= reader[r].limit - (reader[r].pos - reader[r].offset)
    BY <1>1, RemainingLeft
  <2>3. reader[r].from <= reader[r].pos
    BY <1>1 DEF TaskSound
  <2> QED
    BY <1>3, <2>1, <2>2, <2>3
<1>5. PICK rd \in Reader :
        /\ reader' = [reader EXCEPT ![r] = rd]
        /\ rd.body = reader[r].body /\ rd.len = reader[r].len /\ rd.key = reader[r].key
        /\ rd.from = reader[r].from /\ rd.pos = reader[r].pos + n
        /\ rd.offset = reader[r].offset /\ rd.limit = reader[r].limit
  <2>1. reader[r] \in Reader
    BY ReadTypes DEF Inv
  <2>2. [reader[r] EXCEPT !.pos = reader[r].pos + n] \in Reader
    BY <1>4, <2>1 DEF Reader
  <2>3. reader' = [reader EXCEPT ![r] = [reader[r] EXCEPT !.pos = reader[r].pos + n]]
    BY <1>2 DEF Inv, TypeOK
  <2> QED
    BY <2>1, <2>2, <2>3 DEF Reader
<1>6. /\ at' = [at EXCEPT ![r] = "send"]
      /\ channel' = [channel EXCEPT ![r] = channel[r]] /\ channel[r] \in Seq(Nat \X Nat)
      /\ Len(channel[r]) <= Capacity
      /\ client' = [client EXCEPT ![r] = client[r]] /\ client[r] \in [got : Int, end : Ends]
  BY DEF ReadPiece, Step, Inv, TypeOK
<1>7. ASSUME at'[r] = "send", reader'[r] = rd, channel'[r] = channel[r], client'[r] = client[r]
      PROVE  DownloadSound(r)'
  <2>1. TaskSound(r)'
    BY <1>1, <1>4, <1>5, <1>7 DEF TaskSound
  <2>2. Listening(r)' => Chain(r)'
    BY <1>1, <1>5, <1>7 DEF Chain, Listening
  <2> QED
    BY <1>7, <2>1, <2>2 DEF DownloadSound
<1> QED
  BY <1>5, <1>6, <1>7, DownloadOfOne

\* The task ends, after whatever it sent.
LEMMA TaskEndsKeeps ==
  ASSUME Inv, UNCHANGED ovars, NEW r \in Readers, TaskEnds(r), UNCHANGED <<channel, client>>,
         Listening(r) => Chain(r) /\ Finished(r) /\ at[r] = "loop"
  PROVE  Inv'
<1>1. PICK rd \in Reader : /\ reader' = [reader EXCEPT ![r] = rd]
                           /\ Listening(r) => rd = reader[r]
  <2>1. NoReader \in Reader
    BY ObjectAssumption DEF NoReader, Reader
  <2>2. reader = [reader EXCEPT ![r] = reader[r]] /\ reader[r] \in Reader
    BY DEF Inv, TypeOK
  <2>3. reader' = reader \/ (~Listening(r) /\ reader' = [reader EXCEPT ![r] = NoReader])
    BY DEF TaskEnds
  <2> QED
    BY <2>1, <2>2, <2>3
<1>2. /\ at' = [at EXCEPT ![r] = "idle"]
      /\ channel' = [channel EXCEPT ![r] = channel[r]] /\ channel[r] \in Seq(Nat \X Nat)
      /\ Len(channel[r]) <= Capacity
      /\ client' = [client EXCEPT ![r] = client[r]] /\ client[r] \in [got : Int, end : Ends]
  BY DEF TaskEnds, Step, Inv, TypeOK
<1>3. ASSUME at'[r] = "idle", reader'[r] = rd, channel'[r] = channel[r], client'[r] = client[r]
      PROVE  DownloadSound(r)'
  <2>1. CASE ~Listening(r)
    BY <1>3, <2>1, OverSound DEF Listening
  <2>2. CASE Listening(r)
    <3>1. Chain(r)'
      BY <1>1, <1>3, <2>2 DEF Chain
    <3>2. Finished(r)'
      BY <1>1, <1>3, <2>2 DEF Finished, Remaining
    <3>3. TaskSound(r)'
      BY <1>3 DEF TaskSound
    <3> QED
      BY <1>3, <3>1, <3>2, <3>3 DEF DownloadSound
  <2> QED
    BY <2>1, <2>2
<1> QED
  BY <1>1, <1>2, <1>3, DownloadOfOne

LEMMA ReadEndsKeeps ==
  ASSUME Inv, UNCHANGED ovars, NEW r \in Readers, ReadEnds(r)
  PROVE  Inv'
<1>1. at[r] = "loop" /\ Remaining(r) = 0 /\ TaskSound(r) /\ (Listening(r) => Chain(r))
  BY DEF ReadEnds, Inv, DownloadSound
<1>2. Finished(r)
  BY <1>1, ReadTypes DEF Inv, TaskSound, Finished
<1> QED
  BY <1>1, <1>2, TaskEndsKeeps DEF ReadEnds

LEMMA ReadBreaksKeeps ==
  ASSUME Inv, UNCHANGED ovars, NEW r \in Readers, ReadBreaks(r)
  PROVE  Inv'
<1>1. at[r] = "loop" /\ TaskSound(r) /\ (Listening(r) => Chain(r))
  BY DEF ReadBreaks, Inv, DownloadSound
<1>2. /\ at' = [at EXCEPT ![r] = "fail"]
      /\ reader' = [reader EXCEPT ![r] = reader[r]] /\ reader[r] \in Reader
      /\ channel' = [channel EXCEPT ![r] = channel[r]] /\ channel[r] \in Seq(Nat \X Nat)
      /\ Len(channel[r]) <= Capacity
      /\ client' = [client EXCEPT ![r] = client[r]] /\ client[r] \in [got : Int, end : Ends]
  BY DEF ReadBreaks, Step, Inv, TypeOK
<1>3. ASSUME at'[r] = "fail", reader'[r] = reader[r], channel'[r] = channel[r],
             client'[r] = client[r]
      PROVE  DownloadSound(r)'
  <2>1. TaskSound(r)'
    BY <1>1, <1>3 DEF TaskSound
  <2>2. Listening(r)' => Chain(r)'
    BY <1>1, <1>3 DEF Chain, Listening
  <2> QED
    BY <1>3, <2>1, <2>2 DEF DownloadSound
<1> QED
  BY <1>2, <1>3, DownloadOfOne

LEMMA Appended ==
  ASSUME NEW S, NEW s \in Seq(S), NEW x \in S
  PROVE  /\ Append(s, x) \in Seq(S) /\ Len(s) \in Nat /\ Len(Append(s, x)) = Len(s) + 1
         /\ Append(s, x)[Len(s) + 1] = x /\ Append(s, x) # <<>>
         /\ \A i \in 1..Len(s) : Append(s, x)[i] = s[i]
  OBVIOUS

\* The chain grows at its end.
LEMMA ChainGrows ==
  ASSUME NEW r \in Readers, Inv, Chain(r), at[r] \in {"send", "fail"}, Listening(r),
         channel'[r] = Append(channel[r], Sent(r)), client'[r] = client[r],
         reader'[r].offset = reader[r].offset, reader'[r].from = reader[r].pos,
         at[r] = "fail" => at'[r] = "idle"
  PROVE  Chain(r)'
<1> DEFINE c == channel[r]
           d == channel'[r]
<1>1. c \in Seq(Nat \X Nat) /\ reader[r].from \in Nat /\ reader[r].pos \in Nat
      /\ reader[r].offset \in Nat /\ client[r].got \in Int
  BY ReadTypes DEF Inv
<1>2. TaskSound(r)
  BY DEF Inv, DownloadSound
<1>3. \/ Sent(r) = Broken /\ at'[r] = "idle"
      \/ Sent(r) # Broken /\ Sent(r)[1] = reader[r].from /\ Sent(r)[2] = reader[r].pos
  <2>1. CASE at[r] = "fail"
    BY <2>1 DEF Sent
  <2>2. CASE at[r] = "send"
    <3>1. reader[r].from <= reader[r].pos
      BY <1>2, <2>2 DEF TaskSound
    <3>2. Sent(r) = <<reader[r].from, reader[r].pos>>
      BY <2>2 DEF Sent
    <3>3. ASSUME Sent(r) = Broken
          PROVE  FALSE
      <4>1. Sent(r)[1] = 1 /\ Sent(r)[2] = 0
        BY <3>3 DEF Broken
      <4> QED
        BY <1>1, <3>1, <3>2, <4>1
    <3> QED
      BY <3>2, <3>3
  <2> QED
    BY <2>1, <2>2
<1>4. Sent(r) = Broken => reader[r].from = reader[r].pos
  BY <1>1, <1>2 DEF Sent, Broken, TaskSound
<1>5. Sent(r) \in Nat \X Nat
  BY <1>1 DEF Sent, Broken
<1> DEFINE x == Sent(r)
<1> HIDE DEF x
<1>6. /\ Len(d) = Len(c) + 1 /\ d[Len(d)] = x /\ Len(c) \in Nat /\ d # <<>>
      /\ \A i \in 1..Len(c) : d[i] = c[i]
  <2>1. d = Append(c, x) /\ x \in Nat \X Nat
    BY <1>5 DEF x
  <2> DEFINE S == Nat \X Nat
  <2>2. c \in Seq(S) /\ x \in S
    BY <1>1, <2>1
  <2> HIDE DEF c, d, S
  <2>3. /\ Len(c) \in Nat /\ Len(Append(c, x)) = Len(c) + 1
        /\ Append(c, x)[Len(c) + 1] = x /\ Append(c, x) # <<>>
        /\ \A i \in 1..Len(c) : Append(c, x)[i] = c[i]
    BY <2>2, Appended
  <2> QED
    BY <2>1, <2>3
<1>7. c # <<>> => Len(c) >= 1 /\ c[Len(c)] # Broken /\ c[Len(c)][2] = reader[r].from
  BY <1>1 DEF Chain
<1>8. c = <<>> => Len(c) = 0 /\ reader[r].offset + client[r].got = reader[r].from
  BY DEF Chain
<1>9. \A i \in 1..(Len(c) - 1) : c[i] # Broken /\ (c[i + 1] # Broken => c[i + 1][1] = c[i][2])
  BY DEF Chain
<1>10. ASSUME NEW i \in 1..(Len(d) - 1)
       PROVE  d[i] # Broken /\ (d[i + 1] # Broken => d[i + 1][1] = d[i][2])
  <2>1. CASE i < Len(c)
    BY <1>6, <1>9, <2>1
  <2>2. CASE i = Len(c)
    <3>1. c # <<>> /\ d[i] = c[Len(c)] /\ d[i + 1] = x
      BY <1>6, <2>2
    <3> QED
      BY <1>3, <1>7, <3>1 DEF x
  <2> QED
    BY <1>6, <2>1, <2>2
<1>11. d[1] # Broken => d[1][1] = reader[r].offset + client[r].got
  <2>1. CASE c = <<>>
    BY <1>3, <1>6, <1>8, <2>1 DEF x
  <2>2. CASE c # <<>>
    BY <1>6, <1>7, <2>2 DEF Chain
  <2> QED
    BY <2>1, <2>2
<1>12. /\ d[Len(d)] # Broken => d[Len(d)][2] = reader[r].pos
       /\ d[Len(d)] = Broken => at'[r] = "idle"
  BY <1>3, <1>6 DEF x
<1> QED
  BY <1>6, <1>10, <1>11, <1>12 DEF Chain

LEMMA SendPieceKeeps ==
  ASSUME Inv, UNCHANGED ovars, NEW r \in Readers, SendPiece(r)
  PROVE  Inv'
<1>1. CASE ~Listening(r) /\ TaskEnds(r) /\ UNCHANGED channel
  BY <1>1, TaskEndsKeeps DEF SendPiece
<1>2. CASE Listening(r) /\ Push(r)
  <2>1. at[r] \in {"send", "fail"} /\ TaskSound(r) /\ Chain(r)
    BY <1>2 DEF SendPiece, Inv, DownloadSound
  <2>2. PICK rd \in Reader :
          /\ reader' = [reader EXCEPT ![r] = rd]
          /\ rd.body = reader[r].body /\ rd.len = reader[r].len /\ rd.key = reader[r].key
          /\ rd.from = reader[r].pos /\ rd.pos = reader[r].pos
          /\ rd.offset = reader[r].offset /\ rd.limit = reader[r].limit
    <3>1. reader[r] \in Reader /\ reader[r].pos \in 0..MaxSize
      BY ReadTypes DEF Inv
    <3>2. [reader[r] EXCEPT !.from = reader[r].pos] \in Reader
      BY <3>1 DEF Reader
    <3>3. reader' = [reader EXCEPT ![r] = [reader[r] EXCEPT !.from = reader[r].pos]]
      BY <1>2 DEF Push, Inv, TypeOK
    <3> QED
      BY <3>1, <3>2, <3>3 DEF Reader
  <2>3. PICK step \in {"loop", "idle"} : /\ at' = [at EXCEPT ![r] = step]
                                         /\ at[r] = "send" => step = "loop"
                                         /\ at[r] = "fail" => step = "idle"
    BY <1>2, <2>1 DEF Push, Step
  <2>4. Sent(r) \in Nat \X Nat
    BY ReadTypes DEF Inv, Sent, Broken
  <2>5. PICK ch \in Seq(Nat \X Nat) : /\ Len(ch) <= Capacity /\ ch = Append(channel[r], Sent(r))
                                      /\ channel' = [channel EXCEPT ![r] = ch]
    <3>1. channel[r] \in Seq(Nat \X Nat) /\ Capacity \in Nat /\ Len(channel[r]) < Capacity
      BY <1>2, ReadTypes, ReadsAssumption DEF Inv, Push, HasRoom
    <3>2. Append(channel[r], Sent(r)) \in Seq(Nat \X Nat)
          /\ Len(Append(channel[r], Sent(r))) = Len(channel[r]) + 1
      BY <2>4, <3>1, Appended
    <3>3. channel' = [channel EXCEPT ![r] = Append(channel[r], Sent(r))]
      BY <1>2 DEF Push, Inv, TypeOK
    <3>4. Len(Append(channel[r], Sent(r))) <= Capacity
      <4>1. Len(channel[r]) \in Nat
        BY <3>1
      <4> QED
        BY <3>1, <3>2, <4>1
    <3> QED
      BY <3>2, <3>3, <3>4
  <2>6. client' = [client EXCEPT ![r] = client[r]] /\ client[r] \in [got : Int, end : Ends]
    BY <1>2 DEF SendPiece, Inv, TypeOK
  <2>7. ASSUME at'[r] = step, reader'[r] = rd, channel'[r] = ch, client'[r] = client[r]
        PROVE  DownloadSound(r)'
    <3>1. Chain(r)'
      BY <1>2, <2>1, <2>2, <2>3, <2>5, <2>7, ChainGrows
    <3>2. CASE at[r] = "send"
      <4>1. TaskSound(r)'
        <5>1. /\ reader[r].from <= reader[r].pos /\ reader[r].offset <= reader[r].from
              /\ reader[r].offset \in Nat /\ reader[r].from \in Nat /\ reader[r].pos \in Nat
          BY <2>1, ReadTypes DEF Inv, TaskSound
        <5>2. reader[r].offset <= reader[r].pos
          BY <5>1
        <5> QED
          BY <2>1, <2>2, <2>3, <2>7, <3>2, <5>1, <5>2 DEF TaskSound
      <4> QED
        BY <2>3, <2>7, <3>1, <3>2, <4>1 DEF DownloadSound
    <3>3. CASE at[r] = "fail"
      <4>1. ch # <<>> /\ ch[Len(ch)] = Broken
        <5>1. channel[r] \in Seq(Nat \X Nat) /\ Sent(r) = Broken
          BY <3>3, ReadTypes DEF Inv, Sent
        <5>2. /\ Append(channel[r], Sent(r)) # <<>> /\ Len(ch) = Len(channel[r]) + 1
              /\ Append(channel[r], Sent(r))[Len(channel[r]) + 1] = Sent(r)
          BY <2>4, <2>5, <5>1, Appended, SMTT(30)
        <5> QED
          BY <2>5, <5>1, <5>2
      <4>2. TaskSound(r)'
        BY <2>3, <2>7, <3>3 DEF TaskSound
      <4> QED
        BY <2>3, <2>7, <3>1, <3>3, <4>1, <4>2 DEF DownloadSound
    <3> QED
      BY <2>1, <3>2, <3>3
  <2> QED
    BY <2>2, <2>3, <2>5, <2>6, <2>7, DownloadOfOne
<1> QED
  BY <1>1, <1>2 DEF SendPiece

LEMMA Tailed ==
  ASSUME NEW S, NEW s \in Seq(S), s # <<>>
  PROVE  /\ Tail(s) \in Seq(S) /\ Len(s) \in Nat /\ Len(s) >= 1 /\ Len(Tail(s)) = Len(s) - 1
         /\ \A i \in 1..(Len(s) - 1) : Tail(s)[i] = s[i + 1]
  OBVIOUS

LEMMA EmptyIfShort ==
  ASSUME NEW S, NEW s \in Seq(S)
  PROVE  s = <<>> <=> Len(s) = 0
  OBVIOUS

\* The chain loses its first piece, and the client has it.
LEMMA ChainShrinks ==
  ASSUME NEW r \in Readers, Inv, Chain(r), channel[r] # <<>>, channel[r][1] # Broken,
         channel'[r] = Tail(channel[r]),
         client'[r].got = client[r].got + (channel[r][1][2] - channel[r][1][1]),
         reader'[r] = reader[r], at'[r] = at[r]
  PROVE  Chain(r)' /\ (channel[r][Len(channel[r])] = Broken
                       => channel'[r] # <<>> /\ channel'[r][Len(channel'[r])] = Broken)
<1> DEFINE c == channel[r]
           d == channel'[r]
           base == reader[r].offset + client[r].got
<1>1. /\ c \in Seq(Nat \X Nat) /\ reader[r].from \in Nat /\ reader[r].offset \in Nat
      /\ client[r].got \in Int
  BY ReadTypes DEF Inv
<1>2. /\ Len(c) \in Nat /\ Len(c) >= 1 /\ Len(d) = Len(c) - 1 /\ (d = <<>> <=> Len(c) = 1)
      /\ \A i \in 1..(Len(c) - 1) : d[i] = c[i + 1]
  <2> DEFINE S == Nat \X Nat
  <2>1. c \in Seq(S) /\ c # <<>> /\ d = Tail(c)
    BY <1>1
  <2> HIDE DEF c, d, S
  <2>2. /\ d \in Seq(S) /\ Len(c) \in Nat /\ Len(c) >= 1 /\ Len(d) = Len(c) - 1
        /\ \A i \in 1..(Len(c) - 1) : d[i] = c[i + 1]
    BY <2>1, Tailed
  <2>3. d = <<>> <=> Len(d) = 0
    BY <2>2, EmptyIfShort
  <2>4. Len(d) = 0 <=> Len(c) = 1
    BY <2>2
  <2>5. d = <<>> <=> Len(c) = 1
    BY <2>3, <2>4
  <2> QED
    BY <2>2, <2>5
<1>3. c[1] \in Nat \X Nat /\ c[1][1] \in Nat /\ c[1][2] \in Nat
  BY <1>1, <1>2
<1>4. /\ \A i \in 1..(Len(c) - 1) : c[i] # Broken /\ (c[i + 1] # Broken => c[i + 1][1] = c[i][2])
      /\ c[1][1] = base
      /\ c[Len(c)] # Broken => c[Len(c)][2] = reader[r].from
      /\ c[Len(c)] = Broken => at[r] = "idle"
  BY DEF Chain
<1>5. reader'[r].offset + client'[r].got = c[1][2]
  <2>1. client'[r].got = client[r].got + (c[1][2] - c[1][1])
    OBVIOUS
  <2>2. c[1][1] = reader[r].offset + client[r].got
    BY <1>4
  <2> HIDE DEF c
  <2>3. reader[r].offset \in Int /\ client[r].got \in Int
    BY <1>1
  <2>4. c[1][1] \in Int /\ c[1][2] \in Int
    BY <1>3
  <2>5. reader'[r].offset = reader[r].offset
    OBVIOUS
  <2>6. reader'[r].offset + client'[r].got
          = reader[r].offset + (client[r].got + (c[1][2] - c[1][1]))
    BY <2>1, <2>5
  <2>7. ASSUME NEW o \in Int, NEW g \in Int, NEW x \in Int, NEW y \in Int, x = o + g
        PROVE  o + (g + (y - x)) = y
    BY ONLY <2>7
  <2> QED
    BY ONLY <2>2, <2>3, <2>4, <2>6, <2>7
<1> HIDE DEF c, d, base
<1>6. CASE Len(c) = 1
  <2>1. d = <<>> /\ Len(d) = 0 /\ c[1][2] = reader[r].from
    BY <1>2, <1>4, <1>6 DEF c
  <2> QED
    BY <1>2, <1>5, <1>6, <2>1 DEF Chain, c, d
<1>7. CASE Len(c) > 1
  <2>1. d # <<>> /\ d[1] = c[2] /\ d[Len(d)] = c[Len(c)] /\ Len(d) \in Nat /\ Len(d) >= 1
    <3>1. Len(d) \in Nat /\ Len(d) >= 1 /\ Len(d) + 1 = Len(c) /\ d # <<>>
      BY <1>2, <1>7
    <3>2. 1 \in 1..(Len(c) - 1) /\ Len(d) \in 1..(Len(c) - 1)
      BY <1>2, <1>7
    <3>3. d[1] = c[1 + 1] /\ d[Len(d)] = c[Len(d) + 1]
      BY <1>2, <3>2
    <3> QED
      BY <3>1, <3>3
  <2>2. d[1] # Broken => d[1][1] = c[1][2]
    <3>1. 1 \in 1..(Len(c) - 1)
      BY <1>2, <1>7
    <3>2. c[1 + 1] # Broken => c[1 + 1][1] = c[1][2]
      BY <1>4, <3>1
    <3> QED
      BY <2>1, <3>2
  <2>3. ASSUME NEW i \in 1..(Len(d) - 1)
        PROVE  d[i] # Broken /\ (d[i + 1] # Broken => d[i + 1][1] = d[i][2])
    <3>1. /\ i + 1 \in 1..(Len(c) - 1) /\ i \in 1..(Len(c) - 1)
          /\ d[i] = c[i + 1] /\ d[i + 1] = c[(i + 1) + 1]
      BY <1>2
    <3> QED
      BY <1>4, <3>1
  <2> QED
    BY <1>4, <1>5, <2>1, <2>2, <2>3 DEF Chain, c, d
<1> QED
  BY <1>2, <1>6, <1>7

LEMMA ReceiveKeeps ==
  ASSUME Inv, UNCHANGED ovars, NEW r \in Readers, Receive(r)
  PROVE  Inv'
<1>1. /\ Listening(r) /\ channel[r] # <<>> /\ channel[r] \in Seq(Nat \X Nat)
      /\ Len(channel[r]) <= Capacity /\ client[r] \in [got : Int, end : Ends]
      /\ reader[r] \in Reader /\ DownloadSound(r)
      /\ at[r] \in {"idle", "head", "get", "skip", "loop", "send", "fail"}
  BY DEF Receive, Inv, TypeOK
<1>2. Chain(r) /\ at[r] \in {"loop", "send", "fail", "idle"}
  BY <1>1 DEF DownloadSound
<1>3. PICK ch \in Seq(Nat \X Nat) : /\ ch = Tail(channel[r]) /\ Len(ch) <= Capacity
                                    /\ channel' = [channel EXCEPT ![r] = ch]
  <2>1. Tail(channel[r]) \in Seq(Nat \X Nat) /\ Len(Tail(channel[r])) <= Capacity
    BY <1>1, ReadsAssumption
  <2>2. channel' = [channel EXCEPT ![r] = Tail(channel[r])]
    BY DEF Receive, Inv, TypeOK
  <2> QED
    BY <2>1, <2>2
<1>4. at' = [at EXCEPT ![r] = at[r]]
  BY DEF Receive, Inv, TypeOK
<1>5. CASE channel[r][1] = Broken
  <2>1. at[r] = "idle"
    <3> DEFINE n == Len(channel[r])
    <3>1. n \in Nat /\ n >= 1
      BY <1>1
    <3>2. ASSUME n > 1
          PROVE  FALSE
      <4> HIDE DEF n
      <4>1. 1 \in 1..(n - 1)
        BY <3>1, <3>2
      <4> QED
        BY <1>2, <1>5, <4>1 DEF Chain, n
    <3>3. n = 1
      <4> HIDE DEF n
      <4> QED
        BY <3>1, <3>2
    <3> QED
      BY <1>1, <1>2, <1>5, <3>3 DEF Chain
  <2> DEFINE cl == [NoClient EXCEPT !.end = "error"]
  <2>2. cl \in [got : Int, end : Ends] /\ cl.end # "open" /\ NoReader \in Reader
    BY ObjectAssumption DEF NoClient, NoReader, Reader, Ends
  <2>3. client' = [client EXCEPT ![r] = cl] /\ reader' = [reader EXCEPT ![r] = NoReader]
    BY <1>1, <1>5 DEF Receive, Client
  <2> HIDE DEF cl
  <2>4. at'[r] = "idle" /\ client'[r] = cl => DownloadSound(r)'
    BY <2>2, OverSound
  <2>5. at' = [at EXCEPT ![r] = "idle"]
    BY <1>4, <2>1
  <2> QED
    BY <1>3, <2>2, <2>3, <2>4, <2>5, DownloadOfOne
<1>6. CASE channel[r][1] # Broken
  <2>1. channel[r][1] \in Nat \X Nat
    BY <1>1
  <2>2. PICK cl \in [got : Int, end : Ends] :
          /\ client' = [client EXCEPT ![r] = cl]
          /\ cl.got = client[r].got + (channel[r][1][2] - channel[r][1][1])
          /\ cl.end = "open"
    <3> DEFINE more == client[r].got + (channel[r][1][2] - channel[r][1][1])
    <3>1. more \in Int
      <4>1. channel[r][1][1] \in Int /\ channel[r][1][2] \in Int /\ client[r].got \in Int
        BY <1>1, <2>1
      <4>2. ASSUME NEW g \in Int, NEW x \in Int, NEW y \in Int
            PROVE  g + (y - x) \in Int
        BY ONLY <4>2
      <4> QED
        BY ONLY <4>1, <4>2
    <3>2. client' = [client EXCEPT ![r] = [client[r] EXCEPT !.got = more]]
      BY <1>1, <1>6 DEF Receive, Inv, TypeOK
    <3> HIDE DEF more
    <3>3. [client[r] EXCEPT !.got = more] \in [got : Int, end : Ends]
      BY <1>1, <3>1
    <3>4. [client[r] EXCEPT !.got = more].got = more /\ [client[r] EXCEPT !.got = more].end = "open"
      BY <1>1 DEF Listening
    <3> QED
      BY <3>2, <3>3, <3>4 DEF more
  <2>3. reader' = [reader EXCEPT ![r] = reader[r]]
    BY <1>1, <1>6 DEF Receive, Inv, TypeOK
  <2>4. ASSUME at'[r] = at[r], reader'[r] = reader[r], channel'[r] = ch, client'[r] = cl
        PROVE  DownloadSound(r)'
    <3>1. /\ Chain(r)'
          /\ channel[r][Len(channel[r])] = Broken
             => channel'[r] # <<>> /\ channel'[r][Len(channel'[r])] = Broken
      BY <1>1, <1>2, <1>3, <1>6, <2>2, <2>4, ChainShrinks
    <3>2. TaskSound(r)'
      BY <1>1, <2>4 DEF DownloadSound, TaskSound
    <3>3. Finished(r) => Finished(r)'
      BY <2>4 DEF Finished, Remaining
    <3>4. at[r] = "idle" => \/ Finished(r)
                            \/ channel[r] # <<>> /\ channel[r][Len(channel[r])] = Broken
      BY <1>1 DEF DownloadSound
    <3> QED
      BY <1>2, <2>4, <3>1, <3>2, <3>3, <3>4 DEF DownloadSound
  <2> QED
    <3>1. Inv /\ UNCHANGED ovars /\ r \in Readers
      OBVIOUS
    <3>2. /\ Len(ch) <= Capacity /\ channel' = [channel EXCEPT ![r] = ch]
          /\ at[r] \in {"idle", "head", "get", "skip", "loop", "send", "fail"}
          /\ reader[r] \in Reader /\ client' = [client EXCEPT ![r] = cl]
      BY <1>1, <1>3, <2>2
    <3>3. ch \in Seq(Nat \X Nat) /\ cl \in [got : Int, end : Ends]
      OBVIOUS
    <3> QED
      BY ONLY <1>4, <2>3, <2>4, <3>1, <3>2, <3>3, DownloadOfOne
<1> QED
  BY <1>5, <1>6

LEMMA SeeEndKeeps ==
  ASSUME Inv, UNCHANGED ovars, NEW r \in Readers, SeeEnd(r)
  PROVE  Inv'
<1> DEFINE cl == [NoClient EXCEPT !.end = "clean"]
<1>1. cl \in [got : Int, end : Ends] /\ cl.end # "open" /\ NoReader \in Reader
  BY ObjectAssumption DEF NoClient, NoReader, Reader, Ends
<1>2. /\ at[r] = "idle" /\ at' = [at EXCEPT ![r] = "idle"]
      /\ channel' = [channel EXCEPT ![r] = channel[r]] /\ channel[r] \in Seq(Nat \X Nat)
      /\ Len(channel[r]) <= Capacity
      /\ client' = [client EXCEPT ![r] = cl] /\ reader' = [reader EXCEPT ![r] = NoReader]
  BY DEF SeeEnd, Client, Inv, TypeOK
<1> HIDE DEF cl
<1> QED
  BY <1>1, <1>2, OverSound, DownloadOfOne

LEMMA LeaveKeeps ==
  ASSUME Inv, UNCHANGED ovars, NEW r \in Readers, Leave(r)
  PROVE  Inv'
<1>1. CASE Refuse(r, "gone")
  BY <1>1, RefuseKeeps DEF Leave, Ends
<1>2. CASE Client(r, "gone") /\ UNCHANGED <<at, reader>>
  <2> DEFINE cl == [NoClient EXCEPT !.end = "gone"]
  <2>1. cl \in [got : Int, end : Ends] /\ cl.end # "open"
    BY DEF NoClient, Ends
  <2>2. <<>> \in Seq(Nat \X Nat) /\ Len(<<>>) <= Capacity
    BY ReadsAssumption
  <2>3. /\ at' = [at EXCEPT ![r] = at[r]] /\ reader' = [reader EXCEPT ![r] = reader[r]]
        /\ at[r] \in {"idle", "head", "get", "skip", "loop", "send", "fail"}
        /\ reader[r] \in Reader
        /\ channel' = [channel EXCEPT ![r] = <<>>] /\ client' = [client EXCEPT ![r] = cl]
    BY <1>2 DEF Leave, Client, Inv, TypeOK
  <2> HIDE DEF cl
  <2>4. ASSUME at'[r] = at[r], reader'[r] = reader[r], client'[r] = cl
        PROVE  DownloadSound(r)'
    <3>1. TaskSound(r)
      BY DEF Inv, DownloadSound
    <3>2. TaskSound(r)'
      BY <2>4, <3>1 DEF TaskSound
    <3> QED
      BY <2>1, <2>4, <3>2 DEF DownloadSound, Listening
  <2> QED
    BY <2>1, <2>2, <2>3, <2>4, DownloadOfOne
<1> QED
  BY <1>1, <1>2 DEF Leave

\* Inv is inductive.
LEMMA DownloadKeeps ==
  ASSUME Inv, UNCHANGED ovars, NEW r \in Readers, Download(r)
  PROVE  Inv'
<1>1. \A range \in Ranges : range \in Nat \X Nat
  BY ReadsAssumption
<1>2. CASE \E k \in Keys : GetCache(r, k) \/ HeadCache(r, k)
  BY <1>2, OpenKeeps DEF GetCache, HeadCache
<1>3. CASE \E k \in Keys : \E range \in Ranges : Read(r, k, range)
  BY <1>1, <1>3, OpenKeeps DEF Read
<1>4. CASE \E range \in Ranges : ReadEmpty(r, range)
  BY <1>1, <1>4, OpenKeeps DEF ReadEmpty
<1>5. CASE Task(r)
  BY <1>5, ReadPieceKeeps, ReadEndsKeeps, ReadBreaksKeeps, SendPieceKeeps DEF Task
<1> QED
  BY <1>2, <1>3, <1>4, <1>5, ContainsKeeps, GetKeeps, SkipKeeps, ReceiveKeeps, SeeEndKeeps,
     LeaveKeeps DEF Download

LEMMA DownloadsUnchanged ==
  ASSUME Inv, UNCHANGED rvars, ObjectInv'
  PROVE  Inv'
<1>1. TypeOK'
  BY DEF Inv, TypeOK, ObjectInv, rvars
<1>2. ASSUME NEW q \in Readers
      PROVE  DownloadSound(q)'
  <2>1. DownloadSound(q)
    BY DEF Inv
  <2>2. TaskSound(q)'
    BY <2>1 DEF DownloadSound, TaskSound, rvars
  <2>3. Chain(q) => Chain(q)'
    BY DEF Chain, rvars
  <2>4. Finished(q) => Finished(q)'
    BY DEF Finished, Remaining, rvars
  <2> QED
    BY <2>1, <2>2, <2>3, <2>4 DEF DownloadSound, Listening, rvars
<1> QED
  BY <1>1, <1>2 DEF Inv

LEMMA StepKeeps ==
  ASSUME Inv, [Next]_vars
  PROVE  Inv'
<1>1. ObjectInv'
  BY ObjectNextOrNot DEF Inv
<1>2. UNCHANGED rvars \/ \E r \in Readers : Download(r) /\ UNCHANGED ovars
  BY DEF Next, vars
<1> QED
  BY <1>1, <1>2, DownloadKeeps, DownloadsUnchanged

LEMMA Start == Init => Inv
<1> SUFFICES ASSUME Init
             PROVE  Inv
  OBVIOUS
<1>1. ObjectInv /\ ObjectTypeOK
  BY ObjectStart DEF Init, ObjectInv
<1>2. /\ at = [r \in Readers |-> "idle"] /\ reader = [r \in Readers |-> NoReader]
      /\ channel = [r \in Readers |-> <<>>] /\ client = [r \in Readers |-> NoClient]
  BY DEF Init, ReadsInit
<1>3. /\ NoReader \in Reader /\ NoClient \in [got : Int, end : Ends] /\ NoClient.end # "open"
      /\ <<>> \in Seq(Nat \X Nat) /\ Len(<<>>) <= Capacity
  BY ObjectAssumption, ReadsAssumption DEF NoReader, Reader, NoClient, Ends
<1>4. TypeOK
  BY <1>1, <1>2, <1>3 DEF TypeOK
<1>5. \A r \in Readers : DownloadSound(r)
  BY <1>2, <1>3 DEF DownloadSound, TaskSound, Listening
<1> QED
  BY <1>1, <1>4, <1>5 DEF Inv

LEMMA AllSound == Spec => []Inv
  BY Start, StepKeeps, PTL DEF Spec

\* The types of uploads and downloads hold, and no channel is overfilled.
THEOREM ReadsTyped == Spec => []TypeOK
<1>1. Inv => TypeOK
  BY DEF Inv
<1> QED
  BY <1>1, AllSound, PTL

\* A client is told that all is well, or that there is a blob, by two steps only.
LEMMA WhoTellsClean ==
  ASSUME Inv, UNCHANGED ovars, NEW q \in Readers, Download(q), NEW r \in Readers,
         Listening(r), client'[r].end \in {"clean", "found"}
  PROVE  \/ SeeEnd(r) /\ client'[r].end = "clean"
         \/ /\ Contains(r) /\ client'[r].end = "found" /\ object[reader[r].key] # NoObject
            /\ client'[r].got = object[reader[r].key].len
<1>1. client[r].end = "open" /\ client \in [Readers -> [got : Int, end : Ends]] /\ client' # client
  BY DEF Listening, Inv, TypeOK
<1>2. ASSUME NEW cl, client' = [client EXCEPT ![q] = cl]
      PROVE  q = r /\ client'[r] = cl
  BY <1>1, <1>2
<1>3. ASSUME NEW why, Client(q, why)
      PROVE  q = r /\ client'[r].end = why
  BY <1>1, <1>2, <1>3 DEF Client, NoClient
<1>5. ASSUME NEW via, NEW k, NEW range, Open(q, via, k, range)
      PROVE  FALSE
  BY <1>1, <1>2, <1>5 DEF Open
<1>6. ASSUME NEW why \in {"missing", "error", "gone"}, Refuse(q, why)
      PROVE  FALSE
  BY <1>3, <1>6 DEF Refuse
<1>7. CASE Contains(q)
  BY <1>2, <1>6, <1>7 DEF Contains
<1>8. CASE Get(q) \/ Skip(q) \/ Leave(q)
  BY <1>1, <1>3, <1>6, <1>8 DEF Get, Skip, Leave
<1>9. CASE Task(q)
  BY <1>1, <1>9 DEF Task, ReadPiece, ReadEnds, ReadBreaks, SendPiece
<1>10. CASE Receive(q)
  <2>1. ~Client(q, "error")
    BY <1>3
  <2>2. PICK more : client' = [client EXCEPT ![q].got = more]
    BY <1>1, <1>10, <2>1 DEF Receive
  <2> QED
    BY <1>1, <2>2
<1>11. CASE SeeEnd(q)
  BY <1>3, <1>11 DEF SeeEnd
<1> QED
  BY <1>5, <1>7, <1>8, <1>9, <1>10, <1>11 DEF Download, GetCache, HeadCache, Read, ReadEmpty

\* The end of the channel is the end of what was asked for.
LEMMA EndIsComplete ==
  ASSUME Inv, NEW r \in Readers, SeeEnd(r)
  PROVE  \/ reader[r].key = Empty /\ client[r].got = 0
         \/ /\ reader[r].body \in Bodies /\ reader[r].offset <= Size[reader[r].body]
            /\ client[r].got = Wanted(r, reader[r].body)
<1>1. Listening(r) /\ channel[r] = <<>> /\ at[r] = "idle" /\ DownloadSound(r)
  BY DEF SeeEnd, Inv
<1>2. CASE reader[r].key = Empty /\ client[r].got = 0
  BY <1>2
<1>3. CASE Chain(r) /\ Finished(r)
  <2>1. reader[r].offset + client[r].got = reader[r].pos
    BY <1>1, <1>3 DEF Chain, Finished
  <2>2. /\ reader[r].offset \in Nat /\ reader[r].limit \in Nat /\ reader[r].len \in Nat
        /\ reader[r].pos \in Nat /\ client[r].got \in Int
    BY ReadTypes DEF Inv
  <2>3. /\ reader[r].body \in Bodies /\ reader[r].len = Size[reader[r].body]
        /\ reader[r].offset <= reader[r].pos /\ reader[r].pos <= reader[r].len
        /\ reader[r].limit > 0 => reader[r].pos - reader[r].offset <= reader[r].limit
        /\ Remaining(r) = 0
    BY <1>3 DEF Finished
  <2>4. CASE reader[r].limit = 0
    <3>1. reader[r].len - reader[r].pos = 0
      BY <2>3, <2>4 DEF Remaining
    <3>2. client[r].got = reader[r].len - reader[r].offset
      BY <2>1, <2>2, <3>1
    <3> QED
      BY <2>2, <2>3, <2>4, <3>2 DEF Wanted
  <2>5. CASE reader[r].limit > 0
    <3>1. \/ reader[r].len = reader[r].pos
          \/ reader[r].limit = reader[r].pos - reader[r].offset
      BY <2>2, <2>3, <2>5 DEF Remaining, Least
    <3>2. client[r].got = Least(reader[r].len - reader[r].offset, reader[r].limit)
      BY <2>1, <2>2, <2>3, <2>5, <3>1 DEF Least
    <3> QED
      BY <2>2, <2>3, <2>5, <3>2 DEF Wanted
  <2> QED
    BY <2>2, <2>4, <2>5
<1> QED
  BY <1>1, <1>2, <1>3 DEF DownloadSound

\* Whatever is put, removed, given up or broken meanwhile, a download that ends
\* well has given the client all it asked for, of one whole body.
THEOREM DownloadsComplete == Spec => CleanEndComplete
<1> DEFINE Complete1(r) ==
      /\ Listening(r) /\ client'[r].end = "found" => \E b \in Bodies : client'[r].got = Size[b]
      /\ Listening(r) /\ client'[r].end = "clean" =>
           \/ reader[r].key = Empty /\ client[r].got = 0
           \/ /\ reader[r].body \in Bodies /\ reader[r].offset <= Size[reader[r].body]
              /\ client[r].got = Wanted(r, reader[r].body)
<1>1. ASSUME Inv, Next, NEW r \in Readers
      PROVE  Complete1(r)
  <2>1. CASE UNCHANGED rvars
    BY <2>1 DEF rvars, Listening
  <2>2. CASE \E q \in Readers : Download(q) /\ UNCHANGED ovars
    <3>1. ASSUME Listening(r), client'[r].end = "found"
          PROVE  \E b \in Bodies : client'[r].got = Size[b]
      <4>1. /\ Contains(r) /\ object[reader[r].key] # NoObject
            /\ client'[r].got = object[reader[r].key].len
        BY <1>1, <2>2, <3>1, WhoTellsClean
      <4>2. reader[r].key \in Keys
        BY <1>1, <4>1 DEF Contains, Inv, DownloadSound, TaskSound
      <4> QED
        BY <1>1, <4>1, <4>2 DEF Inv, ObjectInv, ObjectsWhole
    <3>2. ASSUME Listening(r), client'[r].end = "clean"
          PROVE  SeeEnd(r)
      BY <1>1, <2>2, <3>2, WhoTellsClean
    <3> QED
      BY <1>1, <3>1, <3>2, EndIsComplete
  <2> QED
    BY <1>1, <2>1, <2>2 DEF Next
<1>2. Inv /\ [Next]_vars => [\A r \in Readers : Complete1(r)]_vars
  BY <1>1
<1> QED
  BY <1>2, AllSound, PTL DEF Spec, CleanEndComplete
=============================================================================
