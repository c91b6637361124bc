----------------------- MODULE ByteStreamWrite_proofs -----------------------
(***************************************************************************)
(* Proofs about ByteStreamWrite for any number of calls and keys, bodies   *)
(* and capacities of the channel: put() takes no prefix for a body, an     *)
(* honest upload is refused only if put() left it unread, a corrupt entry  *)
(* has somebody who will delete it, and over the disk what is reported     *)
(* complete stays stored unless two uploads have shared a tmp file.        *)
(***************************************************************************)
EXTENDS ByteStreamHistory, TLAPS

\* What is in the channel has been hashed, and nothing passes the end of it.
InOrder(w) ==
  /\ call[w].read <= call[w].sent /\ call[w].sent <= call[w].hashed
  /\ call[w].rx => call[w].hashed = call[w].sent + (IF feeder[w] = "send" THEN 1 ELSE 0)

\* put() has rx exactly while it runs, and a feeder that stopped under it has
\* hashed the whole stream, or has sent its error.
TwoTasks(w) ==
  /\ call[w].rx <=> pc[w] = "put"
  /\ pc[w] # "idle" => call[w].key \in Keys
  /\ feeder[w] = "broken" => pc[w] = "put"
  /\ pc[w] = "put" /\ feeder[w] = "off" => call[w].hashed = Len(call[w].body)

Unread(w) == backend = "early" /\ call[w].read = 0

\* After put(): it read all there is, or nothing; and the disk has refused what
\* has not the hash, so that nothing is ever deleted from it.
AfterPut(w) ==
  /\ pc[w] = "join" => Unread(w) \/ call[w].read = Len(call[w].body)
  /\ pc[w] = "delete" => Unread(w) \/ (call[w].read = Len(call[w].body) /\ call[w].body # Whole)
  /\ backend = "disk" => /\ pc[w] # "delete"
                         /\ pc[w] = "join" => call[w].body = Whole

Sound(w) == InOrder(w) /\ TwoTasks(w) /\ AfterPut(w)

\* Files are written to by put() alone, over a disk; what is at a tmp path has a
\* tmp path; and an upload's own file is at it alone.
Files ==
  /\ tmp \subseteq Keys /\ file \in [Writers -> {"none", "own", "shared", "final", "unlinked"}]
  /\ \A w \in Writers :
       /\ file[w] # "none" => backend = "disk" /\ pc[w] = "put"
       /\ file[w] \in {"own", "shared"} => call[w].key \in tmp
       /\ file[w] = "own" => \A v \in Writers :
            file[v] \in {"own", "shared"} /\ call[v].key = call[w].key => v = w

\* Nothing that was asked of the disk is done later.
Asked == late \subseteq Keys \X {"whole", "corrupt"} /\ (backend = "disk" => late = {})

\* What is inductive.
Inv == TypeOK /\ Files /\ Asked /\ \A w \in Writers : Sound(w)

-----------------------------------------------------------------------------

Calls == [key : Keys \union {"none"}, body : Bodies, hashed : Nat,
          sent : Nat, read : Nat, rx : BOOLEAN]

\* The parts of a call have their types.
LEMMA CallTypes ==
  ASSUME TypeOK, NEW w \in Writers
  PROVE  /\ call[w] \in Calls /\ call[w].body \in Bodies
         /\ call[w].hashed \in Nat /\ call[w].sent \in Nat /\ call[w].read \in Nat
         /\ call[w].rx \in BOOLEAN
         /\ Len(call[w].body) \in Nat /\ call[w].hashed <= Len(call[w].body)
         /\ Capacity \in Nat \ {0}
<1>1. call[w] \in Calls
  BY DEF TypeOK, Calls
<1>2. call[w].body \in Seq({"good", "bad"})
  BY <1>1, ByteStreamAssumption DEF Calls
<1> QED
  BY <1>1, <1>2, ByteStreamAssumption DEF TypeOK, Calls

Labels == {"idle", "put", "join", "delete"}
Stages == {"off", "next", "send", "error", "broken"}

\* A step of one call leaves the others as they were.
LEMMA StepOfOne ==
  ASSUME Inv, UNCHANGED backend, NEW w \in Writers,
         NEW label \in Labels, pc' = [pc EXCEPT ![w] = label],
         NEW f \in Stages, feeder' = [feeder EXCEPT ![w] = f],
         NEW c \in Calls, call' = [call EXCEPT ![w] = c], c.hashed <= Len(c.body),
         stored' \in [Keys -> Copy], completed' \subseteq Keys, Asked', Files', Sound(w)'
  PROVE  Inv'
<1>1. TypeOK'
  <2>1. call' \in [Writers -> Calls]
    BY DEF Inv, TypeOK, Calls
  <2>2. \A v \in Writers : call'[v].hashed <= Len(call'[v].body)
    BY DEF Inv, TypeOK
  <2>3. ASSUME NEW k \in Keys, OnTmp(k)' # {} PROVE k \in tmp'
    BY <2>3 DEF OnTmp, Files
  <2>4. pc' \in [Writers -> {"idle", "put", "join", "delete"}]
        /\ feeder' \in [Writers -> {"off", "next", "send", "error", "broken"}]
    BY DEF Inv, TypeOK, Labels, Stages
  <2> QED
    BY <2>1, <2>2, <2>3, <2>4 DEF Inv, TypeOK, Calls, Files, Asked
<1>2. ASSUME NEW v \in Writers PROVE Sound(v)'
  <2>1. CASE v = w
    BY <2>1
  <2>2. CASE v # w
    <3>1. pc'[v] = pc[v] /\ feeder'[v] = feeder[v] /\ call'[v] = call[v]
      BY <2>2 DEF Inv, TypeOK
    <3>2. Sound(v)
      BY DEF Inv
    <3> QED
      BY <3>1, <3>2 DEF Sound, InOrder, TwoTasks, AfterPut, Unread
  <2> QED
    BY <2>1, <2>2
<1> QED
  BY <1>1, <1>2 DEF Inv

\* A step that touches neither the entries nor what is reported complete.
LEMMA QuietStep ==
  ASSUME Inv, UNCHANGED <<backend, stored, completed, late>>, NEW w \in Writers,
         NEW label \in Labels, pc' = [pc EXCEPT ![w] = label],
         NEW f \in Stages, feeder' = [feeder EXCEPT ![w] = f],
         NEW c \in Calls, call' = [call EXCEPT ![w] = c], c.hashed <= Len(c.body),
         Files', Sound(w)'
  PROVE  Inv'
<1>1. stored' \in [Keys -> Copy] /\ completed' \subseteq Keys /\ Asked'
  BY DEF Inv, TypeOK, Asked
<1> QED
  BY <1>1, StepOfOne

-----------------------------------------------------------------------------
(* The files *)

\* The files are as they were, and so is what the call w writes to.
LEMMA FilesStay ==
  ASSUME Files, UNCHANGED <<backend, tmp, file>>, NEW w \in Writers,
         \A v \in Writers \ {w} : pc'[v] = pc[v] /\ call'[v] = call[v],
         file[w] = "none" \/ (pc'[w] = pc[w] /\ call'[w].key = call[w].key)
  PROVE  Files'
<1>1. \A v \in Writers : file[v] # "none" => pc'[v] = pc[v] /\ call'[v].key = call[v].key
  OBVIOUS
<1> QED
  BY <1>1 DEF Files

LEMMA FilesClosed ==
  ASSUME Files, UNCHANGED backend, NEW w \in Writers, Close(w),
         \A v \in Writers \ {w} : pc'[v] = pc[v] /\ call'[v] = call[v]
  PROVE  Files'
<1>1. file' = [v \in Writers |-> IF v = w THEN "none" ELSE file[v]] /\ tmp' = tmp
  BY DEF Close, Files
<1> QED
  BY <1>1 DEF Files

\* The tmp path is free again, and no file is anybody's own there.
LEMMA FilesMoved ==
  ASSUME Files, UNCHANGED backend, NEW w \in Writers, NEW to \in {"final", "unlinked"}, MoveTmp(w, to),
         \A v \in Writers \ {w} : pc'[v] = pc[v] /\ call'[v] = call[v]
  PROVE  Files'
<1>1. tmp' = tmp \ {call[w].key} /\ file' \in [Writers -> {"none", "own", "shared", "final", "unlinked"}]
  BY DEF MoveTmp, Files
<1>2. file'[w] = "none"
  BY DEF MoveTmp, Files
<1>3. ASSUME NEW v \in Writers, v # w
      PROVE  /\ file'[v] # "none" => file[v] # "none"
             /\ file'[v] \in {"own", "shared"} => file'[v] = file[v] /\ call[v].key # call[w].key
  BY <1>3 DEF MoveTmp, OnTmp, Files
<1> QED
  BY <1>1, <1>2, <1>3 DEF Files

LEMMA FilesCreated ==
  ASSUME Files, UNCHANGED backend, NEW w \in Writers, NEW k \in Keys, CreateTmp(w, k),
         backend = "disk", file[w] = "none", pc'[w] = "put", call'[w].key = k,
         \A v \in Writers \ {w} : pc'[v] = pc[v] /\ call'[v] = call[v]
  PROVE  Files'
<1>1. tmp' = tmp \union {k} /\ file' \in [Writers -> {"none", "own", "shared", "final", "unlinked"}]
  BY DEF CreateTmp, Files
<1>2. file'[w] = (IF OnTmp(k) = {} THEN "own" ELSE "shared")
  BY DEF CreateTmp, Files
<1>3. ASSUME NEW v \in Writers, v # w
      PROVE  /\ v \in OnTmp(k) => file'[v] = "shared"
             /\ v \notin OnTmp(k) => file'[v] = file[v]
  BY <1>3 DEF CreateTmp, Files
<1>4. \A v \in Writers : v \in OnTmp(k) <=> call[v].key = k /\ file[v] \in {"own", "shared"}
  BY DEF OnTmp
<1>5. w \notin OnTmp(k)
  BY <1>4
<1>6. ASSUME NEW v \in Writers, file'[v] = "own", NEW u \in Writers,
             file'[u] \in {"own", "shared"}, call'[u].key = call'[v].key
      PROVE  u = v
  <2>1. CASE v = w
    BY <1>2, <1>3, <1>4, <1>6, <2>1
  <2>2. CASE v # w
    BY <1>2, <1>3, <1>4, <1>6, <2>2 DEF Files
  <2> QED
    BY <2>1, <2>2
<1>7. ASSUME NEW v \in Writers
      PROVE  /\ file'[v] # "none" => backend' = "disk" /\ pc'[v] = "put"
             /\ file'[v] \in {"own", "shared"} => call'[v].key \in tmp'
  <2>1. CASE v = w
    BY <1>1, <2>1
  <2>2. CASE v # w
    BY <1>1, <1>3, <1>4, <2>2 DEF Files
  <2> QED
    BY <2>1, <2>2
<1> QED
  BY <1>1, <1>6, <1>7 DEF Files

-----------------------------------------------------------------------------
(* The feeder *)

\* A step of the feeder alone, which leaves the call as it is.
LEMMA FeederGoes ==
  ASSUME Inv, UNCHANGED <<backend, stored, completed, pc, call, tmp, file, late>>,
         NEW w \in Writers, NEW f \in Stages, feeder' = [feeder EXCEPT ![w] = f],
         f # "send", feeder[w] \notin {"off", "broken"},
         call[w].rx => feeder[w] # "send",
         f = "broken" => call[w].rx,
         f = "off" /\ call[w].rx => call[w].hashed = Len(call[w].body)
  PROVE  Inv'
<1>1. pc' = [pc EXCEPT ![w] = pc[w]] /\ call' = [call EXCEPT ![w] = call[w]]
      /\ pc[w] \in Labels
  BY DEF Inv, TypeOK, Labels
<1>2. feeder'[w] = f
  BY DEF Inv, TypeOK
<1>3. Sound(w) /\ TypeOK /\ Files
  BY DEF Inv
<1>4. Sound(w)'
  <2>1. InOrder(w)'
    BY <1>2, <1>3 DEF Sound, InOrder
  <2>2. TwoTasks(w)'
    BY <1>2, <1>3 DEF Sound, TwoTasks
  <2>3. AfterPut(w)'
    BY <1>2, <1>3 DEF Sound, AfterPut, Unread
  <2> QED
    BY <2>1, <2>2, <2>3 DEF Sound
<1>5. Files'
  BY <1>3, FilesStay
<1> QED
  BY <1>1, <1>3, <1>4, <1>5, CallTypes, QuietStep

LEMMA FeedKeeps ==
  ASSUME Inv, UNCHANGED backend, NEW w \in Writers, Feed(w)
  PROVE  Inv'
<1>1. Sound(w) /\ TypeOK /\ Files
  BY DEF Inv
<1>2. pc' = [pc EXCEPT ![w] = pc[w]] /\ UNCHANGED <<stored, completed, pc, tmp, file, late>>
      /\ pc[w] \in Labels
  BY <1>1 DEF Feed, Hash, StreamEnds, Send, SendError, TypeOK, Labels, disk
<1>3. "off" \in Stages /\ "next" \in Stages /\ "send" \in Stages /\ "error" \in Stages /\ "broken" \in Stages
  BY DEF Stages
<1>4. CASE Hash(w)
  <2> DEFINE c == [call[w] EXCEPT !.hashed = call[w].hashed + 1]
  <2>1. /\ c \in Calls /\ c.hashed = call[w].hashed + 1 /\ c.sent = call[w].sent
        /\ c.read = call[w].read /\ c.rx = call[w].rx /\ c.key = call[w].key
        /\ c.body = call[w].body
    BY <1>1, CallTypes DEF Calls
  <2> HIDE DEF c
  <2>2. call' = [call EXCEPT ![w] = c] /\ feeder' = [feeder EXCEPT ![w] = "send"]
        /\ feeder[w] = "next" /\ call[w].hashed < Len(call[w].body)
    BY <1>4 DEF Hash, c
  <2>3. call'[w] = c /\ feeder'[w] = "send" /\ pc'[w] = pc[w]
        /\ \A v \in Writers \ {w} : pc'[v] = pc[v] /\ call'[v] = call[v]
    BY <1>1, <1>2, <2>2 DEF TypeOK
  <2>4. InOrder(w)'
    BY <1>1, <2>1, <2>2, <2>3, CallTypes DEF Sound, InOrder
  <2>5. TwoTasks(w)' /\ AfterPut(w)'
    BY <1>1, <1>2, <2>1, <2>2, <2>3 DEF Sound, TwoTasks, AfterPut, Unread
  <2>6. c.hashed <= Len(c.body)
    BY <1>1, <2>1, <2>2, CallTypes
  <2>7. Files'
    BY <1>1, <1>2, <2>1, <2>3, FilesStay
  <2> QED
    BY <1>2, <1>3, <2>1, <2>2, <2>4, <2>5, <2>6, <2>7, QuietStep DEF Sound
<1>5. CASE StreamEnds(w)
  BY <1>2, <1>3, <1>5, FeederGoes DEF StreamEnds
<1>6. CASE Send(w)
  <2>1. CASE call[w].rx /\ HasRoom(w)
    <3> DEFINE c == [call[w] EXCEPT !.sent = call[w].sent + 1]
    <3>1. /\ c \in Calls /\ c.hashed = call[w].hashed /\ c.sent = call[w].sent + 1
          /\ c.read = call[w].read /\ c.rx = call[w].rx /\ c.key = call[w].key
          /\ c.body = call[w].body
      BY <1>1, CallTypes DEF Calls
    <3> HIDE DEF c
    <3>2. call' = [call EXCEPT ![w] = c] /\ feeder' = [feeder EXCEPT ![w] = "next"]
          /\ feeder[w] = "send"
      BY <1>6, <2>1 DEF Send, c
    <3>3. call'[w] = c /\ feeder'[w] = "next" /\ pc'[w] = pc[w]
          /\ \A v \in Writers \ {w} : pc'[v] = pc[v] /\ call'[v] = call[v]
      BY <1>1, <1>2, <3>2 DEF TypeOK
    <3>4. InOrder(w)'
      BY <1>1, <2>1, <3>1, <3>2, <3>3, CallTypes DEF Sound, InOrder
    <3>5. TwoTasks(w)' /\ AfterPut(w)'
      BY <1>1, <1>2, <3>1, <3>2, <3>3 DEF Sound, TwoTasks, AfterPut, Unread
    <3>6. c.hashed <= Len(c.body)
      BY <1>1, <3>1, CallTypes
    <3>7. Files'
      BY <1>1, <1>2, <3>1, <3>3, FilesStay
    <3> QED
      BY <1>2, <1>3, <3>1, <3>2, <3>4, <3>5, <3>6, <3>7, QuietStep DEF Sound
  <2>2. CASE ~call[w].rx
    BY <1>2, <1>3, <1>6, <2>2, FeederGoes DEF Send
  <2> QED
    BY <1>6, <2>1, <2>2 DEF Send
<1>7. CASE SendError(w)
  <2>1. CASE call[w].rx
    BY <1>2, <1>3, <1>7, <2>1, FeederGoes DEF SendError
  <2>2. CASE ~call[w].rx
    BY <1>2, <1>3, <1>7, <2>2, FeederGoes DEF SendError
  <2> QED
    BY <1>1, <2>1, <2>2, CallTypes
<1> QED
  BY <1>4, <1>5, <1>6, <1>7 DEF Feed

-----------------------------------------------------------------------------
(* put(), and after it *)

\* What PutReturns() does: the call is as it was, but for rx, and the feeder too,
\* unless it has sent its error.
Over(w, label, c, f) ==
  /\ call' = [call EXCEPT ![w] = c] /\ pc' = [pc EXCEPT ![w] = label]
  /\ feeder' = [feeder EXCEPT ![w] = f]
  /\ call'[w] = c /\ pc'[w] = label /\ feeder'[w] = f
  /\ \A v \in Writers \ {w} : pc'[v] = pc[v] /\ call'[v] = call[v]
  /\ c.hashed = call[w].hashed /\ c.sent = call[w].sent /\ c.read = call[w].read
  /\ c.key = call[w].key /\ c.body = call[w].body /\ c.rx = FALSE

LEMMA Returned ==
  ASSUME Inv, NEW w \in Writers, NEW label, PutReturns(w, label)
  PROVE  \E c \in Calls, f \in Stages \ {"broken"} : Over(w, label, c, f)
<1> DEFINE c == [call[w] EXCEPT !.rx = FALSE]
           f == IF feeder[w] = "broken" THEN "off" ELSE feeder[w]
<1>1. TypeOK
  BY DEF Inv
<1>2. /\ c \in Calls /\ c.hashed = call[w].hashed /\ c.sent = call[w].sent
      /\ c.read = call[w].read /\ c.rx = FALSE /\ c.key = call[w].key
      /\ c.body = call[w].body
  BY <1>1, CallTypes DEF Calls
<1>3. f \in Stages \ {"broken"}
  BY <1>1 DEF TypeOK, Stages
<1>4. /\ call' = [call EXCEPT ![w] = c] /\ pc' = [pc EXCEPT ![w] = label]
      /\ feeder' = [feeder EXCEPT ![w] = f]
  BY DEF PutReturns, Goto
<1> HIDE DEF c, f
<1>5. call'[w] = c /\ pc'[w] = label /\ feeder'[w] = f
      /\ \A v \in Writers \ {w} : pc'[v] = pc[v] /\ call'[v] = call[v]
  BY <1>1, <1>4 DEF TypeOK
<1>6. Over(w, label, c, f)
  BY <1>2, <1>4, <1>5 DEF Over
<1> QED
  BY <1>2, <1>3, <1>6

\* A call that is over is sound, whatever became of its entry.
LEMMA OverKeeps ==
  ASSUME Inv, UNCHANGED <<backend, completed>>, NEW w \in Writers, PutReturns(w, "idle"),
         stored' \in [Keys -> Copy], Asked',
         Close(w) \/ MoveTmp(w, "unlinked")
  PROVE  Inv'
<1>1. PICK c \in Calls, f \in Stages \ {"broken"} : Over(w, "idle", c, f)
  BY Returned
<1>2. Sound(w) /\ TypeOK /\ Files
  BY DEF Inv
<1>3. Sound(w)'
  BY <1>1, <1>2 DEF Sound, InOrder, TwoTasks, AfterPut, Over
<1>4. c.hashed <= Len(c.body) /\ completed' \subseteq Keys /\ "idle" \in Labels
  BY <1>1, <1>2, CallTypes DEF Over, TypeOK, Labels
<1>5. Files'
  BY <1>1, <1>2, FilesClosed, FilesMoved DEF Over
<1> QED
  BY <1>1, <1>3, <1>4, <1>5, StepOfOne DEF Over

\* A body that was read to its end has all been hashed.
LEMMA ReadToEnd ==
  ASSUME Inv, NEW w \in Writers, AtEnd(w)
  PROVE  /\ call[w].read = Len(call[w].body) /\ call[w].key \in Keys
         /\ ReadWhole(w) <=> call[w].body = Whole
         /\ Upshot(w) \in {"whole", "corrupt"}
         /\ Upshot(w) = "whole" <=> call[w].body = Whole
<1>1. Sound(w) /\ TypeOK /\ pc[w] = "put" /\ feeder[w] = "off" /\ call[w].read = call[w].sent
  BY DEF Inv, AtEnd
<1>2. call[w].read = Len(call[w].body) /\ call[w].key \in Keys
  BY <1>1, CallTypes DEF Sound, InOrder, TwoTasks
<1> QED
  BY <1>2 DEF ReadWhole, HasHash, Upshot

\* What is stored when a file has been written to.
LEMMA WrittenTyped ==
  ASSUME Inv, NEW w \in Writers, call[w].key \in Keys
  PROVE  /\ Written(w) \subseteq Copy
         /\ file[w] # "final" => Written(w) = {stored[call[w].key]}
BY DEF Inv, TypeOK, Written, Copy

LEMMA StoreTyped ==
  ASSUME Inv, NEW w \in Writers, NEW copies \in SUBSET Copy, Store(w, copies)
  PROVE  stored' \in [Keys -> Copy]
BY DEF Inv, TypeOK, Store

LEMMA LeftTyped ==
  ASSUME Inv, UNCHANGED backend, NEW w \in Writers,
         (AtEnd(w) /\ LeftBehind(w, Upshot(w))) \/ UNCHANGED late
  PROVE  Asked'
BY ReadToEnd DEF Inv, Asked, LeftBehind

LEMMA WriteKeeps ==
  ASSUME Inv, UNCHANGED backend, NEW w \in Writers, NEW k \in Keys, NEW body \in Bodies,
         Write(w, k, body)
  PROVE  Inv'
<1> DEFINE c == [NoCall EXCEPT !.key = k, !.body = body, !.rx = TRUE]
<1>1. body \in Seq({"good", "bad"}) /\ Capacity \in Nat
  BY ByteStreamAssumption
<1>2. /\ c \in Calls /\ c.hashed = 0 /\ c.sent = 0 /\ c.read = 0 /\ c.rx = TRUE
      /\ c.key = k /\ c.body = body
  BY ByteStreamAssumption DEF NoCall, Calls
<1>3. c.hashed <= Len(c.body) /\ "put" \in Labels /\ "next" \in Stages
  BY <1>1, <1>2 DEF Labels, Stages
<1> HIDE DEF c
<1>4. /\ call' = [call EXCEPT ![w] = c] /\ pc' = [pc EXCEPT ![w] = "put"]
      /\ feeder' = [feeder EXCEPT ![w] = "next"] /\ pc[w] = "idle"
      /\ UNCHANGED <<stored, completed, late>>
  BY DEF Write, Goto, c
<1>5. call'[w] = c /\ pc'[w] = "put" /\ feeder'[w] = "next"
      /\ \A v \in Writers \ {w} : pc'[v] = pc[v] /\ call'[v] = call[v]
  BY <1>4 DEF Inv, TypeOK
<1>6. Sound(w)'
  BY <1>1, <1>2, <1>5 DEF Sound, InOrder, TwoTasks, AfterPut, Unread
<1>7. Files'
  <2>1. Files /\ file[w] = "none"
    BY <1>4 DEF Inv, Files
  <2>2. CASE backend = "disk"
    BY <1>2, <1>5, <2>1, <2>2, FilesCreated DEF Write
  <2>3. CASE backend # "disk"
    BY <1>5, <2>1, <2>3, FilesStay DEF Write, disk
  <2> QED
    BY <2>2, <2>3
<1> QED
  BY <1>2, <1>3, <1>4, <1>6, <1>7, QuietStep

LEMMA ReadsKeeps ==
  ASSUME Inv, UNCHANGED backend, NEW w \in Writers, PutReads(w)
  PROVE  Inv'
<1> DEFINE c == [call[w] EXCEPT !.read = call[w].read + 1]
<1>1. Sound(w) /\ TypeOK /\ Files /\ Asked
  BY DEF Inv
<1>2. /\ c \in Calls /\ c.hashed = call[w].hashed /\ c.sent = call[w].sent
      /\ c.read = call[w].read + 1 /\ c.rx = call[w].rx /\ c.key = call[w].key
      /\ c.body = call[w].body
  BY <1>1, CallTypes DEF Calls
<1>3. /\ call' = [call EXCEPT ![w] = c] /\ UNCHANGED <<completed, pc, feeder, tmp, file, late>>
      /\ pc[w] = "put" /\ call[w].read < call[w].sent /\ call[w].key \in Keys
  BY <1>1 DEF PutReads, disk, Sound, TwoTasks
<1> HIDE DEF c
<1>4. /\ call'[w] = c /\ pc' = [pc EXCEPT ![w] = "put"] /\ feeder' = [feeder EXCEPT ![w] = feeder[w]]
      /\ feeder[w] \in Stages /\ "put" \in Labels
      /\ \A v \in Writers \ {w} : pc'[v] = pc[v] /\ call'[v] = call[v]
  BY <1>1, <1>3 DEF TypeOK, Stages, Labels
<1>5. InOrder(w)'
  BY <1>1, <1>2, <1>3, <1>4, CallTypes DEF Sound, InOrder
<1>6. TwoTasks(w)' /\ AfterPut(w)'
  BY <1>1, <1>2, <1>3, <1>4 DEF Sound, TwoTasks, AfterPut
<1>7. c.hashed <= Len(c.body)
  BY <1>1, <1>2, CallTypes
<1>8. stored' \in [Keys -> Copy] /\ completed' \subseteq Keys /\ Asked'
  BY <1>1, <1>3, WrittenTyped, StoreTyped DEF PutReads, TypeOK, Asked
<1>9. Files'
  BY <1>1, <1>2, <1>3, <1>4, FilesStay
<1> QED
  BY <1>2, <1>3, <1>4, <1>5, <1>6, <1>7, <1>8, <1>9, StepOfOne DEF Sound

\* put() says Ok to a body it has read, which has the hash if this is the disk.
LEMMA AcceptedKeeps ==
  ASSUME Inv, UNCHANGED <<backend, completed, late>>, NEW w \in Writers, AtEnd(w),
         PutReturns(w, "join"), stored' \in [Keys -> Copy],
         IF backend = "disk" THEN ReadWhole(w) /\ MoveTmp(w, "final") ELSE UNCHANGED disk
  PROVE  Inv'
<1>1. Sound(w) /\ TypeOK /\ Files /\ Asked /\ pc[w] = "put"
  BY DEF Inv, AtEnd
<1>2. PICK c \in Calls, f \in Stages \ {"broken"} : Over(w, "join", c, f)
  BY Returned
<1>3. InOrder(w)' /\ TwoTasks(w)'
  BY <1>1, <1>2 DEF Sound, InOrder, TwoTasks, Over
<1>4. AfterPut(w)'
  BY <1>2, ReadToEnd DEF AfterPut, Over
<1>5. c.hashed <= Len(c.body) /\ completed' \subseteq Keys /\ Asked' /\ "join" \in Labels
  BY <1>1, <1>2, CallTypes DEF Over, TypeOK, Labels, Asked
<1>6. Files'
  <2>1. CASE backend = "disk"
    BY <1>1, <1>2, <2>1, FilesMoved DEF Over
  <2>2. CASE backend # "disk"
    BY <1>1, <1>2, <2>2, FilesStay DEF Over, Files, disk
  <2> QED
    BY <2>1, <2>2
<1> QED
  BY <1>2, <1>3, <1>4, <1>5, <1>6, StepOfOne DEF Sound, Over

LEMMA EndsKeep ==
  ASSUME Inv, UNCHANGED backend, NEW w \in Writers, PutCommits(w) \/ Rename(w) \/ Discard(w)
  PROVE  Inv'
<1>1. AtEnd(w) /\ call[w].key \in Keys
  BY ReadToEnd DEF PutCommits, Rename, Discard
<1>2. CASE PutCommits(w)
  <2>1. {Upshot(w)} \in SUBSET Copy
    BY <1>1, ReadToEnd DEF Copy
  <2>2. stored' \in [Keys -> Copy]
    BY <1>2, <2>1, StoreTyped DEF PutCommits
  <2> QED
    BY <1>1, <1>2, <2>2, AcceptedKeeps DEF PutCommits
<1>3. CASE Rename(w)
  <2>1. (IF file[w] = "own" THEN {"whole"} ELSE {"whole", "corrupt"}) \in SUBSET Copy
    BY DEF Copy
  <2>2. stored' \in [Keys -> Copy]
    BY <1>3, <2>1, StoreTyped DEF Rename
  <2> QED
    BY <1>1, <1>3, <2>2, AcceptedKeeps DEF Rename
<1>4. CASE Discard(w)
  <2>1. stored' \in [Keys -> Copy]
    BY <1>1, <1>4, WrittenTyped, StoreTyped DEF Discard
  <2>2. Asked'
    BY <1>4 DEF Inv, Asked, Discard
  <2> QED
    BY <1>4, <2>1, <2>2, OverKeeps DEF Discard
<1> QED
  BY <1>2, <1>3, <1>4

LEMMA FailsKeep ==
  ASSUME Inv, UNCHANGED backend, NEW w \in Writers, PutFails(w) \/ Cancel(w)
  PROVE  Inv'
<1>1. PutReturns(w, "idle") /\ Close(w) /\ UNCHANGED <<stored, completed>>
  BY DEF PutFails, Cancel
<1>2. Asked'
  BY LeftTyped DEF PutFails, Cancel
<1>3. stored' \in [Keys -> Copy]
  BY <1>1 DEF Inv, TypeOK
<1> QED
  BY <1>1, <1>2, <1>3, OverKeeps

LEMMA SkipsKeeps ==
  ASSUME Inv, UNCHANGED backend, NEW w \in Writers, PutSkips(w)
  PROVE  Inv'
<1>1. /\ pc[w] = "put" /\ PutReturns(w, "join") /\ UNCHANGED <<stored, completed, tmp, file, late>>
      /\ backend = "early" /\ call[w].read = 0
  BY DEF PutSkips, Taken, disk
<1>2. Sound(w) /\ TypeOK /\ Files
  BY DEF Inv
<1>3. PICK c \in Calls, f \in Stages \ {"broken"} : Over(w, "join", c, f)
  BY <1>1, Returned
<1>4. Sound(w)'
  BY <1>1, <1>2, <1>3 DEF Sound, InOrder, TwoTasks, AfterPut, Unread, Over
<1>5. c.hashed <= Len(c.body) /\ "join" \in Labels
  BY <1>2, <1>3, CallTypes DEF Over, Labels
<1>6. Files'
  BY <1>1, <1>2, <1>3, FilesStay DEF Over, Files
<1> QED
  BY <1>1, <1>3, <1>4, <1>5, <1>6, QuietStep DEF Over

LEMMA VerifyKeeps ==
  ASSUME Inv, UNCHANGED backend, NEW w \in Writers, Verify(w)
  PROVE  Inv'
<1>1. Sound(w) /\ TypeOK /\ Files /\ Asked
  BY DEF Inv
<1>2. /\ pc[w] = "join" /\ feeder[w] = "off"
      /\ UNCHANGED <<stored, feeder, call, tmp, file, late>> /\ call[w].key \in Keys
  BY <1>1 DEF Verify, Sound, TwoTasks, disk
<1>3. /\ call' = [call EXCEPT ![w] = call[w]] /\ feeder' = [feeder EXCEPT ![w] = "off"]
      /\ call[w] \in Calls /\ call[w].hashed <= Len(call[w].body) /\ "off" \in Stages
      /\ call[w].read <= call[w].hashed
  BY <1>1, <1>2, CallTypes DEF TypeOK, Stages, Sound, InOrder
<1>4. stored' \in [Keys -> Copy] /\ Asked' /\ "idle" \in Labels /\ "delete" \in Labels
  BY <1>1, <1>2 DEF TypeOK, Asked, Labels
<1>5. ASSUME NEW label, pc' = [pc EXCEPT ![w] = label] PROVE Files' /\ pc'[w] = label
  <2>1. pc'[w] = label /\ file[w] = "none" /\ \A v \in Writers \ {w} : pc'[v] = pc[v] /\ call'[v] = call[v]
    BY <1>1, <1>2, <1>5 DEF TypeOK, Files
  <2> QED
    BY <1>1, <1>2, <2>1, FilesStay
<1>6. CASE HasHash(call[w].body, call[w].hashed)
  <2>1. pc' = [pc EXCEPT ![w] = "idle"] /\ completed' = completed \union {call[w].key}
    BY <1>6 DEF Verify, Goto
  <2>2. Sound(w)'
    BY <1>1, <1>2, <1>5, <2>1 DEF Sound, InOrder, TwoTasks, AfterPut
  <2>3. completed' \subseteq Keys
    BY <1>1, <1>2, <2>1 DEF TypeOK
  <2> QED
    BY <1>3, <1>4, <1>5, <2>1, <2>2, <2>3, StepOfOne
<1>7. CASE ~HasHash(call[w].body, call[w].hashed)
  <2>1. pc' = [pc EXCEPT ![w] = "delete"] /\ UNCHANGED completed
    BY <1>7 DEF Verify, Goto
  <2>2. ~Unread(w) => call[w].hashed = Len(call[w].body)
    BY <1>1, <1>2, <1>3, CallTypes DEF Sound, AfterPut
  <2>3. Unread(w) \/ (call[w].read = Len(call[w].body) /\ call[w].body # Whole)
    BY <1>1, <1>2, <1>7, <2>2 DEF Sound, AfterPut, HasHash
  <2>4. backend # "disk"
    BY <1>1, <1>2, <2>3 DEF Sound, AfterPut, Unread
  <2>5. Sound(w)'
    BY <1>1, <1>2, <1>5, <2>1, <2>3, <2>4 DEF Sound, InOrder, TwoTasks, AfterPut, Unread
  <2> QED
    BY <1>2, <1>3, <1>4, <1>5, <2>1, <2>5, QuietStep
<1> QED
  BY <1>6, <1>7

LEMMA DeleteKeeps ==
  ASSUME Inv, UNCHANGED backend, NEW w \in Writers, DeleteEntry(w)
  PROVE  Inv'
<1>1. Sound(w) /\ TypeOK /\ Files /\ Asked
  BY DEF Inv
<1>2. /\ pc[w] = "delete" /\ UNCHANGED <<completed, feeder, call, tmp, file, late>>
      /\ pc' = [pc EXCEPT ![w] = "idle"] /\ call[w].key \in Keys
  BY <1>1 DEF DeleteEntry, Goto, Sound, TwoTasks, disk
<1>3. /\ call' = [call EXCEPT ![w] = call[w]] /\ feeder' = [feeder EXCEPT ![w] = feeder[w]]
      /\ feeder[w] \in Stages /\ "idle" \in Labels
      /\ call[w] \in Calls /\ call[w].hashed <= Len(call[w].body)
      /\ pc'[w] = "idle" /\ file[w] = "none"
      /\ \A v \in Writers \ {w} : pc'[v] = pc[v] /\ call'[v] = call[v]
  BY <1>1, <1>2, CallTypes DEF TypeOK, Stages, Labels, Files
<1>4. stored' \in [Keys -> Copy] /\ completed' \subseteq Keys /\ Asked'
  BY <1>1, <1>2 DEF DeleteEntry, TypeOK, Copy, Asked
<1>5. Sound(w)'
  BY <1>1, <1>2, <1>3 DEF Sound, InOrder, TwoTasks, AfterPut
<1>6. Files'
  BY <1>1, <1>2, <1>3, FilesStay
<1> QED
  BY <1>2, <1>3, <1>4, <1>5, <1>6, StepOfOne

LEMMA LandKeeps ==
  ASSUME Inv, UNCHANGED backend, Land
  PROVE  Inv'
<1>1. PICK m \in late : stored' = [stored EXCEPT ![m[1]] = m[2]] /\ late' = late \ {m}
  BY DEF Land
<1>2. UNCHANGED <<completed, pc, feeder, call, tmp, file>>
  BY DEF Land, disk
<1>3. m \in Keys \X {"whole", "corrupt"} /\ Asked'
  BY <1>1 DEF Inv, Asked
<1>4. stored' \in [Keys -> Copy]
  BY <1>1, <1>3 DEF Inv, TypeOK, Copy
<1>5. TypeOK'
  BY <1>2, <1>3, <1>4 DEF Inv, TypeOK, OnTmp, Asked
<1>6. Files' /\ \A w \in Writers : Sound(w)'
  BY <1>2 DEF Inv, Files, Sound, InOrder, TwoTasks, AfterPut, Unread
<1> QED
  BY <1>3, <1>5, <1>6 DEF Inv

-----------------------------------------------------------------------------
(* The invariant *)

LEMMA InvStarts == Init => Inv
<1> SUFFICES ASSUME Init PROVE Inv
  OBVIOUS
<1>1. Whole \in Bodies /\ Whole \in Seq({"good"}) /\ Capacity \in Nat
  BY ByteStreamAssumption
<1>2. NoCall \in Calls /\ NoCall.hashed <= Len(NoCall.body)
  BY <1>1 DEF NoCall, Calls
<1>3. TypeOK
  BY <1>2 DEF Init, TypeOK, Copy, Calls, OnTmp
<1>4. Files /\ Asked
  BY DEF Init, Files, Asked
<1>5. ASSUME NEW w \in Writers PROVE Sound(w)
  BY <1>1 DEF Init, NoCall, Sound, InOrder, TwoTasks, AfterPut
<1> QED
  BY <1>3, <1>4, <1>5 DEF Inv

LEMMA InvStep == Inv /\ [Next]_vars => Inv'
<1> SUFFICES ASSUME Inv, [Next]_vars PROVE Inv'
  OBVIOUS
<1>1. CASE UNCHANGED vars
  BY <1>1 DEF vars, disk, Inv, TypeOK, OnTmp, Files, Asked, Sound, InOrder, TwoTasks, AfterPut, Unread
<1>2. CASE Next
  BY <1>2, WriteKeeps, FeedKeeps, ReadsKeeps, EndsKeep, FailsKeep, SkipsKeeps, VerifyKeeps,
     DeleteKeeps, LandKeeps
     DEF Next, Step, Handle
<1> QED
  BY <1>1, <1>2

LEMMA InvHolds == Spec => []Inv
  BY InvStarts, InvStep, PTL DEF Spec

\* The types of the entries, the calls, their two tasks and their files hold for
\* every number of calls, every body and every fault.
THEOREM WritesTyped == Spec => []TypeOK
<1>1. Inv => TypeOK
  BY DEF Inv
<1> QED
  BY <1>1, InvHolds, PTL

\* No upload is answered with Ok whose stream broke or was not read to its end,
\* unless none of it was read: whatever the channel holds, however long the body.
THEOREM NoPrefixIsTaken == Spec => []NoPrefixTaken
<1>1. Inv => NoPrefixTaken
  BY DEF Inv, Sound, AfterPut, Unread, NoPrefixTaken
<1> QED
  BY <1>1, InvHolds, PTL

\* An honest upload is refused for a wrong hash only if put() said Ok without
\* reading any of it.
THEOREM HonestReadIsAccepted == Spec => []OnlyUnreadRefused
<1>1. Inv => OnlyUnreadRefused
  BY DEF Inv, Sound, AfterPut, Unread, OnlyUnreadRefused
<1> QED
  BY <1>1, InvHolds, PTL

-----------------------------------------------------------------------------
(* The entries of a key *)

\* Over the disk, where no two uploads of k have shared a tmp file, each put()
\* writes to a file of its own, and what is answered with Ok is stored whole.
Uncontended(k) ==
  /\ \A w \in Writers : call[w].key = k =>
       /\ pc[w] = "put" => file[w] = "own"
       /\ pc[w] = "join" => stored[k] = "whole"
  /\ k \in completed => stored[k] = "whole"

NoneShared == backend = "disk" => \A k \in Keys \ contended : Uncontended(k)

\* Files at the tmp path and answers change with the call that has them.
LEMMA OthersStay ==
  ASSUME NEW k \in Keys, NEW w \in Writers, Uncontended(k), UNCHANGED completed,
         \A v \in Writers \ {w} : pc'[v] = pc[v] /\ call'[v] = call[v]
                                  /\ (call[v].key = k => file'[v] = file[v]),
         call'[w].key = k => (pc'[w] = "put" => file'[w] = "own") /\ (pc'[w] = "join" => stored'[k] = "whole"),
         stored'[k] \in {stored[k], "whole"}
  PROVE  Uncontended(k)'
BY DEF Uncontended

\* The feeder changes neither the key nor the body of a call.
LEMMA FeedLeaves ==
  ASSUME TypeOK, NEW w \in Writers, Feed(w), NEW v \in Writers
  PROVE  call'[v].key = call[v].key /\ call'[v].body = call[v].body
<1>1. call[v] \in Calls
  BY DEF TypeOK, Calls
<1>2. CASE Hash(w)
  BY <1>1, <1>2 DEF Hash, TypeOK, Calls
<1>3. CASE StreamEnds(w)
  BY <1>3 DEF StreamEnds
<1>4. CASE Send(w)
  <2>1. CASE call' = [call EXCEPT ![w].sent = @ + 1]
    BY <1>1, <2>1 DEF TypeOK, Calls
  <2>2. CASE UNCHANGED call
    BY <2>2
  <2> QED
    BY <1>4, <2>1, <2>2 DEF Send
<1>5. CASE SendError(w)
  BY <1>5 DEF SendError
<1> QED
  BY <1>2, <1>3, <1>4, <1>5 DEF Feed

\* A step of one call, over the disk.
LEMMA UncontendedStep ==
  ASSUME Inv, Next, backend = "disk", NEW k \in Keys, Uncontended(k),
         ~\E w \in Writers : call'[w].key = k /\ file'[w] = "shared"
  PROVE  Uncontended(k)'
<1>1. TypeOK /\ Files /\ late = {} /\ \A w \in Writers : Sound(w)
  BY DEF Inv, Asked
<1>2. ASSUME NEW w \in Writers, NEW k2 \in Keys, NEW body \in Bodies, Write(w, k2, body)
      PROVE  Uncontended(k)'
  <2>1. /\ UNCHANGED <<stored, completed>> /\ CreateTmp(w, k2) /\ pc'[w] = "put"
        /\ call'[w].key = k2
        /\ \A v \in Writers \ {w} : pc'[v] = pc[v] /\ call'[v] = call[v]
    BY <1>1, <1>2 DEF Write, Goto, TypeOK, NoCall
  <2>2. file' = [v \in Writers |-> IF v = w THEN IF OnTmp(k2) = {} THEN "own" ELSE "shared"
                                    ELSE IF v \in OnTmp(k2) THEN "shared" ELSE file[v]]
    BY <2>1 DEF CreateTmp
  <2>3. ASSUME NEW v \in Writers \ {w}, call[v].key = k PROVE file'[v] = file[v]
    BY <2>1, <2>2, <2>3 DEF OnTmp
  <2>4. call'[w].key = k => file'[w] = "own"
    BY <2>1, <2>2
  <2> QED
    BY <2>1, <2>3, <2>4, OthersStay
<1>3. ASSUME NEW w \in Writers, Feed(w) PROVE Uncontended(k)'
  <2>1. UNCHANGED <<stored, completed, pc, file>>
    BY <1>3 DEF Feed, Hash, StreamEnds, Send, SendError, disk
  <2>2. \A v \in Writers : call'[v].key = call[v].key
    BY <1>1, <1>3, FeedLeaves
  <2> QED
    BY <2>1, <2>2 DEF Uncontended
<1>4. ASSUME NEW w \in Writers, PutReads(w) PROVE Uncontended(k)'
  <2>1. UNCHANGED <<completed, pc, file>> /\ pc[w] = "put" /\ Store(w, Written(w))
    BY <1>4 DEF PutReads, disk
  <2>2. \A v \in Writers : call'[v].key = call[v].key
    BY <1>1, <1>4 DEF PutReads, TypeOK
  <2>3. stored'[k] = stored[k]
    BY <1>1, <2>1 DEF Uncontended, Store, Written, TypeOK
  <2> QED
    BY <2>1, <2>2, <2>3 DEF Uncontended
<1>5. ASSUME NEW w \in Writers, NEW label, PutReturns(w, label)
      PROVE  /\ \A v \in Writers \ {w} : pc'[v] = pc[v] /\ call'[v] = call[v]
             /\ pc'[w] = label /\ call'[w].key = call[w].key
  BY <1>1, <1>5 DEF PutReturns, Goto, TypeOK
<1>6. ASSUME NEW w \in Writers, Rename(w) \/ Discard(w) PROVE Uncontended(k)'
  <2>1. /\ UNCHANGED completed /\ pc[w] = "put" /\ call[w].key \in Keys
        /\ \E to \in {"final", "unlinked"} : MoveTmp(w, to)
    BY <1>1, <1>6 DEF Rename, Discard, AtEnd, Sound, TwoTasks
  <2>2. PutReturns(w, "join") \/ PutReturns(w, "idle")
    BY <1>6 DEF Rename, Discard
  <2>3. /\ \A v \in Writers \ {w} : pc'[v] = pc[v] /\ call'[v] = call[v]
        /\ call'[w].key = call[w].key /\ pc'[w] \in {"join", "idle"}
    BY <1>5, <2>2
  <2>4. ASSUME NEW v \in Writers \ {w}, call[v].key = k PROVE file'[v] = file[v]
    <3>1. CASE call[w].key = k
      <4>1. file[w] = "own"
        BY <2>1, <3>1 DEF Uncontended
      <4>2. file[v] \notin {"own", "shared"}
        BY <1>1, <2>4, <3>1, <4>1 DEF Files
      <4>3. file[v] = "none"
        BY <1>1, <2>4, <4>2 DEF Uncontended, Files
      <4> QED
        BY <2>1, <4>3 DEF MoveTmp, OnTmp
    <3>2. CASE call[w].key # k
      BY <2>1, <2>4, <3>2 DEF MoveTmp, OnTmp
    <3> QED
      BY <3>1, <3>2
  <2>5. /\ stored'[k] \in {stored[k], "whole"}
        /\ call[w].key = k /\ pc'[w] = "join" => stored'[k] = "whole"
    <3>1. CASE call[w].key # k
      BY <1>1, <1>6, <3>1 DEF Rename, Discard, Store, TypeOK
    <3>2. CASE call[w].key = k
      <4>1. file[w] = "own"
        BY <2>1, <3>2 DEF Uncontended
      <4>2. CASE Rename(w)
        BY <1>1, <3>2, <4>1, <4>2 DEF Rename, Store, TypeOK
      <4>3. CASE Discard(w)
        <5>1. pc'[w] = "idle"
          BY <1>5, <4>3 DEF Discard
        <5>2. stored'[k] = stored[k]
          BY <1>1, <3>2, <4>1, <4>3 DEF Discard, Store, Written, TypeOK
        <5> QED
          BY <5>1, <5>2
      <4> QED
        BY <1>6, <4>2, <4>3
    <3> QED
      BY <3>1, <3>2
  <2>6. pc'[w] # "put"
    BY <2>3
  <2> QED
    BY <2>1, <2>3, <2>4, <2>5, <2>6, OthersStay
<1>7. ASSUME NEW w \in Writers, PutFails(w) \/ Cancel(w) PROVE Uncontended(k)'
  <2>1. UNCHANGED <<stored, completed>> /\ PutReturns(w, "idle") /\ Close(w)
    BY <1>7 DEF PutFails, Cancel
  <2>2. /\ \A v \in Writers \ {w} : pc'[v] = pc[v] /\ call'[v] = call[v] /\ file'[v] = file[v]
        /\ pc'[w] = "idle"
    BY <1>1, <1>5, <2>1 DEF Close, Files
  <2> QED
    BY <2>1, <2>2, OthersStay
<1>8. ASSUME NEW w \in Writers, Verify(w) PROVE Uncontended(k)'
  <2>1. UNCHANGED <<stored, call, file>> /\ pc[w] = "join" /\ completed' \subseteq completed \union {call[w].key}
    BY <1>8 DEF Verify, disk
  <2>2. \A v \in Writers : pc'[v] \in {pc[v], "idle", "delete"}
    BY <1>1, <1>8 DEF Verify, Goto, TypeOK
  <2> QED
    BY <2>1, <2>2 DEF Uncontended
<1>9. ASSUME NEW w \in Writers PROVE ~PutCommits(w) /\ ~PutSkips(w) /\ ~DeleteEntry(w)
  BY <1>1 DEF PutCommits, PutSkips, Taken, DeleteEntry, Sound, AfterPut
<1>10. ~Land
  BY <1>1 DEF Land
<1> QED
  BY <1>2, <1>3, <1>4, <1>6, <1>7, <1>8, <1>9, <1>10 DEF Next, Step, Handle

LEMMA NoneSharedStep == Inv /\ NoneShared /\ [HNext]_hvars => NoneShared'
<1> SUFFICES ASSUME Inv, NoneShared, [HNext]_hvars PROVE NoneShared'
  OBVIOUS
<1>1. CASE UNCHANGED hvars
  BY <1>1 DEF hvars, vars, disk, NoneShared, Uncontended
<1>2. CASE HNext
  <2> SUFFICES ASSUME backend = "disk", NEW k \in Keys, k \notin contended' PROVE Uncontended(k)'
    BY <1>2 DEF HNext, Next, NoneShared
  <2>1. /\ Next /\ k \notin contended
        /\ ~\E w \in Writers : call'[w].key = k /\ file'[w] = "shared"
    BY <1>2 DEF HNext
  <2> QED
    BY <2>1, UncontendedStep DEF NoneShared
<1> QED
  BY <1>1, <1>2

\* A corrupt entry that nobody has left is somebody's who is at deleting it.
LEMMA ClearedStep == Inv /\ CorruptIsCleared /\ [HNext]_hvars => CorruptIsCleared'
<1> SUFFICES ASSUME Inv, CorruptIsCleared, [HNext]_hvars PROVE CorruptIsCleared'
  OBVIOUS
<1> DEFINE AtIt(w, k) == call[w].key = k /\ call[w].body # Whole /\ pc[w] \in {"join", "delete"}
<1>1. CASE UNCHANGED hvars
  BY <1>1 DEF hvars, vars, disk, CorruptIsCleared
<1>2. CASE HNext
  <2> SUFFICES ASSUME backend # "disk", NEW k \in Keys, k \notin strays', stored'[k] = "corrupt"
               PROVE  \E w \in Writers : AtIt(w, k)'
    BY <1>2 DEF HNext, Next, CorruptIsCleared
  <2>1. Next /\ k \notin strays /\ ~Abandoned(k)
    BY <1>2 DEF HNext
  <2>2. TypeOK /\ Files /\ Asked /\ \A w \in Writers : Sound(w)
    BY DEF Inv
  <2>3. stored[k] = "corrupt" => \E w \in Writers : AtIt(w, k)
    BY <2>1 DEF CorruptIsCleared
  <2> HIDE DEF AtIt
  <2>4. ASSUME UNCHANGED stored, NEW w \in Writers, pc[w] \notin {"join", "delete"},
               \A v \in Writers \ {w} : pc'[v] = pc[v] /\ call'[v] = call[v]
        PROVE  \E v \in Writers : AtIt(v, k)'
    BY <2>3, <2>4 DEF AtIt
  <2>5. ASSUME NEW w \in Writers, NEW label, PutReturns(w, label)
        PROVE  /\ \A v \in Writers \ {w} : pc'[v] = pc[v] /\ call'[v] = call[v]
               /\ pc'[w] = label /\ call'[w].key = call[w].key /\ call'[w].body = call[w].body
    BY <2>2, <2>5 DEF PutReturns, Goto, TypeOK
  <2>6. ASSUME NEW w \in Writers, NEW k2 \in Keys, NEW body \in Bodies, Write(w, k2, body)
        PROVE  \E v \in Writers : AtIt(v, k)'
    <3>1. /\ UNCHANGED stored /\ pc[w] = "idle"
          /\ \A v \in Writers \ {w} : pc'[v] = pc[v] /\ call'[v] = call[v]
      BY <2>2, <2>6 DEF Write, Goto, TypeOK
    <3> QED
      BY <2>4, <3>1
  <2>7. ASSUME NEW w \in Writers, Feed(w) PROVE \E v \in Writers : AtIt(v, k)'
    <3>1. UNCHANGED <<stored, pc>>
      BY <2>7 DEF Feed, Hash, StreamEnds, Send, SendError
    <3>2. \A v \in Writers : call'[v].key = call[v].key /\ call'[v].body = call[v].body
      BY <2>2, <2>7, FeedLeaves
    <3> QED
      BY <2>3, <3>1, <3>2 DEF AtIt
  <2>8. ASSUME NEW w \in Writers, PutReads(w) PROVE \E v \in Writers : AtIt(v, k)'
    <3>1. UNCHANGED pc /\ pc[w] = "put" /\ Store(w, Written(w)) /\ file[w] = "none"
      BY <2>2, <2>8 DEF PutReads, Files
    <3>2. \A v \in Writers : call'[v].key = call[v].key /\ call'[v].body = call[v].body
      BY <2>2, <2>8 DEF PutReads, TypeOK
    <3>3. stored'[k] = stored[k]
      BY <2>2, <3>1 DEF Store, Written, TypeOK
    <3> QED
      BY <2>3, <3>1, <3>2, <3>3 DEF AtIt
  <2>9. ASSUME NEW w \in Writers, PutCommits(w) PROVE \E v \in Writers : AtIt(v, k)'
    <3>1. PutReturns(w, "join") /\ AtEnd(w) /\ Store(w, {Upshot(w)}) /\ pc[w] = "put"
      BY <2>9 DEF PutCommits, AtEnd
    <3>2. CASE call[w].key = k
      <4>1. Upshot(w) = "corrupt"
        BY <2>2, <3>1, <3>2 DEF Store, TypeOK
      <4>2. call[w].body # Whole
        BY <3>1, <4>1, ReadToEnd
      <4> QED
        BY <2>5, <3>1, <3>2, <4>2 DEF AtIt
    <3>3. CASE call[w].key # k
      <4>1. stored'[k] = stored[k]
        BY <2>2, <3>1, <3>3 DEF Store, TypeOK
      <4>2. PICK v \in Writers : AtIt(v, k)
        BY <2>3, <4>1
      <4>3. v # w
        BY <3>3, <4>2 DEF AtIt
      <4> QED
        BY <2>5, <3>1, <4>2, <4>3 DEF AtIt
    <3> QED
      BY <3>2, <3>3
  <2>10. ASSUME NEW w \in Writers, PutSkips(w) \/ PutFails(w), pc[w] = "put"
         PROVE  \E v \in Writers : AtIt(v, k)'
    <3>1. UNCHANGED stored /\ pc[w] = "put" /\ \E label \in {"join", "idle"} : PutReturns(w, label)
      BY <2>10 DEF PutSkips, PutFails
    <3>2. \A v \in Writers \ {w} : pc'[v] = pc[v] /\ call'[v] = call[v]
      BY <2>5, <3>1
    <3> QED
      BY <2>4, <3>1, <3>2
  <2>11. ASSUME NEW w \in Writers, AtIt(w, k), pc'[w] = "idle", UNCHANGED completed PROVE FALSE
    BY <2>1, <2>11 DEF AtIt, Abandoned
  <2>12. ASSUME NEW w \in Writers, Verify(w) PROVE \E v \in Writers : AtIt(v, k)'
    <3>1. UNCHANGED <<stored, call>>
      BY <2>12 DEF Verify
    <3>2. PICK v \in Writers : AtIt(v, k)
      BY <2>3, <3>1
    <3>3. pc'[v] \in {"join", "delete"}
      <4>1. CASE v = w
        BY <2>2, <2>12, <3>2, <4>1 DEF Verify, HasHash, Goto, TypeOK, AtIt
      <4>2. CASE v # w
        BY <2>2, <2>12, <3>2, <4>2 DEF Verify, Goto, TypeOK, AtIt
      <4> QED
        BY <4>1, <4>2
    <3> QED
      BY <3>1, <3>2, <3>3 DEF AtIt
  <2>13. ASSUME NEW w \in Writers, DeleteEntry(w) PROVE \E v \in Writers : AtIt(v, k)'
    <3>1. UNCHANGED <<completed, call>> /\ pc' = [pc EXCEPT ![w] = "idle"] /\ stored'[k] = stored[k]
      BY <2>2, <2>13 DEF DeleteEntry, Goto, TypeOK
    <3>2. PICK v \in Writers : AtIt(v, k)
      BY <2>3, <3>1
    <3>3. v # w
      BY <2>2, <2>11, <3>1, <3>2 DEF TypeOK
    <3> QED
      BY <2>2, <3>1, <3>2, <3>3 DEF AtIt, TypeOK
  <2>14. ASSUME NEW w \in Writers, Cancel(w) PROVE \E v \in Writers : AtIt(v, k)'
    <3>1. UNCHANGED <<stored, completed>> /\ PutReturns(w, "idle")
      BY <2>14 DEF Cancel
    <3>2. PICK v \in Writers : AtIt(v, k)
      BY <2>3, <3>1
    <3>3. v # w
      BY <2>5, <2>11, <3>1, <3>2
    <3> QED
      BY <2>5, <3>1, <3>2, <3>3 DEF AtIt
  <2>15. ASSUME Land PROVE \E v \in Writers : AtIt(v, k)'
    <3>1. PICK m \in late : stored' = [stored EXCEPT ![m[1]] = m[2]] /\ late' = late \ {m}
      BY <2>15 DEF Land
    <3>2. UNCHANGED <<pc, call>> /\ m \in Keys \X {"whole", "corrupt"}
      BY <2>2, <2>15 DEF Land, Asked
    <3>3. m # <<k, "corrupt">>
      BY <2>1, <3>1 DEF Abandoned
    <3>4. stored'[k] = stored[k]
      BY <2>2, <3>1, <3>2, <3>3 DEF TypeOK
    <3> QED
      BY <2>3, <3>2, <3>4 DEF AtIt
  <2>16. ASSUME NEW w \in Writers PROVE ~Rename(w) /\ ~Discard(w)
    BY DEF Rename, Discard
  <2>17. ASSUME NEW w \in Writers, PutFails(w) PROVE \E v \in Writers : AtIt(v, k)'
    BY <2>10, <2>17 DEF PutFails
  <2>18. ASSUME NEW w \in Writers, Handle(w) PROVE \E v \in Writers : AtIt(v, k)'
    <3>1. PutReads(w) \/ PutCommits(w) \/ PutFails(w) \/ PutSkips(w) \/ Verify(w) \/ DeleteEntry(w)
      BY <2>16, <2>18 DEF Handle
    <3>2. CASE PutSkips(w)
      BY <2>10, <3>2 DEF PutSkips
    <3>3. CASE Verify(w) \/ DeleteEntry(w)
      BY <2>12, <2>13, <3>3
    <3>4. CASE PutReads(w) \/ PutCommits(w)
      BY <2>8, <2>9, <3>4
    <3>5. CASE PutFails(w)
      BY <2>17, <3>5
    <3> QED
      BY <3>1, <3>2, <3>3, <3>4, <3>5
  <2>19. \E v \in Writers : AtIt(v, k)'
    BY <2>1, <2>6, <2>7, <2>14, <2>15, <2>18 DEF Next, Step
  <2> QED
    BY <2>19 DEF AtIt
<1> QED
  BY <1>1, <1>2

LEMMA HInvHolds == HSpec => [](Inv /\ NoneShared /\ CorruptIsCleared)
<1>1. HInit => Inv /\ NoneShared /\ CorruptIsCleared
  <2> SUFFICES ASSUME HInit PROVE NoneShared /\ CorruptIsCleared
    BY InvStarts DEF HInit
  <2>1. \A k \in Keys : stored[k] = "absent"
    BY DEF HInit, Init
  <2>2. completed = {} /\ \A w \in Writers : pc[w] = "idle"
    BY DEF HInit, Init
  <2> QED
    BY <2>1, <2>2 DEF NoneShared, Uncontended, CorruptIsCleared
<1>2. Inv /\ NoneShared /\ CorruptIsCleared /\ [HNext]_hvars => (Inv /\ NoneShared /\ CorruptIsCleared)'
  <2>1. [HNext]_hvars => [Next]_vars
    BY DEF HNext, hvars
  <2> QED
    BY <2>1, InvStep, NoneSharedStep, ClearedStep
<1> QED
  BY <1>1, <1>2, PTL DEF HSpec

\* Over the disk, what is reported complete stays stored with the right bytes,
\* whatever else is uploaded for the key, dropped or broken, unless two uploads
\* of it have shared a tmp file.
THEOREM CompletedStaysStored == HSpec => []CompletedIsStored
<1>1. Inv /\ NoneShared => CompletedIsStored
  BY DEF Inv, TypeOK, NoneShared, Uncontended, CompletedIsStored
<1> QED
  BY <1>1, HInvHolds, PTL

\* Over the other backends a corrupt entry has an upload that will delete it, but
\* for those that were dropped, or whose delete fails or does nothing, or that
\* are stored after their calls: however many uploads of the key there are.
THEOREM CorruptHasAnOwner == HSpec => []CorruptIsCleared
BY HInvHolds, PTL

\* The history changes no behaviour, so that what holds of ByteStreamWrite holds
\* with it.
THEOREM WritesHistoryObserves == HSpec => FairSpec
<1>1. HInit => Init
  BY DEF HInit
<1>2. [HNext]_hvars => [Next]_vars
  BY DEF HNext, hvars
<1> QED
  BY <1>1, <1>2, PTL DEF HSpec, FairSpec, Spec
=============================================================================
