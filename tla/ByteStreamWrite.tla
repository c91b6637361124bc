--------------------------- MODULE ByteStreamWrite ---------------------------
(***************************************************************************)
(* ByteStream.Write (grpc/bytestream.rs) and the storage backend it writes *)
(* to.  Each call runs two tasks: the handler, which hands the read end of *)
(* a bounded channel to backend.put(), and a spawned feeder, which hashes  *)
(* every message of the client's stream and sends it down the channel.     *)
(* The hash is compared only after put() has returned.                     *)
(*                                                                         *)
(* A body is the sequence of the client's data messages.  SHA-256 is taken *)
(* to be injective: a prefix of a body has the key's hash iff it is Whole. *)
(* The two ends of the channel are counted: sent - read messages are in it.*)
(*                                                                         *)
(* Over a disk all uploads of a key write to one tmp file.  What it holds  *)
(* is kept as far as this: the blob, if one upload wrote it alone, and any *)
(* mixture otherwise.  Other backends store a body in one step, which may  *)
(* come after the call that asked for it was given up.                     *)
(***************************************************************************)
EXTENDS Naturals, Sequences, FiniteSets

CONSTANTS
  Writers,     \* calls that may run at the same time
  Keys,        \* the blobs; a resource name stands for its key
  Whole,       \* the messages of an honest upload
  Bodies,      \* what clients send
  Capacity,    \* of the channel (32 in the code)
  Backends,    \* the kinds the server may be configured with: "disk", which
               \* verifies, "storing" (S3, GCS, SQLite), "early" (GHA v2: Ok
               \* unread when the key is there, and a delete() that does nothing)
  Faults       \* which of "stream", "put", "delete", "cancel" happen

ASSUME ByteStreamAssumption ==
  /\ Whole \in Seq({"good"}) /\ Whole \in Bodies /\ <<>> \notin Bodies
  /\ Bodies \subseteq Seq({"good", "bad"})
  /\ Capacity \in Nat \ {0}
  /\ Backends \subseteq {"disk", "storing", "early"}
  /\ Faults \subseteq {"stream", "put", "delete", "cancel"}

VARIABLES
  backend,     \* the kind of the configured backend: it never changes
  stored,      \* stored[k]: what the backend holds
  completed,   \* the keys of completed_writes
  pc,          \* pc[w]: where the handler of call w is
  feeder,      \* feeder[w]: where its feeder task is
  call,        \* call[w]: its key and body; how many messages the feeder has
               \* hashed and sent and put() has read; whether put() holds rx
  tmp,         \* the keys with a file KIND/hash.tmp
  file,        \* file[w]: where the file is that put() of w writes to: at the tmp
               \* path, as its "own" or "shared", "final" or "unlinked"
  late         \* <<key, copy>>: what calls that are over asked their backend for

disk == <<tmp, file>>
vars == <<backend, stored, completed, pc, feeder, call, disk, late>>

Copy == {"absent", "whole", "corrupt"}

NoCall == [key |-> "none", body |-> Whole, hashed |-> 0, sent |-> 0, read |-> 0, rx |-> FALSE]

Init ==
  /\ backend \in Backends
  /\ stored = [k \in Keys |-> "absent"] /\ completed = {}
  /\ pc = [w \in Writers |-> "idle"] /\ feeder = [w \in Writers |-> "off"]
  /\ call = [w \in Writers |-> NoCall]
  /\ tmp = {} /\ file = [w \in Writers |-> "none"] /\ late = {}

Goto(w, label) == pc' = [pc EXCEPT ![w] = label]

\* The first n messages of a body have the key's hash.
HasHash(body, n) == n = Len(body) /\ body = Whole

\* Whose put() of k has open what is at the tmp path.
OnTmp(k) == {v \in Writers : call[v].key = k /\ file[v] \in {"own", "shared"}}

\* File::create: one that is there is emptied under those who write to it.
CreateTmp(w, k) ==
  /\ tmp' = tmp \union {k}
  /\ file' = [v \in Writers |-> IF v = w THEN IF OnTmp(k) = {} THEN "own" ELSE "shared"
                                ELSE IF v \in OnTmp(k) THEN "shared" ELSE file[v]]

\* The call opens: the handler enters put(), the feeder holds the first message.
Write(w, k, body) ==
  /\ pc[w] = "idle" /\ feeder[w] = "off"
  /\ call' = [call EXCEPT ![w] = [NoCall EXCEPT !.key = k, !.body = body, !.rx = TRUE]]
  /\ Goto(w, "put")
  /\ feeder' = [feeder EXCEPT ![w] = "next"]
  /\ IF backend = "disk" THEN CreateTmp(w, k) ELSE UNCHANGED disk
  /\ UNCHANGED <<stored, completed, late>>

-----------------------------------------------------------------------------
(* The feeder *)

\* Mutant: the stream is read on past its end.
HashOn(w) ==
  /\ feeder[w] = "next" /\ call[w].hashed <= Len(call[w].body)
  /\ call' = [call EXCEPT ![w].hashed = @ + 1]
  /\ feeder' = [feeder EXCEPT ![w] = "send"]
  /\ UNCHANGED <<stored, completed, pc, disk, late>>

\* The next data message: into the hash, before it is known to be wanted.
Hash(w) ==
  /\ feeder[w] = "next" /\ call[w].hashed < Len(call[w].body)
  /\ call' = [call EXCEPT ![w].hashed = @ + 1]
  /\ feeder' = [feeder EXCEPT ![w] = "send"]
  /\ UNCHANGED <<stored, completed, pc, disk, late>>

\* The client's stream ends, or breaks.
StreamEnds(w) ==
  /\ feeder[w] = "next"
  /\ \/ /\ call[w].hashed = Len(call[w].body)
        /\ feeder' = [feeder EXCEPT ![w] = "off"]
     \/ /\ "stream" \in Faults
        /\ feeder' = [feeder EXCEPT ![w] = "error"]
  /\ UNCHANGED <<stored, completed, pc, call, disk, late>>

\* Mutant: one more than the channel holds.
HasRoomForOneMore(w) == call[w].sent - call[w].read <= Capacity

HasRoom(w) == call[w].sent - call[w].read < Capacity

\* tx.send: waits for room, and ends the feeder if put() has dropped rx.
Send(w) ==
  /\ feeder[w] = "send"
  /\ \/ /\ call[w].rx /\ HasRoom(w)
        /\ call' = [call EXCEPT ![w].sent = @ + 1]
        /\ feeder' = [feeder EXCEPT ![w] = "next"]
     \/ /\ ~call[w].rx
        /\ feeder' = [feeder EXCEPT ![w] = "off"]
        /\ UNCHANGED call
  /\ UNCHANGED <<stored, completed, pc, disk, late>>

\* Mutant: the stream is read on after an error.
SendErrorGoesOn(w) ==
  /\ feeder[w] = "error" /\ (HasRoom(w) \/ ~call[w].rx)
  /\ feeder' = [feeder EXCEPT ![w] = "next"]
  /\ UNCHANGED <<stored, completed, pc, call, disk, late>>

\* Mutant: a stream that breaks is taken for one that ends.
BreakIsEnd(w) ==
  /\ feeder[w] = "error" /\ feeder' = [feeder EXCEPT ![w] = "off"]
  /\ UNCHANGED <<stored, completed, pc, call, disk, late>>

\* The stream's error goes down the channel too, and is the last thing that does.
SendError(w) ==
  /\ feeder[w] = "error" /\ (HasRoom(w) \/ ~call[w].rx)
  /\ feeder' = [feeder EXCEPT ![w] = IF call[w].rx THEN "broken" ELSE "off"]
  /\ UNCHANGED <<stored, completed, pc, call, disk, late>>

-----------------------------------------------------------------------------
(* backend.put() *)

\* put() returns; rx is dropped with the reader it was given.
PutReturns(w, label) ==
  /\ Goto(w, label)
  /\ call' = [call EXCEPT ![w].rx = FALSE]
  /\ feeder' = [feeder EXCEPT ![w] = IF @ = "broken" THEN "off" ELSE @]

\* The file of w is closed, and stays where it is.
Close(w) == file' = [file EXCEPT ![w] = "none"] /\ UNCHANGED tmp

\* The tmp path of w's key is gone, the file there is now "final" or "unlinked".
MoveTmp(w, to) ==
  LET k == call[w].key
      replaced == {v \in Writers : to = "final" /\ call[v].key = k /\ file[v] = "final"} IN
  /\ tmp' = tmp \ {k}
  /\ file' = [v \in Writers |-> CASE v = w -> "none"
                                  [] v # w /\ v \in OnTmp(k)  -> to
                                  [] v # w /\ v \in replaced -> "unlinked"
                                  [] OTHER -> file[v]]

Store(w, copies) == \E copy \in copies : stored' = [stored EXCEPT ![call[w].key] = copy]

\* What is stored when w has written to its file, which may be final already:
\* another upload of the key has renamed it.
Written(w) == IF file[w] = "final" THEN {"whole", "corrupt"} ELSE {stored[call[w].key]}

\* The service has the key already, or has promised it to another upload.
Taken(w) ==
  /\ backend = "early" /\ call[w].read = 0
  /\ \/ stored[call[w].key] # "absent"
     \/ \E v \in Writers \ {w} : /\ pc[v] = "put" /\ call[v].key = call[w].key
                                /\ call[v].read > 0

PutReads(w) ==
  /\ pc[w] = "put" /\ call[w].read < call[w].sent /\ ~Taken(w)
  /\ call' = [call EXCEPT ![w].read = @ + 1]
  /\ Store(w, Written(w))
  /\ UNCHANGED <<completed, pc, feeder, disk, late>>

\* put() is at the end of the channel, and the body it has read has the hash.
AtEnd(w) == pc[w] = "put" /\ call[w].read = call[w].sent /\ feeder[w] = "off"
ReadWhole(w) == HasHash(call[w].body, call[w].read)

Upshot(w) == IF ReadWhole(w) THEN "whole" ELSE "corrupt"

\* Mutant: an empty channel is taken for the end of the body.
PutCommitsEarly(w) ==
  /\ pc[w] = "put" /\ call[w].read = call[w].sent /\ backend # "disk"
  /\ Store(w, {Upshot(w)})
  /\ PutReturns(w, "join")
  /\ UNCHANGED <<completed, disk, late>>

\* Other backends store what they have read, whatever it is.
PutCommits(w) ==
  /\ AtEnd(w) /\ backend # "disk"
  /\ Store(w, {Upshot(w)})
  /\ PutReturns(w, "join")
  /\ UNCHANGED <<completed, disk, late>>

\* Mutant: the file is renamed first and verified afterwards.
RenameFirst(w) ==
  /\ AtEnd(w) /\ backend = "disk" /\ call[w].key \in tmp
  /\ Store(w, IF file[w] = "own" THEN {Upshot(w)} ELSE {"whole", "corrupt"})
  /\ MoveTmp(w, "final")
  /\ PutReturns(w, IF ReadWhole(w) THEN "join" ELSE "idle")
  /\ UNCHANGED <<completed, late>>

\* The disk verifies what went through its hasher, and renames what is at the
\* tmp path: w's own file, or one that others write to as well.
Rename(w) ==
  /\ AtEnd(w) /\ backend = "disk" /\ ReadWhole(w) /\ call[w].key \in tmp
  /\ Store(w, IF file[w] = "own" THEN {"whole"} ELSE {"whole", "corrupt"})
  /\ MoveTmp(w, "final")
  /\ PutReturns(w, "join")
  /\ UNCHANGED <<completed, late>>

\* The hash is wrong, and whatever is at the tmp path goes; or another upload of
\* the key has taken it away and there is nothing to rename.
Discard(w) ==
  /\ AtEnd(w) /\ backend = "disk" /\ (ReadWhole(w) => call[w].key \notin tmp)
  /\ Store(w, Written(w))
  /\ MoveTmp(w, "unlinked")
  /\ PutReturns(w, "idle")
  /\ UNCHANGED <<completed, late>>

\* A request to a backend that is not the disk goes on when its call is over.
LeftBehind(w, copy) ==
  \/ UNCHANGED late
  \/ backend # "disk" /\ late' = late \union {<<call[w].key, copy>>}

\* The stream's error, or one of the backend's own: the call fails.
PutFails(w) ==
  /\ pc[w] = "put"
  /\ \/ call[w].read = call[w].sent /\ feeder[w] = "broken" /\ UNCHANGED late
     \/ "put" \in Faults /\ IF AtEnd(w) THEN LeftBehind(w, Upshot(w)) ELSE UNCHANGED late
  /\ PutReturns(w, "idle") /\ Close(w)
  /\ UNCHANGED <<stored, completed>>

\* "Conflict / already cached": Ok without reading anything.
PutSkips(w) ==
  /\ pc[w] = "put" /\ Taken(w)
  /\ PutReturns(w, "join")
  /\ UNCHANGED <<stored, completed, disk, late>>

-----------------------------------------------------------------------------
(* After put() *)

\* Mutant: lengths are compared.
VerifyLength(w) ==
  /\ pc[w] = "join" /\ feeder[w] = "off"
  /\ IF call[w].hashed = Len(Whole)
     THEN Goto(w, "idle") /\ completed' = completed \union {call[w].key}
     ELSE Goto(w, "delete") /\ UNCHANGED completed
  /\ UNCHANGED <<stored, feeder, call, disk, late>>

\* The feeder is joined and the hash of what it was fed is compared.
Verify(w) ==
  /\ pc[w] = "join" /\ feeder[w] = "off"
  /\ IF HasHash(call[w].body, call[w].hashed)
     THEN Goto(w, "idle") /\ completed' = completed \union {call[w].key}
     ELSE Goto(w, "delete") /\ UNCHANGED completed
  /\ UNCHANGED <<stored, feeder, call, disk, late>>

\* "Delete the corrupted entry", whoever wrote the one that is there now.  The
\* result of the delete is ignored.  (Over the disk put() has failed before.)
DeleteEntry(w) ==
  /\ pc[w] = "delete"
  /\ \/ /\ backend # "early"
        /\ stored' = [stored EXCEPT ![call[w].key] = "absent"] /\ UNCHANGED late
     \/ /\ backend = "early" \/ "delete" \in Faults
        /\ UNCHANGED <<stored, late>>
  /\ Goto(w, "idle")
  /\ UNCHANGED <<completed, feeder, call, disk>>

\* The client goes away: the handler is dropped where it waits, and what it
\* had of the channel with it; the feeder is a task of its own and runs on.
Cancel(w) ==
  /\ "cancel" \in Faults /\ pc[w] # "idle"
  /\ PutReturns(w, "idle") /\ Close(w)
  /\ IF AtEnd(w) THEN LeftBehind(w, Upshot(w)) ELSE UNCHANGED late
  /\ UNCHANGED <<stored, completed>>

\* What a call that is over had asked for is done now.
Land ==
  /\ \E m \in late :
       /\ backend = "early" => stored[m[1]] = "absent"
       /\ stored' = [stored EXCEPT ![m[1]] = m[2]] /\ late' = late \ {m}
  /\ UNCHANGED <<completed, pc, feeder, call, disk>>

-----------------------------------------------------------------------------

Feed(w)   == Hash(w) \/ StreamEnds(w) \/ Send(w) \/ SendError(w)
Handle(w) == \/ PutReads(w) \/ PutCommits(w) \/ Rename(w) \/ Discard(w) \/ PutFails(w) \/ PutSkips(w)
             \/ Verify(w) \/ DeleteEntry(w)

Step == \/ \E w \in Writers : \/ \E k \in Keys, body \in Bodies : Write(w, k, body)
                               \/ Feed(w) \/ Handle(w) \/ Cancel(w)
        \/ Land

Next == Step /\ UNCHANGED backend

Spec == Init /\ [][Next]_vars

\* Both tasks are polled whenever they are ready; a client's stream goes on,
\* ends or breaks, which is also how the feeder of a dropped call learns of it.
Fairness ==
  \A w \in Writers : WF_vars(Feed(w) /\ UNCHANGED backend) /\ WF_vars(Handle(w) /\ UNCHANGED backend)

FairSpec == Spec /\ Fairness

-----------------------------------------------------------------------------
(* Properties *)

\* The types of the entries, the two tasks, the channel and the files: only a
\* file at the tmp path is written to there.
TypeOK ==
  /\ backend \in Backends
  /\ stored \in [Keys -> Copy] /\ completed \subseteq Keys
  /\ pc \in [Writers -> {"idle", "put", "join", "delete"}]
  /\ feeder \in [Writers -> {"off", "next", "send", "error", "broken"}]
  /\ call \in [Writers -> [key : Keys \union {"none"}, body : Bodies, hashed : Nat,
                           sent : Nat, read : Nat, rx : BOOLEAN]]
  /\ \A w \in Writers : call[w].hashed <= Len(call[w].body)
  /\ tmp \subseteq Keys /\ file \in [Writers -> {"none", "own", "shared", "final", "unlinked"}]
  /\ \A k \in Keys : OnTmp(k) # {} => k \in tmp
  /\ late \subseteq Keys \X {"whole", "corrupt"}

\* put() takes nothing for the end of a body but the end of the client's stream:
\* one that broke, or was not read to its end, is never answered with Ok, unless
\* none of it was read.
NoPrefixTaken ==
  \A w \in Writers : pc[w] \in {"join", "delete"} =>
    call[w].read = Len(call[w].body) \/ (backend = "early" /\ call[w].read = 0)

\* An upload whose bytes have the hash is not refused for a wrong one, unless
\* put() left it unread: the feeder has hashed every byte the backend stored.
OnlyUnreadRefused ==
  \A w \in Writers : pc[w] = "delete" /\ call[w].body = Whole =>
    backend = "early" /\ call[w].read = 0

\* However the client, the backend and the two tasks interleave, the call
\* returns and its feeder ends: a full channel or a dropped one blocks nobody.
NothingHangs ==
  \A w \in Writers :
    (pc[w] # "idle" \/ feeder[w] # "off") ~> (pc[w] = "idle" /\ feeder[w] = "off")
=============================================================================
