------------------------------ MODULE BlobReads ------------------------------
(***************************************************************************)
(* The two ways to download a blob, GET of the HTTP front end              *)
(* (http/handlers.rs; HEAD with it) and ByteStream.Read                    *)
(* (grpc/bytestream.rs), over the object stores of ObjectBackend, while    *)
(* uploads replace and remove what is being read.                          *)
(*                                                                         *)
(* Both hand the client the backend's stream piece by piece: Read through  *)
(* a bounded channel that a spawned task fills, GET through the connection,*)
(* whose buffer stands for the channel and whose body hyper polls.  The    *)
(* client sees a stream that ends, or that breaks.  Compression on the way *)
(* is left out: it passes on the end and the error of what it compresses.  *)
(***************************************************************************)
EXTENDS ObjectBackend, Integers, Sequences

CONSTANTS
  Readers,    \* downloads that may run at the same time
  Empty,      \* the digest of the empty blob
  Ranges,     \* <<read_offset, read_limit>> that clients of Read ask for
  Piece,      \* READ_CHUNK_SIZE (1 MiB)
  Capacity    \* of the channel (32)

ASSUME ReadsAssumption ==
  /\ Ranges \subseteq Nat \X Nat /\ <<0, 0>> \in Ranges
  /\ Piece \in Nat \ {0} /\ Capacity \in Nat \ {0}
  /\ Empty \notin Keys

VARIABLES
  at,       \* at[r]: the step the server is at with download r
  reader,   \* reader[r]: what the server reads, from where, and how far it is
  channel,  \* channel[r]: the pieces on their way, and an error
  client    \* client[r]: how many bytes the client has, and what it has seen

rvars == <<at, reader, channel, client>>
vars == <<ovars, rvars>>

\* body, len: the object that is read; from: how far it is sent; pos: how far
\* it is read.
NoReader == [via |-> "none", key |-> "none", offset |-> 0, limit |-> 0,
             body |-> NoBody, len |-> 0, from |-> 0, pos |-> 0]

\* A message is the piece of the object from one position to another, or:
Broken == <<1, 0>>

NoClient == [got |-> 0, end |-> "none"]

ReadsInit ==
  /\ at = [r \in Readers |-> "idle"] /\ reader = [r \in Readers |-> NoReader]
  /\ channel = [r \in Readers |-> <<>>] /\ client = [r \in Readers |-> NoClient]

Init == ObjectInit /\ ReadsInit

Step(r, step) == at' = [at EXCEPT ![r] = step]

\* The client has seen the end of its download, of whatever kind.
Client(r, end) == client' = [client EXCEPT ![r] = [NoClient EXCEPT !.end = end]]

Open(r, via, k, range) ==
  /\ at[r] = "idle" /\ client[r].end # "open"
  /\ reader' = [reader EXCEPT ![r] = [NoReader EXCEPT !.via = via, !.key = k,
                                        !.offset = range[1], !.limit = range[2]]]
  /\ client' = [client EXCEPT ![r] = [got |-> 0, end |-> "open"]]
  /\ channel' = [channel EXCEPT ![r] = <<>>]

\* GET /cache/KIND/HASH
GetCache(r, k) == Open(r, "http", k, <<0, 0>>) /\ Step(r, "get")

\* HEAD /cache/KIND/HASH
HeadCache(r, k) == Open(r, "head", k, <<0, 0>>) /\ Step(r, "head")

\* ByteStream.Read
Read(r, k, range) == Open(r, "grpc", k, range) /\ Step(r, "get")

\* The empty blob is answered at once, an empty stream, whatever the range.
ReadEmpty(r, range) ==
  /\ \E via \in {"http", "head", "grpc"} : Open(r, via, Empty, range)
  /\ UNCHANGED at

\* The handler answers with an error.
Refuse(r, why) ==
  /\ Step(r, "idle") /\ Client(r, why)
  /\ reader' = [reader EXCEPT ![r] = NoReader]

\* backend.contains(): the length of the object that is there now, and no body.
Contains(r) ==
  /\ at[r] = "head"
  /\ LET found == object[reader[r].key] IN
     \/ /\ found # NoObject
        /\ Step(r, "idle")
        /\ client' = [client EXCEPT ![r] = [got |-> found.len, end |-> "found"]]
        /\ reader' = [reader EXCEPT ![r] = NoReader]
     \/ found = NoObject /\ Refuse(r, "missing")
     \/ "net" \in Faults /\ Refuse(r, "error")
  /\ UNCHANGED channel

\* backend.get(): the stream is of the object that is there now.
Get(r) ==
  /\ at[r] = "get"
  /\ LET found == object[reader[r].key] IN
     \/ /\ found # NoObject
        /\ reader' = [reader EXCEPT ![r].body = found.body, ![r].len = found.len]
        /\ Step(r, IF reader[r].offset > 0 THEN "skip" ELSE "loop")
        /\ UNCHANGED client
     \/ found = NoObject /\ Refuse(r, "missing")
     \/ "net" \in Faults /\ Refuse(r, "error")
  /\ UNCHANGED channel

\* read_exact() of what comes before the offset: an error if that is not there.
Skip(r) ==
  /\ at[r] = "skip"
  /\ \/ /\ reader[r].offset <= reader[r].len
        /\ reader' = [reader EXCEPT ![r].pos = reader[r].offset, ![r].from = reader[r].offset]
        /\ Step(r, "loop")
        /\ UNCHANGED client
     \/ /\ reader[r].offset > reader[r].len \/ "net" \in Faults
        /\ Refuse(r, "error")
  /\ UNCHANGED channel

\* How much more the loop would read: usize::MAX without a limit.
Remaining(r) ==
  LET rest == reader[r].len - reader[r].pos IN
  IF reader[r].limit = 0 THEN rest
  ELSE Least(rest, reader[r].limit - (reader[r].pos - reader[r].offset))

\* A piece is read, however short.
ReadPiece(r) ==
  /\ at[r] = "loop"
  /\ \E n \in 1..Least(Piece, Remaining(r)) :
       reader' = [reader EXCEPT ![r].pos = @ + n]
  /\ Step(r, "send")
  /\ UNCHANGED <<channel, client>>

Listening(r) == client[r].end = "open"

\* The task is over; of what it read, only a client that is left has use.
TaskEnds(r) ==
  /\ Step(r, "idle")
  /\ reader' = IF Listening(r) THEN reader ELSE [reader EXCEPT ![r] = NoReader]

\* The limit is reached or read() returns 0: the channel closes with tx.
ReadEnds(r) ==
  /\ at[r] = "loop" /\ Remaining(r) = 0
  /\ TaskEnds(r)
  /\ UNCHANGED <<channel, client>>

\* Mutant: the loop ends for an error as it does at the end.
ReadBreaksQuietly(r) ==
  /\ at[r] = "loop" /\ "net" \in Faults
  /\ TaskEnds(r)
  /\ UNCHANGED <<channel, client>>

\* The backend's stream breaks.
ReadBreaks(r) ==
  /\ at[r] = "loop" /\ "net" \in Faults
  /\ Step(r, "fail")
  /\ UNCHANGED <<reader, channel, client>>

\* Mutant: room for one more.
HasRoomPast(r) == Len(channel[r]) <= Capacity

HasRoom(r) == Len(channel[r]) < Capacity

\* The piece that was read, or the error, which is the last thing sent.
Sent(r) == IF at[r] = "send" THEN <<reader[r].from, reader[r].pos>> ELSE Broken

Push(r) ==
  /\ HasRoom(r)
  /\ channel' = [channel EXCEPT ![r] = Append(@, Sent(r))]
  /\ reader' = [reader EXCEPT ![r].from = reader[r].pos]
  /\ Step(r, IF at[r] = "send" THEN "loop" ELSE "idle")

\* Mutant: the task waits for room, be there a receiver or not.
SendWhenRoom(r) ==
  /\ at[r] \in {"send", "fail"}
  /\ Push(r)
  /\ UNCHANGED client

\* tx.send(): waits for room, or finds the receiver gone.
SendPiece(r) ==
  /\ at[r] \in {"send", "fail"}
  /\ \/ Listening(r) /\ Push(r)
     \/ ~Listening(r) /\ TaskEnds(r) /\ UNCHANGED channel
  /\ UNCHANGED client

Task(r) == ReadPiece(r) \/ ReadEnds(r) \/ ReadBreaks(r) \/ SendPiece(r)

\* The client takes the next piece, or the error.
Receive(r) ==
  /\ Listening(r) /\ channel[r] # <<>>
  /\ channel' = [channel EXCEPT ![r] = Tail(@)]
  /\ LET piece == Head(channel[r]) IN
     IF piece = Broken THEN Client(r, "error") /\ reader' = [reader EXCEPT ![r] = NoReader]
     ELSE client' = [client EXCEPT ![r].got = @ + (piece[2] - piece[1])] /\ UNCHANGED reader
  /\ UNCHANGED at

\* Nothing is left and nothing more will come.
SeeEnd(r) ==
  /\ Listening(r) /\ channel[r] = <<>> /\ at[r] = "idle"
  /\ Client(r, "clean") /\ reader' = [reader EXCEPT ![r] = NoReader]
  /\ UNCHANGED <<at, channel>>

\* The client goes away.  A handler that is still at work goes with it, and so
\* does the body of an HTTP answer; the task that Read spawned does not.
Leave(r) ==
  /\ "cancel" \in Faults /\ Listening(r)
  /\ IF at[r] \in {"head", "get", "skip", "idle"} \/ reader[r].via = "http"
     THEN Refuse(r, "gone") ELSE Client(r, "gone") /\ UNCHANGED <<at, reader>>
  /\ channel' = [channel EXCEPT ![r] = <<>>]

Download(r) ==
  \/ \E k \in Keys : GetCache(r, k) \/ HeadCache(r, k) \/ \E range \in Ranges : Read(r, k, range)
  \/ \E range \in Ranges : ReadEmpty(r, range)
  \/ Contains(r) \/ Get(r) \/ Skip(r) \/ Task(r) \/ Receive(r) \/ SeeEnd(r) \/ Leave(r)

Next == \/ ObjectNext /\ UNCHANGED rvars
        \/ \E r \in Readers : Download(r) /\ UNCHANGED ovars

Spec == Init /\ [][Next]_vars

\* tokio runs a task that can go on, and a read of the backend's stream gives
\* something, ends or fails: the HTTP client's time limits see to that.  Nothing
\* is assumed of the client that is served, nor of the store's answers.
Fairness == \A r \in Readers : WF_vars(Task(r) /\ UNCHANGED ovars)

FairSpec == Spec /\ Fairness

-----------------------------------------------------------------------------
(* Properties *)

Reader == [via : {"none", "http", "head", "grpc"}, key : Keys \union {"none", Empty},
           offset : Nat, limit : Nat, body : Bodies \union {NoBody}, len : 0..MaxSize,
           from : 0..MaxSize, pos : 0..MaxSize]

Ends == {"none", "open", "clean", "found", "missing", "error", "gone"}

\* The types of the downloads; a channel holds no more than it has room for.
TypeOK ==
  /\ ObjectTypeOK
  /\ at \in [Readers -> {"idle", "head", "get", "skip", "loop", "send", "fail"}]
  /\ reader \in [Readers -> Reader]
  /\ channel \in [Readers -> Seq(Nat \X Nat)]
  /\ \A r \in Readers : Len(channel[r]) <= Capacity
  /\ client \in [Readers -> [got : Int, end : Ends]]

\* The bytes of b that download r asked for.
Wanted(r, b) ==
  LET rest == Size[b] - reader[r].offset IN
  IF reader[r].limit = 0 THEN rest ELSE Least(rest, reader[r].limit)

\* A download that ends as if all were well is complete: the client has every
\* byte it asked for, of one body that was stored whole, whatever was put,
\* removed or broken meanwhile.  There is no hash on the way to tell it.  (And
\* the length that HEAD tells is that of a whole body.)
CleanEndComplete ==
  [][\A r \in Readers :
       /\ Listening(r) /\ client'[r].end = "found" => \E b \in Bodies : client'[r].got = Size[b]
       /\ Listening(r) /\ client'[r].end = "clean" =>
            \/ reader[r].key = Empty /\ client[r].got = 0
            \/ /\ reader[r].body \in Bodies /\ reader[r].offset <= Size[reader[r].body]
               /\ client[r].got = Wanted(r, reader[r].body)]_vars

\* No task outlives its client for ever: one that is left behind with a full
\* channel, or in the middle of a blob, ends.
OrphansEnd == \A r \in Readers : client[r].end = "gone" ~> at[r] = "idle"
=============================================================================
