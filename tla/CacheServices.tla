---------------------------- MODULE CacheServices ----------------------------
(***************************************************************************)
(* The gRPC services ActionCache and ContentAddressableStorage             *)
(* (grpc/action_cache.rs, grpc/cas.rs) over the SQLite backend, which      *)
(* verifies nothing.  Beside them ByteStream (grpc/bytestream.rs) and the  *)
(* HTTP API (http/handlers.rs) put blobs they have not verified: ByteStream*)
(* compares the hash when the blob is stored, and HTTP never does, so that *)
(* the table may hold a corrupt blob.                                      *)
(*                                                                         *)
(* A call of a service makes several calls of the backend, and others run  *)
(* between them.  A call that is dropped leaves the task it waits for.     *)
(***************************************************************************)
EXTENDS SqliteBackend, Sequences

CONSTANTS
  Actions, Blobs,  \* the keys of kind AC and of kind CAS
  Empty,           \* the digest of the empty blob
  Results,         \* action results
  Lookups,         \* what batches ask for: sequences of digests
  Uploads,         \* what batches bring: sequences of [key, body, sized]
  Streams          \* what ByteStream and HTTP bring: [key, body]

\* An item of an upload has the length its digest says, or it has not.
Items == [key : Blobs, body : {"whole", "corrupt"}, sized : BOOLEAN]

ASSUME ServicesAssumption ==
  /\ Actions \intersect Blobs = {} /\ Keys = Actions \union Blobs
  /\ Bodies = Results \union {"whole", "corrupt"} /\ Empty \notin Keys
  /\ Results \intersect {"whole", "corrupt", "none", "awaited", "ok", "miss", "error"} = {}
  /\ Lookups \subseteq Seq(Blobs \union {Empty}) /\ Uploads \subseteq Seq(Items)
  /\ Streams \subseteq [key : Blobs, body : {"whole", "corrupt"}]

VARIABLE call   \* call[c]: the request c serves: its step, what is left of a
                \* batch and, of a search, what was missing

vars == <<db, call>>

NoCall == [step |-> "idle", key |-> NoRow, body |-> NoRow, left |-> <<>>, missing |-> {}]

Init == SqliteInit /\ call = [c \in Clients |-> NoCall]

\* A request is served by a handler whose last task has ended.
Open(c, request) ==
  /\ call[c] = NoCall /\ task[c] = Out
  /\ call' = [call EXCEPT ![c] = request]
  /\ UNCHANGED db

-----------------------------------------------------------------------------
(* ActionCache *)

UpdateActionResult(c, a, result) ==
  Open(c, [NoCall EXCEPT !.step = "put", !.key = a, !.body = result])

GetActionResult(c, a) == Open(c, [NoCall EXCEPT !.step = "get", !.key = a])

\* Mutant: a result that is there is not stored again.
PutResultOnce(c) ==
  /\ call[c].step = "put"
  /\ \/ /\ rows[call[c].key] = NoRow
        /\ Ask(c, "insert", call[c].key, call[c].body) /\ UNCHANGED call
     \/ /\ rows[call[c].key] # NoRow /\ answer[c] = "none" /\ task[c] = Out
        /\ call' = [call EXCEPT ![c].step = "back"] /\ UNCHANGED db

PutResult(c) ==
  /\ call[c].step = "put"
  /\ Ask(c, "insert", call[c].key, call[c].body) /\ UNCHANGED call

\* What was put is read back, by a call of its own; an error is returned.
ResultPut(c) ==
  /\ call[c].step = "put" /\ Heard(c)
  /\ call' = [call EXCEPT ![c] = IF answer[c] = "ok" THEN [@ EXCEPT !.step = "back"] ELSE NoCall]

ReadResult(c) ==
  /\ call[c].step \in {"get", "back"}
  /\ Ask(c, "select", call[c].key, NoRow) /\ UNCHANGED call

\* The result is returned, or NotFound, or "stored but not retrievable".
ReturnResult(c) ==
  /\ call[c].step \in {"get", "back"} /\ Heard(c)
  /\ call' = [call EXCEPT ![c] = NoCall]

ActionCache(c) == PutResult(c) \/ ResultPut(c) \/ ReadResult(c) \/ ReturnResult(c)

-----------------------------------------------------------------------------
(* ContentAddressableStorage *)

FindMissingBlobs(c, digests) == Open(c, [NoCall EXCEPT !.step = "missing", !.left = digests])

\* The items of a BatchReadBlobs are futures of their own: each is a call here.
BatchReadBlobs(c, k) == Open(c, [NoCall EXCEPT !.step = "get", !.key = k])

BatchUpdateBlobs(c, items) == Open(c, [NoCall EXCEPT !.step = "upload", !.left = items])

\* The items that are left of c's batch, if it is one of kind step.
InBatch(c, step) == call[c].step = step /\ call[c].left # <<>>

Item(c) == Head(call[c].left)

NextItem(c) == call' = [call EXCEPT ![c].left = Tail(@)]

\* The empty blob is never looked up.
SkipEmpty(c) == InBatch(c, "missing") /\ Item(c) = Empty /\ NextItem(c) /\ UNCHANGED db

LookUp(c) ==
  /\ InBatch(c, "missing") /\ Item(c) # Empty
  /\ Ask(c, "select", Item(c), NoRow) /\ UNCHANGED call

\* What was missing, with the item that was answered.
Missing(c) == call[c].missing \union {k \in {Item(c)} : answer[c] = "miss"}

\* Mutant: a search for missing blobs ends at the first one that is there.
LookedUpOnce(c) ==
  /\ InBatch(c, "missing") /\ Heard(c)
  /\ call' = [call EXCEPT ![c].left = IF answer[c] = "miss" THEN Tail(@) ELSE <<>>,
                          ![c].missing = Missing(c)]

\* An error ends the search.
LookedUp(c) ==
  /\ InBatch(c, "missing") /\ Heard(c)
  /\ \/ answer[c] = "error" /\ call' = [call EXCEPT ![c] = NoCall]
     \/ /\ answer[c] # "error"
        /\ call' = [call EXCEPT ![c] = [@ EXCEPT !.left = Tail(call[c].left), !.missing = Missing(c)]]

\* The body has the hash and the length its digest says.
Matches(item) == item.body = "whole" /\ item.sized

RefuseItem(c) == InBatch(c, "upload") /\ ~Matches(Item(c)) /\ NextItem(c) /\ UNCHANGED db

PutItem(c) ==
  /\ InBatch(c, "upload") /\ Matches(Item(c))
  /\ Ask(c, "insert", Item(c).key, Item(c).body) /\ UNCHANGED call

\* An error is the answer of the item, and the batch goes on.
ItemPut(c) == InBatch(c, "upload") /\ Heard(c) /\ NextItem(c)

ReturnBatch(c) ==
  /\ call[c].step \in {"upload", "missing"} /\ call[c].left = <<>>
  /\ call' = [call EXCEPT ![c] = NoCall]
  /\ UNCHANGED db

CAS(c) == \/ SkipEmpty(c) \/ LookUp(c) \/ LookedUp(c)
          \/ RefuseItem(c) \/ PutItem(c) \/ ItemPut(c) \/ ReturnBatch(c)

-----------------------------------------------------------------------------

(* ByteStream and HTTP *)

StreamBlob(c, b) == Open(c, [NoCall EXCEPT !.step = "stream", !.key = b.key, !.body = b.body])

PutStream(c) ==
  /\ call[c].step = "stream"
  /\ Ask(c, "insert", call[c].key, call[c].body) /\ UNCHANGED call

\* ByteStream goes on to delete a blob that was stored under a wrong hash;
\* HTTP, like ByteStream when the hash is right or put() fails, returns.
StreamPut(c) ==
  /\ call[c].step = "stream" /\ Heard(c)
  /\ \/ call' = [call EXCEPT ![c] = NoCall]
     \/ /\ answer[c] = "ok" /\ call[c].body = "corrupt"
        /\ call' = [call EXCEPT ![c] = [NoCall EXCEPT !.step = "erase", !.key = call[c].key]]

Erase(c) ==
  /\ call[c].step = "erase"
  /\ \/ Ask(c, "delete", call[c].key, NoRow) /\ UNCHANGED call
     \/ Heard(c) /\ call' = [call EXCEPT ![c] = NoCall]

Unverified(c) == PutStream(c) \/ StreamPut(c) \/ Erase(c)

-----------------------------------------------------------------------------

\* The client goes away; the task the handler waits for does not.
Cancel(c) ==
  /\ "cancel" \in Faults /\ call[c] # NoCall
  /\ call' = [call EXCEPT ![c] = NoCall]
  /\ Drop(c)

Restart == "crash" \in Faults /\ SqliteRestart /\ call' = [c \in Clients |-> NoCall]

Request(c) ==
  \/ \E a \in Actions : GetActionResult(c, a) \/ \E r \in Results : UpdateActionResult(c, a, r)
  \/ \E digests \in Lookups : FindMissingBlobs(c, digests)
  \/ \E items \in Uploads : BatchUpdateBlobs(c, items)
  \/ \E k \in Blobs : BatchReadBlobs(c, k)
  \/ \E b \in Streams : StreamBlob(c, b)

Pool(c) == Statement(c) /\ UNCHANGED call

Next == \/ \E c \in Clients : Request(c) \/ ActionCache(c) \/ CAS(c) \/ Unverified(c) \/ Pool(c) \/ Cancel(c)
        \/ Tick /\ UNCHANGED call
        \/ Restart

Spec == Init /\ [][Next]_vars

\* A thread of the pool that has the mutex goes on.
Fairness == \A c \in Clients : WF_vars(Evict(c) /\ UNCHANGED call)

FairSpec == Spec /\ Fairness

-----------------------------------------------------------------------------
(* Properties *)

Tasks == {Out} \union [at : {"insert", "evict"}, key : Keys, body : Bodies]
               \union [at : {"select", "delete"}, key : Keys, body : {NoRow}]

Calls == {NoCall}
  \union [step : {"put", "back"}, key : Actions, body : Results, left : {<<>>}, missing : {{}}]
  \union [step : {"stream"}, key : Blobs, body : {"whole", "corrupt"}, left : {<<>>}, missing : {{}}]
  \union [step : {"get", "erase"}, key : Keys, body : {NoRow}, left : {<<>>}, missing : {{}}]
  \union [step : {"upload"}, key : {NoRow}, body : {NoRow}, left : Seq(Items), missing : {{}}]
  \union [step : {"missing"}, key : {NoRow}, body : {NoRow}, left : Seq(Blobs \union {Empty}),
          missing : SUBSET (Blobs \union {Empty})]

Answers == Bodies \union {"none", "awaited", "ok", "miss", "error"}

\* The types of the table, the tasks and the calls: a batch has items of its
\* own kind, and the mutex is held by the one task that evicts.
TypeOK ==
  /\ rows \in [Keys -> Row \union {NoRow}] /\ now \in 0..MaxClock
  /\ conn \in Clients \union {Nobody} /\ answer \in [Clients -> Answers]
  /\ task \in [Clients -> Tasks]
  /\ \A c \in Clients : task[c].at = "evict" <=> conn = c
  /\ call \in [Clients -> Calls]

\* The eviction ends and the mutex is released: nobody can wait for ever for a
\* put that cannot get below the limit.
MutexReleased == conn # Nobody ~> conn = Nobody
=============================================================================
