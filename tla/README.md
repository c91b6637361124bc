# A TLA+ model of bazel-cache-proxy

bazel-cache-proxy is a remote cache for Bazel: it speaks the Remote Execution
API over gRPC (CAS, ActionCache, ByteStream, Capabilities) and Bazel's simple
HTTP cache protocol, and keeps the blobs in one configured storage backend: a
directory, SQLite, S3, GCS, the GitHub Actions cache service (GHA), or two of
these as tiers. This directory models the parts of it that run concurrently or
fail half way, checks them with TLC and proves the most important properties
with TLAPS. Paths below are relative to `src/crates/`.

## 1. Inventory

| Component | Source | State | Operations | Modelled in |
|---|---|---|---|---|
| StorageBackend trait | `bazel-cache-proxy-core/src/backend.rs` | what `get` would be served | `put`, `delete`, `get`, `contains` | `BlobStore` (abstract) |
| DiskBackend, eviction | `bazel-cache-proxy-disk/src/*.rs` | files and tmp files, LRU index behind a mutex, atomic `current_size` | `new` (scan), `put`, `get`, `contains`, `delete`, `evict_to_fit` | `DiskBackend` |
| HashingWriter | `core/src/hashing_writer.rs` | running hash and length | `finalize` | `Verified` of `DiskBackend` |
| LayeredBackend | `core/src/layered.rs` | two tiers, queue of 16 jobs, background task | the four operations, propagation | `LayeredBackend`, `LayeredHistory` |
| ByteStreamService | `core/src/grpc/bytestream.rs` | `completed_writes`; per call a channel of 32 messages and a feeder task | `write`, `query_write_status`, `read` | `ByteStreamWrite`; `read` in `BlobReads` |
| TokenBucket | `bazel-cache-proxy-gha/src/rate_limiter.rs` | a semaphore, a refill task | `acquire`, refill | `TokenBucket`, `TokenBucketRate` |
| GhaBackend | `bazel-cache-proxy-gha/src/{gha_backend,v1,v2,client}.rs` | none of its own: reservations and entries live in the service | `put` (both API versions), `get`, `contains`, `delete` (does nothing) | `GhaUpload` (`put`), `GhaLookup` (`get`, `contains`) |
| CasService | `core/src/grpc/cas.rs` | none | find missing, batch update, batch read | `CacheServices` |
| ActionCacheService | `core/src/grpc/action_cache.rs` | none | get, update (stores, then reads back) | `CacheServices` |
| HTTP front end | `core/src/http/*.rs` | none | GET, HEAD, PUT, health | `BlobReads` (GET, HEAD), `ObjectBackend` (PUT); not health, statuses, zstd |
| SqliteBackend | `bazel-cache-proxy-sqlite/src/lib.rs` | one table behind one mutex | the four operations, eviction by 64 rows | `SqliteBackend` |
| S3Backend, GcsBackend | `bazel-cache-proxy-s3`, `-gcs` | in the object store | the four operations, multipart upload | `ObjectBackend`, `BlobReads` (`get`, `contains`) |
| NoopBackend | `core/src/noop.rs` | none | answers without reading | the backend `"early"` of `ByteStreamWrite` |
| Config, factory, main | `bazel-cache-proxy/src/*.rs` | none after start-up | start | not modelled |

How they interact. A gRPC or HTTP handler is a tokio task that calls the one
`StorageBackend` of the process; any number of them run at the same time and a
handler's future is dropped when its client goes away, at whatever `.await` it
is at. `LayeredBackend` is a `StorageBackend` over two others, and hands copies
from the first tier to the second through a channel to a task of its own.
`ByteStream.Write` runs two tasks, one in `backend.put()` and one that hashes
and feeds it. `GhaBackend` takes a token for each operation and then sends
requests, each tried up to four times with a time limit.

What is hard, and what makes each component correct:

* **DiskBackend.** Files, index and counter are three pieces of state that no
  lock joins. Uploads, evictions, deletes, dropped requests, I/O errors and
  crashes fall between their updates. Correct means that a file at a final path
  is the whole blob its hash names, that the counter never falls below what it
  stands for (it is unsigned: taking too much off wraps it to 2^64 and the cache
  then evicts everything), that disk use stays near the limit, and that eviction
  ends.
* **LayeredBackend.** Reads, write-backs, propagation, eviction in either tier
  and deletes pass each other. Correct means that nothing corrupt travels from
  tier to tier, that a blob is not missed while it moves, that a delete lasts,
  and that one failed job does not end the background task.
* **ByteStream.Write.** Two tasks, a bounded channel that either end may close,
  a hash that is compared after the fact, and uploads of one blob that meet in the
  backend. Correct means that a broken stream is not taken for a body, that honest
  uploads are accepted, that what is called complete stays stored, that a corrupt
  entry has somebody to delete it, and that nothing hangs.
* **TokenBucket.** The refill reads the level and adds later. Correct means that
  the rate limit holds, that the bucket does not overflow, and that waiters are
  served.
* **GHA upload.** Retries against a service that may have carried out the
  request whose answer was lost. Correct means that no entry is committed with a
  part missing, that Ok is true, and that the retries end.
* **GHA lookups.** Entries vanish between the answer that names an archive and
  its download, a service that is down is a miss, and callers leave the
  limiter's queue. Correct means that an answer was true at some moment of the
  call, that the rate limit survives, and that lookups end.
* **S3 and GCS.** Multipart uploads fail half way, reads come short, requests
  that were given up are carried out later. Correct means that an object is
  always a whole body, that Ok is not said too early, and that only a part that
  really is too small has a body refused.
* **Downloads** (HTTP GET, ByteStream.Read). The object is replaced while it is
  streamed, the backend's stream breaks after pieces were sent, the client goes
  away under a task that nobody else will stop. Correct means that a download
  which ends cleanly is complete, and that no task is left behind.
* **SQLite under ActionCache and CAS.** A call makes several calls of the backend
  and others run between them; a statement in the blocking pool outlives the
  handler that started it. The backend looks at no hash: batches are checked by
  the service, ByteStream deletes what turns out wrong, and HTTP stores anything.
  Correct means that an update returns its own result, that what FindMissingBlobs
  said was true, that the table keeps within its limit, and that the mutex is
  released.

Every hazard, at the line where it bites and with the properties that would
catch it, is listed in `PROJECT.json` under `hazards`.

## 2. Modules

An action is the code between two points at which another task may run: an
`.await`, a mutex, an access to an atomic. Its comment names the code and
`PROJECT.json` `map` gives the lines. Labels of `pc` stand for the points
between actions. Operators that a comment calls *mutant* are plausible bugs of
the definition next to them; no specification uses them.

**`BlobStore`** is what a `StorageBackend` promises: for each key one body that
`put` accepted, or none; a step keeps one body or loses some (`Losses`). It leaves
open when (puts may fail, backends evict). It is the interface along which the
project composes: `DiskBackend` (with one uploader for each key), `LayeredBackend`
and `ObjectBackend` are proved to implement it, and the tiers of `LayeredBackend`
to be used as it allows. So two tiers, each a `BlobStore`, make a `BlobStore` again.
For the disk and the tiers it says little more than `FilesVerified` and
`NothingCorrupt` do; for the object stores, whose bodies arrive in parts, it is
checked as a property of its own. The disk under two uploads of one key is not a
`BlobStore` (`disk_same_key`), and `ByteStreamWrite` does not pretend that it is.

**`DiskBackend`** (with `Weights` for sums) has `tmp` and `final` for the files
of every key, `cached`/`lruSize`/`older` for the LRU index, `current` for the
counter, and for each handler its `pc`, its `job` (key, size, open descriptor,
bytes copied) and the `victim` it popped. `put` is `PutStart`, the loop of
`evict_to_fit` (`FitCheck`, `PopLru`, `RemoveVictim`, `ReloadSize`,
`SubtractVictim`), `CreateTmp`, `CopyChunk`, `EndOfBody`, `RenameTmp`, `Record`,
`DiscardTmp`, `Fail`. `get` and `contains` are `Lookup` and `Promote`; `delete`
is `DeleteFile` and `Forget`; `new` is `Crash`, which rebuilds index and counter
from the files in any directory order, AC before CAS. `Cancel` drops a handler
at any await. A descriptor follows its file through rename and unlink, as POSIX
has it: that is what makes the shared tmp path a hazard. A blob is a function
from chunk positions to `good`, `bad` or `none`, so a partial, a mixed and a
sparse file differ.

**`LayeredBackend`** has what each tier holds (`absent`, `whole`, `corrupt`),
the `queue`, the background `task` with the stream it opened, and for each
handler `pc`, `req` (key, bytes it holds, tiers left to delete) and the last
`reply`. A `get` of a tier takes effect when it opens the stream, a `put` at the
end of its stream or not at all. The two deletes of `tokio::join!` run in either
order, with anything between. **`LayeredHistory`** adds history variables for
what a miss and a delete promise; it changes no step.

**`ByteStreamWrite`** has, for each call, the handler's `pc`, the `feeder` and
counters of the messages hashed, sent and read, over a backend chosen initially
from three kinds: the disk; one that stores what it is given (S3, GCS, SQLite);
one that may answer Ok unread and whose delete does nothing (GHA). Over the disk
all uploads of a key write to one path, and `put()` is the steps that matter to
that: `CreateTmp` empties the file under whoever writes to it, `file` says whose
descriptor is at the tmp path alone or with others, at the final path or
unlinked, `Rename` publishes what is at the tmp path and `Discard` unlinks it.
The bytes are abstracted to `own` (the blob, if the hash is right) and `shared`
(any mixture). Eviction, the index and I/O errors of the disk are left to
`DiskBackend`. Other backends store a body in one step, which may come after the
call was given up (`late`, `Land`). **`ByteStreamHistory`** records which corrupt
entries nobody will delete any more (`strays`) and of which keys two uploads have
shared the tmp file (`contended`).

**`TokenBucket`** has the semaphore (`available`, the FIFO queue `waiting`,
`granted` permits whose waiter has not run yet) and what the refill decided to
add. **`TokenBucketRate`** adds a meter that pays in what the intervals mint, up
to a full bucket, and takes one for every operation let through.

**`GhaUpload`** has the external service (`slot`, `parts`), the requests on the
`wire`, and for each put its step, part, attempt and answer. `version` is chosen
initially: v1 reads the body before it reserves, v2 after, and they differ in
what they retry and in how they take a refused commit. A request the client gave
up on may still be served, an answer may be lost, and v2 may be refused in the
body of a 2xx: for a reservation the code takes that for "already cached", and
for a commit it does not read it (`v2.rs:353-356`) and says Ok. That outcome is
`declined`; `OkMeansCommitted` is about every other Ok, and of this one nothing
can be promised. `Versions` says which versions a run has. `Parts` stands for the
PATCH requests of v1 and the blocks with the block list of v2.

**`GhaLookup`** extends `TokenBucketRate`: some of the callers of the limiter are
lookups, with the step each is at and what became of it (`look`), the others are
operations that only ask for tokens. `Ask` is one attempt at the look-up, `Open`
the download, which is tried once; the two versions of the API differ in how an
answer is written and not in what is done about it. `Change` is the service
committing or evicting an entry. `seen` is a history variable of whether the
entry was there.

**`ObjectBackend`** is S3 and GCS over an external store: the visible `object` of
each key (whose bytes, how many), the multipart uploads it holds `open`, the
requests on the `wire`, and for each call its step and `job` (how far the body
is read, what is buffered, the parts under way, and whether a part that is too
small has another one after it). `store` is chosen initially: `"s3"` makes a
part of each read and waits for it, `"gcs"` fills a buffer and waits for none
before `finish`. A request that was given up may be carried out later. Lengths
are in units of which `MinPart` make 5 MiB.

**`BlobReads`** puts the downloads over it: what the server reads (`reader`), the
pieces on their way (`channel`) and what the client has (`client`). GET, HEAD
and Read differ in how they begin, in the range, and in what a client that goes
away takes with it: hyper drops the body of an HTTP answer, the task that Read
spawned goes on until it notices. For GET the connection's buffer stands for the
channel. A stream reads the object that was there when `get` was called.

**`SqliteBackend`** has the table (`rows`, each with its body and second), the
mutex (`conn`), the statement each `task` of the blocking pool is at, and the
`answer` its handler awaits. `put` is `Insert` and rounds of `Evict` under one
mutex; `Select` is `get` and `contains`. `Drop` forgets the answer and not the
task. **`CacheServices`** puts the handlers of ActionCache and CAS over it: the
`call` of each client with what is left of its batch. An update is `PutResult`,
`ResultPut`, `ReadResult`, `ReturnResult`; the items of a batch read, which run
side by side in the code, are calls of their own. Beside them `StreamBlob` is a
body that ByteStream or an HTTP PUT stores unverified: when its hash is wrong
ByteStream deletes the entry (`Erase`) and HTTP leaves it, so the table may hold
a corrupt blob and no property says that it does not. (An HTTP PUT of an action is
an update whose client does not wait for the read back.) **`ServicesHistory`** adds what
a search has seen, which updates had a rival, and whether an eviction was cut
short.

The `MC*` modules only give constants their values.

## 3. Runs

Twelve runs; nine must pass and three show a disagreement between the code and
what its docs, comments or tests say.

| Run | Bounds | Checks |
|---|---|---|
| `disk_accounting` | 2 handlers, 2 keys, blobs of one chunk, limit 1, index of capacity 1, all faults, deletes of both keys | `TypeOK`, `AccountingCovers`, `CounterNeverWraps` |
| `disk_integrity` | 2 handlers, 2 keys of one and two chunks, one uploader for each, limit 2, all faults | `FilesVerified`, `AloneReturns` (fair) |
| `disk_bounded` | 2 handlers, 4 keys, limit 1, no faults, no deletes | `Tracked`, `DiskUsageBounded` |
| `layered` | 2 handlers, 1 key (above the write-through limit; gets that name the size and gets that do not), queue of 2, all faults, verifying L1, unverifying L2 | `TypeOK`, `NothingCorrupt`, `NoFalseMiss`, `QuietDeleteSticks`, `QueueServed` (fair) |
| `bytestream` | 2 calls of one key, an honest body of 2 messages and a corrupt one, channel of 1, three kinds of backend, all faults | `TypeOK`, `NoPrefixTaken`, `OnlyUnreadRefused`, `CompletedIsStored`, `CorruptIsCleared`, `NothingHangs` (fair) |
| `gha_lookup` | 1 lookup and 2 other operations, 3 tokens, refill of 2, callers that go away, 1 key, 2 archives, 4 attempts, a service that is down or refuses | `LookupTypeOK`, `BucketBounded`, `RateBounded`, `LookupHonest`, `LookupsEnd` (fair) |
| `gha_put` | 2 puts of one key, 2 parts, 2 attempts, both versions, all faults | `TypeOK`, `CommittedComplete`, `OkMeansCommitted`, `PutsEnd` (fair) |
| `objects` | 1 call of put or delete beside late requests of earlier ones, 1 download, 1 key, bodies of 1 and 4 units, multipart above 2, parts of 2, reads of at most 3, pieces of 2, channel of 1, the whole blob and a range, both stores, all faults | `TypeOK`, `OkMeansStored`, `RefusedOnlyIfShort`, `CleanEndComplete`, `ImplementsBlobStore`, `OrphansEnd` (fair) |
| `services` | 2 clients, 1 action with 2 results (one too large for the limit), 2 blobs, a batch with a corrupt, a mis-sized and a good item, streams of a corrupt blob, limit of 1 blob, eviction of 2 rows a round, 2 seconds, all faults | `TypeOK`, `OwnResult`, `MissingHonest`, `LimitKept`, `MutexReleased` (fair) |
| `disk_same_key` | 2 uploads of one key | refutes `FilesVerified` |
| `disk_reput` | 1 handler, 1 key | refutes `NoDrift` |
| `gha_conflict` | 2 puts over version v1, answers may be 5xx | refutes `CachedMeansCached` |

Why the bounds are enough. Two handlers are the fewest that interleave, and
every hazard listed is between two: an uploader and an evictor, a delete and a
put, a get and a propagation. An index of one entry makes the LruCache drop
entries itself; a limit of one or two chunks makes every upload evict; four keys
over a limit of one let an overshoot build up if it could. `MaxCounted` stops
new uploads above a value of the counter, since repeated puts drift it upwards
without end (see `disk_reput`); it is two blobs above the limit or more, so
eviction runs on a drifted counter too. Queue and channel of one or two make
them full. One key is enough for the tiers and for ByteStream because no step
concerns two keys (proved for the tiers: `OneKeyAtATime`). A bucket of three
with a refill of two is full, half full and empty at a refill. Two attempts are
a try and a retry; two parts are one that is not last and one that is.
A limit of one blob with rounds of two rows (64 in the code) takes the row just
inserted with the older ones, and leaves a third for another round. In `objects` a body of
four units is two full parts, or up to four short ones; a claim of 0 or 3 puts a
body above or below the threshold whatever its length, as the size that a caller
names does in the code; a call of put is enough to race with itself, since what
its slot gave up stays on the wire; a blob of two pieces fills a channel of one
and leaves a task with a piece it cannot send. It takes two to three minutes
(536,440 states), as does `bytestream` (502,491). `gha_lookup` keeps the code's four attempts
(121,395 states); its two other operations make the lookup wait behind one that
is served and one that is not.
`disk_accounting` and `disk_bounded` use symmetry of handlers and keys; no run
with a temporal formula under fairness does.

The disagreements:

* `disk_same_key`: two uploads of one hash share `KIND/hash.tmp`
  (`disk_backend.rs:154`). One renames, as verified, the file that the other has
  truncated or is writing; a get is served part of a blob until a restart or
  another put replaces it, and nothing looks at the file again.
* `disk_reput`: a second put of a stored hash counts its bytes again
  (`disk_backend.rs:205-206`), where `backend.rs:9` calls it a no-op. The surplus
  is never taken off before a restart.
* `gha_conflict`: a reservation that was carried out and answered 5xx is retried
  and conflicts with itself; `put` then returns "already cached" (`v1.rs:262`)
  with nothing stored and the key reserved. The run is of v1; v2 treats `ok: false`
  the same way (`v2.rs:328-331`).

Others that the models contain and that no run states, each at its line in the
code: the hash that ByteStream.Write compares is that of the bytes the feeder could
send, so over a backend that answers Ok unread (GHA v2 for a key that is there,
`v2.rs:328-331`) honest uploads are refused with "hash mismatch"
(`bytestream.rs:174-177`; `OnlyUnreadRefused` says that this is the only way);
S3Backend makes a part of whatever one read returns (`s3_backend.rs:147`), so a
body above 100 MiB that arrives in pieces below 5 MiB is refused at `complete()`
(`RefusedOnlyIfShort` likewise); neither object store aborts an upload that failed
(`s3_backend.rs:143`); a PUT that was given up may land over a newer object; a
queued job, or the write-back of a get, brings a blob back after a
layered `delete` returned Ok, where `layered.rs:287` tests that both tiers are
empty; SQLite evicts first in, first out (a get does not renew `inserted_at`),
where `config.rs:72` says LRU; a get that does not name the size buffers and
writes back a blob above `write_through_limit` (`layered.rs:4-5`, `:118`; HTTP
gets pass -1); the delete after a hash mismatch removes whatever is stored then,
another client's good upload included, if the backend does not verify
(`bytestream.rs:179`), and does not happen if the call is dropped first (`:172`)
or over GHA (`gha_backend.rs:101-105`), and an HTTP PUT over a backend that does
not verify has no such delete (`http/handlers.rs:94`); v2 says Ok to a commit that
was declined (`v2.rs:353-356`); v2 leaves a reservation behind when the
body breaks; the doc of `put_v1` says it reserves and then compresses
(`v1.rs:213-214`), and the code does it the other way round.

## 4. Fairness

Safety needs none. Liveness is checked under weak fairness of what tokio polls:
the steps of a handler whose I/O answers (`DiskBackend`, `LayeredBackend`,
`ByteStreamWrite`), the background task of `LayeredBackend`, the feeder, the
refill task and the waiters that were handed a permit, and of `GhaUpload` the
client alone, whose requests have a time limit (`client.rs:29-32`): the service
may never answer. A lookup's request ends by the same limit, answered or not; it
waits at the limiter for as long as the refill task and the callers before it
need, which tokio runs. The task that reads for a download is fair, which assumes
that the backend's stream gives something, ends or fails (the time limits of the
HTTP client under S3 and GCS see to it); its client is not: `OrphansEnd` asks that a task whose client is gone ends, and nothing of one
whose client is there and takes nothing. Requests, cancellations, faults, evictions and crashes are
never fair. A client's stream is assumed to go on, end or break; one that stays
open and silent holds its call for ever, in the code as well.

`AloneReturns` says that a request returns once no other handler is at work. The
stronger statement, that eviction ends under any load, does not hold: uploads
that complete meanwhile raise the counter again. Of `CacheServices` only `Evict`
is fair: the thread that holds the mutex goes on. A std mutex serves its waiters
in no order, so that every call returns is not claimed.

## 5. Proofs

`tlapm` checks the following for every value of the constants that the modules'
`ASSUME`s allow (finite sets of handlers and keys, any sizes and limits, any
subset of the faults). TLC evaluates those assumptions in the runs.

| Theorem | Module | States |
|---|---|---|
| `TypeCorrect` | `DiskBackend_proofs` | `Spec => []TypeOK` |
| `AccountingAlwaysCovers` | | `Spec => []AccountingCovers` |
| `ClampNeverActs` | | `Spec => []ClampUnused` |
| `CounterNeverWrapsTheorem` | | `Spec => CounterNeverWraps` |
| `FilesAlwaysVerified` | | one uploader for each key: `Spec => []FilesVerified` |
| `DiskImplementsBlobStore` | | one uploader for each key: `Spec => ImplementsBlobStore` |
| `IndexSizesAreExact` | | one uploader for each key: the sizes in the index are those of the blobs |
| `IndexIsBounded` | | no crash: the index exceeds the limit by one blob a handler at most |
| `FilesStayTracked` | | `IndexFollows`: `Spec => []Tracked` |
| `DiskUsageIsBounded` | | `IndexFollows`, `SizesKept`: `Spec => []DiskUsageBounded` |
| `LayeredTypeCorrect` | `Layered_proofs` | `Spec => []TypeOK` |
| `LayeredNeverCorrupt` | | `Spec => []NothingCorrupt` |
| `LayeredImplementsBlobStore` | | `Spec => ImplementsBlobStore` |
| `LayeredUsesBlobStores` | | `Spec => Tier1!Spec /\ Tier2!Spec` |
| `LayeredNoFalseMiss` | | `HSpec => []NoFalseMiss` |
| `LayeredQuietDelete` | | `DeletesL2`: `HSpec => []QuietDeleteSticks` |
| `LayeredHistoryObserves` | | `HSpec => FairSpec` of `LayeredBackend` |
| `WritesTyped` | `ByteStreamWrite_proofs` | `Spec => []TypeOK` |
| `NoPrefixIsTaken` | | `Spec => []NoPrefixTaken` |
| `HonestReadIsAccepted` | | `Spec => []OnlyUnreadRefused` |
| `CompletedStaysStored` | | `HSpec => []CompletedIsStored` |
| `CorruptHasAnOwner` | | `HSpec => []CorruptIsCleared` |
| `WritesHistoryObserves` | | `HSpec => FairSpec` of `ByteStreamWrite` |
| `RateLimitHolds` | `GhaLookup_proofs` | `RSpec => []RateBounded` |
| `BucketNeverOverflows` | | `RSpec => []BucketBounded` |
| `LookupsRateLimited` | | `LookupSpec => []RateBounded` |
| `LookupsBucketBounded` | | `LookupSpec => []BucketBounded` |
| `MeterObserves` | | `RSpec => FairSpec` of `TokenBucket` |
| `LookupTypeCorrect` | | `LookupSpec => []LookupTypeOK` |
| `LookupsUseTheLimiter` | | `LookupSpec => RSpec` |
| `LookupsHonest` | | `LookupSpec => []LookupHonest` |
| `UploadsTyped` | `GhaUpload_proofs` | `Spec => []TypeOK` |
| `EntriesComplete` | | `Spec => []CommittedComplete` |
| `OkIsCommitted` | | `Spec => []OkMeansCommitted` |
| `ConflictsAreTrue` | | `Spec => [](Undisturbed => CachedMeansCached)` |
| `ObjectsTyped` | `BlobReads_proofs` | `Spec => []ObjectTypeOK` |
| `ObjectsOkMeansStored` | | `Spec => []OkMeansStored` |
| `ObjectsRefusedOnlyIfShort` | | `Spec => []RefusedOnlyIfShort` |
| `ObjectsImplementBlobStore` | | `Spec => ImplementsBlobStore` |
| `ReadsTyped` | | `Spec => []TypeOK` |
| `DownloadsComplete` | | `Spec => CleanEndComplete` |
| `ServicesTypeCorrect` | `Services_proofs` | `Spec => []TypeOK` |
| `LimitAlwaysKept` | | `HSpec => []LimitKept` |
| `OwnResultAlways` | | `HSpec => []OwnResult` |
| `MissingHonestAlways` | | `HSpec => []MissingHonest` |
| `ServicesHistoryObserves` | | `HSpec => FairSpec` of `CacheServices` |

*Accounting.* `Inv` is `TypeOK` with `Bookkeeping`: a key outside the index has
no size, and a handler holds a victim only between the pop and the subtraction.
`Accounting` adds that the counter covers `Indexed + Pending`, the sizes in the
index plus those popped and not yet taken off, and that what a handler in `sub`
will take is what it popped. The second half is what makes the first inductive:
the clamp `size.min(cur)` never acts because, by the first half, `cur` covers the
victim. Each step then moves a size from one sum to the other, or takes from the
counter what it takes from a sum; `Weights_proofs` says how a sum changes when
one summand does (sums are cardinalities, since recursion over data is out of
the prover's reach).

*Integrity.* `Integrity` says of every upload that it is the only one of its key,
that its descriptor is still on the tmp path, that the tmp file holds exactly the
prefix it copied while that is good, and that what it is about to rename is the
blob. `OneUploaderPerKey` keeps two uploads from sharing a tmp file and is
needed: `disk_same_key` is the counterexample without it. Refinement then needs
only that a step touches the final path of one key (`OneFileAtATime`); a crash
touches none.

*Tracking.* `Tracking` is `Tracked` with `NoneForgets`: no handler is about to take
an entry out of the index. It holds under `IndexFollows`: no fault but a crash, no
`delete()`, and an index with room for every key (`LruCap` is 1,000,000 in the
code). Each part is needed, and each is a hazard of `PROJECT.json`: an unlink
that fails, a handler dropped between rename and index, a `delete()` that races
with a put and an LruCache that is full leave a file that nothing will evict. A
restart may find such files and indexes them, which is why crashes are allowed.

*Disk usage.* `Budget` says that the sizes in the index and the `Load` of the
handlers (a longest blob for each upload past the check of the limit, and what is
popped and not yet unlinked) stay within `max_size` and one longest blob for each
handler. Every step but a crash keeps it under all faults and deletes: the check is
made against a counter that covers the index (`Accounting`), and where the check
lets a blob through because the index is empty the other handlers stand for one
blob each. That alone is `IndexIsBounded`. To carry it over to the files takes
`Tracked` (each file is in the index or with a handler), `Sized` (the recorded
sizes are those of the blobs) and that no file is longer than its blob, which is
`SizesKept`: one uploader for each key, or bodies of one length and no fault. A
crash is then harmless too: the new index is what was on disk, and that was within
the budget (`StoredWithinBudget`, `BudgetCrash`).

*Layered.* `Clean` extends `NothingCorrupt` to the bytes on their way: a reader's
buffer once it came from L2, and the stream of the task. `Keyed` says that
whoever is at work has a key. `OneKeyAtATime` gives the refinement. A body that
is being uploaded is not clean; only L1 looks at it. The same invariant shows that
each tier, taken alone, takes steps of `BlobStore`; an L2 that verifies nothing
takes those of one that does (`Tier2`), since it is fed from L1.

*Misses and deletes.* `Sightings` says what the history of a look-up still implies
at each of its steps: before L1 is asked, a tier that had the blob since the start
has it still; after L1 had nothing, only L2 can have had it throughout, or the
blob moved to L1 from L2, which a copy never leaves; a miss then means that no
tier had it. `Quietness` follows a delete that nothing of its key runs beside:
each half that has run leaves its tier without the blob, and no job of the key is
in the queue, the task or a reader to bring it back. The theorem asks for
`DeletesL2`, since `GhaBackend::delete` does nothing and the blob stays in L2.

*ByteStream.* `Inv` joins `TypeOK` with facts about each call: `InOrder`, which
counts the messages hashed, sent and read; `TwoTasks`, that `put()` has the
receiver exactly while it runs and that a feeder which stopped under it has hashed
the whole stream or sent its error; and `AfterPut`, that a `put()` which answered
has read the whole body, or none of it, and that the disk lets no upload get as far
as the delete. `Files` and `Asked` say who writes where: a file that is an upload's
`own` is at the tmp path alone, and nothing that was asked of the disk is done
later. With them an entry of a key that was never contended changes by the rename
of a verified file of one upload only (`NoneShared`), which keeps
`CompletedIsStored`; and over the other backends the step that makes an entry
corrupt is that of an upload which goes on to `join` and `delete`, or is recorded
in `strays`. The hypothesis on contended keys is needed: without it
`CompletedIsStored` fails as `disk_same_key` does.

*Token bucket.* `Minted`: permits that are available, handed out or about to be
added never exceed the meter, nor a full bucket. The race of the refill (level
read in one step, raised in the next) is harmless because between the two the
level can only be raised by a waiter that goes away, and that moves a permit
within the sum. Lookups are shown to take the limiter's steps or none
(`LookupUsesBucket`), so its invariant carries over. `LookInv` adds what a
lookup owes to `seen`: an archive was there when it was named, and as long as the
lookup has seen no absence it is there still.

`LookupTypeOK` ends with a relation of two modules, that a lookup is in the queue
or holds a permit exactly when it is at the limiter; what makes it inductive is
that the queue repeats nobody and that those who left are not in it (`Inside`,
`AtLimiter`). With it every step of a lookup is one of the limiter's callers, the
fairness included (`LookupsUseTheLimiter`).

*GHA uploads.* The service forgets nothing: parts and states of an entry only grow
(`Grown`), so whatever a late, repeated or lost request does, nothing that was
relied upon is taken back. What is to be shown is that it was there in the first
place: `RequestSound` (a commit is on the wire only when every part is uploaded)
and `UploadSound` (a put past its reservation has its key reserved, and the parts
before its own uploaded). `OutcomeSound` keeps what an Ok said.

*Conflicts.* `gha_conflict` refutes that a conflict means the blob is cached.
`ConflictsAreTrue` says what it takes: where nothing goes wrong (`Undisturbed`; a
body that breaks before v1 has reserved does no harm) `Orderly` is inductive:
every request on the wire is awaited, every reserved entry has a put past its
reservation (`Attended`), that put is alone (`Alone`), and so none of its requests
is refused. Whoever is told of a conflict then has a committed entry or a put at
work before it. A lost answer, a 5xx, a refusal, a cancelled put, or in v2 a body
that breaks, each break it (TLC finds a counterexample for each fault alone).

*Object stores.* `ObjectInv` is `ObjectsWhole` (a visible object is all of some
body, and so is every put and completion on the wire) with `CallSound`: how the
parts of a job add up to what is read, that GCS has sent full parts only, and
that a thin part had a short read before it. A step touches the object of one
key, which gives the refinement. For downloads `TaskSound` says where the task
is in the body it opened, `Chain` that the pieces of the channel join what the
client has to what the task read, and `Finished` that an idle task without an
error in the channel has read all that was wanted; then a clean end is complete.
What the store does meanwhile cannot matter, since no step of it touches a
reader's body.

*Services.* `TypeOK` says by the shape of a call which step it is at, and that the
one task that evicts has the mutex. `LimitKept` is inductive with `TypeOK`: the mutex is free before and
after a step only if that step shrinks the table or leaves it, and it becomes
free by an eviction that ended within the limit or one that was cut short.
(`cut` is also set when the eviction of a dropped put ends as it should, which the
history cannot tell from an error; the property is the weaker for it by a put.)

`OwnResult` needs to know whose task an update waits for: `Waits` says that a
handler which awaits an answer has the task of its own call, and `Unrivalled` that
from the end of its insert on, while no rival put ran, the row of the action is
its own result or gone, which the read back then returns. `MissingHonest` needs
`Searches`: the blobs still to be looked up are in `seen` as they are now, and
those done were seen as they were answered.

*Histories.* `LayeredHistory`, `ByteStreamHistory`, `ServicesHistory` and `TokenBucketRate` add variables
that record what happened. That they only observe is a theorem of each: their
behaviours, fairness included, are behaviours of the module they extend, so what
is shown with the history holds of the system without it.

Every invariant, every step property and the refinement of the passing runs is
stated by a theorem; the refinements of the disk and of the layered cache are
proved and not run, since `FilesVerified` and `NothingCorrupt` are what TLC can
break of them. Model-checked only is liveness (`AloneReturns`,
`QueueServed`, `NothingHangs`, `LookupsEnd`, `PutsEnd`, `OrphansEnd`,
`MutexReleased`): it rests on fairness and ENABLED, which the prover does not do.
`FilesVerified` and `DiskUsageBounded` are proved under the hypotheses above, each
with a run that shows or a paragraph that says why it is needed; `disk_bounded`
checks the latter for the case without faults and with blobs of one length.

## 6. What is not modelled

* The write-back cache of the file system. A crash loses no written data; `put`
  flushes but does not fsync, so a power failure can leave a short file.
* Work in tokio's blocking pool that lands after its handler was dropped, for the
  disk: a late write of a cancelled upload into a tmp file that the next upload
  created.
* In `ByteStreamWrite` the eviction and the `delete()` of the backend, with which
  what `query_write_status` calls complete is stale (`completed_writes` is never
  trimmed).
* Overflow of `current_size` upwards (sizes are `i64`, so it takes more than
  2^63 bytes); `Wrap` models the wrap below zero only.
* Memory: `completed_writes` grows for ever; `get` of the layered cache buffers
  blobs whole.
* Power failures under SQLite (`synchronous = NORMAL` may lose the last
  commits); a restart of the model keeps what was committed. Sizes stored as
  they are given (`lib.rs:171`) and rows whose data does not decompress.
* The statuses that the front ends give to errors, extractors, health, parsing,
  encoding, zstd, configuration, metrics and logs. A compressing stream is taken
  to pass on the end and the error of what it compresses.
* The GHA service's own quota; its expiry is an eviction like any other. The
  object store is one place where a request takes effect at once: no delayed
  listing or replica.
* In `ObjectBackend` parts that fail are not tried again by the library, and the
  parts GCS has in flight are not bounded, as they are not in the code.

## 7. Plan

Done: the disk and its refinement, the layered cache and its refinement,
ByteStream writes and reads, the token bucket, GHA uploads and lookups,
ActionCache, CAS and unverified streams over SQLite, S3 and GCS with their
refinement, HTTP GET, HEAD and PUT.

Next modules, in this order:

1. The services over `DiskBackend`, which verifies: every action result is stored
   under the hash of the *action* (`action_cache.rs:70`) and is refused there.
2. Compositions: `LayeredBackend` over `DiskBackend` (two gets that miss write the
   same key back at once, which is `disk_same_key`); `ByteStreamWrite` over all of it;
   `BlobReads` over `GhaLookup`, whose HEAD has no length.
3. A blocking pool beside `DiskBackend` for writes that land late.

Proofs to add: the bound on the disk usage with blobs of several lengths and several
uploaders of a key, which needs the lengths of files that are being written over. Runs are kept
few on purpose: a new question is added to an existing run where its constants
allow it.

## 8. Running it

    tlc -config layered.cfg MCLayeredHistory
    tlapm Layered_proofs.tla

The module of every run and its `.cfg` are in `PROJECT.json` under `runs`. The
longest run takes two to three minutes.
