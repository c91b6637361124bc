---------------------------- MODULE DiskBackend ----------------------------
(***************************************************************************)
(* The on-disk cache: DiskBackend (disk_backend.rs) and evict_to_fit       *)
(* (eviction.rs), as concurrent request handlers see it.                   *)
(*                                                                         *)
(* Three pieces of shared state are updated by separate steps of every     *)
(* handler: the files (the tmp and final path of every key), the LRU index *)
(* (behind a mutex) and current_size (an atomic counter outside it).       *)
(* An action is the code between two points where another handler may run: *)
(* an await, the mutex, or an access to the atomic counter.                *)
(*                                                                         *)
(* A key is a path "KIND/hash".  Blobs are measured in chunks.  The hash   *)
(* of a key names one blob, Size[k] chunks that are all "good"; SHA-256 is *)
(* taken to be injective, so a body has the key's hash iff it is that blob.*)
(***************************************************************************)
EXTENDS Integers, FiniteSets, Weights

CONSTANTS
  Procs,        \* handlers that may run at the same time
  Keys,         \* "KIND/hash" paths
  ACKeys,       \* the keys of kind AC: scanned first by new()
  Size,         \* Size[k]: length of the blob the hash of k names
  MaxLen,       \* bound: longest body a client sends
  MaxSize,      \* max_size; 0 means unlimited
  LruCap,       \* capacity of the LruCache (1_000_000 in the code)
  Wrap,         \* modulus of the unsigned counter (2^64 in the code)
  Declared,     \* the logical sizes clients declare; negative = unknown
  Uploaders,    \* Uploaders[k]: the handlers that may upload k
  Deletable,    \* the keys that delete() is called for
  Faults,       \* which of "io", "cancel", "crash" happen
  MaxCounted,   \* bound: no upload starts above this value of current_size
  NoFile        \* no file at a path

ASSUME SetsAssumption ==
  /\ IsFiniteSet(Procs) /\ IsFiniteSet(Keys)
  /\ ACKeys \subseteq Keys /\ Deletable \subseteq Keys
  /\ Uploaders \in [Keys -> SUBSET Procs]
  /\ Faults \subseteq {"io", "cancel", "crash"}

ASSUME BoundsAssumption ==
  /\ MaxLen \in Nat \ {0} /\ MaxSize \in Nat /\ MaxCounted \in Nat
  /\ LruCap \in Nat \ {0}
  /\ Wrap \in Nat /\ Wrap > MaxLen
  /\ Size \in [Keys -> 1..MaxLen]
  /\ Declared \subseteq Int

Chunk   == {"good", "bad", "none"}    \* "none": beyond the end, or a hole
Content == [1..MaxLen -> Chunk]

ASSUME NoFileAssumption == NoFile \notin Content

VARIABLES
  tmp,       \* tmp[k]: the file at KIND/hash.tmp
  final,     \* final[k]: the file at KIND/hash
  cached,    \* the keys in the LruCache
  lruSize,   \* lruSize[k]: the size the LruCache holds for k (0 if absent)
  older,     \* older[k]: the cached keys used less recently than k
  current,   \* current_size
  pc,        \* pc[p]: where handler p is
  job,       \* job[p]: the upload or lookup p is serving
  victim     \* victim[p]: the entry p popped and has yet to account for

files == <<tmp, final>>
index == <<cached, lruSize, older>>
vars  == <<tmp, final, cached, lruSize, older, current, pc, job, victim>>

-----------------------------------------------------------------------------
(* Files *)

Empty == [n \in 1..MaxLen |-> "none"]

\* The blob that the hash of k names.
Blob(k) == [n \in 1..MaxLen |-> IF n <= Size[k] THEN "good" ELSE "none"]

\* metadata().len(): how many positions there are up to the last one written.
Length(c) ==
  IF c = NoFile THEN 0
  ELSE Cardinality({n \in 1..MaxLen : \E m \in n..MaxLen : c[m] # "none"})

Stored == {k \in Keys : final[k] # NoFile}

-----------------------------------------------------------------------------
(* The LruCache *)

\* The entry pop_lru takes.
LeastRecent == {k \in cached : older[k] = {}}

\* older[] once the keys of gone have left and k is the most recent of kept.
Touched(k, kept, gone) ==
  [j \in Keys |-> IF j = k THEN kept \ {k}
                  ELSE IF j \in gone THEN {} ELSE older[j] \ (gone \union {k})]

\* LruCache::promote: no effect on a key that is not cached.
LruPromote(k) ==
  /\ older' = IF k \in cached THEN Touched(k, cached, {}) ELSE older
  /\ UNCHANGED <<cached, lruSize>>

\* LruCache::put: replaces the entry of k, or makes room by dropping the
\* least recent one, whose file and bytes nobody looks at again.
LruPut(k, size) ==
  \E gone \in {{j} : j \in LeastRecent} \union {{}} :
    /\ (gone # {}) <=> (k \notin cached /\ Cardinality(cached) >= LruCap)
    /\ cached'  = (cached \ gone) \union {k}
    /\ lruSize' = [j \in Keys |-> IF j = k THEN size
                                  ELSE IF j \in gone THEN 0 ELSE lruSize[j]]
    /\ older'   = Touched(k, cached \ gone, gone)

\* LruCache::pop and pop_lru.
LruRemove(k) ==
  /\ cached'  = cached \ {k}
  /\ lruSize' = [lruSize EXCEPT ![k] = 0]
  /\ older'   = [j \in Keys |-> IF j = k THEN {} ELSE older[j] \ {k}]

-----------------------------------------------------------------------------
(* Handlers *)

\* A request for k that has opened nothing yet.
Request(k, declared) ==
  [key |-> k, size |-> declared, fd |-> "closed", off |-> 0, body |-> "good"]

NoJob    == Request(NoFile, 0)
NoVictim == [key |-> NoFile, size |-> 0, take |-> 0]

\* fetch_sub on an unsigned counter wraps below zero.
FetchSub(n, m) == IF m <= n THEN n - m ELSE n + Wrap - m

Goto(p, label) == pc' = [pc EXCEPT ![p] = label]

\* The handler returns or its future is dropped; its open file is closed.
Finish(p) ==
  /\ Goto(p, "idle")
  /\ job' = [job EXCEPT ![p] = NoJob]
  /\ victim' = [victim EXCEPT ![p] = NoVictim]

\* job[] after the file at the final path of k was unlinked or replaced, and,
\* if renaming, the one at the tmp path took its place.
Reopen(k, renaming) ==
  [q \in Procs |->
     IF job[q].key # k THEN job[q]
     ELSE IF job[q].fd = "final" THEN [job[q] EXCEPT !.fd = "unlinked"]
     ELSE IF job[q].fd = "tmp" /\ renaming THEN [job[q] EXCEPT !.fd = "final"]
     ELSE job[q]]

\* Total of the sizes in the index, and of the entries popped from it whose
\* bytes have yet to be subtracted.
Indexed == Weight(lruSize, Keys, MaxLen)
Pending == Weight([p \in Procs |-> victim[p].size], Procs, MaxLen)

Init ==
  /\ tmp = [k \in Keys |-> NoFile] /\ final = [k \in Keys |-> NoFile]
  /\ cached = {} /\ lruSize = [k \in Keys |-> 0] /\ older = [k \in Keys |-> {}]
  /\ current = 0
  /\ pc = [p \in Procs |-> "idle"]
  /\ job = [p \in Procs |-> NoJob] /\ victim = [p \in Procs |-> NoVictim]

-----------------------------------------------------------------------------
(* put(): eviction *)

\* put() is called for k with a declared length.  MaxCounted is a bound of
\* the model: the code has none.
PutStart(p, k, declared) ==
  /\ pc[p] = "idle" /\ p \in Uploaders[k] /\ current <= MaxCounted
  /\ job' = [job EXCEPT ![p] = Request(k, declared)]
  /\ Goto(p, "check")
  /\ UNCHANGED <<files, index, current, victim>>

\* needed: an unknown length reserves nothing.
Needed(p) == IF job[p].size > 0 THEN job[p].size ELSE 0

\* Mutant: the limit is held against each blob alone.
FitsAlone(p) == MaxSize = 0 \/ Needed(p) <= MaxSize

Fits(p) == MaxSize = 0 \/ current + Needed(p) <= MaxSize

\* The load of current_size; the pop it decides on comes later.
FitCheck(p) ==
  /\ pc[p] = "check"
  /\ Goto(p, IF Fits(p) THEN "create" ELSE "pop")
  /\ UNCHANGED <<files, index, current, job, victim>>

\* Mutant: with nothing to evict, look again.
PopLruLooksAgain(p) ==
  /\ pc[p] = "pop"
  /\ \/ /\ cached = {}
        /\ Goto(p, "check")
        /\ UNCHANGED <<index, victim>>
     \/ \E k \in LeastRecent :
          /\ LruRemove(k)
          /\ victim' = [victim EXCEPT ![p] = [key |-> k, size |-> lruSize[k], take |-> 0]]
          /\ Goto(p, "unlink")
  /\ UNCHANGED <<files, current, job>>

\* pop_lru under the mutex.  With nothing left to evict the blob is stored
\* whether it fits or not.
PopLru(p) ==
  /\ pc[p] = "pop"
  /\ \/ /\ cached = {}
        /\ Goto(p, "create")
        /\ UNCHANGED <<index, victim>>
     \/ \E k \in LeastRecent :
          /\ LruRemove(k)
          /\ victim' = [victim EXCEPT ![p] = [key |-> k, size |-> lruSize[k], take |-> 0]]
          /\ Goto(p, "unlink")
  /\ UNCHANGED <<files, current, job>>

\* remove_file of the popped entry: removed, already gone, or failed (the
\* entry is then forgotten and its bytes stay counted).
RemoveVictim(p) ==
  LET k == victim[p].key IN
  /\ pc[p] = "unlink"
  /\ \/ /\ final[k] # NoFile
        /\ final' = [final EXCEPT ![k] = NoFile]
        /\ job' = Reopen(k, FALSE)
        /\ victim' = [victim EXCEPT ![p].take = victim[p].size]
        /\ Goto(p, "sub")
     \/ /\ final[k] = NoFile
        /\ Goto(p, "reload")
        /\ UNCHANGED <<final, job, victim>>
     \/ /\ "io" \in Faults
        /\ victim' = [victim EXCEPT ![p] = NoVictim]
        /\ Goto(p, "check")
        /\ UNCHANGED <<final, job>>
  /\ UNCHANGED <<tmp, index, current>>

\* Already gone: load current_size to clamp what fetch_sub will take.
ReloadSize(p) ==
  LET size == victim[p].size IN
  /\ pc[p] = "reload"
  /\ victim' = [victim EXCEPT ![p].take = IF size <= current THEN size ELSE current]
  /\ Goto(p, "sub")
  /\ UNCHANGED <<files, index, current, job>>

SubtractVictim(p) ==
  /\ pc[p] = "sub"
  /\ current' = FetchSub(current, victim[p].take)
  /\ victim' = [victim EXCEPT ![p] = NoVictim]
  /\ Goto(p, "check")
  /\ UNCHANGED <<files, index, job>>

-----------------------------------------------------------------------------
(* put(): the body *)

\* File::create: makes KIND/hash.tmp, or truncates the one that is there,
\* which other handlers may have open.
CreateTmp(p) ==
  /\ pc[p] = "create"
  /\ tmp' = [tmp EXCEPT ![job[p].key] = Empty]
  /\ job' = [job EXCEPT ![p].fd = "tmp"]
  /\ Goto(p, "copy")
  /\ UNCHANGED <<final, index, current, victim>>

\* One read of the body and the write of it, at this handler's own offset,
\* into whichever file its descriptor now refers to.
CopyChunk(p, chunk) ==
  LET k == job[p].key
      n == job[p].off + 1 IN
  /\ pc[p] = "copy" /\ n <= MaxLen
  /\ job' = [job EXCEPT ![p].off = n, 
                     ![p].body = IF chunk = "good" THEN job[p].body ELSE "bad"]
  /\ tmp' = IF job[p].fd = "tmp" THEN [tmp EXCEPT ![k][n] = chunk] ELSE tmp
  /\ final' = IF job[p].fd = "final" THEN [final EXCEPT ![k][n] = chunk] ELSE final
  /\ UNCHANGED <<index, current, pc, victim>>

\* Mutant: only the length is verified.
VerifiedLength(p) ==
  /\ job[p].off = Size[job[p].key]
  /\ job[p].size < 0 \/ job[p].size = job[p].off

\* finalize(): the body has the key's hash and, if declared, the length.
Verified(p) ==
  /\ job[p].body = "good" /\ job[p].off = Size[job[p].key]
  /\ job[p].size < 0 \/ job[p].size = job[p].off

\* The body ends; finalize consumes the writer, which closes the file.
EndOfBody(p) ==
  /\ pc[p] = "copy"
  /\ job' = [job EXCEPT ![p].fd = "closed"]
  /\ Goto(p, IF Verified(p) THEN "rename" ELSE "discard")
  /\ UNCHANGED <<files, index, current, victim>>

\* create, read, write or rename fails: put() returns and leaves the tmp file.
Fail(p) ==
  /\ "io" \in Faults /\ pc[p] \in {"create", "copy", "rename"}
  /\ Finish(p)
  /\ UNCHANGED <<files, index, current>>

\* rename moves whatever file is at the tmp path now.
RenameTmp(p) ==
  LET k == job[p].key IN
  /\ pc[p] = "rename"
  /\ \/ /\ tmp[k] # NoFile
        /\ final' = [final EXCEPT ![k] = tmp[k]]
        /\ tmp' = [tmp EXCEPT ![k] = NoFile]
        /\ job' = Reopen(k, TRUE)
        /\ Goto(p, "record")
        /\ UNCHANGED victim
     \/ /\ tmp[k] = NoFile
        /\ Finish(p)
        /\ UNCHANGED files
  /\ UNCHANGED <<index, current>>

\* Mutant: the declared length is recorded, not the one that was written.
RecordDeclared(p) ==
  /\ pc[p] = "record"
  /\ LruPut(job[p].key, job[p].size)
  /\ current' = current + job[p].size
  /\ Finish(p)
  /\ UNCHANGED files

\* Mutant: only blobs of a declared length are recorded.
RecordKnown(p) ==
  /\ pc[p] = "record"
  /\ IF job[p].size > 0
     THEN LruPut(job[p].key, job[p].off) /\ current' = current + job[p].off
     ELSE UNCHANGED <<index, current>>
  /\ Finish(p)
  /\ UNCHANGED files

\* Under the mutex: the index entry, and the counter.
Record(p) ==
  /\ pc[p] = "record"
  /\ LruPut(job[p].key, job[p].off)
  /\ current' = current + job[p].off
  /\ Finish(p)
  /\ UNCHANGED files

\* The hash or the length is wrong: unlink whatever is at the tmp path now.
DiscardTmp(p) ==
  LET k == job[p].key IN
  /\ pc[p] = "discard"
  /\ tmp' = [tmp EXCEPT ![k] = NoFile]
  /\ job' = [q \in Procs |->
              IF q = p THEN NoJob
              ELSE IF job[q].key = k /\ job[q].fd = "tmp"
                   THEN [job[q] EXCEPT !.fd = "unlinked"] ELSE job[q]]
  /\ Goto(p, "idle")
  /\ UNCHANGED <<final, index, current, victim>>

-----------------------------------------------------------------------------
(* get(), contains(), delete() *)

\* The file of k is there; what is left is to promote its entry.
Lookup(p, k) ==
  /\ pc[p] = "idle" /\ final[k] # NoFile
  /\ job' = [job EXCEPT ![p] = Request(k, 0)]
  /\ Goto(p, "promote")
  /\ UNCHANGED <<files, index, current, victim>>

Promote(p) ==
  /\ pc[p] = "promote"
  /\ LruPromote(job[p].key)
  /\ Finish(p)
  /\ UNCHANGED <<files, current>>

\* delete() unlinks the file first; a key with no file is left alone.
DeleteFile(p, k) ==
  /\ pc[p] = "idle" /\ k \in Deletable /\ final[k] # NoFile
  /\ final' = [final EXCEPT ![k] = NoFile]
  /\ job' = [Reopen(k, FALSE) EXCEPT ![p] = Request(k, 0)]
  /\ Goto(p, "forget")
  /\ UNCHANGED <<tmp, index, current, victim>>

\* Mutant: the length of the deleted file is subtracted, whether or not an
\* evictor has taken the entry in between.
ForgetFile(p) ==
  LET k == job[p].key IN
  /\ pc[p] = "forget"
  /\ LruRemove(k)
  /\ current' = FetchSub(current, Size[k])
  /\ Finish(p)
  /\ UNCHANGED files

\* Then, under the mutex, the entry the key has by now, and its bytes.
Forget(p) ==
  LET k == job[p].key IN
  /\ pc[p] = "forget"
  /\ \/ /\ k \in cached
        /\ LruRemove(k)
        /\ current' = FetchSub(current, lruSize[k])
     \/ /\ k \notin cached
        /\ UNCHANGED <<index, current>>
  /\ Finish(p)
  /\ UNCHANGED files

-----------------------------------------------------------------------------
(* Cancellation, crash and restart *)

\* The client goes away and the server drops the handler's future at an
\* await; a file operation already handed to the blocking pool has happened.
Cancel(p) ==
  /\ "cancel" \in Faults /\ pc[p] # "idle"
  /\ Finish(p)
  /\ UNCHANGED <<files, index, current>>

\* The order in which new() meets the files: AC first, then as readdir likes.
ScanOrders ==
  {rank \in [Stored -> 1..Cardinality(Stored)] :
     \A j, k \in Stored :
       /\ rank[j] = rank[k] => j = k
       /\ j \in ACKeys /\ k \notin ACKeys => rank[j] < rank[k]}

\* The process dies and new() rebuilds the index from what is on disk.
Crash ==
  /\ "crash" \in Faults
  /\ \E rank \in ScanOrders :
       LET kept == {k \in Stored : rank[k] + LruCap > Cardinality(Stored)} IN
       /\ cached' = kept
       /\ lruSize' = [k \in Keys |-> IF k \in kept THEN Length(final[k]) ELSE 0]
       /\ older' = [k \in Keys |->
            IF k \in kept THEN {j \in kept : rank[j] < rank[k]} ELSE {}]
  /\ current' = Weight([k \in Keys |-> Length(final[k])], Keys, MaxLen)
  /\ tmp' = [k \in Keys |-> NoFile]
  /\ pc' = [p \in Procs |-> "idle"]
  /\ job' = [p \in Procs |-> NoJob] /\ victim' = [p \in Procs |-> NoVictim]
  /\ UNCHANGED final

-----------------------------------------------------------------------------

Begin(p) == \E k \in Keys : \/ \E s \in Declared : PutStart(p, k, s)
                            \/ Lookup(p, k)
                            \/ DeleteFile(p, k)

Work(p) == \/ FitCheck(p) \/ PopLru(p) \/ RemoveVictim(p) \/ ReloadSize(p)
           \/ SubtractVictim(p) \/ CreateTmp(p)
           \/ \E chunk \in {"good", "bad"} : CopyChunk(p, chunk)
           \/ EndOfBody(p) \/ Fail(p) \/ RenameTmp(p) \/ Record(p)
           \/ DiscardTmp(p) \/ Promote(p) \/ Forget(p)

Next == (\E p \in Procs : Begin(p) \/ Work(p) \/ Cancel(p)) \/ Crash

Spec == Init /\ [][Next]_vars

\* Every handler that has started is polled until it returns: tokio runs
\* ready futures, file operations return, and a client ends its body.
FairSpec == Spec /\ \A p \in Procs : WF_vars(Work(p))

-----------------------------------------------------------------------------
(* Properties *)

Job    == [key : Keys \union {NoFile}, size : Int,
           fd : {"closed", "tmp", "final", "unlinked"}, off : 0..MaxLen, body : {"good", "bad"}]
Victim == [key : Keys \union {NoFile}, size : 0..MaxLen, take : 0..MaxLen]

Labels == {"idle", "check", "pop", "unlink", "reload", "sub", "create", "copy",
           "rename", "record", "discard", "promote", "forget"}

\* The types of the files, the index, the counter and the handlers' locals.
TypeOK ==
  /\ tmp \in [Keys -> Content \union {NoFile}]
  /\ final \in [Keys -> Content \union {NoFile}]
  /\ cached \subseteq Keys
  /\ lruSize \in [Keys -> 0..MaxLen]
  /\ older \in [Keys -> SUBSET Keys]
  /\ current \in Nat
  /\ pc \in [Procs -> Labels]
  /\ job \in [Procs -> Job]
  /\ victim \in [Procs -> Victim]

\* What the bookkeeping means: a key outside the index has no recorded size;
\* a handler past "idle" serves a key, holds an open file only where there is
\* one, and holds a popped entry only from the pop to the subtraction.
Bookkeeping ==
  /\ \A k \in Keys \ cached : lruSize[k] = 0
  /\ \A p \in Procs :
       /\ pc[p] # "idle" => job[p].key \in Keys
       /\ job[p].fd = "tmp" => tmp[job[p].key] # NoFile
       /\ job[p].fd = "final" => final[job[p].key] # NoFile
       /\ job[p].fd # "closed" => pc[p] = "copy"
       /\ pc[p] \in {"unlink", "reload", "sub"} => victim[p].key \in Keys
       /\ pc[p] \notin {"unlink", "reload", "sub"} => victim[p].size = 0

\* The counter is never less than what the index holds plus what has been
\* popped and not yet subtracted.  It is what makes each fetch_sub safe, here
\* and in delete(), though the counter is updated outside the mutex.
AccountingCovers == current >= Indexed + Pending

\* What an evictor is about to take off the counter is the size it popped: the
\* clamp size.min(cur) of the "already gone" branch never has to act.
ClampUnused == \A p \in Procs : pc[p] = "sub" => victim[p].take = victim[p].size

\* A subtraction, by an evictor or by delete(), never wraps the u64 counter
\* around to a huge value (after which every put would evict everything).
CounterNeverWraps ==
  [][\A p \in Procs : pc[p] \in {"sub", "forget"} /\ pc'[p] # pc[p] /\ ~Crash
        => current' <= current]_vars

\* Whatever was interrupted, cancelled or killed, a file at a final path is
\* the whole blob its hash names: a get() never serves part of a blob.
FilesVerified == \A k \in Stored : final[k] = Blob(k)

\* What a get() would be served for each key.
Held ==
  [k \in Keys |-> IF k \notin Stored THEN "absent"
                  ELSE IF final[k] = Blob(k) THEN "whole" ELSE "corrupt"]

Store == INSTANCE BlobStore
           WITH blob <- Held, Accepted <- {"whole"}, Losses <- {{k} : k \in Keys}

\* The disk is a StorageBackend that verifies hashes: seen from outside, the
\* many steps of put(), eviction, delete() and the restart are steps that store
\* one whole blob or lose one, and no step passes through anything else.
ImplementsBlobStore == Store!Spec

\* A file on disk can always be evicted: the index holds its key, or a put is
\* about to add it, or an evictor has popped it and is about to unlink it.
Tracked ==
  \A k \in Stored :
    \/ k \in cached
    \/ \E p \in Procs : pc[p] = "record" /\ job[p].key = k
    \/ \E p \in Procs : pc[p] = "unlink" /\ victim[p].key = k

\* The files at final paths exceed max_size by no more than one blob for each
\* handler: eviction checks the limit before the body is written, so uploads
\* in flight can pass it together, but the excess does not build up.
StoredLength == Weight([k \in Keys |-> Length(final[k])], Keys, MaxLen)

DiskUsageBounded ==
  MaxSize > 0 => StoredLength <= MaxSize + Cardinality(Procs) * MaxLen

\* What backend.rs says of put ("the same hash twice is a no-op") means for
\* the counter: when nothing is running it is the number of bytes indexed.
NoDrift == (\A p \in Procs : pc[p] = "idle") => current = Indexed

\* A request returns once it has no competition: if from some time on nobody
\* else uploads, eviction ends and so does the request.
AloneReturns ==
  \A p \in Procs :
    <>[](\A q \in Procs \ {p} : pc[q] = "idle") => []<>(pc[p] = "idle")
=============================================================================
