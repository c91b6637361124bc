---------------------------- MODULE SqliteBackend ----------------------------
(***************************************************************************)
(* The SQLite backend (bazel-cache-proxy-sqlite): one table behind one     *)
(* mutex, used from tasks of tokio's blocking pool.                        *)
(*                                                                         *)
(* Every statement is a transaction of its own.  put() keeps the mutex     *)
(* from its INSERT to the end of the eviction, so that a crash can fall    *)
(* between its statements and another task cannot.  A task of the blocking *)
(* pool goes on when the handler that waits for it is dropped.             *)
(*                                                                         *)
(* The hash is not verified.  No limit is a MaxSize above all there is.    *)
(***************************************************************************)
EXTENDS Integers, FiniteSets, Weights

CONSTANTS
  Clients,    \* handlers that may run at the same time
  Keys,       \* the primary keys (kind, hash)
  Bodies,     \* what may be stored
  Cost,       \* Cost[b]: LENGTH(data), the compressed length of b
  MaxCost,    \* bound of Cost
  MaxSize,    \* max_size_bytes
  Batch,      \* rows deleted by a statement (64 in the code)
  MaxClock,   \* bound: the seconds of unixepoch() that are told apart
  Faults,     \* which of "sql", "cancel", "crash" happen
  Nobody,     \* holds the mutex when it is free
  NoRow       \* no row for a key

ASSUME SqliteAssumption ==
  /\ IsFiniteSet(Keys)
  /\ MaxCost \in Nat /\ Cost \in [Bodies -> 1..MaxCost]
  /\ MaxSize \in Nat /\ Batch \in Nat \ {0} /\ MaxClock \in Nat
  /\ Faults \subseteq {"sql", "cancel", "crash"}
  /\ Nobody \notin Clients

Row == [body : Bodies, at : 0..MaxClock]

ASSUME NoRowAssumption == NoRow \notin Row

VARIABLES
  rows,      \* rows[k]: the body stored for k and when it was inserted
  now,       \* unixepoch()
  conn,      \* who holds the mutex of the connection
  task,      \* task[c]: the statement the task of c is at, its key and body
  answer     \* answer[c]: "none" when c awaits nothing, "awaited", or what it was answered

db == <<rows, now, conn, task, answer>>

Out == [at |-> "out", key |-> NoRow, body |-> NoRow]

SqliteInit ==
  /\ rows = [k \in Keys |-> NoRow] /\ now = 0 /\ conn = Nobody
  /\ task = [c \in Clients |-> Out] /\ answer = [c \in Clients |-> "none"]

Present == {k \in Keys : rows[k] # NoRow}

\* SELECT SUM(LENGTH(data))
Total == Weight([k \in Keys |-> IF rows[k] = NoRow THEN 0 ELSE Cost[rows[k].body]], Keys, MaxCost)

\* The rows a statement of the eviction may take: ORDER BY inserted_at LIMIT
\* 64, in any order within a second.
OldestRows ==
  {S \in SUBSET Present :
     /\ Cardinality(S) = IF Cardinality(Present) < Batch THEN Cardinality(Present) ELSE Batch
     /\ \A j \in S, k \in Present \ S : rows[j].at <= rows[k].at}

\* spawn_blocking of the operation that starts with statement s.
Ask(c, s, k, body) ==
  /\ task[c] = Out /\ answer[c] = "none"
  /\ task' = [task EXCEPT ![c] = [at |-> s, key |-> k, body |-> body]]
  /\ answer' = [answer EXCEPT ![c] = "awaited"]
  /\ UNCHANGED <<rows, now, conn>>

\* The task ends: the handler has the answer if it still waits for it.
Answered(c, what) ==
  /\ task' = [task EXCEPT ![c] = Out]
  /\ answer' = [answer EXCEPT ![c] = IF @ = "awaited" THEN what ELSE @]

\* The handler takes the answer.
Heard(c) ==
  /\ answer[c] \notin {"none", "awaited"}
  /\ answer' = [answer EXCEPT ![c] = "none"]
  /\ UNCHANGED <<rows, now, conn, task>>

\* The handler is dropped; its task is not.
Drop(c) == answer' = [answer EXCEPT ![c] = "none"] /\ UNCHANGED <<rows, now, conn, task>>

\* A statement fails, and the mutex is released with the task's stack.
SqlError(c) == "sql" \in Faults /\ Answered(c, "error") /\ conn' = Nobody /\ UNCHANGED <<rows, now>>

\* Mutant: the mutex is taken for the statement, and again by the eviction.
InsertUnlocked(c) ==
  /\ task[c].at = "insert" /\ conn = Nobody
  /\ rows' = [rows EXCEPT ![task[c].key] = [body |-> task[c].body, at |-> now]]
  /\ task' = [task EXCEPT ![c].at = "evict"]
  /\ UNCHANGED <<now, conn, answer>>

\* INSERT OR REPLACE: the mutex is kept for the eviction.
Insert(c) ==
  /\ task[c].at = "insert" /\ conn = Nobody
  /\ \/ /\ rows' = [rows EXCEPT ![task[c].key] = [body |-> task[c].body, at |-> now]]
        /\ conn' = c
        /\ task' = [task EXCEPT ![c].at = "evict"]
        /\ UNCHANGED <<now, answer>>
     \/ SqlError(c)

\* Mutant: one round of the eviction must do.
EvictOnce(c) ==
  /\ task[c].at = "evict"
  /\ \E gone \in OldestRows :
       rows' = IF Total > MaxSize THEN [k \in Keys |-> IF k \in gone THEN NoRow ELSE rows[k]] ELSE rows
  /\ Answered(c, "ok") /\ conn' = Nobody
  /\ UNCHANGED now

\* Mutant: the row just inserted is spared, and the loop has no other end.
EvictOthers(c) ==
  /\ task[c].at = "evict"
  /\ IF Total <= MaxSize
     THEN Answered(c, "ok") /\ conn' = Nobody /\ UNCHANGED rows
     ELSE /\ \E gone \in OldestRows :
               rows' = [k \in Keys |-> IF k \in gone \ {task[c].key} THEN NoRow ELSE rows[k]]
          /\ UNCHANGED <<conn, task, answer>>
  /\ UNCHANGED now

\* A round of evict_to_fit: the total fits, or the oldest rows go, be the one
\* just inserted among them or not.
Evict(c) ==
  /\ task[c].at = "evict"
  /\ \/ /\ Total <= MaxSize
        /\ Answered(c, "ok") /\ conn' = Nobody
        /\ UNCHANGED <<rows, now>>
     \/ /\ Total > MaxSize
        /\ \E gone \in OldestRows :
             rows' = [k \in Keys |-> IF k \in gone THEN NoRow ELSE rows[k]]
        /\ UNCHANGED <<now, conn, task, answer>>
     \/ SqlError(c)

\* SELECT, of get() the data and of contains() the size.
Select(c) ==
  /\ task[c].at = "select" /\ conn = Nobody
  /\ \/ /\ Answered(c, IF rows[task[c].key] = NoRow THEN "miss" ELSE rows[task[c].key].body)
        /\ UNCHANGED <<rows, now, conn>>
     \/ SqlError(c)

\* DELETE of one row.
Delete(c) ==
  /\ task[c].at = "delete" /\ conn = Nobody
  /\ \/ /\ rows' = [rows EXCEPT ![task[c].key] = NoRow]
        /\ Answered(c, "ok") /\ UNCHANGED <<now, conn>>
     \/ SqlError(c)

Statement(c) == Insert(c) \/ Evict(c) \/ Select(c) \/ Delete(c)

\* The clock goes on.
Tick == now < MaxClock /\ now' = now + 1 /\ UNCHANGED <<rows, conn, task, answer>>

\* The process dies and starts again: what was committed is there.
SqliteRestart ==
  /\ conn' = Nobody
  /\ task' = [c \in Clients |-> Out] /\ answer' = [c \in Clients |-> "none"]
  /\ UNCHANGED <<rows, now>>
=============================================================================
