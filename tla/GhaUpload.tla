------------------------------ MODULE GhaUpload ------------------------------
(***************************************************************************)
(* GhaBackend::put: reserve, upload the parts, commit (put_v1 of v1.rs,    *)
(* put_v2 of v2.rs), against the GitHub Actions cache service.             *)
(*                                                                         *)
(* The service and the network are external.  A request that the client    *)
(* gave up on may still reach the service; an answer may be lost.  The     *)
(* service reserves a key once: whoever asks next is told of a conflict.   *)
(* It commits what it is told to commit: that it is all there is up to the *)
(* client.  The two versions of the API differ in when the body is read,   *)
(* in what is tried again, and in how a refusal to commit is taken: v2 may *)
(* put it into the body of a 2xx, which the client does not read.          *)
(***************************************************************************)
EXTENDS Naturals, FiniteSets

CONSTANTS
  Versions,   \* of the API that the backend may be configured with
  Puts,       \* uploads that may run at the same time
  Keys,       \* cache keys "KIND-hash"
  Parts,      \* PATCH requests of v1; of v2, the blocks and the block list
  Attempts,   \* how often a request is tried (4 in the code)
  Faults      \* which of "body", "net", "busy", "refuse", "cancel" happen

ASSUME GhaAssumption ==
  /\ Versions \subseteq {"v1", "v2"}
  /\ Parts \in Nat \ {0} /\ Attempts \in Nat \ {0}
  /\ Faults \subseteq {"body", "net", "busy", "refuse", "cancel"}

VARIABLES
  version,   \* the API put() speaks, "v1" or "v2": it never changes
  slot,      \* slot[k]: the service's entry for k
  parts,     \* parts[k]: the parts uploaded to it
  wire,      \* requests on their way to the service
  pc,        \* pc[p]: the step put p is at
  up,        \* up[p]: its key, part, attempt, and the answer it waits for
  outcome    \* outcome[p]: how its last put ended

vars == <<version, slot, parts, wire, pc, up, outcome>>

Steps == {"body", "reserve", "part", "commit"}

NoUpload == [key |-> "none", part |-> 1, attempt |-> 1, answer |-> "unsent"]
NoOutcome == [how |-> "none", key |-> "none"]

Init ==
  /\ version \in Versions
  /\ slot = [k \in Keys |-> "free"] /\ parts = [k \in Keys |-> {}] /\ wire = {}
  /\ pc = [p \in Puts |-> "idle"] /\ up = [p \in Puts |-> NoUpload]
  /\ outcome = [p \in Puts |-> NoOutcome]

\* v1 reads and compresses the body before it reserves the key, v2 after.
BodyFirst == version = "v1"

FirstStep == IF BodyFirst THEN "body" ELSE "reserve"

StepAfter(step) ==
  CASE step = "body"    -> IF BodyFirst THEN "reserve" ELSE "part"
    [] step = "reserve" -> IF BodyFirst THEN "part" ELSE "body"
    [] step = "part"    -> "commit"

Goto(p, step) ==
  /\ pc' = [pc EXCEPT ![p] = step]
  /\ up' = [up EXCEPT ![p].attempt = 1, ![p].answer = "unsent"]
  /\ UNCHANGED outcome

\* put() returns: "ok", "cached" (told that it already is), "declined" (told that
\* it is not committed), "error", or "skipped": the service is unavailable.  The
\* caller sees Ok for all but "error".
Return(p, how) ==
  /\ pc' = [pc EXCEPT ![p] = "idle"]
  /\ up' = [up EXCEPT ![p] = NoUpload]
  /\ outcome' = [outcome EXCEPT ![p] = [how |-> how, key |-> up[p].key]]

\* put() is called; a slot of Puts is used again once nothing of it is on the wire.
Put(p, k) ==
  /\ pc[p] = "idle" /\ \A m \in wire : m.put # p
  /\ pc' = [pc EXCEPT ![p] = FirstStep]
  /\ up' = [up EXCEPT ![p] = [NoUpload EXCEPT !.key = k]]
  /\ outcome' = [outcome EXCEPT ![p] = NoOutcome]
  /\ UNCHANGED <<slot, parts, wire>>

\* read_to_end and compression.
ReadBody(p) ==
  /\ pc[p] = "body"
  /\ \/ Goto(p, StepAfter("body"))
     \/ "body" \in Faults /\ Return(p, "error")
  /\ UNCHANGED <<slot, parts, wire>>

Request(p) ==
  [put |-> p, key |-> up[p].key, step |-> pc[p], part |-> up[p].part, attempt |-> up[p].attempt]

Send(p) ==
  /\ pc[p] \in Steps \ {"body"} /\ up[p].answer = "unsent"
  /\ wire' = wire \union {Request(p)}
  /\ up' = [up EXCEPT ![p].answer = "waiting"]
  /\ UNCHANGED <<slot, parts, pc, outcome>>

-----------------------------------------------------------------------------
(* The service *)

\* The answer to m, delivered if its sender still waits for that very attempt.
Answer(m, what) ==
  /\ wire' = wire \ {m}
  /\ up' = IF /\ pc[m.put] = m.step /\ up[m.put].answer = "waiting"
              /\ m = Request(m.put)
           THEN [up EXCEPT ![m.put].answer = what] ELSE up
  /\ UNCHANGED <<pc, outcome>>

\* What carrying m out would answer.
Verdict(m) ==
  CASE m.step = "reserve" -> IF slot[m.key] = "free" THEN "ok" ELSE "conflict"
    [] m.step = "part"    -> IF slot[m.key] = "reserved" THEN "ok" ELSE "refused"
    [] m.step = "commit"  -> IF slot[m.key] = "reserved" THEN "ok"
                             ELSE IF version = "v1" THEN "refused" ELSE "conflict"

\* The answers whose body the client parses; one that is cut off is an error.
Parsed(m) == m.step = "reserve" \/ (version = "v2" /\ m.step = "commit")

\* The service carries m out, and answers so, or 5xx nevertheless, or the
\* answer is cut off.
Serve(m) ==
  /\ m \in wire
  /\ IF Verdict(m) # "ok" THEN UNCHANGED <<slot, parts>>
     ELSE /\ slot' = CASE m.step = "reserve" -> [slot EXCEPT ![m.key] = "reserved"]
                       [] m.step = "commit"  -> [slot EXCEPT ![m.key] = "committed"]
                       [] OTHER              -> slot
          /\ parts' = IF m.step = "part" THEN [parts EXCEPT ![m.key] = @ \union {m.part}]
                      ELSE parts
  /\ \/ Answer(m, Verdict(m))
     \/ "busy" \in Faults /\ Answer(m, "busy")
     \/ "net" \in Faults /\ Parsed(m) /\ Answer(m, "refused")

\* It does not: 5xx, 4xx, a 2xx of v2 that says ok: false, or the request never
\* arrives.
Reject(m) ==
  /\ m \in wire
  /\ \/ "busy" \in Faults /\ Answer(m, "busy")
     \/ "refuse" \in Faults /\ Answer(m, "refused")
     \/ "refuse" \in Faults /\ version = "v2" /\ Parsed(m) /\ Answer(m, "declined")
     \/ "net" \in Faults /\ wire' = wire \ {m} /\ UNCHANGED <<pc, up, outcome>>
  /\ UNCHANGED <<slot, parts>>

-----------------------------------------------------------------------------
(* The client *)

\* Azure uploads (the parts of v2) are tried once, everything else Attempts times.
Tries(step) == IF version = "v2" /\ step = "part" THEN 1 ELSE Attempts

\* Mutant: attempts are not counted.
RetryForEver(p) ==
  /\ up' = [up EXCEPT ![p].answer = "unsent"]
  /\ UNCHANGED <<pc, outcome>>

\* Mutant: one attempt too many.
RetryOnceMore(p) ==
  IF up[p].attempt <= Tries(pc[p])
  THEN /\ up' = [up EXCEPT ![p].attempt = @ + 1, ![p].answer = "unsent"]
       /\ UNCHANGED <<pc, outcome>>
  ELSE Return(p, "skipped")

\* Nothing came back, or a 5xx: the next attempt, or BackendUnavailable.
Retry(p) ==
  IF up[p].attempt < Tries(pc[p])
  THEN /\ up' = [up EXCEPT ![p].attempt = @ + 1, ![p].answer = "unsent"]
       /\ UNCHANGED <<pc, outcome>>
  ELSE Return(p, "skipped")

\* The connection fails or 30 s have passed, whatever has become of the request.
TimeOut(p) ==
  /\ "net" \in Faults /\ pc[p] \in Steps /\ up[p].answer # "unsent"
  /\ Retry(p)
  /\ UNCHANGED <<slot, parts, wire>>

\* Mutant: the last part is taken for sent with the one before it.
LastPartEarly(p) == up[p].part + 1 >= Parts

LastPart(p) == up[p].part = Parts

\* Mutant: only a 5xx is taken for a failure to commit.
CommittedUnlessBusy(answer) == answer \in {"ok", "conflict", "refused"}

\* A commit that v2 is told of in a 2xx; a conflict there is with one that came
\* before it.
Committed(answer) == answer \in {"ok", "conflict"}

\* At "reserve", a conflict, and whatever else v2 is told with ok: false, is
\* success.  So is a commit that is declined: v2 does not read what it is told.
Receive(p) ==
  LET answer == up[p].answer IN
  /\ pc[p] \in Steps
  /\ \/ /\ answer = "ok" /\ pc[p] = "part" /\ ~LastPart(p)
        /\ up' = [up EXCEPT ![p].part = @ + 1, ![p].attempt = 1, ![p].answer = "unsent"]
        /\ UNCHANGED <<pc, outcome>>
     \/ /\ answer = "ok" /\ (pc[p] = "reserve" \/ (pc[p] = "part" /\ LastPart(p)))
        /\ Goto(p, StepAfter(pc[p]))
     \/ /\ Committed(answer) /\ pc[p] = "commit"
        /\ Return(p, "ok")
     \/ /\ answer = "declined" /\ pc[p] = "commit"
        /\ Return(p, "declined")
     \/ /\ answer \in {"conflict", "declined"} /\ pc[p] = "reserve"
        /\ Return(p, "cached")
     \/ /\ answer = "busy" /\ ~(version = "v2" /\ pc[p] = "part")
        /\ Retry(p)
     \/ /\ \/ answer = "refused"
           \/ answer = "busy" /\ version = "v2" /\ pc[p] = "part"
        /\ Return(p, "error")
  /\ UNCHANGED <<slot, parts, wire>>

\* The caller drops the future.
Cancel(p) ==
  /\ "cancel" \in Faults /\ pc[p] # "idle"
  /\ Return(p, "none")
  /\ UNCHANGED <<slot, parts, wire>>

Work(p) == ReadBody(p) \/ Send(p) \/ Receive(p) \/ TimeOut(p)

Service == \E m \in wire : Serve(m) \/ Reject(m)

Step == \/ \E p \in Puts : (\E k \in Keys : Put(p, k)) \/ Work(p) \/ Cancel(p)
        \/ Service

Next == Step /\ UNCHANGED version

Spec == Init /\ [][Next]_vars

\* The client goes on when it can; every request has a time limit.  Nothing is
\* assumed of the service.
FairSpec == Spec /\ \A p \in Puts : WF_vars(Work(p) /\ UNCHANGED version)

-----------------------------------------------------------------------------
(* Properties *)

Upload == [key : Keys \union {"none"}, part : 1..Parts, attempt : 1..Attempts,
           answer : {"unsent", "waiting", "ok", "conflict", "declined", "busy", "refused"}]

\* The types of the service's entries, the wire and the uploads.
TypeOK ==
  /\ version \in Versions
  /\ slot \in [Keys -> {"free", "reserved", "committed"}]
  /\ parts \in [Keys -> SUBSET (1..Parts)]
  /\ wire \subseteq [put : Puts, key : Keys, step : Steps \ {"body"}, part : 1..Parts,
                     attempt : 1..Attempts]
  /\ pc \in [Puts -> Steps \union {"idle"}]
  /\ up \in [Puts -> Upload]
  /\ outcome \in [Puts -> [how : {"none", "ok", "cached", "declined", "error", "skipped"},
                          key : Keys \union {"none"}]]

\* An entry that can be read has all its parts: the commit is not on the wire
\* before every part is there, late and repeated requests included.
CommittedComplete == \A k \in Keys : slot[k] = "committed" => parts[k] = 1..Parts

\* A put that committed, at whatever attempt, left an entry that can be read: an
\* Ok after the commit is false only where v2 was told so and did not read it.
OkMeansCommitted ==
  \A p \in Puts : outcome[p].how = "ok" => slot[outcome[p].key] = "committed"

\* "Already cached - treat as success": what a put is told of a conflict is
\* true, the entry is there or another put is still at it.
CachedMeansCached ==
  \A p \in Puts : pc[p] = "reserve" /\ up[p].answer = "conflict" =>
    \/ slot[up[p].key] = "committed"
    \/ \E q \in Puts \ {p} : pc[q] # "idle" /\ up[q].key = up[p].key

\* put() returns even if the service never answers: the retries end.
PutsEnd == \A p \in Puts : pc[p] # "idle" ~> pc[p] = "idle"
=============================================================================
