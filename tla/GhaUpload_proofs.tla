-------------------------- MODULE GhaUpload_proofs --------------------------
(***************************************************************************)
(* Proofs about GhaUpload for any uploads, keys, parts and attempts: an    *)
(* entry that can be read has all its parts, and a put that committed left *)
(* an entry.  What the service has only grows, so late and repeated        *)
(* requests can take nothing back; what is to be shown is that a commit is *)
(* on the wire, or a put past its reservation, only when what it needs is  *)
(* there.  Where nothing goes wrong, a conflict is what the code takes it  *)
(* for.                                                                    *)
(***************************************************************************)
EXTENDS GhaUpload, TLAPS

\* What a request that is on the wire, however late, relies on.
RequestSound(m) ==
  /\ m.step # "reserve" => slot[m.key] # "free"
  /\ m.step = "commit" => parts[m.key] = 1..Parts

\* A put has its key reserved from the answer of the reservation on.
Reserved(p) ==
  \/ pc[p] \in {"part", "commit"}
  \/ pc[p] = "body" /\ version = "v2"
  \/ pc[p] = "reserve" /\ up[p].answer = "ok"

\* What a put has done of its upload is done.
UploadSound(p) ==
  /\ pc[p] # "idle" => up[p].key \in Keys
  /\ Reserved(p) => slot[up[p].key] # "free"
  /\ pc[p] \in {"body", "reserve"} => up[p].part = 1
  /\ pc[p] = "part" => /\ 1..(up[p].part - 1) \subseteq parts[up[p].key]
                       /\ up[p].answer = "ok" => up[p].part \in parts[up[p].key]
  /\ pc[p] = "commit" => /\ parts[up[p].key] = 1..Parts
                         /\ Committed(up[p].answer) => slot[up[p].key] = "committed"

OutcomeSound(p) ==
  outcome[p].how = "ok" => outcome[p].key \in Keys /\ slot[outcome[p].key] = "committed"

Sound(p) == UploadSound(p) /\ OutcomeSound(p)

\* What is inductive.
Inv ==
  /\ TypeOK /\ CommittedComplete
  /\ \A m \in wire : RequestSound(m)
  /\ \A p \in Puts : Sound(p)

-----------------------------------------------------------------------------

Outcomes == [how : {"none", "ok", "cached", "declined", "error", "skipped"}, key : Keys \union {"none"}]

Requests == [put : Puts, key : Keys, step : Steps \ {"body"}, part : 1..Parts,
             attempt : 1..Attempts]

\* The service forgets nothing.
Grown ==
  /\ \A k \in Keys : parts[k] \subseteq parts'[k] /\ parts'[k] \subseteq 1..Parts
  /\ \A k \in Keys : slot[k] # "free" => slot'[k] # "free"
  /\ \A k \in Keys : slot[k] = "committed" => slot'[k] = "committed"

LEMMA RequestGrown ==
  ASSUME Grown, NEW m \in Requests, RequestSound(m)
  PROVE  RequestSound(m)'
BY DEF Grown, Requests, RequestSound

\* What others do keeps a put sound.
LEMMA SoundKept ==
  ASSUME Inv, UNCHANGED version, Grown, NEW p \in Puts,
         pc'[p] = pc[p], up'[p] = up[p], outcome'[p] = outcome[p]
  PROVE  Sound(p)'
<1>1. UploadSound(p) /\ OutcomeSound(p)
  BY DEF Inv, Sound
<1>2. OutcomeSound(p)'
  BY <1>1 DEF OutcomeSound, Grown
<1>3. Reserved(p)' <=> Reserved(p)
  BY DEF Reserved
<1>4. CASE pc[p] = "idle"
  BY <1>2, <1>4 DEF Sound, UploadSound, Reserved
<1>5. CASE pc[p] # "idle"
  <2>1. up[p].key \in Keys
    BY <1>1, <1>5 DEF UploadSound
  <2>2. parts[up[p].key] \subseteq parts'[up[p].key] /\ parts'[up[p].key] \subseteq 1..Parts
        /\ (slot[up[p].key] # "free" => slot'[up[p].key] # "free")
        /\ (slot[up[p].key] = "committed" => slot'[up[p].key] = "committed")
    BY <2>1 DEF Grown
  <2>3. UploadSound(p)'
    BY <1>1, <1>3, <2>1, <2>2 DEF UploadSound
  <2> QED
    BY <1>2, <2>3 DEF Sound
<1> QED
  BY <1>2, <1>4, <1>5 DEF Sound

\* A step of one put, or of the service for it.
LEMMA StepOfOne ==
  ASSUME Inv, UNCHANGED version, NEW p \in Puts,
         NEW s \in Steps \union {"idle"}, pc' = [pc EXCEPT ![p] = s],
         NEW u \in Upload, up' = [up EXCEPT ![p] = u],
         NEW o \in Outcomes, outcome' = [outcome EXCEPT ![p] = o],
         slot' \in [Keys -> {"free", "reserved", "committed"}],
         parts' \in [Keys -> SUBSET (1..Parts)],
         wire' \subseteq Requests, Grown, CommittedComplete',
         \A m \in wire' : RequestSound(m)', Sound(p)'
  PROVE  Inv'
<1>1. TypeOK'
  BY DEF Inv, TypeOK, Outcomes, Requests
<1>2. ASSUME NEW q \in Puts PROVE Sound(q)'
  <2>1. CASE q = p
    BY <2>1
  <2>2. CASE q # p
    <3>1. pc'[q] = pc[q] /\ up'[q] = up[q] /\ outcome'[q] = outcome[q]
      BY <2>2 DEF Inv, TypeOK
    <3> QED
      BY <3>1, SoundKept
  <2> QED
    BY <2>1, <2>2
<1> QED
  BY <1>1, <1>2 DEF Inv

\* A step of the client that the service sees nothing of.
LEMMA ClientStep ==
  ASSUME Inv, UNCHANGED <<version, slot, parts, wire>>, NEW p \in Puts,
         NEW s \in Steps \union {"idle"}, pc' = [pc EXCEPT ![p] = s],
         NEW u \in Upload, up' = [up EXCEPT ![p] = u],
         NEW o \in Outcomes, outcome' = [outcome EXCEPT ![p] = o], Sound(p)'
  PROVE  Inv'
<1>1. slot' \in [Keys -> {"free", "reserved", "committed"}]
      /\ parts' \in [Keys -> SUBSET (1..Parts)] /\ wire' \subseteq Requests
  BY DEF Inv, TypeOK, Requests
<1>2. Grown
  BY <1>1 DEF Grown
<1>3. CommittedComplete' /\ \A m \in wire' : RequestSound(m)'
  BY DEF Inv, CommittedComplete, RequestSound
<1> QED
  BY <1>1, <1>2, <1>3, StepOfOne

\* The parts of an upload have their types.
LEMMA UploadTypes ==
  ASSUME TypeOK, NEW p \in Puts
  PROVE  /\ up[p] \in Upload /\ up[p].part \in 1..Parts /\ up[p].attempt \in 1..Attempts
         /\ up[p].key \in Keys \union {"none"}
         /\ up[p].answer \in {"unsent", "waiting", "ok", "conflict", "declined", "busy", "refused"}
         /\ outcome[p] \in Outcomes /\ pc[p] \in Steps \union {"idle"}
BY DEF TypeOK, Upload, Outcomes

-----------------------------------------------------------------------------
(* The client *)

\* A put returns; if it says "ok", the entry is there.
LEMMA ReturnKeeps ==
  ASSUME Inv, UNCHANGED <<version, slot, parts, wire>>, NEW p \in Puts,
         NEW how \in {"none", "ok", "cached", "declined", "error", "skipped"}, Return(p, how),
         how = "ok" => up[p].key \in Keys /\ slot[up[p].key] = "committed"
  PROVE  Inv'
<1> DEFINE o == [how |-> how, key |-> up[p].key]
<1>1. TypeOK
  BY DEF Inv
<1>2. o \in Outcomes /\ o.how = how /\ o.key = up[p].key
  BY <1>1, UploadTypes DEF Outcomes
<1>3. /\ pc' = [pc EXCEPT ![p] = "idle"] /\ up' = [up EXCEPT ![p] = NoUpload]
      /\ outcome' = [outcome EXCEPT ![p] = o]
  BY DEF Return
<1> HIDE DEF o
<1>4. pc'[p] = "idle" /\ outcome'[p] = o
  BY <1>1, <1>3 DEF TypeOK
<1>5. NoUpload \in Upload
  BY GhaAssumption DEF NoUpload, Upload
<1>6. Sound(p)'
  BY <1>2, <1>4 DEF Sound, UploadSound, OutcomeSound, Reserved
<1> QED
  BY <1>2, <1>3, <1>5, <1>6, ClientStep

\* An upload goes on; how the last one ended stays as it is.
LEMMA GoesOn ==
  ASSUME Inv, UNCHANGED <<version, slot, parts, wire, outcome>>, NEW p \in Puts,
         NEW s \in Steps, pc' = [pc EXCEPT ![p] = s],
         NEW u \in Upload, up' = [up EXCEPT ![p] = u], UploadSound(p)'
  PROVE  Inv'
<1>1. outcome' = [outcome EXCEPT ![p] = outcome[p]] /\ outcome[p] \in Outcomes
  BY DEF Inv, TypeOK, Outcomes
<1>2. OutcomeSound(p)'
  BY DEF Inv, Sound, OutcomeSound
<1> QED
  BY <1>1, <1>2, ClientStep DEF Sound

LEMMA PutKeeps ==
  ASSUME Inv, UNCHANGED version, NEW p \in Puts, NEW k \in Keys, Put(p, k)
  PROVE  Inv'
<1> DEFINE u == [NoUpload EXCEPT !.key = k]
<1>1. TypeOK
  BY DEF Inv
<1>2. /\ u \in Upload /\ u.key = k /\ u.part = 1 /\ u.answer = "unsent"
      /\ NoOutcome \in Outcomes /\ NoOutcome.how = "none"
  BY GhaAssumption DEF NoUpload, Upload, NoOutcome, Outcomes
<1>3. /\ pc' = [pc EXCEPT ![p] = FirstStep] /\ up' = [up EXCEPT ![p] = u]
      /\ outcome' = [outcome EXCEPT ![p] = NoOutcome]
      /\ UNCHANGED <<slot, parts, wire>>
  BY DEF Put
<1> HIDE DEF u
<1>4. FirstStep = (IF version = "v1" THEN "body" ELSE "reserve") /\ FirstStep \in Steps
  BY DEF FirstStep, BodyFirst, Steps
<1>5. pc'[p] = FirstStep /\ up'[p] = u /\ outcome'[p] = NoOutcome
  BY <1>1, <1>3 DEF TypeOK
<1>6. ~Reserved(p)'
  BY <1>2, <1>4, <1>5 DEF Reserved
<1>7. Sound(p)'
  BY <1>2, <1>4, <1>5, <1>6 DEF Sound, UploadSound, OutcomeSound
<1> QED
  BY <1>2, <1>3, <1>4, <1>7, ClientStep

\* Another attempt of an upload: nothing has been sent.
LEMMA NewAttempt ==
  ASSUME NEW v \in Upload, NEW a \in 1..Attempts, NEW u,
         u = [v EXCEPT !.attempt = a, !.answer = "unsent"]
  PROVE  u \in Upload /\ u.key = v.key /\ u.part = v.part /\ u.answer = "unsent"
<1> DEFINE w == [v EXCEPT !.attempt = a]
<1>1. w \in Upload /\ w.key = v.key /\ w.part = v.part
  BY DEF Upload
<1>2. u = [w EXCEPT !.answer = "unsent"]
  OBVIOUS
<1> HIDE DEF w
<1> QED
  BY <1>1, <1>2 DEF Upload

\* A put goes to the step after its own.
LEMMA GotoKeeps ==
  ASSUME Inv, UNCHANGED <<version, slot, parts, wire>>, NEW p \in Puts,
         pc[p] \in {"body", "reserve", "part"}, Goto(p, StepAfter(pc[p])),
         pc[p] = "reserve" => up[p].answer = "ok",
         pc[p] = "part" => LastPart(p) /\ up[p].answer = "ok"
  PROVE  Inv'
<1> DEFINE u == [up[p] EXCEPT !.attempt = 1, !.answer = "unsent"]
           s == StepAfter(pc[p])
<1>1. TypeOK /\ UploadSound(p)
  BY DEF Inv, Sound
<1>2. u \in Upload /\ u.key = up[p].key /\ u.part = up[p].part /\ u.answer = "unsent"
  <2> DEFINE w == [up[p] EXCEPT !.attempt = 1]
  <2>1. w \in Upload /\ w.key = up[p].key /\ w.part = up[p].part
    BY <1>1, UploadTypes, GhaAssumption DEF Upload
  <2>2. u = [w EXCEPT !.answer = "unsent"]
    OBVIOUS
  <2> HIDE DEF u, w
  <2> QED
    BY <2>1, <2>2 DEF Upload
<1>3. pc' = [pc EXCEPT ![p] = s] /\ up' = [up EXCEPT ![p] = u] /\ UNCHANGED outcome
  BY <1>1 DEF Goto, TypeOK
<1>4. /\ pc[p] = "body" => s = IF version = "v1" THEN "reserve" ELSE "part"
      /\ pc[p] = "reserve" => s = IF version = "v1" THEN "part" ELSE "body"
      /\ pc[p] = "part" => s = "commit"
      /\ s \in Steps /\ version \in {"v1", "v2"}
  BY <1>1, GhaAssumption DEF StepAfter, BodyFirst, Steps, TypeOK
<1> HIDE DEF u, s
<1>5. pc'[p] = s /\ up'[p] = u
  BY <1>1, <1>3 DEF TypeOK
<1>6. up[p].key \in Keys /\ Parts \in Nat \ {0} /\ parts[up[p].key] \subseteq 1..Parts
  BY <1>1, GhaAssumption DEF UploadSound, TypeOK
<1>7. CASE pc[p] \in {"body", "reserve"}
  <2>1. Reserved(p)' => slot[up[p].key] # "free"
    BY <1>1, <1>2, <1>4, <1>5, <1>7 DEF UploadSound, Reserved
  <2>2. u.part = 1 /\ 1..(u.part - 1) = {}
    BY <1>1, <1>2, <1>7 DEF UploadSound
  <2>3. UploadSound(p)'
    BY <1>2, <1>4, <1>5, <1>6, <1>7, <2>1, <2>2 DEF UploadSound
  <2> QED
    BY <1>2, <1>3, <1>4, <2>3, GoesOn
<1>8. CASE pc[p] = "part"
  <2>1. parts[up[p].key] = 1..Parts
    <3>1. 1..(Parts - 1) \subseteq parts[up[p].key] /\ Parts \in parts[up[p].key]
      BY <1>1, <1>8 DEF UploadSound, LastPart
    <3>2. \A n \in 1..Parts : n \in 1..(Parts - 1) \/ n = Parts
      BY <1>6
    <3> QED
      BY <1>6, <3>1, <3>2
  <2>2. UploadSound(p)'
    BY <1>1, <1>2, <1>3, <1>4, <1>5, <1>6, <1>8, <2>1 DEF UploadSound, Reserved, Committed
  <2> QED
    BY <1>2, <1>3, <1>4, <2>2, GoesOn
<1> QED
  BY <1>7, <1>8

LEMMA RetryKeeps ==
  ASSUME Inv, UNCHANGED <<version, slot, parts, wire>>, NEW p \in Puts, pc[p] \in Steps, Retry(p)
  PROVE  Inv'
<1>1. TypeOK /\ UploadSound(p)
  BY DEF Inv, Sound
<1>2. CASE up[p].attempt < Tries(pc[p])
  <2> DEFINE u == [up[p] EXCEPT !.attempt = up[p].attempt + 1, !.answer = "unsent"]
  <2>1. Tries(pc[p]) \in 1..Attempts /\ Attempts \in Nat
    BY GhaAssumption DEF Tries
  <2>2. up[p] \in Upload /\ up[p].attempt + 1 \in 1..Attempts
    BY <1>1, <1>2, <2>1, UploadTypes DEF Upload
  <2>3. u \in Upload /\ u.key = up[p].key /\ u.part = up[p].part /\ u.answer = "unsent"
    BY <2>2, NewAttempt, Zenon
  <2>4. pc' = [pc EXCEPT ![p] = pc[p]] /\ up' = [up EXCEPT ![p] = u] /\ UNCHANGED outcome
    BY <1>1, <1>2 DEF Retry, TypeOK
  <2> HIDE DEF u
  <2>5. pc'[p] = pc[p] /\ up'[p] = u
    BY <1>1, <2>4 DEF TypeOK
  <2>6. UploadSound(p)'
    BY <1>1, <2>3, <2>5 DEF UploadSound, Reserved, Committed
  <2> QED
    BY <2>3, <2>4, <2>6, GoesOn
<1>3. CASE ~(up[p].attempt < Tries(pc[p]))
  BY <1>3, ReturnKeeps DEF Retry
<1> QED
  BY <1>2, <1>3

LEMMA ReceiveKeeps ==
  ASSUME Inv, UNCHANGED version, NEW p \in Puts, Receive(p)
  PROVE  Inv'
<1>1. TypeOK /\ UploadSound(p)
  BY DEF Inv, Sound
<1>2. pc[p] \in Steps /\ UNCHANGED <<slot, parts, wire>>
  BY DEF Receive
<1>3. CASE /\ up[p].answer = "ok" /\ pc[p] = "part" /\ ~LastPart(p)
           /\ up' = [up EXCEPT ![p].part = @ + 1, ![p].attempt = 1, ![p].answer = "unsent"]
           /\ UNCHANGED <<pc, outcome>>
  <2> DEFINE u == [up[p] EXCEPT !.part = up[p].part + 1, !.attempt = 1, !.answer = "unsent"]
  <2>1. up[p].part \in 1..Parts /\ up[p].part # Parts /\ Parts \in Nat /\ Attempts \in Nat \ {0}
    BY <1>1, <1>3, UploadTypes, GhaAssumption DEF LastPart
  <2>2. u \in Upload /\ u.key = up[p].key /\ u.part = up[p].part + 1 /\ u.answer = "unsent"
    <3> DEFINE w == [up[p] EXCEPT !.part = up[p].part + 1]
               x == [w EXCEPT !.attempt = 1]
    <3>1. w \in Upload /\ w.key = up[p].key /\ w.part = up[p].part + 1
      BY <1>1, <2>1, UploadTypes DEF Upload
    <3>2. u = [x EXCEPT !.answer = "unsent"]
      OBVIOUS
    <3> HIDE DEF u, w
    <3>3. x \in Upload /\ x.key = up[p].key /\ x.part = up[p].part + 1
      BY <2>1, <3>1 DEF Upload
    <3> HIDE DEF x
    <3> QED
      BY <3>2, <3>3 DEF Upload
  <2>3. pc' = [pc EXCEPT ![p] = "part"] /\ up' = [up EXCEPT ![p] = u] /\ UNCHANGED outcome
    BY <1>1, <1>3 DEF TypeOK
  <2> HIDE DEF u
  <2>4. pc'[p] = "part" /\ up'[p] = u
    BY <1>1, <2>3 DEF TypeOK
  <2>5. 1..(u.part - 1) \subseteq parts[up[p].key]
    BY <1>1, <1>3, <2>1, <2>2 DEF UploadSound
  <2>6. UploadSound(p)'
    BY <1>1, <1>2, <1>3, <2>2, <2>4, <2>5 DEF UploadSound, Reserved
  <2> QED
    BY <1>2, <2>2, <2>3, <2>6, GoesOn DEF Steps
<1>4. CASE /\ up[p].answer = "ok" /\ (pc[p] = "reserve" \/ (pc[p] = "part" /\ LastPart(p)))
           /\ Goto(p, StepAfter(pc[p]))
  BY <1>2, <1>4, GotoKeeps
<1>5. CASE Committed(up[p].answer) /\ pc[p] = "commit" /\ Return(p, "ok")
  BY <1>1, <1>2, <1>5, ReturnKeeps DEF UploadSound
<1>6. CASE \E how \in {"cached", "declined", "error"} : Return(p, how)
  BY <1>2, <1>6, ReturnKeeps
<1>7. CASE Retry(p)
  BY <1>2, <1>7, RetryKeeps
<1> QED
  BY <1>3, <1>4, <1>5, <1>6, <1>7 DEF Receive

LEMMA SendKeeps ==
  ASSUME Inv, UNCHANGED version, NEW p \in Puts, Send(p)
  PROVE  Inv'
<1> DEFINE u == [up[p] EXCEPT !.answer = "waiting"]
           m == Request(p)
<1>1. TypeOK /\ UploadSound(p) /\ OutcomeSound(p)
  BY DEF Inv, Sound
<1>2. pc[p] \in Steps \ {"body"} /\ UNCHANGED <<slot, parts, pc, outcome>>
  BY DEF Send
<1>3. u \in Upload /\ u.key = up[p].key /\ u.part = up[p].part /\ u.answer = "waiting"
  BY <1>1, UploadTypes DEF Upload
<1>4. /\ m \in Requests /\ m.step = pc[p] /\ m.key = up[p].key
  BY <1>1, <1>2, UploadTypes DEF Requests, Request, UploadSound, Steps
<1>5. wire' = wire \union {m} /\ up' = [up EXCEPT ![p] = u]
  BY DEF Send
<1>6. pc' = [pc EXCEPT ![p] = pc[p]] /\ outcome' = [outcome EXCEPT ![p] = outcome[p]]
      /\ outcome[p] \in Outcomes
  BY <1>1, <1>2, UploadTypes DEF TypeOK
<1> HIDE DEF u, m
<1>7. up'[p] = u
  BY <1>1, <1>5 DEF TypeOK
<1>8. Sound(p)'
  BY <1>1, <1>2, <1>3, <1>7 DEF Sound, UploadSound, OutcomeSound, Reserved, Committed
<1>9. RequestSound(m)
  BY <1>1, <1>2, <1>4 DEF RequestSound, UploadSound, Reserved, Steps
<1>10. \A n \in wire' : RequestSound(n)'
  BY <1>2, <1>5, <1>9 DEF Inv, RequestSound
<1>11. wire' \subseteq Requests
  BY <1>1, <1>4, <1>5 DEF TypeOK, Requests
<1>12. Grown /\ CommittedComplete'
  BY <1>1, <1>2 DEF Inv, Grown, CommittedComplete, TypeOK
<1>13. slot' \in [Keys -> {"free", "reserved", "committed"}]
       /\ parts' \in [Keys -> SUBSET (1..Parts)] /\ pc[p] \in Steps \union {"idle"}
  BY <1>1, <1>2 DEF TypeOK
<1> QED
  BY <1>3, <1>5, <1>6, <1>8, <1>10, <1>11, <1>12, <1>13, StepOfOne

-----------------------------------------------------------------------------
(* The service *)

\* Whatever m is answered, its sender stays sound if the answer is true.
LEMMA AnswerKeeps ==
  ASSUME Inv, UNCHANGED version, NEW m \in wire,
         NEW what \in {"ok", "conflict", "declined", "busy", "refused"}, Answer(m, what),
         slot' \in [Keys -> {"free", "reserved", "committed"}],
         parts' \in [Keys -> SUBSET (1..Parts)], Grown, CommittedComplete',
         m.step = "reserve" /\ what = "ok" => slot'[m.key] # "free",
         m.step = "part" /\ what = "ok" => m.part \in parts'[m.key],
         m.step = "commit" /\ Committed(what) => slot'[m.key] = "committed"
  PROVE  Inv'
<1> DEFINE p == m.put
           heard == pc[p] = m.step /\ up[p].answer = "waiting" /\ m = Request(p)
           u == IF heard THEN [up[p] EXCEPT !.answer = what] ELSE up[p]
<1>1. TypeOK /\ m \in Requests /\ p \in Puts
  BY DEF Inv, TypeOK, Requests
<1>2. UploadSound(p) /\ OutcomeSound(p)
  BY <1>1 DEF Inv, Sound
<1>3. /\ u \in Upload /\ u.key = up[p].key /\ u.part = up[p].part
      /\ u.answer = IF heard THEN what ELSE up[p].answer
  BY <1>1, UploadTypes DEF Upload
<1>4. up' = [up EXCEPT ![p] = u] /\ wire' = wire \ {m} /\ UNCHANGED <<pc, outcome>>
  BY <1>1 DEF Answer, TypeOK
<1>5. heard => m.step = pc[p] /\ m.key = up[p].key /\ m.part = up[p].part
  BY DEF Request
<1>6. /\ pc' = [pc EXCEPT ![p] = pc[p]] /\ pc[p] \in Steps \union {"idle"}
      /\ outcome' = [outcome EXCEPT ![p] = outcome[p]] /\ outcome[p] \in Outcomes
  BY <1>1, <1>4, UploadTypes DEF TypeOK
<1> HIDE DEF heard, u
<1>7. up'[p] = u
  BY <1>1, <1>4 DEF TypeOK
<1>8. OutcomeSound(p)'
  BY <1>1, <1>2, <1>4 DEF OutcomeSound, Grown
<1>9. UploadSound(p)'
  <2>1. CASE pc[p] = "idle"
    BY <1>4, <2>1 DEF UploadSound, Reserved
  <2>2. CASE pc[p] # "idle"
    <3>1. up[p].key \in Keys
      BY <1>2, <2>2 DEF UploadSound
    <3>2. parts[up[p].key] \subseteq parts'[up[p].key] /\ parts'[up[p].key] \subseteq 1..Parts
          /\ (slot[up[p].key] # "free" => slot'[up[p].key] # "free")
          /\ (slot[up[p].key] = "committed" => slot'[up[p].key] = "committed")
      BY <3>1 DEF Grown
    <3>3. Reserved(p)' => slot'[up[p].key] # "free"
      BY <1>2, <1>3, <1>4, <1>5, <1>7, <3>2 DEF UploadSound, Reserved
    <3>4. pc[p] = "part" => /\ 1..(u.part - 1) \subseteq parts'[up[p].key]
                            /\ u.answer = "ok" => u.part \in parts'[up[p].key]
      BY <1>2, <1>3, <1>5, <3>2 DEF UploadSound
    <3>5. pc[p] = "commit" => /\ parts'[up[p].key] = 1..Parts
                              /\ Committed(u.answer) => slot'[up[p].key] = "committed"
      BY <1>2, <1>3, <1>5, <3>2 DEF UploadSound
    <3>6. pc'[p] = pc[p] /\ up'[p].key = up[p].key /\ up'[p].part = up[p].part
          /\ up'[p].answer = u.answer
      BY <1>3, <1>4, <1>7
    <3> QED
      BY <1>2, <1>3, <3>1, <3>3, <3>4, <3>5, <3>6 DEF UploadSound
  <2> QED
    BY <2>1, <2>2
<1>10. \A n \in wire' : RequestSound(n)'
  BY <1>1, <1>4, RequestGrown DEF Inv, TypeOK, Requests
<1>11. wire' \subseteq Requests
  BY <1>1, <1>4 DEF TypeOK, Requests
<1> QED
  BY <1>1, <1>3, <1>4, <1>6, <1>8, <1>9, <1>10, <1>11, StepOfOne DEF Sound

LEMMA ServeKeeps ==
  ASSUME Inv, UNCHANGED version, NEW m \in wire, Serve(m)
  PROVE  Inv'
<1>1. TypeOK /\ m \in Requests /\ m.key \in Keys /\ m.part \in 1..Parts /\ RequestSound(m)
      /\ m.step \in {"reserve", "part", "commit"}
  BY DEF Inv, TypeOK, Requests, Steps
<1>2. Verdict(m) \in {"ok", "conflict", "refused"}
  BY <1>1 DEF Verdict
<1>3. CASE Verdict(m) # "ok"
  <2>1. UNCHANGED <<slot, parts>>
    BY <1>3 DEF Serve
  <2>2. Grown /\ CommittedComplete'
    BY <1>1, <2>1 DEF Inv, Grown, CommittedComplete, TypeOK
  <2>3. slot' \in [Keys -> {"free", "reserved", "committed"}]
        /\ parts' \in [Keys -> SUBSET (1..Parts)]
    BY <1>1, <2>1 DEF TypeOK
  <2>4. m.step = "commit" /\ Verdict(m) = "conflict" => slot'[m.key] = "committed"
    BY <1>1, <2>1 DEF Verdict, RequestSound, TypeOK
  <2>5. \E what \in {Verdict(m), "busy", "refused"} : Answer(m, what)
    BY DEF Serve
  <2>6. PICK what \in {Verdict(m), "busy", "refused"} : Answer(m, what)
    BY <2>5
  <2>7. what \in {"conflict", "busy", "refused"} /\ (what = "conflict" => Verdict(m) = "conflict")
    BY <1>2, <1>3, <2>6
  <2> QED
    BY <2>2, <2>3, <2>4, <2>6, <2>7, AnswerKeeps DEF Committed
<1>4. CASE Verdict(m) = "ok"
  <2>1. /\ slot' = CASE m.step = "reserve" -> [slot EXCEPT ![m.key] = "reserved"]
                     [] m.step = "commit"  -> [slot EXCEPT ![m.key] = "committed"]
                     [] OTHER              -> slot
        /\ parts' = IF m.step = "part" THEN [parts EXCEPT ![m.key] = @ \union {m.part}]
                    ELSE parts
    BY <1>4 DEF Serve
  <2>2. /\ m.step = "reserve" => slot[m.key] = "free"
        /\ m.step \in {"part", "commit"} => slot[m.key] = "reserved"
    BY <1>1, <1>4 DEF Verdict
  <2>3. /\ slot' \in [Keys -> {"free", "reserved", "committed"}]
        /\ parts' \in [Keys -> SUBSET (1..Parts)]
    BY <1>1, <2>1 DEF TypeOK
  <2>4. Grown
    BY <1>1, <2>1, <2>2, <2>3 DEF Grown, TypeOK
  <2>5. CommittedComplete'
    <3>1. ASSUME NEW k \in Keys, slot'[k] = "committed" PROVE parts'[k] = 1..Parts
      <4>1. slot[k] = "committed" \/ (m.step = "commit" /\ k = m.key)
        BY <1>1, <2>1, <3>1 DEF TypeOK
      <4>2. parts[k] = 1..Parts
        BY <1>1, <4>1 DEF Inv, CommittedComplete, RequestSound
      <4> QED
        BY <2>3, <2>4, <4>2 DEF Grown
    <3> QED
      BY <3>1 DEF CommittedComplete
  <2>6. /\ m.step = "reserve" => slot'[m.key] # "free"
        /\ m.step = "part" => m.part \in parts'[m.key]
        /\ m.step = "commit" => slot'[m.key] = "committed"
    BY <1>1, <2>1 DEF TypeOK
  <2>7. \E what \in {"ok", "busy", "refused"} : Answer(m, what)
    BY <1>4 DEF Serve
  <2>8. PICK what \in {"ok", "busy", "refused"} : Answer(m, what)
    BY <2>7
  <2> QED
    BY <2>3, <2>4, <2>5, <2>6, <2>8, AnswerKeeps
<1> QED
  BY <1>3, <1>4

LEMMA RejectKeeps ==
  ASSUME Inv, UNCHANGED version, NEW m \in wire, Reject(m)
  PROVE  Inv'
<1>1. TypeOK
  BY DEF Inv
<1>2. UNCHANGED <<slot, parts>> /\ Grown /\ CommittedComplete'
      /\ slot' \in [Keys -> {"free", "reserved", "committed"}]
      /\ parts' \in [Keys -> SUBSET (1..Parts)]
  BY <1>1 DEF Reject, Inv, Grown, CommittedComplete, TypeOK
<1>3. CASE \E what \in {"declined", "busy", "refused"} : Answer(m, what)
  <2>1. PICK what \in {"declined", "busy", "refused"} : Answer(m, what)
    BY <1>3
  <2> QED
    BY <1>2, <2>1, AnswerKeeps DEF Committed
<1>4. CASE wire' = wire \ {m} /\ UNCHANGED <<pc, up, outcome>>
  <2>1. TypeOK'
    BY <1>1, <1>2, <1>4 DEF TypeOK
  <2>2. \A n \in wire' : RequestSound(n)'
    BY <1>2, <1>4 DEF Inv, RequestSound
  <2>3. \A p \in Puts : Sound(p)'
    BY <1>2, <1>4, SoundKept
  <2> QED
    BY <1>2, <2>1, <2>2, <2>3 DEF Inv
<1> QED
  BY <1>3, <1>4 DEF Reject

-----------------------------------------------------------------------------
(* The theorems *)

LEMMA InvStarts == Init => Inv
<1> SUFFICES ASSUME Init PROVE Inv
  OBVIOUS
<1>1. NoUpload \in Upload /\ NoOutcome \in Outcomes /\ NoOutcome.how = "none"
  BY GhaAssumption DEF NoUpload, Upload, NoOutcome, Outcomes
<1>2. TypeOK
  BY <1>1 DEF Init, TypeOK, Outcomes
<1>3. \A p \in Puts : Sound(p)
  BY <1>1 DEF Init, Sound, UploadSound, OutcomeSound, Reserved
<1> QED
  BY <1>2, <1>3 DEF Init, Inv, CommittedComplete

LEMMA InvStep == Inv /\ [Next]_vars => Inv'
<1> SUFFICES ASSUME Inv, [Next]_vars PROVE Inv'
  OBVIOUS
<1>1. CASE UNCHANGED vars
  BY <1>1 DEF vars, Inv, TypeOK, CommittedComplete, RequestSound, Sound, UploadSound,
              OutcomeSound, Reserved
<1>2. CASE Next
  <2>1. ASSUME NEW p \in Puts, ReadBody(p) PROVE Inv'
    BY <1>2, <2>1, GotoKeeps, ReturnKeeps DEF ReadBody, Next
  <2>2. ASSUME NEW p \in Puts, TimeOut(p) PROVE Inv'
    BY <1>2, <2>2, RetryKeeps DEF TimeOut, Next
  <2>3. ASSUME NEW p \in Puts, Cancel(p) PROVE Inv'
    BY <1>2, <2>3, ReturnKeeps DEF Cancel, Next
  <2> QED
    BY <1>2, <2>1, <2>2, <2>3, PutKeeps, SendKeeps, ReceiveKeeps, ServeKeeps, RejectKeeps
       DEF Next, Step, Work, Service
<1> QED
  BY <1>1, <1>2

LEMMA InvHolds == Spec => []Inv
  BY InvStarts, InvStep, PTL DEF Spec

\* The types of the service's entries, the wire and the uploads hold for every
\* number of uploads, parts and attempts.
THEOREM UploadsTyped == Spec => []TypeOK
<1>1. Inv => TypeOK
  BY DEF Inv
<1> QED
  BY <1>1, InvHolds, PTL

\* An entry that can be read has all its parts, over both versions of the API,
\* whatever is retried, late, repeated or lost.
THEOREM EntriesComplete == Spec => []CommittedComplete
<1>1. Inv => CommittedComplete
  BY DEF Inv
<1> QED
  BY <1>1, InvHolds, PTL

\* A put that says it committed left an entry, at whatever attempt it did, unless
\* v2 was told in a 2xx that it did not: whatever else the service answers.
THEOREM OkIsCommitted == Spec => []OkMeansCommitted
<1>1. Inv => OkMeansCommitted
  BY DEF Inv, Sound, OutcomeSound, OkMeansCommitted
<1> QED
  BY <1>1, InvHolds, PTL

-----------------------------------------------------------------------------
(* What a conflict means.  A reservation outlives its put if anything goes   *)
(* wrong after it; if nothing does, one put is past the reservation of each  *)
(* reserved entry, and whoever is told of a conflict can rely on it.         *)

\* Nothing goes wrong, or only with bodies that v1 reads before it reserves.
Undisturbed == Faults = {} \/ (Faults = {"body"} /\ version = "v1")

\* A request is on the wire while its put waits for it.
Prompt == \A m \in wire : m = Request(m.put) /\ up[m.put].answer = "waiting"

\* Nothing but a reservation is refused, and that for a reason.
AnswersTrue ==
  \A p \in Puts : /\ up[p].answer \notin {"declined", "busy", "refused"}
                  /\ up[p].answer = "conflict" => pc[p] = "reserve" /\ slot[up[p].key] # "free"

\* A put past its reservation has the entry to itself, until it is committed.
Alone(p) ==
  Reserved(p) => /\ \/ slot[up[p].key] = "reserved"
                    \/ slot[up[p].key] = "committed" /\ pc[p] = "commit" /\ up[p].answer = "ok"
                 /\ \A q \in Puts \ {p} : Reserved(q) => up[q].key # up[p].key

\* A reserved entry has a put that is at it.
Attended == \A k \in Keys : slot[k] = "reserved" => \E p \in Puts : Reserved(p) /\ up[p].key = k

Orderly == Prompt /\ AnswersTrue /\ (\A p \in Puts : Alone(p)) /\ Attended

\* The other puts, and where they stand, as a step of p leaves them.
Apart(p) == \A q \in Puts \ {p} : /\ pc'[q] = pc[q] /\ up'[q] = up[q]
                                  /\ (Reserved(q)' <=> Reserved(q))

LEMMA StandApart ==
  ASSUME TypeOK, UNCHANGED version, NEW p \in Puts, NEW s, NEW u,
         pc' = [pc EXCEPT ![p] = s], up' = [up EXCEPT ![p] = u]
  PROVE  Apart(p) /\ pc'[p] = s /\ up'[p] = u
  BY DEF Apart, Reserved, TypeOK

\* A step of p that reserves nothing, and gives up only what is committed.
LEMMA OrderKept ==
  ASSUME TypeOK, Orderly, UNCHANGED slot, NEW p \in Puts, Apart(p),
         Reserved(p)' => /\ Reserved(p) /\ up'[p].key = up[p].key
                         /\ slot[up[p].key] = "reserved",
         Reserved(p) => Reserved(p)' \/ slot[up[p].key] = "committed"
  PROVE  (\A q \in Puts : Alone(q))' /\ Attended'
<1>1. ASSUME NEW q \in Puts
      PROVE  Alone(q)'
  <2>1. CASE q = p
    BY <2>1 DEF Alone, Apart, Orderly
  <2>2. CASE q # p
    <3>1. \A r \in Puts \ {q} : Reserved(r)' => Reserved(r) /\ up'[r].key = up[r].key
      BY DEF Apart
    <3> QED
      BY <2>2, <3>1 DEF Alone, Apart, Orderly
  <2> QED
    BY <2>1, <2>2
<1>2. ASSUME NEW k \in Keys, slot'[k] = "reserved"
      PROVE  \E q \in Puts : Reserved(q)' /\ up'[q].key = k
  <2>1. PICK q \in Puts : Reserved(q) /\ up[q].key = k
    BY <1>2 DEF Orderly, Attended
  <2>2. CASE q = p
    BY <1>2, <2>1, <2>2
  <2>3. CASE q # p
    BY <2>1, <2>3 DEF Apart
  <2> QED
    BY <2>2, <2>3
<1> QED
  BY <1>1, <1>2 DEF Attended

\* Answers stay true as long as entries stay reserved.
LEMMA AnswersKept ==
  ASSUME Inv, AnswersTrue, NEW p \in Puts, Apart(p),
         \A k \in Keys : slot[k] # "free" => slot'[k] # "free",
         up'[p].answer \in {"unsent", "waiting", "ok"}
  PROVE  AnswersTrue'
<1> SUFFICES ASSUME NEW q \in Puts
             PROVE  /\ up'[q].answer \notin {"declined", "busy", "refused"}
                    /\ up'[q].answer = "conflict" => pc'[q] = "reserve" /\ slot'[up'[q].key] # "free"
  BY DEF AnswersTrue
<1>1. CASE q = p
  BY <1>1
<1>2. CASE q # p
  <2>1. pc'[q] = pc[q] /\ up'[q] = up[q]
    BY <1>2 DEF Apart
  <2>2. up[q].answer = "conflict" => up[q].key \in Keys
    BY DEF Inv, Sound, UploadSound, AnswersTrue
  <2> QED
    BY <2>1, <2>2 DEF AnswersTrue
<1> QED
  BY <1>1, <1>2

\* A put that waits for nothing has nothing on the wire, and goes on.
LEMMA ClientOrder ==
  ASSUME Inv, Orderly, UNCHANGED <<version, slot, wire>>, NEW p \in Puts,
         up[p].answer # "waiting" \/ \A m \in wire : m.put # p,
         Apart(p), up'[p].answer = "unsent",
         Reserved(p)' => Reserved(p) /\ up'[p].key = up[p].key /\ slot[up[p].key] = "reserved",
         Reserved(p) => Reserved(p)' \/ slot[up[p].key] = "committed"
  PROVE  Orderly'
<1>1. TypeOK
  BY DEF Inv
<1>2. \A m \in wire : m.put # p /\ m.put \in Puts
  BY <1>1 DEF Orderly, Prompt, TypeOK
<1>3. Prompt'
  BY <1>2 DEF Prompt, Orderly, Request, Apart
<1>4. AnswersTrue'
  BY AnswersKept DEF Orderly
<1> QED
  BY <1>1, <1>3, <1>4, OrderKept DEF Orderly

LEMMA PutOrder ==
  ASSUME Inv, Orderly, UNCHANGED version, NEW p \in Puts, NEW k \in Keys, Put(p, k)
  PROVE  Orderly'
<1>1. Apart(p) /\ pc'[p] = FirstStep /\ up'[p] = [NoUpload EXCEPT !.key = k]
  BY StandApart DEF Put, Inv
<1>2. up'[p].answer = "unsent"
  BY <1>1 DEF NoUpload
<1>3. ~Reserved(p) /\ ~Reserved(p)'
  BY <1>1, <1>2 DEF Put, Reserved, FirstStep, BodyFirst
<1>4. UNCHANGED <<slot, wire>> /\ \A m \in wire : m.put # p
  BY DEF Put
<1> QED
  BY <1>1, <1>2, <1>3, <1>4, ClientOrder

LEMMA BodyOrder ==
  ASSUME Inv, Orderly, Undisturbed, UNCHANGED version, NEW p \in Puts, ReadBody(p)
  PROVE  Orderly'
<1>1. /\ TypeOK /\ version \in {"v1", "v2"} /\ pc[p] = "body"
      /\ UNCHANGED <<slot, wire>> /\ up[p].key \in Keys
  BY GhaAssumption DEF Inv, TypeOK, ReadBody, Sound, UploadSound
<1>2. \A m \in wire : m.put # p
  BY <1>1 DEF Orderly, Prompt, Request, TypeOK
<1>3. Reserved(p) <=> version = "v2"
  BY <1>1 DEF Reserved
<1>4. Reserved(p) => slot[up[p].key] = "reserved"
  BY <1>1 DEF Orderly, Alone
<1>5. CASE Goto(p, StepAfter("body"))
  <2>1. /\ Apart(p) /\ pc'[p] = StepAfter("body")
        /\ up'[p] = [up[p] EXCEPT !.attempt = 1, !.answer = "unsent"]
    <3>1. up' = [up EXCEPT ![p] = [up[p] EXCEPT !.attempt = 1, !.answer = "unsent"]]
      BY <1>1, <1>5 DEF Goto, TypeOK, Upload
    <3> QED
      BY <1>1, <1>5, <3>1, StandApart DEF Goto
  <2>2. up'[p].answer = "unsent" /\ up'[p].key = up[p].key
    BY <1>1, <2>1 DEF TypeOK, Upload
  <2>3. Reserved(p)' <=> version = "v2"
    BY <1>1, <2>1, <2>2 DEF Reserved, StepAfter, BodyFirst
  <2> QED
    BY <1>1, <1>2, <1>3, <1>4, <2>1, <2>2, <2>3, ClientOrder
<1>6. CASE "body" \in Faults /\ Return(p, "error")
  <2>1. Apart(p) /\ pc'[p] = "idle" /\ up'[p] = NoUpload
    BY <1>1, <1>6, StandApart DEF Return
  <2>2. ~Reserved(p)' /\ up'[p].answer = "unsent"
    BY <2>1 DEF Reserved, NoUpload
  <2>3. ~Reserved(p)
    BY <1>3, <1>6 DEF Undisturbed
  <2> QED
    BY <1>1, <1>2, <2>1, <2>2, <2>3, ClientOrder
<1> QED
  BY <1>5, <1>6 DEF ReadBody

LEMMA SendOrder ==
  ASSUME Inv, Orderly, UNCHANGED version, NEW p \in Puts, Send(p)
  PROVE  Orderly'
<1>1. TypeOK /\ UNCHANGED <<slot, pc>> /\ up[p].answer = "unsent" /\ up[p].key \in Keys
  BY DEF Inv, TypeOK, Send, Sound, UploadSound, Steps
<1>2. /\ Apart(p) /\ pc'[p] = pc[p] /\ up'[p] = [up[p] EXCEPT !.answer = "waiting"]
  <2>1. /\ up' = [up EXCEPT ![p] = [up[p] EXCEPT !.answer = "waiting"]]
        /\ pc' = [pc EXCEPT ![p] = pc[p]]
    BY <1>1 DEF Send, TypeOK, Upload
  <2> QED
    BY <1>1, <2>1, StandApart
<1>3. up'[p].answer = "waiting" /\ up'[p].key = up[p].key /\ Request(p)' = Request(p)
  BY <1>1, <1>2 DEF TypeOK, Upload, Request
<1>4. /\ Reserved(p)' <=> Reserved(p)
      /\ Reserved(p) => slot[up[p].key] = "reserved"
  BY <1>1, <1>2, <1>3 DEF Reserved, Orderly, Alone
<1>5. Prompt'
  <2>1. ASSUME NEW m \in wire
        PROVE  m = Request(m.put)' /\ up'[m.put].answer = "waiting"
    <3>1. m.put \in Puts /\ m.put # p /\ m = Request(m.put) /\ up[m.put].answer = "waiting"
      BY <1>1 DEF Orderly, Prompt, TypeOK
    <3> QED
      BY <1>2, <3>1 DEF Apart, Request
  <2>2. Request(p).put = p
    BY DEF Request
  <2> QED
    BY <1>3, <2>1, <2>2 DEF Prompt, Send
<1>6. AnswersTrue'
  BY <1>1, <1>2, <1>3, AnswersKept DEF Orderly
<1> QED
  BY <1>1, <1>2, <1>3, <1>4, <1>5, <1>6, OrderKept DEF Orderly

LEMMA ReceiveOrder ==
  ASSUME Inv, Orderly, UNCHANGED version, NEW p \in Puts, Receive(p)
  PROVE  Orderly'
<1>1. /\ TypeOK /\ version \in {"v1", "v2"} /\ UNCHANGED <<slot, wire>>
      /\ pc[p] \in Steps /\ up[p].key \in Keys /\ up[p] \in Upload
  BY GhaAssumption DEF Inv, TypeOK, Receive, Sound, UploadSound, Steps
<1>2. /\ up[p].answer \notin {"declined", "busy", "refused"}
      /\ up[p].answer = "conflict" => pc[p] = "reserve"
  BY DEF Orderly, AnswersTrue
<1>3. CASE /\ up[p].answer = "ok" /\ pc[p] = "part"
           /\ up' = [up EXCEPT ![p].part = @ + 1, ![p].attempt = 1, ![p].answer = "unsent"]
           /\ UNCHANGED pc
  <2>1. /\ up' = [up EXCEPT ![p] = [up[p] EXCEPT !.part = @ + 1, !.attempt = 1, !.answer = "unsent"]]
        /\ pc' = [pc EXCEPT ![p] = pc[p]]
    BY <1>1, <1>3 DEF TypeOK, Upload
  <2>2. /\ Apart(p) /\ pc'[p] = pc[p]
        /\ up'[p] = [up[p] EXCEPT !.part = @ + 1, !.attempt = 1, !.answer = "unsent"]
    BY <1>1, <2>1, StandApart, Zenon
  <2>3. up'[p].answer = "unsent" /\ up'[p].key = up[p].key
    BY <1>1, <2>2 DEF Upload
  <2>4. Reserved(p) /\ Reserved(p)' /\ slot[up[p].key] = "reserved"
    BY <1>3, <2>2 DEF Reserved, Orderly, Alone
  <2> QED
    BY <1>1, <1>3, <2>2, <2>3, <2>4, ClientOrder
<1>4. CASE /\ up[p].answer = "ok" /\ pc[p] \in {"reserve", "part"}
           /\ Goto(p, StepAfter(pc[p]))
  <2>1. up' = [up EXCEPT ![p] = [up[p] EXCEPT !.attempt = 1, !.answer = "unsent"]]
    BY <1>1, <1>4 DEF Goto, TypeOK, Upload
  <2>2. /\ Apart(p) /\ pc'[p] = StepAfter(pc[p])
        /\ up'[p] = [up[p] EXCEPT !.attempt = 1, !.answer = "unsent"]
    <3>1. pc' = [pc EXCEPT ![p] = StepAfter(pc[p])]
      BY <1>4 DEF Goto
    <3> QED
      BY <1>1, <2>1, <3>1, StandApart, Zenon
  <2>3. up'[p].answer = "unsent" /\ up'[p].key = up[p].key
    BY <1>1, <2>2 DEF Upload
  <2>4. Reserved(p) /\ Reserved(p)' /\ slot[up[p].key] = "reserved"
    BY <1>1, <1>4, <2>2 DEF Reserved, Orderly, Alone, StepAfter, BodyFirst
  <2> QED
    BY <1>1, <1>4, <2>2, <2>3, <2>4, ClientOrder
<1>5. ASSUME NEW how, Return(p, how),
             ~Reserved(p) \/ slot[up[p].key] = "committed", up[p].answer # "waiting"
      PROVE  Orderly'
  <2>1. Apart(p) /\ pc'[p] = "idle" /\ up'[p] = NoUpload
    BY <1>1, <1>5, StandApart DEF Return
  <2>2. ~Reserved(p)' /\ up'[p].answer = "unsent"
    BY <2>1 DEF Reserved, NoUpload
  <2> QED
    BY <1>1, <1>5, <2>1, <2>2, ClientOrder
<1>6. CASE Committed(up[p].answer) /\ pc[p] = "commit" /\ Return(p, "ok")
  <2>1. slot[up[p].key] = "committed" /\ up[p].answer # "waiting"
    BY <1>6 DEF Inv, Sound, UploadSound, Committed
  <2> QED
    BY <1>5, <1>6, <2>1
<1>7. CASE up[p].answer = "conflict" /\ pc[p] = "reserve" /\ Return(p, "cached")
  <2>1. ~Reserved(p)
    BY <1>7 DEF Reserved
  <2> QED
    BY <1>5, <1>7, <2>1
<1> QED
  BY <1>2, <1>3, <1>4, <1>6, <1>7 DEF Receive

LEMMA ServeOrder ==
  ASSUME Inv, Orderly, Undisturbed, UNCHANGED version, NEW m \in wire, Serve(m)
  PROVE  Orderly'
<1> DEFINE p == m.put
           k == m.key
<1>1. /\ TypeOK /\ m \in Requests /\ p \in Puts /\ k \in Keys /\ wire \subseteq Requests
  BY DEF Inv, TypeOK, Requests
<1>2. m = Request(p) /\ up[p].answer = "waiting" /\ up[p] \in Upload
  BY <1>1 DEF Orderly, Prompt, TypeOK
<1>3. pc[p] = m.step /\ up[p].key = k /\ m.step \in {"reserve", "part", "commit"}
  BY <1>1, <1>2 DEF Request, Requests, Steps
<1>4. Answer(m, Verdict(m))
  BY DEF Serve, Undisturbed
<1>5. wire' = wire \ {m} /\ UNCHANGED pc
      /\ up' = [up EXCEPT ![p] = [up[p] EXCEPT !.answer = Verdict(m)]]
  BY <1>1, <1>2, <1>3, <1>4 DEF Answer, TypeOK, Upload
<1>6. /\ Apart(p) /\ pc'[p] = m.step /\ up'[p] = [up[p] EXCEPT !.answer = Verdict(m)]
  <2>1. pc' = [pc EXCEPT ![p] = pc[p]]
    BY <1>1, <1>5 DEF TypeOK
  <2>2. Apart(p) /\ pc'[p] = pc[p] /\ up'[p] = [up[p] EXCEPT !.answer = Verdict(m)]
    <3> HIDE DEF p
    <3>1. up' = [up EXCEPT ![p] = [up[p] EXCEPT !.answer = Verdict(m)]] /\ p \in Puts /\ TypeOK
      BY <1>1, <1>5
    <3> QED
      BY <2>1, <3>1, StandApart, Zenon
  <2> QED
    BY <1>3, <2>2
<1>7. up'[p].answer = Verdict(m) /\ up'[p].key = k
  BY <1>2, <1>3, <1>6 DEF Upload
<1>8. Prompt'
  <2>1. ASSUME NEW n \in wire, n # m
        PROVE  n = Request(n.put)' /\ up'[n.put].answer = "waiting"
    <3>1. n = Request(n.put) /\ up[n.put].answer = "waiting" /\ n.put \in Puts /\ n.put # p
      BY <1>1, <1>2, <2>1 DEF Orderly, Prompt, Requests
    <3> QED
      BY <1>6, <3>1 DEF Apart, Request
  <2> QED
    BY <1>5, <2>1 DEF Prompt
<1>9. Reserved(p) <=> m.step # "reserve"
  BY <1>2, <1>3 DEF Reserved, Steps
<1>10. /\ m.step # "reserve" => slot[k] = "reserved"
       /\ \A q \in Puts \ {p} : Reserved(q) /\ up[q].key = k => m.step = "reserve" /\ slot[k] # "free"
  BY <1>1, <1>2, <1>3, <1>9 DEF Orderly, Alone
<1>11. CASE m.step = "reserve" /\ slot[k] # "free"
  <2>1. Verdict(m) = "conflict" /\ UNCHANGED slot
    BY <1>11 DEF Verdict, Serve
  <2>2. ~Reserved(p)'
    BY <1>6, <1>7, <1>11, <2>1 DEF Reserved
  <2>3. AnswersTrue'
    BY <1>1, <1>6, <1>7, <1>11, <2>1, ZenonT(60) DEF AnswersTrue, Orderly, Apart
  <2> QED
    BY <1>1, <1>6, <1>8, <1>9, <1>11, <2>1, <2>2, <2>3, OrderKept DEF Orderly
<1>12. CASE m.step = "part"
  <2>1. Verdict(m) = "ok" /\ slot' = slot
    BY <1>10, <1>12 DEF Verdict, Serve
  <2>2. Reserved(p)'
    BY <1>6, <1>12 DEF Reserved
  <2>3. AnswersTrue'
    BY <1>1, <1>6, <1>7, <2>1, AnswersKept DEF Orderly
  <2> QED
    BY <1>1, <1>3, <1>6, <1>7, <1>8, <1>9, <1>10, <1>12, <2>1, <2>2, <2>3, OrderKept DEF Orderly
<1>13. ASSUME NEW entry \in {"reserved", "committed"}, slot' = [slot EXCEPT ![k] = entry],
              Verdict(m) = "ok", Reserved(p)',
              entry = "committed" => m.step = "commit",
              \A q \in Puts \ {p} : Reserved(q) => up[q].key # k
       PROVE  Orderly'
  <2>1. slot'[k] = entry /\ \A j \in Keys \ {k} : slot'[j] = slot[j]
    BY <1>1, <1>13 DEF TypeOK
  <2>2. AnswersTrue'
    BY <1>1, <1>6, <1>7, <1>13, <2>1, AnswersKept DEF Orderly
  <2>3. ASSUME NEW q \in Puts
        PROVE  Alone(q)'
    <3>1. CASE q = p
      BY <1>6, <1>7, <1>13, <2>1, <3>1 DEF Alone, Apart
    <3>2. CASE q # p
      <4>1. Reserved(q) => up[q].key \in Keys \ {k}
        BY <1>13, <3>2 DEF Inv, Sound, UploadSound, Reserved
      <4>2. pc'[q] = pc[q] /\ up'[q] = up[q] /\ (Reserved(q)' <=> Reserved(q)) /\ Alone(q)
        BY <1>6, <3>2 DEF Apart, Orderly
      <4>3. ASSUME Reserved(q), NEW r \in Puts \ {q}, Reserved(r)'
            PROVE  up'[r].key # up'[q].key
        <5>1. CASE r = p
          BY <1>7, <4>1, <4>2, <4>3, <5>1
        <5>2. CASE r # p
          BY <1>6, <4>2, <4>3, <5>2 DEF Apart, Alone
        <5> QED
          BY <5>1, <5>2
      <4>4. Reserved(q) => slot'[up[q].key] = slot[up[q].key]
        BY <2>1, <4>1
      <4> QED
        BY <4>2, <4>3, <4>4 DEF Alone
    <3> QED
      BY <3>1, <3>2
  <2>4. Attended'
    <3>1. ASSUME NEW j \in Keys \ {k}, slot[j] = "reserved"
          PROVE  \E q \in Puts : Reserved(q)' /\ up'[q].key = j
      <4>1. PICK q \in Puts : Reserved(q) /\ up[q].key = j
        BY <3>1 DEF Orderly, Attended
      <4>2. q # p
        BY <1>3, <3>1, <4>1
      <4> QED
        BY <1>6, <4>1, <4>2 DEF Apart
    <3> QED
      BY <1>1, <1>7, <1>13, <2>1, <3>1 DEF Attended
  <2> QED
    BY <1>8, <2>2, <2>3, <2>4 DEF Orderly
<1>14. CASE m.step = "reserve" /\ slot[k] = "free"
  <2>1. Verdict(m) = "ok" /\ slot' = [slot EXCEPT ![k] = "reserved"]
    BY <1>14 DEF Verdict, Serve
  <2>2. Reserved(p)'
    BY <1>6, <1>7, <1>14, <2>1 DEF Reserved
  <2> QED
    BY <1>10, <1>13, <1>14, <2>1, <2>2
<1>15. CASE m.step = "commit"
  <2>1. Verdict(m) = "ok" /\ slot' = [slot EXCEPT ![k] = "committed"]
    BY <1>10, <1>15 DEF Verdict, Serve
  <2>2. Reserved(p)'
    BY <1>6, <1>15 DEF Reserved
  <2> QED
    BY <1>10, <1>13, <1>15, <2>1, <2>2
<1> QED
  BY <1>3, <1>11, <1>12, <1>14, <1>15

LEMMA OrderlyStep ==
  ASSUME Inv, Orderly, Undisturbed, [Next]_vars
  PROVE  Orderly'
<1>1. CASE UNCHANGED vars
  BY <1>1 DEF vars, Orderly, Prompt, Request, AnswersTrue, Alone, Attended, Reserved
<1>2. CASE Next
  <2>1. Faults \subseteq {"body"} /\ UNCHANGED version
    BY <1>2 DEF Undisturbed, Next
  <2>2. ASSUME NEW p \in Puts, Work(p) \/ Cancel(p)
        PROVE  Orderly'
    BY <2>1, <2>2, BodyOrder, SendOrder, ReceiveOrder DEF Work, TimeOut, Cancel
  <2>3. ASSUME NEW m \in wire, Serve(m) \/ Reject(m)
        PROVE  Orderly'
    BY <2>1, <2>3, ServeOrder DEF Reject
  <2> QED
    BY <1>2, <2>1, <2>2, <2>3, PutOrder DEF Next, Step, Service
<1> QED
  BY <1>1, <1>2

\* "Already cached - treat as success" is true over a service and a network
\* that let nothing go wrong: a conflict then means that the entry is there, or
\* that another put is at it.  It takes one lost answer, refusal, cancelled put
\* or, in v2, a body that cannot be read, to make it false.
THEOREM ConflictsAreTrue == Spec => [](Undisturbed => CachedMeansCached)
<1>1. Init => (Undisturbed => Orderly)
  BY DEF Init, Orderly, Prompt, AnswersTrue, Alone, Attended, Reserved, NoUpload
<1>2. Inv /\ (Undisturbed => Orderly) /\ [Next]_vars => (Undisturbed => Orderly)'
  <2>1. [Next]_vars => (Undisturbed' => Undisturbed)
    BY DEF Next, vars, Undisturbed
  <2> QED
    BY <2>1, OrderlyStep
<1>3. Inv /\ (Undisturbed => Orderly) => (Undisturbed => CachedMeansCached)
  <2> SUFFICES ASSUME Inv, Orderly, NEW p \in Puts, pc[p] = "reserve", up[p].answer = "conflict",
                      slot[up[p].key] # "committed"
               PROVE  \E q \in Puts \ {p} : pc[q] # "idle" /\ up[q].key = up[p].key
    BY DEF CachedMeansCached
  <2>1. up[p].key \in Keys /\ slot[up[p].key] = "reserved" /\ ~Reserved(p)
    BY DEF Inv, TypeOK, Sound, UploadSound, Orderly, AnswersTrue, Reserved
  <2>2. PICK q \in Puts : Reserved(q) /\ up[q].key = up[p].key
    BY <2>1 DEF Orderly, Attended
  <2> QED
    BY <2>1, <2>2 DEF Reserved
<1> QED
  BY <1>1, <1>2, <1>3, InvHolds, PTL DEF Spec
=============================================================================
