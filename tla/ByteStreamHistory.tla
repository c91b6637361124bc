-------------------------- MODULE ByteStreamHistory --------------------------
(***************************************************************************)
(* ByteStreamWrite with history variables, to say what uploads of one key  *)
(* do to each other's entry.  The history only observes.                   *)
(***************************************************************************)
EXTENDS ByteStreamWrite

VARIABLES
  strays,    \* the keys with a corrupt entry that a call was to delete and did not
  contended  \* the keys of which two uploads have shared a tmp file

hvars == <<vars, strays, contended>>

HInit == Init /\ strays = {} /\ contended = {}

\* A call is over that stored a corrupt body, with no Ok; or one is stored late.
Abandoned(k) ==
  \/ \E w \in Writers : /\ call[w].key = k /\ call[w].body # Whole
                        /\ pc[w] \in {"join", "delete"} /\ pc'[w] = "idle"
                        /\ UNCHANGED completed
  \/ <<k, "corrupt">> \in late \ late'

HNext ==
  /\ Next
  /\ strays' = {k \in Keys : stored'[k] = "corrupt" /\ (k \in strays \/ Abandoned(k))}
  /\ contended' = contended \union {k \in Keys : \E w \in Writers : call'[w].key = k /\ file'[w] = "shared"}

\* Fairness is that of ByteStreamWrite: the history changes with its steps.
HSpec == HInit /\ [][HNext]_hvars /\ Fairness

\* A corrupt entry has somebody who will delete it: an upload whose body was
\* wrong is at that, unless one was dropped, or its delete failed or does nothing,
\* however good and bad uploads of the key replace and delete what is there.
CorruptIsCleared ==
  backend # "disk" => \A k \in Keys \ strays : stored[k] = "corrupt" =>
    \E w \in Writers : call[w].key = k /\ call[w].body # Whole /\ pc[w] \in {"join", "delete"}

\* With the disk, which verifies, what QueryWriteStatus calls complete is there,
\* with the right bytes: no later upload of the key, corrupt, broken or dropped,
\* takes it away, unless two have shared a tmp file.  (Eviction and delete() do.)
CompletedIsStored ==
  backend = "disk" => \A k \in completed \ contended : stored[k] = "whole"
=============================================================================
