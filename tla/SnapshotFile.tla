----------------------------- MODULE SnapshotFile -----------------------------
(***************************************************************************)
(* What saving to one path promises (persistence.hpp:14-30): whoever looks  *)
(* at the path finds what was there before or the whole image of one save;  *)
(* a save that reports WriteFailure has changed nothing; after a crash the  *)
(* path holds one of the files it held since it last became durable.        *)
(***************************************************************************)
CONSTANT Calls        \* the save calls, each with an image of its own

VARIABLES file,        \* the contents at the path
          recoverable, \* the contents a crash may leave there
          result       \* call -> how it stands

vars == <<file, recoverable, result>>

Init == /\ recoverable = {file}
        /\ result = [c \in Calls |-> "pending"]

Publish(c) ==
    /\ result[c] = "pending"
    /\ file' = c
    /\ recoverable' = recoverable \cup {c}
    /\ result' = [result EXCEPT ![c] = "published"]

Succeed(c) ==
    /\ result[c] = "published"
    /\ result' = [result EXCEPT ![c] = "ok"]
    /\ recoverable' \in {recoverable, {file}}
    /\ UNCHANGED file

Fail(c) ==
    /\ result[c] = "pending"
    /\ result' = [result EXCEPT ![c] = "failed"]
    /\ UNCHANGED <<file, recoverable>>

\* Calls end without an answer: their process dies, or the machine does.
Lose(S) == result' = [c \in Calls |-> IF c \in S THEN "lost" ELSE result[c]]

Unanswered == {c \in Calls : result[c] \in {"pending", "published"}}

Kill(S) == Lose(S) /\ UNCHANGED <<file, recoverable>>

Crash(S) == /\ Lose(S)
            /\ file' \in recoverable
            /\ recoverable' = {file'}

Next == \/ \E c \in Calls : Publish(c) \/ Succeed(c) \/ Fail(c)
        \/ \E S \in SUBSET Unanswered : Kill(S) \/ Crash(S)

Spec == Init /\ [][Next]_vars
=============================================================================
