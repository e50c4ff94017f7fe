----------------------------- MODULE TurnContract -----------------------------
(***************************************************************************)
(* What a turn promises its caller, whatever understands the request: it   *)
(* does at most one thing, an operation under its idempotency key or a     *)
(* reading, and the answer tells the two ends apart.  An operation that    *)
(* was done, now or under the same key before, is answered by its result,  *)
(* and never by a question or by advice, after which the caller would ask  *)
(* again; a result is given only of what was done.  A reading is answered  *)
(* by its result, never by a question.                                     *)
(***************************************************************************)
CONSTANTS Turn, Key, Operation

VARIABLES done,    \* key -> the operation that was done under it
          at,      \* turn -> "open", "done", "read" or "over"
          told     \* turn -> its answer: "result", "question", "advice" or "nothing"

vars == <<done, at, told>>

Init ==
    /\ done = [k \in {} |-> k]
    /\ at = [t \in Turn |-> "open"]
    /\ told = [t \in Turn |-> "nothing"]

Moves(t, from, to) == at[t] = from /\ at' = [at EXCEPT ![t] = to]

\* The operation takes effect under its key.
Do(t) ==
    /\ Moves(t, "open", "done")
    /\ \E k \in Key \ DOMAIN done, op \in Operation :
          done' = [x \in DOMAIN done \cup {k} |-> IF x = k THEN op ELSE done[x]]
    /\ UNCHANGED told

\* The same operation was done under the same key.
Redo(t) ==
    /\ Moves(t, "open", "done")
    /\ DOMAIN done # {}
    /\ UNCHANGED <<done, told>>

Read(t) == Moves(t, "open", "read") /\ UNCHANGED <<done, told>>

Answers(from) ==
    CASE from = "open" -> {"question", "advice"}
      [] from = "done" -> {"result"}
      [] from = "read" -> {"result", "advice"}

Reply(t) ==
    \E from \in {"open", "done", "read"} :
        /\ Moves(t, from, "over")
        /\ \E a \in Answers(from) : told' = [told EXCEPT ![t] = a]
        /\ UNCHANGED done

\* A cancelled turn tells nothing.
Abandon(t) ==
    /\ at[t] # "over"
    /\ at' = [at EXCEPT ![t] = "over"]
    /\ UNCHANGED <<done, told>>

Next ==
    \E t \in Turn :
        Do(t) \/ Redo(t) \/ Read(t) \/ Reply(t) \/ Abandon(t)

Spec == Init /\ [][Next]_vars
=============================================================================
