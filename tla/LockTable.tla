------------------------------ MODULE LockTable ------------------------------
(***************************************************************************)
(* What acquire_many promises: a caller holds all the keys it asked for or *)
(* none of them, and no key is held twice.                                 *)
(***************************************************************************)
CONSTANTS Caller, Key

VARIABLES want,  \* the keys each caller asked for, none when it is out
          inside \* the callers that hold what they asked for

vars == <<want, inside>>

Init == want = [t \in Caller |-> {}] /\ inside = {}

Ask(t, ks) ==
    /\ t \notin inside /\ want[t] = {} /\ ks # {}
    /\ want' = [want EXCEPT ![t] = ks]
    /\ inside' \in {inside, inside \cup {t}}
    /\ t \in inside' => \A u \in inside : ks \cap want[u] = {}

Enter(t) ==
    /\ t \notin inside /\ want[t] # {}
    /\ \A u \in inside : want[t] \cap want[u] = {}
    /\ inside' = inside \cup {t}
    /\ UNCHANGED want

\* The body is done, or the wait for the keys was cancelled.
Leave(t) ==
    /\ want[t] # {}
    /\ want' = [want EXCEPT ![t] = {}]
    /\ inside' = inside \ {t}

Next == \E t \in Caller : \/ \E ks \in SUBSET Key : Ask(t, ks)
                          \/ Enter(t)
                          \/ Leave(t)

Spec == Init /\ [][Next]_vars
=============================================================================
