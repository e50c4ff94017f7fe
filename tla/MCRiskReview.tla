---------------------------- MODULE MCRiskReview ----------------------------
(* An instance of RiskReview: two users paying each other.                 *)
EXTENDS RiskReview

CONSTANTS u1, u2, p1, p2, k1, k2, k3, c1, c2

TwoUsers == u1 :> p1 @@ u2 :> p2
PayKeys == {k1, k2, k3}
RiskKeyOf(k) == <<k, "risk">>
Keys == PayKeys \cup {RiskKeyOf(k) : k \in PayKeys}

Mirror == u1 :> u2 @@ u2 :> u1 @@ p1 :> p2 @@ p2 :> p1    \* the users are alike

ReviewSymmetry == Permutations(PayKeys) \cup Permutations({c1, c2}) \cup {Mirror}
=============================================================================
