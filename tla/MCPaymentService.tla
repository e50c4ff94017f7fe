--------------------------- MODULE MCPaymentService ---------------------------
(* An instance of PaymentService: calls racing over two registered users.  *)
EXTENDS PaymentService, TLC

CONSTANTS u1, u2, p1, p2, k1, k2, k3, t1, t2

TwoUsers == u1 :> p1 @@ u2 :> p2

Symmetry == Permutations({t1, t2}) \cup Permutations({k1, k2, k3})
TwoKeySymmetry == Permutations({t1, t2}) \cup Permutations({k1, k2})
=============================================================================
