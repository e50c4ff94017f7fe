---------------------------- MODULE MCSerialLedger ----------------------------
(* An instance of SerialLedger: two registered users, one more to register. *)
EXTENDS SerialLedger, TLC

CONSTANTS u1, u2, u3, p1, p2, p3, k1, k2, k3

TwoUsers == u1 :> p1 @@ u2 :> p2

KeySymmetry == Permutations({k1, k2, k3})
=============================================================================
