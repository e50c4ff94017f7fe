--------------------------- MODULE MCResourceLocks ---------------------------
(* An instance of ResourceLocks: callers whose sets of resources overlap.  *)
EXTENDS ResourceLocks

CONSTANTS c1, c2, c3, e1, e2, e3

\* The pairs that could make a cycle of three, and one resource alone.
Pairs == {{1, 2}, {2, 3}, {1, 3}, {2}}
=============================================================================
