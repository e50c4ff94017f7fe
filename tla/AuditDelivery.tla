---------------------------- MODULE AuditDelivery ----------------------------
(***************************************************************************)
(* What the audit outbox promises: an event commits together with the      *)
(* mutation it reports, reaches the log afterwards, and is forgotten only  *)
(* once it is there.                                                       *)
(***************************************************************************)
CONSTANT Event

VARIABLES outbox,    \* the events of the aggregate that await delivery
          delivered  \* the events the log can be read to hold

vars == <<outbox, delivered>>

Init == outbox = {} /\ delivered = {}

Commit(e) ==
    /\ e \notin outbox \cup delivered
    /\ outbox' = outbox \cup {e}
    /\ UNCHANGED delivered

Deliver(e) ==
    /\ e \in outbox
    /\ delivered' = delivered \cup {e}
    /\ UNCHANGED outbox

Forget(e) ==
    /\ e \in outbox \cap delivered
    /\ outbox' = outbox \ {e}
    /\ UNCHANGED delivered

Next == \E e \in Event : Commit(e) \/ Deliver(e) \/ Forget(e)

Spec == Init /\ [][Next]_vars
=============================================================================
