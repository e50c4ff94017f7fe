---------------------------- MODULE AtomicCommands ----------------------------
(***************************************************************************)
(* What the payment service promises its callers, for any state machine    *)
(* given by Accepts and Apply: a command either has no effect, or takes    *)
(* effect in one atomic step on the durable aggregate, once per key; and   *)
(* an answer, once given, is the recorded result of that one execution.    *)
(***************************************************************************)
EXTENDS Integers

CONSTANTS Key, Command, InitialState, MaxTime,
          Accepts(_, _, _),    \* Accepts(state, command, time)
          Apply(_, _, _, _)    \* Apply(state, key, command, time)

VARIABLES ledger,  \* the durable aggregate; ledger.records answers replays
          acked,   \* the answers callers have received
          now      \* the clock, as last read by a command

vars == <<ledger, acked, now>>

Ack(s, k) == [key |-> k, cmd |-> s.records[k].cmd, result |-> s.records[k].result]

Init == ledger = InitialState /\ acked = {} /\ now = 0

\* The one effect of a command issued under a key that has no record.
Execute(k, c) ==
    /\ k \notin DOMAIN ledger.records
    /\ Accepts(ledger, c, now)
    /\ ledger' = Apply(ledger, k, c, now)
    /\ UNCHANGED <<acked, now>>

\* The first answer to a command, or its replay.
Reply(k) ==
    /\ k \in DOMAIN ledger.records
    /\ acked' = acked \cup {Ack(ledger, k)}
    /\ UNCHANGED <<ledger, now>>

Tick == now' \in now + 1 .. MaxTime /\ UNCHANGED <<ledger, acked>>

Next == \/ \E k \in Key, c \in Command : Execute(k, c)
        \/ \E k \in Key : Reply(k)
        \/ Tick

Spec == Init /\ [][Next]_vars
=============================================================================
