----------------------------- MODULE SerialLedger -----------------------------
(***************************************************************************)
(* The payment domain run one command at a time, and the properties of its *)
(* aggregate.  PaymentService implements AtomicCommands with this domain,  *)
(* so what is shown here of every ledger holds of every state file it      *)
(* writes.                                                                 *)
(***************************************************************************)
EXTENDS PaymentLedger

CONSTANT MaxSetBacks    \* bound of a run

ASSUME SetBacksAssumption == MaxSetBacks \in Nat

VARIABLES ledger, acked, now,
          setBacks    \* history: how often the clock was set back

INSTANCE AtomicCommands

-----------------------------------------------------------------------------
\* The clock of the machine is a wall clock: it can be set back.
SetBack ==
    /\ setBacks < MaxSetBacks
    /\ setBacks' = setBacks + 1
    /\ now' \in 0 .. now - 1
    /\ UNCHANGED <<ledger, acked>>

SerialInit == Init /\ setBacks = 0
SerialNext == SetBack \/ (Next /\ UNCHANGED setBacks)
SerialSpec == SerialInit /\ [][SerialNext]_<<vars, setBacks>>

-----------------------------------------------------------------------------
\* The aggregate, the answers and the clock have the shapes declared above.
TypeOK ==
    /\ ApplicationState(ledger)
    /\ acked \subseteq [key : Key, cmd : Command, result : Result]
    /\ now \in 0..MaxTime /\ setBacks \in 0..MaxSetBacks

\* Every aggregate an operation leaves satisfies validate_invariants
\* (state.py:164), which nothing enforces here: so the validation at each
\* commit refuses no accepted command, and every saved file loads.
ValidState == Validates(ledger)

\* Every balance is its opening balance plus what its transactions brought in
\* minus what they took out, and the wallet version counts them: no money is
\* made or lost, and no wallet moves without a transaction to show for it.
Reconciled ==
    \A u \in DOMAIN ledger.wallets :
        LET out == {n \in DOMAIN ledger.txns : ledger.txns[n].sender = u}
            in  == {n \in DOMAIN ledger.txns : ledger.txns[n].receiver = u}
            w   == ledger.wallets[u]
        IN  /\ w.balance + SumSent(ledger, out) = InitialBalance + SumSent(ledger, in)
            /\ w.version = Cardinality(out) + Cardinality(in)

\* In no window of 24 hours, wherever it starts, does a sender move more than
\* the daily limit, although each transfer only looks at the window ending at
\* it (policies.py:74 validate_daily_limit).  Each time the clock is set back
\* allows the limit once more and no more than that: transfers dated later than
\* the clock are not counted.
DailyLimitHolds ==
    \A u \in DOMAIN ledger.wallets, start \in 0..MaxTime :
        SumSent(ledger, SentWithin(ledger, u, start, start + Window))
            <= (1 + setBacks) * MaxDaily

MovesMoney(c) == c.op \in {"transferMoney", "approvePayment"}

\* A key pays at most once and every payment has a key: transactions and the
\* records of money moving commands correspond one to one, and the command of
\* a record is the movement that was made.
OnePaymentPerKey ==
    /\ \A n \in DOMAIN ledger.txns :
          /\ ledger.txns[n].key \in DOMAIN ledger.records
          /\ MovesMoney(ledger.records[ledger.txns[n].key].cmd)
    /\ \A m, n \in DOMAIN ledger.txns :
          ledger.txns[m].key = ledger.txns[n].key => m = n
    /\ \A k \in DOMAIN ledger.records :
          LET rec == ledger.records[k]
              paid(n) == n \in DOMAIN ledger.txns /\ ledger.txns[n].key = k
          IN  /\ rec.cmd.op = "transferMoney" => paid(rec.result)
              /\ rec.cmd.op = "approvePayment" =>
                   /\ rec.cmd.request \in DOMAIN ledger.requests
                   /\ paid(ledger.requests[rec.cmd.request].txn)

\* A request is resolved once: no two keys resolve the same request, neither
\* approve and approve nor approve and reject.
ResolvedOnce ==
    \A j, k \in DOMAIN ledger.records :
        LET a == ledger.records[j].cmd
            b == ledger.records[k].cmd
        IN  /\ a.op \in {"approvePayment", "rejectPayment"}
            /\ b.op \in {"approvePayment", "rejectPayment"}
            /\ a.request = b.request
            => j = k

Reports(op) == IF op = "approvePayment" THEN {"transferMoney", "approvePayment"} ELSE {op}

\* The outbox holds exactly the events of the commands that took effect: none
\* is committed without its mutation, none is missing.
AuditComplete ==
    ledger.pending = UNION {Events(k, Reports(ledger.records[k].cmd.op)) :
                               k \in DOMAIN ledger.records}

\* History is never rewritten: a record stays, a resolved request stays as it
\* is, a transaction keeps its parties, amount, time and key (a risk
\* annotation may change its status), and a user keeps his phone.
KeepsHistory ==
    /\ \A k \in DOMAIN ledger.records :
          k \in DOMAIN ledger'.records /\ ledger'.records[k] = ledger.records[k]
    /\ \A r \in DOMAIN ledger.requests :
          /\ r \in DOMAIN ledger'.requests
          /\ ledger.requests[r].status # "PENDING" =>
               ledger'.requests[r] = ledger.requests[r]
    /\ \A n \in DOMAIN ledger.txns :
          /\ n \in DOMAIN ledger'.txns
          /\ [ledger'.txns[n] EXCEPT !.status = "COMPLETED"]
               = [ledger.txns[n] EXCEPT !.status = "COMPLETED"]
    /\ \A u \in DOMAIN ledger.users :
          u \in DOMAIN ledger'.users /\ ledger'.users[u] = ledger.users[u]

HistoryKept == [][KeepsHistory]_vars
=============================================================================
