------------------------------ MODULE RiskReview ------------------------------
(***************************************************************************)
(* What PaymentFacade does with a payment once it is committed: the fraud  *)
(* score of its snapshot, the risk annotation in a commit of its own, the  *)
(* security review, and later fraud checks of the same transaction.        *)
(* Payments, annotations, retries and checks interleave; every commit is   *)
(* atomic (PaymentService).  A direct transfer stands for an approval too: *)
(* both pass their snapshot to _post_process_snapshot.                     *)
(***************************************************************************)
EXTENDS PaymentLedger, SequencesExt

CONSTANTS
    PayKey,             \* keys of payments
    RiskKey(_),         \* the derived key of the annotation of a payment
    Caller,             \* calls of transfer_money in flight
    SuspiciousPercent,  \* suspicious_balance_ratio, in per cent
    RapidWindow, RapidCount,
    MaxFaults,          \* bound on the annotations that cannot be written
    MaxChecks           \* bound on the fraud checks, which change nothing

ASSUME ReviewAssumption ==
    /\ PayKey \subseteq Key /\ \A k \in PayKey : RiskKey(k) \in Key \ PayKey
    /\ \A j, k \in PayKey : RiskKey(j) = RiskKey(k) => j = k
    /\ SuspiciousPercent \in 1..100 /\ {MaxFaults, MaxChecks} \subseteq Nat
    /\ {RapidWindow, RapidCount} \subseteq Nat \ {0}

VARIABLES
    ledger,    \* the published aggregate
    payload,   \* payment key -> the TransactionSnapshot in its record
    score,     \* transaction -> risk_score
    pc,        \* where each call is
    paid,      \* the key of the payment a call post-processes
    told,      \* the verdicts callers have received
    order,     \* history: the transactions, as they were committed
    now, faults

vars == <<ledger, payload, score, pc, paid, told, order, now, faults>>

Init ==
    /\ ledger = InitialState
    /\ payload = [k \in {} |-> k] /\ score = [n \in {} |-> n]
    /\ pc = [c \in Caller |-> "idle"] /\ paid = [c \in Caller |-> "none"]
    /\ told = {} /\ order = <<>> /\ now = 0 /\ faults = 0

-----------------------------------------------------------------------------
(* The agents: pure functions of a snapshot.                               *)

\* FraudDetectionAgent's points.
AmountPoints(amount) ==
    CASE 100 * amount >= 80 * MaxSingle -> 25
      [] 100 * amount < 80 * MaxSingle /\ 100 * amount >= 50 * MaxSingle -> 10
      [] OTHER -> 0

BalancePoints(x) == IF 100 * x.amount >= SuspiciousPercent * x.fromBefore THEN 35 ELSE 0

RapidPoints(recent) == IF Cardinality(DOMAIN recent) >= RapidCount THEN 25 ELSE 0

FlaggedPoints(recent) == IF \E n \in DOMAIN recent : recent[n] = "FLAGGED" THEN 15 ELSE 0

Score(x) ==
    LET points == AmountPoints(x.amount) + BalancePoints(x)
                    + RapidPoints(x.recent) + FlaggedPoints(x.recent)
    IN  IF points > 100 THEN 100 ELSE points

Level(points) ==
    IF points <= 29 THEN "LOW" ELSE IF points <= 59 THEN "MEDIUM" ELSE "HIGH"

NeedsReview(points) == Level(points) = "HIGH" \/ points \in 50..59

\* SecurityAgent.review_transaction finds no violation.
Approves(x) ==
    /\ x.amount > 0 /\ x.sender # x.receiver
    /\ x.fromAfter = x.fromBefore - x.amount
    /\ x.toAfter = x.toBefore + x.amount
    /\ \A b \in {x.fromBefore, x.fromAfter, x.toBefore, x.toAfter} : b >= 0

-----------------------------------------------------------------------------
(* The snapshot a payment records.                                         *)

RecentLate(s, u, t) ==    \* mutant: the start of the window is left out
    {n \in DOMAIN s.txns : s.txns[n].sender = u /\ s.txns[n].at \in t - RapidWindow + 1 .. t}

\* _recent_sender_transactions, before the new one is added.
Recent(s, u, t) == SentWithin(s, u, t - RapidWindow, t)

SnapshotOf(s, moved, c, t) ==
    [txn |-> Fresh(TxnId, s.txns), sender |-> c.sender, receiver |-> c.receiver,
     amount |-> c.amount,
     fromBefore |-> s.wallets[c.sender].balance,
     fromAfter |-> moved.wallets[c.sender].balance,
     toBefore |-> s.wallets[c.receiver].balance,
     toAfter |-> moved.wallets[c.receiver].balance,
     recent |-> [n \in Recent(s, c.sender, t) |-> s.txns[n].status]]

\* The transfer commits, and the call goes on with its snapshot.
Pay(p, k, c) ==
    /\ pc[p] = "idle" /\ IsNew(ledger, k)
    /\ now' \in now..MaxTime
    /\ CanTransferMoney(ledger, c, now')
    /\ ledger' = TransferMoney(ledger, k, c, now')
    /\ payload' = Put(payload, k, SnapshotOf(ledger, ledger', c, now'))
    /\ score' = Put(score, payload'[k].txn, 0)
    /\ order' = Append(order, payload'[k].txn)
    /\ pc' = [pc EXCEPT ![p] = "assessed"]
    /\ paid' = [paid EXCEPT ![p] = k]
    /\ UNCHANGED <<told, faults>>

\* A retry gets the recorded snapshot, and post-processes it once more.
Retry(p, k, c) ==
    /\ pc[p] = "idle" /\ IsReplay(ledger, k, c)
    /\ pc' = [pc EXCEPT ![p] = "assessed"]
    /\ paid' = [paid EXCEPT ![p] = k]
    /\ UNCHANGED <<ledger, payload, score, told, order, now, faults>>

\* The snapshot the call assessed, and the annotation it asks for.
Snapshot(p) == payload[paid[p]]
Verdict(p) == Score(Snapshot(p))
Annotation(p) == [op |-> "annotateTransactionRisk", txn |-> Snapshot(p).txn,
                  status |-> IF Level(Verdict(p)) = "HIGH" THEN "FLAGGED" ELSE "COMPLETED"]

\* The security review of a suspicious transaction, once it is annotated.
Review(p, status) ==
    CASE status # "completed" \/ ~NeedsReview(Verdict(p)) -> "none"
      [] status = "completed" /\ NeedsReview(Verdict(p)) ->
           IF Approves(Snapshot(p)) THEN "approved" ELSE "rejected"

AnswerKeepsKey(p, status) ==    \* mutant: the call goes on with the payment
    /\ told' = told \cup {[txn |-> Snapshot(p).txn, score |-> Verdict(p), status |-> status,
                           review |-> Review(p, status)]}
    /\ pc' = [pc EXCEPT ![p] = "idle"]
    /\ UNCHANGED paid

\* The call answers with its assessment.
Answer(p, status) ==
    /\ told' = told \cup {[txn |-> Snapshot(p).txn, score |-> Verdict(p), status |-> status,
                           review |-> Review(p, status)]}
    /\ pc' = [pc EXCEPT ![p] = "idle"]
    /\ paid' = [paid EXCEPT ![p] = "none"]

\* annotate_transaction_risk commits, under the derived key.
Annotated(p) ==
    /\ pc[p] = "assessed" /\ IsNew(ledger, RiskKey(paid[p]))
    /\ ledger' = Annotate(ledger, RiskKey(paid[p]), Annotation(p))
    /\ score' = Put(score, Snapshot(p).txn, Verdict(p))
    /\ Answer(p, "completed")
    /\ UNCHANGED <<payload, order, now, faults>>

\* The same annotation was made before: its fingerprint covers the score.
SameAsBefore(p) == /\ IsReplay(ledger, RiskKey(paid[p]), Annotation(p))
                   /\ score[Snapshot(p).txn] = Verdict(p)

AnnotatedBefore(p) ==
    /\ pc[p] = "assessed" /\ SameAsBefore(p)
    /\ Answer(p, "completed")
    /\ UNCHANGED <<ledger, payload, score, order, now, faults>>

\* The annotation conflicts with another one, or is not written: the payment
\* stands, and the answer is degraded.
NotAnnotated(p) ==
    /\ pc[p] = "assessed"
    /\ IF IsNew(ledger, RiskKey(paid[p])) \/ SameAsBefore(p)
       THEN faults < MaxFaults /\ faults' = faults + 1
       ELSE UNCHANGED faults
    /\ Answer(p, "degraded")
    /\ UNCHANGED <<ledger, payload, score, order, now>>

\* The call is cancelled, or the process dies: nobody is told.
Cancel(p) ==
    /\ pc[p] = "assessed"
    /\ pc' = [pc EXCEPT ![p] = "idle"]
    /\ paid' = [paid EXCEPT ![p] = "none"]
    /\ UNCHANGED <<ledger, payload, score, told, order, now, faults>>

FoundAnew(k) ==    \* mutant: recent activity is looked up as it is now
    [payload[k] EXCEPT !.recent =
       [n \in DOMAIN ledger.txns \ {payload[k].txn} |-> ledger.txns[n].status]]

\* _find_snapshot: the recorded balances and recent transactions.
Found(k) == payload[k]

\* fraudCheck, of a transaction that can be found.
FraudCheck(k) ==
    /\ k \in DOMAIN payload
    /\ Cardinality({a \in told : a.status = "check"}) < MaxChecks
    /\ told' = told \cup {[txn |-> payload[k].txn, score |-> Score(Found(k)),
                           status |-> "check", review |-> "none"]}
    /\ UNCHANGED <<ledger, payload, score, pc, paid, order, now, faults>>

Proceed(p) == Annotated(p) \/ AnnotatedBefore(p) \/ NotAnnotated(p)

Next ==
    \/ \E p \in Caller :
          \/ \E k \in PayKey, c \in TransferCmd : Pay(p, k, c) \/ Retry(p, k, c)
          \/ Proceed(p) \/ Cancel(p)
    \/ \E k \in PayKey : FraudCheck(k)

Spec == Init /\ [][Next]_vars

-----------------------------------------------------------------------------
Snapshots == [txn : TxnId, sender : UserId, receiver : UserId, amount : Amount,
              fromBefore : Nat, fromAfter : Nat, toBefore : Nat, toAfter : Nat,
              recent : UNION {[ns -> {"COMPLETED", "FLAGGED"}] : ns \in SUBSET TxnId}]

Verdicts == [txn : TxnId, score : 0..100, status : {"completed", "degraded", "check"},
             review : {"none", "approved", "rejected"}]

\* Every variable has its shape, and every payment a snapshot and a score.
TypeOK ==
    /\ ApplicationState(ledger)
    /\ PartialFcn(payload, PayKey, Snapshots)
    /\ DOMAIN payload = DOMAIN ledger.records \cap PayKey
    /\ score \in [DOMAIN ledger.txns -> 0..100]
    /\ pc \in [Caller -> {"idle", "assessed"}]
    /\ paid \in [Caller -> PayKey \cup {"none"}]
    /\ \A p \in Caller : IF pc[p] = "idle" THEN paid[p] = "none" ELSE paid[p] \in DOMAIN payload
    /\ told \subseteq Verdicts
    /\ Range(order) = DOMAIN ledger.txns
    /\ now \in 0..MaxTime /\ faults \in 0..MaxFaults

\* There is one verdict on a transaction: whoever asks, by a retry or a fraud
\* check, before or after it or any other was annotated, gets the same score;
\* and a completed answer is the score that is stored.
OneVerdict ==
    \A a, b \in told :
        a.txn = b.txn =>
            /\ a.score = b.score
            /\ a.status = "completed" => score[a.txn] = b.score

\* The transactions of the sender of the i-th one that were committed before
\* it, those of them at most RapidWindow older, and the balance it found.
SentBefore(i) == {order[j] : j \in {h \in 1..i-1 :
                    ledger.txns[order[h]].sender = ledger.txns[order[i]].sender}}
RapidBefore(i) ==
    {n \in SentBefore(i) : ledger.txns[order[i]].at - ledger.txns[n].at <= RapidWindow}
BalanceBefore(i) ==
    LET received == {order[j] : j \in {h \in 1..i-1 :
                       ledger.txns[order[h]].receiver = ledger.txns[order[i]].sender}}
    IN  InitialBalance + SumSent(ledger, received) - SumSent(ledger, SentBefore(i))

\* The recent transactions that count against a payment are those its sender
\* made before it, up to and including RapidWindow ago: concurrent payments
\* that commit one after the other cannot hide from each other.  An annotated
\* transaction has the points that the ledger's own history gives it, 15 of
\* them only if a recent one is flagged, and is flagged itself exactly when
\* they reach 60; one that is not annotated has none.
FlagsAreDeserved ==
    \A i \in DOMAIN order :
        LET n == order[i]
            x == ledger.txns[n]
            base == AmountPoints(x.amount)
                      + (IF 100 * x.amount >= SuspiciousPercent * BalanceBefore(i) THEN 35 ELSE 0)
                      + (IF Cardinality(RapidBefore(i)) >= RapidCount THEN 25 ELSE 0)
            flagged == \E m \in RapidBefore(i) : ledger.txns[m].status = "FLAGGED"
        IN  /\ DOMAIN payload[x.key].recent = RapidBefore(i)
            /\ score[n] \in IF IsNew(ledger, RiskKey(x.key)) THEN {0}
                            ELSE IF flagged THEN {base, base + 15} ELSE {base}
            /\ x.status = "FLAGGED" <=> score[n] >= 60
=============================================================================
