-------------------------- MODULE RiskReview_proof --------------------------
(***************************************************************************)
(* For every number of users, payments and calls, every amount and every   *)
(* limit: one transaction has one verdict, and it is the one that the      *)
(* ledger's history deserves.                                              *)
(***************************************************************************)
EXTENDS RiskReview, PaymentLedger_proof, SequenceTheorems

-----------------------------------------------------------------------------
(* The invariant, in terms of a ledger s, an order o, payloads pl, scores  *)
(* sc and verdicts tl, so that it can be stated of both sides of a step.   *)

\* Payments and transactions correspond one to one, and only what was paid is
\* annotated.
PaymentsMatch(s, pl) ==
    /\ \A k \in DOMAIN pl : pl[k].txn \in DOMAIN s.txns /\ s.txns[pl[k].txn].key = k
    /\ \A n \in DOMAIN s.txns :
          LET x == s.txns[n]
          IN  /\ x.key \in DOMAIN pl
              /\ pl[x.key].txn = n /\ pl[x.key].amount = x.amount
    /\ \A k \in PayKey : ~ IsNew(s, RiskKey(k)) => k \in DOMAIN pl

\* A payment carries the score of its snapshot once it is annotated, and none
\* before.
AnnotatedAsScored(s, pl, sc) ==
    \A k \in DOMAIN pl :
        LET n == pl[k].txn
        IN  IF IsNew(s, RiskKey(k))
            THEN sc[n] = 0 /\ s.txns[n].status = "COMPLETED"
            ELSE /\ sc[n] = Score(pl[k])
                 /\ s.txns[n].status =
                      IF Level(Score(pl[k])) = "HIGH" THEN "FLAGGED" ELSE "COMPLETED"

\* Who was told anything was told the score of a snapshot.
ToldScores(s, pl, tl) ==
    \A a \in tl : \E k \in DOMAIN pl :
        /\ pl[k].txn = a.txn /\ a.score = Score(pl[k])
        /\ a.status = "completed" => ~ IsNew(s, RiskKey(k))

\* What user u sent and received before the i-th transaction, what was left,
\* and what u sent at most RapidWindow before the instant t.
SentOf(s, o, i, u)     == {o[j] : j \in {h \in 1..i-1 : s.txns[o[h]].sender = u}}
ReceivedOf(s, o, i, u) == {o[j] : j \in {h \in 1..i-1 : s.txns[o[h]].receiver = u}}

BalanceOf(s, o, i, u) ==
    InitialBalance + SumSent(s, ReceivedOf(s, o, i, u)) - SumSent(s, SentOf(s, o, i, u))

RapidOf(s, o, i, u, t) == {n \in SentOf(s, o, i, u) : t - s.txns[n].at <= RapidWindow}

\* Transactions were committed one by one, at the instants they say.
InOrder(s, o, t) ==
    /\ o \in Seq(TxnId) /\ Range(o) = DOMAIN s.txns
    /\ \A i, j \in DOMAIN o : o[i] = o[j] => i = j
    /\ \A i \in DOMAIN o : s.txns[o[i]].at <= t

\* A snapshot is what the ledger's history was when its payment committed, and
\* what it saw flagged stays flagged.
SnapshotsTrue(s, o, pl) ==
    \A i \in DOMAIN o :
        LET x == s.txns[o[i]]
            y == pl[x.key]
        IN  /\ y.fromBefore = BalanceOf(s, o, i, x.sender)
            /\ DOMAIN y.recent = RapidOf(s, o, i, x.sender, x.at)
            /\ \A n \in DOMAIN y.recent :
                  y.recent[n] = "FLAGGED" => s.txns[n].status = "FLAGGED"

\* Every balance is what the whole history leaves.
BalancesTrue(s, o) ==
    /\ DOMAIN s.users = DOMAIN s.wallets
    /\ \A u \in DOMAIN s.wallets : s.wallets[u].balance = BalanceOf(s, o, Len(o) + 1, u)

\* A call that has a snapshot to go on with has the key of one.
CallersOK(place, key, pl) ==
    /\ place \in [Caller -> {"idle", "assessed"}] /\ key \in [Caller -> PayKey \cup {"none"}]
    /\ \A p \in Caller : IF place[p] = "idle" THEN key[p] = "none" ELSE key[p] \in DOMAIN pl

ReviewInv ==
    /\ TypeOK
    /\ PaymentsMatch(ledger, payload)
    /\ AnnotatedAsScored(ledger, payload, score)
    /\ ToldScores(ledger, payload, told)
    /\ InOrder(ledger, order, now)
    /\ SnapshotsTrue(ledger, order, payload)
    /\ BalancesTrue(ledger, order)
-----------------------------------------------------------------------------
(* The score.                                                              *)

\* A score is one of 0..100, and before flagged recent payments count it is at
\* most 85, so that the limit of 100 never cuts anything off.
LEMMA ScoreOf ==
    ASSUME NEW x
    PROVE  /\ Score(x) \in 0..100
           /\ Score(x) = AmountPoints(x.amount) + BalancePoints(x)
                           + RapidPoints(x.recent) + FlaggedPoints(x.recent)
           /\ Level(Score(x)) \in {"LOW", "MEDIUM", "HIGH"}
           /\ Level(Score(x)) = "HIGH" <=> Score(x) >= 60
<1> DEFINE a == AmountPoints(x.amount)
           b == BalancePoints(x)
           r == RapidPoints(x.recent)
           g == FlaggedPoints(x.recent)
<1>1. a \in {0, 10, 25}
  <2>1. CASE 100 * x.amount >= 80 * MaxSingle  BY <2>1, Zenon DEF AmountPoints
  <2> QED  BY DEF AmountPoints
<1>2. b \in {0, 35}  BY DEF BalancePoints
<1>3. r \in {0, 25}  BY DEF RapidPoints
<1>4. g \in {0, 15}  BY DEF FlaggedPoints
<1>5. Score(x) = IF a + b + r + g > 100 THEN 100 ELSE a + b + r + g  BY DEF Score
<1> HIDE DEF a, b, r, g
<1>6. Score(x) = a + b + r + g /\ Score(x) \in 0..100
  BY <1>1, <1>2, <1>3, <1>4, <1>5
<1>7. \A points \in 0..100 : /\ Level(points) \in {"LOW", "MEDIUM", "HIGH"}
                             /\ Level(points) = "HIGH" <=> points >= 60
  BY DEF Level
<1> QED  BY <1>6, <1>7 DEF a, b, r, g

-----------------------------------------------------------------------------
(* The history of a ledger, up to a place in its order.                    *)

\* The transactions of an aggregate, as far as they do not change.
SameMovements(s, f) ==
    \A n \in DOMAIN s.txns :
        /\ n \in DOMAIN f.txns
        /\ f.txns[n].sender = s.txns[n].sender /\ f.txns[n].receiver = s.txns[n].receiver
        /\ f.txns[n].amount = s.txns[n].amount /\ f.txns[n].at = s.txns[n].at
        /\ f.txns[n].key = s.txns[n].key

\* o2 goes on from o.
Continues(o, o2) == Len(o) <= Len(o2) /\ \A j \in 1..Len(o) : o2[j] = o[j]

\* What was sent and received is some of the transactions, and can be summed.
LEMMA HistorySummable ==
    ASSUME NEW s, ApplicationState(s), NEW o, NEW t, InOrder(s, o, t),
           NEW i \in 1..Len(o) + 1, NEW u
    PROVE  /\ SentOf(s, o, i, u) \subseteq DOMAIN s.txns
           /\ ReceivedOf(s, o, i, u) \subseteq DOMAIN s.txns
           /\ Summable(s, SentOf(s, o, i, u)) /\ Summable(s, ReceivedOf(s, o, i, u))
<1> DEFINE n == Len(o)
           R == Range(o)
<1>1. o \in Seq(TxnId) /\ n \in Nat /\ DOMAIN o = 1..n /\ R = DOMAIN s.txns
  BY DEF InOrder
<1>2. R = {o[j] : j \in 1..n}  BY <1>1 DEF Range
<1>3. IsFiniteSet(R)
  <2>1. o \in [1..n -> R]  BY <1>1, <1>2
  <2>2. o \in Surjection(1..n, R)  BY <1>2, <2>1 DEF Surjection
  <2>3. IsFiniteSet(1..n)  BY <1>1, FS_Interval
  <2> HIDE DEF R, n
  <2> QED  BY <2>2, <2>3, FS_Surjection
<1>4. 1..i-1 \subseteq 1..n  BY <1>1
<1>5. SentOf(s, o, i, u) \subseteq R /\ ReceivedOf(s, o, i, u) \subseteq R
  BY <1>2, <1>4 DEF SentOf, ReceivedOf
<1>6. \A m \in DOMAIN s.txns : s.txns[m].amount \in Nat
  BY DEF ApplicationState, PartialFcn, Transaction
<1> HIDE DEF R
<1> QED  BY <1>1, <1>3, <1>5, <1>6, FS_Subset DEF Summable

\* What happened before a place stays what it was while the history goes on.
LEMMA HistorySame ==
    ASSUME NEW s, ApplicationState(s), NEW o, NEW t, InOrder(s, o, t),
           NEW f, SameMovements(s, f), NEW o2, Continues(o, o2),
           NEW i \in 1..Len(o) + 1, NEW u
    PROVE  /\ SentOf(f, o2, i, u) = SentOf(s, o, i, u)
           /\ BalanceOf(f, o2, i, u) = BalanceOf(s, o, i, u)
           /\ \A at : RapidOf(f, o2, i, u, at) = RapidOf(s, o, i, u, at)
<1> DEFINE A == SentOf(s, o, i, u)
           B == ReceivedOf(s, o, i, u)
<1>1. o \in Seq(TxnId) /\ Len(o) \in Nat /\ DOMAIN o = 1..Len(o)  BY DEF InOrder
<1>2. \A j \in 1..i-1 : j \in DOMAIN o /\ o2[j] = o[j] /\ o[j] \in DOMAIN s.txns
  <2>1. \A j \in 1..i-1 : j \in 1..Len(o)  BY <1>1
  <2> QED  BY <1>1, <2>1 DEF Continues, InOrder, Range
<1>3. /\ {h \in 1..i-1 : f.txns[o2[h]].sender = u} = {h \in 1..i-1 : s.txns[o[h]].sender = u}
      /\ {h \in 1..i-1 : f.txns[o2[h]].receiver = u} = {h \in 1..i-1 : s.txns[o[h]].receiver = u}
  BY <1>2 DEF SameMovements
<1>4. SentOf(f, o2, i, u) = A  BY <1>2, <1>3 DEF SentOf
<1>5. ReceivedOf(f, o2, i, u) = B  BY <1>2, <1>3 DEF ReceivedOf
<1>6. Summable(s, A) /\ Summable(s, B) /\ A \subseteq DOMAIN s.txns /\ B \subseteq DOMAIN s.txns
  BY HistorySummable
<1> HIDE DEF A, B
<1>7. /\ \A m \in A : f.txns[m].amount = s.txns[m].amount /\ f.txns[m].at = s.txns[m].at
      /\ \A m \in B : f.txns[m].amount = s.txns[m].amount
  BY <1>6 DEF SameMovements
<1>8. SumSent(f, A) = SumSent(s, A) /\ SumSent(f, B) = SumSent(s, B)
  <2>1. SumSent(f, A) = SumSent(s, A)  BY <1>6, <1>7, SumSame
  <2>2. SumSent(f, B) = SumSent(s, B)  BY <1>6, <1>7, SumSame
  <2> QED  BY <2>1, <2>2
<1>9. BalanceOf(f, o2, i, u) = BalanceOf(s, o, i, u)
  BY <1>4, <1>5, <1>8 DEF BalanceOf, A, B
<1>10. \A at : RapidOf(f, o2, i, u, at) = RapidOf(s, o, i, u, at)
  BY <1>4, <1>7 DEF RapidOf, A
<1> QED  BY <1>4, <1>9, <1>10 DEF A

\* The i-th transaction is what the balance of u changes by at that place.
BalanceMoves(s, o, i, u) ==
    BalanceOf(s, o, i + 1, u) =
      BalanceOf(s, o, i, u)
        + (IF s.txns[o[i]].receiver = u THEN s.txns[o[i]].amount ELSE 0)
        - (IF s.txns[o[i]].sender = u THEN s.txns[o[i]].amount ELSE 0)

\* One place further, the transaction at that place has been sent and received.
LEMMA HistoryNext ==
    ASSUME NEW s, ApplicationState(s), NEW o, NEW t, InOrder(s, o, t),
           NEW i \in 1..Len(o), NEW u,
           s.txns[o[i]].sender # s.txns[o[i]].receiver
    PROVE  BalanceMoves(s, o, i, u)
<1> DEFINE n == o[i]
           x == s.txns[n]
           A == SentOf(s, o, i, u)
           B == ReceivedOf(s, o, i, u)
           A2 == SentOf(s, o, i + 1, u)
           B2 == ReceivedOf(s, o, i + 1, u)
<1>1. o \in Seq(TxnId) /\ Len(o) \in Nat /\ DOMAIN o = 1..Len(o)  BY DEF InOrder
<1>2. 1..(i+1)-1 = (1..i-1) \cup {i}  BY <1>1
<1>3. /\ A2 = IF x.sender = u THEN A \cup {n} ELSE A
      /\ B2 = IF x.receiver = u THEN B \cup {n} ELSE B
  BY <1>2 DEF SentOf, ReceivedOf
<1>4. n \notin A /\ n \notin B
  <2>1. \A j \in 1..i-1 : j \in DOMAIN o /\ j # i  BY <1>1
  <2>2. \A j \in 1..i-1 : o[j] # n  BY <1>1, <2>1 DEF InOrder
  <2> QED  BY <2>2 DEF SentOf, ReceivedOf
<1>5. i \in 1..Len(o) + 1 /\ i + 1 \in 1..Len(o) + 1  BY <1>1
<1>6. Summable(s, A) /\ Summable(s, B) /\ Summable(s, A2) /\ Summable(s, B2)
  BY <1>5, HistorySummable
<1>7. n \in DOMAIN s.txns  BY <1>1 DEF InOrder, Range
<1>8. x.amount \in Nat  BY <1>7 DEF ApplicationState, PartialFcn, Transaction
<1> HIDE DEF A, B, A2, B2, n
<1>9. SumSent(s, A2) = IF x.sender = u THEN SumSent(s, A) + x.amount ELSE SumSent(s, A)
  BY <1>3, <1>4, <1>6, SumAdd
<1>10. SumSent(s, B2) = IF x.receiver = u THEN SumSent(s, B) + x.amount ELSE SumSent(s, B)
  BY <1>3, <1>4, <1>6, SumAdd
<1>11. SumSent(s, A) \in Nat /\ SumSent(s, B) \in Nat  BY <1>6, SumNat
<1>12. InitialBalance \in Nat  BY LedgerAssumption
<1>13. /\ BalanceOf(s, o, i, u) = InitialBalance + SumSent(s, B) - SumSent(s, A)
       /\ BalanceOf(s, o, i + 1, u) = InitialBalance + SumSent(s, B2) - SumSent(s, A2)
  BY DEF BalanceOf, A, B, A2, B2
<1> HIDE DEF x
<1> QED
  <2> DEFINE a == SumSent(s, A)
             b == SumSent(s, B)
             m == x.amount
  <2>1. a \in Nat /\ b \in Nat /\ m \in Nat  BY <1>8, <1>11
  <2>2. BalanceOf(s, o, i + 1, u) =
          InitialBalance + (IF x.receiver = u THEN b + m ELSE b)
            - (IF x.sender = u THEN a + m ELSE a)
    BY <1>9, <1>10, <1>13
  <2>3. BalanceOf(s, o, i, u) = InitialBalance + b - a  BY <1>13
  <2> HIDE DEF a, b, m
  <2>4. BalanceOf(s, o, i + 1, u) = BalanceOf(s, o, i, u)
               + (IF x.receiver = u THEN m ELSE 0) - (IF x.sender = u THEN m ELSE 0)
    BY <1>12, <2>1, <2>2, <2>3
  <2> QED  BY <2>4 DEF BalanceMoves, m, x, n

-----------------------------------------------------------------------------
(* What the two steps that write do to the ledger.                         *)

\* A payment c under key k is transaction n at instant t; s becomes f.
PaidAs(s, f, k, c, n, t) ==
    /\ ApplicationState(f)
    /\ n \in TxnId /\ n \notin DOMAIN s.txns
    /\ DOMAIN f.users = DOMAIN s.users
    /\ f.wallets = DebitAndCredit(s.wallets, c.sender, c.receiver, c.amount)
    /\ DOMAIN f.txns = DOMAIN s.txns \cup {n}
    /\ f.txns[n] = NewTransaction(c.sender, c.receiver, c.amount, k, t)
    /\ \A m \in DOMAIN s.txns : f.txns[m] = s.txns[m]
    /\ DOMAIN f.records = DOMAIN s.records \cup {k}
    /\ \A j \in DOMAIN s.records : f.records[j] = s.records[j]
    /\ c.sender \in DOMAIN s.users /\ c.receiver \in DOMAIN s.users
    /\ c.amount <= s.wallets[c.sender].balance

\* A new entry k of a dict, with the value v.
Extends(d, e, k, v) ==
    /\ e = [j \in DOMAIN e |-> e[j]]
    /\ k \notin DOMAIN d /\ DOMAIN e = DOMAIN d \cup {k}
    /\ e[k] = v /\ \A j \in DOMAIN d : e[j] = d[j]

\* A payment's command.
LEMMA TransferShape ==
    ASSUME NEW c \in TransferCmd
    PROVE  /\ c \in Command /\ c.op = "transferMoney"
           /\ c.sender \in UserId /\ c.receiver \in UserId /\ c.sender # c.receiver
           /\ c.amount \in Nat
BY LedgerAssumption DEF TransferCmd, Command

\* The fields of a transfer that is executed.
TransferredAs(s, f, k, c, t, n) ==
    /\ IsAggregate(f)
    /\ f.users = s.users /\ f.requests = s.requests
    /\ f.wallets = DebitAndCredit(s.wallets, c.sender, c.receiver, c.amount)
    /\ f.txns = Put(s.txns, n, NewTransaction(c.sender, c.receiver, c.amount, k, t))
    /\ f.records = Put(s.records, k, [cmd |-> c, result |-> n])
    /\ f.pending = s.pending \cup Events(k, {"transferMoney"})

LEMMA TransferredFields ==
    ASSUME NEW s, ApplicationState(s), NEW k, NEW c, NEW t,
           NEW f, f = TransferMoney(s, k, c, t)
    PROVE  TransferredAs(s, f, k, c, t, Fresh(TxnId, s.txns))
<1> DEFINE n == Fresh(TxnId, s.txns)
<1>1. IsAggregate(s)  BY DEF ApplicationState
<1>2. /\ IsAggregate(f)
      /\ f.users = s.users /\ f.requests = s.requests
      /\ f.wallets = DebitAndCredit(s.wallets, c.sender, c.receiver, c.amount)
      /\ f.txns = Put(s.txns, n, NewTransaction(c.sender, c.receiver, c.amount, k, t))
      /\ f.records = Put(s.records, k, [cmd |-> c, result |-> n])
      /\ f.pending = s.pending \cup Events(k, {"transferMoney"})
  BY <1>1, TransferMoneyFields
<1> HIDE DEF n
<1>3. TransferredAs(s, f, k, c, t, n)  BY <1>2 DEF TransferredAs
<1> QED  BY <1>3 DEF n

\* The transfer a call commits (payment_domain_service.py:579 transfer_money).
LEMMA PayEffect ==
    ASSUME ReviewInv, NEW p \in Caller, NEW k \in PayKey, NEW c \in TransferCmd, Pay(p, k, c),
           NEW n, n = Fresh(TxnId, ledger.txns)
    PROVE  /\ PaidAs(ledger, ledger', k, c, n, now')
           /\ Extends(payload, payload', k, SnapshotOf(ledger, ledger', c, now'))
           /\ Extends(score, score', n, 0)
           /\ payload'[k].txn = n
           /\ order' = Append(order, n)
           /\ now' \in 0..MaxTime /\ now \in 0..MaxTime /\ now <= now'
<1> DEFINE s == ledger
           f == ledger'
           t == now'
<1>1. /\ ApplicationState(s) /\ DOMAIN payload = DOMAIN s.records \cap PayKey
      /\ DOMAIN score = DOMAIN s.txns /\ now \in 0..MaxTime
  BY DEF ReviewInv, TypeOK
<1>2. t \in 0..MaxTime /\ now <= t
  BY <1>1, LedgerAssumption DEF Pay
<1>3. /\ c \in Command /\ c.op = "transferMoney"
      /\ c.sender \in UserId /\ c.receiver \in UserId /\ c.sender # c.receiver
      /\ c.amount \in Nat
  BY TransferShape
<1>4. /\ CanTransferMoney(s, c, t) /\ f = TransferMoney(s, k, c, t) /\ IsNew(s, k)
  BY DEF Pay
<1>5. Accepts(s, c, t) /\ Apply(s, k, c, t) = f
  BY <1>3, <1>4 DEF Accepts, Apply
<1>6. k \in Key  BY ReviewAssumption
<1>7. ApplicationState(f)  BY <1>1, <1>2, <1>3, <1>5, <1>6, ApplyKeepsState
<1>8. /\ IsAggregate(f)
      /\ f.users = s.users /\ f.requests = s.requests
      /\ f.wallets = DebitAndCredit(s.wallets, c.sender, c.receiver, c.amount)
      /\ f.txns = Put(s.txns, n, NewTransaction(c.sender, c.receiver, c.amount, k, t))
      /\ f.records = Put(s.records, k, [cmd |-> c, result |-> n])
  <2>1. TransferredAs(s, f, k, c, t, n)  BY <1>1, <1>4, TransferredFields
  <2> QED  BY <2>1 DEF TransferredAs
<1>9. /\ {c.sender, c.receiver} \subseteq DOMAIN s.users
      /\ c.amount <= s.wallets[c.sender].balance /\ HasFresh(TxnId, s.txns)
  BY <1>4 DEF CanTransferMoney, CanMove
<1>10. n \in TxnId /\ n \notin DOMAIN s.txns  BY <1>9, FreshIsUnused
<1>11. PaidAs(s, f, k, c, n, t)
  <2> DEFINE x == NewTransaction(c.sender, c.receiver, c.amount, k, t)
             r == [cmd |-> c, result |-> n]
  <2>1. f.txns = Put(s.txns, n, x) /\ f.records = Put(s.records, k, r)  BY <1>8
  <2>2. k \notin DOMAIN s.records  BY <1>4 DEF IsNew
  <2> HIDE DEF x, r, s, f
  <2>3. /\ DOMAIN f.txns = DOMAIN s.txns \cup {n} /\ f.txns[n] = x
        /\ \A m \in DOMAIN s.txns : f.txns[m] = s.txns[m]
    BY <1>10, <2>1 DEF Put
  <2>4. /\ DOMAIN f.records = DOMAIN s.records \cup {k}
        /\ \A j \in DOMAIN s.records : f.records[j] = s.records[j]
    BY <2>1, <2>2 DEF Put
  <2> QED  BY <1>7, <1>8, <1>9, <1>10, <2>3, <2>4 DEF PaidAs, x
<1>12. k \notin DOMAIN payload  BY <1>1, <1>4 DEF IsNew
<1>13. Extends(payload, payload', k, SnapshotOf(s, f, c, t))
  BY <1>12 DEF Pay, Put, Extends
<1>14. payload'[k].txn = n  BY <1>13 DEF Extends, SnapshotOf
<1>15. score' = Put(score, n, 0) /\ order' = Append(order, n)  BY <1>14 DEF Pay
<1>16. Extends(score, score', n, 0)  BY <1>1, <1>10, <1>15 DEF Put, Extends
<1> QED  BY <1>1, <1>2, <1>11, <1>13, <1>14, <1>15, <1>16

\* The payment with snapshot y is annotated under key j; s becomes f.
AnnotatedAs(s, f, j, y) ==
    /\ ApplicationState(f)
    /\ f.users = s.users /\ f.wallets = s.wallets
    /\ DOMAIN f.txns = DOMAIN s.txns /\ SameMovements(s, f)
    /\ \A m \in DOMAIN s.txns :
          f.txns[m].status = IF m # y.txn THEN s.txns[m].status
                             ELSE IF Level(Score(y)) = "HIGH" THEN "FLAGGED" ELSE "COMPLETED"
    /\ DOMAIN f.records = DOMAIN s.records \cup {j}
    /\ \A i \in DOMAIN s.records : f.records[i] = s.records[i]

\* The fields of an annotation that is executed.
StatusAs(s, f, k, c) ==
    /\ IsAggregate(f)
    /\ f.users = s.users /\ f.wallets = s.wallets /\ f.requests = s.requests
    /\ f.txns = Put(s.txns, c.txn, WithStatus(s.txns[c.txn], c.status))
    /\ f.records = Put(s.records, k, [cmd |-> c, result |-> c.txn])
    /\ f.pending = s.pending \cup Events(k, {"annotateTransactionRisk"})

LEMMA StatusFields ==
    ASSUME NEW s, ApplicationState(s), NEW k, NEW c, NEW f, f = Annotate(s, k, c)
    PROVE  StatusAs(s, f, k, c)
<1>1. IsAggregate(s)  BY DEF ApplicationState
<1>2. /\ IsAggregate(f)
      /\ f.users = s.users /\ f.wallets = s.wallets /\ f.requests = s.requests
      /\ f.txns = Put(s.txns, c.txn, WithStatus(s.txns[c.txn], c.status))
      /\ f.records = Put(s.records, k, [cmd |-> c, result |-> c.txn])
      /\ f.pending = s.pending \cup Events(k, {"annotateTransactionRisk"})
  BY <1>1, AnnotateFields
<1> QED  BY <1>2 DEF StatusAs

\* The annotation a call commits (payment_domain_service.py:965
\* annotate_transaction_risk).
LEMMA AnnotateEffect ==
    ASSUME ReviewInv, NEW p \in Caller, Annotated(p), NEW k, k = paid[p],
           NEW y, y = payload[k]
    PROVE  /\ k \in DOMAIN payload /\ k \in PayKey /\ RiskKey(k) \notin DOMAIN ledger.records
           /\ AnnotatedAs(ledger, ledger', RiskKey(k), y)
           /\ DOMAIN score' = DOMAIN score /\ score' = [m \in DOMAIN score |-> score'[m]]
           /\ score'[y.txn] = Score(y)
           /\ \A m \in DOMAIN score : m # y.txn => score'[m] = score[m]
<1> DEFINE s == ledger
           f == ledger'
           c == Annotation(p)
           j == RiskKey(k)
           st == IF Level(Score(y)) = "HIGH" THEN "FLAGGED" ELSE "COMPLETED"
<1>1. /\ ApplicationState(s) /\ DOMAIN payload = DOMAIN s.records \cap PayKey
      /\ DOMAIN score = DOMAIN s.txns /\ now \in 0..MaxTime
  BY DEF ReviewInv, TypeOK
<1>2. k \in DOMAIN payload  BY DEF ReviewInv, TypeOK, Annotated
<1>3. k \in PayKey /\ j \in Key \ PayKey  BY <1>1, <1>2, ReviewAssumption
<1>4. y.txn \in DOMAIN s.txns  BY <1>2 DEF ReviewInv, PaymentsMatch
<1>5. y.txn \in TxnId  BY <1>1, <1>4 DEF ApplicationState, PartialFcn
<1>6. c = [op |-> "annotateTransactionRisk", txn |-> y.txn, status |-> st]
  BY DEF Annotation, Snapshot, Verdict
<1>7. IsNew(s, j) /\ f = Annotate(s, j, c) /\ score' = Put(score, y.txn, Score(y))
  BY DEF Annotated, Snapshot, Verdict
<1> HIDE DEF j, st
<1>8. st \in {"COMPLETED", "FLAGGED"}  BY DEF st
<1>9. c \in AnnotateCmd /\ c.txn = y.txn /\ c.status = st /\ c.op = "annotateTransactionRisk"
  BY <1>5, <1>6, <1>8 DEF AnnotateCmd
<1> HIDE DEF c
<1>10. c \in Command  BY <1>9 DEF Command
<1>11. Accepts(s, c, now) /\ Apply(s, j, c, now) = f
  BY <1>4, <1>7, <1>9 DEF Accepts, Apply, CanAnnotate
<1>12. ApplicationState(f)  BY <1>1, <1>3, <1>10, <1>11, ApplyKeepsState
<1>13. /\ f.users = s.users /\ f.wallets = s.wallets
       /\ f.txns = Put(s.txns, y.txn, WithStatus(s.txns[y.txn], st))
       /\ f.records = Put(s.records, j, [cmd |-> c, result |-> y.txn])
  <2>1. StatusAs(s, f, j, c)  BY <1>1, <1>7, StatusFields
  <2> QED  BY <1>9, <2>1 DEF StatusAs
<1>14. \A m \in DOMAIN s.txns : s.txns[m] \in Transaction
  BY <1>1 DEF ApplicationState, PartialFcn
<1>15. \A x \in Transaction : /\ WithStatus(x, st).status = st
                              /\ WithStatus(x, st).sender = x.sender
                              /\ WithStatus(x, st).receiver = x.receiver
                              /\ WithStatus(x, st).amount = x.amount
                              /\ WithStatus(x, st).at = x.at /\ WithStatus(x, st).key = x.key
  BY DEF WithStatus, Transaction
<1>16. /\ DOMAIN f.txns = DOMAIN s.txns /\ SameMovements(s, f)
       /\ \A m \in DOMAIN s.txns :
             f.txns[m].status = IF m # y.txn THEN s.txns[m].status ELSE st
  <2> DEFINE x == WithStatus(s.txns[y.txn], st)
  <2>1. s.txns[y.txn] \in Transaction  BY <1>4, <1>14
  <2>2. /\ x.status = st /\ x.at = s.txns[y.txn].at /\ x.key = s.txns[y.txn].key
        /\ x.sender = s.txns[y.txn].sender /\ x.receiver = s.txns[y.txn].receiver
        /\ x.amount = s.txns[y.txn].amount
    BY <1>15, <2>1
  <2>3. f.txns = Put(s.txns, y.txn, x)  BY <1>13
  <2> HIDE DEF x, s, f
  <2>4. /\ DOMAIN f.txns = DOMAIN s.txns
        /\ \A m \in DOMAIN s.txns : f.txns[m] = IF m = y.txn THEN x ELSE s.txns[m]
    BY <1>4, <2>3 DEF Put
  <2>5. SameMovements(s, f)  BY <2>2, <2>4 DEF SameMovements
  <2> QED  BY <2>2, <2>4, <2>5
<1>17. /\ DOMAIN f.records = DOMAIN s.records \cup {j}
       /\ \A i \in DOMAIN s.records : f.records[i] = s.records[i]
  BY <1>7, <1>13 DEF Put, IsNew
<1>18. AnnotatedAs(s, f, j, y)  BY <1>12, <1>13, <1>16, <1>17 DEF AnnotatedAs, st
<1>19. /\ DOMAIN score' = DOMAIN score /\ score' = [m \in DOMAIN score |-> score'[m]]
       /\ score'[y.txn] = Score(y)
       /\ \A m \in DOMAIN score : m # y.txn => score'[m] = score[m]
  BY <1>1, <1>4, <1>7 DEF Put
<1> QED  BY <1>2, <1>3, <1>7, <1>18, <1>19 DEF j, IsNew

-----------------------------------------------------------------------------
(* A payment keeps the invariant.                                          *)

\* The order o of s goes on with n in the order o2 of f, and what cannot change
\* of the transactions does not.
GoesOn(s, f, o, o2, n) ==
    /\ SameMovements(s, f) /\ Continues(o, o2)
    /\ o2 \in Seq(TxnId) /\ Len(o) \in Nat
    /\ DOMAIN o = 1..Len(o) /\ Len(o2) = Len(o) + 1 /\ DOMAIN o2 = 1..Len(o) + 1
    /\ o2[Len(o) + 1] = n /\ \A i \in DOMAIN o : o2[i] = o[i] /\ o[i] \in DOMAIN s.txns

\* A payment goes on with the order.
LEMMA PaymentContinues ==
    ASSUME NEW s, NEW f, NEW k, NEW c, NEW n, NEW t, PaidAs(s, f, k, c, n, t),
           NEW o, NEW u, InOrder(s, o, u), NEW o2, o2 = Append(o, n)
    PROVE  GoesOn(s, f, o, o2, n)
<1>1. n \in TxnId /\ o \in Seq(TxnId) /\ Range(o) = DOMAIN s.txns  BY DEF PaidAs, InOrder
<1>2. /\ o2 \in Seq(TxnId) /\ Len(o2) = Len(o) + 1 /\ Len(o) \in Nat
      /\ \A i \in 1..Len(o) : o2[i] = o[i]
      /\ o2[Len(o) + 1] = n /\ DOMAIN o = 1..Len(o)
  BY <1>1, AppendProperties
<1>3. DOMAIN o2 = 1..Len(o) + 1  BY <1>2
<1>4. SameMovements(s, f)  BY DEF PaidAs, SameMovements
<1>5. Continues(o, o2)  BY <1>2 DEF Continues
<1>6. \A i \in DOMAIN o : o[i] \in DOMAIN s.txns  BY <1>1 DEF Range
<1> QED  BY <1>2, <1>3, <1>4, <1>5, <1>6 DEF GoesOn

\* The new payment matches its transaction, and no annotation runs ahead of it.
LEMMA PayKeepsMatch ==
    ASSUME NEW s, NEW f, NEW pl, NEW pl2, NEW k \in PayKey, NEW c, NEW n, NEW t, NEW y,
           PaidAs(s, f, k, c, n, t), Extends(pl, pl2, k, y), y.txn = n, y.amount = c.amount,
           PaymentsMatch(s, pl)
    PROVE  PaymentsMatch(f, pl2) /\ \A j \in PayKey : IsNew(f, RiskKey(j)) <=> IsNew(s, RiskKey(j))
<1>1. /\ DOMAIN f.txns = DOMAIN s.txns \cup {n} /\ n \notin DOMAIN s.txns
      /\ f.txns[n].key = k /\ f.txns[n].amount = c.amount
      /\ \A m \in DOMAIN s.txns : f.txns[m] = s.txns[m]
      /\ DOMAIN f.records = DOMAIN s.records \cup {k}
  BY DEF PaidAs, NewTransaction
<1>2. /\ k \notin DOMAIN pl /\ DOMAIN pl2 = DOMAIN pl \cup {k}
      /\ pl2[k] = y /\ \A j \in DOMAIN pl : pl2[j] = pl[j]
  BY DEF Extends
<1>3. \A j \in PayKey : RiskKey(j) # k  BY ReviewAssumption
<1>4. \A j \in PayKey : IsNew(f, RiskKey(j)) <=> IsNew(s, RiskKey(j))
  BY <1>1, <1>3 DEF IsNew
<1>5. \A j \in DOMAIN pl2 : pl2[j].txn \in DOMAIN f.txns /\ f.txns[pl2[j].txn].key = j
  BY <1>1, <1>2 DEF PaymentsMatch
<1>6. \A m \in DOMAIN f.txns :
         /\ f.txns[m].key \in DOMAIN pl2
         /\ pl2[f.txns[m].key].txn = m /\ pl2[f.txns[m].key].amount = f.txns[m].amount
  BY <1>1, <1>2 DEF PaymentsMatch
<1>7. \A j \in PayKey : ~ IsNew(f, RiskKey(j)) => j \in DOMAIN pl2
  BY <1>2, <1>4 DEF PaymentsMatch
<1> QED  BY <1>4, <1>5, <1>6, <1>7 DEF PaymentsMatch

\* It is not annotated yet, and the others are as before.
LEMMA PayKeepsScores ==
    ASSUME NEW s, NEW f, NEW pl, NEW pl2, NEW sc, NEW sc2,
           NEW k \in PayKey, NEW c, NEW n, NEW t, NEW y,
           PaidAs(s, f, k, c, n, t), Extends(pl, pl2, k, y), y.txn = n, y.amount = c.amount,
           Extends(sc, sc2, n, 0), DOMAIN sc = DOMAIN s.txns,
           DOMAIN pl \subseteq PayKey, PaymentsMatch(s, pl), AnnotatedAsScored(s, pl, sc)
    PROVE  AnnotatedAsScored(f, pl2, sc2)
<1>1. /\ f.txns[n].status = "COMPLETED"
      /\ \A m \in DOMAIN s.txns : f.txns[m] = s.txns[m]
  BY DEF PaidAs, NewTransaction
<1>2. /\ k \notin DOMAIN pl /\ DOMAIN pl2 = DOMAIN pl \cup {k}
      /\ pl2[k] = y /\ \A j \in DOMAIN pl : pl2[j] = pl[j]
      /\ sc2[n] = 0 /\ \A m \in DOMAIN s.txns : sc2[m] = sc[m]
  BY DEF Extends
<1>3. \A j \in PayKey : IsNew(f, RiskKey(j)) <=> IsNew(s, RiskKey(j))
  BY PayKeepsMatch
<1>4. IsNew(f, RiskKey(k))  BY <1>2, <1>3 DEF PaymentsMatch
<1>5. \A j \in DOMAIN pl : pl[j].txn \in DOMAIN s.txns  BY DEF PaymentsMatch
<1> SUFFICES ASSUME NEW j \in DOMAIN pl2
             PROVE  LET m == pl2[j].txn
                    IN  IF IsNew(f, RiskKey(j))
                        THEN sc2[m] = 0 /\ f.txns[m].status = "COMPLETED"
                        ELSE /\ sc2[m] = Score(pl2[j])
                             /\ f.txns[m].status =
                                  IF Level(Score(pl2[j])) = "HIGH" THEN "FLAGGED" ELSE "COMPLETED"
  BY DEF AnnotatedAsScored
<1>6. CASE j = k  BY <1>1, <1>2, <1>4, <1>6
<1>7. CASE j \in DOMAIN pl  BY <1>1, <1>2, <1>3, <1>5, <1>7 DEF AnnotatedAsScored
<1> QED  BY <1>2, <1>6, <1>7

\* It is the latest.
LEMMA PayKeepsOrder ==
    ASSUME NEW s, ApplicationState(s), NEW f, NEW k, NEW c, NEW n, NEW u, NEW t,
           PaidAs(s, f, k, c, n, t), u \in Nat, t \in Nat, u <= t,
           NEW o, InOrder(s, o, u), NEW o2, o2 = Append(o, n)
    PROVE  InOrder(f, o2, t)
<1>1. /\ SameMovements(s, f) /\ Continues(o, o2)
      /\ o2 \in Seq(TxnId) /\ Len(o) \in Nat
      /\ DOMAIN o = 1..Len(o) /\ Len(o2) = Len(o) + 1 /\ DOMAIN o2 = 1..Len(o) + 1
      /\ o2[Len(o) + 1] = n /\ \A i \in DOMAIN o : o2[i] = o[i] /\ o[i] \in DOMAIN s.txns
  <2>1. GoesOn(s, f, o, o2, n)  BY PaymentContinues
  <2> QED  BY <2>1 DEF GoesOn
<1>2. /\ DOMAIN f.txns = DOMAIN s.txns \cup {n} /\ n \notin DOMAIN s.txns /\ f.txns[n].at = t
      /\ \A m \in DOMAIN s.txns : f.txns[m] = s.txns[m]
  BY DEF PaidAs, NewTransaction
<1>3. DOMAIN o2 = DOMAIN o \cup {Len(o) + 1} /\ Len(o) + 1 \notin DOMAIN o  BY <1>1
<1>4. /\ Range(o) = DOMAIN s.txns /\ \A i, j \in DOMAIN o : o[i] = o[j] => i = j
      /\ \A i \in DOMAIN o : s.txns[o[i]].at <= u
  BY DEF InOrder
<1>5. Range(o2) = DOMAIN f.txns  BY <1>1, <1>2, <1>3, <1>4 DEF Range
<1>6. \A i, j \in DOMAIN o2 : o2[i] = o2[j] => i = j  BY <1>1, <1>2, <1>3, <1>4
<1>7. \A i \in DOMAIN o2 : f.txns[o2[i]].at <= t
  <2>1. \A m \in DOMAIN s.txns : s.txns[m].at \in Nat
    BY LedgerAssumption DEF ApplicationState, PartialFcn, Transaction
  <2> SUFFICES ASSUME NEW i \in DOMAIN o2 PROVE f.txns[o2[i]].at <= t  OBVIOUS
  <2>2. CASE i \in DOMAIN o
    <3>1. f.txns[o2[i]].at = s.txns[o[i]].at /\ s.txns[o[i]].at \in Nat /\ s.txns[o[i]].at <= u
      BY <1>1, <1>2, <1>4, <2>1, <2>2
    <3> DEFINE a == s.txns[o[i]].at
    <3> HIDE DEF a
    <3>2. a \in Nat /\ a <= u /\ f.txns[o2[i]].at = a  BY <3>1 DEF a
    <3> QED  BY <3>2
  <2>3. CASE i = Len(o) + 1  BY <1>1, <1>2, <2>3
  <2> QED  BY <1>3, <2>2, <2>3
<1> QED  BY <1>1, <1>5, <1>6, <1>7 DEF InOrder

\* Its snapshot is the history it was made in, and the snapshots before it stay
\* what they were.
LEMMA PayKeepsSnapshots ==
    ASSUME NEW s, ApplicationState(s), NEW f, NEW pl, NEW pl2, NEW k \in PayKey,
           NEW c, NEW n, NEW u, NEW t, NEW o, InOrder(s, o, u), NEW o2, o2 = Append(o, n),
           u \in Nat, t \in Nat, u <= t,
           PaidAs(s, f, k, c, n, t), Extends(pl, pl2, k, SnapshotOf(s, f, c, t)),
           PaymentsMatch(s, pl), SnapshotsTrue(s, o, pl), BalancesTrue(s, o)
    PROVE  SnapshotsTrue(f, o2, pl2)
<1> DEFINE y == SnapshotOf(s, f, c, t)
<1>1. /\ SameMovements(s, f) /\ Continues(o, o2)
      /\ o2 \in Seq(TxnId) /\ Len(o) \in Nat
      /\ DOMAIN o = 1..Len(o) /\ Len(o2) = Len(o) + 1 /\ DOMAIN o2 = 1..Len(o) + 1
      /\ o2[Len(o) + 1] = n /\ \A i \in DOMAIN o : o2[i] = o[i] /\ o[i] \in DOMAIN s.txns
  <2>1. GoesOn(s, f, o, o2, n)  BY PaymentContinues
  <2> QED  BY <2>1 DEF GoesOn
<1>2. /\ n \notin DOMAIN s.txns
      /\ f.txns[n] = NewTransaction(c.sender, c.receiver, c.amount, k, t)
      /\ \A m \in DOMAIN s.txns : f.txns[m] = s.txns[m]
      /\ c.sender \in DOMAIN s.users
  BY DEF PaidAs
<1>3. DOMAIN o2 = DOMAIN o \cup {Len(o) + 1}  BY <1>1
<1>4. /\ k \notin DOMAIN pl /\ pl2[k] = y /\ \A j \in DOMAIN pl : pl2[j] = pl[j]
  BY DEF Extends
<1> HIDE DEF y
<1> SUFFICES ASSUME NEW i \in DOMAIN o2
             PROVE  LET x == f.txns[o2[i]]
                        z == pl2[x.key]
                    IN  /\ z.fromBefore = BalanceOf(f, o2, i, x.sender)
                        /\ DOMAIN z.recent = RapidOf(f, o2, i, x.sender, x.at)
                        /\ \A m \in DOMAIN z.recent :
                              z.recent[m] = "FLAGGED" => f.txns[m].status = "FLAGGED"
  BY DEF SnapshotsTrue
<1>5. i \in 1..Len(o) + 1  BY <1>1
<1>6. \A v : /\ SentOf(f, o2, i, v) = SentOf(s, o, i, v)
             /\ BalanceOf(f, o2, i, v) = BalanceOf(s, o, i, v)
             /\ \A at : RapidOf(f, o2, i, v, at) = RapidOf(s, o, i, v, at)
  BY <1>1, <1>5, HistorySame
<1>7. CASE i \in DOMAIN o
  <2> DEFINE x == s.txns[o[i]]
             z == pl[x.key]
  <2>1. o2[i] = o[i] /\ o[i] \in DOMAIN s.txns  BY <1>1, <1>7
  <2>2. f.txns[o2[i]] = x  BY <1>2, <2>1
  <2>3. x.key \in DOMAIN pl  BY <2>1 DEF PaymentsMatch
  <2>4. pl2[x.key] = z  BY <1>4, <2>3
  <2>5. /\ z.fromBefore = BalanceOf(s, o, i, x.sender)
        /\ DOMAIN z.recent = RapidOf(s, o, i, x.sender, x.at)
        /\ \A m \in DOMAIN z.recent : z.recent[m] = "FLAGGED" => s.txns[m].status = "FLAGGED"
    BY <1>7 DEF SnapshotsTrue
  <2>6. DOMAIN z.recent \subseteq DOMAIN s.txns
    <3>1. SentOf(s, o, i, x.sender) \subseteq DOMAIN s.txns  BY <1>5, HistorySummable
    <3> QED  BY <2>5, <3>1 DEF RapidOf
  <2> HIDE DEF x, z
  <2>7. \A m \in DOMAIN z.recent : z.recent[m] = "FLAGGED" => f.txns[m].status = "FLAGGED"
    BY <1>2, <2>5, <2>6
  <2> QED  BY <1>6, <2>2, <2>4, <2>5, <2>7
<1>8. CASE i = Len(o) + 1
  <2>1. /\ f.txns[n].key = k /\ f.txns[n].sender = c.sender /\ f.txns[n].at = t
    BY <1>2 DEF NewTransaction
  <2>2. o2[i] = n  BY <1>1, <1>8
  <2>3. /\ y.fromBefore = s.wallets[c.sender].balance
        /\ y.recent = [m \in Recent(s, c.sender, t) |-> s.txns[m].status]
    BY DEF y, SnapshotOf
  <2>4. s.wallets[c.sender].balance = BalanceOf(s, o, i, c.sender)
    BY <1>2, <1>8 DEF BalancesTrue
  <2>5. Recent(s, c.sender, t) = RapidOf(s, o, i, c.sender, t)
    <3>1. SentOf(s, o, i, c.sender) = {m \in DOMAIN s.txns : s.txns[m].sender = c.sender}
      <4>1. 1..i-1 = DOMAIN o  BY <1>1, <1>8
      <4>2. DOMAIN s.txns = {o[j] : j \in DOMAIN o}  BY DEF InOrder, Range
      <4> QED  BY <4>1, <4>2 DEF SentOf
    <3>2. \A m \in DOMAIN s.txns : s.txns[m].at \in Nat /\ s.txns[m].at <= t
      <4>1. \A m \in DOMAIN s.txns : s.txns[m].at \in Nat
        BY LedgerAssumption DEF ApplicationState, PartialFcn, Transaction
      <4>2. \A m \in DOMAIN s.txns : s.txns[m].at <= u
        <5>1. DOMAIN s.txns = {o[j] : j \in DOMAIN o}  BY DEF InOrder, Range
        <5> QED  BY <5>1 DEF InOrder
      <4> SUFFICES ASSUME NEW m \in DOMAIN s.txns
                   PROVE  s.txns[m].at \in Nat /\ s.txns[m].at <= t  OBVIOUS
      <4> DEFINE a == s.txns[m].at
      <4>3. a \in Nat /\ a <= u  BY <4>1, <4>2
      <4> HIDE DEF a
      <4>4. a \in Nat /\ a <= t  BY <4>3
      <4> QED  BY <4>4 DEF a
    <3>3. RapidWindow \in Nat  BY ReviewAssumption
    <3>4. ASSUME NEW a \in Nat, a <= t
          PROVE  t - a <= RapidWindow <=> a \in t - RapidWindow .. t
      BY <3>3, <3>4
    <3>5. \A m \in DOMAIN s.txns :
             t - s.txns[m].at <= RapidWindow <=> s.txns[m].at \in t - RapidWindow .. t
      BY <3>2, <3>4
    <3> QED  BY <3>1, <3>5 DEF Recent, SentWithin, RapidOf
  <2>6. Recent(s, c.sender, t) \subseteq DOMAIN s.txns  BY DEF Recent, SentWithin
  <2> HIDE DEF y
  <2>7. \A m \in DOMAIN y.recent : y.recent[m] = "FLAGGED" => f.txns[m].status = "FLAGGED"
    BY <1>2, <2>3, <2>6
  <2>8. DOMAIN y.recent = Recent(s, c.sender, t)  BY <2>3
  <2> QED  BY <1>4, <1>6, <2>1, <2>2, <2>3, <2>4, <2>5, <2>7, <2>8
<1> QED  BY <1>3, <1>7, <1>8

\* What it moves is what the balances of its two users change by.
LEMMA PayKeepsBalances ==
    ASSUME NEW s, ApplicationState(s), NEW f, NEW k, NEW c \in TransferCmd, NEW n, NEW u, NEW t,
           NEW o, InOrder(s, o, u), NEW o2, o2 = Append(o, n),
           u \in Nat, t \in Nat, u <= t, PaidAs(s, f, k, c, n, t), BalancesTrue(s, o)
    PROVE  BalancesTrue(f, o2)
<1>1. /\ SameMovements(s, f) /\ Continues(o, o2)
      /\ o2 \in Seq(TxnId) /\ Len(o) \in Nat
      /\ DOMAIN o = 1..Len(o) /\ Len(o2) = Len(o) + 1 /\ DOMAIN o2 = 1..Len(o) + 1
      /\ o2[Len(o) + 1] = n /\ \A i \in DOMAIN o : o2[i] = o[i] /\ o[i] \in DOMAIN s.txns
  <2>1. GoesOn(s, f, o, o2, n)  BY PaymentContinues
  <2> QED  BY <2>1 DEF GoesOn
<1>2. InOrder(f, o2, t)  BY PayKeepsOrder
<1>3. /\ f.txns[n].sender = c.sender /\ f.txns[n].receiver = c.receiver
      /\ f.txns[n].amount = c.amount /\ ApplicationState(f)
      /\ f.wallets = DebitAndCredit(s.wallets, c.sender, c.receiver, c.amount)
      /\ DOMAIN f.users = DOMAIN s.users
  BY DEF PaidAs, NewTransaction
<1>4. DOMAIN s.users = DOMAIN s.wallets /\ DOMAIN f.wallets = DOMAIN s.wallets
  BY <1>3 DEF DebitAndCredit, BalancesTrue
<1>5. c.sender # c.receiver /\ c.amount \in Nat  BY TransferShape
<1> DEFINE i == Len(o) + 1
<1>6. i \in 1..Len(o) + 1 /\ i \in 1..Len(o2) /\ o2[i] = n /\ Len(o2) + 1 = i + 1
  BY <1>1
<1> HIDE DEF i
<1>7. ASSUME NEW v \in DOMAIN s.wallets
      PROVE  f.wallets[v].balance = BalanceOf(f, o2, Len(o2) + 1, v)
  <2> DEFINE b == s.wallets[v].balance
             m == c.amount
             e == IF c.receiver = v THEN m ELSE 0
             d == IF c.sender = v THEN m ELSE 0
  <2>1. b = BalanceOf(s, o, i, v)  BY DEF BalancesTrue, i
  <2>2. BalanceOf(f, o2, i, v) = BalanceOf(s, o, i, v)  BY <1>1, <1>6, HistorySame
  <2>3. BalanceOf(f, o2, i + 1, v) = BalanceOf(f, o2, i, v) + e - d
    <3>1. f.txns[o2[i]].sender # f.txns[o2[i]].receiver  BY <1>3, <1>5, <1>6
    <3>2. BalanceMoves(f, o2, i, v)  BY <1>2, <1>3, <1>6, <3>1, HistoryNext
    <3> QED  BY <1>3, <1>6, <3>2 DEF BalanceMoves
  <2>4. b \in Nat  BY DEF ApplicationState, PartialFcn, Wallet
  <2>5. f.wallets[v] = CASE v = c.sender -> WithBalance(s.wallets[v], b - m)
                         [] v = c.receiver -> WithBalance(s.wallets[v], b + m)
                         [] OTHER -> s.wallets[v]
    BY <1>3 DEF DebitAndCredit
  <2>6. \A x : WithBalance(s.wallets[v], x).balance = x  BY DEF WithBalance
  <2>7. f.wallets[v].balance = IF v = c.sender THEN b - m
                               ELSE IF v = c.receiver THEN b + m ELSE b
    BY <1>5, <2>5, <2>6
  <2>8. BalanceOf(f, o2, i + 1, v) = b + e - d  BY <2>1, <2>2, <2>3
  <2> HIDE DEF b, m
  <2>9. m \in Nat  BY <1>5 DEF m
  <2>10. f.wallets[v].balance = b + e - d  BY <1>5, <2>4, <2>7, <2>9
  <2> QED  BY <1>6, <2>8, <2>10
<1> QED  BY <1>3, <1>4, <1>7 DEF BalancesTrue

\* What a payment records has its type.
LEMMA PayKeepsTypes ==
    ASSUME ReviewInv, NEW p \in Caller, NEW k \in PayKey, NEW c \in TransferCmd, Pay(p, k, c),
           Range(order') = DOMAIN ledger'.txns
    PROVE  TypeOK'
<1> DEFINE s == ledger
           f == ledger'
           t == now'
           n == Fresh(TxnId, ledger.txns)
           y == SnapshotOf(ledger, ledger', c, now')
<1>1. /\ PaidAs(s, f, k, c, n, t)
      /\ Extends(payload, payload', k, y) /\ Extends(score, score', n, 0)
      /\ payload'[k].txn = n
      /\ t \in 0..MaxTime /\ now \in 0..MaxTime /\ now <= t
  BY PayEffect
<1>2. /\ ApplicationState(f) /\ n \in TxnId
      /\ f.wallets = DebitAndCredit(s.wallets, c.sender, c.receiver, c.amount)
      /\ DOMAIN f.txns = DOMAIN s.txns \cup {n} /\ DOMAIN f.records = DOMAIN s.records \cup {k}
      /\ c.sender \in DOMAIN s.users /\ c.receiver \in DOMAIN s.users
  BY <1>1 DEF PaidAs
<1>3. /\ ApplicationState(s) /\ PartialFcn(payload, PayKey, Snapshots)
      /\ DOMAIN payload = DOMAIN s.records \cap PayKey
      /\ score \in [DOMAIN s.txns -> 0..100]
      /\ CallersOK(pc, paid, payload)
  BY DEF ReviewInv, TypeOK, CallersOK
<1>4. y \in Snapshots
  <2>1. DOMAIN s.users = DOMAIN s.wallets  BY DEF ReviewInv, BalancesTrue
  <2>2. DOMAIN f.wallets = DOMAIN s.wallets  BY <1>2 DEF DebitAndCredit
  <2>3. \A u \in DOMAIN s.wallets : s.wallets[u].balance \in Nat
    BY <1>3 DEF ApplicationState, PartialFcn, Wallet
  <2>4. \A u \in DOMAIN f.wallets : f.wallets[u].balance \in Nat
    BY <1>2 DEF ApplicationState, PartialFcn, Wallet
  <2>5. c.sender \in UserId /\ c.receiver \in UserId /\ c.amount \in Amount
    BY DEF TransferCmd
  <2> DEFINE r == Recent(s, c.sender, t)
             rs == [m \in r |-> s.txns[m].status]
  <2>6. \A m \in r : s.txns[m].status \in {"COMPLETED", "FLAGGED"} /\ m \in TxnId
    BY <1>3 DEF Recent, SentWithin, ApplicationState, PartialFcn, Transaction
  <2> HIDE DEF r
  <2>7. r \in SUBSET TxnId /\ rs \in [r -> {"COMPLETED", "FLAGGED"}]  BY <2>6
  <2> HIDE DEF rs
  <2>8. rs \in UNION {[ns -> {"COMPLETED", "FLAGGED"}] : ns \in SUBSET TxnId}  BY <2>7
  <2>9. y = [txn |-> n, sender |-> c.sender, receiver |-> c.receiver, amount |-> c.amount,
             fromBefore |-> s.wallets[c.sender].balance,
             fromAfter |-> f.wallets[c.sender].balance,
             toBefore |-> s.wallets[c.receiver].balance,
             toAfter |-> f.wallets[c.receiver].balance, recent |-> rs]
    BY DEF SnapshotOf, rs, r
  <2> HIDE DEF y, n, s, f
  <2>10. /\ s.wallets[c.sender].balance \in Nat /\ f.wallets[c.sender].balance \in Nat
         /\ s.wallets[c.receiver].balance \in Nat /\ f.wallets[c.receiver].balance \in Nat
    BY <1>2, <2>1, <2>2, <2>3, <2>4
  <2> QED  BY <1>2, <2>5, <2>8, <2>9, <2>10 DEF Snapshots
<1> HIDE DEF n, y
<1>5. /\ DOMAIN payload' = DOMAIN payload \cup {k}
      /\ PartialFcn(payload', PayKey, Snapshots)
  BY <1>1, <1>3, <1>4 DEF Extends, PartialFcn
<1>6. score' \in [DOMAIN f.txns -> 0..100]
  BY <1>1, <1>2, <1>3 DEF Extends
<1>7. /\ pc' = [pc EXCEPT ![p] = "assessed"] /\ paid' = [paid EXCEPT ![p] = k]
      /\ told' = told /\ faults' = faults
  BY DEF Pay
<1>8. CallersOK(pc', paid', payload')  BY <1>3, <1>5, <1>7 DEF CallersOK
<1>9. DOMAIN payload' = DOMAIN f.records \cap PayKey
  BY <1>2, <1>3, <1>5
<1>10. /\ faults' \in 0..MaxFaults
       /\ told' \subseteq Verdicts
  BY <1>7 DEF ReviewInv, TypeOK
<1> QED  BY <1>1, <1>2, <1>5, <1>6, <1>8, <1>9, <1>10 DEF TypeOK, CallersOK

\* A committed payment (payment_facade.py:166 transfer_money).
LEMMA PayKeeps ==
    ASSUME ReviewInv, NEW p \in Caller, NEW k \in PayKey, NEW c \in TransferCmd, Pay(p, k, c)
    PROVE  ReviewInv'
<1> DEFINE n == Fresh(TxnId, ledger.txns)
           y == SnapshotOf(ledger, ledger', c, now')
<1>1. /\ PaidAs(ledger, ledger', k, c, n, now')
      /\ Extends(payload, payload', k, y) /\ Extends(score, score', n, 0)
      /\ payload'[k].txn = n /\ order' = Append(order, n)
      /\ now' \in 0..MaxTime /\ now \in 0..MaxTime /\ now <= now'
  BY PayEffect
<1>2. now \in Nat /\ now' \in Nat  BY <1>1, LedgerAssumption
<1>3. /\ TypeOK /\ PaymentsMatch(ledger, payload) /\ AnnotatedAsScored(ledger, payload, score)
      /\ ToldScores(ledger, payload, told) /\ InOrder(ledger, order, now)
      /\ SnapshotsTrue(ledger, order, payload) /\ BalancesTrue(ledger, order)
  BY DEF ReviewInv
<1>4. /\ ApplicationState(ledger) /\ DOMAIN payload \subseteq PayKey
      /\ DOMAIN score = DOMAIN ledger.txns
  BY <1>3 DEF TypeOK
<1>5. y.txn = n /\ y.amount = c.amount  BY DEF SnapshotOf
<1> HIDE DEF n
<1>6. /\ PaymentsMatch(ledger', payload')
      /\ \A j \in PayKey : IsNew(ledger', RiskKey(j)) <=> IsNew(ledger, RiskKey(j))
  <2> HIDE DEF y
  <2> QED  BY <1>1, <1>3, <1>5, PayKeepsMatch
<1>7. AnnotatedAsScored(ledger', payload', score')
  <2> HIDE DEF y
  <2> QED  BY <1>1, <1>3, <1>4, <1>5, PayKeepsScores
<1>8. ToldScores(ledger', payload', told')
  <2>1. /\ told' = told /\ DOMAIN payload \subseteq DOMAIN payload'
        /\ \A j \in DOMAIN payload : payload'[j] = payload[j]
    BY <1>1 DEF Pay, Extends
  <2> QED  BY <1>3, <1>4, <1>6, <2>1 DEF ToldScores
<1>9. InOrder(ledger', order', now')
  <2>1. /\ PaidAs(ledger, ledger', k, c, n, now') /\ order' = Append(order, n)
        /\ now <= now' /\ InOrder(ledger, order, now)
    BY <1>1, <1>3
  <2> QED  BY <1>2, <1>4, <2>1, PayKeepsOrder
<1>10. SnapshotsTrue(ledger', order', payload')
  BY <1>1, <1>2, <1>3, <1>4, PayKeepsSnapshots
<1>11. BalancesTrue(ledger', order')
  BY <1>1, <1>2, <1>3, <1>4, PayKeepsBalances
<1>12. TypeOK'  BY <1>9, PayKeepsTypes DEF InOrder
<1> QED  BY <1>6, <1>7, <1>8, <1>9, <1>10, <1>11, <1>12 DEF ReviewInv

-----------------------------------------------------------------------------
(* An answer, an annotation and a check keep the invariant.                *)

\* What somebody is told has its type and is a snapshot's score.
LEMMA AnswerTells ==
    ASSUME ReviewInv, NEW p \in Caller, pc[p] = "assessed",
           NEW status \in {"completed", "degraded"}, Answer(p, status)
    PROVE  /\ paid[p] \in DOMAIN payload
           /\ CallersOK(pc', paid', payload)
           /\ told' \subseteq Verdicts
           /\ \A a \in told' : \/ a \in told
                               \/ /\ a.txn = payload[paid[p]].txn /\ a.status = status
                                  /\ a.score = Score(payload[paid[p]])
<1> DEFINE y == payload[paid[p]]
           r == Review(p, status)
           a == [txn |-> y.txn, score |-> Score(y), status |-> status, review |-> r]
<1>1. /\ CallersOK(pc, paid, payload)
      /\ told \subseteq Verdicts
      /\ PartialFcn(payload, PayKey, Snapshots)
  BY DEF ReviewInv, TypeOK, CallersOK
<1>2. paid[p] \in DOMAIN payload  BY <1>1 DEF CallersOK
<1>3. y.txn \in TxnId  BY <1>1, <1>2 DEF PartialFcn, Snapshots
<1>4. Score(y) \in 0..100  BY ScoreOf
<1>5. r \in {"none", "approved", "rejected"}
  <2>1. status # "completed" \/ ~NeedsReview(Verdict(p)) => r = "none"  BY DEF Review
  <2>2. status = "completed" /\ NeedsReview(Verdict(p)) => r \in {"approved", "rejected"}
    BY DEF Review
  <2> QED  BY <2>1, <2>2
<1>6. /\ told' = told \cup {a} /\ pc' = [pc EXCEPT ![p] = "idle"]
      /\ paid' = [paid EXCEPT ![p] = "none"]
  BY DEF Answer, Snapshot, Verdict
<1>7. a.txn = y.txn /\ a.status = status /\ a.score = Score(y)  OBVIOUS
<1>8. a \in Verdicts
  <2> HIDE DEF y, r
  <2> QED  BY <1>3, <1>4, <1>5 DEF Verdicts
<1> HIDE DEF a, y, r
<1>9. CallersOK(pc', paid', payload)  BY <1>1, <1>6 DEF CallersOK
<1>10. /\ told' \subseteq Verdicts
       /\ \A b \in told' : b \in told \/ b = a
  BY <1>1, <1>6, <1>8
<1> QED  BY <1>2, <1>7, <1>9, <1>10 DEF y

\* A step that writes no payment and no annotation, and tells nothing but the
\* scores of snapshots.
LEMMA TellKeeps ==
    ASSUME ReviewInv, TypeOK', UNCHANGED <<ledger, payload, score, order, now>>,
           ToldScores(ledger, payload, told')
    PROVE  ReviewInv'
BY DEF ReviewInv

\* An annotated payment (payment_facade.py:364): its transaction has
\* the score of its snapshot from now on, and nothing else of the history moves.
LEMMA AnnotatedKeeps ==
    ASSUME ReviewInv, NEW p \in Caller, Annotated(p)
    PROVE  ReviewInv'
<1> DEFINE s == ledger
           f == ledger'
           k == paid[p]
           y == payload[k]
           j == RiskKey(k)
<1>1. /\ k \in DOMAIN payload /\ k \in PayKey /\ j \notin DOMAIN s.records
      /\ AnnotatedAs(s, f, j, y)
      /\ DOMAIN score' = DOMAIN score /\ score' = [m \in DOMAIN score |-> score'[m]]
      /\ score'[y.txn] = Score(y)
      /\ \A m \in DOMAIN score : m # y.txn => score'[m] = score[m]
  BY AnnotateEffect
<1>2. /\ ApplicationState(f) /\ f.users = s.users /\ f.wallets = s.wallets
      /\ DOMAIN f.txns = DOMAIN s.txns /\ SameMovements(s, f)
      /\ \A m \in DOMAIN s.txns :
            f.txns[m].status = IF m # y.txn THEN s.txns[m].status
                               ELSE IF Level(Score(y)) = "HIGH" THEN "FLAGGED" ELSE "COMPLETED"
      /\ DOMAIN f.records = DOMAIN s.records \cup {j}
  BY <1>1 DEF AnnotatedAs
<1>3. /\ TypeOK /\ PaymentsMatch(s, payload) /\ AnnotatedAsScored(s, payload, score)
      /\ ToldScores(s, payload, told) /\ InOrder(s, order, now)
      /\ SnapshotsTrue(s, order, payload) /\ BalancesTrue(s, order)
  BY DEF ReviewInv
<1>4. /\ ApplicationState(s) /\ PartialFcn(payload, PayKey, Snapshots)
      /\ DOMAIN payload = DOMAIN s.records \cap PayKey /\ DOMAIN payload \subseteq PayKey
      /\ score \in [DOMAIN s.txns -> 0..100] /\ now \in 0..MaxTime /\ faults \in 0..MaxFaults
  BY <1>3 DEF TypeOK
<1>5. /\ Answer(p, "completed") /\ pc[p] = "assessed"
      /\ UNCHANGED <<payload, order, now, faults>>
  BY DEF Annotated
<1>6. \A i \in PayKey : /\ RiskKey(i) \notin PayKey
                        /\ RiskKey(i) = j => i = k
  BY <1>1, ReviewAssumption
<1>7. \A i \in PayKey : IsNew(f, RiskKey(i)) <=> IsNew(s, RiskKey(i)) /\ i # k
  BY <1>2, <1>6 DEF IsNew
<1> HIDE DEF f, s, j
<1>8. PaymentsMatch(f, payload)
  <2>1. \A m \in DOMAIN s.txns :
           f.txns[m].key = s.txns[m].key /\ f.txns[m].amount = s.txns[m].amount
    BY <1>2 DEF SameMovements
  <2>2. \A i \in DOMAIN payload :
           payload[i].txn \in DOMAIN f.txns /\ f.txns[payload[i].txn].key = i
    BY <1>2, <1>3, <2>1 DEF PaymentsMatch
  <2>3. \A m \in DOMAIN f.txns :
           /\ f.txns[m].key \in DOMAIN payload
           /\ payload[f.txns[m].key].txn = m /\ payload[f.txns[m].key].amount = f.txns[m].amount
    BY <1>2, <1>3, <2>1 DEF PaymentsMatch
  <2>4. \A i \in PayKey : ~ IsNew(f, RiskKey(i)) => i \in DOMAIN payload
    BY <1>1, <1>3, <1>7 DEF PaymentsMatch
  <2> QED  BY <2>2, <2>3, <2>4 DEF PaymentsMatch
<1>9. AnnotatedAsScored(f, payload, score')
  <2> SUFFICES ASSUME NEW i \in DOMAIN payload
               PROVE  LET m == payload[i].txn
                      IN  IF IsNew(f, RiskKey(i))
                          THEN score'[m] = 0 /\ f.txns[m].status = "COMPLETED"
                          ELSE /\ score'[m] = Score(payload[i])
                               /\ f.txns[m].status = IF Level(Score(payload[i])) = "HIGH"
                                                     THEN "FLAGGED" ELSE "COMPLETED"
    BY DEF AnnotatedAsScored
  <2>1. payload[i].txn \in DOMAIN s.txns /\ y.txn \in DOMAIN s.txns
    BY <1>1, <1>3 DEF PaymentsMatch
  <2>2. CASE i = k  BY <1>1, <1>2, <1>4, <1>7, <2>1, <2>2
  <2>3. CASE i # k
    <3>1. payload[i].txn # y.txn  BY <1>1, <1>3, <2>3 DEF PaymentsMatch
    <3>2. /\ score'[payload[i].txn] = score[payload[i].txn]
          /\ f.txns[payload[i].txn].status = s.txns[payload[i].txn].status
          /\ IsNew(f, RiskKey(i)) <=> IsNew(s, RiskKey(i))
      BY <1>1, <1>2, <1>4, <1>7, <2>1, <2>3, <3>1
    <3> QED  BY <1>3, <3>2 DEF AnnotatedAsScored
  <2> QED  BY <2>2, <2>3
<1>10. InOrder(f, order, now)
  <2>1. \A i \in DOMAIN order : order[i] \in DOMAIN s.txns  BY <1>3 DEF InOrder, Range
  <2> QED  BY <1>2, <1>3, <2>1 DEF InOrder, SameMovements
<1>11. \A u : \A i \in 1..Len(order) + 1 :
          /\ SentOf(f, order, i, u) = SentOf(s, order, i, u)
          /\ BalanceOf(f, order, i, u) = BalanceOf(s, order, i, u)
          /\ \A at : RapidOf(f, order, i, u, at) = RapidOf(s, order, i, u, at)
  <2>1. Len(order) \in Nat  BY <1>3 DEF InOrder
  <2>2. Continues(order, order)  BY <2>1 DEF Continues
  <2> SUFFICES ASSUME NEW i \in 1..Len(order) + 1, NEW u
               PROVE  /\ SentOf(f, order, i, u) = SentOf(s, order, i, u)
                      /\ BalanceOf(f, order, i, u) = BalanceOf(s, order, i, u)
                      /\ \A at : RapidOf(f, order, i, u, at) = RapidOf(s, order, i, u, at)
    OBVIOUS
  <2>3. SameMovements(s, f) /\ InOrder(s, order, now) /\ ApplicationState(s)
    BY <1>2, <1>3, <1>4
  <2> QED  BY <2>2, <2>3, HistorySame
<1>12. /\ Len(order) \in Nat /\ DOMAIN order = 1..Len(order)
       /\ \A i \in DOMAIN order : order[i] \in DOMAIN s.txns
  BY <1>3 DEF InOrder, Range
<1>13. SnapshotsTrue(f, order, payload)
  <2> SUFFICES ASSUME NEW i \in DOMAIN order
               PROVE  LET x == f.txns[order[i]]
                          z == payload[x.key]
                      IN  /\ z.fromBefore = BalanceOf(f, order, i, x.sender)
                          /\ DOMAIN z.recent = RapidOf(f, order, i, x.sender, x.at)
                          /\ \A m \in DOMAIN z.recent :
                                z.recent[m] = "FLAGGED" => f.txns[m].status = "FLAGGED"
    BY DEF SnapshotsTrue
  <2> DEFINE x == s.txns[order[i]]
             z == payload[x.key]
  <2>1. i \in 1..Len(order) + 1  BY <1>12
  <2>2. /\ f.txns[order[i]].key = x.key /\ f.txns[order[i]].sender = x.sender
        /\ f.txns[order[i]].at = x.at
    BY <1>2, <1>12 DEF SameMovements
  <2>3. /\ z.fromBefore = BalanceOf(s, order, i, x.sender)
        /\ DOMAIN z.recent = RapidOf(s, order, i, x.sender, x.at)
        /\ \A m \in DOMAIN z.recent : z.recent[m] = "FLAGGED" => s.txns[m].status = "FLAGGED"
    BY <1>3 DEF SnapshotsTrue
  <2>4. DOMAIN z.recent \subseteq DOMAIN s.txns
    <3>1. SentOf(s, order, i, x.sender) \subseteq DOMAIN s.txns
      BY <1>3, <1>4, <2>1, HistorySummable
    <3> QED  BY <2>3, <3>1 DEF RapidOf
  <2>5. \A m \in DOMAIN s.txns : s.txns[m].status = "FLAGGED" => f.txns[m].status = "FLAGGED"
    <3>1. IsNew(s, j)  BY <1>1 DEF IsNew
    <3>2. s.txns[y.txn].status = "COMPLETED"
      BY <1>1, <1>3, <3>1 DEF AnnotatedAsScored, j
    <3> QED  BY <1>2, <3>2
  <2> HIDE DEF x, z
  <2> QED  BY <1>11, <2>1, <2>2, <2>3, <2>4, <2>5 DEF z
<1>14. BalancesTrue(f, order)
  <2>1. Len(order) + 1 \in 1..Len(order) + 1  BY <1>12
  <2> QED  BY <1>2, <1>3, <1>11, <2>1 DEF BalancesTrue
<1>15. ToldScores(f, payload, told')
  <2>1. \A a \in told' : \/ a \in told
                         \/ a.txn = y.txn /\ a.score = Score(y)
    BY <1>5, AnswerTells
  <2> SUFFICES ASSUME NEW a \in told'
               PROVE  \E i \in DOMAIN payload :
                         /\ payload[i].txn = a.txn /\ a.score = Score(payload[i])
                         /\ a.status = "completed" => ~ IsNew(f, RiskKey(i))
    BY DEF ToldScores
  <2>2. CASE a \in told
    BY <1>3, <1>4, <1>7, <2>2 DEF ToldScores
  <2>3. CASE a.txn = y.txn /\ a.score = Score(y)
    <3>1. ~ IsNew(f, RiskKey(k))  BY <1>1, <1>7
    <3> QED  BY <1>1, <2>3, <3>1
  <2> QED  BY <2>1, <2>2, <2>3
<1>16. TypeOK'
  <2>1. DOMAIN payload' = DOMAIN f.records \cap PayKey
    BY <1>1, <1>2, <1>4, <1>5, <1>6 DEF j
  <2>2. score' \in [DOMAIN f.txns -> 0..100]
    <3>1. \A m \in DOMAIN score : score'[m] \in 0..100
      <4>1. Score(y) \in 0..100  BY ScoreOf
      <4> QED  BY <1>1, <1>4, <4>1
    <3> QED  BY <1>1, <1>2, <1>4, <3>1
  <2>3. /\ CallersOK(pc', paid', payload)
        /\ told' \subseteq Verdicts
    BY <1>5, AnswerTells
  <2>4. Range(order') = DOMAIN f.txns  BY <1>5, <1>10 DEF InOrder
  <2> QED  BY <1>2, <1>4, <1>5, <2>1, <2>2, <2>3, <2>4 DEF TypeOK, CallersOK, f
<1> QED  BY <1>5, <1>8, <1>9, <1>10, <1>13, <1>14, <1>15, <1>16 DEF ReviewInv, f

-----------------------------------------------------------------------------
(* The other steps.                                                        *)

\* Whoever is told the score of a snapshot, and of an annotation only when it
\* was made, is told what he should be.
LEMMA ScoresToldOnce ==
    ASSUME ReviewInv, NEW k \in DOMAIN payload,
           NEW status, status = "completed" => ~ IsNew(ledger, RiskKey(k)),
           NEW tl, \A a \in tl : \/ a \in told
                                 \/ /\ a.txn = payload[k].txn /\ a.status = status
                                    /\ a.score = Score(payload[k])
    PROVE  ToldScores(ledger, payload, tl)
BY DEF ReviewInv, ToldScores

\* The answer of a call that writes nothing (payment_facade.py:364, a replay, and
\* :390, an annotation that failed).
LEMMA AnswerKeeps ==
    ASSUME ReviewInv, NEW p \in Caller, pc[p] = "assessed",
           NEW status \in {"completed", "degraded"}, Answer(p, status),
           status = "completed" => ~ IsNew(ledger, RiskKey(paid[p])),
           UNCHANGED <<ledger, payload, score, order, now>>, faults' \in 0..MaxFaults
    PROVE  ReviewInv'
<1>1. /\ paid[p] \in DOMAIN payload
      /\ CallersOK(pc', paid', payload)
      /\ told' \subseteq Verdicts
      /\ \A a \in told' : \/ a \in told
                          \/ /\ a.txn = payload[paid[p]].txn /\ a.status = status
                             /\ a.score = Score(payload[paid[p]])
  BY AnswerTells
<1>2. ToldScores(ledger, payload, told')  BY <1>1, ScoresToldOnce
<1>3. TypeOK'  BY <1>1 DEF ReviewInv, TypeOK, CallersOK
<1> QED  BY <1>2, <1>3, TellKeeps

\* A call that only moves on, or is given up (payment_facade.py:166 once more
\* with the same key; a cancellation, :388).
LEMMA MoveKeeps ==
    ASSUME ReviewInv, NEW p \in Caller, NEW place, NEW k,
           \/ place = "assessed" /\ k \in DOMAIN payload
           \/ place = "idle" /\ k = "none",
           pc' = [pc EXCEPT ![p] = place], paid' = [paid EXCEPT ![p] = k],
           UNCHANGED <<ledger, payload, score, told, order, now, faults>>
    PROVE  ReviewInv'
<1>1. /\ CallersOK(pc, paid, payload)
      /\ DOMAIN payload \subseteq PayKey
  BY DEF ReviewInv, TypeOK, CallersOK
<1>2. CallersOK(pc', paid', payload)  BY <1>1 DEF CallersOK
<1>3. TypeOK'  BY <1>1, <1>2 DEF ReviewInv, TypeOK, CallersOK
<1>4. ToldScores(ledger, payload, told')  BY DEF ReviewInv
<1> QED  BY <1>3, <1>4, TellKeeps

\* A fraud check answers with the score of the recorded snapshot
\* (payment_facade.py:301 fraud_check).
LEMMA CheckKeeps ==
    ASSUME ReviewInv, NEW k \in PayKey, FraudCheck(k)
    PROVE  ReviewInv'
<1> DEFINE y == payload[k]
           a == [txn |-> y.txn, score |-> Score(y), status |-> "check", review |-> "none"]
<1>1. /\ k \in DOMAIN payload /\ told' = told \cup {a}
      /\ UNCHANGED <<ledger, payload, score, pc, paid, order, now, faults>>
  BY DEF FraudCheck, Found
<1>2. PartialFcn(payload, PayKey, Snapshots)  BY DEF ReviewInv, TypeOK
<1>3. y.txn \in TxnId  BY <1>1, <1>2 DEF PartialFcn, Snapshots
<1>4. Score(y) \in 0..100  BY ScoreOf
<1>5. a.txn = y.txn /\ a.status = "check" /\ a.score = Score(y)  OBVIOUS
<1>6. a \in Verdicts
  <2> HIDE DEF y
  <2> QED  BY <1>3, <1>4 DEF Verdicts
<1> HIDE DEF a
<1>7. TypeOK'  BY <1>1, <1>6 DEF ReviewInv, TypeOK
<1>8. \A b \in told' : \/ b \in told
                       \/ /\ b.txn = payload[k].txn /\ b.status = "check"
                          /\ b.score = Score(payload[k])
  BY <1>1, <1>5
<1>9. ToldScores(ledger, payload, told')  BY <1>1, <1>8, ScoresToldOnce
<1> QED  BY <1>1, <1>7, <1>9, TellKeeps

-----------------------------------------------------------------------------
(* The theorems.                                                           *)

\* Before the first payment there is nothing to be wrong about.
LEMMA InitReview == Init => ReviewInv
<1> SUFFICES ASSUME Init PROVE ReviewInv  OBVIOUS
<1>1. /\ ledger = InitialState /\ payload = [k \in {} |-> k] /\ score = [n \in {} |-> n]
      /\ pc = [c \in Caller |-> "idle"] /\ paid = [c \in Caller |-> "none"]
      /\ told = {} /\ order = <<>> /\ now = 0 /\ faults = 0
  BY DEF Init
<1>2. /\ ledger.users = InitialUsers
      /\ ledger.wallets = [u \in DOMAIN InitialUsers |-> NewWallet]
      /\ ledger.txns = [n \in {} |-> n] /\ ledger.requests = [r \in {} |-> r]
      /\ ledger.records = [k \in {} |-> k]
      /\ ledger.pending = {} /\ IsAggregate(ledger)
  BY <1>1 DEF InitialState, IsAggregate
<1>3. DOMAIN ledger.txns = {} /\ DOMAIN ledger.records = {} /\ DOMAIN payload = {}
  BY <1>1, <1>2
<1>4. DOMAIN order = {} /\ Len(order) = 0 /\ order \in Seq(TxnId)  BY <1>1
<1>5. NewWallet \in Wallet /\ NewWallet.balance = InitialBalance
  BY LedgerAssumption DEF NewWallet, Wallet
<1>6. ApplicationState(ledger)
  <2>1. PartialFcn(ledger.users, UserId, Phone) /\ PartialFcn(ledger.wallets, UserId, Wallet)
    BY <1>2, <1>5, LedgerAssumption DEF PartialFcn
  <2>2. /\ PartialFcn(ledger.txns, TxnId, Transaction)
        /\ PartialFcn(ledger.requests, RequestId, PaymentRequest)
        /\ PartialFcn(ledger.records, Key, IdempotencyRecord)
    BY <1>2 DEF PartialFcn
  <2> QED  BY <1>2, <2>1, <2>2 DEF ApplicationState
<1>7. Range(order) = DOMAIN ledger.txns  BY <1>3, <1>4 DEF Range
<1>8. TypeOK
  <2>1. PartialFcn(payload, PayKey, Snapshots)  BY <1>1 DEF PartialFcn
  <2>2. score \in [DOMAIN ledger.txns -> 0..100]  BY <1>1, <1>3
  <2>3. MaxTime \in Nat /\ MaxFaults \in Nat  BY LedgerAssumption, ReviewAssumption
  <2> QED  BY <1>1, <1>3, <1>6, <1>7, <2>1, <2>2, <2>3 DEF TypeOK
<1>9. PaymentsMatch(ledger, payload) /\ AnnotatedAsScored(ledger, payload, score)
  BY <1>3 DEF PaymentsMatch, AnnotatedAsScored, IsNew
<1>10. ToldScores(ledger, payload, told)  BY <1>1 DEF ToldScores
<1>11. InOrder(ledger, order, now)  BY <1>4, <1>7 DEF InOrder
<1>12. SnapshotsTrue(ledger, order, payload)  BY <1>4 DEF SnapshotsTrue
<1>13. BalancesTrue(ledger, order)
  <2>1. \A u : SentOf(ledger, order, 1, u) = {} /\ ReceivedOf(ledger, order, 1, u) = {}
    BY DEF SentOf, ReceivedOf
  <2>2. SumSent(ledger, {}) = 0  BY SumEmpty
  <2>3. InitialBalance \in Nat  BY LedgerAssumption
  <2>4. \A u : BalanceOf(ledger, order, 1, u) = InitialBalance
    BY <2>1, <2>2, <2>3 DEF BalanceOf
  <2>5. Len(order) + 1 = 1  BY <1>4
  <2> QED  BY <1>2, <1>5, <2>4, <2>5 DEF BalancesTrue
<1> QED  BY <1>8, <1>9, <1>10, <1>11, <1>12, <1>13 DEF ReviewInv

\* The steps of a review.
LEMMA StepCases ==
    ASSUME Next
    PROVE  \/ \E p \in Caller :
                 \/ \E k \in PayKey, c \in TransferCmd : Pay(p, k, c) \/ Retry(p, k, c)
                 \/ Annotated(p) \/ AnnotatedBefore(p) \/ NotAnnotated(p) \/ Cancel(p)
           \/ \E k \in PayKey : FraudCheck(k)
BY Zenon DEF Next, Proceed

\* Every step keeps the invariant.
LEMMA StepReview == ReviewInv /\ [Next]_vars => ReviewInv'
<1> SUFFICES ASSUME ReviewInv, [Next]_vars PROVE ReviewInv'  OBVIOUS
<1>1. /\ faults \in 0..MaxFaults /\ MaxFaults \in Nat
      /\ \A p \in Caller : pc[p] # "idle" => paid[p] \in DOMAIN payload
      /\ DOMAIN payload = DOMAIN ledger.records \cap PayKey
  BY ReviewAssumption DEF ReviewInv, TypeOK
<1>2. ASSUME NEW p \in Caller, NEW k \in PayKey, NEW c \in TransferCmd, Pay(p, k, c)
      PROVE  ReviewInv'
  BY <1>2, PayKeeps
<1>3. ASSUME NEW p \in Caller, NEW k \in PayKey, NEW c \in TransferCmd, Retry(p, k, c)
      PROVE  ReviewInv'
  <2>1. k \in DOMAIN payload  BY <1>1, <1>3 DEF Retry, IsReplay
  <2> QED  BY <1>3, <2>1, MoveKeeps DEF Retry
<1>4. ASSUME NEW p \in Caller, Annotated(p) PROVE ReviewInv'
  BY <1>4, AnnotatedKeeps
<1>5. ASSUME NEW p \in Caller, AnnotatedBefore(p) PROVE ReviewInv'
  <2>1. ~ IsNew(ledger, RiskKey(paid[p]))
    BY <1>5 DEF AnnotatedBefore, SameAsBefore, IsReplay, IsNew
  <2>2. faults' \in 0..MaxFaults  BY <1>1, <1>5 DEF AnnotatedBefore
  <2> QED  BY <1>5, <2>1, <2>2, AnswerKeeps DEF AnnotatedBefore
<1>6. ASSUME NEW p \in Caller, NotAnnotated(p) PROVE ReviewInv'
  <2>1. faults' \in 0..MaxFaults  BY <1>1, <1>6 DEF NotAnnotated
  <2>2. "degraded" # "completed"  OBVIOUS
  <2> QED  BY <1>6, <2>1, <2>2, AnswerKeeps DEF NotAnnotated
<1>7. ASSUME NEW p \in Caller, Cancel(p) PROVE ReviewInv'
  BY <1>7, MoveKeeps DEF Cancel
<1>8. ASSUME NEW k \in PayKey, FraudCheck(k) PROVE ReviewInv'
  BY <1>8, CheckKeeps
<1>9. CASE UNCHANGED vars
  <2>1. TypeOK'  BY <1>9 DEF vars, ReviewInv, TypeOK
  <2>2. ToldScores(ledger, payload, told')  BY <1>9 DEF vars, ReviewInv
  <2> QED  BY <1>9, <2>1, <2>2, TellKeeps DEF vars
<1> QED  BY <1>2, <1>3, <1>4, <1>5, <1>6, <1>7, <1>8, <1>9, StepCases

\* The invariant of payments, their scores and their history.
LEMMA ReviewInvariant == Spec => []ReviewInv
BY InitReview, StepReview, PTL DEF Spec

\* The shapes of the ledger, the snapshots, the scores and the answers.
THEOREM ReviewTypeCorrect == Spec => []TypeOK
<1>1. ReviewInv => TypeOK  BY DEF ReviewInv
<1> QED  BY <1>1, ReviewInvariant, PTL

\* Whoever asks for the risk of a transaction, and whenever, gets the same score
\* (payment_facade.py:341 _post_process_snapshot assesses the recorded snapshot).
THEOREM VerdictIsOne == Spec => []OneVerdict
<1>1. ReviewInv => OneVerdict
  <2> SUFFICES ASSUME ReviewInv, NEW a \in told, NEW b \in told, a.txn = b.txn
               PROVE  /\ a.score = b.score
                      /\ a.status = "completed" => score[a.txn] = b.score
    BY DEF OneVerdict
  <2>1. PICK j \in DOMAIN payload : /\ payload[j].txn = a.txn /\ a.score = Score(payload[j])
                                    /\ a.status = "completed" => ~ IsNew(ledger, RiskKey(j))
    BY DEF ReviewInv, ToldScores
  <2>2. PICK k \in DOMAIN payload : payload[k].txn = b.txn /\ b.score = Score(payload[k])
    BY DEF ReviewInv, ToldScores
  <2>3. j = k  BY <2>1, <2>2 DEF ReviewInv, PaymentsMatch
  <2>4. ~ IsNew(ledger, RiskKey(j)) => score[a.txn] = Score(payload[j])
    BY <2>1 DEF ReviewInv, AnnotatedAsScored
  <2> QED  BY <2>1, <2>2, <2>3, <2>4
<1> QED  BY <1>1, ReviewInvariant, PTL

\* The points of the i-th transaction, as the ledger's history gives them.
LEMMA PointsDeserved ==
    ASSUME ReviewInv, NEW i \in DOMAIN order
    PROVE  LET n == order[i]
               x == ledger.txns[n]
               base == AmountPoints(x.amount)
                         + (IF 100 * x.amount >= SuspiciousPercent * BalanceBefore(i)
                            THEN 35 ELSE 0)
                         + (IF Cardinality(RapidBefore(i)) >= RapidCount THEN 25 ELSE 0)
               flagged == \E m \in RapidBefore(i) : ledger.txns[m].status = "FLAGGED"
           IN  /\ DOMAIN payload[x.key].recent = RapidBefore(i)
               /\ score[n] \in IF IsNew(ledger, RiskKey(x.key)) THEN {0}
                               ELSE IF flagged THEN {base, base + 15} ELSE {base}
               /\ x.status = "FLAGGED" <=> score[n] >= 60
<1> DEFINE n == order[i]
           x == ledger.txns[n]
           y == payload[x.key]
           flagged == \E m \in RapidBefore(i) : ledger.txns[m].status = "FLAGGED"
           ba == AmountPoints(x.amount)
           bb == IF 100 * x.amount >= SuspiciousPercent * BalanceBefore(i) THEN 35 ELSE 0
           br == IF Cardinality(RapidBefore(i)) >= RapidCount THEN 25 ELSE 0
<1>1. n \in DOMAIN ledger.txns  BY DEF ReviewInv, InOrder, Range
<1>2. x.key \in DOMAIN payload /\ y.txn = n /\ y.amount = x.amount
  BY <1>1 DEF ReviewInv, PaymentsMatch
<1>3. /\ y.fromBefore = BalanceOf(ledger, order, i, x.sender)
      /\ DOMAIN y.recent = RapidOf(ledger, order, i, x.sender, x.at)
      /\ \A m \in DOMAIN y.recent : y.recent[m] = "FLAGGED" => ledger.txns[m].status = "FLAGGED"
  BY DEF ReviewInv, SnapshotsTrue
<1>4. SentBefore(i) = SentOf(ledger, order, i, x.sender)  BY DEF SentBefore, SentOf
<1>5. RapidBefore(i) = RapidOf(ledger, order, i, x.sender, x.at)
  BY <1>4 DEF RapidBefore, RapidOf
<1>6. BalanceBefore(i) = BalanceOf(ledger, order, i, x.sender)
  BY <1>4 DEF BalanceBefore, BalanceOf, ReceivedOf
<1>7. /\ BalancePoints(y) = bb /\ RapidPoints(y.recent) = br
      /\ FlaggedPoints(y.recent) \in {0, 15}
      /\ ~ flagged => FlaggedPoints(y.recent) = 0
  BY <1>2, <1>3, <1>5, <1>6 DEF BalancePoints, RapidPoints, FlaggedPoints
<1>8. /\ Score(y) \in 0..100
      /\ Score(y) = AmountPoints(y.amount) + BalancePoints(y)
                      + RapidPoints(y.recent) + FlaggedPoints(y.recent)
      /\ Level(Score(y)) = "HIGH" <=> Score(y) >= 60
  BY ScoreOf
<1>9. /\ IsNew(ledger, RiskKey(x.key)) => score[n] = 0 /\ x.status = "COMPLETED"
      /\ ~ IsNew(ledger, RiskKey(x.key)) =>
           /\ score[n] = Score(y)
           /\ x.status = IF Level(Score(y)) = "HIGH" THEN "FLAGGED" ELSE "COMPLETED"
  BY <1>2 DEF ReviewInv, AnnotatedAsScored
<1>10. ba \in Int /\ bb \in Int /\ br \in Int
  <2>1. ba \in {0, 10, 25}
    <3>1. CASE 100 * x.amount >= 80 * MaxSingle  BY <3>1, Zenon DEF AmountPoints
    <3> QED  BY DEF AmountPoints
  <2> HIDE DEF ba
  <2> QED  BY <2>1
<1>11. AmountPoints(y.amount) = ba  BY <1>2
<1>12. DOMAIN y.recent = RapidBefore(i)  BY <1>3, <1>5
<1> HIDE DEF flagged, ba, bb, br, y
<1>13. Score(y) \in IF flagged THEN {ba + bb + br, ba + bb + br + 15} ELSE {ba + bb + br}
  <2> DEFINE g == FlaggedPoints(y.recent)
  <2>1. Score(y) = ba + bb + br + g  BY <1>7, <1>8, <1>11
  <2>2. g \in {0, 15}  BY <1>7
  <2>3. ~ flagged => g = 0  BY <1>7
  <2> HIDE DEF g
  <2> QED  BY <1>10, <2>1, <2>2, <2>3
<1>14. x.status = "FLAGGED" <=> score[n] >= 60  BY <1>8, <1>9
<1>15. score[n] \in IF IsNew(ledger, RiskKey(x.key)) THEN {0}
                    ELSE IF flagged THEN {ba + bb + br, ba + bb + br + 15} ELSE {ba + bb + br}
  BY <1>9, <1>13
<1> QED  BY <1>12, <1>14, <1>15 DEF flagged, ba, bb, br, y

\* Recent payments are those the sender made before, the score is the one that
\* the ledger's own history gives, and what reaches 60 is flagged
\* (fraud_agent.py:39 assess_transaction over the snapshot of
\* payment_domain_service.py:404 _transfer_snapshot).
THEOREM FlagsDeserved == Spec => []FlagsAreDeserved
<1>1. ReviewInv => FlagsAreDeserved
  BY PointsDeserved DEF FlagsAreDeserved
<1> QED  BY <1>1, ReviewInvariant, PTL
=============================================================================
