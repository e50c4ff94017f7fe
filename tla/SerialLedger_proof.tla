------------------------- MODULE SerialLedger_proof -------------------------
(***************************************************************************)
(* The properties of the payment aggregate hold for every set of users,    *)
(* keys and amounts, every limit and every number of clock set backs.      *)
(***************************************************************************)
EXTENDS SerialLedger, PaymentLedger_proof

-----------------------------------------------------------------------------
(* The inductive invariant.                                                *)

\* Nobody pays himself: neither a transaction nor a request has equal parties.
PayersDiffer(s) == \A n \in DOMAIN s.txns : s.txns[n].sender # s.txns[n].receiver
AskersDiffer(s) == \A r \in DOMAIN s.requests : s.requests[r].requester # s.requests[r].payer

PartiesDiffer == PayersDiffer(ledger) /\ AskersDiffer(ledger)

\* A recorded resolution has left its mark on the request.
ResolutionsMarked ==
    \A k \in DOMAIN ledger.records :
        LET c == ledger.records[k].cmd
            marked(status) == /\ c.request \in DOMAIN ledger.requests
                              /\ ledger.requests[c.request].status = status
        IN  /\ c.op = "approvePayment" => marked("APPROVED")
            /\ c.op = "rejectPayment" => marked("REJECTED")

\* Only finitely many transactions have been made.
FinitelyPaid == IsFiniteSet(DOMAIN ledger.txns)

\* Transactions of a window dated later than the clock stem from before a set
\* back, and each set back left at most a daily limit of them.
Later(u, start) ==
    {n \in SentWithin(ledger, u, start, start + Window) : ledger.txns[n].at > now}

LaterLimited ==
    \A u \in DOMAIN ledger.wallets, start \in 0..MaxTime :
        SumSent(ledger, Later(u, start)) <= setBacks * MaxDaily

HistoryInv == PartiesDiffer /\ ResolutionsMarked /\ OnePaymentPerKey /\ ResolvedOnce /\ AuditComplete
MoneyInv == FinitelyPaid /\ Reconciled /\ DailyLimitHolds /\ LaterLimited
-----------------------------------------------------------------------------
(* What an accepted command does to each collection, operation by          *)
(* operation, without its record and its events.                           *)

\* A debit and a credit between two users, recorded by one new transaction.
Paid(s, f, a, b, m, k, t) ==
    /\ a \in UserId /\ b \in UserId /\ a # b /\ m \in Nat
    /\ CanMove(s, a, b, m, t)
    /\ f.users = s.users
    /\ f.wallets = DebitAndCredit(s.wallets, a, b, m)
    /\ f.txns = Put(s.txns, Fresh(TxnId, s.txns), NewTransaction(a, b, m, k, t))

UsersKept(s, f) == f.users = s.users /\ f.wallets = s.wallets

CreateUserEffect(s, f, c) ==
    LET u == Fresh(UserId, s.users)
    IN  /\ CanCreateUser(s, c)
        /\ f.users = Put(s.users, u, c.phone) /\ f.wallets = Put(s.wallets, u, NewWallet)
        /\ f.txns = s.txns /\ f.requests = s.requests

TransferEffect(s, f, k, c, t) ==
    Paid(s, f, c.sender, c.receiver, c.amount, k, t) /\ f.requests = s.requests

RequestEffect(s, f, c, t) ==
    /\ CanRequestPayment(s, c) /\ c.requester # c.payer
    /\ f.requests = Put(s.requests, Fresh(RequestId, s.requests), NewRequest(c, t))
    /\ UsersKept(s, f) /\ f.txns = s.txns

ApproveEffect(s, f, k, c, t) ==
    LET q == s.requests[c.request]
    IN  /\ IsPending(s, c.request)
        /\ Paid(s, f, q.payer, q.requester, q.amount, k, t)
        /\ f.requests = Put(s.requests, c.request, Approved(q, Fresh(TxnId, s.txns)))

RejectEffect(s, f, c) ==
    /\ IsPending(s, c.request)
    /\ f.requests = Put(s.requests, c.request, Rejected(s.requests[c.request]))
    /\ UsersKept(s, f) /\ f.txns = s.txns

AnnotateEffect(s, f, c) ==
    /\ c.txn \in DOMAIN s.txns
    /\ f.txns = Put(s.txns, c.txn, WithStatus(s.txns[c.txn], c.status))
    /\ UsersKept(s, f) /\ f.requests = s.requests

\* The record and the events of a command that took effect.
Recorded(s, f, k, c, result) ==
    /\ f.records = Put(s.records, k, [cmd |-> c, result |-> result])
    /\ f.pending = s.pending \cup Events(k, Reports(c.op))

\* The result an operation records.
ResultOf(s, c) ==
    CASE c.op = "createUser"     -> Fresh(UserId, s.users)
      [] c.op = "transferMoney"  -> Fresh(TxnId, s.txns)
      [] c.op = "requestPayment" -> Fresh(RequestId, s.requests)
      [] c.op \in {"approvePayment", "rejectPayment"} -> c.request
      [] c.op = "annotateTransactionRisk" -> c.txn

\* Every accepted command has the effect of its operation and is recorded
\* together with its events (payment_domain_service.py:282 _record).
LEMMA Effects ==
    ASSUME NEW s, ApplicationState(s), AskersDiffer(s),
           NEW k \in Key, NEW c \in Command, NEW t \in 0..MaxTime, Accepts(s, c, t),
           NEW f, f = Apply(s, k, c, t)
    PROVE  /\ Recorded(s, f, k, c, ResultOf(s, c))
           /\ c.op = "createUser" => CreateUserEffect(s, f, c)
           /\ c.op = "transferMoney" => TransferEffect(s, f, k, c, t)
           /\ c.op = "requestPayment" => RequestEffect(s, f, c, t)
           /\ c.op = "approvePayment" => ApproveEffect(s, f, k, c, t)
           /\ c.op = "rejectPayment" => RejectEffect(s, f, c)
           /\ c.op = "annotateTransactionRisk" => AnnotateEffect(s, f, c)
<1>0. IsAggregate(s)  BY DEF ApplicationState
<1>1. CASE c.op = "createUser"
  <2> DEFINE u == Fresh(UserId, s.users)
  <2>1. CanCreateUser(s, c) /\ f = CreateUser(s, k, c)  BY <1>1, Dispatch
  <2>2. /\ IsAggregate(f)
        /\ f.users = Put(s.users, u, c.phone)
        /\ f.wallets = Put(s.wallets, u, NewWallet)
        /\ f.txns = s.txns /\ f.requests = s.requests
        /\ f.records = Put(s.records, k, [cmd |-> c, result |-> u])
        /\ f.pending = s.pending \cup Events(k, {"createUser"})
    BY <1>0, <2>1, CreateUserFields
  <2>3. Recorded(s, f, k, c, ResultOf(s, c))
    BY <1>1, <2>2 DEF Recorded, ResultOf, Reports
  <2> QED  BY <1>1, <2>1, <2>2, <2>3 DEF CreateUserEffect
<1>2. CASE c.op = "transferMoney"
  <2> DEFINE n == Fresh(TxnId, s.txns)
  <2>1. CanTransferMoney(s, c, t) /\ f = TransferMoney(s, k, c, t)  BY <1>2, Dispatch
  <2>2. /\ IsAggregate(f)
        /\ f.users = s.users /\ f.requests = s.requests
        /\ f.wallets = DebitAndCredit(s.wallets, c.sender, c.receiver, c.amount)
        /\ f.txns = Put(s.txns, n, NewTransaction(c.sender, c.receiver, c.amount, k, t))
        /\ f.records = Put(s.records, k, [cmd |-> c, result |-> n])
        /\ f.pending = s.pending \cup Events(k, {"transferMoney"})
    BY <1>0, <2>1, TransferMoneyFields
  <2>3. Recorded(s, f, k, c, ResultOf(s, c))
    BY <1>2, <2>2 DEF Recorded, ResultOf, Reports
  <2>4. /\ c.sender \in UserId /\ c.receiver \in UserId /\ c.amount \in Nat
        /\ c.sender # c.receiver
    BY <1>2, CommandKinds, LedgerAssumption DEF TransferCmd
  <2> QED  BY <1>2, <2>1, <2>2, <2>3, <2>4 DEF TransferEffect, Paid, CanTransferMoney
<1>3. CASE c.op = "requestPayment"
  <2> DEFINE r == Fresh(RequestId, s.requests)
  <2>1. CanRequestPayment(s, c) /\ f = RequestPayment(s, k, c, t)  BY <1>3, Dispatch
  <2>2. /\ IsAggregate(f)
        /\ f.users = s.users /\ f.wallets = s.wallets /\ f.txns = s.txns
        /\ f.requests = Put(s.requests, r, NewRequest(c, t))
        /\ f.records = Put(s.records, k, [cmd |-> c, result |-> r])
        /\ f.pending = s.pending \cup Events(k, {"requestPayment"})
    BY <1>0, <2>1, RequestPaymentFields
  <2>3. Recorded(s, f, k, c, ResultOf(s, c))
    BY <1>3, <2>2 DEF Recorded, ResultOf, Reports
  <2>4. c.requester # c.payer  BY <1>3, CommandKinds DEF RequestCmd
  <2> QED  BY <1>3, <2>1, <2>2, <2>3, <2>4 DEF RequestEffect, UsersKept
<1>4. CASE c.op = "approvePayment"
  <2> DEFINE q == s.requests[c.request]
             n == Fresh(TxnId, s.txns)
  <2>1. CanApprovePayment(s, c, t) /\ f = ApprovePayment(s, k, c, t)  BY <1>4, Dispatch
  <2>2. ApproveFields(s, f, k, c, t, q, n)  BY <1>0, <2>1, ApprovePaymentFields
  <2>3. /\ IsPending(s, c.request) /\ c.request \in DOMAIN s.requests
        /\ CanMove(s, q.payer, q.requester, q.amount, t)
    BY <2>1 DEF CanApprovePayment, IsPending
  <2>4. /\ q.payer \in UserId /\ q.requester \in UserId /\ q.amount \in Nat
        /\ q.payer # q.requester
    BY <2>3 DEF ApplicationState, PartialFcn, PaymentRequest, AskersDiffer
  <2>5. ResultOf(s, c) = c.request  BY <1>4 DEF ResultOf
  <2>6. Recorded(s, f, k, c, ResultOf(s, c))
    <3> HIDE DEF q, n
    <3> QED  BY <1>4, <2>2, <2>5 DEF Recorded, Reports, ApproveFields
  <2>7. ApproveEffect(s, f, k, c, t)
    <3>1. /\ f.requests = Put(s.requests, c.request, Approved(q, n))
          /\ Paid(s, f, q.payer, q.requester, q.amount, k, t)
      BY <2>2, <2>3, <2>4 DEF Paid, ApproveFields
    <3> QED  BY <2>3, <3>1 DEF ApproveEffect
  <2> QED  BY <1>4, <2>6, <2>7
<1>5. CASE c.op = "rejectPayment"
  <2>1. CanRejectPayment(s, c, t) /\ f = RejectPayment(s, k, c)  BY <1>5, Dispatch
  <2>2. /\ IsAggregate(f)
        /\ f.users = s.users /\ f.wallets = s.wallets /\ f.txns = s.txns
        /\ f.requests = Put(s.requests, c.request, Rejected(s.requests[c.request]))
        /\ f.records = Put(s.records, k, [cmd |-> c, result |-> c.request])
        /\ f.pending = s.pending \cup Events(k, {"rejectPayment"})
    BY <1>0, <2>1, RejectPaymentFields
  <2>3. Recorded(s, f, k, c, ResultOf(s, c))
    BY <1>5, <2>2 DEF Recorded, ResultOf, Reports
  <2> QED  BY <1>5, <2>1, <2>2, <2>3 DEF RejectEffect, UsersKept, CanRejectPayment
<1>6. CASE c.op = "annotateTransactionRisk"
  <2>1. CanAnnotate(s, c) /\ f = Annotate(s, k, c)  BY <1>6, Dispatch
  <2>2. /\ IsAggregate(f)
        /\ f.users = s.users /\ f.wallets = s.wallets /\ f.requests = s.requests
        /\ f.txns = Put(s.txns, c.txn, WithStatus(s.txns[c.txn], c.status))
        /\ f.records = Put(s.records, k, [cmd |-> c, result |-> c.txn])
        /\ f.pending = s.pending \cup Events(k, {"annotateTransactionRisk"})
    BY <1>0, <2>1, AnnotateFields
  <2>3. Recorded(s, f, k, c, ResultOf(s, c))
    BY <1>6, <2>2 DEF Recorded, ResultOf, Reports
  <2> QED  BY <1>6, <2>1, <2>2, <2>3 DEF AnnotateEffect, UsersKept, CanAnnotate
<1> QED  BY <1>1, <1>2, <1>3, <1>4, <1>5, <1>6, CommandKinds

-----------------------------------------------------------------------------
(* A command taking effect, seen from the properties.                      *)

\* What the properties say of the transactions is the same: a risk annotation
\* changes the status of one, most commands change none.
SamePayments(s, f) ==
    /\ DOMAIN f.txns = DOMAIN s.txns
    /\ \A n \in DOMAIN s.txns :
          [f.txns[n] EXCEPT !.status = "COMPLETED"] = [s.txns[n] EXCEPT !.status = "COMPLETED"]

SameParties(x, y) ==
    /\ x.sender = y.sender /\ x.receiver = y.receiver
    /\ x.amount = y.amount /\ x.at = y.at /\ x.key = y.key

\* Two transactions that differ in status only have the same parties, amount,
\* time and key.
LEMMA SamePaymentsFields ==
    ASSUME NEW s, ApplicationState(s), NEW f, ApplicationState(f), SamePayments(s, f)
    PROVE  \A n \in DOMAIN s.txns : SameParties(s.txns[n], f.txns[n])
<1> SUFFICES ASSUME NEW n \in DOMAIN s.txns PROVE SameParties(s.txns[n], f.txns[n])
  OBVIOUS
<1> DEFINE x == s.txns[n]
           y == f.txns[n]
<1>1. x \in Transaction /\ y \in Transaction
  BY DEF SamePayments, ApplicationState, PartialFcn
<1>2. [y EXCEPT !.status = "COMPLETED"] = [x EXCEPT !.status = "COMPLETED"]
  BY DEF SamePayments
<1> HIDE DEF x, y
<1>3. SameParties(x, y)  BY <1>1, <1>2 DEF SameParties, Transaction
<1> QED  BY <1>3 DEF x, y

\* Commands that move no money leave the transactions as they are.
LEMMA UnpaidKeepsPayments ==
    ASSUME NEW s, ApplicationState(s), NEW f, NEW c \in Command,
           \/ CreateUserEffect(s, f, c) \/ RejectEffect(s, f, c) \/ AnnotateEffect(s, f, c)
           \/ \E t : RequestEffect(s, f, c, t)
    PROVE  SamePayments(s, f)
<1>1. CASE AnnotateEffect(s, f, c)
  <2> DEFINE x == s.txns[c.txn]
  <2>1. x \in Transaction
    BY <1>1 DEF AnnotateEffect, ApplicationState, PartialFcn
  <2>2. /\ c.txn \in DOMAIN s.txns
        /\ f.txns = Put(s.txns, c.txn, WithStatus(x, c.status))
    BY <1>1 DEF AnnotateEffect
  <2> HIDE DEF x
  <2>3. [WithStatus(x, c.status) EXCEPT !.status = "COMPLETED"]
          = [x EXCEPT !.status = "COMPLETED"]
    BY <2>1 DEF WithStatus, Transaction
  <2> QED  BY <2>2, <2>3 DEF SamePayments, Put, x
<1>2. CASE f.txns = s.txns
  BY <1>2 DEF SamePayments
<1> QED  BY <1>1, <1>2 DEF CreateUserEffect, RejectEffect, RequestEffect

\* A payment adds one transaction and touches no other.
LEMMA PaidAddsOne ==
    ASSUME NEW s, NEW f, NEW a, NEW b, NEW m, NEW k, NEW t, Paid(s, f, a, b, m, k, t)
    PROVE  LET n == Fresh(TxnId, s.txns)
           IN  /\ n \in TxnId /\ n \notin DOMAIN s.txns
               /\ DOMAIN f.txns = DOMAIN s.txns \cup {n}
               /\ f.txns[n] = NewTransaction(a, b, m, k, t)
               /\ \A x \in DOMAIN s.txns : f.txns[x] = s.txns[x]
BY FreshIsUnused DEF Paid, CanMove, Put

\* What a request keeps and how it may change.
RequestsKept(s, f) ==
    \A r \in DOMAIN s.requests :
        /\ r \in DOMAIN f.requests
        /\ s.requests[r].status # "PENDING" => f.requests[r] = s.requests[r]
        /\ f.requests[r].requester = s.requests[r].requester
        /\ f.requests[r].payer = s.requests[r].payer

\* A command resolves at most the pending request it names.
LEMMA ExecuteKeepsRequests ==
    ASSUME NEW s, ApplicationState(s), AskersDiffer(s),
           NEW k \in Key, NEW c \in Command, NEW t \in 0..MaxTime, Accepts(s, c, t),
           NEW f, f = Apply(s, k, c, t)
    PROVE  RequestsKept(s, f) /\ AskersDiffer(f)
<1>1. CASE c.op = "requestPayment"
  <2> DEFINE r == Fresh(RequestId, s.requests)
  <2>1. RequestEffect(s, f, c, t)  BY <1>1, Effects
  <2>2. r \notin DOMAIN s.requests
    BY <2>1, FreshIsUnused DEF RequestEffect, CanRequestPayment
  <2>3. /\ f.requests = Put(s.requests, r, NewRequest(c, t))
        /\ c.requester # c.payer
    BY <2>1 DEF RequestEffect
  <2> HIDE DEF r
  <2>4. RequestsKept(s, f)  BY <2>2, <2>3 DEF RequestsKept, Put
  <2>5. NewRequest(c, t).requester # NewRequest(c, t).payer  BY <2>3 DEF NewRequest
  <2> QED  BY <2>3, <2>4, <2>5 DEF AskersDiffer, Put
<1>2. CASE c.op \in {"approvePayment", "rejectPayment"}
  <2> DEFINE q == s.requests[c.request]
  <2>1. PICK x : /\ f.requests = Put(s.requests, c.request, x)
                 /\ x = Rejected(q) \/ \E n : x = Approved(q, n)
    BY <1>2, Effects DEF ApproveEffect, RejectEffect
  <2>2. IsPending(s, c.request)  BY <1>2, Effects DEF ApproveEffect, RejectEffect
  <2>3. c.request \in DOMAIN s.requests /\ q.status = "PENDING" /\ q \in PaymentRequest
    BY <2>2 DEF IsPending, ApplicationState, PartialFcn
  <2>4. q.requester # q.payer  BY <2>3 DEF AskersDiffer
  <2>5. x.requester = q.requester /\ x.payer = q.payer
    <3> HIDE DEF q
    <3> QED  BY <2>1, <2>3 DEF Approved, Rejected, PaymentRequest
  <2>6. RequestsKept(s, f)  BY <2>1, <2>3, <2>5 DEF RequestsKept, Put
  <2> QED  BY <2>1, <2>3, <2>4, <2>5, <2>6 DEF AskersDiffer, Put
<1>3. CASE c.op \in {"createUser", "transferMoney", "annotateTransactionRisk"}
  <2>1. f.requests = s.requests
    BY <1>3, Effects DEF CreateUserEffect, TransferEffect, AnnotateEffect
  <2> QED  BY <2>1 DEF RequestsKept, AskersDiffer
<1> QED  BY <1>1, <1>2, <1>3, CommandKinds

\* A command either moves money once or leaves every payment as it is.
LEMMA ExecutePays ==
    ASSUME NEW s, ApplicationState(s), AskersDiffer(s),
           NEW k \in Key, NEW c \in Command, NEW t \in 0..MaxTime, Accepts(s, c, t),
           NEW f, f = Apply(s, k, c, t)
    PROVE  /\ MovesMoney(c) => \E a, b, m : Paid(s, f, a, b, m, k, t)
           /\ ~ MovesMoney(c) =>
                /\ SamePayments(s, f)
                /\ \A n \in DOMAIN s.txns : SameParties(s.txns[n], f.txns[n])
<1>1. CASE MovesMoney(c)
  BY <1>1, Effects DEF MovesMoney, TransferEffect, ApproveEffect
<1>2. CASE ~ MovesMoney(c)
  <2>1. SamePayments(s, f)
    BY <1>2, Effects, UnpaidKeepsPayments, CommandKinds, Zenon DEF MovesMoney
  <2>2. ApplicationState(f)  BY ApplyKeepsState
  <2> QED  BY <1>2, <2>1, <2>2, SamePaymentsFields
<1> QED  BY <1>1, <1>2

-----------------------------------------------------------------------------
(* Each invariant is preserved by a command taking effect.                 *)

\* What a step that executes a command under a key without a record does to
\* records and events.
TookEffect(k, c) ==
    /\ ApplicationState(ledger) /\ ApplicationState(ledger') /\ now \in 0..MaxTime
    /\ AskersDiffer(ledger) /\ Accepts(ledger, c, now)
    /\ ledger' = Apply(ledger, k, c, now) /\ UNCHANGED <<acked, now>>
    /\ k \notin DOMAIN ledger.records
    /\ DOMAIN ledger'.records = DOMAIN ledger.records \cup {k}
    /\ ledger'.records[k].cmd = c
    /\ ledger'.records[k].result = ResultOf(ledger, c)
    /\ \A j \in DOMAIN ledger.records : ledger'.records[j] = ledger.records[j]
    /\ ledger'.pending = ledger.pending \cup Events(k, Reports(c.op))

\* What a command that is accepted does to the aggregate, all in one.
LEMMA ExecuteStep ==
    ASSUME TypeOK, PartiesDiffer, NEW k \in Key, NEW c \in Command, Execute(k, c)
    PROVE  TookEffect(k, c)
<1>1. /\ ApplicationState(ledger) /\ now \in 0..MaxTime
      /\ AskersDiffer(ledger) /\ Accepts(ledger, c, now)
      /\ ledger' = Apply(ledger, k, c, now) /\ UNCHANGED <<acked, now>>
      /\ k \notin DOMAIN ledger.records
  BY DEF TypeOK, PartiesDiffer, Execute
<1>2. ApplicationState(ledger')  BY <1>1, ApplyKeepsState
<1>3. Recorded(ledger, ledger', k, c, ResultOf(ledger, c))  BY <1>1, Effects
<1>4. ledger'.records[k] = [cmd |-> c, result |-> ResultOf(ledger, c)]
  BY <1>3 DEF Recorded, Put
<1> QED  BY <1>1, <1>2, <1>3, <1>4 DEF Recorded, Put, TookEffect

\* Every event stays with its command.
LEMMA ExecuteAudits ==
    ASSUME TypeOK, PartiesDiffer, AuditComplete,
           NEW k \in Key, NEW c \in Command, Execute(k, c)
    PROVE  AuditComplete'
<1> DEFINE R == ledger.records
           Q == ledger'.records
<1>1. /\ k \notin DOMAIN R /\ DOMAIN Q = DOMAIN R \cup {k} /\ Q[k].cmd = c
      /\ \A j \in DOMAIN R : Q[j] = R[j]
      /\ ledger'.pending = ledger.pending \cup Events(k, Reports(c.op))
  BY ExecuteStep DEF TookEffect
<1>2. ledger.pending = UNION {Events(j, Reports(R[j].cmd.op)) : j \in DOMAIN R}
  BY DEF AuditComplete
<1> HIDE DEF R, Q
<1>3. ledger'.pending = UNION {Events(j, Reports(Q[j].cmd.op)) : j \in DOMAIN Q}
  BY <1>1, <1>2
<1> QED  BY <1>3 DEF AuditComplete, Q

\* A resolution marks its request, and no later command changes the mark: so a
\* second resolution finds the request resolved.
LEMMA ExecuteResolvesOnce ==
    ASSUME TypeOK, PartiesDiffer, ResolutionsMarked, ResolvedOnce,
           NEW k \in Key, NEW c \in Command, Execute(k, c)
    PROVE  ResolutionsMarked' /\ ResolvedOnce'
<1>1. /\ k \notin DOMAIN ledger.records
      /\ DOMAIN ledger'.records = DOMAIN ledger.records \cup {k}
      /\ ledger'.records[k].cmd = c
      /\ \A j \in DOMAIN ledger.records : ledger'.records[j] = ledger.records[j]
  BY ExecuteStep DEF TookEffect
<1>2. RequestsKept(ledger, ledger')  BY ExecuteStep, ExecuteKeepsRequests DEF TookEffect
<1>3. /\ c.op = "approvePayment" => ApproveEffect(ledger, ledger', k, c, now)
      /\ c.op = "rejectPayment" => RejectEffect(ledger, ledger', c)
  BY ExecuteStep, Effects DEF TookEffect
<1>4. c.op \in {"approvePayment", "rejectPayment"} =>
        c.request \in DOMAIN ledger.requests /\ ledger.requests[c.request].status = "PENDING"
  BY <1>3 DEF ApproveEffect, RejectEffect, IsPending
<1>5. /\ c.op = "approvePayment" => ledger'.requests[c.request].status = "APPROVED"
      /\ c.op = "rejectPayment" => ledger'.requests[c.request].status = "REJECTED"
  <2> DEFINE q == ledger.requests[c.request]
  <2> SUFFICES ASSUME c.op \in {"approvePayment", "rejectPayment"}
               PROVE  /\ c.op = "approvePayment" =>
                            ledger'.requests[c.request].status = "APPROVED"
                      /\ c.op = "rejectPayment" =>
                            ledger'.requests[c.request].status = "REJECTED"
    OBVIOUS
  <2>1. q \in PaymentRequest  BY <1>4, ExecuteStep DEF TookEffect, ApplicationState, PartialFcn
  <2>2. /\ c.op = "approvePayment" => \E n : ledger'.requests[c.request] = Approved(q, n)
        /\ c.op = "rejectPayment" => ledger'.requests[c.request] = Rejected(q)
    BY <1>3 DEF ApproveEffect, RejectEffect, Put
  <2> HIDE DEF q
  <2> QED  BY <2>1, <2>2 DEF Approved, Rejected, PaymentRequest
<1>6. ResolutionsMarked'
  <2> SUFFICES ASSUME NEW j \in DOMAIN ledger'.records,
                      NEW d, d = ledger'.records[j].cmd
               PROVE  /\ d.op = "approvePayment" =>
                            /\ d.request \in DOMAIN ledger'.requests
                            /\ ledger'.requests[d.request].status = "APPROVED"
                      /\ d.op = "rejectPayment" =>
                            /\ d.request \in DOMAIN ledger'.requests
                            /\ ledger'.requests[d.request].status = "REJECTED"
    BY DEF ResolutionsMarked
  <2>1. CASE j = k  BY <1>1, <1>2, <1>4, <1>5, <2>1 DEF RequestsKept
  <2>2. CASE j # k
    <3>1. j \in DOMAIN ledger.records /\ d = ledger.records[j].cmd  BY <1>1, <2>2
    <3>2. /\ d.op = "approvePayment" =>
               /\ d.request \in DOMAIN ledger.requests
               /\ ledger.requests[d.request].status = "APPROVED"
          /\ d.op = "rejectPayment" =>
               /\ d.request \in DOMAIN ledger.requests
               /\ ledger.requests[d.request].status = "REJECTED"
      BY <3>1 DEF ResolutionsMarked
    <3> QED  BY <1>2, <3>2 DEF RequestsKept
  <2> QED  BY <2>1, <2>2
<1>7. ResolvedOnce'
  <2>1. \A j \in DOMAIN ledger.records :
          LET d == ledger.records[j].cmd
          IN  /\ d.op \in {"approvePayment", "rejectPayment"}
              /\ c.op \in {"approvePayment", "rejectPayment"}
              => d.request # c.request
    BY <1>4 DEF ResolutionsMarked
  <2> QED  BY <1>1, <2>1 DEF ResolvedOnce
<1> QED  BY <1>6, <1>7

\* A payment is made under the key of its command, which no earlier payment
\* has.
LEMMA ExecutePaysOncePerKey ==
    ASSUME TypeOK, PartiesDiffer, ResolutionsMarked, OnePaymentPerKey,
           NEW k \in Key, NEW c \in Command, Execute(k, c)
    PROVE  OnePaymentPerKey'
<1>1. TookEffect(k, c)  BY ExecuteStep
<1>2. /\ \A n \in DOMAIN ledger.txns :
            /\ n \in DOMAIN ledger'.txns
            /\ ledger'.txns[n].key = ledger.txns[n].key
      /\ \A n \in DOMAIN ledger'.txns \ DOMAIN ledger.txns :
            /\ MovesMoney(c) /\ n = Fresh(TxnId, ledger.txns)
            /\ ledger'.txns[n].key = k
      /\ MovesMoney(c) => Fresh(TxnId, ledger.txns) \in DOMAIN ledger'.txns \ DOMAIN ledger.txns
  <2>1. CASE MovesMoney(c)
    <3>1. PICK a, b, m : Paid(ledger, ledger', a, b, m, k, now)
      BY <1>1, <2>1, ExecutePays DEF TookEffect
    <3> DEFINE n == Fresh(TxnId, ledger.txns)
    <3>2. /\ n \in TxnId /\ n \notin DOMAIN ledger.txns
          /\ DOMAIN ledger'.txns = DOMAIN ledger.txns \cup {n}
          /\ ledger'.txns[n] = NewTransaction(a, b, m, k, now)
          /\ \A x \in DOMAIN ledger.txns : ledger'.txns[x] = ledger.txns[x]
      BY <3>1, PaidAddsOne
    <3> QED  BY <2>1, <3>2 DEF NewTransaction
  <2>2. CASE ~ MovesMoney(c)
    <3>1. /\ SamePayments(ledger, ledger')
          /\ \A n \in DOMAIN ledger.txns : SameParties(ledger.txns[n], ledger'.txns[n])
      BY <1>1, <2>2, ExecutePays DEF TookEffect
    <3> QED  BY <2>2, <3>1 DEF SamePayments, SameParties
  <2> QED  BY <2>1, <2>2
<1>3. /\ \A n \in DOMAIN ledger.txns :
            /\ ledger.txns[n].key \in DOMAIN ledger.records
            /\ MovesMoney(ledger.records[ledger.txns[n].key].cmd)
      /\ \A m, n \in DOMAIN ledger.txns :
            ledger.txns[m].key = ledger.txns[n].key => m = n
  BY DEF OnePaymentPerKey
<1>4. /\ k \notin DOMAIN ledger.records
      /\ DOMAIN ledger'.records = DOMAIN ledger.records \cup {k}
      /\ ledger'.records[k].cmd = c
      /\ ledger'.records[k].result = ResultOf(ledger, c)
      /\ \A j \in DOMAIN ledger.records : ledger'.records[j] = ledger.records[j]
  BY <1>1 DEF TookEffect
<1>5. \A n \in DOMAIN ledger'.txns :
         /\ ledger'.txns[n].key \in DOMAIN ledger'.records
         /\ MovesMoney(ledger'.records[ledger'.txns[n].key].cmd)
  BY <1>2, <1>3, <1>4
<1>6. \A m, n \in DOMAIN ledger'.txns :
         ledger'.txns[m].key = ledger'.txns[n].key => m = n
  BY <1>2, <1>3, <1>4
<1>7. ASSUME NEW j \in DOMAIN ledger'.records
      PROVE  LET rec == ledger'.records[j]
                 paid(n) == n \in DOMAIN ledger'.txns /\ ledger'.txns[n].key = j
             IN  /\ rec.cmd.op = "transferMoney" => paid(rec.result)
                 /\ rec.cmd.op = "approvePayment" =>
                      /\ rec.cmd.request \in DOMAIN ledger'.requests
                      /\ paid(ledger'.requests[rec.cmd.request].txn)
  <2>1. CASE j = k
    <3>1. CASE c.op = "transferMoney"
      <4>1. MovesMoney(c) /\ ResultOf(ledger, c) = Fresh(TxnId, ledger.txns)
        BY <3>1 DEF MovesMoney, ResultOf
      <4> QED  BY <1>2, <1>4, <2>1, <3>1, <4>1
    <3>2. CASE c.op = "approvePayment"
      <4> DEFINE q == ledger.requests[c.request]
                 n == Fresh(TxnId, ledger.txns)
      <4>1. ApproveEffect(ledger, ledger', k, c, now)
        BY <1>1, <3>2, Effects DEF TookEffect
      <4>2. /\ c.request \in DOMAIN ledger.requests
            /\ ledger'.requests = Put(ledger.requests, c.request, Approved(q, n))
        BY <4>1 DEF ApproveEffect, IsPending
      <4>3. q \in PaymentRequest
        BY <1>1, <4>2 DEF TookEffect, ApplicationState, PartialFcn
      <4> HIDE DEF q, n
      <4>4. c.request \in DOMAIN ledger'.requests /\ ledger'.requests[c.request].txn = n
        BY <4>2, <4>3 DEF Put, Approved, PaymentRequest
      <4>5. MovesMoney(c)  BY <3>2 DEF MovesMoney
      <4> QED  BY <1>2, <1>4, <2>1, <3>2, <4>4, <4>5 DEF n
    <3> QED  BY <1>4, <2>1, <3>1, <3>2
  <2>2. CASE j # k
    <3>1. j \in DOMAIN ledger.records /\ ledger'.records[j] = ledger.records[j]
      BY <1>4, <2>2
    <3>2. RequestsKept(ledger, ledger')  BY <1>1, ExecuteKeepsRequests DEF TookEffect
    <3> DEFINE rec == ledger.records[j]
    <3>3. rec.cmd.op = "approvePayment" =>
             /\ rec.cmd.request \in DOMAIN ledger.requests
             /\ ledger.requests[rec.cmd.request].status = "APPROVED"
             /\ ledger.requests[rec.cmd.request].txn \in DOMAIN ledger.txns
             /\ ledger.txns[ledger.requests[rec.cmd.request].txn].key = j
      BY <3>1 DEF ResolutionsMarked, OnePaymentPerKey
    <3>4. rec.cmd.op = "transferMoney" =>
             rec.result \in DOMAIN ledger.txns /\ ledger.txns[rec.result].key = j
      BY <3>1 DEF OnePaymentPerKey
    <3> HIDE DEF rec
    <3>5. rec.cmd.op = "approvePayment" =>
             /\ rec.cmd.request \in DOMAIN ledger'.requests
             /\ ledger'.requests[rec.cmd.request] = ledger.requests[rec.cmd.request]
      BY <3>2, <3>3 DEF RequestsKept
    <3> QED  BY <1>2, <3>1, <3>3, <3>4, <3>5 DEF rec
  <2> QED  BY <2>1, <2>2
<1> QED  BY <1>5, <1>6, <1>7, Zenon DEF OnePaymentPerKey

\* Neither a new transaction nor a new request has equal parties.
LEMMA ExecuteKeepsParties ==
    ASSUME TypeOK, PartiesDiffer, NEW k \in Key, NEW c \in Command, Execute(k, c)
    PROVE  PartiesDiffer'
<1>1. TookEffect(k, c)  BY ExecuteStep
<1>2. AskersDiffer(ledger')  BY <1>1, ExecuteKeepsRequests DEF TookEffect
<1>3. PayersDiffer(ledger)  BY DEF PartiesDiffer
<1>4. PayersDiffer(ledger')
  <2>1. CASE MovesMoney(c)
    <3>1. PICK a, b, m : Paid(ledger, ledger', a, b, m, k, now)
      BY <1>1, <2>1, ExecutePays DEF TookEffect
    <3> DEFINE n == Fresh(TxnId, ledger.txns)
    <3>2. /\ n \in TxnId /\ n \notin DOMAIN ledger.txns
          /\ DOMAIN ledger'.txns = DOMAIN ledger.txns \cup {n}
          /\ ledger'.txns[n] = NewTransaction(a, b, m, k, now)
          /\ \A x \in DOMAIN ledger.txns : ledger'.txns[x] = ledger.txns[x]
      BY <3>1, PaidAddsOne
    <3>3. a # b  BY <3>1 DEF Paid
    <3> QED  BY <1>3, <3>2, <3>3 DEF NewTransaction, PayersDiffer
  <2>2. CASE ~ MovesMoney(c)
    <3>1. /\ SamePayments(ledger, ledger')
          /\ \A n \in DOMAIN ledger.txns : SameParties(ledger.txns[n], ledger'.txns[n])
      BY <1>1, <2>2, ExecutePays DEF TookEffect
    <3> QED  BY <1>3, <3>1 DEF SamePayments, SameParties, PayersDiffer
  <2> QED  BY <2>1, <2>2
<1> QED  BY <1>2, <1>4 DEF PartiesDiffer

\* A command leaves an aggregate that validate_invariants accepts: the users it
\* names are registered, and an approval points to the payment it caused.
LEMMA ExecuteKeepsValid ==
    ASSUME TypeOK, PartiesDiffer, ValidState, NEW k \in Key, NEW c \in Command, Execute(k, c)
    PROVE  ValidState'
<1> DEFINE s == ledger
           f == ledger'
<1>1. TookEffect(k, c)  BY ExecuteStep
<1>2. ApplicationState(s) /\ ApplicationState(f) /\ AskersDiffer(s)  BY <1>1 DEF TookEffect
<1>3. /\ c.op = "createUser" => CreateUserEffect(s, f, c)
      /\ c.op = "transferMoney" => TransferEffect(s, f, k, c, now)
      /\ c.op = "requestPayment" => RequestEffect(s, f, c, now)
      /\ c.op = "approvePayment" => ApproveEffect(s, f, k, c, now)
      /\ c.op = "rejectPayment" => RejectEffect(s, f, c)
      /\ c.op = "annotateTransactionRisk" => AnnotateEffect(s, f, c)
  BY <1>1, Effects DEF TookEffect
<1>4. /\ MovesMoney(c) => \E a, b, m : Paid(s, f, a, b, m, k, now)
      /\ ~ MovesMoney(c) =>
           /\ SamePayments(s, f)
           /\ \A n \in DOMAIN s.txns : SameParties(s.txns[n], f.txns[n])
  BY <1>1, ExecutePays DEF TookEffect
<1>5. /\ \A u, v \in DOMAIN s.users : s.users[u] = s.users[v] => u = v
      /\ DOMAIN s.users = DOMAIN s.wallets
      /\ \A n \in DOMAIN s.txns :
            s.txns[n].sender \in DOMAIN s.users /\ s.txns[n].receiver \in DOMAIN s.users
      /\ \A r \in DOMAIN s.requests :
            /\ s.requests[r].requester \in DOMAIN s.users
            /\ s.requests[r].payer \in DOMAIN s.users
            /\ s.requests[r].status = "APPROVED" =>
                 /\ s.requests[r].txn \in DOMAIN s.txns
                 /\ s.txns[s.requests[r].txn].sender = s.requests[r].payer
                 /\ s.txns[s.requests[r].txn].receiver = s.requests[r].requester
                 /\ s.txns[s.requests[r].txn].amount = s.requests[r].amount
  BY DEF ValidState, Validates
<1>6. c.op \in {"createUser", "transferMoney", "requestPayment",
                "approvePayment", "rejectPayment", "annotateTransactionRisk"}
  BY CommandKinds
<1> HIDE DEF s, f
\* Users only come with a wallet and a phone of their own.
<1>7. /\ \A u, v \in DOMAIN f.users : f.users[u] = f.users[v] => u = v
      /\ DOMAIN f.users = DOMAIN f.wallets
      /\ DOMAIN s.users \subseteq DOMAIN f.users
  <2>1. CASE c.op = "createUser"
    BY <1>3, <1>5, <2>1 DEF CreateUserEffect, CanCreateUser, Put
  <2>2. CASE f.users = s.users /\ DOMAIN f.wallets = DOMAIN s.wallets
    BY <1>5, <2>2
  <2>3. CASE MovesMoney(c)
    BY <1>4, <2>2, <2>3 DEF Paid, DebitAndCredit
  <2>4. CASE c.op \in {"requestPayment", "rejectPayment", "annotateTransactionRisk"}
    BY <1>3, <2>2, <2>4 DEF RequestEffect, RejectEffect, AnnotateEffect, UsersKept
  <2> QED  BY <1>6, <2>1, <2>3, <2>4 DEF MovesMoney
\* Transactions keep their parties, and a new one is between users.
<1>8. /\ \A n \in DOMAIN f.txns :
            f.txns[n].sender \in DOMAIN f.users /\ f.txns[n].receiver \in DOMAIN f.users
      /\ \A n \in DOMAIN s.txns : n \in DOMAIN f.txns /\ SameParties(s.txns[n], f.txns[n])
  <2>1. CASE MovesMoney(c)
    <3>1. PICK a, b, m : Paid(s, f, a, b, m, k, now)
      BY <1>4, <2>1
    <3> DEFINE n == Fresh(TxnId, s.txns)
    <3>2. /\ n \in TxnId /\ n \notin DOMAIN s.txns
          /\ DOMAIN f.txns = DOMAIN s.txns \cup {n}
          /\ f.txns[n] = NewTransaction(a, b, m, k, now)
          /\ \A x \in DOMAIN s.txns : f.txns[x] = s.txns[x]
      BY <3>1, PaidAddsOne
    <3>3. a \in DOMAIN s.users /\ b \in DOMAIN s.users  BY <3>1 DEF Paid, CanMove
    <3> QED  BY <1>5, <1>7, <3>2, <3>3 DEF NewTransaction, SameParties
  <2>2. CASE ~ MovesMoney(c)
    BY <1>4, <1>5, <1>7, <2>2 DEF SamePayments, SameParties
  <2> QED  BY <2>1, <2>2
<1> DEFINE Linked(q) ==
      /\ q.requester \in DOMAIN f.users
      /\ q.payer \in DOMAIN f.users
      /\ q.status = "APPROVED" =>
           /\ q.txn \in DOMAIN f.txns
           /\ f.txns[q.txn].sender = q.payer
           /\ f.txns[q.txn].receiver = q.requester
           /\ f.txns[q.txn].amount = q.amount
<1>9. \A r \in DOMAIN s.requests : Linked(s.requests[r])
  BY <1>5, <1>7, <1>8 DEF SameParties
\* Requests keep their parties, and one that is approved gets its payment.
<1>10. \A r \in DOMAIN f.requests : Linked(f.requests[r])
  <2>1. CASE c.op = "requestPayment"
    <3> DEFINE r == Fresh(RequestId, s.requests)
    <3>1. /\ f.requests = Put(s.requests, r, NewRequest(c, now))
          /\ {c.requester, c.payer} \subseteq DOMAIN s.users
      BY <1>3, <2>1 DEF RequestEffect, CanRequestPayment
    <3>2. Linked(NewRequest(c, now))  BY <1>7, <3>1 DEF NewRequest
    <3> HIDE DEF Linked, r
    <3> QED  BY <1>9, <3>1, <3>2 DEF Put
  <2>2. CASE c.op = "approvePayment"
    <3> DEFINE q == s.requests[c.request]
               n == Fresh(TxnId, s.txns)
    <3>1. /\ f.requests = Put(s.requests, c.request, Approved(q, n))
          /\ c.request \in DOMAIN s.requests
          /\ Paid(s, f, q.payer, q.requester, q.amount, k, now)
      BY <1>3, <2>2 DEF ApproveEffect, IsPending
    <3>2. q \in PaymentRequest  BY <1>2, <3>1 DEF ApplicationState, PartialFcn
    <3>3. /\ n \in TxnId /\ n \notin DOMAIN s.txns
          /\ DOMAIN f.txns = DOMAIN s.txns \cup {n}
          /\ f.txns[n] = NewTransaction(q.payer, q.requester, q.amount, k, now)
          /\ \A x \in DOMAIN s.txns : f.txns[x] = s.txns[x]
      BY <3>1, PaidAddsOne
    <3>4. Linked(q)  BY <1>9, <3>1
    <3> HIDE DEF q, n
    <3>5. LET x == Approved(q, n)
          IN  /\ x.requester = q.requester /\ x.payer = q.payer
              /\ x.amount = q.amount /\ x.txn = n
      BY <3>2 DEF Approved, PaymentRequest
    <3>6. Linked(Approved(q, n))  BY <3>3, <3>4, <3>5 DEF NewTransaction
    <3> HIDE DEF Linked
    <3> QED  BY <1>9, <3>1, <3>6 DEF Put
  <2>3. CASE c.op = "rejectPayment"
    <3> DEFINE q == s.requests[c.request]
    <3>1. /\ f.requests = Put(s.requests, c.request, Rejected(q))
          /\ c.request \in DOMAIN s.requests
      BY <1>3, <2>3 DEF RejectEffect, IsPending
    <3>2. q \in PaymentRequest  BY <1>2, <3>1 DEF ApplicationState, PartialFcn
    <3>3. Linked(q)  BY <1>9, <3>1
    <3> HIDE DEF q
    <3>4. LET x == Rejected(q)
          IN  /\ x.requester = q.requester /\ x.payer = q.payer
              /\ x.status = "REJECTED"
      BY <3>2 DEF Rejected, PaymentRequest
    <3>5. Linked(Rejected(q))  BY <3>3, <3>4
    <3> HIDE DEF Linked
    <3> QED  BY <1>9, <3>1, <3>5 DEF Put
  <2>4. CASE c.op \in {"createUser", "transferMoney", "annotateTransactionRisk"}
    <3>1. f.requests = s.requests
      BY <1>3, <2>4 DEF CreateUserEffect, TransferEffect, AnnotateEffect
    <3> QED  BY <1>9, <3>1
  <2> QED  BY <1>6, <2>1, <2>2, <2>3, <2>4
<1> QED  BY <1>7, <1>8, <1>10 DEF ValidState, Validates, f

-----------------------------------------------------------------------------
(* Money.                                                                  *)

\* Any transactions of an aggregate with finitely many can be summed.
LEMMA AllSummable ==
    ASSUME NEW s, ApplicationState(s), IsFiniteSet(DOMAIN s.txns), NEW ns \in SUBSET DOMAIN s.txns
    PROVE  Summable(s, ns)
<1>1. IsFiniteSet(ns)  BY FS_Subset
<1>2. \A n \in DOMAIN s.txns : s.txns[n] \in Transaction
  BY DEF ApplicationState, PartialFcn
<1>3. \A n \in ns : s.txns[n].amount \in Nat  BY <1>2 DEF Transaction
<1> QED  BY <1>1, <1>3 DEF Summable

\* How sums change with one more payment m.
PaidSums(s, f, n, m) ==
    \A ns \in SUBSET DOMAIN s.txns :
        /\ SumSent(s, ns) \in Nat
        /\ SumSent(f, ns) = SumSent(s, ns)
        /\ SumSent(f, ns \cup {n}) = SumSent(s, ns) + m
        /\ Cardinality(ns) \in Nat
        /\ Cardinality(ns \cup {n}) = Cardinality(ns) + 1

\* The new transaction adds its amount to the sums it belongs to, and only to
\* those.
LEMMA PaidChangesSums ==
    ASSUME NEW s, ApplicationState(s), NEW f, ApplicationState(f), IsFiniteSet(DOMAIN s.txns),
           NEW a, NEW b, NEW m, NEW k, NEW t, Paid(s, f, a, b, m, k, t)
    PROVE  /\ IsFiniteSet(DOMAIN f.txns)
           /\ PaidSums(s, f, Fresh(TxnId, s.txns), m)
<1> DEFINE n == Fresh(TxnId, s.txns)
<1>1. /\ n \in TxnId /\ n \notin DOMAIN s.txns
      /\ DOMAIN f.txns = DOMAIN s.txns \cup {n}
      /\ f.txns[n] = NewTransaction(a, b, m, k, t)
      /\ \A x \in DOMAIN s.txns : f.txns[x] = s.txns[x]
  BY PaidAddsOne
<1> HIDE DEF n
<1>2. IsFiniteSet(DOMAIN f.txns)  BY <1>1, FS_AddElement
<1>3. f.txns[n].amount = m  BY <1>1 DEF NewTransaction
<1>4. PaidSums(s, f, n, m)
  <2> SUFFICES ASSUME NEW ns \in SUBSET DOMAIN s.txns
               PROVE  /\ SumSent(s, ns) \in Nat
                      /\ SumSent(f, ns) = SumSent(s, ns)
                      /\ SumSent(f, ns \cup {n}) = SumSent(s, ns) + m
                      /\ Cardinality(ns) \in Nat
                      /\ Cardinality(ns \cup {n}) = Cardinality(ns) + 1
    BY DEF PaidSums
  <2>1. Summable(s, ns)  BY AllSummable
  <2>2. SumSent(s, ns) \in Nat  BY <2>1, SumNat
  <2>3. SumSent(f, ns) = SumSent(s, ns)  BY <1>1, <2>1, SumSame
  <2>4. n \notin ns /\ ns \cup {n} \in SUBSET DOMAIN f.txns  BY <1>1
  <2>5. Summable(f, ns \cup {n})  BY <1>2, <2>4, AllSummable
  <2>6. SumSent(f, ns \cup {n}) = SumSent(f, ns) + f.txns[n].amount
    BY <2>4, <2>5, SumAdd
  <2>7. IsFiniteSet(ns)  BY <2>1 DEF Summable
  <2>8. Cardinality(ns) \in Nat  BY <2>7, FS_CardinalityType
  <2>9. Cardinality(ns \cup {n}) = Cardinality(ns) + 1  BY <2>4, <2>7, FS_AddElement
  <2> QED  BY <1>3, <2>2, <2>3, <2>6, <2>8, <2>9
<1> QED  BY <1>2, <1>4 DEF n

\* With the same payments every sum is the same.
LEMMA SameSums ==
    ASSUME NEW s, ApplicationState(s), IsFiniteSet(DOMAIN s.txns), NEW f,
           \A n \in DOMAIN s.txns : SameParties(s.txns[n], f.txns[n]),
           NEW ns \in SUBSET DOMAIN s.txns
    PROVE  SumSent(f, ns) = SumSent(s, ns)
BY AllSummable, SumSame DEF SameParties

\* The transactions a user paid and was paid by, and what they did to the wallet.
PaidBy(s, u) == {n \in DOMAIN s.txns : s.txns[n].sender = u}
PaidTo(s, u) == {n \in DOMAIN s.txns : s.txns[n].receiver = u}

Balanced(s, u) ==
    /\ s.wallets[u].balance + SumSent(s, PaidBy(s, u)) = InitialBalance + SumSent(s, PaidTo(s, u))
    /\ s.wallets[u].version = Cardinality(PaidBy(s, u)) + Cardinality(PaidTo(s, u))

\* Reconciliation, wallet by wallet.
LEMMA ReconciledIsBalanced == Reconciled <=> \A u \in DOMAIN ledger.wallets : Balanced(ledger, u)
BY DEF Reconciled, Balanced, PaidBy, PaidTo

\* A payment adds to both sides of the payer's and of the receiver's balance.
LEMMA PaidKeepsBalance ==
    ASSUME NEW s, ApplicationState(s), NEW f, ApplicationState(f), IsFiniteSet(DOMAIN s.txns),
           NEW a, NEW b, NEW m, NEW k, NEW t, Paid(s, f, a, b, m, k, t),
           NEW u \in DOMAIN s.wallets, Balanced(s, u)
    PROVE  Balanced(f, u)
<1> DEFINE n == Fresh(TxnId, s.txns)
           O == PaidBy(s, u)
           I == PaidTo(s, u)
           w == s.wallets[u]
<1>1. /\ n \in TxnId /\ n \notin DOMAIN s.txns
      /\ DOMAIN f.txns = DOMAIN s.txns \cup {n}
      /\ f.txns[n] = NewTransaction(a, b, m, k, t)
      /\ \A x \in DOMAIN s.txns : f.txns[x] = s.txns[x]
  BY PaidAddsOne
<1>2. PaidSums(s, f, n, m)  BY PaidChangesSums
<1>3. a # b /\ m \in Nat  BY DEF Paid
<1>4. w \in Wallet  BY DEF ApplicationState, PartialFcn
<1>5. f.wallets[u] = CASE u = a -> WithBalance(w, w.balance - m)
                       [] u = b -> WithBalance(w, w.balance + m)
                       [] OTHER -> w
  BY DEF Paid, DebitAndCredit
<1> HIDE DEF n
<1>6. f.txns[n].sender = a /\ f.txns[n].receiver = b  BY <1>1 DEF NewTransaction
<1>7. /\ PaidBy(f, u) = IF u = a THEN O \cup {n} ELSE O
      /\ PaidTo(f, u) = IF u = b THEN I \cup {n} ELSE I
  BY <1>1, <1>6 DEF PaidBy, PaidTo
<1>8. O \in SUBSET DOMAIN s.txns /\ I \in SUBSET DOMAIN s.txns  BY DEF PaidBy, PaidTo
<1>9. /\ w.balance + SumSent(s, O) = InitialBalance + SumSent(s, I)
      /\ w.version = Cardinality(O) + Cardinality(I)
  BY DEF Balanced
<1> HIDE DEF O, I, w
<1> DEFINE so == SumSent(s, O)
           si == SumSent(s, I)
           co == Cardinality(O)
           ci == Cardinality(I)
<1>10. /\ so \in Nat /\ SumSent(f, O) = so /\ SumSent(f, O \cup {n}) = so + m
       /\ si \in Nat /\ SumSent(f, I) = si /\ SumSent(f, I \cup {n}) = si + m
       /\ co \in Nat /\ Cardinality(O \cup {n}) = co + 1
       /\ ci \in Nat /\ Cardinality(I \cup {n}) = ci + 1
  BY <1>2, <1>8 DEF PaidSums
<1>11. /\ w.balance \in Nat /\ w.version \in Nat
       /\ \A x : WithBalance(w, x).balance = x /\ WithBalance(w, x).version = w.version + 1
  BY <1>4 DEF Wallet, WithBalance
<1>12. InitialBalance \in Nat  BY LedgerAssumption
<1>13. /\ w.balance + so = InitialBalance + si
       /\ w.version = co + ci
  BY <1>9
<1>14. CASE u = a
  <2>1. /\ f.wallets[u].balance = w.balance - m /\ f.wallets[u].version = w.version + 1
        /\ SumSent(f, PaidBy(f, u)) = so + m /\ SumSent(f, PaidTo(f, u)) = si
        /\ Cardinality(PaidBy(f, u)) = co + 1 /\ Cardinality(PaidTo(f, u)) = ci
    BY <1>3, <1>5, <1>7, <1>10, <1>11, <1>14
  <2> HIDE DEF so, si, co, ci
  <2> QED  BY <1>3, <1>10, <1>11, <1>12, <1>13, <2>1 DEF Balanced
<1>15. CASE u = b
  <2>1. /\ f.wallets[u].balance = w.balance + m /\ f.wallets[u].version = w.version + 1
        /\ SumSent(f, PaidBy(f, u)) = so /\ SumSent(f, PaidTo(f, u)) = si + m
        /\ Cardinality(PaidBy(f, u)) = co /\ Cardinality(PaidTo(f, u)) = ci + 1
    BY <1>3, <1>5, <1>7, <1>10, <1>11, <1>15
  <2> HIDE DEF so, si, co, ci
  <2> QED  BY <1>3, <1>10, <1>11, <1>12, <1>13, <2>1 DEF Balanced
<1>16. CASE u # a /\ u # b
  <2>1. /\ f.wallets[u] = w
        /\ SumSent(f, PaidBy(f, u)) = so /\ SumSent(f, PaidTo(f, u)) = si
        /\ Cardinality(PaidBy(f, u)) = co /\ Cardinality(PaidTo(f, u)) = ci
    BY <1>5, <1>7, <1>10, <1>16
  <2> QED  BY <1>13, <2>1 DEF Balanced
<1> QED  BY <1>14, <1>15, <1>16

\* Every wallet keeps matching the transactions of its user, a new one those of
\* a user nobody has paid.
LEMMA ExecuteReconciles ==
    ASSUME TypeOK, PartiesDiffer, ValidState, FinitelyPaid, Reconciled,
           NEW k \in Key, NEW c \in Command, Execute(k, c)
    PROVE  FinitelyPaid' /\ Reconciled'
<1> DEFINE s == ledger
           f == ledger'
<1>1. TookEffect(k, c)  BY ExecuteStep
<1>2. ApplicationState(s) /\ ApplicationState(f) /\ AskersDiffer(s)  BY <1>1 DEF TookEffect
<1>3. IsFiniteSet(DOMAIN s.txns)  BY DEF FinitelyPaid
<1>4. \A u \in DOMAIN s.wallets : Balanced(s, u)  BY ReconciledIsBalanced
<1>5. /\ MovesMoney(c) => \E a, b, m : Paid(s, f, a, b, m, k, now)
      /\ ~ MovesMoney(c) =>
           /\ SamePayments(s, f)
           /\ \A n \in DOMAIN s.txns : SameParties(s.txns[n], f.txns[n])
  BY <1>1, ExecutePays DEF TookEffect
<1>6. \A n \in DOMAIN s.txns :
         s.txns[n].sender \in DOMAIN s.users /\ s.txns[n].receiver \in DOMAIN s.users
  BY DEF ValidState, Validates
<1>7. DOMAIN s.users = DOMAIN s.wallets  BY DEF ValidState, Validates
<1>8. ~ MovesMoney(c) =>
        \/ f.wallets = s.wallets
        \/ \E u : u \notin DOMAIN s.users /\ f.wallets = Put(s.wallets, u, NewWallet)
  <2>1. CASE c.op = "createUser"
    <3>1. CreateUserEffect(s, f, c)  BY <1>1, <2>1, Effects DEF TookEffect
    <3> QED  BY <3>1, FreshIsUnused DEF CreateUserEffect, CanCreateUser
  <2>2. CASE c.op \in {"requestPayment", "rejectPayment", "annotateTransactionRisk"}
    BY <1>1, <2>2, Effects DEF TookEffect, RequestEffect, RejectEffect, AnnotateEffect, UsersKept
  <2> QED  BY <2>1, <2>2, CommandKinds DEF MovesMoney
<1> SUFFICES IsFiniteSet(DOMAIN f.txns) /\ \A u \in DOMAIN f.wallets : Balanced(f, u)
  <2>1. Reconciled' <=> \A u \in DOMAIN f.wallets : Balanced(f, u)
    BY DEF Reconciled, Balanced, PaidBy, PaidTo
  <2> QED  BY <2>1 DEF FinitelyPaid
<1> HIDE DEF s, f
<1>9. CASE MovesMoney(c)
  <2>1. PICK a, b, m : Paid(s, f, a, b, m, k, now)  BY <1>5, <1>9
  <2>2. DOMAIN f.wallets = DOMAIN s.wallets  BY <2>1 DEF Paid, DebitAndCredit
  <2>3. IsFiniteSet(DOMAIN f.txns)  BY <1>2, <1>3, <2>1, PaidChangesSums
  <2>4. \A u \in DOMAIN s.wallets : Balanced(f, u)
    BY <1>2, <1>3, <1>4, <2>1, PaidKeepsBalance
  <2> QED  BY <2>2, <2>3, <2>4
<1>10. CASE ~ MovesMoney(c)
  <2>1. /\ DOMAIN f.txns = DOMAIN s.txns
        /\ \A n \in DOMAIN s.txns : SameParties(s.txns[n], f.txns[n])
    BY <1>5, <1>10 DEF SamePayments
  <2>2. IsFiniteSet(DOMAIN f.txns)  BY <1>3, <2>1
  <2>3. \A u : PaidBy(f, u) = PaidBy(s, u) /\ PaidTo(f, u) = PaidTo(s, u)
    BY <2>1 DEF PaidBy, PaidTo, SameParties
  <2>4. \A ns \in SUBSET DOMAIN s.txns : SumSent(f, ns) = SumSent(s, ns)
    BY <1>2, <1>3, <2>1, SameSums
  <2>5. \A u : PaidBy(s, u) \in SUBSET DOMAIN s.txns /\ PaidTo(s, u) \in SUBSET DOMAIN s.txns
    BY DEF PaidBy, PaidTo
  <2>6. ASSUME NEW u \in DOMAIN s.wallets, f.wallets[u] = s.wallets[u]
        PROVE  Balanced(f, u)
    BY <1>4, <2>3, <2>4, <2>5, <2>6 DEF Balanced
  <2>7. ASSUME NEW u, u \notin DOMAIN s.users, f.wallets[u] = NewWallet
        PROVE  Balanced(f, u)
    <3>1. PaidBy(f, u) = {} /\ PaidTo(f, u) = {}
      <4>1. \A n \in DOMAIN s.txns : s.txns[n].sender # u /\ s.txns[n].receiver # u
        BY <1>6, <2>7
      <4>2. PaidBy(s, u) = {} /\ PaidTo(s, u) = {}  BY <4>1 DEF PaidBy, PaidTo
      <4> QED  BY <2>3, <4>2
    <3>2. SumSent(f, {}) = 0 /\ Cardinality({}) = 0  BY SumEmpty, FS_EmptySet
    <3>3. InitialBalance \in Nat  BY LedgerAssumption
    <3> QED  BY <2>7, <3>1, <3>2, <3>3 DEF Balanced, NewWallet
  <2>8. CASE f.wallets = s.wallets
    BY <2>2, <2>6, <2>8
  <2>9. ASSUME NEW u, u \notin DOMAIN s.users, f.wallets = Put(s.wallets, u, NewWallet)
        PROVE  \A v \in DOMAIN f.wallets : Balanced(f, v)
    BY <1>7, <2>6, <2>7, <2>9 DEF Put
  <2> QED  BY <1>8, <1>10, <2>2, <2>8, <2>9
<1> QED  BY <1>9, <1>10

-----------------------------------------------------------------------------
(* The daily limit.                                                        *)

\* One more daily limit.
LEMMA OneMoreLimit ==
    ASSUME NEW b \in Nat, NEW d \in Nat
    PROVE  b * d \in Nat /\ (1 + b) * d = d + b * d
OBVIOUS

InWindow(s, u, start) == SentWithin(s, u, start, start + Window)
LaterThan(s, u, start, t) == {n \in InWindow(s, u, start) : s.txns[n].at > t}

\* The limits at t after some set backs, for any sender, an unknown one too.
Limited(s, t, backs) ==
    \A u : \A start \in 0..MaxTime :
        /\ SumSent(s, InWindow(s, u, start)) <= MaxDaily + backs * MaxDaily
        /\ SumSent(s, LaterThan(s, u, start, t)) <= backs * MaxDaily

\* Summing part of the transactions of a window.
LEMMA WindowSums ==
    ASSUME NEW s, ApplicationState(s), IsFiniteSet(DOMAIN s.txns), NEW u, NEW start, NEW t
    PROVE  /\ InWindow(s, u, start) \in SUBSET DOMAIN s.txns
           /\ LaterThan(s, u, start, t) \in SUBSET InWindow(s, u, start)
           /\ SumSent(s, InWindow(s, u, start)) \in Nat
           /\ SumSent(s, LaterThan(s, u, start, t)) \in Nat
           /\ SumSent(s, LaterThan(s, u, start, t)) <= SumSent(s, InWindow(s, u, start))
<1>1. InWindow(s, u, start) \in SUBSET DOMAIN s.txns  BY DEF InWindow, SentWithin
<1>2. LaterThan(s, u, start, t) \in SUBSET InWindow(s, u, start)  BY DEF LaterThan
<1>3. Summable(s, InWindow(s, u, start))  BY <1>1, AllSummable
<1>4. /\ Summable(s, LaterThan(s, u, start, t))
      /\ SumSent(s, LaterThan(s, u, start, t)) <= SumSent(s, InWindow(s, u, start))
  BY <1>2, <1>3, SumPart
<1> QED  BY <1>1, <1>2, <1>3, <1>4, SumNat

\* The clock moving on leaves fewer transactions dated later than it.
LEMMA TickKeepsLimited ==
    ASSUME NEW s, ApplicationState(s), IsFiniteSet(DOMAIN s.txns), NEW backs \in Nat,
           NEW t \in 0..MaxTime, NEW v \in 0..MaxTime, t <= v, Limited(s, t, backs)
    PROVE  Limited(s, v, backs)
<1> SUFFICES ASSUME NEW u, NEW start \in 0..MaxTime
             PROVE  SumSent(s, LaterThan(s, u, start, v)) <= backs * MaxDaily
  BY DEF Limited
<1> DEFINE X == LaterThan(s, u, start, t)
           Y == LaterThan(s, u, start, v)
<1>1. \A n \in DOMAIN s.txns : s.txns[n].at \in Int
  <2>1. \A n \in DOMAIN s.txns : s.txns[n] \in Transaction
    BY DEF ApplicationState, PartialFcn
  <2> QED  BY <2>1, LedgerAssumption DEF Transaction
<1>2. Y \in SUBSET X
  <2>1. InWindow(s, u, start) \subseteq DOMAIN s.txns  BY WindowSums
  <2> QED  BY <1>1, <2>1 DEF LaterThan
<1>3. X \in SUBSET DOMAIN s.txns  BY WindowSums
<1>4. Summable(s, X)  BY <1>3, AllSummable
<1>5. SumSent(s, Y) <= SumSent(s, X)  BY <1>2, <1>4, SumPart
<1>6. SumSent(s, X) <= backs * MaxDaily  BY DEF Limited
<1>7. SumSent(s, X) \in Nat /\ SumSent(s, Y) \in Nat  BY WindowSums
<1>8. backs * MaxDaily \in Nat  BY OneMoreLimit, LedgerAssumption
<1> DEFINE x == SumSent(s, X)
           y == SumSent(s, Y)
           z == backs * MaxDaily
<1> HIDE DEF X, Y, x, y, z
<1>9. y <= z
  <2>1. y <= x /\ x <= z /\ x \in Nat /\ y \in Nat /\ z \in Nat
    BY <1>5, <1>6, <1>7, <1>8 DEF x, y, z
  <2> QED  BY <2>1
<1> QED  BY <1>9 DEF y, z, Y

\* Setting the clock back makes at most a window's worth of transactions later
\* than it.
LEMMA SetBackKeepsLimited ==
    ASSUME NEW s, ApplicationState(s), IsFiniteSet(DOMAIN s.txns), NEW backs \in Nat,
           NEW t \in 0..MaxTime, NEW v, Limited(s, t, backs)
    PROVE  Limited(s, v, backs + 1)
<1>1. /\ MaxDaily \in Nat /\ backs * MaxDaily \in Nat
      /\ (backs + 1) * MaxDaily = MaxDaily + backs * MaxDaily
  <2>1. MaxDaily \in Nat  BY LedgerAssumption
  <2>2. backs + 1 = 1 + backs  OBVIOUS
  <2> QED  BY <2>1, <2>2, OneMoreLimit
<1> SUFFICES ASSUME NEW u, NEW start \in 0..MaxTime
             PROVE  /\ SumSent(s, InWindow(s, u, start)) <= MaxDaily + (backs + 1) * MaxDaily
                    /\ SumSent(s, LaterThan(s, u, start, v)) <= (backs + 1) * MaxDaily
  BY DEF Limited
<1> DEFINE x == SumSent(s, InWindow(s, u, start))
           y == SumSent(s, LaterThan(s, u, start, v))
           d == MaxDaily
           z == backs * MaxDaily
           zz == (backs + 1) * MaxDaily
<1>2. x \in Nat /\ y \in Nat /\ y <= x  BY WindowSums
<1>3. x <= d + z  BY DEF Limited
<1>4. d \in Nat /\ z \in Nat /\ zz = d + z  BY <1>1
<1> HIDE DEF x, y, d, z, zz
<1>5. x <= d + zz /\ y <= zz  BY <1>2, <1>3, <1>4
<1> QED  BY <1>5 DEF x, y, d, zz

\* Without a new payment every window sums to the same.
LEMMA SameKeepsLimited ==
    ASSUME NEW s, ApplicationState(s), IsFiniteSet(DOMAIN s.txns), NEW f, SamePayments(s, f),
           \A n \in DOMAIN s.txns : SameParties(s.txns[n], f.txns[n]),
           NEW t, NEW backs, Limited(s, t, backs)
    PROVE  Limited(f, t, backs)
<1> SUFFICES ASSUME NEW u, NEW start \in 0..MaxTime
             PROVE  /\ SumSent(f, InWindow(f, u, start)) <= MaxDaily + backs * MaxDaily
                    /\ SumSent(f, LaterThan(f, u, start, t)) <= backs * MaxDaily
  BY DEF Limited
<1>1. InWindow(f, u, start) = InWindow(s, u, start)
  BY DEF InWindow, SentWithin, SamePayments, SameParties
<1>2. InWindow(s, u, start) \subseteq DOMAIN s.txns
      /\ LaterThan(s, u, start, t) \subseteq DOMAIN s.txns
  BY WindowSums
<1>3. LaterThan(f, u, start, t) = LaterThan(s, u, start, t)
  BY <1>1, <1>2 DEF LaterThan, SameParties
<1>4. /\ SumSent(f, InWindow(s, u, start)) = SumSent(s, InWindow(s, u, start))
      /\ SumSent(f, LaterThan(s, u, start, t)) = SumSent(s, LaterThan(s, u, start, t))
  BY <1>2, SameSums
<1>5. /\ SumSent(s, InWindow(s, u, start)) <= MaxDaily + backs * MaxDaily
      /\ SumSent(s, LaterThan(s, u, start, t)) <= backs * MaxDaily
  BY DEF Limited
<1> QED  BY <1>1, <1>3, <1>4, <1>5

\* The check of a transfer looks at the window that ends with it.  Whatever
\* other window contains it, the transactions of that window are in the one
\* checked or later than the clock.
LEMMA PaidKeepsLimited ==
    ASSUME NEW s, ApplicationState(s), NEW f, ApplicationState(f), IsFiniteSet(DOMAIN s.txns),
           NEW t \in 0..MaxTime, NEW backs \in Nat, Limited(s, t, backs),
           NEW a, NEW b, NEW m, NEW k, Paid(s, f, a, b, m, k, t)
    PROVE  Limited(f, t, backs)
<1> DEFINE n == Fresh(TxnId, s.txns)
<1>1. /\ n \in TxnId /\ n \notin DOMAIN s.txns
      /\ DOMAIN f.txns = DOMAIN s.txns \cup {n}
      /\ f.txns[n] = NewTransaction(a, b, m, k, t)
      /\ \A x \in DOMAIN s.txns : f.txns[x] = s.txns[x]
  BY PaidAddsOne
<1>2. PaidSums(s, f, n, m)  BY PaidChangesSums
<1>3. m \in Nat /\ SumSent(s, SentWithin(s, a, t - Window, t)) + m <= MaxDaily
  BY DEF Paid, CanMove, WithinDailyLimit
<1> HIDE DEF n
<1>4. f.txns[n].sender = a /\ f.txns[n].at = t  BY <1>1 DEF NewTransaction
<1>5. \A x \in DOMAIN s.txns : s.txns[x].at \in Int
  <2>1. \A x \in DOMAIN s.txns : s.txns[x] \in Transaction
    BY DEF ApplicationState, PartialFcn
  <2> QED  BY <2>1, LedgerAssumption DEF Transaction
<1>6. MaxDaily \in Nat /\ Window \in Nat /\ MaxTime \in Nat /\ backs * MaxDaily \in Nat
  BY LedgerAssumption, OneMoreLimit
<1> SUFFICES ASSUME NEW u, NEW start \in 0..MaxTime
             PROVE  /\ SumSent(f, InWindow(f, u, start)) <= MaxDaily + backs * MaxDaily
                    /\ SumSent(f, LaterThan(f, u, start, t)) <= backs * MaxDaily
  BY DEF Limited
<1> DEFINE X == InWindow(s, u, start)
           Y == LaterThan(s, u, start, t)
           C == SentWithin(s, a, t - Window, t)
<1>7. /\ X \in SUBSET DOMAIN s.txns /\ Y \in SUBSET DOMAIN s.txns
      /\ SumSent(s, X) \in Nat /\ SumSent(s, Y) \in Nat
      /\ SumSent(s, X) <= MaxDaily + backs * MaxDaily
      /\ SumSent(s, Y) <= backs * MaxDaily
  BY WindowSums DEF Limited
<1>8. InWindow(f, u, start) = IF u = a /\ t \in start .. start + Window THEN X \cup {n} ELSE X
  BY <1>1, <1>4 DEF InWindow, SentWithin
<1>9. LaterThan(f, u, start, t) = Y
  <2>1. ~ (t > t)  OBVIOUS
  <2> QED  BY <1>1, <1>4, <1>7, <1>8, <2>1 DEF LaterThan
<1>10. SumSent(f, Y) = SumSent(s, Y)  BY <1>2, <1>7 DEF PaidSums
<1>11. SumSent(f, InWindow(f, u, start)) <= MaxDaily + backs * MaxDaily
  <2>1. CASE ~ (u = a /\ t \in start .. start + Window)
    <3>1. InWindow(f, u, start) = X  BY <1>8, <2>1
    <3>2. SumSent(f, X) = SumSent(s, X)  BY <1>2, <1>7 DEF PaidSums
    <3> QED  BY <1>7, <3>1, <3>2
  <2>2. CASE u = a /\ t \in start .. start + Window
    <3>1. InWindow(f, u, start) = X \cup {n}  BY <1>8, <2>2
    <3>2. SumSent(f, X \cup {n}) = SumSent(s, X) + m  BY <1>2, <1>7 DEF PaidSums
    <3>3. X \in SUBSET (C \cup Y)
      <4> SUFFICES ASSUME NEW x \in X PROVE x \in C \cup Y  OBVIOUS
      <4>1. /\ x \in DOMAIN s.txns /\ s.txns[x].sender = a
            /\ s.txns[x].at \in start .. start + Window
        BY <2>2 DEF InWindow, SentWithin
      <4>2. s.txns[x].at \in Int /\ t \in Int /\ start \in Int  BY <1>5, <1>6, <4>1
      <4>3. CASE s.txns[x].at > t  BY <4>3 DEF LaterThan
      <4>4. CASE s.txns[x].at <= t
        <5>1. s.txns[x].at \in t - Window .. t  BY <1>6, <2>2, <4>1, <4>2, <4>4
        <5> QED  BY <4>1, <5>1 DEF SentWithin
      <4> QED  BY <4>2, <4>3, <4>4
    <3>4. C \in SUBSET DOMAIN s.txns  BY DEF SentWithin
    <3> DEFINE x == SumSent(s, X)
               y == SumSent(s, Y)
               c == SumSent(s, C)
               z == backs * MaxDaily
    <3>5. Summable(s, C) /\ Summable(s, Y)  BY <1>7, <3>4, AllSummable
    <3>6. x <= c + y  BY <3>3, <3>5, SumCover
    <3>7. c \in Nat  BY <3>5, SumNat
    <3>8. x \in Nat /\ y \in Nat /\ y <= z /\ z \in Nat  BY <1>6, <1>7
    <3>9. c + m <= MaxDaily  BY <1>3
    <3> HIDE DEF x, y, c, z
    <3>10. x + m <= MaxDaily + z  BY <1>3, <1>6, <3>6, <3>7, <3>8, <3>9
    <3> QED  BY <3>1, <3>2, <3>10 DEF x, z
  <2> QED  BY <2>1, <2>2
<1> QED  BY <1>7, <1>9, <1>10, <1>11

\* The limits as the properties state them, of registered senders.
LimitsKept(s, t, backs) ==
    \A u \in DOMAIN s.wallets, start \in 0..MaxTime :
        /\ SumSent(s, InWindow(s, u, start)) <= (1 + backs) * MaxDaily
        /\ SumSent(s, LaterThan(s, u, start, t)) <= backs * MaxDaily

\* The limits as the run states them, and as they are kept: now,
LEMMA LimitsOfRun == DailyLimitHolds /\ LaterLimited <=> LimitsKept(ledger, now, setBacks)
BY DEF DailyLimitHolds, LaterLimited, LimitsKept, InWindow, LaterThan, Later

\* and in the next state.
LEMMA LimitsOfNext == (DailyLimitHolds /\ LaterLimited)' <=> LimitsKept(ledger', now', setBacks')
BY DEF DailyLimitHolds, LaterLimited, LimitsKept, InWindow, LaterThan, Later

\* A user who is not registered has paid nothing.
LEMMA LimitedIsKept ==
    ASSUME NEW s, Validates(s), NEW t, NEW backs \in Nat
    PROVE  LimitsKept(s, t, backs) <=> Limited(s, t, backs)
<1>1. MaxDaily \in Nat  BY LedgerAssumption
<1>2. backs * MaxDaily \in Nat /\ (1 + backs) * MaxDaily = MaxDaily + backs * MaxDaily
  BY <1>1, OneMoreLimit
<1>3. ASSUME NEW u, u \notin DOMAIN s.wallets, NEW start
      PROVE  /\ SumSent(s, InWindow(s, u, start)) <= MaxDaily + backs * MaxDaily
             /\ SumSent(s, LaterThan(s, u, start, t)) <= backs * MaxDaily
  <2>1. \A n \in DOMAIN s.txns : s.txns[n].sender # u
    BY <1>3 DEF Validates
  <2>2. InWindow(s, u, start) = {}  BY <2>1 DEF InWindow, SentWithin
  <2>3. LaterThan(s, u, start, t) = {}  BY <2>2 DEF LaterThan
  <2>4. SumSent(s, {}) = 0  BY SumEmpty
  <2> QED  BY <1>1, <1>2, <2>2, <2>3, <2>4
<1> QED  BY <1>2, <1>3 DEF Limited, LimitsKept

\* No command takes a sender over the limit.
LEMMA ExecuteKeepsLimits ==
    ASSUME TypeOK, TypeOK', PartiesDiffer, ValidState, ValidState', FinitelyPaid, FinitelyPaid',
           DailyLimitHolds, LaterLimited, NEW k \in Key, NEW c \in Command, Execute(k, c),
           UNCHANGED setBacks
    PROVE  DailyLimitHolds' /\ LaterLimited'
<1> DEFINE s == ledger
           f == ledger'
<1>1. TookEffect(k, c)  BY ExecuteStep
<1>2. /\ ApplicationState(s) /\ ApplicationState(f) /\ now \in 0..MaxTime /\ now' = now
      /\ setBacks \in Nat /\ setBacks' = setBacks /\ IsFiniteSet(DOMAIN s.txns)
  BY <1>1, SetBacksAssumption DEF TookEffect, TypeOK, FinitelyPaid
<1>3. Limited(s, now, setBacks)
  BY <1>2, LimitsOfRun, LimitedIsKept DEF ValidState
<1>4. /\ MovesMoney(c) => \E a, b, m : Paid(s, f, a, b, m, k, now)
      /\ ~ MovesMoney(c) =>
           /\ SamePayments(s, f)
           /\ \A n \in DOMAIN s.txns : SameParties(s.txns[n], f.txns[n])
  BY <1>1, ExecutePays DEF TookEffect
<1>5. Limited(f, now, setBacks)
  <2> HIDE DEF s, f
  <2>1. CASE MovesMoney(c)
    <3>1. PICK a, b, m : Paid(s, f, a, b, m, k, now)  BY <1>4, <2>1
    <3> QED  BY <1>2, <1>3, <3>1, PaidKeepsLimited
  <2>2. CASE ~ MovesMoney(c)
    BY <1>2, <1>3, <1>4, <2>2, SameKeepsLimited
  <2> QED  BY <2>1, <2>2
<1>6. Validates(f)  BY DEF ValidState
<1>7. LimitsKept(f, now, setBacks)  BY <1>2, <1>5, <1>6, LimitedIsKept
<1> QED  BY <1>2, <1>7, LimitsOfNext

-----------------------------------------------------------------------------
(* The inductive invariant and the theorems.                               *)

LedgerInv == TypeOK /\ ValidState /\ HistoryInv /\ MoneyInv

\* The empty aggregate satisfies the invariant.
LEMMA InitInv == SerialInit => LedgerInv
<1> SUFFICES ASSUME SerialInit PROVE LedgerInv  OBVIOUS
<1>1. /\ ledger = InitialState /\ acked = {} /\ now = 0 /\ setBacks = 0
  BY DEF SerialInit, Init
<1>2. /\ ledger.users = InitialUsers
      /\ ledger.wallets = [u \in DOMAIN InitialUsers |-> NewWallet]
      /\ DOMAIN ledger.txns = {} /\ DOMAIN ledger.requests = {} /\ DOMAIN ledger.records = {}
      /\ ledger.pending = {} /\ IsAggregate(ledger)
  BY <1>1 DEF InitialState, IsAggregate
<1>3. NewWallet \in Wallet  BY LedgerAssumption DEF NewWallet, Wallet
<1>4. TypeOK
  <2>1. \A D, R : PartialFcn(ledger.txns, D, R) /\ PartialFcn(ledger.requests, D, R)
                   /\ PartialFcn(ledger.records, D, R)
    BY <1>1 DEF PartialFcn, InitialState
  <2>2. PartialFcn(ledger.users, UserId, Phone) /\ PartialFcn(ledger.wallets, UserId, Wallet)
    BY <1>2, <1>3, LedgerAssumption DEF PartialFcn
  <2>3. ApplicationState(ledger)  BY <1>2, <2>1, <2>2 DEF ApplicationState
  <2> QED  BY <1>1, <2>3, LedgerAssumption, SetBacksAssumption DEF TypeOK
<1>5. ValidState
  BY <1>2, LedgerAssumption DEF ValidState, Validates
<1>6. HistoryInv
  BY <1>2 DEF HistoryInv, PartiesDiffer, PayersDiffer, AskersDiffer, ResolutionsMarked,
              OnePaymentPerKey, ResolvedOnce, AuditComplete
<1>7. FinitelyPaid  BY <1>2, FS_EmptySet DEF FinitelyPaid
<1>8. SumSent(ledger, {}) = 0 /\ Cardinality({}) = 0  BY SumEmpty, FS_EmptySet
<1>9. Reconciled
  <2> SUFFICES ASSUME NEW u \in DOMAIN ledger.wallets PROVE Balanced(ledger, u)
    BY ReconciledIsBalanced
  <2>1. PaidBy(ledger, u) = {} /\ PaidTo(ledger, u) = {}  BY <1>2 DEF PaidBy, PaidTo
  <2>2. ledger.wallets[u] = NewWallet  BY <1>2
  <2>3. InitialBalance \in Nat  BY LedgerAssumption
  <2> QED  BY <1>8, <2>1, <2>2, <2>3 DEF Balanced, NewWallet
<1>10. DailyLimitHolds /\ LaterLimited
  <2>1. \A u, start : InWindow(ledger, u, start) = {} /\ LaterThan(ledger, u, start, now) = {}
    BY <1>2 DEF InWindow, SentWithin, LaterThan
  <2>2. MaxDaily \in Nat /\ 0 * MaxDaily = 0  BY LedgerAssumption
  <2>3. Limited(ledger, now, setBacks)  BY <1>1, <1>8, <2>1, <2>2 DEF Limited
  <2> QED  BY <1>1, <1>5, <2>3, LimitedIsKept, LimitsOfRun DEF ValidState
<1> QED  BY <1>4, <1>5, <1>6, <1>7, <1>9, <1>10 DEF LedgerInv, MoneyInv

\* A command keeps it.
LEMMA ExecuteInv ==
    ASSUME LedgerInv, NEW k \in Key, NEW c \in Command, Execute(k, c), UNCHANGED setBacks
    PROVE  LedgerInv'
<1>1. /\ TypeOK /\ ValidState /\ PartiesDiffer /\ ResolutionsMarked /\ OnePaymentPerKey
      /\ ResolvedOnce /\ AuditComplete /\ FinitelyPaid /\ Reconciled
      /\ DailyLimitHolds /\ LaterLimited
  BY DEF LedgerInv, HistoryInv, MoneyInv
<1>2. TypeOK'
  <2>1. TookEffect(k, c)  BY <1>1, ExecuteStep
  <2> QED  BY <1>1, <2>1 DEF TypeOK, TookEffect
<1>3. ValidState' /\ PartiesDiffer'  BY <1>1, ExecuteKeepsValid, ExecuteKeepsParties
<1>4. ResolutionsMarked' /\ ResolvedOnce' /\ OnePaymentPerKey' /\ AuditComplete'
  BY <1>1, ExecuteResolvesOnce, ExecutePaysOncePerKey, ExecuteAudits
<1>5. FinitelyPaid' /\ Reconciled'  BY <1>1, ExecuteReconciles
<1>6. DailyLimitHolds' /\ LaterLimited'
  BY <1>1, <1>2, <1>3, <1>5, ExecuteKeepsLimits
<1> QED  BY <1>2, <1>3, <1>4, <1>5, <1>6 DEF LedgerInv, HistoryInv, MoneyInv

\* With the aggregate unchanged only the types and the limits depend on the step.
LEMMA LedgerUnchangedInv ==
    ASSUME LedgerInv, ledger' = ledger, TypeOK',
           Limited(ledger, now', setBacks')
    PROVE  LedgerInv'
<1>1. ValidState'  BY DEF LedgerInv, ValidState
<1>2. PartiesDiffer' /\ ResolutionsMarked'
  BY DEF LedgerInv, HistoryInv, PartiesDiffer, ResolutionsMarked
<1>3. OnePaymentPerKey'  BY DEF LedgerInv, HistoryInv, OnePaymentPerKey
<1>4. ResolvedOnce' /\ AuditComplete'
  BY DEF LedgerInv, HistoryInv, ResolvedOnce, AuditComplete
<1>5. FinitelyPaid' /\ Reconciled'  BY DEF LedgerInv, MoneyInv, FinitelyPaid, Reconciled
<1>6. DailyLimitHolds' /\ LaterLimited'
  <2>1. Validates(ledger)  BY DEF LedgerInv, ValidState
  <2>2. setBacks' \in Nat  BY SetBacksAssumption DEF TypeOK
  <2>3. LimitsKept(ledger, now', setBacks')  BY <2>1, <2>2, LimitedIsKept
  <2> QED  BY <2>3, LimitsOfNext
<1> QED  BY <1>1, <1>2, <1>3, <1>4, <1>5, <1>6 DEF LedgerInv, HistoryInv, MoneyInv

\* Every step keeps it: a command, an answer, a tick or a set-back of the clock.
LEMMA StepInv == LedgerInv /\ [SerialNext]_<<vars, setBacks>> => LedgerInv'
<1> SUFFICES ASSUME LedgerInv, [SerialNext]_<<vars, setBacks>> PROVE LedgerInv'
  OBVIOUS
<1>1. /\ ApplicationState(ledger) /\ now \in 0..MaxTime /\ setBacks \in Nat /\ TypeOK
      /\ acked \subseteq [key : Key, cmd : Command, result : Result]
      /\ IsFiniteSet(DOMAIN ledger.txns) /\ Limited(ledger, now, setBacks)
  <2>1. /\ TypeOK /\ Validates(ledger) /\ setBacks \in Nat
        /\ LimitsKept(ledger, now, setBacks) /\ FinitelyPaid
    BY LimitsOfRun, SetBacksAssumption DEF LedgerInv, MoneyInv, TypeOK, ValidState
  <2>2. Limited(ledger, now, setBacks)  BY <2>1, LimitedIsKept
  <2> QED  BY <2>1, <2>2 DEF TypeOK, FinitelyPaid
<1>2. ASSUME NEW k \in Key, NEW c \in Command, Execute(k, c), UNCHANGED setBacks
      PROVE  LedgerInv'
  BY <1>2, ExecuteInv
<1>3. ASSUME NEW k \in Key, Reply(k), UNCHANGED setBacks
      PROVE  LedgerInv'
  <2>1. ledger.records[k] \in IdempotencyRecord
    BY <1>1, <1>3 DEF Reply, ApplicationState, PartialFcn
  <2>2. Ack(ledger, k) \in [key : Key, cmd : Command, result : Result]
    BY <2>1 DEF Ack, IdempotencyRecord
  <2>3. TypeOK'  BY <1>1, <1>3, <2>2 DEF Reply, TypeOK
  <2> QED  BY <1>1, <1>3, <2>3, LedgerUnchangedInv DEF Reply
<1>4. ASSUME Tick, UNCHANGED setBacks PROVE LedgerInv'
  <2>1. /\ now' \in 0..MaxTime /\ now <= now' /\ UNCHANGED <<ledger, acked, setBacks>>
    BY <1>1, <1>4, LedgerAssumption DEF Tick
  <2>2. TypeOK'  BY <1>1, <2>1 DEF TypeOK
  <2>3. Limited(ledger, now', setBacks)  BY <1>1, <2>1, TickKeepsLimited
  <2> QED  BY <2>1, <2>2, <2>3, LedgerUnchangedInv
<1>5. ASSUME SetBack PROVE LedgerInv'
  <2>1. /\ now' \in 0..MaxTime /\ setBacks' = setBacks + 1 /\ setBacks' \in 0..MaxSetBacks
        /\ UNCHANGED <<ledger, acked>>
    BY <1>1, <1>5, LedgerAssumption, SetBacksAssumption DEF SetBack
  <2>2. TypeOK'  BY <1>1, <2>1 DEF TypeOK
  <2>3. Limited(ledger, now', setBacks')  BY <1>1, <2>1, SetBackKeepsLimited
  <2> QED  BY <2>1, <2>2, <2>3, LedgerUnchangedInv
<1>6. CASE UNCHANGED <<vars, setBacks>>
  <2>1. TypeOK' /\ ledger' = ledger /\ now' = now /\ setBacks' = setBacks
    BY <1>1, <1>6 DEF TypeOK, vars
  <2> QED  BY <1>1, <2>1, LedgerUnchangedInv
<1> QED  BY <1>2, <1>3, <1>4, <1>5, <1>6 DEF SerialNext, Next

\* The invariant holds of every reachable aggregate.
LEMMA SerialInvariant == SerialSpec => []LedgerInv
BY InitInv, StepInv, PTL DEF SerialSpec

\* The aggregate, the answers and the clock keep their shapes.
THEOREM SerialTypeCorrect == SerialSpec => []TypeOK
<1>1. LedgerInv => TypeOK  BY DEF LedgerInv
<1> QED  BY <1>1, SerialInvariant, PTL

\* Every aggregate an operation leaves passes validate_invariants (state.py:164).
THEOREM EveryStateValidates == SerialSpec => []ValidState
<1>1. LedgerInv => ValidState  BY DEF LedgerInv
<1> QED  BY <1>1, SerialInvariant, PTL

\* No money is made or lost: every balance is the opening balance plus what the
\* transactions brought in minus what they took out.
THEOREM MoneyReconciles == SerialSpec => []Reconciled
<1>1. LedgerInv => Reconciled  BY DEF LedgerInv, MoneyInv
<1> QED  BY <1>1, SerialInvariant, PTL

\* No sender moves more than the daily limit in any window of 24 hours, wherever
\* it starts, once more for each time the clock was set back (policies.py:74).
THEOREM DailyLimitEverywhere == SerialSpec => []DailyLimitHolds
<1>1. LedgerInv => DailyLimitHolds  BY DEF LedgerInv, MoneyInv
<1> QED  BY <1>1, SerialInvariant, PTL

\* A key pays at most once, and every payment has a key.
THEOREM KeysPayOnce == SerialSpec => []OnePaymentPerKey
<1>1. LedgerInv => OnePaymentPerKey  BY DEF LedgerInv, HistoryInv
<1> QED  BY <1>1, SerialInvariant, PTL

\* No two keys resolve one request.
THEOREM RequestsResolveOnce == SerialSpec => []ResolvedOnce
<1>1. LedgerInv => ResolvedOnce  BY DEF LedgerInv, HistoryInv
<1> QED  BY <1>1, SerialInvariant, PTL

\* The outbox holds the events of the commands that took effect and no others.
THEOREM EventsMatchCommands == SerialSpec => []AuditComplete
<1>1. LedgerInv => AuditComplete  BY DEF LedgerInv, HistoryInv
<1> QED  BY <1>1, SerialInvariant, PTL

\* A command adds to the history and rewrites nothing of it.
LEMMA ExecuteKeepsHistory ==
    ASSUME LedgerInv, NEW k \in Key, NEW c \in Command, Execute(k, c)
    PROVE  KeepsHistory
<1>1. TookEffect(k, c)  BY ExecuteStep DEF LedgerInv, HistoryInv
<1>2. RequestsKept(ledger, ledger')  BY <1>1, ExecuteKeepsRequests DEF TookEffect
<1>3. \A n \in DOMAIN ledger.txns :
         /\ n \in DOMAIN ledger'.txns
         /\ [ledger'.txns[n] EXCEPT !.status = "COMPLETED"]
              = [ledger.txns[n] EXCEPT !.status = "COMPLETED"]
  <2>1. CASE MovesMoney(c)
    <3>1. PICK a, b, m : Paid(ledger, ledger', a, b, m, k, now)
      BY <1>1, <2>1, ExecutePays DEF TookEffect
    <3> DEFINE n == Fresh(TxnId, ledger.txns)
    <3>2. /\ n \in TxnId /\ n \notin DOMAIN ledger.txns
          /\ DOMAIN ledger'.txns = DOMAIN ledger.txns \cup {n}
          /\ ledger'.txns[n] = NewTransaction(a, b, m, k, now)
          /\ \A x \in DOMAIN ledger.txns : ledger'.txns[x] = ledger.txns[x]
      BY <3>1, PaidAddsOne
    <3> QED  BY <3>2
  <2>2. CASE ~ MovesMoney(c)
    <3>1. SamePayments(ledger, ledger')  BY <1>1, <2>2, ExecutePays DEF TookEffect
    <3> QED  BY <3>1 DEF SamePayments
  <2> QED  BY <2>1, <2>2
<1>4. \A u \in DOMAIN ledger.users :
         u \in DOMAIN ledger'.users /\ ledger'.users[u] = ledger.users[u]
  <2>1. CASE MovesMoney(c)
    <3>1. PICK a, b, m : Paid(ledger, ledger', a, b, m, k, now)
      BY <1>1, <2>1, ExecutePays DEF TookEffect
    <3> QED  BY <3>1 DEF Paid
  <2>2. CASE c.op = "createUser"
    <3>1. CreateUserEffect(ledger, ledger', c)  BY <1>1, <2>2, Effects DEF TookEffect
    <3> QED  BY <3>1, FreshIsUnused DEF CreateUserEffect, CanCreateUser, Put
  <2>3. CASE c.op \in {"requestPayment", "rejectPayment", "annotateTransactionRisk"}
    BY <1>1, <2>3, Effects DEF TookEffect, RequestEffect, RejectEffect, AnnotateEffect, UsersKept
  <2> QED  BY <2>1, <2>2, <2>3, CommandKinds DEF MovesMoney
<1>5. \A j \in DOMAIN ledger.records :
         j \in DOMAIN ledger'.records /\ ledger'.records[j] = ledger.records[j]
  BY <1>1 DEF TookEffect
<1> QED  BY <1>2, <1>3, <1>4, <1>5 DEF KeepsHistory, RequestsKept

\* No step rewrites a record, a resolved request, a payment or a user.
THEOREM HistoryIsKept == SerialSpec => HistoryKept
<1>1. LedgerInv /\ [SerialNext]_<<vars, setBacks>> => [KeepsHistory]_vars
  <2> SUFFICES ASSUME LedgerInv, [SerialNext]_<<vars, setBacks>>
               PROVE  KeepsHistory \/ UNCHANGED vars
    OBVIOUS
  <2>1. CASE \E k \in Key, c \in Command : Execute(k, c)
    BY <2>1, ExecuteKeepsHistory
  <2>2. CASE UNCHANGED ledger
    BY <2>2 DEF KeepsHistory
  <2> QED  BY <2>1, <2>2 DEF SerialNext, Next, Reply, Tick, SetBack, vars
<1> QED  BY <1>1, SerialInvariant, PTL DEF SerialSpec, HistoryKept
=============================================================================
