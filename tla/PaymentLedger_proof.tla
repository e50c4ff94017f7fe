------------------------- MODULE PaymentLedger_proof -------------------------
(* What every operation of the payment domain does to an aggregate.        *)
EXTENDS PaymentLedger, FiniteSetTheorems, WellFoundedInduction, TLAPS

\* A generated identifier is unused (payment_domain_service.py:380-388 and its
\* like raise when it is not).
LEMMA FreshIsUnused ==
    ASSUME NEW Ids, NEW d, HasFresh(Ids, d)
    PROVE  Fresh(Ids, d) \in Ids /\ Fresh(Ids, d) \notin DOMAIN d
BY DEF HasFresh, Fresh

\* Assigning a dict entry keeps keys and values in their ranges.
LEMMA PutIsPartial ==
    ASSUME NEW D, NEW R, NEW f, PartialFcn(f, D, R), NEW k \in D, NEW v \in R
    PROVE  PartialFcn(Put(f, k, v), D, R)
BY DEF PartialFcn, Put

\* _audit and _record change the outbox and the idempotency records, and
\* nothing else.
LEMMA FinishFields ==
    ASSUME NEW s, IsAggregate(s), NEW k, NEW c, NEW r, NEW A
    PROVE  LET f == Finish(s, k, c, r, A)
           IN  /\ IsAggregate(f)
               /\ f.users = s.users /\ f.wallets = s.wallets
               /\ f.txns = s.txns /\ f.requests = s.requests
               /\ f.records = Put(s.records, k, [cmd |-> c, result |-> r])
               /\ f.pending = s.pending \cup Events(k, A)
BY DEF IsAggregate, Finish

\* One money movement changes wallets and transactions, and nothing else.
LEMMA MovedFields ==
    ASSUME NEW s, IsAggregate(s), NEW a, NEW b, NEW m, NEW k, NEW t
    PROVE  LET f == Moved(s, a, b, m, k, t)
           IN  /\ IsAggregate(f)
               /\ f.users = s.users /\ f.requests = s.requests
               /\ f.records = s.records /\ f.pending = s.pending
               /\ f.wallets = DebitAndCredit(s.wallets, a, b, m)
               /\ f.txns = Put(s.txns, Fresh(TxnId, s.txns),
                      NewTransaction(a, b, m, k, t))
<1> DEFINE w == DebitAndCredit(s.wallets, a, b, m)
           x == Put(s.txns, Fresh(TxnId, s.txns),
                      NewTransaction(a, b, m, k, t))
<1>1. Moved(s, a, b, m, k, t) = [s EXCEPT !.wallets = w, !.txns = x]
  BY DEF Moved, DebitAndCredit
<1> HIDE DEF w, x
<1> QED  BY <1>1 DEF IsAggregate, w, x

\* It keeps an aggregate an aggregate: the debited balance stays a natural
\* number.
LEMMA MovedKeepsState ==
    ASSUME NEW s, ApplicationState(s), NEW a \in UserId, NEW b \in UserId,
           NEW m \in Nat, NEW k \in Key, NEW t \in 0..MaxTime, CanMove(s, a, b, m, t)
    PROVE  ApplicationState(Moved(s, a, b, m, k, t))
<1> DEFINE n == Fresh(TxnId, s.txns)
           w == DebitAndCredit(s.wallets, a, b, m)
           x == NewTransaction(a, b, m, k, t)
<1>2. PartialFcn(w, UserId, Wallet)
  <2>1. \A u \in DOMAIN w : w[u] \in Wallet
    BY DEF ApplicationState, PartialFcn, Wallet, WithBalance, CanMove, DebitAndCredit
  <2> QED  BY <2>1 DEF ApplicationState, PartialFcn, DebitAndCredit
<1>3. PartialFcn(Put(s.txns, n, x), TxnId, Transaction)
  <2>1. n \in TxnId  BY FreshIsUnused DEF CanMove
  <2>2. x \in Transaction  BY DEF Transaction, NewTransaction
  <2> QED  BY <2>1, <2>2, PutIsPartial DEF ApplicationState
<1> HIDE DEF w, n, x
<1> QED  BY <1>2, <1>3, MovedFields DEF ApplicationState, w, n, x

-----------------------------------------------------------------------------
(* The operations.                                                         *)

\* A command is of the kind its operation name says.
LEMMA CommandKinds ==
    ASSUME NEW c \in Command
    PROVE  /\ c.op \in {"createUser", "transferMoney", "requestPayment",
                        "approvePayment", "rejectPayment", "annotateTransactionRisk"}
           /\ c.op = "createUser" => c \in CreateUserCmd
           /\ c.op = "transferMoney" => c \in TransferCmd
           /\ c.op = "requestPayment" => c \in RequestCmd
           /\ c.op = "approvePayment" => c \in ApproveCmd
           /\ c.op = "rejectPayment" => c \in RejectCmd
           /\ c.op = "annotateTransactionRisk" => c \in AnnotateCmd
BY DEF Command, CreateUserCmd, TransferCmd, RequestCmd, ApproveCmd, RejectCmd, AnnotateCmd

\* The aggregate each operation commits, collection by collection.
LEMMA CreateUserFields ==
    ASSUME NEW s, IsAggregate(s), NEW k, NEW c
    PROVE  LET f == CreateUser(s, k, c)
               u == Fresh(UserId, s.users)
           IN  /\ IsAggregate(f)
               /\ f.users = Put(s.users, u, c.phone)
               /\ f.wallets = Put(s.wallets, u, NewWallet)
               /\ f.txns = s.txns /\ f.requests = s.requests
               /\ f.records = Put(s.records, k, [cmd |-> c, result |-> u])
               /\ f.pending = s.pending \cup Events(k, {"createUser"})
<1> DEFINE u == Fresh(UserId, s.users)
           x == Put(s.users, u, c.phone)
           w == Put(s.wallets, u, NewWallet)
           s1 == [s EXCEPT !.users = x, !.wallets = w]
           A == {"createUser"}
<1>1. CreateUser(s, k, c) = Finish(s1, k, c, u, A)
  BY DEF CreateUser
<1> HIDE DEF u, x, w, A
<1>2. /\ IsAggregate(s1) /\ s1.users = x /\ s1.wallets = w /\ s1.txns = s.txns
      /\ s1.requests = s.requests /\ s1.records = s.records /\ s1.pending = s.pending
  BY DEF IsAggregate
<1> HIDE DEF s1
<1>3. LET f == Finish(s1, k, c, u, A)
      IN  /\ IsAggregate(f)
          /\ f.users = s1.users /\ f.wallets = s1.wallets
          /\ f.txns = s1.txns /\ f.requests = s1.requests
          /\ f.records = Put(s1.records, k, [cmd |-> c, result |-> u])
          /\ f.pending = s1.pending \cup Events(k, A)
  BY <1>2, FinishFields
<1> QED  BY <1>1, <1>2, <1>3 DEF u, x, w, A

LEMMA TransferMoneyFields ==
    ASSUME NEW s, IsAggregate(s), NEW k, NEW c, NEW t
    PROVE  LET f == TransferMoney(s, k, c, t)
               n == Fresh(TxnId, s.txns)
           IN  /\ IsAggregate(f)
               /\ f.users = s.users /\ f.requests = s.requests
               /\ f.wallets = DebitAndCredit(s.wallets, c.sender, c.receiver, c.amount)
               /\ f.txns = Put(s.txns, n,
                      NewTransaction(c.sender, c.receiver, c.amount, k, t))
               /\ f.records = Put(s.records, k, [cmd |-> c, result |-> n])
               /\ f.pending = s.pending \cup Events(k, {"transferMoney"})
<1> DEFINE n == Fresh(TxnId, s.txns)
           s1 == Moved(s, c.sender, c.receiver, c.amount, k, t)
           A == {"transferMoney"}
<1>1. TransferMoney(s, k, c, t) = Finish(s1, k, c, n, A)
  BY DEF TransferMoney
<1>2. /\ IsAggregate(s1) /\ s1.users = s.users /\ s1.requests = s.requests
      /\ s1.records = s.records /\ s1.pending = s.pending
      /\ s1.wallets = DebitAndCredit(s.wallets, c.sender, c.receiver, c.amount)
      /\ s1.txns = Put(s.txns, n,
                NewTransaction(c.sender, c.receiver, c.amount, k, t))
  BY MovedFields
<1> HIDE DEF n, s1, A
<1>3. LET f == Finish(s1, k, c, n, A)
      IN  /\ IsAggregate(f)
          /\ f.users = s1.users /\ f.wallets = s1.wallets
          /\ f.txns = s1.txns /\ f.requests = s1.requests
          /\ f.records = Put(s1.records, k, [cmd |-> c, result |-> n])
          /\ f.pending = s1.pending \cup Events(k, A)
  BY <1>2, FinishFields
<1> QED  BY <1>1, <1>2, <1>3 DEF n, A

LEMMA RequestPaymentFields ==
    ASSUME NEW s, IsAggregate(s), NEW k, NEW c, NEW t
    PROVE  LET f == RequestPayment(s, k, c, t)
               r == Fresh(RequestId, s.requests)
           IN  /\ IsAggregate(f)
               /\ f.users = s.users /\ f.wallets = s.wallets /\ f.txns = s.txns
               /\ f.requests = Put(s.requests, r,
                      NewRequest(c, t))
               /\ f.records = Put(s.records, k, [cmd |-> c, result |-> r])
               /\ f.pending = s.pending \cup Events(k, {"requestPayment"})
<1> DEFINE r == Fresh(RequestId, s.requests)
           q == Put(s.requests, r,
                      NewRequest(c, t))
           s1 == [s EXCEPT !.requests = q]
<1>1. RequestPayment(s, k, c, t) = Finish(s1, k, c, r, {"requestPayment"})
  BY DEF RequestPayment
<1> HIDE DEF r, q
<1>2. /\ IsAggregate(s1) /\ s1.users = s.users /\ s1.wallets = s.wallets /\ s1.txns = s.txns
      /\ s1.requests = q /\ s1.records = s.records /\ s1.pending = s.pending
  BY DEF IsAggregate
<1> HIDE DEF s1
<1> QED  BY <1>1, <1>2, FinishFields DEF r, q

\* What approving leaves: a money movement n and a request that points to it.
ApproveFields(s, f, k, c, t, q, n) ==
    /\ IsAggregate(f)
    /\ f.users = s.users
    /\ f.requests = Put(s.requests, c.request, Approved(q, n))
    /\ f.wallets = DebitAndCredit(s.wallets, q.payer, q.requester, q.amount)
    /\ f.txns = Put(s.txns, n, NewTransaction(q.payer, q.requester, q.amount, k, t))
    /\ f.records = Put(s.records, k, [cmd |-> c, result |-> c.request])
    /\ f.pending = s.pending \cup Events(k, {"transferMoney", "approvePayment"})

LEMMA ApprovePaymentFields ==
    ASSUME NEW s, IsAggregate(s), NEW k, NEW c, NEW t
    PROVE  ApproveFields(s, ApprovePayment(s, k, c, t), k, c, t,
                         s.requests[c.request], Fresh(TxnId, s.txns))
<1> DEFINE r == s.requests[c.request]
           n == Fresh(TxnId, s.txns)
           s0 == Moved(s, r.payer, r.requester, r.amount, k, t)
           q == Put(s.requests, c.request, Approved(r, n))
           s1 == [s0 EXCEPT !.requests = q]
           A == {"transferMoney", "approvePayment"}
<1>1. /\ IsAggregate(s0) /\ s0.users = s.users /\ s0.requests = s.requests
      /\ s0.records = s.records /\ s0.pending = s.pending
      /\ s0.wallets = DebitAndCredit(s.wallets, r.payer, r.requester, r.amount)
      /\ s0.txns = Put(s.txns, n,
                NewTransaction(r.payer, r.requester, r.amount, k, t))
  BY MovedFields
<1>2. ApprovePayment(s, k, c, t) = Finish(s1, k, c, c.request, A)
  <2>1. s1 = [s0 EXCEPT !.requests = Put(@, c.request, Approved(r, n))]
    BY <1>1
  <2> QED  BY <2>1 DEF ApprovePayment
<1> HIDE DEF s0, q, n, A
<1>3. /\ IsAggregate(s1) /\ s1.users = s0.users /\ s1.wallets = s0.wallets
      /\ s1.txns = s0.txns /\ s1.requests = q /\ s1.records = s0.records
      /\ s1.pending = s0.pending
  BY <1>1 DEF IsAggregate
<1> HIDE DEF s1, r
<1>4. LET f == Finish(s1, k, c, c.request, A)
      IN  /\ IsAggregate(f)
          /\ f.users = s1.users /\ f.wallets = s1.wallets
          /\ f.txns = s1.txns /\ f.requests = s1.requests
          /\ f.records = Put(s1.records, k, [cmd |-> c, result |-> c.request])
          /\ f.pending = s1.pending \cup Events(k, A)
  BY <1>3, FinishFields
<1>5. ApproveFields(s, Finish(s1, k, c, c.request, A), k, c, t, r, n)
  BY <1>1, <1>3, <1>4 DEF ApproveFields, A, q
<1> QED  BY <1>2, <1>5 DEF n, r

LEMMA RejectPaymentFields ==
    ASSUME NEW s, IsAggregate(s), NEW k, NEW c
    PROVE  LET f == RejectPayment(s, k, c)
           IN  /\ IsAggregate(f)
               /\ f.users = s.users /\ f.wallets = s.wallets /\ f.txns = s.txns
               /\ f.requests = Put(s.requests, c.request, Rejected(s.requests[c.request]))
               /\ f.records = Put(s.records, k, [cmd |-> c, result |-> c.request])
               /\ f.pending = s.pending \cup Events(k, {"rejectPayment"})
<1> DEFINE q == Put(s.requests, c.request, Rejected(s.requests[c.request]))
           s1 == [s EXCEPT !.requests = q]
<1>1. RejectPayment(s, k, c) = Finish(s1, k, c, c.request, {"rejectPayment"})
  BY DEF RejectPayment
<1> HIDE DEF q
<1>2. /\ IsAggregate(s1) /\ s1.users = s.users /\ s1.wallets = s.wallets /\ s1.txns = s.txns
      /\ s1.requests = q /\ s1.records = s.records /\ s1.pending = s.pending
  BY DEF IsAggregate
<1> HIDE DEF s1
<1> QED  BY <1>1, <1>2, FinishFields DEF q

LEMMA AnnotateFields ==
    ASSUME NEW s, IsAggregate(s), NEW k, NEW c
    PROVE  LET f == Annotate(s, k, c)
           IN  /\ IsAggregate(f)
               /\ f.users = s.users /\ f.wallets = s.wallets /\ f.requests = s.requests
               /\ f.txns = Put(s.txns, c.txn, WithStatus(s.txns[c.txn], c.status))
               /\ f.records = Put(s.records, k, [cmd |-> c, result |-> c.txn])
               /\ f.pending = s.pending \cup Events(k, {"annotateTransactionRisk"})
<1> DEFINE x == Put(s.txns, c.txn, WithStatus(s.txns[c.txn], c.status))
           s1 == [s EXCEPT !.txns = x]
           A == {"annotateTransactionRisk"}
<1>1. Annotate(s, k, c) = Finish(s1, k, c, c.txn, A)
  BY DEF Annotate
<1> HIDE DEF x, A
<1>2. /\ IsAggregate(s1) /\ s1.users = s.users /\ s1.wallets = s.wallets /\ s1.txns = x
      /\ s1.requests = s.requests /\ s1.records = s.records /\ s1.pending = s.pending
  BY DEF IsAggregate
<1> HIDE DEF s1
<1>3. LET f == Finish(s1, k, c, c.txn, A)
      IN  /\ IsAggregate(f)
          /\ f.users = s1.users /\ f.wallets = s1.wallets
          /\ f.txns = s1.txns /\ f.requests = s1.requests
          /\ f.records = Put(s1.records, k, [cmd |-> c, result |-> c.txn])
          /\ f.pending = s1.pending \cup Events(k, A)
  BY <1>2, FinishFields
<1> QED  BY <1>1, <1>2, <1>3 DEF x, A

-----------------------------------------------------------------------------
\* An accepted command is executed by the operation it names.
LEMMA Dispatch ==
    ASSUME NEW s, NEW k, NEW c \in Command, NEW t, Accepts(s, c, t)
    PROVE  /\ c.op = "createUser" =>
                CanCreateUser(s, c) /\ Apply(s, k, c, t) = CreateUser(s, k, c)
           /\ c.op = "transferMoney" =>
                CanTransferMoney(s, c, t) /\ Apply(s, k, c, t) = TransferMoney(s, k, c, t)
           /\ c.op = "requestPayment" =>
                CanRequestPayment(s, c) /\ Apply(s, k, c, t) = RequestPayment(s, k, c, t)
           /\ c.op = "approvePayment" =>
                CanApprovePayment(s, c, t) /\ Apply(s, k, c, t) = ApprovePayment(s, k, c, t)
           /\ c.op = "rejectPayment" =>
                CanRejectPayment(s, c, t) /\ Apply(s, k, c, t) = RejectPayment(s, k, c)
           /\ c.op = "annotateTransactionRisk" =>
                CanAnnotate(s, c) /\ Apply(s, k, c, t) = Annotate(s, k, c)
BY DEF Accepts, Apply

\* Recording a command keeps the records and the outbox well formed.
LEMMA RecordedKeepsState ==
    ASSUME NEW s, ApplicationState(s), NEW f, IsAggregate(f),
           NEW k \in Key, NEW c \in Command, NEW r \in Result,
           NEW A \in SUBSET {"createUser", "transferMoney", "requestPayment",
                            "approvePayment", "rejectPayment", "annotateTransactionRisk"},
           PartialFcn(f.users, UserId, Phone), PartialFcn(f.wallets, UserId, Wallet),
           PartialFcn(f.txns, TxnId, Transaction),
           PartialFcn(f.requests, RequestId, PaymentRequest),
           f.records = Put(s.records, k, [cmd |-> c, result |-> r]),
           f.pending = s.pending \cup Events(k, A)
    PROVE  ApplicationState(f)
<1>1. PartialFcn(f.records, Key, IdempotencyRecord)
  <2>1. [cmd |-> c, result |-> r] \in IdempotencyRecord  BY DEF IdempotencyRecord
  <2> QED  BY <2>1, PutIsPartial DEF ApplicationState
<1>2. Events(k, A) \subseteq AuditEvent  BY DEF Events, AuditEvent
<1> QED  BY <1>1, <1>2 DEF ApplicationState

\* Every accepted operation leaves a well formed aggregate with one more
\* record, that of its command under its key (payment_domain_service.py:282
\* _record).
LEMMA ApplyKeepsState ==
    ASSUME NEW s, ApplicationState(s), NEW k \in Key, NEW c \in Command,
           NEW t \in 0..MaxTime, Accepts(s, c, t)
    PROVE  /\ ApplicationState(Apply(s, k, c, t))
           /\ \E r \in Result :
                Apply(s, k, c, t).records = Put(s.records, k, [cmd |-> c, result |-> r])
<1>0. IsAggregate(s)  BY DEF ApplicationState
<1> DEFINE f == Apply(s, k, c, t)
<1>1. CASE c.op = "createUser"
  <2> DEFINE u == Fresh(UserId, s.users)
             A == {"createUser"}
  <2>1. CanCreateUser(s, c) /\ f = CreateUser(s, k, c)  BY <1>1, Dispatch
  <2>2. u \in UserId /\ u \in Result  BY <2>1, FreshIsUnused DEF CanCreateUser, Result
  <2>3. c.phone \in Phone  BY <1>1, CommandKinds DEF CreateUserCmd
  <2>4. NewWallet \in Wallet  BY LedgerAssumption DEF Wallet, NewWallet
  <2>5. PartialFcn(Put(s.users, u, c.phone), UserId, Phone)
    BY <2>2, <2>3, PutIsPartial DEF ApplicationState
  <2>6. PartialFcn(Put(s.wallets, u, NewWallet), UserId, Wallet)
    BY <2>2, <2>4, PutIsPartial DEF ApplicationState
  <2>7. /\ IsAggregate(f)
        /\ f.users = Put(s.users, u, c.phone)
        /\ f.wallets = Put(s.wallets, u, NewWallet)
        /\ f.txns = s.txns /\ f.requests = s.requests
        /\ f.records = Put(s.records, k, [cmd |-> c, result |-> u])
        /\ f.pending = s.pending \cup Events(k, A)
    <3> HIDE DEF f
    <3> QED  BY <1>0, <2>1, CreateUserFields
  <2>8. A \in SUBSET {"createUser", "transferMoney", "requestPayment",
                      "approvePayment", "rejectPayment", "annotateTransactionRisk"}
    OBVIOUS
  <2> HIDE DEF u, f, A
  <2>9. /\ PartialFcn(f.txns, TxnId, Transaction)
        /\ PartialFcn(f.requests, RequestId, PaymentRequest)
    BY <2>7 DEF ApplicationState
  <2>10. ApplicationState(f)
    BY <2>2, <2>5, <2>6, <2>7, <2>8, <2>9, RecordedKeepsState
  <2> QED  BY <2>2, <2>7, <2>10 DEF f
<1>2. CASE c.op = "transferMoney"
  <2> DEFINE n == Fresh(TxnId, s.txns)
             m == Moved(s, c.sender, c.receiver, c.amount, k, t)
             A == {"transferMoney"}
  <2>1. CanTransferMoney(s, c, t) /\ f = TransferMoney(s, k, c, t)
    BY <1>2, Dispatch
  <2>2. c.sender \in UserId /\ c.receiver \in UserId /\ c.amount \in Nat
    BY <1>2, CommandKinds, LedgerAssumption DEF TransferCmd
  <2>3. CanMove(s, c.sender, c.receiver, c.amount, t)  BY <2>1 DEF CanTransferMoney
  <2>4. n \in Result  BY <2>3, FreshIsUnused DEF CanMove, Result
  <2>5. ApplicationState(m)  BY <2>2, <2>3, MovedKeepsState
  <2>6. /\ IsAggregate(f)
        /\ f.users = s.users /\ f.requests = s.requests
        /\ f.wallets = m.wallets /\ f.txns = m.txns
        /\ f.records = Put(s.records, k, [cmd |-> c, result |-> n])
        /\ f.pending = s.pending \cup Events(k, A)
    <3>1. /\ m.wallets = DebitAndCredit(s.wallets, c.sender, c.receiver, c.amount)
          /\ m.txns = Put(s.txns, n,
                      NewTransaction(c.sender, c.receiver, c.amount, k, t))
      BY <1>0, MovedFields
    <3> HIDE DEF f, m
    <3> QED  BY <1>0, <2>1, <3>1, TransferMoneyFields
  <2>8. A \in SUBSET {"createUser", "transferMoney", "requestPayment",
                      "approvePayment", "rejectPayment", "annotateTransactionRisk"}
    OBVIOUS
  <2> HIDE DEF n, m, f, A
  <2>9. /\ PartialFcn(f.users, UserId, Phone) /\ PartialFcn(f.wallets, UserId, Wallet)
        /\ PartialFcn(f.txns, TxnId, Transaction)
        /\ PartialFcn(f.requests, RequestId, PaymentRequest)
    BY <2>5, <2>6 DEF ApplicationState
  <2>10. ApplicationState(f)
    BY <2>4, <2>6, <2>8, <2>9, RecordedKeepsState
  <2> QED  BY <2>4, <2>6, <2>10 DEF f
<1>3. CASE c.op = "requestPayment"
  <2> DEFINE r == Fresh(RequestId, s.requests)
             A == {"requestPayment"}
  <2>1. CanRequestPayment(s, c) /\ f = RequestPayment(s, k, c, t)
    BY <1>3, Dispatch
  <2>2. r \in RequestId /\ r \in Result
    BY <2>1, FreshIsUnused DEF CanRequestPayment, Result
  <2>3. c.requester \in UserId /\ c.payer \in UserId /\ c.amount \in Nat
    BY <1>3, CommandKinds, LedgerAssumption DEF RequestCmd
  <2>4. NewRequest(c, t) \in PaymentRequest  BY <2>3 DEF PaymentRequest, NewRequest
  <2>5. PartialFcn(Put(s.requests, r, NewRequest(c, t)), RequestId, PaymentRequest)
    BY <2>2, <2>4, PutIsPartial DEF ApplicationState
  <2>6. /\ IsAggregate(f)
        /\ f.users = s.users /\ f.wallets = s.wallets /\ f.txns = s.txns
        /\ f.requests = Put(s.requests, r, NewRequest(c, t))
        /\ f.records = Put(s.records, k, [cmd |-> c, result |-> r])
        /\ f.pending = s.pending \cup Events(k, A)
    <3> HIDE DEF f
    <3> QED  BY <1>0, <2>1, RequestPaymentFields
  <2>8. A \in SUBSET {"createUser", "transferMoney", "requestPayment",
                      "approvePayment", "rejectPayment", "annotateTransactionRisk"}
    OBVIOUS
  <2> HIDE DEF r, f, A
  <2>9. /\ PartialFcn(f.users, UserId, Phone) /\ PartialFcn(f.wallets, UserId, Wallet)
        /\ PartialFcn(f.txns, TxnId, Transaction)
    BY <2>6 DEF ApplicationState
  <2>10. ApplicationState(f)
    BY <2>2, <2>5, <2>6, <2>8, <2>9, RecordedKeepsState
  <2> QED  BY <2>2, <2>6, <2>10 DEF f
<1>4. CASE c.op = "approvePayment"
  <2> DEFINE r == s.requests[c.request]
             n == Fresh(TxnId, s.txns)
             m == Moved(s, r.payer, r.requester, r.amount, k, t)
             q == Put(s.requests, c.request, Approved(r, n))
             A == {"transferMoney", "approvePayment"}
  <2>1. CanApprovePayment(s, c, t) /\ f = ApprovePayment(s, k, c, t)
    BY <1>4, Dispatch
  <2>2. c.request \in Result  BY <1>4, CommandKinds DEF ApproveCmd, Result
  <2>3. c.request \in DOMAIN s.requests  BY <2>1 DEF CanApprovePayment, IsPending
  <2>4. r \in PaymentRequest  BY <2>3 DEF ApplicationState, PartialFcn
  <2>5. r.payer \in UserId /\ r.requester \in UserId /\ r.amount \in Nat
    BY <2>4 DEF PaymentRequest
  <2>6. /\ CanMove(s, r.payer, r.requester, r.amount, t)
        /\ n \in TxnId
    BY <2>1, FreshIsUnused DEF CanApprovePayment, CanMove
  <2>7. PartialFcn(q, RequestId, PaymentRequest)
    <3>1. Approved(r, n) \in PaymentRequest
      <4> HIDE DEF n, r
      <4> QED  BY <2>4, <2>6 DEF PaymentRequest, Approved
    <3> HIDE DEF n, r
    <3> QED  BY <2>3, <3>1, PutIsPartial DEF ApplicationState, PartialFcn
  <2>8. A \in SUBSET {"createUser", "transferMoney", "requestPayment",
                      "approvePayment", "rejectPayment", "annotateTransactionRisk"}
    OBVIOUS
  <2>9. ApplicationState(m)  BY <2>5, <2>6, MovedKeepsState
  <2>10. /\ IsAggregate(f)
         /\ f.users = s.users /\ f.requests = q
         /\ f.wallets = m.wallets /\ f.txns = m.txns
         /\ f.records = Put(s.records, k, [cmd |-> c, result |-> c.request])
         /\ f.pending = s.pending \cup Events(k, A)
    <3>1. /\ m.wallets = DebitAndCredit(s.wallets, r.payer, r.requester, r.amount)
          /\ m.txns = Put(s.txns, n,
                      NewTransaction(r.payer, r.requester, r.amount, k, t))
      BY <1>0, MovedFields
    <3> DEFINE g == ApprovePayment(s, k, c, t)
    <3>2. /\ IsAggregate(g)
          /\ g.users = s.users /\ g.requests = q
          /\ g.wallets = DebitAndCredit(s.wallets, r.payer, r.requester, r.amount)
          /\ g.txns = Put(s.txns, n,
                      NewTransaction(r.payer, r.requester, r.amount, k, t))
          /\ g.records = Put(s.records, k, [cmd |-> c, result |-> c.request])
          /\ g.pending = s.pending \cup Events(k, A)
      BY <1>0, ApprovePaymentFields DEF ApproveFields
    <3> HIDE DEF f, g, m, q, n, r
    <3> QED  BY <2>1, <3>1, <3>2 DEF g
  <2> HIDE DEF r, n, m, q, f, A
  <2>11. /\ PartialFcn(f.users, UserId, Phone) /\ PartialFcn(f.wallets, UserId, Wallet)
         /\ PartialFcn(f.txns, TxnId, Transaction)
    BY <2>9, <2>10 DEF ApplicationState
  <2>12. ApplicationState(f)
    BY <2>2, <2>7, <2>8, <2>10, <2>11, RecordedKeepsState
  <2> QED  BY <2>2, <2>10, <2>12 DEF f
<1>5. CASE c.op = "rejectPayment"
  <2> DEFINE q == Put(s.requests, c.request, Rejected(s.requests[c.request]))
             A == {"rejectPayment"}
  <2>1. CanRejectPayment(s, c, t) /\ f = RejectPayment(s, k, c)
    BY <1>5, Dispatch
  <2>2. c.request \in Result  BY <1>5, CommandKinds DEF RejectCmd, Result
  <2>3. c.request \in DOMAIN s.requests  BY <2>1 DEF CanRejectPayment, IsPending
  <2>4. PartialFcn(q, RequestId, PaymentRequest)
    <3> DEFINE r == s.requests[c.request]
    <3>1. r \in PaymentRequest  BY <2>3 DEF ApplicationState, PartialFcn
    <3>2. Rejected(r) \in PaymentRequest
      <4> HIDE DEF r
      <4> QED  BY <3>1 DEF PaymentRequest, Rejected
    <3>3. c.request \in RequestId /\ PartialFcn(s.requests, RequestId, PaymentRequest)
      BY <2>3 DEF ApplicationState, PartialFcn
    <3> QED  BY <3>2, <3>3, PutIsPartial
  <2>5. /\ IsAggregate(f)
        /\ f.users = s.users /\ f.wallets = s.wallets /\ f.txns = s.txns
        /\ f.requests = q
        /\ f.records = Put(s.records, k, [cmd |-> c, result |-> c.request])
        /\ f.pending = s.pending \cup Events(k, A)
    <3> HIDE DEF f
    <3> QED  BY <1>0, <2>1, RejectPaymentFields
  <2>8. A \in SUBSET {"createUser", "transferMoney", "requestPayment",
                      "approvePayment", "rejectPayment", "annotateTransactionRisk"}
    OBVIOUS
  <2> HIDE DEF q, f, A
  <2>9. /\ PartialFcn(f.users, UserId, Phone) /\ PartialFcn(f.wallets, UserId, Wallet)
        /\ PartialFcn(f.txns, TxnId, Transaction)
    BY <2>5 DEF ApplicationState
  <2>10. ApplicationState(f)
    BY <2>2, <2>4, <2>5, <2>8, <2>9, RecordedKeepsState
  <2> QED  BY <2>2, <2>5, <2>10 DEF f
<1>6. CASE c.op = "annotateTransactionRisk"
  <2> DEFINE x == Put(s.txns, c.txn, WithStatus(s.txns[c.txn], c.status))
             A == {"annotateTransactionRisk"}
  <2>1. CanAnnotate(s, c) /\ f = Annotate(s, k, c)  BY <1>6, Dispatch
  <2>2. c.txn \in Result /\ c.status \in {"COMPLETED", "FLAGGED"}
    BY <1>6, CommandKinds DEF AnnotateCmd, Result
  <2>3. PartialFcn(x, TxnId, Transaction)
    <3> DEFINE n == s.txns[c.txn]
    <3>1. c.txn \in TxnId /\ n \in Transaction
      BY <2>1 DEF CanAnnotate, ApplicationState, PartialFcn
    <3>2. WithStatus(n, c.status) \in Transaction
      <4> HIDE DEF n
      <4> QED  BY <2>2, <3>1 DEF Transaction, WithStatus
    <3> HIDE DEF n
    <3> QED  BY <3>1, <3>2, PutIsPartial DEF ApplicationState, n
  <2>4. /\ IsAggregate(f)
        /\ f.users = s.users /\ f.wallets = s.wallets /\ f.requests = s.requests
        /\ f.txns = x
        /\ f.records = Put(s.records, k, [cmd |-> c, result |-> c.txn])
        /\ f.pending = s.pending \cup Events(k, A)
    <3> HIDE DEF f
    <3> QED  BY <1>0, <2>1, AnnotateFields
  <2>8. A \in SUBSET {"createUser", "transferMoney", "requestPayment",
                      "approvePayment", "rejectPayment", "annotateTransactionRisk"}
    OBVIOUS
  <2> HIDE DEF x, f, A
  <2>9. /\ PartialFcn(f.users, UserId, Phone) /\ PartialFcn(f.wallets, UserId, Wallet)
        /\ PartialFcn(f.requests, RequestId, PaymentRequest)
    BY <2>4 DEF ApplicationState
  <2>10. ApplicationState(f)
    BY <2>2, <2>3, <2>4, <2>8, <2>9, RecordedKeepsState
  <2> QED  BY <2>2, <2>4, <2>10 DEF f
<1> QED  BY <1>1, <1>2, <1>3, <1>4, <1>5, <1>6, CommandKinds

\* A command accepted under a new key is recorded, and no earlier record is
\* touched.
LEMMA RecordsGrow ==
    ASSUME NEW s, ApplicationState(s), NEW k \in Key, NEW c \in Command,
           NEW t \in 0..MaxTime, Accepts(s, c, t), IsNew(s, k)
    PROVE  LET f == Apply(s, k, c, t)
           IN  /\ k \in DOMAIN f.records
               /\ f.records[k].cmd = c
               /\ f.records[k].result \in Result
               /\ \A j \in DOMAIN s.records :
                     j \in DOMAIN f.records /\ f.records[j] = s.records[j]
<1> DEFINE f == Apply(s, k, c, t)
<1>1. PICK r \in Result : f.records = Put(s.records, k, [cmd |-> c, result |-> r])
  BY ApplyKeepsState
<1> HIDE DEF f
<1>2. f.records[k] = [cmd |-> c, result |-> r]  BY <1>1 DEF Put
<1> QED  BY <1>1, <1>2 DEF Put, IsNew, f

-----------------------------------------------------------------------------
(***************************************************************************)
(* Sums of money.  SumSent (policies.py:74, the sum over the transactions  *)
(* of a window) is a fold, whose recursive function the provers know only  *)
(* as CHOOSE iter : iter = ....  Counting the units of money one by one    *)
(* gives a function that satisfies the recursion, and a smallest set on    *)
(* which another solution would differ gives the contradiction: so a sum   *)
(* is the cardinality of a set of coins, and the laws of sums are those of *)
(* finite cardinalities.                                                   *)
(***************************************************************************)

\* The element a fold takes first, one step of its recursion, its function.
Taken(u) == CHOOSE x \in u : TRUE

SumStep(s, u, g) ==
    IF u = {} THEN 0 ELSE s.txns[Taken(u)].amount + g[u \ {Taken(u)}]

Summing(s, ns) == CHOOSE g : g = [u \in SUBSET ns |-> SumStep(s, u, g)]

\* Transactions that can be summed: finitely many, of natural amounts.
Summable(s, ns) == IsFiniteSet(ns) /\ \A n \in ns : s.txns[n].amount \in Nat

\* The units of money of transactions, each named by its transaction and place.
CoinsOf(s, n) == {n} \X (1 .. s.txns[n].amount)
Coins(s, ns)  == UNION {CoinsOf(s, n) : n \in ns}

\* SumSent is its fold's recursive function applied to the whole set.
LEMMA SumSentIsFold ==
    ASSUME NEW s, NEW ns
    PROVE  SumSent(s, ns) = Summing(s, ns)[ns]
BY DEF SumSent, MapThenSumSet, MapThenFoldSet, Summing, SumStep, Taken

\* A nonempty family of subsets of a finite set has a smallest member.
LEMMA SmallestMember ==
    ASSUME NEW S, IsFiniteSet(S), NEW B \in SUBSET SUBSET S, B # {}
    PROVE  \E u \in B : \A v \in B : v \subseteq u => v = u
<1>1. IsWellFoundedOn(StrictSubsetOrdering(S), SUBSET S)
  BY FS_StrictSubsetOrderingWellFounded, FS_FiniteSubsetsOfFinite
<1>2. PICK u \in B : \A v \in B : ~ (<<v, u>> \in StrictSubsetOrdering(S))
  BY <1>1, WFMin, Zenon
<1> QED  BY <1>2 DEF StrictSubsetOrdering

\* A transaction has as many coins as its amount says.
LEMMA CoinsOfOne ==
    ASSUME NEW s, NEW n, s.txns[n].amount \in Nat
    PROVE  IsFiniteSet(CoinsOf(s, n)) /\ Cardinality(CoinsOf(s, n)) = s.txns[n].amount
<1> DEFINE a == s.txns[n].amount
<1>1. IsFiniteSet({n}) /\ Cardinality({n}) = 1  BY FS_Singleton
<1> HIDE DEF a
<1>2. a \in Nat  BY DEF a
<1>3. IsFiniteSet(1..a) /\ Cardinality(1..a) = a
  <2>1. /\ IsFiniteSet(1..a)
        /\ Cardinality(1..a) = IF 1 > a THEN 0 ELSE a - 1 + 1
    <3>1. 1 \in Int /\ a \in Int  BY <1>2
    <3> HIDE <1>2
    <3> QED  BY <3>1, FS_Interval
  <2> QED  BY <1>2, <2>1
<1> DEFINE I == 1..a
<1>4. IsFiniteSet({n} \X I) /\ Cardinality({n} \X I) = 1 * a
  <2> HIDE DEF I
  <2>1. IsFiniteSet(I) /\ Cardinality(I) = a  BY <1>3 DEF I
  <2> QED  BY <1>1, <2>1, FS_Product
<1> QED  BY <1>2, <1>4 DEF CoinsOf, a

\* The coins of a set are those of one transaction and those of the others.
LEMMA CoinsSplit ==
    ASSUME NEW s, NEW ns, NEW n \in ns
    PROVE  /\ Coins(s, ns) = Coins(s, ns \ {n}) \cup CoinsOf(s, n)
           /\ Coins(s, ns \ {n}) \cap CoinsOf(s, n) = {}
BY DEF Coins, CoinsOf

\* Coins of finitely many transactions are finitely many.
LEMMA CoinsFinite ==
    ASSUME NEW s, NEW ns, Summable(s, ns)
    PROVE  \A u \in SUBSET ns : IsFiniteSet(Coins(s, u))
<1> DEFINE B == {u \in SUBSET ns : ~ IsFiniteSet(Coins(s, u))}
<1> SUFFICES ASSUME B # {} PROVE FALSE  OBVIOUS
<1>1. PICK u \in B : \A v \in B : v \subseteq u => v = u
  <2>1. B \in SUBSET SUBSET ns  OBVIOUS
  <2> HIDE DEF B
  <2> QED  BY <2>1, SmallestMember DEF Summable
<1>2. u # {}
  BY <1>1, FS_EmptySet DEF Coins
<1>3. PICK n \in u : TRUE  BY <1>2
<1>4. IsFiniteSet(Coins(s, u \ {n}))  BY <1>1, <1>3
<1>5. IsFiniteSet(CoinsOf(s, n))  BY <1>3, CoinsOfOne DEF Summable
<1>6. IsFiniteSet(Coins(s, u \ {n}) \cup CoinsOf(s, n))  BY <1>4, <1>5, FS_Union
<1>7. Coins(s, u) = Coins(s, u \ {n}) \cup CoinsOf(s, n)  BY <1>3, CoinsSplit
<1> QED  BY <1>1, <1>6, <1>7

\* Counting coins one transaction after the other.
LEMMA CoinsCount ==
    ASSUME NEW s, NEW ns, Summable(s, ns), NEW n \in ns
    PROVE  /\ Cardinality(Coins(s, ns)) \in Nat
           /\ Cardinality(Coins(s, ns)) = s.txns[n].amount + Cardinality(Coins(s, ns \ {n}))
<1> DEFINE C == Coins(s, ns \ {n})
           D == CoinsOf(s, n)
<1>1. s.txns[n].amount \in Nat  BY DEF Summable
<1>2. IsFiniteSet(C)  BY CoinsFinite
<1>3. IsFiniteSet(D) /\ Cardinality(D) = s.txns[n].amount  BY <1>1, CoinsOfOne
<1>4. Coins(s, ns) = C \cup D /\ C \cap D = {}  BY CoinsSplit
<1>5. Cardinality(C) \in Nat  BY <1>2, FS_CardinalityType
<1> HIDE DEF C, D
<1>6. Cardinality(C \cup D) = Cardinality(C) + Cardinality(D) - Cardinality(C \cap D)
  BY <1>2, <1>3, FS_Union
<1>7. Cardinality({}) = 0  BY FS_EmptySet
<1>8. Cardinality(Coins(s, ns)) = s.txns[n].amount + Cardinality(C)
  <2>1. Cardinality(C \cap D) = 0  BY <1>4, <1>7
  <2>2. Cardinality(Coins(s, ns)) = Cardinality(C \cup D)  BY <1>4
  <2> DEFINE c == Cardinality(C)
             a == s.txns[n].amount
             z == Cardinality(C \cup D)
  <2>3. z = c + a - 0 /\ c \in Nat /\ a \in Nat
    BY <1>1, <1>3, <1>5, <1>6, <2>1
  <2> HIDE DEF c, a, z
  <2>4. z = a + c  BY <2>3
  <2> QED  BY <2>2, <2>4 DEF a, c, z
<1> QED  BY <1>1, <1>5, <1>8 DEF C

\* A sum is a number of coins.
LEMMA SumIsCoins ==
    ASSUME NEW s, NEW ns, Summable(s, ns)
    PROVE  SumSent(s, ns) = Cardinality(Coins(s, ns))
<1> DEFINE h == [u \in SUBSET ns |-> Cardinality(Coins(s, u))]
           g == Summing(s, ns)
<1>1. \A u \in SUBSET ns : Cardinality(Coins(s, u)) = SumStep(s, u, h)
  <2> SUFFICES ASSUME NEW u \in SUBSET ns
               PROVE  Cardinality(Coins(s, u)) = SumStep(s, u, h)
    OBVIOUS
  <2>1. CASE u = {}
    <3>1. Coins(s, u) = {}  BY <2>1 DEF Coins
    <3> QED  BY <2>1, <3>1, FS_EmptySet DEF SumStep
  <2>2. CASE u # {}
    <3>1. Taken(u) \in u  BY <2>2 DEF Taken
    <3>2. Summable(s, u)  BY FS_Subset DEF Summable
    <3>3. Cardinality(Coins(s, u))
            = s.txns[Taken(u)].amount + Cardinality(Coins(s, u \ {Taken(u)}))
      BY <3>1, <3>2, CoinsCount
    <3>4. h[u \ {Taken(u)}] = Cardinality(Coins(s, u \ {Taken(u)}))  OBVIOUS
    <3> QED  BY <2>2, <3>3, <3>4 DEF SumStep
  <2> QED  BY <2>1, <2>2
<1>2. h = [u \in SUBSET ns |-> SumStep(s, u, h)]
  BY <1>1
<1>3. g = [u \in SUBSET ns |-> SumStep(s, u, g)]
  <2> HIDE DEF h
  <2> QED  BY <1>2 DEF Summing
<1> HIDE DEF g
<1>4. \A u \in SUBSET ns : g[u] = Cardinality(Coins(s, u))
  <2> DEFINE B == {u \in SUBSET ns : g[u] # Cardinality(Coins(s, u))}
  <2> SUFFICES ASSUME B # {} PROVE FALSE  OBVIOUS
  <2>1. PICK u \in B : \A v \in B : v \subseteq u => v = u
    <3>1. B \in SUBSET SUBSET ns  OBVIOUS
    <3> HIDE DEF B
    <3> QED  BY <3>1, SmallestMember DEF Summable
  <2>2. g[u] = SumStep(s, u, g)  BY <1>3, <2>1
  <2>3. Cardinality(Coins(s, u)) = SumStep(s, u, h)  BY <1>1, <2>1
  <2>4. u # {}  BY <2>1, <2>2, <2>3 DEF SumStep
  <2>5. Taken(u) \in u  BY <2>4 DEF Taken
  <2>6. u \ {Taken(u)} \in SUBSET ns /\ u \ {Taken(u)} \notin B  BY <2>1, <2>5
  <2>7. g[u \ {Taken(u)}] = h[u \ {Taken(u)}]  BY <2>6
  <2> QED  BY <2>1, <2>2, <2>3, <2>4, <2>7 DEF SumStep
<1> QED  BY <1>4, SumSentIsFold DEF g

-----------------------------------------------------------------------------
(* The laws of sums.                                                       *)

\* A sum of money is a natural number, and no transaction moves nothing.
LEMMA SumNat ==
    ASSUME NEW s, NEW ns, Summable(s, ns)
    PROVE  SumSent(s, ns) \in Nat
<1>1. IsFiniteSet(Coins(s, ns))  BY CoinsFinite
<1> QED  BY <1>1, SumIsCoins, FS_CardinalityType

\* The sum of no transaction is zero.
LEMMA SumEmpty == ASSUME NEW s PROVE SumSent(s, {}) = 0
<1>1. Summable(s, {})  BY FS_EmptySet DEF Summable
<1>2. Coins(s, {}) = {}  BY DEF Coins
<1> QED  BY <1>1, <1>2, SumIsCoins, FS_EmptySet

\* One more transaction adds its amount.
LEMMA SumAdd ==
    ASSUME NEW s, NEW ns, NEW n, n \notin ns, Summable(s, ns \cup {n})
    PROVE  SumSent(s, ns \cup {n}) = SumSent(s, ns) + s.txns[n].amount
<1> DEFINE m == ns \cup {n}
<1>1. n \in m /\ m \ {n} = ns  OBVIOUS
<1>2. Summable(s, ns)  BY FS_Subset DEF Summable
<1>3. Cardinality(Coins(s, m)) = s.txns[n].amount + Cardinality(Coins(s, m \ {n}))
  BY <1>1, CoinsCount
<1>4. s.txns[n].amount \in Nat  BY DEF Summable
<1>5. SumSent(s, ns) \in Nat  BY <1>2, SumNat
<1>6. /\ SumSent(s, m) = Cardinality(Coins(s, m))
      /\ SumSent(s, ns) = Cardinality(Coins(s, ns))
  BY <1>2, SumIsCoins
<1>7. m \ {n} = ns  OBVIOUS
<1> HIDE DEF m
<1>8. SumSent(s, m) = SumSent(s, ns) + s.txns[n].amount
  <2> DEFINE a == s.txns[n].amount
             x == SumSent(s, ns)
             y == SumSent(s, m)
  <2>1. y = a + x /\ x \in Nat /\ a \in Nat  BY <1>3, <1>4, <1>5, <1>6, <1>7
  <2> HIDE DEF a, x, y
  <2>2. y = x + a  BY <2>1
  <2> QED  BY <2>2 DEF a, x, y
<1> QED  BY <1>8 DEF m

\* Part of the transactions moved at most as much.
LEMMA SumPart ==
    ASSUME NEW s, NEW ns, Summable(s, ns), NEW ms \in SUBSET ns
    PROVE  Summable(s, ms) /\ SumSent(s, ms) <= SumSent(s, ns)
<1>1. Summable(s, ms)  BY FS_Subset DEF Summable
<1>2. Coins(s, ms) \subseteq Coins(s, ns)  BY DEF Coins
<1>3. IsFiniteSet(Coins(s, ns))  BY CoinsFinite
<1>4. Cardinality(Coins(s, ms)) <= Cardinality(Coins(s, ns))
  BY <1>2, <1>3, FS_Subset
<1> QED  BY <1>1, <1>4, SumIsCoins

\* Transactions covered by two sets moved at most the two sums together.
LEMMA SumCover ==
    ASSUME NEW s, NEW as, NEW bs, Summable(s, as), Summable(s, bs),
           NEW ns \in SUBSET (as \cup bs)
    PROVE  SumSent(s, ns) <= SumSent(s, as) + SumSent(s, bs)
<1>1. Summable(s, as \cup bs)  BY FS_Union DEF Summable
<1>2. SumSent(s, ns) <= SumSent(s, as \cup bs)  BY <1>1, SumPart
<1> DEFINE C == Coins(s, as)
           D == Coins(s, bs)
<1>3. Coins(s, as \cup bs) = C \cup D  BY DEF Coins
<1>4. IsFiniteSet(C) /\ IsFiniteSet(D)  BY CoinsFinite
<1>5. /\ SumSent(s, as) = Cardinality(C) /\ SumSent(s, bs) = Cardinality(D)
      /\ SumSent(s, as \cup bs) = Cardinality(C \cup D)
  BY <1>1, <1>3, SumIsCoins
<1> HIDE DEF C, D
<1>6. Cardinality(C \cup D) = Cardinality(C) + Cardinality(D) - Cardinality(C \cap D)
  BY <1>4, FS_Union
<1>7. IsFiniteSet(C \cap D)  BY <1>4, FS_Intersection
<1>8. Cardinality(C) \in Nat /\ Cardinality(D) \in Nat /\ Cardinality(C \cap D) \in Nat
  BY <1>4, <1>7, FS_CardinalityType
<1>9. SumSent(s, ns) \in Nat
  <2>1. Summable(s, ns)  BY <1>1, SumPart
  <2> QED  BY <2>1, SumNat
<1> QED  BY <1>2, <1>5, <1>6, <1>8, <1>9

\* Only the amounts of the transactions summed matter.
LEMMA SumSame ==
    ASSUME NEW s, NEW r, NEW ns, Summable(s, ns),
           \A n \in ns : r.txns[n].amount = s.txns[n].amount
    PROVE  Summable(r, ns) /\ SumSent(r, ns) = SumSent(s, ns)
<1>1. Summable(r, ns)  BY DEF Summable
<1>2. Coins(r, ns) = Coins(s, ns)  BY DEF Coins, CoinsOf
<1> QED  BY <1>1, <1>2, SumIsCoins
=============================================================================
