---------------------------- MODULE PaymentLedger ----------------------------
(***************************************************************************)
(* The payment domain as a serial ledger: what each mutating operation of  *)
(* PaymentDomainService does to one ApplicationState aggregate, and the    *)
(* abstract specification of the service, in which every accepted command  *)
(* takes effect atomically, durably and once per idempotency key.          *)
(*                                                                         *)
(* Amounts are integers (agorot: two fractional digits at most are         *)
(* accepted).  An identifier is an opaque value; uuid4 freshness is "some  *)
(* identifier the aggregate does not use", and as identifiers carry no     *)
(* other meaning one representative of the unused ones is chosen.          *)
(* A request fingerprint is a collision-free digest of the command, so it  *)
(* is the command itself.  Names, correlation ids and risk scores only     *)
(* travel through, and are left out.                                       *)
(***************************************************************************)
EXTENDS Integers, FiniteSetsExt

CONSTANTS
    UserId, TxnId, RequestId,  \* generated identifiers (bounds of a run)
    Key,                       \* idempotency keys
    Phone,                     \* normalised phone numbers
    Amount,                    \* amounts a caller may ask for
    InitialUsers,              \* user id -> phone, as loaded from the state file
    InitialBalance,            \* the balance every wallet is opened with
    MaxSingle, MaxDaily,       \* TransferPolicy limits
    Window,                    \* length of the rolling window (24 hours)
    MaxTime                    \* last instant of the clock in a run

ASSUME LedgerAssumption ==
    /\ Amount \subseteq Nat
    /\ {InitialBalance, MaxSingle, MaxDaily, Window, MaxTime} \subseteq Nat
    /\ DOMAIN InitialUsers \subseteq UserId
    /\ InitialUsers \in [DOMAIN InitialUsers -> Phone]
    /\ \A u, v \in DOMAIN InitialUsers : InitialUsers[u] = InitialUsers[v] => u = v

NoTxn == "none"     \* PaymentRequest.related_transaction_id is None
ASSUME NoTxnAssumption == NoTxn \notin TxnId

-----------------------------------------------------------------------------
(* The aggregate: the keyed collections of ApplicationState.               *)

\* dict assignment  d[k] = v
Put(d, k, v) == [x \in DOMAIN d \cup {k} |-> IF x = k THEN v ELSE d[x]]

PartialFcn(f, D, R) == DOMAIN f \subseteq D /\ f \in [DOMAIN f -> R]

Wallet == [balance : Nat, version : Nat]

Transaction == [sender : UserId, receiver : UserId, amount : Nat, at : 0..MaxTime,
                status : {"COMPLETED", "FLAGGED"}, key : Key]

PaymentRequest == [requester : UserId, payer : UserId, amount : Nat,
                   created : 0..MaxTime, status : {"PENDING", "APPROVED", "REJECTED"},
                   txn : TxnId \cup {NoTxn}]

CreateUserCmd == [op : {"createUser"}, phone : Phone]
TransferCmd   == {c \in [op : {"transferMoney"}, sender : UserId, receiver : UserId,
                         amount : Amount] : c.sender # c.receiver}
RequestCmd    == {c \in [op : {"requestPayment"}, requester : UserId, payer : UserId,
                         amount : Amount] : c.requester # c.payer}
ApproveCmd    == [op : {"approvePayment"}, request : RequestId]
RejectCmd     == [op : {"rejectPayment"}, request : RequestId]
AnnotateCmd   == [op : {"annotateTransactionRisk"}, txn : TxnId,
                  status : {"COMPLETED", "FLAGGED"}]

\* What a caller can ask for.  Self transfers are refused before any lock.
Command == CreateUserCmd \cup TransferCmd \cup RequestCmd
             \cup ApproveCmd \cup RejectCmd \cup AnnotateCmd

Result == UserId \cup TxnId \cup RequestId

IdempotencyRecord == [cmd : Command, result : Result]

\* An audit event is known by what it reports and the key of its command.
AuditEvent == [action : {"createUser", "transferMoney", "requestPayment",
                         "approvePayment", "rejectPayment", "annotateTransactionRisk"},
               key : Key]

\* s is a record with these fields and no other.
IsAggregate(s) ==
    s \in [users    : {s.users},    wallets : {s.wallets}, txns    : {s.txns},
          requests : {s.requests}, records : {s.records}, pending : {s.pending}]

ApplicationState(s) ==
    /\ IsAggregate(s)
    /\ PartialFcn(s.users, UserId, Phone)
    /\ PartialFcn(s.wallets, UserId, Wallet)
    /\ PartialFcn(s.txns, TxnId, Transaction)
    /\ PartialFcn(s.requests, RequestId, PaymentRequest)
    /\ PartialFcn(s.records, Key, IdempotencyRecord)
    /\ s.pending \subseteq AuditEvent

\* validate_invariants: what every commit, save and load checks of an aggregate.
Validates(s) ==
    /\ \A u, v \in DOMAIN s.users : s.users[u] = s.users[v] => u = v
    /\ DOMAIN s.users = DOMAIN s.wallets
    /\ \A n \in DOMAIN s.txns : {s.txns[n].sender, s.txns[n].receiver} \subseteq DOMAIN s.users
    /\ \A r \in DOMAIN s.requests :
          LET q == s.requests[r]
          IN  /\ {q.requester, q.payer} \subseteq DOMAIN s.users
              /\ q.status = "APPROVED" =>
                   /\ q.txn \in DOMAIN s.txns
                   /\ s.txns[q.txn].sender = q.payer
                   /\ s.txns[q.txn].receiver = q.requester
                   /\ s.txns[q.txn].amount = q.amount

NewWallet == [balance |-> InitialBalance, version |-> 0]

\* The aggregate a process starts from.  Its users were created under keys
\* outside Key, whose records and delivered events play no further part.
InitialState ==
    [users    |-> InitialUsers,
     wallets  |-> [u \in DOMAIN InitialUsers |-> NewWallet],
     txns     |-> [n \in {} |-> n],
     requests |-> [r \in {} |-> r],
     records  |-> [k \in {} |-> k],
     pending  |-> {}]

-----------------------------------------------------------------------------
(* TransferPolicy and the shared steps of the operations.                  *)

HasFresh(Ids, d) == Ids \ DOMAIN d # {}
Fresh(Ids, d)    == CHOOSE i \in Ids : i \notin DOMAIN d

\* Transactions of a sender created in the closed window that ends at t.
SentWithin(s, u, from, to) ==
    {n \in DOMAIN s.txns : s.txns[n].sender = u /\ s.txns[n].at \in from..to}

SumSent(s, ns) == MapThenSumSet(LAMBDA n : s.txns[n].amount, ns)

WithinDailyLimitLate(s, u, amount, t) ==    \* mutant: today's amount not counted
    SumSent(s, SentWithin(s, u, t - Window, t)) <= MaxDaily

WithinDailyLimit(s, u, amount, t) ==
    SumSent(s, SentWithin(s, u, t - Window, t)) + amount <= MaxDaily

\* The checks of one money movement, in the code's _transfer_snapshot.
CanMoveOverdraft(s, sender, receiver, amount, t) ==    \* mutant: no balance check
    /\ {sender, receiver} \subseteq DOMAIN s.users
    /\ amount \in 1..MaxSingle
    /\ WithinDailyLimit(s, sender, amount, t)
    /\ HasFresh(TxnId, s.txns)

CanMove(s, sender, receiver, amount, t) ==
    /\ {sender, receiver} \subseteq DOMAIN s.users
    /\ amount > 0
    /\ amount <= MaxSingle
    /\ WithinDailyLimit(s, sender, amount, t)
    /\ amount <= s.wallets[sender].balance
    /\ HasFresh(TxnId, s.txns)

WithBalance(w, balance) == [balance |-> balance, version |-> w.version + 1]

NewTransaction(sender, receiver, amount, k, t) ==
    [sender |-> sender, receiver |-> receiver, amount |-> amount,
     at |-> t, status |-> "COMPLETED", key |-> k]

DebitOnly(ws, sender, receiver, amount) ==    \* mutant: the credit is lost
    [ws EXCEPT ![sender] = WithBalance(@, @.balance - amount)]

DebitAndCredit(ws, sender, receiver, amount) ==
    [u \in DOMAIN ws |->
       CASE u = sender   -> WithBalance(ws[u], ws[u].balance - amount)
         [] u = receiver -> WithBalance(ws[u], ws[u].balance + amount)
         [] OTHER        -> ws[u]]

\* Debit, credit and record: nothing else of the aggregate changes.
Moved(s, sender, receiver, amount, k, t) ==
    [s EXCEPT
       !.wallets = DebitAndCredit(@, sender, receiver, amount),
       !.txns = Put(@, Fresh(TxnId, @), NewTransaction(sender, receiver, amount, k, t))]

\* The events an operation appends to the outbox.
Events(k, actions) == {[action |-> a, key |-> k] : a \in actions}

\* _audit for each action, then _record: they commit with the mutation.
Finish(s, k, c, result, actions) ==
    [s EXCEPT !.pending = @ \cup Events(k, actions),
              !.records = Put(@, k, [cmd |-> c, result |-> result])]

-----------------------------------------------------------------------------
(* The operations: CanX is the conjunction of the checks X makes on the    *)
(* working state, X the working state it commits.                          *)

CanCreateUserTwice(s, c) == HasFresh(UserId, s.users)    \* mutant: phone not checked

CanCreateUser(s, c) ==
    /\ \A u \in DOMAIN s.users : s.users[u] # c.phone
    /\ HasFresh(UserId, s.users)

CreateUser(s, k, c) ==
    LET u == Fresh(UserId, s.users)
    IN  Finish([s EXCEPT !.users = Put(@, u, c.phone),
                         !.wallets = Put(@, u, NewWallet)],
               k, c, u, {"createUser"})

CanTransferMoney(s, c, t) == CanMove(s, c.sender, c.receiver, c.amount, t)

TransferMoneyUnrecorded(s, k, c, t) ==    \* mutant: no idempotency record
    [Moved(s, c.sender, c.receiver, c.amount, k, t) EXCEPT
       !.pending = @ \cup Events(k, {"transferMoney"})]

TransferMoney(s, k, c, t) ==
    Finish(Moved(s, c.sender, c.receiver, c.amount, k, t),
           k, c, Fresh(TxnId, s.txns), {"transferMoney"})

CanRequestPayment(s, c) ==
    /\ {c.requester, c.payer} \subseteq DOMAIN s.users
    /\ c.amount > 0
    /\ HasFresh(RequestId, s.requests)

NewRequest(c, t) == [requester |-> c.requester, payer |-> c.payer, amount |-> c.amount,
                     created |-> t, status |-> "PENDING", txn |-> NoTxn]

RequestPayment(s, k, c, t) ==
    LET r == Fresh(RequestId, s.requests)
    IN  Finish([s EXCEPT !.requests = Put(@, r, NewRequest(c, t))],
               k, c, r, {"requestPayment"})

IsPendingAlways(s, r) == r \in DOMAIN s.requests    \* mutant: status not checked

IsPending(s, r) == r \in DOMAIN s.requests /\ s.requests[r].status = "PENDING"

\* PaymentRequest.__post_init__ refuses a resolution dated before the request.
NotEarlier(r, t) == r.created <= t

CanApprovePayment(s, c, t) ==
    /\ IsPending(s, c.request)
    /\ NotEarlier(s.requests[c.request], t)
    /\ LET r == s.requests[c.request]
       IN  CanMove(s, r.payer, r.requester, r.amount, t)

\* PaymentRequest.approve
Approved(r, n) == [r EXCEPT !.status = "APPROVED", !.txn = n]

ApprovePayment(s, k, c, t) ==
    LET r == s.requests[c.request]
        paid == Moved(s, r.payer, r.requester, r.amount, k, t)
    IN  Finish([paid EXCEPT !.requests =
                  Put(@, c.request, Approved(r, Fresh(TxnId, s.txns)))],
               k, c, c.request, {"transferMoney", "approvePayment"})

CanRejectPayment(s, c, t) ==
    /\ IsPending(s, c.request)
    /\ NotEarlier(s.requests[c.request], t)

\* PaymentRequest.reject
Rejected(r) == [r EXCEPT !.status = "REJECTED"]

RejectPaymentUnaudited(s, k, c) ==    \* mutant: no event
    Finish([s EXCEPT !.requests = Put(@, c.request, Rejected(s.requests[c.request]))],
           k, c, c.request, {})

RejectPaymentDeletes(s, k, c) ==    \* mutant: the request is dropped
    Finish([s EXCEPT !.requests = [r \in DOMAIN @ \ {c.request} |-> @[r]]],
           k, c, c.request, {"rejectPayment"})

RejectPayment(s, k, c) ==
    Finish([s EXCEPT !.requests = Put(@, c.request, Rejected(s.requests[c.request]))],
           k, c, c.request, {"rejectPayment"})

CanAnnotate(s, c) == c.txn \in DOMAIN s.txns

\* Transaction.with_risk_assessment
WithStatus(x, status) == [x EXCEPT !.status = status]

Annotate(s, k, c) ==
    Finish([s EXCEPT !.txns = Put(@, c.txn, WithStatus(s.txns[c.txn], c.status))],
           k, c, c.txn, {"annotateTransactionRisk"})

\* The body of the operation c names, between opening the unit of work and
\* its commit, when no record for the key exists.
Accepts(s, c, t) ==
    CASE c.op = "createUser"     -> CanCreateUser(s, c)
      [] c.op = "transferMoney"  -> CanTransferMoney(s, c, t)
      [] c.op = "requestPayment" -> CanRequestPayment(s, c)
      [] c.op = "approvePayment" -> CanApprovePayment(s, c, t)
      [] c.op = "rejectPayment"  -> CanRejectPayment(s, c, t)
      [] c.op = "annotateTransactionRisk" -> CanAnnotate(s, c)

Apply(s, k, c, t) ==
    CASE c.op = "createUser"     -> CreateUser(s, k, c)
      [] c.op = "transferMoney"  -> TransferMoney(s, k, c, t)
      [] c.op = "requestPayment" -> RequestPayment(s, k, c, t)
      [] c.op = "approvePayment" -> ApprovePayment(s, k, c, t)
      [] c.op = "rejectPayment"  -> RejectPayment(s, k, c)
      [] c.op = "annotateTransactionRisk" -> Annotate(s, k, c)

\* _existing_payload: a record for the same command is a replay, a record
\* for another one a conflict.
IsNew(s, k)       == k \notin DOMAIN s.records
IsReplayAny(s, k, c) == k \in DOMAIN s.records    \* mutant: fingerprint not compared
IsReplay(s, k, c) == k \in DOMAIN s.records /\ s.records[k].cmd = c

=============================================================================
