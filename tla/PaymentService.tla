---------------------------- MODULE PaymentService ----------------------------
(***************************************************************************)
(* PaymentDomainService over AsyncResourceLockManager,                     *)
(* PaymentTransactionManager, PaymentUnitOfWork and JsonStateRepository:   *)
(* calls in flight on one event loop, one worker thread writing the state  *)
(* file, failing writes, cancelled callers, and process crashes.           *)
(*                                                                         *)
(* A step of a call is what it runs between two awaits that can suspend:   *)
(* waiting for its resource locks, for the transaction gate, and for the   *)
(* thread that writes the file.  Resource locks are taken here in one      *)
(* step, which ResourceLocks implements key by key.                        *)
(***************************************************************************)
EXTENDS PaymentLedger

CONSTANTS Call,        \* calls that can be in flight at the same time
          NoCall,      \* nobody holds the gate
          MaxCrashes   \* bound on the crashes of a run

ASSUME ServiceAssumption == NoCall \notin Call /\ MaxCrashes \in Nat

VARIABLES
    mem,        \* PaymentTransactionManager._state, the published aggregate
    disk,       \* the aggregate in the JSON state file
    gate,       \* the call that holds the transaction gate
    work,       \* the working clone of each call's unit of work
    pc,         \* where each call is
    cmd,        \* the command and key of each call, and the users it locks
    cancelled,  \* calls whose cancellation is remembered during a write
    acked,      \* the answers that reached a caller
    now,        \* the clock, as last read
    crashes     \* how many crashes there were

vars == <<mem, disk, gate, work, pc, cmd, cancelled, acked, now, crashes>>

NoWork == [open |-> FALSE]
NoCmd  == [key |-> "none"]

\* Calls past the gate whose unit of work is being written.
Committing(t) == pc[t] \in {"saving", "written", "failed"}

-----------------------------------------------------------------------------
(* Resource locks.                                                         *)

\* The wallets an operation locks.  An approval takes them from a preliminary
\* read of the published aggregate, before it holds any lock.
WalletsOf(s, c) ==
    CASE c.op = "transferMoney"  -> {c.sender, c.receiver}
      [] c.op = "requestPayment" -> {c.requester, c.payer}
      [] c.op = "approvePayment" -> {s.requests[c.request].payer,
                                     s.requests[c.request].requester}
      [] OTHER -> {}

LockKeys(call) ==
    LET c == call.cmd
    IN  {<<"IDEMPOTENCY", call.key>>}
          \cup {<<"WALLET", u>> : u \in call.wallets}
          \cup CASE c.op = "createUser" ->
                      {<<"USER_REGISTRY", "users">>, <<"USER_REGISTRY", c.phone>>}
                 [] c.op = "requestPayment" -> {<<"PAYMENT_REQUEST", "registry">>}
                 [] c.op \in {"approvePayment", "rejectPayment"} ->
                      {<<"PAYMENT_REQUEST", c.request>>}
                 [] c.op = "annotateTransactionRisk" -> {<<"TRANSACTION", c.txn>>}
                 [] OTHER -> {}

Held(t) == IF pc[t] = "locked" \/ Committing(t) THEN LockKeys(cmd[t]) ELSE {}

-----------------------------------------------------------------------------
Init ==
    /\ mem = InitialState /\ disk = InitialState
    /\ gate = NoCall
    /\ work = [t \in Call |-> NoWork]
    /\ pc = [t \in Call |-> "idle"]
    /\ cmd = [t \in Call |-> NoCmd]
    /\ cancelled = {} /\ acked = {} /\ now = 0 /\ crashes = 0

\* The call ends; its locks go with it.
Leave(t) ==
    /\ pc' = [pc EXCEPT ![t] = "idle"]
    /\ cmd' = [cmd EXCEPT ![t] = NoCmd]
    /\ cancelled' = cancelled \ {t}

\* An operation is called.  An approval of a request that is not published is
\* answered at once: PaymentRequestNotFoundError.
Start(t, k, c) ==
    /\ pc[t] = "idle"
    /\ c.op = "approvePayment" => c.request \in DOMAIN mem.requests
    /\ pc' = [pc EXCEPT ![t] = "waiting"]
    /\ cmd' = [cmd EXCEPT ![t] = [key |-> k, cmd |-> c, wallets |-> WalletsOf(mem, c)]]
    /\ UNCHANGED <<mem, disk, gate, work, cancelled, acked, now, crashes>>

\* acquire_many returns.
Lock(t) ==
    /\ pc[t] = "waiting"
    /\ \A u \in Call \ {t} : LockKeys(cmd[t]) \cap Held(u) = {}
    /\ pc' = [pc EXCEPT ![t] = "locked"]
    /\ UNCHANGED <<mem, disk, gate, work, cmd, cancelled, acked, now, crashes>>

\* The gate is granted and the unit of work opens on a clone of mem; up to the
\* next await the call either replays, is refused, or dispatches its write.
AtGateUnguarded(t) == pc[t] = "locked"    \* mutant: no gate
AtGate(t) == pc[t] = "locked" /\ gate = NoCall

\* The recorded result of an identical earlier command is returned.
Replay(t) ==
    /\ AtGate(t)
    /\ IsReplay(mem, cmd[t].key, cmd[t].cmd)
    /\ acked' = acked \cup {[key |-> cmd[t].key, cmd |-> cmd[t].cmd,
                             result |-> mem.records[cmd[t].key].result]}
    /\ Leave(t)
    /\ UNCHANGED <<mem, disk, gate, work, now, crashes>>

\* An idempotency conflict, or a check of the operation or the validation of
\* its result raises: rollback.
Refuse(t) ==
    /\ AtGate(t)
    /\ ~IsReplay(mem, cmd[t].key, cmd[t].cmd)
    /\ IsNew(mem, cmd[t].key) =>
          ~(/\ Accepts(mem, cmd[t].cmd, now)
            /\ Validates(Apply(mem, cmd[t].key, cmd[t].cmd, now)))
    /\ Leave(t)
    /\ UNCHANGED <<mem, disk, gate, work, acked, now, crashes>>

BeginPublishes(t) ==    \* mutant: published before it is saved
    /\ AtGate(t)
    /\ IsNew(mem, cmd[t].key)
    /\ now' \in now..MaxTime
    /\ Accepts(mem, cmd[t].cmd, now')
    /\ mem' = Apply(mem, cmd[t].key, cmd[t].cmd, now')
    /\ work' = [work EXCEPT ![t] = mem']
    /\ gate' = t
    /\ pc' = [pc EXCEPT ![t] = "saving"]
    /\ UNCHANGED <<disk, cmd, cancelled, acked, crashes>>

\* The clock is read, the working clone mutated and validated, and a copy of
\* it handed to the thread that writes the state file.
Begin(t) ==
    /\ AtGate(t)
    /\ IsNew(mem, cmd[t].key)
    /\ now' \in now..MaxTime
    /\ Accepts(mem, cmd[t].cmd, now')
    /\ LET clone == Apply(mem, cmd[t].key, cmd[t].cmd, now')
       IN  Validates(clone) /\ work' = [work EXCEPT ![t] = clone]
    /\ gate' = t
    /\ pc' = [pc EXCEPT ![t] = "saving"]
    /\ UNCHANGED <<mem, disk, cmd, cancelled, acked, crashes>>

\* The thread: os.replace has put the temporary file in place of the old one.
WriteOk(t) ==
    /\ pc[t] = "saving"
    /\ disk' = work[t]
    /\ pc' = [pc EXCEPT ![t] = "written"]
    /\ UNCHANGED <<mem, gate, work, cmd, cancelled, acked, now, crashes>>

WriteFailInPlace(t) ==    \* mutant: the file is written in place
    /\ pc[t] = "saving"
    /\ disk' = work[t]
    /\ pc' = [pc EXCEPT ![t] = "failed"]
    /\ UNCHANGED <<mem, gate, work, cmd, cancelled, acked, now, crashes>>

WriteFailIgnored(t) ==    \* mutant: the error is swallowed
    /\ pc[t] = "saving"
    /\ pc' = [pc EXCEPT ![t] = "written"]
    /\ UNCHANGED <<mem, disk, gate, work, cmd, cancelled, acked, now, crashes>>

\* The thread: an OSError before os.replace; the old file is untouched.
WriteFail(t) ==
    /\ pc[t] = "saving"
    /\ pc' = [pc EXCEPT ![t] = "failed"]
    /\ UNCHANGED <<mem, disk, gate, work, cmd, cancelled, acked, now, crashes>>

CloseGateKeepsWork(t) == gate' = NoCall /\ UNCHANGED work /\ Leave(t)    \* mutant
CloseGate(t) == gate' = NoCall /\ work' = [work EXCEPT ![t] = NoWork] /\ Leave(t)

\* The call resumes after a good write and publishes the committed aggregate.
\* A remembered cancellation is requested again: the caller gets no answer.
Publish(t) ==
    /\ pc[t] = "written"
    /\ mem' = work[t]
    /\ acked' = IF t \in cancelled THEN acked
                ELSE acked \cup {[key |-> cmd[t].key, cmd |-> cmd[t].cmd,
                                  result |-> work[t].records[cmd[t].key].result]}
    /\ CloseGate(t)
    /\ UNCHANGED <<disk, now, crashes>>

AbortKeepsGate(t) ==    \* mutant: the gate is not released
    /\ pc[t] = "failed"
    /\ Leave(t)
    /\ UNCHANGED <<mem, disk, gate, work, acked, now, crashes>>

\* The call resumes after a failed write: StatePersistenceError, rollback.
Abort(t) ==
    /\ pc[t] = "failed"
    /\ CloseGate(t)
    /\ UNCHANGED <<mem, disk, acked, now, crashes>>

\* Cancelled while it waits for a lock or for the gate: the call ends.
CancelWaiting(t) ==
    /\ pc[t] \in {"waiting", "locked"}
    /\ Leave(t)
    /\ UNCHANGED <<mem, disk, gate, work, acked, now, crashes>>

\* Cancelled while the thread writes: the write is shielded, so the call waits
\* on and only remembers.
CancelCommitting(t) ==
    /\ Committing(t) /\ t \notin cancelled
    /\ cancelled' = cancelled \cup {t}
    /\ UNCHANGED <<mem, disk, gate, work, pc, cmd, acked, now, crashes>>

\* The process dies and starts again from the state file.
Crash ==
    /\ crashes < MaxCrashes
    /\ crashes' = crashes + 1
    /\ mem' = disk
    /\ gate' = NoCall
    /\ work' = [t \in Call |-> NoWork]
    /\ pc' = [t \in Call |-> "idle"]
    /\ cmd' = [t \in Call |-> NoCmd]
    /\ cancelled' = {}
    /\ UNCHANGED <<disk, acked, now>>

\* What a call does by itself, once started, while nobody disturbs it.
Proceed(t) == Replay(t) \/ Refuse(t) \/ Begin(t) \/ Publish(t) \/ Abort(t)
Thread(t)  == WriteOk(t) \/ WriteFail(t)
Cancel(t)  == CancelWaiting(t) \/ CancelCommitting(t)

Next ==
    \/ \E t \in Call :
          \/ \E k \in Key, c \in Command : Start(t, k, c)
          \/ Lock(t) \/ Proceed(t) \/ Thread(t) \/ Cancel(t)
    \/ Crash

Spec == Init /\ [][Next]_vars

\* A thread's write ends, and asyncio.Lock serves its waiters first come first
\* served, so a call that keeps finding its locks or the gate free gets them.
Fairness == \A t \in Call : /\ SF_vars(Lock(t))
                            /\ SF_vars(Proceed(t))
                            /\ WF_vars(Thread(t))

FairSpec == Spec /\ Fairness

-----------------------------------------------------------------------------
\* Every variable has its shape; a working clone is an aggregate.
TypeOK ==
    /\ ApplicationState(mem) /\ ApplicationState(disk)
    /\ gate \in Call \cup {NoCall}
    /\ DOMAIN work = Call
    /\ \A t \in Call : IF Committing(t) THEN ApplicationState(work[t]) ELSE work[t] = NoWork
    /\ pc \in [Call -> {"idle", "waiting", "locked", "saving", "written", "failed"}]
    /\ cmd \in [Call -> {NoCmd} \cup
                  [key : Key, cmd : Command, wallets : SUBSET UserId]]
    /\ \A t \in Call : pc[t] # "idle" => cmd[t] # NoCmd
    /\ cancelled \subseteq Call
    /\ acked \subseteq [key : Key, cmd : Command, result : Result]
    /\ now \in 0..MaxTime
    /\ crashes \in 0..MaxCrashes

\* One unit of work at a time is being committed, by the holder of the gate.
OneCommit == \A t \in Call : Committing(t) <=> gate = t

\* The state file differs from the published aggregate only between the
\* replacement of the file and the publication by the same call, and then it
\* is that call's unit of work: memory never runs ahead of the file, and a
\* failed or cancelled write leaves both alike.
FileMatchesMemory ==
    IF gate # NoCall /\ pc[gate] = "written" THEN disk = work[gate] ELSE disk = mem

\* A unit of work being committed is its command applied to what is published
\* now: no update committed since it was cloned is overwritten.
NoLostUpdate ==
    \A t \in Call : Committing(t) =>
        /\ IsNew(mem, cmd[t].key)
        /\ Accepts(mem, cmd[t].cmd, now)
        /\ work[t] = Apply(mem, cmd[t].key, cmd[t].cmd, now)

\* An answer given to a caller survives: it is what the state file records,
\* now and after any crash, and what any replay returns.
AnswersAreDurable ==
    \A a \in acked :
        \A s \in {mem, disk} :
            /\ a.key \in DOMAIN s.records
            /\ s.records[a.key] = [cmd |-> a.cmd, result |-> a.result]

\* The participants locked by an approval are those of the request it finds
\* under the gate (the recheck at payment_domain_service.py:822 never fires).
ApprovalLocksParticipants ==
    \A t \in Call :
        pc[t] # "idle" /\ cmd[t].cmd.op = "approvePayment" =>
            /\ cmd[t].cmd.request \in DOMAIN mem.requests
            /\ cmd[t].wallets = WalletsOf(mem, cmd[t].cmd)

\* What current_state has shown a reader is never taken back, not even by a
\* crash: a published record stays published.
PublishedStays ==
    [][\A k \in DOMAIN mem.records :
         k \in DOMAIN mem'.records /\ mem'.records[k] = mem.records[k]]_vars

\* Concurrency, failing writes, cancellation and crashes are invisible: the
\* state file goes through the states of a serial ledger.
Serial == INSTANCE AtomicCommands WITH ledger <- disk
ImplementsAtomicCommands == Serial!Spec

\* Every call ends: none is stuck on a lock, on the gate or behind a cancelled
\* or failed one.
CallsEnd == \A t \in Call : pc[t] # "idle" ~> pc[t] = "idle"
=============================================================================
