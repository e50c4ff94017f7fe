------------------------ MODULE PaymentService_proof ------------------------
(***************************************************************************)
(* For every number of calls, keys, users and crashes: the state file and  *)
(* the published aggregate agree, no update is lost, no answer is taken    *)
(* back, and the service implements AtomicCommands.                        *)
(*                                                                         *)
(* The argument: the gate's holder is the only call whose unit of work is  *)
(* being written (OneCommit), so the aggregate it cloned is still the one  *)
(* published (NoLostUpdate) and the file differs from it only once the     *)
(* file was replaced (FileMatchesMemory).  These three and the type        *)
(* invariant are inductive together, and everything else follows.          *)
(***************************************************************************)
EXTENDS PaymentService, PaymentLedger_proof

\* The inductive invariant.
Inv == TypeOK /\ OneCommit /\ FileMatchesMemory /\ NoLostUpdate

\* A call that has started has a key and a command.
LEMMA StartedCall ==
    ASSUME TypeOK, NEW t \in Call, pc[t] # "idle"
    PROVE  cmd[t].key \in Key /\ cmd[t].cmd \in Command
BY DEF TypeOK

\* The unit of work being committed extends the published records by its own.
LEMMA WorkExtendsMemory ==
    ASSUME Inv, gate # NoCall
    PROVE  /\ ApplicationState(work[gate])
           /\ cmd[gate].key \in DOMAIN work[gate].records
           /\ work[gate].records[cmd[gate].key].cmd = cmd[gate].cmd
           /\ work[gate].records[cmd[gate].key].result \in Result
           /\ \A j \in DOMAIN mem.records :
                 j \in DOMAIN work[gate].records /\ work[gate].records[j] = mem.records[j]
<1>1. gate \in Call /\ pc[gate] # "idle"
  BY DEF Inv, TypeOK, OneCommit, Committing
<1>2. cmd[gate].key \in Key /\ cmd[gate].cmd \in Command
  BY <1>1, StartedCall DEF Inv
<1>3. ApplicationState(mem) /\ now \in 0..MaxTime  BY DEF Inv, TypeOK
<1>4. /\ IsNew(mem, cmd[gate].key) /\ Accepts(mem, cmd[gate].cmd, now)
      /\ work[gate] = Apply(mem, cmd[gate].key, cmd[gate].cmd, now)
  BY <1>1 DEF Inv, NoLostUpdate, OneCommit
<1>5. ApplicationState(work[gate])  BY <1>1 DEF Inv, TypeOK, OneCommit
<1> QED  BY <1>2, <1>3, <1>4, <1>5, RecordsGrow

\* A process starts from a well formed aggregate.
LEMMA InitialStateOK == ApplicationState(InitialState)
BY LedgerAssumption
   DEF ApplicationState, IsAggregate, InitialState, PartialFcn, Wallet, NewWallet

\* The initial states satisfy the invariant.
LEMMA InitInv == Init => Inv
<1> SUFFICES ASSUME Init PROVE Inv  OBVIOUS
<1>1. TypeOK
  <2>1. ApplicationState(mem) /\ ApplicationState(disk)
    BY InitialStateOK DEF Init
  <2> QED  BY <2>1, LedgerAssumption, ServiceAssumption DEF Init, TypeOK, Committing
<1> QED  BY <1>1, ServiceAssumption
         DEF Init, Inv, OneCommit, Committing, FileMatchesMemory, NoLostUpdate

-----------------------------------------------------------------------------
\* The actions of a call that touch neither aggregate nor the gate.
Quiet(t) ==
    \/ \E k \in Key, c \in Command : Start(t, k, c)
    \/ Lock(t) \/ Replay(t) \/ Refuse(t) \/ CancelWaiting(t) \/ CancelCommitting(t)

\* They leave the shared state alone, and the holder of the gate where it is.
LEMMA QuietFrame ==
    ASSUME Inv, NEW t \in Call, Quiet(t)
    PROVE  /\ UNCHANGED <<mem, disk, gate, work, now>>
           /\ gate # NoCall => pc'[gate] = pc[gate] /\ cmd'[gate] = cmd[gate]
           /\ \A u \in Call : Committing(u)' <=> Committing(u)
           /\ \A u \in Call : Committing(u) => cmd'[u] = cmd[u]
<1>1. UNCHANGED <<mem, disk, gate, work, now>>
  BY DEF Quiet, Start, Lock, Replay, Refuse, CancelWaiting, CancelCommitting
<1>2. CASE CancelCommitting(t)
  BY <1>1, <1>2 DEF CancelCommitting, Committing
<1>3. CASE ~CancelCommitting(t)
  <2>1. /\ pc[t] \in {"idle", "waiting", "locked"}
        /\ \E p \in {"idle", "waiting", "locked"} : pc' = [pc EXCEPT ![t] = p]
        /\ \E x : cmd' = [cmd EXCEPT ![t] = x] \/ cmd' = cmd
    BY <1>3 DEF Quiet, Start, Lock, Replay, Refuse, CancelWaiting, Leave, AtGate
  <2>2. ~Committing(t) /\ ~Committing(t)'
    BY <2>1 DEF Committing, Inv, TypeOK
  <2>3. gate # t  BY <2>2 DEF Inv, OneCommit
  <2>4. pc \in [Call -> {"idle", "waiting", "locked", "saving", "written", "failed"}]
        /\ DOMAIN cmd = Call /\ gate \in Call \cup {NoCall}
    BY DEF Inv, TypeOK
  <2> QED  BY <1>1, <2>1, <2>2, <2>3, <2>4 DEF Committing
<1> QED  BY <1>2, <1>3

\* The wallets a call locks are those of users.
LEMMA WalletsAreUsers ==
    ASSUME NEW s, ApplicationState(s), NEW c \in Command,
           c.op = "approvePayment" => c.request \in DOMAIN s.requests
    PROVE  WalletsOf(s, c) \subseteq UserId
<1>1. CASE c.op = "transferMoney"
  BY <1>1, CommandKinds DEF WalletsOf, TransferCmd
<1>2. CASE c.op = "requestPayment"
  BY <1>2, CommandKinds DEF WalletsOf, RequestCmd
<1>3. CASE c.op = "approvePayment"
  BY <1>3 DEF WalletsOf, ApplicationState, PartialFcn, PaymentRequest
<1>4. CASE c.op \notin {"transferMoney", "requestPayment", "approvePayment"}
  BY <1>4 DEF WalletsOf
<1> QED  BY <1>1, <1>2, <1>3, <1>4

\* They keep the types.
LEMMA QuietTypes ==
    ASSUME Inv, NEW t \in Call, Quiet(t)
    PROVE  TypeOK'
<1> DEFINE Cmds == [key : Key, cmd : Command, wallets : SUBSET UserId]
           PCs == {"idle", "waiting", "locked", "saving", "written", "failed"}
<1>0. /\ UNCHANGED <<mem, disk, gate, work, now>>
      /\ \A u \in Call : Committing(u)' <=> Committing(u)
      /\ TypeOK
  BY QuietFrame DEF Inv
<1>1. pc' \in [Call -> PCs]
  BY <1>0 DEF TypeOK, Quiet, Start, Lock, Replay, Refuse, CancelWaiting, CancelCommitting, Leave
<1>2. cancelled' \subseteq Call /\ crashes' \in 0..MaxCrashes
  BY <1>0 DEF TypeOK, Quiet, Start, Lock, Replay, Refuse, CancelWaiting, CancelCommitting, Leave
<1>3. cmd' \in [Call -> {NoCmd} \cup Cmds] /\ \A u \in Call : pc'[u] # "idle" => cmd'[u] # NoCmd
  <2>1. CASE \E k \in Key, c \in Command : Start(t, k, c)
    <3>1. PICK k \in Key, c \in Command : Start(t, k, c)  BY <2>1
    <3>2. WalletsOf(mem, c) \subseteq UserId
      BY <1>0, <3>1, WalletsAreUsers DEF Start, TypeOK
    <3> DEFINE x == [key |-> k, cmd |-> c, wallets |-> WalletsOf(mem, c)]
    <3>3. x \in Cmds /\ x # NoCmd
      <4>1. x \in Cmds  BY <3>2
      <4>2. DOMAIN x # DOMAIN NoCmd  BY DEF NoCmd
      <4> QED  BY <4>1, <4>2
    <3>4. cmd' = [cmd EXCEPT ![t] = x] /\ pc' = [pc EXCEPT ![t] = "waiting"]
      BY <3>1 DEF Start
    <3> HIDE DEF x, Cmds
    <3> QED  BY <1>0, <3>3, <3>4 DEF TypeOK, Cmds
  <2>2. CASE Replay(t) \/ Refuse(t) \/ CancelWaiting(t)
    BY <1>0, <2>2 DEF TypeOK, Replay, Refuse, CancelWaiting, Leave
  <2>3. CASE Lock(t) \/ CancelCommitting(t)
    BY <1>0, <2>3 DEF TypeOK, Lock, CancelCommitting, Committing
  <2> QED  BY <2>1, <2>2, <2>3 DEF Quiet
<1>4. acked' \subseteq [key : Key, cmd : Command, result : Result]
  <2>1. CASE Replay(t)
    <3>1. cmd[t].key \in Key /\ cmd[t].cmd \in Command
      BY <1>0, <2>1, StartedCall DEF Replay, AtGate
    <3>2. mem.records[cmd[t].key].result \in Result
      BY <1>0, <2>1 DEF TypeOK, Replay, IsReplay, ApplicationState, PartialFcn, IdempotencyRecord
    <3> QED  BY <1>0, <2>1, <3>1, <3>2 DEF TypeOK, Replay
  <2>2. CASE ~Replay(t)
    BY <1>0, <2>2 DEF TypeOK, Quiet, Start, Lock, Refuse, CancelWaiting, CancelCommitting
  <2> QED  BY <2>1, <2>2
<1> QED  BY <1>0, <1>1, <1>2, <1>3, <1>4 DEF TypeOK

\* They keep the invariant.
LEMMA QuietInv ==
    ASSUME Inv, NEW t \in Call, Quiet(t)
    PROVE  Inv'
<1>1. TypeOK'  BY QuietTypes
<1>2. OneCommit'  BY QuietFrame DEF Inv, OneCommit
<1>3. FileMatchesMemory'  BY QuietFrame DEF Inv, FileMatchesMemory
<1>4. NoLostUpdate'  BY QuietFrame DEF Inv, NoLostUpdate
<1> QED  BY <1>1, <1>2, <1>3, <1>4 DEF Inv

-----------------------------------------------------------------------------
(* The actions of the commit protocol.                                     *)

\* Begin takes the gate with a fresh unit of work.
LEMMA BeginInv ==
    ASSUME Inv, NEW t \in Call, Begin(t)
    PROVE  Inv'
<1>1. /\ cmd[t].key \in Key /\ cmd[t].cmd \in Command
      /\ ApplicationState(mem) /\ gate = NoCall /\ now' \in 0..MaxTime
  <2>1. pc[t] # "idle" /\ TypeOK /\ gate = NoCall /\ now' \in now..MaxTime
    BY DEF Inv, Begin, AtGate
  <2>2. cmd[t].key \in Key /\ cmd[t].cmd \in Command  BY <2>1, StartedCall
  <2>3. ApplicationState(mem) /\ now \in 0..MaxTime  BY <2>1 DEF TypeOK
  <2> QED  BY <2>1, <2>2, <2>3, LedgerAssumption
<1> DEFINE clone == Apply(mem, cmd[t].key, cmd[t].cmd, now')
<1>2. work' = [work EXCEPT ![t] = clone] /\ ApplicationState(clone)
  BY <1>1, ApplyKeepsState DEF Begin
<1> HIDE DEF clone
<1>3. TypeOK'
  <2>1. TypeOK /\ pc[t] = "locked" /\ gate' = t /\ t # NoCall /\ gate' # NoCall
        /\ UNCHANGED <<mem, disk, cmd, cancelled, acked, crashes>>
        /\ pc' = [pc EXCEPT ![t] = "saving"]
    BY ServiceAssumption DEF Inv, Begin, AtGate
  <2>2. \A u \in Call : pc'[u] # "idle" => cmd'[u] # NoCmd
    BY <2>1 DEF TypeOK
  <2>3. pc' \in [Call -> {"idle", "waiting", "locked", "saving", "written", "failed"}]
    BY <2>1 DEF TypeOK
  <2>4. /\ DOMAIN work' = Call
        /\ \A u \in Call : IF Committing(u)' THEN ApplicationState(work'[u])
                                             ELSE work'[u] = NoWork
    BY <1>2, <2>1 DEF TypeOK, Committing
  <2> QED  BY <1>1, <2>1, <2>2, <2>3, <2>4 DEF TypeOK
<1>4. OneCommit'
  BY <1>1, ServiceAssumption DEF Inv, TypeOK, OneCommit, Begin, Committing
<1>5. FileMatchesMemory'
  BY <1>1 DEF Inv, TypeOK, FileMatchesMemory, Begin
<1>6. NoLostUpdate'
  <2>1. \A u \in Call : Committing(u)' => u = t
    BY <1>4, ServiceAssumption DEF OneCommit, Begin
  <2>2. DOMAIN work = Call  BY DEF Inv, TypeOK
  <2>3. work'[t] = clone  BY <1>2, <2>2
  <2>4. /\ mem' = mem /\ cmd' = cmd
        /\ IsNew(mem, cmd[t].key) /\ Accepts(mem, cmd[t].cmd, now')
    BY DEF Begin
  <2> QED  BY <2>1, <2>3, <2>4 DEF NoLostUpdate, clone
<1> QED  BY <1>3, <1>4, <1>5, <1>6 DEF Inv

\* The thread's write changes the file to the unit of work, or nothing.
LEMMA ThreadInv ==
    ASSUME Inv, NEW t \in Call, Thread(t)
    PROVE  Inv'
<1>1. gate = t /\ gate # NoCall /\ pc[t] = "saving"
  BY ServiceAssumption DEF Inv, OneCommit, Committing, Thread, WriteOk, WriteFail
<1>0. /\ \E p \in {"written", "failed"} : pc' = [pc EXCEPT ![t] = p]
      /\ UNCHANGED <<mem, gate, work, cmd, cancelled, acked, now, crashes>>
      /\ TypeOK /\ Committing(t) /\ Committing(t)'
  BY <1>1 DEF Inv, TypeOK, Thread, WriteOk, WriteFail, Committing
<1>2. TypeOK'
  <2>1. \A u \in Call : Committing(u)' <=> Committing(u)
    BY <1>0 DEF TypeOK, Committing
  <2>2. ApplicationState(disk')
    BY <1>0 DEF TypeOK, Thread, WriteOk, WriteFail
  <2>3. /\ pc' \in [Call -> {"idle", "waiting", "locked", "saving", "written", "failed"}]
        /\ \A u \in Call : pc'[u] # "idle" => cmd'[u] # NoCmd
    BY <1>0, <1>1 DEF TypeOK
  <2> QED  BY <1>0, <2>1, <2>2, <2>3 DEF TypeOK
<1>3. OneCommit'
  BY <1>1 DEF Inv, TypeOK, OneCommit, Committing, Thread, WriteOk, WriteFail
<1>4. FileMatchesMemory'
  BY <1>1 DEF Inv, TypeOK, FileMatchesMemory, Thread, WriteOk, WriteFail
<1>5. NoLostUpdate'
  <2>1. \A u \in Call : Committing(u)' => Committing(u)
    BY <1>0 DEF TypeOK, Committing
  <2> QED  BY <1>0, <2>1 DEF Inv, NoLostUpdate
<1> QED  BY <1>2, <1>3, <1>4, <1>5 DEF Inv

\* What publishing and giving up have in common: the gate is free again and
\* the file is what is published.
LEMMA EndInv ==
    ASSUME Inv, NEW t \in Call, Publish(t) \/ Abort(t)
    PROVE  Inv'
<1>1. gate = t /\ gate # NoCall /\ pc[t] \in {"written", "failed"}
  BY ServiceAssumption DEF Inv, OneCommit, Committing, Publish, Abort
<1>2. cmd[t].key \in Key /\ cmd[t].cmd \in Command
  BY <1>1, StartedCall DEF Inv
<1>3. ApplicationState(mem') /\ disk' = mem' /\ disk' \in {disk}
  BY <1>1, WorkExtendsMemory
     DEF Inv, TypeOK, FileMatchesMemory, Publish, Abort
<1>4. acked' \subseteq [key : Key, cmd : Command, result : Result]
  BY <1>1, <1>2, WorkExtendsMemory DEF Inv, TypeOK, Publish, Abort
<1>5. /\ gate' = NoCall /\ work' = [work EXCEPT ![t] = NoWork] /\ UNCHANGED <<now, crashes>>
      /\ pc' = [pc EXCEPT ![t] = "idle"] /\ cmd' = [cmd EXCEPT ![t] = NoCmd]
      /\ cancelled' = cancelled \ {t}
  BY DEF Publish, Abort, CloseGate, Leave
<1>6. TypeOK'
  <2>1. TypeOK  BY DEF Inv
  <2>2. /\ DOMAIN work' = Call
        /\ \A u \in Call : IF Committing(u)' THEN ApplicationState(work'[u])
                                             ELSE work'[u] = NoWork
    BY <1>5, <2>1 DEF TypeOK, Committing
  <2>3. /\ pc' \in [Call -> {"idle", "waiting", "locked", "saving", "written", "failed"}]
        /\ cmd' \in [Call -> {NoCmd} \cup
                       [key : Key, cmd : Command, wallets : SUBSET UserId]]
        /\ \A u \in Call : pc'[u] # "idle" => cmd'[u] # NoCmd
    BY <1>5, <2>1 DEF TypeOK
  <2> QED  BY <1>3, <1>4, <1>5, <2>1, <2>2, <2>3 DEF TypeOK
<1>7. OneCommit'
  BY <1>1, <1>5, ServiceAssumption DEF Inv, TypeOK, OneCommit, Committing
<1>8. NoLostUpdate'
  <2>1. \A u \in Call : ~Committing(u)'
    BY <1>5, <1>7, ServiceAssumption DEF OneCommit
  <2> QED  BY <2>1 DEF NoLostUpdate
<1> QED  BY <1>3, <1>5, <1>6, <1>7, <1>8 DEF Inv, FileMatchesMemory

\* After a crash the process starts from the file, with nothing in flight.
LEMMA CrashInv ==
    ASSUME Inv, Crash
    PROVE  Inv'
<1>1. TypeOK'  BY ServiceAssumption DEF Inv, TypeOK, Crash, Committing
<1> QED  BY <1>1, ServiceAssumption
         DEF Inv, Crash, OneCommit, Committing, FileMatchesMemory, NoLostUpdate

\* A step is one of these, or a stutter.
LEMMA StepCases ==
    ASSUME [Next]_vars
    PROVE  \/ \E t \in Call : Quiet(t) \/ Begin(t) \/ Thread(t) \/ Publish(t) \/ Abort(t)
           \/ Crash
           \/ UNCHANGED vars
BY DEF Next, Quiet, Proceed, Cancel

\* Every step keeps the invariant.
LEMMA NextInv ==
    ASSUME Inv, [Next]_vars
    PROVE  Inv'
<1>1. CASE UNCHANGED vars
  BY <1>1 DEF vars, Inv, TypeOK, OneCommit, Committing, FileMatchesMemory, NoLostUpdate
<1> QED
  BY <1>1, StepCases, QuietInv, BeginInv, ThreadInv, EndInv, CrashInv

\* The inductive invariant holds of every behaviour.
THEOREM Safety == Spec => []Inv
BY InitInv, NextInv, PTL DEF Spec

\* The variables have their types (TransactionManager, UnitOfWork and
\* JsonStateRepository exchange whole, valid aggregates).
THEOREM TypesCorrect == Spec => []TypeOK
<1>1. Inv => TypeOK  BY DEF Inv
<1> QED  BY <1>1, Safety, PTL

\* transaction_manager.py:42 transaction(): the gate admits one commit.
THEOREM CommitsAreSerial == Spec => []OneCommit
<1>1. Inv => OneCommit  BY DEF Inv
<1> QED  BY <1>1, Safety, PTL

\* unit_of_work.py: the file is replaced before the aggregate is published,
\* and a failed or cancelled write leaves both alike.
THEOREM FileNeverBehind == Spec => []FileMatchesMemory
<1>1. Inv => FileMatchesMemory  BY DEF Inv
<1> QED  BY <1>1, Safety, PTL

\* The working clone is never stale when it is committed.
THEOREM NothingIsLost == Spec => []NoLostUpdate
<1>1. Inv => NoLostUpdate  BY DEF Inv
<1> QED  BY <1>1, Safety, PTL

-----------------------------------------------------------------------------
(* Records only grow, in memory and on disk.                               *)

Extends(new, old) ==
    \A k \in DOMAIN old.records :
        k \in DOMAIN new.records /\ new.records[k] = old.records[k]

\* No step takes a record back.
LEMMA StepExtends ==
    ASSUME Inv, [Next]_vars
    PROVE  Extends(mem', mem) /\ Extends(disk', disk)
<1>1. CASE UNCHANGED <<mem, disk>>
  BY <1>1 DEF Extends
<1>2. ASSUME NEW t \in Call, WriteOk(t)
      PROVE  Extends(mem', mem) /\ Extends(disk', disk)
  <2>1. gate = t /\ gate # NoCall /\ pc[t] = "saving"
    BY <1>2, ServiceAssumption DEF Inv, OneCommit, Committing, WriteOk
  <2> QED  BY <1>2, <2>1, WorkExtendsMemory
           DEF Inv, FileMatchesMemory, WriteOk, Extends
<1>3. ASSUME NEW t \in Call, Publish(t)
      PROVE  Extends(mem', mem) /\ Extends(disk', disk)
  <2>1. gate = t /\ gate # NoCall
    BY <1>3, ServiceAssumption DEF Inv, OneCommit, Committing, Publish
  <2> QED  BY <1>3, <2>1, WorkExtendsMemory DEF Publish, Extends
<1>4. CASE Crash
  <2>1. CASE gate # NoCall /\ pc[gate] = "written"
    BY <1>4, <2>1, WorkExtendsMemory DEF Crash, Inv, FileMatchesMemory, Extends
  <2>2. CASE ~(gate # NoCall /\ pc[gate] = "written")
    BY <1>4, <2>2 DEF Crash, Inv, FileMatchesMemory, Extends
  <2> QED  BY <2>1, <2>2
<1>5. ASSUME NEW t \in Call, Quiet(t) \/ Begin(t) \/ WriteFail(t) \/ Abort(t)
      PROVE  UNCHANGED <<mem, disk>>
  BY <1>5, QuietFrame DEF Begin, WriteFail, Abort
<1>6. UNCHANGED vars => UNCHANGED <<mem, disk>>  BY DEF vars
<1> QED  BY <1>1, <1>2, <1>3, <1>4, <1>5, <1>6, StepCases DEF Thread

\* What a reader saw stays published, crashes included
\* (transaction_manager.py:29 current_state).
THEOREM NothingUnpublished == Spec => PublishedStays
<1>1. Inv /\ [Next]_vars =>
        [\A k \in DOMAIN mem.records :
           k \in DOMAIN mem'.records /\ mem'.records[k] = mem.records[k]]_vars
  BY StepExtends DEF Extends
<1> QED  BY <1>1, Safety, PTL DEF Spec, PublishedStays

\* An answer is given only for what is recorded, published and saved.
LEMMA AnswersStep ==
    ASSUME Inv, AnswersAreDurable, [Next]_vars
    PROVE  AnswersAreDurable'
<1>1. ASSUME NEW a \in acked
      PROVE  /\ a.key \in DOMAIN mem'.records /\ a.key \in DOMAIN disk'.records
             /\ mem'.records[a.key] = [cmd |-> a.cmd, result |-> a.result]
             /\ disk'.records[a.key] = [cmd |-> a.cmd, result |-> a.result]
  BY StepExtends DEF Extends, AnswersAreDurable
<1> DEFINE Told(t, s) == [key |-> cmd[t].key, cmd |-> cmd[t].cmd,
                          result |-> s.records[cmd[t].key].result]
<1>2. ASSUME NEW t \in Call, Replay(t), NEW a \in acked' \ acked
      PROVE  /\ a.key \in DOMAIN mem'.records
             /\ mem'.records[a.key] = [cmd |-> a.cmd, result |-> a.result]
             /\ disk' = mem'
  <2> DEFINE k == cmd[t].key
             rec == mem.records[k]
  <2>1. a = Told(t, mem) /\ k \in DOMAIN mem.records /\ rec.cmd = cmd[t].cmd
        /\ UNCHANGED <<mem, disk>> /\ gate = NoCall
    BY <1>2 DEF Replay, IsReplay, AtGate
  <2>2. rec \in IdempotencyRecord
    BY <2>1 DEF Inv, TypeOK, ApplicationState, PartialFcn
  <2>3. rec = [cmd |-> rec.cmd, result |-> rec.result]
    BY <2>2 DEF IdempotencyRecord
  <2>4. disk = mem  BY <2>1 DEF Inv, FileMatchesMemory
  <2> QED  BY <2>1, <2>3, <2>4
<1>3. ASSUME NEW t \in Call, Publish(t), NEW a \in acked' \ acked
      PROVE  /\ a.key \in DOMAIN mem'.records
             /\ mem'.records[a.key] = [cmd |-> a.cmd, result |-> a.result]
             /\ disk' = mem'
  <2> DEFINE k == cmd[t].key
             rec == work[t].records[k]
  <2>1. a = Told(t, work[t]) /\ mem' = work[t] /\ disk' = disk /\ pc[t] = "written"
    BY <1>3 DEF Publish
  <2>2. gate = t /\ gate # NoCall
    BY <2>1, ServiceAssumption DEF Inv, OneCommit, Committing
  <2>3. k \in DOMAIN work[t].records /\ rec.cmd = cmd[t].cmd
    BY <2>2, WorkExtendsMemory
  <2>4. rec \in IdempotencyRecord
    BY <2>2, <2>3, WorkExtendsMemory DEF ApplicationState, PartialFcn
  <2>5. rec = [cmd |-> rec.cmd, result |-> rec.result]
    BY <2>4 DEF IdempotencyRecord
  <2>6. disk = work[t]  BY <2>1, <2>2 DEF Inv, FileMatchesMemory
  <2> QED  BY <2>1, <2>3, <2>5, <2>6
<1>4. ASSUME NEW t \in Call,
             \/ \E k \in Key, c \in Command : Start(t, k, c)
             \/ Lock(t) \/ Refuse(t) \/ CancelWaiting(t) \/ CancelCommitting(t)
             \/ Begin(t) \/ Thread(t) \/ Abort(t)
      PROVE  acked' = acked
  BY <1>4 DEF Start, Lock, Refuse, CancelWaiting, CancelCommitting, Begin, Thread,
              WriteOk, WriteFail, Abort
<1>5. Crash \/ UNCHANGED vars => acked' = acked  BY DEF Crash, vars
<1>6. ASSUME NEW a \in acked' \ acked
      PROVE  /\ a.key \in DOMAIN mem'.records
             /\ mem'.records[a.key] = [cmd |-> a.cmd, result |-> a.result]
             /\ disk' = mem'
  BY <1>2, <1>3, <1>4, <1>5, <1>6, StepCases DEF Quiet
<1> QED  BY <1>1, <1>6 DEF AnswersAreDurable

\* An acknowledged command is durable and its answer never changes: retrying
\* after a crash, a failure or a cancellation returns the same result.
THEOREM AnswersDurable == Spec => []AnswersAreDurable
<1>1. Init => AnswersAreDurable  BY DEF Init, AnswersAreDurable
<1> QED  BY <1>1, AnswersStep, Safety, PTL DEF Spec

-----------------------------------------------------------------------------
(* The participants of a request never change, so a preliminary read of    *)
(* them stays good until the approval holds the gate.                      *)

\* Every request of old is one of new, between the same two users.
KeepsParties(old, new) ==
    \A r \in DOMAIN old.requests :
        /\ r \in DOMAIN new.requests
        /\ new.requests[r].payer = old.requests[r].payer
        /\ new.requests[r].requester = old.requests[r].requester

\* Resolving a request leaves its two users.
LEMMA ResolvedParties ==
    ASSUME NEW q \in PaymentRequest, NEW n
    PROVE  /\ Approved(q, n).payer = q.payer /\ Approved(q, n).requester = q.requester
           /\ Rejected(q).payer = q.payer /\ Rejected(q).requester = q.requester
BY DEF PaymentRequest, Approved, Rejected

\* No operation drops a request or changes its two users.
LEMMA ApplyKeepsParties ==
    ASSUME NEW s, ApplicationState(s), NEW k, NEW c \in Command, NEW t, Accepts(s, c, t),
           NEW f, f = Apply(s, k, c, t)
    PROVE  KeepsParties(s, f)
<1>1. /\ IsAggregate(s) /\ PartialFcn(s.requests, RequestId, PaymentRequest)
  BY DEF ApplicationState
<1>2. ASSUME f.requests = s.requests
      PROVE  KeepsParties(s, f)
  BY <1>2 DEF KeepsParties
<1>3. ASSUME NEW r, NEW q, r \notin DOMAIN s.requests, f.requests = Put(s.requests, r, q)
      PROVE  KeepsParties(s, f)
  BY <1>3 DEF KeepsParties, Put
<1>4. ASSUME NEW r \in DOMAIN s.requests, NEW q, f.requests = Put(s.requests, r, q),
             q.payer = s.requests[r].payer, q.requester = s.requests[r].requester
      PROVE  KeepsParties(s, f)
  BY <1>4 DEF KeepsParties, Put
<1>5. CASE c.op = "createUser"
  <2> DEFINE u == Fresh(UserId, s.users)
  <2>1. f = CreateUser(s, k, c)  BY <1>5, Dispatch
  <2>2. /\ IsAggregate(f)
        /\ f.users = Put(s.users, u, c.phone)
        /\ f.wallets = Put(s.wallets, u, NewWallet)
        /\ f.txns = s.txns /\ f.requests = s.requests
        /\ f.records = Put(s.records, k, [cmd |-> c, result |-> u])
        /\ f.pending = s.pending \cup Events(k, {"createUser"})
    BY <1>1, <2>1, CreateUserFields
  <2> QED  BY <1>2, <2>2
<1>6. CASE c.op = "transferMoney"
  <2> DEFINE n == Fresh(TxnId, s.txns)
  <2>1. f = TransferMoney(s, k, c, t)  BY <1>6, Dispatch
  <2>2. /\ IsAggregate(f)
        /\ f.users = s.users /\ f.requests = s.requests
        /\ f.wallets = DebitAndCredit(s.wallets, c.sender, c.receiver, c.amount)
        /\ f.txns = Put(s.txns, n, NewTransaction(c.sender, c.receiver, c.amount, k, t))
        /\ f.records = Put(s.records, k, [cmd |-> c, result |-> n])
        /\ f.pending = s.pending \cup Events(k, {"transferMoney"})
    BY <1>1, <2>1, TransferMoneyFields
  <2> QED  BY <1>2, <2>2
<1>7. CASE c.op = "requestPayment"
  <2> DEFINE r == Fresh(RequestId, s.requests)
  <2>1. f = RequestPayment(s, k, c, t)  BY <1>7, Dispatch
  <2>2. /\ IsAggregate(f)
        /\ f.users = s.users /\ f.wallets = s.wallets /\ f.txns = s.txns
        /\ f.requests = Put(s.requests, r, NewRequest(c, t))
        /\ f.records = Put(s.records, k, [cmd |-> c, result |-> r])
        /\ f.pending = s.pending \cup Events(k, {"requestPayment"})
    BY <1>1, <2>1, RequestPaymentFields
  <2>3. r \notin DOMAIN s.requests
    BY <1>7, Dispatch, FreshIsUnused DEF CanRequestPayment
  <2> HIDE DEF r
  <2> QED  BY <1>3, <2>2, <2>3
<1>8. CASE c.op = "approvePayment"
  <2> DEFINE q == s.requests[c.request]
             n == Fresh(TxnId, s.txns)
  <2>1. f = ApprovePayment(s, k, c, t) /\ c.request \in DOMAIN s.requests
    BY <1>8, Dispatch DEF CanApprovePayment, IsPending
  <2>2. ApproveFields(s, f, k, c, t, q, n)  BY <1>1, <2>1, ApprovePaymentFields
  <2>3. q \in PaymentRequest  BY <1>1, <2>1 DEF PartialFcn
  <2> HIDE DEF n
  <2>4. Approved(q, n).payer = q.payer /\ Approved(q, n).requester = q.requester
    BY <2>3, ResolvedParties
  <2>5. f.requests = Put(s.requests, c.request, Approved(q, n))
    BY <2>2 DEF ApproveFields
  <2> QED  BY <1>4, <2>1, <2>4, <2>5
<1>9. CASE c.op = "rejectPayment"
  <2> DEFINE q == s.requests[c.request]
  <2>1. f = RejectPayment(s, k, c) /\ c.request \in DOMAIN s.requests
    BY <1>9, Dispatch DEF CanRejectPayment, IsPending
  <2>2. /\ IsAggregate(f)
        /\ f.users = s.users /\ f.wallets = s.wallets /\ f.txns = s.txns
        /\ f.requests = Put(s.requests, c.request, Rejected(s.requests[c.request]))
        /\ f.records = Put(s.records, k, [cmd |-> c, result |-> c.request])
        /\ f.pending = s.pending \cup Events(k, {"rejectPayment"})
    BY <1>1, <2>1, RejectPaymentFields
  <2>3. q \in PaymentRequest  BY <1>1, <2>1 DEF PartialFcn
  <2>4. Rejected(q).payer = q.payer /\ Rejected(q).requester = q.requester
    BY <2>3, ResolvedParties
  <2> QED  BY <1>4, <2>1, <2>2, <2>4
<1>10. CASE c.op = "annotateTransactionRisk"
  <2>1. f = Annotate(s, k, c)  BY <1>10, Dispatch
  <2>2. /\ IsAggregate(f)
        /\ f.users = s.users /\ f.wallets = s.wallets /\ f.requests = s.requests
        /\ f.txns = Put(s.txns, c.txn, WithStatus(s.txns[c.txn], c.status))
        /\ f.records = Put(s.records, k, [cmd |-> c, result |-> c.txn])
        /\ f.pending = s.pending \cup Events(k, {"annotateTransactionRisk"})
    BY <1>1, <2>1, AnnotateFields
  <2> QED  BY <1>2, <2>2
<1> QED  BY <1>5, <1>6, <1>7, <1>8, <1>9, <1>10, CommandKinds

\* No step but a crash does either.
LEMMA StepKeepsParties ==
    ASSUME Inv, [Next]_vars, ~Crash
    PROVE  KeepsParties(mem, mem')
<1>1. CASE mem' = mem
  BY <1>1 DEF KeepsParties
<1>2. ASSUME NEW t \in Call, Publish(t)
      PROVE  KeepsParties(mem, mem')
  <2>1. Committing(t) /\ pc[t] # "idle" /\ mem' = work[t]
    BY <1>2 DEF Publish, Committing
  <2>2. cmd[t].key \in Key /\ cmd[t].cmd \in Command /\ ApplicationState(mem)
    BY <2>1, StartedCall DEF Inv, TypeOK
  <2>3. Accepts(mem, cmd[t].cmd, now) /\ mem' = Apply(mem, cmd[t].key, cmd[t].cmd, now)
    BY <2>1 DEF Inv, NoLostUpdate
  <2> QED  BY <2>2, <2>3, ApplyKeepsParties
<1>3. ASSUME NEW t \in Call, Quiet(t) \/ Begin(t) \/ Thread(t) \/ Abort(t)
      PROVE  mem' = mem
  BY <1>3, QuietFrame DEF Begin, Thread, WriteOk, WriteFail, Abort
<1>4. UNCHANGED vars => mem' = mem  BY DEF vars
<1> QED  BY <1>1, <1>2, <1>3, <1>4, StepCases

\* What t holds is what its approval needs.
LocksParties(t) ==
    pc[t] # "idle" /\ cmd[t].cmd.op = "approvePayment" =>
        /\ cmd[t].cmd.request \in DOMAIN mem.requests
        /\ cmd[t].wallets = WalletsOf(mem, cmd[t].cmd)

\* A call that does not start keeps its command, or ends.
LEMMA CommandsStay ==
    ASSUME Inv, [Next]_vars, NEW u \in Call
    PROVE  \/ pc'[u] = "idle"
           \/ pc[u] # "idle" /\ cmd'[u] = cmd[u]
           \/ \E k \in Key, c \in Command : Start(u, k, c)
<1>1. /\ DOMAIN pc = Call /\ DOMAIN cmd = Call  BY DEF Inv, TypeOK
<1>2. CASE Crash  BY <1>2 DEF Crash
<1>3. CASE UNCHANGED vars  BY <1>3 DEF vars
<1>4. ASSUME NEW t \in Call, \E k \in Key, c \in Command : Start(t, k, c)
      PROVE  \/ pc'[u] = "idle"
             \/ pc[u] # "idle" /\ cmd'[u] = cmd[u]
             \/ \E k \in Key, c \in Command : Start(u, k, c)
  BY <1>1, <1>4 DEF Start
<1>5. ASSUME NEW t \in Call,
             \/ Lock(t) \/ CancelCommitting(t) \/ Begin(t) \/ Thread(t)
      PROVE  pc'[u] = "idle" \/ (pc[u] # "idle" /\ cmd'[u] = cmd[u])
  BY <1>1, <1>5 DEF Lock, CancelCommitting, Begin, AtGate, Thread, WriteOk, WriteFail
<1>6. ASSUME NEW t \in Call, Leave(t)
      PROVE  pc'[u] = "idle" \/ (pc[u] # "idle" /\ cmd'[u] = cmd[u])
  BY <1>1, <1>6 DEF Leave
<1>7. ASSUME NEW t \in Call,
             Replay(t) \/ Refuse(t) \/ CancelWaiting(t) \/ Publish(t) \/ Abort(t)
      PROVE  Leave(t)
  BY <1>7 DEF Replay, Refuse, CancelWaiting, Publish, Abort, CloseGate
<1> QED  BY <1>2, <1>3, <1>4, <1>5, <1>6, <1>7, StepCases DEF Quiet

\* So every step keeps what the calls hold right.
LEMMA PartiesStep ==
    ASSUME Inv, ApprovalLocksParticipants, [Next]_vars
    PROVE  ApprovalLocksParticipants'
<1> SUFFICES ASSUME NEW u \in Call
             PROVE  LocksParties(u)'
  BY DEF ApprovalLocksParticipants, LocksParties
<1>1. CASE pc'[u] = "idle"
  BY <1>1 DEF LocksParties
<1>2. CASE pc'[u] # "idle" /\ pc[u] # "idle" /\ cmd'[u] = cmd[u]
  <2>1. LocksParties(u)  BY DEF ApprovalLocksParticipants, LocksParties
  <2>2. ~Crash  BY <1>2 DEF Crash
  <2>3. KeepsParties(mem, mem')  BY <2>2, StepKeepsParties
  <2>4. CASE cmd[u].cmd.op = "approvePayment"
    <3>1. cmd[u].cmd.request \in DOMAIN mem.requests  BY <1>2, <2>1, <2>4 DEF LocksParties
    <3>2. WalletsOf(mem', cmd[u].cmd) = WalletsOf(mem, cmd[u].cmd)
      BY <2>3, <2>4, <3>1 DEF WalletsOf, KeepsParties
    <3> QED  BY <1>2, <2>1, <2>3, <3>1, <3>2 DEF LocksParties, KeepsParties
  <2> QED  BY <1>2, <2>4 DEF LocksParties
<1>3. CASE \E k \in Key, c \in Command : Start(u, k, c)
  <2>1. PICK k \in Key, c \in Command : Start(u, k, c)  BY <1>3
  <2>2. DOMAIN cmd = Call /\ mem' = mem  BY <2>1 DEF Inv, TypeOK, Start
  <2>3. cmd'[u] = [key |-> k, cmd |-> c, wallets |-> WalletsOf(mem, c)]
    BY <2>1, <2>2 DEF Start
  <2>4. cmd'[u].cmd = c /\ cmd'[u].wallets = WalletsOf(mem, c)  BY <2>3
  <2>5. c.op = "approvePayment" => c.request \in DOMAIN mem.requests
    BY <2>1 DEF Start
  <2> QED  BY <2>2, <2>4, <2>5 DEF LocksParties
<1> QED  BY <1>1, <1>2, <1>3, CommandsStay

\* payment_domain_service.py:822: the participants an approval locked, read
\* before it held any lock, are those of the request it finds under the gate.
THEOREM ApprovalsLockTheirParties == Spec => []ApprovalLocksParticipants
<1>1. Init => ApprovalLocksParticipants  BY DEF Init, ApprovalLocksParticipants
<1> QED  BY <1>1, PartiesStep, Safety, PTL DEF Spec

-----------------------------------------------------------------------------
(* Refinement: the replacement of the file executes the command, an answer *)
(* is a reply, reading the clock is a tick, and the rest stutters.         *)

\* The service starts where AtomicCommands does.
LEMMA InitRefines == Init => Serial!Init
BY DEF Init, Serial!Init

\* Replacing the state file executes the holder's command on what it held.
LEMMA WriteExecutes ==
    ASSUME Inv, NEW t \in Call, WriteOk(t)
    PROVE  \E k \in Key, c \in Command : Serial!Execute(k, c)
<1>1. gate = t /\ gate # NoCall /\ pc[t] = "saving"
  BY ServiceAssumption DEF Inv, OneCommit, Committing, WriteOk
<1>2. cmd[t].key \in Key /\ cmd[t].cmd \in Command
  BY <1>1, StartedCall DEF Inv
<1>3. disk = mem  BY <1>1 DEF Inv, FileMatchesMemory
<1>4. /\ cmd[t].key \notin DOMAIN disk.records /\ Accepts(disk, cmd[t].cmd, now)
      /\ disk' = Apply(disk, cmd[t].key, cmd[t].cmd, now)
      /\ UNCHANGED <<acked, now>>
  BY <1>1, <1>3 DEF Inv, NoLostUpdate, Committing, IsNew, WriteOk
<1> QED  BY <1>2, <1>4 DEF Serial!Execute

\* A first answer repeats the record the file holds for its key.
LEMMA PublishReplies ==
    ASSUME Inv, NEW t \in Call, Publish(t)
    PROVE  UNCHANGED <<disk, acked, now>> \/ \E k \in Key : Serial!Reply(k)
<1>1. gate = t /\ gate # NoCall /\ pc[t] = "written"
  BY ServiceAssumption DEF Inv, OneCommit, Committing, Publish
<1>2. cmd[t].key \in Key  BY <1>1, StartedCall DEF Inv
<1>3. disk = work[t]  BY <1>1 DEF Inv, FileMatchesMemory
<1>4. cmd[t].key \in DOMAIN work[t].records /\ work[t].records[cmd[t].key].cmd = cmd[t].cmd
  BY <1>1, WorkExtendsMemory
<1>5. CASE t \in cancelled
  BY <1>5 DEF Publish
<1>6. CASE t \notin cancelled
  <2>1. acked' = acked \cup {Serial!Ack(disk, cmd[t].key)}
    BY <1>3, <1>4, <1>6 DEF Publish, Serial!Ack
  <2> QED  BY <1>2, <1>3, <1>4, <2>1 DEF Publish, Serial!Reply
<1> QED  BY <1>5, <1>6

\* A replay repeats it too.
LEMMA ReplayReplies ==
    ASSUME Inv, NEW t \in Call, Replay(t)
    PROVE  \E k \in Key : Serial!Reply(k)
<1>1. /\ gate = NoCall /\ pc[t] # "idle"
      /\ cmd[t].key \in DOMAIN mem.records /\ mem.records[cmd[t].key].cmd = cmd[t].cmd
  BY DEF Replay, AtGate, IsReplay
<1>2. cmd[t].key \in Key  BY <1>1, StartedCall DEF Inv
<1>3. disk = mem  BY <1>1 DEF Inv, FileMatchesMemory
<1>4. acked' = acked \cup {Serial!Ack(disk, cmd[t].key)}
  BY <1>1, <1>3 DEF Replay, Serial!Ack
<1> QED  BY <1>1, <1>2, <1>3, <1>4 DEF Replay, Serial!Reply

\* Opening a unit of work reads the clock.
LEMMA BeginTicks ==
    ASSUME Inv, NEW t \in Call, Begin(t)
    PROVE  UNCHANGED <<disk, acked, now>> \/ Serial!Tick
BY LedgerAssumption DEF Inv, TypeOK, Begin, Serial!Tick

\* Every step of the service is a step of AtomicCommands or none.
LEMMA StepRefines ==
    ASSUME Inv, [Next]_vars
    PROVE  [Serial!Next]_(Serial!vars)
<1>1. ASSUME NEW t \in Call, WriteOk(t) \/ Publish(t) \/ Replay(t) \/ Begin(t)
      PROVE  [Serial!Next]_(Serial!vars)
  BY <1>1, WriteExecutes, PublishReplies, ReplayReplies, BeginTicks
     DEF Serial!Next, Serial!vars
<1>2. ASSUME NEW t \in Call,
             \/ \E k \in Key, c \in Command : Start(t, k, c)
             \/ Lock(t) \/ Refuse(t) \/ CancelWaiting(t) \/ CancelCommitting(t)
             \/ WriteFail(t) \/ Abort(t)
      PROVE  UNCHANGED <<disk, acked, now>>
  BY <1>2 DEF Start, Lock, Refuse, CancelWaiting, CancelCommitting, WriteFail, Abort
<1>3. Crash \/ UNCHANGED vars => UNCHANGED <<disk, acked, now>>
  BY DEF Crash, vars
<1> QED  BY <1>1, <1>2, <1>3, StepCases DEF Quiet, Thread, Serial!vars

\* Interleaved calls, failing writes, cancellations and crashes do not show:
\* the state file is a serial ledger.
THEOREM Refinement == Spec => ImplementsAtomicCommands
BY InitRefines, StepRefines, Safety, PTL DEF Spec, ImplementsAtomicCommands, Serial!Spec
=============================================================================
