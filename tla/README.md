# Verification of the agentic payment system

TLA+ models of the payment system in `src/`, the TLC runs that check them on small
instances, and TLAPS proofs of what matters most for every size. Paths below are
relative to `src/src/agentic_payments/`.

## 1. Inventory

Everything runs on one asyncio event loop. The only parallelism is a worker thread
per file write (`asyncio.to_thread`), so what interleaves are the pieces of a call
between two suspending awaits: a resource lock, the transaction gate, the flush lock
and a file write. `current_state` and the deterministic agents never suspend.

| Component | State it keeps | Operations | What must hold |
|---|---|---|---|
| `PaymentDomainService` (application/payment_domain_service.py) | none: works on a clone of the aggregate | createUser, transferMoney, requestPayment, approvePayment, rejectPayment, annotateTransactionRisk; two reads | money conserved, limits, one effect per idempotency key, one resolution per request, each commit audited |
| `ApplicationState`, entities, policy (application/state.py, domain/) | users, wallets, transactions, requests, idempotency records, pending audit events, memory | `validate_invariants`, clone, (de)serialization | what is committed is valid and can be loaded again |
| `AsyncResourceLockManager` (infrastructure/concurrency/) | a table of reference-counted lock entries, created on demand, evicted when idle | `acquire_many` | exclusion, no deadlock, no lost wake-up, no entry leaked or evicted under a user |
| `PaymentTransactionManager`, `PaymentUnitOfWork` | the published aggregate, the gate | `transaction`, `commit`, `rollback`, `current_state` | one commit at a time, no lost update, gate always released |
| `JsonStateRepository` | the state file, a save lock | `load`, `save_atomic` (temporary file, fsync, `os.replace`, shielded from cancellation) | the file is the published aggregate or the next one |
| `JsonLinesAuditRepository` | the JSONL log, an index by event id | `initialize`, `append`, queries | what the index confirms can be read back |
| `AuditOutboxDispatcher` | a flush lock | `flush_pending` | no event lost; honest report; repeats only after a reported failure |
| `OrchestratorAgent`, `PaymentFacade`, `MemoryService` | the business memory of the process | `handle` and its finishing paths, risk post-processing, memory persistence | a committed operation is never reported as failed; memory names what exists; snapshots are persisted in order |
| Fraud and security agents | none | score, level, review of a snapshot | one verdict per transaction, and the one its history deserves |
| `ApplicationContainer` (bootstrap.py) | none | `build_application`, `reset_state` | a reset discards no undelivered event, and nothing old comes back |
| `RouterAgent`, `HybridRouterAgent` (agents/, infrastructure/llm/) | none | from a text to a `RouterDecision`, by its words or by a model with the words to fall back on | without a model only what the words say in full is done |
| Fallback, reflection and critic agents | none | the question or the advice in place of a result; the score of a result | an answer tells what was done from what was not |
| Tools and guardrails (tools/) | none | contract of each tool, checks before and after it | no operation from a decision that is unsure, incomplete or has more than it should |
| `OpenAIAgentsRuntime` (infrastructure/llm/) | none | a router run, a specialist run: turns, handoffs, one read-only tool, guardrails, a timer of 30 seconds | a review is accepted only from the right specialist and of the facts; no call waits for ever |
| Settings (config.py) | none | validation | an incomplete provider does not stop the words |
| CLI, notebook, formatters, `TransactionalIdempotencyStore` | none | I/O | (not modelled, see section 7) |

A turn goes: `OrchestratorAgent.handle` → router (a model run, or the words) → command →
guardrail → tool → `PaymentFacade` →
`PaymentDomainService` (locks → gate → clone → checks → mutation, audit event and
idempotency record → save → publish) → risk annotation (a second commit) → memory
(a third commit) → outbox flush (one commit per event). A question or advice skips from
where it arises to the memory. Reset and restart cut across. `run_specialist` is an entry
of its own, which nothing in `src/` calls.

The hard part is what happens between those steps; `PROJECT.json` lists it, hazard
by hazard, at the line where it bites.

## 2. Modules

| Module | Models | Uses |
|---|---|---|
| `PaymentLedger` | pure operators: the aggregate, `validate_invariants` (`Validates`), the policy, and for each operation X its checks `CanX` and its effect `X` | |
| `AtomicCommands` | abstract: a command takes effect in one step, once per key, and answers are what is recorded | |
| `SerialLedger` | the domain one command at a time under a clock that may be set back, and the properties of its aggregate | `PaymentLedger`, INSTANCE of `AtomicCommands` |
| `PaymentService` | calls in flight over locks, gate, unit of work and state file; failing writes, cancellation, crashes | `PaymentLedger`; refines `AtomicCommands` |
| `LockTable` | abstract: all the keys or none, each for one caller | |
| `ResourceLocks` | the lock table with entries, references, waiters and cancelled futures | refines `LockTable` |
| `AuditDelivery` | abstract: commit, deliver, forget | |
| `AuditOutbox` | flushes, the JSONL log and its index, payments, reset, faults, crashes | refines `AuditDelivery` |
| `AgentTurns` | concurrent turns, the memory, its persistence, reset, restart | |
| `RiskReview` | what happens to a payment after its commit: score, annotation, retry, fraud check | `PaymentLedger` |
| `CommandRouting` | pure operators: the grammar of the deterministic router, the validators of a decision, the command it builds, the guardrails, the fallback's limit, the critic | |
| `ModelRuns` | the router and specialist runs of a language model that may answer anything or never | |
| `TurnContract` | abstract: a turn does at most one thing, and its answer says which | |
| `RequestRouting` | `handle` from the words to the answer and `run_specialist`, several at a time | `CommandRouting`, INSTANCE of `ModelRuns`; refines `TurnContract` |
| `PaymentLedger_proof`, `SerialLedger_proof`, `PaymentService_proof`, `ResourceLocks_proof`, `AuditOutbox_proof`, `AgentTurns_proof`, `RiskReview_proof`, `RequestRouting_proof` | the theorems of section 5, each about the module it is named after | that module |
| `MC*` | instances for TLC | |

The modules rest on each other as layers, each proving what the next one assumes:

- `ResourceLocks` implements `LockTable`, so `PaymentService` takes all the locks of a
  call in one step.
- `PaymentService` implements `AtomicCommands`, so its state file passes only through
  ledgers of `SerialLedger`, whose properties therefore hold of every file; and
  `AuditOutbox`, `AgentTurns`, `RiskReview` and `RequestRouting` take a commit as one step.
- `RequestRouting` implements `TurnContract`. What the domain makes of its operation is
  a record, a replay or a refusal, as in `AtomicCommands`; what a failed persistence of
  the memory does to the turn is one step there and the subject of `AgentTurns`.

How state corresponds: `mem` is `PaymentTransactionManager._state`, `disk` the state
file, `work[t]` the working clone of a unit of work; `table`/`refs`/`waiters` are `_locks`,
`_LockEntry.references`, `asyncio.Lock._waiters`; `log`/`index` the JSONL file and
`_events_by_id`; `memory` is `MemoryService._memory`, and `turn[t]` the local
variables of one `handle`; in `RequestRouting` those are `call[c]`, and `run[c]` is the run
the call awaits. The `did` and `told` of a call are what its tool did and what its
`AgentResponse` is: a result, a clarification, or a reflected failure. The "map" of `PROJECT.json` gives the lines of each definition.

Definitions whose comment starts with "mutant" are wrong on purpose (a dropped check,
a missing release) and no specification uses them: each one shows that the property
it is paired with in `PROJECT.json` can fail.

### Abstractions to know of

- Amounts are integers (the code allows two decimals and compares exactly). A request
  fingerprint is the command itself. Identifiers are fresh values, and one
  representative of the unused ones is chosen, as nothing else depends on them.
- The clock is the wall clock. `SerialLedger` may set it back (`SetBack`, `MaxSetBacks`
  times); in the other modules it only advances.
- A save that fails leaves the old file: the errors before `os.replace`. The directory
  fsync after it is best effort in the code and cannot fail a save.
- Cancellation takes effect at suspending awaits; while a thread writes it is
  remembered and requested again when the write is over (`_rerequest_cancellation`).
  A cancelled call gives no answer in the model whatever its commit did.
- `AuditOutbox`: without resets the failed append may leave nothing or the whole line
  (`TornAppends = FALSE`); with `TRUE` it may also leave a part, which is finding 2.
- `AgentTurns`: one memory reference stands for the last user, transaction and
  request; a memory is a stamp, so that order and loss can be seen. A replayed
  annotation is part of `Annotate`.
- `RiskReview`: a direct transfer stands for an approval too.
- `CommandRouting`: a text is its form, its verb and its tokens. That shlex and the
  two sentence patterns find them is taken as given; Hebrew, English and the aliases of
  a field are one. Confidences are percentages.
- `ModelRuns`: the model's answers are drawn from every answer that the code tells
  apart. `asInstructed` is a history variable: whether the answers so far are among
  those its instructions (sdk_agents.py) ask for. A review is accepted also without a
  call of the tool: the code looks at who concludes and what it says, and the
  instructions alone ask for the call.
- `RequestRouting`: a text that a model has understood is not read again, and an ended
  run is dropped once its result is taken; both keep states alike that cannot differ
  any more.

## 3. Runs

| Run | Instance | Shows |
|---|---|---|
| `serial_ledger` | 2 users and one more to register, 3 keys, 3 transactions, 2 requests, amounts 0, 2 (legal) and 3 (twice it breaks the daily limit of 4), 3 instants with a window of 1, the clock set back once | the aggregate's properties: conservation, limits in every window, one payment per key, one resolution per request, events, history |
| `payment_service` | 2 calls, 2 keys, 2 users, 1 request, 1 crash, failing writes, cancellation anywhere | the service implements the serial ledger, and the invariants of section 5 |
| `payment_service_live` | 2 calls, 2 keys, failing writes, no crash | every call ends |
| `resource_locks` | 3 callers over 3 resources, asking for each pair of them or for one alone, cancellation | the table is exact, locks are all or none and exclusive, nobody waits for ever |
| `audit_outbox` | 3 events, 2 flushes, 2 faults, 1 crash | delivery: nothing lost, honest report, repeats only after faults |
| `audit_outbox_reset` | 2 events, a flush and a reset, torn appends, 1 fault, 1 crash | both end |
| `agent_turns` | 2 turns, 2 keys, a reset, 1 fault, 1 crash | honest answers, ordered and durable snapshots, a memory that names what exists; every turn ends |
| `risk_review` | 2 users, 3 payments, 2 calls, 3 instants with a rapid window of 1, 1 fault, 1 fraud check; amounts and balances that reach every combination of points used | one verdict per transaction, the one its history deserves |
| `request_routing` | 2 calls, 1 key or none, 7 texts, 7 decisions of a model, 6 reviews; no provider, a ready one, an incomplete one; cancellation | without a model only the words are done, retries are replayed, verdicts of specialists, the turn contract, every call ends |
| `audit_outbox_reset_race`, `audit_outbox_torn`, `agent_turns_stale` | the least instance of each | findings 1, 2, 3 |

Bounds. Two calls suffice for the pairwise races that locks and gate guard against; a
third caller is there where a chain matters (lock cycles). Two
keys give both a retry and two distinct commands. One crash is enough to separate
what is durable from what is not, since a restart reaches only states that start
from a file. Time takes three instants with a window of one, so that both "within"
and "outside" occur on each side of a boundary. In `payment_service` the clock stands
still (`MaxTime = 0`): time only enters `Accepts`, which `serial_ledger` exercises.
In `request_routing` the threshold is 95, so that decisions of 70, 85 and 100 meet all
that a lower one would: a question, advice, a run. Its texts have one of each way
the parser fails (a field given twice, a number that is none, a sentence that only
begins like one, blanks around a command), its decisions one of each way a decision
is stopped. Two calls make a request and its retry; what others do in between is then
left to the case that the first of the two was understood by a model. `MaxTurns` is no
bound but the 4 of the code.
The bounds `MaxCrashes`, `MaxFaults`, `MaxChecks`, `MaxResets`, `MaxSetBacks`, `MaxTime` and the finite sets of
identifiers are guards of the models, not of the code: an operation that finds no
fresh identifier is refused.

Deadlock is checked in every run. `AgentTurns` and `RequestRouting` have bounded turns,
so their explicit `Over` step marks the states in which the instance is done.

### Findings

1. `reset_state` checks that nothing is pending, and only then waits for the gate
   (bootstrap.py:80-82). A payment that commits while it waits is wiped together with
   its undelivered event. The docstring and docs/persistence_and_audit.md:81 say
   otherwise.
2. After an append that was cut short, the next event continues the same line
   (infrastructure/jsonl_audit_repository.py:63): it is confirmed and removed from
   the outbox but cannot be read back, and the next start rejects the log.
3. `_persist_memory` takes its snapshot before it waits for the gate
   (application/orchestrator.py:753): a turn queued behind a reset brings back the
   memory from before it.

### Divergences read, without a run

Where documents and code differ but no run of its own shows it, the model has what the
code does.

- agents/fallback_agent.py:70 compares with a constant 0.80 where the orchestrator uses
  the configured threshold: between the two a turn ends in advice, not in the question
  that docs/agent_flows.md:82 describes (`Disposition`, `FallbackLimit`).
- docs/architecture.md:94-103 has the orchestrator gather facts for specialists; nothing
  in `src/` calls `run_specialist`.
- The critic's score cannot fall below 3 for what the facade returns, as no confidence is
  under 50: it never turns a result into a question (`Quality`, `ReadResults`). A
  question is not criticized at all.
- With a model as router a retry may be understood differently from the request it
  repeats; it then conflicts with the first, and the advice is to use a new key
  (agents/reflection_agent.py:85), although the first was done.
- sdk_agents.py:61 lets a specialist state a status that the facts report as executed;
  the output guardrail refuses every claim of execution. An identifier or amount that is
  in the facts only inside a longer text is refused as well (sdk_guardrails.py:241).
- What the context accepts, the tool may still refuse to return: times in unusual
  fields, instructions, long facts, and a correlation id whose digits look like a phone
  number (sdk_guardrails.py:103-104), which a generated one may be.
- A message with blanks around it passes `handle` and the router, and is refused by
  `remember_route` (application/memory_service.py:216): it ends in advice.
- config.py accepts an enabled provider without an api key; provider_factory.py:57-61
  refuses it later, and routing goes by the words.
- `_IDENTIFIER` of the router knows correlation ids as CORR-; the generated ones begin
  with COR-.

## 4. Fairness

- Weak fairness of a thread's write and of a payment's commit: threads end.
- Weak fairness of a task that is ready: the event loop runs every ready task.
- Strong fairness of taking locks, gate and flush lock in `PaymentService` and
  `AuditOutbox`, whose waiters are not ordered: `asyncio.Lock` serves them first come
  first served, so one that is free again and again is obtained. `ResourceLocks` and
  `AgentTurns` have the queue itself and need only weak fairness.
- Weak fairness of the timer of `asyncio.wait_for` in `RequestRouting`: it fires whatever
  the model does. Nothing is assumed of the model and its provider.
- No fairness of callers, cancellation, faults or crashes.

## 5. Proofs

Every safety property of a passing run - type invariants, invariants, action properties
and the refinements of `AtomicCommands`, `LockTable`, `AuditDelivery` and `TurnContract` -
is also a theorem, for every value of the constants that the assumptions of its module
allow. Each proof has an inductive invariant, one lemma per action (or group of actions
that do alike), one step per conjunct, and a last step that only puts these together.

The assumptions say what the code has by its types: amounts and limits are naturals
(`LedgerAssumption`), the markers for "none" are no members of the sets they are added to
(`NoTxnAssumption`, `ServiceAssumption`, `TurnsAssumption`, ...), a derived key is no payment
key (`ReviewAssumption` of `RiskReview`), resources are ordered and a call asks for finitely many
(`LocksAssumption`), what is brought to a specialist is a request of it (`ReviewAssumption` of
`RequestRouting`). TLC evaluates each of them on every instance. Sets of
users, keys, transactions, calls, callers, turns and events may be of any size, infinite ones
too, and bounds (`MaxTime`, `MaxFaults`, `MaxCrashes`, ...) any natural.

### Ledger (`PaymentLedger_proof`, `SerialLedger_proof`)

`PaymentLedger_proof` holds the lemmas about the operators: what the effect of each command
leaves in the aggregate (its shape, and that records are only added), and the laws of sums.

`LedgerInv` is `TypeOK`, `ValidState`, `HistoryInv` and `MoneyInv`.

- *History.* `OnePaymentPerKey`, `ResolvedOnce` and `AuditComplete` are inductive with
  `ResolutionsMarked` (a recorded resolution has left its mark on the request, so it cannot
  be resolved again) and `PartiesDiffer` (nobody pays himself; `Validates` asks for it).
- *Sums.* `Reconciled` and `DailyLimitHolds` add up amounts over sets of transactions, by a fold
  (`SumSent`). A sum is the number of *coins*, the pairs of a transaction and a number from 1 to its
  amount (`SumIsCoins`: there is no smallest set on which the two differ). One more transaction
  is then a disjoint union, which the library's theorems on finite sets count (`SumAdd`).
- *The daily limit.* `DailyLimitHolds` allows one limit for each time the clock was set back. It is
  not inductive: the window of a payment may hold transactions dated after it.
  `LaterLimited` says how much these can be: those dated later than the clock stem from before
  a set back, and each set back leaves one limit of them at most.
- `ValidState` needs all of these: `validate_invariants` recomputes balances from the history.

### Service (`PaymentService_proof`)

The inductive invariant `Inv` (theorem `Safety`) joins the type invariant with `OneCommit`,
`FileMatchesMemory` and `NoLostUpdate`. None is inductive alone. That publishing
takes `mem` to what `disk` is needs the file to be the unit of work of the gate's
holder; that needs one holder at a time; and that the unit of work extends the
published aggregate, rather than replacing it, needs it to be the holder's command
applied to the aggregate as it still is. From it: `TypesCorrect`, `CommitsAreSerial`,
`FileNeverBehind`, `NothingIsLost`, `NothingUnpublished`, `AnswersDurable` and `Refinement`, where a
good write maps to `Execute`, a replay or publication to `Reply`, the clock read by `Begin` to
`Tick`, everything else to a stutter. `OneCommit` is not a property of a run of its own: it is
part of `Inv`.

`ApprovalsLockTheirParties` needs one fact more, `ApplyKeepsParties`: no command drops a request
or changes who asks and who pays. So the locks taken for the parties read before the
gate are those of the parties found under it, and the recheck in the code never fires.

### Locks (`ResourceLocks_proof`)

`LocksInv` (theorem `LocksInvariant`) is `TypeOK` with: every entry in the table counts just the callers that have
reserved it (`TableOK`, `CallersOK`), an entry out of the table has no references, no holder and no
waiter (`IdleOK`), each lock has the one caller that says it holds it (`HoldersOK`), and each line holds
once each caller that waits there, where the one woken is the first and finds the lock free
(`WaitersOK`). The last is why two callers never get one lock: a woken waiter takes it in a later
step, and between the two `asyncio.Lock.acquire` refuses whoever comes with a line before him.
That a wake-up is passed on when the one woken is cancelled is liveness, which stays with TLC.

### Outbox (`AuditOutbox_proof`)

Three layers, as the promises do not hold under the same conditions.

- `Books`, always: one flush is at work, its list is of committed events, and the index says which
  of them it still has to append. It gives `OutboxTypeCorrect`.
- `Delivered`, if an append leaves nothing or its whole line (`TornAppends = FALSE`): the index is part of the log, and every
  line beyond the number of events is paid for by a failure or a crash. It gives
  `OnlyFaultsRepeat` and `FlushesAreHonest`.
- `Lossless`, if moreover nobody resets (`Resetter = {}`): the list of a flush is of
  pending events, and it removes each once the index has it. It gives `EventsAreKept` and `OutboxRefines`.

The two hypotheses are no convenience: with resets, or with lines that are cut short, events
do get lost, which the runs of findings 1 and 2 show.

### Turns (`AgentTurns_proof`)

`TurnsInv` is `TypeOK`, the line of the gate (each waiting turn once, its holder first),
`MemoryRefersToState`, and for each turn (`TurnOK`) what its place says of its snapshot, its operation
and its answer. Snapshots wait in the order in which they were taken, and what is written is
older than any that waits, unless that one is from before a reset: hence `MemoryAdvances`.
`AnswersHonest` rests on the parts of `TurnOK` that tie the result of a turn to what it made, what it
assessed and what it persisted, as long as nobody has reset the aggregate.

### Risk (`RiskReview_proof`)

`ReviewInv` has a correspondence of payments, payloads and transactions (`PaymentsMatch`), the
history variable `order` as the order of commits (`InOrder`), and that each snapshot is what the
payments before its own in that order give, its recent payments (`SnapshotsTrue`) and its balances
(`BalancesTrue`: the opening balance plus what was received minus what was sent before, with the laws
of sums of the ledger). An annotated
payment has the score of its snapshot (`AnnotatedAsScored`), and every score told is that one
(`ToldScores`). Before flagged recent payments count, the points add up to 85 at most and the cap of 100 cuts nothing
off; so a score that depends on recent scores is as deserved as those are. `VerdictIsOne` and
`FlagsDeserved` follow.

### Routing (`RequestRouting_proof`)

The theorem `RunsOnlyWhatIsSaid` is about the router alone: a text whose decision is disposed
to run says that decision in full. On it rest four layers.

- `Inv`. `Faithful` carries the router's theorem from the route to the tool and beyond: what is
  executing, reading or done by words is what the words say; it needs that a call still being
  routed has done nothing. `Orderly` says that the answer of a finishing call is one that is due
  for what was done, which `Answer` turns into a `Reply` of the contract; here it matters that the
  critic approves of everything a read returns (`CriticContent`) and that a failed persistence
  spares what was committed. It gives `WordsOnly` and `Refinement`.
- `Retried`. What a call did is on record, records stay (`Grows`), and what the words decide is the same
  each time under one threshold: a retry that is understood by its words finds the record of just its
  operation, so `Refuse` is closed to it. It gives `RetriesGetTheirResult`.
- `RunsSound`. Where a run is: a specialist that the model is asked for was handed off to, is that of
  the intent, and its turns are two more than its tool calls; so the four turns of the code run out
  only on a third call. It gives `VerdictsAreDeserved`. What a run says in the end is not
  constrained but by the guardrails.
- `Linked`. A call waits for a run if and only if it has one; with the others it gives `RoutingTypeCorrect`.

### Only model-checked

- Liveness: `CallsEnd`, `EverybodyGetsIn`, `FlushEnds`, `TurnsEnd`, `EveryCallEnds`. Fairness and ENABLED are
  beyond the prover.
- What a recursive definition computes for all inputs (induction over data). The proofs are arranged not to
  need it.
- That the invariants are not vacuous: that each of their cases is reached, by the runs and by the mutants.

## 6. Plan

Done: ledger and service first, as every money movement depends on them, then locks,
outbox, turns, risk review; a clock that is set back; routing, its fallbacks and
guardrails, the model runs and the turn contract; a theorem for each safety property.

Next, proofs: that what `SerialLedger_proof` proves of a serial ledger holds of the file and of
the published aggregate of `PaymentService`, as one theorem, where now it is read off the
refinement; `LockTable` gives what `PaymentService` assumes of its locks.

Next, models: the memory's contents (the recent actions and the nested last result), if
something but an explanation comes to read them; the startup path of
`build_application` with its recovery flush.

## 7. Not modelled

- What a text is made of: shlex, the regular expressions of the router and of the
  guardrails, the prompts, the wording of questions, advice and explanations. The models
  have the distinctions they make.
- The language model and its SDK: external, and any answer is possible.
- The policy agent's advice and the metadata of an answer: no state depends on them.
- CLI, notebook, formatters and scripts: I/O around one call of `handle` at a time. The
  validators of single settings.
- `TransactionalIdempotencyStore`: nothing in `src/` calls it.
- `_finish_committed_failure`: it needs an exception from a finishing step that
  catches its own.
- Serialization: a saved aggregate reads back as itself.
- The contents of the memory beyond its references: only an explanation reads them.
