------------------------------ MODULE AgentTurns ------------------------------
(***************************************************************************)
(* Concurrent turns of OrchestratorAgent.handle: routing, one primary tool *)
(* of PaymentFacade with its risk post-processing, the business memory of  *)
(* MemoryService and its persistence, and reset_state between them.        *)
(*                                                                         *)
(* A commit is atomic (PaymentService): here it is the step that ends it,  *)
(* taken by the first in the queue of the transaction gate, an             *)
(* asyncio.Lock.  An entity (a user, transaction or payment request) is    *)
(* named after the turn that made it.  The deterministic agents do not     *)
(* suspend, so they are part of the steps that call them.                  *)
(***************************************************************************)
EXTENDS Integers, SequencesExt

CONSTANTS Turn,      \* calls of handle; each is made at most once
          Key,       \* idempotency keys
          Resetter,  \* the caller of reset_state
          None,
          MaxFaults, MaxCrashes, MaxResets    \* bounds of a run

ASSUME TurnsAssumption == /\ {Resetter, None} \cap Turn = {} /\ Resetter # None
                          /\ {MaxFaults, MaxCrashes, MaxResets} \subseteq Nat

VARIABLES
    state,    \* the published aggregate
    memory,   \* MemoryService._memory
    queue,    \* who holds the transaction gate, and who waits for it, in order
    turn,     \* the local variables of each turn
    stamps,   \* history: how many times the memory was replaced
    cleared,  \* history: the stamp of the memory the last reset left
    faults, crashes, resets

vars == <<state, memory, queue, turn, stamps, cleared, faults, crashes, resets>>

\* A memory is known by its stamp and the entity it remembers: one reference
\* stands for the last user, transaction and payment request.
NoMemory == [stamp |-> 0, last |-> None]

EmptyState == [made |-> {}, records |-> [k \in {} |-> k], assessed |-> {},
               memory |-> NoMemory]

NewTurn == [at |-> "new", kind |-> "none", key |-> "none", result |-> None,
            assessed |-> FALSE, snapshot |-> NoMemory, persisted |-> FALSE]

Init ==
    /\ state = EmptyState /\ memory = NoMemory
    /\ queue = <<>>
    /\ turn = [t \in Turn |-> NewTurn]
    /\ stamps = 0 /\ cleared = 0 /\ faults = 0 /\ crashes = 0 /\ resets = 0

-----------------------------------------------------------------------------
At(t, place) == turn[t].at = place
AtGate(t)    == queue # <<>> /\ Head(queue) = t
Fault        == faults < MaxFaults /\ faults' = faults + 1
NoFault      == UNCHANGED faults

JoinFirst(q, t) == <<t>> \o q    \* mutant: last come first served
Join(q, t) == Append(q, t)

Remember(last) == [stamp |-> stamps + 1, last |-> last]

\* MemoryService replaces its memory by m, and _persist_memory takes its
\* snapshot and asks for the gate; q is the queue without the turn.
Persist(t, now, place, m, q) ==
    /\ memory' = m
    /\ stamps' = m.stamp
    /\ turn' = [turn EXCEPT ![t] = [now EXCEPT !.at = place, !.snapshot = m]]
    /\ queue' = Join(q, t)

\* _reflect_failure: the advice is remembered in place of a result.
Reflect(t, now, q) == Persist(t, now, "reflecting", Remember(memory.last), q)

\* _finish_committed_tool: the entity, if it is still published, and the
\* result are remembered, whatever the guardrail and the critic think of it.
Finish(t, now, s, q) ==
    LET last == IF now.result \in s.made THEN now.result ELSE memory.last
    IN  Persist(t, now, "finishing", Remember(last), q)

-----------------------------------------------------------------------------
(* Routing and the primary tool.                                           *)

\* handle, up to its first wait.  A clarification, a fallback and a read-only
\* tool only remember a route and a result.
HandleRead(t) ==
    /\ At(t, "new")
    /\ Persist(t, [turn[t] EXCEPT !.kind = "read"], "reading", Remember(memory.last), queue)
    /\ UNCHANGED <<state, cleared, faults, crashes, resets>>

\* Routing, a guardrail, a read-only tool or a check a mutating one makes before
\* it asks for its locks raises.
HandleFails(t) ==
    /\ At(t, "new")
    /\ Reflect(t, [turn[t] EXCEPT !.kind = "read"], queue)
    /\ UNCHANGED <<state, cleared, faults, crashes, resets>>

\* A mutating tool waits for its resource locks; the route is remembered.
HandleMutation(t, k, kind) ==
    /\ At(t, "new")
    /\ memory' = Remember(memory.last) /\ stamps' = stamps + 1
    /\ turn' = [turn EXCEPT ![t] = [NewTurn EXCEPT !.at = "locking", !.kind = kind, !.key = k]]
    /\ UNCHANGED <<state, queue, cleared, faults, crashes, resets>>

\* acquire_many returns, for the primary mutation or the risk annotation.
Locked(t) ==
    /\ At(t, "locking") \/ At(t, "assessing")
    /\ turn' = [turn EXCEPT ![t].at = IF @ = "locking" THEN "mutating" ELSE "annotating"]
    /\ queue' = Join(queue, t)
    /\ UNCHANGED <<state, memory, stamps, cleared, faults, crashes, resets>>

\* What follows a committed or replayed mutation: a payment is assessed.
AfterMutation(t, result, s) ==
    LET now == [turn[t] EXCEPT !.result = result]
    IN  IF now.kind = "pay"
        THEN /\ turn' = [turn EXCEPT ![t] = [now EXCEPT !.at = "assessing"]]
             /\ queue' = Tail(queue)
             /\ UNCHANGED <<memory, stamps>>
        ELSE Finish(t, now, s, Tail(queue))

\* The operation commits: the turn has made its entity, under its key.
Mutate(t) ==
    /\ AtGate(t) /\ At(t, "mutating")
    /\ turn[t].key \notin DOMAIN state.records
    /\ state' = [state EXCEPT !.made = @ \cup {t},
                              !.records = [k \in DOMAIN @ \cup {turn[t].key} |->
                                             IF k = turn[t].key THEN t ELSE @[k]]]
    /\ AfterMutation(t, t, state')
    /\ UNCHANGED <<cleared, faults, crashes, resets>>

\* The recorded result of an earlier turn with the same key and operation.
Replay(t) ==
    /\ AtGate(t) /\ At(t, "mutating")
    /\ turn[t].key \in DOMAIN state.records
    /\ turn[state.records[turn[t].key]].kind = turn[t].kind
    /\ AfterMutation(t, state.records[turn[t].key], state)
    /\ UNCHANGED <<state, cleared, faults, crashes, resets>>

\* A check refuses the operation, another one has its key, or the state file
\* cannot be written: nothing was committed.
MutationFails(t) ==
    /\ AtGate(t) /\ At(t, "mutating")
    /\ Reflect(t, turn[t], Tail(queue))
    /\ UNCHANGED <<state, cleared, faults, crashes, resets>>

-----------------------------------------------------------------------------
(* _post_process_snapshot.                                                 *)

\* annotate_transaction_risk commits, or is replayed.
Annotate(t) ==
    /\ AtGate(t) /\ At(t, "annotating")
    /\ turn[t].result \in state.made
    /\ state' = [state EXCEPT !.assessed = @ \cup {turn[t].result}]
    /\ Finish(t, [turn[t] EXCEPT !.assessed = TRUE], state, Tail(queue))
    /\ UNCHANGED <<cleared, faults, crashes, resets>>

\* The transaction is gone, or the annotation is not written: "degraded".
AnnotationFails(t) ==
    /\ AtGate(t) /\ At(t, "annotating")
    /\ \/ turn[t].result \notin state.made /\ NoFault
       \/ Fault
    /\ Finish(t, turn[t], state, Tail(queue))
    /\ UNCHANGED <<state, cleared, crashes, resets>>

-----------------------------------------------------------------------------
(* _persist_memory and the answer.                                         *)

Persisting(t) == turn[t].at \in {"reading", "finishing", "reflecting"}

\* ApplicationState.validate_invariants: what the memory refers to exists.
Refers(s, m) == m.last \in s.made \cup {None}

Flush(t, persisted) ==
    /\ turn' = [turn EXCEPT ![t].at = "flushing", ![t].persisted = persisted]
    /\ queue' = Tail(queue)
    /\ UNCHANGED <<memory, stamps>>

PersistMemory(t) ==
    /\ AtGate(t) /\ Persisting(t)
    /\ Refers(state, turn[t].snapshot)
    /\ state' = [state EXCEPT !.memory = turn[t].snapshot]
    /\ Flush(t, TRUE)
    /\ UNCHANGED <<cleared, faults, crashes, resets>>

AfterPersistFailureReflects(t) ==    \* mutant: a committed turn reads as failed
    Reflect(t, [turn[t] EXCEPT !.result = None], Tail(queue))

\* A turn that committed nothing fails and is reflected on; after a mutation,
\* or within the reflection, a failure is only reported.
AfterPersistFailure(t) ==
    IF At(t, "reading") THEN Reflect(t, turn[t], Tail(queue)) ELSE Flush(t, FALSE)

PersistFails(t) ==
    /\ AtGate(t) /\ Persisting(t)
    /\ \/ ~Refers(state, turn[t].snapshot) /\ NoFault
       \/ Fault
    /\ AfterPersistFailure(t)
    /\ UNCHANGED <<state, cleared, crashes, resets>>

\* The outbox flush ends (AuditOutbox), well or not, and handle returns.
Answer(t) ==
    /\ At(t, "flushing")
    /\ turn' = [turn EXCEPT ![t].at = "answered"]
    /\ UNCHANGED <<state, memory, queue, stamps, cleared, faults, crashes, resets>>

CancelKeepsPlace(t) ==    \* mutant: its place in the queue is not given up
    /\ turn[t].at \notin {"new", "answered", "gone"}
    /\ turn' = [turn EXCEPT ![t].at = "gone"]
    /\ UNCHANGED <<state, memory, queue, stamps, cleared, faults, crashes, resets>>

\* Cancelled at a wait; during a commit it takes effect at the next one.
Cancel(t) ==
    /\ turn[t].at \notin {"new", "answered", "gone"}
    /\ turn' = [turn EXCEPT ![t].at = "gone"]
    /\ queue' = RemoveFirst(queue, t)
    /\ UNCHANGED <<state, memory, stamps, cleared, faults, crashes, resets>>

-----------------------------------------------------------------------------
(* reset_state and restarts.                                               *)

\* Nothing is pending after the flush; the gate is asked for.
AskReset ==
    /\ resets < MaxResets /\ Resetter \notin Range(queue)
    /\ queue' = Join(queue, Resetter)
    /\ UNCHANGED <<state, memory, turn, stamps, cleared, faults, crashes, resets>>

ResetKeepsMemory ==    \* mutant: MemoryService.reset is not called
    /\ AtGate(Resetter)
    /\ resets' = resets + 1
    /\ stamps' = stamps + 1 /\ cleared' = stamps'
    /\ state' = [EmptyState EXCEPT !.memory.stamp = stamps']
    /\ queue' = Tail(queue)
    /\ UNCHANGED <<memory, turn, faults, crashes>>

\* An empty aggregate is committed and the memory replaced by an empty one.
Reset ==
    /\ AtGate(Resetter)
    /\ resets' = resets + 1
    /\ stamps' = stamps + 1 /\ cleared' = stamps'
    /\ memory' = [NoMemory EXCEPT !.stamp = stamps']
    /\ state' = [EmptyState EXCEPT !.memory = memory']
    /\ queue' = Tail(queue)
    /\ UNCHANGED <<turn, faults, crashes>>

ResetFails ==
    /\ AtGate(Resetter) /\ Fault
    /\ queue' = Tail(queue)
    /\ UNCHANGED <<state, memory, turn, stamps, cleared, crashes, resets>>

\* The process dies; build_application starts from the persisted memory.
Crash ==
    /\ crashes < MaxCrashes
    /\ crashes' = crashes + 1
    /\ memory' = state.memory
    /\ queue' = <<>>
    /\ turn' = [t \in Turn |-> IF turn[t].at \in {"new", "answered"} THEN turn[t]
                               ELSE [turn[t] EXCEPT !.at = "gone"]]
    /\ UNCHANGED <<state, stamps, cleared, faults, resets>>

\* What a turn does without waiting for its caller.
Proceed(t) ==
    \/ Locked(t)
    \/ Mutate(t) \/ Replay(t) \/ MutationFails(t)
    \/ Annotate(t) \/ AnnotationFails(t)
    \/ PersistMemory(t) \/ PersistFails(t)
    \/ Answer(t)

\* Every turn has ended and nobody waits: the instance is over.
Over ==
    /\ queue = <<>> /\ \A t \in Turn : turn[t].at \in {"answered", "gone"}
    /\ UNCHANGED vars

Next ==
    \/ \E t \in Turn :
          \/ HandleRead(t) \/ HandleFails(t)
          \/ \E k \in Key, kind \in {"create", "pay"} : HandleMutation(t, k, kind)
          \/ Proceed(t) \/ Cancel(t)
    \/ AskReset \/ Reset \/ ResetFails
    \/ Crash \/ Over

Spec == Init /\ [][Next]_vars

\* Every task that is ready runs, and every commit ends.
Fairness == WF_vars(Reset \/ ResetFails) /\ \A t \in Turn : WF_vars(Proceed(t))

FairSpec == Spec /\ Fairness

-----------------------------------------------------------------------------
Memories == [stamp : 0..stamps, last : Turn \cup {None}]

Aggregates == [made : SUBSET Turn, assessed : SUBSET Turn, memory : Memories,
               records : UNION {[ks -> Turn] : ks \in SUBSET Key}]

Locals == [at : {"new", "locking", "mutating", "assessing", "annotating", "reading",
                 "finishing", "reflecting", "flushing", "answered", "gone"},
           kind : {"none", "read", "create", "pay"}, key : Key \cup {"none"},
           result : Turn \cup {None}, assessed : BOOLEAN, snapshot : Memories,
           persisted : BOOLEAN]

\* Every variable has its shape, and the queue holds each of those that wait
\* for the gate exactly once.
TypeOK ==
    /\ stamps \in Nat /\ cleared \in 0..stamps
    /\ state \in Aggregates /\ memory \in Memories
    /\ state.assessed \subseteq state.made /\ Range(state.records) = state.made
    /\ turn \in [Turn -> Locals]
    /\ queue \in Seq(Turn \cup {Resetter})
    /\ Len(queue) = Cardinality(Range(queue))
    /\ \A t \in Turn :
          t \in Range(queue) <=> (turn[t].at \in {"mutating", "annotating"} \/ Persisting(t))
    /\ faults \in 0..MaxFaults /\ crashes \in 0..MaxCrashes /\ resets \in 0..MaxResets

\* The memory of the process names nothing the published state does not have,
\* through commits it overtakes, resets and restarts: persisting it now would
\* not be refused by validate_invariants.
MemoryRefersToState == Refers(state, memory) /\ Refers(state, state.memory)

\* A turn that answered says that its operation committed if and only if it
\* did, and that its memory was persisted only if that memory, or a later one,
\* is in the state file: a committed operation is never hidden by a later
\* failure, nor reported as a failure (docs/agent_flows.md:94-98).
AnswersAreHonest ==
    \A t \in Turn :
        At(t, "answered") /\ resets = 0 =>
            /\ t \in state.made => turn[t].result = t
            /\ turn[t].result # None => turn[t].result \in state.made
            /\ turn[t].assessed => turn[t].result \in state.assessed
            /\ turn[t].persisted => state.memory.stamp >= turn[t].snapshot.stamp

\* The persisted memory never goes back, although each turn takes its snapshot
\* before it waits for the gate: snapshots are written in the order they were
\* taken.  The one exception is a snapshot from before a reset (ResetForgets).
PersistedMemoryAdvances ==
    [][state'.memory # state.memory => \/ state'.memory.stamp > state.memory.stamp
                                       \/ state'.memory.stamp < cleared]_vars

\* What a reset cleared does not come back: the persisted memory is the empty
\* one it left, or one remembered since (bootstrap.py:77, "Atomically clear
\* business state").
ResetForgets == state.memory.stamp >= cleared

\* Every turn that was not cancelled or killed answers.
TurnsEnd == \A t \in Turn : ~At(t, "new") ~> At(t, "answered") \/ At(t, "gone")
=============================================================================
