----------------------------- MODULE AuditOutbox -----------------------------
(***************************************************************************)
(* AuditOutboxDispatcher between the pending events of the aggregate and   *)
(* the JSONL log of JsonLinesAuditRepository: concurrent flushes, payments *)
(* that commit meanwhile, failing writes, cancellation and crashes, and    *)
(* ApplicationContainer.reset_state, which flushes before it clears.       *)
(*                                                                         *)
(* A commit is atomic (PaymentService): here it is the step that publishes *)
(* it, by the holder of the transaction gate.                              *)
(***************************************************************************)
EXTENDS Integers, SequencesExt

CONSTANTS
    Event,        \* audit events, in the order (occurred_at, event_id)
    Flusher,      \* calls of flush_pending in flight
    Resetter,     \* those made by reset_state
    Nobody, Payment,
    Torn, Bad,    \* a line cut short at the end of the log; a malformed line
    TornAppends,  \* may a failed append leave the line cut short?
    MaxFaults, MaxCrashes    \* bounds on failing writes and crashes

ASSUME OutboxAssumption ==
    /\ Event \subseteq Int /\ {Torn, Bad} \cap Event = {} /\ Torn # Bad
    /\ Resetter \subseteq Flusher /\ {Nobody, Payment} \cap Flusher = {} /\ Nobody # Payment
    /\ TornAppends \in BOOLEAN /\ {MaxFaults, MaxCrashes} \subseteq Nat

VARIABLES
    pending,    \* pending_audit_events of the aggregate
    gate,       \* who holds the transaction gate
    log,        \* the lines of the JSONL file
    ready,      \* the index of the log was built by this process
    index,      \* _events_by_id: the events the index holds
    pc,         \* where each flush is
    snapshot,   \* the events a flush found pending
    todo,       \* those it has not come to yet
    failed,     \* those it reports as failures
    committed,  \* history: every event ever committed
    faults, crashes

vars == <<pending, gate, log, ready, index, pc, snapshot, todo, failed, committed,
          faults, crashes>>

Init ==
    /\ pending = {} /\ gate = Nobody /\ log = <<>>
    /\ ready = FALSE /\ index = {}
    /\ pc = [f \in Flusher |-> "idle"]
    /\ snapshot = [f \in Flusher |-> {}]
    /\ todo = [f \in Flusher |-> {}]
    /\ failed = [f \in Flusher |-> {}]
    /\ committed = {} /\ faults = 0 /\ crashes = 0

-----------------------------------------------------------------------------
(* The JSONL file.                                                         *)

EndsTorn(l) == l # <<>> /\ Last(l) = Torn

\* A complete line is written; what it follows on the same line spoils both.
WithLine(l, e) == IF EndsTorn(l) THEN Append(Front(l), Bad) ELSE Append(l, e)

\* The write stops within the line.
WithTornLine(l) == IF EndsTorn(l) THEN l ELSE Append(l, Torn)

\* The events that reading the file finds, and whether it can be read at all.
Complete(l) == {l[i] : i \in DOMAIN l} \cap Event
Readable(l) == {l[i] : i \in DOMAIN l} \subseteq Event

\* What a failed append of e may have done: nothing, the whole line when only
\* fsync failed, or a part of it.
AfterFailure(l, e) == {l, WithLine(l, e)} \cup (IF TornAppends THEN {WithTornLine(l)} ELSE {})

-----------------------------------------------------------------------------
(* Payments.                                                               *)

PaymentBegins ==
    /\ gate = Nobody
    /\ gate' = Payment
    /\ UNCHANGED <<pending, log, ready, index, pc, snapshot, todo, failed, committed,
                   faults, crashes>>

\* The mutation and its event are published, or neither.
PaymentEnds ==
    /\ gate = Payment
    /\ gate' = Nobody
    /\ \/ \E e \in Event \ committed : /\ pending' = pending \cup {e}
                                       /\ committed' = committed \cup {e}
       \/ UNCHANGED <<pending, committed>>
    /\ UNCHANGED <<log, ready, index, pc, snapshot, todo, failed, faults, crashes>>

\* A query of the log builds the index, without the flush lock.
Initialize ==
    /\ ~ready /\ Readable(log)
    /\ ready' = TRUE /\ index' = Complete(log)
    /\ UNCHANGED <<pending, gate, log, pc, snapshot, todo, failed, committed, faults, crashes>>

-----------------------------------------------------------------------------
(* flush_pending.                                                          *)

InFlush(f) == pc[f] \in {"appending", "removing", "saving"}
Current(f) == Min(todo[f])

\* What follows once the events in rest are left: the next one is confirmed at
\* once when the index has it, and appended when not; after the last one the
\* flush returns, and reset_state goes on if no event is pending.
Continue(f, rest, idx, pend) ==
    /\ todo' = [todo EXCEPT ![f] = rest]
    /\ pc' = [pc EXCEPT ![f] =
                CASE rest # {} /\ Min(rest) \in idx -> "removing"
                  [] rest # {} /\ Min(rest) \notin idx -> "appending"
                  [] rest = {} /\ f \in Resetter /\ pend = {} -> "clearing"
                  [] OTHER -> "idle"]

\* flush_pending is called and waits for the flush lock.
Flush(f) ==
    /\ pc[f] = "idle"
    /\ pc' = [pc EXCEPT ![f] = "queued"]
    /\ UNCHANGED <<pending, gate, log, ready, index, snapshot, todo, failed, committed,
                   faults, crashes>>

LockNotTaken == TRUE    \* mutant: flushes overlap
LockFree == \A f \in Flusher : ~InFlush(f)

\* The flush lock is acquired, the index built if need be, and the pending
\* events taken from current_state.
Snapshot(f) ==
    /\ pc[f] = "queued" /\ LockFree
    /\ ready \/ Readable(log)
    /\ ready' = TRUE
    /\ index' = IF ready THEN index ELSE Complete(log)
    /\ snapshot' = [snapshot EXCEPT ![f] = pending]
    /\ failed' = [failed EXCEPT ![f] = {}]
    /\ Continue(f, pending, index', pending)
    /\ UNCHANGED <<pending, gate, log, committed, faults, crashes>>

\* The index cannot be built: the log is corrupt or unreadable, the flush raises.
SnapshotFails(f) ==
    /\ pc[f] = "queued" /\ LockFree /\ ~ready
    /\ \/ ~Readable(log) /\ UNCHANGED faults
       \/ faults < MaxFaults /\ faults' = faults + 1
    /\ pc' = [pc EXCEPT ![f] = "idle"]
    /\ UNCHANGED <<pending, gate, log, ready, index, snapshot, todo, failed, committed,
                   crashes>>

\* The thread has written, flushed and synced the line; contains_event_id
\* confirms it.
AppendOk(f) ==
    /\ pc[f] = "appending"
    /\ log' = WithLine(log, Current(f))
    /\ index' = index \cup {Current(f)}
    /\ pc' = [pc EXCEPT ![f] = "removing"]
    /\ UNCHANGED <<pending, gate, ready, snapshot, todo, failed, committed, faults, crashes>>

AppendFailsIndexed(f) ==    \* mutant: indexed although the append failed
    /\ pc[f] = "appending" /\ faults < MaxFaults
    /\ faults' = faults + 1
    /\ log' \in AfterFailure(log, Current(f))
    /\ index' = index \cup {Current(f)}
    /\ failed' = [failed EXCEPT ![f] = @ \cup {Current(f)}]
    /\ Continue(f, todo[f] \ {Current(f)}, index, pending)
    /\ UNCHANGED <<pending, gate, ready, snapshot, committed, crashes>>

\* The thread raises: the event is reported and the flush goes on.
AppendFails(f) ==
    /\ pc[f] = "appending" /\ faults < MaxFaults
    /\ faults' = faults + 1
    /\ log' \in AfterFailure(log, Current(f))
    /\ failed' = [failed EXCEPT ![f] = @ \cup {Current(f)}]
    /\ Continue(f, todo[f] \ {Current(f)}, index, pending)
    /\ UNCHANGED <<pending, gate, ready, index, snapshot, committed, crashes>>

\* _remove_pending gets the gate; an event that is gone needs no commit.
RemovalBegins(f) ==
    /\ pc[f] = "removing" /\ gate = Nobody
    /\ IF Current(f) \in pending
       THEN /\ gate' = f
            /\ pc' = [pc EXCEPT ![f] = "saving"]
            /\ UNCHANGED todo
       ELSE /\ Continue(f, todo[f] \ {Current(f)}, index, pending)
            /\ UNCHANGED gate
    /\ UNCHANGED <<pending, log, ready, index, snapshot, failed, committed, faults, crashes>>

RemovalEnds(f) ==
    /\ pc[f] = "saving"
    /\ gate' = Nobody
    /\ pending' = pending \ {Current(f)}
    /\ Continue(f, todo[f] \ {Current(f)}, index, pending')
    /\ UNCHANGED <<log, ready, index, snapshot, failed, committed, faults, crashes>>

RemovalFailsLocked(f) ==    \* mutant: the gate is not released
    /\ pc[f] = "saving" /\ faults < MaxFaults
    /\ faults' = faults + 1
    /\ failed' = [failed EXCEPT ![f] = @ \cup {Current(f)}]
    /\ Continue(f, todo[f] \ {Current(f)}, index, pending)
    /\ UNCHANGED <<pending, gate, log, ready, index, snapshot, committed, crashes>>

RemovalFailsSilently(f) ==    \* mutant: the failure is not reported
    /\ pc[f] = "saving" /\ faults < MaxFaults
    /\ faults' = faults + 1
    /\ gate' = Nobody
    /\ Continue(f, todo[f] \ {Current(f)}, index, pending)
    /\ UNCHANGED <<pending, log, ready, index, snapshot, failed, committed, crashes>>

\* The state file could not be written: the event stays pending.
RemovalFails(f) ==
    /\ pc[f] = "saving" /\ faults < MaxFaults
    /\ faults' = faults + 1
    /\ gate' = Nobody
    /\ failed' = [failed EXCEPT ![f] = @ \cup {Current(f)}]
    /\ Continue(f, todo[f] \ {Current(f)}, index, pending)
    /\ UNCHANGED <<pending, log, ready, index, snapshot, committed, crashes>>

\* Cancelled while it waits for the flush lock or for the gate: CancelledError
\* leaves the flush, or the reset.  A cancellation that arrives while a thread
\* writes is remembered and requested again, so it too takes effect at the
\* next such wait, or not at all.
CancelWaiting(f) ==
    /\ pc[f] \in {"queued", "removing", "clearing"}
    /\ pc' = [pc EXCEPT ![f] = "idle"]
    /\ todo' = [todo EXCEPT ![f] = {}]
    /\ snapshot' = [snapshot EXCEPT ![f] = {}]
    /\ UNCHANGED <<pending, gate, log, ready, index, failed, committed, faults, crashes>>

-----------------------------------------------------------------------------
(* reset_state, after a flush that left nothing pending.                   *)

ResetBegins(f) ==
    /\ pc[f] = "clearing" /\ gate = Nobody
    /\ gate' = f
    /\ pc' = [pc EXCEPT ![f] = "wiping"]
    /\ UNCHANGED <<pending, log, ready, index, snapshot, todo, failed, committed, faults, crashes>>

\* An empty aggregate is committed, or the old one stays.
ResetEnds(f) ==
    /\ pc[f] = "wiping"
    /\ gate' = Nobody
    /\ pending' \in {{}, pending}
    /\ pc' = [pc EXCEPT ![f] = "idle"]
    /\ UNCHANGED <<log, ready, index, snapshot, todo, failed, committed, faults, crashes>>

-----------------------------------------------------------------------------
\* The process dies, perhaps within an append, and starts again.
Crash ==
    /\ crashes < MaxCrashes
    /\ crashes' = crashes + 1
    /\ \/ UNCHANGED log
       \/ /\ TornAppends /\ \E f \in Flusher : pc[f] = "appending"
          /\ log' = WithTornLine(log)
    /\ gate' = Nobody /\ ready' = FALSE /\ index' = {}
    /\ pc' = [f \in Flusher |-> "idle"]
    /\ snapshot' = [f \in Flusher |-> {}]
    /\ todo' = [f \in Flusher |-> {}]
    /\ failed' = [f \in Flusher |-> {}]
    /\ UNCHANGED <<pending, committed, faults>>

Proceed(f) ==
    \/ Snapshot(f) \/ SnapshotFails(f)
    \/ RemovalBegins(f) \/ ResetBegins(f)

Thread(f) ==
    \/ AppendOk(f) \/ AppendFails(f)
    \/ RemovalEnds(f) \/ RemovalFails(f) \/ ResetEnds(f)

Next ==
    \/ PaymentBegins \/ PaymentEnds \/ Initialize
    \/ \E f \in Flusher : Flush(f) \/ Proceed(f) \/ Thread(f) \/ CancelWaiting(f)
    \/ Crash

Spec == Init /\ [][Next]_vars

\* The thread's work and a payment's commit end; the flush lock and the gate
\* are asyncio.Locks, first come first served.
Fairness == /\ WF_vars(PaymentEnds)
            /\ \A f \in Flusher : SF_vars(Proceed(f)) /\ WF_vars(Thread(f))

FairSpec == Spec /\ Fairness

-----------------------------------------------------------------------------
TypeOK ==
    /\ pending \subseteq Event /\ committed \subseteq Event /\ index \subseteq Event
    /\ gate \in {Nobody, Payment} \cup Flusher
    /\ log \in Seq(Event \cup {Torn, Bad})
    /\ ready \in BOOLEAN
    /\ pc \in [Flusher -> {"idle", "queued", "appending", "removing", "saving",
                           "clearing", "wiping"}]
    /\ {snapshot, todo, failed} \subseteq [Flusher -> SUBSET Event]
    /\ \A f \in Flusher : /\ InFlush(f) => todo[f] # {}
                          /\ gate = f <=> pc[f] \in {"saving", "wiping"}
    /\ faults \in 0..MaxFaults /\ crashes \in 0..MaxCrashes

\* No committed event is lost: it awaits delivery or can be read from the log
\* (docs/persistence_and_audit.md:53 and :81).
NoEventLost == committed \subseteq pending \cup Complete(log)

\* What contains_event_id confirms can be read back from the log, after a
\* restart too (docs/persistence_and_audit.md:31: one complete JSON object and
\* newline per event).
IndexMatchesLog == index \subseteq Complete(log)

\* A line is written twice only after an append that reported a failure: no
\* crash and no pair of flushes repeats one.
RepeatsNeedFaults == Len(log) - Cardinality(Complete(log)) <= faults

\* Every event a flush has been through was delivered and removed, or is
\* reported as a failure: a failing event hides none of the others.
FlushIsHonest ==
    \A f \in Flusher :
        pc[f] # "queued" =>
            \A e \in snapshot[f] \ (todo[f] \cup failed[f]) :
                e \in Complete(log) /\ e \notin pending

\* Without resets, the outbox delivers: commit, deliver, forget.
Delivery == INSTANCE AuditDelivery WITH outbox <- pending, delivered <- Complete(log)
ImplementsAuditDelivery == Delivery!Spec

\* A flush and a reset end, whatever fails and whoever commits meanwhile.
FlushEnds == \A f \in Flusher : pc[f] # "idle" ~> pc[f] = "idle"
=============================================================================
