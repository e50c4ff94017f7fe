---------------------------- MODULE ResourceLocks ----------------------------
(***************************************************************************)
(* AsyncResourceLockManager: a table of reference counted lock entries,    *)
(* created on demand and evicted when idle, over asyncio.Lock.             *)
(*                                                                         *)
(* A step is what a task of the event loop runs until it next suspends.    *)
(* Only the wait for an entry's lock suspends: nothing is awaited while    *)
(* the registry lock is held, so it is never contended and the changes to  *)
(* the table under it are part of the step that makes them.  Resources are *)
(* integers: LockKey is totally ordered, first by scope.                   *)
(***************************************************************************)
EXTENDS Integers, SequencesExt

CONSTANTS Caller,    \* tasks that call acquire_many
          Resource,  \* lock keys
          Wanted,    \* the sets of them that calls ask for
          Entry      \* identities of lock entry objects

ASSUME LocksAssumption ==
    Resource \subseteq Int /\ \A ks \in Wanted : ks \subseteq Resource /\ IsFiniteSet(ks)

VARIABLES
    table,    \* _locks: resource -> entry, for the resources in use
    refs,     \* references of each entry
    locked,   \* asyncio.Lock._locked of each entry
    waiters,  \* asyncio.Lock._waiters of each entry: the callers, in order
    want,     \* the resources a caller asked for, {} when it is not in a call
    mine,     \* the entries it reserved for them
    got,      \* the resources whose lock it has acquired
    future,   \* what it waits on: nothing, or a future and its state
    interrupted  \* callers whose task was cancelled and has not run since

vars == <<table, refs, locked, waiters, want, mine, got, future, interrupted>>

Init ==
    /\ table = [k \in {} |-> k]
    /\ refs = [e \in Entry |-> 0]
    /\ locked = [e \in Entry |-> FALSE]
    /\ waiters = [e \in Entry |-> <<>>]
    /\ want = [t \in Caller |-> {}]
    /\ mine = [t \in Caller |-> [k \in {} |-> k]]
    /\ got = [t \in Caller |-> {}]
    /\ future = [t \in Caller |-> "none"]
    /\ interrupted = {}

Inside(t) == want[t] # {} /\ got[t] = want[t]
Waiting(t) == future[t] # "none"

\* The resource a waiting caller waits for: the least it has not acquired.
Awaited(t) == Min(want[t] \ got[t])

\* Entry objects nobody can reach.
Unused == {e \in Entry : (\A k \in DOMAIN table : table[k] # e)
                         /\ \A t \in Caller : \A k \in want[t] : mine[t][k] # e}

\* New entries for the resources ks, one each, and a choice of them: which ones
\* does not matter to anything.
Creations(ks) == Injection(ks, Unused)
Fresh(ks) == CHOOSE f \in Creations(ks) : TRUE

-----------------------------------------------------------------------------
(* asyncio.Lock.                                                           *)

\* acquire() returns without suspending.
IsFree(e, lk, wq, fut) == ~lk[e] /\ \A i \in DOMAIN wq[e] : fut[wq[e][i]] = "cancelled"

WakeNobody(e, wq, fut) == fut    \* mutant: the wake-up is lost

\* _wake_up_first: the first future is set, unless it is already done.
WakeFirst(e, wq, fut) ==
    IF wq[e] # <<>> /\ fut[Head(wq[e])] = "pending"
    THEN [fut EXCEPT ![Head(wq[e])] = "woken"]
    ELSE fut

\* release() of several locks, whose entries differ and so do their waiters.
WakeAllFirst(es, wq, fut) ==
    [t \in Caller |-> IF \E e \in es : wq[e] # <<>> /\ Head(wq[e]) = t /\ fut[t] = "pending"
                      THEN "woken" ELSE fut[t]]

-----------------------------------------------------------------------------
\* From the resources in have on, the caller acquires in ascending order the
\* locks that are free, up to the first one that is not, whose waiters it joins.
Advance(t, ks, ents, have, wq, fut) ==
    LET busy == {k \in ks \ have : ~IsFree(ents[k], locked, wq, fut)}
        upTo == IF busy = {} THEN ks ELSE {k \in ks : k < Min(busy)} \cup have
    IN  /\ got' = [got EXCEPT ![t] = upTo]
        /\ locked' = [e \in Entry |-> locked[e] \/ \E k \in upTo : ents[k] = e]
        /\ waiters' = IF busy = {} THEN wq
                      ELSE [wq EXCEPT ![ents[Min(busy)]] = Append(@, t)]
        /\ future' = [fut EXCEPT ![t] = IF busy = {} THEN "none" ELSE "pending"]

CountedOnce(e, ks, ents) ==    \* mutant: only the creator of an entry counts
    \E k \in ks \ DOMAIN table : ents[k] = e

\* The entries _reserve_entries takes a reference to.
Counted(e, ks, ents) == \E k \in ks : ents[k] = e

\* acquire_many is entered: _reserve_entries, and the locks that are free.
Call(t, ks) ==
    /\ want[t] = {} /\ ks # {}
    /\ LET created == ks \ DOMAIN table
           new == Fresh(created)
       IN  /\ Creations(created) # {}
           /\ LET ents == [k \in ks |-> IF k \in DOMAIN table THEN table[k] ELSE new[k]]
              IN  /\ table' = [k \in DOMAIN table \cup ks |->
                                 IF k \in ks THEN ents[k] ELSE table[k]]
                  /\ refs' = [e \in Entry |-> IF Counted(e, ks, ents) THEN refs[e] + 1
                                              ELSE refs[e]]
                  /\ mine' = [mine EXCEPT ![t] = ents]
                  /\ want' = [want EXCEPT ![t] = ks]
                  /\ Advance(t, ks, ents, {}, waiters, future)
    /\ UNCHANGED interrupted

\* The future of the caller was set, its task runs: the lock is its own.
Resume(t) ==
    /\ future[t] = "woken" /\ t \notin interrupted
    /\ LET e == mine[t][Awaited(t)]
       IN  Advance(t, want[t], mine[t], got[t] \cup {Awaited(t)},
                   [waiters EXCEPT ![e] = RemoveFirst(@, t)], [future EXCEPT ![t] = "none"])
    /\ UNCHANGED <<table, refs, want, mine, interrupted>>

EvictableUnlocked(references, isLocked) == ~isLocked    \* mutant: references ignored
EvictableNever(references, isLocked) == FALSE           \* mutant: entries pile up

\* _release_references drops an entry from the table.
Evictable(references, isLocked) == references = 0 /\ ~isLocked

\* The finally clause: acquired locks are released, references dropped, and
\* the entries left without any are evicted.
Cleanup(t, wq, fut) ==
    LET held == {mine[t][k] : k \in got[t]}
        left == [e \in Entry |-> IF \E k \in want[t] : mine[t][k] = e
                                 THEN refs[e] - 1 ELSE refs[e]]
        lk == [e \in Entry |-> locked[e] /\ e \notin held]
        evict == {k \in want[t] : Evictable(left[mine[t][k]], lk[mine[t][k]])}
    IN  /\ locked' = lk
        /\ refs' = left
        /\ table' = [k \in DOMAIN table \ evict |-> table[k]]
        /\ waiters' = wq
        /\ future' = WakeAllFirst(held, wq, fut)
        /\ want' = [want EXCEPT ![t] = {}]
        /\ mine' = [mine EXCEPT ![t] = [k \in {} |-> k]]
        /\ got' = [got EXCEPT ![t] = {}]
        /\ interrupted' = interrupted \ {t}

\* The body ends, or is left by an exception.
Exit(t) == Inside(t) /\ Cleanup(t, waiters, future)

\* The task is cancelled while it waits: a pending future is cancelled with it,
\* one that was set stays set.
Cancel(t) ==
    /\ Waiting(t) /\ t \notin interrupted
    /\ interrupted' = interrupted \cup {t}
    /\ future' = [future EXCEPT ![t] = IF @ = "pending" THEN "cancelled" ELSE @]
    /\ UNCHANGED <<table, refs, locked, waiters, want, mine, got>>

\* The cancelled task runs: it leaves the waiters, passes on the wake-up it may
\* have consumed, and unwinds through the finally clause.
Unwind(t) ==
    /\ t \in interrupted
    /\ LET e  == mine[t][Awaited(t)]
           wq == [waiters EXCEPT ![e] = RemoveFirst(@, t)]
           fut == [future EXCEPT ![t] = "none"]
       IN  Cleanup(t, wq, IF locked[e] THEN fut ELSE WakeFirst(e, wq, fut))

Next == \E t \in Caller :
           \/ \E ks \in Wanted : Call(t, ks)
           \/ Resume(t) \/ Exit(t) \/ Cancel(t) \/ Unwind(t)

Spec == Init /\ [][Next]_vars

\* The event loop runs every task that is ready, and a body ends.
Fairness == \A t \in Caller : WF_vars(Resume(t)) /\ WF_vars(Exit(t)) /\ WF_vars(Unwind(t))

FairSpec == Spec /\ Fairness

-----------------------------------------------------------------------------
TypeOK ==
    /\ DOMAIN table \subseteq Resource /\ \A k \in DOMAIN table : table[k] \in Entry
    /\ refs \in [Entry -> Nat]
    /\ locked \in [Entry -> BOOLEAN]
    /\ waiters \in [Entry -> Seq(Caller)]
    /\ want \in [Caller -> SUBSET Resource] /\ got \in [Caller -> SUBSET Resource]
    /\ DOMAIN mine = Caller
    /\ \A t \in Caller : mine[t] \in [want[t] -> Entry] /\ got[t] \subseteq want[t]
    /\ future \in [Caller -> {"none", "pending", "woken", "cancelled"}]
    /\ interrupted \subseteq Caller

\* The table has exactly the resources somebody uses, each caller uses the
\* entry that is in the table, and the entry counts its callers: no entry is
\* evicted under a caller, none outlives its last one.
TableExact ==
    /\ DOMAIN table = UNION {want[t] : t \in Caller}
    /\ \A t \in Caller : \A k \in want[t] : mine[t][k] = table[k]
    /\ \A k \in DOMAIN table :
          refs[table[k]] = Cardinality({t \in Caller : k \in want[t]})

\* All the resources or none, each for one caller at a time.
Locks == INSTANCE LockTable WITH Key <- Resource, inside <- {t \in Caller : Inside(t)}
ImplementsLockTable == Locks!Spec

\* Nobody waits for ever: ascending order leaves no cycle to wait in, an
\* evicted entry no waiter behind, and a cancelled waiter takes no wake-up
\* with him.
EverybodyGetsIn == \A t \in Caller : Waiting(t) ~> ~Waiting(t)
=============================================================================
