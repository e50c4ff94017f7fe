-------------------------- MODULE AgentTurns_proof --------------------------
(***************************************************************************)
(* For every number of turns, keys, crashes, failures and resets: what an  *)
(* answer says is so, the memory names nothing that is not there, and      *)
(* snapshots of the memory are written in the order they were taken.       *)
(***************************************************************************)
EXTENDS AgentTurns, FiniteSetTheorems, SequenceTheorems, TLAPS

-----------------------------------------------------------------------------
(* Lines: sequences without repetitions, and who comes before whom in them. *)

InLine(x, s) == \E i \in DOMAIN s : s[i] = x
Distinct(s) == \A i, j \in DOMAIN s : s[i] = s[j] => i = j
Before(x, y, s) == \E i, j \in DOMAIN s : i < j /\ s[i] = x /\ s[j] = y

\* r is what is left of the line s when x has left it.
Left(r, s, x) ==
    /\ Distinct(r)
    /\ \A y : InLine(y, r) <=> y # x /\ InLine(y, s)
    /\ \A y, z : Before(y, z, r) => Before(y, z, s)

\* r is the line s when x has joined it.
Joined(r, s, x) ==
    /\ Distinct(r)
    /\ \A y : InLine(y, r) <=> y = x \/ InLine(y, s)
    /\ \A y, z : Before(y, z, r) => y # x /\ InLine(y, s) /\ (z = x \/ Before(y, z, s))

\* A least element of a set of integers is what Min chooses.
LEMMA LeastIsMin ==
    ASSUME NEW S, S \subseteq Int, NEW m \in S, \A y \in S : m <= y
    PROVE  Min(S) = m
<1> DEFINE n == CHOOSE x \in S : \A y \in S : x <= y
<1>1. n \in S /\ \A y \in S : n <= y  OBVIOUS
<1> HIDE DEF n
<1>2. n <= m /\ m <= n /\ n \in Int /\ m \in Int  BY <1>1
<1>3. n = m  BY <1>2
<1> QED  BY <1>3 DEF Min, n

\* The first occurrence is removed: there is no other.
LEMMA RemoveOne ==
    ASSUME NEW S, NEW s \in Seq(S), Distinct(s), NEW i \in DOMAIN s
    PROVE  /\ RemoveFirst(s, s[i]) \in Seq(S)
           /\ Len(RemoveFirst(s, s[i])) = Len(s) - 1
           /\ \A j \in 1 .. Len(s) - 1 :
                 RemoveFirst(s, s[i])[j] = IF j < i THEN s[j] ELSE s[j + 1]
<1> DEFINE I == {j \in 1 .. Len(s) : s[j] = s[i]}
           n == Len(s)
           a == SubSeq(s, 1, i - 1)
           b == SubSeq(s, i + 1, n)
<1>1. n \in Nat /\ DOMAIN s = 1 .. n /\ i \in 1 .. n /\ \A j \in 1 .. n : s[j] \in S  OBVIOUS
<1>2. I = {i}  BY <1>1 DEF Distinct
<1>3. Min(I) = i
  <2>1. i \in I /\ I \subseteq Int /\ \A y \in I : i <= y  BY <1>1, <1>2
  <2> HIDE DEF I
  <2> QED  BY <2>1, LeastIsMin
<1>4. RemoveFirst(s, s[i]) = a \o b
  <2>1. RemoveFirst(s, s[i]) = RemoveAt(s, Min(I))
    BY <1>1 DEF RemoveFirst, SelectInSeq
  <2> QED  BY <1>3, <2>1 DEF RemoveAt
<1>5. a \in Seq(S) /\ Len(a) = i - 1 /\ \A j \in 1 .. i - 1 : a[j] = s[j]
  <2> DEFINE m == i - 1
  <2>1. 1 \in Int /\ m \in Int /\ m >= 0 /\ \A j \in 1 .. m : s[j] \in S  BY <1>1
  <2> HIDE DEF m
  <2>2. /\ SubSeq(s, 1, m) \in Seq(S)
        /\ Len(SubSeq(s, 1, m)) = IF 1 <= m THEN m - 1 + 1 ELSE 0
        /\ \A j \in 1 .. m - 1 + 1 : SubSeq(s, 1, m)[j] = s[1 + j - 1]
    BY <2>1, SubSeqProperties
  <2>3. m - 1 + 1 = m /\ \A j \in 1 .. m : 1 + j - 1 = j  BY <2>1
  <2>4. /\ SubSeq(s, 1, m) \in Seq(S) /\ Len(SubSeq(s, 1, m)) = m
        /\ \A j \in 1 .. m : SubSeq(s, 1, m)[j] = s[j]
    BY <2>1, <2>2, <2>3
  <2> QED  BY <2>4 DEF m
<1>6. b \in Seq(S) /\ Len(b) = n - i /\ \A j \in 1 .. n - i : b[j] = s[j + i]
  <2> DEFINE m == i + 1
  <2>1. m \in Int /\ n \in Int /\ m - 1 <= n /\ \A j \in m .. n : s[j] \in S  BY <1>1
  <2>2. i = m - 1  BY <1>1
  <2> HIDE DEF m, n
  <2>3. /\ SubSeq(s, m, n) \in Seq(S)
        /\ Len(SubSeq(s, m, n)) = IF m <= n THEN n - m + 1 ELSE 0
        /\ \A j \in 1 .. n - m + 1 : SubSeq(s, m, n)[j] = s[m + j - 1]
    BY <2>1, SubSeqProperties
  <2>4. n - m + 1 = n - i /\ \A j \in 1 .. n - i : m + j - 1 = j + i  BY <2>1, <2>2
  <2>5. /\ SubSeq(s, m, n) \in Seq(S) /\ Len(SubSeq(s, m, n)) = n - i
        /\ \A j \in 1 .. n - i : SubSeq(s, m, n)[j] = s[j + i]
    BY <2>1, <2>2, <2>3, <2>4
  <2> QED  BY <2>5 DEF m
<1> HIDE DEF a, b, n
<1>7. /\ a \o b \in Seq(S) /\ Len(a \o b) = n - 1
      /\ \A j \in 1 .. n - 1 : (a \o b)[j] = IF j <= i - 1 THEN a[j] ELSE b[j - (i - 1)]
  <2>1. /\ a \o b \in Seq(S) /\ Len(a \o b) = Len(a) + Len(b)
        /\ \A j \in 1 .. Len(a) + Len(b) :
              (a \o b)[j] = IF j <= Len(a) THEN a[j] ELSE b[j - Len(a)]
    BY <1>5, <1>6, ConcatProperties
  <2>2. Len(a) + Len(b) = n - 1 /\ Len(a) = i - 1  BY <1>1, <1>5, <1>6
  <2> QED  BY <2>1, <2>2
<1>8. ASSUME NEW j \in 1 .. n - 1
      PROVE  (a \o b)[j] = IF j < i THEN s[j] ELSE s[j + 1]
  <2>1. CASE j < i  BY <1>1, <1>5, <1>7, <2>1
  <2>2. CASE ~(j < i)
    <3>1. j - (i - 1) \in 1 .. n - i /\ (j - (i - 1)) + i = j + 1  BY <1>1, <2>2
    <3>2. b[j - (i - 1)] = s[j + 1]  BY <1>6, <3>1
    <3> QED  BY <1>1, <1>7, <2>2, <3>2
  <2> QED  BY <2>1, <2>2
<1> QED  BY <1>4, <1>7, <1>8 DEF n

\* A line without its i-th member keeps the others, in their order.
LEMMA LineWithoutOne ==
    ASSUME NEW S, NEW s \in Seq(S), Distinct(s), NEW i \in DOMAIN s,
           NEW r \in Seq(S), Len(r) = Len(s) - 1,
           \A j \in 1 .. Len(s) - 1 : r[j] = IF j < i THEN s[j] ELSE s[j + 1]
    PROVE  Left(r, s, s[i])
<1> DEFINE n == Len(s)
           x == s[i]
           at(j) == IF j < i THEN j ELSE j + 1
<1>1. n \in Nat /\ DOMAIN s = 1 .. n /\ DOMAIN r = 1 .. n - 1 /\ i \in 1 .. n  OBVIOUS
<1>2. \A j \in 1 .. n - 1 : r[j] = s[at(j)]  OBVIOUS
<1> HIDE DEF n
<1>3. \A j \in 1 .. n - 1 : at(j) \in 1 .. n /\ at(j) # i  BY <1>1
<1>4. \A j, k \in 1 .. n - 1 : (at(j) = at(k) => j = k) /\ (j < k => at(j) < at(k))  BY <1>1
<1>5. \A k \in 1 .. n : k # i => \E j \in 1 .. n - 1 : at(j) = k
  <2> SUFFICES ASSUME NEW k \in 1 .. n, k # i PROVE \E j \in 1 .. n - 1 : at(j) = k
    OBVIOUS
  <2>1. CASE k < i
    <3>1. k \in 1 .. n - 1 /\ at(k) = k  BY <1>1, <2>1
    <3> QED  BY <3>1
  <2>2. CASE ~(k < i)
    <3>1. k - 1 \in 1 .. n - 1 /\ at(k - 1) = k  BY <1>1, <2>2
    <3> QED  BY <3>1
  <2> QED  BY <2>1, <2>2
<1> HIDE DEF at
<1>6. \A k \in 1 .. n : s[k] = x => k = i  BY <1>1 DEF Distinct
<1> HIDE DEF x
<1>7. Distinct(r)  BY <1>1, <1>2, <1>3, <1>4 DEF Distinct
<1>8. \A y : InLine(y, r) <=> y # x /\ InLine(y, s)
  <2>1. ASSUME NEW y, InLine(y, r) PROVE y # x /\ InLine(y, s)
    BY <1>1, <1>2, <1>3, <1>6, <2>1 DEF InLine
  <2>2. ASSUME NEW y, y # x, InLine(y, s) PROVE InLine(y, r)
    <3>1. PICK k \in 1 .. n : s[k] = y  BY <1>1, <2>2 DEF InLine
    <3>2. k # i  BY <2>2, <3>1 DEF x
    <3>3. PICK j \in 1 .. n - 1 : at(j) = k  BY <1>5, <3>2
    <3> QED  BY <1>1, <1>2, <3>1, <3>3 DEF InLine
  <2> QED  BY <2>1, <2>2
<1>9. \A y, z : Before(y, z, r) => Before(y, z, s)
  <2> SUFFICES ASSUME NEW y, NEW z, Before(y, z, r) PROVE Before(y, z, s)  OBVIOUS
  <2>1. PICK j, k \in 1 .. n - 1 : j < k /\ r[j] = y /\ r[k] = z  BY <1>1 DEF Before
  <2>2. at(j) \in 1 .. n /\ at(k) \in 1 .. n /\ at(j) < at(k) /\ s[at(j)] = y /\ s[at(k)] = z
    BY <1>2, <1>3, <1>4, <2>1
  <2> QED  BY <1>1, <2>2 DEF Before
<1>10. Left(r, s, x)  BY <1>7, <1>8, <1>9 DEF Left
<1> QED  BY <1>10 DEF x

\* The head of a line leaves it.
LEMMA TailLeft ==
    ASSUME NEW S, NEW s \in Seq(S), Distinct(s), s # <<>>
    PROVE  Tail(s) \in Seq(S) /\ Left(Tail(s), s, Head(s))
<1> DEFINE r == Tail(s)
<1>1. /\ r \in Seq(S) /\ Len(r) = Len(s) - 1 /\ 1 \in DOMAIN s /\ Head(s) = s[1]
      /\ \A j \in 1 .. Len(s) - 1 : r[j] = s[j + 1]
  OBVIOUS
<1>2. \A j \in 1 .. Len(s) - 1 : r[j] = IF j < 1 THEN s[j] ELSE s[j + 1]  BY <1>1
<1> HIDE DEF r
<1>3. Left(r, s, s[1])  BY <1>1, <1>2, LineWithoutOne
<1> QED  BY <1>1, <1>3 DEF r

\* Somebody leaves the line, if he is in it.
LEMMA RemovedLeft ==
    ASSUME NEW S, NEW s \in Seq(S), Distinct(s), NEW x
    PROVE  RemoveFirst(s, x) \in Seq(S) /\ Left(RemoveFirst(s, x), s, x)
<1> DEFINE r == RemoveFirst(s, x)
<1>1. CASE InLine(x, s)
  <2>1. PICK i \in DOMAIN s : s[i] = x  BY <1>1 DEF InLine
  <2>2. /\ r \in Seq(S) /\ Len(r) = Len(s) - 1
        /\ \A j \in 1 .. Len(s) - 1 : r[j] = IF j < i THEN s[j] ELSE s[j + 1]
    <3>1. /\ RemoveFirst(s, s[i]) \in Seq(S)
          /\ Len(RemoveFirst(s, s[i])) = Len(s) - 1
          /\ \A j \in 1 .. Len(s) - 1 :
                RemoveFirst(s, s[i])[j] = IF j < i THEN s[j] ELSE s[j + 1]
      BY RemoveOne
    <3> QED  BY <2>1, <3>1
  <2> HIDE DEF r
  <2>3. Left(r, s, s[i])  BY <2>2, LineWithoutOne
  <2> QED  BY <2>1, <2>2, <2>3 DEF r
<1>2. CASE ~InLine(x, s)
  <2>1. \A i \in 1 .. Len(s) : s[i] # x  BY <1>2 DEF InLine
  <2>2. r = s  BY <2>1 DEF RemoveFirst
  <2> HIDE DEF r
  <2>3. Left(s, s, x)  BY <1>2 DEF Left
  <2> QED  BY <2>2, <2>3 DEF r
<1> QED  BY <1>1, <1>2

\* Somebody joins the line at its end.
LEMMA AppendJoined ==
    ASSUME NEW S, NEW s \in Seq(S), Distinct(s), NEW x \in S, ~InLine(x, s)
    PROVE  Append(s, x) \in Seq(S) /\ Joined(Append(s, x), s, x)
<1> DEFINE r == Append(s, x)
           n == Len(s)
<1>1. /\ n \in Nat /\ DOMAIN s = 1 .. n /\ DOMAIN r = 1 .. n + 1 /\ r \in Seq(S)
      /\ \A i \in 1 .. n : r[i] = s[i]
      /\ r[n + 1] = x
  OBVIOUS
<1> HIDE DEF r, n
<1>2. \A i \in 1 .. n + 1 : i \in 1 .. n \/ i = n + 1  BY <1>1
<1>3. \A i \in 1 .. n : i \in 1 .. n + 1 /\ i # n + 1  BY <1>1
<1>4. n + 1 \in 1 .. n + 1  BY <1>1
<1>5. \A i \in 1 .. n : s[i] # x  BY <1>1 DEF InLine
<1>6. Distinct(r)  BY <1>1, <1>2, <1>5 DEF Distinct
<1>7. \A y : InLine(y, r) <=> y = x \/ InLine(y, s)
  <2>1. ASSUME NEW y, InLine(y, r) PROVE y = x \/ InLine(y, s)
    BY <1>1, <1>2, <2>1 DEF InLine
  <2>2. ASSUME NEW y, y = x \/ InLine(y, s) PROVE InLine(y, r)
    BY <1>1, <1>3, <1>4, <2>2 DEF InLine
  <2> QED  BY <2>1, <2>2
<1>8. \A y, z : Before(y, z, r) => y # x /\ InLine(y, s) /\ (z = x \/ Before(y, z, s))
  <2> SUFFICES ASSUME NEW y, NEW z, Before(y, z, r)
               PROVE  y # x /\ InLine(y, s) /\ (z = x \/ Before(y, z, s))
    OBVIOUS
  <2>1. PICK j, k \in 1 .. n + 1 : j < k /\ r[j] = y /\ r[k] = z  BY <1>1 DEF Before
  <2>2. j \in 1 .. n  BY <1>1, <2>1
  <2>3. y # x /\ InLine(y, s)  BY <1>1, <1>5, <2>1, <2>2 DEF InLine
  <2>4. CASE k = n + 1  BY <1>1, <2>1, <2>3, <2>4
  <2>5. CASE k \in 1 .. n  BY <1>1, <2>1, <2>2, <2>3, <2>5 DEF Before
  <2> QED  BY <1>2, <2>4, <2>5
<1> QED  BY <1>1, <1>6, <1>7, <1>8 DEF Joined, r

\* A line is as long as it has members.
LEMMA LineLength ==
    ASSUME NEW S, NEW s \in Seq(S), Distinct(s)
    PROVE  Len(s) = Cardinality(Range(s))
<1> DEFINE n == Len(s)
<1>1. n \in Nat /\ DOMAIN s = 1 .. n /\ s \in [1 .. n -> Range(s)]  BY DEF Range
<1> HIDE DEF n
<1>2. s \in Bijection(1 .. n, Range(s))
  BY <1>1 DEF Bijection, Injection, Surjection, Distinct, Range, IsInjective
<1>3. ExistsBijection(1 .. n, Range(s))  BY <1>2 DEF ExistsBijection
<1> QED  BY <1>1, <1>3, FS_CountingElements DEF n

-----------------------------------------------------------------------------
(* The inductive invariant.                                                *)

Waits(t) == turn[t].at \in {"mutating", "annotating"} \/ Persisting(t)

\* The snapshots that wait at the gate wait in the order they were taken.
LineOK ==
    /\ Distinct(queue)
    /\ InLine(Resetter, queue) => resets < MaxResets
    /\ \A t, u \in Turn : Before(t, u, queue) /\ Persisting(t) /\ Persisting(u) =>
          turn[t].snapshot.stamp < turn[u].snapshot.stamp

\* What a turn has in its variables is what it has done so far, and a snapshot
\* it has yet to write is newer than what is written, or older than a reset.
TurnOK(t) ==
    /\ turn[t].at = "new" => turn[t] = NewTurn
    /\ turn[t].at \in {"locking", "mutating"} =>
          turn[t].key \in Key /\ turn[t].result = None /\ ~turn[t].assessed
    /\ turn[t].at \notin {"flushing", "answered", "gone"} => ~turn[t].persisted
    /\ t \in state.made =>
          turn[t].result = t /\ turn[t].at \notin {"new", "locking", "mutating"}
    /\ resets = 0 =>
          /\ turn[t].result # None => turn[t].result \in state.made
          /\ turn[t].assessed => turn[t].result \in state.assessed
          /\ turn[t].persisted => state.memory.stamp >= turn[t].snapshot.stamp
    /\ Persisting(t) =>
          \/ state.memory.stamp < turn[t].snapshot.stamp
          \/ turn[t].snapshot.stamp < cleared

TurnsInv ==
    /\ TypeOK /\ LineOK /\ MemoryRefersToState
    /\ \A t \in Turn : TurnOK(t)
    /\ resets = 0 => cleared = 0

\* The shapes TypeOK gives, with the queue as a line.
LEMMA Shapes ==
    ASSUME TurnsInv
    PROVE  /\ stamps \in Nat /\ cleared \in 0..stamps
           /\ state \in Aggregates /\ memory \in Memories
           /\ state.assessed \subseteq state.made /\ Range(state.records) = state.made
           /\ turn \in [Turn -> Locals]
           /\ queue \in Seq(Turn \cup {Resetter}) /\ Distinct(queue)
           /\ \A t \in Turn : InLine(t, queue) <=> Waits(t)
           /\ faults \in 0..MaxFaults /\ crashes \in 0..MaxCrashes /\ resets \in 0..MaxResets
<1>1. TypeOK /\ Distinct(queue)  BY DEF TurnsInv, LineOK
<1>2. ASSUME NEW t \in Turn PROVE InLine(t, queue) <=> Waits(t)
  <2>1. t \in Range(queue) <=> InLine(t, queue)  BY DEF Range, InLine
  <2> QED  BY <1>1, <2>1 DEF TypeOK, Waits
<1> QED  BY <1>1, <1>2 DEF TypeOK

\* And the other way round.
LEMMA ShapesGiveTypes ==
    ASSUME stamps' \in Nat /\ cleared' \in 0..stamps',
           state' \in Aggregates' /\ memory' \in Memories',
           state'.assessed \subseteq state'.made /\ Range(state'.records) = state'.made,
           turn' \in [Turn -> Locals'],
           queue' \in Seq(Turn \cup {Resetter}), Distinct(queue'),
           \A t \in Turn : InLine(t, queue') <=> Waits(t)',
           faults' \in 0..MaxFaults /\ crashes' \in 0..MaxCrashes /\ resets' \in 0..MaxResets
    PROVE  TypeOK'
<1>1. Len(queue') = Cardinality(Range(queue'))
  <2> DEFINE q == queue'
  <2>1. q \in Seq(Turn \cup {Resetter}) /\ Distinct(q)  OBVIOUS
  <2> HIDE DEF q
  <2>2. Len(q) = Cardinality(Range(q))  BY <2>1, LineLength
  <2> QED  BY <2>2 DEF q
<1>2. ASSUME NEW t \in Turn
      PROVE  t \in Range(queue') <=> (turn'[t].at \in {"mutating", "annotating"} \/ Persisting(t)')
  <2>1. t \in Range(queue') <=> InLine(t, queue')  BY DEF Range, InLine
  <2> QED  BY <2>1 DEF Waits
<1> QED  BY <1>1, <1>2 DEF TypeOK

-----------------------------------------------------------------------------
(* A step of one turn.                                                     *)

\* What it does to the queue: the turn is in it when it waits, as the last.
Moves(t) ==
    /\ queue' \in Seq(Turn \cup {Resetter}) /\ Distinct(queue')
    /\ \A u \in Turn : InLine(u, queue') <=> IF u = t THEN Waits(t)' ELSE InLine(u, queue)
    /\ InLine(Resetter, queue') => InLine(Resetter, queue)
    /\ \A u, v \in Turn : Before(u, v, queue') => u # t /\ (v = t \/ Before(u, v, queue))

\* What it does to the aggregate: it adds, and replaces the memory only by the
\* snapshot of the turn, when that holds the gate.
Grows(t) ==
    /\ state' \in Aggregates'
    /\ state'.assessed \subseteq state'.made /\ Range(state'.records) = state'.made
    /\ state.made \subseteq state'.made /\ state'.made \subseteq state.made \cup {t}
    /\ state.assessed \subseteq state'.assessed
    /\ \/ state'.memory = state.memory
       \/ /\ AtGate(t) /\ Persisting(t) /\ Refers(state, turn[t].snapshot)
          /\ state'.memory = turn[t].snapshot

\* A turn that asks for the gate joins the queue.
LEMMA JoinMoves ==
    ASSUME TurnsInv, NEW t \in Turn, ~Waits(t), Waits(t)', queue' = Append(queue, t)
    PROVE  Moves(t)
<1>1. queue \in Seq(Turn \cup {Resetter}) /\ Distinct(queue) /\ ~InLine(t, queue)  BY Shapes
<1> DEFINE r == Append(queue, t)
<1>2. r \in Seq(Turn \cup {Resetter}) /\ Joined(r, queue, t)  BY <1>1, AppendJoined
<1>3. queue' = r  OBVIOUS
<1> HIDE DEF r
<1>4. Resetter # t  BY TurnsAssumption
<1> QED  BY <1>1, <1>2, <1>3, <1>4 DEF Joined, Moves

\* One that leaves the gate.
LEMMA LeaveMoves ==
    ASSUME TurnsInv, NEW t \in Turn, AtGate(t), ~Waits(t)', queue' = Tail(queue)
    PROVE  Moves(t)
<1>1. queue \in Seq(Turn \cup {Resetter}) /\ Distinct(queue) /\ queue # <<>> /\ Head(queue) = t
  BY Shapes DEF AtGate
<1> DEFINE r == Tail(queue)
<1>2. r \in Seq(Turn \cup {Resetter}) /\ Left(r, queue, t)  BY <1>1, TailLeft
<1>3. queue' = r  OBVIOUS
<1> HIDE DEF r
<1>4. \A u, v : Before(u, v, r) => InLine(u, r)  BY DEF Before, InLine
<1> QED  BY <1>2, <1>3, <1>4 DEF Left, Moves

\* One that leaves it and asks for it again.
LEMMA RejoinMoves ==
    ASSUME TurnsInv, NEW t \in Turn, AtGate(t), Waits(t)', queue' = Append(Tail(queue), t)
    PROVE  Moves(t)
<1>1. queue \in Seq(Turn \cup {Resetter}) /\ Distinct(queue) /\ queue # <<>> /\ Head(queue) = t
  BY Shapes DEF AtGate
<1> DEFINE q == Tail(queue)
           r == Append(q, t)
<1>2. q \in Seq(Turn \cup {Resetter}) /\ Left(q, queue, t)  BY <1>1, TailLeft
<1> HIDE DEF q
<1>3. Distinct(q) /\ ~InLine(t, q)  BY <1>2 DEF Left
<1>4. r \in Seq(Turn \cup {Resetter}) /\ Joined(r, q, t)  BY <1>2, <1>3, AppendJoined
<1>5. queue' = r  BY DEF q
<1> HIDE DEF r
<1>6. Resetter # t  BY TurnsAssumption
<1> QED  BY <1>2, <1>4, <1>5, <1>6 DEF Joined, Left, Moves

\* One that neither waited nor waits.
LEMMA StayMoves ==
    ASSUME TurnsInv, NEW t \in Turn, ~Waits(t), ~Waits(t)', queue' = queue
    PROVE  Moves(t)
<1>1. queue \in Seq(Turn \cup {Resetter}) /\ Distinct(queue) /\ ~InLine(t, queue)  BY Shapes
<1>2. \A u, v : Before(u, v, queue) => InLine(u, queue)  BY DEF Before, InLine
<1> QED  BY <1>1, <1>2 DEF Moves

\* One that is cancelled, wherever it was.
LEMMA QuitMoves ==
    ASSUME TurnsInv, NEW t \in Turn, ~Waits(t)', queue' = RemoveFirst(queue, t)
    PROVE  Moves(t)
<1>1. queue \in Seq(Turn \cup {Resetter}) /\ Distinct(queue)  BY Shapes
<1> DEFINE r == RemoveFirst(queue, t)
<1>2. r \in Seq(Turn \cup {Resetter}) /\ Left(r, queue, t)  BY <1>1, RemovedLeft
<1>3. queue' = r  OBVIOUS
<1> HIDE DEF r
<1>4. \A u, v : Before(u, v, r) => InLine(u, r)  BY DEF Before, InLine
<1> QED  BY <1>2, <1>3, <1>4 DEF Left, Moves

\* Whoever holds the gate is before all who wait for it.
LEMMA GateFirst ==
    ASSUME TurnsInv, NEW t \in Turn, NEW u \in Turn, AtGate(t), t # u, Waits(u)
    PROVE  Waits(t) /\ Before(t, u, queue)
<1>1. queue \in Seq(Turn \cup {Resetter}) /\ queue # <<>> /\ Head(queue) = t /\ InLine(u, queue)
  BY Shapes DEF AtGate
<1>2. 1 \in DOMAIN queue /\ queue[1] = t  BY <1>1
<1>3. PICK j \in DOMAIN queue : queue[j] = u  BY <1>1 DEF InLine
<1>4. j # 1 /\ 1 < j  BY <1>1, <1>2, <1>3
<1>5. InLine(t, queue)  BY <1>2 DEF InLine
<1> QED  BY <1>2, <1>3, <1>4, <1>5, Shapes DEF Before

\* The types of what the stamps bound only grow.
LEMMA TypesGrow ==
    ASSUME stamps \in Nat, stamps' \in Nat, stamps <= stamps'
    PROVE  Memories \subseteq Memories' /\ Locals \subseteq Locals'
<1>1. 0..stamps \subseteq 0..stamps'  OBVIOUS
<1>2. Memories \subseteq Memories'  BY <1>1 DEF Memories
<1> QED  BY <1>2 DEF Locals

\* The other turns: nothing they know becomes wrong.
LEMMA OthersKeep ==
    ASSUME TurnsInv, NEW t \in Turn, Grows(t), cleared' = cleared, resets' = resets,
           NEW u \in Turn, u # t, turn'[u] = turn[u]
    PROVE  TurnOK(u)'
<1>1. /\ stamps \in Nat /\ cleared \in 0..stamps /\ state \in Aggregates /\ turn \in [Turn -> Locals]
  BY Shapes
<1>2. /\ state.memory.stamp \in Int /\ turn[t].snapshot.stamp \in Int
      /\ turn[u].snapshot.stamp \in Int /\ cleared \in Int /\ cleared >= 0
      /\ turn[t].snapshot.stamp >= 0
  BY <1>1 DEF Aggregates, Locals, Memories
<1>3. TurnOK(u) /\ TurnOK(t) /\ (resets = 0 => cleared = 0) /\ LineOK  BY DEF TurnsInv
<1>4. Persisting(u)' <=> Persisting(u)  BY DEF Persisting
<1>5. Persisting(u) => \/ state'.memory.stamp < turn[u].snapshot.stamp
                       \/ turn[u].snapshot.stamp < cleared
  <2> SUFFICES ASSUME Persisting(u)
               PROVE  \/ state'.memory.stamp < turn[u].snapshot.stamp
                      \/ turn[u].snapshot.stamp < cleared
    OBVIOUS
  <2>1. CASE state'.memory = state.memory  BY <1>3, <2>1 DEF TurnOK
  <2>2. CASE AtGate(t) /\ Persisting(t) /\ state'.memory = turn[t].snapshot
    <3>1. Before(t, u, queue)  BY <2>2, GateFirst DEF Waits
    <3>2. turn[t].snapshot.stamp < turn[u].snapshot.stamp  BY <1>3, <2>2, <3>1 DEF LineOK
    <3> QED  BY <2>2, <3>2
  <2> QED  BY <2>1, <2>2 DEF Grows
<1>6. resets = 0 => state'.memory.stamp >= state.memory.stamp
  <2> SUFFICES ASSUME resets = 0 PROVE state'.memory.stamp >= state.memory.stamp  OBVIOUS
  <2>1. CASE state'.memory = state.memory  BY <1>2, <2>1
  <2>2. CASE Persisting(t) /\ state'.memory = turn[t].snapshot
    <3>1. \/ state.memory.stamp < turn[t].snapshot.stamp
          \/ turn[t].snapshot.stamp < cleared
      BY <1>3, <2>2 DEF TurnOK
    <3>2. cleared = 0  BY <1>3
    <3> QED  BY <1>2, <2>2, <3>1, <3>2
  <2> QED  BY <2>1, <2>2 DEF Grows
<1>7. state'.memory.stamp \in Int
  <2>1. CASE state'.memory = state.memory  BY <1>2, <2>1
  <2>2. CASE state'.memory = turn[t].snapshot  BY <1>2, <2>2
  <2> QED  BY <2>1, <2>2 DEF Grows
<1>8. /\ turn[u].at = "new" => turn[u] = NewTurn
      /\ turn[u].at \in {"locking", "mutating"} =>
            turn[u].key \in Key /\ turn[u].result = None /\ ~turn[u].assessed
      /\ turn[u].at \notin {"flushing", "answered", "gone"} => ~turn[u].persisted
      /\ u \in state'.made =>
            turn[u].result = u /\ turn[u].at \notin {"new", "locking", "mutating"}
  BY <1>3 DEF TurnOK, Grows
<1>9. resets = 0 =>
         /\ turn[u].result # None => turn[u].result \in state'.made
         /\ turn[u].assessed => turn[u].result \in state'.assessed
         /\ turn[u].persisted => state'.memory.stamp >= turn[u].snapshot.stamp
  <2> SUFFICES ASSUME resets = 0
               PROVE  /\ turn[u].result # None => turn[u].result \in state'.made
                      /\ turn[u].assessed => turn[u].result \in state'.assessed
                      /\ turn[u].persisted => state'.memory.stamp >= turn[u].snapshot.stamp
    OBVIOUS
  <2>1. turn[u].persisted => state.memory.stamp >= turn[u].snapshot.stamp  BY <1>3 DEF TurnOK
  <2>2. turn[u].persisted => state'.memory.stamp >= turn[u].snapshot.stamp
    BY <1>2, <1>6, <1>7, <2>1
  <2> QED  BY <1>3, <2>2 DEF TurnOK, Grows
<1> QED  BY <1>4, <1>5, <1>8, <1>9 DEF TurnOK

\* A step of one turn keeps the invariant if it leaves the turn as it should be.
LEMMA TurnKeeps ==
    ASSUME TurnsInv, NEW t \in Turn, NEW now, turn' = [turn EXCEPT ![t] = now], now \in Locals',
           Moves(t), Grows(t), stamps' \in {stamps, stamps + 1},
           memory' \in Memories', Refers(state', memory'),
           TurnOK(t)', Persisting(t)' => now.snapshot.stamp = stamps + 1,
           cleared' = cleared, resets' = resets, crashes' = crashes, faults' \in 0..MaxFaults
    PROVE  TurnsInv'
<1>1. /\ stamps \in Nat /\ cleared \in 0..stamps /\ state \in Aggregates
      /\ turn \in [Turn -> Locals] /\ \A u \in Turn : InLine(u, queue) <=> Waits(u)
      /\ crashes \in 0..MaxCrashes /\ resets \in 0..MaxResets
  BY Shapes
<1>2. LineOK /\ MemoryRefersToState /\ (resets = 0 => cleared = 0)  BY DEF TurnsInv
<1>3. stamps' \in Nat /\ stamps <= stamps' /\ cleared' \in 0..stamps'  BY <1>1
<1>4. Locals \subseteq Locals'  BY <1>1, <1>3, TypesGrow
<1>5. turn' \in [Turn -> Locals'] /\ turn'[t] = now /\ \A u \in Turn \ {t} : turn'[u] = turn[u]
  BY <1>1, <1>4
<1>6. \A u \in Turn \ {t} : (Waits(u)' <=> Waits(u)) /\ (Persisting(u)' <=> Persisting(u))
  BY <1>5 DEF Waits, Persisting
<1>7. \A u \in Turn : InLine(u, queue') <=> Waits(u)'  BY <1>1, <1>6 DEF Moves
<1>8. ASSUME NEW u \in Turn, NEW v \in Turn,
             Before(u, v, queue'), Persisting(u)', Persisting(v)'
      PROVE  turn'[u].snapshot.stamp < turn'[v].snapshot.stamp
  <2>1. u # t /\ (v = t \/ Before(u, v, queue))  BY <1>8 DEF Moves
  <2>2. CASE v = t
    <3>1. turn'[v].snapshot.stamp = stamps + 1  BY <1>5, <1>8, <2>2
    <3>2. turn'[u].snapshot.stamp \in 0..stamps  BY <1>1, <1>5, <2>1 DEF Locals, Memories
    <3> QED  BY <1>1, <3>1, <3>2
  <2>3. CASE v # t  BY <1>2, <1>5, <1>6, <1>8, <2>1, <2>3 DEF LineOK
  <2> QED  BY <2>2, <2>3
<1>9. LineOK'
  <2>1. InLine(Resetter, queue') => resets' < MaxResets  BY <1>2 DEF LineOK, Moves
  <2> QED  BY <1>8, <2>1 DEF LineOK, Moves
<1>10. \A u \in Turn : TurnOK(u)'
  <2> TAKE u \in Turn
  <2>1. CASE u = t  BY <2>1
  <2>2. CASE u # t  BY <1>5, <2>2, OthersKeep
  <2> QED  BY <2>1, <2>2
<1>11. MemoryRefersToState'  BY <1>2 DEF MemoryRefersToState, Refers, Grows
<1>12. TypeOK'  BY <1>1, <1>3, <1>5, <1>7, ShapesGiveTypes DEF Moves, Grows
<1> QED  BY <1>2, <1>9, <1>10, <1>11, <1>12 DEF TurnsInv

\* A step that leaves the aggregate alone.
LEMMA SameGrows ==
    ASSUME TurnsInv, NEW t \in Turn, state' = state, stamps' \in {stamps, stamps + 1}
    PROVE  Grows(t)
<1>1. /\ stamps \in Nat /\ state \in Aggregates
      /\ state.assessed \subseteq state.made /\ Range(state.records) = state.made
  BY Shapes
<1>2. Memories \subseteq Memories'
  <2>1. stamps' \in Nat /\ stamps <= stamps'  BY <1>1
  <2> QED  BY <1>1, <2>1, TypesGrow
<1>3. state' \in Aggregates'  BY <1>1, <1>2 DEF Aggregates
<1> QED  BY <1>1, <1>3 DEF Grows

\* A turn that takes a snapshot of the memory and asks for the gate.
LEMMA PersistKeeps ==
    ASSUME TurnsInv, NEW t \in Turn, NEW now \in Locals, NEW last \in Turn \cup {None}, NEW q,
           NEW place \in {"reading", "finishing", "reflecting"},
           Persist(t, now, place, Remember(last), q),
           (q = queue /\ ~Waits(t)) \/ (q = Tail(queue) /\ AtGate(t)),
           ~now.persisted, last \in state'.made \cup {None},
           t \in state'.made => now.result = t,
           resets = 0 => /\ now.result # None => now.result \in state'.made
                         /\ now.assessed => now.result \in state'.assessed,
           Grows(t), state'.memory = state.memory,
           cleared' = cleared, resets' = resets, crashes' = crashes, faults' \in 0..MaxFaults
    PROVE  TurnsInv'
<1> DEFINE m == [stamp |-> stamps + 1, last |-> last]
           then == [now EXCEPT !.at = place, !.snapshot = m]
<1>1. /\ memory' = m /\ stamps' = stamps + 1 /\ turn' = [turn EXCEPT ![t] = then]
      /\ queue' = Append(q, t)
  BY DEF Persist, Remember, Join
<1>2. stamps \in Nat /\ turn \in [Turn -> Locals] /\ state \in Aggregates  BY Shapes
<1>3. stamps + 1 \in 0..stamps' /\ stamps' \in Nat /\ stamps <= stamps'  BY <1>1, <1>2
<1>4. m \in Memories'  BY <1>3 DEF Memories
<1>5. Locals \subseteq Locals'  BY <1>2, <1>3, TypesGrow
<1>6. /\ then \in Locals' /\ then.at = place /\ then.snapshot = m /\ then.result = now.result
      /\ then.assessed = now.assessed /\ then.persisted = now.persisted
  BY <1>4, <1>5 DEF Locals
<1>7. m.stamp = stamps + 1 /\ m.last = last  OBVIOUS
<1> HIDE DEF m, then
<1>8. turn'[t] = then  BY <1>1, <1>2
<1>9. Waits(t)' /\ Persisting(t)'  BY <1>6, <1>8 DEF Waits, Persisting
<1>10. Moves(t)
  <2>1. CASE q = queue /\ ~Waits(t)  BY <1>1, <1>9, <2>1, JoinMoves
  <2>2. CASE q = Tail(queue) /\ AtGate(t)  BY <1>1, <1>9, <2>2, RejoinMoves
  <2> QED  BY <2>1, <2>2
<1>11. state'.memory.stamp < then.snapshot.stamp
  <2>1. state.memory.stamp \in 0..stamps  BY <1>2 DEF Aggregates, Memories
  <2> QED  BY <1>2, <1>6, <1>7, <2>1
<1>12. TurnOK(t)'  BY <1>6, <1>8, <1>11 DEF TurnOK
<1>13. Refers(state', memory')  BY <1>1, <1>7 DEF Refers
<1> QED  BY <1>1, <1>4, <1>6, <1>7, <1>10, <1>12, <1>13, TurnKeeps

\* A turn that moves on without a snapshot, whatever it does to the memory.
LEMMA MoveKeeps ==
    ASSUME TurnsInv, NEW t \in Turn, NEW now \in Locals, turn' = [turn EXCEPT ![t] = now],
           now.at \in {"locking", "mutating", "assessing", "annotating", "flushing",
                       "answered", "gone"},
           Moves(t), Grows(t), TurnOK(t)',
           \/ stamps' = stamps /\ memory' = memory
           \/ stamps' = stamps + 1 /\ memory' = Remember(memory.last),
           cleared' = cleared, resets' = resets, crashes' = crashes, faults' \in 0..MaxFaults
    PROVE  TurnsInv'
<1>1. stamps \in Nat /\ memory \in Memories /\ turn \in [Turn -> Locals]  BY Shapes
<1>2. stamps' \in {stamps, stamps + 1} /\ stamps' \in Nat /\ stamps <= stamps'  BY <1>1
<1>3. now \in Locals'  BY <1>1, <1>2, TypesGrow
<1>4. memory' \in Memories' /\ memory'.last = memory.last
  <2>1. CASE stamps' = stamps /\ memory' = memory  BY <1>1, <2>1 DEF Memories
  <2>2. CASE stamps' = stamps + 1 /\ memory' = Remember(memory.last)
    <3>1. stamps + 1 \in 0..stamps' /\ memory.last \in Turn \cup {None}
      BY <1>1, <2>2 DEF Memories
    <3> QED  BY <2>2, <3>1 DEF Memories, Remember
  <2> QED  BY <2>1, <2>2
<1>5. Refers(state', memory')
  BY <1>4 DEF TurnsInv, MemoryRefersToState, Refers, Grows
<1>6. ~Persisting(t)'  BY <1>1 DEF Persisting
<1> QED  BY <1>2, <1>3, <1>4, <1>5, <1>6, TurnKeeps

-----------------------------------------------------------------------------
(* Routing.                                                                *)

\* What a turn that has not begun is.
LEMMA NewTurnIs ==
    ASSUME TurnsInv, NEW t \in Turn, At(t, "new")
    PROVE  turn[t] = NewTurn /\ ~Waits(t) /\ t \notin state.made
BY DEF TurnsInv, TurnOK, At, Waits, Persisting, NewTurn

\* handle returns without a tool, or with one that only reads.
LEMMA ReadKeeps ==
    ASSUME TurnsInv, NEW t \in Turn, HandleRead(t) \/ HandleFails(t)
    PROVE  TurnsInv'
<1> DEFINE now == [turn[t] EXCEPT !.kind = "read"]
<1>1. /\ At(t, "new")
      /\ \E place \in {"reading", "finishing", "reflecting"} :
            Persist(t, now, place, Remember(memory.last), queue)
      /\ state' = state /\ cleared' = cleared /\ faults' = faults /\ crashes' = crashes
      /\ resets' = resets
  BY DEF HandleRead, HandleFails, Reflect
<1>2. turn[t] = NewTurn /\ ~Waits(t) /\ t \notin state.made  BY <1>1, NewTurnIs
<1>3. memory \in Memories /\ faults \in 0..MaxFaults /\ turn[t] \in Locals  BY Shapes
<1>4. now \in Locals /\ now.result = None /\ ~now.assessed /\ ~now.persisted
  <2>1. turn[t].result = None /\ ~turn[t].assessed /\ ~turn[t].persisted
    BY <1>2 DEF NewTurn
  <2>2. /\ now \in Locals /\ now.result = turn[t].result
        /\ now.assessed = turn[t].assessed /\ now.persisted = turn[t].persisted
    BY <1>3 DEF Locals
  <2> HIDE DEF now
  <2> QED  BY <2>1, <2>2
<1>5. memory.last \in Turn \cup {None} /\ memory.last \in state'.made \cup {None}
  BY <1>1, <1>3 DEF Memories, TurnsInv, MemoryRefersToState, Refers
<1>6. Grows(t)  BY <1>1, SameGrows DEF Persist, Remember
<1> HIDE DEF now
<1> QED  BY <1>1, <1>2, <1>3, <1>4, <1>5, <1>6, PersistKeeps

\* A mutating tool starts, and waits for its locks.
LEMMA MutationKeeps ==
    ASSUME TurnsInv, NEW t \in Turn, NEW k \in Key, NEW kind \in {"create", "pay"},
           HandleMutation(t, k, kind)
    PROVE  TurnsInv'
<1> DEFINE now == [NewTurn EXCEPT !.at = "locking", !.kind = kind, !.key = k]
<1>1. /\ At(t, "new") /\ memory' = Remember(memory.last) /\ stamps' = stamps + 1
      /\ turn' = [turn EXCEPT ![t] = now] /\ queue' = queue
      /\ state' = state /\ cleared' = cleared /\ faults' = faults /\ crashes' = crashes
      /\ resets' = resets
  BY DEF HandleMutation
<1>2. turn[t] = NewTurn /\ ~Waits(t) /\ t \notin state.made  BY <1>1, NewTurnIs
<1>3. turn \in [Turn -> Locals] /\ faults \in 0..MaxFaults  BY Shapes
<1>4. /\ now \in Locals /\ now.at = "locking" /\ now.key = k /\ now.result = None
      /\ ~now.assessed /\ ~now.persisted
  <2>1. NewTurn \in Locals  BY <1>2, <1>3
  <2> QED  BY <2>1 DEF Locals, NewTurn
<1> HIDE DEF now
<1>5. turn'[t] = now  BY <1>1, <1>3
<1>6. ~Waits(t)' /\ ~Persisting(t)'  BY <1>4, <1>5 DEF Waits, Persisting
<1>7. Moves(t)  BY <1>1, <1>2, <1>6, StayMoves
<1>8. Grows(t)  BY <1>1, SameGrows
<1>9. TurnOK(t)'  BY <1>1, <1>2, <1>4, <1>5, <1>6 DEF TurnOK
<1> QED  BY <1>1, <1>3, <1>4, <1>7, <1>8, <1>9, MoveKeeps

\* Its locks are held: it asks for the gate.
LEMMA LockedKeeps ==
    ASSUME TurnsInv, NEW t \in Turn, Locked(t)
    PROVE  TurnsInv'
<1> DEFINE place == IF turn[t].at = "locking" THEN "mutating" ELSE "annotating"
           now == [turn[t] EXCEPT !.at = place]
<1>1. /\ turn[t].at \in {"locking", "assessing"}
      /\ turn' = [turn EXCEPT ![t].at = place] /\ queue' = Append(queue, t)
      /\ state' = state /\ memory' = memory /\ stamps' = stamps /\ cleared' = cleared
      /\ faults' = faults /\ crashes' = crashes /\ resets' = resets
  BY DEF Locked, At, Join
<1>2. turn \in [Turn -> Locals] /\ faults \in 0..MaxFaults  BY Shapes
<1>3. turn' = [turn EXCEPT ![t] = now]  BY <1>1
<1>4. /\ now \in Locals /\ now.at = place /\ now.key = turn[t].key /\ now.result = turn[t].result
      /\ now.assessed = turn[t].assessed /\ now.persisted = turn[t].persisted
      /\ now.snapshot = turn[t].snapshot
  BY <1>2 DEF Locals
<1> HIDE DEF now
<1>5. turn'[t] = now  BY <1>2, <1>3
<1>6. ~Waits(t) /\ Waits(t)' /\ ~Persisting(t)'
  BY <1>1, <1>4, <1>5 DEF Waits, Persisting
<1>7. Moves(t)  BY <1>1, <1>6, JoinMoves
<1>8. Grows(t)  BY <1>1, SameGrows
<1>9. TurnOK(t)'
  <2>1. TurnOK(t)  BY DEF TurnsInv
  <2> QED  BY <1>1, <1>4, <1>5, <1>6, <2>1 DEF TurnOK
<1> QED  BY <1>1, <1>2, <1>3, <1>4, <1>7, <1>8, <1>9, MoveKeeps

-----------------------------------------------------------------------------
(* Commits.                                                                *)

\* Whoever holds the gate waited for it, and a commit leaves it.
LEMMA GateHolder ==
    ASSUME TurnsInv, NEW t \in Turn, AtGate(t)
    PROVE  Waits(t) /\ turn[t] \in Locals
<1>1. queue \in Seq(Turn \cup {Resetter}) /\ queue # <<>> /\ Head(queue) = t
      /\ (InLine(t, queue) <=> Waits(t))
  BY Shapes DEF AtGate
<1>2. 1 \in DOMAIN queue /\ queue[1] = t  BY <1>1
<1> QED  BY <1>1, <1>2, Shapes DEF InLine

\* What follows a mutation that left the entity result in the aggregate.
LEMMA AfterKeeps ==
    ASSUME TurnsInv, NEW t \in Turn, NEW result \in Turn, AtGate(t), At(t, "mutating"),
           AfterMutation(t, result, state'), result \in state'.made,
           t \in state'.made => result = t, Grows(t), state'.memory = state.memory,
           cleared' = cleared, resets' = resets, crashes' = crashes, faults' = faults
    PROVE  TurnsInv'
<1> DEFINE now == [turn[t] EXCEPT !.result = result]
<1>1. turn \in [Turn -> Locals] /\ faults \in 0..MaxFaults /\ memory \in Memories  BY Shapes
<1>2. ~turn[t].assessed /\ ~turn[t].persisted
  BY DEF TurnsInv, TurnOK, At
<1>3. /\ now \in Locals /\ now.result = result /\ now.assessed = turn[t].assessed
      /\ now.persisted = turn[t].persisted /\ now.kind = turn[t].kind
      /\ now.snapshot = turn[t].snapshot
  BY <1>1 DEF Locals
<1>4. IF now.kind = "pay"
      THEN /\ turn' = [turn EXCEPT ![t] = [now EXCEPT !.at = "assessing"]]
           /\ queue' = Tail(queue)
           /\ UNCHANGED <<memory, stamps>>
      ELSE Finish(t, now, state', Tail(queue))
  BY DEF AfterMutation
<1> HIDE DEF now
<1>5. CASE now.kind = "pay"
  <2> DEFINE then == [now EXCEPT !.at = "assessing"]
  <2>1. turn' = [turn EXCEPT ![t] = then] /\ queue' = Tail(queue)
        /\ memory' = memory /\ stamps' = stamps
    BY <1>4, <1>5
  <2>2. /\ then \in Locals /\ then.at = "assessing" /\ then.result = result
        /\ then.assessed = now.assessed /\ then.persisted = now.persisted
    BY <1>3 DEF Locals
  <2> HIDE DEF then
  <2>3. turn'[t] = then  BY <1>1, <2>1
  <2>4. ~Waits(t)' /\ ~Persisting(t)'  BY <2>2, <2>3 DEF Waits, Persisting
  <2>5. Moves(t)  BY <2>1, <2>4, LeaveMoves
  <2>6. TurnOK(t)'  BY <1>2, <1>3, <2>2, <2>3, <2>4 DEF TurnOK
  <2> QED  BY <1>1, <2>1, <2>2, <2>5, <2>6, MoveKeeps
<1>6. CASE now.kind # "pay"
  <2> DEFINE last == IF now.result \in state'.made THEN now.result ELSE memory.last
             q == Tail(queue)
  <2>1. Persist(t, now, "finishing", Remember(last), q)  BY <1>4, <1>6 DEF Finish
  <2>2. last \in Turn \cup {None} /\ last \in state'.made \cup {None}  BY <1>3
  <2>3. q = Tail(queue)  OBVIOUS
  <2> HIDE DEF last, q
  <2> QED  BY <1>1, <1>2, <1>3, <2>1, <2>2, <2>3, PersistKeeps
<1> QED  BY <1>5, <1>6

\* The operation commits.
LEMMA MutateKeeps ==
    ASSUME TurnsInv, NEW t \in Turn, Mutate(t)
    PROVE  TurnsInv'
<1> DEFINE k == turn[t].key
           ks == DOMAIN state.records \cup {k}
           recs == [j \in ks |-> IF j = k THEN t ELSE state.records[j]]
<1>1. /\ AtGate(t) /\ At(t, "mutating") /\ k \notin DOMAIN state.records
      /\ state' = [state EXCEPT !.made = @ \cup {t}, !.records = recs]
      /\ AfterMutation(t, t, state')
      /\ cleared' = cleared /\ faults' = faults /\ crashes' = crashes /\ resets' = resets
  BY DEF Mutate
<1>2. /\ state \in Aggregates /\ state.assessed \subseteq state.made
      /\ Range(state.records) = state.made /\ stamps \in Nat
  BY Shapes
<1>3. k \in Key  BY <1>1 DEF TurnsInv, TurnOK, At
<1>4. recs \in UNION {[js -> Turn] : js \in SUBSET Key}
  <2>1. state.records \in UNION {[js -> Turn] : js \in SUBSET Key}  BY <1>2 DEF Aggregates
  <2>2. DOMAIN state.records \subseteq Key /\ \A j \in DOMAIN state.records : state.records[j] \in Turn
    BY <2>1
  <2>3. ks \in SUBSET Key /\ recs \in [ks -> Turn]  BY <1>3, <2>2
  <2> QED  BY <2>3
<1>5. Range(recs) = state.made \cup {t}
  <2>1. \A j \in DOMAIN state.records : recs[j] = state.records[j]  BY <1>1
  <2>2. DOMAIN recs = ks /\ recs[k] = t  OBVIOUS
  <2> HIDE DEF recs
  <2> QED  BY <1>2, <2>1, <2>2 DEF Range
<1> HIDE DEF recs
<1>6. /\ state'.made = state.made \cup {t} /\ state'.records = recs
      /\ state'.assessed = state.assessed /\ state'.memory = state.memory
      /\ state' \in [made : SUBSET Turn, assessed : SUBSET Turn, memory : Memories,
                     records : UNION {[js -> Turn] : js \in SUBSET Key}]
  BY <1>1, <1>2, <1>4 DEF Aggregates
<1>7. Memories \subseteq Memories'
  <2>1. stamps' \in Nat /\ stamps <= stamps'
    BY <1>1, <1>2 DEF AfterMutation, Finish, Persist, Remember
  <2> QED  BY <1>2, <2>1, TypesGrow
<1>8. state' \in Aggregates'  BY <1>6, <1>7 DEF Aggregates
<1>9. Grows(t)  BY <1>2, <1>5, <1>6, <1>8 DEF Grows
<1> QED  BY <1>1, <1>6, <1>9, AfterKeeps

\* An earlier turn's result is found under the key.
LEMMA ReplayKeeps ==
    ASSUME TurnsInv, NEW t \in Turn, Replay(t)
    PROVE  TurnsInv'
<1> DEFINE result == state.records[turn[t].key]
<1>1. /\ AtGate(t) /\ At(t, "mutating") /\ turn[t].key \in DOMAIN state.records
      /\ AfterMutation(t, result, state) /\ state' = state
      /\ cleared' = cleared /\ faults' = faults /\ crashes' = crashes /\ resets' = resets
  BY DEF Replay
<1>2. Range(state.records) = state.made /\ state \in Aggregates /\ stamps \in Nat  BY Shapes
<1>3. result \in state.made /\ result \in Turn  BY <1>1, <1>2 DEF Range, Aggregates
<1>4. t \notin state.made  BY <1>1 DEF TurnsInv, TurnOK, At
<1> HIDE DEF result
<1>5. AfterMutation(t, result, state')  BY <1>1
<1>6. stamps' \in {stamps, stamps + 1}
  BY <1>1 DEF AfterMutation, Finish, Persist, Remember
<1>7. Grows(t)  BY <1>1, <1>6, SameGrows
<1> QED  BY <1>1, <1>3, <1>4, <1>5, <1>7, AfterKeeps

\* Nothing was committed: the advice is remembered.
LEMMA ReflectKeeps ==
    ASSUME TurnsInv, NEW t \in Turn, AtGate(t), Reflect(t, turn[t], Tail(queue)),
           turn[t].at \in {"mutating", "reading"},
           state' = state, cleared' = cleared, resets' = resets, crashes' = crashes,
           faults' \in 0..MaxFaults
    PROVE  TurnsInv'
<1> DEFINE now == turn[t]
           last == memory.last
           q == Tail(queue)
<1>1. Persist(t, now, "reflecting", Remember(last), q)  BY DEF Reflect
<1>2. memory \in Memories /\ now \in Locals  BY Shapes
<1>3. last \in Turn \cup {None} /\ last \in state'.made \cup {None}
  BY <1>2 DEF Memories, TurnsInv, MemoryRefersToState, Refers
<1>4. TurnOK(t)  BY DEF TurnsInv
<1>5. /\ ~now.persisted
      /\ t \in state'.made => now.result = t
      /\ resets = 0 => /\ now.result # None => now.result \in state'.made
                       /\ now.assessed => now.result \in state'.assessed
  BY <1>4 DEF TurnOK
<1>6. Grows(t)  BY <1>1, SameGrows DEF Persist, Remember
<1>7. q = Tail(queue) /\ state'.memory = state.memory  OBVIOUS
<1> HIDE DEF now, last, q
<1> QED  BY <1>1, <1>2, <1>3, <1>5, <1>6, <1>7, PersistKeeps

\* A finished mutation is remembered, annotated or not.
LEMMA FinishKeeps ==
    ASSUME TurnsInv, NEW t \in Turn, NEW assessed \in BOOLEAN, AtGate(t), At(t, "annotating"),
           Finish(t, [turn[t] EXCEPT !.assessed = assessed], state, Tail(queue)),
           state'.made = state.made, Grows(t), state'.memory = state.memory,
           assessed => turn[t].assessed \/ turn[t].result \in state'.assessed,
           cleared' = cleared, resets' = resets, crashes' = crashes, faults' \in 0..MaxFaults
    PROVE  TurnsInv'
<1> DEFINE now == [turn[t] EXCEPT !.assessed = assessed]
           last == IF now.result \in state.made THEN now.result ELSE memory.last
           q == Tail(queue)
<1>1. Persist(t, now, "finishing", Remember(last), q)  BY DEF Finish
<1>2. memory \in Memories /\ turn[t] \in Locals  BY Shapes
<1>3. /\ now \in Locals /\ now.result = turn[t].result /\ now.assessed = assessed
      /\ now.persisted = turn[t].persisted
  BY <1>2 DEF Locals
<1> HIDE DEF now
<1>4. last \in Turn \cup {None} /\ last \in state'.made \cup {None}
  BY <1>2, <1>3 DEF Locals, Memories, TurnsInv, MemoryRefersToState, Refers
<1>5. TurnOK(t) /\ turn[t].at = "annotating"  BY DEF TurnsInv, At
<1>6. /\ ~now.persisted
      /\ t \in state'.made => now.result = t
      /\ resets = 0 => /\ now.result # None => now.result \in state'.made
                       /\ now.assessed => now.result \in state'.assessed
  BY <1>3, <1>5 DEF TurnOK, Grows
<1>7. q = Tail(queue)  OBVIOUS
<1> HIDE DEF last, q
<1> QED  BY <1>1, <1>3, <1>4, <1>6, <1>7, PersistKeeps

\* The annotation commits, or is not written.
LEMMA AnnotateKeeps ==
    ASSUME TurnsInv, NEW t \in Turn, Annotate(t) \/ AnnotationFails(t)
    PROVE  TurnsInv'
<1>1. /\ state \in Aggregates /\ state.assessed \subseteq state.made
      /\ Range(state.records) = state.made /\ stamps \in Nat /\ turn[t] \in Locals
      /\ faults \in 0..MaxFaults
  BY Shapes
<1>2. CASE Annotate(t)
  <2> DEFINE result == turn[t].result
  <2>1. /\ AtGate(t) /\ At(t, "annotating") /\ result \in state.made
        /\ state' = [state EXCEPT !.assessed = @ \cup {result}]
        /\ Finish(t, [turn[t] EXCEPT !.assessed = TRUE], state, Tail(queue))
        /\ cleared' = cleared /\ faults' = faults /\ crashes' = crashes /\ resets' = resets
    BY <1>2 DEF Annotate
  <2>2. /\ state'.made = state.made /\ state'.records = state.records
        /\ state'.assessed = state.assessed \cup {result} /\ state'.memory = state.memory
        /\ state' \in [made : SUBSET Turn, assessed : SUBSET Turn, memory : Memories,
                       records : UNION {[js -> Turn] : js \in SUBSET Key}]
    BY <1>1, <2>1 DEF Aggregates
  <2>3. Memories \subseteq Memories'
    <3>1. stamps' \in Nat /\ stamps <= stamps'
      BY <1>1, <2>1 DEF Finish, Persist, Remember
    <3> QED  BY <1>1, <3>1, TypesGrow
  <2>4. state' \in Aggregates'  BY <2>2, <2>3 DEF Aggregates
  <2>5. Grows(t)  BY <1>1, <2>1, <2>2, <2>4 DEF Grows
  <2>6. TRUE => turn[t].assessed \/ turn[t].result \in state'.assessed  BY <2>2
  <2> HIDE DEF result
  <2> QED  BY <1>1, <2>1, <2>2, <2>5, <2>6, FinishKeeps
<1>3. CASE AnnotationFails(t)
  <2> DEFINE assessed == turn[t].assessed
  <2>1. /\ AtGate(t) /\ At(t, "annotating") /\ state' = state
        /\ Finish(t, turn[t], state, Tail(queue))
        /\ cleared' = cleared /\ crashes' = crashes /\ resets' = resets
    BY <1>3 DEF AnnotationFails
  <2>2. faults' \in 0..MaxFaults
    <3>1. MaxFaults \in Nat  BY TurnsAssumption
    <3> QED  BY <1>1, <1>3, <3>1 DEF AnnotationFails, Fault, NoFault
  <2>3. [turn[t] EXCEPT !.assessed = assessed] = turn[t] /\ assessed \in BOOLEAN
    BY <1>1 DEF Locals
  <2>4. Finish(t, [turn[t] EXCEPT !.assessed = assessed], state, Tail(queue))  BY <2>1, <2>3
  <2>5. Grows(t)  BY <2>1, SameGrows DEF Finish, Persist, Remember
  <2>6. assessed => turn[t].assessed \/ turn[t].result \in state'.assessed  OBVIOUS
  <2>7. state'.made = state.made /\ state'.memory = state.memory  BY <2>1
  <2> HIDE DEF assessed
  <2> QED  BY <2>1, <2>2, <2>3, <2>4, <2>5, <2>6, <2>7, FinishKeeps
<1> QED  BY <1>2, <1>3

\* The mutation is refused or fails.
LEMMA MutationFailsKeeps ==
    ASSUME TurnsInv, NEW t \in Turn, MutationFails(t)
    PROVE  TurnsInv'
<1>1. /\ AtGate(t) /\ At(t, "mutating") /\ Reflect(t, turn[t], Tail(queue)) /\ state' = state
      /\ cleared' = cleared /\ faults' = faults /\ crashes' = crashes /\ resets' = resets
  BY DEF MutationFails
<1>2. faults \in 0..MaxFaults  BY Shapes
<1>3. turn[t].at \in {"mutating", "reading"}  BY <1>1 DEF At
<1> QED  BY <1>1, <1>2, <1>3, ReflectKeeps

\* The memory of a turn is persisted, or its failure reported.
LEMMA FlushKeeps ==
    ASSUME TurnsInv, NEW t \in Turn, NEW persisted \in BOOLEAN, AtGate(t), Persisting(t),
           Flush(t, persisted), Grows(t), state'.made = state.made,
           state'.assessed = state.assessed,
           persisted => state'.memory = turn[t].snapshot,
           cleared' = cleared, resets' = resets, crashes' = crashes, faults' \in 0..MaxFaults
    PROVE  TurnsInv'
<1> DEFINE now == [turn[t] EXCEPT !.at = "flushing", !.persisted = persisted]
<1>1. /\ turn' = [turn EXCEPT ![t].at = "flushing", ![t].persisted = persisted]
      /\ queue' = Tail(queue) /\ memory' = memory /\ stamps' = stamps
  BY DEF Flush
<1>2. turn \in [Turn -> Locals] /\ stamps \in Nat  BY Shapes
<1>3. /\ now \in Locals /\ now.at = "flushing" /\ now.result = turn[t].result
      /\ now.assessed = turn[t].assessed /\ now.persisted = persisted
      /\ now.snapshot = turn[t].snapshot
  BY <1>2 DEF Locals
<1>4. turn' = [turn EXCEPT ![t] = now]  BY <1>1, <1>2
<1> HIDE DEF now
<1>5. turn'[t] = now  BY <1>2, <1>4
<1>6. ~Waits(t)' /\ ~Persisting(t)'  BY <1>3, <1>5 DEF Waits, Persisting
<1>7. Moves(t)  BY <1>1, <1>6, LeaveMoves
<1>8. TurnOK(t)'
  <2>1. TurnOK(t) /\ turn[t].at \in {"reading", "finishing", "reflecting"}
    BY DEF TurnsInv, Persisting
  <2>2. turn[t].snapshot.stamp \in Int  BY <1>2 DEF Locals, Memories
  <2>3. persisted => state'.memory.stamp >= turn[t].snapshot.stamp  BY <2>2
  <2> QED  BY <1>3, <1>5, <1>6, <2>1, <2>3 DEF TurnOK
<1> QED  BY <1>1, <1>3, <1>4, <1>7, <1>8, MoveKeeps

\* The memory is persisted.
LEMMA PersistMemoryKeeps ==
    ASSUME TurnsInv, NEW t \in Turn, PersistMemory(t)
    PROVE  TurnsInv'
<1>1. /\ AtGate(t) /\ Persisting(t) /\ Refers(state, turn[t].snapshot)
      /\ state' = [state EXCEPT !.memory = turn[t].snapshot]
      /\ Flush(t, TRUE) /\ cleared' = cleared /\ faults' = faults /\ crashes' = crashes
      /\ resets' = resets
  BY DEF PersistMemory
<1>2. /\ state \in Aggregates /\ state.assessed \subseteq state.made
      /\ Range(state.records) = state.made /\ turn[t] \in Locals /\ faults \in 0..MaxFaults
  BY Shapes
<1>3. /\ state'.made = state.made /\ state'.records = state.records
      /\ state'.assessed = state.assessed /\ state'.memory = turn[t].snapshot
      /\ state' \in Aggregates
  BY <1>1, <1>2 DEF Aggregates, Locals
<1>4. state' \in Aggregates'  BY <1>1, <1>3 DEF Aggregates, Memories, Flush
<1>5. Grows(t)  BY <1>1, <1>2, <1>3, <1>4 DEF Grows
<1> QED  BY <1>1, <1>2, <1>3, <1>5, FlushKeeps

\* It is not.
LEMMA PersistFailsKeeps ==
    ASSUME TurnsInv, NEW t \in Turn, PersistFails(t)
    PROVE  TurnsInv'
<1>1. /\ AtGate(t) /\ Persisting(t) /\ AfterPersistFailure(t) /\ state' = state
      /\ cleared' = cleared /\ crashes' = crashes /\ resets' = resets
  BY DEF PersistFails
<1>2. faults \in 0..MaxFaults  BY Shapes
<1>3. faults' \in 0..MaxFaults
  <2>1. MaxFaults \in Nat  BY TurnsAssumption
  <2> QED  BY <1>2, <2>1 DEF PersistFails, Fault, NoFault
<1>4. CASE At(t, "reading")
  <2>1. Reflect(t, turn[t], Tail(queue)) /\ turn[t].at \in {"mutating", "reading"}
    BY <1>1, <1>4 DEF AfterPersistFailure, At
  <2> QED  BY <1>1, <1>3, <2>1, ReflectKeeps
<1>5. CASE ~At(t, "reading")
  <2>1. Flush(t, FALSE)  BY <1>1, <1>5 DEF AfterPersistFailure
  <2>2. Grows(t)  BY <1>1, <2>1, SameGrows DEF Flush
  <2> QED  BY <1>1, <1>3, <2>1, <2>2, FlushKeeps
<1> QED  BY <1>4, <1>5

\* A turn ends where it is: it answers, or is cancelled.
LEMMA EndKeeps ==
    ASSUME TurnsInv, NEW t \in Turn, NEW place \in {"answered", "gone"},
           turn' = [turn EXCEPT ![t].at = place], turn[t].at # "new",
           place = "answered" => turn[t].at = "flushing", ~Waits(t)' => Moves(t),
           state' = state, memory' = memory, stamps' = stamps, cleared' = cleared,
           faults' = faults, crashes' = crashes, resets' = resets
    PROVE  TurnsInv'
<1> DEFINE now == [turn[t] EXCEPT !.at = place]
<1>1. turn \in [Turn -> Locals] /\ faults \in 0..MaxFaults  BY Shapes
<1>2. /\ now \in Locals /\ now.at = place /\ now.result = turn[t].result
      /\ now.assessed = turn[t].assessed /\ now.persisted = turn[t].persisted
      /\ now.snapshot = turn[t].snapshot
  BY <1>1 DEF Locals
<1>3. turn' = [turn EXCEPT ![t] = now]  BY <1>1
<1> HIDE DEF now
<1>4. turn'[t] = now  BY <1>1, <1>3
<1>5. ~Waits(t)' /\ ~Persisting(t)'  BY <1>2, <1>4 DEF Waits, Persisting
<1>6. Moves(t)  BY <1>5
<1>7. Grows(t)  BY SameGrows
<1>8. TurnOK(t)'
  <2>1. TurnOK(t)  BY DEF TurnsInv
  <2> QED  BY <1>2, <1>4, <1>5, <2>1 DEF TurnOK
<1> QED  BY <1>1, <1>2, <1>3, <1>6, <1>7, <1>8, MoveKeeps

\* The answer.
LEMMA AnswerKeeps ==
    ASSUME TurnsInv, NEW t \in Turn, Answer(t)
    PROVE  TurnsInv'
<1> DEFINE place == "answered"
<1>1. /\ turn[t].at = "flushing" /\ turn' = [turn EXCEPT ![t].at = place] /\ queue' = queue
      /\ state' = state /\ memory' = memory /\ stamps' = stamps /\ cleared' = cleared
      /\ faults' = faults /\ crashes' = crashes /\ resets' = resets
  BY DEF Answer, At
<1>2. ~Waits(t)  BY <1>1 DEF Waits, Persisting
<1>3. ~Waits(t)' => Moves(t)  BY <1>1, <1>2, StayMoves
<1>4. turn[t].at # "new" /\ (place = "answered" => turn[t].at = "flushing")  BY <1>1
<1>5. place \in {"answered", "gone"}  OBVIOUS
<1> HIDE DEF place
<1> QED  BY <1>1, <1>3, <1>4, <1>5, EndKeeps

\* A cancellation.
LEMMA CancelKeeps ==
    ASSUME TurnsInv, NEW t \in Turn, Cancel(t)
    PROVE  TurnsInv'
<1> DEFINE place == "gone"
<1>1. /\ turn[t].at # "new" /\ turn' = [turn EXCEPT ![t].at = place]
      /\ queue' = RemoveFirst(queue, t)
      /\ state' = state /\ memory' = memory /\ stamps' = stamps /\ cleared' = cleared
      /\ faults' = faults /\ crashes' = crashes /\ resets' = resets
  BY DEF Cancel
<1>2. ~Waits(t)' => Moves(t)  BY <1>1, QuitMoves
<1>3. place \in {"answered", "gone"} /\ place # "answered"  OBVIOUS
<1> HIDE DEF place
<1> QED  BY <1>1, <1>2, <1>3, EndKeeps

-----------------------------------------------------------------------------
(* Resets and restarts.                                                    *)

\* The queue changes by the resetter only.
ResetterMoves ==
    /\ queue' \in Seq(Turn \cup {Resetter}) /\ Distinct(queue')
    /\ \A u \in Turn : InLine(u, queue') <=> InLine(u, queue)
    /\ \A u, v \in Turn : Before(u, v, queue') => Before(u, v, queue)

\* The resetter is the head of the queue, and leaves it.
LEMMA ResetterLeaves ==
    ASSUME TurnsInv, AtGate(Resetter), queue' = Tail(queue)
    PROVE  ResetterMoves /\ InLine(Resetter, queue) /\ ~InLine(Resetter, queue')
<1>1. queue \in Seq(Turn \cup {Resetter}) /\ Distinct(queue) /\ queue # <<>>
      /\ Head(queue) = Resetter
  BY Shapes DEF AtGate
<1>2. 1 \in DOMAIN queue /\ queue[1] = Resetter  BY <1>1
<1> DEFINE r == Tail(queue)
<1>3. r \in Seq(Turn \cup {Resetter}) /\ Left(r, queue, Resetter)  BY <1>1, TailLeft
<1>4. queue' = r  OBVIOUS
<1> HIDE DEF r
<1>5. \A u \in Turn : u # Resetter  BY TurnsAssumption
<1> QED  BY <1>2, <1>3, <1>4, <1>5 DEF Left, ResetterMoves, InLine

\* Nothing but the queue changes, and in it only the resetter.
LEMMA QueueKeeps ==
    ASSUME TurnsInv, ResetterMoves, InLine(Resetter, queue') => resets < MaxResets,
           state' = state, memory' = memory, turn' = turn, stamps' = stamps, cleared' = cleared,
           crashes' = crashes, resets' = resets, faults' \in 0..MaxFaults
    PROVE  TurnsInv'
<1>1. /\ stamps \in Nat /\ cleared \in 0..stamps
      /\ state \in Aggregates /\ memory \in Memories
      /\ state.assessed \subseteq state.made /\ Range(state.records) = state.made
      /\ turn \in [Turn -> Locals] /\ \A t \in Turn : InLine(t, queue) <=> Waits(t)
      /\ crashes \in 0..MaxCrashes /\ resets \in 0..MaxResets
  BY Shapes
<1>2. Memories' = Memories  BY DEF Memories
<1>3. Aggregates' = Aggregates /\ Locals' = Locals  BY <1>2 DEF Aggregates, Locals
<1>4. \A t \in Turn : (Waits(t)' <=> Waits(t)) /\ (Persisting(t)' <=> Persisting(t))
  BY DEF Waits, Persisting
<1>5. TypeOK'  BY <1>1, <1>2, <1>3, <1>4, ShapesGiveTypes DEF ResetterMoves
<1>6. LineOK'  BY <1>4 DEF TurnsInv, LineOK, ResetterMoves
<1>7. ASSUME NEW t \in Turn PROVE TurnOK(t)'
  <2>1. TurnOK(t)  BY DEF TurnsInv
  <2> QED  BY <1>4, <2>1 DEF TurnOK
<1>8. MemoryRefersToState'  BY DEF TurnsInv, MemoryRefersToState, Refers
<1> QED  BY <1>5, <1>6, <1>7, <1>8 DEF TurnsInv

\* A reset is asked for, or fails.
LEMMA AskResetKeeps ==
    ASSUME TurnsInv, AskReset \/ ResetFails
    PROVE  TurnsInv'
<1>1. faults \in 0..MaxFaults /\ queue \in Seq(Turn \cup {Resetter}) /\ Distinct(queue)
      /\ MaxFaults \in Nat
  BY Shapes, TurnsAssumption
<1>2. CASE AskReset
  <2> DEFINE r == Append(queue, Resetter)
  <2>1. /\ resets < MaxResets /\ Resetter \notin Range(queue) /\ queue' = r
        /\ state' = state /\ memory' = memory /\ turn' = turn /\ stamps' = stamps
        /\ cleared' = cleared /\ crashes' = crashes /\ resets' = resets /\ faults' = faults
    BY <1>2 DEF AskReset, Join
  <2>2. ~InLine(Resetter, queue)  BY <2>1 DEF Range, InLine
  <2>3. r \in Seq(Turn \cup {Resetter}) /\ Joined(r, queue, Resetter)
    BY <1>1, <2>2, AppendJoined
  <2> HIDE DEF r
  <2>4. \A u \in Turn : u # Resetter  BY TurnsAssumption
  <2>5. ResetterMoves  BY <2>1, <2>3, <2>4 DEF Joined, ResetterMoves
  <2> QED  BY <1>1, <2>1, <2>5, QueueKeeps
<1>3. CASE ResetFails
  <2>1. /\ AtGate(Resetter) /\ queue' = Tail(queue)
        /\ state' = state /\ memory' = memory /\ turn' = turn /\ stamps' = stamps
        /\ cleared' = cleared /\ crashes' = crashes /\ resets' = resets
        /\ faults < MaxFaults /\ faults' = faults + 1
    BY <1>3 DEF ResetFails, Fault
  <2>2. ResetterMoves /\ ~InLine(Resetter, queue')  BY <2>1, ResetterLeaves
  <2>3. faults' \in 0..MaxFaults  BY <1>1, <2>1
  <2> QED  BY <2>1, <2>2, <2>3, QueueKeeps
<1> QED  BY <1>2, <1>3

\* A reset: nothing is left to refer to, and every snapshot is from before it.
LEMMA ResetKeeps ==
    ASSUME TurnsInv, Reset
    PROVE  TurnsInv'
<1> DEFINE m == [stamp |-> stamps', last |-> None]
<1>1. /\ AtGate(Resetter) /\ queue' = Tail(queue) /\ resets' = resets + 1
      /\ stamps' = stamps + 1 /\ cleared' = stamps' /\ memory' = m
      /\ state' = [made |-> {}, records |-> [k \in {} |-> k], assessed |-> {}, memory |-> m]
      /\ turn' = turn /\ faults' = faults /\ crashes' = crashes
  BY DEF Reset, EmptyState, NoMemory
<1>2. /\ stamps \in Nat /\ turn \in [Turn -> Locals]
      /\ \A t \in Turn : InLine(t, queue) <=> Waits(t)
      /\ faults \in 0..MaxFaults /\ crashes \in 0..MaxCrashes /\ resets \in 0..MaxResets
      /\ MaxResets \in Nat
  BY Shapes, TurnsAssumption
<1>3. ResetterMoves /\ InLine(Resetter, queue) /\ ~InLine(Resetter, queue')
  BY <1>1, ResetterLeaves
<1>4. resets' \in 0..MaxResets /\ resets' # 0
  <2>1. resets < MaxResets  BY <1>3 DEF TurnsInv, LineOK
  <2> QED  BY <1>1, <1>2, <2>1
<1>5. stamps' \in Nat /\ stamps <= stamps' /\ cleared' \in 0..stamps' /\ stamps < cleared'
  BY <1>1, <1>2
<1>6. Locals \subseteq Locals'  BY <1>2, <1>5, TypesGrow
<1>7. m \in Memories'  BY <1>5 DEF Memories
<1>8. m.last = None  OBVIOUS
<1> HIDE DEF m
<1>9. /\ state'.made = {} /\ state'.assessed = {} /\ state'.memory = m
      /\ state'.records = [k \in {} |-> k]
  BY <1>1
<1>10. state' \in Aggregates' /\ Range(state'.records) = {}
  <2>1. [k \in {} |-> k] \in [{} -> Turn] /\ {} \in SUBSET Key  OBVIOUS
  <2>2. [k \in {} |-> k] \in UNION {[ks -> Turn] : ks \in SUBSET Key}  BY <2>1
  <2> QED  BY <1>1, <1>7, <1>9, <2>2 DEF Aggregates, Range
<1>11. \A t \in Turn : (Waits(t)' <=> Waits(t)) /\ (Persisting(t)' <=> Persisting(t))
  BY <1>1 DEF Waits, Persisting
<1>12. TypeOK'
  <2>1. turn' \in [Turn -> Locals']  BY <1>1, <1>2, <1>6
  <2>2. memory' \in Memories'  BY <1>1, <1>7
  <2>3. \A t \in Turn : InLine(t, queue') <=> Waits(t)'  BY <1>2, <1>3, <1>11 DEF ResetterMoves
  <2> QED  BY <1>1, <1>2, <1>3, <1>4, <1>5, <1>9, <1>10, <2>1, <2>2, <2>3, ShapesGiveTypes
           DEF ResetterMoves
<1>13. LineOK'  BY <1>1, <1>3, <1>11 DEF TurnsInv, LineOK, ResetterMoves
<1>14. ASSUME NEW t \in Turn PROVE TurnOK(t)'
  <2>1. TurnOK(t)  BY DEF TurnsInv
  <2>2. turn[t].snapshot.stamp < cleared'
    <3>1. turn[t].snapshot.stamp \in 0..stamps  BY <1>2 DEF Locals, Memories
    <3> QED  BY <1>2, <1>5, <3>1
  <2> QED  BY <1>1, <1>4, <1>9, <2>1, <2>2 DEF TurnOK
<1>15. MemoryRefersToState'  BY <1>1, <1>8, <1>9 DEF MemoryRefersToState, Refers
<1> QED  BY <1>4, <1>12, <1>13, <1>14, <1>15 DEF TurnsInv

\* A crash: the turns under way are gone, and so is the queue.
LEMMA CrashKeeps ==
    ASSUME TurnsInv, Crash
    PROVE  TurnsInv'
<1> DEFINE after(t) == IF turn[t].at \in {"new", "answered"} THEN turn[t]
                       ELSE [turn[t] EXCEPT !.at = "gone"]
<1>1. /\ crashes < MaxCrashes /\ crashes' = crashes + 1 /\ memory' = state.memory
      /\ queue' = <<>> /\ turn' = [t \in Turn |-> after(t)]
      /\ state' = state /\ stamps' = stamps /\ cleared' = cleared /\ faults' = faults
      /\ resets' = resets
  BY DEF Crash
<1>2. /\ stamps \in Nat /\ cleared \in 0..stamps /\ state \in Aggregates
      /\ state.assessed \subseteq state.made /\ Range(state.records) = state.made
      /\ turn \in [Turn -> Locals]
      /\ faults \in 0..MaxFaults /\ crashes \in 0..MaxCrashes /\ resets \in 0..MaxResets
      /\ MaxCrashes \in Nat
  BY Shapes, TurnsAssumption
<1>3. Memories' = Memories  BY <1>1 DEF Memories
<1>4. Aggregates' = Aggregates /\ Locals' = Locals  BY <1>3 DEF Aggregates, Locals
<1>5. ASSUME NEW t \in Turn
      PROVE  /\ after(t) \in Locals /\ after(t).result = turn[t].result
             /\ after(t).assessed = turn[t].assessed /\ after(t).persisted = turn[t].persisted
             /\ after(t).snapshot = turn[t].snapshot
             /\ after(t).at = "new" => after(t) = turn[t]
             /\ after(t).at \in {"new", "answered", "gone"}
             /\ after(t).at = "new" <=> turn[t].at = "new"
  <2>1. CASE turn[t].at \in {"new", "answered"}  BY <1>2, <2>1
  <2>2. CASE turn[t].at \notin {"new", "answered"}  BY <1>2, <2>2 DEF Locals
  <2> QED  BY <2>1, <2>2
<1> HIDE DEF after
<1>6. turn' \in [Turn -> Locals'] /\ \A t \in Turn : turn'[t] = after(t)  BY <1>1, <1>4, <1>5
<1>7. \A t \in Turn : ~Waits(t)' /\ ~Persisting(t)'  BY <1>5, <1>6 DEF Waits, Persisting
<1>8. Distinct(queue') /\ queue' \in Seq(Turn \cup {Resetter})
      /\ (\A x : ~InLine(x, queue')) /\ \A x, y : ~Before(x, y, queue')
  BY <1>1 DEF Distinct, InLine, Before
<1>9. TypeOK'
  <2>1. crashes' \in 0..MaxCrashes  BY <1>1, <1>2
  <2>2. memory' \in Memories'  BY <1>1, <1>2, <1>3 DEF Aggregates
  <2>3. \A t \in Turn : InLine(t, queue') <=> Waits(t)'  BY <1>7, <1>8
  <2>4. state' \in Aggregates' /\ state'.assessed \subseteq state'.made
        /\ Range(state'.records) = state'.made
    BY <1>1, <1>2, <1>4
  <2> QED  BY <1>1, <1>2, <1>6, <1>8, <2>1, <2>2, <2>3, <2>4, ShapesGiveTypes
<1>10. LineOK'  BY <1>8 DEF LineOK
<1>11. ASSUME NEW t \in Turn PROVE TurnOK(t)'
  <2>1. TurnOK(t)  BY DEF TurnsInv
  <2> QED  BY <1>1, <1>5, <1>6, <1>7, <2>1 DEF TurnOK
<1>12. MemoryRefersToState'  BY <1>1 DEF TurnsInv, MemoryRefersToState, Refers
<1> QED  BY <1>1, <1>9, <1>10, <1>11, <1>12 DEF TurnsInv

-----------------------------------------------------------------------------
(* The results.                                                            *)

\* The first state.
LEMMA InitTurns == Init => TurnsInv
<1> SUFFICES ASSUME Init PROVE TurnsInv  OBVIOUS
<1>1. /\ state = EmptyState /\ memory = NoMemory /\ queue = <<>>
      /\ turn = [t \in Turn |-> NewTurn]
      /\ stamps = 0 /\ cleared = 0 /\ faults = 0 /\ crashes = 0 /\ resets = 0
  BY DEF Init
<1>2. NoMemory \in Memories /\ NoMemory.last = None /\ NoMemory.stamp = 0
  BY <1>1 DEF NoMemory, Memories
<1> DEFINE none == [k \in {} |-> k]
<1>3. none \in UNION {[ks -> Turn] : ks \in SUBSET Key} /\ Range(none) = {}
  <2>1. none \in [{} -> Turn] /\ {} \in SUBSET Key  OBVIOUS
  <2> QED  BY <2>1 DEF Range
<1>4. /\ state.made = {} /\ state.assessed = {} /\ state.records = none
      /\ state.memory = NoMemory /\ state \in Aggregates
  <2> HIDE DEF none
  <2>1. state = [made |-> {}, records |-> none, assessed |-> {}, memory |-> NoMemory]
    BY <1>1 DEF EmptyState, none
  <2> QED  BY <1>2, <1>3, <2>1 DEF Aggregates
<1> HIDE DEF none
<1>5. NewTurn \in Locals /\ NewTurn.at = "new" /\ NewTurn.result = None
      /\ ~NewTurn.assessed /\ ~NewTurn.persisted
  BY <1>2 DEF NewTurn, Locals
<1>6. \A t \in Turn : turn[t] = NewTurn /\ ~Waits(t) /\ ~Persisting(t)
  BY <1>1, <1>5 DEF Waits, Persisting
<1>7. Distinct(queue) /\ (\A x : ~InLine(x, queue)) /\ \A x, y : ~Before(x, y, queue)
  BY <1>1 DEF Distinct, InLine, Before
<1>8. TypeOK
  <2>1. Len(queue) = Cardinality(Range(queue))
    <3>1. queue \in Seq(Turn)  BY <1>1
    <3> QED  BY <1>7, <3>1, LineLength
  <2>2. \A t \in Turn :
           t \in Range(queue) <=> (turn[t].at \in {"mutating", "annotating"} \/ Persisting(t))
    BY <1>6, <1>7 DEF Range, InLine, Waits
  <2>3. {MaxFaults, MaxCrashes, MaxResets} \subseteq Nat  BY TurnsAssumption
  <2>4. faults \in 0..MaxFaults /\ crashes \in 0..MaxCrashes /\ resets \in 0..MaxResets
    BY <1>1, <2>3
  <2>5. queue \in Seq(Turn \cup {Resetter}) /\ cleared \in 0..stamps /\ stamps \in Nat  BY <1>1
  <2>6. turn \in [Turn -> Locals] /\ memory \in Memories  BY <1>1, <1>2, <1>5
  <2> QED  BY <1>3, <1>4, <2>1, <2>2, <2>4, <2>5, <2>6 DEF TypeOK
<1>9. LineOK  BY <1>7 DEF LineOK
<1>10. ASSUME NEW t \in Turn PROVE TurnOK(t)
  BY <1>4, <1>5, <1>6 DEF TurnOK
<1>11. MemoryRefersToState  BY <1>1, <1>2, <1>4 DEF MemoryRefersToState, Refers
<1> QED  BY <1>1, <1>8, <1>9, <1>10, <1>11 DEF TurnsInv

\* A step that changes nothing.
LEMMA StutterKeeps ==
    ASSUME TurnsInv, UNCHANGED vars
    PROVE  TurnsInv'
<1>1. ResetterMoves
  BY Shapes DEF vars, ResetterMoves
<1>2. InLine(Resetter, queue') => resets < MaxResets  BY DEF vars, TurnsInv, LineOK
<1>3. faults \in 0..MaxFaults  BY Shapes
<1> QED  BY <1>1, <1>2, <1>3, QueueKeeps DEF vars

\* What a step can be.
LEMMA StepCases ==
    ASSUME [Next]_vars
    PROVE  \/ \E t \in Turn : HandleRead(t) \/ HandleFails(t)
           \/ \E t \in Turn, k \in Key, kind \in {"create", "pay"} : HandleMutation(t, k, kind)
           \/ \E t \in Turn : Locked(t) \/ Mutate(t) \/ Replay(t) \/ MutationFails(t)
           \/ \E t \in Turn : Annotate(t) \/ AnnotationFails(t)
           \/ \E t \in Turn : PersistMemory(t) \/ PersistFails(t)
           \/ \E t \in Turn : Answer(t) \/ Cancel(t)
           \/ AskReset \/ ResetFails \/ Reset \/ Crash
           \/ UNCHANGED vars
BY Zenon DEF Next, Proceed, Over

\* Every step keeps the invariant.
LEMMA StepTurns == TurnsInv /\ [Next]_vars => TurnsInv'
<1> SUFFICES ASSUME TurnsInv, [Next]_vars PROVE TurnsInv'  OBVIOUS
<1>1. ASSUME NEW t \in Turn, HandleRead(t) \/ HandleFails(t) PROVE TurnsInv'
  BY <1>1, ReadKeeps
<1>2. ASSUME NEW t \in Turn, NEW k \in Key, NEW kind \in {"create", "pay"},
             HandleMutation(t, k, kind)
      PROVE  TurnsInv'
  BY <1>2, MutationKeeps
<1>3. ASSUME NEW t \in Turn, Locked(t) \/ Mutate(t) \/ Replay(t) \/ MutationFails(t)
      PROVE  TurnsInv'
  BY <1>3, LockedKeeps, MutateKeeps, ReplayKeeps, MutationFailsKeeps
<1>4. ASSUME NEW t \in Turn, Annotate(t) \/ AnnotationFails(t) PROVE TurnsInv'
  BY <1>4, AnnotateKeeps
<1>5. ASSUME NEW t \in Turn, PersistMemory(t) \/ PersistFails(t) PROVE TurnsInv'
  BY <1>5, PersistMemoryKeeps, PersistFailsKeeps
<1>6. ASSUME NEW t \in Turn, Answer(t) \/ Cancel(t) PROVE TurnsInv'
  BY <1>6, AnswerKeeps, CancelKeeps
<1>7. CASE AskReset \/ ResetFails  BY <1>7, AskResetKeeps
<1>8. CASE Reset  BY <1>8, ResetKeeps
<1>9. CASE Crash  BY <1>9, CrashKeeps
<1>10. CASE UNCHANGED vars  BY <1>10, StutterKeeps
<1> QED  BY <1>1, <1>2, <1>3, <1>4, <1>5, <1>6, <1>7, <1>8, <1>9, <1>10, StepCases

\* The invariant is inductive.
LEMMA TurnsInvariant == Spec => []TurnsInv
BY InitTurns, StepTurns, PTL DEF Spec

\* Every variable keeps its shape, and the queue of the gate holds each turn
\* that waits for it exactly once.
THEOREM TurnsTypeCorrect == Spec => []TypeOK
<1>1. TurnsInv => TypeOK  BY DEF TurnsInv
<1> QED  BY <1>1, TurnsInvariant, PTL

\* An answer says that its operation committed if and only if it did, that it
\* was assessed only if it was, and that its memory was persisted only if that
\* memory or a later one was: whatever failed after the commit.
THEOREM AnswersHonest == Spec => []AnswersAreHonest
<1>1. TurnsInv => AnswersAreHonest
  <2> SUFFICES ASSUME TurnsInv, NEW t \in Turn, resets = 0
               PROVE  /\ t \in state.made => turn[t].result = t
                      /\ turn[t].result # None => turn[t].result \in state.made
                      /\ turn[t].assessed => turn[t].result \in state.assessed
                      /\ turn[t].persisted => state.memory.stamp >= turn[t].snapshot.stamp
    BY DEF AnswersAreHonest
  <2>1. TurnOK(t)  BY DEF TurnsInv
  <2> QED  BY <2>1 DEF TurnOK
<1> QED  BY <1>1, TurnsInvariant, PTL

\* The memory, and the persisted one, name nothing the aggregate does not have.
THEOREM MemoryRefers == Spec => []MemoryRefersToState
<1>1. TurnsInv => MemoryRefersToState  BY DEF TurnsInv
<1> QED  BY <1>1, TurnsInvariant, PTL

\* Snapshots are written in the order they were taken, but for those from
\* before a reset.
THEOREM MemoryAdvances == Spec => PersistedMemoryAdvances
<1>1. TurnsInv /\ [Next]_vars =>
         [state'.memory # state.memory => \/ state'.memory.stamp > state.memory.stamp
                                          \/ state'.memory.stamp < cleared]_vars
  <2> SUFFICES ASSUME TurnsInv, [Next]_vars, state'.memory # state.memory
               PROVE  \/ state'.memory.stamp > state.memory.stamp
                      \/ state'.memory.stamp < cleared
    OBVIOUS
  <2>1. state \in Aggregates /\ turn \in [Turn -> Locals] /\ stamps \in Nat
        /\ state.memory.stamp \in 0..stamps /\ \A t \in Turn : turn[t].snapshot.stamp \in Int
    BY Shapes DEF Aggregates, Memories, Locals
  <2>2. ASSUME NEW t \in Turn, PersistMemory(t)
        PROVE  \/ state'.memory.stamp > state.memory.stamp
               \/ state'.memory.stamp < cleared
    <3>1. Persisting(t) /\ state'.memory = turn[t].snapshot
      BY <2>1, <2>2 DEF PersistMemory, Aggregates
    <3>2. \/ state.memory.stamp < turn[t].snapshot.stamp
          \/ turn[t].snapshot.stamp < cleared
      BY <3>1 DEF TurnsInv, TurnOK
    <3> QED  BY <2>1, <3>1, <3>2
  <2>3. CASE Reset
    <3>1. state'.memory.stamp = stamps + 1
      BY <2>3 DEF Reset, EmptyState, NoMemory
    <3> QED  BY <2>1, <3>1
  <2>4. ASSUME NEW t \in Turn, Mutate(t) \/ Annotate(t) PROVE FALSE
    BY <2>1, <2>4 DEF Mutate, Annotate, Aggregates
  <2>5. state' # state  OBVIOUS
  <2>6. \/ \E t \in Turn : Mutate(t) \/ Annotate(t) \/ PersistMemory(t)
        \/ Reset
    BY <2>5, StepCases DEF HandleRead, HandleFails, HandleMutation, Locked, Replay, MutationFails,
       AnnotationFails, PersistFails, Answer, Cancel, AskReset, ResetFails, Crash, vars
  <2> QED  BY <2>2, <2>3, <2>4, <2>6
<1> QED  BY <1>1, TurnsInvariant, PTL DEF Spec, PersistedMemoryAdvances
=============================================================================
