------------------------- MODULE ResourceLocks_proof -------------------------
(***************************************************************************)
(* For every number of callers, resources and entries, and cancellations   *)
(* at every wait: acquire_many gives each caller all its resources or none *)
(* (LockTable), and the table has exactly the entries in use.              *)
(***************************************************************************)
EXTENDS ResourceLocks, FiniteSetTheorems, SequenceTheorems, WellFoundedInduction, TLAPS

-----------------------------------------------------------------------------
(* Sets and sequences.                                                     *)

\* A nonempty finite set of integers has a least element, which Min chooses.
LEMMA MinIsLeast ==
    ASSUME NEW S, S \subseteq Int, IsFiniteSet(S), S # {}
    PROVE  Min(S) \in S /\ \A y \in S : Min(S) <= y
<1> DEFINE UpTo(x) == {y \in S : y <= x}
           B == {UpTo(x) : x \in S}
<1>1. IsWellFoundedOn(StrictSubsetOrdering(S), SUBSET S)
  BY FS_StrictSubsetOrderingWellFounded, FS_FiniteSubsetsOfFinite
<1>2. PICK u \in B : \A v \in B : ~ (<<v, u>> \in StrictSubsetOrdering(S))
  <2>1. B \subseteq SUBSET S /\ B # {}  OBVIOUS
  <2> HIDE DEF B
  <2> QED  BY <1>1, <2>1, WFMin, Zenon
<1>3. PICK x \in S : u = UpTo(x)  OBVIOUS
<1>4. ASSUME NEW y \in S, y < x
      PROVE  FALSE
  <2>1. x \in Int /\ y \in Int /\ \A z \in S : z \in Int  OBVIOUS
  <2>2. x \in UpTo(x) /\ x \notin UpTo(y) /\ \A z \in S : z <= y => z <= x
    BY <1>4, <2>1
  <2>3. UpTo(y) \subseteq S /\ UpTo(x) \subseteq S /\ UpTo(y) # UpTo(x)
        /\ UpTo(y) \subseteq UpTo(x)
    BY <2>2
  <2> HIDE DEF UpTo
  <2>4. <<UpTo(y), UpTo(x)>> \in StrictSubsetOrdering(S)
    BY <2>2, <2>3 DEF StrictSubsetOrdering
  <2> QED  BY <1>2, <1>3, <2>4
<1>5. \A y \in S : x <= y
  <2>1. x \in Int /\ \A y \in S : y \in Int  OBVIOUS
  <2> HIDE DEF UpTo
  <2> QED  BY <1>4, <2>1
<1> QED  BY <1>5 DEF Min

\* It is the only least element.
LEMMA LeastIsMin ==
    ASSUME NEW S, S \subseteq Int, NEW m \in S, \A y \in S : m <= y
    PROVE  Min(S) = m
<1> DEFINE n == CHOOSE x \in S : \A y \in S : x <= y
<1>1. n \in S /\ \A y \in S : n <= y  OBVIOUS
<1> HIDE DEF n
<1>2. n <= m /\ m <= n /\ n \in Int /\ m \in Int  BY <1>1
<1>3. n = m  BY <1>2
<1> QED  BY <1>3 DEF Min, n

\* What is in a sequence, and sequences without repetitions.
InLine(x, s) == \E i \in DOMAIN s : s[i] = x
Distinct(s) == \A i, j \in DOMAIN s : s[i] = s[j] => i = j

\* The first occurrence is removed: there is no other.
LEMMA RemoveOne ==
    ASSUME NEW S, NEW s \in Seq(S), Distinct(s), NEW i \in DOMAIN s
    PROVE  /\ RemoveFirst(s, s[i]) \in Seq(S)
           /\ Len(RemoveFirst(s, s[i])) = Len(s) - 1
           /\ \A j \in 1 .. Len(s) - 1 :
                 RemoveFirst(s, s[i])[j] = IF j < i THEN s[j] ELSE s[j + 1]
<1> DEFINE I == {j \in 1 .. Len(s) : s[j] = s[i]}
           n == Len(s)
           a == SubSeq(s, 1, i - 1)
           b == SubSeq(s, i + 1, n)
<1>1. n \in Nat /\ DOMAIN s = 1 .. n /\ i \in 1 .. n /\ \A j \in 1 .. n : s[j] \in S  OBVIOUS
<1>2. I = {i}  BY <1>1 DEF Distinct
<1>3. Min(I) = i
  <2>1. i \in I /\ I \subseteq Int /\ \A y \in I : i <= y  BY <1>1, <1>2
  <2> HIDE DEF I
  <2> QED  BY <2>1, LeastIsMin
<1>4. RemoveFirst(s, s[i]) = a \o b
  <2>1. RemoveFirst(s, s[i]) = RemoveAt(s, Min(I))
    BY <1>1 DEF RemoveFirst, SelectInSeq
  <2> QED  BY <1>3, <2>1 DEF RemoveAt
<1>5. a \in Seq(S) /\ Len(a) = i - 1 /\ \A j \in 1 .. i - 1 : a[j] = s[j]
  <2> DEFINE m == i - 1
  <2>1. 1 \in Int /\ m \in Int /\ m >= 0 /\ \A j \in 1 .. m : s[j] \in S  BY <1>1
  <2> HIDE DEF m
  <2>2. /\ SubSeq(s, 1, m) \in Seq(S)
        /\ Len(SubSeq(s, 1, m)) = IF 1 <= m THEN m - 1 + 1 ELSE 0
        /\ \A j \in 1 .. m - 1 + 1 : SubSeq(s, 1, m)[j] = s[1 + j - 1]
    BY <2>1, SubSeqProperties
  <2>3. m - 1 + 1 = m /\ \A j \in 1 .. m : 1 + j - 1 = j  BY <2>1
  <2>4. /\ SubSeq(s, 1, m) \in Seq(S) /\ Len(SubSeq(s, 1, m)) = m
        /\ \A j \in 1 .. m : SubSeq(s, 1, m)[j] = s[j]
    BY <2>1, <2>2, <2>3
  <2> QED  BY <2>4 DEF m
<1>6. b \in Seq(S) /\ Len(b) = n - i /\ \A j \in 1 .. n - i : b[j] = s[j + i]
  <2> DEFINE m == i + 1
  <2>1. m \in Int /\ n \in Int /\ m - 1 <= n /\ \A j \in m .. n : s[j] \in S  BY <1>1
  <2>2. i = m - 1  BY <1>1
  <2> HIDE DEF m, n
  <2>3. /\ SubSeq(s, m, n) \in Seq(S)
        /\ Len(SubSeq(s, m, n)) = IF m <= n THEN n - m + 1 ELSE 0
        /\ \A j \in 1 .. n - m + 1 : SubSeq(s, m, n)[j] = s[m + j - 1]
    BY <2>1, SubSeqProperties
  <2>4. n - m + 1 = n - i /\ \A j \in 1 .. n - i : m + j - 1 = j + i  BY <2>1, <2>2
  <2>5. /\ SubSeq(s, m, n) \in Seq(S) /\ Len(SubSeq(s, m, n)) = n - i
        /\ \A j \in 1 .. n - i : SubSeq(s, m, n)[j] = s[j + i]
    BY <2>1, <2>2, <2>3, <2>4
  <2> QED  BY <2>5 DEF m
<1> HIDE DEF a, b, n
<1>7. /\ a \o b \in Seq(S) /\ Len(a \o b) = n - 1
      /\ \A j \in 1 .. n - 1 : (a \o b)[j] = IF j <= i - 1 THEN a[j] ELSE b[j - (i - 1)]
  <2>1. /\ a \o b \in Seq(S) /\ Len(a \o b) = Len(a) + Len(b)
        /\ \A j \in 1 .. Len(a) + Len(b) :
              (a \o b)[j] = IF j <= Len(a) THEN a[j] ELSE b[j - Len(a)]
    BY <1>5, <1>6, ConcatProperties
  <2>2. Len(a) + Len(b) = n - 1 /\ Len(a) = i - 1  BY <1>1, <1>5, <1>6
  <2> QED  BY <2>1, <2>2
<1>8. ASSUME NEW j \in 1 .. n - 1
      PROVE  (a \o b)[j] = IF j < i THEN s[j] ELSE s[j + 1]
  <2>1. CASE j < i  BY <1>1, <1>5, <1>7, <2>1
  <2>2. CASE ~(j < i)
    <3>1. j - (i - 1) \in 1 .. n - i /\ (j - (i - 1)) + i = j + 1  BY <1>1, <2>2
    <3>2. b[j - (i - 1)] = s[j + 1]  BY <1>6, <3>1
    <3> QED  BY <1>1, <1>7, <2>2, <3>2
  <2> QED  BY <2>1, <2>2
<1> QED  BY <1>4, <1>7, <1>8 DEF n

\* What is left: the others, in their order.
LEMMA Removed ==
    ASSUME NEW S, NEW s \in Seq(S), Distinct(s), NEW x, InLine(x, s)
    PROVE  /\ RemoveFirst(s, x) \in Seq(S) /\ Distinct(RemoveFirst(s, x))
           /\ \A y : InLine(y, RemoveFirst(s, x)) <=> y # x /\ InLine(y, s)
           /\ s[1] # x => RemoveFirst(s, x)[1] = s[1]
<1> DEFINE r == RemoveFirst(s, x)
           n == Len(s)
<1>1. PICK i \in DOMAIN s : s[i] = x  BY DEF InLine
<1>2. n \in Nat /\ DOMAIN s = 1 .. n  OBVIOUS
<1>3. /\ r \in Seq(S) /\ Len(r) = n - 1
      /\ \A j \in 1 .. n - 1 : r[j] = IF j < i THEN s[j] ELSE s[j + 1]
  <2>1. /\ RemoveFirst(s, s[i]) \in Seq(S)
        /\ Len(RemoveFirst(s, s[i])) = Len(s) - 1
        /\ \A j \in 1 .. Len(s) - 1 :
              RemoveFirst(s, s[i])[j] = IF j < i THEN s[j] ELSE s[j + 1]
    BY RemoveOne
  <2> QED  BY <1>1, <2>1
<1> HIDE DEF r
<1>4. DOMAIN r = 1 .. n - 1  BY <1>3
<1> HIDE DEF n
<1>5. i \in 1 .. n  BY <1>1, <1>2
<1> DEFINE at(j) == IF j < i THEN j ELSE j + 1
<1>6. \A j \in 1 .. n - 1 : at(j) \in 1 .. n /\ at(j) # i /\ r[j] = s[at(j)]
  BY <1>2, <1>3, <1>5
<1>7. \A j, k \in 1 .. n - 1 : at(j) = at(k) => j = k  BY <1>2, <1>5
<1>8. \A k \in 1 .. n : k # i => \E j \in 1 .. n - 1 : at(j) = k
  <2> SUFFICES ASSUME NEW k \in 1 .. n, k # i PROVE \E j \in 1 .. n - 1 : at(j) = k
    OBVIOUS
  <2>1. CASE k < i
    <3>1. k \in 1 .. n - 1 /\ at(k) = k  BY <1>2, <1>5, <2>1
    <3> QED  BY <3>1
  <2>2. CASE ~(k < i)
    <3>1. k - 1 \in 1 .. n - 1 /\ at(k - 1) = k  BY <1>2, <1>5, <2>2
    <3> QED  BY <3>1
  <2> QED  BY <2>1, <2>2
<1>9. s[1] # x => r[1] = s[1]
  <2> SUFFICES ASSUME s[1] # x PROVE r[1] = s[1]  OBVIOUS
  <2>1. i # 1 /\ 1 < i /\ 1 \in 1 .. n - 1  BY <1>1, <1>2, <1>5
  <2> QED  BY <1>3, <2>1
<1> HIDE DEF at
<1>10. Distinct(r)  BY <1>2, <1>4, <1>6, <1>7 DEF Distinct
<1>11. \A y : InLine(y, r) <=> y # x /\ InLine(y, s)
  <2>1. ASSUME NEW y, InLine(y, r) PROVE y # x /\ InLine(y, s)
    BY <1>1, <1>2, <1>4, <1>6, <2>1 DEF InLine, Distinct
  <2>2. ASSUME NEW y, y # x, InLine(y, s) PROVE InLine(y, r)
    BY <1>1, <1>2, <1>4, <1>6, <1>8, <2>2 DEF InLine
  <2> QED  BY <2>1, <2>2
<1> QED  BY <1>3, <1>9, <1>10, <1>11 DEF r

\* A newcomer joins at the end.
LEMMA Appended ==
    ASSUME NEW S, NEW s \in Seq(S), Distinct(s), NEW x \in S, ~InLine(x, s)
    PROVE  /\ Append(s, x) \in Seq(S) /\ Distinct(Append(s, x))
           /\ \A y : InLine(y, Append(s, x)) <=> y = x \/ InLine(y, s)
           /\ s # <<>> => Append(s, x)[1] = s[1]
<1> DEFINE r == Append(s, x)
           n == Len(s)
<1>1. /\ n \in Nat /\ DOMAIN s = 1 .. n /\ DOMAIN r = 1 .. n + 1 /\ r \in Seq(S)
      /\ \A i \in 1 .. n : r[i] = s[i]
      /\ r[n + 1] = x
      /\ s # <<>> => n # 0
  OBVIOUS
<1> HIDE DEF r, n
<1>2. \A i \in 1 .. n + 1 : i \in 1 .. n \/ i = n + 1  BY <1>1
<1>3. \A i \in 1 .. n : i \in 1 .. n + 1 /\ i # n + 1  BY <1>1
<1>4. n + 1 \in 1 .. n + 1  BY <1>1
<1>5. \A i \in 1 .. n : s[i] # x  BY <1>1 DEF InLine
<1>6. Distinct(r)  BY <1>1, <1>2, <1>5 DEF Distinct
<1>7. \A y : InLine(y, r) <=> y = x \/ InLine(y, s)
  <2>1. ASSUME NEW y, InLine(y, r) PROVE y = x \/ InLine(y, s)
    BY <1>1, <1>2, <2>1 DEF InLine
  <2>2. ASSUME NEW y, y = x \/ InLine(y, s) PROVE InLine(y, r)
    BY <1>1, <1>3, <1>4, <2>2 DEF InLine
  <2> QED  BY <2>1, <2>2
<1>8. s # <<>> => r[1] = s[1]
  <2> SUFFICES ASSUME s # <<>> PROVE r[1] = s[1]  OBVIOUS
  <2>1. 1 \in 1 .. n  BY <1>1
  <2> QED  BY <1>1, <2>1
<1> QED  BY <1>1, <1>6, <1>7, <1>8 DEF r

\* A sequence is empty if nothing is in it, and else has a head.
LEMMA HeadOfLine ==
    ASSUME NEW S, NEW s \in Seq(S)
    PROVE  /\ s = <<>> <=> \A x \in S : ~InLine(x, s)
           /\ s # <<>> => Head(s) = s[1] /\ InLine(s[1], s) /\ s[1] \in S
<1>1. CASE s = <<>>  BY <1>1 DEF InLine
<1>2. CASE s # <<>>
  <2>1. 1 \in DOMAIN s /\ s[1] \in S /\ Head(s) = s[1]  BY <1>2
  <2> QED  BY <1>2, <2>1 DEF InLine
<1> QED  BY <1>1, <1>2

-----------------------------------------------------------------------------
(* The inductive invariant.                                                *)

\* The entry whose lock a waiting caller waits for, and who uses a resource.
EntryOf(t) == mine[t][Awaited(t)]
Users(k) == {t \in Caller : k \in want[t]}

\* The table holds one entry per resource in use, which counts its users.
TableOK ==
    /\ TableExact
    /\ \A j, k \in DOMAIN table : table[j] = table[k] => j = k
    /\ \A k \in DOMAIN table : IsFiniteSet(Users(k))
    /\ \A t \in Caller : IsFiniteSet(want[t])

\* An entry outside of the table is as good as new.
IdleOK ==
    \A e \in Entry : (\A k \in DOMAIN table : table[k] # e) =>
        refs[e] = 0 /\ ~locked[e] /\ waiters[e] = <<>>

\* A lock that is locked is held by one caller.
HoldersOK ==
    /\ \A t, u \in Caller : \A k \in got[t] \cap got[u] : t = u
    /\ \A t \in Caller : \A k \in got[t] : locked[mine[t][k]]
    /\ \A k \in DOMAIN table : locked[table[k]] => \E t \in Caller : k \in got[t]

\* A caller has all it wants or waits for the rest.
CallersOK ==
    /\ \A t \in Caller : Waiting(t) <=> got[t] # want[t]
    /\ \A t \in interrupted : Waiting(t)

\* The waiters of an entry are those who wait for it, once each; one that was
\* woken is the first of them, and finds the lock free.
WaitersOK ==
    /\ \A e \in Entry : Distinct(waiters[e])
    /\ \A e \in Entry, t \in Caller : InLine(t, waiters[e]) <=> Waiting(t) /\ EntryOf(t) = e
    /\ \A t \in Caller : future[t] = "woken" =>
          ~locked[EntryOf(t)] /\ waiters[EntryOf(t)][1] = t

LocksInv == TypeOK /\ TableOK /\ IdleOK /\ HoldersOK /\ CallersOK /\ WaitersOK

\* The waiters and the futures when the caller t does not wait, or no longer.
WithoutCaller(t, wq, fut) ==
    /\ wq \in [Entry -> Seq(Caller)]
    /\ fut \in [Caller -> {"none", "pending", "woken", "cancelled"}] /\ fut[t] = "none"
    /\ \A e \in Entry : Distinct(wq[e])
    /\ \A e \in Entry, u \in Caller :
          InLine(u, wq[e]) <=> u # t /\ Waiting(u) /\ EntryOf(u) = e
    /\ \A u \in Caller \ {t} : fut[u] # "none" <=> Waiting(u)
    /\ \A u \in Caller \ {t} : fut[u] = "woken" =>
          ~locked[EntryOf(u)] /\ wq[EntryOf(u)][1] = u

\* What a caller wants and waits for is in the table.
LEMMA WantedEntries ==
    ASSUME LocksInv, NEW t \in Caller
    PROVE  /\ \A k \in want[t] : k \in DOMAIN table /\ mine[t][k] = table[k] /\ table[k] \in Entry
           /\ got[t] \subseteq want[t]
           /\ Waiting(t) => /\ Awaited(t) \in want[t] \ got[t]
                            /\ EntryOf(t) = table[Awaited(t)] /\ EntryOf(t) \in Entry
<1>1. /\ \A k \in want[t] : k \in DOMAIN table /\ mine[t][k] = table[k] /\ table[k] \in Entry
      /\ got[t] \subseteq want[t] /\ want[t] \subseteq Resource /\ IsFiniteSet(want[t])
  BY DEF LocksInv, TypeOK, TableOK, TableExact
<1>2. ASSUME Waiting(t)
      PROVE  Awaited(t) \in want[t] \ got[t]
  <2> DEFINE rest == want[t] \ got[t]
  <2>1. rest # {} /\ rest \subseteq Int /\ IsFiniteSet(rest)
    <3>1. got[t] # want[t]  BY <1>2 DEF LocksInv, CallersOK
    <3>2. rest # {} /\ rest \subseteq want[t]  BY <1>1, <3>1
    <3> HIDE DEF rest
    <3> QED  BY <1>1, <3>2, FS_Subset, LocksAssumption
  <2> HIDE DEF rest
  <2>2. Min(rest) \in rest  BY <2>1, MinIsLeast
  <2> QED  BY <2>2 DEF rest, Awaited
<1> QED  BY <1>1, <1>2 DEF EntryOf

\* One who does not wait is in no line.
LEMMA OutOfLine ==
    ASSUME LocksInv, NEW t \in Caller, ~Waiting(t)
    PROVE  WithoutCaller(t, waiters, future)
BY DEF LocksInv, TypeOK, WaitersOK, Waiting, WithoutCaller

\* One who leaves the line leaves it as if it had never been there; if it was
\* woken nobody else is at its entry.
LEMMA LeavesLine ==
    ASSUME LocksInv, NEW t \in Caller, Waiting(t)
    PROVE  /\ WithoutCaller(t, [waiters EXCEPT ![EntryOf(t)] = RemoveFirst(@, t)],
                            [future EXCEPT ![t] = "none"])
           /\ future[t] = "woken" =>
                \A u \in Caller \ {t} : future[u] = "woken" => EntryOf(u) # EntryOf(t)
<1> DEFINE e == EntryOf(t)
           r == RemoveFirst(waiters[e], t)
           wq == [waiters EXCEPT ![e] = r]
           fut == [future EXCEPT ![t] = "none"]
<1>1. e \in Entry  BY WantedEntries
<1> HIDE DEF e
<1>2. /\ waiters \in [Entry -> Seq(Caller)]
      /\ future \in [Caller -> {"none", "pending", "woken", "cancelled"}]
  BY DEF LocksInv, TypeOK
<1>3. waiters[e] \in Seq(Caller) /\ Distinct(waiters[e]) /\ InLine(t, waiters[e])
  BY <1>1, <1>2 DEF LocksInv, WaitersOK, e
<1>4. /\ r \in Seq(Caller) /\ Distinct(r)
      /\ \A y : InLine(y, r) <=> y # t /\ InLine(y, waiters[e])
      /\ waiters[e][1] # t => r[1] = waiters[e][1]
  BY <1>3, Removed
<1> HIDE DEF r
<1>5. /\ wq \in [Entry -> Seq(Caller)] /\ wq[e] = r
      /\ \A d \in Entry \ {e} : wq[d] = waiters[d]
  BY <1>1, <1>2, <1>4
<1>6. /\ fut \in [Caller -> {"none", "pending", "woken", "cancelled"}] /\ fut[t] = "none"
      /\ \A u \in Caller \ {t} : fut[u] = future[u]
  BY <1>2
<1> HIDE DEF wq, fut
<1>7. \A d \in Entry : Distinct(wq[d])  BY <1>4, <1>5 DEF LocksInv, WaitersOK
<1>8. ASSUME NEW d \in Entry, NEW u \in Caller
      PROVE  InLine(u, wq[d]) <=> u # t /\ Waiting(u) /\ EntryOf(u) = d
  <2>1. InLine(u, waiters[d]) <=> Waiting(u) /\ EntryOf(u) = d  BY DEF LocksInv, WaitersOK
  <2>2. CASE d = e  BY <1>4, <1>5, <2>1, <2>2
  <2>3. CASE d # e
    <3>1. InLine(u, wq[d]) <=> InLine(u, waiters[d])  BY <1>5, <2>3
    <3>2. u = t => EntryOf(u) # d  BY <2>3 DEF e
    <3> QED  BY <2>1, <3>1, <3>2
  <2> QED  BY <2>2, <2>3
<1>9. ASSUME NEW u \in Caller \ {t}, fut[u] = "woken"
      PROVE  ~locked[EntryOf(u)] /\ wq[EntryOf(u)][1] = u
  <2>1. future[u] = "woken" /\ Waiting(u)  BY <1>6, <1>9 DEF Waiting
  <2>2. ~locked[EntryOf(u)] /\ waiters[EntryOf(u)][1] = u /\ EntryOf(u) \in Entry
    BY <2>1, WantedEntries DEF LocksInv, WaitersOK
  <2>3. CASE EntryOf(u) = e  BY <1>4, <1>5, <1>9, <2>2, <2>3
  <2>4. CASE EntryOf(u) # e  BY <1>5, <2>2, <2>4
  <2> QED  BY <2>2, <2>3, <2>4
<1>10. \A u \in Caller \ {t} : fut[u] # "none" <=> Waiting(u)  BY <1>6 DEF Waiting
<1>11. WithoutCaller(t, wq, fut)
  BY <1>5, <1>6, <1>7, <1>8, <1>9, <1>10 DEF WithoutCaller
<1>12. ASSUME future[t] = "woken", NEW u \in Caller \ {t}, future[u] = "woken",
              EntryOf(u) = EntryOf(t)
       PROVE  FALSE
  BY <1>12 DEF LocksInv, WaitersOK
<1> QED  BY <1>11, <1>12 DEF wq, fut, r, e

-----------------------------------------------------------------------------
(* Acquiring in ascending order.                                           *)

\* What Advance does: the caller gets locks that are free, either all of them
\* or up to the least it still wants, whose line it joins.
Advanced(t, ks, ents, have, wq, fut) ==
    LET up == got'[t]
    IN  /\ have \subseteq up /\ up \subseteq ks
        /\ got' = [got EXCEPT ![t] = up]
        /\ locked' = [e \in Entry |-> locked[e] \/ \E k \in up : ents[k] = e]
        /\ \A k \in up \ have : IsFree(ents[k], locked, wq, fut)
        /\ \/ up = ks /\ waiters' = wq /\ future' = [fut EXCEPT ![t] = "none"]
           \/ \E m \in ks \ up :
                 /\ Min(ks \ up) = m
                 /\ waiters' = [wq EXCEPT ![ents[m]] = Append(@, t)]
                 /\ future' = [fut EXCEPT ![t] = "pending"]

\* It does that.
LEMMA AdvanceAdvances ==
    ASSUME NEW t \in Caller, NEW ks, ks \subseteq Int, IsFiniteSet(ks), NEW ents,
           NEW have, have \subseteq ks, NEW wq, NEW fut,
           got \in [Caller -> SUBSET Resource], Advance(t, ks, ents, have, wq, fut)
    PROVE  Advanced(t, ks, ents, have, wq, fut)
<1> DEFINE busy == {k \in ks \ have : ~IsFree(ents[k], locked, wq, fut)}
           below == {k \in ks : k < Min(busy)} \cup have
           upTo == IF busy = {} THEN ks ELSE below
<1>1. /\ got' = [got EXCEPT ![t] = upTo]
      /\ locked' = [e \in Entry |-> locked[e] \/ \E k \in upTo : ents[k] = e]
      /\ waiters' = IF busy = {} THEN wq
                    ELSE [wq EXCEPT ![ents[Min(busy)]] = Append(@, t)]
      /\ future' = [fut EXCEPT ![t] = IF busy = {} THEN "none" ELSE "pending"]
  BY DEF Advance
<1>2. got'[t] = upTo  BY <1>1
<1>3. CASE busy = {}
  <2>1. upTo = ks  BY <1>3
  <2>2. \A k \in ks \ have : IsFree(ents[k], locked, wq, fut)  BY <1>3
  <2>3. /\ got' = [got EXCEPT ![t] = ks]
        /\ locked' = [e \in Entry |-> locked[e] \/ \E k \in ks : ents[k] = e]
        /\ waiters' = wq /\ future' = [fut EXCEPT ![t] = "none"] /\ got'[t] = ks
    BY <1>1, <1>2, <1>3, <2>1
  <2> QED  BY <2>2, <2>3 DEF Advanced
<1>4. CASE busy # {}
  <2> DEFINE m == Min(busy)
  <2>1. m \in busy /\ \A y \in busy : m <= y
    <3>1. busy \subseteq ks  OBVIOUS
    <3>2. IsFiniteSet(busy) /\ busy \subseteq Int  
      <4> HIDE DEF busy
      <4> QED  BY <3>1, FS_Subset
    <3> HIDE DEF busy
    <3> QED  BY <1>4, <3>2, MinIsLeast
  <2>2. upTo = {k \in ks : k < m} \cup have  BY <1>4
  <2> HIDE DEF m
  <2>3. m \in ks /\ m \notin have /\ m \in Int /\ ~IsFree(ents[m], locked, wq, fut)
    BY <2>1
  <2>4. m \notin upTo /\ upTo \subseteq ks /\ have \subseteq upTo
    <3>1. ~(m < m)  BY <2>3
    <3> HIDE DEF upTo, busy
    <3> QED  BY <2>2, <2>3, <3>1
  <2>5. \A k \in upTo \ have : IsFree(ents[k], locked, wq, fut)
    <3> SUFFICES ASSUME NEW k \in upTo \ have, ~IsFree(ents[k], locked, wq, fut) PROVE FALSE
      OBVIOUS
    <3>1. k \in ks /\ k < m /\ k \in Int  BY <2>2
    <3>2. k \in busy  BY <3>1
    <3>3. m <= k  BY <2>1, <3>2
    <3> QED  BY <2>3, <3>1, <3>3
  <2>6. Min(ks \ upTo) = m
    <3> DEFINE rest == ks \ upTo
    <3>1. m \in rest  BY <2>3, <2>4
    <3>2. \A y \in rest : m <= y
      <4> SUFFICES ASSUME NEW y \in rest PROVE m <= y  OBVIOUS
      <4>1. y \in ks /\ y \in Int /\ ~(y < m)  BY <2>2
      <4> QED  BY <2>3, <4>1
    <3>3. rest \subseteq Int  OBVIOUS
    <3> HIDE DEF rest, upTo
    <3>4. Min(rest) = m  BY <3>1, <3>2, <3>3, LeastIsMin
    <3> QED  BY <3>4 DEF rest
  <2>7. /\ waiters' = [wq EXCEPT ![ents[m]] = Append(@, t)]
        /\ future' = [fut EXCEPT ![t] = "pending"]
    BY <1>1, <1>4 DEF m
  <2> HIDE DEF busy, upTo
  <2>8. m \in ks \ upTo  BY <2>3, <2>4
  <2> QED  BY <1>1, <1>2, <2>4, <2>5, <2>6, <2>7, <2>8 DEF Advanced
<1> QED  BY <1>3, <1>4

\* A caller that advances keeps holders, callers and waiters as they should be,
\* provided it joins a proper table, nobody else has what it has, and nobody who
\* was woken waits for that.
LEMMA AdvanceKeeps ==
    ASSUME LocksInv, TableOK', NEW t \in Caller, NEW have, NEW wq, NEW fut,
           DOMAIN table' \subseteq Resource, \A k \in DOMAIN table' : table'[k] \in Entry,
           got[t] \subseteq have, have \subseteq want'[t],
           WithoutCaller(t, wq, fut),
           Advanced(t, want'[t], mine'[t], have, wq, fut),
           \A u \in Caller \ {t} : want'[u] = want[u] /\ mine'[u] = mine[u],
           \A k \in DOMAIN table' :
              (k \in DOMAIN table /\ table'[k] = table[k]) \/ ~locked[table'[k]],
           \A u \in Caller \ {t} : \A k \in have : k \notin got[u],
           \A u \in Caller \ {t} : \A k \in have : fut[u] = "woken" => EntryOf(u) # mine'[t][k],
           interrupted' = interrupted, t \notin interrupted
    PROVE  /\ HoldersOK' /\ CallersOK' /\ WaitersOK'
           /\ locked' \in [Entry -> BOOLEAN]
           /\ waiters' \in [Entry -> Seq(Caller)]
           /\ future' \in [Caller -> {"none", "pending", "woken", "cancelled"}]
           /\ got'[t] \subseteq want'[t] /\ \A u \in Caller \ {t} : got'[u] = got[u]
<1> DEFINE up == got'[t]
           ks == want'[t]
           ents == mine'[t]
<1>1. /\ TypeOK /\ got \in [Caller -> SUBSET Resource] /\ locked \in [Entry -> BOOLEAN]
      /\ \A u \in Caller : got[u] \subseteq want[u]
  BY DEF LocksInv, TypeOK
<1>2. /\ have \subseteq up /\ up \subseteq ks
      /\ got' = [got EXCEPT ![t] = up]
      /\ locked' = [e \in Entry |-> locked[e] \/ \E k \in up : ents[k] = e]
      /\ \A k \in up \ have : IsFree(ents[k], locked, wq, fut)
      /\ \/ up = ks /\ waiters' = wq /\ future' = [fut EXCEPT ![t] = "none"]
         \/ \E m \in ks \ up :
               /\ Min(ks \ up) = m
               /\ waiters' = [wq EXCEPT ![ents[m]] = Append(@, t)]
               /\ future' = [fut EXCEPT ![t] = "pending"]
  BY DEF Advanced
<1>3. \A u \in Caller \ {t} : got'[u] = got[u]  BY <1>1, <1>2
<1>4. /\ \A k \in ks : ents[k] = table'[k] /\ k \in DOMAIN table' /\ ents[k] \in Entry
      /\ \A u \in Caller \ {t} : \A k \in want[u] : mine[u][k] = table'[k] /\ k \in DOMAIN table'
      /\ \A j, k \in DOMAIN table' : table'[j] = table'[k] => j = k
  BY DEF TableOK, TableExact
<1>5. ASSUME NEW u \in Caller \ {t}, NEW k \in got[u], k \in up
      PROVE  FALSE
  <2>1. k \in up \ have /\ k \in want[u] /\ k \in ks  BY <1>1, <1>2, <1>5
  <2>2. ~locked[ents[k]]  BY <1>2, <2>1 DEF IsFree
  <2>3. ents[k] = mine[u][k]  BY <1>4, <2>1
  <2> QED  BY <1>5, <2>2, <2>3 DEF LocksInv, HoldersOK
<1>6. HoldersOK'
  <2>1. ASSUME NEW u \in Caller, NEW v \in Caller, NEW k \in got'[u] \cap got'[v], u # v
        PROVE  FALSE
    <3>1. CASE u = t  BY <1>3, <1>5, <2>1, <3>1
    <3>2. CASE v = t  BY <1>3, <1>5, <2>1, <3>2
    <3>3. CASE u # t /\ v # t
      BY <1>3, <2>1, <3>3 DEF LocksInv, HoldersOK
    <3> QED  BY <3>1, <3>2, <3>3
  <2>2. ASSUME NEW u \in Caller, NEW k \in got'[u] PROVE locked'[mine'[u][k]]
    <3>1. CASE u = t  BY <1>2, <1>4, <2>2, <3>1
    <3>2. CASE u # t
      <4>1. k \in got[u] /\ mine'[u] = mine[u] /\ k \in want[u]  BY <1>1, <1>3, <2>2, <3>2
      <4>2. locked[mine[u][k]]  BY <4>1 DEF LocksInv, HoldersOK
      <4>3. mine[u][k] \in Entry  BY <4>1, WantedEntries
      <4> QED  BY <1>2, <4>1, <4>2, <4>3
    <3> QED  BY <3>1, <3>2
  <2>3. ASSUME NEW k \in DOMAIN table', locked'[table'[k]] PROVE \E u \in Caller : k \in got'[u]
    <3>1. CASE locked[table'[k]]
      <4>1. k \in DOMAIN table /\ locked[table[k]]  BY <3>1
      <4>2. PICK u \in Caller : k \in got[u]  BY <4>1 DEF LocksInv, HoldersOK
      <4>3. CASE u = t  BY <1>2, <4>2, <4>3
      <4>4. CASE u # t  BY <1>3, <4>2, <4>4
      <4> QED  BY <4>3, <4>4
    <3>2. CASE ~locked[table'[k]]
      <4>1. PICK j \in up : ents[j] = table'[k]  BY <1>2, <2>3, <3>2
      <4>2. j = k  BY <1>2, <1>4, <4>1
      <4> QED  BY <4>1, <4>2
    <3> QED  BY <3>1, <3>2
  <2> QED  BY <2>1, <2>2, <2>3 DEF HoldersOK
<1>7. /\ wq \in [Entry -> Seq(Caller)]
      /\ fut \in [Caller -> {"none", "pending", "woken", "cancelled"}] /\ fut[t] = "none"
      /\ \A e \in Entry : Distinct(wq[e])
      /\ \A e \in Entry, u \in Caller :
            InLine(u, wq[e]) <=> u # t /\ Waiting(u) /\ EntryOf(u) = e
      /\ \A u \in Caller \ {t} : fut[u] # "none" <=> Waiting(u)
      /\ \A u \in Caller \ {t} : fut[u] = "woken" =>
            ~locked[EntryOf(u)] /\ wq[EntryOf(u)][1] = u
  BY DEF WithoutCaller
<1>8. /\ future' \in [Caller -> {"none", "pending", "woken", "cancelled"}]
      /\ future'[t] = IF up = ks THEN "none" ELSE "pending"
      /\ \A u \in Caller \ {t} : future'[u] = fut[u]
  BY <1>2, <1>7
<1>9. \A u \in Caller \ {t} : Waiting(u)' <=> Waiting(u)  BY <1>7, <1>8 DEF Waiting
<1>10. CallersOK'
  <2>1. ASSUME NEW u \in Caller PROVE Waiting(u)' <=> got'[u] # want'[u]
    <3>1. CASE u = t  BY <1>8, <3>1 DEF Waiting
    <3>2. CASE u # t  BY <1>3, <1>9, <3>2 DEF LocksInv, CallersOK
    <3> QED  BY <3>1, <3>2
  <2>2. \A u \in interrupted : u \in Caller \ {t} /\ Waiting(u)
    BY DEF LocksInv, TypeOK, CallersOK
  <2> QED  BY <1>9, <2>1, <2>2 DEF CallersOK
<1>11. \A u \in Caller \ {t} : EntryOf(u)' = EntryOf(u)
  BY <1>3 DEF EntryOf, Awaited
<1>12. \A e \in Entry : \/ waiters'[e] = wq[e] /\ (Waiting(t)' => EntryOf(t)' # e)
                        \/ waiters'[e] = Append(wq[e], t) /\ Waiting(t)' /\ EntryOf(t)' = e
  <2>1. CASE up = ks /\ waiters' = wq /\ future' = [fut EXCEPT ![t] = "none"]
    BY <1>8, <2>1 DEF Waiting
  <2>2. ASSUME NEW m \in ks \ up, Min(ks \ up) = m,
               waiters' = [wq EXCEPT ![ents[m]] = Append(@, t)],
               future' = [fut EXCEPT ![t] = "pending"]
        PROVE  \A e \in Entry : \/ waiters'[e] = wq[e] /\ (Waiting(t)' => EntryOf(t)' # e)
                                \/ waiters'[e] = Append(wq[e], t) /\ Waiting(t)' /\ EntryOf(t)' = e
    <3>1. Waiting(t)'  BY <1>7, <2>2 DEF Waiting
    <3>2. EntryOf(t)' = ents[m] /\ ents[m] \in Entry  BY <1>4, <2>2 DEF EntryOf, Awaited
    <3> HIDE DEF ents
    <3> QED  BY <1>7, <2>2, <3>1, <3>2
  <2> QED  BY <1>2, <2>1, <2>2
<1>13. ASSUME NEW e \in Entry
       PROVE  /\ waiters'[e] \in Seq(Caller) /\ Distinct(waiters'[e])
              /\ \A u \in Caller : InLine(u, waiters'[e]) <=> Waiting(u)' /\ EntryOf(u)' = e
              /\ wq[e] # <<>> => waiters'[e][1] = wq[e][1]
  <2>1. wq[e] \in Seq(Caller) /\ Distinct(wq[e]) /\ ~InLine(t, wq[e])  BY <1>7
  <2>2. \A u \in Caller \ {t} : InLine(u, wq[e]) <=> Waiting(u)' /\ EntryOf(u)' = e
    BY <1>7, <1>9, <1>11
  <2>3. CASE waiters'[e] = wq[e] /\ (Waiting(t)' => EntryOf(t)' # e)
    BY <2>1, <2>2, <2>3
  <2>4. CASE waiters'[e] = Append(wq[e], t) /\ Waiting(t)' /\ EntryOf(t)' = e
    <3>1. /\ Append(wq[e], t) \in Seq(Caller) /\ Distinct(Append(wq[e], t))
          /\ \A y : InLine(y, Append(wq[e], t)) <=> y = t \/ InLine(y, wq[e])
          /\ wq[e] # <<>> => Append(wq[e], t)[1] = wq[e][1]
      BY <2>1, Appended
    <3> QED  BY <2>2, <2>4, <3>1
  <2> QED  BY <1>12, <2>3, <2>4
<1>14. ASSUME NEW u \in Caller, future'[u] = "woken"
       PROVE  ~locked'[EntryOf(u)'] /\ waiters'[EntryOf(u)'][1] = u
  <2>1. u # t /\ fut[u] = "woken"  BY <1>8, <1>14
  <2> DEFINE e == EntryOf(u)
  <2>2. Waiting(u) /\ EntryOf(u)' = e /\ e \in Entry
    BY <1>7, <1>11, <2>1, WantedEntries
  <2>3. InLine(u, wq[e]) /\ ~locked[e] /\ wq[e][1] = u  BY <1>7, <2>1, <2>2
  <2> HIDE DEF e
  <2>4. ASSUME NEW k \in up, ents[k] = e PROVE FALSE
    <3>1. k \notin have  BY <2>1, <2>4 DEF e
    <3>2. \A i \in DOMAIN wq[e] : fut[wq[e][i]] = "cancelled"
      BY <1>2, <2>4, <3>1 DEF IsFree
    <3> QED  BY <2>1, <2>3, <3>2 DEF InLine
  <2>5. ~locked'[e]  BY <1>2, <2>2, <2>3, <2>4
  <2>6. wq[e] # <<>>  BY <2>3 DEF InLine
  <2> QED  BY <1>13, <2>2, <2>3, <2>5, <2>6
<1>15. WaitersOK'  BY <1>13, <1>14 DEF WaitersOK
<1>16. locked' \in [Entry -> BOOLEAN]  BY <1>1, <1>2
<1>17. waiters' \in [Entry -> Seq(Caller)]
  <2>1. waiters' = [e \in Entry |-> waiters'[e]]  BY <1>2, <1>7
  <2> QED  BY <1>13, <2>1
<1> QED  BY <1>2, <1>3, <1>6, <1>8, <1>10, <1>15, <1>16, <1>17

-----------------------------------------------------------------------------
(* The steps.                                                              *)

\* Outside of what it wants, a caller that advances changes nothing.
LEMMA OthersUnmoved ==
    ASSUME NEW t \in Caller, NEW ks, NEW ents, NEW have, NEW wq, NEW fut, NEW e \in Entry,
           \A k \in ks : ents[k] # e, wq \in [Entry -> Seq(Caller)],
           Advanced(t, ks, ents, have, wq, fut)
    PROVE  (locked'[e] <=> locked[e]) /\ waiters'[e] = wq[e]
<1>1. (locked'[e] <=> locked[e])  BY DEF Advanced
<1>2. waiters'[e] = wq[e]
  <2>1. CASE waiters' = wq  BY <2>1
  <2>2. ASSUME NEW m \in ks, waiters' = [wq EXCEPT ![ents[m]] = Append(@, t)]
        PROVE  waiters'[e] = wq[e]
    BY <2>2
  <2> QED  BY <2>1, <2>2 DEF Advanced
<1> QED  BY <1>1, <1>2

\* acquire_many is entered: the table grows by new entries, and counts.
LEMMA CallKeepsTable ==
    ASSUME LocksInv, NEW t \in Caller, NEW ks \in Wanted, Call(t, ks)
    PROVE  /\ TableOK' /\ refs' \in [Entry -> Nat]
           /\ DOMAIN table' \subseteq Resource /\ \A k \in DOMAIN table' : table'[k] \in Entry
           /\ want' = [want EXCEPT ![t] = ks] /\ mine'[t] \in [ks -> Entry]
           /\ mine' = [mine EXCEPT ![t] = mine'[t]]
           /\ \A k \in ks : table'[k] = mine'[t][k]
           /\ \A k \in DOMAIN table : k \in DOMAIN table' /\ table'[k] = table[k]
           /\ \A k \in DOMAIN table' : k \in DOMAIN table \/ ~locked[table'[k]]
           /\ \A e \in Entry : (\A k \in DOMAIN table' : table'[k] # e) => refs'[e] = refs[e]
<1> DEFINE created == ks \ DOMAIN table
           new == Fresh(created)
           ents == [k \in ks |-> IF k \in DOMAIN table THEN table[k] ELSE new[k]]
<1>1. want[t] = {} /\ ks \subseteq Resource /\ IsFiniteSet(ks)  BY LocksAssumption DEF Call
<1>2. /\ Creations(created) # {}
      /\ table' = [k \in DOMAIN table \cup ks |-> IF k \in ks THEN ents[k] ELSE table[k]]
      /\ refs' = [e \in Entry |-> IF \E k \in ks : ents[k] = e THEN refs[e] + 1 ELSE refs[e]]
      /\ mine' = [mine EXCEPT ![t] = ents]
      /\ want' = [want EXCEPT ![t] = ks]
  BY DEF Call, Counted
<1>3. TypeOK /\ TableOK /\ IdleOK  BY DEF LocksInv
<1>4. /\ DOMAIN table \subseteq Resource /\ \A k \in DOMAIN table : table[k] \in Entry
      /\ refs \in [Entry -> Nat] /\ DOMAIN mine = Caller /\ DOMAIN want = Caller
  BY <1>3 DEF TypeOK
<1>5. /\ new \in [created -> Unused]
      /\ \A j, k \in created : new[j] = new[k] => j = k
  <2> HIDE DEF created
  <2>1. new \in Creations(created)  BY <1>2 DEF Fresh
  <2> HIDE DEF new
  <2> QED  BY <2>1 DEF Creations, Injection, IsInjective
<1>6. \A k \in created : new[k] \in Entry /\ \A j \in DOMAIN table : table[j] # new[k]
  <2> HIDE DEF new, created
  <2> QED  BY <1>5 DEF Unused
<1> HIDE DEF new
<1>7. /\ \A k \in ks : k \in DOMAIN table => ents[k] = table[k]
      /\ \A k \in ks : k \notin DOMAIN table =>
            ents[k] \in Entry /\ \A j \in DOMAIN table : table[j] # ents[k]
      /\ \A j, k \in ks : j \notin DOMAIN table /\ k \notin DOMAIN table /\ ents[j] = ents[k]
            => j = k
      /\ DOMAIN ents = ks
  BY <1>5, <1>6
<1>8. ents \in [ks -> Entry]  BY <1>4, <1>6
<1> HIDE DEF ents, created
<1>9. /\ DOMAIN table' = DOMAIN table \cup ks
      /\ \A k \in ks : table'[k] = ents[k]
      /\ \A k \in DOMAIN table : table'[k] = table[k]
      /\ \A k \in DOMAIN table' : table'[k] \in Entry
      /\ mine'[t] = ents /\ want'[t] = ks
      /\ \A u \in Caller \ {t} : mine'[u] = mine[u] /\ want'[u] = want[u]
  BY <1>2, <1>4, <1>7, <1>8
<1>10. \A j, k \in DOMAIN table' : table'[j] = table'[k] => j = k
  BY <1>3, <1>7, <1>9 DEF TableOK
<1>11. DOMAIN table = UNION {want[u] : u \in Caller} /\ \A u \in Caller : IsFiniteSet(want[u])
  BY <1>3 DEF TableOK, TableExact
<1>12. DOMAIN table' = UNION {want'[u] : u \in Caller}  BY <1>1, <1>9, <1>11
<1>13. \A u \in Caller : \A k \in want'[u] : mine'[u][k] = table'[k]
  <2> SUFFICES ASSUME NEW u \in Caller, NEW k \in want'[u] PROVE mine'[u][k] = table'[k]
    OBVIOUS
  <2>1. CASE u = t  BY <1>9, <2>1
  <2>2. CASE u # t
    <3>1. k \in want[u] /\ k \in DOMAIN table  BY <1>9, <1>11, <2>2
    <3> QED  BY <1>3, <1>9, <2>2, <3>1 DEF TableOK, TableExact
  <2> QED  BY <2>1, <2>2
<1>14. ASSUME NEW k \in DOMAIN table'
       PROVE  /\ IsFiniteSet(Users(k))
              /\ refs[table'[k]] = Cardinality(Users(k))
              /\ k \in DOMAIN table \/ ~locked[table'[k]]
  <2>1. CASE k \in DOMAIN table
    BY <1>3, <1>9, <2>1 DEF TableOK, TableExact, Users
  <2>2. CASE k \notin DOMAIN table
    <3>1. Users(k) = {}  BY <1>11, <2>2 DEF Users
    <3>2. k \in ks /\ table'[k] \in Entry /\ \A j \in DOMAIN table : table[j] # table'[k]
      BY <1>7, <1>9, <2>2
    <3>3. refs[table'[k]] = 0 /\ ~locked[table'[k]]  BY <1>3, <3>2 DEF IdleOK
    <3> QED  BY <3>1, <3>3, FS_EmptySet
  <2> QED  BY <2>1, <2>2
<1>15. ASSUME NEW k \in DOMAIN table'
       PROVE  IsFiniteSet(Users(k)') /\ refs'[table'[k]] = Cardinality(Users(k)')
  <2> DEFINE e == table'[k]
  <2>1. e \in Entry  BY <1>9
  <2>2. k \in ks <=> \E j \in ks : ents[j] = e  BY <1>9, <1>10
  <2> HIDE DEF e
  <2>3. CASE k \in ks
    <3>1. Users(k)' = Users(k) \cup {t} /\ t \notin Users(k)  BY <1>1, <1>9, <2>3 DEF Users
    <3>2. refs'[e] = refs[e] + 1  BY <1>2, <2>1, <2>2, <2>3
    <3>3. IsFiniteSet(Users(k) \cup {t})
          /\ Cardinality(Users(k) \cup {t}) = Cardinality(Users(k)) + 1
      BY <1>14, <3>1, FS_AddElement
    <3> QED  BY <1>14, <3>1, <3>2, <3>3 DEF e
  <2>4. CASE k \notin ks
    <3>1. Users(k)' = Users(k)  BY <1>1, <1>9, <2>4 DEF Users
    <3>2. refs'[e] = refs[e]  BY <1>2, <2>1, <2>2, <2>4
    <3> QED  BY <1>14, <3>1, <3>2 DEF e
  <2> QED  BY <2>3, <2>4
<1>16. TableOK'
  <2>1. \A u \in Caller : IsFiniteSet(want'[u])  BY <1>1, <1>9, <1>11
  <2>2. TableExact'  BY <1>12, <1>13, <1>15 DEF TableExact, Users
  <2> QED  BY <1>10, <1>15, <2>1, <2>2 DEF TableOK
<1>17. refs' \in [Entry -> Nat]
  <2>1. \A e \in Entry : refs[e] \in Nat /\ refs[e] + 1 \in Nat  BY <1>4
  <2> QED  BY <1>2, <2>1
<1>18. DOMAIN table' \subseteq Resource  BY <1>1, <1>4, <1>9
<1>19. \A e \in Entry : (\A k \in DOMAIN table' : table'[k] # e) => refs'[e] = refs[e]
  BY <1>2, <1>9
<1> QED  BY <1>2, <1>8, <1>9, <1>14, <1>16, <1>17, <1>18, <1>19

\* acquire_many is entered.
LEMMA CallKeeps ==
    ASSUME LocksInv, NEW t \in Caller, NEW ks \in Wanted, Call(t, ks)
    PROVE  LocksInv'
<1>1. /\ TableOK' /\ refs' \in [Entry -> Nat]
      /\ DOMAIN table' \subseteq Resource /\ \A k \in DOMAIN table' : table'[k] \in Entry
      /\ want' = [want EXCEPT ![t] = ks] /\ mine'[t] \in [ks -> Entry]
      /\ mine' = [mine EXCEPT ![t] = mine'[t]]
      /\ \A k \in ks : table'[k] = mine'[t][k]
      /\ \A k \in DOMAIN table : k \in DOMAIN table' /\ table'[k] = table[k]
      /\ \A k \in DOMAIN table' : k \in DOMAIN table \/ ~locked[table'[k]]
      /\ \A e \in Entry : (\A k \in DOMAIN table' : table'[k] # e) => refs'[e] = refs[e]
  BY CallKeepsTable
<1>2. TypeOK /\ IdleOK /\ TableOK  BY DEF LocksInv
<1>3. want[t] = {} /\ interrupted' = interrupted /\ ks \subseteq Resource /\ IsFiniteSet(ks)
      /\ Resource \subseteq Int
  BY LocksAssumption DEF Call
<1>4. /\ want'[t] = ks /\ \A u \in Caller \ {t} : want'[u] = want[u] /\ mine'[u] = mine[u]
      /\ DOMAIN mine' = Caller /\ want' \in [Caller -> SUBSET Resource]
  BY <1>1, <1>2, <1>3 DEF TypeOK
<1>5. ~Waiting(t) /\ t \notin interrupted /\ got[t] = {}
  <2>1. got[t] = {}  BY <1>2, <1>3 DEF TypeOK
  <2> QED  BY <1>3, <2>1 DEF LocksInv, CallersOK
<1>6. WithoutCaller(t, waiters, future)  BY <1>5, OutOfLine
<1>7. Advance(t, want'[t], mine'[t], {}, waiters, future)
  <2> DEFINE e1 == [k \in ks |-> IF k \in DOMAIN table THEN table[k]
                                 ELSE Fresh(ks \ DOMAIN table)[k]]
  <2>1. Advance(t, ks, e1, {}, waiters, future) /\ mine' = [mine EXCEPT ![t] = e1]
    BY DEF Call
  <2> HIDE DEF e1
  <2>2. mine'[t] = e1  BY <1>2, <2>1 DEF TypeOK
  <2> QED  BY <1>4, <2>1, <2>2
<1>8. Advanced(t, want'[t], mine'[t], {}, waiters, future)
  <2>1. ks \subseteq Int /\ got \in [Caller -> SUBSET Resource]  BY <1>2, <1>3 DEF TypeOK
  <2>2. Advance(t, ks, mine'[t], {}, waiters, future)  BY <1>4, <1>7
  <2>3. Advanced(t, ks, mine'[t], {}, waiters, future)
    BY <1>3, <2>1, <2>2, AdvanceAdvances
  <2> QED  BY <1>4, <2>3
<1>9. /\ HoldersOK' /\ CallersOK' /\ WaitersOK'
      /\ locked' \in [Entry -> BOOLEAN]
      /\ waiters' \in [Entry -> Seq(Caller)]
      /\ future' \in [Caller -> {"none", "pending", "woken", "cancelled"}]
      /\ got'[t] \subseteq want'[t] /\ \A u \in Caller \ {t} : got'[u] = got[u]
  <2>1. \A k \in DOMAIN table' :
           (k \in DOMAIN table /\ table'[k] = table[k]) \/ ~locked[table'[k]]
    BY <1>1
  <2> DEFINE have == {}
  <2>2. /\ got[t] \subseteq have /\ have \subseteq want'[t]
        /\ \A u \in Caller \ {t} : \A k \in have : k \notin got[u]
        /\ \A u \in Caller \ {t} : \A k \in have : future[u] = "woken" => EntryOf(u) # mine'[t][k]
        /\ Advanced(t, want'[t], mine'[t], have, waiters, future)
    BY <1>5, <1>8
  <2> HIDE DEF have
  <2>3. TableOK' /\ DOMAIN table' \subseteq Resource /\ \A k \in DOMAIN table' : table'[k] \in Entry
    BY <1>1
  <2>4. \A u \in Caller \ {t} : want'[u] = want[u] /\ mine'[u] = mine[u]  BY <1>4
  <2>5. interrupted' = interrupted /\ t \notin interrupted  BY <1>3, <1>5
  <2> QED  BY <1>6, <2>1, <2>2, <2>3, <2>4, <2>5, AdvanceKeeps
<1>10. IdleOK'
  <2> SUFFICES ASSUME NEW e \in Entry, \A k \in DOMAIN table' : table'[k] # e
               PROVE  refs'[e] = 0 /\ ~locked'[e] /\ waiters'[e] = <<>>
    BY DEF IdleOK
  <2>1. \A k \in DOMAIN table : table[k] # e  BY <1>1
  <2>2. refs[e] = 0 /\ ~locked[e] /\ waiters[e] = <<>>  BY <1>2, <2>1 DEF IdleOK
  <2>3. \A k \in ks : k \in DOMAIN table'  BY <1>1, <1>4 DEF TableOK, TableExact
  <2>4. \A k \in want'[t] : mine'[t][k] # e  BY <1>1, <1>4, <2>3
  <2>5. (locked'[e] <=> locked[e]) /\ waiters'[e] = waiters[e]
    <3>1. waiters \in [Entry -> Seq(Caller)]  BY <1>2 DEF TypeOK
    <3> DEFINE have == {}
               k1 == want'[t]
               m1 == mine'[t]
    <3>2. Advanced(t, k1, m1, have, waiters, future) /\ \A k \in k1 : m1[k] # e
      BY <1>8, <2>4
    <3> HIDE DEF have, k1, m1
    <3> QED  BY <3>1, <3>2, OthersUnmoved
  <2> QED  BY <1>1, <2>2, <2>5
<1>11. TypeOK'
  <2>1. \A u \in Caller : mine'[u] \in [want'[u] -> Entry] /\ got'[u] \subseteq want'[u]
    <3> TAKE u \in Caller
    <3>1. CASE u = t  BY <1>1, <1>4, <1>9, <3>1
    <3>2. CASE u # t  BY <1>2, <1>4, <1>9, <3>2 DEF TypeOK
    <3> QED  BY <3>1, <3>2
  <2>2. got' \in [Caller -> SUBSET Resource]
    <3>1. got' = [got EXCEPT ![t] = got'[t]] /\ got \in [Caller -> SUBSET Resource]
      BY <1>2, <1>8 DEF TypeOK, Advanced
    <3>2. got'[t] \subseteq Resource  BY <1>3, <1>4, <1>9
    <3> QED  BY <3>1, <3>2
  <2>3. interrupted' \subseteq Caller  BY <1>2, <1>3 DEF TypeOK
  <2> QED  BY <1>1, <1>4, <1>9, <2>1, <2>2, <2>3 DEF TypeOK
<1> QED  BY <1>1, <1>9, <1>10, <1>11 DEF LocksInv

\* A caller that was woken takes its lock and goes on.
LEMMA ResumeKeeps ==
    ASSUME LocksInv, NEW t \in Caller, Resume(t)
    PROVE  LocksInv'
<1> DEFINE wq == [waiters EXCEPT ![EntryOf(t)] = RemoveFirst(@, t)]
           fut == [future EXCEPT ![t] = "none"]
           have == got[t] \cup {Awaited(t)}
<1>1. /\ future[t] = "woken" /\ t \notin interrupted /\ Waiting(t)
      /\ Advance(t, want[t], mine[t], have, wq, fut)
      /\ table' = table /\ refs' = refs /\ want' = want /\ mine' = mine
      /\ interrupted' = interrupted
  BY DEF Resume, EntryOf, Waiting
<1>2. TypeOK /\ IdleOK /\ TableOK /\ WaitersOK /\ HoldersOK  BY DEF LocksInv
<1>3. /\ \A k \in want[t] : k \in DOMAIN table /\ mine[t][k] = table[k] /\ table[k] \in Entry
      /\ got[t] \subseteq want[t] /\ Awaited(t) \in want[t] \ got[t]
      /\ EntryOf(t) = table[Awaited(t)] /\ EntryOf(t) \in Entry
  BY <1>1, WantedEntries
<1>4. TableOK'  BY <1>1, <1>2 DEF TableOK, TableExact, Users
<1>5. WithoutCaller(t, wq, fut)
      /\ \A u \in Caller \ {t} : future[u] = "woken" => EntryOf(u) # EntryOf(t)
  BY <1>1, LeavesLine
<1>6. \A u \in Caller \ {t} : fut[u] = future[u]  BY <1>2 DEF TypeOK
<1>7. ~locked[EntryOf(t)]  BY <1>1, <1>2 DEF WaitersOK
<1>8. have \subseteq want[t] /\ got[t] \subseteq have  BY <1>3
<1>9. ASSUME NEW u \in Caller \ {t}, NEW k \in have
      PROVE  k \notin got[u] /\ (fut[u] = "woken" => EntryOf(u) # mine[t][k])
  <2>1. CASE k \in got[t]
    <3>1. k \notin got[u] /\ locked[mine[t][k]]  BY <1>2, <2>1 DEF HoldersOK
    <3>2. fut[u] = "woken" => ~locked[EntryOf(u)]  BY <1>2, <1>6 DEF WaitersOK
    <3> QED  BY <3>1, <3>2
  <2>2. CASE k = Awaited(t)
    <3>1. k \notin got[u]
      <4> SUFFICES ASSUME k \in got[u] PROVE FALSE  OBVIOUS
      <4>1. mine[u][k] = table[k] /\ locked[mine[u][k]]
        BY <1>2, WantedEntries DEF HoldersOK
      <4> QED  BY <1>3, <1>7, <2>2, <4>1
    <3> QED  BY <1>5, <1>6, <2>2, <3>1 DEF EntryOf
  <2> QED  BY <2>1, <2>2
<1> HIDE DEF wq, fut, have
<1>10. Advanced(t, want[t], mine[t], have, wq, fut)
  <2>1. want[t] \subseteq Int /\ got \in [Caller -> SUBSET Resource] /\ IsFiniteSet(want[t])
    BY <1>2, LocksAssumption DEF TypeOK, TableOK
  <2> QED  BY <1>1, <1>8, <2>1, AdvanceAdvances
<1>11. /\ HoldersOK' /\ CallersOK' /\ WaitersOK'
       /\ locked' \in [Entry -> BOOLEAN]
       /\ waiters' \in [Entry -> Seq(Caller)]
       /\ future' \in [Caller -> {"none", "pending", "woken", "cancelled"}]
       /\ got'[t] \subseteq want'[t] /\ \A u \in Caller \ {t} : got'[u] = got[u]
  <2>1. DOMAIN table' \subseteq Resource /\ \A k \in DOMAIN table' : table'[k] \in Entry
    BY <1>1, <1>2 DEF TypeOK
  <2>2. got[t] \subseteq have /\ have \subseteq want'[t]  BY <1>1, <1>8
  <2>3. Advanced(t, want'[t], mine'[t], have, wq, fut)  BY <1>1, <1>10
  <2>4. \A u \in Caller \ {t} : want'[u] = want[u] /\ mine'[u] = mine[u]  BY <1>1
  <2>5. \A k \in DOMAIN table' :
           (k \in DOMAIN table /\ table'[k] = table[k]) \/ ~locked[table'[k]]
    BY <1>1
  <2>6. /\ \A u \in Caller \ {t} : \A k \in have : k \notin got[u]
        /\ \A u \in Caller \ {t} : \A k \in have : fut[u] = "woken" => EntryOf(u) # mine'[t][k]
    BY <1>1, <1>9
  <2>7. interrupted' = interrupted /\ t \notin interrupted /\ WithoutCaller(t, wq, fut)
    BY <1>1, <1>5
  <2> QED  BY <1>4, <2>1, <2>2, <2>3, <2>4, <2>5, <2>6, <2>7, AdvanceKeeps
<1>12. IdleOK'
  <2> SUFFICES ASSUME NEW e \in Entry, \A k \in DOMAIN table : table[k] # e
               PROVE  refs'[e] = 0 /\ ~locked'[e] /\ waiters'[e] = <<>>
    BY <1>1 DEF IdleOK
  <2>1. refs[e] = 0 /\ ~locked[e] /\ waiters[e] = <<>>  BY <1>2 DEF IdleOK
  <2>2. wq[e] = waiters[e] /\ wq \in [Entry -> Seq(Caller)]
    <3>1. EntryOf(t) # e  BY <1>3
    <3> QED  BY <1>2, <1>5, <3>1 DEF TypeOK, wq, WithoutCaller
  <2>3. \A k \in want[t] : mine[t][k] # e  BY <1>3
  <2>4. (locked'[e] <=> locked[e]) /\ waiters'[e] = wq[e]
    <3> DEFINE k1 == want[t]
               m1 == mine[t]
    <3>1. Advanced(t, k1, m1, have, wq, fut) /\ \A k \in k1 : m1[k] # e  BY <1>10, <2>3
    <3> HIDE DEF k1, m1
    <3> QED  BY <2>2, <3>1, OthersUnmoved
  <2> QED  BY <1>1, <2>1, <2>2, <2>4
<1>13. TypeOK'
  <2>1. \A u \in Caller : got'[u] \subseteq want[u]
    <3> TAKE u \in Caller
    <3>1. CASE u = t  BY <1>1, <1>11, <3>1
    <3>2. CASE u # t  BY <1>2, <1>11, <3>2 DEF TypeOK
    <3> QED  BY <3>1, <3>2
  <2>2. got' \in [Caller -> SUBSET Resource]
    <3>1. got' = [got EXCEPT ![t] = got'[t]] /\ got \in [Caller -> SUBSET Resource]
      BY <1>2, <1>10 DEF TypeOK, Advanced
    <3>2. got'[t] \subseteq Resource  BY <1>2, <2>1 DEF TypeOK
    <3> QED  BY <3>1, <3>2
  <2> QED  BY <1>1, <1>2, <1>11, <2>1, <2>2 DEF TypeOK
<1> QED  BY <1>4, <1>11, <1>12, <1>13 DEF LocksInv

\* A caller that waits is cancelled: its future may be, and nothing else changes.
LEMMA CancelKeeps ==
    ASSUME LocksInv, NEW t \in Caller, Cancel(t)
    PROVE  LocksInv'
<1>1. /\ Waiting(t) /\ interrupted' = interrupted \cup {t}
      /\ future' = [future EXCEPT ![t] = IF @ = "pending" THEN "cancelled" ELSE @]
      /\ table' = table /\ refs' = refs /\ locked' = locked /\ waiters' = waiters
      /\ want' = want /\ mine' = mine /\ got' = got
  BY DEF Cancel
<1>2. TypeOK /\ TableOK /\ IdleOK /\ HoldersOK /\ CallersOK /\ WaitersOK  BY DEF LocksInv
<1>3. TableOK' /\ IdleOK' /\ HoldersOK'
  BY <1>1, <1>2 DEF TableOK, TableExact, Users, IdleOK, HoldersOK
<1>4. /\ future' \in [Caller -> {"none", "pending", "woken", "cancelled"}]
      /\ \A u \in Caller : future'[u] = "none" <=> future[u] = "none"
      /\ \A u \in Caller : future'[u] = "woken" => future[u] = "woken"
  BY <1>1, <1>2 DEF TypeOK
<1>5. TypeOK'  BY <1>1, <1>2, <1>4 DEF TypeOK
<1>6. \A u \in Caller : (Waiting(u)' <=> Waiting(u)) /\ EntryOf(u)' = EntryOf(u)
  BY <1>1, <1>4 DEF Waiting, EntryOf, Awaited
<1>7. CallersOK'
  <2>1. \A u \in Caller : Waiting(u)' <=> got'[u] # want'[u]
    BY <1>1, <1>2, <1>6 DEF CallersOK
  <2>2. \A u \in interrupted' : u \in Caller /\ Waiting(u)
    BY <1>1, <1>2 DEF TypeOK, CallersOK
  <2> QED  BY <1>6, <2>1, <2>2 DEF CallersOK
<1>8. WaitersOK'
  <2>1. \A e \in Entry : Distinct(waiters'[e])  BY <1>1, <1>2 DEF WaitersOK
  <2>2. \A e \in Entry, u \in Caller :
           InLine(u, waiters'[e]) <=> Waiting(u)' /\ EntryOf(u)' = e
    BY <1>1, <1>2, <1>6 DEF WaitersOK
  <2>3. \A u \in Caller : future'[u] = "woken" =>
           ~locked'[EntryOf(u)'] /\ waiters'[EntryOf(u)'][1] = u
    BY <1>1, <1>2, <1>4, <1>6 DEF WaitersOK
  <2> QED  BY <2>1, <2>2, <2>3 DEF WaitersOK
<1> QED  BY <1>3, <1>5, <1>7, <1>8 DEF LocksInv

\* The finally clause: what the caller held is free, what only it used is gone.
LEMMA CleanupKeepsTable ==
    ASSUME LocksInv, NEW t \in Caller, want[t] # {}, NEW wq, NEW fut, Cleanup(t, wq, fut)
    PROVE  /\ TableOK' /\ refs' \in [Entry -> Nat] /\ locked' \in [Entry -> BOOLEAN]
           /\ want' = [want EXCEPT ![t] = {}]
           /\ \A k \in DOMAIN table' : k \in DOMAIN table /\ table'[k] = table[k]
           /\ \A e \in Entry : locked'[e] <=> locked[e] /\ \A k \in got[t] : mine[t][k] # e
           /\ \A e \in Entry : (\A k \in DOMAIN table' : table'[k] # e) =>
                 refs'[e] = 0 /\ ~locked'[e]
<1> DEFINE held == {mine[t][k] : k \in got[t]}
           left == [e \in Entry |-> IF \E k \in want[t] : mine[t][k] = e
                                    THEN refs[e] - 1 ELSE refs[e]]
           lk == [e \in Entry |-> locked[e] /\ e \notin held]
           evict == {k \in want[t] : left[mine[t][k]] = 0 /\ ~lk[mine[t][k]]}
<1>1. /\ locked' = lk /\ refs' = left
      /\ table' = [k \in DOMAIN table \ evict |-> table[k]]
      /\ mine' = [mine EXCEPT ![t] = [k \in {} |-> k]]
      /\ want' = [want EXCEPT ![t] = {}]
  BY DEF Cleanup, Evictable
<1>2. TypeOK /\ TableOK /\ IdleOK /\ HoldersOK  BY DEF LocksInv
<1>3. /\ DOMAIN table = UNION {want[u] : u \in Caller}
      /\ \A u \in Caller : \A k \in want[u] : mine[u][k] = table[k] /\ k \in DOMAIN table
      /\ \A k \in DOMAIN table : refs[table[k]] = Cardinality(Users(k))
                                 /\ IsFiniteSet(Users(k)) /\ table[k] \in Entry
      /\ \A j, k \in DOMAIN table : table[j] = table[k] => j = k
      /\ \A u \in Caller : IsFiniteSet(want[u]) /\ got[u] \subseteq want[u]
      /\ refs \in [Entry -> Nat] /\ locked \in [Entry -> BOOLEAN]
      /\ DOMAIN mine = Caller /\ DOMAIN want = Caller
  <2>1. DOMAIN table = UNION {want[u] : u \in Caller}
        /\ \A u \in Caller : \A k \in want[u] : mine[u][k] = table[k]
    BY <1>2 DEF TableOK, TableExact
  <2>2. \A u \in Caller : \A k \in want[u] : k \in DOMAIN table  BY <2>1
  <2>3. /\ \A k \in DOMAIN table : refs[table[k]] = Cardinality(Users(k)) /\ IsFiniteSet(Users(k))
        /\ \A j, k \in DOMAIN table : table[j] = table[k] => j = k
        /\ \A u \in Caller : IsFiniteSet(want[u])
    BY <1>2 DEF TableOK, TableExact, Users
  <2>4. /\ \A u \in Caller : got[u] \subseteq want[u]
        /\ \A k \in DOMAIN table : table[k] \in Entry
        /\ refs \in [Entry -> Nat] /\ locked \in [Entry -> BOOLEAN]
        /\ DOMAIN mine = Caller /\ DOMAIN want = Caller
    BY <1>2 DEF TypeOK
  <2> QED  BY <2>1, <2>2, <2>3, <2>4
<1>4. /\ want'[t] = {} /\ \A u \in Caller \ {t} : want'[u] = want[u] /\ mine'[u] = mine[u]
  BY <1>1, <1>3
<1>5. \A k \in DOMAIN table :
         /\ (\E j \in want[t] : mine[t][j] = table[k]) <=> k \in want[t]
         /\ table[k] \in held <=> k \in got[t]
  BY <1>3
<1>6. ASSUME NEW k \in DOMAIN table
      PROVE  /\ IsFiniteSet(Users(k)') /\ left[table[k]] = Cardinality(Users(k)')
             /\ left[table[k]] \in Nat
  <2>1. table[k] \in Entry /\ refs[table[k]] = Cardinality(Users(k)) /\ IsFiniteSet(Users(k))
    BY <1>3
  <2>2. CASE k \in want[t]
    <3>1. Users(k)' = Users(k) \ {t} /\ t \in Users(k)  BY <1>4, <2>2 DEF Users
    <3>2. left[table[k]] = refs[table[k]] - 1  BY <1>5, <2>1, <2>2
    <3>3. /\ IsFiniteSet(Users(k) \ {t})
          /\ Cardinality(Users(k) \ {t}) = Cardinality(Users(k)) - 1
      BY <2>1, <3>1, FS_RemoveElement
    <3>4. Cardinality(Users(k) \ {t}) \in Nat  BY <3>3, FS_CardinalityType
    <3> QED  BY <2>1, <3>1, <3>2, <3>3, <3>4
  <2>3. CASE k \notin want[t]
    <3>1. Users(k)' = Users(k)  BY <1>4, <2>3 DEF Users
    <3>2. left[table[k]] = refs[table[k]]  BY <1>5, <2>1, <2>3
    <3>3. Cardinality(Users(k)) \in Nat  BY <2>1, FS_CardinalityType
    <3> QED  BY <2>1, <3>1, <3>2, <3>3
  <2> QED  BY <2>2, <2>3
<1>7. \A e \in Entry : lk[e] <=> locked[e] /\ e \notin held  BY <1>3
<1>8. ASSUME NEW k \in want[t]
      PROVE  k \in evict <=> Users(k)' = {}
  <2>1. k \in DOMAIN table /\ mine[t][k] = table[k] /\ table[k] \in Entry  BY <1>3
  <2>2. left[table[k]] = 0 <=> Users(k)' = {}
    <3>1. IsFiniteSet(Users(k)') /\ left[table[k]] = Cardinality(Users(k)')  BY <1>6, <2>1
    <3> DEFINE S == Users(k)'
    <3> HIDE DEF S, left
    <3>2. Cardinality(S) = 0 <=> S = {}  BY <3>1, FS_EmptySet DEF S
    <3> QED  BY <3>1, <3>2 DEF S
  <2>3. ASSUME lk[table[k]]
        PROVE  Users(k)' # {}
    <3>1. locked[table[k]] /\ table[k] \notin held  BY <1>7, <2>1, <2>3
    <3>2. PICK u \in Caller : k \in got[u]  BY <1>2, <2>1, <3>1 DEF HoldersOK
    <3>3. u # t  BY <1>5, <2>1, <3>1, <3>2
    <3>4. k \in want'[u]  BY <1>3, <1>4, <3>2, <3>3
    <3> QED  BY <3>4 DEF Users
  <2> HIDE DEF lk, left
  <2> QED  BY <2>1, <2>2, <2>3
<1>9. evict \subseteq want[t]  OBVIOUS
<1>10. left \in [Entry -> Nat]
  <2> SUFFICES ASSUME NEW e \in Entry
               PROVE  (IF \E k \in want[t] : mine[t][k] = e THEN refs[e] - 1 ELSE refs[e]) \in Nat
    OBVIOUS
  <2>1. CASE \E k \in want[t] : mine[t][k] = e
    <3>1. PICK k \in want[t] : mine[t][k] = e  BY <2>1
    <3>2. left[e] \in Nat /\ left[e] = refs[e] - 1  BY <1>3, <1>6, <3>1
    <3> QED  BY <2>1, <3>2
  <2>2. CASE ~ \E k \in want[t] : mine[t][k] = e  BY <1>3, <2>2
  <2> QED  BY <2>1, <2>2
<1>11. lk \in [Entry -> BOOLEAN]  OBVIOUS
<1>12. \A e \in Entry : (\A k \in want[t] : mine[t][k] # e) => left[e] = refs[e]  OBVIOUS
<1>13. \A e \in Entry : e \notin held <=> \A k \in got[t] : mine[t][k] # e  OBVIOUS
<1>14. \A k \in evict : left[table[k]] = 0 /\ ~lk[table[k]]  BY <1>3
<1> HIDE DEF evict, lk, left, held
<1>15. /\ DOMAIN table' = DOMAIN table \ evict
       /\ \A k \in DOMAIN table' : k \in DOMAIN table /\ table'[k] = table[k]
  BY <1>1
<1>16. DOMAIN table' = UNION {want'[u] : u \in Caller}
  <2>1. ASSUME NEW k \in DOMAIN table, k \notin evict
        PROVE  \E u \in Caller : k \in want'[u]
    <3>1. CASE k \in want[t]
      <4>1. Users(k)' # {}  BY <1>8, <2>1, <3>1
      <4> QED  BY <4>1 DEF Users
    <3>2. CASE k \notin want[t]
      <4>1. PICK u \in Caller : k \in want[u]  BY <1>3
      <4> QED  BY <1>4, <3>2, <4>1
    <3> QED  BY <3>1, <3>2
  <2>2. ASSUME NEW u \in Caller, NEW k \in want'[u]
        PROVE  k \in DOMAIN table /\ k \notin evict
    <3>1. u # t /\ k \in want[u]  BY <1>4, <2>2
    <3>2. Users(k)' # {}  BY <2>2 DEF Users
    <3> QED  BY <1>3, <1>8, <1>9, <3>1, <3>2
  <2> QED  BY <1>15, <2>1, <2>2
<1>17. TableOK'
  <2>1. \A u \in Caller : \A k \in want'[u] : mine'[u][k] = table'[k]
    <3> SUFFICES ASSUME NEW u \in Caller, NEW k \in want'[u] PROVE mine'[u][k] = table'[k]
      OBVIOUS
    <3>1. u # t /\ k \in want[u] /\ mine'[u] = mine[u]  BY <1>4
    <3>2. k \in DOMAIN table'  BY <1>16
    <3> QED  BY <1>3, <1>15, <3>1, <3>2
  <2>2. \A k \in DOMAIN table' : refs'[table'[k]] = Cardinality(Users(k)')
                                 /\ IsFiniteSet(Users(k)')
    BY <1>1, <1>6, <1>15
  <2>3. TableExact'  BY <1>16, <2>1, <2>2 DEF TableExact, Users
  <2>4. \A j, k \in DOMAIN table' : table'[j] = table'[k] => j = k  BY <1>3, <1>15
  <2>5. \A u \in Caller : IsFiniteSet(want'[u])
    <3>1. IsFiniteSet({})  BY FS_EmptySet
    <3> TAKE u \in Caller
    <3>2. CASE u = t  BY <1>4, <3>1, <3>2
    <3>3. CASE u # t  BY <1>3, <1>4, <3>3
    <3> QED  BY <3>2, <3>3
  <2> QED  BY <2>2, <2>3, <2>4, <2>5 DEF TableOK
<1>18. ASSUME NEW e \in Entry, \A k \in DOMAIN table' : table'[k] # e
       PROVE  left[e] = 0 /\ ~lk[e]
  <2>1. CASE \A k \in DOMAIN table : table[k] # e
    <3>1. refs[e] = 0 /\ ~locked[e]  BY <1>2, <2>1 DEF IdleOK
    <3>2. left[e] = refs[e]  BY <1>3, <1>12, <2>1
    <3> QED  BY <1>7, <3>1, <3>2
  <2>2. ASSUME NEW k \in DOMAIN table, table[k] = e
        PROVE  left[e] = 0 /\ ~lk[e]
    <3>1. k \in evict  BY <1>15, <1>18, <2>2
    <3> QED  BY <1>14, <2>2, <3>1
  <2> QED  BY <2>1, <2>2
<1> QED  BY <1>1, <1>7, <1>10, <1>11, <1>13, <1>15, <1>17, <1>18

\* The finally clause leaves the other callers and their locks in order.
LEMMA CleanupKeeps ==
    ASSUME LocksInv, NEW t \in Caller, want[t] # {}, NEW wq, NEW fut,
           WithoutCaller(t, wq, fut), Cleanup(t, wq, fut)
    PROVE  LocksInv'
<1> DEFINE held == {mine[t][k] : k \in got[t]}
<1>1. /\ TableOK' /\ refs' \in [Entry -> Nat] /\ locked' \in [Entry -> BOOLEAN]
      /\ want' = [want EXCEPT ![t] = {}]
      /\ \A k \in DOMAIN table' : k \in DOMAIN table /\ table'[k] = table[k]
      /\ \A e \in Entry : locked'[e] <=> locked[e] /\ \A k \in got[t] : mine[t][k] # e
      /\ \A e \in Entry : (\A k \in DOMAIN table' : table'[k] # e) =>
            refs'[e] = 0 /\ ~locked'[e]
  BY CleanupKeepsTable
<1>2. TypeOK /\ TableOK /\ HoldersOK /\ CallersOK  BY DEF LocksInv
<1>3. /\ waiters' = wq /\ future' = WakeAllFirst(held, wq, fut)
      /\ mine' = [mine EXCEPT ![t] = [k \in {} |-> k]]
      /\ got' = [got EXCEPT ![t] = {}]
      /\ interrupted' = interrupted \ {t}
  BY DEF Cleanup
<1>4. /\ want'[t] = {} /\ got'[t] = {} /\ mine'[t] = [k \in {} |-> k]
      /\ \A u \in Caller \ {t} : want'[u] = want[u] /\ got'[u] = got[u] /\ mine'[u] = mine[u]
  BY <1>1, <1>2, <1>3 DEF TypeOK
<1>5. /\ wq \in [Entry -> Seq(Caller)]
      /\ fut \in [Caller -> {"none", "pending", "woken", "cancelled"}] /\ fut[t] = "none"
      /\ \A e \in Entry : Distinct(wq[e])
      /\ \A e \in Entry, u \in Caller :
            InLine(u, wq[e]) <=> u # t /\ Waiting(u) /\ EntryOf(u) = e
      /\ \A u \in Caller \ {t} : fut[u] # "none" <=> Waiting(u)
      /\ \A u \in Caller \ {t} : fut[u] = "woken" =>
            ~locked[EntryOf(u)] /\ wq[EntryOf(u)][1] = u
  BY DEF WithoutCaller
<1>6. held \subseteq Entry /\ \A k \in got[t] : mine[t][k] = table[k] /\ k \in DOMAIN table
  BY <1>2, WantedEntries
<1>7. \A e \in Entry : locked'[e] <=> locked[e] /\ e \notin held  BY <1>1
<1> HIDE DEF held
<1>8. /\ future' \in [Caller -> {"none", "pending", "woken", "cancelled"}]
      /\ \A u \in Caller : future'[u] = "none" <=> fut[u] = "none"
      /\ \A u \in Caller : future'[u] = "woken" => fut[u] = "woken"
            \/ \E e \in held : wq[e] # <<>> /\ Head(wq[e]) = u
  BY <1>3, <1>5 DEF WakeAllFirst
<1>9. \A u \in Caller \ {t} : (Waiting(u)' <=> Waiting(u)) /\ EntryOf(u)' = EntryOf(u)
  BY <1>4, <1>5, <1>8 DEF Waiting, EntryOf, Awaited
<1>10. ~Waiting(t)'  BY <1>5, <1>8 DEF Waiting
<1>11. CallersOK'
  <2>1. \A u \in Caller : Waiting(u)' <=> got'[u] # want'[u]
    BY <1>2, <1>4, <1>9, <1>10 DEF CallersOK
  <2>2. \A u \in interrupted' : u \in Caller \ {t} /\ Waiting(u)
    BY <1>2, <1>3 DEF TypeOK, CallersOK
  <2> QED  BY <1>9, <2>1, <2>2 DEF CallersOK
<1>12. HoldersOK'
  <2>1. ASSUME NEW u \in Caller, NEW v \in Caller, NEW k \in got'[u] \cap got'[v]
        PROVE  u = v
    <3>1. u # t /\ v # t /\ k \in got[u] \cap got[v]  BY <1>4
    <3> QED  BY <1>2, <3>1 DEF HoldersOK
  <2>2. ASSUME NEW u \in Caller, NEW k \in got'[u]
        PROVE  locked'[mine'[u][k]]
    <3>1. u # t /\ k \in got[u] /\ mine'[u] = mine[u]  BY <1>4
    <3>2. locked[mine[u][k]] /\ mine[u][k] = table[k] /\ table[k] \in Entry /\ k \in DOMAIN table
      BY <1>2, <3>1, WantedEntries DEF HoldersOK
    <3>3. ASSUME NEW j \in got[t], mine[t][j] = table[k]
          PROVE  FALSE
      <4>1. j = k  BY <1>2, <1>6, <3>2, <3>3 DEF TableOK
      <4> QED  BY <1>2, <3>1, <3>3, <4>1 DEF HoldersOK
    <3> QED  BY <1>1, <3>1, <3>2, <3>3
  <2>3. ASSUME NEW k \in DOMAIN table', locked'[table'[k]]
        PROVE  \E u \in Caller : k \in got'[u]
    <3>1. k \in DOMAIN table /\ table'[k] = table[k] /\ table[k] \in Entry
      BY <1>1, <1>2 DEF TypeOK
    <3>2. locked[table[k]] /\ \A j \in got[t] : mine[t][j] # table[k]  BY <1>1, <2>3, <3>1
    <3>3. PICK u \in Caller : k \in got[u]  BY <1>2, <3>1, <3>2 DEF HoldersOK
    <3>4. u # t  BY <1>6, <3>2, <3>3
    <3> QED  BY <1>4, <3>3, <3>4
  <2> QED  BY <2>1, <2>2, <2>3 DEF HoldersOK
<1>13. WaitersOK'
  <2>1. \A e \in Entry : Distinct(waiters'[e])  BY <1>3, <1>5
  <2>2. ASSUME NEW e \in Entry, NEW u \in Caller
        PROVE  InLine(u, waiters'[e]) <=> Waiting(u)' /\ EntryOf(u)' = e
    <3>1. InLine(u, waiters'[e]) <=> u # t /\ Waiting(u) /\ EntryOf(u) = e  BY <1>3, <1>5
    <3>2. CASE u = t  BY <1>10, <3>1, <3>2
    <3>3. CASE u # t  BY <1>9, <3>1, <3>3
    <3> QED  BY <3>2, <3>3
  <2>3. ASSUME NEW u \in Caller, future'[u] = "woken"
        PROVE  ~locked'[EntryOf(u)'] /\ waiters'[EntryOf(u)'][1] = u
    <3>1. u # t
      <4>1. Waiting(u)'  BY <2>3 DEF Waiting
      <4> QED  BY <1>10, <4>1
    <3>2. EntryOf(u)' = EntryOf(u) /\ Waiting(u) /\ EntryOf(u) \in Entry
      <4>1. Waiting(u)'  BY <2>3 DEF Waiting
      <4>2. Waiting(u)  BY <1>9, <3>1, <4>1
      <4> QED  BY <1>9, <3>1, <4>2, WantedEntries
    <3>3. CASE fut[u] = "woken"  BY <1>3, <1>5, <1>7, <3>1, <3>2, <3>3
    <3>4. ASSUME NEW e \in held, wq[e] # <<>>, Head(wq[e]) = u
          PROVE  ~locked'[EntryOf(u)] /\ wq[EntryOf(u)][1] = u
      <4>1. e \in Entry /\ wq[e] \in Seq(Caller)  BY <1>5, <1>6
      <4>2. wq[e][1] = u /\ InLine(u, wq[e])
        <5> DEFINE s == wq[e]
        <5>1. s \in Seq(Caller) /\ s # <<>> /\ Head(s) = u  BY <3>4, <4>1
        <5> HIDE DEF s
        <5>2. s[1] = u /\ InLine(u, s)  BY <5>1, HeadOfLine
        <5> QED  BY <5>2 DEF s
      <4>3. EntryOf(u) = e  BY <1>5, <4>1, <4>2
      <4> QED  BY <1>7, <4>1, <4>2, <4>3
    <3> QED  BY <1>3, <1>8, <2>3, <3>2, <3>3, <3>4
  <2> QED  BY <2>1, <2>2, <2>3 DEF WaitersOK
<1>14. IdleOK'
  <2> SUFFICES ASSUME NEW e \in Entry, \A k \in DOMAIN table' : table'[k] # e
               PROVE  refs'[e] = 0 /\ ~locked'[e] /\ waiters'[e] = <<>>
    BY DEF IdleOK
  <2>1. refs'[e] = 0 /\ ~locked'[e]  BY <1>1
  <2>2. ASSUME NEW u \in Caller, InLine(u, wq[e])
        PROVE  FALSE
    <3>1. u # t /\ Waiting(u) /\ EntryOf(u) = e  BY <1>5, <2>2
    <3>2. Awaited(u) \in want[u] /\ EntryOf(u) = table[Awaited(u)]  BY <3>1, WantedEntries
    <3>3. Awaited(u) \in want'[u]  BY <1>4, <3>1, <3>2
    <3>4. Awaited(u) \in DOMAIN table'  BY <1>1, <3>3 DEF TableOK, TableExact
    <3>5. table'[Awaited(u)] = e  BY <1>1, <3>1, <3>2, <3>4
    <3> QED  BY <3>4, <3>5
  <2>3. wq[e] \in Seq(Caller)  BY <1>5
  <2>4. wq[e] = <<>>
    <3> DEFINE s == wq[e]
    <3>1. s \in Seq(Caller) /\ \A u \in Caller : ~InLine(u, s)  BY <2>2, <2>3
    <3> HIDE DEF s
    <3>2. s = <<>>  BY <3>1, HeadOfLine
    <3> QED  BY <3>2 DEF s
  <2> QED  BY <1>3, <2>1, <2>4
<1>15. TypeOK'
  <2>1. DOMAIN table' \subseteq Resource /\ \A k \in DOMAIN table' : table'[k] \in Entry
    BY <1>1, <1>2 DEF TypeOK
  <2>2. \A u \in Caller : mine'[u] \in [want'[u] -> Entry] /\ got'[u] \subseteq want'[u]
    <3> TAKE u \in Caller
    <3>1. CASE u = t  BY <1>4, <3>1
    <3>2. CASE u # t  BY <1>2, <1>4, <3>2 DEF TypeOK
    <3> QED  BY <3>1, <3>2
  <2>3. /\ want' \in [Caller -> SUBSET Resource] /\ got' \in [Caller -> SUBSET Resource]
        /\ DOMAIN mine' = Caller /\ interrupted' \subseteq Caller
    BY <1>1, <1>2, <1>3 DEF TypeOK
  <2> QED  BY <1>1, <1>3, <1>5, <1>8, <2>1, <2>2, <2>3 DEF TypeOK
<1> QED  BY <1>1, <1>11, <1>12, <1>13, <1>14, <1>15 DEF LocksInv

\* The body of a caller ends.
LEMMA ExitKeeps ==
    ASSUME LocksInv, NEW t \in Caller, Exit(t)
    PROVE  LocksInv'
<1>1. Inside(t) /\ Cleanup(t, waiters, future)  BY DEF Exit
<1>2. want[t] # {} /\ ~Waiting(t)  BY <1>1 DEF Inside, LocksInv, CallersOK
<1>3. WithoutCaller(t, waiters, future)  BY <1>2, OutOfLine
<1> QED  BY <1>1, <1>2, <1>3, CleanupKeeps

\* Passing the wake-up on wakes the first in a line whose lock is free.
LEMMA WakeFirstKeeps ==
    ASSUME LocksInv, NEW t \in Caller, NEW e \in Entry, NEW wq, NEW fut,
           WithoutCaller(t, wq, fut), ~locked[e]
    PROVE  WithoutCaller(t, wq, WakeFirst(e, wq, fut))
<1>1. CASE WakeFirst(e, wq, fut) = fut  BY <1>1
<1>2. CASE WakeFirst(e, wq, fut) # fut
  <2> DEFINE s == wq[e]
             h == Head(s)
  <2>1. s # <<>> /\ fut[h] = "pending" /\ WakeFirst(e, wq, fut) = [fut EXCEPT ![h] = "woken"]
    BY <1>2 DEF WakeFirst
  <2>2. s \in Seq(Caller)  BY DEF WithoutCaller
  <2> HIDE DEF s
  <2>3. h = s[1] /\ h \in Caller /\ InLine(h, s)  BY <2>1, <2>2, HeadOfLine
  <2> HIDE DEF h
  <2> DEFINE f == [fut EXCEPT ![h] = "woken"]
  <2>4. h # t /\ EntryOf(h) = e /\ wq[e][1] = h  BY <2>3 DEF WithoutCaller, s
  <2>5. /\ f \in [Caller -> {"none", "pending", "woken", "cancelled"}] /\ f[t] = "none"
        /\ \A u \in Caller : f[u] = IF u = h THEN "woken" ELSE fut[u]
    BY <2>3, <2>4 DEF WithoutCaller
  <2> HIDE DEF f
  <2>6. \A u \in Caller \ {t} : f[u] # "none" <=> Waiting(u)
    BY <2>1, <2>4, <2>5 DEF WithoutCaller
  <2>7. \A u \in Caller \ {t} : f[u] = "woken" => ~locked[EntryOf(u)] /\ wq[EntryOf(u)][1] = u
    BY <2>4, <2>5 DEF WithoutCaller
  <2>8. WithoutCaller(t, wq, f)  BY <2>5, <2>6, <2>7 DEF WithoutCaller
  <2> QED  BY <2>1, <2>8 DEF f
<1> QED  BY <1>1, <1>2

\* A cancelled caller unwinds.
LEMMA UnwindKeeps ==
    ASSUME LocksInv, NEW t \in Caller, Unwind(t)
    PROVE  LocksInv'
<1> DEFINE e == EntryOf(t)
           wq == [waiters EXCEPT ![e] = RemoveFirst(@, t)]
           fut == [future EXCEPT ![t] = "none"]
<1>1. t \in interrupted /\ Cleanup(t, wq, IF locked[e] THEN fut ELSE WakeFirst(e, wq, fut))
  BY DEF Unwind, EntryOf
<1>2. Waiting(t)  BY <1>1 DEF LocksInv, CallersOK
<1>3. WithoutCaller(t, wq, fut)  BY <1>2, LeavesLine
<1>4. want[t] # {} /\ e \in Entry  BY <1>2, WantedEntries
<1> HIDE DEF e, wq, fut
<1>5. CASE locked[e]
  <2>1. Cleanup(t, wq, fut)  BY <1>1, <1>5
  <2> QED  BY <1>3, <1>4, <2>1, CleanupKeeps
<1>6. CASE ~locked[e]
  <2> DEFINE f == WakeFirst(e, wq, fut)
  <2>1. WithoutCaller(t, wq, f)  BY <1>3, <1>4, <1>6, WakeFirstKeeps
  <2>2. Cleanup(t, wq, f)  BY <1>1, <1>6
  <2> HIDE DEF f
  <2> QED  BY <1>4, <2>1, <2>2, CleanupKeeps
<1> QED  BY <1>5, <1>6

\* The first state.
LEMMA InitLocks == Init => LocksInv
<1> SUFFICES ASSUME Init PROVE LocksInv  OBVIOUS
<1> USE DEF Init
<1>1. DOMAIN table = {} /\ \A t \in Caller : want[t] = {} /\ got[t] = {} /\ ~Waiting(t)
  BY DEF Waiting
<1>2. TypeOK
  <2>1. \A t \in Caller : mine[t] \in [want[t] -> Entry]  OBVIOUS
  <2>2. waiters \in [Entry -> Seq(Caller)]  OBVIOUS
  <2>3. refs \in [Entry -> Nat]  OBVIOUS
  <2> QED  BY <2>1, <2>2, <2>3 DEF TypeOK
<1>3. TableOK
  <2>1. TableExact  BY <1>1 DEF TableExact
  <2>2. \A t \in Caller : IsFiniteSet(want[t])  BY <1>1, FS_EmptySet
  <2> QED  BY <1>1, <2>1, <2>2 DEF TableOK
<1>4. IdleOK  BY DEF IdleOK
<1>5. HoldersOK  BY <1>1 DEF HoldersOK
<1>6. CallersOK  BY <1>1 DEF CallersOK
<1>7. WaitersOK
  <2>1. \A e \in Entry : Distinct(waiters[e])  BY DEF Distinct
  <2>2. \A e \in Entry, t \in Caller : ~InLine(t, waiters[e])  BY DEF InLine
  <2>3. \A t \in Caller : future[t] # "woken"  OBVIOUS
  <2> QED  BY <1>1, <2>1, <2>2, <2>3 DEF WaitersOK
<1> QED  BY <1>2, <1>3, <1>4, <1>5, <1>6, <1>7 DEF LocksInv

\* Every step, by what it does.
LEMMA StepLocks == LocksInv /\ [Next]_vars => LocksInv'
<1> SUFFICES ASSUME LocksInv, [Next]_vars PROVE LocksInv'  OBVIOUS
<1>1. ASSUME NEW t \in Caller, NEW ks \in Wanted, Call(t, ks) PROVE LocksInv'
  BY <1>1, CallKeeps
<1>2. ASSUME NEW t \in Caller, Resume(t) PROVE LocksInv'  BY <1>2, ResumeKeeps
<1>3. ASSUME NEW t \in Caller, Exit(t) PROVE LocksInv'  BY <1>3, ExitKeeps
<1>4. ASSUME NEW t \in Caller, Cancel(t) PROVE LocksInv'  BY <1>4, CancelKeeps
<1>5. ASSUME NEW t \in Caller, Unwind(t) PROVE LocksInv'  BY <1>5, UnwindKeeps
<1>6. CASE UNCHANGED vars
  <2>1. TypeOK' <=> TypeOK  BY <1>6 DEF vars, TypeOK
  <2>2. TableOK' <=> TableOK  BY <1>6 DEF vars, TableOK, TableExact, Users
  <2>3. (IdleOK' <=> IdleOK) /\ (HoldersOK' <=> HoldersOK)
    BY <1>6 DEF vars, IdleOK, HoldersOK
  <2>4. (CallersOK' <=> CallersOK) /\ (WaitersOK' <=> WaitersOK)
    BY <1>6 DEF vars, CallersOK, WaitersOK, Waiting, EntryOf, Awaited
  <2> QED  BY <2>1, <2>2, <2>3, <2>4 DEF LocksInv
<1> QED  BY <1>1, <1>2, <1>3, <1>4, <1>5, <1>6 DEF Next

\* The invariant is inductive.
THEOREM LocksInvariant == Spec => []LocksInv
<1>1. Init => LocksInv  BY InitLocks
<1>2. LocksInv /\ [Next]_vars => LocksInv'  BY StepLocks
<1> QED  BY <1>1, <1>2, PTL DEF Spec

-----------------------------------------------------------------------------
(* The results.                                                            *)

\* Every entry's line is a sequence of callers, a caller has got some of what
\* it wants, and every resource it wants has its entry.
THEOREM LocksTypeCorrect == Spec => []TypeOK
<1>1. LocksInv => TypeOK  BY DEF LocksInv
<1> QED  BY <1>1, LocksInvariant, PTL

\* No entry is evicted under a caller, none outlives its last one, and its
\* reference count is the number of its callers, whatever is cancelled when.
THEOREM TableIsExact == Spec => []TableExact
<1>1. LocksInv => TableExact  BY DEF LocksInv, TableOK
<1> QED  BY <1>1, LocksInvariant, PTL

\* A call asks, and is inside at once or not yet.
LEMMA CallAsks ==
    ASSUME LocksInv, LocksInv', NEW t \in Caller, NEW ks \in Wanted, Call(t, ks)
    PROVE  Locks!Next
<1> DEFINE inside == {u \in Caller : Inside(u)}
<1>1. TypeOK /\ TypeOK' /\ HoldersOK'  BY DEF LocksInv
<1>2. want[t] = {} /\ ks # {} /\ want' = [want EXCEPT ![t] = ks] /\ ks \in SUBSET Resource
  BY LocksAssumption DEF Call
<1>3. got' = [got EXCEPT ![t] = got'[t]]
  BY <1>1 DEF Call, Advance, TypeOK
<1>4. \A u \in Caller \ {t} : want'[u] = want[u] /\ got'[u] = got[u] /\ (Inside(u)' <=> Inside(u))
  BY <1>1, <1>2, <1>3 DEF TypeOK, Inside
<1>5. t \notin inside  BY <1>2 DEF Inside
<1>6. inside' \in {inside, inside \cup {t}}
  <2>1. CASE Inside(t)'
    <3>1. inside' = inside \cup {t}  BY <1>4, <2>1
    <3> QED  BY <3>1
  <2>2. CASE ~Inside(t)'
    <3>1. inside' = inside  BY <1>4, <1>5, <2>2
    <3> QED  BY <3>1
  <2> QED  BY <2>1, <2>2
<1>7. t \in inside' => \A u \in inside : ks \cap want[u] = {}
  <2> SUFFICES ASSUME Inside(t)', NEW u \in Caller, Inside(u), NEW k \in ks \cap want[u]
               PROVE  FALSE
    OBVIOUS
  <2>1. u # t  BY <1>5
  <2>2. k \in got'[t] /\ k \in got'[u]  BY <1>1, <1>2, <1>4, <2>1 DEF Inside, TypeOK
  <2> QED  BY <1>1, <2>1, <2>2 DEF HoldersOK
<1>8. Locks!Ask(t, ks)  BY <1>2, <1>5, <1>6, <1>7 DEF Locks!Ask
<1> QED  BY <1>2, <1>8 DEF Locks!Next

\* A caller that goes on enters, or waits for the next lock.
LEMMA ResumeEnters ==
    ASSUME LocksInv, LocksInv', NEW t \in Caller, Resume(t)
    PROVE  Locks!Next \/ UNCHANGED Locks!vars
<1> DEFINE inside == {u \in Caller : Inside(u)}
<1>1. TypeOK /\ HoldersOK'  BY DEF LocksInv
<1>2. Waiting(t) /\ want' = want  BY DEF Resume, Waiting
<1>3. got' = [got EXCEPT ![t] = got'[t]]
  BY <1>1 DEF Resume, Advance, TypeOK
<1>4. \A u \in Caller \ {t} : got'[u] = got[u] /\ (Inside(u)' <=> Inside(u))
  BY <1>1, <1>2, <1>3 DEF TypeOK, Inside
<1>5. t \notin inside /\ want[t] # {}
  BY <1>2, WantedEntries DEF Inside
<1>6. CASE Inside(t)'
  <2>1. inside' = inside \cup {t}  BY <1>4, <1>6
  <2>2. \A u \in inside : want[t] \cap want[u] = {}
    <3> SUFFICES ASSUME NEW u \in Caller, Inside(u), NEW k \in want[t] \cap want[u]
                 PROVE  FALSE
      OBVIOUS
    <3>1. u # t  BY <1>5
    <3>2. k \in got'[t] /\ k \in got'[u]  BY <1>2, <1>4, <1>6, <3>1 DEF Inside
    <3> QED  BY <1>1, <3>1, <3>2 DEF HoldersOK
  <2>3. Locks!Enter(t)  BY <1>2, <1>5, <2>1, <2>2 DEF Locks!Enter
  <2> QED  BY <2>3 DEF Locks!Next
<1>7. CASE ~Inside(t)'
  <2>1. inside' = inside  BY <1>4, <1>5, <1>7
  <2> QED  BY <1>2, <2>1 DEF Locks!vars
<1> QED  BY <1>6, <1>7

\* The finally clause leaves.
LEMMA CleanupLeaves ==
    ASSUME TypeOK, NEW t \in Caller, want[t] # {}, NEW wq, NEW fut, Cleanup(t, wq, fut)
    PROVE  Locks!Next
<1> DEFINE inside == {u \in Caller : Inside(u)}
<1>1. want' = [want EXCEPT ![t] = {}] /\ got' = [got EXCEPT ![t] = {}]  BY DEF Cleanup
<1>2. ~Inside(t)' /\ \A u \in Caller \ {t} : Inside(u)' <=> Inside(u)
  BY <1>1 DEF TypeOK, Inside
<1>3. inside' = inside \ {t}  BY <1>2
<1>4. Locks!Leave(t)  BY <1>1, <1>3 DEF Locks!Leave
<1> QED  BY <1>4 DEF Locks!Next

\* acquire_many gives each caller all its resources or none, each resource to
\* one caller at a time: whatever order callers come in, wherever they are
\* cancelled, the lock manager implements LockTable.
THEOREM LocksRefine == Spec => ImplementsLockTable
<1>1. Init => Locks!Init  BY DEF Init, Locks!Init, Inside
<1>2. LocksInv /\ LocksInv' /\ [Next]_vars => [Locks!Next]_Locks!vars
  <2> SUFFICES ASSUME LocksInv, LocksInv', [Next]_vars
               PROVE  Locks!Next \/ UNCHANGED Locks!vars
    OBVIOUS
  <2>1. ASSUME NEW t \in Caller, NEW ks \in Wanted, Call(t, ks) PROVE Locks!Next
    BY <2>1, CallAsks
  <2>2. ASSUME NEW t \in Caller, Resume(t) PROVE Locks!Next \/ UNCHANGED Locks!vars
    BY <2>2, ResumeEnters
  <2>3. ASSUME NEW t \in Caller, Exit(t) PROVE Locks!Next
    <3>1. want[t] # {} /\ Cleanup(t, waiters, future)  BY <2>3 DEF Exit, Inside
    <3> QED  BY <3>1, CleanupLeaves DEF LocksInv
  <2>4. ASSUME NEW t \in Caller, Unwind(t) PROVE Locks!Next
    <3>1. \E wq, fut : Cleanup(t, wq, fut)  BY <2>4 DEF Unwind
    <3>2. want[t] # {}
      <4>1. Waiting(t)  BY <2>4 DEF Unwind, LocksInv, CallersOK
      <4> QED  BY <4>1, WantedEntries
    <3> QED  BY <3>1, <3>2, CleanupLeaves DEF LocksInv
  <2>5. ASSUME NEW t \in Caller, Cancel(t) PROVE UNCHANGED Locks!vars
    BY <2>5 DEF Cancel, Locks!vars, Inside
  <2>6. CASE UNCHANGED vars
    BY <2>6 DEF vars, Locks!vars, Inside
  <2> QED  BY <2>1, <2>2, <2>3, <2>4, <2>5, <2>6 DEF Next
<1> QED  BY <1>1, <1>2, LocksInvariant, PTL DEF Spec, ImplementsLockTable, Locks!Spec
=============================================================================
