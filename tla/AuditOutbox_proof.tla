-------------------------- MODULE AuditOutbox_proof --------------------------
(***************************************************************************)
(* For every number of events, flushes, faults and crashes: no audit event *)
(* is lost or repeated without a fault, a flush reports what it did, and   *)
(* the outbox implements AuditDelivery.                                    *)
(*                                                                         *)
(* The argument, in three layers.  Books: one flush at a time is at work,  *)
(* and the index tells what it still has to append.  Delivered, if no line *)
(* is cut short: the index is part of the log, and each line beyond its    *)
(* events had its fault.  Lossless, if nobody resets: the flush at work    *)
(* removes pending events only, each once it is in the index.              *)
(***************************************************************************)
EXTENDS AuditOutbox, FiniteSetTheorems, SequenceTheorems, WellFoundedInduction, TLAPS

-----------------------------------------------------------------------------
(* Operators.                                                              *)

\* A nonempty finite set of integers has a least element, which Min chooses.
LEMMA MinIsLeast ==
    ASSUME NEW S, S \subseteq Int, IsFiniteSet(S), S # {}
    PROVE  Min(S) \in S /\ \A y \in S : Min(S) <= y
<1> DEFINE UpTo(x) == {y \in S : y <= x}
           B == {UpTo(x) : x \in S}
<1>1. IsWellFoundedOn(StrictSubsetOrdering(S), SUBSET S)
  BY FS_StrictSubsetOrderingWellFounded, FS_FiniteSubsetsOfFinite
<1>2. PICK u \in B : \A v \in B : ~ (<<v, u>> \in StrictSubsetOrdering(S))
  <2>1. B \subseteq SUBSET S /\ B # {}  OBVIOUS
  <2> HIDE DEF B
  <2> QED  BY <1>1, <2>1, WFMin, Zenon
<1>3. PICK x \in S : u = UpTo(x)  OBVIOUS
<1>4. ASSUME NEW y \in S, y < x
      PROVE  FALSE
  <2>1. x \in Int /\ y \in Int /\ \A z \in S : z \in Int  OBVIOUS
  <2>2. x \in UpTo(x) /\ x \notin UpTo(y) /\ \A z \in S : z <= y => z <= x
    BY <1>4, <2>1
  <2>3. UpTo(y) \subseteq S /\ UpTo(x) \subseteq S /\ UpTo(y) # UpTo(x)
        /\ UpTo(y) \subseteq UpTo(x)
    BY <2>2
  <2> HIDE DEF UpTo
  <2>4. <<UpTo(y), UpTo(x)>> \in StrictSubsetOrdering(S)
    BY <2>2, <2>3 DEF StrictSubsetOrdering
  <2> QED  BY <1>2, <1>3, <2>4
<1>5. \A y \in S : x <= y
  <2>1. x \in Int /\ \A y \in S : y \in Int  OBVIOUS
  <2> HIDE DEF UpTo
  <2> QED  BY <1>4, <2>1
<1> QED  BY <1>5 DEF Min

\* The log after a complete line: no other event is lost, this one is there
\* unless the line before was cut short.
LEMMA WithLineKeeps ==
    ASSUME NEW l \in Seq(Event \cup {Torn, Bad}), NEW e \in Event
    PROVE  /\ WithLine(l, e) \in Seq(Event \cup {Torn, Bad})
           /\ Complete(l) \subseteq Complete(WithLine(l, e))
           /\ Complete(WithLine(l, e)) \subseteq Complete(l) \cup {e}
<1>1. CASE EndsTorn(l)
  <2> DEFINE F == SubSeq(l, 1, Len(l) - 1)
             w == Append(F, Bad)
  <2>1. WithLine(l, e) = w  BY <1>1 DEF WithLine, Front
  <2>2. l # <<>> /\ Len(l) \in Nat /\ Len(l) >= 1 /\ l[Len(l)] = Torn
    BY <1>1 DEF EndsTorn, Last
  <2>3. /\ F \in Seq(Event \cup {Torn, Bad}) /\ Len(F) = Len(l) - 1
        /\ \A i \in 1 .. Len(l) - 1 : F[i] = l[i]
    <3> DEFINE n == Len(l) - 1
    <3>1. n \in Int /\ \A i \in 1 .. n : l[i] \in Event \cup {Torn, Bad}  BY <2>2
    <3>2. 1 \in Int /\ n >= 0  BY <2>2
    <3> HIDE DEF n
    <3>3. /\ SubSeq(l, 1, n) \in Seq(Event \cup {Torn, Bad})
          /\ Len(SubSeq(l, 1, n)) = IF 1 <= n THEN n - 1 + 1 ELSE 0
          /\ \A i \in 1 .. n - 1 + 1 : SubSeq(l, 1, n)[i] = l[1 + i - 1]
      BY <3>1, <3>2, SubSeqProperties
    <3>4. n - 1 + 1 = n /\ \A i \in 1 .. n : 1 + i - 1 = i  BY <3>1
    <3>5. /\ SubSeq(l, 1, n) \in Seq(Event \cup {Torn, Bad}) /\ Len(SubSeq(l, 1, n)) = n
          /\ \A i \in 1 .. n : SubSeq(l, 1, n)[i] = l[i]
      BY <3>1, <3>2, <3>3, <3>4
    <3> QED  BY <3>5 DEF n
  <2> HIDE DEF F
  <2>4. /\ w \in Seq(Event \cup {Torn, Bad}) /\ Len(w) = Len(l)
        /\ \A i \in 1 .. Len(l) - 1 : w[i] = l[i]
        /\ w[Len(l)] = Bad
    BY <2>2, <2>3
  <2> HIDE DEF w
  <2>5. DOMAIN l = 1 .. Len(l) /\ DOMAIN w = 1 .. Len(l)  BY <2>4
  <2>6. \A i \in 1 .. Len(l) : i \in 1 .. Len(l) - 1 \/ i = Len(l)  BY <2>2
  <2>7. Complete(w) = Complete(l)
    BY <2>2, <2>4, <2>5, <2>6, OutboxAssumption DEF Complete
  <2> QED  BY <2>1, <2>4, <2>7
<1>2. CASE ~EndsTorn(l)
  <2> DEFINE w == Append(l, e)
  <2>1. WithLine(l, e) = w  BY <1>2 DEF WithLine
  <2>2. /\ w \in Seq(Event \cup {Torn, Bad}) /\ DOMAIN w = 1 .. Len(l) + 1
        /\ DOMAIN l = 1 .. Len(l) /\ Len(l) \in Nat
        /\ \A i \in 1 .. Len(l) : w[i] = l[i]
        /\ w[Len(l) + 1] = e
    OBVIOUS
  <2> HIDE DEF w
  <2>3. \A i \in 1 .. Len(l) + 1 : i \in 1 .. Len(l) \/ i = Len(l) + 1  BY <2>2
  <2>4. \A i \in 1 .. Len(l) : i \in 1 .. Len(l) + 1  BY <2>2
  <2>5. Complete(l) \subseteq Complete(w)  BY <2>2, <2>4 DEF Complete
  <2>6. Complete(w) \subseteq Complete(l) \cup {e}  BY <2>2, <2>3 DEF Complete
  <2> QED  BY <2>1, <2>2, <2>5, <2>6
<1> QED  BY <1>1, <1>2

\* A line cut short is no event.
LEMMA WithTornLineKeeps ==
    ASSUME NEW l \in Seq(Event \cup {Torn, Bad})
    PROVE  /\ WithTornLine(l) \in Seq(Event \cup {Torn, Bad})
           /\ Complete(WithTornLine(l)) = Complete(l)
<1>1. CASE EndsTorn(l)  BY <1>1 DEF WithTornLine
<1>2. CASE ~EndsTorn(l)
  <2> DEFINE w == Append(l, Torn)
  <2>1. WithTornLine(l) = w  BY <1>2 DEF WithTornLine
  <2>2. /\ w \in Seq(Event \cup {Torn, Bad}) /\ DOMAIN w = 1 .. Len(l) + 1
        /\ DOMAIN l = 1 .. Len(l) /\ Len(l) \in Nat
        /\ \A i \in 1 .. Len(l) : w[i] = l[i]
        /\ w[Len(l) + 1] = Torn
    OBVIOUS
  <2> HIDE DEF w
  <2>3. \A i \in 1 .. Len(l) + 1 : i \in 1 .. Len(l) \/ i = Len(l) + 1  BY <2>2
  <2>4. \A i \in 1 .. Len(l) : i \in 1 .. Len(l) + 1  BY <2>2
  <2>5. Complete(w) = Complete(l)
    BY <2>2, <2>3, <2>4, OutboxAssumption DEF Complete
  <2> QED  BY <2>1, <2>2, <2>5
<1> QED  BY <1>1, <1>2

\* A failed append loses no event, and adds at most the one it was about.
LEMMA AfterFailureKeeps ==
    ASSUME NEW l \in Seq(Event \cup {Torn, Bad}), NEW e \in Event, NEW w \in AfterFailure(l, e)
    PROVE  /\ w \in Seq(Event \cup {Torn, Bad})
           /\ Complete(l) \subseteq Complete(w)
           /\ Complete(w) \subseteq Complete(l) \cup {e}
<1>1. w \in {l, WithLine(l, e), WithTornLine(l)}  BY DEF AfterFailure
<1>2. CASE w = l  BY <1>2
<1>3. CASE w = WithLine(l, e)  BY <1>3, WithLineKeeps
<1>4. CASE w = WithTornLine(l)  BY <1>4, WithTornLineKeeps
<1> QED  BY <1>1, <1>2, <1>3, <1>4

\* The types, variable by variable,
LEMMA TypesOfVariables ==
    ASSUME TypeOK
    PROVE  /\ pc \in [Flusher -> {"idle", "queued", "appending", "removing", "saving",
                                  "clearing", "wiping"}]
           /\ todo \in [Flusher -> SUBSET Event]
           /\ snapshot \in [Flusher -> SUBSET Event]
           /\ failed \in [Flusher -> SUBSET Event]
BY Zenon DEF TypeOK

\* and flush by flush.
LEMMA TypesOfFlush ==
    ASSUME TypeOK, NEW f \in Flusher
    PROVE  /\ todo[f] \subseteq Event /\ snapshot[f] \subseteq Event
           /\ InFlush(f) => todo[f] # {}
           /\ (gate = f) <=> (pc[f] \in {"saving", "wiping"})
<1>1. /\ InFlush(f) => todo[f] # {}
      /\ (gate = f) <=> (pc[f] \in {"saving", "wiping"})
  BY Zenon DEF TypeOK
<1> QED  BY <1>1, TypesOfVariables

\* Going on to the events in rest.
LEMMA ContinueGoesOn ==
    ASSUME TypeOK, NEW f \in Flusher, NEW rest \in SUBSET Event, NEW idx, NEW pend,
           Continue(f, rest, idx, pend)
    PROVE  /\ todo'[f] = rest
           /\ pc'[f] \in {"removing", "appending", "clearing", "idle"}
           /\ pc'[f] = "removing" => rest # {} /\ Min(rest) \in idx
           /\ pc'[f] = "appending" => rest # {} /\ Min(rest) \notin idx
           /\ pc'[f] = "clearing" => f \in Resetter
           /\ \A g \in Flusher \ {f} : todo'[g] = todo[g] /\ pc'[g] = pc[g]
           /\ todo' \in [Flusher -> SUBSET Event]
           /\ pc' \in [Flusher -> {"idle", "queued", "appending", "removing", "saving",
                                   "clearing", "wiping"}]
<1> DEFINE place == CASE rest # {} /\ Min(rest) \in idx -> "removing"
                      [] rest # {} /\ Min(rest) \notin idx -> "appending"
                      [] rest = {} /\ f \in Resetter /\ pend = {} -> "clearing"
                      [] OTHER -> "idle"
<1>1. /\ pc' = [pc EXCEPT ![f] = place]
      /\ todo' = [todo EXCEPT ![f] = rest]
  BY DEF Continue
<1>2. /\ place \in {"removing", "appending", "clearing", "idle"}
      /\ place = "removing" => rest # {} /\ Min(rest) \in idx
      /\ place = "appending" => rest # {} /\ Min(rest) \notin idx
      /\ place = "clearing" => f \in Resetter
  OBVIOUS
<1> HIDE DEF place
<1>3. /\ todo \in [Flusher -> SUBSET Event]
      /\ pc \in [Flusher -> {"idle", "queued", "appending", "removing", "saving",
                             "clearing", "wiping"}]
  BY TypesOfVariables
<1> QED  BY <1>1, <1>2, <1>3

-----------------------------------------------------------------------------
(* The books: what holds however the log is cut short and whoever resets.  *)

\* A flush has its index and comes to committed events; the one it works on is
\* new to the index while it is appended, and in it while it is removed.
FlushOK(f) ==
    /\ IsFiniteSet(todo[f]) /\ todo[f] \subseteq committed /\ snapshot[f] \subseteq committed
    /\ InFlush(f) => ready
    /\ pc[f] = "appending" => Current(f) \notin index
    /\ pc[f] \in {"removing", "saving"} => Current(f) \in index

\* The flush lock works.
OneFlush == \A f, g \in Flusher : InFlush(f) /\ InFlush(g) => f = g

Books ==
    /\ TypeOK /\ OneFlush
    /\ IsFiniteSet(pending) /\ pending \subseteq committed
    /\ Complete(log) \subseteq committed
    /\ \A f \in Flusher : FlushOK(f)

\* The event a flush works on is one of those it has not come to.
LEMMA CurrentIsTodo ==
    ASSUME Books, NEW f \in Flusher, InFlush(f)
    PROVE  Current(f) \in todo[f] /\ Current(f) \in Event /\ Current(f) \in committed
<1>1. todo[f] \subseteq Event /\ todo[f] # {} /\ IsFiniteSet(todo[f]) /\ todo[f] \subseteq committed
  BY TypesOfFlush DEF Books, FlushOK
<1>2. todo[f] \subseteq Int  BY <1>1, OutboxAssumption
<1>3. Min(todo[f]) \in todo[f]  BY <1>1, <1>2, MinIsLeast
<1> QED  BY <1>1, <1>3 DEF Current

\* What one flush does leaves the others as they were.
LEMMA OthersKeep ==
    ASSUME Books, NEW f \in Flusher, FlushOK(f)', committed' = committed,
           \A g \in Flusher \ {f} :
              pc'[g] = pc[g] /\ todo'[g] = todo[g] /\ snapshot'[g] = snapshot[g],
           \/ (ready' = ready /\ index' = index /\ (InFlush(f)' => InFlush(f)))
           \/ InFlush(f)
           \/ LockFree
    PROVE  OneFlush' /\ \A g \in Flusher : FlushOK(g)'
<1>1. ASSUME NEW g \in Flusher \ {f}
      PROVE  /\ FlushOK(g)'
             /\ InFlush(g)' <=> InFlush(g)
  <2>1. FlushOK(g) /\ pc'[g] = pc[g] /\ todo'[g] = todo[g] /\ snapshot'[g] = snapshot[g]
    BY <1>1 DEF Books
  <2>2. (ready' = ready /\ index' = index) \/ ~InFlush(g)
    BY <1>1 DEF Books, OneFlush, LockFree
  <2> QED  BY <2>1, <2>2 DEF FlushOK, InFlush, Current
<1>2. ASSUME NEW g \in Flusher, InFlush(f)', InFlush(g)', g # f
      PROVE  FALSE
  <2>1. InFlush(g)  BY <1>1, <1>2
  <2>2. InFlush(f) \/ LockFree  BY <1>2
  <2> QED  BY <1>2, <2>1, <2>2 DEF Books, OneFlush, LockFree
<1>3. OneFlush'
  <2>1. ASSUME NEW g \in Flusher, NEW h \in Flusher, InFlush(g)', InFlush(h)', g # h
        PROVE  FALSE
    <3>1. g # f /\ h # f  BY <1>2, <2>1
    <3> QED  BY <1>1, <2>1, <3>1 DEF Books, OneFlush
  <2> QED  BY <2>1 DEF OneFlush, InFlush
<1> QED  BY <1>1, <1>3

\* Going on to the next event.
LEMMA ContinueKeeps ==
    ASSUME Books, NEW f \in Flusher, InFlush(f), NEW pend,
           Continue(f, todo[f] \ {Current(f)}, index, pend),
           snapshot' = snapshot, committed' = committed, ready' = ready, index' = index
    PROVE  OneFlush' /\ \A g \in Flusher : FlushOK(g)'
<1>1. FlushOK(f) /\ ready /\ TypeOK /\ todo[f] \subseteq Event
  BY TypesOfFlush DEF Books, FlushOK
<1> DEFINE rest == todo[f] \ {Current(f)}
<1>2. rest \in SUBSET Event /\ IsFiniteSet(rest) /\ rest \subseteq committed
  BY <1>1, FS_Subset DEF FlushOK
<1> HIDE DEF rest
<1>3. Continue(f, rest, index, pend)  BY DEF rest
<1>4. /\ todo'[f] = rest
      /\ pc'[f] \in {"removing", "appending", "clearing", "idle"}
      /\ pc'[f] = "removing" => rest # {} /\ Min(rest) \in index
      /\ pc'[f] = "appending" => rest # {} /\ Min(rest) \notin index
      /\ \A g \in Flusher \ {f} : todo'[g] = todo[g] /\ pc'[g] = pc[g]
  BY <1>1, <1>2, <1>3, ContinueGoesOn
<1>5. FlushOK(f)'  BY <1>1, <1>2, <1>4 DEF FlushOK, InFlush, Current
<1> QED  BY <1>4, <1>5, OthersKeep


\* One flush moves, and takes, keeps or leaves the gate as its place says.
LEMMA FlushMoves ==
    ASSUME TypeOK, NEW f \in Flusher,
           pc' \in [Flusher -> {"idle", "queued", "appending", "removing", "saving",
                                "clearing", "wiping"}],
           todo' \in [Flusher -> SUBSET Event],
           \A g \in Flusher \ {f} : todo'[g] = todo[g] /\ pc'[g] = pc[g],
           InFlush(f)' => todo'[f] # {},
           IF pc'[f] \in {"saving", "wiping"} THEN gate \in {Nobody, f} /\ gate' = f
           ELSE IF gate = f THEN gate' = Nobody ELSE gate' = gate
    PROVE  /\ gate' \in {Nobody, Payment} \cup Flusher
           /\ \A g \in Flusher : /\ InFlush(g)' => todo'[g] # {}
                                 /\ (gate' = g) <=> (pc'[g] \in {"saving", "wiping"})
<1>1. ASSUME NEW g \in Flusher
      PROVE  /\ InFlush(g)' => todo'[g] # {}
             /\ (gate' = g) <=> (pc'[g] \in {"saving", "wiping"})
  <2>1. /\ InFlush(g) => todo[g] # {}
        /\ (gate = g) <=> (pc[g] \in {"saving", "wiping"})
    BY <1>1, TypesOfFlush
  <2>2. CASE g = f
    BY <2>2, OutboxAssumption
  <2>3. CASE g # f
    <3>1. todo'[g] = todo[g] /\ pc'[g] = pc[g]  BY <2>3
    <3>2. (gate' = g) <=> (gate = g)  BY <2>3, OutboxAssumption
    <3> QED  BY <2>1, <3>1, <3>2 DEF InFlush
  <2> QED  BY <2>2, <2>3
<1>2. gate' \in {Nobody, Payment} \cup Flusher  BY DEF TypeOK
<1> QED  BY <1>1, <1>2

\* A flush that goes on holds the gate no more.
LEMMA ContinueTypes ==
    ASSUME TypeOK, NEW f \in Flusher, NEW rest \in SUBSET Event, NEW idx, NEW pend,
           Continue(f, rest, idx, pend),
           IF gate = f THEN gate' = Nobody ELSE gate' = gate
    PROVE  /\ todo' \in [Flusher -> SUBSET Event]
           /\ pc' \in [Flusher -> {"idle", "queued", "appending", "removing", "saving",
                                   "clearing", "wiping"}]
           /\ gate' \in {Nobody, Payment} \cup Flusher
           /\ \A g \in Flusher : /\ InFlush(g)' => todo'[g] # {}
                                 /\ (gate' = g) <=> (pc'[g] \in {"saving", "wiping"})
<1>1. /\ todo'[f] = rest
      /\ pc'[f] \in {"removing", "appending", "clearing", "idle"}
      /\ pc'[f] = "removing" => rest # {}
      /\ pc'[f] = "appending" => rest # {}
      /\ \A g \in Flusher \ {f} : todo'[g] = todo[g] /\ pc'[g] = pc[g]
      /\ todo' \in [Flusher -> SUBSET Event]
      /\ pc' \in [Flusher -> {"idle", "queued", "appending", "removing", "saving",
                              "clearing", "wiping"}]
  BY ContinueGoesOn
<1>2. (InFlush(f)' => todo'[f] # {}) /\ pc'[f] \notin {"saving", "wiping"}
  BY <1>1 DEF InFlush
<1> QED  BY <1>1, <1>2, FlushMoves

-----------------------------------------------------------------------------
(* Every step keeps the books.                                             *)

\* A flush that has done with an event goes on; what it appended, it has come to.
LEMMA GoesOnKeepsBooks ==
    ASSUME Books, NEW f \in Flusher,
           AppendFails(f) \/ RemovalEnds(f) \/ RemovalFails(f)
    PROVE  Books'
<1>1. TypeOK /\ InFlush(f)  BY DEF Books, InFlush, AppendFails, RemovalEnds, RemovalFails
<1>2. /\ Current(f) \in todo[f] /\ Current(f) \in Event /\ Current(f) \in committed
      /\ todo[f] \subseteq Event
  BY <1>1, CurrentIsTodo, TypesOfFlush
<1>3. /\ \E pend : Continue(f, todo[f] \ {Current(f)}, index, pend)
      /\ UNCHANGED <<ready, index, snapshot, committed, crashes>>
  BY Zenon DEF AppendFails, RemovalEnds, RemovalFails
<1>4. PICK pend : Continue(f, todo[f] \ {Current(f)}, index, pend)  BY <1>3
<1>5. OneFlush' /\ \A g \in Flusher : FlushOK(g)'  BY <1>1, <1>3, <1>4, ContinueKeeps
<1>6. IF gate = f THEN gate' = Nobody ELSE gate' = gate
  BY <1>1, TypesOfFlush DEF AppendFails, RemovalEnds, RemovalFails
<1>7. /\ todo' \in [Flusher -> SUBSET Event]
      /\ pc' \in [Flusher -> {"idle", "queued", "appending", "removing", "saving",
                              "clearing", "wiping"}]
      /\ gate' \in {Nobody, Payment} \cup Flusher
      /\ \A g \in Flusher : /\ InFlush(g)' => todo'[g] # {}
                            /\ (gate' = g) <=> (pc'[g] \in {"saving", "wiping"})
  BY <1>1, <1>2, <1>4, <1>6, ContinueTypes
<1>8. pending' \subseteq pending /\ IsFiniteSet(pending')
  <2>1. pending' \subseteq pending  BY DEF AppendFails, RemovalEnds, RemovalFails
  <2> QED  BY <2>1, FS_Subset DEF Books
<1>9. log' = log \/ log' \in AfterFailure(log, Current(f))
  BY DEF AppendFails, RemovalEnds, RemovalFails
<1>10. log' \in Seq(Event \cup {Torn, Bad}) /\ Complete(log') \subseteq committed
  <2>1. log \in Seq(Event \cup {Torn, Bad}) /\ Complete(log) \subseteq committed
    BY <1>1 DEF Books, TypeOK
  <2>2. CASE log' = log  BY <2>1, <2>2
  <2>3. CASE log' \in AfterFailure(log, Current(f))
    <3>1. PICK w \in AfterFailure(log, Current(f)) : log' = w  BY <2>3
    <3>2. w \in Seq(Event \cup {Torn, Bad}) /\ Complete(w) \subseteq Complete(log) \cup {Current(f)}
      BY <1>2, <2>1, AfterFailureKeeps
    <3> QED  BY <1>2, <2>1, <3>1, <3>2
  <2> QED  BY <1>9, <2>2, <2>3
<1>11. failed' \in [Flusher -> SUBSET Event] /\ faults' \in 0..MaxFaults
  <2>1. failed \in [Flusher -> SUBSET Event] /\ faults \in 0..MaxFaults /\ MaxFaults \in Nat
    BY <1>1, TypesOfVariables, OutboxAssumption DEF TypeOK
  <2>2. \/ failed' = failed /\ faults' = faults
        \/ faults < MaxFaults /\ faults' = faults + 1
             /\ failed' = [failed EXCEPT ![f] = @ \cup {Current(f)}]
    BY DEF AppendFails, RemovalEnds, RemovalFails
  <2> QED  BY <1>2, <2>1, <2>2
<1>12. snapshot' \in [Flusher -> SUBSET Event]  BY <1>1, <1>3, TypesOfVariables
<1>13. TypeOK'
  BY <1>1, <1>3, <1>7, <1>8, <1>10, <1>11, <1>12 DEF TypeOK
<1> QED  BY <1>3, <1>5, <1>8, <1>10, <1>13 DEF Books

\* An append that succeeds puts the event in the index and in the log.
LEMMA AppendKeepsBooks ==
    ASSUME Books, NEW f \in Flusher, AppendOk(f)
    PROVE  Books'
<1>1. /\ TypeOK /\ InFlush(f) /\ FlushOK(f) /\ pc[f] = "appending"
      /\ log \in Seq(Event \cup {Torn, Bad}) /\ Complete(log) \subseteq committed
  BY DEF Books, TypeOK, InFlush, AppendOk
<1>2. Current(f) \in todo[f] /\ Current(f) \in Event /\ Current(f) \in committed
  BY <1>1, CurrentIsTodo
<1>3. /\ log' = WithLine(log, Current(f)) /\ index' = index \cup {Current(f)}
      /\ pc' = [pc EXCEPT ![f] = "removing"]
      /\ UNCHANGED <<pending, gate, ready, snapshot, todo, failed, committed, faults, crashes>>
  BY DEF AppendOk
<1>4. /\ pc \in [Flusher -> {"idle", "queued", "appending", "removing", "saving",
                             "clearing", "wiping"}]
      /\ todo \in [Flusher -> SUBSET Event] /\ todo[f] # {} /\ gate # f
  BY <1>1, TypesOfVariables, TypesOfFlush
<1>5. /\ pc' \in [Flusher -> {"idle", "queued", "appending", "removing", "saving",
                              "clearing", "wiping"}]
      /\ pc'[f] = "removing" /\ \A g \in Flusher \ {f} : pc'[g] = pc[g]
  BY <1>3, <1>4
<1>6. FlushOK(f)'  BY <1>1, <1>3, <1>5 DEF FlushOK, InFlush, Current
<1>7. OneFlush' /\ \A g \in Flusher : FlushOK(g)'  BY <1>1, <1>3, <1>5, <1>6, OthersKeep
<1>8. /\ gate' \in {Nobody, Payment} \cup Flusher
      /\ \A g \in Flusher : /\ InFlush(g)' => todo'[g] # {}
                            /\ (gate' = g) <=> (pc'[g] \in {"saving", "wiping"})
  BY <1>1, <1>3, <1>4, <1>5, FlushMoves
<1>9. log' \in Seq(Event \cup {Torn, Bad}) /\ Complete(log') \subseteq committed
  <2> DEFINE w == WithLine(log, Current(f))
  <2>1. w \in Seq(Event \cup {Torn, Bad}) /\ Complete(w) \subseteq Complete(log) \cup {Current(f)}
    BY <1>1, <1>2, WithLineKeeps
  <2>2. log' = w  BY <1>3
  <2> HIDE DEF w
  <2> QED  BY <1>1, <1>2, <2>1, <2>2
<1>10. TypeOK'  BY <1>1, <1>2, <1>3, <1>5, <1>8, <1>9 DEF TypeOK
<1> QED  BY <1>3, <1>7, <1>9, <1>10 DEF Books

\* A flush takes its snapshot when no other is at work.
LEMMA SnapshotKeepsBooks ==
    ASSUME Books, NEW f \in Flusher, Snapshot(f)
    PROVE  Books'
<1>1. /\ TypeOK /\ LockFree /\ pc[f] = "queued" /\ gate # f
      /\ pending \in SUBSET Event /\ IsFiniteSet(pending) /\ pending \subseteq committed
      /\ Complete(log) \subseteq committed
  BY TypesOfFlush DEF Books, TypeOK, Snapshot
<1>2. /\ Continue(f, pending, index', pending)
      /\ ready' = TRUE /\ snapshot' = [snapshot EXCEPT ![f] = pending]
      /\ failed' = [failed EXCEPT ![f] = {}]
      /\ UNCHANGED <<pending, gate, log, committed, faults, crashes>>
  BY DEF Snapshot
<1>3. /\ snapshot \in [Flusher -> SUBSET Event]
      /\ failed \in [Flusher -> SUBSET Event]
  BY <1>1, TypesOfVariables
<1>4. /\ todo' \in [Flusher -> SUBSET Event]
      /\ pc' \in [Flusher -> {"idle", "queued", "appending", "removing", "saving",
                              "clearing", "wiping"}]
      /\ gate' \in {Nobody, Payment} \cup Flusher
      /\ \A g \in Flusher : /\ InFlush(g)' => todo'[g] # {}
                            /\ (gate' = g) <=> (pc'[g] \in {"saving", "wiping"})
  BY <1>1, <1>2, ContinueTypes
<1>5. /\ todo'[f] = pending
      /\ pc'[f] \in {"removing", "appending", "clearing", "idle"}
      /\ pc'[f] = "removing" => Min(pending) \in index'
      /\ pc'[f] = "appending" => Min(pending) \notin index'
      /\ \A g \in Flusher \ {f} : todo'[g] = todo[g] /\ pc'[g] = pc[g]
  BY <1>1, <1>2, ContinueGoesOn
<1>6. /\ snapshot' \in [Flusher -> SUBSET Event] /\ failed' \in [Flusher -> SUBSET Event]
      /\ snapshot'[f] = pending /\ \A g \in Flusher \ {f} : snapshot'[g] = snapshot[g]
  BY <1>1, <1>2, <1>3
<1>7. FlushOK(f)'  BY <1>1, <1>2, <1>5, <1>6 DEF FlushOK, InFlush, Current
<1>8. OneFlush' /\ \A g \in Flusher : FlushOK(g)'
  BY <1>1, <1>2, <1>5, <1>6, <1>7, OthersKeep
<1>9. index' \subseteq Event  BY <1>1 DEF Snapshot, TypeOK, Complete
<1>10. TypeOK'  BY <1>1, <1>2, <1>4, <1>6, <1>9 DEF TypeOK
<1> QED  BY <1>1, <1>2, <1>8, <1>10 DEF Books

\* An event found pending is removed under the gate; one that is gone is done.
LEMMA RemovalBeginsKeepsBooks ==
    ASSUME Books, NEW f \in Flusher, RemovalBegins(f)
    PROVE  Books'
<1>1. /\ TypeOK /\ InFlush(f) /\ FlushOK(f) /\ pc[f] = "removing" /\ gate = Nobody
      /\ todo[f] # {} /\ gate # f /\ todo[f] \subseteq Event
  BY TypesOfFlush DEF Books, InFlush, RemovalBegins
<1>2. UNCHANGED <<pending, log, ready, index, snapshot, failed, committed, faults, crashes>>
  BY DEF RemovalBegins
<1>3. /\ pc \in [Flusher -> {"idle", "queued", "appending", "removing", "saving",
                             "clearing", "wiping"}]
      /\ todo \in [Flusher -> SUBSET Event]
  BY <1>1, TypesOfVariables
<1>4. CASE Current(f) \in pending
  <2>1. gate' = f /\ pc' = [pc EXCEPT ![f] = "saving"] /\ todo' = todo
    BY <1>4 DEF RemovalBegins
  <2>2. /\ pc' \in [Flusher -> {"idle", "queued", "appending", "removing", "saving",
                                "clearing", "wiping"}]
        /\ pc'[f] = "saving" /\ \A g \in Flusher \ {f} : pc'[g] = pc[g]
    BY <1>3, <2>1
  <2>3. FlushOK(f)'  BY <1>1, <1>2, <2>1, <2>2 DEF FlushOK, InFlush, Current
  <2>4. OneFlush' /\ \A g \in Flusher : FlushOK(g)'
    BY <1>1, <1>2, <2>1, <2>2, <2>3, OthersKeep
  <2>5. /\ gate' \in {Nobody, Payment} \cup Flusher
        /\ \A g \in Flusher : /\ InFlush(g)' => todo'[g] # {}
                              /\ (gate' = g) <=> (pc'[g] \in {"saving", "wiping"})
    BY <1>1, <1>3, <2>1, <2>2, FlushMoves
  <2>6. TypeOK'  BY <1>1, <1>2, <2>1, <2>2, <2>5 DEF TypeOK
  <2> QED  BY <1>2, <2>4, <2>6 DEF Books
<1>5. CASE Current(f) \notin pending
  <2>1. Continue(f, todo[f] \ {Current(f)}, index, pending) /\ gate' = gate
    BY <1>5 DEF RemovalBegins
  <2>2. OneFlush' /\ \A g \in Flusher : FlushOK(g)'  BY <1>1, <1>2, <2>1, ContinueKeeps
  <2>3. todo[f] \ {Current(f)} \in SUBSET Event  BY <1>1
  <2>4. /\ todo' \in [Flusher -> SUBSET Event]
        /\ pc' \in [Flusher -> {"idle", "queued", "appending", "removing", "saving",
                                "clearing", "wiping"}]
        /\ gate' \in {Nobody, Payment} \cup Flusher
        /\ \A g \in Flusher : /\ InFlush(g)' => todo'[g] # {}
                              /\ (gate' = g) <=> (pc'[g] \in {"saving", "wiping"})
    BY <1>1, <2>1, <2>3, ContinueTypes
  <2>5. TypeOK'  BY <1>1, <1>2, <2>4 DEF TypeOK
  <2> QED  BY <1>2, <2>2, <2>5 DEF Books
<1> QED  BY <1>4, <1>5

\* What begins or ends outside of a flush's work.
LEMMA OutsideKeepsBooks ==
    ASSUME Books, NEW f \in Flusher,
           Flush(f) \/ SnapshotFails(f) \/ CancelWaiting(f) \/ ResetBegins(f) \/ ResetEnds(f)
    PROVE  Books'
<1>1. TypeOK /\ FlushOK(f) /\ {} \in SUBSET Event  BY DEF Books
<1>2. UNCHANGED <<log, ready, index, failed, committed, crashes>>
  BY DEF Flush, SnapshotFails, CancelWaiting, ResetBegins, ResetEnds
<1>3. \E place \in {"idle", "queued", "wiping"} :
         pc' = [pc EXCEPT ![f] = place] /\ (place = "wiping" <=> ResetBegins(f))
  BY DEF Flush, SnapshotFails, CancelWaiting, ResetBegins, ResetEnds
<1>4. /\ pc \in [Flusher -> {"idle", "queued", "appending", "removing", "saving",
                             "clearing", "wiping"}]
      /\ todo \in [Flusher -> SUBSET Event] /\ snapshot \in [Flusher -> SUBSET Event]
      /\ (gate = f) <=> (pc[f] \in {"saving", "wiping"})
  BY <1>1, TypesOfVariables, TypesOfFlush
<1>5. /\ pc' \in [Flusher -> {"idle", "queued", "appending", "removing", "saving",
                              "clearing", "wiping"}]
      /\ pc'[f] \in {"idle", "queued", "wiping"} /\ \A g \in Flusher \ {f} : pc'[g] = pc[g]
  BY <1>3, <1>4
<1>6. \/ todo' = todo /\ snapshot' = snapshot
      \/ todo' = [todo EXCEPT ![f] = {}] /\ snapshot' = [snapshot EXCEPT ![f] = {}]
  BY DEF Flush, SnapshotFails, CancelWaiting, ResetBegins, ResetEnds
<1>7. /\ todo' \in [Flusher -> SUBSET Event] /\ snapshot' \in [Flusher -> SUBSET Event]
      /\ todo'[f] \in {todo[f], {}} /\ snapshot'[f] \in {snapshot[f], {}}
      /\ \A g \in Flusher \ {f} : todo'[g] = todo[g] /\ snapshot'[g] = snapshot[g]
  BY <1>1, <1>4, <1>6
<1>8. IF pc'[f] \in {"saving", "wiping"} THEN gate \in {Nobody, f} /\ gate' = f
      ELSE IF gate = f THEN gate' = Nobody ELSE gate' = gate
  BY <1>3, <1>4 DEF Flush, SnapshotFails, CancelWaiting, ResetBegins, ResetEnds
<1>9. ~InFlush(f)'  BY <1>5 DEF InFlush
<1>10. /\ gate' \in {Nobody, Payment} \cup Flusher
       /\ \A g \in Flusher : /\ InFlush(g)' => todo'[g] # {}
                             /\ (gate' = g) <=> (pc'[g] \in {"saving", "wiping"})
  BY <1>1, <1>5, <1>7, <1>8, <1>9, FlushMoves
<1>11. FlushOK(f)'  BY <1>1, <1>2, <1>5, <1>7, <1>9, FS_EmptySet DEF FlushOK
<1>12. OneFlush' /\ \A g \in Flusher : FlushOK(g)'
  BY <1>2, <1>5, <1>7, <1>9, <1>11, OthersKeep
<1>13. pending' \subseteq pending /\ IsFiniteSet(pending')
  <2>1. pending' \subseteq pending
    BY DEF Flush, SnapshotFails, CancelWaiting, ResetBegins, ResetEnds
  <2> QED  BY <2>1, FS_Subset DEF Books
<1>14. faults' \in 0..MaxFaults
  BY <1>1, OutboxAssumption
     DEF TypeOK, Flush, SnapshotFails, CancelWaiting, ResetBegins, ResetEnds
<1>15. TypeOK'  BY <1>1, <1>2, <1>5, <1>7, <1>10, <1>13, <1>14 DEF TypeOK
<1> QED  BY <1>2, <1>12, <1>13, <1>15 DEF Books

\* A payment commits its event or none.
LEMMA PaymentKeepsBooks ==
    ASSUME Books, PaymentBegins \/ PaymentEnds
    PROVE  Books'
<1>1. UNCHANGED <<log, ready, index, pc, snapshot, todo, failed, faults, crashes>>
  BY DEF PaymentBegins, PaymentEnds
<1>2. \/ UNCHANGED <<pending, committed>>
      \/ \E e \in Event : pending' = pending \cup {e} /\ committed' = committed \cup {e}
  BY DEF PaymentBegins, PaymentEnds
<1>3. /\ pending' \subseteq Event /\ committed' \subseteq Event
      /\ IsFiniteSet(pending') /\ pending' \subseteq committed' /\ committed \subseteq committed'
  BY <1>2, FS_AddElement DEF Books, TypeOK
<1>4. TypeOK  BY DEF Books
<1>5. gate \in {Nobody, Payment} /\ gate' \in {Nobody, Payment}  BY DEF PaymentBegins, PaymentEnds
<1>6. \A g \in Flusher : /\ InFlush(g) => todo[g] # {}
                         /\ (gate' = g) <=> (pc[g] \in {"saving", "wiping"})
  BY <1>4, <1>5, TypesOfFlush, OutboxAssumption
<1>7. \A g \in Flusher : /\ InFlush(g)' => todo'[g] # {}
                         /\ (gate' = g) <=> (pc'[g] \in {"saving", "wiping"})
  BY <1>1, <1>6 DEF InFlush
<1>8. TypeOK'  BY <1>1, <1>3, <1>4, <1>5, <1>7 DEF TypeOK
<1>9. ASSUME NEW g \in Flusher PROVE FlushOK(g)'
  BY <1>1, <1>3 DEF Books, FlushOK, InFlush, Current
<1>10. OneFlush'  BY <1>1 DEF Books, OneFlush, InFlush
<1>11. Complete(log') \subseteq committed'  BY <1>1, <1>3 DEF Books
<1> QED  BY <1>3, <1>8, <1>9, <1>10, <1>11 DEF Books

\* The index is built when no flush is at work, or a restart ends them all.
LEMMA ProcessKeepsBooks ==
    ASSUME Books, Initialize \/ Crash
    PROVE  Books'
<1>1. TypeOK /\ log \in Seq(Event \cup {Torn, Bad}) /\ Complete(log) \subseteq committed
  BY DEF Books, TypeOK
<1>2. UNCHANGED <<pending, committed, faults>>  BY DEF Initialize, Crash
<1>3. \A g \in Flusher : FlushOK(g) /\ ((gate = g) <=> (pc[g] \in {"saving", "wiping"}))
  BY <1>1, TypesOfFlush DEF Books
<1>4. CASE Initialize
  <2>1. ~ready /\ index' = Complete(log) /\ ready' = TRUE
        /\ UNCHANGED <<gate, log, pc, snapshot, todo, failed, crashes>>
    BY <1>4 DEF Initialize
  <2>2. \A g \in Flusher : ~InFlush(g)  BY <1>3, <2>1 DEF FlushOK
  <2>3. index' \subseteq Event  BY <2>1 DEF Complete
  <2>4. \A g \in Flusher : /\ InFlush(g)' => todo'[g] # {}
                           /\ (gate' = g) <=> (pc'[g] \in {"saving", "wiping"})
    BY <1>3, <2>1, <2>2 DEF InFlush
  <2>5. TypeOK'  BY <1>1, <1>2, <2>1, <2>3, <2>4 DEF TypeOK
  <2>6. ASSUME NEW g \in Flusher PROVE FlushOK(g)'
    BY <1>2, <1>3, <2>1, <2>2 DEF FlushOK, InFlush
  <2>7. OneFlush'  BY <2>1, <2>2 DEF OneFlush, InFlush
  <2> QED  BY <1>1, <1>2, <2>1, <2>5, <2>6, <2>7 DEF Books
<1>5. CASE Crash
  <2>1. /\ gate' = Nobody /\ ready' = FALSE /\ index' = {}
        /\ pc' = [f \in Flusher |-> "idle"] /\ snapshot' = [f \in Flusher |-> {}]
        /\ todo' = [f \in Flusher |-> {}] /\ failed' = [f \in Flusher |-> {}]
        /\ crashes < MaxCrashes /\ crashes' = crashes + 1
        /\ log' = log \/ log' = WithTornLine(log)
    BY <1>5 DEF Crash
  <2>2. log' \in Seq(Event \cup {Torn, Bad}) /\ Complete(log') \subseteq committed
    <3> DEFINE w == WithTornLine(log)
    <3>1. w \in Seq(Event \cup {Torn, Bad}) /\ Complete(w) = Complete(log)
      BY <1>1, WithTornLineKeeps
    <3>2. log' = log \/ log' = w  BY <2>1
    <3> HIDE DEF w
    <3> QED  BY <1>1, <3>1, <3>2
  <2>3. crashes' \in 0..MaxCrashes  BY <1>1, <2>1, OutboxAssumption DEF TypeOK
  <2>4. \A g \in Flusher : ~InFlush(g)' /\ gate' # g /\ pc'[g] = "idle"
    BY <2>1, OutboxAssumption DEF InFlush
  <2>5. /\ pc' \in [Flusher -> {"idle", "queued", "appending", "removing", "saving",
                                "clearing", "wiping"}]
        /\ todo' \in [Flusher -> SUBSET Event]
        /\ snapshot' \in [Flusher -> SUBSET Event]
        /\ failed' \in [Flusher -> SUBSET Event]
    BY <2>1
  <2>6. TypeOK'  BY <1>1, <1>2, <2>1, <2>2, <2>3, <2>4, <2>5 DEF TypeOK
  <2>7. ASSUME NEW g \in Flusher PROVE FlushOK(g)'
    BY <2>1, <2>4, FS_EmptySet DEF FlushOK
  <2>8. OneFlush'  BY <2>4 DEF OneFlush, InFlush
  <2> QED  BY <1>2, <2>2, <2>6, <2>7, <2>8 DEF Books
<1> QED  BY <1>4, <1>5

\* The empty outbox has its books in order.
LEMMA InitBooks == Init => Books
<1> SUFFICES ASSUME Init PROVE Books  OBVIOUS
<1>1. Complete(log) = {} /\ log \in Seq(Event \cup {Torn, Bad})  BY DEF Init, Complete
<1>2. \A g \in Flusher : ~InFlush(g) /\ pc[g] = "idle" /\ gate # g
  BY OutboxAssumption DEF Init, InFlush
<1>3. TypeOK
  <2>1. /\ pc \in [Flusher -> {"idle", "queued", "appending", "removing", "saving",
                               "clearing", "wiping"}]
        /\ todo \in [Flusher -> SUBSET Event]
        /\ snapshot \in [Flusher -> SUBSET Event]
        /\ failed \in [Flusher -> SUBSET Event]
    BY DEF Init
  <2>2. \A g \in Flusher : /\ InFlush(g) => todo[g] # {}
                           /\ (gate = g) <=> (pc[g] \in {"saving", "wiping"})
    BY <1>2
  <2>3. faults \in 0..MaxFaults /\ crashes \in 0..MaxCrashes  BY OutboxAssumption DEF Init
  <2> QED  BY <1>1, <2>1, <2>2, <2>3 DEF Init, TypeOK
<1>4. \A g \in Flusher : FlushOK(g)  BY <1>2, FS_EmptySet DEF Init, FlushOK
<1>5. OneFlush  BY <1>2 DEF OneFlush
<1> QED  BY <1>1, <1>3, <1>4, <1>5, FS_EmptySet DEF Books, Init

\* The steps, by what they change.
LEMMA StepCases ==
    ASSUME Next
    PROVE  \/ PaymentBegins \/ PaymentEnds
           \/ Initialize \/ Crash
           \/ \E f \in Flusher :
                 \/ Flush(f) \/ SnapshotFails(f) \/ CancelWaiting(f) \/ ResetBegins(f) \/ ResetEnds(f)
                 \/ Snapshot(f) \/ RemovalBegins(f) \/ AppendOk(f)
                 \/ AppendFails(f) \/ RemovalEnds(f) \/ RemovalFails(f)
BY Zenon DEF Next, Proceed, Thread

\* Every step keeps the books.
LEMMA StepBooks == Books /\ [Next]_vars => Books'
<1> SUFFICES ASSUME Books, [Next]_vars PROVE Books'  OBVIOUS
<1>1. CASE UNCHANGED vars
  BY <1>1 DEF vars, Books, TypeOK, OneFlush, FlushOK, InFlush, Current, Complete
<1>2. CASE Next
  BY <1>2, StepCases, PaymentKeepsBooks, ProcessKeepsBooks, OutsideKeepsBooks,
     SnapshotKeepsBooks, RemovalBeginsKeepsBooks, AppendKeepsBooks, GoesOnKeepsBooks, Zenon
<1> QED  BY <1>1, <1>2

\* The books are in order in every reachable state.
LEMMA BooksKept == Spec => []Books
BY InitBooks, StepBooks, PTL DEF Spec

\* Every variable keeps its shape: a flush at work has an event to work on, and
\* the gate is held by the one that saves (audit_outbox.py:123
\* flush_pending).
THEOREM OutboxTypeCorrect == Spec => []TypeOK
<1>1. Books => TypeOK  BY DEF Books
<1> QED  BY <1>1, BooksKept, PTL

-----------------------------------------------------------------------------
(* When no line is cut short: what is delivered, repeated and reported.    *)

\* What a flush has been through was delivered and removed, or is reported.
Honest(f) ==
    \A e \in snapshot[f] \ (todo[f] \cup failed[f]) : e \in Complete(log) /\ e \notin pending

\* Lines and events of the log, and those the index of this process knows: an
\* append that fails may leave a line that the index does not know, and only
\* such a line is written twice.
Accounts ==
    /\ log \in Seq(Event) /\ IndexMatchesLog
    /\ RepeatsNeedFaults
    /\ ready => Len(log) - Cardinality(index) <= faults

Delivered == Books /\ Accounts /\ \A f \in Flusher : Honest(f)

\* Finitely many events are in the log.
LEMMA CompleteIsFinite ==
    ASSUME NEW l \in Seq(Event)
    PROVE  IsFiniteSet(Complete(l)) /\ Cardinality(Complete(l)) \in Nat /\ Len(l) \in Nat
<1> DEFINE R == {l[i] : i \in 1 .. Len(l)}
<1>1. Len(l) \in Nat /\ DOMAIN l = 1 .. Len(l)  OBVIOUS
<1>2. IsFiniteSet(1 .. Len(l))
  <2>1. 1 \in Int /\ Len(l) \in Int  BY <1>1
  <2> QED  BY <2>1, FS_Interval
<1>3. IsFiniteSet(R)
  <2>1. l \in Surjection(1 .. Len(l), R)  BY <1>1 DEF Surjection
  <2> HIDE DEF R
  <2> QED  BY <1>2, <2>1, FS_Surjection
<1>4. Complete(l) \subseteq R  BY <1>1 DEF Complete
<1> HIDE DEF R
<1>5. IsFiniteSet(Complete(l))  BY <1>3, <1>4, FS_Subset
<1> QED  BY <1>1, <1>5, FS_CardinalityType

\* Without torn lines an append adds its event.
LEMMA AppendAdds ==
    ASSUME NEW l \in Seq(Event), NEW e \in Event
    PROVE  /\ WithLine(l, e) \in Seq(Event) /\ Len(WithLine(l, e)) = Len(l) + 1
           /\ Complete(WithLine(l, e)) = Complete(l) \cup {e}
<1> DEFINE w == Append(l, e)
<1>1. /\ w \in Seq(Event) /\ DOMAIN w = 1 .. Len(l) + 1 /\ Len(w) = Len(l) + 1
      /\ DOMAIN l = 1 .. Len(l) /\ Len(l) \in Nat
      /\ \A i \in 1 .. Len(l) : w[i] = l[i] /\ l[i] \in Event
      /\ w[Len(l) + 1] = e
  OBVIOUS
<1>2. ~EndsTorn(l)
  <2> SUFFICES ASSUME l # <<>>, l[Len(l)] = Torn PROVE FALSE  BY DEF EndsTorn, Last
  <2>1. Len(l) \in 1 .. Len(l)  OBVIOUS
  <2> QED  BY <1>1, <2>1, OutboxAssumption
<1>3. WithLine(l, e) = w  BY <1>2 DEF WithLine
<1> HIDE DEF w
<1>4. \A i \in 1 .. Len(l) + 1 : i \in 1 .. Len(l) \/ i = Len(l) + 1  BY <1>1
<1>5. \A i \in 1 .. Len(l) : i \in 1 .. Len(l) + 1  BY <1>1
<1>6. Complete(l) \cup {e} \subseteq Complete(w)  BY <1>1, <1>5 DEF Complete
<1>7. Complete(w) \subseteq Complete(l) \cup {e}  BY <1>1, <1>4 DEF Complete
<1> QED  BY <1>1, <1>3, <1>6, <1>7

\* A flush stays honest if what it newly is through was delivered and removed,
\* and nothing it knows of becomes pending again.
LEMMA StaysHonest ==
    ASSUME Delivered, NEW f \in Flusher,
           Complete(log) \subseteq Complete(log'),
           \A e \in committed : e \in pending' => e \in pending,
           \A e \in snapshot'[f] \ (todo'[f] \cup failed'[f]) :
              \/ e \in snapshot[f] \ (todo[f] \cup failed[f])
              \/ e \in Complete(log') /\ e \notin pending'
    PROVE  Honest(f)'
<1>1. Honest(f) /\ snapshot[f] \subseteq committed  BY DEF Delivered, Books, FlushOK
<1>2. ASSUME NEW e \in snapshot'[f] \ (todo'[f] \cup failed'[f])
      PROVE  e \in Complete(log') /\ e \notin pending'
  BY <1>1, <1>2 DEF Honest
<1> QED  BY <1>2 DEF Honest

\* The step of an append that succeeds: a new event for the index, perhaps not
\* for the log.
LEMMA AppendAccounts ==
    ASSUME TornAppends = FALSE, Delivered, NEW f \in Flusher, AppendOk(f)
    PROVE  Accounts' /\ Complete(log) \subseteq Complete(log')
<1> DEFINE e == Current(f)
           w == WithLine(log, e)
<1>1. /\ Books /\ log \in Seq(Event) /\ index \subseteq Complete(log) /\ faults \in Nat
      /\ InFlush(f) /\ FlushOK(f) /\ pc[f] = "appending" /\ IsFiniteSet(Complete(log))
      /\ Len(log) \in Nat
  BY CompleteIsFinite, OutboxAssumption
     DEF Delivered, Books, TypeOK, Accounts, IndexMatchesLog, InFlush, AppendOk
<1>2. ready /\ e \notin index /\ e \in Event  BY <1>1, CurrentIsTodo DEF FlushOK
<1>3. log' = w /\ index' = index \cup {e} /\ ready' = ready /\ faults' = faults
  BY DEF AppendOk
<1> HIDE DEF e
<1>4. w \in Seq(Event) /\ Len(w) = Len(log) + 1 /\ Complete(w) = Complete(log) \cup {e}
  BY <1>1, <1>2, AppendAdds
<1> HIDE DEF w
<1>5. IsFiniteSet(index)  BY <1>1, FS_Subset
<1> DEFINE c == Cardinality(index)
           c2 == Cardinality(index')
           all == Cardinality(Complete(w))
<1>6. c \in Nat /\ c2 = c + 1 /\ IsFiniteSet(index')
  BY <1>2, <1>3, <1>5, FS_AddElement, FS_CardinalityType
<1>7. index' \subseteq Complete(w)  BY <1>1, <1>3, <1>4
<1>8. all \in Nat /\ c2 <= all  BY <1>4, <1>7, CompleteIsFinite, FS_Subset
<1>9. Len(log) - c <= faults  BY <1>2 DEF Delivered, Accounts
<1> HIDE DEF c, c2, all
<1>10. Len(w) - c2 <= faults /\ Len(w) - all <= faults  BY <1>1, <1>4, <1>6, <1>8, <1>9
<1>11. RepeatsNeedFaults' /\ (ready' => Len(log') - Cardinality(index') <= faults')
  BY <1>3, <1>10 DEF RepeatsNeedFaults, c2, all
<1> QED  BY <1>3, <1>4, <1>7, <1>11 DEF Accounts, IndexMatchesLog

\* An append that fails: at most one more line, and one more fault.
LEMMA FailureAccounts ==
    ASSUME TornAppends = FALSE, Delivered, NEW f \in Flusher, AppendFails(f)
    PROVE  Accounts' /\ Complete(log) \subseteq Complete(log')
<1> DEFINE e == Current(f)
           w == WithLine(log, e)
<1>1. /\ Books /\ log \in Seq(Event) /\ index \subseteq Complete(log) /\ faults \in Nat
      /\ InFlush(f) /\ IsFiniteSet(Complete(log)) /\ Cardinality(Complete(log)) \in Nat
      /\ Len(log) \in Nat
  BY CompleteIsFinite, OutboxAssumption
     DEF Delivered, Books, TypeOK, Accounts, IndexMatchesLog, InFlush, AppendFails
<1>2. e \in Event  BY <1>1, CurrentIsTodo
<1>3. index' = index /\ ready' = ready /\ faults' = faults + 1  BY DEF AppendFails
<1>4. log' = log \/ log' = w  BY DEF AppendFails, AfterFailure
<1> HIDE DEF e
<1>5. w \in Seq(Event) /\ Len(w) = Len(log) + 1 /\ Complete(w) = Complete(log) \cup {e}
  BY <1>1, <1>2, AppendAdds
<1> HIDE DEF w
<1> DEFINE c == Cardinality(index)
           all == Cardinality(Complete(log))
           all2 == Cardinality(Complete(w))
<1>6. c \in Nat  BY <1>1, FS_Subset, FS_CardinalityType
<1>7. all2 \in Nat /\ all <= all2
  <2>1. IsFiniteSet(Complete(w)) /\ Complete(log) \subseteq Complete(w)
    BY <1>5, CompleteIsFinite
  <2> QED  BY <2>1, FS_Subset, FS_CardinalityType
<1>8. Len(log) - all <= faults /\ (ready => Len(log) - c <= faults)
  BY DEF Delivered, Accounts, RepeatsNeedFaults
<1>9. all \in Nat  BY <1>1
<1> HIDE DEF c, all, all2
<1>10. /\ Len(log) - all <= faults + 1 /\ Len(w) - all2 <= faults + 1
       /\ ready => Len(log) - c <= faults + 1 /\ Len(w) - c <= faults + 1
  BY <1>1, <1>5, <1>6, <1>7, <1>8, <1>9
<1>11. RepeatsNeedFaults' /\ (ready' => Len(log') - Cardinality(index') <= faults')
  BY <1>3, <1>4, <1>10 DEF RepeatsNeedFaults, c, all, all2
<1> QED  BY <1>1, <1>3, <1>4, <1>5, <1>11 DEF Accounts, IndexMatchesLog

\* The other steps write no line; they build the index from the log or drop it.
LEMMA OtherAccounts ==
    ASSUME Delivered, log' = log, faults' \in {faults, faults + 1},
           \/ ready' = ready /\ index' = index
           \/ ready' = TRUE /\ index' = Complete(log)
           \/ ready' = FALSE /\ index' = {}
    PROVE  Accounts' /\ Complete(log) \subseteq Complete(log')
<1>1. /\ log \in Seq(Event) /\ index \subseteq Complete(log) /\ faults \in Nat
      /\ Len(log) \in Nat /\ IsFiniteSet(Complete(log)) /\ Cardinality(Complete(log)) \in Nat
  BY CompleteIsFinite, OutboxAssumption
     DEF Delivered, Books, TypeOK, Accounts, IndexMatchesLog
<1> DEFINE c == Cardinality(index)
           all == Cardinality(Complete(log))
<1>2. c \in Nat /\ all \in Nat  BY <1>1, FS_Subset, FS_CardinalityType
<1>3. Len(log) - all <= faults /\ (ready => Len(log) - c <= faults)
  BY DEF Delivered, Accounts, RepeatsNeedFaults
<1> HIDE DEF c, all
<1>4. Len(log) - all <= faults' /\ (ready => Len(log) - c <= faults')
  BY <1>1, <1>2, <1>3
<1>5. RepeatsNeedFaults' /\ (ready' => Len(log') - Cardinality(index') <= faults')
  BY <1>4 DEF RepeatsNeedFaults, c, all
<1> QED  BY <1>1, <1>5 DEF Accounts, IndexMatchesLog

\* The empty log is accounted for.
LEMMA InitDelivered == Init => Delivered
<1> SUFFICES ASSUME Init PROVE Delivered  OBVIOUS
<1>1. Complete(log) = {} /\ log \in Seq(Event) /\ Len(log) = 0  BY DEF Init, Complete
<1>2. Cardinality({}) = 0  BY FS_EmptySet
<1>3. Accounts  BY <1>1, <1>2 DEF Init, Accounts, IndexMatchesLog, RepeatsNeedFaults
<1>4. \A f \in Flusher : Honest(f)  BY DEF Init, Honest
<1> QED  BY <1>3, <1>4, InitBooks DEF Delivered

\* Without torn lines every step accounts for the log and loses nothing of it.
LEMMA StepAccounts ==
    ASSUME TornAppends = FALSE, Delivered, Next
    PROVE  Accounts' /\ Complete(log) \subseteq Complete(log')
<1>1. CASE \E f \in Flusher : AppendOk(f)  BY <1>1, AppendAccounts, Zenon
<1>2. CASE \E f \in Flusher : AppendFails(f)  BY <1>2, FailureAccounts, Zenon
<1>3. CASE \/ PaymentBegins \/ PaymentEnds \/ Initialize \/ Crash
           \/ \E f \in Flusher :
                 \/ Flush(f) \/ SnapshotFails(f) \/ CancelWaiting(f) \/ ResetBegins(f) \/ ResetEnds(f)
                 \/ Snapshot(f) \/ RemovalBegins(f) \/ RemovalEnds(f) \/ RemovalFails(f)
  <2>1. \/ log' = log /\ faults' \in {faults, faults + 1} /\ ready' = ready /\ index' = index
        \/ log' = log /\ faults' \in {faults, faults + 1}
             /\ ready' = TRUE /\ index' = Complete(log)
        \/ log' = log /\ faults' \in {faults, faults + 1} /\ ready' = FALSE /\ index' = {}
    <3>1. CASE PaymentBegins \/ PaymentEnds  BY <3>1 DEF PaymentBegins, PaymentEnds
    <3>2. CASE Initialize  BY <3>2 DEF Initialize
    <3>3. CASE Crash  BY <3>3 DEF Crash
    <3>4. ASSUME NEW f \in Flusher,
                 \/ Flush(f) \/ SnapshotFails(f) \/ CancelWaiting(f)
                 \/ ResetBegins(f) \/ ResetEnds(f)
                 \/ RemovalBegins(f) \/ RemovalEnds(f) \/ RemovalFails(f)
          PROVE  log' = log /\ faults' \in {faults, faults + 1} /\ ready' = ready /\ index' = index
      BY <3>4 DEF Flush, SnapshotFails, CancelWaiting, ResetBegins, ResetEnds,
                  RemovalBegins, RemovalEnds, RemovalFails
    <3>5. ASSUME NEW f \in Flusher, Snapshot(f)
          PROVE  /\ log' = log /\ faults' = faults /\ ready' = TRUE
                 /\ \/ ready' = ready /\ index' = index
                    \/ index' = Complete(log)
      <4>1. ready \in BOOLEAN  BY DEF Delivered, Books, TypeOK
      <4> QED  BY <3>5, <4>1 DEF Snapshot
    <3> QED  BY <1>3, <3>1, <3>2, <3>3, <3>4, <3>5
  <2> QED  BY <2>1, OtherAccounts
<1> QED  BY <1>1, <1>2, <1>3, StepCases

\* No event that a flush knows of becomes pending again.
LEMMA StepPending ==
    ASSUME Books, Next
    PROVE  \A e \in committed : e \in pending' => e \in pending
<1>1. CASE PaymentEnds  BY <1>1 DEF PaymentEnds
<1>2. CASE PaymentBegins \/ Initialize \/ Crash  BY <1>2 DEF PaymentBegins, Initialize, Crash
<1>3. ASSUME NEW f \in Flusher,
             \/ Flush(f) \/ SnapshotFails(f) \/ CancelWaiting(f) \/ ResetBegins(f)
             \/ ResetEnds(f) \/ Snapshot(f) \/ RemovalBegins(f) \/ AppendOk(f)
             \/ AppendFails(f) \/ RemovalEnds(f) \/ RemovalFails(f)
      PROVE  pending' \subseteq pending
  BY <1>3 DEF Flush, SnapshotFails, CancelWaiting, ResetBegins, ResetEnds, Snapshot,
              RemovalBegins, AppendOk, AppendFails, RemovalEnds, RemovalFails
<1> QED  BY <1>1, <1>2, <1>3, StepCases

\* What a flush comes through in a step was delivered and removed, or fails.
LEMMA FlushComesThrough ==
    ASSUME Delivered, NEW f \in Flusher,
           \/ Flush(f) \/ SnapshotFails(f) \/ CancelWaiting(f) \/ ResetBegins(f)
           \/ ResetEnds(f) \/ Snapshot(f) \/ RemovalBegins(f) \/ AppendOk(f)
           \/ AppendFails(f) \/ RemovalEnds(f) \/ RemovalFails(f)
    PROVE  /\ \A e \in snapshot'[f] \ (todo'[f] \cup failed'[f]) :
                 \/ e \in snapshot[f] \ (todo[f] \cup failed[f])
                 \/ e \in Complete(log) /\ e \notin pending'
           /\ \A g \in Flusher \ {f} : /\ snapshot'[g] = snapshot[g] /\ todo'[g] = todo[g]
                                       /\ failed'[g] = failed[g]
<1>1. /\ snapshot \in [Flusher -> SUBSET Event] /\ todo \in [Flusher -> SUBSET Event]
      /\ failed \in [Flusher -> SUBSET Event]
      /\ index \subseteq Complete(log) /\ FlushOK(f)
  BY TypesOfVariables DEF Delivered, Books, Accounts, IndexMatchesLog
<1>2. CASE Flush(f) \/ SnapshotFails(f) \/ ResetBegins(f) \/ ResetEnds(f) \/ AppendOk(f)
  BY <1>2 DEF Flush, SnapshotFails, ResetBegins, ResetEnds, AppendOk
<1>3. CASE CancelWaiting(f)
  <2>1. /\ todo' = [todo EXCEPT ![f] = {}] /\ snapshot' = [snapshot EXCEPT ![f] = {}]
        /\ failed' = failed
    BY <1>3 DEF CancelWaiting
  <2> QED  BY <1>1, <2>1
<1>4. CASE Snapshot(f)
  <2>1. /\ todo' = [todo EXCEPT ![f] = pending] /\ snapshot' = [snapshot EXCEPT ![f] = pending]
        /\ failed' = [failed EXCEPT ![f] = {}]
    BY <1>4 DEF Snapshot, Continue
  <2> QED  BY <1>1, <2>1
<1>5. CASE AppendFails(f) \/ RemovalFails(f)
  <2>1. /\ todo' = [todo EXCEPT ![f] = todo[f] \ {Current(f)}] /\ snapshot' = snapshot
        /\ failed' = [failed EXCEPT ![f] = @ \cup {Current(f)}]
    BY <1>5 DEF AppendFails, RemovalFails, Continue
  <2> QED  BY <1>1, <2>1
<1>6. CASE RemovalEnds(f)
  <2>1. /\ todo' = [todo EXCEPT ![f] = todo[f] \ {Current(f)}] /\ snapshot' = snapshot
        /\ failed' = failed /\ pending' = pending \ {Current(f)}
    BY <1>6 DEF RemovalEnds, Continue
  <2>2. Current(f) \in Complete(log)  BY <1>1, <1>6 DEF RemovalEnds, FlushOK
  <2> QED  BY <1>1, <2>1, <2>2
<1>7. CASE RemovalBegins(f)
  <2>1. snapshot' = snapshot /\ failed' = failed /\ pending' = pending
        /\ Current(f) \in Complete(log)
    BY <1>1, <1>7 DEF RemovalBegins, FlushOK
  <2>2. \/ todo' = todo
        \/ todo' = [todo EXCEPT ![f] = todo[f] \ {Current(f)}] /\ Current(f) \notin pending
    BY <1>7 DEF RemovalBegins, Continue
  <2> QED  BY <1>1, <2>1, <2>2
<1> QED  BY <1>2, <1>3, <1>4, <1>5, <1>6, <1>7

\* Without torn lines every step keeps the accounts and the flushes honest.
LEMMA StepDelivered ==
    ASSUME TornAppends = FALSE
    PROVE  Delivered /\ [Next]_vars => Delivered'
<1> SUFFICES ASSUME Delivered, [Next]_vars PROVE Delivered'  OBVIOUS
<1>1. Books'  BY StepBooks DEF Delivered
<1>2. CASE UNCHANGED vars
  BY <1>1, <1>2 DEF vars, Delivered, Accounts, IndexMatchesLog, RepeatsNeedFaults, Honest, Complete
<1>3. CASE Next
  <2>1. Accounts' /\ Complete(log) \subseteq Complete(log')  BY <1>3, StepAccounts
  <2>2. \A e \in committed : e \in pending' => e \in pending
    BY <1>3, StepPending DEF Delivered
  <2>3. ASSUME NEW g \in Flusher PROVE Honest(g)'
    <3>1. CASE PaymentBegins \/ PaymentEnds \/ Initialize
      <4>1. UNCHANGED <<snapshot, todo, failed>>  BY <3>1 DEF PaymentBegins, PaymentEnds, Initialize
      <4> QED  BY <2>1, <2>2, <4>1, StaysHonest
    <3>2. CASE Crash  BY <3>2 DEF Crash, Honest
    <3>3. ASSUME NEW f \in Flusher,
                 \/ Flush(f) \/ SnapshotFails(f) \/ CancelWaiting(f) \/ ResetBegins(f)
                 \/ ResetEnds(f) \/ Snapshot(f) \/ RemovalBegins(f) \/ AppendOk(f)
                 \/ AppendFails(f) \/ RemovalEnds(f) \/ RemovalFails(f)
          PROVE  Honest(g)'
      <4>1. \A e \in snapshot'[g] \ (todo'[g] \cup failed'[g]) :
               \/ e \in snapshot[g] \ (todo[g] \cup failed[g])
               \/ e \in Complete(log') /\ e \notin pending'
        <5>1. CASE g = f  BY <2>1, <3>3, <5>1, FlushComesThrough
        <5>2. CASE g # f  BY <3>3, <5>2, FlushComesThrough
        <5> QED  BY <5>1, <5>2
      <4> QED  BY <2>1, <2>2, <4>1, StaysHonest
    <3> QED  BY <1>3, <3>1, <3>2, <3>3, StepCases
  <2> QED  BY <1>1, <2>1, <2>3 DEF Delivered
<1> QED  BY <1>2, <1>3

\* The accounts hold of every reachable state if no line is cut short.
LEMMA DeliveredKept ==
    ASSUME TornAppends = FALSE
    PROVE  Spec => []Delivered
BY InitDelivered, StepDelivered, PTL DEF Spec

\* What contains_event_id confirms is in the log (jsonl_audit_repository.py).
THEOREM IndexIsTrue ==
    ASSUME TornAppends = FALSE
    PROVE  Spec => []IndexMatchesLog
<1>1. Delivered => IndexMatchesLog  BY DEF Delivered, Accounts
<1> QED  BY <1>1, DeliveredKept, PTL

\* Crashes and overlapping flushes write no event twice: a second line needs an
\* append that reported a failure although its line was complete.
THEOREM OnlyFaultsRepeat ==
    ASSUME TornAppends = FALSE
    PROVE  Spec => []RepeatsNeedFaults
<1>1. Delivered => RepeatsNeedFaults  BY DEF Delivered, Accounts
<1> QED  BY <1>1, DeliveredKept, PTL

\* A flush reports exactly what it could not deliver and remove, whatever
\* other flushes, payments, resets and cancellations do meanwhile.
THEOREM FlushesAreHonest ==
    ASSUME TornAppends = FALSE
    PROVE  Spec => []FlushIsHonest
<1>1. Delivered => FlushIsHonest  BY DEF Delivered, Honest, FlushIsHonest
<1> QED  BY <1>1, DeliveredKept, PTL

-----------------------------------------------------------------------------
(* When nobody resets either: an event is pending until it is in the log.  *)

\* Only the flush that holds the lock removes events, one it has come to.
FlushesPending == \A f \in Flusher : InFlush(f) => todo[f] \subseteq pending

NobodyResets == \A f \in Flusher : pc[f] \notin {"clearing", "wiping"}

Lossless == Delivered /\ FlushesPending /\ NobodyResets /\ NoEventLost

\* The empty outbox has lost nothing.
LEMMA InitLossless == Init => Lossless
<1> SUFFICES ASSUME Init PROVE Lossless  OBVIOUS
<1>1. \A f \in Flusher : pc[f] = "idle"  BY DEF Init
<1> QED  BY <1>1, InitDelivered
         DEF Init, Lossless, FlushesPending, NobodyResets, NoEventLost, InFlush

\* Nobody starts to reset who is not one of Resetter.
LEMMA StepNobodyResets ==
    ASSUME Resetter = {}, Lossless, Next
    PROVE  NobodyResets'
<1>1. /\ TypeOK
      /\ pc \in [Flusher -> {"idle", "queued", "appending", "removing", "saving",
                             "clearing", "wiping"}]
      /\ \A g \in Flusher : pc[g] \notin {"clearing", "wiping"}
  BY TypesOfVariables DEF Lossless, Delivered, Books, NobodyResets
<1>2. CASE PaymentBegins \/ PaymentEnds \/ Initialize
  BY <1>1, <1>2 DEF PaymentBegins, PaymentEnds, Initialize, NobodyResets
<1>3. CASE Crash  BY <1>3 DEF Crash, NobodyResets
<1>4. ASSUME NEW f \in Flusher,
             \/ Flush(f) \/ SnapshotFails(f) \/ CancelWaiting(f) \/ ResetEnds(f) \/ AppendOk(f)
      PROVE  NobodyResets'
  BY <1>1, <1>4 DEF Flush, SnapshotFails, CancelWaiting, ResetEnds, AppendOk, NobodyResets
<1>5. ASSUME NEW f \in Flusher, ResetBegins(f) PROVE FALSE
  BY <1>1, <1>5 DEF ResetBegins
<1>6. ASSUME NEW f \in Flusher, NEW rest \in SUBSET Event, NEW idx, NEW pend,
             Continue(f, rest, idx, pend)
      PROVE  NobodyResets'
  BY <1>1, <1>6, ContinueGoesOn DEF NobodyResets
<1>7. ASSUME NEW f \in Flusher, Snapshot(f) PROVE NobodyResets'
  <2>1. pending \in SUBSET Event /\ Continue(f, pending, index', pending)
    BY <1>1, <1>7 DEF Snapshot, TypeOK
  <2> QED  BY <1>6, <2>1
<1>8. ASSUME NEW f \in Flusher, AppendFails(f) \/ RemovalEnds(f) \/ RemovalFails(f)
      PROVE  NobodyResets'
  <2>1. \E pend : Continue(f, todo[f] \ {Current(f)}, index, pend)
    BY <1>8, Zenon DEF AppendFails, RemovalEnds, RemovalFails
  <2>2. todo[f] \ {Current(f)} \in SUBSET Event  BY <1>1, TypesOfFlush
  <2> QED  BY <1>6, <2>1, <2>2
<1>9. ASSUME NEW f \in Flusher, RemovalBegins(f) PROVE NobodyResets'
  <2>1. CASE pc' = [pc EXCEPT ![f] = "saving"]  BY <1>1, <2>1 DEF NobodyResets
  <2>2. CASE Continue(f, todo[f] \ {Current(f)}, index, pending)
    <3>1. todo[f] \ {Current(f)} \in SUBSET Event  BY <1>1, TypesOfFlush
    <3> QED  BY <1>6, <2>2, <3>1
  <2> QED  BY <1>9, <2>1, <2>2 DEF RemovalBegins
<1> QED  BY <1>2, <1>3, <1>4, <1>5, <1>7, <1>8, <1>9, StepCases

\* What becomes of the pending events: a payment adds one, a removal ends with
\* one less, which is in the log.
LEMMA StepOutbox ==
    ASSUME Resetter = {}, Lossless, Next
    PROVE  \/ pending' = pending /\ committed' = committed
           \/ \E e \in Event \ committed : pending' = pending \cup {e} /\ committed' = committed \cup {e}
           \/ \E f \in Flusher : /\ RemovalEnds(f) /\ pending' = pending \ {Current(f)}
                                 /\ committed' = committed /\ Current(f) \in Complete(log)
<1>1. CASE PaymentBegins \/ PaymentEnds \/ Initialize \/ Crash
  BY <1>1 DEF PaymentBegins, PaymentEnds, Initialize, Crash
<1>2. ASSUME NEW f \in Flusher,
             \/ Flush(f) \/ SnapshotFails(f) \/ CancelWaiting(f) \/ ResetBegins(f)
             \/ Snapshot(f) \/ RemovalBegins(f) \/ AppendOk(f)
             \/ AppendFails(f) \/ RemovalFails(f)
      PROVE  pending' = pending /\ committed' = committed
  BY <1>2 DEF Flush, SnapshotFails, CancelWaiting, ResetBegins, Snapshot,
              RemovalBegins, AppendOk, AppendFails, RemovalFails
<1>3. ASSUME NEW f \in Flusher, ResetEnds(f) PROVE FALSE
  BY <1>3 DEF ResetEnds, Lossless, NobodyResets
<1>4. ASSUME NEW f \in Flusher, RemovalEnds(f)
      PROVE  /\ pending' = pending \ {Current(f)} /\ committed' = committed
             /\ Current(f) \in Complete(log)
  BY <1>4 DEF RemovalEnds, Lossless, Delivered, Books, FlushOK, Accounts, IndexMatchesLog
<1> QED  BY <1>1, <1>2, <1>3, <1>4, StepCases

\* The events that a flush has not come to stay pending.
LEMMA StepFlushesPending ==
    ASSUME Resetter = {}, Lossless, Next
    PROVE  FlushesPending'
<1>1. /\ TypeOK /\ OneFlush /\ Books
      /\ todo \in [Flusher -> SUBSET Event]
      /\ pc \in [Flusher -> {"idle", "queued", "appending", "removing", "saving",
                             "clearing", "wiping"}]
      /\ \A g \in Flusher : InFlush(g) => todo[g] \subseteq pending
  BY TypesOfVariables DEF Lossless, Delivered, Books, FlushesPending
<1>2. CASE PaymentBegins \/ PaymentEnds \/ Initialize
  <2>1. todo' = todo /\ pc' = pc /\ pending \subseteq pending'
    BY <1>2 DEF PaymentBegins, PaymentEnds, Initialize
  <2> QED  BY <1>1, <2>1 DEF FlushesPending, InFlush
<1>3. CASE Crash  BY <1>3 DEF Crash, FlushesPending, InFlush
<1>4. ASSUME NEW f \in Flusher, ResetEnds(f) PROVE FALSE
  BY <1>4 DEF ResetEnds, Lossless, NobodyResets
<1>5. ASSUME NEW f \in Flusher,
             \/ Flush(f) \/ SnapshotFails(f) \/ CancelWaiting(f) \/ ResetBegins(f)
      PROVE  FlushesPending'
  <2>1. pending' = pending /\ pc'[f] \in {"queued", "idle", "wiping"}
        /\ \A g \in Flusher \ {f} : pc'[g] = pc[g] /\ todo'[g] = todo[g]
    BY <1>1, <1>5 DEF Flush, SnapshotFails, CancelWaiting, ResetBegins
  <2> QED  BY <1>1, <2>1 DEF FlushesPending, InFlush
<1>6. ASSUME NEW f \in Flusher, AppendOk(f) PROVE FlushesPending'
  <2>1. pending' = pending /\ InFlush(f) /\ todo' = todo
        /\ \A g \in Flusher \ {f} : pc'[g] = pc[g]
    BY <1>1, <1>6 DEF AppendOk, InFlush
  <2> QED  BY <1>1, <2>1 DEF FlushesPending, InFlush
<1>7. ASSUME NEW f \in Flusher, Snapshot(f) PROVE FlushesPending'
  <2>1. pending \in SUBSET Event /\ Continue(f, pending, index', pending) /\ pending' = pending
    BY <1>1, <1>7 DEF Snapshot, TypeOK
  <2>2. todo'[f] = pending /\ \A g \in Flusher \ {f} : todo'[g] = todo[g] /\ pc'[g] = pc[g]
    BY <1>1, <2>1, ContinueGoesOn
  <2> QED  BY <1>1, <2>1, <2>2 DEF FlushesPending, InFlush
<1>8. ASSUME NEW f \in Flusher, InFlush(f), pending \ {Current(f)} \subseteq pending',
             \E pend : Continue(f, todo[f] \ {Current(f)}, index, pend)
      PROVE  FlushesPending'
  <2>1. todo[f] \ {Current(f)} \in SUBSET Event  BY <1>1
  <2>2. /\ todo'[f] = todo[f] \ {Current(f)}
        /\ \A g \in Flusher \ {f} : todo'[g] = todo[g] /\ pc'[g] = pc[g]
    BY <1>1, <1>8, <2>1, ContinueGoesOn
  <2>3. \A g \in Flusher \ {f} : ~InFlush(g)  BY <1>1, <1>8 DEF OneFlush
  <2>4. \A g \in Flusher \ {f} : ~InFlush(g)'  BY <2>2, <2>3 DEF InFlush
  <2>5. todo'[f] \subseteq pending'  BY <1>1, <1>8, <2>2
  <2> QED  BY <2>4, <2>5 DEF FlushesPending, InFlush
<1>9. ASSUME NEW f \in Flusher, AppendFails(f) \/ RemovalEnds(f) \/ RemovalFails(f)
      PROVE  FlushesPending'
  <2>1. /\ \E pend : Continue(f, todo[f] \ {Current(f)}, index, pend)
        /\ pending \ {Current(f)} \subseteq pending' /\ InFlush(f)
    BY <1>9, Zenon DEF AppendFails, RemovalEnds, RemovalFails, InFlush
  <2> QED  BY <1>8, <2>1
<1>10. ASSUME NEW f \in Flusher, RemovalBegins(f) PROVE FlushesPending'
  <2>1. pending' = pending /\ InFlush(f)  BY <1>10 DEF RemovalBegins, InFlush
  <2>2. CASE pc' = [pc EXCEPT ![f] = "saving"] /\ todo' = todo
    <3>1. \A g \in Flusher : InFlush(g)' => InFlush(g)  BY <1>1, <2>1, <2>2 DEF InFlush
    <3> QED  BY <1>1, <2>1, <2>2, <3>1 DEF FlushesPending, InFlush
  <2>3. CASE Continue(f, todo[f] \ {Current(f)}, index, pending)
    BY <1>8, <2>1, <2>3
  <2> QED  BY <1>10, <2>2, <2>3 DEF RemovalBegins
<1> QED  BY <1>2, <1>3, <1>4, <1>5, <1>6, <1>7, <1>9, <1>10, StepCases

\* A step loses no event.
LEMMA StepLossless ==
    ASSUME TornAppends = FALSE, Resetter = {}
    PROVE  Lossless /\ [Next]_vars => Lossless'
<1> SUFFICES ASSUME Lossless, [Next]_vars PROVE Lossless'  OBVIOUS
<1>1. Delivered'  BY StepDelivered DEF Lossless
<1>2. CASE UNCHANGED vars
  BY <1>1, <1>2 DEF vars, Lossless, FlushesPending, NobodyResets, NoEventLost, InFlush, Complete
<1>3. CASE Next
  <2>1. Complete(log) \subseteq Complete(log')  BY <1>3, StepAccounts DEF Lossless
  <2>2. committed \subseteq pending \cup Complete(log)  BY DEF Lossless, NoEventLost
  <2>3. committed' \subseteq pending' \cup Complete(log')  BY <1>3, <2>1, <2>2, StepOutbox
  <2> QED  BY <1>1, <1>3, <2>3, StepNobodyResets, StepFlushesPending DEF Lossless, NoEventLost
<1> QED  BY <1>2, <1>3

\* Nothing is lost in any reachable state.
LEMMA LosslessKept ==
    ASSUME TornAppends = FALSE, Resetter = {}
    PROVE  Spec => []Lossless
BY InitLossless, StepLossless, PTL DEF Spec

\* No committed event is lost, whatever crashes, fails, is cancelled or commits
\* meanwhile: it is pending or in the log.
THEOREM EventsAreKept ==
    ASSUME TornAppends = FALSE, Resetter = {}
    PROVE  Spec => []NoEventLost
<1>1. Lossless => NoEventLost  BY DEF Lossless
<1> QED  BY <1>1, LosslessKept, PTL

-----------------------------------------------------------------------------
(* The outbox implements AuditDelivery.                                    *)

\* What becomes of the log: it keeps its events, and a flush may add the
\* pending one it works on.
LEMMA StepLog ==
    ASSUME TornAppends = FALSE, Lossless, Next
    PROVE  \/ Complete(log') = Complete(log)
           \/ \E e \in pending : Complete(log') = Complete(log) \cup {e} /\ pending' = pending
<1>1. /\ Books /\ log \in Seq(Event) /\ \A g \in Flusher : InFlush(g) => todo[g] \subseteq pending
  BY DEF Lossless, Delivered, Accounts, FlushesPending
<1>2. CASE PaymentBegins \/ PaymentEnds \/ Initialize \/ Crash
  BY <1>2 DEF PaymentBegins, PaymentEnds, Initialize, Crash
<1>3. ASSUME NEW f \in Flusher,
             \/ Flush(f) \/ SnapshotFails(f) \/ CancelWaiting(f) \/ ResetBegins(f) \/ ResetEnds(f)
             \/ Snapshot(f) \/ RemovalBegins(f) \/ RemovalEnds(f) \/ RemovalFails(f)
      PROVE  log' = log
  BY <1>3 DEF Flush, SnapshotFails, CancelWaiting, ResetBegins, ResetEnds, Snapshot,
              RemovalBegins, RemovalEnds, RemovalFails
<1>4. ASSUME NEW f \in Flusher, AppendOk(f) \/ AppendFails(f)
      PROVE  \/ Complete(log') = Complete(log)
             \/ Complete(log') = Complete(log) \cup {Current(f)} /\ pending' = pending
                  /\ Current(f) \in pending
  <2> DEFINE w == WithLine(log, Current(f))
  <2>1. InFlush(f)  BY <1>4 DEF AppendOk, AppendFails, InFlush
  <2>2. Current(f) \in pending /\ Current(f) \in Event  BY <1>1, <2>1, CurrentIsTodo
  <2>3. Complete(w) = Complete(log) \cup {Current(f)}  BY <1>1, <2>2, AppendAdds
  <2>4. pending' = pending /\ (log' = log \/ log' = w)
    BY <1>4 DEF AppendOk, AppendFails, AfterFailure
  <2> HIDE DEF w
  <2> QED  BY <2>2, <2>3, <2>4
<1> QED  BY <1>2, <1>3, <1>4, StepCases

\* Every step commits, delivers or forgets one event, or none of it shows.
LEMMA StepDelivers ==
    ASSUME TornAppends = FALSE, Resetter = {}, Lossless, [Next]_vars
    PROVE  [Delivery!Next]_(Delivery!vars)
<1>1. CASE UNCHANGED vars  BY <1>1 DEF vars, Delivery!vars, Complete
<1>2. CASE Next
  <2>1. /\ pending \subseteq committed /\ Complete(log) \subseteq committed /\ pending \subseteq Event
    BY DEF Lossless, Delivered, Books, TypeOK
  <2>2. CASE pending' = pending
    <3>1. CASE Complete(log') = Complete(log)  BY <2>2, <3>1 DEF Delivery!vars
    <3>2. ASSUME NEW e \in pending, Complete(log') = Complete(log) \cup {e}
          PROVE  Delivery!Next
      <4>1. Delivery!Deliver(e)  BY <2>2, <3>2 DEF Delivery!Deliver
      <4> QED  BY <2>1, <4>1 DEF Delivery!Next
    <3> QED  BY <1>2, <3>1, <3>2, StepLog
  <2>3. CASE pending' # pending
    <3>1. Complete(log') = Complete(log)  BY <1>2, <2>3, StepLog
    <3>2. ASSUME NEW e \in Event \ committed, pending' = pending \cup {e}
          PROVE  Delivery!Next
      <4>1. Delivery!Commit(e)  BY <2>1, <3>1, <3>2 DEF Delivery!Commit
      <4> QED  BY <4>1 DEF Delivery!Next
    <3>3. ASSUME NEW f \in Flusher, RemovalEnds(f), pending' = pending \ {Current(f)},
                 Current(f) \in Complete(log)
          PROVE  Delivery!Next
      <4>1. Current(f) \in pending  BY <2>3, <3>3
      <4>2. Delivery!Forget(Current(f))  BY <3>1, <3>3, <4>1 DEF Delivery!Forget
      <4> QED  BY <2>1, <4>1, <4>2 DEF Delivery!Next
    <3> QED  BY <1>2, <2>3, <3>2, <3>3, StepOutbox
  <2> QED  BY <2>2, <2>3
<1> QED  BY <1>1, <1>2

\* The initial states of the outbox are those of AuditDelivery.
LEMMA InitDelivers == Init => Delivery!Init
BY DEF Init, Delivery!Init, Complete

\* Interleaved flushes and payments, faults, cancellations and crashes do not
\* show: events are committed, delivered, and forgotten once delivered.
THEOREM OutboxRefines ==
    ASSUME TornAppends = FALSE, Resetter = {}
    PROVE  Spec => ImplementsAuditDelivery
BY InitDelivers, StepDelivers, LosslessKept, PTL
   DEF Spec, ImplementsAuditDelivery, Delivery!Spec
=============================================================================
