------------------------- MODULE RequestRouting_proof -------------------------
(***************************************************************************)
(* For all texts, values, thresholds and numbers of calls: without a model *)
(* only what the words say in full is done; a turn keeps the TurnContract; *)
(* a retry gets its result; a specialist run gets the verdict it deserves. *)
(*                                                                         *)
(* The argument, in layers that each rest on the one before.               *)
(*   Inv      a text whose decision is disposed to run says it in full     *)
(*            (RunsOnlyWhatIsSaid), a call reaches its tool only with such *)
(*            a decision, and the decision of a call that went by the      *)
(*            words is that of its text from then on.                      *)
(*   Retried  what a call did is on record, and records stay: a call that  *)
(*            repeats the words and the key of one that was done finds the *)
(*            record of just the operation its words say.                  *)
(*   RunsSound  where a run is in its handoff and tool calls, so that its  *)
(*            turns do not run out on a model that does as instructed.     *)
(*   Linked   a call waits for a run if and only if it has one.            *)
(***************************************************************************)
EXTENDS RequestRouting, TLAPS

-----------------------------------------------------------------------------
(* The router.                                                             *)

\* Only a decision that is clear and builds a command is run.
LEMMA RunsAreClear ==
    ASSUME NEW d, NEW limit, Disposition(d, limit) = "run"
    PROVE  ~d.asks /\ Builds(d)
BY DEF Disposition

\* A command without a malformed token has one usable token per field.
LEMMA WellFormedTokens ==
    ASSUME NEW x, ~Malformed(x), x.tokens \in Seq([field : STRING, value : Value])
    PROVE  /\ \A i \in DOMAIN x.tokens : x.tokens[i].field \in Contract[x.verb]
           /\ \A i, j \in DOMAIN x.tokens : x.tokens[i].field = x.tokens[j].field => i = j
<1>1. \A i \in DOMAIN x.tokens : Gives(x, i, x.tokens[i].field)
  BY DEF Malformed
<1>2. \A i \in DOMAIN x.tokens : Usable(x, i)
  BY <1>1 DEF Gives
<1>3. ASSUME NEW i \in DOMAIN x.tokens, NEW j \in DOMAIN x.tokens,
             x.tokens[i].field = x.tokens[j].field, i < j
      PROVE  FALSE
  <2>1. i \in 1..j-1  BY <1>3
  <2> QED  BY <1>1, <1>2, <1>3, <2>1 DEF Gives
<1>4. \A i, j \in DOMAIN x.tokens : i \in Int /\ j \in Int  OBVIOUS
<1> QED  BY <1>2, <1>3, <1>4 DEF Usable

\* The elements of a sequence.
LEMMA Elements ==
    ASSUME NEW S, NEW s \in Seq(S), NEW i \in DOMAIN s
    PROVE  s[i] \in S
<1>1. DOMAIN s = 1..Len(s) /\ s \in [1..Len(s) -> S]  OBVIOUS
<1> QED  BY <1>1

\* A parsed parameter is the value of a token, or one that is left open.
LEMMA ParsedIsGiven ==
    ASSUME NEW x, x.tokens \in Seq([field : STRING, value : Value]),
           NEW f \in DOMAIN Parsed(x)
    PROVE  \/ \E i \in DOMAIN x.tokens :
                 x.tokens[i] = [field |-> f, value |-> Parsed(x)[f]]
           \/ f \in Optional(x.verb) /\ Parsed(x)[f] = Nothing
<1>1. CASE f \in Given(x)
  <2> DEFINE i == CHOOSE i \in DOMAIN x.tokens : Gives(x, i, f)
  <2>1. i \in DOMAIN x.tokens /\ Gives(x, i, f)  BY <1>1 DEF Given
  <2>2. Parsed(x)[f] = x.tokens[i].value  BY <1>1 DEF Parsed
  <2>3. x.tokens[i] \in [field : STRING, value : Value] /\ x.tokens[i].field = f
    BY <2>1, Elements DEF Gives
  <2> HIDE DEF i
  <2> QED  BY <2>1, <2>2, <2>3
<1>2. CASE f \notin Given(x)
  BY <1>2 DEF Parsed
<1> QED  BY <1>1, <1>2

\* A text whose decision is run says in full what is run.
THEOREM RunsOnlyWhatIsSaid ==
    ASSUME NEW x, IsText(x), x.tokens \in Seq([field : STRING, value : Value]),
           NEW limit, Disposition(DeterministicRoute(x), limit) = "run"
    PROVE  Says(x, DeterministicRoute(x).intent, DeterministicRoute(x).parameters)
<1> DEFINE d == DeterministicRoute(x)
<1>1. ~d.asks /\ Builds(d)  BY RunsAreClear
<1>2. x.form \in {"command", "sentence"}
  BY <1>1 DEF DeterministicRoute, IsText, Unclear
<1>3. d.intent = x.verb /\ d.parameters = Parsed(x)
  BY <1>1, <1>2 DEF DeterministicRoute, Canonical, NaturalTransfer, Clear, Unclear, IsText
<1>4. /\ \A i \in DOMAIN x.tokens : x.tokens[i].field \in Contract[x.verb]
      /\ \A i, j \in DOMAIN x.tokens : x.tokens[i].field = x.tokens[j].field => i = j
  <2>1. CASE x.form = "command"
    <3>1. ~Malformed(x)
      BY <1>1, <2>1 DEF DeterministicRoute, Canonical, Unclear
    <3> QED  BY <3>1, WellFormedTokens
  <2>2. CASE x.form = "sentence"
    BY <2>2 DEF IsText
  <2> QED  BY <1>2, <2>1, <2>2
<1>5. DOMAIN Parsed(x) = Contract[x.verb]
  BY <1>1, <1>3 DEF Builds
<1>6. \A f \in Contract[x.verb] :
         \/ \E i \in DOMAIN x.tokens :
               x.tokens[i] = [field |-> f, value |-> Parsed(x)[f]]
         \/ f \in Optional(x.verb) /\ Parsed(x)[f] = Nothing
  BY <1>5, ParsedIsGiven
<1>7. Says(x, x.verb, Parsed(x))
  BY <1>2, <1>4, <1>5, <1>6, Zenon DEF Says
<1> QED  BY <1>3, <1>7
-----------------------------------------------------------------------------
(* The calls.                                                              *)

IsCall(r) == DOMAIN r = DOMAIN NewCall

\* What a call does or has done without a model is what its words say.
Faithful(r) ==
    r.by = "words" /\ (r.at \in {"executing", "reading"} \/ r.did # "nothing") =>
        Says(r.text, r.decision.intent, r.decision.parameters)

\* A call that is being routed has one of the texts.
Waits(r) == r.at = "routing" => r.text \in Text

\* The answers that are due for what was done.
Due(did) ==
    {a \in {"result", "question", "advice"} :
        \/ did = "nothing" /\ a # "result"
        \/ did \in {"operation", "replay"} /\ a = "result"
        \/ did = "reading" /\ a # "question"}

\* A call has a key from when it is routed, has done nothing until its tool is
\* through, and is finished with an answer that is due.
Orderly(r) ==
    /\ r.at \in {"new", "consulting"} => r.key = Nothing
    /\ r.at \in {"routing", "executing", "reading", "finishing"} => r.key \in Key \cup Call
    /\ r.key = Nothing \/ r.at \in {"routing", "executing", "reading"} =>
         r.did = "nothing" /\ r.told = "nothing"
    /\ r.at = "executing" => OperationOf(r.decision) \in Operations
    /\ r.at = "finishing" => r.told \in Due(r.did)

CallOK(r) == IsCall(r) /\ Faithful(r) /\ Waits(r) /\ Orderly(r)

\* A run that decided has one of the decisions of the model.
RunOK(r) ==
    /\ DOMAIN r = DOMAIN Idle
    /\ r.result = "decided" => r.decision \in ModelDecisions

Inv ==
    /\ DOMAIN call = Call /\ \A c \in Call : CallOK(call[c])
    /\ DOMAIN run = Call /\ \A c \in Call : RunOK(run[c])

\* What routing makes of a call: an answer without a result, or the decision
\* that is disposed to run, at its tool.
LEMMA RoutedGoesOn ==
    ASSUME NEW r, IsCall(r), r.did = "nothing", NEW d, NEW by
    PROVE  LET q == Routed(r, d, by)
           IN  /\ IsCall(q) /\ q.did = "nothing" /\ q.key = r.key /\ q.by = by
               /\ by = "words" => q.text = r.text
               /\ \/ q.at = "finishing" /\ q.told \in {"question", "advice"}
                  \/ /\ q.at \in {"executing", "reading"} /\ q.told = r.told
                     /\ q.decision = d /\ Disposition(d, threshold) = "run"
<1> DEFINE q == Routed(r, d, by)
           routed == [r EXCEPT !.decision = d, !.by = by,
                               !.text = IF by = "words" THEN r.text ELSE NoText]
<1>1. /\ IsCall(routed) /\ routed.did = "nothing" /\ routed.decision = d
      /\ routed.key = r.key /\ routed.by = by /\ routed.told = r.told
      /\ by = "words" => routed.text = r.text
  BY DEF IsCall, NewCall
<1>2. \/ \E told \in {"question", "advice"} : q = Telling(routed, told)
      \/ /\ Disposition(d, threshold) = "run"
         /\ \E at \in {"executing", "reading"} : q = [routed EXCEPT !.at = at]
  BY DEF Routed, Disposition
<1> HIDE DEF routed
<1>3. CASE \E told \in {"question", "advice"} : q = Telling(routed, told)
  BY <1>1, <1>3 DEF Telling, IsCall, NewCall
<1>4. CASE /\ Disposition(d, threshold) = "run"
           /\ \E at \in {"executing", "reading"} : q = [routed EXCEPT !.at = at]
  BY <1>1, <1>4 DEF IsCall, NewCall
<1> QED  BY <1>2, <1>3, <1>4

\* A call that is routed by its words, or by what a model made of them.
LEMMA RoutedOK ==
    ASSUME NEW r, CallOK(r), r.at = "routing", NEW d, NEW by \in {"words", "model"},
           by = "words" => d = Route[r.text],
           by = "model" => d \in ModelDecisions
    PROVE  CallOK(Routed(r, d, by))
<1> DEFINE q == Routed(r, d, by)
<1>1. /\ IsCall(r) /\ r.text \in Text /\ r.key \in Key \cup Call
      /\ r.did = "nothing" /\ r.told = "nothing"
  BY DEF CallOK, Waits, Orderly
<1>2. /\ IsCall(q) /\ q.did = "nothing" /\ q.key = r.key /\ q.by = by
      /\ by = "words" => q.text = r.text
      /\ \/ q.at = "finishing" /\ q.told \in {"question", "advice"}
         \/ /\ q.at \in {"executing", "reading"} /\ q.told = r.told
            /\ q.decision = d /\ Disposition(d, threshold) = "run"
  BY <1>1, RoutedGoesOn
<1> HIDE DEF q
<1>3. d \in ModelDecisions \cup {Route[x] : x \in Text}
  BY <1>1
<1>4. Faithful(q)
  <2>1. SUFFICES ASSUME by = "words", Disposition(d, threshold) = "run"
                 PROVE  Says(r.text, d.intent, d.parameters)
    BY <1>2 DEF Faithful
  <2>2. d = DeterministicRoute(r.text)  BY <1>1, <2>1 DEF Route
  <2> QED  BY <1>1, <2>1, <2>2, RunsOnlyWhatIsSaid, RoutingAssumption
<1>5. Waits(q)  BY <1>2 DEF Waits
<1>6. Orderly(q)
  <2>1. OperationOf(d) \in Operations  BY <1>3 DEF Operations
  <2>2. q.key # Nothing  BY <1>1, <1>2, RoutingAssumption
  <2> QED  BY <1>1, <1>2, <2>1, <2>2 DEF Orderly, Due
<1> QED  BY <1>2, <1>4, <1>5, <1>6 DEF CallOK, q

\* A call that begins is in order.
LEMMA BegunOK ==
    ASSUME NEW c \in Call, NEW x \in Text, NEW k \in Key \cup {Nothing}
    PROVE  LET r == Begun(c, x, k)
           IN  CallOK(r) /\ r.at = "routing" /\ r.text = x
<1> DEFINE r == Begun(c, x, k)
<1>1. /\ IsCall(r) /\ r.at = "routing" /\ r.text = x /\ r.did = "nothing"
      /\ r.told = "nothing" /\ r.key = KeyOf(c, k)
  BY DEF Begun, IsCall, NewCall
<1>2. KeyOf(c, k) \in Key \cup Call  BY DEF KeyOf
<1> HIDE DEF r
<1>3. CallOK(r)  BY <1>1, <1>2 DEF CallOK, Faithful, Waits, Orderly
<1> QED  BY <1>1, <1>3 DEF r

\* Its tool is through with a call, and the answer is due.
LEMMA ToldOK ==
    ASSUME NEW r, CallOK(r), r.at \in {"executing", "reading", "finishing"},
           NEW did, NEW told \in Due(did), r.at = "finishing" => did = r.did
    PROVE  CallOK(Telling([r EXCEPT !.did = did], told))
<1> DEFINE q == Telling([r EXCEPT !.did = did], told)
<1>1. /\ IsCall(q) /\ q.at = "finishing" /\ q.did = did /\ q.told = told
      /\ q.key = r.key /\ q.by = r.by /\ q.text = r.text /\ q.decision = r.decision
  BY DEF Telling, CallOK, IsCall, NewCall
<1> HIDE DEF q
<1>2. r.key \in Key \cup Call /\ r.key # Nothing
  BY RoutingAssumption DEF CallOK, Orderly
<1>3. Faithful(q)  BY <1>1 DEF CallOK, Faithful
<1> QED  BY <1>1, <1>2, <1>3 DEF CallOK, Waits, Orderly, q

\* The same, if what was done is recorded already.
LEMMA ToldAgainOK ==
    ASSUME NEW r, CallOK(r), r.at \in {"executing", "reading", "finishing"},
           NEW told \in Due(r.did)
    PROVE  CallOK(Telling(r, told))
<1> DEFINE q == Telling(r, told)
<1>1. /\ IsCall(q) /\ q.at = "finishing" /\ q.did = r.did /\ q.told = told
      /\ q.key = r.key /\ q.by = r.by /\ q.text = r.text /\ q.decision = r.decision
  BY DEF Telling, CallOK, IsCall, NewCall
<1> HIDE DEF q
<1>2. r.key \in Key \cup Call /\ r.key # Nothing
  BY RoutingAssumption DEF CallOK, Orderly
<1>3. Faithful(q)  BY <1>1 DEF CallOK, Faithful
<1> QED  BY <1>1, <1>2, <1>3 DEF CallOK, Waits, Orderly, q

\* A call that leaves its place, or asks a specialist.
LEMMA LeavingOK ==
    ASSUME NEW r, CallOK(r), NEW at \in {"answered", "gone", "consulting"},
           at = "consulting" => r.at = "new"
    PROVE  CallOK([r EXCEPT !.at = at])
<1> DEFINE q == [r EXCEPT !.at = at]
<1>1. /\ IsCall(q) /\ q.at = at /\ q.did = r.did /\ q.told = r.told
      /\ q.key = r.key /\ q.by = r.by /\ q.text = r.text /\ q.decision = r.decision
  BY DEF CallOK, IsCall, NewCall
<1> HIDE DEF q
<1> QED  BY <1>1 DEF CallOK, Faithful, Waits, Orderly, q

-----------------------------------------------------------------------------
(* The invariant.                                                          *)

\* The initial states satisfy it.
LEMMA InitInv == Init => Inv
<1>1. CallOK(NewCall)
  BY DEF CallOK, NewCall, IsCall, Faithful, Waits, Orderly
<1>2. RunOK(Idle)
  BY DEF RunOK, Idle
<1> QED  BY <1>1, <1>2 DEF Init, RunsInit, Inv

\* A step that changes one call, or one run, keeps it if what it leaves is
\* in order.
LEMMA OneCallChanges ==
    ASSUME Inv, NEW c \in Call, NEW r, CallOK(r), call' = [call EXCEPT ![c] = r]
    PROVE  (DOMAIN call = Call /\ \A e \in Call : CallOK(call[e]))'
<1>1. DOMAIN call' = Call /\ call'[c] = r /\ \A e \in Call \ {c} : call'[e] = call[e]
  BY DEF Inv
<1> QED  BY <1>1 DEF Inv, CallOK, IsCall, Faithful, Waits, Orderly, NewCall

LEMMA OneRunChanges ==
    ASSUME Inv, NEW c \in Call, NEW r, RunOK(r), run' = [run EXCEPT ![c] = r]
    PROVE  (DOMAIN run = Call /\ \A e \in Call : RunOK(run[e]))'
<1>1. DOMAIN run' = Call /\ run'[c] = r /\ \A e \in Call \ {c} : run'[e] = run[e]
  BY DEF Inv
<1> QED  BY <1>1 DEF Inv, RunOK, Idle

\* The steps that begin or end the routing of a call.
LEMMA RoutingSteps ==
    ASSUME Inv, NEW c \in Call,
           \/ \E x \in Text, k \in Key \cup {Nothing} :
                 HandleByWords(c, x, k) \/ HandleByModel(c, x, k)
           \/ RouteReturns(c)
    PROVE  (DOMAIN call = Call /\ \A e \in Call : CallOK(call[e]))'
<1>1. ASSUME NEW x \in Text, NEW k \in Key \cup {Nothing}, HandleByWords(c, x, k)
      PROVE  \E r : CallOK(r) /\ call' = [call EXCEPT ![c] = r]
  <2> DEFINE r == Begun(c, x, k)
  <2>1. CallOK(r) /\ r.at = "routing" /\ r.text = x  BY BegunOK
  <2>2. call' = [call EXCEPT ![c] = Routed(r, Route[r.text], "words")]
    BY <1>1, <2>1 DEF HandleByWords
  <2> HIDE DEF r
  <2> QED  BY <2>1, <2>2, RoutedOK
<1>2. ASSUME NEW x \in Text, NEW k \in Key \cup {Nothing}, HandleByModel(c, x, k)
      PROVE  \E r : CallOK(r) /\ call' = [call EXCEPT ![c] = r]
  BY <1>2, BegunOK DEF HandleByModel
<1>3. ASSUME RouteReturns(c)
      PROVE  \E r : CallOK(r) /\ call' = [call EXCEPT ![c] = r]
  <2> DEFINE r == call[c]
             d == run[c].decision
  <2>1. CallOK(r) /\ r.at = "routing"  BY <1>3 DEF Inv, RouteReturns, At
  <2>2. \/ d \in ModelDecisions /\ call' = [call EXCEPT ![c] = Routed(r, d, "model")]
        \/ call' = [call EXCEPT ![c] = Routed(r, Route[r.text], "words")]
    BY <1>3 DEF RouteReturns, Inv, Trusts, RunOK
  <2> HIDE DEF r, d
  <2> QED  BY <2>1, <2>2, RoutedOK
<1> QED  BY <1>1, <1>2, <1>3, OneCallChanges

\* The critic approves of whatever a read returns.
LEMMA CriticContent ==
    ASSUME NEW intent, NEW r \in ReadResults(intent)
    PROVE  CriticApproves(r)
BY DEF ReadResults, CriticApproves, Quality

\* The steps of the tool, and the failure to persist the memory.
LEMMA ToolSteps ==
    ASSUME Inv, NEW c \in Call,
           \/ Commit(c) \/ Replay(c) \/ Refuse(c) \/ ReadReturns(c) \/ ReadFails(c)
           \/ PersistFails(c)
    PROVE  (DOMAIN call = Call /\ \A e \in Call : CallOK(call[e]))'
<1> DEFINE r == call[c]
<1>1. CallOK(r) /\ Orderly(r)  BY DEF Inv, CallOK
<1>2. CASE Commit(c) \/ Replay(c) \/ ReadReturns(c)
  <2>1. r.at \in {"executing", "reading"}  BY <1>2 DEF Commit, Replay, ReadReturns, At
  <2>2. \E did : \E told \in Due(did) :
          call' = [call EXCEPT ![c] = Telling([r EXCEPT !.did = did], told)]
    BY <1>2, CriticContent DEF Commit, Replay, ReadReturns, Due
  <2> HIDE DEF r
  <2> QED  BY <1>1, <2>1, <2>2, ToldOK, OneCallChanges
<1>3. CASE Refuse(c) \/ ReadFails(c) \/ PersistFails(c)
  <2>1. r.at \in {"executing", "reading", "finishing"}
    BY <1>3 DEF Refuse, ReadFails, PersistFails, At
  <2>2. \E told \in Due(r.did) : call' = [call EXCEPT ![c] = Telling(r, told)]
    BY <1>1, <1>3 DEF Refuse, ReadFails, PersistFails, AfterPersistFailure, At, Orderly, Due
  <2> HIDE DEF r
  <2> QED  BY <1>1, <2>1, <2>2, ToldAgainOK, OneCallChanges
<1> QED  BY <1>2, <1>3

\* The steps by which a call leaves, or asks a specialist.
LEMMA LeavingSteps ==
    ASSUME Inv, NEW c \in Call,
           \/ Answer(c) \/ Cancel(c) \/ ReviewReturns(c)
           \/ \E q \in Review : Consult(c, q)
    PROVE  (DOMAIN call = Call /\ \A e \in Call : CallOK(call[e]))'
<1> DEFINE r == call[c]
<1>1. CallOK(r)  BY DEF Inv
<1>2. \E at \in {"answered", "gone", "consulting"} :
         /\ call' = [call EXCEPT ![c] = [r EXCEPT !.at = at]]
         /\ at = "consulting" => r.at = "new"
  BY DEF Answer, Cancel, ReviewReturns, Consult, At
<1> HIDE DEF r
<1> QED  BY <1>1, <1>2, LeavingOK, OneCallChanges

\* What the steps do to the runs.
LEMMA EndedOK ==
    ASSUME NEW r, RunOK(r), NEW result, result # "decided"
    PROVE  RunOK(Ended(r, result))
BY DEF Ended, RunOK, Idle

LEMMA NextTurnOK ==
    ASSUME NEW r, RunOK(r)
    PROVE  RunOK(NextTurn(r))
BY EndedOK DEF NextTurn, RunOK, Idle

\* A run of which a step changes only what the decision does not depend on.
LEMMA RunFieldsOK ==
    ASSUME NEW r, RunOK(r), NEW x, NEW y
    PROVE  /\ RunOK([r EXCEPT !.asInstructed = x])
           /\ RunOK([r EXCEPT !.asInstructed = x, !.tools = y])
           /\ RunOK([r EXCEPT !.asInstructed = x, !.output = y])
           /\ RunOK([r EXCEPT !.agent = x, !.handedOff = y])
BY DEF RunOK, Idle

\* The model, its provider and the timer leave a run in order.
LEMMA ModelSteps ==
    ASSUME Inv, NEW c \in Call, ModelStep(c) \/ RunTimesOut(c)
    PROVE  (DOMAIN run = Call /\ \A e \in Call : RunOK(run[e]))'
<1> DEFINE r == run[c]
           Stays == \E q : RunOK(q) /\ run' = [run EXCEPT ![c] = q]
<1>1. RunOK(r)  BY DEF Inv
<1>2. ASSUME NEW d \in ModelDecisions, Classifies(c, d)  PROVE Stays
  <2>1. run' = [run EXCEPT ![c] = [Ended(r, "decided") EXCEPT !.decision = d]]
    BY <1>2 DEF Classifies, Inv
  <2>2. RunOK([Ended(r, "decided") EXCEPT !.decision = d])
    BY <1>1 DEF RunOK, Ended, Idle
  <2> QED  BY <2>1, <2>2
<1>3. ASSUME NEW s \in Specialist, HandsOff(c, s)  PROVE Stays
  <2>1. \/ run' = [run EXCEPT ![c] = NextTurn([r EXCEPT !.agent = s, !.handedOff = TRUE])]
        \/ run' = [run EXCEPT ![c] = [Ended(r, "structure") EXCEPT !.asInstructed = FALSE]]
    BY <1>3 DEF HandsOff, Inv
  <2> HIDE DEF r
  <2> QED  BY <1>1, <2>1, NextTurnOK, EndedOK, RunFieldsOK
<1>4. ASSUME NEW s \in Specialist, NEW arguments \in BOOLEAN, CallsTool(c, s, arguments)
      PROVE  Stays
  <2>1. \E x, y : LET q == [r EXCEPT !.asInstructed = x, !.tools = y]
                  IN  \/ run' = [run EXCEPT ![c] = Ended(q, "structure")]
                      \/ run' = [run EXCEPT ![c] = Ended(q, "guardrail")]
                      \/ run' = [run EXCEPT ![c] = NextTurn(q)]
    BY <1>4 DEF CallsTool, AfterToolCall, Inv
  <2> HIDE DEF r
  <2> QED  BY <1>1, <2>1, NextTurnOK, EndedOK, RunFieldsOK
<1>5. ASSUME NEW o \in Output, Concludes(c, o)  PROVE Stays
  <2>1. \E x, y : LET q == [r EXCEPT !.asInstructed = x, !.output = y]
                  IN  \/ run' = [run EXCEPT ![c] = Ended(q, "guardrail")]
                      \/ run' = [run EXCEPT ![c] = Ended(q, "accepted")]
                      \/ run' = [run EXCEPT ![c] = Ended(q, "handoff")]
    BY <1>5 DEF Concludes, AfterConclusion, Inv
  <2> HIDE DEF r
  <2> QED  BY <1>1, <2>1, EndedOK, RunFieldsOK
<1>6. ASSUME TriageConcludes(c) \/ Misbehaves(c)  PROVE Stays
  <2>1. \E result : /\ result # "decided"
                    /\ run' = [run EXCEPT ![c] = [Ended(r, result) EXCEPT !.asInstructed = FALSE]]
    BY <1>6 DEF TriageConcludes, Misbehaves, Inv
  <2> HIDE DEF r
  <2> QED  BY <1>1, <2>1, EndedOK, RunFieldsOK
<1>7. ASSUME ProviderFails(c) \/ TimesOut(c)  PROVE Stays
  <2>1. \E result : result # "decided" /\ run' = [run EXCEPT ![c] = Ended(r, result)]
    BY <1>7 DEF ProviderFails, TimesOut, Ends, Inv
  <2> HIDE DEF r
  <2> QED  BY <1>1, <2>1, EndedOK
<1>8. Stays
  BY <1>2, <1>3, <1>4, <1>5, <1>6, <1>7 DEF ModelStep, ModelAnswers, RunTimesOut
<1> QED  BY <1>8, OneRunChanges

\* A run that is begun, or dropped.
LEMMA RunBegins ==
    ASSUME Inv, NEW c \in Call,
           \/ StartRouting(c) \/ \E q : StartReview(c, q)
           \/ run' = [run EXCEPT ![c] = Idle] \/ UNCHANGED run
    PROVE  (DOMAIN run = Call /\ \A e \in Call : RunOK(run[e]))'
<1>1. CASE UNCHANGED run
  BY <1>1 DEF Inv, RunOK
<1>2. CASE \/ StartRouting(c) \/ \E q : StartReview(c, q)
           \/ run' = [run EXCEPT ![c] = Idle]
  <2>1. \E r : RunOK(r) /\ run' = [run EXCEPT ![c] = r]
    BY <1>2 DEF StartRouting, StartReview, RunOK, Idle
  <2> QED  BY <2>1, OneRunChanges
<1> QED  BY <1>1, <1>2

\* Every step keeps the invariant.
LEMMA StepInv == Inv /\ [Next]_vars => Inv'
<1> SUFFICES ASSUME Inv, [Next]_vars PROVE Inv'  OBVIOUS
<1> DEFINE Calls == (DOMAIN call = Call /\ \A e \in Call : CallOK(call[e]))'
           Runs == (DOMAIN run = Call /\ \A e \in Call : RunOK(run[e]))'
<1>1. ASSUME NEW c \in Call,
             \/ \E x \in Text, k \in Key \cup {Nothing} :
                   HandleByWords(c, x, k) \/ HandleByModel(c, x, k)
             \/ RouteReturns(c)
      PROVE  Calls /\ Runs
  BY <1>1, RoutingSteps, RunBegins DEF HandleByWords, HandleByModel, RouteReturns
<1>2. ASSUME NEW c \in Call,
             \/ Commit(c) \/ Replay(c) \/ Refuse(c) \/ ReadReturns(c) \/ ReadFails(c)
             \/ PersistFails(c)
      PROVE  Calls /\ Runs
  BY <1>2, ToolSteps, RunBegins DEF Commit, Replay, Refuse, ReadReturns, ReadFails, PersistFails
<1>3. ASSUME NEW c \in Call,
             \/ Answer(c) \/ Cancel(c) \/ ReviewReturns(c)
             \/ \E q \in Review : Consult(c, q)
      PROVE  Calls /\ Runs
  BY <1>3, LeavingSteps, RunBegins DEF Answer, Cancel, ReviewReturns, Consult
<1>4. ASSUME NEW c \in Call, ModelStep(c) \/ RunTimesOut(c)
      PROVE  Calls /\ Runs
  <2>1. UNCHANGED <<call, threshold>>  BY <1>4 DEF ModelStep, RunTimesOut
  <2>2. Calls  BY <2>1 DEF Inv, CallOK, IsCall, Faithful, Waits, Orderly
  <2> QED  BY <1>4, <2>2, ModelSteps
<1>5. CASE UNCHANGED vars
  BY <1>5 DEF vars, Inv, CallOK, IsCall, Faithful, Waits, Orderly, RunOK
<1>6. (Calls /\ Runs) \/ UNCHANGED vars
  BY <1>1, <1>2, <1>3, <1>4 DEF Next, Proceed, Over
<1> QED  BY <1>5, <1>6 DEF Inv

\* The invariant holds of every reachable state.
LEMMA Safety == Spec => []Inv
BY InitInv, StepInv, PTL DEF Spec

\* Without a model, or when it failed, timed out or returned nonsense, only
\* what the words say in full is done.
THEOREM WordsOnly == Spec => []OnlyWordsAreDone
<1>1. Inv => OnlyWordsAreDone
  BY DEF Inv, CallOK, Faithful, OnlyWordsAreDone
<1> QED  BY <1>1, Safety, PTL

-----------------------------------------------------------------------------
(* The turn contract.                                                      *)

\* Where the contract sees a call, and what it hears from it.
Seen(r) ==
    CASE r.at \in {"answered", "gone"} /\ r.key # Nothing -> "over"
      [] r.at \notin {"answered", "gone"} /\ r.did \in {"operation", "replay"} -> "done"
      [] r.at \notin {"answered", "gone"} /\ r.did = "reading" -> "read"
      [] OTHER -> "open"

Heard(r) == IF r.at = "answered" THEN r.told ELSE "nothing"

SeenAt == [c \in Call |-> Progress(c)]
HeardOf == [c \in Call |-> IF At(c, "answered") THEN call[c].told ELSE "nothing"]

\* A step of one call is one of that turn.
LEMMA OneTurnMoves ==
    ASSUME Inv, NEW c \in Call, NEW r, call' = [call EXCEPT ![c] = r]
    PROVE  /\ SeenAt[c] = Seen(call[c]) /\ SeenAt' = [SeenAt EXCEPT ![c] = Seen(r)]
           /\ HeardOf[c] = Heard(call[c]) /\ HeardOf' = [HeardOf EXCEPT ![c] = Heard(r)]
<1>1. call'[c] = r /\ \A e \in Call \ {c} : call'[e] = call[e]
  BY DEF Inv
<1>2. \A e \in Call : Progress(e) = Seen(call[e]) /\ Progress(e)' = Seen(call'[e])
  BY DEF Progress, Seen
<1>3. SeenAt = [e \in Call |-> Seen(call[e])] /\ SeenAt' = [e \in Call |-> Seen(call'[e])]
  BY <1>2 DEF SeenAt
<1>4. HeardOf = [e \in Call |-> Heard(call[e])] /\ HeardOf' = [e \in Call |-> Heard(call'[e])]
  BY DEF HeardOf, Heard, At
<1>5. SeenAt[c] = Seen(call[c]) /\ SeenAt' = [SeenAt EXCEPT ![c] = Seen(r)]
  BY <1>1, <1>3
<1>6. HeardOf[c] = Heard(call[c]) /\ HeardOf' = [HeardOf EXCEPT ![c] = Heard(r)]
  BY <1>1, <1>4
<1> QED  BY <1>5, <1>6

\* A step that the contract does not see.
Unseen == UNCHANGED <<records, SeenAt, HeardOf>>

LEMMA NothingMoves ==
    ASSUME Inv, NEW c \in Call, NEW r, call' = [call EXCEPT ![c] = r], UNCHANGED records,
           Seen(r) = Seen(call[c]), Heard(r) = Heard(call[c])
    PROVE  Unseen
<1>1. /\ SeenAt' = [SeenAt EXCEPT ![c] = SeenAt[c]]
      /\ HeardOf' = [HeardOf EXCEPT ![c] = HeardOf[c]]
  BY OneTurnMoves
<1>2. SeenAt' = SeenAt /\ HeardOf' = HeardOf
  BY <1>1 DEF SeenAt, HeardOf
<1> QED  BY <1>2 DEF Unseen

\* A call that is not over and has done nothing is open, and heard of only
\* when it is answered.
LEMMA OpenCall ==
    ASSUME NEW r, r.at \notin {"answered", "gone"}, r.did = "nothing"
    PROVE  Seen(r) = "open" /\ Heard(r) = "nothing"
BY DEF Seen, Heard

\* Routing is not seen.
LEMMA RoutingUnseen ==
    ASSUME Inv, NEW c \in Call,
           \/ \E x \in Text, k \in Key \cup {Nothing} :
                 HandleByWords(c, x, k) \/ HandleByModel(c, x, k)
           \/ RouteReturns(c)
    PROVE  Unseen
<1> DEFINE Hidden(r) == r.at \notin {"answered", "gone"} /\ r.did = "nothing"
<1>1. CallOK(call[c])  BY DEF Inv
<1>2. Hidden(call[c])
  <2>1. call[c].at \in {"new", "routing"}
    BY DEF HandleByWords, HandleByModel, RouteReturns, At
  <2> QED  BY <1>1, <2>1, RoutingAssumption DEF CallOK, Orderly
<1>3. ASSUME NEW r, NEW d, NEW by, IsCall(r), r.did = "nothing"
      PROVE  Hidden(Routed(r, d, by))
  <2> DEFINE q == Routed(r, d, by)
  <2>1. q.did = "nothing" /\ q.at \in {"finishing", "executing", "reading"}
    BY <1>3, RoutedGoesOn
  <2> QED  BY <2>1
<1>4. \E r : Hidden(r) /\ call' = [call EXCEPT ![c] = r]
  <2>1. ASSUME NEW x \in Text, NEW k \in Key \cup {Nothing},
               HandleByWords(c, x, k) \/ HandleByModel(c, x, k)
        PROVE  \E r : Hidden(r) /\ call' = [call EXCEPT ![c] = r]
    <3> DEFINE b == Begun(c, x, k)
    <3>1. IsCall(b) /\ b.did = "nothing" /\ b.at = "routing"
      BY DEF Begun, IsCall, NewCall
    <3>2. \/ call' = [call EXCEPT ![c] = Routed(b, Route[x], "words")]
          \/ call' = [call EXCEPT ![c] = b]
      BY <2>1 DEF HandleByWords, HandleByModel
    <3> HIDE DEF b
    <3> QED  BY <3>1, <3>2, <1>3
  <2>2. ASSUME RouteReturns(c)
        PROVE  \E r : Hidden(r) /\ call' = [call EXCEPT ![c] = r]
    <3> DEFINE b == call[c]
    <3>1. IsCall(b) /\ b.did = "nothing"  BY <1>1, <1>2 DEF CallOK
    <3>2. \/ call' = [call EXCEPT ![c] = Routed(b, run[c].decision, "model")]
          \/ call' = [call EXCEPT ![c] = Routed(b, Route[b.text], "words")]
      BY <2>2 DEF RouteReturns, Inv
    <3> HIDE DEF b
    <3> QED  BY <3>1, <3>2, <1>3
  <2> QED  BY <2>1, <2>2
<1>5. UNCHANGED records  BY DEF HandleByWords, HandleByModel, RouteReturns
<1> QED  BY <1>2, <1>4, <1>5, OpenCall, NothingMoves

\* Neither are refusals, failures to persist, and what goes on for specialists.
LEMMA OthersUnseen ==
    ASSUME Inv, NEW c \in Call,
           \/ Refuse(c) \/ ReadFails(c) \/ PersistFails(c) \/ ReviewReturns(c)
           \/ \E q \in Review : Consult(c, q)
           \/ ModelStep(c) \/ RunTimesOut(c)
    PROVE  Unseen
<1> DEFINE r == call[c]
<1>1. IsCall(r) /\ Orderly(r)  BY DEF Inv, CallOK
<1>2. CASE Refuse(c) \/ ReadFails(c) \/ PersistFails(c)
  <2>1. /\ r.at \in {"executing", "reading", "finishing"}
        /\ \E told : call' = [call EXCEPT ![c] = Telling(r, told)]
        /\ UNCHANGED records
    BY <1>2 DEF Refuse, ReadFails, PersistFails, AfterPersistFailure, At
  <2> HIDE DEF r
  <2>2. ASSUME NEW told
        PROVE  Seen(Telling(r, told)) = Seen(r) /\ Heard(Telling(r, told)) = Heard(r)
    <3> DEFINE q == Telling(r, told)
    <3>1. q.at = "finishing" /\ q.did = r.did
      BY <1>1 DEF Telling, IsCall, NewCall
    <3> QED  BY <2>1, <3>1 DEF Seen, Heard
  <2> QED  BY <2>1, <2>2, NothingMoves DEF r
<1>3. CASE ReviewReturns(c) \/ \E q \in Review : Consult(c, q)
  <2>1. /\ r.at \in {"new", "consulting"}
        /\ \E at \in {"answered", "consulting"} : call' = [call EXCEPT ![c] = [r EXCEPT !.at = at]]
        /\ UNCHANGED records
    BY <1>3 DEF ReviewReturns, Consult, At
  <2> HIDE DEF r
  <2>2. r.key = Nothing /\ r.did = "nothing" /\ r.told = "nothing"
    BY <1>1, <2>1 DEF Orderly
  <2>3. ASSUME NEW at \in {"answered", "consulting"}
        PROVE  Seen([r EXCEPT !.at = at]) = Seen(r) /\ Heard([r EXCEPT !.at = at]) = Heard(r)
    <3> DEFINE q == [r EXCEPT !.at = at]
    <3>1. q.at = at /\ q.did = r.did /\ q.key = r.key /\ q.told = r.told
      BY <1>1 DEF IsCall, NewCall
    <3> QED  BY <2>1, <2>2, <3>1 DEF Seen, Heard
  <2> QED  BY <2>1, <2>3, NothingMoves DEF r
<1>4. CASE ModelStep(c) \/ RunTimesOut(c)
  BY <1>4 DEF ModelStep, RunTimesOut, Unseen, SeenAt, HeardOf, Progress, At
<1> QED  BY <1>2, <1>3, <1>4

\* The steps of the tool are those of the contract.
LEMMA ToolSeen ==
    ASSUME Inv, NEW c \in Call
    PROVE  /\ Commit(c) => Contracted!Do(c)
           /\ Replay(c) => Contracted!Redo(c)
           /\ ReadReturns(c) => Contracted!Read(c)
<1> DEFINE r == call[c]
<1>1. IsCall(r) /\ Orderly(r)  BY DEF Inv, CallOK
<1>2. ASSUME Commit(c) \/ Replay(c) \/ ReadReturns(c),
             NEW did \in {"operation", "replay", "reading"},
             NEW told,
             call' = [call EXCEPT ![c] = Telling([r EXCEPT !.did = did], told)]
      PROVE  /\ SeenAt[c] = "open" /\ HeardOf' = HeardOf
             /\ SeenAt' = [SeenAt EXCEPT ![c] = IF did = "reading" THEN "read" ELSE "done"]
  <2> DEFINE q == Telling([r EXCEPT !.did = did], told)
  <2>1. r.at \in {"executing", "reading"} /\ r.did = "nothing"
    BY <1>1, <1>2 DEF Commit, Replay, ReadReturns, At, Orderly
  <2>2. q.at = "finishing" /\ q.did = did
    BY <1>1 DEF Telling, IsCall, NewCall
  <2>3. Seen(q) = (IF did = "reading" THEN "read" ELSE "done") /\ Heard(q) = "nothing"
    BY <2>2 DEF Seen, Heard
  <2>4. Seen(r) = "open" /\ Heard(r) = "nothing"
    BY <2>1, OpenCall
  <2> HIDE DEF q
  <2>5. /\ SeenAt[c] = Seen(r) /\ SeenAt' = [SeenAt EXCEPT ![c] = Seen(q)]
        /\ HeardOf[c] = Heard(r) /\ HeardOf' = [HeardOf EXCEPT ![c] = Heard(q)]
    BY <1>2, OneTurnMoves DEF q
  <2>6. HeardOf' = HeardOf  BY <2>3, <2>4, <2>5 DEF HeardOf
  <2> QED  BY <2>3, <2>4, <2>5, <2>6
<1>3. ASSUME Commit(c)  PROVE Contracted!Do(c)
  <2>1. call' = [call EXCEPT ![c] = Telling([r EXCEPT !.did = "operation"], "result")]
    BY <1>3 DEF Commit
  <2>2. /\ SeenAt[c] = "open" /\ SeenAt' = [SeenAt EXCEPT ![c] = "done"]
        /\ HeardOf' = HeardOf
    BY <1>2, <1>3, <2>1
  <2>3. /\ r.key \in (Key \cup Call) \ DOMAIN records
        /\ OperationOf(r.decision) \in Operations
    BY <1>1, <1>3 DEF Commit, At, Orderly
  <2>4. records' = [x \in DOMAIN records \cup {r.key} |->
                      IF x = r.key THEN OperationOf(r.decision) ELSE records[x]]
    BY <1>3 DEF Commit
  <2> HIDE DEF r
  <2>5. \E k \in (Key \cup Call) \ DOMAIN records, op \in Operations :
           records' = [x \in DOMAIN records \cup {k} |-> IF x = k THEN op ELSE records[x]]
    BY <2>3, <2>4
  <2> QED  BY <2>2, <2>5 DEF Contracted!Do, Contracted!Moves, SeenAt, HeardOf
<1>4. ASSUME Replay(c)  PROVE Contracted!Redo(c)
  <2>1. /\ call' = [call EXCEPT ![c] = Telling([r EXCEPT !.did = "replay"], "result")]
        /\ DOMAIN records # {} /\ UNCHANGED records
    BY <1>4 DEF Replay
  <2>2. /\ SeenAt[c] = "open" /\ SeenAt' = [SeenAt EXCEPT ![c] = "done"]
        /\ HeardOf' = HeardOf
    BY <1>2, <1>4, <2>1
  <2> QED  BY <2>1, <2>2 DEF Contracted!Redo, Contracted!Moves, SeenAt, HeardOf
<1>5. ASSUME ReadReturns(c)  PROVE Contracted!Read(c)
  <2>1. /\ \E told : call' = [call EXCEPT ![c] = Telling([r EXCEPT !.did = "reading"], told)]
        /\ UNCHANGED records
    BY <1>5 DEF ReadReturns
  <2>2. /\ SeenAt[c] = "open" /\ SeenAt' = [SeenAt EXCEPT ![c] = "read"]
        /\ HeardOf' = HeardOf
    BY <1>2, <1>5, <2>1
  <2> QED  BY <2>1, <2>2 DEF Contracted!Read, Contracted!Moves, SeenAt, HeardOf
<1> QED  BY <1>3, <1>4, <1>5

\* An answer is one that is due, and a cancelled turn is abandoned.
LEMMA EndSeen ==
    ASSUME Inv, NEW c \in Call
    PROVE  /\ Answer(c) => Contracted!Reply(c)
           /\ Cancel(c) => Contracted!Abandon(c) \/ Unseen
<1> DEFINE r == call[c]
           Left(at) == [r EXCEPT !.at = at]
<1>1. IsCall(r) /\ Orderly(r)  BY DEF Inv, CallOK
<1>2. ASSUME NEW at
      PROVE  /\ Left(at).at = at /\ Left(at).did = r.did
             /\ Left(at).key = r.key /\ Left(at).told = r.told
  BY <1>1 DEF IsCall, NewCall
<1>3. ASSUME NEW at, call' = [call EXCEPT ![c] = Left(at)]
      PROVE  /\ SeenAt[c] = Seen(r) /\ SeenAt' = [SeenAt EXCEPT ![c] = Seen(Left(at))]
             /\ HeardOf[c] = Heard(r) /\ HeardOf' = [HeardOf EXCEPT ![c] = Heard(Left(at))]
  <2> HIDE DEF Left
  <2> QED  BY <1>3, OneTurnMoves
<1>4. ASSUME Answer(c)  PROVE Contracted!Reply(c)
  <2>1. r.at = "finishing" /\ call' = [call EXCEPT ![c] = Left("answered")] /\ UNCHANGED records
    BY <1>4 DEF Answer, At
  <2>2. r.key # Nothing /\ r.told \in Due(r.did)
    BY <1>1, <2>1, RoutingAssumption DEF Orderly
  <2>3. Seen(Left("answered")) = "over" /\ Heard(Left("answered")) = r.told
    BY <1>2, <2>2 DEF Seen, Heard
  <2>4. Seen(r) \in {"open", "done", "read"} /\ r.told \in Contracted!Answers(Seen(r))
    BY <2>1, <2>2 DEF Seen, Due, Contracted!Answers
  <2>5. /\ SeenAt[c] = Seen(r) /\ SeenAt' = [SeenAt EXCEPT ![c] = "over"]
        /\ HeardOf' = [HeardOf EXCEPT ![c] = r.told]
    BY <1>3, <2>1, <2>3
  <2> HIDE DEF r, Left
  <2>6. \E from \in {"open", "done", "read"} :
           /\ SeenAt[c] = from /\ SeenAt' = [SeenAt EXCEPT ![c] = "over"]
           /\ \E a \in Contracted!Answers(from) : HeardOf' = [HeardOf EXCEPT ![c] = a]
           /\ UNCHANGED records
    BY <2>1, <2>4, <2>5
  <2> QED  BY <2>6 DEF Contracted!Reply, Contracted!Moves, SeenAt, HeardOf
<1>5. ASSUME Cancel(c)  PROVE Contracted!Abandon(c) \/ Unseen
  <2>1. /\ r.at \notin {"new", "answered", "gone"}
        /\ call' = [call EXCEPT ![c] = Left("gone")] /\ UNCHANGED records
    BY <1>5 DEF Cancel
  <2>2. Heard(r) = "nothing" /\ Heard(Left("gone")) = "nothing"
    BY <1>2, <2>1 DEF Heard
  <2>3. CASE r.key = Nothing
    <3>1. Seen(r) = "open" /\ Seen(Left("gone")) = "open"
      BY <1>1, <1>2, <2>1, <2>3 DEF Orderly, Seen
    <3> QED  BY <2>1, <2>2, <3>1, NothingMoves
  <2>4. CASE r.key # Nothing
    <3>1. Seen(r) # "over" /\ Seen(Left("gone")) = "over"
      BY <1>2, <2>1, <2>4 DEF Seen
    <3>2. /\ SeenAt[c] # "over" /\ SeenAt' = [SeenAt EXCEPT ![c] = "over"]
          /\ HeardOf' = [HeardOf EXCEPT ![c] = HeardOf[c]]
      BY <1>3, <2>1, <2>2, <3>1
    <3>3. HeardOf' = HeardOf  BY <3>2 DEF HeardOf
    <3> QED  BY <2>1, <3>2, <3>3 DEF Contracted!Abandon, SeenAt, HeardOf
  <2> QED  BY <2>3, <2>4
<1> QED  BY <1>4, <1>5

\* Every step is one of the contract, or not seen by it.
LEMMA StepSeen == Inv /\ [Next]_vars => [Contracted!Next]_(Contracted!vars)
<1> SUFFICES ASSUME Inv, [Next]_vars
             PROVE  Contracted!Next \/ Unseen
  BY DEF Unseen, SeenAt, HeardOf, Contracted!vars
<1>1. ASSUME NEW c \in Call,
             \/ \E x \in Text, k \in Key \cup {Nothing} :
                   HandleByWords(c, x, k) \/ HandleByModel(c, x, k)
             \/ \E q \in Review : Consult(c, q)
             \/ ModelStep(c) \/ RunTimesOut(c)
             \/ RouteReturns(c) \/ Refuse(c) \/ ReadFails(c) \/ PersistFails(c)
             \/ ReviewReturns(c)
      PROVE  Unseen
  BY <1>1, RoutingUnseen, OthersUnseen
<1>2. ASSUME NEW c \in Call,
             Commit(c) \/ Replay(c) \/ ReadReturns(c) \/ Answer(c) \/ Cancel(c)
      PROVE  Contracted!Next \/ Unseen
  BY <1>2, ToolSeen, EndSeen DEF Contracted!Next
<1>3. CASE UNCHANGED vars
  BY <1>3 DEF vars, Unseen, SeenAt, HeardOf, Progress, At
<1> QED  BY <1>1, <1>2, <1>3 DEF Next, Proceed, Over

\* The turns keep their contract: at most one thing is done, under its key, and
\* the answer tells whether it was.
THEOREM Refinement == Spec => ImplementsTurnContract
<1>1. Init => Contracted!Init
  BY DEF Init, Contracted!Init, NewCall, Progress, At
<1> QED  BY <1>1, StepSeen, Safety, PTL DEF Spec, ImplementsTurnContract, Contracted!Spec

-----------------------------------------------------------------------------
(* Retries.  A call that repeats, under the same key and in the same words, *)
(* what was understood by the words and done, finds a record of just the    *)
(* operation that its words say: records only grow (Grows), and the words   *)
(* are routed the same way as long as the settings are the same.            *)

\* A record stays what it is.
Grows(recs, more) ==
    \A k \in DOMAIN recs : k \in DOMAIN more /\ more[k] = recs[k]

\* What a text says was done under a key.
WasDone(x, k, recs, limit) ==
    /\ k \in DOMAIN recs /\ recs[k] = OperationOf(Route[x])
    /\ Disposition(Route[x], limit) = "run" /\ Route[x].intent \in Mutating
    /\ ~x.padded

Shaped(r) ==
    /\ r.at \in {"new", "routing", "executing", "reading", "finishing",
                 "consulting", "answered", "gone"}
    /\ r.did \in {"nothing", "operation", "replay", "reading"}
    /\ r.told \in {"nothing", "result", "question", "advice"}
    /\ r.at = "executing" \/ r.did \in {"operation", "replay"} =>
         r.decision.intent \in Mutating
    /\ r.at \in {"new", "consulting"} => ~r.retry
    /\ r.brought # Nothing => r.key = r.brought

\* What is executed or was done by the words is what they say.
AsWorded(r, limit) ==
    r.by = "words" /\ (r.at \in {"executing", "reading"} \/ r.did # "nothing") =>
        /\ r.decision = Route[r.text] /\ Disposition(r.decision, limit) = "run"
        /\ ~r.text.padded

\* What a call did is on record.
OnRecord(r, recs) ==
    r.did \in {"operation", "replay"} =>
        r.key \in DOMAIN recs /\ recs[r.key] = OperationOf(r.decision)

\* A retry that is understood by its words can only be replayed.
Repeats(r, recs, limit) ==
    r.retry =>
        /\ r.brought # Nothing
        /\ r.at = "routing" \/ r.by = "words" => WasDone(r.text, r.brought, recs, limit)
        /\ r.by = "words" =>
             /\ r.at # "reading"
             /\ r.at \in {"finishing", "answered"} => r.did = "replay" /\ r.told = "result"

CallSound(r, recs, limit) ==
    Shaped(r) /\ AsWorded(r, limit) /\ OnRecord(r, recs) /\ Repeats(r, recs, limit)

Retried ==
    /\ DOMAIN records \subseteq Key \cup Call
    /\ \A k \in DOMAIN records : records[k] \in Operations
    /\ \A c \in Call : CallSound(call[c], records, threshold)

\* New records do not disturb a call.
LEMMA SoundStays ==
    ASSUME NEW r, NEW recs, NEW more, NEW limit, Grows(recs, more),
           CallSound(r, recs, limit)
    PROVE  CallSound(r, more, limit)
BY DEF CallSound, OnRecord, Repeats, WasDone, Grows

\* A step of one call.
LEMMA OneCallSound ==
    ASSUME Inv, Retried, NEW c \in Call, NEW q, call' = [call EXCEPT ![c] = q],
           UNCHANGED threshold, Grows(records, records'), CallSound(q, records', threshold)
    PROVE  \A e \in Call : CallSound(call'[e], records', threshold')
<1> SUFFICES ASSUME NEW e \in Call  PROVE CallSound(call'[e], records', threshold')
  OBVIOUS
<1>1. CASE e = c
  <2>1. call'[e] = q  BY <1>1 DEF Inv
  <2> QED  BY <2>1
<1>2. CASE e # c
  <2>1. call'[e] = call[e]  BY <1>2 DEF Inv
  <2>2. CallSound(call[e], records, threshold)  BY DEF Retried
  <2> QED  BY <2>1, <2>2, SoundStays
<1> QED  BY <1>1, <1>2

\* The same records.
LEMMA SameRecords == ASSUME NEW recs PROVE Grows(recs, recs)
BY DEF Grows

\* A call begins: if it is a retry, what its words say was done.
LEMMA BegunSound ==
    ASSUME Inv, Retried, NEW c \in Call, NEW x \in Text, NEW k \in Key \cup {Nothing}
    PROVE  CallSound(Begun(c, x, k), records, threshold)
<1> DEFINE r == Begun(c, x, k)
<1>1. /\ r.at = "routing" /\ r.text = x /\ r.did = "nothing" /\ r.told = "nothing"
      /\ r.brought = k /\ r.key = KeyOf(c, k) /\ r.retry = IsRetry(x, k) /\ r.by = "nobody"
  BY DEF Begun, NewCall
<1>2. ASSUME IsRetry(x, k)
      PROVE  k # Nothing /\ WasDone(x, k, records, threshold)
  <2>1. PICK e \in Call : /\ call[e].text = x /\ call[e].brought = k /\ call[e].by = "words"
                          /\ call[e].did \in {"operation", "replay"}
    BY <1>2 DEF IsRetry
  <2>2. k # Nothing  BY <1>2 DEF IsRetry
  <2> DEFINE o == call[e]
  <2>3. CallSound(o, records, threshold)  BY DEF Retried
  <2> HIDE DEF o
  <2>4. o.text = x /\ o.brought = k /\ o.by = "words" /\ o.did \in {"operation", "replay"}
    BY <2>1 DEF o
  <2>5. o.decision = Route[x] /\ Disposition(Route[x], threshold) = "run" /\ ~x.padded
    BY <2>3, <2>4 DEF CallSound, AsWorded
  <2>6. o.key = k /\ o.decision.intent \in Mutating
    BY <2>2, <2>3, <2>4 DEF CallSound, Shaped
  <2>7. k \in DOMAIN records /\ records[k] = OperationOf(o.decision)
    BY <2>3, <2>4, <2>6 DEF CallSound, OnRecord
  <2> QED  BY <2>2, <2>5, <2>6, <2>7 DEF WasDone
<1>3. k # Nothing => KeyOf(c, k) = k  BY DEF KeyOf
<1> HIDE DEF r
<1>4. Shaped(r)  BY <1>1, <1>3 DEF Shaped
<1>5. AsWorded(r, threshold) /\ OnRecord(r, records)  BY <1>1 DEF AsWorded, OnRecord
<1>6. Repeats(r, records, threshold)  BY <1>1, <1>2 DEF Repeats
<1>7. CallSound(r, records, threshold)  BY <1>4, <1>5, <1>6 DEF CallSound
<1> QED  BY <1>7 DEF r

\* Where routing leaves a call.
LEMMA RoutedFields ==
    ASSUME NEW r, IsCall(r), NEW d, NEW by
    PROVE  LET q == Routed(r, d, by)
           IN  /\ q.did = r.did /\ q.key = r.key /\ q.by = by /\ q.brought = r.brought
               /\ q.retry = r.retry /\ q.decision = d
               /\ by = "words" => q.text = r.text
               /\ \/ q.at = "finishing" /\ q.told \in {"question", "advice"}
                     /\ (r.text.padded \/ Disposition(d, threshold) # "run")
                  \/ /\ q.at = (IF d.intent \in Mutating THEN "executing" ELSE "reading")
                     /\ q.told = r.told /\ ~r.text.padded /\ Disposition(d, threshold) = "run"
<1> DEFINE q == Routed(r, d, by)
           routed == [r EXCEPT !.decision = d, !.by = by,
                               !.text = IF by = "words" THEN r.text ELSE NoText]
           place == IF d.intent \in Mutating THEN "executing" ELSE "reading"
<1>1. /\ IsCall(routed) /\ routed.did = r.did /\ routed.decision = d
      /\ routed.key = r.key /\ routed.by = by /\ routed.told = r.told
      /\ routed.brought = r.brought /\ routed.retry = r.retry
      /\ by = "words" => routed.text = r.text
  BY DEF IsCall, NewCall
<1>2. Disposition(d, threshold) \in {"ask", "advise", "run"}
  BY DEF Disposition
<1>3. \/ /\ r.text.padded \/ Disposition(d, threshold) # "run"
         /\ \E told \in {"question", "advice"} : q = Telling(routed, told)
      \/ /\ ~r.text.padded /\ Disposition(d, threshold) = "run"
         /\ q = [routed EXCEPT !.at = place]
  BY <1>2 DEF Routed
<1> HIDE DEF routed, place
<1>4. CASE /\ r.text.padded \/ Disposition(d, threshold) # "run"
           /\ \E told \in {"question", "advice"} : q = Telling(routed, told)
  BY <1>1, <1>4 DEF Telling, IsCall, NewCall
<1>5. CASE /\ ~r.text.padded /\ Disposition(d, threshold) = "run"
           /\ q = [routed EXCEPT !.at = place]
  BY <1>1, <1>5 DEF IsCall, NewCall, place
<1> QED  BY <1>3, <1>4, <1>5

\* A retry that is routed by its words goes to its tool.
LEMMA RoutedSound ==
    ASSUME NEW recs, NEW r, CallOK(r), CallSound(r, recs, threshold), r.at = "routing",
           NEW d, NEW by \in {"words", "model"}, by = "words" => d = Route[r.text]
    PROVE  CallSound(Routed(r, d, by), recs, threshold)
<1> DEFINE q == Routed(r, d, by)
<1>1. IsCall(r) /\ r.did = "nothing" /\ r.told = "nothing"
  BY DEF CallOK, Orderly
<1>2. /\ q.did = r.did /\ q.key = r.key /\ q.by = by /\ q.brought = r.brought
      /\ q.retry = r.retry /\ q.decision = d
      /\ by = "words" => q.text = r.text
      /\ \/ q.at = "finishing" /\ q.told \in {"question", "advice"}
            /\ (r.text.padded \/ Disposition(d, threshold) # "run")
         \/ /\ q.at = (IF d.intent \in Mutating THEN "executing" ELSE "reading")
            /\ q.told = r.told /\ ~r.text.padded /\ Disposition(d, threshold) = "run"
  BY <1>1, RoutedFields
<1> HIDE DEF q
<1>3. Shaped(q)
  BY <1>1, <1>2 DEF CallSound, Shaped
<1>4. AsWorded(q, threshold)
  BY <1>1, <1>2 DEF AsWorded
<1>5. OnRecord(q, recs)
  BY <1>1, <1>2 DEF OnRecord
<1>6. Repeats(q, recs, threshold)
  <2>1. Repeats(r, recs, threshold)  BY DEF CallSound
  <2>2. CASE r.retry /\ by = "words"
    <3>1. WasDone(r.text, r.brought, recs, threshold) /\ r.brought # Nothing
      BY <2>1, <2>2 DEF Repeats
    <3>2. q.at = "executing"
      BY <1>2, <2>2, <3>1 DEF WasDone
    <3> QED  BY <1>2, <2>2, <3>1, <3>2 DEF Repeats
  <2>3. CASE r.retry /\ by = "model"
    BY <1>2, <2>1, <2>3 DEF Repeats
  <2>4. CASE ~r.retry
    BY <1>2, <2>4 DEF Repeats
  <2> QED  BY <2>2, <2>3, <2>4
<1>7. CallSound(q, recs, threshold)  BY <1>3, <1>4, <1>5, <1>6 DEF CallSound
<1> QED  BY <1>7 DEF q

\* A tool is through with a call, or its answer is told again.
LEMMA ToldSound ==
    ASSUME NEW recs, NEW more, Grows(recs, more), NEW limit,
           NEW r, IsCall(r), CallSound(r, recs, limit),
           r.at \in {"executing", "reading", "finishing"},
           NEW did \in {"nothing", "operation", "replay", "reading"},
           NEW told \in {"result", "question", "advice"},
           r.at = "finishing" => did = r.did,
           did \in {"operation", "replay"} =>
              /\ r.decision.intent \in Mutating
              /\ r.key \in DOMAIN more /\ more[r.key] = OperationOf(r.decision),
           r.retry /\ r.by = "words" => did = "replay" /\ told = "result"
    PROVE  CallSound(Telling([r EXCEPT !.did = did], told), more, limit)
<1> DEFINE q == Telling([r EXCEPT !.did = did], told)
<1>1. /\ q.at = "finishing" /\ q.did = did /\ q.told = told
      /\ q.key = r.key /\ q.by = r.by /\ q.text = r.text /\ q.decision = r.decision
      /\ q.brought = r.brought /\ q.retry = r.retry
  BY DEF Telling, IsCall, NewCall
<1>2. CallSound(r, more, limit)  BY SoundStays
<1> HIDE DEF q
<1>3. Shaped(q)  BY <1>1, <1>2 DEF CallSound, Shaped
<1>4. AsWorded(q, limit)  BY <1>1, <1>2 DEF CallSound, AsWorded
<1>5. OnRecord(q, more)  BY <1>1 DEF OnRecord
<1>6. Repeats(q, more, limit)  BY <1>1, <1>2 DEF CallSound, Repeats
<1>7. CallSound(q, more, limit)  BY <1>3, <1>4, <1>5, <1>6 DEF CallSound
<1> QED  BY <1>7 DEF q

\* A retry that is understood by its words finds its record.
LEMMA RetryFindsRecord ==
    ASSUME Retried, NEW c \in Call, At(c, "executing"), call[c].retry,
           call[c].by = "words"
    PROVE  /\ call[c].key \in DOMAIN records
           /\ records[call[c].key] = OperationOf(call[c].decision)
<1> DEFINE r == call[c]
<1>1. CallSound(r, records, threshold)  BY DEF Retried
<1>2. r.at = "executing" /\ r.retry /\ r.by = "words"  BY DEF At
<1> HIDE DEF r
<1>3. WasDone(r.text, r.brought, records, threshold) /\ r.brought # Nothing
  BY <1>1, <1>2 DEF CallSound, Repeats
<1>4. r.key = r.brought /\ r.decision = Route[r.text]
  BY <1>1, <1>2, <1>3 DEF CallSound, Shaped, AsWorded
<1>5. r.key \in DOMAIN records /\ records[r.key] = OperationOf(r.decision)
  BY <1>3, <1>4 DEF WasDone
<1> QED  BY <1>5 DEF r

\* The steps of the tool and the failure to persist the memory.
LEMMA ToolSound ==
    ASSUME Inv, Retried, NEW c \in Call,
           \/ Commit(c) \/ Replay(c) \/ Refuse(c) \/ ReadReturns(c) \/ ReadFails(c)
           \/ PersistFails(c)
    PROVE  Retried'
<1> DEFINE r == call[c]
           Op == OperationOf(r.decision)
<1>1. IsCall(r) /\ Orderly(r) /\ CallSound(r, records, threshold)
  BY DEF Inv, CallOK, Retried
<1>2. UNCHANGED threshold
  BY DEF Commit, Replay, Refuse, ReadReturns, ReadFails, PersistFails
<1>3. r.retry /\ r.by = "words" => ~At(c, "reading")
  BY <1>1 DEF CallSound, Repeats, At
<1>4. CASE Commit(c)
  <2>1. /\ r.at = "executing" /\ r.key \notin DOMAIN records
        /\ records' = [k \in DOMAIN records \cup {r.key} |->
                         IF k = r.key THEN Op ELSE records[k]]
        /\ call' = [call EXCEPT ![c] = Telling([r EXCEPT !.did = "operation"], "result")]
    BY <1>4 DEF Commit, At
  <2>2. /\ r.key \in Key \cup Call /\ Op \in Operations
        /\ r.decision.intent \in Mutating
    BY <1>1, <2>1 DEF Orderly, CallSound, Shaped
  <2>3. ~(r.retry /\ r.by = "words")
    BY <2>1, RetryFindsRecord DEF At
  <2> HIDE DEF r, Op
  <2>4. /\ Grows(records, records') /\ r.key \in DOMAIN records' /\ records'[r.key] = Op
        /\ DOMAIN records' = DOMAIN records \cup {r.key}
    BY <2>1 DEF Grows
  <2>5. CallSound(Telling([r EXCEPT !.did = "operation"], "result"), records', threshold)
    BY <1>1, <2>1, <2>2, <2>3, <2>4, ToldSound DEF Op
  <2>6. \A e \in Call : CallSound(call'[e], records', threshold')
    BY <1>2, <2>1, <2>4, <2>5, OneCallSound
  <2>7. DOMAIN records' \subseteq Key \cup Call /\ \A k \in DOMAIN records' : records'[k] \in Operations
    BY <2>1, <2>2, <2>4 DEF Retried
  <2> QED  BY <2>6, <2>7 DEF Retried
<1>5. ASSUME UNCHANGED records,
             \E q : CallSound(q, records, threshold) /\ call' = [call EXCEPT ![c] = q]
      PROVE  Retried'
  <2>1. PICK q : CallSound(q, records, threshold) /\ call' = [call EXCEPT ![c] = q]
    BY <1>5
  <2>2. Grows(records, records') /\ CallSound(q, records', threshold)
    BY <1>5, <2>1, SameRecords
  <2>3. \A e \in Call : CallSound(call'[e], records', threshold')
    BY <1>2, <2>1, <2>2, OneCallSound
  <2> QED  BY <1>5, <2>3 DEF Retried
<1>6. CASE Replay(c) \/ ReadReturns(c)
  <2>1. PICK did \in {"replay", "reading"}, told \in {"result", "question", "advice"} :
           /\ call' = [call EXCEPT ![c] = Telling([r EXCEPT !.did = did], told)]
           /\ \/ /\ r.at = "executing" /\ did = "replay" /\ told = "result"
                 /\ r.key \in DOMAIN records /\ records[r.key] = Op
              \/ r.at = "reading" /\ did = "reading"
    BY <1>6 DEF Replay, ReadReturns, At
  <2>2. UNCHANGED records  BY <1>6 DEF Replay, ReadReturns
  <2>3. /\ r.at \in {"executing", "reading"}
        /\ did = "replay" => r.decision.intent \in Mutating
        /\ r.retry /\ r.by = "words" => did = "replay" /\ told = "result"
    BY <1>1, <1>3, <2>1 DEF CallSound, Shaped, At
  <2> HIDE DEF r
  <2>4. CallSound(Telling([r EXCEPT !.did = did], told), records, threshold)
    BY <1>1, <2>1, <2>3, SameRecords, ToldSound
  <2> QED  BY <1>5, <2>1, <2>2, <2>4
<1>7. CASE Refuse(c) \/ ReadFails(c) \/ PersistFails(c)
  <2>1. PICK told \in {"result", "question", "advice"} :
           /\ call' = [call EXCEPT ![c] = Telling(r, told)]
           /\ \/ r.at = "executing" /\ Refuse(c)
              \/ r.at = "reading"
              \/ r.at = "finishing" /\ (r.did \in {"operation", "replay"} => told = r.told)
    <3>1. r.at = "finishing" => r.told \in {"result", "question", "advice"}
      BY <1>1 DEF Orderly, Due
    <3> QED  BY <1>7, <3>1 DEF Refuse, ReadFails, PersistFails, AfterPersistFailure, At
  <2>2. UNCHANGED records  BY <1>7 DEF Refuse, ReadFails, PersistFails
  <2>3. ~(r.retry /\ r.by = "words" /\ r.at = "executing")
    BY <2>1, RetryFindsRecord DEF Refuse, At
  <2>4. r.at \in {"executing", "reading"} => r.did = "nothing"
    BY <1>1 DEF Orderly
  <2>5. r.retry /\ r.by = "words" => r.did = "replay" /\ told = "result"
    BY <1>1, <1>3, <2>1, <2>3 DEF CallSound, Repeats, At
  <2>6. /\ r.did \in {"nothing", "operation", "replay", "reading"}
        /\ r.did \in {"operation", "replay"} =>
              /\ r.decision.intent \in Mutating
              /\ r.key \in DOMAIN records /\ records[r.key] = Op
    BY <1>1 DEF CallSound, Shaped, OnRecord
  <2>7. Telling(r, told) = Telling([r EXCEPT !.did = r.did], told)
    BY <1>1 DEF Telling, IsCall, NewCall
  <2> HIDE DEF r
  <2>8. CallSound(Telling([r EXCEPT !.did = r.did], told), records, threshold)
    BY <1>1, <2>1, <2>5, <2>6, SameRecords, ToldSound
  <2> QED  BY <1>5, <2>1, <2>2, <2>7, <2>8
<1> QED  BY <1>4, <1>6, <1>7

\* The steps that begin or end the routing of a call.
LEMMA RoutingSound ==
    ASSUME Inv, Retried, NEW c \in Call,
           \/ \E x \in Text, k \in Key \cup {Nothing} :
                 HandleByWords(c, x, k) \/ HandleByModel(c, x, k)
           \/ RouteReturns(c)
    PROVE  Retried'
<1>1. UNCHANGED <<threshold, records>>
  BY DEF HandleByWords, HandleByModel, RouteReturns
<1>2. ASSUME NEW q, CallSound(q, records, threshold), call' = [call EXCEPT ![c] = q]
      PROVE  Retried'
  <2>1. Grows(records, records') /\ CallSound(q, records', threshold)
    BY <1>1, <1>2, SameRecords
  <2>2. \A e \in Call : CallSound(call'[e], records', threshold')
    BY <1>1, <1>2, <2>1, OneCallSound
  <2> QED  BY <1>1, <2>2 DEF Retried
<1>3. ASSUME NEW x \in Text, NEW k \in Key \cup {Nothing}, HandleByWords(c, x, k)
      PROVE  Retried'
  <2> DEFINE r == Begun(c, x, k)
  <2>1. CallOK(r) /\ r.at = "routing" /\ r.text = x  BY BegunOK
  <2>2. CallSound(r, records, threshold)  BY BegunSound
  <2>3. call' = [call EXCEPT ![c] = Routed(r, Route[r.text], "words")]
    BY <1>3, <2>1 DEF HandleByWords
  <2> HIDE DEF r
  <2>4. CallSound(Routed(r, Route[r.text], "words"), records, threshold)
    BY <2>1, <2>2, RoutedSound
  <2> QED  BY <1>2, <2>3, <2>4
<1>4. ASSUME NEW x \in Text, NEW k \in Key \cup {Nothing}, HandleByModel(c, x, k)
      PROVE  Retried'
  <2>1. call' = [call EXCEPT ![c] = Begun(c, x, k)]  BY <1>4 DEF HandleByModel
  <2>2. CallSound(Begun(c, x, k), records, threshold)  BY BegunSound
  <2> QED  BY <1>2, <2>1, <2>2
<1>5. ASSUME RouteReturns(c)
      PROVE  Retried'
  <2> DEFINE r == call[c]
             d == run[c].decision
  <2>1. CallOK(r) /\ r.at = "routing" /\ CallSound(r, records, threshold)
    BY <1>5 DEF Inv, Retried, RouteReturns, At
  <2>2. \/ call' = [call EXCEPT ![c] = Routed(r, d, "model")]
        \/ call' = [call EXCEPT ![c] = Routed(r, Route[r.text], "words")]
    BY <1>5 DEF RouteReturns, Inv
  <2> HIDE DEF r, d
  <2>3. /\ CallSound(Routed(r, d, "model"), records, threshold)
        /\ CallSound(Routed(r, Route[r.text], "words"), records, threshold)
    BY <2>1, RoutedSound
  <2> QED  BY <1>2, <2>2, <2>3
<1> QED  BY <1>3, <1>4, <1>5

\* A call that leaves, or asks a specialist, does nothing more.
LEMMA LeavingSound ==
    ASSUME Inv, Retried, NEW c \in Call,
           \/ Answer(c) \/ Cancel(c) \/ ReviewReturns(c)
           \/ \E q \in Review : Consult(c, q)
    PROVE  Retried'
<1> DEFINE r == call[c]
<1>1. IsCall(r) /\ CallSound(r, records, threshold)  BY DEF Inv, CallOK, Retried
<1>2. UNCHANGED <<threshold, records>>  BY DEF Answer, Cancel, ReviewReturns, Consult
<1>3. PICK at \in {"answered", "gone", "consulting"} :
         /\ call' = [call EXCEPT ![c] = [r EXCEPT !.at = at]]
         /\ at = "consulting" => r.at = "new"
         /\ at = "answered" => r.at \in {"new", "finishing", "consulting"}
  BY DEF Answer, Cancel, ReviewReturns, Consult, At
<1> DEFINE q == [r EXCEPT !.at = at]
<1>4. /\ q.at = at /\ q.did = r.did /\ q.told = r.told
      /\ q.key = r.key /\ q.by = r.by /\ q.text = r.text /\ q.decision = r.decision
      /\ q.brought = r.brought /\ q.retry = r.retry
  BY <1>1 DEF IsCall, NewCall
<1> HIDE DEF r, q
<1>5. Shaped(q)  BY <1>1, <1>3, <1>4 DEF CallSound, Shaped
<1>6. AsWorded(q, threshold) /\ OnRecord(q, records)
  BY <1>1, <1>3, <1>4 DEF CallSound, AsWorded, OnRecord
<1>7. Repeats(q, records, threshold)
  BY <1>1, <1>3, <1>4 DEF CallSound, Shaped, Repeats
<1>8. CallSound(q, records', threshold) /\ Grows(records, records')
  BY <1>2, <1>5, <1>6, <1>7, SameRecords DEF CallSound
<1>9. \A e \in Call : CallSound(call'[e], records', threshold')
  BY <1>2, <1>3, <1>8, OneCallSound DEF q
<1> QED  BY <1>2, <1>9 DEF Retried

\* Every step keeps what the calls and the records agree on.
LEMMA StepRetried == Inv /\ Retried /\ [Next]_vars => Retried'
<1> SUFFICES ASSUME Inv, Retried, [Next]_vars PROVE Retried'  OBVIOUS
<1>1. ASSUME NEW c \in Call,
             \/ \E x \in Text, k \in Key \cup {Nothing} :
                   HandleByWords(c, x, k) \/ HandleByModel(c, x, k)
             \/ RouteReturns(c)
      PROVE  Retried'
  BY <1>1, RoutingSound
<1>2. ASSUME NEW c \in Call,
             \/ Commit(c) \/ Replay(c) \/ Refuse(c) \/ ReadReturns(c) \/ ReadFails(c)
             \/ PersistFails(c)
      PROVE  Retried'
  BY <1>2, ToolSound
<1>3. ASSUME NEW c \in Call,
             \/ Answer(c) \/ Cancel(c) \/ ReviewReturns(c)
             \/ \E q \in Review : Consult(c, q)
      PROVE  Retried'
  BY <1>3, LeavingSound
<1>4. ASSUME NEW c \in Call, ModelStep(c) \/ RunTimesOut(c)
      PROVE  UNCHANGED <<threshold, records, call>>
  BY <1>4 DEF ModelStep, RunTimesOut
<1>5. UNCHANGED vars => UNCHANGED <<threshold, records, call>>  BY DEF vars
<1>6. UNCHANGED <<threshold, records, call>> => Retried'
  BY DEF Retried
<1> QED  BY <1>1, <1>2, <1>3, <1>4, <1>5, <1>6 DEF Next, Proceed, Over

LEMMA InitRetried == Init => Retried
<1> SUFFICES ASSUME Init PROVE Retried  OBVIOUS
<1>1. \A c \in Call : call[c] = NewCall  BY DEF Init
<1>2. CallSound(NewCall, records, threshold)
  BY DEF NewCall, CallSound, Shaped, AsWorded, OnRecord, Repeats
<1>3. DOMAIN records = {}  BY DEF Init
<1> QED  BY <1>1, <1>2, <1>3 DEF Retried

LEMMA RetriedHolds == Spec => []Retried
BY InitRetried, StepRetried, Safety, PTL DEF Spec

\* Who repeats a request that was done, under the same key and in the same
\* words, gets its result (payment_domain_service.py:261 _existing_payload).
THEOREM RetriesGetTheirResult == Spec => []RetriesAreReplayed
<1>1. Retried => RetriesAreReplayed
  <2> SUFFICES ASSUME Retried, NEW c \in Call, At(c, "answered"), call[c].retry,
                      call[c].by = "words"
               PROVE  call[c].did = "replay" /\ call[c].told = "result"
    BY DEF RetriesAreReplayed
  <2> DEFINE r == call[c]
  <2>1. Repeats(r, records, threshold) /\ r.at = "answered" /\ r.retry /\ r.by = "words"
    BY DEF Retried, CallSound, At
  <2> HIDE DEF r
  <2>2. r.did = "replay" /\ r.told = "result"  BY <2>1 DEF Repeats
  <2> QED  BY <2>2 DEF r
<1> QED  BY <1>1, RetriedHolds, PTL

-----------------------------------------------------------------------------
(* Runs of a language model.  While the model is asked, a router or triage  *)
(* is in its first turn; a specialist was handed off to, is that of the     *)
(* intent, and each turn after the handoff was a call of its tool, so the   *)
(* turns cannot run out on one that calls it twice at most.                 *)

RunRecord ==
    [at : {"idle", "model", "ended"},
     agent : {"none", "router", "triage"} \cup Specialist,
     request : Request \cup {NoRequest}, turns : 0..MaxTurns,
     handedOff : BOOLEAN, tools : 0..MaxTurns, asInstructed : BOOLEAN,
     result : {"none", "decided", "accepted", "structure", "guardrail",
               "handoff", "turns", "unavailable", "timeout"},
     decision : ModelDecisions \cup {NoDecision},
     output : {"none", "facts", "detail", "execution"}]

\* Where a run is while the model is asked.
Asking(r) ==
    /\ r.result = "none"
    /\ r.agent # "router" => ContextAccepts(r.request.facts)
    /\ \/ r.agent \in {"router", "triage"} /\ r.turns = 1 /\ r.tools = 0
       \/ /\ r.agent \in Specialist /\ r.agent = r.request.intent /\ r.handedOff
          /\ r.tools \in 0..2 /\ r.turns = 2 + r.tools

\* What SpecialistVerdicts says of one run.
Verdict(r) ==
    /\ r.result = "accepted" =>
         r.handedOff /\ r.agent = r.request.intent /\ r.output = "facts"
    /\ r.result \notin {"none", "decided", "accepted"} /\ r.asInstructed =>
         \/ r.result \in {"unavailable", "timeout"}
         \/ ContextAccepts(r.request.facts) /\ ~ToolReturns(r.request)
         \/ r.output \in {"execution", "detail"}

RunSound(r) ==
    r \in RunRecord /\ (r.at = "model" => Asking(r)) /\ Verdict(r)

RunsSound == run \in [Call -> RunRecord] /\ \A c \in Call : RunSound(run[c])

LEMMA OneRunSound ==
    ASSUME RunsSound, NEW c \in Call, NEW r, RunSound(r), run' = [run EXCEPT ![c] = r]
    PROVE  RunsSound'
<1>1. r \in RunRecord  BY DEF RunSound
<1>2. run' \in [Call -> RunRecord]  BY <1>1 DEF RunsSound
<1>3. \A e \in Call : run'[e] = r \/ run'[e] = run[e]  BY DEF RunsSound
<1>4. \A e \in Call : RunSound(run'[e])  BY <1>3 DEF RunsSound
<1> QED  BY <1>2, <1>4 DEF RunsSound

\* A run stays a record when one of its fields changes.
LEMMA FieldChanges ==
    ASSUME NEW r \in RunRecord
    PROVE  /\ \A x \in {"idle", "model", "ended"} : [r EXCEPT !.at = x] \in RunRecord
           /\ \A x \in {"router", "triage"} \cup Specialist : [r EXCEPT !.agent = x] \in RunRecord
           /\ \A x \in Request : [r EXCEPT !.request = x] \in RunRecord
           /\ \A x \in 0..MaxTurns : [r EXCEPT !.turns = x] \in RunRecord
           /\ \A x \in BOOLEAN : [r EXCEPT !.handedOff = x] \in RunRecord
           /\ \A x \in 0..MaxTurns : [r EXCEPT !.tools = x] \in RunRecord
           /\ \A x \in BOOLEAN : [r EXCEPT !.asInstructed = x] \in RunRecord
           /\ \A x \in {"none", "decided", "accepted", "structure", "guardrail",
                        "handoff", "turns", "unavailable", "timeout"} :
                 [r EXCEPT !.result = x] \in RunRecord
           /\ \A x \in ModelDecisions : [r EXCEPT !.decision = x] \in RunRecord
           /\ \A x \in {"none", "facts", "detail", "execution"} :
                 [r EXCEPT !.output = x] \in RunRecord
<1>1. \A x \in {"idle", "model", "ended"} : [r EXCEPT !.at = x] \in RunRecord
  BY DEF RunRecord
<1>2. \A x \in {"router", "triage"} \cup Specialist : [r EXCEPT !.agent = x] \in RunRecord
  BY DEF RunRecord
<1>3. \A x \in Request : [r EXCEPT !.request = x] \in RunRecord
  BY DEF RunRecord
<1>4. \A x \in 0..MaxTurns : [r EXCEPT !.turns = x] \in RunRecord
  BY DEF RunRecord
<1>5. \A x \in BOOLEAN : [r EXCEPT !.handedOff = x] \in RunRecord
  BY DEF RunRecord
<1>6. \A x \in 0..MaxTurns : [r EXCEPT !.tools = x] \in RunRecord
  BY DEF RunRecord
<1>7. \A x \in BOOLEAN : [r EXCEPT !.asInstructed = x] \in RunRecord
  BY DEF RunRecord
<1>8. \A x \in {"none", "decided", "accepted", "structure", "guardrail",
                "handoff", "turns", "unavailable", "timeout"} :
         [r EXCEPT !.result = x] \in RunRecord
  BY DEF RunRecord
<1>9. \A x \in ModelDecisions : [r EXCEPT !.decision = x] \in RunRecord
  BY DEF RunRecord
<1>10. \A x \in {"none", "facts", "detail", "execution"} :
          [r EXCEPT !.output = x] \in RunRecord
  BY DEF RunRecord
<1> QED  BY <1>1, <1>2, <1>3, <1>4, <1>5, <1>6, <1>7, <1>8, <1>9, <1>10

\* A run that ends.
LEMMA EndedFields ==
    ASSUME NEW r \in RunRecord,
           NEW result \in {"decided", "accepted", "structure", "guardrail",
                           "handoff", "turns", "unavailable", "timeout"}
    PROVE  /\ Ended(r, result) \in RunRecord
           /\ Ended(r, result).at = "ended" /\ Ended(r, result).result = result
           /\ Ended(r, result).request = r.request /\ Ended(r, result).agent = r.agent
           /\ Ended(r, result).handedOff = r.handedOff /\ Ended(r, result).output = r.output
           /\ Ended(r, result).asInstructed = r.asInstructed
<1> DEFINE p == [r EXCEPT !.at = "ended"]
           o == [p EXCEPT !.result = result]
           n == [o EXCEPT !.turns = 0]
           q == [n EXCEPT !.tools = 0]
<1>1. 0 \in 0..MaxTurns  BY DEF MaxTurns
<1>2. p \in RunRecord  BY FieldChanges
<1> HIDE DEF p
<1>3. o \in RunRecord  BY <1>2, FieldChanges
<1> HIDE DEF o
<1>4. n \in RunRecord  BY <1>1, <1>3, FieldChanges
<1> HIDE DEF n
<1>5. q \in RunRecord  BY <1>1, <1>4, FieldChanges
<1>6. Ended(r, result) = q
  BY DEF Ended, p, o, n
<1>7. /\ Ended(r, result).at = "ended" /\ Ended(r, result).result = result
      /\ Ended(r, result).request = r.request /\ Ended(r, result).agent = r.agent
      /\ Ended(r, result).handedOff = r.handedOff /\ Ended(r, result).output = r.output
      /\ Ended(r, result).asInstructed = r.asInstructed
  BY DEF Ended, RunRecord
<1> QED  BY <1>5, <1>6, <1>7

\* It is sound if its end is deserved.
LEMMA EndedSound ==
    ASSUME NEW r \in RunRecord,
           NEW result \in {"accepted", "structure", "guardrail",
                           "handoff", "turns", "unavailable", "timeout"},
           result = "accepted" =>
              r.handedOff /\ r.agent = r.request.intent /\ r.output = "facts",
           result \notin {"accepted", "unavailable", "timeout"} /\ r.asInstructed =>
              \/ ContextAccepts(r.request.facts) /\ ~ToolReturns(r.request)
              \/ r.output \in {"execution", "detail"}
    PROVE  RunSound(Ended(r, result))
<1> DEFINE q == Ended(r, result)
<1>1. /\ q \in RunRecord /\ q.at = "ended" /\ q.result = result
      /\ q.request = r.request /\ q.agent = r.agent
      /\ q.handedOff = r.handedOff /\ q.output = r.output
      /\ q.asInstructed = r.asInstructed
  BY EndedFields
<1> HIDE DEF q
<1>2. Verdict(q)  BY <1>1 DEF Verdict
<1>3. RunSound(q)  BY <1>1, <1>2 DEF RunSound
<1> QED  BY <1>3 DEF q

\* A run that ends because the model did not do as it was instructed.
LEMMA MisledSound ==
    ASSUME NEW r \in RunRecord, NEW result \in {"structure", "handoff"}
    PROVE  RunSound([Ended(r, result) EXCEPT !.asInstructed = FALSE])
<1> DEFINE e == Ended(r, result)
           q == [e EXCEPT !.asInstructed = FALSE]
<1>1. e \in RunRecord /\ e.at = "ended" /\ e.result = result  BY EndedFields
<1> HIDE DEF e
<1>2. /\ q \in RunRecord /\ q.at = "ended" /\ q.result = result /\ q.asInstructed = FALSE
  BY <1>1 DEF RunRecord
<1> HIDE DEF q
<1>3. RunSound(q)  BY <1>2 DEF RunSound, Verdict
<1> QED  BY <1>3 DEF q, e

\* The runs as they begin.
LEMMA BegunRuns ==
    /\ RunSound(Idle)
    /\ RunSound([Idle EXCEPT !.at = "model", !.agent = "router", !.turns = 1])
    /\ \A q \in Request : ContextAccepts(q.facts) =>
          RunSound([Idle EXCEPT !.at = "model", !.agent = "triage", !.turns = 1,
                                !.request = q])
<1>0. Idle \in RunRecord /\ Idle.result = "none" /\ Idle.tools = 0 /\ Idle.at = "idle"
  BY DEF RunRecord, Idle, MaxTurns
<1>1. RunSound(Idle)
  BY <1>0 DEF RunSound, Verdict
<1>2. RunSound([Idle EXCEPT !.at = "model", !.agent = "router", !.turns = 1])
  <2> DEFINE r == [Idle EXCEPT !.at = "model", !.agent = "router", !.turns = 1]
  <2> DEFINE p == [Idle EXCEPT !.at = "model"]
             o == [p EXCEPT !.agent = "router"]
  <2>1. p \in RunRecord  BY <1>0, FieldChanges
  <2>2. o \in RunRecord
    <3> HIDE DEF p
    <3> QED  BY <2>1, FieldChanges
  <2>3. [o EXCEPT !.turns = 1] \in RunRecord
    <3> HIDE DEF o
    <3>1. 1 \in 0..MaxTurns  BY DEF MaxTurns
    <3> QED  BY <2>2, <3>1, FieldChanges
  <2>4. r \in RunRecord
    <3>1. r = [o EXCEPT !.turns = 1]  OBVIOUS
    <3> HIDE DEF o, r
    <3> QED  BY <2>3, <3>1
  <2>5. r.result = "none" /\ r.agent = "router" /\ r.turns = 1 /\ r.tools = 0
    BY DEF Idle
  <2> HIDE DEF r
  <2>6. RunSound(r)  BY <2>4, <2>5 DEF RunSound, Asking, Verdict
  <2> QED  BY <2>6 DEF r
<1>3. ASSUME NEW q \in Request, ContextAccepts(q.facts)
      PROVE  RunSound([Idle EXCEPT !.at = "model", !.agent = "triage", !.turns = 1,
                                   !.request = q])
  <2> DEFINE r == [Idle EXCEPT !.at = "model", !.agent = "triage", !.turns = 1,
                               !.request = q]
  <2> DEFINE p == [Idle EXCEPT !.at = "model"]
             o == [p EXCEPT !.agent = "triage"]
             n == [o EXCEPT !.turns = 1]
  <2>1. p \in RunRecord  BY <1>0, FieldChanges
  <2>2. o \in RunRecord
    <3> HIDE DEF p
    <3> QED  BY <2>1, FieldChanges
  <2>3. n \in RunRecord
    <3> HIDE DEF o
    <3>1. 1 \in 0..MaxTurns  BY DEF MaxTurns
    <3> QED  BY <2>2, <3>1, FieldChanges
  <2>4. r \in RunRecord
    <3>1. r = [n EXCEPT !.request = q]  OBVIOUS
    <3> HIDE DEF n, r
    <3> QED  BY <1>3, <2>3, <3>1, FieldChanges
  <2>5. /\ r.result = "none" /\ r.agent = "triage" /\ r.turns = 1 /\ r.tools = 0
        /\ r.request = q
    BY DEF Idle
  <2> HIDE DEF r
  <2>6. RunSound(r)  BY <1>3, <2>4, <2>5 DEF RunSound, Asking, Verdict
  <2> QED  BY <2>6 DEF r
<1> QED  BY <1>1, <1>2, <1>3

-----------------------------------------------------------------------------
(* The answers of the model.                                                *)

\* A run that goes on, one turn later.
LEMMA LaterTurn ==
    ASSUME NEW r \in RunRecord, r.turns < MaxTurns
    PROVE  /\ NextTurn(r) \in RunRecord
           /\ NextTurn(r).turns = r.turns + 1 /\ NextTurn(r).tools = r.tools
           /\ NextTurn(r).agent = r.agent /\ NextTurn(r).request = r.request
           /\ NextTurn(r).handedOff = r.handedOff /\ NextTurn(r).result = r.result
<1>1. r.turns \in 0..MaxTurns  BY DEF RunRecord
<1>2. ~(r.turns >= MaxTurns) /\ r.turns + 1 \in 0..MaxTurns  BY <1>1 DEF MaxTurns
<1>3. NextTurn(r) = [r EXCEPT !.turns = r.turns + 1]  BY <1>2 DEF NextTurn
<1>4. [r EXCEPT !.turns = r.turns + 1] \in RunRecord  BY <1>2, FieldChanges
<1>5. LET q == [r EXCEPT !.turns = r.turns + 1]
      IN  /\ q.turns = r.turns + 1 /\ q.tools = r.tools
          /\ q.agent = r.agent /\ q.request = r.request
          /\ q.handedOff = r.handedOff /\ q.result = r.result
  BY DEF RunRecord
<1> QED  BY <1>3, <1>4, <1>5

\* A router run concludes.
LEMMA DecidedSound ==
    ASSUME NEW r \in RunRecord, NEW d \in ModelDecisions
    PROVE  RunSound([Ended(r, "decided") EXCEPT !.decision = d])
<1> DEFINE e == Ended(r, "decided")
           q == [e EXCEPT !.decision = d]
<1>1. e \in RunRecord /\ e.at = "ended" /\ e.result = "decided"  BY EndedFields
<1> HIDE DEF e
<1>2. q \in RunRecord  BY <1>1, FieldChanges
<1>3. q.at = "ended" /\ q.result = "decided"  BY <1>1 DEF RunRecord
<1> HIDE DEF q
<1>4. RunSound(q)  BY <1>2, <1>3 DEF RunSound, Verdict
<1> QED  BY <1>4 DEF q, e

\* The triage hands off to the specialist of the intent, or misbehaves.
LEMMA HandoffSound ==
    ASSUME NEW r, RunSound(r), r.at = "model", r.agent = "triage",
           NEW s \in Specialist, r.request.intent = s
    PROVE  RunSound(NextTurn([r EXCEPT !.agent = s, !.handedOff = TRUE]))
<1> DEFINE p == [r EXCEPT !.agent = s]
           o == [p EXCEPT !.handedOff = TRUE]
           q == NextTurn(o)
<1>1. /\ r \in RunRecord /\ Asking(r)  BY DEF RunSound
<1>2. /\ r.turns = 1 /\ r.tools = 0 /\ r.result = "none"
      /\ ContextAccepts(r.request.facts)
  BY <1>1 DEF Asking, Specialist
<1>3. p \in RunRecord  BY <1>1, FieldChanges
<1>4. o \in RunRecord
  <2> HIDE DEF p
  <2> QED  BY <1>3, FieldChanges
<1>5. /\ o.turns = 1 /\ o.tools = 0 /\ o.result = "none" /\ o.agent = s
      /\ o.handedOff = TRUE /\ o.request = r.request
  BY <1>1, <1>2 DEF RunRecord
<1>6. [r EXCEPT !.agent = s, !.handedOff = TRUE] = o  OBVIOUS
<1> HIDE DEF o
<1>7. /\ q \in RunRecord /\ q.turns = 2 /\ q.tools = 0 /\ q.agent = s /\ q.request = r.request
      /\ q.handedOff = TRUE /\ q.result = "none"
  BY <1>4, <1>5, LaterTurn DEF MaxTurns
<1> HIDE DEF q
<1>8. Asking(q)  BY <1>2, <1>7 DEF Asking
<1>9. Verdict(q)  BY <1>7 DEF Verdict
<1>10. RunSound(q)  BY <1>7, <1>8, <1>9 DEF RunSound
<1> QED  BY <1>6, <1>10 DEF q

\* A specialist calls a tool.
LEMMA ToolCallSound ==
    ASSUME NEW r, RunSound(r), r.at = "model", r.agent \in Specialist,
           NEW s \in Specialist, NEW arguments \in BOOLEAN,
           NEW x, x = (r.asInstructed /\ s = r.agent /\ ~arguments /\ r.tools < 2),
           NEW q, q = [r EXCEPT !.asInstructed = x, !.tools = r.tools + 1]
    PROVE  /\ s # q.agent => RunSound(Ended(q, "structure"))
           /\ s = q.agent /\ ToolAllowed(q, s, arguments) /\ ToolReturns(q.request) =>
                RunSound(NextTurn(q))
           /\ s = q.agent /\ ~(ToolAllowed(q, s, arguments) /\ ToolReturns(q.request)) =>
                RunSound(Ended(q, "guardrail"))
<1>1. r \in RunRecord /\ Asking(r)  BY DEF RunSound
<1>2. /\ r.agent = r.request.intent /\ r.handedOff /\ r.tools \in 0..2 /\ r.turns = 2 + r.tools
      /\ r.result = "none" /\ ContextAccepts(r.request.facts)
  BY <1>1 DEF Asking, Specialist
<1>3. r.tools + 1 \in 0..MaxTurns  BY <1>2 DEF MaxTurns
<1>4. x \in BOOLEAN
  <2>1. r.asInstructed \in BOOLEAN  BY <1>1 DEF RunRecord
  <2> QED  BY <2>1
<1> DEFINE p == [r EXCEPT !.asInstructed = x]
<1>5. p \in RunRecord  BY <1>1, <1>4, FieldChanges
<1>6. q \in RunRecord
  <2>1. q = [p EXCEPT !.tools = r.tools + 1]  OBVIOUS
  <2> HIDE DEF p
  <2>2. [p EXCEPT !.tools = r.tools + 1] \in RunRecord  BY <1>3, <1>5, FieldChanges
  <2> QED  BY <2>1, <2>2, Zenon
<1>7. /\ q.asInstructed = x /\ q.tools = r.tools + 1 /\ q.agent = r.agent
      /\ q.request = r.request /\ q.turns = r.turns /\ q.handedOff = r.handedOff
      /\ q.result = "none"
  BY <1>1, <1>2 DEF RunRecord
<1> HIDE DEF p
<1>8. ASSUME s # q.agent  PROVE RunSound(Ended(q, "structure"))
  <2>1. ~q.asInstructed  BY <1>7, <1>8
  <2> QED  BY <1>6, <2>1, EndedSound
<1>9. ASSUME s = q.agent, ~(ToolAllowed(q, s, arguments) /\ ToolReturns(q.request))
      PROVE  RunSound(Ended(q, "guardrail"))
  <2>1. q.asInstructed => ContextAccepts(q.request.facts) /\ ~ToolReturns(q.request)
    BY <1>2, <1>7, <1>9 DEF ToolAllowed
  <2> QED  BY <1>6, <2>1, EndedSound
<1>10. ASSUME s = q.agent  PROVE RunSound(NextTurn(q))
  <2>1. CASE r.tools = 2
    <3>1. NextTurn(q) = Ended(q, "turns")
      BY <1>2, <1>7, <2>1 DEF NextTurn, MaxTurns
    <3>2. ~q.asInstructed
      <4>1. ~(r.tools < 2)  BY <2>1
      <4>2. ~x  BY <4>1, Zenon
      <4> QED  BY <1>7, <4>2
    <3> QED  BY <1>6, <3>1, <3>2, EndedSound
  <2>2. CASE r.tools # 2
    <3> DEFINE n == NextTurn(q)
    <3>1. r.tools \in 0..1 /\ q.turns < MaxTurns /\ q.turns = 2 + r.tools
      BY <1>2, <1>7, <2>2 DEF MaxTurns
    <3>2. /\ n \in RunRecord /\ n.turns = q.turns + 1 /\ n.tools = q.tools
          /\ n.agent = q.agent /\ n.request = q.request
          /\ n.handedOff = q.handedOff /\ n.result = q.result
      BY <1>6, <3>1, LaterTurn
    <3> HIDE DEF n
    <3>3. Asking(n)  BY <1>2, <1>7, <3>1, <3>2 DEF Asking
    <3>4. Verdict(n)  BY <1>7, <3>2 DEF Verdict
    <3>5. RunSound(n)  BY <3>2, <3>3, <3>4 DEF RunSound
    <3> QED  BY <3>5 DEF n
  <2> QED  BY <2>1, <2>2
<1> QED  BY <1>8, <1>9, <1>10

\* A specialist concludes.
LEMMA ConclusionSound ==
    ASSUME NEW r, RunSound(r), r.at = "model", r.agent \in Specialist,
           NEW o \in Output,
           NEW x \in BOOLEAN, x => o.by = r.agent /\ Grounded(r.request, o.says),
           NEW q, q = [r EXCEPT !.asInstructed = x, !.output = o.says]
    PROVE  /\ Rejected(q, o) => RunSound(Ended(q, "guardrail"))
           /\ ~Rejected(q, o) /\ q.handedOff /\ q.agent = q.request.intent =>
                RunSound(Ended(q, "accepted"))
           /\ q.handedOff /\ q.agent = q.request.intent
<1>1. r \in RunRecord /\ Asking(r)  BY DEF RunSound
<1>2. r.agent = r.request.intent /\ r.handedOff
  BY <1>1 DEF Asking, Specialist
<1>4. o.says \in {"facts", "detail", "execution"}  BY DEF Output
<1> DEFINE p == [r EXCEPT !.asInstructed = x]
<1>5. p \in RunRecord  BY <1>1, FieldChanges
<1>6. q \in RunRecord
  <2>1. q = [p EXCEPT !.output = o.says]  OBVIOUS
  <2> HIDE DEF p
  <2>2. [p EXCEPT !.output = o.says] \in RunRecord  BY <1>4, <1>5, FieldChanges
  <2> QED  BY <2>1, <2>2, Zenon
<1>7. /\ q.asInstructed = x /\ q.output = o.says /\ q.agent = r.agent
      /\ q.request = r.request /\ q.handedOff = r.handedOff
  BY <1>1 DEF RunRecord
<1> HIDE DEF p
<1>8. ASSUME Rejected(q, o)  PROVE RunSound(Ended(q, "guardrail"))
  <2>1. q.asInstructed => q.output \in {"execution", "detail"}
    BY <1>2, <1>7, <1>8 DEF Rejected
  <2> QED  BY <1>6, <2>1, EndedSound
<1>9. ASSUME ~Rejected(q, o)  PROVE RunSound(Ended(q, "accepted"))
  <2>1. q.output = "facts"  BY <1>4, <1>7, <1>9 DEF Rejected
  <2>2. q.handedOff /\ q.agent = q.request.intent  BY <1>2, <1>7
  <2> QED  BY <1>6, <2>1, <2>2, EndedSound
<1> QED  BY <1>2, <1>7, <1>8, <1>9

\* Whatever the model answers, and whatever its provider does, its run is sound.
LEMMA AnswersSound ==
    ASSUME Inv, RunsSound, NEW c \in Call, ModelStep(c) \/ RunTimesOut(c)
    PROVE  RunsSound'
<1> DEFINE r == run[c]
           Goes == \E q : RunSound(q) /\ run' = [run EXCEPT ![c] = q]
<1>1. RunSound(r) /\ r \in RunRecord  BY DEF RunsSound, RunSound
<1>2. ASSUME NEW d \in ModelDecisions, Classifies(c, d)  PROVE Goes
  <2>1. run' = [run EXCEPT ![c] = [Ended(r, "decided") EXCEPT !.decision = d]]
    BY <1>2 DEF Classifies, Inv
  <2> QED  BY <1>1, <2>1, DecidedSound
<1>3. ASSUME NEW s \in Specialist, HandsOff(c, s)  PROVE Goes
  <2>1. r.at = "model" /\ r.agent = "triage"  BY <1>3 DEF HandsOff, Triage, Asked
  <2>2. \/ /\ r.request.intent = s
           /\ run' = [run EXCEPT ![c] = NextTurn([r EXCEPT !.agent = s, !.handedOff = TRUE])]
        \/ run' = [run EXCEPT ![c] = [Ended(r, "structure") EXCEPT !.asInstructed = FALSE]]
    BY <1>3 DEF HandsOff, HandoffEnabledFor, Inv
  <2> HIDE DEF r
  <2> QED  BY <1>1, <2>1, <2>2, HandoffSound, MisledSound
<1>4. ASSUME NEW s \in Specialist, NEW arguments \in BOOLEAN, CallsTool(c, s, arguments)
      PROVE  Goes
  <2> DEFINE x == r.asInstructed /\ s = r.agent /\ ~arguments /\ r.tools < 2
             q == [r EXCEPT !.asInstructed = x, !.tools = r.tools + 1]
             z == AfterToolCall(r, s, arguments)
  <2>1. r.at = "model" /\ r.agent \in Specialist  BY <1>4 DEF CallsTool, Reviews, Asked
  <2>2. run' = [run EXCEPT ![c] = z]  BY <1>4 DEF CallsTool
  <2>3. q.agent = r.agent  BY <1>1 DEF RunRecord
  <2>4. z = IF s # r.agent THEN Ended(q, "structure")
            ELSE IF ToolAllowed(q, s, arguments) /\ ToolReturns(q.request)
            THEN NextTurn(q)
            ELSE Ended(q, "guardrail")
    BY Zenon DEF AfterToolCall
  <2>5. RunSound(z)
    <3>1. \E w : w = x  OBVIOUS
    <3>2. PICK w : w = x  BY <3>1
    <3>3. q = [r EXCEPT !.asInstructed = w, !.tools = r.tools + 1]  BY <3>2, Zenon
    <3>4. w = (r.asInstructed /\ s = r.agent /\ ~arguments /\ r.tools < 2)  BY <3>2, Zenon
    <3> HIDE DEF r, q, x, z
    <3>5. /\ s # q.agent => RunSound(Ended(q, "structure"))
          /\ s = q.agent /\ ToolAllowed(q, s, arguments) /\ ToolReturns(q.request) =>
               RunSound(NextTurn(q))
          /\ s = q.agent /\ ~(ToolAllowed(q, s, arguments) /\ ToolReturns(q.request)) =>
               RunSound(Ended(q, "guardrail"))
      BY <1>1, <2>1, <3>3, <3>4, ToolCallSound
    <3> QED  BY <2>3, <2>4, <3>5
  <2> HIDE DEF z
  <2> QED  BY <2>2, <2>5
<1>5. ASSUME NEW o \in Output, Concludes(c, o)  PROVE Goes
  <2> DEFINE x == /\ r.asInstructed /\ r.tools > 0 /\ o.by = r.agent
                  /\ Grounded(r.request, o.says)
             q == [r EXCEPT !.asInstructed = x, !.output = o.says]
             z == AfterConclusion(r, o)
  <2>1. r.at = "model" /\ r.agent \in Specialist  BY <1>5 DEF Concludes, Reviews, Asked
  <2>2. run' = [run EXCEPT ![c] = z]  BY <1>5 DEF Concludes
  <2>3. z = IF Rejected(q, o) THEN Ended(q, "guardrail")
            ELSE IF q.handedOff /\ q.agent = q.request.intent THEN Ended(q, "accepted")
            ELSE Ended(q, "handoff")
    BY Zenon DEF AfterConclusion
  <2>4. RunSound(z)
    <3>1. \E w : w = x  OBVIOUS
    <3>2. PICK w : w = x  BY <3>1
    <3>3. q = [r EXCEPT !.asInstructed = w, !.output = o.says]  BY <3>2, Zenon
    <3>4. w \in BOOLEAN /\ (w => o.by = r.agent /\ Grounded(r.request, o.says))
      <4>1. r.asInstructed \in BOOLEAN  BY <1>1 DEF RunRecord
      <4>2. x \in BOOLEAN  BY <4>1
      <4> QED  BY <3>2, <4>2, Zenon
    <3> HIDE DEF r, q, x, z
    <3>5. /\ Rejected(q, o) => RunSound(Ended(q, "guardrail"))
          /\ ~Rejected(q, o) /\ q.handedOff /\ q.agent = q.request.intent =>
               RunSound(Ended(q, "accepted"))
          /\ q.handedOff /\ q.agent = q.request.intent
      BY <1>1, <2>1, <3>3, <3>4, ConclusionSound
    <3> QED  BY <2>3, <3>5
  <2> HIDE DEF z
  <2> QED  BY <2>2, <2>4
<1>6. ASSUME TriageConcludes(c) \/ Misbehaves(c)  PROVE Goes
  <2>1. \E result \in {"structure", "handoff"} :
           run' = [run EXCEPT ![c] = [Ended(r, result) EXCEPT !.asInstructed = FALSE]]
    BY <1>6 DEF TriageConcludes, Misbehaves, Inv
  <2> HIDE DEF r
  <2> QED  BY <1>1, <2>1, MisledSound
<1>7. ASSUME ProviderFails(c) \/ TimesOut(c)  PROVE Goes
  <2>1. \E result \in {"unavailable", "timeout"} : run' = [run EXCEPT ![c] = Ended(r, result)]
    BY <1>7 DEF ProviderFails, TimesOut, Ends, Inv
  <2> HIDE DEF r
  <2> QED  BY <1>1, <2>1, EndedSound
<1>8. Goes
  BY <1>2, <1>3, <1>4, <1>5, <1>6, <1>7 DEF ModelStep, ModelAnswers, RunTimesOut
<1> QED  BY <1>8, OneRunSound

\* A run is begun with a request that its context accepts, or dropped.
LEMMA BeginningSound ==
    ASSUME Inv, RunsSound, NEW c \in Call,
           \/ StartRouting(c)
           \/ \E q \in Review : ContextAccepts(q.facts) /\ StartReview(c, q)
           \/ run' = [run EXCEPT ![c] = Idle]
    PROVE  RunsSound'
<1>1. \E r : RunSound(r) /\ run' = [run EXCEPT ![c] = r]
  BY BegunRuns, ReviewAssumption DEF StartRouting, StartReview
<1> QED  BY <1>1, OneRunSound

\* Every step keeps the runs sound.
LEMMA StepRuns == Inv /\ RunsSound /\ [Next]_vars => RunsSound'
<1> SUFFICES ASSUME Inv, RunsSound, [Next]_vars PROVE RunsSound'  OBVIOUS
<1>1. ASSUME NEW c \in Call, ModelStep(c) \/ RunTimesOut(c)
      PROVE  RunsSound'
  BY <1>1, AnswersSound
<1>2. ASSUME NEW c \in Call,
             \/ \E x \in Text, k \in Key \cup {Nothing} : HandleByModel(c, x, k)
             \/ \E q \in Review : Consult(c, q)
             \/ RouteReturns(c) \/ ReviewReturns(c) \/ Cancel(c)
      PROVE  RunsSound' \/ UNCHANGED run
  BY <1>2, BeginningSound DEF HandleByModel, Consult, RouteReturns, ReviewReturns, Cancel
<1>3. ASSUME NEW c \in Call,
             \/ \E x \in Text, k \in Key \cup {Nothing} : HandleByWords(c, x, k)
             \/ Commit(c) \/ Replay(c) \/ Refuse(c) \/ ReadReturns(c) \/ ReadFails(c)
             \/ PersistFails(c) \/ Answer(c)
      PROVE  UNCHANGED run
  BY <1>3 DEF HandleByWords, Commit, Replay, Refuse, ReadReturns, ReadFails,
              PersistFails, Answer
<1>4. UNCHANGED vars => UNCHANGED run  BY DEF vars
<1>5. UNCHANGED run => RunsSound'  BY DEF RunsSound
<1> QED  BY <1>1, <1>2, <1>3, <1>4, <1>5 DEF Next, Proceed, Over

LEMMA InitRuns == Init => RunsSound
<1>1. RunSound(Idle) /\ Idle \in RunRecord  BY BegunRuns DEF RunSound
<1> QED  BY <1>1 DEF Init, RunsInit, RunsSound

LEMMA RunsHold == Spec => []RunsSound
BY InitRuns, StepRuns, Safety, PTL DEF Spec

\* A review is accepted only from the specialist of the intent, after a handoff
\* to it, that kept to the facts; and a model that does all it was instructed
\* to is refused for no other reason than those SpecialistVerdicts names
\* (openai_agents_runtime.py run_specialist, sdk_guardrails.py).
THEOREM VerdictsAreDeserved == Spec => []SpecialistVerdicts
<1>1. RunsSound => SpecialistVerdicts
  BY DEF RunsSound, RunSound, Verdict, SpecialistVerdicts
<1> QED  BY <1>1, RunsHold, PTL

-----------------------------------------------------------------------------
(* Types.                                                                   *)

\* A call waits for a run if and only if it has one.
Waiting(r) == r.at \in {"routing", "consulting"}

Linked ==
    \A c \in Call : /\ Waiting(call[c]) => run[c].at # "idle"
                    /\ run[c].at = "model" => Waiting(call[c])

\* A step of one call, and of its run if it has one.
LEMMA OneLinkChanges ==
    ASSUME Inv, Linked, NEW c \in Call, NEW q, call' = [call EXCEPT ![c] = q],
           NEW r, run' = [run EXCEPT ![c] = r],
           Waiting(q) => r.at # "idle", r.at = "model" => Waiting(q)
    PROVE  Linked'
<1> SUFFICES ASSUME NEW e \in Call
             PROVE  /\ Waiting(call'[e]) => run'[e].at # "idle"
                    /\ run'[e].at = "model" => Waiting(call'[e])
  BY DEF Linked, Waiting
<1>1. CASE e = c
  <2>1. call'[e] = q /\ run'[e] = r  BY <1>1 DEF Inv
  <2> QED  BY <2>1
<1>2. CASE e # c
  <2>1. call'[e] = call[e] /\ run'[e] = run[e]  BY <1>2 DEF Inv
  <2> QED  BY <2>1 DEF Linked
<1> QED  BY <1>1, <1>2

\* A call that changes while it waits for no run, before and after.
LEMMA UnlinkedChanges ==
    ASSUME Inv, Linked, NEW c \in Call, NEW q, call' = [call EXCEPT ![c] = q],
           UNCHANGED run, ~Waiting(call[c]), ~Waiting(q)
    PROVE  Linked'
<1> SUFFICES ASSUME NEW e \in Call
             PROVE  /\ Waiting(call'[e]) => run'[e].at # "idle"
                    /\ run'[e].at = "model" => Waiting(call'[e])
  BY DEF Linked, Waiting
<1>1. CASE e = c
  <2>1. call'[e] = q /\ run'[e] = run[c]  BY <1>1 DEF Inv
  <2> QED  BY <2>1 DEF Linked
<1>2. CASE e # c
  <2>1. call'[e] = call[e] /\ run'[e] = run[e]  BY <1>2 DEF Inv
  <2> QED  BY <2>1 DEF Linked
<1> QED  BY <1>1, <1>2

\* The steps of a call, and of the run it begins or gives up.
LEMMA BoundStepLinked ==
    ASSUME Inv, Linked, NEW c \in Call,
           \/ \E x \in Text, k \in Key \cup {Nothing} : HandleByModel(c, x, k)
           \/ \E q \in Review : Consult(c, q)
           \/ RouteReturns(c) \/ ReviewReturns(c) \/ Cancel(c)
    PROVE  Linked'
<1>1. DOMAIN call[c] = DOMAIN NewCall  BY DEF Inv, CallOK, IsCall
<1>2. ASSUME NEW x \in Text, NEW k \in Key \cup {Nothing}, HandleByModel(c, x, k)
      PROVE  Linked'
  <2> DEFINE q == Begun(c, x, k)
             r == [Idle EXCEPT !.at = "model", !.agent = "router", !.turns = 1]
  <2>1. call' = [call EXCEPT ![c] = q] /\ run' = [run EXCEPT ![c] = r]
    BY <1>2 DEF HandleByModel, StartRouting
  <2>2. Waiting(q) /\ r.at = "model"
    BY DEF Begun, NewCall, Waiting, Idle
  <2> HIDE DEF q, r
  <2> QED  BY <2>1, <2>2, OneLinkChanges
<1>3. ASSUME NEW x \in Review, Consult(c, x)
      PROVE  Linked'
  <2>1. CASE ContextAccepts(x.facts) /\ provider = "ready"
    <3> DEFINE q == [call[c] EXCEPT !.at = "consulting"]
               r == [Idle EXCEPT !.at = "model", !.agent = "triage", !.turns = 1,
                                 !.request = x]
    <3>1. call' = [call EXCEPT ![c] = q] /\ run' = [run EXCEPT ![c] = r]
      BY <1>3, <2>1 DEF Consult, StartReview
    <3>2. Waiting(q) /\ r.at = "model"
      BY <1>1 DEF NewCall, Waiting, Idle
    <3> HIDE DEF q, r
    <3> QED  BY <3>1, <3>2, OneLinkChanges
  <2>2. CASE ~(ContextAccepts(x.facts) /\ provider = "ready")
    <3> DEFINE q == [call[c] EXCEPT !.at = "answered"]
    <3>1. call' = [call EXCEPT ![c] = q] /\ UNCHANGED run /\ ~Waiting(call[c])
      BY <1>3, <2>2 DEF Consult, At, Waiting
    <3>2. ~Waiting(q)  BY <1>1 DEF NewCall, Waiting
    <3> HIDE DEF q
    <3> QED  BY <3>1, <3>2, UnlinkedChanges
  <2> QED  BY <2>1, <2>2
<1>4. ASSUME RouteReturns(c) \/ ReviewReturns(c) \/ Cancel(c)
      PROVE  Linked'
  <2>1. PICK q : ~Waiting(q) /\ call' = [call EXCEPT ![c] = q]
    <3>1. CASE RouteReturns(c)
      <4>1. \A d, by : ~Waiting(Routed(call[c], d, by))
        <5> TAKE d, by
        <5> DEFINE q == Routed(call[c], d, by)
        <5>1. IsCall(call[c])  BY <1>1 DEF IsCall
        <5>2. q.at \in {"finishing", "executing", "reading"}
          BY <5>1, RoutedFields
        <5> QED  BY <5>2 DEF Waiting
      <4>2. \E d, by : call' = [call EXCEPT ![c] = Routed(call[c], d, by)]
        BY <3>1 DEF RouteReturns, Inv
      <4> QED  BY <4>1, <4>2
    <3>2. CASE ReviewReturns(c) \/ Cancel(c)
      <4>1. \E at \in {"answered", "gone"} :
               call' = [call EXCEPT ![c] = [call[c] EXCEPT !.at = at]]
        BY <3>2 DEF ReviewReturns, Cancel
      <4>2. \A at \in {"answered", "gone"} : ~Waiting([call[c] EXCEPT !.at = at])
        BY <1>1 DEF NewCall, Waiting
      <4> QED  BY <4>1, <4>2
    <3> QED  BY <1>4, <3>1, <3>2
  <2>2. run' = [run EXCEPT ![c] = Idle]  BY <1>4 DEF RouteReturns, ReviewReturns, Cancel
  <2>3. Idle.at = "idle"  BY DEF Idle
  <2> QED  BY <2>1, <2>2, <2>3, OneLinkChanges
<1> QED  BY <1>2, <1>3, <1>4

\* The steps of a call that has no run.
LEMMA FreeStepLinked ==
    ASSUME Inv, Linked, NEW c \in Call,
           \/ \E x \in Text, k \in Key \cup {Nothing} : HandleByWords(c, x, k)
           \/ Commit(c) \/ Replay(c) \/ Refuse(c) \/ ReadReturns(c) \/ ReadFails(c)
           \/ PersistFails(c) \/ Answer(c)
    PROVE  Linked'
<1> DEFINE r == call[c]
<1>1. IsCall(r)  BY DEF Inv, CallOK
<1>2. ~Waiting(r)
  BY DEF HandleByWords, Commit, Replay, Refuse, ReadReturns, ReadFails, PersistFails, Answer,
         At, Waiting
<1>3. UNCHANGED run
  BY DEF HandleByWords, Commit, Replay, Refuse, ReadReturns, ReadFails, PersistFails, Answer
<1>4. \A did, told : /\ ~Waiting(Telling(r, told))
                     /\ ~Waiting(Telling([r EXCEPT !.did = did], told))
  BY <1>1 DEF Telling, Waiting, IsCall, NewCall
<1>5. \E q : ~Waiting(q) /\ call' = [call EXCEPT ![c] = q]
  <2>1. CASE \E x \in Text, k \in Key \cup {Nothing} : HandleByWords(c, x, k)
    <3>1. PICK x \in Text, k \in Key \cup {Nothing} : HandleByWords(c, x, k)  BY <2>1
    <3> DEFINE b == Begun(c, x, k)
               q == Routed(b, Route[x], "words")
    <3>2. IsCall(b)  BY BegunOK DEF CallOK
    <3>3. call' = [call EXCEPT ![c] = q]  BY <3>1 DEF HandleByWords
    <3> HIDE DEF b
    <3>4. q.at \in {"finishing", "executing", "reading"}  BY <3>2, RoutedFields
    <3> QED  BY <3>3, <3>4 DEF Waiting
  <2>2. CASE Commit(c) \/ Replay(c) \/ ReadReturns(c)
    <3>1. \E did, told : call' = [call EXCEPT ![c] = Telling([r EXCEPT !.did = did], told)]
      BY <2>2 DEF Commit, Replay, ReadReturns
    <3> QED  BY <1>4, <3>1
  <2>3. CASE Refuse(c) \/ ReadFails(c) \/ PersistFails(c)
    <3>1. \E told : call' = [call EXCEPT ![c] = Telling(r, told)]
      BY <2>3 DEF Refuse, ReadFails, PersistFails, AfterPersistFailure
    <3> QED  BY <1>4, <3>1
  <2>4. CASE Answer(c)
    <3>1. call' = [call EXCEPT ![c] = [r EXCEPT !.at = "answered"]]  BY <2>4 DEF Answer
    <3>2. ~Waiting([r EXCEPT !.at = "answered"])  BY <1>1 DEF Waiting, IsCall, NewCall
    <3> QED  BY <3>1, <3>2
  <2> QED  BY <2>1, <2>2, <2>3, <2>4
<1> QED  BY <1>2, <1>3, <1>5, UnlinkedChanges

\* Whatever the model answers, and whatever its provider does, its run is under
\* way or ended.
UnderWay(r) == DOMAIN r = DOMAIN Idle /\ r.at # "idle"

LEMMA EndedUnderWay ==
    ASSUME NEW r, UnderWay(r)
    PROVE  \A result, x : /\ UnderWay(Ended(r, result))
                          /\ UnderWay([Ended(r, result) EXCEPT !.asInstructed = x])
                          /\ UnderWay([Ended(r, result) EXCEPT !.decision = x])
BY DEF Ended, UnderWay, Idle

LEMMA NextTurnUnderWay ==
    ASSUME NEW r, UnderWay(r)
    PROVE  UnderWay(NextTurn(r))
BY EndedUnderWay DEF NextTurn, UnderWay, Idle

LEMMA FieldsUnderWay ==
    ASSUME NEW r, UnderWay(r), NEW x, NEW y
    PROVE  /\ UnderWay([r EXCEPT !.asInstructed = x, !.tools = y])
           /\ UnderWay([r EXCEPT !.asInstructed = x, !.output = y])
           /\ UnderWay([r EXCEPT !.agent = x, !.handedOff = y])
BY DEF UnderWay, Idle

LEMMA AnswersGoOn ==
    ASSUME Inv, NEW c \in Call, ModelStep(c) \/ RunTimesOut(c)
    PROVE  /\ run[c].at = "model"
           /\ \E q : UnderWay(q) /\ run' = [run EXCEPT ![c] = q]
<1> DEFINE r == run[c]
           Goes == \E q : UnderWay(q) /\ run' = [run EXCEPT ![c] = q]
<1>1. r.at = "model"
  BY DEF ModelStep, RunTimesOut, ModelAnswers, ProviderFails, TimesOut, Classifies, HandsOff,
         CallsTool, Concludes, TriageConcludes, Misbehaves, Routing, Triage, Reviews, Asked
<1>2. UnderWay(r)  BY <1>1 DEF Inv, RunOK, UnderWay
<1>3. ASSUME NEW d \in ModelDecisions, Classifies(c, d)  PROVE Goes
  <2>1. run' = [run EXCEPT ![c] = [Ended(r, "decided") EXCEPT !.decision = d]]
    BY <1>3 DEF Classifies, Inv
  <2> HIDE DEF r
  <2> QED  BY <1>2, <2>1, EndedUnderWay
<1>4. ASSUME NEW s \in Specialist, HandsOff(c, s)  PROVE Goes
  <2>1. \/ run' = [run EXCEPT ![c] = NextTurn([r EXCEPT !.agent = s, !.handedOff = TRUE])]
        \/ run' = [run EXCEPT ![c] = [Ended(r, "structure") EXCEPT !.asInstructed = FALSE]]
    BY <1>4 DEF HandsOff, Inv
  <2> HIDE DEF r
  <2> QED  BY <1>2, <2>1, NextTurnUnderWay, EndedUnderWay, FieldsUnderWay
<1>5. ASSUME NEW s \in Specialist, NEW arguments \in BOOLEAN, CallsTool(c, s, arguments)
      PROVE  Goes
  <2>1. \E x, y : LET q == [r EXCEPT !.asInstructed = x, !.tools = y]
                  IN  \/ run' = [run EXCEPT ![c] = Ended(q, "structure")]
                      \/ run' = [run EXCEPT ![c] = Ended(q, "guardrail")]
                      \/ run' = [run EXCEPT ![c] = NextTurn(q)]
    BY <1>5 DEF CallsTool, AfterToolCall, Inv
  <2> HIDE DEF r
  <2> QED  BY <1>2, <2>1, NextTurnUnderWay, EndedUnderWay, FieldsUnderWay
<1>6. ASSUME NEW o \in Output, Concludes(c, o)  PROVE Goes
  <2>1. \E x, y : LET q == [r EXCEPT !.asInstructed = x, !.output = y]
                  IN  \/ run' = [run EXCEPT ![c] = Ended(q, "guardrail")]
                      \/ run' = [run EXCEPT ![c] = Ended(q, "accepted")]
                      \/ run' = [run EXCEPT ![c] = Ended(q, "handoff")]
    BY <1>6 DEF Concludes, AfterConclusion, Inv
  <2> HIDE DEF r
  <2> QED  BY <1>2, <2>1, EndedUnderWay, FieldsUnderWay
<1>7. ASSUME TriageConcludes(c) \/ Misbehaves(c)  PROVE Goes
  <2>1. \E result :
           run' = [run EXCEPT ![c] = [Ended(r, result) EXCEPT !.asInstructed = FALSE]]
    BY <1>7 DEF TriageConcludes, Misbehaves, Inv
  <2> HIDE DEF r
  <2> QED  BY <1>2, <2>1, EndedUnderWay
<1>8. ASSUME ProviderFails(c) \/ TimesOut(c)  PROVE Goes
  <2>1. \E result : run' = [run EXCEPT ![c] = Ended(r, result)]
    BY <1>8 DEF ProviderFails, TimesOut, Ends, Inv
  <2> HIDE DEF r
  <2> QED  BY <1>2, <2>1, EndedUnderWay
<1>9. Goes
  BY <1>3, <1>4, <1>5, <1>6, <1>7, <1>8 DEF ModelStep, ModelAnswers, RunTimesOut
<1> QED  BY <1>1, <1>9

\* The steps of a run: its call waits for it, and goes on to wait.
LEMMA RunStepLinked ==
    ASSUME Inv, Linked, NEW c \in Call, ModelStep(c) \/ RunTimesOut(c)
    PROVE  Linked'
<1>1. PICK r : UnderWay(r) /\ run' = [run EXCEPT ![c] = r]  BY AnswersGoOn
<1>2. UNCHANGED call  BY DEF ModelStep, RunTimesOut
<1>3. Waiting(call[c])  BY AnswersGoOn DEF Linked
<1>4. run'[c].at # "idle" /\ \A e \in Call \ {c} : run'[e] = run[e]
  BY <1>1 DEF Inv, UnderWay
<1>5. ASSUME NEW e \in Call
      PROVE  /\ Waiting(call'[e]) => run'[e].at # "idle"
             /\ run'[e].at = "model" => Waiting(call'[e])
  BY <1>2, <1>3, <1>4, <1>5 DEF Linked
<1> QED  BY <1>5 DEF Linked, Waiting

LEMMA StepLinked == Inv /\ Linked /\ [Next]_vars => Linked'
<1> SUFFICES ASSUME Inv, Linked, [Next]_vars PROVE Linked'  OBVIOUS
<1>1. ASSUME NEW c \in Call,
             \/ \E x \in Text, k \in Key \cup {Nothing} : HandleByModel(c, x, k)
             \/ \E q \in Review : Consult(c, q)
             \/ RouteReturns(c) \/ ReviewReturns(c) \/ Cancel(c)
      PROVE  Linked'
  BY <1>1, BoundStepLinked
<1>2. ASSUME NEW c \in Call,
             \/ \E x \in Text, k \in Key \cup {Nothing} : HandleByWords(c, x, k)
             \/ Commit(c) \/ Replay(c) \/ Refuse(c) \/ ReadReturns(c) \/ ReadFails(c)
             \/ PersistFails(c) \/ Answer(c)
      PROVE  Linked'
  BY <1>2, FreeStepLinked
<1>3. ASSUME NEW c \in Call, ModelStep(c) \/ RunTimesOut(c)
      PROVE  Linked'
  BY <1>3, RunStepLinked
<1>4. UNCHANGED vars => Linked'  BY DEF vars, Linked, Waiting
<1> QED  BY <1>1, <1>2, <1>3, <1>4 DEF Next, Proceed, Over

\* The settings of a process are those it was started with.
Settled == threshold \in Thresholds /\ provider \in {"off", "ready", "incomplete"}

LEMMA SettledHolds == Spec => []Settled
<1>1. Init => Settled  BY DEF Init, Settled
<1>2. [Next]_vars => UNCHANGED <<threshold, provider>>
  BY DEF Next, vars, HandleByWords, HandleByModel, Consult, ModelStep, RunTimesOut, Proceed,
         RouteReturns, Commit, Replay, Refuse, ReadReturns, ReadFails, Answer, ReviewReturns,
         PersistFails, Cancel, Over
<1>3. Settled /\ [Next]_vars => Settled'  BY <1>2 DEF Settled
<1> QED  BY <1>1, <1>3, PTL DEF Spec

LEMMA LinkedHolds == Spec => []Linked
<1>1. Init => Linked
  <2>1. NewCall.at = "new" /\ Idle.at = "idle"  BY DEF NewCall, Idle
  <2> QED  BY <2>1 DEF Init, RunsInit, Linked, Waiting
<1> QED  BY <1>1, StepLinked, Safety, PTL DEF Spec

\* Every variable keeps its shape, a call waits for a run if and only if it has
\* one, and what a call did is on record.
THEOREM RoutingTypeCorrect == Spec => []TypeOK
<1>1. Settled /\ Retried /\ RunsSound /\ Linked => TypeOK
  <2> SUFFICES ASSUME Settled, Retried, RunsSound, Linked PROVE TypeOK  OBVIOUS
  <2>1. RunsTyped
    BY DEF RunsSound, RunRecord, RunsTyped
  <2>2. ASSUME NEW c \in Call
        PROVE  /\ call[c].at \in {"new", "routing", "executing", "reading", "finishing",
                                  "consulting", "answered", "gone"}
               /\ call[c].did \in {"nothing", "operation", "replay", "reading"}
               /\ call[c].told \in {"nothing", "result", "question", "advice"}
               /\ At(c, "executing") => call[c].decision.intent \in Mutating
               /\ call[c].did \in {"operation", "replay"} =>
                    /\ call[c].key \in DOMAIN records
                    /\ records[call[c].key] = OperationOf(call[c].decision)
    BY <2>2 DEF Retried, CallSound, Shaped, OnRecord, At
  <2>3. ASSUME NEW c \in Call
        PROVE  /\ At(c, "routing") \/ At(c, "consulting") => run[c].at # "idle"
               /\ run[c].at = "model" => At(c, "routing") \/ At(c, "consulting")
    BY <2>3 DEF Linked, Waiting, At
  <2> QED  BY <2>1, <2>2, <2>3 DEF TypeOK, Settled, Retried
<1> QED  BY <1>1, SettledHolds, RetriedHolds, RunsHold, LinkedHolds, PTL
=============================================================================
