---------------------------- MODULE RequestRouting ----------------------------
(***************************************************************************)
(* From a request to its answer: OrchestratorAgent.handle over either      *)
(* router, and run_specialist beside it, by several callers at a time.     *)
(* The routing, its fallbacks and guardrails are those of CommandRouting,  *)
(* the language model is reached through ModelRuns; what the payment       *)
(* domain makes of an operation is its idempotency record (PaymentLedger)  *)
(* or a refusal, and the memory and its persistence are AgentTurns.        *)
(***************************************************************************)
EXTENDS CommandRouting, FiniteSets

CONSTANTS Call,              \* calls of handle or run_specialist
          Key,               \* keys callers bring
          Text,              \* what they may write
          Review,            \* what they may ask a specialist run for
          ModelDecisions,    \* what a language model may make of a text
          Thresholds         \* configured confidence thresholds, in percent

ASSUME RoutingAssumption ==
    /\ \A x \in Text : IsText(x) /\ x.tokens \in Seq([field : STRING, value : Value])
    /\ Thresholds \subseteq 0..100
    /\ Call \cap Key = {}
    /\ Nothing \notin Call \cup Key

VARIABLES
    threshold, provider,    \* Settings, and whether the provider's are complete
    records,                \* the idempotency records: key -> operation
    call,                   \* the local variables of each call
    run                     \* its run of the model, if any

vars == <<threshold, provider, records, call, run>>

NoDecision == Unclear("unknown", NoParameters, 0)

INSTANCE ModelRuns WITH NoModelDecision <- NoDecision

ASSUME ReviewAssumption == Review \subseteq Request

NoText == [form |-> "other", verb |-> "checkBalance", tokens |-> <<>>, padded |-> FALSE]

NewCall == [at |-> "new", text |-> NoText, brought |-> Nothing, key |-> Nothing,
            by |-> "nobody", decision |-> NoDecision, did |-> "nothing",
            told |-> "nothing", retry |-> FALSE]

\* The settings: no provider, one that is ready, or one that is enabled and
\* cannot be built, for want of a key.
Init ==
    /\ threshold \in Thresholds
    /\ provider \in {"off", "ready", "incomplete"}
    /\ records = [k \in {} |-> k]
    /\ call = [c \in Call |-> NewCall]
    /\ RunsInit

-----------------------------------------------------------------------------
At(c, place) == call[c].at = place

OperationOf(d) == [intent |-> d.intent, parameters |-> d.parameters]

\* Without a key from the caller the turn has its own.
OwnKey(c, k) == c    \* mutant: the caller's key is not passed on
KeyOf(c, k) == IF k = Nothing THEN c ELSE k

\* What the words of each text say.
Route == [x \in Text |-> DeterministicRoute(x)]

\* The answer is decided; the memory is persisted, then the outbox flushed.
Telling(now, told) == [now EXCEPT !.at = "finishing", !.told = told]

\* handle with a decision: the route is remembered, which a padded text does
\* not pass; then what the decision calls for.  The words a model understood
\* are not looked at again.
Routed(now, d, by) ==
    LET routed == [now EXCEPT !.decision = d, !.by = by,
                              !.text = IF by = "words" THEN now.text ELSE NoText]
    IN  IF now.text.padded THEN Telling(routed, "advice")
        ELSE CASE Disposition(d, threshold) = "ask"    -> Telling(routed, "question")
               [] Disposition(d, threshold) = "advise" -> Telling(routed, "advice")
               [] OTHER -> [routed EXCEPT !.at = IF d.intent \in Mutating THEN "executing"
                                                 ELSE "reading"]

-----------------------------------------------------------------------------
(* handle.                                                                 *)

\* Somebody brought the same words under the same key before, they were
\* understood without a model, and what they say was done: this is a retry.
IsRetry(x, k) ==
    /\ k # Nothing
    /\ \E e \in Call : /\ call[e].text = x /\ call[e].brought = k /\ call[e].by = "words"
                       /\ call[e].did \in {"operation", "replay"}

Begun(c, x, k) == [NewCall EXCEPT !.at = "routing", !.text = x, !.brought = k,
                                  !.key = KeyOf(c, k), !.retry = IsRetry(x, k)]

\* The deterministic router, alone or since no model can be built, answers
\* without suspending.
HandleByWords(c, x, k) ==
    /\ At(c, "new") /\ provider # "ready"
    /\ call' = [call EXCEPT ![c] = Routed(Begun(c, x, k), Route[x], "words")]
    /\ UNCHANGED <<threshold, provider, records, run>>

HandleByModel(c, x, k) ==
    /\ At(c, "new") /\ provider = "ready"
    /\ call' = [call EXCEPT ![c] = Begun(c, x, k)]
    /\ StartRouting(c)
    /\ UNCHANGED <<threshold, provider, records>>

RunEnded(c) == run[c].at = "ended"
Trusts(c) == run[c].result = "decided" /\ ValidDecision(run[c].decision)

\* The model's decision, or, after any failure of the run and if the decision
\* does not pass its validation, what the words say.
RouteReturns(c) ==
    /\ At(c, "routing") /\ RunEnded(c)
    /\ call' = [call EXCEPT ![c] =
                  IF Trusts(c) THEN Routed(@, run[c].decision, "model")
                  ELSE Routed(@, Route[@.text], "words")]
    /\ run' = [run EXCEPT ![c] = Idle]
    /\ UNCHANGED <<threshold, provider, records>>

\* The tool commits its operation under the key.
Commit(c) ==
    /\ At(c, "executing")
    /\ call[c].key \notin DOMAIN records
    /\ records' = [k \in DOMAIN records \cup {call[c].key} |->
                     IF k = call[c].key THEN OperationOf(call[c].decision) ELSE records[k]]
    /\ call' = [call EXCEPT ![c] = Telling([@ EXCEPT !.did = "operation"], "result")]
    /\ UNCHANGED <<threshold, provider, run>>

\* A record of the same operation answers in its place.
Replay(c) ==
    /\ At(c, "executing")
    /\ call[c].key \in DOMAIN records
    /\ records[call[c].key] = OperationOf(call[c].decision)
    /\ call' = [call EXCEPT ![c] = Telling([@ EXCEPT !.did = "replay"], "result")]
    /\ UNCHANGED <<threshold, provider, records, run>>

\* The key is taken by another operation, or a rule of the domain refuses.
Refuse(c) ==
    /\ At(c, "executing")
    /\ call[c].key \in DOMAIN records => records[call[c].key] # OperationOf(call[c].decision)
    /\ call' = [call EXCEPT ![c] = Telling(@, "advice")]
    /\ UNCHANGED <<threshold, provider, records, run>>

\* A read-only tool returns a result, and the critic reviews it.
ReadReturns(c) ==
    /\ At(c, "reading")
    /\ \E r \in ReadResults(call[c].decision.intent) :
          call' = [call EXCEPT ![c] =
                     Telling([@ EXCEPT !.did = "reading"],
                             IF CriticApproves(r) THEN "result" ELSE "question")]
    /\ UNCHANGED <<threshold, provider, records, run>>

\* What it should read does not exist.
ReadFails(c) ==
    /\ At(c, "reading")
    /\ call' = [call EXCEPT ![c] = Telling(@, "advice")]
    /\ UNCHANGED <<threshold, provider, records, run>>

AlwaysReflected(now) == Telling(now, "advice")    \* mutant: also after a commit

\* The memory cannot be persisted: the failure is reflected on, unless an
\* operation was done or the turn is being reflected on already.
AfterPersistFailure(now) ==
    IF now.did \in {"operation", "replay"} THEN Telling(now, now.told) ELSE Telling(now, "advice")

PersistFails(c) ==
    /\ At(c, "finishing")
    /\ call' = [call EXCEPT ![c] = AfterPersistFailure(@)]
    /\ UNCHANGED <<threshold, provider, records, run>>

Answer(c) ==
    /\ At(c, "finishing")
    /\ call' = [call EXCEPT ![c].at = "answered"]
    /\ UNCHANGED <<threshold, provider, records, run>>

-----------------------------------------------------------------------------
(* run_specialist, which nothing in src/ calls.                            *)

\* The context is made, then the agents, and the triage is asked.
Consult(c, q) ==
    /\ At(c, "new")
    /\ IF ContextAccepts(q.facts) /\ provider = "ready"
       THEN /\ call' = [call EXCEPT ![c].at = "consulting"]
            /\ StartReview(c, q)
       ELSE /\ call' = [call EXCEPT ![c].at = "answered"]
            /\ UNCHANGED run
    /\ UNCHANGED <<threshold, provider, records>>

ReviewReturns(c) ==
    /\ At(c, "consulting") /\ RunEnded(c)
    /\ call' = [call EXCEPT ![c].at = "answered"]
    /\ run' = [run EXCEPT ![c] = Idle]
    /\ UNCHANGED <<threshold, provider, records>>

\* A step of the run of a call that waits for it.
ModelStep(c) ==
    /\ ModelAnswers(c) \/ ProviderFails(c)
    /\ UNCHANGED <<threshold, provider, records, call>>

RunTimesOut(c) ==
    /\ TimesOut(c)
    /\ UNCHANGED <<threshold, provider, records, call>>

CancelKeepsRun(c) ==    \* mutant: the run goes on when its caller is gone
    /\ call[c].at \notin {"new", "answered", "gone"}
    /\ call' = [call EXCEPT ![c].at = "gone"]
    /\ UNCHANGED <<threshold, provider, records, run>>

\* The caller gives up: the call is cancelled where it waits, its run with it.
Cancel(c) ==
    /\ call[c].at \notin {"new", "answered", "gone"}
    /\ call' = [call EXCEPT ![c].at = "gone"]
    /\ run' = [run EXCEPT ![c] = Idle]
    /\ UNCHANGED <<threshold, provider, records>>

\* What the code does by itself once it is called.
Proceed(c) ==
    \/ RouteReturns(c)
    \/ Commit(c) \/ Replay(c) \/ Refuse(c)
    \/ ReadReturns(c) \/ ReadFails(c)
    \/ Answer(c) \/ ReviewReturns(c)

Over == (\A c \in Call : call[c].at \in {"answered", "gone"}) /\ UNCHANGED vars

Next ==
    \/ \E c \in Call :
          \/ \E x \in Text, k \in Key \cup {Nothing} : HandleByWords(c, x, k) \/ HandleByModel(c, x, k)
          \/ \E q \in Review : Consult(c, q)
          \/ ModelStep(c) \/ RunTimesOut(c) \/ Proceed(c) \/ PersistFails(c) \/ Cancel(c)
    \/ Over

Spec == Init /\ [][Next]_vars

\* A ready task runs and the timer of wait_for fires; nothing is assumed of the
\* model and its provider, that may never answer.
Fairness ==
    \A c \in Call : /\ WF_vars(Proceed(c))
                    /\ WF_vars(RunTimesOut(c))

FairSpec == Spec /\ Fairness

-----------------------------------------------------------------------------
Operations == {OperationOf(d) : d \in ModelDecisions \cup {Route[x] : x \in Text}}

\* Every variable has its shape; a call waits for a run if and only if it has
\* one, and only a decision that was acted on is recorded.
TypeOK ==
    /\ threshold \in Thresholds /\ provider \in {"off", "ready", "incomplete"}
    /\ DOMAIN records \subseteq Key \cup Call
    /\ \A k \in DOMAIN records : records[k] \in Operations
    /\ RunsTyped
    /\ \A c \in Call :
          /\ call[c].at \in {"new", "routing", "executing", "reading", "finishing",
                             "consulting", "answered", "gone"}
          /\ call[c].did \in {"nothing", "operation", "replay", "reading"}
          /\ call[c].told \in {"nothing", "result", "question", "advice"}
          /\ At(c, "routing") \/ At(c, "consulting") => run[c].at # "idle"
          /\ run[c].at = "model" => At(c, "routing") \/ At(c, "consulting")
          /\ At(c, "executing") => call[c].decision.intent \in Mutating
          /\ call[c].did \in {"operation", "replay"} =>
               /\ call[c].key \in DOMAIN records
               /\ records[call[c].key] = OperationOf(call[c].decision)

\* Without a model, or when it failed, timed out or returned nonsense, only
\* what the words say in full is done: no part of a malformed command, no
\* number that is none, nothing guessed (docs/agent_flows.md:77-84).
OnlyWordsAreDone ==
    \A c \in Call :
        call[c].by = "words" /\ call[c].did # "nothing" =>
            Says(call[c].text, call[c].decision.intent, call[c].decision.parameters)

\* Who repeats a request that was done, under the same key and in the same
\* words, gets its result: whatever he was told the first time, and whatever
\* others do in between.  It takes a router that says the same twice: after a
\* model has understood one of the two, the retry may be another operation,
\* which conflicts with the first.
RetriesAreReplayed ==
    \A c \in Call :
        At(c, "answered") /\ call[c].retry /\ call[c].by = "words" =>
            call[c].did = "replay" /\ call[c].told = "result"

\* A call is open until its tool is through, and over when it was answered or
\* cancelled; run_specialist does nothing.
Progress(c) ==
    CASE call[c].at \in {"answered", "gone"} /\ call[c].key # Nothing -> "over"
      [] call[c].at \notin {"answered", "gone"} /\ call[c].did \in {"operation", "replay"} -> "done"
      [] call[c].at \notin {"answered", "gone"} /\ call[c].did = "reading" -> "read"
      [] OTHER -> "open"

Contracted ==
    INSTANCE TurnContract WITH
        Turn <- Call, Key <- Key \cup Call, Operation <- Operations,
        done <- records, at <- [c \in Call |-> Progress(c)],
        told <- [c \in Call |-> IF At(c, "answered") THEN call[c].told ELSE "nothing"]

\* The turns keep their contract: one thing is done at most, and the answer
\* says whether it was (docs/agent_flows.md:94-98).
ImplementsTurnContract == Contracted!Spec

\* Every call ends, although the model may never answer.
EveryCallEnds == \A c \in Call : ~At(c, "new") ~> At(c, "answered") \/ At(c, "gone")
=============================================================================
