------------------------------ MODULE ModelRuns ------------------------------
(***************************************************************************)
(* The runs OpenAIAgentsRuntime makes of a language model: a router run,   *)
(* which classifies a request, and a specialist run, in which a triage     *)
(* agent hands off to one of three read-only specialists, whose tool       *)
(* returns the facts the caller authorized.                                *)
(*                                                                         *)
(* The model is not modelled: whenever it is asked it may answer anything, *)
(* as it was instructed to or not, or never.  What is modelled is what the *)
(* SDK and the code around it make of its answers: turns, handoffs, tools, *)
(* guardrails, the timer of asyncio.wait_for and the final validation.     *)
(***************************************************************************)
EXTENDS Integers

CONSTANTS Call,    \* the calls that may ask for a run, one each
          NoModelDecision,
          ModelDecisions    \* what a router run may conclude: RouterDecisions

VARIABLE run    \* the run of each call

\* Each intent of a specialist run has its specialist, named after it, whose
\* one tool is named after it too.
Specialist == {"fraudCheck", "securityReview", "explainLastAction"}

\* What the caller of run_specialist authorizes, by what is remarkable in it:
\* a number that reads like a phone number, an amount that is a float, an
\* instruction to pay, a time that is not in one of the usual fields, more
\* than 20 000 characters, the status of an executed operation, an identifier
\* or an amount that is only a part of a longer text.
Facts == {"plain", "phone", "float", "instruction", "odd time", "long", "executed",
          "embedded"}

\* SDKReadOnlyContext: what it refuses.
ContextAccepts(facts) == facts \notin {"phone", "float"}

\* _validate_tool_output refuses more than that, and looks at the correlation
\* id too, that the tool returns with the facts.
ToolReturns(q) ==
    /\ ContextAccepts(q.facts)
    /\ q.facts \notin {"instruction", "odd time", "long"}
    /\ ~q.phoneLikeId

\* A request is an intent, the facts, and whether the correlation id contains
\* 7 to 15 digits with only separators between them.
Request == [intent : Specialist, facts : Facts, phoneLikeId : BOOLEAN]
NoRequest == [intent |-> "none", facts |-> "plain", phoneLikeId |-> FALSE]

\* What a specialist says: who it says it is, and whether it keeps to what the
\* facts are, or names an identifier or amount that none of them is by itself,
\* or describes an operation as executed.
Output == [by : Specialist, says : {"facts", "detail", "execution"}]

MaxTurns == 4

Idle == [at |-> "idle", agent |-> "none", request |-> NoRequest, turns |-> 0,
         handedOff |-> FALSE, tools |-> 0, asInstructed |-> TRUE,
         result |-> "none", decision |-> NoModelDecision, output |-> "none"]

RunsInit == run = [c \in Call |-> Idle]

-----------------------------------------------------------------------------
\* Runner.run: the first turn of the first agent.
StartRouting(c) ==
    run' = [run EXCEPT ![c] = [Idle EXCEPT !.at = "model", !.agent = "router", !.turns = 1]]

StartReview(c, q) ==
    run' = [run EXCEPT ![c] = [Idle EXCEPT !.at = "model", !.agent = "triage", !.turns = 1,
                                           !.request = q]]

Asked(c)   == run[c].at = "model"
Routing(c) == Asked(c) /\ run[c].agent = "router"
Triage(c)  == Asked(c) /\ run[c].agent = "triage"
Reviews(c) == Asked(c) /\ run[c].agent \in Specialist

Ended(r, result) ==
    [r EXCEPT !.at = "ended", !.result = result, !.turns = 0, !.tools = 0]
Ends(c, result)  == run' = [run EXCEPT ![c] = Ended(@, result)]

\* A handoff or a tool call ends a turn; MaxTurnsExceeded ends the run.
OneTurnFewer(r) ==    \* mutant: the last turn is not granted
    IF r.turns + 1 >= MaxTurns THEN Ended(r, "turns") ELSE [r EXCEPT !.turns = @ + 1]

NextTurn(r) ==
    IF r.turns >= MaxTurns THEN Ended(r, "turns") ELSE [r EXCEPT !.turns = @ + 1]

-----------------------------------------------------------------------------
(* A router run.                                                           *)

\* The structured answer of the router, which has no tools and no handoffs.
Classifies(c, d) ==
    /\ Routing(c)
    /\ run' = [run EXCEPT ![c] = [Ended(@, "decided") EXCEPT !.decision = d]]

-----------------------------------------------------------------------------
(* A specialist run.                                                       *)

\* Only the handoff of the allowed intent is enabled; a call of another one is
\* a call of a tool the agent does not have.
HandoffEnabledFor(q, s) == q.intent = s

HandsOff(c, s) ==
    /\ Triage(c)
    /\ run' = [run EXCEPT ![c] =
                 IF HandoffEnabledFor(@.request, s)
                 THEN NextTurn([@ EXCEPT !.agent = s, !.handedOff = TRUE])
                 ELSE [Ended(@, "structure") EXCEPT !.asInstructed = FALSE]]

\* The tool input guardrail: the tool of the context's intent, no arguments.
ToolAllowed(r, s, arguments) == r.request.intent = s /\ ~arguments

\* A tool is called, alone in its turn; its guardrails and _read_facts run
\* without suspending.
AfterToolCall(r, s, arguments) ==
    LET instructed == r.asInstructed /\ s = r.agent /\ ~arguments /\ r.tools < 2
        q == [r EXCEPT !.asInstructed = instructed, !.tools = r.tools + 1]
    IN  IF s # r.agent THEN Ended(q, "structure")
        ELSE IF ToolAllowed(q, s, arguments) /\ ToolReturns(q.request)
        THEN NextTurn(q)
        ELSE Ended(q, "guardrail")

CallsTool(c, s, arguments) ==
    /\ Reviews(c)
    /\ run' = [run EXCEPT ![c] = AfterToolCall(@, s, arguments)]

\* _specialist_output_rejection_reason: another identity, an execution claim,
\* whatever the facts say, or a detail that is not a whole fact.
Rejected(r, o) == o.by # r.request.intent \/ o.says \in {"execution", "detail"}

\* What the facts entitle it to say.
Grounded(q, says) ==
    says = "facts" \/ <<says, q.facts>> \in {<<"execution", "executed">>, <<"detail", "embedded">>}

\* The specialist concludes: its output guardrail, then the validation of what
\* the run returned by run_specialist.
AfterConclusion(r, o) ==
    LET instructed == /\ r.asInstructed /\ r.tools > 0 /\ o.by = r.agent
                      /\ Grounded(r.request, o.says)
        q == [r EXCEPT !.asInstructed = instructed, !.output = o.says]
    IN  IF Rejected(q, o) THEN Ended(q, "guardrail")
        ELSE IF q.handedOff /\ q.agent = q.request.intent THEN Ended(q, "accepted")
        ELSE Ended(q, "handoff")

Concludes(c, o) ==
    /\ Reviews(c)
    /\ run' = [run EXCEPT ![c] = AfterConclusion(@, o)]

\* The triage answers by itself.
TriageConcludes(c) ==
    /\ Triage(c)
    /\ run' = [run EXCEPT ![c] = [Ended(@, "handoff") EXCEPT !.asInstructed = FALSE]]

\* Anything else the model may send is a ModelBehaviorError: an unknown tool,
\* or an output that is not of the schema.
Misbehaves(c) ==
    /\ Asked(c)
    /\ run' = [run EXCEPT ![c] = [Ended(@, "structure") EXCEPT !.asInstructed = FALSE]]

\* The provider cannot be reached or answers with an error.
ProviderFails(c) == Asked(c) /\ Ends(c, "unavailable")

NeverTimesOut(c) == Asked(c) /\ FALSE /\ Ends(c, "timeout")    \* mutant: no wait_for

\* asyncio.wait_for gives up after 30 seconds, whatever is awaited.
TimesOut(c) == Asked(c) /\ Ends(c, "timeout")

ModelAnswers(c) ==
    \/ \E d \in ModelDecisions : Classifies(c, d)
    \/ \E s \in Specialist : HandsOff(c, s)
    \/ \E s \in Specialist, arguments \in BOOLEAN : CallsTool(c, s, arguments)
    \/ \E o \in Output : Concludes(c, o)
    \/ TriageConcludes(c)
    \/ Misbehaves(c)

-----------------------------------------------------------------------------
RunsTyped ==
    run \in [Call -> [at : {"idle", "model", "ended"},
                      agent : {"none", "router", "triage"} \cup Specialist,
                      request : Request \cup {NoRequest}, turns : 0..MaxTurns,
                      handedOff : BOOLEAN, tools : 0..MaxTurns, asInstructed : BOOLEAN,
                      result : {"none", "decided", "accepted", "structure", "guardrail",
                                "handoff", "turns", "unavailable", "timeout"},
                      decision : ModelDecisions \cup {NoModelDecision},
                      output : {"none", "facts", "detail", "execution"}]]

\* A review is accepted only from the specialist of the intent, handed off to,
\* that kept to the facts; and a model that did all it was instructed to
\* (sdk_agents.py:49-83), with up to two calls of its tool, is refused only
\* for the time the provider took, for facts or a correlation id that the
\* context accepted and the tool then would not return (sdk_guardrails.py:103),
\* or for saying what the facts do: that an operation was executed, which the
\* instructions allow (sdk_agents.py:61), or what is in the midst of a text
\* (sdk_guardrails.py:241).
SpecialistVerdicts ==
    \A c \in Call :
        /\ run[c].result = "accepted" =>
             /\ run[c].handedOff /\ run[c].agent = run[c].request.intent
             /\ run[c].output = "facts"
        /\ run[c].result \notin {"none", "decided", "accepted"} /\ run[c].asInstructed =>
             \/ run[c].result \in {"unavailable", "timeout"}
             \/ ContextAccepts(run[c].request.facts) /\ ~ToolReturns(run[c].request)
             \/ run[c].output \in {"execution", "detail"}
=============================================================================
