---------------------------- MODULE CommandRouting ----------------------------
(***************************************************************************)
(* What a request is taken to ask for, and whether it may be done: the     *)
(* deterministic RouterAgent, the RouterDecision both routers return, the  *)
(* commands the orchestrator builds from it, the guardrails around a tool  *)
(* and the critic of its result.  All of it is pure: no state.             *)
(*                                                                         *)
(* A text is what shlex and the two sentence patterns make of it: its      *)
(* form, the command it names and its key=value tokens.  Hebrew and        *)
(* English, and the aliases of a field, are the same text.                 *)
(***************************************************************************)
EXTENDS Integers, Sequences

CONSTANTS Value,     \* what a field can be given
          Decimal,   \* the values that are written as a decimal number
          Money,     \* those a command accepts as an amount
          Nothing    \* the empty value of a token, and None

ASSUME ValuesAssumption == Money \subseteq Decimal /\ Decimal \subseteq Value
                             /\ Nothing \in Value \ Decimal

\* The exact parameters of each supported intent.
Contract ==
    [createUser        |-> {"name", "phone_number", "initial_balance"},
     checkBalance      |-> {"user_id"},
     transferMoney     |-> {"sender_id", "receiver_id", "amount"},
     requestPayment    |-> {"requester_id", "payer_id", "amount"},
     approvePayment    |-> {"request_id"},
     rejectPayment     |-> {"request_id"},
     showTransactions  |-> {"user_id"},
     fraudCheck        |-> {"transaction_id"},
     securityReview    |-> {"transaction_id"},
     explainLastAction |-> {}]

Intent == DOMAIN Contract \cup {"unknown"}

Mutating == {"createUser", "transferMoney", "requestPayment", "approvePayment",
             "rejectPayment"}

MoneyFields == {"amount", "initial_balance"}
Optional(intent) == IF intent = "securityReview" THEN {"transaction_id"} ELSE {}

-----------------------------------------------------------------------------
(* RouterAgent.                                                            *)

Token == [field : STRING, value : Value]    \* "?": a token that has no "="

\* A command is named with its tokens; a sentence is a transfer in words that
\* match the pattern, which gives each field once; a prefix only begins like
\* one.  A padded text has blanks around it.
IsText(x) ==
    /\ x.form \in {"command", "sentence", "prefix", "other"}
    /\ x.verb \in DOMAIN Contract
    /\ x.form = "sentence" =>
         /\ x.verb = "transferMoney"
         /\ \A i, j \in DOMAIN x.tokens : x.tokens[i].field = x.tokens[j].field => i = j
         /\ \A i \in DOMAIN x.tokens : x.tokens[i].field \in Contract[x.verb]
    /\ x.padded \in BOOLEAN

Usable(x, i) ==
    /\ x.tokens[i].field \in Contract[x.verb]
    /\ x.tokens[i].value # Nothing
    /\ x.tokens[i].field \in MoneyFields => x.tokens[i].value \in Decimal

\* The first usable token of a field gives its value.
Gives(x, i, f) ==
    /\ Usable(x, i) /\ x.tokens[i].field = f
    /\ \A h \in 1..i-1 : ~(Usable(x, h) /\ x.tokens[h].field = f)

Given(x) == {f \in Contract[x.verb] : \E i \in DOMAIN x.tokens : Gives(x, i, f)}

\* What is not used is malformed: an unknown or empty token, a number that is
\* none, a field given again.
MalformedUnlessUnusable(x) ==    \* mutant: a field given again is overlooked
    \E i \in DOMAIN x.tokens : ~Usable(x, i)

Malformed(x) == \E i \in DOMAIN x.tokens : ~Gives(x, i, x.tokens[i].field)

\* A security review of everything has no transaction.
Parsed(x) ==
    [f \in Given(x) \cup Optional(x.verb) |->
       IF f \in Given(x)
       THEN x.tokens[CHOOSE i \in DOMAIN x.tokens : Gives(x, i, f)].value
       ELSE Nothing]

NoParameters == [f \in {} |-> Nothing]

Clear(intent, parameters, confidence) ==
    [intent |-> intent, parameters |-> parameters, confidence |-> confidence,
     asks |-> FALSE]
Unclear(intent, parameters, confidence) ==
    [intent |-> intent, parameters |-> parameters, confidence |-> confidence,
     asks |-> TRUE]

Canonical(x) ==
    IF Malformed(x) \/ DOMAIN Parsed(x) # Contract[x.verb]
    THEN Unclear(x.verb, Parsed(x), 60)
    ELSE Clear(x.verb, Parsed(x), 100)

NaturalTransfer(x) ==
    IF "amount" \in Given(x) THEN Clear("transferMoney", Parsed(x), 90)
                             ELSE Unclear("transferMoney", Parsed(x), 60)

DeterministicRoute(x) ==
    CASE x.form = "sentence" -> NaturalTransfer(x)
      [] x.form = "command"  -> Canonical(x)
      [] x.form = "prefix"   -> Unclear("transferMoney", NoParameters, 60)
      [] x.form = "other"    -> Unclear("unknown", NoParameters, 0)

-----------------------------------------------------------------------------
(* RouterDecision, the command and the guardrails before the tool.         *)

\* RouterDecision._validate_consistency: what its validators let through.
ValidDecision(d) ==
    /\ d.intent \in Intent
    /\ d.confidence \in 0..100
    /\ d.intent = "unknown" =>
         DOMAIN d.parameters \cap UNION {Contract[i] : i \in DOMAIN Contract} = {}

\* _build_command and the checks of the command it builds: exactly the
\* parameters of the contract, amounts that are amounts, texts that are not
\* empty.
Builds(d) ==
    /\ DOMAIN d.parameters = Contract[d.intent]
    /\ \A f \in DOMAIN d.parameters :
          IF f \in MoneyFields THEN d.parameters[f] \in Money
          ELSE d.parameters[f] # Nothing \/ f \in Optional(d.intent)

\* ToolGuardrails.validate_before_execution.
MayExecute(d, threshold) ==
    /\ d.intent # "unknown" /\ ~d.asks
    /\ d.confidence >= threshold
    /\ DOMAIN d.parameters = Contract[d.intent]

\* FallbackAgent.handle_low_confidence raises from here on.
FallbackLimit == 80

\* What handle does with a decision before it runs a tool: ask the user, have
\* the failure reflected on, or run the tool of the intent.
Disposition(d, threshold) ==
    CASE d.intent = "unknown" \/ d.asks -> "ask"
      [] d.intent # "unknown" /\ ~d.asks /\ d.confidence < threshold ->
           IF d.confidence < FallbackLimit THEN "ask" ELSE "advise"
      [] OTHER -> IF Builds(d) /\ MayExecute(d, threshold) THEN "run" ELSE "advise"

-----------------------------------------------------------------------------
(* The result of a read-only tool and its critic.                          *)

\* What the facade returns for a read: a fraud check may find a high risk, a
\* security review may not approve, an explanation has its own confidence.
ReadResults(intent) ==
    [intent : {intent},
     confidence : IF intent = "explainLastAction" THEN {60, 75, 95} ELSE {100},
     bad : IF intent \in {"fraudCheck", "securityReview"} THEN BOOLEAN ELSE {FALSE}]

\* CriticAgent.review of a result of the right type that is not empty.
Quality(r) == 5 - (IF r.confidence < 50 THEN 2 ELSE 0) - (IF r.bad THEN 1 ELSE 0)

CriticApproves(r) == Quality(r) > 2

-----------------------------------------------------------------------------
\* The words alone say it: one token for each parameter and no other, none of
\* them empty, the amounts written as numbers.  Stated without the parser.
Says(x, intent, parameters) ==
    /\ x.form \in {"command", "sentence"}
    /\ x.verb = intent
    /\ DOMAIN parameters = Contract[intent]
    /\ \A i, j \in DOMAIN x.tokens : x.tokens[i].field = x.tokens[j].field => i = j
    /\ \A i \in DOMAIN x.tokens : x.tokens[i].field \in Contract[intent]
    /\ \A f \in Contract[intent] :
          \/ \E i \in DOMAIN x.tokens :
                x.tokens[i] = [field |-> f, value |-> parameters[f]]
          \/ f \in Optional(intent) /\ parameters[f] = Nothing
=============================================================================
