--------------------------- MODULE MCRequestRouting ---------------------------
(* An instance of RequestRouting: two calls and one key.                    *)
EXTENDS RequestRouting, TLC

CONSTANTS c1, c2, k1, ann, bob, five, nine, minus, much, nothing

Say(form, verb, tokens) == [form |-> form, verb |-> verb, tokens |-> tokens, padded |-> FALSE]
Of(field, value) == [field |-> field, value |-> value]

TransferOf(amount) == <<Of("sender_id", ann), Of("receiver_id", bob), Of("amount", amount)>>

\* A transfer, one with its amount given twice, one of an amount that is no
\* number, one in words, one that does not fit the pattern, one with blanks
\* around it; and a read.
Texts ==
    {Say("command", "transferMoney", TransferOf(five)),
     Say("command", "transferMoney", Append(TransferOf(five), Of("amount", nine))),
     Say("command", "transferMoney", TransferOf(much)),
     Say("sentence", "transferMoney", TransferOf(nine)),
     Say("prefix", "transferMoney", <<>>),
     [Say("command", "transferMoney", TransferOf(five)) EXCEPT !.padded = TRUE],
     Say("command", "securityReview", <<>>)}

Transfer(amount) == ("sender_id" :> ann) @@ ("receiver_id" :> bob) @@ ("amount" :> amount)

\* What the model makes of any of them: a transfer, one of another amount, one
\* it is not sure of, one of a negative amount, two reads, of which one is
\* less sure than the settings demand, and an unknown intent with parameters,
\* which is not valid.
Decisions ==
    {Clear("transferMoney", Transfer(five), 95),
     Clear("transferMoney", Transfer(nine), 100),
     Clear("transferMoney", Transfer(five), 70),
     Clear("transferMoney", Transfer(minus), 100),
     Clear("securityReview", "transaction_id" :> nothing, 85),
     Clear("explainLastAction", NoParameters, 100),
     Clear("unknown", "user_id" :> ann, 50)}

\* What is remarkable in facts matters only by who refuses it: nobody, the
\* context, the tool, and the final validation.
ReviewsAsked ==
    {[intent |-> "fraudCheck", facts |-> f, phoneLikeId |-> FALSE] :
        f \in {"plain", "phone", "instruction", "executed", "embedded"}}
      \cup {[intent |-> "securityReview", facts |-> "plain", phoneLikeId |-> TRUE]}
=============================================================================
