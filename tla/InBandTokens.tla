----------------------------- MODULE InBandTokens ------------------------------
(***************************************************************************)
(* Step 8 of the pipeline when the approval mode is in_band: the first call is *)
(* answered with a token, and the identical call that carries it goes through  *)
(* (registry.py, and the broker's tokens in approvals.py).  No human is asked.  *)
(*                                                                         *)
(* The broker keeps its tokens in memory: a restart forgets them.  A call is  *)
(* [tool, args, approval, at]; an approval is None or a token, and args are    *)
(* those other than the approval.                                            *)
(***************************************************************************)
EXTENDS Integers, Sequences, Values

CONSTANT Ttl    \* the broker's ttl

ASSUME TokensAssumption == Ttl \in Nat /\ None \notin Nat

NewBroker == [tokens |-> [t \in {} |-> None], issued |-> 0]

canonical_args_hash(call) == <<call.tool, call.args>>

\* secrets.token_urlsafe: one that never was.
NewToken(broker) == broker.issued + 1

issue_in_band_token(broker, call) ==
    LET entry == [tool |-> call.tool, hash |-> canonical_args_hash(call), exp |-> call.at + Ttl]
        token == NewToken(broker)
    IN  [tokens |-> [t \in DOMAIN broker.tokens \cup {token} |-> IF t = token THEN entry ELSE broker.tokens[t]],
         issued |-> token]

\* A slip: the token is only taken out when it is good.
KeptUntilGood(broker, call) == broker

\* What is left once a token is presented: it is gone, good or not.
Spent(broker, call) ==
    [broker EXCEPT !.tokens = [t \in DOMAIN @ \ {call.approval} |-> @[t]]]

\* What consume_in_band_token says.
Outcome(broker, call) ==
    IF call.approval \notin DOMAIN broker.tokens THEN "invalid"
    ELSE LET entry == broker.tokens[call.approval]
         IN  IF call.at > entry.exp THEN "expired"
             ELSE IF entry.tool # call.tool \/ entry.hash # canonical_args_hash(call) THEN "invalid"
             ELSE "approved"

\* One call, or a restart of the server.
InBand(session, call) ==
    IF call.tool = "restart"
    THEN [broker |-> [NewBroker EXCEPT !.issued = session.broker.issued], answers |-> Append(session.answers, "restarted")]
    ELSE IF call.approval = None
    THEN [broker |-> issue_in_band_token(session.broker, call), answers |-> Append(session.answers, "asked")]
    ELSE [broker |-> Spent(session.broker, call), answers |-> Append(session.answers, Outcome(session.broker, call))]

\* The broker and the answers so far, after each of some calls.
SessionOf(calls) ==
    LET after[i \in 0..Len(calls)] ==
            IF i = 0 THEN [broker |-> NewBroker, answers |-> <<>>] ELSE InBand(after[i - 1], calls[i])
    IN  after

AnswersTo(calls) == SessionOf(calls)[Len(calls)].answers
================================================================================
