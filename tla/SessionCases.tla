------------------------------ MODULE SessionCases -----------------------------
(* Sequences of calls with in-band tokens, and of requests of the probe. *)
EXTENDS InBandTokens, ReadOnlyProbe, Question

TokenCall(tool, args, approval, at) == [tool |-> tool, args |-> args, approval |-> approval, at |-> at]

\* Four calls of one or two kinds, some time apart, with no token, one of those issued or another one.
AskTokens ==
    \E kinds \in [1..4 -> {<<"close", 1>>, <<"close", 2>>, <<"assign", 1>>, <<"restart", 0>>}],
       approvals \in [1..4 -> {None, 1, 2}], at \in {<<0, 0, 0, 0>>, <<0, 1, 2, 3>>, <<0, 2, 2, 2>>, <<0, 0, 3, 5>>} :
        /\ kinds[1] = <<"close", 1>> /\ approvals[1] = None
        /\ \A i \in 2..4 : kinds[i][1] = "restart" => approvals[i] = None
        /\ asked' = [kind |-> "tokens",
                     calls |-> [i \in 1..4 |-> TokenCall(kinds[i][1], kinds[i][2], approvals[i], at[i])]]

\* A call goes through on a token that was given to the identical call no longer ago than it
\* lives, has not been shown since, with any call or too late, and that the server has not
\* forgotten; and the identical call that shows it in time, first, does go through.
TokenIsSpentOnce ==
    asked.kind = "tokens" =>
        LET calls == asked.calls
            answers == AnswersTo(calls)
            IssuedAt(token) == {j \in DOMAIN calls : answers[j] = "asked"
                                    /\ token = Cardinality({k \in 1..j : answers[k] = "asked"})}
            Fresh(i) ==
                \E j \in IssuedAt(calls[i].approval) :
                    /\ j < i /\ calls[i].at <= calls[j].at + Ttl
                    /\ calls[j].tool = calls[i].tool /\ calls[j].args = calls[i].args
                    /\ \A k \in (j + 1)..(i - 1) : calls[k].tool # "restart" /\ calls[k].approval # calls[i].approval
        IN  \A i \in DOMAIN calls : answers[i] = "approved" <=> calls[i].approval # None /\ Fresh(i)

--------------------------------------------------------------------------------

Number(n)  == [is |-> "int", n |-> n]
Boolean(n) == [is |-> "bool", n |-> n]

Empty == [keys |-> {}, start |-> None, length |-> None, filters |-> <<>>, sorts |-> <<>>, switches |-> TRUE]

TheOne == [keys |-> {"filters", "start", "length"}, start |-> Number(0), length |-> Number(1),
           filters |-> <<>>, sorts |-> <<>>, switches |-> TRUE]

Criterion == [keys |-> {"field_name", "method", "value"}, method |-> "equals", value |-> "scalar"]
Group  == [keys |-> {"conditions"}, conditions |-> <<Criterion>>]
SortBy == [keys |-> {"field_name", "type"}, type |-> "asc"]

FilterGroups ==
    {Malformed, Group, [Group EXCEPT !.keys = @ \cup {"close"}], [Group EXCEPT !.conditions = Malformed]}
    \cup {[Group EXCEPT !.conditions = <<Criterion, c>>] :
            c \in {Malformed} \cup [keys : {{"field_name", "method"}, {"field_name", "delete"}, {"method"}},
                                    method : {"in", "delete"}, value : {"scalar", "list of scalars", "object"}]}

Sorts == {Malformed} \cup [keys : {{"field_name", "type"}, {"type"}, {"field_name", "type", "then"}}, type : {"asc", "up"}]

Bodies ==
    {None, Malformed, Empty, TheOne}
    \cup {[TheOne EXCEPT !.start = s, !.length = l] :
            s \in {Malformed, Boolean(0), Number(-1), Number(0), Number(1)},
            l \in {Malformed, Boolean(1), Number(0), Number(1), Number(MaxQueryLength), Number(MaxQueryLength + 1)}}
    \cup {[TheOne EXCEPT !.filters = f] : f \in {Malformed} \cup {<<g>> : g \in FilterGroups}}
    \cup {[TheOne EXCEPT !.keys = @ \cup {"sorts"}, !.sorts = s] : s \in {Malformed} \cup {<<o>> : o \in Sorts}}
    \cup {[TheOne EXCEPT !.keys = k] : k \in {{"length"}, {"start"}, {"start", "length", "status"}}}
    \cup [keys : {{}, {"layouts"}, {"layouts", "scripts"}}, start : {None}, length : {None}, filters : {<<>>},
          sorts : {<<>>}, switches : BOOLEAN]

Places ==
    QueryPaths \cup {ExportPath, ExecutionQueryPath, Append(ExportPath, ""), Append(ExecutionQueryPath, ""),
                     ExecutionQueryPath \o <<"", "">>, Prefix \o <<"..", "playbooks">>,
                     Prefix \o <<"incidents", "1", "query_paged">>, Prefix \o <<"playbooks", "execution", "cancel">>,
                     <<"docs", "rest-api">>, <<"rest">>, <<"login", "">>, <<>>}

Simple(verb, path, body) ==
    [verb |-> verb, path |-> path, body |-> body, params |-> {}, defaults |-> TRUE, headers |-> {},
     wire |-> [breaks |-> "never", status |-> 200, type |-> "application/json", text |-> "json", chunks |-> <<1>>]]

\* Any request alone.
AskRequest ==
    \/ \E verb \in {"GET", "POST", "PUT", "PATCH", "DELETE"}, path \in Places, body \in Bodies :
         asked' = [kind |-> "probe", requests |-> <<Simple(verb, path, body)>>]
    \/ \E path \in Places, params \in SUBSET {"return_level", "force"}, defaults \in BOOLEAN, verb \in {"GET", "POST"},
          headers \in SUBSET {<<"handle_format", "ids">>, <<"handle_format", "all">>, <<"x-method", "PUT">>} :
         asked' = [kind |-> "probe",
                   requests |-> <<[Simple(verb, path, IF verb = "GET" THEN None ELSE TheOne)
                                      EXCEPT !.params = params, !.defaults = defaults, !.headers = headers]>>]

\* Requests one after the other, each with what comes of it.
AskRequests ==
    \E verbs \in [1..3 -> {"GET", "POST"}],
       paths \in [1..3 -> {ExecutionQueryPath, Append(ExecutionQueryPath, ""), CHOOSE p \in QueryPaths : TRUE}],
       bodies \in [1..3 -> {None, TheOne, [TheOne EXCEPT !.length = Boolean(1)]}],
       breaks \in [1..3 -> {"never", "before the answer", "while reading"}],
       rest \in {<<200, "application/json", "json", <<1>>>>, <<200, "application/json", "not json", <<1, 1>>>>,
                 <<500, "text/html", "json", <<1>>>>, <<200, "application/json", "json", <<2, 2>>>>} :
        /\ \A i \in 1..3 : bodies[i] = None <=> verbs[i] = "GET"
        /\ asked' = [kind |-> "probe",
                     requests |-> [i \in 1..3 |->
                        [Simple(verbs[i], paths[i], bodies[i]) EXCEPT
                            !.wire = [breaks |-> breaks[i], status |-> rest[1], type |-> rest[2],
                                      text |-> rest[3], chunks |-> rest[4]]]]]

\* What may make a body write: a key, an operator or a value that is none of a search's.
OnlySearches(body) ==
    /\ body.keys \cap {"status", "layouts", "scripts"} = {} /\ body.length.n <= MaxQueryLength
    /\ ("filters" \in body.keys) => \A i \in DOMAIN body.filters :
         "close" \notin body.filters[i].keys /\
         \A k \in DOMAIN body.filters[i].conditions :
            LET c == body.filters[i].conditions[k] IN "delete" \notin c.keys \cup {c.method} /\ c.value # "object"

\* What a request that is sent can do to the appliance.
SentOnlyReads(r) ==
    /\ r.verb = "GET" => r.body = None /\ Head(r.path) # "login"
    /\ r.verb # "GET" =>
         /\ r.verb = "POST" /\ "force" \notin r.params
         /\ ToSet(r.path) \cap {"..", "cancel", "1", "login"} = {}
         /\ IF "exports" \in ToSet(r.path)
            THEN r.body.keys \subseteq {"layouts", "actions", "phases_and_tasks"} /\ r.body.switches
            ELSE OnlySearches(r.body)
    /\ \A h \in r.headers : h[1] # "x-method"

\* An answer that is shown was read to its end.
NothingMadeUp(wire, result) ==
    result.json => wire.breaks = "never" /\ ~result.truncated /\ ~result.error /\ Size(wire) <= MaxBytes

\* The probe only reads.  Whatever it is asked to send, in whatever order and whatever comes of
\* it, no body goes with a GET and none that is more than a search or a choice of sections with a
\* POST; the query for executions goes out once in a client's life with the very body that was
\* agreed, also if it is not answered; a refusal sends nothing and is counted; and what was not
\* read to its end is never taken for the answer.
ProbeOnlyReads ==
    asked.kind = "probe" =>
        LET requests == asked.requests
            client   == AfterRequests(requests)
            sent     == {i \in DOMAIN requests : client.results[i] # None}
            executions == {i \in sent : requests[i].verb = "POST" /\ "execution" \in ToSet(requests[i].path)}
        IN  /\ \A i \in sent : SentOnlyReads(requests[i]) /\ NothingMadeUp(requests[i].wire, client.results[i])
            /\ Cardinality(executions) <= 1
            /\ \A i \in executions :
                 /\ requests[i].body = TheOne
                 /\ \A j \in sent : j < i => Target(requests[j].path) # ExecutionQueryPath
            /\ client.requests_sent = Cardinality(sent) /\ client.refused = Len(requests) - Cardinality(sent)

\* What is given to be used once is used once, and for the call it was given for: the token of an
\* in-band confirmation, and the query of the probe that was agreed on.
SpentOnce == TokenIsSpentOnce /\ ProbeOnlyReads
================================================================================
