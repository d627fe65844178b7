----------------------------- MODULE ReadOnlyProbe -----------------------------
(***************************************************************************)
(* The only way the probe scripts talk to an appliance (scripts/probe/         *)
(* safe_http.py): a client that refuses every request that is not known to     *)
(* only read, before anything is sent.                                       *)
(*                                                                         *)
(* A path is its segments; a trailing slash is an empty last one.  A body is    *)
(* None, Malformed (no object), or which keys it has and the values of those     *)
(* that matter: numbers are [is, n], since a boolean is one and equals it.       *)
(***************************************************************************)
EXTENDS Integers, Sequences, FiniteSets, SequencesExt, Values

CONSTANTS
    MaxQueryLength,   \* MAX_QUERY_LENGTH
    MaxBytes          \* DEFAULT_MAX_BYTES

Prefix == <<"rest", "orgs", "org">>

ExportPath         == Prefix \o <<"configurations", "exports">>
QueryPaths         == {Prefix \o <<"incidents", "query_paged">>, Prefix \o <<"playbooks", "query_paged">>}
ExecutionQueryPath == Prefix \o <<"playbooks", "execution", "query_paged">>

QueryBodyKeys   == {"filters", "sorts", "start", "length"}
ConditionKeys   == {"field_name", "method", "value"}
ProbeSearchMethods   == {"equals", "in", "gte", "has_a_value"}
ExportBodyKeys  == {"layouts", "actions", "phases_and_tasks"}
PostQueryParams == {"return_level", "handle_format", "text_content_output_format", "include_records_total"}
DefaultParams   == {"handle_format", "text_content_output_format"}
FormatHeaders   == {<<"handle_format", "ids">>, <<"handle_format", "names">>,
                    <<"text_content_output_format", "always_text">>}

IsInteger(v) == v \notin {None, Malformed} /\ v.is = "int"

ConditionOK(c) ==
    /\ c # Malformed
    /\ c.keys \subseteq ConditionKeys
    /\ "field_name" \in c.keys /\ c.method \in ProbeSearchMethods
    /\ c.value \in {"scalar", "list of scalars"}

GroupOK(g) ==
    /\ g # Malformed
    /\ g.keys \subseteq {"conditions"}
    /\ g.conditions # Malformed
    /\ \A i \in DOMAIN g.conditions : ConditionOK(g.conditions[i])

SortOK(s) == s # Malformed /\ s.keys \subseteq {"field_name", "type"} /\ "field_name" \in s.keys /\ s.type \in {"asc", "desc"}

\* _validate_query_body
QueryBodyOK(body) ==
    /\ body \notin {None, Malformed}
    /\ body.keys \subseteq QueryBodyKeys
    /\ "start" \in body.keys => IsInteger(body.start) /\ body.start.n >= 0
    /\ "length" \in body.keys /\ IsInteger(body.length) /\ body.length.n \in 1..MaxQueryLength
    /\ "filters" \in body.keys => body.filters # Malformed /\ \A i \in DOMAIN body.filters : GroupOK(body.filters[i])
    /\ "sorts" \in body.keys => body.sorts # Malformed /\ \A i \in DOMAIN body.sorts : SortOK(body.sorts[i])

\* _validate_export_body
ExportBodyOK(body) ==
    body \notin {None, Malformed} /\ body.keys \subseteq ExportBodyKeys /\ body.switches

\* body == EXECUTION_QUERY_BODY, as Python compares it.
IsApproved(body) ==
    /\ body \notin {None, Malformed}
    /\ body.keys = {"filters", "start", "length"}
    /\ body.filters = <<>>
    /\ body.start # Malformed /\ body.start.n = 0
    /\ body.length # Malformed /\ body.length.n = 1

MalformedPath(path) ==
    \E i \in DOMAIN path : path[i] \in {"..", "?", "#"} \/ (path[i] = "" /\ i < Len(path))

\* path.rstrip("/")
Target(path) == IF path # <<>> /\ Last(path) = "" THEN Front(path) ELSE path

\* A slip: the one body is compared, and not looked into.
ExecutionByValue(client, body) == IsApproved(body) /\ ~client.spent

\* The query for executions: its body and its number are agreed.
ExecutionOK(client, body) == QueryBodyOK(body) /\ IsApproved(body) /\ ~client.spent

\* ReadOnlyClient._check, of a request with this query.
Check(client, r, query) ==
    /\ ~MalformedPath(r.path)
    /\ IF r.verb = "GET" THEN r.body = None /\ Len(r.path) > 1 /\ Head(r.path) \in {"rest", "docs"}
       ELSE /\ r.verb = "POST"
            /\ query \subseteq PostQueryParams
            /\ \/ Target(r.path) = ExportPath /\ ExportBodyOK(r.body)
               \/ Target(r.path) \in QueryPaths /\ QueryBodyOK(r.body)
               \/ Target(r.path) = ExecutionQueryPath /\ ExecutionOK(client, r.body)

\* How much of an answer there is, chunk by chunk.
Size(wire) == FoldLeft(LAMBDA sum, n : sum + n, 0, wire.chunks)

\* What comes of a request that was sent: the body only if all of it was read.
Received(wire) ==
    LET size  == Size(wire)
        fits  == size <= MaxBytes
        read  == wire.breaks = "never" /\ fits
    IN  [status    |-> IF wire.breaks = "before the answer" THEN None ELSE wire.status,
         truncated |-> wire.breaks = "never" /\ ~fits,
         error     |-> \/ wire.breaks # "never"
                       \/ read /\ size > 0 /\ wire.type = "application/json" /\ wire.text = "not json",
         json      |-> read /\ size > 0 /\ wire.type = "application/json" /\ wire.text = "json"]

\* A slip: the attempt counts once it was answered.
SpentIfAnswered(client, r) == client.spent \/ (Target(r.path) = ExecutionQueryPath /\ r.wire.breaks = "never")

\* The execution query is spent on the attempt, whatever comes of it.
SpentAfter(client, r) == client.spent \/ Target(r.path) = ExecutionQueryPath

NewClient == [spent |-> FALSE, requests_sent |-> 0, refused |-> 0, results |-> <<>>]

\* ReadOnlyClient.request.  r.params are the caller's, r.defaults whether the default ones are added.
Request(client, r) ==
    LET query == r.params \cup IF r.defaults THEN DefaultParams ELSE {}
    IN  IF r.headers \subseteq FormatHeaders /\ Check(client, r, query)
        THEN [client EXCEPT !.spent = SpentAfter(client, r), !.requests_sent = @ + 1,
                            !.results = Append(@, Received(r.wire))]
        ELSE [client EXCEPT !.refused = @ + 1, !.results = Append(@, None)]

\* The client after each of some requests.
ClientOf(requests) ==
    LET after[i \in 0..Len(requests)] == IF i = 0 THEN NewClient ELSE Request(after[i - 1], requests[i])
    IN  after

AfterRequests(requests) == ClientOf(requests)[Len(requests)]
================================================================================
