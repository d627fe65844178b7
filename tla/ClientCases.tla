------------------------------ MODULE ClientCases ------------------------------
(***************************************************************************)
(* What a client of the server is told: of a tool, before it is called, and of *)
(* a request to SOAR, whatever happens to it on the way there and back.       *)
(***************************************************************************)
EXTENDS ToolDeclarations, SoarRequest, EnforceCases, RedactionCases

(* Tools that somebody may declare, on a server with these and those settings. *)

Declared(name, tier, capability, params) ==
    [name |-> name, named |-> TRUE, tier |-> tier, capability |-> capability, params |-> params, async |-> TRUE,
     describe |-> TRUE, mutations |-> None, doc |-> TRUE, unsupported |-> None]

\* A tool that is there already, and one of any kind.
AskDeclared ==
    \E tier \in READ..HIGH_RISK, capability \in {None, "comments", "incident_close", "actions", "playbook_create", "no such"},
       params \in {<<>>, <<"rt">>, <<"rt", "approval_id">>, <<"approval_id", "rt">>}, mutations \in {None, 0, 1, 2},
       unsupported \in {None, "text", "blank"}, name \in 1..2, odd \in {"nothing", "named", "async", "describe", "doc"} :
        asked' = [kind |-> "declared",
                  tools |-> <<Declared(2, DOCUMENTATION, "comments", <<"rt">>),
                              [v \in DOMAIN Declared(1, READ, None, <<>>) |->
                                 IF v = odd THEN FALSE
                                 ELSE [Declared(name, tier, capability, params) EXCEPT
                                         !.mutations = mutations, !.unsupported = unsupported][v]]>>]

\* The settings with the flags of some tiers on, as a server loads them or in the lab.
SettingsOf(tiers, lab) ==
    [Parsed(Env(IF lab THEN [lab_mode |-> "on", require_action_confirmation |-> "off"] ELSE <<>>))
        EXCEPT !.enabled = UNION {CapabilitiesOf(t) : t \in tiers}]

ASSUME ClientAssumption == \A tiers \in SUBSET (DOCUMENTATION..AUTOMATION), lab \in BOOLEAN : SettingsOf(tiers, lab) # None

--------------------------------------------------------------------------------
(* Requests, and what may happen to them. *)

Calls ==
    [method : Methods \cup {"DELETE"}, query : BOOLEAN, task : BOOLEAN, format : {None, "task", "other"}, params : BOOLEAN]

\* What httpx raises before there is a connection, while it sends and while it reads.
Raised ==
    [connecting |-> {"ConnectError", "ConnectTimeout", "PoolTimeout", "UnsupportedProtocol"},
     sending    |-> {"WriteError", "WriteTimeout"},
     reading    |-> {"ReadError", "ReadTimeout", "RemoteProtocolError", "DecodingError"}]

Exception(class, inner, cause, context, code) ==
    [class |-> <<class>> \o inner, cause |-> cause, context |-> context, verify_code |-> code]

Answer == [exc |-> None, came |-> "back", status |-> 200, declared |-> None, chunks |-> <<1>>,
           body |-> [is |-> "json", message |-> None, data |-> TRUE]]

\* No answer, and the exceptions that led to the one raised.
AskFailure ==
    \E came \in DOMAIN Raised :
      \E class \in Raised[came], inner \in [1..2 -> {"OSError", "SSLError", "SSLCertVerificationError"}],
         cause \in [1..3 -> {None, 2, 3}], context \in [1..3 -> {None, 1, 2, 3}], code \in {10, 18, 62, 99} :
        /\ class = "ConnectError" \/ (inner = <<"OSError", "SSLError">> /\ code = 10)
        /\ code = 10 \/ "SSLCertVerificationError" \in ToSet(inner)
        /\ asked' = [kind |-> "request", call |-> PlainCall("POST"),
                     wire |-> [Answer EXCEPT !.exc = Exception(class, inner, cause, context, code), !.came = came]]

\* Answers of every status and size, with the credential somewhere in what SOAR says.
AskAnswer ==
    \E status \in {200, 302, 400, 401, 403, 404, 409, 418, 422, 429, 500, 503}, is \in {"json", "not json", "empty"},
       declared \in {None, Malformed, 2, 9}, chunks \in SeqOf({1, 2}, 3),
       message \in {None} \cup {FlattenSeq(parts) : parts \in SeqOf({KeySecret, Credential, <<"x">>}, 3)} :
        /\ chunks = <<1>> \/ message = None
        /\ asked' = [kind |-> "request", call |-> PlainCall("GET"),
                     wire |-> [Answer EXCEPT !.status = status, !.declared = declared, !.chunks = chunks,
                                             !.body.is = is, !.body.message = message]]

AskCall == \E call \in Calls : asked' = [kind |-> "request", call |-> call, wire |-> Answer]

AskPing ==
    \E search \in {200, 401, 404}, session \in {200, 302, 401, 403, 404, 500}, is \in {"json", "not json", "empty"}, data \in BOOLEAN :
        asked' = [kind |-> "ping",
                  search |-> [Answer EXCEPT !.status = search, !.body.is = is, !.body.data = data],
                  session |-> [Answer EXCEPT !.status = session]]

--------------------------------------------------------------------------------

\* A tool does what a client is told of it and an operator turned on, whatever it is declared
\* as: one told to read changes nothing and needs nothing; one that changes something is
\* answered only when a flag of its own tier is on; one not told to be destructive never waits
\* for a human; and one that does takes the human's answer with it.
ToolIsAsTold ==
    asked.kind = "declared" =>
        LET registry == Registry(asked.tools)[Len(asked.tools)]
        IN  registry # Malformed =>
              LET told == register_all(registry)
              IN  /\ {told[i].name : i \in DOMAIN told} = {asked.tools[i].name : i \in DOMAIN asked.tools}
                  /\ Len(told) = Len(asked.tools)
                  /\ \A i, j \in DOMAIN told : i < j => told[i].spec.tier <= told[j].spec.tier
                  /\ \A i \in DOMAIN told, tiers \in SUBSET (DOCUMENTATION..AUTOMATION), lab \in BOOLEAN :
                       LET spec == told[i].spec
                           code == enforce(SettingsOf(tiers, lab), spec, None).code
                       IN  /\ told[i].read_only_hint => spec.mutations = 0 /\ (code = "ALLOW" \/ spec.unsupported)
                           /\ ~told[i].read_only_hint /\ code \in {"ALLOW", "REQUIRE_APPROVAL"} => spec.tier \in tiers
                           /\ code = "REQUIRE_APPROVAL" =>
                                told[i].destructive_hint /\ "approval_id" \in told[i].params
                           /\ told[i].destructive_hint /\ code = "ALLOW" => lab
                           /\ "rt" \notin told[i].params

\* All of an answer arrives, within the limit.
CameWhole(wire) ==
    /\ SizeAfter(wire.chunks)[Len(wire.chunks)] <= MaxResponse
    /\ wire.declared \in {None, Malformed} \/ wire.declared <= MaxResponse

\* The exceptions that led to the first one: whatever holds of that and of all they wrap.
Reasons(exc) ==
    LET all == DOMAIN exc.class
        Reason(n) == {m \in all : m = exc.cause[n] \/ (exc.cause[n] = None /\ m = exc.context[n])}
    IN  {n \in all : \A some \in SUBSET all : 1 \in some /\ (\A m \in some : Reason(m) \subseteq some) => n \in some}

\* What a caller is told of a request is what happened to it.  It takes it for not sent only if
\* there never was a connection, and a write that SOAR answered or may have read it never takes
\* for undone; it has an answer only if that came whole, within the limit, as JSON and below 400,
\* and else the status it had; a failed TLS handshake is told from a failed connection; and what
\* SOAR says shows nothing of the credential, wherever it is cut.
ToldWhatHappened ==
    /\ asked.kind = "request" =>
         LET answer == request(asked.call, asked.wire)
             wire   == asked.wire
             lost   == wire.exc # None
             whole  == CameWhole(wire)
         IN  /\ answer.tried /\ answer.error # None /\ RulesOutTheWrite(answer) => lost /\ wire.came = "connecting"
             /\ answer.tried /\ lost /\ wire.exc.class[1] \in {"ConnectError", "ConnectTimeout", "PoolTimeout"} =>
                  RulesOutTheWrite(answer)
             /\ answer.error = None <=> answer.tried /\ ~lost /\ whole /\ wire.status < 400 /\ wire.body.is # "not json"
             /\ answer.error = None => answer.body = wire.body
             /\ answer.tried /\ ~lost /\ whole /\ answer.error # None => answer.status = wire.status
             /\ answer.tried /\ lost /\ wire.exc.class[1] = "ConnectError" =>
                  (answer.error = "tls" <=> \E n \in Reasons(wire.exc) : wire.exc.class[n] \in SSLError)
             /\ ~lost /\ answer.error # None /\ answer.message # None =>
                  ToSet(answer.message) \subseteq {"x"} \cup ToSet(REDACTED)
             /\ ~answer.tried => RulesOutTheWrite(answer)
             /\ answer.tried /\ asked.call.method = "PUT" => asked.call.task /\ Parameters(asked.call) = {}
    /\ asked.kind = "ping" =>
         LET answer == ping(asked.search, asked.session)
         IN  answer.error = None <=>
               /\ asked.search.exc = None /\ CameWhole(asked.search) /\ asked.search.status < 400
               /\ asked.search.body.is = "json" /\ asked.search.body.data
               /\ asked.session.exc = None /\ CameWhole(asked.session)
               /\ \/ asked.session.status < 400 /\ asked.session.body.is # "not json"
                  \/ asked.session.status \in {403, 404}

\* What a client is told holds: of a tool before it is called, and of a call that failed.
ClientIsToldTruly == ToolIsAsTold /\ ToldWhatHappened
================================================================================
