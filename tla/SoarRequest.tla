------------------------------ MODULE SoarRequest ------------------------------
(***************************************************************************)
(* One request to SOAR (client/base.py) and what its caller is told of it      *)
(* (errors.py): refused, failed on the way, answered, and whether it is known   *)
(* not to have been sent.                                                  *)
(*                                                                         *)
(* A call is [method, query, task, format, params]: is there a query in the    *)
(* path, is it the path of a single task, which format headers, any parameters. *)
(* wire is what happens: the httpx exception that is raised (exc), or an answer.  *)
(***************************************************************************)
EXTENDS Redaction

CONSTANTS
    MaxResponse,    \* MAX_RESPONSE_BYTES
    MaxMessage      \* _MAX_SAFE_MESSAGE

\* What is not there is neither a number nor the code of an error.
ASSUME RequestAssumption ==
    /\ MaxResponse \in Nat /\ MaxMessage \in Nat
    /\ None \notin Nat
    /\ None \notin {"timeout", "tls", "malformed_response", "connection", "auth", "forbidden", "not_found", "conflict",
                   "validation", "soar_rate_limited", "server_error", "soar_error", "response_too_large"}

Methods == {"GET", "POST", "PATCH", "PUT"}

\* Refused before any I/O.
NotInContract(call) ==
    \/ call.method \notin Methods
    \/ call.query
    \/ call.method = "PUT" /\ ~(call.task /\ call.format # None /\ ~call.params)
    \/ /\ call.format # None
       /\ call.format # "task" \/ call.method \notin {"GET", "PUT"} \/ ~call.task \/ call.params

\* The default parameters, unless the format goes as headers.
Parameters(call) == IF call.format # None THEN {} ELSE {"default"} \cup (IF call.params THEN {"given"} ELSE {})

\* tried: did it come to a connection attempt.
SoarError(code, status, not_sent, message) ==
    [tried |-> TRUE, error |-> code, status |-> status, not_sent |-> not_sent, message |-> message]

--------------------------------------------------------------------------------
(* Failures on the way: by the exception's class only. *)

TimeoutException == {"ConnectTimeout", "ReadTimeout", "WriteTimeout", "PoolTimeout"}
SSLError         == {"SSLError", "SSLCertVerificationError"}

\* What httpx wraps: __cause__, or __context__ where there is none.
Wrapped(exc, n) == IF exc.cause[n] # None THEN exc.cause[n] ELSE exc.context[n]

\* One exception further, until one comes again.
OneFurther(exc, seen) ==
    LET n == Wrapped(exc, seen[Len(seen)])
    IN  IF n = None \/ n \in ToSet(seen) THEN seen ELSE Append(seen, n)

\* The exceptions seen after so many of them.
Seen(exc) ==
    LET seen[k \in 1..Len(exc.class)] == IF k = 1 THEN <<1>> ELSE OneFurther(exc, seen[k - 1])
    IN  seen

\* _tls_cause: the first one that is of TLS.
TlsCause(exc) ==
    LET seen  == Seen(exc)[Len(exc.class)]
        found == {k \in DOMAIN seen : exc.class[seen[k]] \in SSLError}
    IN  IF found = {} THEN None ELSE seen[CHOOSE k \in found : \A l \in found : k <= l]

\* _tls_error: OpenSSL's code for why a certificate did not verify.
TlsCategory(class, verify_code) ==
    IF class # "SSLCertVerificationError" THEN "TLS failure"
    ELSE IF verify_code \in {62, 64} THEN "host name mismatch"
    ELSE IF verify_code \in {2, 18, 19, 20, 21} THEN "untrusted issuer"
    ELSE IF verify_code \in {9, 10} THEN "validity period"
    ELSE "verification failed"

\* A slip: every timeout is taken for one before there was a connection.
NotSentByTimeout(exc) == exc.class[1] \in TimeoutException \cup {"ConnectError"}

\* No connection was established.
NotSent(exc) == exc.class[1] \in {"ConnectTimeout", "PoolTimeout", "ConnectError"}

from_httpx(exc) ==
    LET tls == TlsCause(exc)
    IN  IF exc.class[1] \in TimeoutException THEN SoarError("timeout", None, NotSent(exc), None)
        ELSE IF exc.class[1] = "ConnectError" /\ tls # None
        THEN SoarError("tls", None, NotSent(exc), <<TlsCategory(exc.class[tls], exc.verify_code)>>)
        ELSE IF exc.class[1] = "DecodingError" THEN SoarError("malformed_response", None, FALSE, None)
        ELSE SoarError("connection", None, NotSent(exc), None)

--------------------------------------------------------------------------------
(* Answers *)

CodeOf(status) ==
    CASE status = 401          -> "auth"
      [] status = 403          -> "forbidden"
      [] status = 404          -> "not_found"
      [] status = 409          -> "conflict"
      [] status \in {400, 422} -> "validation"
      [] status = 429          -> "soar_rate_limited"
      [] status >= 500         -> "server_error"
      [] OTHER                 -> "soar_error"

\* A slip: SOAR's message is cut before the credential is taken out of it.
CutFirst(message) == scrub(PrefixAtLimit(message, MaxMessage))

\* SOAR's own message, if the answer has one.
Quoted(message) == PrefixAtLimit(scrub(message), MaxMessage)

\* from_status
from_status(status, body) ==
    SoarError(CodeOf(status), status, FALSE,
              IF status \in {401, 429} \/ body.message = None THEN None ELSE Quoted(body.message))

\* A slip: only what the answer declares counts.
TooLargeAsDeclared(wire) == wire.declared \notin {None, Malformed} /\ wire.declared > MaxResponse

\* The size of the first chunks.
SizeAfter(chunks) ==
    LET total[n \in 0..Len(chunks)] == IF n = 0 THEN 0 ELSE total[n - 1] + chunks[n]
    IN  total

\* What it declares, if that is a number, and what it turns out to be, chunk by chunk.
TooLarge(wire) ==
    \/ wire.declared \notin {None, Malformed} /\ wire.declared > MaxResponse
    \/ \E n \in DOMAIN wire.chunks : SizeAfter(wire.chunks)[n] > MaxResponse

NoBody == [is |-> "empty", message |-> None]

\* SoarClient.request
request(call, wire) ==
    IF NotInContract(call) THEN [SoarError("validation", None, TRUE, None) EXCEPT !.tried = FALSE]
    ELSE IF wire.exc # None THEN from_httpx(wire.exc)
    ELSE IF TooLarge(wire) THEN SoarError("response_too_large", None, FALSE, None)
    ELSE IF wire.status >= 400 THEN from_status(wire.status, IF wire.body.is = "json" THEN wire.body ELSE NoBody)
    ELSE IF wire.body.is = "not json" THEN SoarError("malformed_response", wire.status, FALSE, None)
    ELSE [tried |-> TRUE, error |-> None, body |-> wire.body, with |-> Parameters(call)]

PlainCall(method) == [method |-> method, query |-> FALSE, task |-> FALSE, format |-> None, params |-> FALSE]

get(params, wire)  == request([PlainCall("GET") EXCEPT !.params = params], wire)
post(params, wire) == request([PlainCall("POST") EXCEPT !.params = params], wire)

\* _rules_out_the_write: no status does, nor that it failed early.
RulesOutTheWrite(failure) == failure.not_sent

\* SoarClient.ping: the search must answer; that the key has no session is told, not raised.
ping(search, session) ==
    LET found == post(TRUE, search)
        who   == get(FALSE, session)
    IN  IF found.error # None THEN found
        ELSE IF found.body.is # "json" \/ ~found.body.data THEN SoarError("malformed_response", None, FALSE, None)
        ELSE IF who.error \in {"forbidden", "not_found"} THEN [error |-> None, session |-> who.status]
        ELSE IF who.error # None THEN who
        ELSE [error |-> None, session |-> "ok"]
================================================================================
