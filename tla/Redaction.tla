------------------------------- MODULE Redaction -------------------------------
(***************************************************************************)
(* What becomes of a text on its way out: the redactor of every log line and   *)
(* answer (logging.py), the client's own (client/base.py), and what the tools   *)
(* show of a script's or a workflow's text (tools/projection.py).             *)
(*                                                                         *)
(* A text is a sequence of pieces: "authorization=", "Basic", white space, and  *)
(* others, of which those in Long are eight characters a credential may have.   *)
(* A secret and the marker have several pieces each, so that a cut can go       *)
(* through them; a cut through one piece leaves text that matches nothing.      *)
(***************************************************************************)
EXTENDS Integers, Sequences, FiniteSets, SequencesExt, Values

CONSTANTS
    Secrets,        \* what the redactor is told to hide
    Sensitive,      \* the key's secret and the Basic credential made of it, in this order
    MinSecret,      \* _MIN_SECRET_LENGTH
    Long            \* pieces of a credential

REDACTED == <<"[", "R", "]">>

\* text with what MatchEnd finds replaced, from the left; the end of a match that begins at i
\* is before i if there is none.
Substituted(text, MatchEnd(_), Instead(_, _)) ==
    LET Rest[i \in 1..Len(text) + 1] ==
            IF i > Len(text) THEN <<>>
            ELSE LET end == MatchEnd(i)
                 IN  (IF end < i THEN <<text[i]>> ELSE Instead(i, end)) \o Rest[(IF end < i THEN i ELSE end) + 1]
    IN  Rest[1]

\* str.replace
Replaced(text, secret) ==
    LET End(i) == LET end == i + Len(secret) - 1
                  IN  IF end <= Len(text) /\ SubSeq(text, i, end) = secret THEN end ELSE 0
    IN  Substituted(text, End, LAMBDA i, end : REDACTED)

\* The last piece of the run that begins at i.
RunEnd(text, i, In(_)) ==
    CHOOSE end \in i - 1..Len(text) :
        /\ \A j \in i..end : In(text[j])
        /\ end = Len(text) \/ ~In(text[end + 1])

IsSpace(p) == p = " "

\* Basic\s+[A-Za-z0-9+/=_-]{8,}
BasicHidden(text) ==
    LET Credential(p) == p \in Long \cup {"Basic", "authorization="}
        Enough(some) == \/ \E p \in ToSet(some) : p # "Basic"
                        \/ Len(some) > 1
        End(i) == LET from == RunEnd(text, i + 1, IsSpace) + 1
                      end  == RunEnd(text, from, Credential)
                  IN  IF text[i] = "Basic" /\ from > i + 1 /\ Enough(SubSeq(text, from, end)) THEN end ELSE 0
    IN  Substituted(text, End, LAMBDA i, end : <<"Basic", " ">> \o REDACTED)

\* (?i)(authorization\s*[:=]\s*)['"]?\S+
AuthorizationHidden(text) ==
    LET Value(i) == RunEnd(text, i + 1, IsSpace) + 1
        End(i) == LET end == RunEnd(text, Value(i), LAMBDA p : ~IsSpace(p))
                  IN  IF text[i] = "authorization=" /\ end >= Value(i) THEN end ELSE 0
    IN  Substituted(text, End, LAMBDA i, end : SubSeq(text, i, Value(i) - 1) \o REDACTED)

\* A slip: the secrets in any order.
AnyOrder == SetToSortSeq({s \in Secrets : Len(s) >= MinSecret}, LAMBDA a, b : Len(a) < Len(b))

\* set_secrets: the longest first.
InOrder == SetToSortSeq({s \in Secrets : Len(s) >= MinSecret}, LAMBDA a, b : Len(a) > Len(b))

redact(text) == AuthorizationHidden(BasicHidden(FoldLeft(Replaced, text, InOrder)))

\* RedactingFilter.filter: a record's message, traceback and stack.
Filtered(record) ==
    [message |-> redact(IF record.args = Malformed THEN record.format ELSE record.format \o record.args),
     exc |-> redact(record.exc), stack |-> redact(record.stack)]

\* SoarClient.scrub
scrub(text) == Replaced(Replaced(text, Sensitive[1]), Sensitive[2])

--------------------------------------------------------------------------------
(* Mappings: redact_strings, of the keys too. *)

\* Of two keys that are one now, the later wins.
Kept(pairs) ==
    LET LastOf(k) == CHOOSE i \in DOMAIN pairs : /\ redact(pairs[i][1]) = k
                                               /\ \A j \in DOMAIN pairs : redact(pairs[j][1]) = k => j <= i
    IN  [error |-> None, kept |-> [k \in {redact(p[1]) : p \in ToSet(pairs)} |-> redact(pairs[LastOf(k)][2])]]

\* A slip: also where none may be lost.
LaterWins(pairs, unique_keys) == Kept(pairs)

\* pairs is the mapping, in its order.
redact_strings(pairs, unique_keys) ==
    IF unique_keys /\ \E i, j \in DOMAIN pairs : i # j /\ redact(pairs[i][1]) = redact(pairs[j][1])
    THEN [error |-> "collision"]
    ELSE Kept(pairs)

--------------------------------------------------------------------------------
(* Texts that are shown: redacted before they are cut, and both are told. *)

\* ScriptSource, WorkflowSource: the text as read from SOAR does not go further than this.
SafeText(text) ==
    LET clean == redact(scrub(text))
    IN  [text |-> clean, source_chars |-> Len(text), redacted |-> clean # text]

Lesser(a, b) == IF a < b THEN a ELSE b

\* A slip: the cut is where the limit is.
PrefixAtLimit(text, limit) == SubSeq(text, 1, Lesser(limit, Len(text)))

\* _safe_prefix: a cut inside a marker is moved back to where the marker begins.
SafePrefix(text, limit) ==
    LET cut    == Lesser(limit, Len(text))
        Marked(start) == start + Len(REDACTED) <= Len(text) /\ SubSeq(text, start + 1, start + Len(REDACTED)) = REDACTED
        inside == {start \in 0..cut - 1 : cut < start + Len(REDACTED) /\ Marked(start)}
    IN  SubSeq(text, 1, IF inside = {} THEN cut ELSE CHOOSE start \in inside : \A s \in inside : start <= s)

\* script_body; workflow_xml says the same of an XML.
script_body(source, limit) ==
    LET shown     == SafePrefix(source.text, limit)
        truncated == Len(shown) < Len(source.text)
    IN  [text |-> shown, redacted |-> source.redacted, truncated |-> truncated,
         text_is |-> CASE ~source.redacted /\ ~truncated -> "exact"
                       [] ~source.redacted /\ truncated  -> "exact prefix"
                       [] source.redacted /\ ~truncated  -> "redacted"
                       [] OTHER                          -> "redacted prefix",
         source_chars |-> source.source_chars, safe_chars |-> Len(source.text), returned_chars |-> Len(shown)]

workflow_xml(source, limit) == script_body(source, limit) @@ [untrusted |-> TRUE]
================================================================================
