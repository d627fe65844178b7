---------------------------- MODULE RedactionCases -----------------------------
(* Texts put to the redactor and to the tools that show them. *)
EXTENDS Redaction, Question

\* The Basic credential and the key's secret are told apart from a longer secret that the
\* latter begins; one secret is too short to be hidden.
KeySecret   == <<"k", "l">>
Credential  == <<"l", "w">>
LongSecret  == <<"k", "l", "w", "k">>
AllSecrets  == {KeySecret, LongSecret, <<"x">>}
OwnSecrets  == <<KeySecret, Credential>>
LongPieces  == {"k", "l", "w"}

Pieces == {<<"k">>, <<"l">>, <<"w">>, <<"x">>, <<" ">>, <<"authorization=">>, <<"Basic">>, REDACTED, <<"[", "R">>}

\* Every text of up to four pieces, cut anywhere.
AskText ==
    \E parts \in SeqOf(Pieces, 4) :
        LET text == FlattenSeq(parts)
        IN  \E limit \in 1..5 : asked' = [kind |-> "text", text |-> text, limit |-> limit]

\* Secrets among other text, and the same as a line of the log.
AskHidden ==
    \E parts \in SeqOf({KeySecret, LongSecret, <<"x">>, <<" ">>}, 4), whole \in BOOLEAN :
        asked' = [kind |-> "hidden", parts |-> parts,
                  record |-> [format |-> FlattenSeq(parts), args |-> IF whole THEN Malformed ELSE FlattenSeq(parts),
                              exc |-> FlattenSeq(parts), stack |-> <<"x">>]]

AskMapping ==
    \E keys \in [1..3 -> {KeySecret, LongSecret, REDACTED, <<"x">>, <<"w">>}],
       unique \in BOOLEAN, values \in {<<KeySecret, <<"x">>, LongSecret>>} :
        /\ \A i, j \in 1..3 : i # j => keys[i] # keys[j]
        /\ asked' = [kind |-> "mapping", unique |-> unique, pairs |-> [i \in 1..3 |-> <<keys[i], values[i]>>]]

--------------------------------------------------------------------------------

\* What is shown of a text is what is said of it.  It is called exact only if it is the source;
\* the redaction of the whole answer that still follows finds nothing in it, so that the lengths
\* that were counted before stay true; none of the secrets is in it, wherever it was cut.  A
\* secret that begins another one does not leave the rest of that; and where keys must not be
\* lost, none is lost without an error.
ShownAsStated ==
    /\ asked.kind = "text" =>
         LET source == SafeText(asked.text)
             body   == workflow_xml(source, asked.limit)
         IN  /\ redact(source.text) = source.text
             /\ redact(body.text) = body.text
             /\ body.returned_chars = Len(redact(body.text)) /\ body.returned_chars <= asked.limit
             /\ body.text_is = "exact" <=> body.text = asked.text
             /\ body.text_is = "exact prefix" => IsPrefix(body.text, asked.text)
             /\ ~body.redacted => body.safe_chars = body.source_chars
             /\ body.truncated <=> body.returned_chars < body.safe_chars
             /\ \A s \in ToSet(InOrder) \cup ToSet(Sensitive) : s \notin SubSeqs(source.text) \cup SubSeqs(body.text)
    /\ asked.kind = "hidden" =>
         LET hidden == FlattenSeq([i \in DOMAIN asked.parts |->
                                     IF asked.parts[i] \in {KeySecret, LongSecret} THEN REDACTED ELSE asked.parts[i]])
         IN  /\ redact(FlattenSeq(asked.parts)) = hidden
             /\ Filtered(asked.record) = [message |-> IF asked.record.args = Malformed THEN hidden ELSE hidden \o hidden,
                                          exc |-> hidden, stack |-> <<"x">>]
    /\ asked.kind = "mapping" =>
         LET answer == redact_strings(asked.pairs, asked.unique)
             safe   == {redact(p[1]) : p \in ToSet(asked.pairs)}
         IN  IF answer.error # None THEN asked.unique /\ Cardinality(safe) < 3
             ELSE /\ DOMAIN answer.kept = safe
                  /\ asked.unique => \A p \in ToSet(asked.pairs) : answer.kept[redact(p[1])] = redact(p[2])
================================================================================
