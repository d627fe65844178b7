-------------------------- MODULE IncidentReadsCases ---------------------------
(* Incidents put to the tools that read them. *)
EXTENDS IncidentReads, Question

Some(n, text) == [i \in 1..n |-> [text |-> text, description |-> text \div 2]]

\* What SOAR may send for a list: also rows that are no objects, or no list.
Rows ==
    {Some(0, 0), <<Malformed>> \o Some(1, 3), Some(2, 8) \o <<Malformed>> \o Some(1, 8)}
    \cup {Some(n, text) : n \in {4, 5}, text \in {4, 30}}

AskFull ==
    \E text \in {5, 40} \cup 80..96, custom \in SUBSET {"field"},
       t \in Rows, a \in Rows, c \in Rows, f \in {Some(0, 0), Some(4, 4), Malformed} :
        asked' = [kind |-> "full", incident |-> [text |-> text, custom |-> [f1 \in {"field"} |-> 25]], custom |-> custom,
                  rows |-> [tasks |-> t, artifacts |-> a, comments |-> c, attachments |-> f]]

\* Forests of four notes: the parent of each is an earlier one or none.  In some lists what is no
\* object stands before and after every note; what a note without answers has may be no list.
AskNotes ==
    \E parent \in {p \in [1..4 -> 0..3] : \A i \in 1..4 : p[i] < i}, mixed \in SUBSET (0..4), bare \in {<<>>, Malformed} :
        asked' = [kind |-> "notes", parent |-> parent, mixed |-> mixed, bare |-> bare]

Artifact(type, value) == [type |-> type, value |-> value]

Lists ==
    {<<>>, <<Malformed, Artifact("ip", "a")>>, <<Artifact("ip", "A"), Artifact("ip", "a")>>,
     <<Artifact("dns", "a"), Artifact("ip", "b")>>, <<Artifact("ip", None), Artifact(None, "a"), Malformed>>,
     <<Artifact("ip", "b"), Artifact("ip", "A")>>, Malformed}

AskSimilar ==
    \E own \in Lists, limit \in {0, 3}, artifacts \in [1..3 -> Lists], dates \in {<<5, None, 5>>, <<5, 5, 5>>},
       most \in {None, 0, 2}, ids \in {<<7, 8, 9>>, <<9, 7, 8>>, <<None, 9, 8>>, <<8, Malformed, 9>>} :
        asked' = [kind |-> "similar", own |-> own, limit |-> limit, most |-> most,
                  page |-> [i \in 1..3 |-> IF ids[i] = Malformed THEN Malformed
                                           ELSE [id |-> ids[i], date |-> dates[i], artifacts |-> artifacts[i]]]]

AskActions ==
    \E raw \in SeqOf({[id |-> 1], [id |-> 2], Malformed}, 3) :
        asked' = [kind |-> "actions", raw |-> raw]

Condition(method, value) == [field |-> "a", method |-> method, value |-> value]

Groups == SeqOf({Condition("equals", 1), Condition("equals", None), Condition("contains", 2), Condition("has_a_value", 1),
                 Condition("other", 1)}, 2)

AskSearch ==
    \E filters \in SeqOf(Groups, 2), start \in {-1, 2}, length \in {None, 0, 2, 9} :
        /\ start = 2 \/ length = None
        /\ asked' = [kind |-> "search", filters |-> filters, start |-> start, length |-> length]

--------------------------------------------------------------------------------

\* Of what SOAR sent, the objects, each as what it takes in an answer.
SentObjects(body, Size(_)) ==
    FlattenSeq([i \in DOMAIN body |-> IF body[i] = Malformed THEN <<>> ELSE <<Size(body[i])>>])

\* A list of tasks, artifacts or attachments is refused when SOAR sent no list; else it has every
\* object that SOAR sent, in order, and counts them.  What is no object is neither listed nor told.
ListsAreWhole ==
    asked.kind = "full" =>
        LET Whole(answer, body, Size(_)) ==
                IF body = Malformed THEN answer.error # None
                ELSE answer.error = None /\ answer.rows = SentObjects(body, Size) /\ answer.count = Len(answer.rows)
        IN  /\ Whole(soar_list_tasks(asked.rows.tasks), asked.rows.tasks, summarise_task)
            /\ Whole(soar_list_artifacts(asked.rows.artifacts), asked.rows.artifacts, summarise_artifact)
            /\ Whole(soar_list_attachments(asked.rows.attachments), asked.rows.attachments, summarise_attachment)

\* An answer to soar_get_incident_full against the lists of what it may show (BudgetIsKept).
Budgeted(answer, incident, sizes) ==
    LET AtCaps(caps) == WithBudget(AssembleFull(incident, sizes, caps)).size
        cut == [c \in Collections |-> Len(sizes[c]) - Len(answer.data.shown[c])]
    IN  IF answer.error # None THEN AtCaps([c \in Collections |-> 1]) > FullBudget
        ELSE /\ answer.chars <= FullBudget
             /\ answer.chars = Chars(answer.data, answer.chars)
             /\ \A c \in Collections :
                  /\ IsPrefix(answer.data.shown[c], sizes[c])
                  /\ answer.data.counts[c] = Len(sizes[c])
                  /\ c \in DOMAIN answer.data.omitted <=> cut[c] > 0
                  /\ cut[c] > 0 => answer.data.omitted[c] = cut[c]
                  /\ AtCaps(FullCaps) <= FullBudget => cut[c] = 0 \/ Len(answer.data.shown[c]) = FullCaps[c]
                  /\ answer.reductions > 0 =>
                       AtCaps([d \in Collections |-> 2 * Len(answer.data.shown[d]) + 1]) > FullBudget

\* The whole incident is within its budget and says its own size truly, whatever the digits of
\* that number add to it.  What it leaves out of the objects SOAR sent it counts: while the first
\* rows of each, as many as its cap allows, fit, it leaves out no other, and else not so many that
\* twice as many would fit.  It is refused only when one row of each is too much or SOAR sent
\* something else than a list.
BudgetIsKept ==
    asked.kind = "full" =>
        LET rows   == asked.rows
            answer == soar_get_incident_full(asked.incident, asked.custom, rows)
        IN  IF \E c \in Collections : rows[c] = Malformed THEN answer.error # None
            ELSE Budgeted(answer, summarise_incident(asked.incident, asked.custom),
                          [tasks |-> SentObjects(rows.tasks, summarise_task), artifacts |-> SentObjects(rows.artifacts, summarise_artifact),
                           comments |-> SentObjects(rows.comments, summarise_comment),
                           attachments |-> SentObjects(rows.attachments, summarise_attachment)])

\* Every note SOAR sent as an object is listed once, after its parent, and a note's answers before
\* its next sibling, whatever else stands in the lists.
NotesInOrder ==
    asked.kind = "notes" =>
        LET parent == asked.parent
            Under(i) == SelectSeq(<<1, 2, 3, 4>>, LAMBDA j : parent[j] = i)
            Sent(i)  == IF i \in asked.mixed
                        THEN <<Malformed>> \o FlattenSeq([k \in DOMAIN Under(i) |-> <<Under(i)[k], Malformed>>])
                        ELSE IF Under(i) = <<>> THEN asked.bare ELSE Under(i)
            answer == soar_list_comments(Sent(0), [i \in 1..4 |-> Sent(i)])
            flat   == answer.comments
            Place(i) == CHOOSE k \in 1..4 : flat[k] = i
            Above == [i \in 1..4 |-> LET p == parent[i]
                                         q == IF p = 0 THEN 0 ELSE parent[p]
                                         r == IF q = 0 THEN 0 ELSE parent[q] IN {i, p, q, r} \ {0}]
        IN  /\ answer.error = None /\ answer.count = 4 /\ Len(flat) = 4 /\ ToSet(flat) = 1..4
            /\ \A i, j \in 1..4 : i # j /\ i \in Above[j] => Place(i) < Place(j)
            /\ \A i, j \in 1..4 : parent[i] = parent[j] /\ i < j =>
                 \A k \in 1..4 : i \in Above[k] => Place(k) < Place(j)

\* A search asks SOAR for the incidents it was asked for: whichever conditions an incident meets,
\* it matches what is sent if and only if it matches one of the groups, or there are none; a
\* search that cannot be sent as it is, is refused.
SearchAsAsked ==
    asked.kind = "search" =>
        LET answer == search(asked.filters, <<>>, asked.start, asked.length)
            Means(c) == <<c.field, c.method, IF c.method = "has_a_value" THEN None ELSE c.value>>
            Matches(filters, met) ==
                LET groups == {ToSet(filters[g]) : g \in DOMAIN filters} \ {{}}
                IN  groups = {} \/ \E group \in groups : {Means(c) : c \in group} \subseteq met
            all == UNION {{Means(c) : c \in ToSet(asked.filters[g])} : g \in DOMAIN asked.filters}
        IN  IF answer.error # None THEN \E c \in all : c[2] = "other"
            ELSE /\ \A met \in SUBSET all : Matches(answer.filters, met) <=> Matches(asked.filters, met)
                 /\ answer.start \in Nat /\ answer.length \in 1..MaxResults

\* The incidents called similar share an artifact with this one, are never this one, and none
\* that shares more is left out for one that shares less; when the artifacts of one of them, or
\* one of them, cannot be read, there is no answer.
SimilarAreRanked ==
    asked.kind = "similar" =>
        LET answer == soar_find_similar_incidents(9, asked.own, asked.page, asked.limit, asked.most)
            Keys(body) == {<<r.type, IF r.value = "A" THEN "a" ELSE r.value>> : r \in ToSet(body) \ {Malformed}}
            own    == {k \in Keys(asked.own) : k[1] # None /\ k[2] # None}
            Shared(c) == Cardinality(own \cap Keys(c.artifacts))
            seen   == {asked.page[i] : i \in 1..(CASE asked.most = None -> 3 [] asked.most = 0 -> 1 [] OTHER -> asked.most)}
            others == {c \in seen \ {Malformed} : c.id \notin {None, 9}}
            told   == {answer.matches[i].id : i \in DOMAIN answer.matches}
        IN  IF asked.own = Malformed THEN answer.error # None
            ELSE IF own # {} /\ (Malformed \in seen \/ \E c \in others : c.artifacts = Malformed) THEN answer.error # None
            ELSE /\ answer.error = None
                 /\ \A i \in DOMAIN answer.matches :
                      \E c \in others : c.id = answer.matches[i].id /\ Shared(c) = answer.matches[i].score /\ Shared(c) > 0
                 /\ \A c \in others, i \in DOMAIN answer.matches : c.id \notin told => Shared(c) <= answer.matches[i].score
                 /\ own # {} /\ Len(answer.matches) < (IF asked.limit < 1 THEN 1 ELSE asked.limit) =>
                      \A c \in others : Shared(c) > 0 => c.id \in told

\* An incident's list of actions is told whole or not at all.
ActionsAreWhole ==
    asked.kind = "actions" =>
        LET answer == soar_list_incident_actions(asked.raw, [a \in ToSet(asked.raw) |-> None])
        IN  IF Malformed \in ToSet(asked.raw) THEN answer.error # None
            ELSE answer.error = None /\ [i \in DOMAIN answer.actions |-> answer.actions[i].id] = [i \in DOMAIN asked.raw |-> asked.raw[i].id]
================================================================================
