----------------------------- MODULE IncidentReads -----------------------------
(***************************************************************************)
(* The tools that read an incident and what belongs to it                    *)
(* (tools/investigation.py, tools/incidents.py, tools/actions.py): the lists,  *)
(* the whole incident within a budget of characters, and the incidents that    *)
(* share artifacts with it.                                                *)
(*                                                                         *)
(* Of a text only its length matters.                                       *)
(***************************************************************************)
EXTENDS Integers, Sequences, FiniteSets, SequencesExt, Values

CONSTANTS
    FullBudget,      \* FULL_INCIDENT_BUDGET_CHARS
    FullCaps,        \* FULL_INCIDENT_CAPS: collection |-> rows
    TextLimit,       \* NAME_LIMIT, COMMENT_LIMIT, ARTIFACT_VALUE_LIMIT, ...
    Marker,          \* the characters of "... [truncated n chars]"
    SimilarMax,      \* SIMILAR_MAX_LIMIT
    MaxResults       \* SOAR_MAX_RESULTS

Collections == {"tasks", "artifacts", "comments", "attachments"}

Lower(a, b) == IF a < b THEN a ELSE b

\* trim: the marker comes on top of the limit.
Trimmed(n) == IF n <= TextLimit THEN n ELSE TextLimit + Marker

summarise_comment(c)    == Trimmed(c.text)
summarise_artifact(a)   == Trimmed(a.text) + Trimmed(a.description)
summarise_attachment(a) == Trimmed(a.text)
summarise_task(t)       == Trimmed(t.text) + Trimmed(t.description)

\* summarise_incident: the documented fields and the custom fields asked for.
summarise_incident(i, custom) ==
    FoldLeft(LAMBDA sum, f : sum + Trimmed(i.custom[f]), i.text, SetToSeq(custom))

\* A slip: a list ends at the first row that is no object.
ObjectsInFront(body) ==
    LET end == SelectInSeq(body, LAMBDA row : row = Malformed)
    IN  IF end = 0 THEN body ELSE SubSeq(body, 1, end - 1)

\* The lists of the client: what is no list is an error; of its rows those that are no objects
\* are left out, and nothing says so.
Objects(body) == SelectSeq(body, LAMBDA row : row # Malformed)

\* The rows as the answers tell them.
Tasks(body)       == LET rows == Objects(body) IN [i \in DOMAIN rows |-> summarise_task(rows[i])]
Artifacts(body)   == LET rows == Objects(body) IN [i \in DOMAIN rows |-> summarise_artifact(rows[i])]
Notes(body)       == LET rows == Objects(body) IN [i \in DOMAIN rows |-> summarise_comment(rows[i])]
Attachments(body) == LET rows == Objects(body) IN [i \in DOMAIN rows |-> summarise_attachment(rows[i])]

ClientList(body, rows) ==
    IF body = Malformed THEN [error |-> "malformed"]
    ELSE [error |-> None, count |-> Len(rows), rows |-> rows]

soar_list_tasks(body)       == ClientList(body, Tasks(body))
soar_list_artifacts(body)   == ClientList(body, Artifacts(body))
soar_list_attachments(body) == ClientList(body, Attachments(body))

--------------------------------------------------------------------------------
(* Notes: a forest, as children of each note, to a list. *)

\* flatten_comments: the stack, and what it has given so far.  Children that are no list are
\* none, and a child that is no object is left out.
Flattened(roots, children) ==
    LET Under(note) == IF children[note] = Malformed THEN <<>> ELSE Objects(children[note])
        Step(s) == IF s.stack = <<>> THEN s
                   ELSE [out |-> Append(s.out, Head(s.stack)), stack |-> Under(Head(s.stack)) \o Tail(s.stack)]
        After[k \in 0..Cardinality(DOMAIN children)] ==
            IF k = 0 THEN [out |-> <<>>, stack |-> roots] ELSE Step(After[k - 1])
    IN  After[Cardinality(DOMAIN children)].out

soar_list_comments(body, children) ==
    IF body = Malformed THEN [error |-> "malformed"]
    ELSE LET flat == Flattened(Objects(body), children)
         IN  [error |-> None, count |-> Len(flat), comments |-> flat]

--------------------------------------------------------------------------------
(* soar_get_incident_full *)

Total(sizes) == FoldLeft(LAMBDA sum, n : sum + n, 0, sizes)

Capped(rows, cap) == SubSeq(rows, 1, Lower(cap, Len(rows)))

\* _assemble_full: what is shown, and how many rows are left out of what.
AssembleFull(incident, collections, caps) ==
    [incident |-> incident,
     shown    |-> [c \in Collections |-> Capped(collections[c], caps[c])],
     counts   |-> [c \in Collections |-> Len(collections[c])],
     omitted  |-> [c \in {d \in Collections : Len(collections[d]) > caps[d]} |-> Len(collections[c]) - caps[c]]]

Digits(n) == IF n < 10 THEN 1
             ELSE IF n < 100 THEN 2
             ELSE IF n < 1000 THEN 3
             ELSE IF n < 10000 THEN 4
             ELSE 5

\* The characters of the answer; its budget block states a number of them.
Chars(data, stated) ==
    data.incident + FoldSet(LAMBDA c, sum : sum + Total(data.shown[c]), 0, Collections)
    + 2 * Cardinality(DOMAIN data.omitted) + Digits(stated)

\* A slip: the number is what the answer had before the number was put into it.
StatedOnce(data) == LET size == Chars(data, 0) IN [stated |-> size, size |-> Chars(data, size)]

\* _with_budget: set until it stops changing, four times at most.
WithBudget(data) ==
    LET Round(last, k) == IF last.stated = last.size THEN last
                          ELSE [stated |-> last.size, size |-> Chars(data, last.size)]
    IN  FoldLeft(Round, [stated |-> 0, size |-> Chars(data, 0)], <<1, 2, 3, 4>>)

\* A slip: all is cut to one row at once.
HalvedToOne(caps) == [c \in Collections |-> 1]

Halved(caps) == [c \in Collections |-> IF caps[c] \div 2 > 1 THEN caps[c] \div 2 ELSE 1]

\* What each collection takes in the answer, row by row; the notes have no answers here.
Sizes(bodies) ==
    [tasks       |-> Tasks(bodies.tasks),       artifacts   |-> Artifacts(bodies.artifacts),
     comments    |-> Notes(bodies.comments),    attachments |-> Attachments(bodies.attachments)]

\* The caps are halved until the answer fits or each is one.
soar_get_incident_full(whole, custom, bodies) ==
    LET incident    == summarise_incident(whole, custom)
        collections == Sizes(bodies)
        Try(caps, k) ==
            LET data   == AssembleFull(incident, collections, caps)
                budget == WithBudget(data)
            IN  [caps |-> caps, data |-> data, size |-> budget.size, stated |-> budget.stated, reductions |-> k]
        Reduced(last, k) ==
            IF last.size <= FullBudget \/ \A c \in Collections : last.caps[c] = 1 THEN last ELSE Try(Halved(last.caps), k)
        Most == CHOOSE n \in {FullCaps[c] : c \in Collections} : \A c \in Collections : FullCaps[c] <= n
        last == FoldLeft(Reduced, Try(FullCaps, 0), [k \in 1..Most |-> k])
    IN  IF \E c \in Collections : bodies[c] = Malformed THEN [error |-> "malformed"]
        ELSE IF last.size > FullBudget \/ last.stated # last.size THEN [error |-> "too large"]
        ELSE [error |-> None, data |-> last.data, chars |-> last.stated, reductions |-> last.reductions]

--------------------------------------------------------------------------------
(* soar_search_incidents: groups of conditions [field, method, value]. *)

SearchMethods == {"equals", "contains", "has_a_value", "does_not_have_a_value"}
Unary         == {"has_a_value", "does_not_have_a_value"}

\* A slip: a condition without a value is left out.
ConditionsWithValue(group) == SelectSeq(group, LAMBDA c : c.method \in Unary \/ c.value # None)

\* _condition: no value where the method has none.
Conditions(group) == [i \in DOMAIN group |-> IF group[i].method \in Unary THEN [group[i] EXCEPT !.value = None] ELSE group[i]]

\* As many as were asked for, at least one, at most SOAR_MAX_RESULTS.
SearchLength(length) ==
    IF length = None THEN MaxResults ELSE IF length < 1 THEN 1 ELSE Lower(length, MaxResults)

\* IncidentsClient.search: groups without conditions are not sent.
search(filters, sorts, start, length) ==
    IF \/ \E group \in ToSet(filters) : \E c \in ToSet(group) : c.method \notin SearchMethods \/ c.field = None
       \/ \E i \in DOMAIN sorts : sorts[i].type \notin {"asc", "desc"} \/ sorts[i].field = None
    THEN [error |-> "validation"]
    ELSE [error |-> None, sorts |-> sorts, start |-> IF start < 0 THEN 0 ELSE start, length |-> SearchLength(length),
          filters |-> SelectSeq([g \in DOMAIN filters |-> Conditions(filters[g])], LAMBDA group : group # <<>>)]

--------------------------------------------------------------------------------
(* soar_find_similar_incidents *)

\* Types and values are compared without regard to case and outer spaces.
Folded(v) == IF v = "A" THEN "a" ELSE v

\* _artifact_keys
ArtifactKeys(rows) ==
    {<<Folded(r.type), Folded(r.value)>> : r \in {s \in ToSet(rows) : s.type # None /\ s.value # None}}

Better(a, b) ==
    LET Date(m) == IF m.date = None THEN 0 ELSE m.date
    IN  \/ a.score > b.score
        \/ a.score = b.score /\ Date(a) > Date(b)
        \/ a.score = b.score /\ Date(a) = Date(b) /\ a.id < b.id

\* A slip: the incident itself is among the candidates.
CandidatesWithItself(page, id) == SelectSeq(page, LAMBDA c : c.id # None)

Candidates(page, id) == SelectSeq(page, LAMBDA c : c.id # None /\ c.id # id)

\* latest is what SOAR has, the latest first.  A candidate that is no object is not skipped.
soar_find_similar_incidents(id, artifacts, latest, limit, max_candidates) ==
    LET source == ArtifactKeys(Objects(artifacts))
        page   == SubSeq(latest, 1, Lower(SearchLength(max_candidates), Len(latest)))
        some   == Candidates(page, id)
        Match(c) == [id |-> c.id, date |-> c.date, score |-> Cardinality(source \cap ArtifactKeys(Objects(c.artifacts)))]
        ranked == SetToSortSeq({Match(c) : c \in {d \in ToSet(some) : Match(d).score > 0}}, Better)
        cap    == IF limit < 1 THEN 1 ELSE Lower(limit, SimilarMax)
    IN  IF artifacts = Malformed THEN [error |-> "malformed"]
        ELSE IF source = {} THEN [error |-> None, examined |-> 0, matches |-> <<>>]
        ELSE IF Malformed \in ToSet(page) \/ \E c \in ToSet(some) : c.artifacts = Malformed
        THEN [error |-> "malformed"]
        ELSE [error |-> None, examined |-> Len(some), matches |-> SubSeq(ranked, 1, Lower(cap, Len(ranked)))]

--------------------------------------------------------------------------------
(* The actions an incident carries. *)

\* _carried_actions: all of them, or an error; an entry that is no action is not skipped.
CarriedActions(raw) ==
    IF raw = Malformed \/ \E i \in DOMAIN raw : raw[i] = Malformed THEN [error |-> "malformed"]
    ELSE [error |-> None, actions |-> raw]

\* soar_list_incident_actions: each with its classification if a policy is loaded; none can be
\* invoked.
soar_list_incident_actions(raw, classified) ==
    LET carried == CarriedActions(raw)
    IN  IF carried.error # None THEN carried
        ELSE [error |-> None,
              actions |-> [i \in DOMAIN carried.actions |->
                             [id |-> carried.actions[i].id, invocable |-> FALSE, policy |-> classified[carried.actions[i]]]]]
================================================================================
