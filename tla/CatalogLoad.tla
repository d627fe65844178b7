------------------------------ MODULE CatalogLoad ------------------------------
(***************************************************************************)
(* One load of the catalog by CollectionsBackend (catalog/backends.py): the   *)
(* requests it sends to SOAR one after the other (client/discovery.py), while *)
(* people go on editing what it reads.  A load has the functions' list and    *)
(* each function by its id, the fields type by type, the playbooks page by    *)
(* page and every other section in one answer.                              *)
(*                                                                         *)
(* A row is an object's id, the name the catalog would keep it under, which  *)
(* verified keys it misses and, of a field, the type it is a field of.       *)
(***************************************************************************)
EXTENDS Integers, Sequences, FiniteSets, SequencesExt

CONSTANTS
    Ids, Names,  \* of what SOAR has
    Rows,        \* section |-> what SOAR has of it when the load begins, in its order
    NewRows,     \* section |-> the rows somebody may add to it
    NewNames,    \* what somebody may rename an object to
    PageLength,  \* PLAYBOOK_PAGE_LENGTH
    MaxPages,    \* MAX_PLAYBOOK_PAGES
    MaxRows,     \* MAX_FUNCTIONS, MAX_WORKFLOWS
    MaxEdits     \* bound on what people change during the load

\* The lists the API knows of, in the order the load reads them.
Order == <<"functions", "scripts", "message_destinations", "incident_types", "phases", "fields",
           "datatables", "playbooks", "rules", "groups", "workflows">>

Sections == ToSet(Order)

FIELD_TYPES == <<"incident", "task", "artifact">>

VARIABLES
    soar,        \* section |-> what SOAR has of it now
    reading,     \* the section being read, an index of Order
    requests,    \* the requests sent for it so far
    listed,      \* the ids of the functions listed, not yet read
    rows,        \* the rows of it read so far
    content,     \* the sections read: section |-> name |-> id
    outcome,     \* "loading", "loaded" or "failed"
    throughout,  \* history: section |-> the ids that have been there since the load began
    renamed,     \* history: section |-> the ids of what somebody renamed meanwhile
    removed,     \* history: somebody removed something
    edits        \* history: the number of changes

progress == <<reading, requests, listed, rows, content, outcome>>
history  == <<throughout, renamed, removed, edits>>
loadVars == <<soar, progress, history>>

IdsOf(some) == {some[i].id : i \in DOMAIN some}

LoadInit ==
    /\ soar = Rows
    /\ reading = 1 /\ requests = 0 /\ listed = <<>> /\ rows = <<>>
    /\ content = [s \in {} |-> {}]
    /\ outcome = "loading"
    /\ throughout = [s \in Sections |-> IdsOf(Rows[s])]
    /\ renamed = [s \in Sections |-> {}]
    /\ removed = FALSE /\ edits = 0

--------------------------------------------------------------------------------
(* The keys a row must have, of the type they were verified with. *)

FunctionKeys    == {"id", "name", "uuid", "view_items"}
ScriptKeys      == {"id", "name", "programmatic_name", "uuid", "language", "object_type", "enabled"}
DestinationKeys == {"id", "name", "programmatic_name", "uuid", "destination_type", "expect_ack"}
TypeKeys        == {"id", "name", "uuid", "enabled", "hidden", "system"}
PhaseKeys       == {"id", "name", "uuid", "enabled", "order"}
FieldKeys       == {"name", "input_type"}
TableKeys       == {"id", "type_name", "uuid", "fields", "column.name", "column.input_type"}
RuleKeys        == {"id", "name", "uuid", "type", "object_type", "enabled"}
GroupKeys       == {"id", "name", "uuid", "enabled"}
PlaybookKeys    == {"id", "name", "uuid", "status", "activation_type", "object_type", "type"}
WorkflowKeys    == {"content", "xml", "workflow_id", "programmatic_name", "name", "object_type"}

Required ==
    [functions |-> FunctionKeys, scripts |-> ScriptKeys, message_destinations |-> DestinationKeys,
     incident_types |-> TypeKeys, phases |-> PhaseKeys, fields |-> FieldKeys, datatables |-> TableKeys,
     playbooks |-> PlaybookKeys, rules |-> RuleKeys, groups |-> GroupKeys, workflows |-> WorkflowKeys]

Row == [id : Ids, name : Names, missing : SUBSET (UNION {Required[s] : s \in Sections}),
        type : ToSet(FIELD_TYPES) \cup {"none"}]

\* Objects have ids of their own, and fields a type that the load asks for.  What is added is
\* an object of a section too.
ASSUME LoadAssumption ==
    /\ Rows \in [Sections -> Seq(Row)] /\ DOMAIN NewRows \subseteq Sections
    /\ \A s \in Sections : \A i, j \in DOMAIN Rows[s] : Rows[s][i].id = Rows[s][j].id => i = j
    /\ \A s \in DOMAIN NewRows : NewRows[s] \subseteq Row
    /\ \A i \in DOMAIN Rows["fields"] : Rows["fields"][i].type \in ToSet(FIELD_TYPES)
    /\ "fields" \in DOMAIN NewRows => \A row \in NewRows["fields"] : row.type \in ToSet(FIELD_TYPES)
    /\ NewNames \subseteq Names
    /\ PageLength \in Nat \ {0} /\ MaxPages \in Nat /\ MaxRows \in Nat /\ MaxEdits \in Nat

WellFormed(section, some) == \A i \in DOMAIN some : some[i].missing \cap Required[section] = {}

\* A slip: of two objects under one name, the later one is kept.
KeyedLast(some) ==
    {[n \in {some[i].name : i \in DOMAIN some} |-> some[SelectLastInSeq(some, LAMBDA r : r.name = n)].id]}

\* _keyed: name |-> id, unless two entries share one name.
Keyed(some) ==
    IF \E i, j \in DOMAIN some : i # j /\ some[i].name = some[j].name THEN {}
    ELSE {[n \in {some[i].name : i \in DOMAIN some} |-> some[CHOOSE i \in DOMAIN some : some[i].name = n].id]}

--------------------------------------------------------------------------------

At(section) == outcome = "loading" /\ Order[reading] = section

\* The load raises: nothing of it is kept.
Fails ==
    /\ outcome' = "failed"
    /\ UNCHANGED <<soar, reading, requests, listed, rows, content, history>>

\* The section is complete: its rows are parsed and keyed, and the next one is read; after the
\* last one the catalog is.
Loaded(some) ==
    LET section == Order[reading]
    IN  IF ~WellFormed(section, some) \/ Keyed(some) = {} THEN Fails
        ELSE /\ \E specs \in Keyed(some) :
                  content' = [s \in DOMAIN content \cup {section} |-> IF s = section THEN specs ELSE content[s]]
             /\ rows' = <<>> /\ listed' = <<>> /\ requests' = 0
             /\ IF reading = Len(Order) THEN outcome' = "loaded" /\ UNCHANGED reading
                ELSE reading' = reading + 1 /\ UNCHANGED outcome
             /\ UNCHANGED <<soar, history>>

Goes(newRows, newListed) ==
    /\ rows' = newRows /\ listed' = newListed /\ requests' = requests + 1
    /\ UNCHANGED <<soar, reading, content, outcome, history>>

ListFunctions ==
    /\ At("functions") /\ requests = 0
    /\ LET all == soar.functions
       IN  IF Len(all) > MaxRows \/ \E i \in DOMAIN all : "id" \in all[i].missing THEN Fails
           ELSE Goes(<<>>, [i \in DOMAIN all |-> all[i].id])

\* The definitions of the functions' inputs, before any function is read.
ReadInputs == At("functions") /\ requests = 1 /\ Goes(<<>>, listed)

\* One function of the list, as it is now; one that is gone fails the load.
ReadFunction ==
    /\ At("functions") /\ requests >= 2 /\ listed # <<>>
    /\ LET now == {i \in DOMAIN soar.functions : soar.functions[i].id = Head(listed)}
       IN  \/ now = {} /\ Fails
           \/ \E i \in now :
                IF ~WellFormed("functions", <<soar.functions[i]>>) THEN Fails
                ELSE Goes(Append(rows, soar.functions[i]), Tail(listed))

FunctionsRead == At("functions") /\ requests >= 2 /\ listed = <<>> /\ Loaded(rows)

\* Some rows in some order.
InOrder(some) == {answer \in [1..Cardinality(some) -> some] : ToSet(answer) = some}

\* The fields of incidents, of tasks and of artifacts: a request each.
ReadFields ==
    /\ At("fields")
    /\ LET type == FIELD_TYPES[requests + 1]
       IN  \E answer \in InOrder({row \in ToSet(soar.fields) : row.type = type}) :
             IF requests + 1 < Len(FIELD_TYPES) THEN Goes(rows \o answer, <<>>) ELSE Loaded(rows \o answer)

\* A page of the playbooks, and how many there are.
ReadPage ==
    /\ At("playbooks")
    /\ LET start == requests * PageLength
           total == Len(soar.playbooks)
           items == SubSeq(soar.playbooks, start + 1, IF start + PageLength < total THEN start + PageLength ELSE total)
           read  == rows \o items
       IN  IF items = <<>> \/ Len(read) >= total
           THEN IF Len(read) # total THEN Fails ELSE Loaded(read)
           ELSE IF requests + 1 = MaxPages THEN Fails ELSE Goes(read, <<>>)

\* Any other section: its rows in one answer.
ReadSection ==
    /\ \E s \in Sections \ {"functions", "fields", "playbooks", "workflows"} : At(s)
    /\ Loaded(soar[Order[reading]])

ReadWorkflows ==
    /\ At("workflows")
    /\ IF Len(soar.workflows) > MaxRows THEN Fails ELSE Loaded(soar.workflows)

\* A request fails, or the caller is cancelled.
RequestFails == outcome = "loading" /\ Fails

--------------------------------------------------------------------------------
(* People, meanwhile. *)

Edited(section, some) ==
    /\ outcome = "loading" /\ edits < MaxEdits
    /\ soar' = [soar EXCEPT ![section] = some]
    /\ edits' = edits + 1
    /\ UNCHANGED progress

\* A new object may come anywhere in SOAR's order.
Add ==
    \E s \in DOMAIN NewRows : \E row \in NewRows[s] : \E i \in 1..(Len(soar[s]) + 1) :
        /\ row.id \notin IdsOf(soar[s])
        /\ Edited(s, InsertAt(soar[s], i, row))
        /\ UNCHANGED <<throughout, renamed, removed>>

Delete ==
    \E s \in DOMAIN NewRows : \E i \in DOMAIN soar[s] :
        /\ Edited(s, RemoveAt(soar[s], i))
        /\ throughout' = [throughout EXCEPT ![s] = @ \ {soar[s][i].id}]
        /\ removed' = TRUE
        /\ UNCHANGED renamed

\* An object is given another name, that of another object of the section perhaps.
Rename ==
    \E s \in DOMAIN NewRows : \E i \in DOMAIN soar[s] : \E name \in NewNames :
        /\ Edited(s, [soar[s] EXCEPT ![i].name = name])
        /\ renamed' = [renamed EXCEPT ![s] = @ \cup {soar[s][i].id}]
        /\ UNCHANGED <<throughout, removed>>

LoadNext ==
    \/ ListFunctions \/ ReadInputs \/ ReadFunction \/ FunctionsRead
    \/ ReadFields \/ ReadPage \/ ReadSection \/ ReadWorkflows \/ RequestFails
    \/ Add \/ Delete \/ Rename

LoadSpec == LoadInit /\ [][LoadNext]_loadVars

--------------------------------------------------------------------------------

KeptAs(s, id) == {n \in DOMAIN content[s] : content[s][n] = id}

Whole == \A s \in Sections : \A id \in throughout[s] : Cardinality(KeptAs(s, id)) = 1

\* A load yields a complete catalog or raises: whatever SOAR had of a section from the first
\* request to the last is in it, once.
CatalogIsWhole == outcome = "loaded" => Whole

\* As long as nothing is removed meanwhile, whatever is added, wherever, and whatever is
\* renamed, nothing that was there throughout is missed.  It is in the catalog once, under
\* one name, unless it is a playbook that was renamed: playbooks are cut into pages by their
\* position and kept by their name, so one that was moved to the next page and renamed
\* between the two requests is read twice, under both names, and the pages still add up.
WholeUnlessRemoved ==
    outcome = "loaded" /\ ~removed =>
        \A s \in Sections : \A id \in throughout[s] :
            /\ KeptAs(s, id) # {}
            /\ s # "playbooks" \/ id \notin renamed[s] => Cardinality(KeptAs(s, id)) = 1
================================================================================
