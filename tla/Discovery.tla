------------------------------- MODULE Discovery -------------------------------
(***************************************************************************)
(* The tools that show SOAR's configuration (tools/discovery.py) from the     *)
(* cached catalog: lists in pages, single objects by name or by id, and what   *)
(* is shown of them (tools/projection.py).  A script's body, a workflow's XML  *)
(* and a playbook are read from SOAR once more (client/discovery.py), where    *)
(* the object may have changed since the catalog was loaded.                  *)
(*                                                                         *)
(* Names are numbers, in their order; the texts a name contains are a set.     *)
(* An argument of the wrong type or range is Malformed.                       *)
(***************************************************************************)
EXTENDS Integers, Sequences, FiniteSets, SequencesExt, Values

CONSTANTS
    PageMax,            \* DISCOVERY_PAGE_MAX
    ListBudget,         \* DISCOVERY_LIST_BUDGET_CHARS
    InputValuesMax, FunctionValuesMax, FieldValuesMax, TableColumnsMax,
    ConditionsMax,      \* RULE_CONDITIONS_MAX, PLAYBOOK_CONDITIONS_MAX
    NodesShownMax, EdgesShownMax

Fault(kind) == [error |-> kind]

Least(a, b) == IF a < b THEN a ELSE b

\* How many of n are shown, and how many are only counted.
Cut(n, max) == [shown |-> Least(n, max), omitted |-> n - Least(n, max)]

--------------------------------------------------------------------------------
(* The catalog's own objects: what the parsers keep of select values. *)

SecretTypes    == {"password"}
PrincipalTypes == {"select_owner", "multiselect_members"}
ValuelessTypes == SecretTypes \cup PrincipalTypes

\* _select_values: no value of a secret or of people, and none marked as a principal.
SelectValues(row) ==
    IF row.type \in ValuelessTypes THEN 0 ELSE Cardinality({i \in DOMAIN row.values : row.values[i] = "value"})

parse_function_input(row) ==
    [type |-> row.type, required |-> row.required, values |-> SelectValues(row),
     tooltip |-> row.tooltip /\ row.type \notin SecretTypes]

\* The models' own rules, by which a load fails that keeps what it must not.
FunctionInputAccepted(input) ==
    /\ input.type \in SecretTypes => input.values = 0 /\ ~input.tooltip
    /\ input.type \in PrincipalTypes => input.values = 0

FieldAccepted(field) == field.type \in ValuelessTypes => field.values = 0

DetailAccepted(detail) ==
    /\ detail.structure = "refused" => detail.nodes = 0 /\ detail.edges = 0 /\ detail.problems = 0
    /\ detail.activation = "absent" => detail.conditions = 0 /\ detail.unreadable = 0

\* A slip: an input two items name is shown twice.
ParseEachItem(items, inputs) ==
    LET known == SelectSeq(items, LAMBDA u : \E i \in DOMAIN inputs : inputs[i].uuid = u)
    IN  [inputs |-> known, unresolved |-> Len(items) - Len(known)]

\* parse_function: the inputs its items name, in their order and each once; what names none is
\* counted.  Of two definitions with one uuid the later one is meant.
parse_function(items, inputs) ==
    LET Named(u)  == inputs[SelectLastInSeq(inputs, LAMBDA input : input.uuid = u)]
        known     == SelectSeq(items, LAMBDA u : \E i \in DOMAIN inputs : inputs[i].uuid = u)
        Add(seen, u) == IF \E i \in DOMAIN seen : Named(seen[i]) = Named(u) THEN seen ELSE Append(seen, u)
    IN  [inputs |-> FoldLeft(Add, <<>>, known), unresolved |-> Len(items) - Len(known)]

--------------------------------------------------------------------------------
(* What is shown of an object in a list. *)

Identity(o) == [key |-> o.key, id |-> o.id]

summarise_function(o) == Identity(o) @@ [inputs |-> Len(o.inputs), unresolved |-> o.unresolved]
summarise_script(o) == Identity(o)
summarise_message_destination(o) == Identity(o)
summarise_incident_type(o) == Identity(o)
summarise_phase(o) == Identity(o) @@ [order |-> o.order]
summarise_datatable(o) == Identity(o) @@ [columns |-> Cut(o.columns, TableColumnsMax)]
summarise_field(o) ==
    Identity(o) @@ [values |-> Cut(IF o.type \in ValuelessTypes THEN 0 ELSE o.values, FieldValuesMax)]
summarise_rule(o) == Identity(o) @@ [conditions |-> o.conditions]
summarise_playbook(o) == Identity(o)

\* _workflow_counts
Counts(o) ==
    [nodes |-> o.nodes, edges |-> o.edges, calls |-> Len(o.calls), problems |-> o.problems,
     unresolved |-> Cardinality({i \in DOMAIN o.calls : o.calls[i] = None})]

summarise_workflow(o) ==
    Identity(o) @@ [structure |-> o.structure, functions |-> ToSet(o.calls) \ {None}, counts |-> Counts(o)]

--------------------------------------------------------------------------------
(* Lists: _section, _page and the tools. *)

\* What a section shows of an object, and where it may be found by more than its key.
Row(section, o) ==
    CASE section = "functions"            -> summarise_function(o)
      [] section = "scripts"              -> summarise_script(o)
      [] section = "message_destinations" -> summarise_message_destination(o)
      [] section = "incident_types"       -> summarise_incident_type(o)
      [] section = "datatables"           -> summarise_datatable(o)
      [] section = "rules"                -> summarise_rule(o)
      [] section = "workflows"            -> summarise_workflow(o)
      [] section = "playbooks"            -> summarise_playbook(o)
      [] section = "phases"               -> summarise_phase(o)
      [] section = "fields"               -> summarise_field(o)

Named == {"functions", "scripts", "message_destinations", "datatables", "workflows", "playbooks", "fields"}

\* Phases by SOAR's order, then by name; everything else by its key.
Before(section, a, b) ==
    IF section = "phases" /\ a.order # b.order THEN a.order < b.order ELSE a.key < b.key

\* _text and _integer refuse what is not one.
QueryOK(q) ==
    /\ q.contains # Malformed /\ q.start # Malformed /\ q.length # Malformed
    /\ q.start >= 0 /\ (q.length = None \/ q.length >= 1)

\* _page: the objects that match, in order.
Matched(objects, section, q) ==
    SetToSortSeq({o \in objects : \/ q.contains = None
                                  \/ q.contains \in o.inKey
                                  \/ section \in Named /\ q.contains \in o.inNames},
                 LAMBDA a, b : Before(section, a, b))

\* How many rows fit the budget; the first always does.
Fitting(some) ==
    LET Used[n \in 0..Len(some)] == IF n = 0 THEN 0 ELSE Used[n - 1] + some[n].size
    IN  Cardinality({n \in DOMAIN some : n = 1 \/ Used[n] <= ListBudget})

\* A slip: the next page begins a page's length further on.
NextByLength(start, count, size, matched) == IF start + count < matched THEN start + size ELSE None

\* Where the next page begins: after the rows that were shown.
NextStart(start, count, size, matched) == IF start + count < matched THEN start + count ELSE None

Page(objects, section, q, max) ==
    LET cap   == Least(max, PageMax)
        size  == IF q.length = None THEN cap ELSE Least(q.length, cap)
        found == Matched(objects, section, q)
        here  == SubSeq(found, q.start + 1, Least(q.start + size, Len(found)))
        count == Fitting(here)
    IN  [error |-> None, total |-> Cardinality(objects), matched |-> Len(found), length |-> size,
         rows |-> [i \in 1..count |-> Row(section, here[i])],
         next_start |-> NextStart(q.start, count, size, Len(found))]

\* A section that the catalog could not establish is an error, never an empty list.
Listed(catalog, section, q, max) ==
    IF section \notin catalog.loaded THEN Fault("unavailable")
    ELSE IF ~QueryOK(q) THEN Fault("invalid")
    ELSE Page(catalog.objects[section], section, q, max)

soar_list_functions(catalog, q, max) == Listed(catalog, "functions", q, max)
soar_list_scripts(catalog, q, max)   == Listed(catalog, "scripts", q, max)
soar_list_message_destinations(catalog, q, max) == Listed(catalog, "message_destinations", q, max)
soar_list_incident_types(catalog, q, max) == Listed(catalog, "incident_types", q, max)
soar_list_datatables(catalog, q, max) == Listed(catalog, "datatables", q, max)
soar_list_rules(catalog, q, max)      == Listed(catalog, "rules", q, max)
soar_list_workflows(catalog, q, max)  == Listed(catalog, "workflows", q, max)
soar_list_playbooks(catalog, q, max)  == Listed(catalog, "playbooks", q, max)
soar_list_phases(catalog, q, max)     == Listed(catalog, "phases", q, max)

\* The fields of one type of object.
soar_list_fields(catalog, objectType, customOnly, q, max) ==
    LET wanted == {f \in catalog.objects.fields : f.of = objectType /\ (f.custom \/ ~customOnly)}
    IN  IF objectType \notin {"incident", "task", "artifact"} THEN Fault("invalid")
        ELSE Listed([catalog EXCEPT !.objects.fields = wanted], "fields", q, max)

\* Catalog.summary: counts per section, and what is not known.
Summary(catalog) ==
    [counts |-> [s \in catalog.loaded |-> Cardinality(catalog.objects[s])],
     not_loaded |-> DOMAIN catalog.objects \ catalog.loaded]

soar_refresh_catalog(catalog) == [error |-> None] @@ Summary(catalog)

--------------------------------------------------------------------------------
(* Single objects: _lookup. *)

\* Exactly one of a name and an id, an exact match or none.
Lookup(catalog, section, given) ==
    LET found == {o \in catalog.objects[section] :
                    given \in {[by |-> "key", is |-> o.key], [by |-> "id", is |-> o.id]}}
    IN  IF section \notin catalog.loaded THEN Fault("unavailable")
        ELSE IF given.by \in {"neither", "both"} THEN Fault("invalid")
        ELSE IF given.is = Malformed THEN Fault("invalid")
        ELSE IF found = {} THEN Fault("not found")
        ELSE IF Cardinality(found) > 1 THEN Fault("malformed")
        ELSE [error |-> None, found |-> CHOOSE o \in found : TRUE]

--------------------------------------------------------------------------------
(* What is shown of one object. *)

describe_function_input(input, left) ==
    [type |-> input.type, tooltip |-> input.tooltip /\ input.type \notin SecretTypes,
     values |-> Cut(IF input.type \in ValuelessTypes THEN 0 ELSE input.values, Least(left, InputValuesMax))]

\* A slip: each input has all of the values' allowance.
DescribeEach(described, input) == Append(described, describe_function_input(input, FunctionValuesMax))

\* Each input has what the ones before it left of the values.
DescribeNext(described, input) ==
    LET before == FoldLeft(LAMBDA sum, d : sum + d.values.shown, 0, described)
    IN  Append(described, describe_function_input(input, FunctionValuesMax - before))

describe_function(o) ==
    Identity(o) @@ [inputs |-> FoldLeft(DescribeNext, <<>>, o.inputs), complete |-> o.unresolved = 0]

describe_script(o) == summarise_script(o) @@ [uuid |-> o.uuid]

describe_rule(o) == [summarise_rule(o) EXCEPT !.conditions = Cut(o.conditions, ConditionsMax)]

\* _describe_graph
DescribeGraph(o) ==
    [structure |-> o.structure, counts |-> Counts(o), nodes |-> Cut(o.nodes, NodesShownMax),
     edges |-> Cut(o.edges, EdgesShownMax)]

describe_workflow(o) == Identity(o) @@ DescribeGraph(o)

describe_playbook(o) ==
    Identity(o) @@ DescribeGraph(o)
    @@ [activation |-> [state |-> o.activation, conditions |-> Cut(o.conditions, ConditionsMax),
                        unreadable |-> o.unreadable]]

--------------------------------------------------------------------------------
(* The second read.  soar is what SOAR has by now: rows at an id, with the id they state. *)

At(soar, id) == {r \in soar : r.at = id}

\* GET /scripts/{id}
script_source(soar, id) ==
    LET here == At(soar, id)
        row  == CHOOSE r \in here : TRUE
    IN  IF here = {} THEN Fault("not found")
        ELSE IF row.says # id \/ ~row.usable THEN Fault("malformed")
        ELSE [error |-> None, row |-> row]

\* GET /workflows, and the one row with the id.
workflow_source(soar, id) ==
    LET stating == {r \in soar : r.says = id}
        row     == CHOOSE r \in stating : TRUE
    IN  IF stating = {} THEN Fault("not found")
        ELSE IF Cardinality(stating) > 1 \/ ~row.usable THEN Fault("malformed")
        ELSE [error |-> None, row |-> row]

\* GET /playbooks/{id}
playbook(soar, id) ==
    LET here == At(soar, id)
        row  == CHOOSE r \in here : TRUE
    IN  IF here = {} THEN Fault("not found")
        ELSE IF row.says # id THEN Fault("malformed")
        ELSE [error |-> None, row |-> row]

\* _activation: absent only if SOAR says so; otherwise it must be all there.
ActivationOf(row) ==
    CASE row.activation = "none" -> [activation |-> "absent", conditions |-> 0, unreadable |-> 0]
      [] row.activation = "odd"  -> Malformed
      [] OTHER -> [activation |-> "present",
                   conditions |-> Cardinality({i \in DOMAIN row.conditions : row.conditions[i] = "readable"}),
                   unreadable |-> Cardinality({i \in DOMAIN row.conditions : row.conditions[i] # "readable"})]

\* parse_playbook_detail: the identity, the XML and the activation, or nothing.
PlaybookDetail(row) ==
    IF ~row.usable \/ ActivationOf(row) = Malformed THEN Fault("malformed")
    ELSE [error |-> None,
          detail |-> [key |-> row.key, id |-> row.says, uuid |-> row.uuid] @@ ActivationOf(row)
                     @@ (IF row.xml = "refused"
                         THEN [structure |-> "refused", nodes |-> 0, edges |-> 0, calls |-> <<>>, problems |-> 0]
                         ELSE [structure |-> "parsed", nodes |-> row.nodes, edges |-> row.edges,
                               calls |-> row.calls, problems |-> row.problems])]

--------------------------------------------------------------------------------

soar_get_function(catalog, given) ==
    LET o == Lookup(catalog, "functions", given)
    IN  IF o.error # None THEN o ELSE [error |-> None, shown |-> describe_function(o.found)]

soar_get_rule(catalog, given) ==
    LET o == Lookup(catalog, "rules", given)
    IN  IF o.error # None THEN o ELSE [error |-> None, shown |-> describe_rule(o.found)]

\* A slip: an object made again under the name is taken for the one the catalog describes.
SameByName(o, row) == o.key = row.key

\* The catalog's object and SOAR's are one.
Same(o, row) == o.key = row.key /\ o.uuid = row.uuid

soar_get_script(catalog, given, include_body, soar) ==
    LET o == Lookup(catalog, "scripts", given)
        s == script_source(soar, o.found.id)
    IN  IF o.error # None THEN o
        ELSE IF ~include_body THEN [error |-> None, shown |-> describe_script(o.found)]
        ELSE IF s.error # None THEN s
        ELSE IF ~Same(o.found, s.row) THEN Fault("conflict")
        ELSE [error |-> None, shown |-> describe_script(o.found), body |-> s.row]

\* A workflow is known by its name; whether the XML is the one summarised is told.
soar_get_workflow(catalog, given, include_raw, soar) ==
    LET o == Lookup(catalog, "workflows", given)
        w == workflow_source(soar, o.found.id)
    IN  IF o.error # None THEN o
        ELSE IF ~include_raw THEN [error |-> None, shown |-> describe_workflow(o.found)]
        ELSE IF w.error # None THEN w
        ELSE IF w.row.key # o.found.key THEN Fault("conflict")
        ELSE [error |-> None, shown |-> describe_workflow(o.found), body |-> w.row,
              matches |-> w.row.version = o.found.version]

\* The names of the functions it calls come from the catalog, so that must have them.
soar_get_playbook(catalog, given, soar) ==
    LET o == Lookup(catalog, "playbooks", given)
        p == playbook(soar, o.found.id)
        d == PlaybookDetail(p.row)
    IN  IF o.error # None THEN o
        ELSE IF "functions" \notin catalog.loaded THEN Fault("unavailable")
        ELSE IF p.error # None THEN p
        ELSE IF d.error # None THEN d
        ELSE IF ~Same(o.found, d.detail) THEN Fault("conflict")
        ELSE [error |-> None, shown |-> describe_playbook(d.detail), body |-> p.row]
================================================================================
