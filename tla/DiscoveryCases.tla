---------------------------- MODULE DiscoveryCases -----------------------------
(* Catalogs and what SOAR has by now, put to the tools that show SOAR's configuration. *)
EXTENDS Discovery, Question

ListSections ==
    {"functions", "scripts", "message_destinations", "incident_types", "phases", "datatables", "fields",
     "rules", "workflows", "playbooks"}

Thing ==
    [key |-> 1, id |-> 1, uuid |-> "u1", version |-> 1, size |-> 1, inKey |-> {}, inNames |-> {}, order |-> 0,
     of |-> "task", custom |-> TRUE, type |-> "text", values |-> 0, columns |-> 0, conditions |-> 0,
     inputs |-> <<>>, unresolved |-> 0, structure |-> "parsed", nodes |-> 0, edges |-> 0, calls |-> <<>>,
     problems |-> 0, activation |-> "absent", unreadable |-> 0]

\* A catalog with some objects in one section.
With(section, objects) ==
    [loaded |-> ListSections, objects |-> [s \in ListSections |-> IF s = section THEN objects ELSE {}]]

ListOf(section, catalog, q, max) ==
    CASE section = "functions"            -> soar_list_functions(catalog, q, max)
      [] section = "scripts"              -> soar_list_scripts(catalog, q, max)
      [] section = "message_destinations" -> soar_list_message_destinations(catalog, q, max)
      [] section = "incident_types"       -> soar_list_incident_types(catalog, q, max)
      [] section = "phases"               -> soar_list_phases(catalog, q, max)
      [] section = "datatables"           -> soar_list_datatables(catalog, q, max)
      [] section = "fields"               -> soar_list_fields(catalog, "task", TRUE, q, max)
      [] section = "rules"                -> soar_list_rules(catalog, q, max)
      [] section = "workflows"            -> soar_list_workflows(catalog, q, max)
      [] OTHER                            -> soar_list_playbooks(catalog, q, max)

\* Five objects, one of them not a custom field and one with more columns than are shown.
Shelf(sizes, texts) ==
    {[Thing EXCEPT !.key = k, !.id = k, !.size = sizes[k], !.inKey = IF k \in texts[1] THEN {"a"} ELSE {},
                   !.inNames = IF k \in texts[2] THEN {"a"} ELSE {}, !.order = (k * 2) % 3,
                   !.custom = k # 2, !.columns = k] : k \in 1..5}

\* Every size of the rows in one section, every section with some.
AskList ==
    \E section \in ListSections, sizes \in [1..5 -> {1, 3, 5}], texts \in (SUBSET {1, 3}) \X {{}, {3, 4}},
       contains \in {None, "a"}, max \in {2, 9}, length \in {None, 1, 9} :
        /\ \/ section \in {"functions", "phases"}
           \/ sizes \in [1..5 -> {1, 5}] /\ texts[1] = {1} /\ max = 9
        /\ asked' = [kind |-> "list", section |-> section, objects |-> Shelf(sizes, texts), max |-> max,
                     query |-> [contains |-> contains, start |-> 0, length |-> length]]

GetSections == {"functions", "scripts", "rules", "workflows", "playbooks"}

\* Two objects of the catalog, which may have one id, and what SOAR has at the ids by now.
Asks ==
    {[by |-> by, is |-> is] : by \in {"key", "id"}, is \in {1, 2, 3, Malformed}}
    \cup {[by |-> by, is |-> 1] : by \in {"neither", "both"}}

RowOf(key, uuid) ==
    [at |-> 1, says |-> 1, key |-> key, uuid |-> uuid, version |-> 1, usable |-> TRUE, activation |-> "none",
     conditions |-> <<>>, xml |-> "parsed", nodes |-> 1, edges |-> 0, calls |-> <<>>, problems |-> 0]

Now ==
    {{}} \cup {{[RowOf(k, u) EXCEPT !.says = id, !.version = v, !.usable = usable]} :
                 k \in {1, 2}, u \in {"u1", "u2"}, id \in {1, 2}, v \in {1, 2}, usable \in BOOLEAN}
    \cup {{RowOf(1, "u1"), [RowOf(k, "u2") EXCEPT !.at = 2, !.says = id]} : k \in {1, 2}, id \in {1, 2}}

AskGet ==
    \E section \in GetSections, second \in {1, 2}, given \in Asks, soar \in Now, more \in BOOLEAN, known \in BOOLEAN :
        LET catalog == With(section, {Thing, [Thing EXCEPT !.key = 2, !.id = second, !.uuid = "u2"]})
        IN  asked' = [kind |-> "get", section |-> section, given |-> given, soar |-> soar, more |-> more,
                      catalog |-> IF known THEN catalog ELSE [catalog EXCEPT !.loaded = {}]]

GetOf(section, catalog, given, more, soar) ==
    CASE section = "functions" -> soar_get_function(catalog, given)
      [] section = "rules"     -> soar_get_rule(catalog, given)
      [] section = "scripts"   -> soar_get_script(catalog, given, more, soar)
      [] section = "workflows" -> soar_get_workflow(catalog, given, more, soar)
      [] OTHER                 -> soar_get_playbook(catalog, given, soar)

\* Inputs as SOAR sends them, and a playbook's conditions and graph.
Input(type, values) == [type |-> type, required |-> None, tooltip |-> TRUE, values |-> values]

Inputs == {Input(t, v) : t \in {"text", "password", "select_owner"}, v \in SeqOf({"value", "principal"}, 3)}

AskShown ==
    \E first \in Inputs, last \in Inputs, n \in 0..3, xml \in {"parsed", "refused"},
       conditions \in {<<>>, <<"readable">>, <<"odd", "readable">>, <<"readable", "readable", "readable">>},
       activation \in {"none", "odd", "there"} :
        /\ \/ first.type = "text" /\ last.type = "text"
           \/ n = 0 /\ conditions = <<>> /\ activation = "none"
        /\ asked' = [kind |-> "shown", inputs |-> <<first, Input("text", <<"value">>), last>>,
                     row |-> [RowOf(1, "u1") EXCEPT !.xml = xml, !.conditions = conditions, !.activation = activation,
                                                    !.nodes = n, !.edges = n]]

\* Two definitions of inputs, under one uuid or two, and items that name them or nothing.
AskInputs ==
    \E uuids \in [1..2 -> {"u1", "u2"}], items \in SeqOf({"nothing", "u1", "u2", "u3"}, 4) :
        asked' = [kind |-> "inputs", items |-> items, inputs |-> [i \in 1..2 |-> [uuid |-> uuids[i], name |-> i]]]

--------------------------------------------------------------------------------

\* All pages, from the first on to where each says that the next one begins.
PagesFrom(section, catalog, q, max, total) ==
    LET Rest[start \in 0..total] ==
            LET page == ListOf(section, catalog, [q EXCEPT !.start = start], max)
            IN  <<page>> \o IF page.next_start = None \/ page.next_start > total THEN <<>> ELSE Rest[page.next_start]
    IN  Rest[0]

\* What is asked for, and what the pages of the answer hold of it (PagesAreWhole).
Wanted(section, objects, q) ==
    {o \in objects : /\ section = "fields" => o.custom
                     /\ q.contains = None \/ "a" \in o.inKey
                        \/ ("a" \in o.inNames /\ section \notin {"incident_types", "phases", "rules"})}

Complete(section, rows, wanted) ==
    LET Order(r) == IF section = "phases" THEN r.order ELSE 0
    IN  /\ {rows[i].key : i \in DOMAIN rows} = {o.key : o \in wanted}
        /\ \A i, j \in DOMAIN rows :
             i < j => Order(rows[i]) < Order(rows[j]) \/ (Order(rows[i]) = Order(rows[j]) /\ rows[i].key < rows[j].key)

WithinLimits(pages, wanted, q, max) ==
    LET Size(page) == FoldLeft(LAMBDA sum, r : sum + (CHOOSE o \in wanted : o.key = r.key).size, 0, page.rows)
    IN  \A i \in DOMAIN pages :
          /\ pages[i].matched = Cardinality(wanted)
          /\ Len(pages[i].rows) <= max
          /\ q.length # None => Len(pages[i].rows) <= q.length
          /\ Len(pages[i].rows) > 1 => Size(pages[i]) <= ListBudget

\* Whoever follows next_start sees every object that matches once, in order, in pages that
\* hold no more than was asked for and no more than the budget; a filter that matches nothing,
\* and a field of another type or not custom, are no rows.
PagesAreWhole ==
    asked.kind = "list" =>
        LET Judged(pages, wanted) ==
                /\ Complete(asked.section, FlattenSeq([i \in DOMAIN pages |-> pages[i].rows]), wanted)
                /\ WithinLimits(pages, wanted, asked.query, asked.max)
        IN  Judged(PagesFrom(asked.section, With(asked.section, asked.objects), asked.query, asked.max,
                             Cardinality(asked.objects)),
                   Wanted(asked.section, asked.objects, asked.query))

\* An answer about one object is about the object named and no other: the name or the id that
\* was given is one object's of the catalog, and what was read from SOAR now is of the object
\* that the catalog describes, also when names, ids and versions moved in between.  And when
\* nothing moved, there is an answer.
OnlyTheNamed ==
    asked.kind = "get" =>
        LET answer == GetOf(asked.section, asked.catalog, asked.given, asked.more, asked.soar)
            meant  == {o \in asked.catalog.objects[asked.section] :
                         asked.given \in {[by |-> "key", is |-> o.key], [by |-> "id", is |-> o.id]}}
            reads  == asked.section = "playbooks" \/ (asked.section \in {"scripts", "workflows"} /\ asked.more)
            Still(o, r) == r.key = o.key /\ r.at = o.id /\ r.says = o.id /\ r.uuid = o.uuid /\ r.usable
        IN  /\ answer.error = None =>
                 /\ asked.section \in asked.catalog.loaded
                 /\ Cardinality(meant) = 1
                 /\ \A o \in meant :
                      /\ answer.shown.key = o.key /\ answer.shown.id = o.id
                      /\ reads => /\ answer.body \in asked.soar
                                  /\ answer.body.key = o.key /\ answer.body.says = o.id
                                  /\ asked.section # "workflows" => answer.body.uuid = o.uuid
                                  /\ asked.section = "workflows" => (answer.matches <=> answer.body.version = o.version)
            /\ /\ asked.section \in asked.catalog.loaded /\ Cardinality(meant) = 1
               /\ \A o \in meant : reads => \E r \in asked.soar : Still(o, r) /\ \A s \in asked.soar : s.says = o.id => s = r
               => answer.error = None

\* What an answer leaves out of an object it counts, and what it shows is within its limits; a
\* secret's or a person's input shows nothing of what it might hold, and a playbook whose
\* activation cannot be read is an error, not one without conditions.  A function shows each of
\* its inputs once, and what the parsers keep is what the models accept: no row fails a load, or
\* a tool, that they did not mean to fail.
ShownAndCounted ==
    /\ asked.kind = "shown" =>
        LET row    == asked.row
            inputs == [i \in DOMAIN asked.inputs |-> parse_function_input(asked.inputs[i])]
            shown  == describe_function([Thing EXCEPT !.inputs = inputs]).inputs
            detail == PlaybookDetail(row)
            told   == describe_playbook(detail.detail)
            Real(input) == Len(SelectSeq(input.values, LAMBDA v : v = "value"))
        IN  /\ FoldLeft(LAMBDA sum, s : sum + s.values.shown, 0, shown) <= FunctionValuesMax
            /\ \A i \in DOMAIN shown :
                 /\ asked.inputs[i].type = "text" => shown[i].values.shown + shown[i].values.omitted = Real(asked.inputs[i])
                 /\ asked.inputs[i].type # "text" => shown[i].values.shown + shown[i].values.omitted = 0
                 /\ asked.inputs[i].type = "password" => ~shown[i].tooltip
                 /\ shown[i].values.shown \in 0..InputValuesMax
            /\ detail.error # None <=> row.activation = "odd"
            /\ detail.error = None =>
                 /\ told.activation.conditions.shown + told.activation.conditions.omitted + told.activation.unreadable
                    = IF row.activation = "none" THEN 0 ELSE Len(row.conditions)
                 /\ told.activation.conditions.shown <= ConditionsMax
                 /\ told.nodes.shown + told.nodes.omitted = IF row.xml = "refused" THEN 0 ELSE row.nodes
                 /\ told.counts.nodes = told.nodes.shown + told.nodes.omitted
                 /\ DetailAccepted(detail.detail)
            /\ \A i \in DOMAIN inputs : FunctionInputAccepted(inputs[i]) /\ FieldAccepted(inputs[i])
    /\ asked.kind = "inputs" =>
         LET function == parse_function(asked.items, asked.inputs)
             known    == {asked.inputs[i].uuid : i \in DOMAIN asked.inputs}
         IN  /\ ToSet(function.inputs) = ToSet(asked.items) \cap known
             /\ Cardinality(ToSet(function.inputs)) = Len(function.inputs)
             /\ function.unresolved = Cardinality({i \in DOMAIN asked.items : asked.items[i] \notin known})
================================================================================
