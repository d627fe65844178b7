----------------------------- MODULE WorkflowGraph -----------------------------
(***************************************************************************)
(* The structural summary of a workflow's or a playbook's BPMN document      *)
(* (catalog/workflow_xml.py) with its calls resolved against the catalog's   *)
(* functions (catalog/bpmn.py).                                             *)
(*                                                                         *)
(* A document is what ElementTree would make of it: a flaw that refuses the *)
(* whole text, or the children of its processes in order.  An identifier    *)
(* over the bound is TooLong.  Names, texts and scripts, of which the        *)
(* summary keeps at most that they are there, are left out.                 *)
(***************************************************************************)
EXTENDS Integers, Sequences, FiniteSets, SequencesExt, Values

CONSTANTS MaxNodes, MaxFlows, MaxProblems

Observed == {"startEvent", "endEvent", "serviceTask", "exclusiveGateway"}
Gateways == {"exclusiveGateway", "parallelGateway", "inclusiveGateway", "eventBasedGateway", "complexGateway"}
NonFlow  == {"textAnnotation", "association", "documentation", "extensionElements"}

\* Why parse refuses a text before its elements are looked at, or the root and its processes.
Flaws == {"not text", "too long", "declares a DTD", "not well-formed", "too many elements", "no definitions"}

Graph == [nodes |-> <<>>, flows |-> <<>>, edges |-> <<>>, annotations |-> 0, problems |-> <<>>, refusal |-> None]

RefusedFor(graph, reason) == [graph EXCEPT !.refusal = reason]

\* Graph.problem: one more, or once the notice that there are more.
Told(graph, problem) ==
    CASE Len(graph.problems) < MaxProblems -> [graph EXCEPT !.problems = Append(@, problem)]
      [] Len(graph.problems) = MaxProblems -> [graph EXCEPT !.problems = Append(@, <<"further">>)]
      [] OTHER                             -> graph

AllTold(graph, problems) == FoldLeft(Told, graph, problems)

\* A problem, if there is one.
When(condition, problem) == IF condition THEN <<problem>> ELSE <<>>

Ids(elements) == {elements[i].id : i \in DOMAIN elements}

--------------------------------------------------------------------------------
(* The function a service task calls. *)

\* What is wrong with the reference of a service task.
CallProblems(task) ==
    IF Len(task.calls) # 1 THEN <<<<"not one function reference", task.id>>>>
    ELSE LET call == task.calls[1]
         IN  When(call.uuid = None, <<"no uuid", task.id>>)
             \o When(call.uuid = "TooLong", <<"uuid too long", task.id>>)
             \o When(call.settings = "too long", <<"settings too long", task.id>>)
             \o When(call.settings \in {"too long", "odd"}, <<"settings are no object", task.id>>)

\* _function_call: exactly one reference, or none.  A uuid that is too long is not kept.
FunctionCall(task) ==
    IF task.local # "serviceTask" \/ Len(task.calls) # 1 THEN None
    ELSE [uuid |-> IF task.calls[1].uuid = "TooLong" THEN None ELSE task.calls[1].uuid,
          parsed |-> task.calls[1].settings = "object"]

--------------------------------------------------------------------------------
(* The elements of the process, one by one. *)

AddNode(graph, e) ==
    LET told  == AllTold(graph, When(e.local \notin Observed, <<"not observed", e.id>>)
                                \o (IF e.local = "serviceTask" THEN CallProblems(e) ELSE <<>>))
        added == [told EXCEPT !.nodes = Append(@, [id |-> e.id, type |-> e.local, call |-> FunctionCall(e)])]
    IN  IF Len(added.nodes) > MaxNodes THEN RefusedFor(added, "too many nodes") ELSE added

Take(graph, e) ==
    IF graph.refusal # None THEN graph
    ELSE IF ~e.bpmn THEN Told(graph, <<"foreign">>)
    ELSE IF e.local = "TooLong" THEN RefusedFor(graph, "long element name")
    ELSE IF e.local \in NonFlow THEN [graph EXCEPT !.annotations = @ + IF e.local = "textAnnotation" THEN 1 ELSE 0]
    ELSE IF e.id = "TooLong" THEN RefusedFor(graph, "long identifier")
    ELSE IF e.id = None THEN Told(graph, <<"without an id", e.local>>)
    ELSE IF e.id \in Ids(graph.nodes) \cup Ids(graph.flows) THEN RefusedFor(graph, "one id twice")
    ELSE IF e.local = "sequenceFlow" THEN [graph EXCEPT !.flows = Append(@, e)]
    ELSE AddNode(graph, e)

--------------------------------------------------------------------------------
(* _edges *)

\* The elements other than flows that carry a default attribute and the id of a node.
WithDefault(graph, process) ==
    SelectSeq(process, LAMBDA e : /\ e.bpmn /\ e.local # "sequenceFlow"
                                  /\ e.default # None /\ e.id \in Ids(graph.nodes))

\* gateway id |-> the flow it names as its default; the later element counts.
Defaults(graph, process) ==
    LET named == SelectSeq(WithDefault(graph, process), LAMBDA e : e.local \in Gateways)
    IN  [id \in Ids(named) |-> SelectLastInSeq(named, LAMBDA e : e.id = id)]

DefaultOf(graph, process) ==
    LET named == SelectSeq(WithDefault(graph, process), LAMBDA e : e.local \in Gateways)
        last  == Defaults(graph, process)
    IN  [id \in DOMAIN last |-> named[last[id]].default]

\* A slip: whatever any gateway names as its default is a default flow.
EdgeByAnyDefault(graph, defaults, f) ==
    LET nodes == Ids(graph.nodes)
    IN  [id |-> f.id, source |-> f.source, target |-> f.target, conditional |-> f.conditions > 0,
         default |-> \E g \in DOMAIN defaults : defaults[g] = f.id,
         valid   |-> f.source \in nodes /\ f.target \in nodes]

Edge(graph, defaults, f) ==
    LET nodes == Ids(graph.nodes)
    IN  [id |-> f.id, source |-> f.source, target |-> f.target, conditional |-> f.conditions > 0,
         default |-> f.source \in DOMAIN defaults /\ defaults[f.source] = f.id,
         valid   |-> f.source \in nodes /\ f.target \in nodes]

EdgeProblems(graph, edge, f) ==
    When(f.source \notin Ids(graph.nodes), <<"source names no node", f.id>>)
    \o When(f.target \notin Ids(graph.nodes), <<"target names no node", f.id>>)
    \o When(f.conditions > 1, <<"more than one condition", f.id>>)
    \o When(edge.default /\ edge.conditional, <<"default with a condition", f.id>>)

\* Of a flow the ends are looked at, of any other element of BPMN its id and its default.
LongIdentifier(process) ==
    \E i \in DOMAIN process :
        LET e == process[i]
        IN  /\ e.bpmn
            /\ IF e.local = "sequenceFlow" THEN e.id # None /\ "TooLong" \in {e.source, e.target}
               ELSE "TooLong" \in {e.id, e.default}

WithEdges(graph, process) ==
    LET defaults == DefaultOf(graph, process)
        edges    == [i \in DOMAIN graph.flows |-> Edge(graph, defaults, graph.flows[i])]
        others   == SelectSeq(WithDefault(graph, process), LAMBDA e : e.local \notin Gateways)
        foreign  == SetToSeq({g \in DOMAIN defaults :
                                ~\E i \in DOMAIN edges : edges[i].id = defaults[g] /\ edges[i].source = g})
    IN  AllTold([graph EXCEPT !.edges = edges],
                [i \in DOMAIN others |-> <<"default not read", others[i].id>>]
                \o FlattenSeq([i \in DOMAIN edges |-> EdgeProblems(graph, edges[i], graph.flows[i])])
                \o [i \in DOMAIN foreign |-> <<"default is not its own", foreign[i]>>])

--------------------------------------------------------------------------------
(* _check *)

Outgoing(graph, id) == SelectSeq(graph.edges, LAMBDA e : e.valid /\ e.source = id)

NodeProblems(graph, node) ==
    LET out == Outgoing(graph, node.id)
        undecided == SelectSeq(out, LAMBDA e : ~e.conditional /\ ~e.default)
    IN  (IF node.type = "exclusiveGateway" /\ Len(out) > 1
         THEN [i \in DOMAIN undecided |-> <<"neither condition nor default", undecided[i].id>>] ELSE <<>>)
        \o When(out = <<>> /\ node.type # "endEvent", <<"no outgoing flow", node.id>>)

Starts(graph) == {graph.nodes[i].id : i \in {j \in DOMAIN graph.nodes : graph.nodes[j].type = "startEvent"}}

\* The breadth-first search, a level at a time.
Reached(graph) ==
    LET Grown[k \in 0..Len(graph.nodes)] ==
            IF k = 0 THEN Starts(graph)
            ELSE LET last == Grown[k - 1]
                 IN  last \cup {graph.edges[i].target :
                        i \in {j \in DOMAIN graph.edges : graph.edges[j].valid /\ graph.edges[j].source \in last}}
    IN  Grown[Len(graph.nodes)]

Checked(graph) ==
    LET told == AllTold(graph, FlattenSeq([i \in DOMAIN graph.nodes |-> NodeProblems(graph, graph.nodes[i])]))
        unreached == Ids(graph.nodes) \ Reached(graph)
    IN  IF Starts(graph) = {} THEN Told(told, <<"no start event">>)
        ELSE AllTold(told, When(unreached # {}, <<"unreachable", unreached>>))

--------------------------------------------------------------------------------
(* summarise, and summarise_bpmn *)

\* The whole of a process whose elements were read without a refusal.
Whole(read, process) ==
    IF read.refusal # None THEN read
    ELSE IF Len(read.flows) > MaxFlows THEN RefusedFor(read, "too many flows")
    ELSE IF LongIdentifier(process) THEN RefusedFor(read, "long identifier")
    ELSE Checked(WithEdges(read, process))

summarise(document) ==
    LET process == document.processes[1]
    IN  IF document.flaw \in Flaws THEN RefusedFor(Graph, document.flaw)
        ELSE IF Len(document.processes) # 1 THEN RefusedFor(Graph, "not one process")
        ELSE Whole(FoldLeft(Take, Graph, process), process)

\* function_index: functions maps a catalog key to a uuid.
ByUuid(functions)    == {functions[k] : k \in DOMAIN functions}
Ambiguous(functions) == {u \in ByUuid(functions) : Cardinality({k \in DOMAIN functions : functions[k] = u}) > 1}

\* The catalog key of the function called, by exact equality with exactly one.
Resolved(functions, call) ==
    IF call.uuid \in ByUuid(functions) \ Ambiguous(functions)
    THEN CHOOSE k \in DOMAIN functions : functions[k] = call.uuid ELSE None

\* A graph with its calls resolved.
WithFunctions(graph, functions) ==
    LET Function(node) == IF node.call = None THEN None ELSE Resolved(functions, node.call)
        nodes == [i \in DOMAIN graph.nodes |->
                    [id |-> graph.nodes[i].id, type |-> graph.nodes[i].type, function |-> Function(graph.nodes[i])]]
        unresolved == SelectSeq(graph.nodes, LAMBDA n : /\ n.call # None /\ n.call.uuid # None
                                                        /\ Resolved(functions, n.call) = None)
    IN  IF graph.refusal # None
        THEN [structure |-> "refused", refusal |-> graph.refusal, nodes |-> <<>>, edges |-> <<>>, problems |-> <<>>]
        ELSE [structure |-> "parsed", refusal |-> None, nodes |-> nodes, edges |-> graph.edges,
              problems |-> graph.problems \o [i \in DOMAIN unresolved |-> <<"names no one function", unresolved[i].id>>]]

\* What the catalog and soar_get_playbook keep of a document.
summarise_bpmn(document, functions) == WithFunctions(summarise(document), functions)
================================================================================
