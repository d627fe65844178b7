--------------------------- MODULE WorkflowGraphCases --------------------------
(* Documents put to the summary of workflows and playbooks. *)
EXTENDS WorkflowGraph, Question

Element(local, id) ==
    [bpmn |-> TRUE, local |-> local, id |-> id, default |-> None, source |-> None, target |-> None,
     conditions |-> 0, calls |-> <<>>]

Flow(id, source, target, conditions) ==
    [Element("sequenceFlow", id) EXCEPT !.source = source, !.target = target, !.conditions = conditions]

Gateway(default) == [Element("exclusiveGateway", "g") EXCEPT !.default = default]

Task(calls) == [Element("serviceTask", "t") EXCEPT !.calls = calls]

Call(uuid, settings) == [uuid |-> uuid, settings |-> settings]

Document(process) == [flaw |-> None, processes |-> <<process>>]

\* Two functions share the uuid u2.
Functions == "f1" :> "u1" @@ "f2" :> "u2" @@ "f3" :> "u2"

\* A gateway behind the start or beside it, and two more flows between any nodes, or none.
AskGraph ==
    \E ends \in {<<Element("startEvent", "s"), Element("endEvent", "e")>>, <<Element("endEvent", "e")>>},
       default \in {None, "b", "c", "x"}, first \in {"g", "t"}, b \in {"s", "g", "t", "x"} \X {"g", "t", "e", "x"},
       c \in {"s", "g", "t"} \X {"g", "t", "e"}, conditions \in (0..2) \X (0..1) :
        asked' = [kind |-> "workflow",
                  document |-> Document(ends \o <<Gateway(default), Task(<<Call("u1", "object")>>),
                                                  Flow("a", "s", first, 0), Flow("b", b[1], b[2], conditions[1]),
                                                  Flow("c", c[1], c[2], conditions[2])>>)]

\* A sound document with one odd element more, and one call or not, in a text that has a flaw
\* or not.
Odd ==
    {Element("textAnnotation", "n"), [Element("textAnnotation", "t") EXCEPT !.default = "a"],
     [Element("annotation", "n") EXCEPT !.bpmn = FALSE],
     Element("parallelGateway", "p"), Element("endEvent", None), Element("endEvent", "t"), Element("endEvent", "a"),
     Element("TooLong", "n"), Element("endEvent", "TooLong"), [Element("association", "n") EXCEPT !.id = "TooLong"],
     [Element("association", "n") EXCEPT !.source = "TooLong"],
     [Element("startEvent", "s2") EXCEPT !.default = "a"], Flow("a", "s", "e", 0), Flow("t", "s", "e", 0),
     Flow("n", "s", "TooLong", 0), Flow("n", "s", "e", 0)}

CallsOf ==
    {<<>>} \cup {<<Call(u, s)>> : u \in {None, "u1", "u2", "u3", "TooLong"}, s \in {"none", "object", "odd", "too long"}}
    \cup {<<Call("u1", "object"), Call("u1", "object")>>}

AskDocument ==
    \E odd \in {<<>>} \cup {<<e>> : e \in Odd} \cup {<<e, f>> : e \in Odd, f \in Odd}, calls \in CallsOf :
        LET process == <<Element("startEvent", "s"), Task(calls), Flow("a", "s", "t", 0)>> \o odd
                       \o <<Element("endEvent", "e"), Flow("b", "t", "e", 0)>>
        IN  \/ asked' = [kind |-> "workflow", document |-> Document(process)]
            \/ \E count \in {0, 2} :
                 asked' = [kind |-> "workflow", document |-> [flaw |-> None, processes |-> [i \in 1..count |-> process]]]
            \/ asked' = [kind |-> "workflow", document |-> [Document(process) EXCEPT !.flaw = "declares a DTD"]]

--------------------------------------------------------------------------------
(* What a sound document is, without the parser. *)

Elements(document) == ToSet(document.processes[1])

Flows(document) == {e \in Elements(document) : e.bpmn /\ e.local = "sequenceFlow"}
Nodes(document) == {e \in Elements(document) : e.bpmn /\ e.local # "sequenceFlow" /\ e.local \notin NonFlow}

\* Every set of nodes without a start event is entered by a flow from outside of it.
AllReachable(document) ==
    \A some \in SUBSET Nodes(document) :
        some # {} /\ (\A n \in some : n.local # "startEvent") =>
            \E f \in Flows(document) : /\ f.target \in {n.id : n \in some}
                                       /\ f.source \in {n.id : n \in Nodes(document) \ some}

Sound(document, functions) ==
    /\ \A e \in Elements(document) : e.bpmn
    /\ \A e \in Nodes(document) \cup Flows(document) : e.id # None
    /\ \A n \in Nodes(document) :
         LET own == {f \in Flows(document) : f.source = n.id}
         IN  /\ n.local \in Observed
             /\ n.default # None => n.local = "exclusiveGateway" /\ n.default \in {f.id : f \in own}
             /\ own = {} <=> n.local = "endEvent"
             /\ n.local = "exclusiveGateway" /\ Cardinality(own) > 1 =>
                  \A f \in own : (f.conditions = 0) <=> (f.id = n.default)
             /\ \A f \in own : f.conditions <= 1 /\ (f.conditions = 1 => f.id # n.default)
             /\ n.local = "serviceTask" =>
                  /\ Len(n.calls) = 1
                  /\ n.calls[1].settings \in {"none", "object"}
                  /\ Cardinality({k \in DOMAIN functions : functions[k] = n.calls[1].uuid}) = 1
    /\ \A f \in Flows(document) : {f.source, f.target} \subseteq {n.id : n \in Nodes(document)}
    /\ \A e \in Elements(document) : e.local \in NonFlow => e.id \notin {n.id : n \in Nodes(document)}
    /\ \E n \in Nodes(document) : n.local = "startEvent"
    /\ AllReachable(document)

\* Identifiers that would be cut, or that stand for two elements.
Muddled(document) ==
    \/ Len(document.processes) # 1
    \/ \E e \in Elements(document) : e.bpmn /\ "TooLong" \in {e.local, e.id}
    \/ \E f \in Flows(document) : "TooLong" \in {f.source, f.target}
    \/ \E i, j \in DOMAIN document.processes[1] :
         LET e == document.processes[1][i]
             f == document.processes[1][j]
         IN  i # j /\ e.id = f.id /\ e.id # None /\ {e, f} \subseteq Nodes(document) \cup Flows(document)

\* The summary says what the document does (GraphIsTold).
ToldTruly(document, summary) ==
    IF document.flaw # None \/ Muddled(document) THEN summary.structure = "refused" /\ summary.nodes = <<>>
    ELSE /\ summary.structure = "parsed"
         /\ Ids(summary.nodes) = {n.id : n \in Nodes(document)} \ {None}
         /\ Ids(summary.edges) = {f.id : f \in Flows(document)} \ {None}
         /\ (summary.problems = <<>>) <=> Sound(document, Functions)
         /\ \A i \in DOMAIN summary.edges :
              summary.edges[i].default <=>
                  \E n \in Nodes(document) : /\ n.local = "exclusiveGateway" /\ n.id = summary.edges[i].source
                                            /\ n.default = summary.edges[i].id
         /\ \A i \in DOMAIN summary.nodes, n \in Nodes(document) :
              n.id = summary.nodes[i].id =>
                  {summary.nodes[i].function} \ {None} =
                  {k \in DOMAIN Functions : /\ n.local = "serviceTask" /\ Len(n.calls) = 1
                                            /\ \A j \in DOMAIN Functions : (Functions[j] = n.calls[1].uuid) <=> (j = k)}

\* What a caller is told of a workflow is what the document says: it is refused exactly when
\* it cannot be read without guessing, all of its nodes and flows are there, the problems are
\* there exactly when the graph has one, a flow is a default where its own gateway says so,
\* and a call is named exactly when one function of the catalog has its uuid.
GraphIsTold ==
    asked.kind = "workflow" => ToldTruly(asked.document, summarise_bpmn(asked.document, Functions))
================================================================================
