------------------------------- MODULE MCWrites --------------------------------
(***************************************************************************)
(* Small instances of the two ways the server writes to SOAR.  A behaviour   *)
(* is about one object, a task (TaskStatus) or an incident (IncidentPatch).  *)
(* On the task two calls close and one opens it; on the incident two calls    *)
(* ask for anything.                                                         *)
(***************************************************************************)
EXTENDS Writes, TLC

CONSTANTS close1, close2, open1

MCTarget == [c \in Calls |-> IF c = open1 THEN "O" ELSE "C"]

VARIABLE object

Name(f, p) == [field |-> f, prefixed |-> p]

MCDefinitions ==
    [f \in {"plan_status", "resolution_id", "resolution_summary", "owner_id", "custom"} |->
        [custom |-> f = "custom", writable |-> TRUE]]

Ask(tool, names) == [tool |-> tool, names |-> names, usable |-> TRUE]

Note == Ask("comment", {})

\* A close with a custom field, one that names it twice and one without a summary, a change of
\* owner and field, one that tries the resolution, additions.
MCAsks ==
    {Ask("close", {Name("custom", TRUE)}),
     Ask("close", {Name("custom", FALSE), Name("custom", TRUE)}),
     [Ask("close", {}) EXCEPT !.usable = FALSE],
     Ask("update", {Name("owner_id", FALSE), Name("custom", FALSE)}),
     Ask("update", {Name("resolution_id", FALSE)}),
     Note, Ask("artifact", {}), Ask("create", {})}

\* The object that a behaviour is not about is in one initial state.
MCInit ==
    /\ WritesInit
    /\ \/ object = "task" /\ call_[close1].ask = Note /\ call_[close2].ask = Note
       \/ object = "incident" /\ task = [status |-> "O", text |-> "t1", usable |-> TRUE]

AboutTask     == object = "task" /\ TaskNext /\ UNCHANGED object
AboutIncident == object = "incident" /\ IncidentNext /\ UNCHANGED object

MCNext == AboutTask \/ AboutIncident

all == <<object, onTask, onIncident>>

MCSpec ==
    /\ MCInit /\ [][MCNext]_all
    /\ \A c \in Calls : WF_all(object = "task" /\ Steps(c) /\ UNCHANGED <<object, onIncident>>)
    /\ \A c \in Patching : WF_all(object = "incident" /\ Incident!Steps(c) /\ UNCHANGED <<object, onTask>>)

\* Every call ends: the read-back is not repeated until it shows what the call hopes for, nor a
\* PATCH sent until it is not refused.
CallsEnd ==
    /\ object = "task" => EveryCallEnds
    /\ object = "incident" => Incident!EveryCallEnds
================================================================================
