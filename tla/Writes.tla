--------------------------------- MODULE Writes ---------------------------------
(***************************************************************************)
(* The two ways the server writes to SOAR, side by side: tasks are PUT back   *)
(* whole (TaskStatus), incidents are PATCHed under a version (IncidentPatch). *)
(* Neither reads what the other one keeps.                                   *)
(***************************************************************************)
EXTENDS TaskStatus

CONSTANTS
    Patching,      \* calls of the tools that change an incident
    Asks,          \* what they may ask for
    Definitions    \* the org's fields

VARIABLES incident, added, call_, edits_

onTask == <<task, pc, current, put, outcome, landed, disturbed, edits>>
onIncident == <<incident, added, call_, edits_>>

Incident == INSTANCE IncidentPatch WITH Calls <- Patching, call <- call_, edits <- edits_

ASSUME WritesAssumption == Incident!IncidentAssumption

WritesInit == Init /\ Incident!Init

TaskNext     == Next /\ UNCHANGED onIncident
IncidentNext == Incident!Next /\ UNCHANGED onTask

WritesNext == TaskNext \/ IncidentNext

WritesSpec == WritesInit /\ [][WritesNext]_<<onTask, onIncident>>

\* The calls on an incident: no edit is overwritten and a close is one caller's, what a call
\* tells of its change is true, and nothing is added twice.
IncidentStands == Incident!EditsStand /\ Incident!AnswersAreTrue
================================================================================
