------------------------------ MODULE WritesProofs ------------------------------
(* What a call of set_status says of its PUT is true, for any number of calls and of *)
(* edits, and whatever becomes of requests and answers.  So is what the tools that     *)
(* change an incident say, side by side with it.                                      *)
EXTENDS Writes, TLAPS

USE TaskAssumption DEF TaskAssumption, Outcomes, Codes

LEMMA Initially == Init => WriteInv
  BY DEF Init, WriteInv, TypeOK, PutFollowsCall, StatusKept, RefusedNeverLands, ChangedMeansLanded

(* The parts of WriteInv other than its types, call by call. *)
Local(c) ==
  /\ landed[c] = IF put[c] = "done" THEN 1 ELSE 0
  /\ pc[c] \in {"new", "writing"} => put[c] = "unsent"
  /\ pc[c] \in {"writing", "waiting", "verifying"} /\ c \notin disturbed /\ landed[c] = 0
        => task.status # Target[c]
  /\ (outcome[c] # None) = (pc[c] = "ended")
  /\ outcome[c] = "refused" => landed[c] = 0 /\ put[c] # "sent"
  /\ outcome[c] = "changed" /\ c \notin disturbed => landed[c] = 1

LEMMA CallByCall == WriteInv <=> TypeOK /\ \A c \in Calls : Local(c)
  BY DEF WriteInv, PutFollowsCall, StatusKept, RefusedNeverLands, ChangedMeansLanded, Local

LEMMA TypeStep == ASSUME TypeOK, [Next]_vars PROVE TypeOK'
<1> USE DEF TypeOK
<1>1. ASSUME NEW c \in Calls, Steps(c) \/ Cancel(c) PROVE TypeOK'
  BY <1>1 DEF Steps, ReadRefuses, Read, Put, NotSent, Rejected, Accepted, Unclear, ReadBack,
              Cancel, End
<1>2. ASSUME NEW c \in Calls, Land(c) PROVE TypeOK'
  <2>1. current[c] \in Task
    BY <1>2 DEF Land
  <2> QED BY <1>2, <2>1 DEF Land, Overlapped, Task
<1>3. ASSUME NEW c \in Calls, NotLand(c) PROVE TypeOK'
  BY <1>3 DEF NotLand
<1>4. CASE Edit \/ UNCHANGED vars
  BY <1>4 DEF Edit, Overlapped, vars, call
<1> QED BY <1>1, <1>2, <1>3, <1>4 DEF Next

(* The client's steps: the task and landed stay, and Local is kept. *)
LEMMA ClientStep ==
  ASSUME WriteInv, NEW c \in Calls, Steps(c) \/ Cancel(c), NEW d \in Calls
  PROVE  Local(d)'
<1>1. TypeOK /\ Local(c) /\ Local(d)
  BY CallByCall
<1> USE <1>1 DEF TypeOK, Local
<1>2. CASE d # c
  BY <1>2 DEF Steps, ReadRefuses, Read, Put, NotSent, Rejected, Accepted, Unclear, ReadBack,
              Cancel, End
<1>3. CASE d = c
  <2>1. CASE ReadRefuses(c) \/ NotSent(c) \/ Rejected(c)
    BY <1>3, <2>1 DEF ReadRefuses, NotSent, Rejected, End
  <2>2. CASE Read(c) \/ Put(c) \/ Accepted(c) \/ Unclear(c)
    BY <1>3, <2>2 DEF Read, Put, Accepted, Unclear
  <2>3. CASE ReadBack(c)
    BY <1>3, <2>3 DEF ReadBack, End
  <2>4. CASE Cancel(c)
    BY <1>3, <2>4 DEF Cancel, End
  <2> QED BY <2>1, <2>2, <2>3, <2>4 DEF Steps
<1> QED BY <1>2, <1>3

(* A PUT that lands disturbs every other call between its reads. *)
LEMMA LandStep ==
  ASSUME WriteInv, NEW c \in Calls, Land(c) \/ NotLand(c), NEW d \in Calls
  PROVE  Local(d)'
<1>1. TypeOK /\ Local(c) /\ Local(d)
  BY CallByCall
<1> USE <1>1 DEF TypeOK, Local, Land, NotLand, Overlapped
<1>2. CASE d = c
  BY <1>2
<1>3. CASE d # c
  BY <1>3
<1> QED BY <1>2, <1>3

LEMMA EditStep ==
  ASSUME WriteInv, Edit \/ UNCHANGED vars, NEW d \in Calls
  PROVE  Local(d)'
<1>1. TypeOK /\ Local(d)
  BY CallByCall
<1> QED BY <1>1 DEF TypeOK, Local, Edit, Overlapped, vars, call

(* WriteInv holds, whoever else writes the task and whichever answers are lost. *)
THEOREM WriteInvariant == Spec => []WriteInv
<1>1. ASSUME WriteInv, [Next]_vars PROVE WriteInv'
  <2>1. TypeOK'
    BY <1>1, TypeStep DEF WriteInv
  <2>2. ASSUME NEW d \in Calls PROVE Local(d)'
    BY <1>1, ClientStep, LandStep, EditStep DEF Next
  <2>3. \A d \in Calls : Local(d)'
    BY <2>2
  <2> QED
    BY <2>1, <2>3 DEF WriteInv, PutFollowsCall, StatusKept, RefusedNeverLands,
                      ChangedMeansLanded, Local
<1> QED BY Initially, <1>1, PTL DEF Spec

(* set_status: two outcomes end a call without its read-back, and neither can hide a write. *)
THEOREM RefusalsAreTrue == Spec => []RefusedNeverLands
<1>1. WriteInv => RefusedNeverLands
  BY DEF WriteInv
<1> QED BY WriteInvariant, <1>1, PTL

(* "Sent once and never retried", as the task sees it. *)
THEOREM WrittenOnce == Spec => []LandsOnce
<1>1. ASSUME WriteInv, NEW c \in Calls PROVE landed[c] <= 1
  <2>1. landed[c] = IF put[c] = "done" THEN 1 ELSE 0
    BY <1>1 DEF WriteInv, PutFollowsCall
  <2>2. landed[c] \in {0, 1}
    BY <2>1
  <2> QED BY <2>2
<1>2. WriteInv => LandsOnce
  BY <1>1 DEF LandsOnce
<1> QED BY WriteInvariant, <1>2, PTL

(* Only the read-back says what became of the PUT, and undisturbed it is right. *)
THEOREM ChangesAreTrue == Spec => []ChangedMeansLanded
<1>1. WriteInv => ChangedMeansLanded
  BY DEF WriteInv
<1> QED BY WriteInvariant, <1>1, PTL

--------------------------------------------------------------------------------
(* Incidents, beside the tasks: the theorems of IncidentPatchProofs, for the incident  *)
(* that Writes has.  What the two instances of IncidentPatch define is the same.       *)

Patches == INSTANCE IncidentPatchProofs WITH Calls <- Patching, call <- call_, edits <- edits_

LEMMA SameStart == WritesInit => Patches!Init
BY DEF WritesInit, Incident!Init, Patches!Init, Incident!Fields, Patches!Fields, Incident!Before, Patches!Before

LEMMA SameActions ==
  ASSUME NEW c
  PROVE  /\ Incident!Steps(c) => Patches!Steps(c)
         /\ Incident!Cancel(c) => Patches!Cancel(c)
         /\ Incident!Land(c) => Patches!Land(c)
         /\ Incident!NotLand(c) => Patches!NotLand(c)
<1>1. Incident!Refuse(c) => Patches!Refuse(c)
  BY DEF Incident!Refuse, Patches!Refuse, Incident!End, Patches!End, Incident!Closing, Patches!Closing, Incident!Fields, Patches!Fields, Incident!Adds, Patches!Adds, Incident!Resolved, Patches!Resolved, Incident!RequestAllowed, Patches!RequestAllowed, Incident!Names, Patches!Names, Incident!Normal, Patches!Normal, Incident!Changed, Patches!Changed
<1>2. Incident!DefinitionsFail(c) => Patches!DefinitionsFail(c)
  BY DEF Incident!DefinitionsFail, Patches!DefinitionsFail, Incident!End, Patches!End, Incident!Closing, Patches!Closing, Incident!Fields, Patches!Fields, Incident!Adds, Patches!Adds, Incident!Resolved, Patches!Resolved, Incident!RequestAllowed, Patches!RequestAllowed, Incident!Names, Patches!Names, Incident!Normal, Patches!Normal, Incident!Changed, Patches!Changed
<1>3. Incident!Read(c) => Patches!Read(c)
  BY DEF Incident!Read, Patches!Read, Incident!Closing, Patches!Closing, Incident!Fields, Patches!Fields, Incident!Adds, Patches!Adds, Incident!Resolved, Patches!Resolved, Incident!RequestAllowed, Patches!RequestAllowed, Incident!Names, Patches!Names, Incident!Normal, Patches!Normal, Incident!Changed, Patches!Changed
<1>4. Incident!CreateIncident(c) => Patches!CreateIncident(c)
  BY DEF Incident!CreateIncident, Patches!CreateIncident, Incident!Add, Patches!Add
<1>5. Incident!AddComment(c) => Patches!AddComment(c)
  BY DEF Incident!AddComment, Patches!AddComment, Incident!Add, Patches!Add
<1>6. Incident!AddArtifact(c) => Patches!AddArtifact(c)
  BY DEF Incident!AddArtifact, Patches!AddArtifact, Incident!Add, Patches!Add
<1>7. Incident!Send(c) => Patches!Send(c)
  BY DEF Incident!Send, Patches!Send
<1>8. Incident!NotSent(c) => Patches!NotSent(c)
  BY DEF Incident!NotSent, Patches!NotSent, Incident!End, Patches!End
<1>9. Incident!Rejected(c) => Patches!Rejected(c)
  BY DEF Incident!Rejected, Patches!Rejected, Incident!End, Patches!End, Incident!Adds, Patches!Adds
<1>10. Incident!Garbled(c) => Patches!Garbled(c)
  BY DEF Incident!Garbled, Patches!Garbled, Incident!Adds, Patches!Adds
<1>11. Incident!Accepted(c) => Patches!Accepted(c)
  <2>1. Incident!End(c, "changed") => Patches!End(c, "changed")
    BY DEF Incident!End, Patches!End
  <2>2. Incident!End(c, "error") => Patches!End(c, "error")
    BY DEF Incident!End, Patches!End
  <2> QED BY <2>1, <2>2 DEF Incident!Accepted, Patches!Accepted, Incident!Adds, Patches!Adds, Incident!Goes, Patches!Goes
<1>12. Incident!Unclear(c) => Patches!Unclear(c)
  BY DEF Incident!Unclear, Patches!Unclear, Incident!End, Patches!End
<1>13. Incident!ReadBack(c) => Patches!ReadBack(c)
  <2>1. Incident!End(c, "changed") => Patches!End(c, "changed")
    BY DEF Incident!End, Patches!End
  <2>2. Incident!End(c, "error") => Patches!End(c, "error")
    BY DEF Incident!End, Patches!End
  <2> QED BY <2>1, <2>2 DEF Incident!ReadBack, Patches!ReadBack
<1>14. Incident!Cancel(c) => Patches!Cancel(c)
  BY DEF Incident!Cancel, Patches!Cancel, Incident!End, Patches!End
<1>15. Incident!Land(c) => Patches!Land(c)
  BY DEF Incident!Land, Patches!Land, Incident!Adds, Patches!Adds, Incident!Changed, Patches!Changed, Incident!Names, Patches!Names, Incident!Resolved, Patches!Resolved, Incident!Closing, Patches!Closing, Incident!Fields, Patches!Fields
<1>16. Incident!NotLand(c) => Patches!NotLand(c)
  BY DEF Incident!NotLand, Patches!NotLand
<1>17. Incident!Steps(c) => Patches!Steps(c)
  BY <1>1, <1>2, <1>3, <1>4, <1>5, <1>6, <1>7, <1>8, <1>9, <1>10, <1>11, <1>12, <1>13 DEF Incident!Steps, Patches!Steps
<1> QED BY <1>14, <1>15, <1>16, <1>17

LEMMA SameNext == [Incident!Next]_onIncident => [Patches!Next]_(Patches!vars)
<1>1. Incident!Edit => Patches!Edit
  BY DEF Incident!Edit, Patches!Edit, Incident!Fields, Patches!Fields, Incident!People, Patches!People
<1>2. Incident!Next => Patches!Next
  BY <1>1, SameActions DEF Incident!Next, Patches!Next
<1> QED BY <1>2 DEF onIncident, Patches!vars

LEMMA SamePromises == Patches!EditsStand /\ Patches!AnswersAreTrue => IncidentStands
BY DEF IncidentStands, Incident!Adds, Patches!Adds, Incident!EditsStand, Patches!EditsStand, Incident!AnswersAreTrue, Patches!AnswersAreTrue, Incident!ReplacesWhatItRead, Patches!ReplacesWhatItRead, Incident!ClosedAsOne, Patches!ClosedAsOne, Incident!ToldTruly, Patches!ToldTruly, Incident!AddedOnce, Patches!AddedOnce, Incident!Landed, Patches!Landed, Incident!Closing, Patches!Closing, Incident!People, Patches!People

(* While tasks are written by whoever and however, no edit of an incident is           *)
(* overwritten, a close is one caller's, what a call tells is true, and nothing is     *)
(* added twice (client/incidents.py, patch_object).                                    *)
THEOREM IncidentsStand == WritesSpec => []IncidentStands
<1>1. Patches!IncidentAssumption
  BY WritesAssumption DEF Incident!IncidentAssumption, Patches!IncidentAssumption, Incident!Closing, Patches!Closing, Incident!Fields, Patches!Fields, Incident!Outcomes, Patches!Outcomes
<1>2. Patches!IncidentAssumption /\ Patches!Spec => []Patches!EditsStand
  BY Patches!IncidentEditsStand
<1>3. Patches!IncidentAssumption /\ Patches!Spec => []Patches!AnswersAreTrue
  BY Patches!IncidentAnswersAreTrue
<1>4. [WritesNext]_<<onTask, onIncident>> => [Patches!Next]_(Patches!vars)
  BY SameNext DEF WritesNext, TaskNext, IncidentNext, onIncident, Patches!vars
<1>5. WritesSpec => Patches!Spec
  BY SameStart, <1>4, PTL DEF WritesSpec, Patches!Spec
<1> QED BY <1>1, <1>2, <1>3, <1>5, SamePromises, PTL
================================================================================
