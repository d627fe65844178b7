------------------------------- MODULE TaskStatus -------------------------------
(***************************************************************************)
(* TasksClient.set_status (client/tasks.py): read a task, PUT it back whole  *)
(* with another status, and let a second read decide what became of it.     *)
(* Several calls may work on one task while people edit it in SOAR.  A PUT   *)
(* travels: SOAR may carry it out after its sender gave up on the answer,    *)
(* and an answer that is not one of SOAR's own two says nothing.            *)
(***************************************************************************)
EXTENDS Naturals

CONSTANTS
    Calls,         \* calls of set_status on this task
    Target,        \* the status each call asks for, "O" or "C"
    Texts,         \* everything else in the task, as its editors tell it apart
    MaxEdits,      \* bound on the edits
    None

Codes == {"O", "C"}
Task  == [status : Codes, text : Texts, usable : BOOLEAN]

\* What a call can tell: its change was not made, was made, may have been made.
Outcomes == {"refused", "changed", "unverified", "cancelled"}

ASSUME TaskAssumption ==
    /\ Target \in [Calls -> Codes]
    /\ None \notin Task \cup Outcomes
    /\ MaxEdits \in Nat

VARIABLES
    task,          \* the task in SOAR; usable: active and not frozen
    pc,            \* where each call is
    current,       \* what it read first
    put,           \* its PUT: "unsent", "sent", "done", "refused" or "lost"
    outcome,       \* what it told its caller
    landed,        \* history: how often its PUT changed the task
    disturbed,     \* history: others wrote the task between its two reads
    edits          \* history: edits so far

call == <<pc, current, put, outcome, landed, disturbed>>
vars == <<task, call, edits>>

TypeOK ==
    /\ task \in Task
    /\ pc \in [Calls -> {"new", "writing", "waiting", "verifying", "ended"}]
    /\ current \in [Calls -> Task \cup {None}]
    /\ \A c \in Calls :
         pc[c] \in {"writing", "waiting", "verifying"} \/ put[c] # "unsent" => current[c] # None
    /\ put \in [Calls -> {"unsent", "sent", "done", "refused", "lost"}]
    /\ outcome \in [Calls -> Outcomes \cup {None}]
    /\ landed \in [Calls -> Nat]
    /\ disturbed \subseteq Calls
    /\ edits \in 0..MaxEdits

Init ==
    /\ task \in Task
    /\ pc = [c \in Calls |-> "new"]
    /\ current = [c \in Calls |-> None]
    /\ put = [c \in Calls |-> "unsent"]
    /\ outcome = [c \in Calls |-> None]
    /\ landed = [c \in Calls |-> 0]
    /\ disturbed = {}
    /\ edits = 0

End(c, o) == pc' = [pc EXCEPT ![c] = "ended"] /\ outcome' = [outcome EXCEPT ![c] = o]

\* The first GET fails, or shows a task that is not the incident's, already has the status,
\* or is not reported active and unfrozen.  Only what is usable is told apart here.
ReadRefuses(c) ==
    /\ pc[c] = "new"
    /\ End(c, "refused")
    /\ UNCHANGED <<task, current, put, landed, disturbed, edits>>

Read(c) ==
    /\ pc[c] = "new"
    /\ task.status # Target[c] /\ task.usable
    /\ current' = [current EXCEPT ![c] = task]
    /\ pc' = [pc EXCEPT ![c] = "writing"]
    /\ UNCHANGED <<task, put, outcome, landed, disturbed, edits>>

\* The PUT leaves ...
Put(c) ==
    /\ pc[c] = "writing"
    /\ put' = [put EXCEPT ![c] = "sent"]
    /\ pc' = [pc EXCEPT ![c] = "waiting"]
    /\ UNCHANGED <<task, current, outcome, landed, disturbed, edits>>

\* ... or no connection was obtained, which proves that it did not.
NotSent(c) ==
    /\ pc[c] = "writing"
    /\ End(c, "refused")
    /\ UNCHANGED <<task, current, put, landed, disturbed, edits>>

\* SOAR's own refusal, an HTTP 200 with success false.
Rejected(c) ==
    /\ pc[c] = "waiting" /\ put[c] = "refused"
    /\ End(c, "refused")
    /\ UNCHANGED <<task, current, put, landed, disturbed, edits>>

Accepted(c) ==
    /\ pc[c] = "waiting" /\ put[c] = "done"
    /\ pc' = [pc EXCEPT ![c] = "verifying"]
    /\ UNCHANGED <<task, current, put, outcome, landed, disturbed, edits>>

\* Two slips: an HTTP error is taken for a refusal; a failed PUT is sent again.
UnclearRefused(c) ==
    /\ pc[c] = "waiting"
    /\ End(c, "refused")
    /\ UNCHANGED <<task, current, put, landed, disturbed, edits>>

UnclearRetried(c) ==
    /\ pc[c] = "waiting"
    /\ pc' = [pc EXCEPT ![c] = "writing"]
    /\ UNCHANGED <<task, current, put, outcome, landed, disturbed, edits>>

\* Any other answer, an HTTP error, a timeout or a dropped connection: it may have been
\* carried out, it may be later, or never.
Unclear(c) ==
    /\ pc[c] = "waiting"
    /\ pc' = [pc EXCEPT ![c] = "verifying"]
    /\ UNCHANGED <<task, current, put, outcome, landed, disturbed, edits>>

\* A slip: the answer to the PUT decides, the read-back is for its image only.
ReadBackTrusting(c) ==
    /\ pc[c] = "verifying"
    /\ End(c, "changed")
    /\ UNCHANGED <<task, current, put, landed, disturbed, edits>>

\* A slip: the read-back is repeated until it shows the status.
ReadBackPolling(c) ==
    /\ pc[c] = "verifying" /\ task.status = Target[c]
    /\ End(c, "changed")
    /\ UNCHANGED <<task, current, put, landed, disturbed, edits>>

\* The second GET, made once, decides; it may fail as well.
ReadBack(c) ==
    /\ pc[c] = "verifying"
    /\ \/ task.status = Target[c] /\ End(c, "changed")
       \/ End(c, "unverified")
    /\ UNCHANGED <<task, current, put, landed, disturbed, edits>>

\* The tool call is cancelled at one of its awaits.
Cancel(c) ==
    /\ pc[c] \in {"new", "writing", "waiting", "verifying"}
    /\ End(c, "cancelled")
    /\ UNCHANGED <<task, current, put, landed, disturbed, edits>>

(* -------------------------------- SOAR --------------------------------- *)

\* The calls between their two reads, other than the one that writes.
Overlapped(writer) == {d \in Calls \ writer : pc[d] \in {"writing", "waiting", "verifying"}}

\* The PUT is carried out: the task becomes what was read, but for its status.
Land(c) ==
    /\ put[c] = "sent"
    /\ task' = [current[c] EXCEPT !.status = Target[c]]
    /\ put' = [put EXCEPT ![c] = "done"]
    /\ landed' = [landed EXCEPT ![c] = @ + 1]
    /\ disturbed' = disturbed \cup Overlapped({c})
    /\ UNCHANGED <<pc, current, outcome, edits>>

\* SOAR refuses it, or it never arrives.
NotLand(c) ==
    /\ put[c] = "sent"
    /\ \E p \in {"refused", "lost"} : put' = [put EXCEPT ![c] = p]
    /\ UNCHANGED <<task, pc, current, outcome, landed, disturbed, edits>>

\* Somebody edits the task in SOAR.
Edit ==
    /\ edits < MaxEdits
    /\ edits' = edits + 1
    /\ \E t \in Task \ {task} : task' = t
    /\ disturbed' = disturbed \cup Overlapped({})
    /\ UNCHANGED <<pc, current, put, outcome, landed>>

Steps(c) ==
    \/ ReadRefuses(c) \/ Read(c) \/ Put(c) \/ NotSent(c)
    \/ Rejected(c) \/ Accepted(c) \/ Unclear(c) \/ ReadBack(c)

Next ==
    \/ \E c \in Calls : Steps(c) \/ Cancel(c) \/ Land(c) \/ NotLand(c)
    \/ Edit

Spec == Init /\ [][Next]_vars

\* Every request of the client has a timeout, so a call does not stop at an await.
FairSpec == Spec /\ \A c \in Calls : WF_vars(Steps(c))

--------------------------------------------------------------------------------

\* A call that reports a refusal has not changed the task and never will: its PUT was not
\* sent or SOAR said no, whatever became of the requests of other calls.
RefusedNeverLands ==
    \A c \in Calls : outcome[c] = "refused" => landed[c] = 0 /\ put[c] # "sent"

\* A call changes the task at most once, also when its answer is lost.
LandsOnce == \A c \in Calls : landed[c] <= 1

\* Unless somebody else wrote the task between its two reads, a call that reports a change
\* made it, whatever answer its PUT got.
ChangedMeansLanded ==
    \A c \in Calls : outcome[c] = "changed" /\ c \notin disturbed => landed[c] = 1

\* Every call ends, without repeating the read-back until it likes what it sees.
EveryCallEnds == \A c \in Calls : <>(pc[c] = "ended")

(***************************************************************************)
(* Why: a PUT is on its way, or over, only while its call waits for it or   *)
(* after; and as long as nobody else writes, the task keeps the status that *)
(* was read until the PUT lands.                                            *)
(***************************************************************************)

PutFollowsCall ==
    \A c \in Calls :
        /\ landed[c] = IF put[c] = "done" THEN 1 ELSE 0
        /\ pc[c] \in {"new", "writing"} => put[c] = "unsent"

StatusKept ==
    \A c \in Calls :
        /\ pc[c] \in {"writing", "waiting", "verifying"} /\ c \notin disturbed /\ landed[c] = 0
              => task.status # Target[c]
        /\ (outcome[c] # None) = (pc[c] = "ended")

WriteInv ==
    /\ TypeOK
    /\ PutFollowsCall /\ StatusKept
    /\ RefusedNeverLands /\ ChangedMeansLanded
================================================================================
