----------------------------- MODULE IncidentPatch -----------------------------
(***************************************************************************)
(* The tools that change an incident (tools/incidents.py, tools/            *)
(* investigation.py, client/incidents.py, client/base.py): update, assign    *)
(* and close read it and PATCH it under the version they read; create and    *)
(* the two adders POST.  Several calls and people in SOAR change it at the   *)
(* same time.  A request travels: SOAR may carry it out after its sender     *)
(* gave up on the answer.                                                    *)
(* A value of a field is who wrote it.                                       *)
(***************************************************************************)
EXTENDS Naturals, FiniteSets

CONSTANTS
    Calls,         \* calls of these tools
    Asks,          \* what a call may ask for: its tool, the names of its fields, and
                   \* whether its arguments are usable at all
    Definitions,   \* the org's fields: name to [custom, writable]
    MaxEdits,      \* bound on the edits by people
    None

\* CLOSE_ONLY_FIELDS, which a close sends together.
Closing == {"plan_status", "resolution_id", "resolution_summary"}

Before == "before"
People == "people"

VARIABLES
    incident,      \* its version and its fields
    added,         \* the calls that added something, as often as they did
    call,          \* what each call knows
    edits

vars == <<incident, added, call, edits>>

Fields == DOMAIN Definitions

Outcomes == {"refused", "rejected", "error", "changed", "cancelled"}

\* What the tools can ask for: assign is an update of the owner.  An org has the closing fields.
IncidentAssumption ==
    /\ \A a \in Asks :
         /\ a.tool \in {"create", "comment", "artifact", "update", "close"}
         /\ \A n \in a.names : n.prefixed \in BOOLEAN
    /\ Closing \subseteq Fields
    /\ MaxEdits \in Nat
    /\ None \notin Outcomes

Init ==
    /\ incident = [vers |-> 0, fields |-> [f \in Fields |-> Before]]
    /\ added = [c \in Calls |-> 0]
    /\ call \in [Calls -> [ask : Asks, pc : {"new"}, read : {None}, request : {None}, sent : {"unsent"},
                            replaced : {None}, outcome : {None}, garbled : {FALSE}]]
    /\ edits = 0

--------------------------------------------------------------------------------
(* What a call asks for.  A name is a field's, with or without "properties." before it. *)

Adds(c) == call[c].ask.tool \in {"create", "comment", "artifact"}

\* resolve_field: with the prefix custom fields only, without it any.
Resolved(name) ==
    {f \in Fields : f = name.field /\ (name.prefixed => Definitions[f].custom)}

\* A slip: the closing fields are compared with their prefix.
RequestAllowedAsWritten(c) ==
    LET names == call[c].ask.names
    IN  /\ call[c].ask.tool = "update" => \A n \in names : ~(n.prefixed /\ n.field \in Closing)
        /\ call[c].ask.tool = "close" => \A n \in names : n.prefixed \/ n.field \notin Closing

\* soar_update_incident and close: who may set the closing fields.
RequestAllowed(c) ==
    LET names == call[c].ask.names
    IN  /\ call[c].ask.tool = "update" => \A n \in names : n.field \notin Closing
        /\ call[c].ask.tool = "close" => \A n \in names : n.prefixed \/ n.field \notin Closing

Names(c) ==
    call[c].ask.names \cup (IF call[c].ask.tool = "close" THEN [field : Closing, prefixed : {FALSE}] ELSE {})

\* _normalise: each name is one writable field, and no field is given twice.
Normal(c) ==
    /\ Names(c) # {}
    /\ \A n \in Names(c) : \E f \in Resolved(n) : Definitions[f].writable
    /\ \A n, m \in Names(c) : Resolved(n) = Resolved(m) => n = m

Changed(c) == UNION {Resolved(n) : n \in Names(c)}

--------------------------------------------------------------------------------
(* The calls. *)

Goes(c, pc) == [call[c] EXCEPT !.pc = pc]

End(c, outcome) ==
    /\ call' = [call EXCEPT ![c] = [@ EXCEPT !.pc = "ended", !.outcome = outcome]]
    /\ UNCHANGED <<incident, added, edits>>

\* The arguments, or the definitions they are checked against.
Refuse(c) ==
    /\ call[c].pc = "new"
    /\ ~(call[c].ask.usable /\ (Adds(c) \/ (RequestAllowed(c) /\ Normal(c))))
    /\ End(c, "refused")

DefinitionsFail(c) ==
    /\ call[c].pc = "new" /\ ~Adds(c) /\ call[c].ask.usable /\ RequestAllowed(c)
    /\ End(c, "error")

\* An addition has nothing to read; what it adds is in its request.  A name, a text of
\* some length, a type and a value are what makes one usable.
Add(c, tool) ==
    /\ call[c].pc = "new" /\ call[c].ask.tool = tool /\ call[c].ask.usable
    /\ call' = [call EXCEPT ![c] = [@ EXCEPT !.pc = "writing", !.request = "post"]]
    /\ UNCHANGED <<incident, added, edits>>

CreateIncident(c) == Add(c, "create")

AddComment(c) == Add(c, "comment")

AddArtifact(c) == Add(c, "artifact")

Read(c) ==
    /\ call[c].pc = "new" /\ call[c].ask.usable /\ ~Adds(c) /\ RequestAllowed(c) /\ Normal(c)
    /\ call' = [call EXCEPT ![c] = [@ EXCEPT !.pc = "writing", !.read = incident,
                    !.request = [vers |-> incident.vers,
                                 old |-> [f \in Changed(c) |-> incident.fields[f]]]]]
    /\ UNCHANGED <<incident, added, edits>>

\* A slip: the version is read again when the request is sent.
SendLatest(c) ==
    /\ call[c].pc = "writing"
    /\ call' = [call EXCEPT ![c] = [@ EXCEPT !.pc = "waiting", !.sent = "sent",
                    !.request = IF Adds(c) THEN @
                                ELSE [vers |-> incident.vers,
                                      old |-> [f \in Changed(c) |-> incident.fields[f]]]]]
    /\ UNCHANGED <<incident, added, edits>>

\* patch_object's PatchDTO leaves, or the POST.
Send(c) ==
    /\ call[c].pc = "writing"
    /\ call' = [call EXCEPT ![c] = [@ EXCEPT !.pc = "waiting", !.sent = "sent"]]
    /\ UNCHANGED <<incident, added, edits>>

NotSent(c) == call[c].pc = "writing" /\ End(c, "error")

\* HTTP 200 with success false; a POST is never answered so.
Rejected(c) == call[c].pc = "waiting" /\ ~Adds(c) /\ call[c].sent = "refused" /\ End(c, "rejected")

\* So is any other answer below 400 that is not the object with success true: an empty one, a
\* page of something in between.  It says nothing about the request.
Garbled(c) ==
    /\ call[c].pc = "waiting" /\ ~Adds(c)
    /\ call' = [call EXCEPT ![c] = [@ EXCEPT !.pc = "ended", !.outcome = "rejected", !.garbled = TRUE]]
    /\ UNCHANGED <<incident, added, edits>>

\* A slip: whatever HTTP 200 says is taken for success.
AcceptedAnyhow(c) ==
    /\ call[c].pc = "waiting" /\ call[c].sent \in {"done", "refused"}
    /\ End(c, "changed")

Accepted(c) ==
    /\ call[c].pc = "waiting" /\ call[c].sent = "done"
    /\ IF Adds(c) THEN End(c, "changed")
       ELSE /\ call' = [call EXCEPT ![c] = Goes(c, "reading back")]
            /\ UNCHANGED <<incident, added, edits>>

\* A slip: what may have been lost is sent again.
UnclearRetried(c) ==
    /\ call[c].pc = "waiting"
    /\ call' = [call EXCEPT ![c] = Goes(c, "writing")]
    /\ UNCHANGED <<incident, added, edits>>

\* An HTTP error, a timeout, a dropped connection, an answer that is not one: it is raised,
\* and nothing is sent twice.
Unclear(c) == call[c].pc = "waiting" /\ End(c, "error")

\* A slip: the incident is read until it shows the change.
ReadBackUntilThere(c) ==
    /\ call[c].pc = "reading back"
    /\ \A f \in Changed(c) : incident.fields[f] = c
    /\ End(c, "changed")

\* The post-image; its failure is the call's, whatever the PATCH did.
ReadBack(c) ==
    /\ call[c].pc = "reading back"
    /\ End(c, "changed") \/ End(c, "error")

\* The tool call is cancelled at one of its awaits.
Cancel(c) == call[c].pc # "ended" /\ End(c, "cancelled")

--------------------------------------------------------------------------------
(* SOAR. *)

\* The version and the old values are compared before anything is changed; a close may
\* also lack a field that the org requires.
Land(c) ==
    /\ call[c].sent = "sent"
    /\ IF Adds(c)
       THEN added' = [added EXCEPT ![c] = @ + 1] /\ UNCHANGED incident
       ELSE /\ call[c].request.vers = incident.vers
            /\ \A f \in Changed(c) : call[c].request.old[f] = incident.fields[f]
            /\ incident' = [vers |-> incident.vers + 1,
                            fields |-> [f \in Fields |-> IF f \in Changed(c) THEN c
                                                         ELSE incident.fields[f]]]
            /\ UNCHANGED added
    /\ call' = [call EXCEPT ![c] = [@ EXCEPT !.sent = "done", !.replaced = incident]]
    /\ UNCHANGED edits

NotLand(c) ==
    /\ call[c].sent = "sent"
    /\ \E s \in {"refused", "lost"} : call' = [call EXCEPT ![c] = [@ EXCEPT !.sent = s]]
    /\ UNCHANGED <<incident, added, edits>>

\* Somebody edits a field in SOAR.
Edit ==
    /\ edits < MaxEdits
    /\ edits' = edits + 1
    /\ \E f \in Fields : incident' = [vers |-> incident.vers + 1,
                                      fields |-> [incident.fields EXCEPT ![f] = People]]
    /\ UNCHANGED <<added, call>>

Steps(c) ==
    \/ Refuse(c) \/ DefinitionsFail(c) \/ Read(c)
    \/ CreateIncident(c) \/ AddComment(c) \/ AddArtifact(c)
    \/ Send(c) \/ NotSent(c)
    \/ Rejected(c) \/ Garbled(c) \/ Accepted(c) \/ Unclear(c) \/ ReadBack(c)

Next ==
    \/ \E c \in Calls : Steps(c) \/ Cancel(c) \/ Land(c) \/ NotLand(c)
    \/ Edit

Spec == Init /\ [][Next]_vars

\* Every request of the client has a timeout, so a call does not stop at an await.
FairSpec == Spec /\ \A c \in Calls : WF_vars(Steps(c))

--------------------------------------------------------------------------------

Landed(c) == call[c].sent = "done"

TypeOK ==
    /\ incident.vers \in Nat /\ incident.fields \in [Fields -> Calls \cup {Before, People}]
    /\ added \in [Calls -> Nat]
    /\ \A c \in Calls :
         /\ call[c].ask \in Asks
         /\ call[c].pc \in {"new", "writing", "waiting", "reading back", "ended"}
         /\ call[c].sent \in {"unsent", "sent", "done", "refused", "lost"}
         /\ call[c].outcome \in Outcomes \cup {None}
         /\ (call[c].outcome # None) = (call[c].pc = "ended")
    /\ edits \in 0..MaxEdits

\* What a PATCH replaced is what its call had read, and what the audit log shows as its
\* pre-image: an edit in between is never overwritten (soar_update_incident).
ReplacesWhatItRead ==
    \A c \in Calls : ~Adds(c) /\ Landed(c) => call[c].replaced = call[c].read

\* How an incident was closed is one caller's answer: its status, resolution and summary
\* were set together, unless people changed one of them.
ClosedAsOne ==
    LET by(f) == incident.fields[f]
    IN  (\A f \in Closing : by(f) # People) => \A f, g \in Closing : by(f) = by(g)

\* Nobody's edit of the incident is overwritten, and a close is never mixed from two callers.
EditsStand == ReplacesWhatItRead /\ ClosedAsOne

\* A change that is reported was made, and one that is reported as refused or rejected was
\* not and never will be, however late its request arrives; for a rejection that needs an
\* answer that is SOAR's own.
ToldTruly ==
    \A c \in Calls :
        /\ call[c].outcome = "changed" => Landed(c)
        /\ call[c].outcome \in {"refused", "rejected"} /\ ~call[c].garbled =>
             call[c].sent \in {"unsent", "refused", "lost"}

\* A note, an artifact or an incident is added once, also when the answer is lost.
AddedOnce == \A c \in Calls : added[c] <= 1

\* What a call tells of its change is true, and nothing is added twice.
AnswersAreTrue == ToldTruly /\ AddedOnce

\* Every call ends.
EveryCallEnds == \A c \in Calls : <>(call[c].pc = "ended")
================================================================================
