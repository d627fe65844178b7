-------------------------- MODULE IncidentPatchProofs ---------------------------
(* What the tools that change an incident promise, for any number of calls, asks,  *)
(* fields and edits, and whatever becomes of requests and answers.                 *)
EXTENDS IncidentPatch, TLAPS

Values    == Calls \cup {Before, People}
Incidents == [vers : Nat, fields : [Fields -> Values]]
Requests  == {None, "post"}
               \cup [vers : Nat, old : UNION {[S -> Values] : S \in SUBSET Fields}]
Knowledge ==
  [ask : Asks, pc : {"new", "writing", "waiting", "reading back", "ended"},
   read : {None} \cup Incidents, request : Requests,
   sent : {"unsent", "sent", "done", "refused", "lost"},
   replaced : {None} \cup Incidents, outcome : Outcomes \cup {None}, garbled : BOOLEAN]

Types == /\ incident \in Incidents /\ added \in [Calls -> Nat]
         /\ call \in [Calls -> Knowledge] /\ edits \in 0..MaxEdits

\* What a call that writes a field asks for, and what it knows of the incident: the
\* incident as it was, at a version that only one state of the incident has had.
Knows(c) ==
  /\ RequestAllowed(c) /\ Normal(c)
  /\ call[c].read \in Incidents /\ call[c].request.vers = call[c].read.vers
  /\ call[c].read.vers <= incident.vers
  /\ call[c].read.vers = incident.vers => call[c].read = incident

Local(c) ==
  /\ call[c].pc \in {"new", "writing"} => call[c].sent = "unsent"
  /\ call[c].pc = "reading back" => call[c].sent = "done"
  /\ call[c].outcome # None => call[c].pc = "ended"
  /\ call[c].outcome = "changed" => call[c].sent = "done"
  /\ call[c].outcome \in {"refused", "rejected"} /\ ~call[c].garbled =>
       call[c].sent \in {"unsent", "refused", "lost"}
  /\ added[c] = IF Adds(c) /\ call[c].sent = "done" THEN 1 ELSE 0
  /\ ~Adds(c) /\ (call[c].pc = "writing" \/ call[c].sent # "unsent") => Knows(c)
  /\ ~Adds(c) /\ call[c].sent = "done" => call[c].replaced = call[c].read

\* People aside, the closing fields were last written together.
OneHand == \E x : \A f \in Closing : incident.fields[f] \in {x, People}

WriteInv == Types /\ OneHand /\ \A c \in Calls : Local(c)

LEMMA SameAsk ==
  ASSUME NEW c \in Calls, call'[c].ask = call[c].ask
  PROVE  /\ Adds(c)' = Adds(c) /\ RequestAllowed(c)' = RequestAllowed(c)
         /\ Normal(c)' = Normal(c) /\ Changed(c)' = Changed(c)
<1>1. Names(c)' = Names(c)
  BY DEF Names
<1> QED BY <1>1 DEF Adds, RequestAllowed, Normal, Changed, Resolved, Fields

LEMMA Initially == IncidentAssumption /\ Init => WriteInv
<1> SUFFICES ASSUME IncidentAssumption, Init PROVE WriteInv
  OBVIOUS
<1>1. Types
  <2>1. incident \in Incidents
    BY DEF Init, Incidents, Values
  <2>2. call \in [Calls -> Knowledge]
    BY DEF Init, Knowledge, Requests
  <2> QED BY <2>1, <2>2 DEF Init, Types, IncidentAssumption
<1>2. OneHand
  <2>1. \A f \in Closing : incident.fields[f] \in {Before, People}
    BY DEF Init, IncidentAssumption
  <2> QED BY <2>1 DEF OneHand
<1>3. ASSUME NEW c \in Calls PROVE Local(c)
  <2>1. /\ call[c].pc = "new" /\ call[c].sent = "unsent" /\ call[c].outcome = None
        /\ added[c] = 0
    BY DEF Init
  <2> QED BY <2>1 DEF Local, IncidentAssumption, Outcomes
<1> QED BY <1>1, <1>2, <1>3 DEF WriteInv

--------------------------------------------------------------------------------
(* Types. *)

\* Each thing a step writes into what a call knows keeps its type.
LEMMA Updates ==
  ASSUME NEW k \in Knowledge, NEW i \in Incidents, NEW r \in Requests
  PROVE  /\ \A o \in Outcomes : [k EXCEPT !.pc = "ended", !.outcome = o] \in Knowledge
         /\ [k EXCEPT !.pc = "ended", !.outcome = "rejected", !.garbled = TRUE] \in Knowledge
         /\ [k EXCEPT !.pc = "waiting", !.sent = "sent"] \in Knowledge
         /\ [k EXCEPT !.pc = "reading back"] \in Knowledge
         /\ [k EXCEPT !.pc = "writing", !.request = r] \in Knowledge
         /\ [k EXCEPT !.pc = "writing", !.read = i, !.request = r] \in Knowledge
         /\ [k EXCEPT !.sent = "done", !.replaced = i] \in Knowledge
         /\ \A s \in {"refused", "lost"} : [k EXCEPT !.sent = s] \in Knowledge
<1>1. \A o \in Outcomes : [k EXCEPT !.pc = "ended", !.outcome = o] \in Knowledge
  BY DEF Knowledge
<1>2. [k EXCEPT !.pc = "ended", !.outcome = "rejected", !.garbled = TRUE] \in Knowledge
  BY DEF Knowledge, Outcomes
<1>3. [k EXCEPT !.pc = "waiting", !.sent = "sent"] \in Knowledge
  BY DEF Knowledge
<1>4. [k EXCEPT !.pc = "reading back"] \in Knowledge
  BY DEF Knowledge
<1>5. [k EXCEPT !.pc = "writing", !.request = r] \in Knowledge
  BY DEF Knowledge
<1>6. [k EXCEPT !.pc = "writing", !.read = i, !.request = r] \in Knowledge
  BY DEF Knowledge
<1>7. [k EXCEPT !.sent = "done", !.replaced = i] \in Knowledge
  BY DEF Knowledge
<1>8. \A s \in {"refused", "lost"} : [k EXCEPT !.sent = s] \in Knowledge
  BY DEF Knowledge
<1> QED BY <1>1, <1>2, <1>3, <1>4, <1>5, <1>6, <1>7, <1>8

LEMMA TypesStep == ASSUME IncidentAssumption, Types, [Next]_vars PROVE Types'
<1> USE DEF Types
<1>1. ASSUME NEW c \in Calls, NEW k \in Knowledge, call' = [call EXCEPT ![c] = k],
             incident' \in Incidents, added' \in [Calls -> Nat], edits' = edits
      PROVE  Types'
  BY <1>1
<1>2. ASSUME NEW c \in Calls, NEW k \in Knowledge, call' = [call EXCEPT ![c] = k],
             UNCHANGED <<incident, added, edits>>
      PROVE  Types'
  BY <1>2
<1>3. ASSUME NEW c \in Calls, NEW outcome \in Outcomes, End(c, outcome) PROVE Types'
  <2>1. [call[c] EXCEPT !.pc = "ended", !.outcome = outcome] \in Knowledge
    BY Updates, "post" \in Requests DEF Requests
  <2>2. /\ call' = [call EXCEPT ![c] = [call[c] EXCEPT !.pc = "ended", !.outcome = outcome]]
        /\ UNCHANGED <<incident, added, edits>>
    BY <1>3 DEF End
  <2> QED BY <1>2, <2>1, <2>2
<1>4. ASSUME NEW c \in Calls,
             \/ Refuse(c) \/ DefinitionsFail(c) \/ NotSent(c) \/ Rejected(c) \/ Unclear(c)
             \/ ReadBack(c) \/ Cancel(c)
      PROVE  Types'
  <2>1. \E outcome \in Outcomes : End(c, outcome)
    BY <1>4 DEF Refuse, DefinitionsFail, NotSent, Rejected, Unclear, ReadBack, Cancel, Outcomes
  <2> QED BY <1>3, <2>1
<1>5. ASSUME NEW c \in Calls, Accepted(c) PROVE Types'
  <2>1. CASE End(c, "changed")
    BY <1>3, <2>1 DEF Outcomes
  <2>2. CASE call' = [call EXCEPT ![c] = Goes(c, "reading back")]
             /\ UNCHANGED <<incident, added, edits>>
    <3>1. Goes(c, "reading back") \in Knowledge
      BY Updates, "post" \in Requests DEF Requests, Goes
    <3> QED BY <1>2, <2>2, <3>1
  <2> QED BY <1>5, <2>1, <2>2 DEF Accepted
<1>6. ASSUME NEW c \in Calls, Garbled(c) PROVE Types'
  <2> DEFINE k == [call[c] EXCEPT !.pc = "ended", !.outcome = "rejected", !.garbled = TRUE]
  <2>1. k \in Knowledge
    BY Updates, "post" \in Requests DEF Requests
  <2>2. call' = [call EXCEPT ![c] = k] /\ UNCHANGED <<incident, added, edits>>
    BY <1>6 DEF Garbled
  <2> QED BY <1>2, <2>1, <2>2
<1>7. ASSUME NEW c \in Calls, Send(c) PROVE Types'
  <2> DEFINE k == [call[c] EXCEPT !.pc = "waiting", !.sent = "sent"]
  <2>1. k \in Knowledge
    BY Updates, "post" \in Requests DEF Requests
  <2>2. call' = [call EXCEPT ![c] = k] /\ UNCHANGED <<incident, added, edits>>
    BY <1>7 DEF Send
  <2> QED BY <1>2, <2>1, <2>2
<1>8. ASSUME NEW c \in Calls, CreateIncident(c) \/ AddComment(c) \/ AddArtifact(c)
      PROVE  Types'
  <2> DEFINE k == [call[c] EXCEPT !.pc = "writing", !.request = "post"]
  <2>1. k \in Knowledge
    BY Updates, "post" \in Requests DEF Requests
  <2>2. call' = [call EXCEPT ![c] = k] /\ UNCHANGED <<incident, added, edits>>
    BY <1>8 DEF CreateIncident, AddComment, AddArtifact, Add
  <2> QED BY <1>2, <2>1, <2>2
<1>9. ASSUME NEW c \in Calls, Read(c) PROVE Types'
  <2> DEFINE old == [f \in Changed(c) |-> incident.fields[f]]
             r   == [vers |-> incident.vers, old |-> old]
             k   == [call[c] EXCEPT !.pc = "writing", !.read = incident, !.request = r]
  <2>1. Changed(c) \in SUBSET Fields
    BY DEF Changed, Resolved
  <2>2. old \in UNION {[S -> Values] : S \in SUBSET Fields}
    BY <2>1 DEF Incidents
  <2>3. r \in Requests
    BY <2>2 DEF Requests, Incidents
  <2>4. k \in Knowledge
    BY <2>3, Updates
  <2>5. call' = [call EXCEPT ![c] = k] /\ UNCHANGED <<incident, added, edits>>
    BY <1>9 DEF Read
  <2> QED BY <1>2, <2>4, <2>5
<1>10. ASSUME NEW c \in Calls, Land(c) PROVE Types'
  <2> DEFINE k == [call[c] EXCEPT !.sent = "done", !.replaced = incident]
  <2>1. call' = [call EXCEPT ![c] = k] /\ edits' = edits
    BY <1>10 DEF Land
  <2>2. k \in Knowledge
    BY Updates, "post" \in Requests DEF Requests
  <2>3. added' \in [Calls -> Nat]
    BY <1>10 DEF Land
  <2>4. incident' \in Incidents
    <3>1. CASE UNCHANGED incident
      BY <3>1
    <3>2. CASE incident' = [vers |-> incident.vers + 1,
                            fields |-> [f \in Fields |-> IF f \in Changed(c) THEN c
                                                         ELSE incident.fields[f]]]
      BY <3>2 DEF Incidents, Values
    <3> QED BY <1>10, <3>1, <3>2 DEF Land
  <2> QED BY <1>1, <2>1, <2>2, <2>3, <2>4
<1>11. ASSUME NEW c \in Calls, NotLand(c) PROVE Types'
  <2>1. PICK s \in {"refused", "lost"} : call' = [call EXCEPT ![c] = [@ EXCEPT !.sent = s]]
    BY <1>11 DEF NotLand
  <2>2. [call[c] EXCEPT !.sent = s] \in Knowledge
    BY Updates, "post" \in Requests DEF Requests
  <2>3. /\ call' = [call EXCEPT ![c] = [call[c] EXCEPT !.sent = s]]
        /\ UNCHANGED <<incident, added, edits>>
    BY <1>11, <2>1 DEF NotLand
  <2> QED BY <1>2, <2>2, <2>3
<1>12. CASE Edit
  <2>1. PICK f \in Fields : incident' = [vers |-> incident.vers + 1,
                                         fields |-> [incident.fields EXCEPT ![f] = People]]
    BY <1>12 DEF Edit
  <2>2. incident' \in Incidents
    BY <2>1 DEF Incidents, Values
  <2>3. edits' \in 0..MaxEdits
    BY <1>12 DEF Edit, IncidentAssumption
  <2> QED BY <1>12, <2>2, <2>3 DEF Edit
<1>13. CASE UNCHANGED vars
  BY <1>13 DEF vars
<1> QED BY <1>4, <1>5, <1>6, <1>7, <1>8, <1>9, <1>10, <1>11, <1>12, <1>13 DEF Next, Steps
--------------------------------------------------------------------------------
(* What each call knows. *)

\* A call whose ask, read and request stand knows what it knew while nobody writes.
LEMMA KnowsStill ==
  ASSUME NEW c \in Calls, incident' = incident, Knows(c),
         call'[c].ask = call[c].ask, call'[c].read = call[c].read,
         call'[c].request = call[c].request
  PROVE  Knows(c)'
BY SameAsk DEF Knows, Incidents, Fields, Values

\* A call that the step is not about.
LEMMA OtherCall ==
  ASSUME NEW c \in Calls, Local(c), incident' = incident,
         call'[c] = call[c], added'[c] = added[c]
  PROVE  Local(c)'
<1>1. Adds(c)' = Adds(c)
  BY DEF Adds
<1>2. Knows(c) => Knows(c)'
  BY KnowsStill
<1> QED BY <1>1, <1>2 DEF Local

\* The end of a call: it tells a change only when the change was made, and none only when
\* the request was not carried out and is not on its way.
LEMMA EndKeeps ==
  ASSUME IncidentAssumption, Types, NEW c \in Calls, Local(c), NEW o \in Outcomes, End(c, o),
         o = "changed" => call[c].sent = "done",
         o \in {"refused", "rejected"} => call[c].sent \in {"unsent", "refused", "lost"}
  PROVE  Local(c)'
<1>1. /\ call'[c] = [call[c] EXCEPT !.pc = "ended", !.outcome = o]
      /\ added' = added /\ incident' = incident
  BY DEF End, Types
<1>2. call[c] \in Knowledge
  BY DEF Types
<1>3. /\ call'[c].pc = "ended" /\ call'[c].outcome = o
      /\ call'[c].ask = call[c].ask /\ call'[c].read = call[c].read
      /\ call'[c].request = call[c].request /\ call'[c].sent = call[c].sent
      /\ call'[c].replaced = call[c].replaced /\ call'[c].garbled = call[c].garbled
  BY <1>1, <1>2 DEF Knowledge
<1>4. Adds(c)' = Adds(c)
  BY <1>3 DEF Adds
<1>5. Knows(c) => Knows(c)'
  BY <1>1, <1>3, KnowsStill
<1> QED BY <1>1, <1>3, <1>4, <1>5 DEF Local

LEMMA ClientStep ==
  ASSUME IncidentAssumption, WriteInv, NEW c \in Calls, Steps(c) \/ Cancel(c)
  PROVE  Local(c)'
<1> USE DEF WriteInv
<1>1. call[c] \in Knowledge /\ incident \in Incidents /\ Local(c)
  BY DEF Types
<1>2. \A o \in Outcomes : o # None
  BY DEF IncidentAssumption
<1>3. CASE Refuse(c) \/ DefinitionsFail(c)
  <2>1. call[c].sent = "unsent"
    BY <1>1, <1>3 DEF Refuse, DefinitionsFail, Local
  <2> QED BY <1>1, <1>3, <2>1, EndKeeps DEF Refuse, DefinitionsFail, Outcomes
<1>4. CASE NotSent(c) \/ Unclear(c) \/ Cancel(c)
  BY <1>1, <1>4, EndKeeps DEF NotSent, Unclear, Cancel, Outcomes
<1>5. CASE Rejected(c)
  BY <1>1, <1>5, EndKeeps DEF Rejected, Outcomes
<1>6. CASE ReadBack(c)
  <2>1. call[c].sent = "done"
    BY <1>1, <1>6 DEF ReadBack, Local
  <2> QED BY <1>1, <1>6, <2>1, EndKeeps DEF ReadBack, Outcomes
<1>7. CASE Accepted(c)
  <2>1. CASE End(c, "changed")
    BY <1>1, <1>7, <2>1, EndKeeps DEF Accepted, Outcomes
  <2>2. CASE /\ call' = [call EXCEPT ![c] = Goes(c, "reading back")]
             /\ UNCHANGED <<incident, added, edits>>
    <3>1. /\ call'[c].pc = "reading back"
          /\ call'[c].ask = call[c].ask /\ call'[c].read = call[c].read
          /\ call'[c].request = call[c].request /\ call'[c].sent = call[c].sent
          /\ call'[c].replaced = call[c].replaced /\ call'[c].garbled = call[c].garbled
          /\ call'[c].outcome = call[c].outcome
      BY <1>1, <2>2 DEF Goes, Knowledge, Types
    <3>2. Adds(c)' = Adds(c) /\ (Knows(c) => Knows(c)')
      BY <2>2, <3>1, KnowsStill DEF Adds
    <3>3. call[c].pc = "waiting" /\ call[c].sent = "done"
      BY <1>7 DEF Accepted
    <3> QED BY <1>1, <2>2, <3>1, <3>2, <3>3 DEF Local
  <2> QED BY <1>7, <2>1, <2>2 DEF Accepted
<1>8. CASE Garbled(c)
  <2>1. /\ call'[c].pc = "ended" /\ call'[c].outcome = "rejected" /\ call'[c].garbled = TRUE
        /\ call'[c].ask = call[c].ask /\ call'[c].read = call[c].read
        /\ call'[c].request = call[c].request /\ call'[c].sent = call[c].sent
        /\ call'[c].replaced = call[c].replaced
    BY <1>1, <1>8 DEF Garbled, Knowledge, Types
  <2>2. incident' = incident /\ added' = added /\ ~Adds(c)
    BY <1>8 DEF Garbled
  <2>3. Adds(c)' = Adds(c) /\ (Knows(c) => Knows(c)')
    BY <2>1, <2>2, KnowsStill DEF Adds
  <2> QED BY <1>1, <2>1, <2>2, <2>3 DEF Local
<1>9. CASE Send(c)
  <2>1. /\ call'[c].pc = "waiting" /\ call'[c].sent = "sent"
        /\ call'[c].ask = call[c].ask /\ call'[c].read = call[c].read
        /\ call'[c].request = call[c].request /\ call'[c].outcome = call[c].outcome
    BY <1>1, <1>9 DEF Send, Knowledge, Types
  <2>2. incident' = incident /\ added' = added /\ call[c].pc = "writing"
    BY <1>9 DEF Send
  <2>3. Adds(c)' = Adds(c) /\ (Knows(c) => Knows(c)')
    BY <2>1, <2>2, KnowsStill DEF Adds
  <2>4. call[c].sent = "unsent" /\ call[c].outcome = None
    BY <1>1, <2>2 DEF Local
  <2> QED BY <1>1, <1>2, <2>1, <2>2, <2>3, <2>4 DEF Local, Outcomes
<1>10. CASE CreateIncident(c) \/ AddComment(c) \/ AddArtifact(c)
  <2>1. /\ call'[c].pc = "writing" /\ call'[c].sent = call[c].sent
        /\ call'[c].ask = call[c].ask /\ call'[c].outcome = call[c].outcome
    <3>1. call'[c] = [call[c] EXCEPT !.pc = "writing", !.request = "post"]
      BY <1>10 DEF CreateIncident, AddComment, AddArtifact, Add, Types
    <3> QED BY <1>1, <3>1 DEF Knowledge
  <2>2. incident' = incident /\ added' = added /\ call[c].pc = "new" /\ Adds(c)
    BY <1>10 DEF CreateIncident, AddComment, AddArtifact, Add, Adds
  <2>3. Adds(c)' = Adds(c)
    BY <2>1 DEF Adds
  <2>4. call[c].sent = "unsent" /\ call[c].outcome = None
    BY <1>1, <2>2 DEF Local
  <2> QED BY <1>1, <1>2, <2>1, <2>2, <2>3, <2>4 DEF Local, Outcomes
<1>11. CASE Read(c)
  <2>1. /\ call'[c].pc = "writing" /\ call'[c].sent = call[c].sent
        /\ call'[c].ask = call[c].ask /\ call'[c].outcome = call[c].outcome
        /\ call'[c].read = incident /\ call'[c].request.vers = incident.vers
    BY <1>1, <1>11 DEF Read, Knowledge, Types
  <2>2. incident' = incident /\ added' = added /\ call[c].pc = "new" /\ ~Adds(c)
    BY <1>11 DEF Read
  <2>3. Adds(c)' = Adds(c)
    BY <2>1 DEF Adds
  <2>4. Knows(c)'
    <3>1. (RequestAllowed(c) /\ Normal(c))'
      BY <1>11, <2>1, SameAsk DEF Read
    <3>2. incident.vers <= incident.vers
      BY <1>1 DEF Incidents
    <3>3. Incidents' = Incidents
      BY DEF Incidents, Fields, Values
    <3> QED BY <1>1, <2>1, <2>2, <3>1, <3>2, <3>3 DEF Knows
  <2>5. call[c].sent = "unsent" /\ call[c].outcome = None
    BY <1>1, <2>2 DEF Local
  <2> QED BY <1>1, <1>2, <2>1, <2>2, <2>3, <2>4, <2>5 DEF Local, Outcomes
<1> QED BY <1>3, <1>4, <1>5, <1>6, <1>7, <1>8, <1>9, <1>10, <1>11 DEF Steps

\* A write leaves what others know: the version it writes under is a new one.
LEMMA KnowsAfterWrite ==
  ASSUME NEW c \in Calls, incident \in Incidents, incident' \in Incidents,
         incident'.vers = incident.vers + 1, Knows(c),
         call'[c].ask = call[c].ask, call'[c].read = call[c].read,
         call'[c].request = call[c].request
  PROVE  Knows(c)'
<1>1. (RequestAllowed(c) /\ Normal(c))'
  BY SameAsk DEF Knows
<1>2. incident.vers \in Nat /\ call[c].read.vers \in Nat
  BY DEF Incidents, Knows
<1>3. call[c].read.vers < incident'.vers
  BY <1>2 DEF Knows
<1> QED BY <1>1, <1>2, <1>3 DEF Knows, Incidents, Fields, Values

LEMMA LandStep ==
  ASSUME IncidentAssumption, WriteInv, WriteInv => Types', NEW c \in Calls, Land(c),
         NEW d \in Calls
  PROVE  Local(d)'
<1> USE DEF WriteInv
<1>1. /\ call[c] \in Knowledge /\ incident \in Incidents /\ incident' \in Incidents
      /\ Local(c) /\ Local(d)
  BY DEF Types, Incidents, Fields, Values
<1>2. call[c].sent = "sent"
  BY DEF Land
<1>3. /\ call'[c].sent = "done" /\ call'[c].replaced = incident
      /\ call'[c].pc = call[c].pc /\ call'[c].ask = call[c].ask
      /\ call'[c].read = call[c].read /\ call'[c].request = call[c].request
      /\ call'[c].outcome = call[c].outcome /\ call'[c].garbled = call[c].garbled
  BY <1>1 DEF Land, Knowledge, Types
<1>4. d # c => call'[d] = call[d]
  BY DEF Land, Types
<1>5. d # c => added'[d] = added[d]
  BY DEF Land, Types
<1>6. /\ Adds(c)' = Adds(c)
      /\ added'[c] = IF Adds(c) THEN 1 ELSE 0
  <2>1. added[c] = 0
    BY <1>1, <1>2 DEF Local
  <2>2. added'[c] = IF Adds(c) THEN added[c] + 1 ELSE added[c]
    BY DEF Land, Types
  <2> QED BY <1>3, <2>1, <2>2 DEF Adds
<1>7. incident' = incident \/ incident'.vers = incident.vers + 1
  BY DEF Land
<1>8. ASSUME NEW e \in Calls, call'[e].ask = call[e].ask, call'[e].read = call[e].read,
             call'[e].request = call[e].request, Knows(e)
      PROVE  Knows(e)'
  BY <1>1, <1>7, <1>8, KnowsStill, KnowsAfterWrite
<1>9. CASE d = c
  <2>1. ~Adds(c) => Knows(c) /\ call[c].read = incident
    <3>1. ~Adds(c) => Knows(c)
      BY <1>1, <1>2 DEF Local
    <3>2. ~Adds(c) => call[c].request.vers = incident.vers
      BY DEF Land
    <3> QED BY <3>1, <3>2 DEF Knows
  <2>2. ~Adds(c) => Knows(c)'
    BY <1>3, <1>8, <2>1
  <2> QED BY <1>1, <1>2, <1>3, <1>6, <1>9, <2>1, <2>2 DEF Local
<1>10. CASE d # c
  <2>1. Adds(d)' = Adds(d) /\ (Knows(d) => Knows(d)')
    BY <1>4, <1>8, <1>10 DEF Adds
  <2> QED BY <1>1, <1>4, <1>5, <1>10, <2>1 DEF Local
<1> QED BY <1>9, <1>10

LEMMA NotLandStep ==
  ASSUME WriteInv, NEW c \in Calls, NotLand(c)
  PROVE  Local(c)'
<1> USE DEF WriteInv
<1>1. call[c] \in Knowledge /\ Local(c)
  BY DEF Types
<1>2. /\ call'[c].sent \in {"refused", "lost"} /\ call'[c].replaced = call[c].replaced
      /\ call'[c].pc = call[c].pc /\ call'[c].ask = call[c].ask
      /\ call'[c].read = call[c].read /\ call'[c].request = call[c].request
      /\ call'[c].outcome = call[c].outcome /\ call'[c].garbled = call[c].garbled
  <2>1. PICK s \in {"refused", "lost"} : call' = [call EXCEPT ![c] = [@ EXCEPT !.sent = s]]
    BY DEF NotLand
  <2>2. call'[c] = [call[c] EXCEPT !.sent = s]
    BY <2>1 DEF Types
  <2> QED BY <1>1, <2>2 DEF Knowledge
<1>3. incident' = incident /\ added' = added /\ call[c].sent = "sent"
  BY DEF NotLand
<1>4. Adds(c)' = Adds(c) /\ (Knows(c) => Knows(c)')
  BY <1>2, <1>3, KnowsStill DEF Adds
<1> QED BY <1>1, <1>2, <1>3, <1>4 DEF Local

LEMMA EditStep ==
  ASSUME WriteInv, WriteInv => Types', Edit, NEW c \in Calls
  PROVE  Local(c)'
<1> USE DEF WriteInv
<1>1. /\ incident \in Incidents /\ incident' \in Incidents /\ Local(c)
      /\ incident'.vers = incident.vers + 1
  BY DEF Types, Edit, Incidents, Fields, Values
<1>2. call' = call /\ added' = added
  BY DEF Edit
<1>3. Adds(c)' = Adds(c) /\ (Knows(c) => Knows(c)')
  BY <1>1, <1>2, KnowsAfterWrite DEF Adds
<1> QED BY <1>1, <1>2, <1>3 DEF Local

\* A close sets all of the closing fields, and an update none of them.
LEMMA CloseIsWhole ==
  ASSUME IncidentAssumption, NEW c \in Calls, call[c].ask \in Asks, ~Adds(c), RequestAllowed(c)
  PROVE  Closing \subseteq Changed(c) \/ Closing \cap Changed(c) = {}
<1>1. CASE call[c].ask.tool = "close"
  <2>1. ASSUME NEW f \in Closing PROVE f \in Changed(c)
    <3>1. [field |-> f, prefixed |-> FALSE] \in Names(c)
      BY <1>1 DEF Names
    <3>2. f \in Resolved([field |-> f, prefixed |-> FALSE])
      BY DEF Resolved, IncidentAssumption
    <3> QED BY <3>1, <3>2 DEF Changed
  <2> QED BY <2>1
<1>2. CASE call[c].ask.tool = "update"
  <2>1. \A n \in Names(c) : n.field \notin Closing
    BY <1>2 DEF Names, RequestAllowed
  <2> QED BY <2>1 DEF Changed, Resolved
<1> QED BY <1>1, <1>2 DEF IncidentAssumption, Adds

LEMMA OneHandStep == ASSUME IncidentAssumption, WriteInv, Next PROVE OneHand'
<1> USE DEF WriteInv
<1>1. CASE UNCHANGED incident
  BY <1>1 DEF OneHand
<1>2. ASSUME NEW c \in Calls, Land(c), ~Adds(c) PROVE OneHand'
  <2>1. Closing \subseteq Changed(c) \/ Closing \cap Changed(c) = {}
    <3>1. Knows(c)
      BY <1>2 DEF Local, Land
    <3>2. call[c].ask \in Asks
      BY DEF Types, Knowledge
    <3> QED BY <1>2, <3>1, <3>2, CloseIsWhole DEF Knows
  <2>2. \A f \in Closing : incident'.fields[f] = IF f \in Changed(c) THEN c ELSE incident.fields[f]
    BY <1>2 DEF Land, IncidentAssumption
  <2>3. CASE Closing \subseteq Changed(c)
    BY <2>2, <2>3 DEF OneHand
  <2>4. CASE Closing \cap Changed(c) = {}
    BY <2>2, <2>4 DEF OneHand
  <2> QED BY <2>1, <2>3, <2>4
<1>3. CASE Edit
  <2>1. \A f \in Closing : incident'.fields[f] \in {incident.fields[f], People}
    BY <1>3 DEF Edit, IncidentAssumption, Types, Incidents
  <2> QED BY <2>1 DEF OneHand
<1>4. ASSUME NEW c \in Calls, Steps(c) \/ Cancel(c) \/ NotLand(c) \/ (Land(c) /\ Adds(c))
      PROVE  UNCHANGED incident
  BY <1>4 DEF Steps, Cancel, NotLand, Land, Refuse, DefinitionsFail, Read, CreateIncident, AddComment,
              AddArtifact, Add, Send, NotSent, Rejected, Garbled, Accepted, Unclear, ReadBack, End
<1> QED BY <1>1, <1>2, <1>3, <1>4 DEF Next
--------------------------------------------------------------------------------

LEMMA Steadily == ASSUME IncidentAssumption, WriteInv, [Next]_vars PROVE WriteInv'
<1>1. Types'
  BY TypesStep DEF WriteInv
<1>2. CASE UNCHANGED vars
  <2>1. OneHand'
    BY <1>2 DEF WriteInv, OneHand, vars
  <2>2. ASSUME NEW d \in Calls PROVE Local(d)'
    BY <1>2, OtherCall DEF WriteInv, vars
  <2> QED BY <1>1, <2>1, <2>2 DEF WriteInv
<1>3. CASE Next
  <2>1. OneHand'
    BY <1>3, OneHandStep
  <2>2. ASSUME NEW d \in Calls PROVE Local(d)'
    <3>1. CASE Edit
      BY <1>1, <3>1, EditStep
    <3>2. ASSUME NEW c \in Calls, Land(c) PROVE Local(d)'
      BY <1>1, <3>2, LandStep
    <3>3. ASSUME NEW c \in Calls, Steps(c) \/ Cancel(c) \/ NotLand(c) PROVE Local(d)'
      <4>1. CASE d = c
        BY <3>3, <4>1, ClientStep, NotLandStep
      <4>2. CASE d # c
        <5>1. /\ incident' = incident /\ added' = added
              /\ \E k : call' = [call EXCEPT ![c] = k]
          BY <3>3 DEF Steps, Cancel, NotLand, Refuse, DefinitionsFail, Read, CreateIncident, AddComment,
                      AddArtifact, Add, Send, NotSent, Rejected, Garbled, Accepted, Unclear, ReadBack, End
        <5>2. call'[d] = call[d] /\ added'[d] = added[d]
          BY <4>2, <5>1 DEF WriteInv, Types
        <5> QED BY <5>1, <5>2, OtherCall DEF WriteInv
      <4> QED BY <4>1, <4>2
    <3> QED BY <1>3, <3>1, <3>2, <3>3 DEF Next
  <2> QED BY <1>1, <2>1, <2>2 DEF WriteInv
<1> QED BY <1>2, <1>3

\* The promises of the invariant: what the calls know, told as the tools tell it.
LEMMA Promises == ASSUME WriteInv PROVE EditsStand /\ AnswersAreTrue
<1> USE DEF WriteInv
<1>1. ReplacesWhatItRead
  BY DEF ReplacesWhatItRead, Landed, Local
<1>2. ClosedAsOne
  <2>1. PICK x : \A f \in Closing : incident.fields[f] \in {x, People}
    BY DEF OneHand
  <2> QED BY <2>1 DEF ClosedAsOne
<1>3. ToldTruly
  BY DEF ToldTruly, Landed, Local
<1>4. AddedOnce
  <2>1. \A c \in Calls : added[c] \in {0, 1}
    BY DEF Local
  <2> QED BY <2>1 DEF AddedOnce
<1> QED BY <1>1, <1>2, <1>3, <1>4 DEF EditsStand, AnswersAreTrue

\* The invariant holds in every reachable state, for any number of calls, asks and edits.
THEOREM WritesKeepInv == IncidentAssumption /\ Spec => []WriteInv
<1> SUFFICES ASSUME IncidentAssumption PROVE Spec => []WriteInv
  OBVIOUS
<1>1. Init => WriteInv
  BY Initially
<1>2. WriteInv /\ [Next]_vars => WriteInv'
  BY Steadily
<1> QED BY <1>1, <1>2, PTL DEF Spec

\* Nobody's edit of an incident is overwritten by update or close, whose PATCH lands only on
\* what they read, and the fields that close an incident were set together by one caller
\* unless people changed one: whatever requests are lost or late and callers cancelled.
THEOREM IncidentEditsStand == IncidentAssumption /\ Spec => []EditsStand
BY WritesKeepInv, Promises, PTL

\* A change that a tool tells was made, one it tells as refused or rejected was not and never
\* will be, and a note, an artifact or an incident is added at most once.
THEOREM IncidentAnswersAreTrue == IncidentAssumption /\ Spec => []AnswersAreTrue
BY WritesKeepInv, Promises, PTL
================================================================================
