---------------------------- MODULE PipelineProofs -----------------------------
(* Theorems about Pipeline, for any calls, tiers, caps, windows and bounds: who may *)
(* run, what the approval and the limits owe; then what the audit log says of the    *)
(* calls, what a restart makes of it, and the types of Pipeline, for any ways an      *)
(* append can fail unless a theorem names those it allows.                          *)
EXTENDS Pipeline, FiniteSetTheorems, SequenceTheorems, TLAPS

USE PipelineAssumption

(* The part of TypeOK that the first theorems rest on. *)
Shape ==
  /\ pc \in [Calls -> Places]
  /\ approval \in [Requests -> {"unknown", "pending", "approved", "consumed"}]
  /\ tripped \in BOOLEAN
  /\ reached \subseteq Calls

LEMMA ApprovedApproval ==
  ASSUME NEW c \in Calls, NEW s \in Approved(c)
  PROVE  s.approval = IF Verdict[c] = "require_approval"
                      THEN [approval EXCEPT ![Reference[c]] = "consumed"]
                      ELSE approval
<1>1. CASE Verdict[c] = "require_approval"
  BY <1>1 DEF Approved
<1>2. CASE Verdict[c] # "require_approval"
  BY <1>2 DEF Approved
<1> QED BY <1>1, <1>2

(* What Start does to the places and the approvals. *)
LEMMA StartMoves ==
  ASSUME NEW c \in Calls, Start(c)
  PROVE  /\ Permitted(c)
         /\ \E place \in {"refused", "limited", "executing"} : pc' = [pc EXCEPT ![c] = place]
         /\ approval' = IF Verdict[c] = "require_approval"
                        THEN [approval EXCEPT ![Reference[c]] = "consumed"]
                        ELSE approval
         /\ UNCHANGED <<now, mode, killSwitch, tripped, reached>>
<1>1. PICK s \in Approved(c) :
        /\ approval' = s.approval
        /\ \E place \in {"refused", "limited", "executing"} : pc' = [pc EXCEPT ![c] = place]
  BY DEF Start, Goes
<1>2. Permitted(c) /\ UNCHANGED <<now, mode, killSwitch, tripped, reached>>
  BY DEF Start
<1> QED BY <1>1, <1>2, ApprovedApproval

LEMMA ShapeStep == ASSUME Shape, [Next]_vars PROVE Shape'
<1> USE DEF Shape, Places
<1>1. ASSUME NEW c \in Calls, Start(c) PROVE Shape'
  <2>1. Verdict[c] = "require_approval" => Reference[c] \in Requests
    BY StartMoves, <1>1 DEF Permitted
  <2> QED BY StartMoves, <1>1, <2>1
<1>2. ASSUME NEW c \in Calls, CrashStarting(c) PROVE Shape'
  <2>1. PICK s \in Approved(c) : approval' = s.approval
    BY <1>2 DEF CrashStarting
  <2>2. /\ UNCHANGED <<tripped, reached>>
        /\ Verdict[c] = "require_approval" => Reference[c] \in Requests
    BY <1>2 DEF CrashStarting, memory, Permitted
  <2>3. pc' \in [Calls -> Places]
    BY <1>2 DEF CrashStarting, Dies
  <2>4. approval' = IF Verdict[c] = "require_approval"
                    THEN [approval EXCEPT ![Reference[c]] = "consumed"] ELSE approval
    BY <2>1, ApprovedApproval
  <2> QED BY <2>2, <2>3, <2>4
<1>3. ASSUME NEW c \in Calls,
             Classify(c) \/ ClassifyFails(c) \/ Refuse(c) \/ AskApproval(c) \/ Send(c) \/ Cancel(c)
      PROVE  Shape'
  BY <1>3 DEF Classify, ClassifyFails, Refuse, AskApproval, Send, Cancel, Goes, memory
<1>4. ASSUME NEW c \in Calls, NEW success \in BOOLEAN, Finish(c, success) PROVE Shape'
  BY <1>4 DEF Finish, RecordResult, Trips, Goes
<1>5. ASSUME NEW r \in Requests, Approve(r) PROVE Shape'
  BY <1>5 DEF Approve, memory
<1>6. CASE ToggleKillSwitch \/ Tick \/ Crash \/ Restart \/ UNCHANGED vars
  BY <1>6 DEF ToggleKillSwitch, Tick, Crash, Dies, Restart, vars, memory
<1> QED BY <1>1, <1>2, <1>3, <1>4, <1>5, <1>6 DEF Next, Steps, Surroundings

LEMMA Shaped == Spec => []Shape
<1>1. ASSUME Init PROVE Shape
  <2>1. "new" \in Places
    BY DEF Places
  <2>2. /\ pc = [c \in Calls |-> "new"] /\ approval = [r \in Requests |-> "unknown"]
        /\ tripped = FALSE /\ reached = {}
    BY <1>1 DEF Init
  <2> QED BY <2>1, <2>2 DEF Shape
<1> QED BY <1>1, ShapeStep, PTL DEF Spec

(* A tool function starts in Start only. *)
LEMMA OnlyStart ==
  ASSUME Shape, [Next]_vars, NEW c \in Calls, pc'[c] = "executing", pc[c] # "executing"
  PROVE  Start(c)
<1> USE DEF Shape, Places
<1>1. ASSUME NEW d \in Calls, Start(d) PROVE d = c
  BY <1>1, StartMoves
<1>2. ASSUME NEW d \in Calls, CrashStarting(d) PROVE FALSE
  BY <1>2 DEF CrashStarting, Dies
<1>3. ASSUME NEW d \in Calls,
             Classify(d) \/ ClassifyFails(d) \/ Refuse(d) \/ AskApproval(d) \/ Send(d) \/ Cancel(d)
      PROVE  FALSE
  BY <1>3 DEF Classify, ClassifyFails, Refuse, AskApproval, Send, Cancel, Goes
<1>4. ASSUME NEW d \in Calls, NEW success \in BOOLEAN, Finish(d, success) PROVE FALSE
  BY <1>4 DEF Finish, Goes
<1>5. ASSUME \/ \E r \in Requests : Approve(r)
             \/ ToggleKillSwitch \/ Tick \/ Crash \/ Restart \/ UNCHANGED vars
      PROVE  FALSE
  BY <1>5 DEF Approve, ToggleKillSwitch, Tick, Crash, Dies, Restart, vars
<1> QED BY <1>1, <1>2, <1>3, <1>4, <1>5 DEF Next, Steps, Surroundings

(* A write is sent in Send only, by a call whose tool function runs. *)
LEMMA OnlySend ==
  ASSUME [Next]_vars, NEW c \in Calls, c \in reached', c \notin reached
  PROVE  pc[c] = "executing"
<1>1. ASSUME NEW d \in Calls, Start(d) PROVE FALSE
  BY <1>1, StartMoves
<1>2. ASSUME NEW d \in Calls, Send(d) PROVE pc[c] = "executing"
  BY <1>2 DEF Send
<1>3. ASSUME \/ \E d \in Calls : \/ Classify(d) \/ ClassifyFails(d) \/ Refuse(d)
                                 \/ AskApproval(d) \/ CrashStarting(d) \/ Cancel(d)
                                 \/ Finish(d, TRUE) \/ Finish(d, FALSE)
             \/ \E r \in Requests : Approve(r)
             \/ ToggleKillSwitch \/ Tick \/ Crash \/ Restart \/ UNCHANGED vars
      PROVE  FALSE
  BY <1>3 DEF Classify, ClassifyFails, Refuse, AskApproval, CrashStarting, Cancel, Finish,
              Approve, ToggleKillSwitch, Tick, Crash, Restart, vars
<1> QED BY <1>1, <1>2, <1>3 DEF Next, Steps, Surroundings

(* The kill switch stops every call of Tier 1 or above that has not started.    *)
THEOREM KillSwitchStops == Spec => KillSwitchHolds
<1>1. ASSUME Shape, [Next]_vars, killSwitch, NEW c \in Calls, Tier[c] >= 1,
             pc'[c] = "executing"
      PROVE  pc[c] = "executing"
  <2> SUFFICES ASSUME pc[c] # "executing" PROVE FALSE
    OBVIOUS
  <2>1. ~Denied(c)
    BY <1>1, OnlyStart, StartMoves DEF Permitted
  <2>2. Blocked(c)
    BY <1>1 DEF Blocked
  <2> QED BY <2>1, <2>2 DEF Denied
<1>2. Shape /\ [Next]_vars =>
        [killSwitch => \A c \in Calls :
           Tier[c] >= 1 /\ pc'[c] = "executing" => pc[c] = "executing"]_vars
  BY <1>1
<1> QED BY <1>2, Shaped, PTL DEF Spec, KillSwitchHolds

(* A tripped breaker stays tripped, and keeps calls of Tier 2 and above from     *)
(* starting, until the server restarts.                                          *)
THEOREM BreakerStops == Spec => BreakerHolds
<1>1. ASSUME Shape, [Next]_vars, tripped, mode # "down", mode' # "down"
      PROVE  tripped'
  <2>1. ASSUME NEW c \in Calls, NEW success \in BOOLEAN, Finish(c, success) PROVE tripped'
    BY <2>1, <1>1 DEF Finish, RecordResult
  <2>2. ASSUME NEW c \in Calls, CrashStarting(c) PROVE tripped'
    BY <2>2, <1>1 DEF CrashStarting, memory
  <2>3. ASSUME NEW c \in Calls, Start(c) PROVE tripped'
    BY <2>3, <1>1, StartMoves
  <2>4. ASSUME \/ \E c \in Calls : Classify(c) \/ ClassifyFails(c) \/ Refuse(c)
                                   \/ AskApproval(c) \/ Send(c) \/ Cancel(c)
               \/ \E r \in Requests : Approve(r)
               \/ ToggleKillSwitch \/ Tick \/ Crash \/ Restart \/ UNCHANGED vars
        PROVE  tripped'
    BY <2>4, <1>1 DEF Classify, ClassifyFails, Refuse, AskApproval, Send, Cancel, Approve,
                      ToggleKillSwitch, Tick, Crash, Restart, vars, memory
  <2> QED BY <1>1, <2>1, <2>2, <2>3, <2>4 DEF Next, Steps, Surroundings
<1>2. ASSUME Shape, [Next]_vars, tripped, mode # "down", NEW c \in Calls, Tier[c] >= 2,
             pc'[c] = "executing"
      PROVE  pc[c] = "executing"
  <2> SUFFICES ASSUME pc[c] # "executing" PROVE FALSE
    OBVIOUS
  <2>1. ~Denied(c)
    BY <1>2, OnlyStart, StartMoves DEF Permitted
  <2>2. Blocked(c)
    BY <1>2 DEF Blocked
  <2> QED BY <2>1, <2>2 DEF Denied
<1>3. Shape /\ [Next]_vars =>
        [tripped /\ mode # "down" =>
           /\ mode' # "down" => tripped'
           /\ \A c \in Calls : Tier[c] >= 2 /\ pc'[c] = "executing" => pc[c] = "executing"]_vars
  BY <1>1, <1>2
<1> QED BY <1>3, Shaped, PTL DEF Spec, BreakerHolds

--------------------------------------------------------------------------------
(* An approval is spent before its call starts, so no two calls start on one.    *)

Holder(c) == Verdict[c] = "require_approval" /\ (c \in reached \/ pc[c] = "executing")

SpentInv ==
  /\ \A c \in Calls : Holder(c) =>
        Reference[c] \in Requests /\ approval[Reference[c]] = "consumed"
  /\ \A c, d \in Calls : Holder(c) /\ Holder(d) /\ Reference[c] = Reference[d] => c = d

(* A step that makes no new holder and takes no consumption back keeps SpentInv. *)
LEMMA SameHolders ==
  ASSUME SpentInv,
         \A c \in Calls : Holder(c)' => Holder(c),
         \A r \in Requests : approval[r] = "consumed" => approval'[r] = "consumed"
  PROVE  SpentInv'
BY DEF SpentInv

LEMMA SpentStep == ASSUME Shape, SpentInv, [Next]_vars PROVE SpentInv'
<1> USE DEF Shape, Places
<1>1. ASSUME NEW c \in Calls, Start(c) PROVE SpentInv'
  <2> DEFINE r == Reference[c]
  <2>1. reached' = reached /\ \A d \in Calls \ {c} : pc'[d] = pc[d]
    BY <1>1, StartMoves
  <2>2. CASE Verdict[c] = "require_approval"
    <3>1. r \in Requests /\ approval[r] = "approved"
      BY <1>1, <2>2, StartMoves DEF Permitted, Denied
    <3>2. approval' = [approval EXCEPT ![r] = "consumed"]
      BY <1>1, <2>2, StartMoves
    <3>3. \A d \in Calls : Holder(d) => Reference[d] # r
      BY <3>1 DEF SpentInv
    <3>4. \A d \in Calls : Holder(d)' => d = c \/ Holder(d)
      BY <2>1 DEF Holder
    <3> QED BY <3>1, <3>2, <3>3, <3>4 DEF SpentInv
  <2>3. CASE Verdict[c] # "require_approval"
    <3>1. approval' = approval /\ \A d \in Calls : Holder(d)' => Holder(d)
      BY <1>1, <2>1, <2>3, StartMoves DEF Holder
    <3> QED BY <3>1, SameHolders
  <2> QED BY <2>2, <2>3
<1>2. ASSUME NEW c \in Calls, CrashStarting(c) PROVE SpentInv'
  <2>1. PICK s \in Approved(c) : approval' = s.approval
    BY <1>2 DEF CrashStarting
  <2>2. approval' = IF Verdict[c] = "require_approval"
                    THEN [approval EXCEPT ![Reference[c]] = "consumed"] ELSE approval
    BY <2>1, ApprovedApproval
  <2>3. \A d \in Calls : Holder(d)' => Holder(d)
    BY <1>2 DEF CrashStarting, Dies, Holder
  <2> QED BY <2>2, <2>3, SameHolders
<1>3. ASSUME NEW c \in Calls,
             Classify(c) \/ ClassifyFails(c) \/ Refuse(c) \/ AskApproval(c) \/ Cancel(c)
      PROVE  SpentInv'
  <2>1. \A d \in Calls : Holder(d)' => Holder(d)
    BY <1>3 DEF Classify, ClassifyFails, Refuse, AskApproval, Cancel, Goes, Holder
  <2>2. \A r \in Requests : approval[r] = "consumed" => approval'[r] = "consumed"
    BY <1>3 DEF Classify, ClassifyFails, Refuse, AskApproval, Cancel
  <2> QED BY <2>1, <2>2, SameHolders
<1>4. ASSUME NEW c \in Calls, Send(c) PROVE SpentInv'
  <2>1. \A d \in Calls : Holder(d)' => Holder(d)
    BY <1>4 DEF Send, Holder
  <2> QED BY <1>4, <2>1, SameHolders DEF Send
<1>5. ASSUME NEW c \in Calls, NEW success \in BOOLEAN, Finish(c, success) PROVE SpentInv'
  <2>1. \A d \in Calls : Holder(d)' => Holder(d)
    BY <1>5 DEF Finish, Goes, Holder
  <2> QED BY <1>5, <2>1, SameHolders DEF Finish
<1>6. ASSUME NEW r \in Requests, Approve(r) PROVE SpentInv'
  <2>1. \A d \in Calls : Holder(d)' => Holder(d)
    BY <1>6 DEF Approve, Holder
  <2> QED BY <1>6, <2>1, SameHolders DEF Approve
<1>7. CASE ToggleKillSwitch \/ Tick \/ Crash \/ Restart \/ UNCHANGED vars
  <2>1. \A d \in Calls : Holder(d)' => Holder(d)
    BY <1>7 DEF ToggleKillSwitch, Tick, Crash, Dies, Restart, vars, Holder
  <2>2. approval' = approval
    BY <1>7 DEF ToggleKillSwitch, Tick, Crash, Restart, vars
  <2> QED BY <2>1, <2>2, SameHolders
<1> QED BY <1>1, <1>2, <1>3, <1>4, <1>5, <1>6, <1>7 DEF Next, Steps, Surroundings

(* One approval lets one call write, whatever crashes, cancels or retries.       *)
THEOREM SpentOnce == Spec => []ApprovalSpentOnce
<1>1. Init => SpentInv
  BY DEF Init, SpentInv, Holder
<1>2. Shape /\ SpentInv => ApprovalSpentOnce
  BY DEF Shape, SpentInv, Holder, ApprovalSpentOnce
<1> QED BY <1>1, <1>2, SpentStep, Shaped, PTL DEF Spec

--------------------------------------------------------------------------------
(* What the pipeline takes for granted of the broker is a run of its lifecycle.   *)

Uses == [r \in Requests |-> IF approval[r] = "consumed" THEN 1 ELSE 0]

LEMMA Moves ==
  ASSUME Shape, NEW r \in Requests, NEW to \in {"pending", "approved"},
         approval[r] # "consumed", approval' = [approval EXCEPT ![r] = to]
  PROVE  Uses' = Uses
BY DEF Shape, Uses

LEMMA Spends ==
  ASSUME Shape, NEW c \in Calls, Permitted(c),
         approval' = IF Verdict[c] = "require_approval"
                     THEN [approval EXCEPT ![Reference[c]] = "consumed"] ELSE approval
  PROVE  Lifecycle!Next \/ UNCHANGED <<approval, Uses>>
<1>1. CASE Verdict[c] = "require_approval"
  <2> DEFINE r == Reference[c]
  <2>1. r \in Requests /\ approval[r] = "approved"
    BY <1>1 DEF Permitted, Denied
  <2>2. approval' = [approval EXCEPT ![r] = "consumed"]
    BY <1>1
  <2> HIDE DEF r
  <2>3. Uses' = [Uses EXCEPT ![r] = @ + 1]
    <3>1. Uses[r] = 0 /\ Uses'[r] = 1 /\ \A q \in Requests \ {r} : Uses'[q] = Uses[q]
      BY <2>1, <2>2 DEF Shape, Uses
    <3>2. Uses'[r] = Uses[r] + 1
      BY <3>1
    <3>3. Uses \in [Requests -> {0, 1}] /\ Uses' \in [Requests -> {0, 1}]
      BY DEF Uses
    <3> HIDE DEF Uses
    <3> QED BY <2>1, <3>1, <3>2, <3>3
  <2>4. Lifecycle!Use(r)
    BY <2>1, <2>2, <2>3 DEF Lifecycle!Use, Lifecycle!Move, Uses
  <2> QED BY <2>1, <2>4 DEF Lifecycle!Next
<1>2. CASE Verdict[c] # "require_approval"
  BY <1>2 DEF Uses
<1> QED BY <1>1, <1>2

(* Every step of the pipeline asks, approves or spends one approval as the broker   *)
(* lets it, or leaves them all alone: a crash between the spending and the start    *)
(* included.                                                                      *)
THEOREM PipelineFollowsLifecycle == Spec => LifecycleSpec
<1>1. Init => Lifecycle!Init
  BY DEF Init, Lifecycle!Init
<1>2. ASSUME Shape, [Next]_vars PROVE Lifecycle!Next \/ UNCHANGED <<approval, Uses>>
  <2>1. ASSUME NEW c \in Calls, Start(c) PROVE Lifecycle!Next \/ UNCHANGED <<approval, Uses>>
    BY <1>2, <2>1, StartMoves, Spends
  <2>2. ASSUME NEW c \in Calls, CrashStarting(c)
        PROVE  Lifecycle!Next \/ UNCHANGED <<approval, Uses>>
    <3>1. PICK s \in Approved(c) : approval' = s.approval
      BY <2>2 DEF CrashStarting
    <3>2. Permitted(c)
      BY <2>2 DEF CrashStarting
    <3> QED BY <1>2, <3>1, <3>2, ApprovedApproval, Spends
  <2>3. ASSUME NEW c \in Calls, AskApproval(c)
        PROVE  Lifecycle!Next \/ UNCHANGED <<approval, Uses>>
    <3>1. PICK r \in Requests : /\ approval[r] = "unknown"
                               /\ approval' = [approval EXCEPT ![r] = "pending"]
      BY <2>3 DEF AskApproval
    <3>2. Lifecycle!Ask(r)
      BY <1>2, <3>1, Moves DEF Lifecycle!Ask, Lifecycle!Move, Uses
    <3> QED BY <3>2 DEF Lifecycle!Next
  <2>4. ASSUME NEW r \in Requests, Approve(r) PROVE Lifecycle!Next \/ UNCHANGED <<approval, Uses>>
    <3>1. Lifecycle!Approve(r)
      BY <1>2, <2>4, Moves DEF Approve, Lifecycle!Approve, Lifecycle!Move, Uses
    <3> QED BY <3>1 DEF Lifecycle!Next
  <2>5. ASSUME \/ \E c \in Calls : \/ Classify(c) \/ ClassifyFails(c) \/ Refuse(c) \/ Send(c)
                                   \/ Cancel(c) \/ Finish(c, TRUE) \/ Finish(c, FALSE)
               \/ ToggleKillSwitch \/ Tick \/ Crash \/ Restart \/ UNCHANGED vars
        PROVE  UNCHANGED <<approval, Uses>>
    <3>1. approval' = approval
      BY <2>5 DEF Classify, ClassifyFails, Refuse, Send, Cancel, Finish, ToggleKillSwitch, Tick,
                  Crash, Restart, vars
    <3> QED BY <3>1 DEF Uses
  <2> QED BY <1>2, <2>1, <2>2, <2>3, <2>4, <2>5 DEF Next, Steps, Surroundings
<1>3. Shape /\ [Next]_vars => [Lifecycle!Next]_(Lifecycle!vars)
  BY <1>2 DEF Lifecycle!vars, Uses
<1> QED BY <1>1, <1>3, Shaped, PTL DEF Spec, LifecycleSpec, Lifecycle!Spec

--------------------------------------------------------------------------------
(* No write without its MUTATION_PENDING record, while a failed append leaves     *)
(* nothing or a whole line.                                                      *)

CleanFaults == Faults \subseteq {"refused", "unsynced"}

Whole(file) == /\ \E S : file \in Seq(S)
               /\ \A i \in 1..Len(file) : file[i].ended

Has(file, c) ==
  \E i \in 1..Len(file) : /\ file[i].parses
                          /\ file[i].text.call = c /\ file[i].text.event = "MUTATION_PENDING"

Kept(f, g) == \A c \in Calls : Has(f, c) => Has(g, c)

LEMMA WholeLine ==
  ASSUME NEW file, Whole(file), NEW line, line.ended
  PROVE  LET g == Written(file, line) IN
           /\ Whole(g) /\ Kept(file, g)
           /\ Len(g) \in 1..Len(g) /\ g[Len(g)] = line
<1>1. PICK S : file \in Seq(S)
  BY DEF Whole
<1>2. Written(file, line) = Append(file, line)
  <2>1. file # <<>> => Last(file).ended
    BY <1>1 DEF Whole, Last
  <2> QED BY <2>1 DEF Written
<1> DEFINE g == Append(file, line)
           T == S \cup {line}
<1>3. file \in Seq(T) /\ line \in T
  BY <1>1
<1>4. /\ g \in Seq(T) /\ Len(g) = Len(file) + 1 /\ Len(file) \in Nat
      /\ g[Len(g)] = line /\ \A i \in 1..Len(file) : g[i] = file[i]
  BY <1>3
<1> HIDE DEF g, T
<1>5. Whole(g)
  BY <1>4 DEF Whole
<1>6. Kept(file, g)
  BY <1>4 DEF Kept, Has
<1> QED BY <1>2, <1>4, <1>5, <1>6 DEF g

LEMMA AppendKeeps ==
  ASSUME CleanFaults, NEW l, Whole(l.file), NEW event, NEW decision, NEW c \in Calls,
         NEW a \in AppendRecord(l, event, decision, c)
  PROVE  /\ Whole(a.log.file) /\ Kept(l.file, a.log.file)
         /\ a.ok /\ event = "MUTATION_PENDING" => Has(a.log.file, c)
<1> DEFINE rec == Record(l.seq + 1, l.prev, event, decision, c, now)
           whole == Written(l.file, Line(rec, TRUE))
<1>1. Line(rec, TRUE).ended /\ Line(rec, TRUE).parses /\ Line(rec, TRUE).text = rec
  BY DEF Line
<1>2. /\ Whole(whole) /\ Kept(l.file, whole)
      /\ Len(whole) \in 1..Len(whole) /\ whole[Len(whole)] = Line(rec, TRUE)
  BY <1>1, WholeLine
<1>3. event = "MUTATION_PENDING" => Has(whole, c)
  <2>1. rec.call = c /\ rec.event = event
    BY DEF Record
  <2>2. whole[Len(whole)].parses /\ whole[Len(whole)].text = rec
    BY <1>1, <1>2
  <2> HIDE DEF rec, whole
  <2> QED BY <2>1, <2>2, <1>2 DEF Has
<1>4. a.log.file = whole \/ (a.log.file = l.file /\ ~a.ok)
  <2>1. \/ a = [ok |-> TRUE, log |-> [file |-> whole, seq |-> rec.seq, prev |-> Digest(rec)]]
        \/ \E fault \in Faults :
             a = [ok |-> FALSE, log |-> [file |-> Remains(l.file, rec, fault),
                                         seq |-> l.seq, prev |-> l.prev]]
    BY DEF AppendRecord
  <2>2. \A fault \in Faults : Remains(l.file, rec, fault) = l.file
                              \/ Remains(l.file, rec, fault) = whole
    BY DEF Remains, CleanFaults
  <2> HIDE DEF rec, whole
  <2> QED BY <2>1, <2>2
<1>5. Kept(l.file, l.file)
  BY DEF Kept
<1> QED BY <1>2, <1>3, <1>4, <1>5

LEMMA AuditKeeps ==
  ASSUME CleanFaults, NEW l, Whole(l.file), NEW event, NEW decision, NEW c \in Calls,
         NEW a \in Audit(l, event, decision, c)
  PROVE  Whole(a.log.file) /\ Kept(l.file, a.log.file)
BY AppendKeeps DEF Audit, Kept

LEMMA ApprovedKeeps ==
  ASSUME CleanFaults, Whole(log.file), NEW c \in Calls, NEW s \in Approved(c)
  PROVE  Whole(s.log.file) /\ Kept(log.file, s.log.file)
<1>1. CASE Verdict[c] = "require_approval"
  BY <1>1, AuditKeeps DEF Approved
<1>2. CASE Verdict[c] # "require_approval"
  BY <1>2 DEF Approved, Kept
<1> QED BY <1>1, <1>2

(* The log only grows, and a call that starts leaves its record there. *)
LEMMA StartLogs ==
  ASSUME Shape, CleanFaults, Whole(log.file), NEW c \in Calls, Start(c)
  PROVE  /\ Whole(log'.file) /\ Kept(log.file, log'.file)
         /\ pc'[c] = "executing" => Has(log'.file, c)
<1>1. PICK s \in Approved(c) :
        IF mode = "unaudited"
        THEN log' = s.log /\ Goes(c, "refused")
        ELSE \E p \in AppendRecord(s.log, "MUTATION_PENDING", "allow", c) :
               \/ ~p.ok /\ log' = p.log /\ Goes(c, "refused")
               \/ /\ \E d \in AppendRecord(p.log, "DECISION_DENIED", "DENY_RATE_LIMIT", c) :
                       log' = d.log
                  /\ Goes(c, "limited")
               \/ p.ok /\ log' = p.log
  BY DEF Start
<1>2. Whole(s.log.file) /\ Kept(log.file, s.log.file)
  BY ApprovedKeeps
<1>3. CASE mode = "unaudited"
  BY <1>1, <1>2, <1>3 DEF Goes, Shape
<1>4. CASE mode # "unaudited"
  <2>1. PICK p \in AppendRecord(s.log, "MUTATION_PENDING", "allow", c) :
          \/ ~p.ok /\ log' = p.log /\ Goes(c, "refused")
          \/ /\ \E d \in AppendRecord(p.log, "DECISION_DENIED", "DENY_RATE_LIMIT", c) :
                  log' = d.log
             /\ Goes(c, "limited")
          \/ p.ok /\ log' = p.log
    BY <1>1, <1>4
  <2>2. /\ Whole(p.log.file) /\ Kept(log.file, p.log.file)
        /\ p.ok => Has(p.log.file, c)
    BY <1>2, AppendKeeps DEF Kept
  <2>3. CASE ~p.ok /\ log' = p.log /\ Goes(c, "refused")
    BY <2>2, <2>3 DEF Goes, Shape
  <2>4. CASE /\ \E d \in AppendRecord(p.log, "DECISION_DENIED", "DENY_RATE_LIMIT", c) :
                  log' = d.log
             /\ Goes(c, "limited")
    <3>1. Whole(log'.file) /\ Kept(p.log.file, log'.file)
      BY <2>2, <2>4, AppendKeeps
    <3> QED BY <2>2, <2>4, <3>1 DEF Goes, Shape, Kept
  <2>5. CASE p.ok /\ log' = p.log
    BY <2>2, <2>5
  <2> QED BY <2>1, <2>3, <2>4, <2>5
<1> QED BY <1>3, <1>4

LEMMA LogGrows ==
  ASSUME Shape, CleanFaults, Whole(log.file), [Next]_vars
  PROVE  Whole(log'.file) /\ Kept(log.file, log'.file)
<1>1. ASSUME NEW c \in Calls, Start(c) PROVE Whole(log'.file) /\ Kept(log.file, log'.file)
  BY <1>1, StartLogs
<1>2. ASSUME NEW c \in Calls, CrashStarting(c)
      PROVE  Whole(log'.file) /\ Kept(log.file, log'.file)
  <2>1. PICK s \in Approved(c) :
          \/ log' = s.log
          \/ \E p \in AppendRecord(s.log, "MUTATION_PENDING", "allow", c) : log' = p.log
    BY <1>2 DEF CrashStarting
  <2>2. Whole(s.log.file) /\ Kept(log.file, s.log.file)
    BY ApprovedKeeps
  <2> QED BY <2>1, <2>2, AppendKeeps DEF Kept
<1>3. ASSUME NEW c \in Calls, Refuse(c) \/ AskApproval(c)
      PROVE  Whole(log'.file) /\ Kept(log.file, log'.file)
  <2>1. \/ \E a \in Audit(log, "DECISION_DENIED", "DENY", c) : log' = a.log
        \/ \E a \in Audit(log, "APPROVAL_REQUESTED", "allow", c) : log' = a.log
    BY <1>3 DEF Refuse, AskApproval
  <2> QED BY <2>1, AuditKeeps
<1>4. ASSUME NEW c \in Calls, NEW success \in BOOLEAN, Finish(c, success)
      PROVE  Whole(log'.file) /\ Kept(log.file, log'.file)
  <2> DEFINE event == IF success THEN "MUTATION_COMMITTED" ELSE "MUTATION_FAILED"
  <2>1. PICK a \in Audit(log, event, "allow", c) :
          log' = a.log \/ \E b \in Audit(a.log, "BREAKER_TRIPPED", "allow", c) : log' = b.log
    BY <1>4 DEF Finish
  <2>2. Whole(a.log.file) /\ Kept(log.file, a.log.file)
    BY AuditKeeps
  <2> QED BY <2>1, <2>2, AuditKeeps DEF Kept
<1>5. CASE Restart
  BY <1>5 DEF Restart, Kept
<1>6. ASSUME \/ \E c \in Calls : Classify(c) \/ ClassifyFails(c) \/ Send(c) \/ Cancel(c)
             \/ \E r \in Requests : Approve(r)
             \/ ToggleKillSwitch \/ Tick \/ Crash \/ UNCHANGED vars
      PROVE  Whole(log'.file) /\ Kept(log.file, log'.file)
  <2>1. log' = log
    BY <1>6 DEF Classify, ClassifyFails, Send, Cancel, Approve, ToggleKillSwitch, Tick, Crash, vars
  <2> QED BY <2>1 DEF Kept
<1> QED BY <1>1, <1>2, <1>3, <1>4, <1>5, <1>6 DEF Next, Steps, Surroundings

LoggedInv ==
  /\ Whole(log.file)
  /\ \A c \in Calls : c \in reached \/ pc[c] = "executing" => Has(log.file, c)

LEMMA LoggedStep ==
  ASSUME Shape, CleanFaults, LoggedInv, [Next]_vars
  PROVE  LoggedInv'
<1>1. Whole(log'.file) /\ Kept(log.file, log'.file)
  BY LogGrows DEF LoggedInv
<1>2. ASSUME NEW c \in Calls, c \in reached' \/ pc'[c] = "executing"
      PROVE  Has(log'.file, c)
  <2>1. CASE c \in reached \/ pc[c] = "executing"
    BY <1>1, <2>1 DEF LoggedInv, Kept
  <2>2. CASE c \notin reached /\ pc[c] # "executing" /\ pc'[c] = "executing"
    BY <2>2, OnlyStart, StartLogs DEF LoggedInv
  <2>3. CASE c \notin reached /\ c \in reached'
    BY <2>1, <2>3, OnlySend
  <2> QED BY <1>2, <2>1, <2>2, <2>3
<1> QED BY <1>1, <1>2 DEF LoggedInv

(* Unless an append was cut short, every write sent to SOAR has its PENDING      *)
(* record in the log, where a restart and an auditor find it.                    *)
THEOREM WritesAreLogged == CleanFaults /\ Spec => []EveryWriteIsLogged
<1> SUFFICES ASSUME CleanFaults PROVE Spec => []EveryWriteIsLogged
  OBVIOUS
<1>1. Init => LoggedInv
  BY DEF Init, LoggedInv, Whole
<1>2. Shape /\ LoggedInv => EveryWriteIsLogged
  BY DEF Shape, LoggedInv, Has, EveryWriteIsLogged
<1>3. Shape /\ LoggedInv /\ [Next]_vars => LoggedInv'
  BY LoggedStep
<1> QED BY <1>1, <1>2, <1>3, Shaped, PTL DEF Spec

--------------------------------------------------------------------------------

HIDE PipelineAssumption

(* Two facts about finite sets of numbers and of slots. *)

LEMMA MaxIn ==
  ASSUME NEW n \in Nat, NEW S \in SUBSET (1..n), S # {}
  PROVE  Max(S) \in S /\ \A i \in S : i <= Max(S)
<1> DEFINE T == {n - i : i \in S}
           R == OpToRel(<, Nat)
<1>1. T \subseteq Nat /\ T # {}
  <2>1. \A i \in S : n - i \in Nat
    OBVIOUS
  <2> QED BY <2>1
<1>2. IsWellFoundedOn(R, Nat)
  BY NatLessThanWellFounded
<1>3. \A t, u \in Nat : u < t => <<u, t>> \in R
  BY DEF OpToRel
<1> HIDE DEF T, R
<1>4. PICK t \in T : \A u \in T : ~(<<u, t>> \in R)
  BY <1>1, <1>2, WFMin
<1>5. \A u \in T : t <= u
  <2>1. \A u \in T : ~(u < t)
    BY <1>1, <1>3, <1>4
  <2> QED BY <1>1, <2>1
<1>6. n - t \in S /\ \A i \in S : n - t >= i
  BY <1>5 DEF T
<1> QED BY <1>6 DEF Max

LEMMA Fewer ==
  ASSUME NEW S, NEW T, IsFiniteSet(T), NEW f \in [T -> S],
         \A s \in S : \E t \in T : f[t] = s
  PROVE  IsFiniteSet(S) /\ Cardinality(S) <= Cardinality(T)
<1>1. f \in Surjection(T, S)
  BY DEF Surjection
<1> QED BY <1>1, FS_Surjection

--------------------------------------------------------------------------------
USE PipelineAssumption

(* What one append adds to a file, however it fails. *)

IsFile(file) == \E S : file \in Seq(S)

\* A line says whether its newline is there.
IsLine(line) == line.ended \in BOOLEAN

\* The legible lines of g are those of f and at most one record after them.
Adds(f, g, seq, event, decision, c) ==
  /\ IsFile(g) /\ Len(f) <= Len(g)
  /\ \A i \in DOMAIN g : g[i].ended \in BOOLEAN \/ (i \in DOMAIN f /\ g[i] = f[i])
  /\ \A i \in Legible(g) :
       \/ i \in Legible(f) /\ g[i] = f[i]
       \/ /\ i > Len(f) /\ i = Len(g)
          /\ g[i].text.seq = seq /\ g[i].text.event = event /\ g[i].text.decision = decision
          /\ g[i].text.call = c /\ g[i].text.ts = now

LEMMA AddsFile ==
  ASSUME NEW f, NEW g, NEW seq, NEW event, NEW decision, NEW c,
         Adds(f, g, seq, event, decision, c)
  PROVE  IsFile(g)
BY DEF Adds

LEMMA AddsNothing ==
  ASSUME NEW f, IsFile(f), NEW seq, NEW event, NEW decision, NEW c
  PROVE  Adds(f, f, seq, event, decision, c)
<1>1. Len(f) \in Nat
  BY DEF IsFile
<1> QED BY <1>1 DEF Adds

\* The same of one line.
Puts(f, g, line) ==
  /\ IsFile(g) /\ Len(f) <= Len(g)
  /\ \A i \in DOMAIN g : g[i].ended \in BOOLEAN \/ (i \in DOMAIN f /\ g[i] = f[i])
  /\ \A i \in Legible(g) : \/ i \in Legible(f) /\ g[i] = f[i]
                           \/ i > Len(f) /\ i = Len(g) /\ g[i] = line

LEMMA WrittenPuts ==
  ASSUME NEW f, IsFile(f), NEW line, IsLine(line)
  PROVE  Puts(f, Written(f, line), line)
<1>1. PICK S : f \in Seq(S)
  BY DEF IsFile
<1>2. CASE f # <<>> /\ ~Last(f).ended
  <2> DEFINE w == Wreck(line.ended)
             T == S \cup {w}
             h == Front(f)
             g == Append(h, w)
  <2>1. ~w.parses /\ w.ended = line.ended /\ line.ended \in BOOLEAN
    BY DEF Wreck, IsLine
  <2>2. f \in Seq(T) /\ w \in T
    BY <1>1
  <2> HIDE DEF w, T
  <2>3. /\ h \in Seq(T) /\ Len(f) \in Nat \ {0} /\ Len(h) = Len(f) - 1
        /\ \A i \in 1..Len(h) : h[i] = f[i]
    <3>1. Len(f) \in Nat /\ Len(f) # 0
      BY <1>2, <2>2
    <3>2. \A i \in 1..(Len(f) - 1) : f[i] \in T
      BY <2>2, <3>1
    <3>3. h = SubSeq(f, 1, Len(f) - 1)
      BY DEF Front
    <3> HIDE DEF h
    <3>4. /\ h \in Seq(T) /\ Len(h) = (IF 1 <= Len(f) - 1 THEN Len(f) - 1 - 1 + 1 ELSE 0)
          /\ \A i \in 1..(Len(f) - 1 - 1 + 1) : h[i] = f[1 + i - 1]
      BY <3>1, <3>2, <3>3, SubSeqProperties
    <3>5. Len(f) - 1 - 1 + 1 = Len(f) - 1 /\ (~(1 <= Len(f) - 1) => Len(f) - 1 = 0)
      <4>1. \A n \in Nat \ {0} : n - 1 - 1 + 1 = n - 1 /\ (~(1 <= n - 1) => n - 1 = 0)
        OBVIOUS
      <4> QED BY <3>1, <4>1
    <3>6. Len(h) = Len(f) - 1
      BY <3>1, <3>4, <3>5
    <3>7. ASSUME NEW i \in 1..Len(h) PROVE h[i] = f[i]
      <4>1. i \in 1..(Len(f) - 1 - 1 + 1) /\ 1 + i - 1 = i
        BY <3>1, <3>5, <3>6
      <4>2. h[i] = f[1 + i - 1]
        BY <3>4, <4>1
      <4> QED BY <4>1, <4>2
    <3> QED BY <3>1, <3>4, <3>6, <3>7
  <2> HIDE DEF h
  <2>4. /\ g \in Seq(T) /\ Len(g) = Len(f) /\ g[Len(g)] = w
        /\ \A i \in 1..(Len(g) - 1) : g[i] = f[i]
    BY <2>2, <2>3
  <2>5. Written(f, line) = g
    BY <1>2 DEF Written, g, h, w
  <2> HIDE DEF g
  <2>6. DOMAIN g = 1..Len(g) /\ DOMAIN f = 1..Len(g) /\ Len(g) \in Nat
    BY <2>2, <2>4
  <2>7. \A i \in DOMAIN g : g[i] = f[i] \/ g[i] = w
    BY <2>4, <2>6
  <2>8. \A i \in Legible(g) : i \in Legible(f) /\ g[i] = f[i]
    BY <2>1, <2>6, <2>7 DEF Legible
  <2> QED BY <2>1, <2>4, <2>5, <2>6, <2>7, <2>8 DEF IsFile, Puts
<1>3. CASE ~(f # <<>> /\ ~Last(f).ended)
  <2> DEFINE T == S \cup {line}
             g == Append(f, line)
  <2>1. f \in Seq(T) /\ line \in T
    BY <1>1
  <2> HIDE DEF T
  <2>2. /\ g \in Seq(T) /\ Len(g) = Len(f) + 1 /\ Len(f) \in Nat /\ g[Len(g)] = line
        /\ \A i \in 1..Len(f) : g[i] = f[i]
    BY <2>1
  <2>3. DOMAIN g = 1..Len(g) /\ DOMAIN f = 1..Len(f)
    BY <2>1, <2>2
  <2>4. Written(f, line) = g
    BY <1>3 DEF Written
  <2> HIDE DEF g
  <2> QED BY <2>2, <2>3, <2>4 DEF IsFile, IsLine, Legible, Puts
<1> QED BY <1>2, <1>3

LEMMA AppendAdds ==
  ASSUME NEW l, IsFile(l.file), NEW event, NEW decision, NEW c,
         NEW a \in AppendRecord(l, event, decision, c)
  PROVE  /\ Adds(l.file, a.log.file, l.seq + 1, event, decision, c)
         /\ a.log.seq \in {l.seq, l.seq + 1}
<1> DEFINE rec == Record(l.seq + 1, l.prev, event, decision, c, now)
           whole == Written(l.file, Line(rec, TRUE))
           wrecked == Written(l.file, Wreck(FALSE))
           unended == Written(l.file, Line(rec, FALSE))
<1>1. /\ rec.seq = l.seq + 1 /\ rec.event = event /\ rec.decision = decision
      /\ rec.call = c /\ rec.ts = now
  BY DEF Record
<1>2. /\ \A e \in BOOLEAN : Line(rec, e).text = rec /\ Line(rec, e).ended = e
      /\ Wreck(FALSE).ended = FALSE /\ Wreck(FALSE).parses = FALSE
  BY DEF Line, Wreck
<1>3. \/ a = [ok |-> TRUE, log |-> [file |-> whole, seq |-> rec.seq, prev |-> Digest(rec)]]
      \/ \E fault \in Faults :
           a = [ok |-> FALSE, log |-> [file |-> Remains(l.file, rec, fault),
                                       seq |-> l.seq, prev |-> l.prev]]
  BY DEF AppendRecord
<1>4. \A fault \in Faults : Remains(l.file, rec, fault) \in {l.file, whole, wrecked, unended}
  BY DEF Remains
<1>5. /\ Puts(l.file, whole, Line(rec, TRUE)) /\ Puts(l.file, unended, Line(rec, FALSE))
      /\ Puts(l.file, wrecked, Wreck(FALSE))
  <2> HIDE DEF rec
  <2>1. IsLine(Line(rec, TRUE)) /\ IsLine(Line(rec, FALSE)) /\ IsLine(Wreck(FALSE))
    BY <1>2 DEF IsLine
  <2>2. Puts(l.file, whole, Line(rec, TRUE))
    BY <2>1, WrittenPuts
  <2>3. Puts(l.file, unended, Line(rec, FALSE))
    BY <2>1, WrittenPuts
  <2>4. Puts(l.file, wrecked, Wreck(FALSE))
    BY <2>1, WrittenPuts
  <2> QED BY <2>2, <2>3, <2>4
<1>6. ASSUME NEW g, NEW line, Puts(l.file, g, line), ~line.parses \/ line.text = rec
      PROVE  Adds(l.file, g, l.seq + 1, event, decision, c)
  <2> HIDE DEF rec
  <2> QED BY <1>1, <1>6 DEF Puts, Adds, Legible
<1>7. \A g \in {whole, unended, wrecked} : Adds(l.file, g, l.seq + 1, event, decision, c)
  BY <1>2, <1>5, <1>6
<1> HIDE DEF rec, whole, wrecked, unended
<1>8. a.log.file \in {l.file, whole, wrecked, unended} /\ a.log.seq \in {l.seq, l.seq + 1}
  BY <1>1, <1>3, <1>4
<1> QED BY <1>7, <1>8, AddsNothing

LEMMA AuditAdds ==
  ASSUME NEW l, IsFile(l.file), NEW event, NEW decision, NEW c,
         NEW a \in Audit(l, event, decision, c)
  PROVE  /\ Adds(l.file, a.log.file, l.seq + 1, event, decision, c)
         /\ a.log.seq \in {l.seq, l.seq + 1}
<1>1. CASE mode = "unaudited"
  BY <1>1, AddsNothing DEF Audit
<1>2. CASE mode # "unaudited"
  BY <1>2, AppendAdds DEF Audit
<1> QED BY <1>1, <1>2

\* The same of the appends of one action: Approved's, and the two a finish can make.
LEMMA ApprovedAdds ==
  ASSUME IsFile(log.file), NEW c, NEW s \in Approved(c)
  PROVE  /\ Adds(log.file, s.log.file, log.seq + 1, "APPROVAL_CONSUMED", "allow", c)
         /\ s.log.seq \in {log.seq, log.seq + 1}
<1>1. CASE Verdict[c] = "require_approval"
  BY <1>1, AuditAdds DEF Approved
<1>2. CASE Verdict[c] # "require_approval"
  BY <1>2, AddsNothing DEF Approved
<1> QED BY <1>1, <1>2

\* An append says whether it returned, and fails only while one more may.
LEMMA AppendTells ==
  ASSUME NEW l, NEW event, NEW decision, NEW c, NEW a \in AppendRecord(l, event, decision, c)
  PROVE  a.ok \in BOOLEAN /\ (~a.ok => faults # MaxFaults)
<1>1. CASE \E x : a = [ok |-> TRUE, log |-> x]
  <2>1. a.ok = TRUE
    BY <1>1
  <2> QED BY <2>1
<1>2. CASE faults # MaxFaults /\ \E x : a = [ok |-> FALSE, log |-> x]
  <2>1. a.ok = FALSE /\ faults # MaxFaults
    BY <1>2
  <2> QED BY <2>1
<1> QED BY <1>1, <1>2 DEF AppendRecord

LEMMA AuditTells ==
  ASSUME NEW l, NEW event, NEW decision, NEW c, NEW a \in Audit(l, event, decision, c)
  PROVE  a.ok \in BOOLEAN /\ (~a.ok => faults # MaxFaults)
<1>1. CASE mode = "unaudited"
  <2>1. a.ok = TRUE
    BY <1>1 DEF Audit
  <2> QED BY <2>1
<1>2. CASE mode # "unaudited"
  BY <1>2, AppendTells DEF Audit
<1> QED BY <1>1, <1>2

LEMMA ApprovedTells ==
  ASSUME NEW c, NEW s \in Approved(c)
  PROVE  s.ok \in BOOLEAN /\ (~s.ok => faults # MaxFaults)
<1>1. CASE Verdict[c] = "require_approval"
  <2>1. PICK a \in Audit(log, "APPROVAL_CONSUMED", "allow", c) : s.ok = a.ok
    BY <1>1 DEF Approved
  <2>2. a.ok \in BOOLEAN /\ (~a.ok => faults # MaxFaults)
    BY AuditTells
  <2> QED BY <2>1, <2>2
<1>2. CASE Verdict[c] # "require_approval"
  <2>1. s.ok = TRUE
    BY <1>2 DEF Approved
  <2> QED BY <2>1
<1> QED BY <1>1, <1>2

--------------------------------------------------------------------------------
(* Types. *)

TextOK(rec) == /\ rec.seq \in Nat /\ rec.event \in Events /\ rec.decision \in Codes
               /\ rec.call \in Calls /\ rec.ts \in 0..MaxTime

LogOK(l) == /\ IsFile(l.file) /\ l.seq \in Nat
            /\ \A i \in DOMAIN l.file : l.file[i].ended \in BOOLEAN
            /\ \A i \in Legible(l.file) : TextOK(l.file[i].text)

LEMMA AddsOK ==
  ASSUME NEW l, LogOK(l), NEW m, NEW event \in Events, NEW decision \in Codes, NEW c \in Calls,
         now \in 0..MaxTime, Adds(l.file, m.file, l.seq + 1, event, decision, c),
         m.seq \in {l.seq, l.seq + 1}
  PROVE  LogOK(m)
<1>1. m.seq \in Nat /\ l.seq + 1 \in Nat
  BY DEF LogOK
<1>2. ASSUME NEW i \in DOMAIN m.file PROVE m.file[i].ended \in BOOLEAN
  BY <1>2 DEF LogOK, Adds
<1>3. ASSUME NEW i \in Legible(m.file) PROVE TextOK(m.file[i].text)
  <2>1. CASE i \in Legible(l.file) /\ m.file[i] = l.file[i]
    BY <2>1 DEF LogOK
  <2>2. CASE ~(i \in Legible(l.file) /\ m.file[i] = l.file[i])
    BY <1>1, <1>3, <2>2 DEF Adds, TextOK
  <2> QED BY <2>1, <2>2
<1> QED BY <1>1, <1>2, <1>3 DEF LogOK, Adds

LEMMA AuditOK ==
  ASSUME NEW l, LogOK(l), NEW event \in Events, NEW decision \in Codes, NEW c \in Calls,
         now \in 0..MaxTime, NEW a \in Audit(l, event, decision, c)
  PROVE  LogOK(a.log)
BY AuditAdds, AddsOK DEF LogOK

LEMMA AppendOK ==
  ASSUME NEW l, LogOK(l), NEW event \in Events, NEW decision \in Codes, NEW c \in Calls,
         now \in 0..MaxTime, NEW a \in AppendRecord(l, event, decision, c)
  PROVE  LogOK(a.log)
BY AppendAdds, AddsOK DEF LogOK

LEMMA ApprovedOK ==
  ASSUME LogOK(log), NEW c \in Calls, now \in 0..MaxTime, NEW s \in Approved(c)
  PROVE  LogOK(s.log)
<1>1. "APPROVAL_CONSUMED" \in Events /\ "allow" \in Codes
  BY DEF Events, Codes
<1> QED BY <1>1, ApprovedAdds, AddsOK DEF LogOK

\* The rest of the types.
StateOK ==
  /\ now \in 0..MaxTime /\ mode \in {"serving", "unaudited", "down"} /\ killSwitch \in BOOLEAN
  /\ window \in [{2, 3} -> SUBSET Slots] /\ failures \in Nat /\ started \subseteq Slots
  /\ faults \in 0..MaxFaults /\ crashes \in 0..MaxCrashes

LEMMA CountedOK ==
  ASSUME StateOK, NEW a, a.ok \in BOOLEAN, ~a.ok => faults # MaxFaults, Counted(a)
  PROVE  faults' \in 0..MaxFaults
BY DEF StateOK, Counted

LEMMA AcquiredOK ==
  ASSUME StateOK, NEW c \in Calls
  PROVE  /\ Acquired(c) \in [{2, 3} -> SUBSET Slots]
         /\ [w \in {2, 3} |-> IF w \in WindowOf(c) THEN Live(window[w]) ELSE window[w]]
              \in [{2, 3} -> SUBSET Slots]
         /\ [call |-> c, at |-> now] \in Slots
BY DEF StateOK, Acquired, Live, Slots

LEMMA StateStepStart ==
  ASSUME StateOK, LogOK(log), NEW c \in Calls, Start(c)
  PROVE  StateOK' /\ LogOK(log')
<1> USE DEF Events, Codes
<1>1. PICK s \in Approved(c) :
        IF mode = "unaudited"
        THEN log' = s.log /\ Counted(s) /\ UNCHANGED <<window, started>>
        ELSE \E p \in AppendRecord(s.log, "MUTATION_PENDING", "allow", c) :
               \/ ~p.ok /\ log' = p.log /\ Counted(p) /\ UNCHANGED <<window, started>>
               \/ /\ \E d \in AppendRecord(p.log, "DECISION_DENIED", "DENY_RATE_LIMIT", c) :
                       log' = d.log /\ Counted([ok |-> s.ok /\ d.ok])
                  /\ window' = [w \in {2, 3} |-> IF w \in WindowOf(c) THEN Live(window[w])
                                                 ELSE window[w]]
                  /\ UNCHANGED started
               \/ /\ log' = p.log /\ Counted(s) /\ window' = Acquired(c)
                  /\ started' = started \cup {[call |-> c, at |-> now]}
  BY DEF Start
<1>2. UNCHANGED <<now, mode, killSwitch, failures, crashes>>
  BY DEF Start
<1>3. LogOK(s.log) /\ s.ok \in BOOLEAN /\ (~s.ok => faults # MaxFaults) /\ now \in 0..MaxTime
  BY ApprovedOK, ApprovedTells DEF StateOK
<1>4. CASE mode = "unaudited"
  <2>1. faults' \in 0..MaxFaults
    BY <1>1, <1>3, <1>4, CountedOK
  <2> QED BY <1>1, <1>2, <1>3, <1>4, <2>1 DEF StateOK
<1>5. CASE mode # "unaudited"
  <2>1. PICK p \in AppendRecord(s.log, "MUTATION_PENDING", "allow", c) :
          \/ ~p.ok /\ log' = p.log /\ Counted(p) /\ UNCHANGED <<window, started>>
          \/ /\ \E d \in AppendRecord(p.log, "DECISION_DENIED", "DENY_RATE_LIMIT", c) :
                  log' = d.log /\ Counted([ok |-> s.ok /\ d.ok])
             /\ window' = [w \in {2, 3} |-> IF w \in WindowOf(c) THEN Live(window[w])
                                            ELSE window[w]]
             /\ UNCHANGED started
          \/ /\ log' = p.log /\ Counted(s) /\ window' = Acquired(c)
             /\ started' = started \cup {[call |-> c, at |-> now]}
    BY <1>1, <1>5
  <2>2. LogOK(p.log) /\ p.ok \in BOOLEAN /\ (~p.ok => faults # MaxFaults)
    BY <1>3, AppendOK, AppendTells
  <2>3. CASE ~p.ok /\ log' = p.log /\ Counted(p) /\ UNCHANGED <<window, started>>
    <3>1. faults' \in 0..MaxFaults
      BY <2>2, <2>3, CountedOK
    <3> QED BY <1>2, <2>2, <2>3, <3>1 DEF StateOK
  <2>4. CASE /\ \E d \in AppendRecord(p.log, "DECISION_DENIED", "DENY_RATE_LIMIT", c) :
                  log' = d.log /\ Counted([ok |-> s.ok /\ d.ok])
             /\ window' = [w \in {2, 3} |-> IF w \in WindowOf(c) THEN Live(window[w])
                                            ELSE window[w]]
             /\ UNCHANGED started
    <3>1. PICK d \in AppendRecord(p.log, "DECISION_DENIED", "DENY_RATE_LIMIT", c) :
            log' = d.log /\ Counted([ok |-> s.ok /\ d.ok])
      BY <2>4
    <3>2. LogOK(d.log) /\ d.ok \in BOOLEAN /\ (~d.ok => faults # MaxFaults)
      BY <1>3, <2>2, AppendOK, AppendTells
    <3>3. faults' \in 0..MaxFaults
      BY <1>3, <3>1, <3>2, CountedOK
    <3> QED BY <1>2, <2>4, <3>1, <3>2, <3>3, AcquiredOK DEF StateOK
  <2>5. CASE /\ log' = p.log /\ Counted(s) /\ window' = Acquired(c)
             /\ started' = started \cup {[call |-> c, at |-> now]}
    <3>1. faults' \in 0..MaxFaults
      BY <1>3, <2>5, CountedOK
    <3> QED BY <1>2, <2>2, <2>5, <3>1, AcquiredOK DEF StateOK
  <2> QED BY <2>1, <2>3, <2>4, <2>5
<1> QED BY <1>4, <1>5

\* The line an open goes on from is one of the legible ones.
LEMMA TailIsLast ==
  ASSUME NEW file, IsFile(file), Legible(file) # {}
  PROVE  Max(Legible(file)) \in Legible(file) /\ \A i \in Legible(file) : i <= Max(Legible(file))
<1>1. Len(file) \in Nat /\ Legible(file) \in SUBSET (1..Len(file))
  BY DEF IsFile, Legible
<1> QED BY <1>1, MaxIn

LEMMA RestartOK ==
  ASSUME StateOK, LogOK(log), Restart
  PROVE  StateOK' /\ LogOK(log')
<1>1. ASSUME NEW rec, TextOK(rec) PROVE Slot(rec) \in Slots
  BY <1>1 DEF TextOK, Slot, Slots
<1>2. Charged(log.file) \subseteq Slots
  BY <1>1 DEF LogOK, Charged
<1>3. window' \in [{2, 3} -> SUBSET Slots]
  BY <1>2 DEF Restart
<1>4. ChainTail(log.file).seq \in Nat
  <2>1. CASE Legible(log.file) = {}
    BY <2>1 DEF ChainTail
  <2>2. CASE Legible(log.file) # {}
    BY <2>2, TailIsLast DEF ChainTail, LogOK, TextOK
  <2> QED BY <2>1, <2>2
<1>5. LogOK(log')
  BY <1>4 DEF Restart, LogOK
<1> QED BY <1>3, <1>5 DEF Restart, StateOK

LEMMA CrashStartingOK ==
  ASSUME StateOK, LogOK(log), NEW c \in Calls, CrashStarting(c)
  PROVE  StateOK' /\ LogOK(log')
<1> USE DEF Events, Codes
<1>1. PICK s \in Approved(c) :
        \/ log' = s.log
        \/ \E p \in AppendRecord(s.log, "MUTATION_PENDING", "allow", c) : log' = p.log
  BY DEF CrashStarting
<1>2. LogOK(s.log)
  BY ApprovedOK DEF StateOK
<1>3. LogOK(log')
  BY <1>1, <1>2, AppendOK DEF StateOK
<1>4. StateOK'
  BY DEF CrashStarting, Dies, memory, StateOK
<1> QED BY <1>3, <1>4

LEMMA FinishOK ==
  ASSUME StateOK, LogOK(log), NEW c \in Calls, NEW success \in BOOLEAN, Finish(c, success)
  PROVE  StateOK' /\ LogOK(log')
<1> USE DEF Events, Codes
<1> DEFINE event == IF success THEN "MUTATION_COMMITTED" ELSE "MUTATION_FAILED"
<1>1. PICK a \in Audit(log, event, "allow", c) :
        \/ \E b \in Audit(a.log, "BREAKER_TRIPPED", "allow", c) :
             log' = b.log /\ Counted([ok |-> a.ok /\ b.ok])
        \/ log' = a.log /\ Counted(a)
  BY DEF Finish
<1>2. LogOK(a.log) /\ a.ok \in BOOLEAN /\ (~a.ok => faults # MaxFaults)
  BY AuditOK, AuditTells DEF StateOK
<1>3. failures' \in Nat
  BY DEF Finish, RecordResult, StateOK
<1>4. UNCHANGED <<now, mode, killSwitch, window, started, crashes>>
  BY DEF Finish
<1>5. CASE log' = a.log /\ Counted(a)
  <2>1. faults' \in 0..MaxFaults
    BY <1>2, <1>5, CountedOK
  <2> QED BY <1>2, <1>3, <1>4, <1>5, <2>1 DEF StateOK
<1>6. CASE \E b \in Audit(a.log, "BREAKER_TRIPPED", "allow", c) :
             log' = b.log /\ Counted([ok |-> a.ok /\ b.ok])
  <2>1. PICK b \in Audit(a.log, "BREAKER_TRIPPED", "allow", c) :
          log' = b.log /\ Counted([ok |-> a.ok /\ b.ok])
    BY <1>6
  <2>2. LogOK(b.log) /\ b.ok \in BOOLEAN /\ (~b.ok => faults # MaxFaults)
    BY <1>2, AuditOK, AuditTells DEF StateOK
  <2>3. faults' \in 0..MaxFaults
    BY <1>2, <2>1, <2>2, CountedOK
  <2> QED BY <1>3, <1>4, <2>1, <2>2, <2>3 DEF StateOK
<1> QED BY <1>1, <1>5, <1>6

LEMMA StateStep ==
  ASSUME StateOK, LogOK(log), [Next]_vars
  PROVE  StateOK' /\ LogOK(log')
<1> USE DEF Events, Codes
<1>1. ASSUME NEW c \in Calls, Refuse(c) \/ AskApproval(c) PROVE StateOK' /\ LogOK(log')
  <2>1. PICK event \in {"DECISION_DENIED", "APPROVAL_REQUESTED"}, decision \in Codes :
          \E a \in Audit(log, event, decision, c) : log' = a.log /\ Counted(a)
    BY <1>1 DEF Refuse, AskApproval
  <2>2. PICK a \in Audit(log, event, decision, c) : log' = a.log /\ Counted(a)
    BY <2>1
  <2>3. a.ok \in BOOLEAN /\ (~a.ok => faults # MaxFaults)
    BY AuditTells
  <2>4. faults' \in 0..MaxFaults
    BY <2>2, <2>3, CountedOK
  <2>5. LogOK(log')
    BY <2>2, AuditOK DEF StateOK
  <2> QED BY <1>1, <2>4, <2>5 DEF Refuse, AskApproval, memory, StateOK
<1>2. ASSUME NEW c \in Calls, Classify(c) \/ ClassifyFails(c) \/ Send(c) \/ Cancel(c)
      PROVE  StateOK' /\ LogOK(log')
  BY <1>2 DEF Classify, ClassifyFails, Send, Cancel, memory, StateOK
<1>3. CASE (\E r \in Requests : Approve(r)) \/ ToggleKillSwitch \/ Crash \/ UNCHANGED vars
  <2>1. log' = log
    BY <1>3 DEF Approve, ToggleKillSwitch, Crash, vars
  <2>2. killSwitch' \in BOOLEAN
    BY <1>3 DEF Approve, ToggleKillSwitch, Crash, vars, StateOK
  <2>3. crashes' \in 0..MaxCrashes /\ mode' \in {mode, "down"}
    BY <1>3 DEF Approve, ToggleKillSwitch, Crash, Dies, vars, StateOK
  <2>4. UNCHANGED <<now, memory, started, faults>>
    BY <1>3 DEF Approve, ToggleKillSwitch, Crash, vars
  <2> QED BY <2>1, <2>2, <2>3, <2>4 DEF StateOK, memory
<1>4. CASE Tick
  BY <1>4 DEF Tick, memory, StateOK
<1> QED BY <1>1, <1>2, <1>3, <1>4, StateStepStart, CrashStartingOK, FinishOK, RestartOK
        DEF Next, Steps, Surroundings

LEMMA Typed == Spec => [](StateOK /\ LogOK(log))
<1>1. Init => StateOK /\ LogOK(log)
  <2>1. ASSUME Init PROVE StateOK
    <3>1. window \in [{2, 3} -> SUBSET Slots] /\ killSwitch \in BOOLEAN
      BY <2>1 DEF Init
    <3>2. /\ now = 0 /\ mode = "down" /\ failures = 0 /\ started = {}
          /\ faults = 0 /\ crashes = 0
      BY <2>1 DEF Init
    <3> QED BY <3>1, <3>2 DEF StateOK
  <2>2. ASSUME Init PROVE LogOK(log)
    <3>1. log.file = <<>> /\ log.seq = 0
      BY <2>2 DEF Init
    <3>2. IsFile(log.file) /\ DOMAIN log.file = {}
      BY <3>1 DEF IsFile
    <3> QED BY <3>1, <3>2 DEF LogOK, Legible
  <2> QED BY <2>1, <2>2
<1>2. StateOK /\ LogOK(log) /\ [Next]_vars => (StateOK /\ LogOK(log))'
  BY StateStep
<1> QED BY <1>1, <1>2, PTL DEF Spec

(* The types, of the file's lines too: whatever an append leaves behind, what     *)
(* parses is a record of a call, with a number and a time.                        *)
THEOREM PipelineTypes == Spec => []TypeOK
<1>1. Shape /\ StateOK /\ LogOK(log) => TypeOK
  <2> SUFFICES ASSUME Shape, StateOK, LogOK(log) PROVE TypeOK
    OBVIOUS
  <2>1. DOMAIN log.file = 1..Len(log.file)
    BY DEF LogOK, IsFile
  <2>2. ASSUME NEW i \in 1..Len(log.file)
        PROVE  /\ log.file[i].ended \in BOOLEAN
               /\ log.file[i].parses => TextOK(log.file[i].text)
    BY <2>1 DEF LogOK, Legible
  <2> QED BY <2>2 DEF TypeOK, Shape, StateOK, LogOK, TextOK
<1> QED BY <1>1, Shaped, Typed, PTL

--------------------------------------------------------------------------------
(* One story per call.  Told says it of a file, with the calls that may have a     *)
(* PENDING record (P), those that may be settled (S) and those that wrote (R).     *)

Settling(event, decision) ==
  event \in Terminal \/ (event = "DECISION_DENIED" /\ decision = "DENY_RATE_LIMIT")

Told(file, P, S, R) ==
  /\ S \subseteq P
  /\ \A i \in Legible(file) :
       /\ file[i].text.event = "MUTATION_PENDING" => file[i].text.call \in P
       /\ Settles(file[i].text) => file[i].text.call \in S
       /\ file[i].text.event = "MUTATION_COMMITTED" => file[i].text.call \in R
  /\ \A i, j \in Legible(file) : file[i].text.call = file[j].text.call =>
       /\ file[i].text.event = "MUTATION_PENDING" /\ file[j].text.event = "MUTATION_PENDING"
            => i = j
       /\ file[i].text.event = "MUTATION_PENDING" /\ Settles(file[j].text) => i < j
       /\ Settles(file[i].text) /\ Settles(file[j].text) => i = j

\* The new line comes after every old one.
LEMMA AddsAfter ==
  ASSUME NEW f, IsFile(f), NEW g, NEW seq, NEW event, NEW decision, NEW c,
         Adds(f, g, seq, event, decision, c)
  PROVE  /\ \A i \in Legible(f), j \in Legible(g) : j > Len(f) => i < j
         /\ \A i, j \in Legible(g) : i > Len(f) /\ j > Len(f) => i = j
         /\ \A i \in Legible(f) : ~(i > Len(f))
<1>1. /\ Len(f) \in Nat /\ Len(g) \in Nat
      /\ DOMAIN f = 1..Len(f) /\ DOMAIN g = 1..Len(g)
  BY DEF IsFile, Adds
<1>2. \A j \in Legible(g) : j > Len(f) => j = Len(g)
  BY <1>1 DEF Adds, Legible
<1> QED BY <1>1, <1>2 DEF Legible

LEMMA TellNeutral ==
  ASSUME NEW f, IsFile(f), NEW g, NEW seq, NEW event, NEW decision, NEW c,
         Adds(f, g, seq, event, decision, c),
         event # "MUTATION_PENDING", ~Settling(event, decision),
         NEW P, NEW S, NEW R, Told(f, P, S, R)
  PROVE  Told(g, P, S, R)
<1>1. "MUTATION_COMMITTED" \in Terminal
  BY DEF Terminal
<1>2. \A i \in Legible(g) : \/ i \in Legible(f) /\ g[i] = f[i]
                            \/ /\ g[i].text.event # "MUTATION_PENDING" /\ ~Settles(g[i].text)
                               /\ g[i].text.event # "MUTATION_COMMITTED"
  BY <1>1 DEF Adds, Settles, Settling
<1> QED BY <1>2 DEF Told

LEMMA TellPending ==
  ASSUME NEW f, IsFile(f), NEW g, NEW seq, NEW decision, NEW c,
         Adds(f, g, seq, "MUTATION_PENDING", decision, c),
         NEW P, NEW S, NEW R, Told(f, P, S, R), c \notin P
  PROVE  Told(g, P \cup {c}, S, R)
<1>1. \A i \in Legible(g) : \/ i \in Legible(f) /\ g[i] = f[i] /\ ~(i > Len(f))
                            \/ /\ i > Len(f) /\ g[i].text.event = "MUTATION_PENDING"
                               /\ g[i].text.call = c /\ ~Settles(g[i].text)
  <2>1. \A i \in Legible(f) : ~(i > Len(f))
    BY AddsAfter
  <2>2. \A rec : rec.event = "MUTATION_PENDING" => ~Settles(rec)
    BY DEF Settles, Terminal
  <2> QED BY <2>1, <2>2 DEF Adds
<1>2. \A i \in Legible(f) : f[i].text.call = c =>
         f[i].text.event # "MUTATION_PENDING" /\ ~Settles(f[i].text)
  BY DEF Told
<1>3. S \subseteq P \cup {c}
  BY DEF Told
<1>4. ASSUME NEW i \in Legible(g)
      PROVE  /\ g[i].text.event = "MUTATION_PENDING" => g[i].text.call \in P \cup {c}
             /\ Settles(g[i].text) => g[i].text.call \in S
             /\ g[i].text.event = "MUTATION_COMMITTED" => g[i].text.call \in R
  BY <1>1 DEF Told
<1>5. ASSUME NEW i \in Legible(g), NEW j \in Legible(g), g[i].text.call = g[j].text.call
      PROVE  /\ g[i].text.event = "MUTATION_PENDING" /\ g[j].text.event = "MUTATION_PENDING"
                  => i = j
             /\ g[i].text.event = "MUTATION_PENDING" /\ Settles(g[j].text) => i < j
             /\ Settles(g[i].text) /\ Settles(g[j].text) => i = j
  <2>1. CASE ~(i > Len(f)) /\ ~(j > Len(f))
    BY <1>1, <1>5, <2>1 DEF Told
  <2>2. CASE i > Len(f) /\ j > Len(f)
    <3>1. i = j
      BY <2>2, AddsAfter
    <3> QED BY <1>1, <2>2, <3>1
  <2>3. CASE i > Len(f) /\ ~(j > Len(f))
    BY <1>1, <1>2, <1>5, <2>3
  <2>4. CASE ~(i > Len(f)) /\ j > Len(f)
    BY <1>1, <1>2, <1>5, <2>4
  <2> QED BY <2>1, <2>2, <2>3, <2>4
<1> QED BY <1>3, <1>4, <1>5 DEF Told

LEMMA TellSettle ==
  ASSUME NEW f, IsFile(f), NEW g, NEW seq, NEW event, NEW decision, NEW c,
         Adds(f, g, seq, event, decision, c),
         Settling(event, decision), event # "MUTATION_PENDING",
         NEW P, NEW S, NEW R, Told(f, P, S, R),
         c \in P, c \notin S, event = "MUTATION_COMMITTED" => c \in R
  PROVE  Told(g, P, S \cup {c}, R)
<1>1. \A i \in Legible(g) : \/ i \in Legible(f) /\ g[i] = f[i] /\ ~(i > Len(f))
                            \/ /\ i > Len(f) /\ g[i].text.event = event
                               /\ g[i].text.call = c
  <2>1. \A i \in Legible(f) : ~(i > Len(f))
    BY AddsAfter
  <2> QED BY <2>1 DEF Adds
<1>2. \A i \in Legible(f) : f[i].text.call = c => ~Settles(f[i].text)
  BY DEF Told
<1>3. S \cup {c} \subseteq P
  BY DEF Told
<1>4. ASSUME NEW i \in Legible(g)
      PROVE  /\ g[i].text.event = "MUTATION_PENDING" => g[i].text.call \in P
             /\ Settles(g[i].text) => g[i].text.call \in S \cup {c}
             /\ g[i].text.event = "MUTATION_COMMITTED" => g[i].text.call \in R
  BY <1>1 DEF Told
<1>5. ASSUME NEW i \in Legible(g), NEW j \in Legible(g), g[i].text.call = g[j].text.call
      PROVE  /\ g[i].text.event = "MUTATION_PENDING" /\ g[j].text.event = "MUTATION_PENDING"
                  => i = j
             /\ g[i].text.event = "MUTATION_PENDING" /\ Settles(g[j].text) => i < j
             /\ Settles(g[i].text) /\ Settles(g[j].text) => i = j
  <2>1. CASE ~(i > Len(f)) /\ ~(j > Len(f))
    BY <1>1, <1>5, <2>1 DEF Told
  <2>2. CASE i > Len(f) /\ j > Len(f)
    <3>1. i = j
      BY <2>2, AddsAfter
    <3> QED BY <1>1, <2>2, <3>1
  <2>3. CASE i > Len(f) /\ ~(j > Len(f))
    BY <1>1, <1>2, <1>5, <2>3
  <2>4. CASE ~(i > Len(f)) /\ j > Len(f)
    <3>1. i < j
      BY <1>1, <2>4, AddsAfter
    <3> QED BY <1>1, <1>2, <1>5, <2>4, <3>1
  <2> QED BY <2>1, <2>2, <2>3, <2>4
<1> QED BY <1>3, <1>4, <1>5 DEF Told

LEMMA TellMore ==
  ASSUME NEW file, NEW P, NEW S, NEW R, Told(file, P, S, R),
         NEW Q, NEW T, NEW U, P \subseteq Q, S \subseteq T, R \subseteq U, T \subseteq Q
  PROVE  Told(file, Q, T, U)
BY DEF Told

Past == {c \in Calls : pc[c] \notin {"new", "classifying"}}
Over == {c \in Calls : pc[c] \in {"limited", "committed", "failed"}}

StoryInv == Told(log.file, Past, Over, reached)

\* Places only move forward.
LEMMA Onward ==
  ASSUME Shape, NEW c \in Calls, NEW place, pc[c] \in {"classifying", "executing"},
         Goes(c, place), place \notin {"new", "classifying"}
  PROVE  /\ Past' = Past \cup {c}
         /\ place \in {"limited", "committed", "failed"} => Over' = Over \cup {c}
         /\ place \notin {"limited", "committed", "failed"} => Over' = Over \ {c}
BY DEF Shape, Past, Over, Goes

LEMMA StoryApproved ==
  ASSUME IsFile(log.file), StoryInv, NEW c, NEW s \in Approved(c)
  PROVE  IsFile(s.log.file) /\ Told(s.log.file, Past, Over, reached)
<1>1. Adds(log.file, s.log.file, log.seq + 1, "APPROVAL_CONSUMED", "allow", c)
  BY ApprovedAdds
<1>2. ~Settling("APPROVAL_CONSUMED", "allow")
  BY DEF Settling, Terminal
<1> QED BY <1>1, <1>2, TellNeutral, AddsFile DEF StoryInv

LEMMA StoryStart ==
  ASSUME Shape, IsFile(log.file), StoryInv, NEW c \in Calls, Start(c)
  PROVE  StoryInv'
<1>1. PICK s \in Approved(c) :
        IF mode = "unaudited"
        THEN log' = s.log /\ Goes(c, "refused")
        ELSE \E p \in AppendRecord(s.log, "MUTATION_PENDING", "allow", c) :
               \/ log' = p.log /\ (Goes(c, "refused") \/ Goes(c, "executing"))
               \/ /\ \E d \in AppendRecord(p.log, "DECISION_DENIED", "DENY_RATE_LIMIT", c) :
                       log' = d.log
                  /\ Goes(c, "limited")
  BY DEF Start
<1>2. IsFile(s.log.file) /\ Told(s.log.file, Past, Over, reached)
  BY StoryApproved
<1>3. pc[c] = "classifying" /\ c \notin Past /\ c \notin Over /\ reached' = reached
  BY DEF Start, Permitted, Past, Over
<1>4. Over \subseteq Past
  BY DEF StoryInv, Told
<1>5. CASE mode = "unaudited"
  <2>1. Past' = Past \cup {c} /\ Over' = Over
    BY <1>1, <1>3, <1>5, Onward
  <2>2. Told(s.log.file, Past \cup {c}, Over, reached)
    BY <1>2, <1>4, TellMore
  <2> QED BY <1>1, <1>3, <1>5, <2>1, <2>2 DEF StoryInv
<1>6. CASE mode # "unaudited"
  <2>1. PICK p \in AppendRecord(s.log, "MUTATION_PENDING", "allow", c) :
          \/ log' = p.log /\ (Goes(c, "refused") \/ Goes(c, "executing"))
          \/ /\ \E d \in AppendRecord(p.log, "DECISION_DENIED", "DENY_RATE_LIMIT", c) :
                  log' = d.log
             /\ Goes(c, "limited")
    BY <1>1, <1>6
  <2>2. IsFile(p.log.file) /\ Told(p.log.file, Past \cup {c}, Over, reached)
    <3>1. Adds(s.log.file, p.log.file, s.log.seq + 1, "MUTATION_PENDING", "allow", c)
      BY <1>2, AppendAdds
    <3> QED BY <1>2, <1>3, <3>1, TellPending, AddsFile
  <2>3. CASE log' = p.log /\ (Goes(c, "refused") \/ Goes(c, "executing"))
    <3>1. Past' = Past \cup {c} /\ Over' = Over
      BY <1>3, <2>3, Onward
    <3> QED BY <1>3, <2>2, <2>3, <3>1 DEF StoryInv
  <2>4. CASE /\ \E d \in AppendRecord(p.log, "DECISION_DENIED", "DENY_RATE_LIMIT", c) :
                  log' = d.log
             /\ Goes(c, "limited")
    <3>1. PICK d \in AppendRecord(p.log, "DECISION_DENIED", "DENY_RATE_LIMIT", c) :
            log' = d.log
      BY <2>4
    <3>2. Past' = Past \cup {c} /\ Over' = Over \cup {c}
      BY <1>3, <2>4, Onward
    <3>3. Adds(p.log.file, d.log.file, p.log.seq + 1, "DECISION_DENIED", "DENY_RATE_LIMIT", c)
      BY <2>2, AppendAdds
    <3>4. Settling("DECISION_DENIED", "DENY_RATE_LIMIT")
      BY DEF Settling
    <3>5. Told(d.log.file, Past \cup {c}, Over \cup {c}, reached)
      BY <1>3, <2>2, <3>3, <3>4, TellSettle
    <3> QED BY <1>3, <3>1, <3>2, <3>5 DEF StoryInv
  <2> QED BY <2>1, <2>3, <2>4
<1> QED BY <1>5, <1>6

LEMMA StoryCrashStarting ==
  ASSUME Shape, IsFile(log.file), StoryInv, NEW c \in Calls, CrashStarting(c)
  PROVE  StoryInv'
<1>1. PICK s \in Approved(c) :
        \/ log' = s.log
        \/ \E p \in AppendRecord(s.log, "MUTATION_PENDING", "allow", c) : log' = p.log
  BY DEF CrashStarting
<1>2. IsFile(s.log.file) /\ Told(s.log.file, Past, Over, reached)
  BY StoryApproved
<1>3. c \notin Past /\ reached' = reached
  BY DEF CrashStarting, Permitted, Past
<1>4. Past \cup {c} \subseteq Past' /\ Over' = Over
  BY DEF CrashStarting, Permitted, Dies, Shape, Past, Over
<1>5. Over \subseteq Past
  BY DEF StoryInv, Told
<1>6. Told(log'.file, Past \cup {c}, Over, reached)
  <2>1. CASE log' = s.log
    BY <1>2, <1>5, <2>1, TellMore
  <2>2. CASE \E p \in AppendRecord(s.log, "MUTATION_PENDING", "allow", c) : log' = p.log
    <3>1. PICK p \in AppendRecord(s.log, "MUTATION_PENDING", "allow", c) : log' = p.log
      BY <2>2
    <3>2. Adds(s.log.file, p.log.file, s.log.seq + 1, "MUTATION_PENDING", "allow", c)
      BY <1>2, AppendAdds
    <3>3. Told(p.log.file, Past \cup {c}, Over, reached)
      BY <1>2, <1>3, <3>2, TellPending
    <3> QED BY <3>1, <3>3
  <2> QED BY <1>1, <2>1, <2>2
<1>7. Told(log'.file, Past', Over', reached')
  BY <1>3, <1>4, <1>5, <1>6, TellMore
<1> QED BY <1>7 DEF StoryInv

LEMMA StoryFinish ==
  ASSUME Shape, IsFile(log.file), StoryInv, NEW c \in Calls, NEW success \in BOOLEAN,
         Finish(c, success)
  PROVE  StoryInv'
<1> DEFINE event == IF success THEN "MUTATION_COMMITTED" ELSE "MUTATION_FAILED"
           place == IF success THEN "committed" ELSE "failed"
<1>1. PICK a \in Audit(log, event, "allow", c) :
        log' = a.log \/ \E b \in Audit(a.log, "BREAKER_TRIPPED", "allow", c) : log' = b.log
  BY DEF Finish
<1>2. /\ pc[c] = "executing" /\ (success => c \in reached)
      /\ reached' = reached /\ Goes(c, place)
  BY DEF Finish
<1>3. c \in Past /\ c \notin Over
  BY <1>2 DEF Past, Over
<1>4. Past' = Past /\ Over' = Over \cup {c}
  <2>1. place \in {"committed", "failed"}
    OBVIOUS
  <2> HIDE DEF place
  <2> QED BY <1>2, <1>3, <2>1, Onward
<1>5. IsFile(a.log.file) /\ Told(a.log.file, Past, Over \cup {c}, reached)
  <2>1. /\ Settling(event, "allow") /\ event # "MUTATION_PENDING"
        /\ event = "MUTATION_COMMITTED" => c \in reached
    BY <1>2 DEF Settling, Terminal
  <2> HIDE DEF event
  <2>2. Adds(log.file, a.log.file, log.seq + 1, event, "allow", c)
    BY AuditAdds
  <2> QED BY <1>3, <2>1, <2>2, TellSettle, AddsFile DEF StoryInv
<1>6. Told(log'.file, Past, Over \cup {c}, reached)
  <2>1. CASE log' = a.log
    BY <1>5, <2>1
  <2>2. CASE \E b \in Audit(a.log, "BREAKER_TRIPPED", "allow", c) : log' = b.log
    <3>1. PICK b \in Audit(a.log, "BREAKER_TRIPPED", "allow", c) : log' = b.log
      BY <2>2
    <3>2. ~Settling("BREAKER_TRIPPED", "allow")
      BY DEF Settling, Terminal
    <3>3. Adds(a.log.file, b.log.file, a.log.seq + 1, "BREAKER_TRIPPED", "allow", c)
      BY <1>5, AuditAdds
    <3>4. Told(b.log.file, Past, Over \cup {c}, reached)
      BY <1>5, <3>2, <3>3, TellNeutral
    <3> QED BY <3>1, <3>4
  <2> QED BY <1>1, <2>1, <2>2
<1> QED BY <1>2, <1>4, <1>6 DEF StoryInv

LEMMA StoryAudited ==
  ASSUME Shape, IsFile(log.file), StoryInv, NEW c \in Calls, Refuse(c) \/ AskApproval(c)
  PROVE  StoryInv'
<1>1. PICK event \in {"DECISION_DENIED", "APPROVAL_REQUESTED"}, decision \in {"DENY", "allow"} :
        \E a \in Audit(log, event, decision, c) : log' = a.log
  BY DEF Refuse, AskApproval
<1>2. PICK a \in Audit(log, event, decision, c) : log' = a.log
  BY <1>1
<1>3. ~Settling(event, decision) /\ event # "MUTATION_PENDING"
  BY DEF Settling, Terminal
<1>4. Adds(log.file, a.log.file, log.seq + 1, event, decision, c)
  BY AuditAdds
<1>5. Told(log'.file, Past, Over, reached)
  BY <1>2, <1>3, <1>4, TellNeutral DEF StoryInv
<1>6. Past \subseteq Past' /\ Over \subseteq Over' /\ Over' \subseteq Past' /\ reached' = reached
  BY DEF Refuse, AskApproval, Goes, Shape, Past, Over
<1> QED BY <1>5, <1>6, TellMore DEF StoryInv

LEMMA StoryStep ==
  ASSUME Shape, IsFile(log.file), StoryInv, [Next]_vars
  PROVE  StoryInv'
<1>1. ASSUME \/ \E c \in Calls : Classify(c) \/ ClassifyFails(c) \/ Send(c) \/ Cancel(c)
             \/ \E r \in Requests : Approve(r)
             \/ ToggleKillSwitch \/ Tick \/ Crash \/ Restart \/ UNCHANGED vars
      PROVE  StoryInv'
  <2>1. log'.file = log.file /\ reached \subseteq reached'
    BY <1>1 DEF Classify, ClassifyFails, Send, Cancel, Approve, ToggleKillSwitch, Tick, Crash,
                Restart, vars
  <2>2. Past \subseteq Past' /\ Over' = Over
    <3>1. CASE \E c \in Calls : Classify(c) \/ ClassifyFails(c) \/ Cancel(c)
      BY <3>1 DEF Classify, ClassifyFails, Cancel, Goes, Shape, Past, Over
    <3>2. CASE Crash
      BY <3>2 DEF Crash, Dies, Shape, Past, Over
    <3>3. CASE pc' = pc
      BY <3>3 DEF Past, Over
    <3> QED BY <1>1, <3>1, <3>2, <3>3 DEF Send, Approve, ToggleKillSwitch, Tick, Restart, vars
  <2>3. Over \subseteq Past
    BY DEF StoryInv, Told
  <2>4. Told(log'.file, Past', Over', reached')
    BY <2>1, <2>2, <2>3, TellMore DEF StoryInv
  <2> QED BY <2>4 DEF StoryInv
<1> QED BY <1>1, StoryStart, StoryCrashStarting, StoryFinish, StoryAudited
        DEF Next, Steps, Surroundings

(* The log tells one story of each call, however appends fail: lines lost, torn,   *)
(* glued or left unsynced never make it say a call was pending twice, settled      *)
(* twice or before it was pending, or committed without its write.                 *)
THEOREM OneStoryEach == Spec => []OneStory
<1>1. Init => StoryInv
  <2> SUFFICES ASSUME Init PROVE StoryInv
    OBVIOUS
  <2>1. Legible(log.file) = {}
    BY DEF Init, Legible
  <2>2. Over \subseteq Past
    BY DEF Over, Past
  <2> QED BY <2>1, <2>2 DEF StoryInv, Told
<1>2. StoryInv => OneStory
  BY DEF StoryInv, Told, OneStory
<1>3. Shape /\ LogOK(log) /\ StoryInv /\ [Next]_vars => StoryInv'
  BY StoryStep DEF LogOK
<1> QED BY <1>1, <1>2, <1>3, Shaped, Typed, PTL DEF Spec

--------------------------------------------------------------------------------
(* What a replay counts, while every append leaves a whole line or nothing.       *)

Grows(f, g, rec) ==
  /\ Whole(g) /\ Len(g) = Len(f) + 1
  /\ \A i \in 1..Len(f) : g[i] = f[i]
  /\ g[Len(g)].parses /\ g[Len(g)].text = rec

LEMMA WrittenGrows ==
  ASSUME NEW f, Whole(f), NEW rec, NEW line, line.ended, line.parses, line.text = rec
  PROVE  Grows(f, Written(f, line), rec)
<1>1. PICK S : f \in Seq(S)
  BY DEF Whole
<1>2. Written(f, line) = Append(f, line)
  <2>1. f # <<>> => Last(f).ended
    BY <1>1 DEF Whole, Last
  <2> QED BY <2>1 DEF Written
<1> DEFINE g == Append(f, line)
           T == S \cup {line}
<1>3. f \in Seq(T) /\ line \in T
  BY <1>1
<1>4. /\ g \in Seq(T) /\ Len(g) = Len(f) + 1 /\ Len(f) \in Nat
      /\ g[Len(g)] = line /\ \A i \in 1..Len(f) : g[i] = f[i]
  BY <1>3
<1> HIDE DEF g, T
<1>5. Whole(g)
  BY <1>4 DEF Whole
<1> QED BY <1>2, <1>4, <1>5 DEF g, Grows

\* An append that returned, or that can only fail cleanly, leaves the file or one line more.
LEMMA AppendGrows ==
  ASSUME NEW l, Whole(l.file), NEW event, NEW decision, NEW c,
         NEW a \in AppendRecord(l, event, decision, c), CleanFaults \/ a.ok
  PROVE  \/ ~a.ok /\ a.log.file = l.file
         \/ Grows(l.file, a.log.file, Record(l.seq + 1, l.prev, event, decision, c, now))
<1> DEFINE rec == Record(l.seq + 1, l.prev, event, decision, c, now)
           whole == Written(l.file, Line(rec, TRUE))
<1>1. Line(rec, TRUE).ended /\ Line(rec, TRUE).parses /\ Line(rec, TRUE).text = rec
  BY DEF Line
<1>2. Grows(l.file, whole, rec)
  <2> HIDE DEF rec
  <2> QED BY <1>1, WrittenGrows
<1>3. \/ a = [ok |-> TRUE, log |-> [file |-> whole, seq |-> rec.seq, prev |-> Digest(rec)]]
      \/ \E fault \in Faults :
           a = [ok |-> FALSE, log |-> [file |-> Remains(l.file, rec, fault),
                                       seq |-> l.seq, prev |-> l.prev]]
  BY DEF AppendRecord
<1>4. CleanFaults => \A fault \in Faults : Remains(l.file, rec, fault) = l.file
                                         \/ Remains(l.file, rec, fault) = whole
  BY DEF Remains, CleanFaults
<1> HIDE DEF rec, whole
<1>5. a.log.file = whole \/ (a.log.file = l.file /\ ~a.ok)
  BY <1>3, <1>4
<1> QED BY <1>2, <1>5 DEF rec

LEMMA GrownLines ==
  ASSUME NEW f, Whole(f), NEW g, NEW rec, Grows(f, g, rec)
  PROVE  /\ \A i \in Legible(g) : \/ i = Len(f) + 1 /\ g[i].text = rec
                                  \/ i \in Legible(f) /\ g[i] = f[i]
         /\ \A i \in Legible(f) : i \in Legible(g) /\ g[i] = f[i] /\ i < Len(f) + 1
         /\ Len(f) + 1 \in Legible(g) /\ g[Len(f) + 1].text = rec
         /\ \A i \in Legible(g) : ~(i > Len(f) + 1)
<1>1. /\ Len(f) \in Nat /\ DOMAIN f = 1..Len(f) /\ Len(g) = Len(f) + 1
      /\ DOMAIN g = 1..Len(g)
  BY DEF Whole, Grows
<1> QED BY <1>1 DEF Legible, Grows

\* s is charged by a restart that reads this file, and at no earlier a time.
Covered(file, s) ==
  \E i \in Legible(file) : /\ file[i].text.call = s.call /\ file[i].text.ts >= s.at
                           /\ Counts(file, i)

LEMMA StillCovered ==
  ASSUME NEW f, Whole(f), NEW g, NEW rec, Grows(f, g, rec), NEW s, Covered(f, s),
         rec.call # s.call \/ ~Settles(rec)
  PROVE  Covered(g, s)
<1>1. PICK i \in Legible(f) : /\ f[i].text.call = s.call /\ f[i].text.ts >= s.at
                             /\ Counts(f, i)
  BY DEF Covered
<1>2. i \in Legible(g) /\ g[i] = f[i]
  BY GrownLines
<1>3. CASE f[i].text.event \in Terminal
  BY <1>1, <1>2, <1>3 DEF Covered, Counts
<1>4. CASE Open(f, i)
  <2>1. ASSUME NEW j \in Legible(g), j > i, g[j].text.call = s.call
        PROVE  ~Settles(g[j].text)
    <3>1. CASE g[j].text = rec
      BY <2>1, <3>1
    <3>2. CASE j \in Legible(f) /\ g[j] = f[j]
      BY <1>1, <1>4, <2>1, <3>2 DEF Open
    <3> QED BY <3>1, <3>2, GrownLines
  <2> QED BY <1>1, <1>2, <1>4, <2>1 DEF Covered, Counts, Open
<1> QED BY <1>1, <1>3, <1>4 DEF Counts

LEMMA NowCovered ==
  ASSUME NEW f, Whole(f), NEW g, NEW rec, Grows(f, g, rec), NEW s,
         rec.call = s.call, rec.ts >= s.at,
         rec.event = "MUTATION_PENDING" \/ rec.event \in Terminal
  PROVE  Covered(g, s)
<1> DEFINE n == Len(f) + 1
<1>1. n \in Legible(g) /\ g[n].text = rec /\ \A i \in Legible(g) : ~(i > n)
  BY GrownLines
<1> HIDE DEF n
<1> QED BY <1>1 DEF Covered, Counts, Open

LEMMA AppendCovers ==
  ASSUME CleanFaults, NEW l, Whole(l.file), NEW event, NEW decision, NEW c,
         NEW a \in AppendRecord(l, event, decision, c), NEW s, Covered(l.file, s),
         \/ c # s.call \/ ~Settling(event, decision)
         \/ event \in Terminal /\ now >= s.at
  PROVE  Covered(a.log.file, s)
<1> DEFINE rec == Record(l.seq + 1, l.prev, event, decision, c, now)
<1>1. rec.call = c /\ rec.event = event /\ rec.decision = decision /\ rec.ts = now
  BY DEF Record
<1>2. a.log.file = l.file \/ Grows(l.file, a.log.file, rec)
  BY AppendGrows
<1> HIDE DEF rec
<1>3. Settles(rec) <=> Settling(event, decision)
  BY <1>1 DEF Settles, Settling
<1>4. CASE a.log.file = l.file
  BY <1>4
<1>5. CASE Grows(l.file, a.log.file, rec) /\ (c # s.call \/ ~Settling(event, decision))
  BY <1>1, <1>3, <1>5, StillCovered
<1>6. CASE Grows(l.file, a.log.file, rec) /\ c = s.call /\ event \in Terminal /\ now >= s.at
  BY <1>1, <1>6, NowCovered
<1> QED BY <1>2, <1>4, <1>5, <1>6

LEMMA AuditCovers ==
  ASSUME CleanFaults, NEW l, Whole(l.file), NEW event, NEW decision, NEW c,
         NEW a \in Audit(l, event, decision, c), NEW s, Covered(l.file, s),
         \/ c # s.call \/ ~Settling(event, decision)
         \/ event \in Terminal /\ now >= s.at
  PROVE  Covered(a.log.file, s)
<1>1. CASE mode = "unaudited"
  BY <1>1 DEF Audit
<1>2. CASE mode # "unaudited"
  BY <1>2, AppendCovers DEF Audit
<1> QED BY <1>1, <1>2

LEMMA ApprovedCovers ==
  ASSUME CleanFaults, Whole(log.file), NEW c, NEW s \in Approved(c),
         NEW slot, Covered(log.file, slot), slot.call # c
  PROVE  Covered(s.log.file, slot)
<1>1. CASE Verdict[c] = "require_approval"
  BY <1>1, AuditCovers DEF Approved
<1>2. CASE Verdict[c] # "require_approval"
  BY <1>2 DEF Approved
<1> QED BY <1>1, <1>2

--------------------------------------------------------------------------------
(* The hourly cap.  A started call is Begun; its slot is charged by the log, and   *)
(* held by the window for as long as the window asks.                              *)

Begun == {"executing", "committed", "failed", "cancelled", "lost"}

StartedInv ==
  /\ Whole(log.file)
  /\ IsFiniteSet(started)
  /\ \A s \in started : s.at <= now /\ pc[s.call] \in Begun /\ Covered(log.file, s)
  /\ \A s, u \in started : s.call = u.call => s = u

\* A call that has begun is over or still runs.
LEMMA BegunStays ==
  ASSUME Shape, [Next]_vars, NEW c \in Calls, pc[c] \in Begun
  PROVE  pc'[c] \in Begun
<1> USE DEF Shape, Begun
<1>1. ASSUME NEW d \in Calls, Start(d) PROVE pc'[c] \in Begun
  BY <1>1, StartMoves DEF Permitted
<1>2. ASSUME NEW d \in Calls, CrashStarting(d) PROVE pc'[c] \in Begun
  BY <1>2 DEF CrashStarting, Dies
<1>3. ASSUME NEW d \in Calls,
             Classify(d) \/ ClassifyFails(d) \/ Refuse(d) \/ AskApproval(d) \/ Send(d) \/ Cancel(d)
      PROVE  pc'[c] \in Begun
  BY <1>3 DEF Classify, ClassifyFails, Refuse, AskApproval, Send, Cancel, Goes
<1>4. ASSUME NEW d \in Calls, NEW success \in BOOLEAN, Finish(d, success) PROVE pc'[c] \in Begun
  BY <1>4 DEF Finish, Goes
<1>5. ASSUME \/ \E r \in Requests : Approve(r)
             \/ ToggleKillSwitch \/ Tick \/ Crash \/ Restart \/ UNCHANGED vars
      PROVE  pc'[c] \in Begun
  BY <1>5 DEF Approve, ToggleKillSwitch, Tick, Crash, Dies, Restart, vars
<1> QED BY <1>1, <1>2, <1>3, <1>4, <1>5 DEF Next, Steps, Surroundings

\* What Start does to the windows.
Leaves(c) == UNCHANGED <<window, started>> /\ Goes(c, "refused")

Limits(c) ==
  /\ window' = [w \in {2, 3} |-> IF w \in WindowOf(c) THEN Live(window[w]) ELSE window[w]]
  /\ UNCHANGED started /\ Goes(c, "limited")

Takes(c) ==
  /\ ~Full(c) /\ Goes(c, "executing") /\ window' = Acquired(c)
  /\ started' = started \cup {[call |-> c, at |-> now]}

LEMMA StartTakes ==
  ASSUME NEW c \in Calls, Start(c)
  PROVE  /\ Leaves(c) \/ Limits(c) \/ Takes(c)
         /\ now' = now /\ pc[c] = "classifying"
<1>1. now' = now /\ pc[c] = "classifying"
  BY DEF Start, Permitted
<1>2. Leaves(c) \/ Limits(c) \/ Takes(c)
  <2>1. PICK s \in Approved(c) :
          IF mode = "unaudited" THEN Leaves(c)
          ELSE \E p \in AppendRecord(s.log, "MUTATION_PENDING", "allow", c) :
                 Leaves(c) \/ Limits(c) \/ Takes(c)
    BY DEF Start, Leaves, Limits, Takes
  <2> QED BY <2>1
<1> QED BY <1>1, <1>2

\* The records of a start leave the other slots covered, and cover its own.
LEMMA StartCovers ==
  ASSUME CleanFaults, Shape, StateOK, Whole(log.file), NEW c \in Calls, Start(c)
  PROVE  /\ \A slot : Covered(log.file, slot) /\ slot.call # c => Covered(log'.file, slot)
         /\ Takes(c) => Covered(log'.file, [call |-> c, at |-> now])
<1>1. PICK s \in Approved(c) :
        IF mode = "unaudited"
        THEN log' = s.log /\ Goes(c, "refused")
        ELSE \E p \in AppendRecord(s.log, "MUTATION_PENDING", "allow", c) :
               \/ ~p.ok /\ log' = p.log /\ Goes(c, "refused")
               \/ /\ \E d \in AppendRecord(p.log, "DECISION_DENIED", "DENY_RATE_LIMIT", c) :
                       log' = d.log
                  /\ Goes(c, "limited")
               \/ p.ok /\ log' = p.log
  BY DEF Start
<1>2. Whole(s.log.file)
  BY ApprovedKeeps
<1>3. \A slot : Covered(log.file, slot) /\ slot.call # c => Covered(s.log.file, slot)
  BY ApprovedCovers
<1>4. Goes(c, "refused") \/ Goes(c, "limited") => ~Takes(c)
  BY DEF Goes, Takes, Shape
<1>5. CASE mode = "unaudited"
  BY <1>1, <1>3, <1>4, <1>5
<1>6. CASE mode # "unaudited"
  <2>1. PICK p \in AppendRecord(s.log, "MUTATION_PENDING", "allow", c) :
          \/ ~p.ok /\ log' = p.log /\ Goes(c, "refused")
          \/ /\ \E d \in AppendRecord(p.log, "DECISION_DENIED", "DENY_RATE_LIMIT", c) :
                  log' = d.log
             /\ Goes(c, "limited")
          \/ p.ok /\ log' = p.log
    BY <1>1, <1>6
  <2>2. Whole(p.log.file)
    BY <1>2, AppendKeeps
  <2>3. \A slot : Covered(s.log.file, slot) /\ slot.call # c => Covered(p.log.file, slot)
    BY <1>2, AppendCovers
  <2>4. CASE ~p.ok /\ log' = p.log /\ Goes(c, "refused")
    BY <1>3, <1>4, <2>3, <2>4
  <2>5. CASE /\ \E d \in AppendRecord(p.log, "DECISION_DENIED", "DENY_RATE_LIMIT", c) :
                  log' = d.log
             /\ Goes(c, "limited")
    <3>1. \A slot : Covered(p.log.file, slot) /\ slot.call # c => Covered(log'.file, slot)
      BY <2>2, <2>5, AppendCovers
    <3> QED BY <1>3, <1>4, <2>3, <2>5, <3>1
  <2>6. CASE p.ok /\ log' = p.log
    <3> DEFINE rec == Record(s.log.seq + 1, s.log.prev, "MUTATION_PENDING", "allow", c, now)
               slot == [call |-> c, at |-> now]
    <3>1. Grows(s.log.file, p.log.file, rec)
      BY <1>2, <2>6, AppendGrows
    <3>2. rec.call = slot.call /\ rec.event = "MUTATION_PENDING" /\ rec.ts >= slot.at
      BY DEF Record, StateOK
    <3> HIDE DEF rec, slot
    <3>3. Covered(p.log.file, slot)
      BY <1>2, <3>1, <3>2, NowCovered
    <3> QED BY <1>3, <2>3, <2>6, <3>3 DEF slot
  <2> QED BY <2>1, <2>4, <2>5, <2>6
<1> QED BY <1>5, <1>6

\* No other step takes a slot, and none leaves a started call uncovered.
LEMMA OthersCover ==
  ASSUME CleanFaults, Shape, StateOK, StartedInv, [Next]_vars, \A c \in Calls : ~Start(c),
         NEW slot \in started
  PROVE  Covered(log'.file, slot)
<1>1. slot.call \in Calls /\ pc[slot.call] \in Begun /\ Covered(log.file, slot) /\ slot.at <= now
  BY DEF StateOK, StartedInv, Slots
<1>2. now \in Int /\ slot.at \in Int
  BY DEF StateOK, Slots
<1>3. ASSUME NEW c \in Calls, CrashStarting(c) PROVE Covered(log'.file, slot)
  <2>1. PICK s \in Approved(c) :
          \/ log' = s.log
          \/ \E p \in AppendRecord(s.log, "MUTATION_PENDING", "allow", c) : log' = p.log
    BY <1>3 DEF CrashStarting
  <2>2. slot.call # c
    BY <1>1, <1>3 DEF CrashStarting, Permitted, Begun
  <2>3. Whole(s.log.file) /\ Covered(s.log.file, slot)
    BY <1>1, <2>2, ApprovedKeeps, ApprovedCovers DEF StartedInv
  <2> QED BY <2>1, <2>2, <2>3, AppendCovers
<1>4. ASSUME NEW c \in Calls, Refuse(c) \/ AskApproval(c) PROVE Covered(log'.file, slot)
  <2>1. \E event, decision : \E a \in Audit(log, event, decision, c) : log' = a.log
    BY <1>4 DEF Refuse, AskApproval
  <2>2. slot.call # c
    BY <1>1, <1>4 DEF Refuse, AskApproval, Begun
  <2> QED BY <1>1, <2>1, <2>2, AuditCovers DEF StartedInv
<1>5. ASSUME NEW c \in Calls, NEW success \in BOOLEAN, Finish(c, success)
      PROVE  Covered(log'.file, slot)
  <2> DEFINE event == IF success THEN "MUTATION_COMMITTED" ELSE "MUTATION_FAILED"
  <2>1. PICK a \in Audit(log, event, "allow", c) :
          log' = a.log \/ \E b \in Audit(a.log, "BREAKER_TRIPPED", "allow", c) : log' = b.log
    BY <1>5 DEF Finish
  <2>2. event \in Terminal /\ ~Settling("BREAKER_TRIPPED", "allow")
    BY DEF Terminal, Settling
  <2> HIDE DEF event
  <2>3. now >= slot.at
    BY <1>1, <1>2
  <2>4. Whole(a.log.file) /\ Covered(a.log.file, slot)
    BY <1>1, <2>2, <2>3, AuditKeeps, AuditCovers DEF StartedInv
  <2> QED BY <2>1, <2>2, <2>4, AuditCovers
<1>6. ASSUME \/ \E c \in Calls : Classify(c) \/ ClassifyFails(c) \/ Send(c) \/ Cancel(c)
             \/ \E r \in Requests : Approve(r)
             \/ ToggleKillSwitch \/ Tick \/ Crash \/ Restart \/ UNCHANGED vars
      PROVE  Covered(log'.file, slot)
  <2>1. log'.file = log.file
    BY <1>6 DEF Classify, ClassifyFails, Send, Cancel, Approve, ToggleKillSwitch, Tick, Crash,
                Restart, vars
  <2> QED BY <1>1, <2>1
<1> QED BY <1>3, <1>4, <1>5, <1>6 DEF Next, Steps, Surroundings

\* Every step but a start leaves the slots alone, and time goes on.
LEMMA OthersTakeNothing ==
  ASSUME StateOK, [Next]_vars, \A c \in Calls : ~Start(c)
  PROVE  /\ started' = started /\ (now' = now \/ now' = now + 1)
         /\ ~Restart => window' = window
         /\ Restart => now' = now
<1>1. ASSUME NEW c \in Calls, NEW success \in BOOLEAN, Finish(c, success)
      PROVE  started' = started /\ now' = now /\ window' = window
  BY <1>1 DEF Finish
<1>2. ASSUME NEW c \in Calls, CrashStarting(c)
      PROVE  started' = started /\ now' = now /\ window' = window
  BY <1>2 DEF CrashStarting, memory
<1>3. ASSUME \/ \E c \in Calls : \/ Classify(c) \/ ClassifyFails(c) \/ Refuse(c)
                                 \/ AskApproval(c) \/ Send(c) \/ Cancel(c)
             \/ \E r \in Requests : Approve(r)
             \/ ToggleKillSwitch \/ Crash \/ UNCHANGED vars
      PROVE  started' = started /\ now' = now /\ window' = window
  BY <1>3 DEF Classify, ClassifyFails, Refuse, AskApproval, Send, Cancel, Approve,
              ToggleKillSwitch, Crash, vars, memory
<1>4. Tick => started' = started /\ now' = now + 1 /\ window' = window
  BY DEF Tick, memory
<1>5. Restart => started' = started /\ now' = now
  BY DEF Restart
<1>6. Restart \/ Tick \/ (started' = started /\ now' = now /\ window' = window)
  BY <1>1, <1>2, <1>3 DEF Next, Steps, Surroundings
<1>7. CASE Restart
  BY <1>5, <1>7
<1>8. CASE ~Restart
  BY <1>4, <1>6, <1>8
<1> QED BY <1>7, <1>8

LEMMA StartedStep ==
  ASSUME CleanFaults, Shape, StateOK, StartedInv, [Next]_vars
  PROVE  StartedInv'
<1>1. Whole(log'.file)
  BY LogGrows DEF StartedInv
<1>2. \A s \in started : s.call \in Calls /\ s.at \in Int /\ s.at <= now
  BY DEF StateOK, Slots, StartedInv
<1>3. \A s \in started : pc'[s.call] \in Begun
  BY <1>2, BegunStays DEF StartedInv
<1>4. ASSUME NEW c \in Calls, Start(c) PROVE StartedInv'
  <2> DEFINE slot == [call |-> c, at |-> now]
  <2>1. now' = now /\ now \in Int /\ pc[c] = "classifying"
    BY <1>4, StartTakes DEF StateOK
  <2>2. \A s \in started : s.call # c
    BY <2>1 DEF StartedInv, Begun
  <2>3. \A s \in started : Covered(log'.file, s)
    BY <1>4, <2>2, StartCovers DEF StartedInv
  <2>4. CASE started' = started
    BY <1>1, <1>2, <1>3, <2>1, <2>3, <2>4 DEF StartedInv
  <2>5. CASE Takes(c)
    <3>1. started' = started \cup {slot} /\ pc'[c] \in Begun /\ slot.call = c /\ slot.at = now
      BY <2>5 DEF Takes, Goes, Shape, Begun
    <3>2. Covered(log'.file, slot)
      BY <1>4, <2>5, StartCovers DEF StartedInv
    <3> HIDE DEF slot
    <3>3. IsFiniteSet(started')
      BY <3>1, FS_AddElement DEF StartedInv
    <3>4. \A s \in started' : s.at <= now' /\ pc'[s.call] \in Begun /\ Covered(log'.file, s)
      BY <1>2, <1>3, <2>1, <2>3, <3>1, <3>2
    <3>5. \A s, u \in started' : s.call = u.call => s = u
      BY <2>2, <3>1 DEF StartedInv
    <3> QED BY <1>1, <3>3, <3>4, <3>5 DEF StartedInv
  <2> QED BY <1>4, <2>4, <2>5, StartTakes DEF Leaves, Limits
<1>5. CASE \A c \in Calls : ~Start(c)
  <2>1. started' = started /\ (now' = now \/ now' = now + 1) /\ now \in Int
    BY <1>5, OthersTakeNothing DEF StateOK
  <2>2. \A s \in started : Covered(log'.file, s)
    BY <1>5, OthersCover
  <2>3. \A s \in started : s.at <= now'
    BY <1>2, <2>1
  <2> QED BY <1>1, <1>3, <2>1, <2>2, <2>3 DEF StartedInv
<1> QED BY <1>4, <1>5

HeldInv ==
  /\ \A w \in {2, 3} : IsFiniteSet(window[w])
  /\ \A w \in {2, 3}, s \in started : w \in WindowOf(s.call) /\ s.at > now - Window =>
       \E x \in window[w] : x.call = s.call /\ x.at >= s.at

LEMMA ChargedFinite == ASSUME NEW file, IsFile(file) PROVE IsFiniteSet(Charged(file))
<1> DEFINE T == {k \in Legible(file) : Counts(file, k)}
           f == [i \in T |-> Slot(file[i].text)]
<1>1. Len(file) \in Nat /\ T \subseteq 1..Len(file)
  BY DEF IsFile, Legible
<1>2. IsFiniteSet(T)
  <2>1. 1 \in Int /\ Len(file) \in Int
    BY <1>1
  <2>2. IsFiniteSet(1..Len(file))
    BY <2>1, FS_Interval
  <2> HIDE DEF T
  <2> QED BY <1>1, <2>2, FS_Subset
<1>3. Charged(file) = {Slot(file[i].text) : i \in T}
  BY DEF Charged
<1> HIDE DEF T
<1>4. f \in [T -> Charged(file)] /\ \A s \in Charged(file) : \E i \in T : f[i] = s
  BY <1>3
<1> HIDE DEF f
<1> QED BY <1>2, <1>4, Fewer

LEMMA HeldStart ==
  ASSUME StateOK, StartedInv, HeldInv, NEW c \in Calls, Start(c)
  PROVE  HeldInv'
<1>1. now' = now /\ now \in Int
  BY StartTakes DEF StateOK
<1>2. \A s \in started : s.at \in Int
  BY DEF StateOK, Slots
<1>3. \A w \in {2, 3} : \A x \in window[w] : x.at \in Int
  BY DEF StateOK, Slots
<1>4. \A w \in {2, 3} : IsFiniteSet(Live(window[w]))
  BY FS_Subset DEF HeldInv, Live
<1>5. \A w \in {2, 3}, s \in started : w \in WindowOf(s.call) /\ s.at > now - Window =>
        \E x \in Live(window[w]) : x.call = s.call /\ x.at >= s.at
  <2> SUFFICES ASSUME NEW w \in {2, 3}, NEW s \in started,
                      w \in WindowOf(s.call), s.at > now - Window
               PROVE  \E x \in Live(window[w]) : x.call = s.call /\ x.at >= s.at
    OBVIOUS
  <2>1. PICK x \in window[w] : x.call = s.call /\ x.at >= s.at
    BY DEF HeldInv
  <2>2. x.at > now - Window
    BY <1>1, <1>2, <1>3, <2>1
  <2> QED BY <2>1, <2>2 DEF Live
<1>6. CASE Leaves(c)
  BY <1>1, <1>6 DEF Leaves, HeldInv
<1>7. CASE Limits(c)
  <2>1. /\ started' = started
        /\ \A w \in {2, 3} : window'[w] = Live(window[w]) \/ window'[w] = window[w]
    BY <1>7 DEF Limits
  <2> QED BY <1>1, <1>4, <1>5, <2>1 DEF HeldInv
<1>8. CASE Takes(c)
  <2> DEFINE slot == [call |-> c, at |-> now]
  <2>1. slot.call = c /\ slot.at = now
    OBVIOUS
  <2>2. started' = started \cup {slot} /\ window' = Acquired(c)
    BY <1>8 DEF Takes
  <2>3. \A w \in {2, 3} : \/ w \in WindowOf(c) /\ window'[w] = Live(window[w]) \cup {slot}
                          \/ w \notin WindowOf(c) /\ window'[w] = window[w]
    BY <2>2 DEF Acquired
  <2> HIDE DEF slot
  <2>4. \A w \in {2, 3} : IsFiniteSet(window'[w])
    <3>1. \A w \in {2, 3} : IsFiniteSet(Live(window[w]) \cup {slot})
      BY <1>4, FS_AddElement
    <3> QED BY <2>3, <3>1 DEF HeldInv
  <2>5. ASSUME NEW w \in {2, 3}, NEW s \in started', w \in WindowOf(s.call), s.at > now' - Window
        PROVE  \E x \in window'[w] : x.call = s.call /\ x.at >= s.at
    <3>1. CASE s = slot
      <4>1. slot \in window'[w] /\ slot.at >= slot.at
        BY <1>1, <2>1, <2>3, <2>5, <3>1
      <4> QED BY <3>1, <4>1
    <3>2. CASE s \in started
      <4>1. PICK x \in Live(window[w]) : x.call = s.call /\ x.at >= s.at
        BY <1>1, <1>5, <2>5, <3>2
      <4>2. x \in window'[w]
        BY <2>3 DEF Live
      <4> QED BY <4>1, <4>2
    <3> QED BY <2>2, <3>1, <3>2
  <2> QED BY <2>4, <2>5 DEF HeldInv
<1> QED BY <1>6, <1>7, <1>8, StartTakes

LEMMA HeldRestart ==
  ASSUME StateOK, LogOK(log), StartedInv, Restart
  PROVE  HeldInv'
<1>1. /\ now' = now /\ started' = started /\ now \in Int /\ Window \in Int
      /\ \A w \in {2, 3} : window'[w] =
           {s \in Charged(log.file) : w \in WindowOf(s.call) /\ now - s.at <= Window}
  BY DEF Restart, StateOK
<1>2. \A w \in {2, 3} : IsFiniteSet(window'[w])
  <2>1. IsFiniteSet(Charged(log.file))
    BY ChargedFinite DEF LogOK
  <2> QED BY <1>1, <2>1, FS_Subset
<1>3. ASSUME NEW w \in {2, 3}, NEW s \in started, w \in WindowOf(s.call), s.at > now - Window
      PROVE  \E x \in window'[w] : x.call = s.call /\ x.at >= s.at
  <2>1. PICK i \in Legible(log.file) :
          /\ log.file[i].text.call = s.call /\ log.file[i].text.ts >= s.at
          /\ Counts(log.file, i)
    BY DEF StartedInv, Covered
  <2> DEFINE x == Slot(log.file[i].text)
  <2>2. x.call = s.call /\ x.at = log.file[i].text.ts /\ x.at >= s.at
    BY <2>1 DEF Slot
  <2>3. x \in Charged(log.file)
    BY <2>1 DEF Charged
  <2>4. x.at \in Int /\ s.at \in Int
    BY <2>2 DEF LogOK, TextOK, StateOK, Slots
  <2> HIDE DEF x
  <2>5. now - x.at <= Window
    BY <1>1, <1>3, <2>2, <2>4
  <2> QED BY <1>1, <1>3, <2>2, <2>3, <2>5
<1> QED BY <1>1, <1>2, <1>3 DEF HeldInv

LEMMA HeldStep ==
  ASSUME StateOK, LogOK(log), StartedInv, HeldInv, [Next]_vars
  PROVE  HeldInv'
<1>1. ASSUME \A c \in Calls : ~Start(c), ~Restart PROVE HeldInv'
  <2>1. /\ started' = started /\ window' = window /\ (now' = now \/ now' = now + 1)
        /\ now \in Int /\ \A s \in started : s.at \in Int
    BY <1>1, OthersTakeNothing DEF StateOK, Slots
  <2>2. \A s \in started : s.at > now' - Window => s.at > now - Window
    BY <2>1
  <2> QED BY <2>1, <2>2 DEF HeldInv
<1> QED BY <1>1, HeldStart, HeldRestart

\* The starts of a window's calls in the Window that ends at t.
Within(S, w, t) == {s \in S : w \in WindowOf(s.call) /\ s.at \in (t - Window + 1)..t}

Capped == \A w \in {2, 3} : \A t \in 0..now :
            IsFiniteSet(Within(started, w, t)) /\ Cardinality(Within(started, w, t)) <= Cap[w]

\* Not more were started within the last Window than the window still holds.
LEMMA HeldBound ==
  ASSUME StateOK, StartedInv, HeldInv, NEW w \in {2, 3}
  PROVE  /\ IsFiniteSet(Within(started, w, now)) /\ IsFiniteSet(Live(window[w]))
         /\ Cardinality(Within(started, w, now)) <= Cardinality(Live(window[w]))
<1> DEFINE S == Within(started, w, now)
           T == Live(window[w])
<1>1. IsFiniteSet(T)
  BY FS_Subset DEF HeldInv, Live
<1>2. IsFiniteSet(S)
  BY FS_Subset DEF StartedInv, Within
<1>3. Cardinality(T) \in Nat
  BY <1>1, FS_CardinalityType
<1>4. \A s \in S : \E x \in T : x.call = s.call
  <2> SUFFICES ASSUME NEW s \in S PROVE \E x \in T : x.call = s.call
    OBVIOUS
  <2>1. now \in Int /\ Window \in Int /\ s.at \in Int
    BY DEF StateOK, Within, Slots
  <2>2. s \in started /\ w \in WindowOf(s.call) /\ s.at > now - Window
    BY <2>1 DEF Within
  <2>3. PICK x \in window[w] : x.call = s.call /\ x.at >= s.at
    BY <2>2 DEF HeldInv
  <2>4. x.at \in Int
    BY DEF StateOK, Slots
  <2>5. x.at > now - Window
    BY <2>1, <2>2, <2>3, <2>4
  <2> QED BY <2>3, <2>5 DEF Live
<1>5. \A s, u \in S : s.call = u.call => s = u
  BY DEF StartedInv, Within
<1> HIDE DEF S, T
<1>6. CASE S = {}
  BY <1>1, <1>2, <1>3, <1>6, FS_EmptySet DEF S, T
<1>7. CASE S # {}
  <2> DEFINE f == [x \in T |-> IF \E s \in S : s.call = x.call
                               THEN CHOOSE s \in S : s.call = x.call
                               ELSE CHOOSE s \in S : TRUE]
  <2>1. \A x \in T : f[x] \in S
    BY <1>7
  <2>2. f \in [T -> S]
    BY <2>1
  <2>3. ASSUME NEW s \in S PROVE \E x \in T : f[x] = s
    <3>1. PICK x \in T : x.call = s.call
      BY <1>4
    <3>2. f[x] \in S /\ f[x].call = x.call
      BY <3>1
    <3>3. f[x] = s
      BY <1>5, <3>1, <3>2
    <3> QED BY <3>3
  <2> HIDE DEF f
  <2>4. Cardinality(S) <= Cardinality(T)
    BY <1>1, <2>2, <2>3, Fewer
  <2> QED BY <1>1, <1>2, <2>4 DEF S, T
<1> QED BY <1>6, <1>7

LEMMA CappedStep ==
  ASSUME StateOK, StartedInv, HeldInv, Capped, [Next]_vars
  PROVE  Capped'
<1>1. now \in Nat /\ \A w \in {2, 3} : Cap[w] \in Nat
  BY DEF StateOK
<1>2. \A s \in started : s.at \in Int /\ s.at <= now
  BY DEF StateOK, StartedInv, Slots
<1>3. ASSUME NEW c \in Calls, Start(c) PROVE Capped'
  <2>1. now' = now
    BY <1>3, StartTakes
  <2>2. CASE started' = started
    BY <2>1, <2>2 DEF Capped
  <2>3. CASE Takes(c)
    <3> DEFINE slot == [call |-> c, at |-> now]
    <3>1. slot.call = c /\ slot.at = now
      OBVIOUS
    <3>2. started' = started \cup {slot} /\ ~Full(c)
      BY <2>3 DEF Takes
    <3> HIDE DEF slot
    <3>3. ASSUME NEW w \in {2, 3}, NEW t \in 0..now
          PROVE  IsFiniteSet(Within(started', w, t)) /\ Cardinality(Within(started', w, t)) <= Cap[w]
      <4>1. CASE t # now \/ w \notin WindowOf(c)
        <5>1. ~(w \in WindowOf(c) /\ now \in (t - Window + 1)..t)
          BY <1>1, <4>1
        <5>2. Within(started', w, t) = Within(started, w, t)
          BY <3>1, <3>2, <5>1 DEF Within
        <5> QED BY <5>2 DEF Capped
      <4>2. CASE t = now /\ w \in WindowOf(c)
        <5>1. /\ IsFiniteSet(Within(started, w, now)) /\ IsFiniteSet(Live(window[w]))
              /\ Cardinality(Within(started, w, now)) <= Cardinality(Live(window[w]))
          BY HeldBound
        <5>2. ~(Cardinality(Live(window[w])) >= Cap[w])
          BY <3>2, <4>2 DEF Full
        <5>3. /\ Cardinality(Within(started, w, now)) \in Nat
              /\ Cardinality(Live(window[w])) \in Nat
          BY <5>1, FS_CardinalityType
        <5>4. Cardinality(Within(started, w, now)) + 1 <= Cap[w]
          BY <1>1, <5>1, <5>2, <5>3
        <5>5. Within(started', w, t) \subseteq Within(started, w, now) \cup {slot}
          BY <3>2, <4>2 DEF Within
        <5>6. /\ IsFiniteSet(Within(started, w, now) \cup {slot})
              /\ Cardinality(Within(started, w, now) \cup {slot}) <= Cap[w]
          <6>1. /\ IsFiniteSet(Within(started, w, now) \cup {slot})
                /\ \/ Cardinality(Within(started, w, now) \cup {slot})
                        = Cardinality(Within(started, w, now))
                   \/ Cardinality(Within(started, w, now) \cup {slot})
                        = Cardinality(Within(started, w, now)) + 1
            BY <5>1, FS_AddElement
          <6> QED BY <1>1, <5>3, <5>4, <6>1
        <5>7. /\ IsFiniteSet(Within(started', w, t))
              /\ Cardinality(Within(started', w, t))
                   <= Cardinality(Within(started, w, now) \cup {slot})
          BY <5>5, <5>6, FS_Subset
        <5>8. /\ Cardinality(Within(started', w, t)) \in Nat
              /\ Cardinality(Within(started, w, now) \cup {slot}) \in Nat
          BY <5>6, <5>7, FS_CardinalityType
        <5> QED BY <1>1, <5>6, <5>7, <5>8
      <4> QED BY <4>1, <4>2
    <3> QED BY <2>1, <3>3 DEF Capped
  <2> QED BY <1>3, <2>2, <2>3, StartTakes DEF Leaves, Limits
<1>4. CASE \A c \in Calls : ~Start(c)
  <2>1. started' = started /\ (now' = now \/ now' = now + 1)
    BY <1>4, OthersTakeNothing
  <2>2. CASE now' = now
    BY <2>1, <2>2 DEF Capped
  <2>3. CASE now' = now + 1
    <3>1. ASSUME NEW w \in {2, 3}
          PROVE  /\ IsFiniteSet(Within(started, w, now + 1))
                 /\ Cardinality(Within(started, w, now + 1)) <= Cap[w]
      <4>1. Within(started, w, now + 1) \subseteq Within(started, w, now)
        BY <1>1, <1>2 DEF Within
      <4>2. /\ IsFiniteSet(Within(started, w, now))
            /\ Cardinality(Within(started, w, now)) <= Cap[w]
        BY <1>1 DEF Capped
      <4>3. /\ IsFiniteSet(Within(started, w, now + 1))
            /\ Cardinality(Within(started, w, now + 1)) <= Cardinality(Within(started, w, now))
        BY <4>1, <4>2, FS_Subset
      <4>4. /\ Cardinality(Within(started, w, now + 1)) \in Nat
            /\ Cardinality(Within(started, w, now)) \in Nat
        BY <4>2, <4>3, FS_CardinalityType
      <4> QED BY <1>1, <4>2, <4>3, <4>4
    <3>2. \A t \in 0..now' : t = now + 1 \/ t \in 0..now
      BY <1>1, <2>3
    <3> QED BY <2>1, <3>1, <3>2 DEF Capped
  <2> QED BY <2>1, <2>2, <2>3
<1> QED BY <1>3, <1>4

(* No more than Cap calls of a window's tier are started within any one Window,     *)
(* over crashes, restarts, cancelled calls and terminal records that were lost,     *)
(* unless an append was cut short.                                                  *)
THEOREM HourlyCapHolds == CleanFaults /\ Spec => []HourlyCap
<1> SUFFICES ASSUME CleanFaults PROVE Spec => []HourlyCap
  OBVIOUS
<1>1. Init => StartedInv /\ HeldInv /\ Capped
  <2> SUFFICES ASSUME Init PROVE StartedInv /\ HeldInv /\ Capped
    OBVIOUS
  <2>1. /\ now = 0 /\ started = {} /\ log.file = <<>> /\ window = [t \in {2, 3} |-> {}]
    BY DEF Init
  <2>2. \A w \in {2, 3}, t \in 0..now : Within(started, w, t) = {}
    BY <2>1 DEF Within
  <2>3. \A w \in {2, 3} : window[w] = {} /\ 0 <= Cap[w]
    BY <2>1
  <2>4. Whole(log.file)
    BY <2>1 DEF Whole
  <2>5. StartedInv
    BY <2>1, <2>4, FS_EmptySet DEF StartedInv
  <2>6. HeldInv
    BY <2>1, <2>3, FS_EmptySet DEF HeldInv
  <2>7. Capped
    BY <2>2, <2>3, FS_EmptySet DEF Capped
  <2> QED BY <2>5, <2>6, <2>7
<1>2. Shape /\ StateOK /\ LogOK(log) /\ StartedInv /\ HeldInv /\ Capped /\ [Next]_vars =>
        (StartedInv /\ HeldInv /\ Capped)'
  BY StartedStep, HeldStep, CappedStep
<1>3. Capped => HourlyCap
  BY DEF Capped, Within, HourlyCap
<1> QED BY <1>1, <1>2, <1>3, Shaped, Typed, PTL DEF Spec

--------------------------------------------------------------------------------
(* Refusals are free.  Free says of a log that what a restart would charge is of   *)
(* the calls in B.                                                                *)

Free(l, B) == /\ Whole(l.file)
              /\ \A i \in Legible(l.file) : Counts(l.file, i) => l.file[i].text.call \in B

LEMMA GrownFree ==
  ASSUME NEW f, Whole(f), NEW g, NEW rec, Grows(f, g, rec), NEW i \in Legible(g), Counts(g, i)
  PROVE  \/ i \in Legible(f) /\ g[i] = f[i] /\ Counts(f, i)
         \/ i = Len(f) + 1 /\ g[i].text = rec
            /\ (rec.event \in Terminal \/ rec.event = "MUTATION_PENDING")
<1>1. CASE i = Len(f) + 1 /\ g[i].text = rec
  BY <1>1 DEF Counts, Open
<1>2. CASE i \in Legible(f) /\ g[i] = f[i]
  <2>1. Open(g, i) => Open(f, i)
    BY <1>2, GrownLines DEF Open
  <2> QED BY <1>2, <2>1 DEF Counts
<1> QED BY <1>1, <1>2, GrownLines

LEMMA AppendFree ==
  ASSUME NEW l, NEW B, Free(l, B), NEW event, NEW decision, NEW c,
         NEW a \in AppendRecord(l, event, decision, c), a.ok
  PROVE  /\ Free(a.log, B \cup {c})
         /\ event \notin Terminal \cup {"MUTATION_PENDING"} => Free(a.log, B)
<1> DEFINE rec == Record(l.seq + 1, l.prev, event, decision, c, now)
<1>1. rec.call = c /\ rec.event = event
  BY DEF Record
<1>2. Grows(l.file, a.log.file, rec)
  BY AppendGrows DEF Free
<1> HIDE DEF rec
<1>3. Whole(a.log.file)
  BY <1>2 DEF Grows
<1>4. ASSUME NEW i \in Legible(a.log.file), Counts(a.log.file, i)
      PROVE  \/ a.log.file[i].text.call \in B
             \/ a.log.file[i].text.call = c /\ event \in Terminal \cup {"MUTATION_PENDING"}
  <2>1. \/ /\ i \in Legible(l.file) /\ a.log.file[i] = l.file[i] /\ Counts(l.file, i)
        \/ /\ a.log.file[i].text = rec
           /\ rec.event \in Terminal \/ rec.event = "MUTATION_PENDING"
    BY <1>2, <1>4, GrownFree DEF Free
  <2> QED BY <1>1, <2>1 DEF Free
<1> QED BY <1>3, <1>4 DEF Free

\* A PENDING record and the refusal by the cap after it leave nothing to charge.
LEMMA LimitedFree ==
  ASSUME NEW l, NEW B, Free(l, B), NEW c,
         NEW p \in AppendRecord(l, "MUTATION_PENDING", "allow", c), p.ok,
         NEW d \in AppendRecord(p.log, "DECISION_DENIED", "DENY_RATE_LIMIT", c), d.ok
  PROVE  Free(d.log, B)
<1> DEFINE pend == Record(l.seq + 1, l.prev, "MUTATION_PENDING", "allow", c, now)
           deny == Record(p.log.seq + 1, p.log.prev, "DECISION_DENIED", "DENY_RATE_LIMIT", c, now)
           f == l.file
           g == p.log.file
           h == d.log.file
<1>1. pend.call = c /\ deny.call = c /\ pend.event = "MUTATION_PENDING"
  BY DEF Record
<1>2. Settles(deny) /\ deny.event \notin Terminal /\ deny.event # "MUTATION_PENDING"
      /\ pend.event \notin Terminal
  BY DEF Record, Settles, Terminal
<1>3. Whole(f) /\ Grows(f, g, pend)
  BY AppendGrows DEF Free
<1>4. Whole(g)
  BY <1>3 DEF Grows
<1>5. Grows(g, h, deny)
  BY <1>4, AppendGrows
<1>6. Whole(h)
  BY <1>5 DEF Grows
<1> HIDE DEF pend, deny
<1>7. ASSUME NEW i \in Legible(h), Counts(h, i) PROVE h[i].text.call \in B
  <2>1. i \in Legible(g) /\ h[i] = g[i] /\ Counts(g, i)
    BY <1>2, <1>4, <1>5, <1>7, GrownFree
  <2>2. \/ i \in Legible(f) /\ g[i] = f[i] /\ Counts(f, i)
        \/ g[i].text = pend
    BY <1>3, <2>1, GrownFree
  <2>3. g[i].text # pend
    <3> SUFFICES ASSUME g[i].text = pend PROVE FALSE
      OBVIOUS
    <3>1. Open(h, i)
      BY <1>2, <1>7, <2>1 DEF Counts
    <3> DEFINE n == Len(g) + 1
    <3>2. n \in Legible(h) /\ h[n].text = deny /\ i < n
      BY <1>4, <1>5, <2>1, GrownLines
    <3> HIDE DEF n
    <3>3. n > i
      BY <3>2
    <3> QED BY <1>1, <1>2, <2>1, <3>1, <3>2, <3>3 DEF Open
  <2> QED BY <2>1, <2>2, <2>3 DEF Free
<1> QED BY <1>6, <1>7 DEF Free

LEMMA AuditFree ==
  ASSUME NEW l, NEW B, Free(l, B), NEW event, NEW decision, NEW c,
         NEW a \in Audit(l, event, decision, c), a.ok
  PROVE  /\ c \in B => Free(a.log, B)
         /\ event \notin Terminal \cup {"MUTATION_PENDING"} => Free(a.log, B)
<1>1. CASE mode = "unaudited"
  BY <1>1 DEF Audit
<1>2. CASE mode # "unaudited"
  <2>1. c \in B => B \cup {c} = B
    OBVIOUS
  <2>2. a \in AppendRecord(l, event, decision, c)
    BY <1>2 DEF Audit
  <2>3. /\ Free(a.log, B \cup {c})
        /\ event \notin Terminal \cup {"MUTATION_PENDING"} => Free(a.log, B)
    BY <2>2, AppendFree
  <2> QED BY <2>1, <2>3
<1> QED BY <1>1, <1>2

LEMMA ApprovedFree ==
  ASSUME NEW B, Free(log, B), NEW c, NEW s \in Approved(c), s.ok
  PROVE  Free(s.log, B)
<1>1. CASE Verdict[c] = "require_approval"
  <2>1. PICK a \in Audit(log, "APPROVAL_CONSUMED", "allow", c) :
          s = [ok |-> a.ok, log |-> a.log,
               approval |-> [approval EXCEPT ![Reference[c]] = "consumed"]]
    BY <1>1 DEF Approved
  <2>2. s.ok = a.ok /\ s.log = a.log
    BY <2>1
  <2>3. "APPROVAL_CONSUMED" \notin Terminal \cup {"MUTATION_PENDING"}
    BY DEF Terminal
  <2> QED BY <2>2, <2>3, AuditFree
<1>2. CASE Verdict[c] # "require_approval"
  BY <1>2 DEF Approved
<1> QED BY <1>1, <1>2

Running == {c \in Calls : pc[c] \in Begun}

FreeInv == faults = 0 => /\ Free(log, Running)
                         /\ \A w \in {2, 3} : \A s \in window[w] : s.call \in Running

\* The two halves: the log, and the windows.
LEMMA FreeMore ==
  ASSUME NEW l, NEW B, Free(l, B), NEW C, B \subseteq C
  PROVE  Free(l, C)
BY DEF Free

LEMMA NoFault ==
  ASSUME StateOK, NEW a, a.ok \in BOOLEAN, Counted(a), faults' = 0
  PROVE  a.ok /\ faults = 0
<1>1. faults \in Nat
  BY DEF StateOK
<1>2. CASE a.ok
  BY <1>2 DEF Counted
<1>3. CASE ~a.ok
  <2>1. faults' = faults + 1
    BY <1>3 DEF Counted
  <2> QED BY <1>1, <2>1
<1> QED BY <1>2, <1>3

LEMMA StartFree ==
  ASSUME Shape, StateOK, FreeInv, NEW c \in Calls, Start(c), faults' = 0
  PROVE  faults = 0 /\ Free(log', Running')
<1>1. PICK s \in Approved(c) :
        IF mode = "unaudited"
        THEN log' = s.log /\ Counted(s)
        ELSE \E p \in AppendRecord(s.log, "MUTATION_PENDING", "allow", c) :
               \/ ~p.ok /\ Counted(p)
               \/ /\ p.ok
                  /\ \E d \in AppendRecord(p.log, "DECISION_DENIED", "DENY_RATE_LIMIT", c) :
                       log' = d.log /\ Counted([ok |-> s.ok /\ d.ok])
               \/ p.ok /\ log' = p.log /\ Counted(s) /\ Goes(c, "executing")
  BY DEF Start
<1>2. s.ok \in BOOLEAN
  BY ApprovedTells
<1>3. Running \subseteq Running'
  <2>1. \A d \in Calls : pc[d] \in Begun => pc'[d] \in Begun
    BY BegunStays DEF Next, Steps
  <2> QED BY <2>1 DEF Running
<1>4. s.ok /\ faults = 0 => Free(s.log, Running)
  BY ApprovedFree DEF FreeInv
<1>5. CASE mode = "unaudited"
  <2>1. s.ok /\ faults = 0
    BY <1>1, <1>2, <1>5, NoFault
  <2> QED BY <1>1, <1>3, <1>4, <1>5, <2>1, FreeMore
<1>6. CASE mode # "unaudited"
  <2>1. PICK p \in AppendRecord(s.log, "MUTATION_PENDING", "allow", c) :
          \/ ~p.ok /\ Counted(p)
          \/ /\ p.ok
             /\ \E d \in AppendRecord(p.log, "DECISION_DENIED", "DENY_RATE_LIMIT", c) :
                  log' = d.log /\ Counted([ok |-> s.ok /\ d.ok])
          \/ p.ok /\ log' = p.log /\ Counted(s) /\ Goes(c, "executing")
    BY <1>1, <1>6
  <2>2. CASE ~p.ok /\ Counted(p)
    BY <2>2, AppendTells, NoFault
  <2>3. CASE /\ p.ok
             /\ \E d \in AppendRecord(p.log, "DECISION_DENIED", "DENY_RATE_LIMIT", c) :
                  log' = d.log /\ Counted([ok |-> s.ok /\ d.ok])
    <3>1. PICK d \in AppendRecord(p.log, "DECISION_DENIED", "DENY_RATE_LIMIT", c) :
            log' = d.log /\ Counted([ok |-> s.ok /\ d.ok])
      BY <2>3
    <3>2. d.ok \in BOOLEAN
      BY AppendTells
    <3>3. s.ok /\ d.ok /\ faults = 0
      <4> DEFINE a == [ok |-> s.ok /\ d.ok]
      <4>1. a.ok \in BOOLEAN /\ (a.ok <=> s.ok /\ d.ok)
        BY <1>2, <3>2
      <4>2. Counted(a)
        BY <3>1
      <4> HIDE DEF a
      <4> QED BY <4>1, <4>2, NoFault
    <3>4. Free(d.log, Running)
      BY <1>4, <2>3, <3>3, LimitedFree
    <3> QED BY <1>3, <3>1, <3>3, <3>4, FreeMore
  <2>4. CASE p.ok /\ log' = p.log /\ Counted(s) /\ Goes(c, "executing")
    <3>1. s.ok /\ faults = 0
      BY <1>2, <2>4, NoFault
    <3>2. Free(p.log, Running \cup {c})
      BY <1>4, <2>4, <3>1, AppendFree
    <3>3. Running \cup {c} \subseteq Running'
      BY <1>3, <2>4 DEF Goes, Shape, Running, Begun
    <3> QED BY <2>4, <3>1, <3>2, <3>3, FreeMore
  <2> QED BY <2>1, <2>2, <2>3, <2>4
<1> QED BY <1>5, <1>6

LEMMA OthersFree ==
  ASSUME Shape, StateOK, FreeInv, [Next]_vars, \A c \in Calls : ~Start(c), faults' = 0
  PROVE  faults = 0 /\ Free(log', Running')
<1>1. Running \subseteq Running'
  BY BegunStays DEF Running
<1>2. ASSUME NEW c \in Calls, CrashStarting(c) PROVE faults = 0 /\ Free(log', Running')
  <2>1. PICK s \in Approved(c) :
          /\ s.ok
          /\ \/ log' = s.log
             \/ \E p \in AppendRecord(s.log, "MUTATION_PENDING", "allow", c) :
                  p.ok /\ log' = p.log
    BY <1>2 DEF CrashStarting
  <2>2. faults = 0
    BY <1>2 DEF CrashStarting
  <2>3. Free(s.log, Running)
    BY <2>1, <2>2, ApprovedFree DEF FreeInv
  <2>4. Running \cup {c} \subseteq Running'
    BY <1>1, <1>2 DEF CrashStarting, Permitted, Dies, Running, Begun
  <2>5. Free(log', Running \cup {c})
    <3>1. Free(s.log, Running \cup {c})
      BY <2>3, FreeMore
    <3>2. ASSUME NEW p \in AppendRecord(s.log, "MUTATION_PENDING", "allow", c), p.ok
          PROVE  Free(p.log, Running \cup {c})
      BY <2>3, <3>2, AppendFree
    <3> QED BY <2>1, <3>1, <3>2
  <2> QED BY <2>2, <2>4, <2>5, FreeMore
<1>3. ASSUME NEW c \in Calls, Refuse(c) \/ AskApproval(c)
      PROVE  faults = 0 /\ Free(log', Running')
  <2>1. PICK event \in {"DECISION_DENIED", "APPROVAL_REQUESTED"}, decision \in Codes :
          \E a \in Audit(log, event, decision, c) : log' = a.log /\ Counted(a)
    BY <1>3 DEF Refuse, AskApproval, Codes
  <2>2. PICK a \in Audit(log, event, decision, c) : log' = a.log /\ Counted(a)
    BY <2>1
  <2>3. a.ok /\ faults = 0
    BY <2>2, AuditTells, NoFault
  <2>4. event \notin Terminal \cup {"MUTATION_PENDING"}
    BY DEF Terminal
  <2>5. Free(a.log, Running)
    BY <2>3, <2>4, AuditFree DEF FreeInv
  <2> QED BY <1>1, <2>2, <2>3, <2>5, FreeMore
<1>4. ASSUME NEW c \in Calls, NEW success \in BOOLEAN, Finish(c, success)
      PROVE  faults = 0 /\ Free(log', Running')
  <2> DEFINE event == IF success THEN "MUTATION_COMMITTED" ELSE "MUTATION_FAILED"
  <2>1. PICK a \in Audit(log, event, "allow", c) :
          \/ \E b \in Audit(a.log, "BREAKER_TRIPPED", "allow", c) :
               log' = b.log /\ Counted([ok |-> a.ok /\ b.ok])
          \/ log' = a.log /\ Counted(a)
    BY <1>4 DEF Finish
  <2> HIDE DEF event
  <2>2. a.ok \in BOOLEAN
    BY AuditTells
  <2>3. c \in Running
    BY <1>4 DEF Finish, Running, Begun
  <2>4. a.ok /\ faults = 0 => Free(a.log, Running)
    BY <2>3, AuditFree DEF FreeInv
  <2>5. CASE log' = a.log /\ Counted(a)
    <3>1. a.ok /\ faults = 0
      BY <2>2, <2>5, NoFault
    <3> QED BY <1>1, <2>4, <2>5, <3>1, FreeMore
  <2>6. CASE \E b \in Audit(a.log, "BREAKER_TRIPPED", "allow", c) :
               log' = b.log /\ Counted([ok |-> a.ok /\ b.ok])
    <3>1. PICK b \in Audit(a.log, "BREAKER_TRIPPED", "allow", c) :
            log' = b.log /\ Counted([ok |-> a.ok /\ b.ok])
      BY <2>6
    <3>2. b.ok \in BOOLEAN
      BY AuditTells
    <3> DEFINE d == [ok |-> a.ok /\ b.ok]
    <3>3. d.ok \in BOOLEAN /\ (d.ok <=> a.ok /\ b.ok) /\ Counted(d)
      BY <2>2, <3>1, <3>2
    <3> HIDE DEF d
    <3>4. a.ok /\ b.ok /\ faults = 0
      BY <3>3, NoFault
    <3>5. Free(b.log, Running)
      BY <2>3, <2>4, <3>4, AuditFree
    <3> QED BY <1>1, <3>1, <3>4, <3>5, FreeMore
  <2> QED BY <2>1, <2>5, <2>6
<1>5. ASSUME \/ \E c \in Calls : Classify(c) \/ ClassifyFails(c) \/ Send(c) \/ Cancel(c)
             \/ \E r \in Requests : Approve(r)
             \/ ToggleKillSwitch \/ Tick \/ Crash \/ Restart \/ UNCHANGED vars
      PROVE  faults = 0 /\ Free(log', Running')
  <2>1. log'.file = log.file /\ faults' = faults
    BY <1>5 DEF Classify, ClassifyFails, Send, Cancel, Approve, ToggleKillSwitch, Tick, Crash,
                Restart, vars
  <2> QED BY <1>1, <2>1 DEF FreeInv, Free
<1> QED BY <1>2, <1>3, <1>4, <1>5 DEF Next, Steps, Surroundings

LEMMA FreeStep ==
  ASSUME Shape, StateOK, LogOK(log), FreeInv, [Next]_vars
  PROVE  FreeInv'
<1> SUFFICES ASSUME faults' = 0
             PROVE  /\ Free(log', Running')
                    /\ \A w \in {2, 3} : \A s \in window'[w] : s.call \in Running'
  BY DEF FreeInv
<1>1. faults = 0 /\ Free(log', Running')
  BY StartFree, OthersFree
<1>2. Running \subseteq Running'
  BY BegunStays DEF Running
<1>3. \A w \in {2, 3} : \A s \in window[w] : s.call \in Running'
  BY <1>1, <1>2 DEF FreeInv
<1>4. ASSUME NEW c \in Calls, Start(c), NEW w \in {2, 3}, NEW s \in window'[w]
      PROVE  s.call \in Running'
  <2>1. CASE Leaves(c) \/ Limits(c)
    <3>1. s \in window[w]
      BY <1>4, <2>1 DEF Leaves, Limits, Live
    <3> QED BY <1>3, <3>1
  <2>2. CASE Takes(c)
    <3>1. s \in window[w] \/ s = [call |-> c, at |-> now]
      BY <1>4, <2>2 DEF Takes, Acquired, Live
    <3>2. c \in Running'
      BY <2>2 DEF Takes, Goes, Shape, Running, Begun
    <3> QED BY <1>3, <3>1, <3>2
  <2> QED BY <1>4, <2>1, <2>2, StartTakes
<1>5. ASSUME Restart, NEW w \in {2, 3}, NEW s \in window'[w]
      PROVE  s.call \in Running'
  <2>1. s \in Charged(log.file)
    BY <1>5 DEF Restart
  <2>2. PICK i \in Legible(log.file) : Counts(log.file, i) /\ s = Slot(log.file[i].text)
    BY <2>1 DEF Charged
  <2>3. s.call \in Running
    BY <1>1, <2>2 DEF FreeInv, Free, Slot
  <2> QED BY <1>2, <2>3
<1>6. ASSUME \A c \in Calls : ~Start(c), ~Restart, NEW w \in {2, 3}, NEW s \in window'[w]
      PROVE  s.call \in Running'
  BY <1>3, <1>6, OthersTakeNothing
<1> QED BY <1>1, <1>4, <1>5, <1>6

(* While no append has failed, a call that was refused, asked for an approval or   *)
(* was turned away by the cap takes no slot, in this process or after a restart.    *)
THEOREM RefusalsTakeNothing == Spec => []RefusalsAreFree
<1>1. Init => FreeInv
  <2> SUFFICES ASSUME Init PROVE FreeInv
    OBVIOUS
  <2>1. log.file = <<>> /\ \A w \in {2, 3} : window[w] = {}
    BY DEF Init
  <2>2. Whole(log.file) /\ Legible(log.file) = {}
    BY <2>1 DEF Whole, Legible
  <2> QED BY <2>1, <2>2 DEF FreeInv, Free
<1>2. FreeInv => RefusalsAreFree
  BY DEF FreeInv, Running, Begun, RefusalsAreFree
<1>3. Shape /\ StateOK /\ LogOK(log) /\ FreeInv /\ [Next]_vars => FreeInv'
  BY FreeStep
<1> QED BY <1>1, <1>2, <1>3, Shaped, Typed, PTL DEF Spec

--------------------------------------------------------------------------------
(* The chain, while an append that fails leaves nothing: an unsynced line stays    *)
(* in the file although the process forgets it, and its number is used again.      *)

\* The log is whole, its chain intact, and the remembered tail is that of the file.
Linked(l) ==
  /\ Whole(l.file) /\ ChainIntact(l.file)
  /\ l.seq = Len(l.file)
  /\ l.prev = IF Len(l.file) = 0 THEN Genesis ELSE Digest(l.file[Len(l.file)].text)

LEMMA AppendLinks ==
  ASSUME Faults \subseteq {"refused"}, NEW l, Linked(l), NEW event, NEW decision, NEW c,
         NEW a \in AppendRecord(l, event, decision, c)
  PROVE  Linked(a.log)
<1> DEFINE rec == Record(l.seq + 1, l.prev, event, decision, c, now)
           f == l.file
           g == Written(l.file, Line(rec, TRUE))
<1>1. rec.seq = l.seq + 1 /\ rec.prev = l.prev
  BY DEF Record
<1>2. \/ a.log = [file |-> g, seq |-> rec.seq, prev |-> Digest(rec)]
      \/ a.log = [file |-> f, seq |-> l.seq, prev |-> l.prev]
  <2>1. \/ a = [ok |-> TRUE, log |-> [file |-> g, seq |-> rec.seq, prev |-> Digest(rec)]]
        \/ \E fault \in Faults :
             a = [ok |-> FALSE, log |-> [file |-> Remains(f, rec, fault),
                                         seq |-> l.seq, prev |-> l.prev]]
    BY DEF AppendRecord
  <2>2. \A fault \in Faults : Remains(f, rec, fault) = f
    BY DEF Remains
  <2> HIDE DEF rec, f, g
  <2> QED BY <2>1, <2>2
<1>3. Grows(f, g, rec)
  <2>1. Line(rec, TRUE).ended /\ Line(rec, TRUE).parses /\ Line(rec, TRUE).text = rec
    BY DEF Line
  <2> HIDE DEF rec
  <2> QED BY <2>1, WrittenGrows DEF Linked
<1> HIDE DEF rec, f, g
<1>4. CASE a.log = [file |-> f, seq |-> l.seq, prev |-> l.prev]
  BY <1>4 DEF Linked, f
<1>5. CASE a.log = [file |-> g, seq |-> rec.seq, prev |-> Digest(rec)]
  <2>1. /\ Len(f) \in Nat /\ Len(g) = Len(f) + 1 /\ g[Len(g)].parses /\ g[Len(g)].text = rec
        /\ \A i \in 1..Len(f) : g[i] = f[i]
    BY <1>3 DEF Linked, Whole, Grows, f
  <2>2. ASSUME NEW i \in 1..Len(g)
        PROVE  /\ g[i].parses /\ g[i].text.seq = i
               /\ g[i].text.prev = IF i = 1 THEN Genesis ELSE Digest(g[i - 1].text)
    <3>1. CASE i = Len(g)
      <4>1. rec.seq = i /\ rec.prev = IF i = 1 THEN Genesis ELSE Digest(f[i - 1].text)
        BY <1>1, <2>1, <3>1 DEF Linked, f
      <4>2. i # 1 => g[i - 1] = f[i - 1]
        BY <2>1, <3>1
      <4> QED BY <2>1, <3>1, <4>1, <4>2
    <3>2. CASE i # Len(g)
      <4>1. i \in 1..Len(f) /\ (i # 1 => i - 1 \in 1..Len(f))
        BY <2>1, <3>2
      <4> QED BY <2>1, <4>1 DEF Linked, ChainIntact, f
    <3> QED BY <3>1, <3>2
  <2>3. ChainIntact(g) /\ Whole(g)
    BY <1>3, <2>2 DEF ChainIntact, Grows
  <2>4. rec.seq = Len(g) /\ Len(g) # 0
    BY <1>1, <2>1 DEF Linked, f
  <2> QED BY <1>5, <2>1, <2>3, <2>4 DEF Linked
<1> QED BY <1>2, <1>4, <1>5

LEMMA AuditLinks ==
  ASSUME Faults \subseteq {"refused"}, NEW l, Linked(l), NEW event, NEW decision, NEW c,
         NEW a \in Audit(l, event, decision, c)
  PROVE  Linked(a.log)
<1>1. CASE mode = "unaudited"
  BY <1>1 DEF Audit
<1>2. CASE mode # "unaudited"
  BY <1>2, AppendLinks DEF Audit
<1> QED BY <1>1, <1>2

LEMMA ApprovedLinks ==
  ASSUME Faults \subseteq {"refused"}, Linked(log), NEW c, NEW s \in Approved(c)
  PROVE  Linked(s.log)
<1>1. CASE Verdict[c] = "require_approval"
  BY <1>1, AuditLinks DEF Approved
<1>2. CASE Verdict[c] # "require_approval"
  BY <1>2 DEF Approved
<1> QED BY <1>1, <1>2

\* Only a serving process appends, and it goes on from the tail of the file.
ChainInv ==
  /\ Whole(log.file) /\ ChainIntact(log.file)
  /\ mode = "serving" => Linked(log)

\* Without an open log nothing is appended.
LEMMA Silent ==
  ASSUME mode = "unaudited"
  PROVE  /\ \A l, event, decision, c : \A a \in Audit(l, event, decision, c) : a.log = l
         /\ \A c : \A s \in Approved(c) : s.log = log
<1>1. \A l, event, decision, c : \A a \in Audit(l, event, decision, c) : a.log = l
  BY DEF Audit
<1> QED BY <1>1 DEF Approved

LEMMA ChainRestart ==
  ASSUME LogOK(log), ChainInv, Restart
  PROVE  ChainInv'
<1> DEFINE f == log.file
           n == Len(f)
<1>1. n \in Nat /\ DOMAIN f = 1..n /\ IsFile(f)
  BY DEF LogOK, IsFile
<1>2. Legible(f) = 1..n
  BY <1>1 DEF ChainInv, ChainIntact, Legible
<1>3. /\ ChainTail(f).seq = n
      /\ ChainTail(f).prev = IF n = 0 THEN Genesis ELSE Digest(f[n].text)
  <2>1. CASE n = 0
    BY <1>2, <2>1 DEF ChainTail
  <2>2. CASE n # 0
    <3>1. Legible(f) # {} /\ n \in Legible(f)
      BY <1>1, <1>2, <2>2
    <3>2. Max(Legible(f)) = n
      <4> DEFINE m == Max(Legible(f))
      <4>1. m \in Legible(f) /\ \A i \in Legible(f) : i <= m
        BY <1>1, <3>1, TailIsLast
      <4> HIDE DEF m
      <4>2. m \in 1..n /\ n <= m
        BY <1>2, <3>1, <4>1
      <4>3. m = n
        BY <1>1, <4>2
      <4> QED BY <4>3 DEF m
    <3>3. f[n].text.seq = n
      BY <1>2, <3>1 DEF ChainInv, ChainIntact
    <3> QED BY <2>2, <3>1, <3>2, <3>3 DEF ChainTail
  <2> QED BY <2>1, <2>2
<1>4. log'.file = f /\ (mode' = "serving" => log'.seq = ChainTail(f).seq
                                           /\ log'.prev = ChainTail(f).prev)
  BY DEF Restart
<1> HIDE DEF n
<1> QED BY <1>3, <1>4 DEF ChainInv, Linked, n

LEMMA ChainStep ==
  ASSUME Faults \subseteq {"refused"}, LogOK(log), StateOK, ChainInv, [Next]_vars
  PROVE  ChainInv'
<1>1. ASSUME NEW c \in Calls, Start(c) PROVE ChainInv'
  <2>1. PICK s \in Approved(c) :
          IF mode = "unaudited" THEN log' = s.log
          ELSE \E p \in AppendRecord(s.log, "MUTATION_PENDING", "allow", c) :
                 \/ log' = p.log
                 \/ \E d \in AppendRecord(p.log, "DECISION_DENIED", "DENY_RATE_LIMIT", c) :
                      log' = d.log
    BY <1>1 DEF Start
  <2>2. mode' = mode /\ mode # "down"
    BY <1>1 DEF Start, Permitted, Serving
  <2>3. CASE mode = "unaudited"
    BY <2>1, <2>2, <2>3, Silent DEF ChainInv
  <2>4. CASE mode = "serving"
    <3>1. Linked(s.log)
      BY <2>4, ApprovedLinks DEF ChainInv
    <3>2. Linked(log')
      BY <2>1, <2>4, <3>1, AppendLinks
    <3> QED BY <3>2 DEF ChainInv, Linked
  <2> QED BY <2>2, <2>3, <2>4 DEF StateOK
<1>2. ASSUME NEW c \in Calls, CrashStarting(c) PROVE ChainInv'
  <2>1. PICK s \in Approved(c) :
          \/ log' = s.log
          \/ /\ mode = "serving"
             /\ \E p \in AppendRecord(s.log, "MUTATION_PENDING", "allow", c) : log' = p.log
    BY <1>2 DEF CrashStarting
  <2>2. mode' = "down" /\ mode # "down"
    BY <1>2 DEF CrashStarting, Permitted, Serving, Dies
  <2>3. CASE mode = "unaudited"
    BY <2>1, <2>2, <2>3, Silent DEF ChainInv
  <2>4. CASE mode = "serving"
    <3>1. Linked(s.log)
      BY <2>4, ApprovedLinks DEF ChainInv
    <3>2. Linked(log')
      BY <2>1, <2>4, <3>1, AppendLinks
    <3> QED BY <3>2 DEF ChainInv, Linked
  <2> QED BY <2>2, <2>3, <2>4 DEF StateOK
<1>3. ASSUME NEW c \in Calls, NEW success \in BOOLEAN,
             Refuse(c) \/ AskApproval(c) \/ Finish(c, success)
      PROVE  ChainInv'
  <2>1. PICK event, decision : \E a \in Audit(log, event, decision, c) :
          log' = a.log \/ \E b \in Audit(a.log, "BREAKER_TRIPPED", "allow", c) : log' = b.log
    BY <1>3 DEF Refuse, AskApproval, Finish
  <2>2. mode' = mode /\ mode # "down"
    BY <1>3 DEF Refuse, AskApproval, Finish, Serving
  <2>3. CASE mode = "unaudited"
    <3>1. log' = log
      BY <2>1, <2>3, Silent
    <3> QED BY <2>2, <2>3, <3>1 DEF ChainInv
  <2>4. CASE mode = "serving"
    <3>1. Linked(log')
      BY <2>1, <2>4, AuditLinks DEF ChainInv
    <3> QED BY <3>1 DEF ChainInv, Linked
  <2> QED BY <2>2, <2>3, <2>4 DEF StateOK
<1>4. CASE Restart
  BY <1>4, ChainRestart
<1>5. ASSUME \/ \E c \in Calls : Classify(c) \/ ClassifyFails(c) \/ Send(c) \/ Cancel(c)
             \/ \E r \in Requests : Approve(r)
             \/ ToggleKillSwitch \/ Tick \/ Crash \/ UNCHANGED vars
      PROVE  ChainInv'
  <2>1. log' = log /\ (mode' = mode \/ mode' = "down")
    BY <1>5 DEF Classify, ClassifyFails, Send, Cancel, Approve, ToggleKillSwitch, Tick, Crash,
                Dies, vars
  <2> QED BY <2>1 DEF ChainInv
<1> QED BY <1>1, <1>2, <1>3, <1>4, <1>5 DEF Next, Steps, Surroundings

(* The log verifies from its first line to its last, over crashes and restarts,     *)
(* while an append that fails leaves the file as it was.                           *)
THEOREM ChainHolds == Faults \subseteq {"refused"} /\ Spec => []ChainVerifies
<1> SUFFICES ASSUME Faults \subseteq {"refused"} PROVE Spec => []ChainVerifies
  OBVIOUS
<1>1. Init => ChainInv
  <2> SUFFICES ASSUME Init PROVE ChainInv
    OBVIOUS
  <2>1. log.file = <<>> /\ mode = "down"
    BY DEF Init
  <2>2. Len(log.file) = 0 /\ Whole(log.file)
    BY <2>1 DEF Whole
  <2> QED BY <2>1, <2>2 DEF ChainInv, ChainIntact
<1>2. ChainInv => ChainVerifies
  BY DEF ChainInv, ChainVerifies
<1>3. LogOK(log) /\ StateOK /\ ChainInv /\ [Next]_vars => ChainInv'
  BY ChainStep
<1> QED BY <1>1, <1>2, <1>3, Typed, PTL DEF Spec
================================================================================
