-------------------------------- MODULE Pipeline --------------------------------
(***************************************************************************)
(* run_pipeline (tools/registry.py) for the calls that may write to SOAR,    *)
(* with the blast-radius limits (security/limits.py), the audit log          *)
(* (security/audit.py), the approvals a call spends and the restarts of the  *)
(* server.  The pipeline gives way to other calls in two places only: while  *)
(* a call is classified and while its tool function runs.  Everything        *)
(* between the two is one step of the event loop, and one action here.       *)
(***************************************************************************)
EXTENDS AuditFile

CONSTANTS
    Tier,          \* the effective tier of a call's decision, 0..4
    Verdict,       \* enforce() and check_mutations_per_call: "allow", "require_approval" or "deny"
    Requests,      \* approval references
    Reference,     \* the approval_id a call carries, or None
    None,
    Cap,           \* SOAR_MAX_TIER2_PER_HOUR and SOAR_MAX_TIER3_PER_HOUR
    Window,        \* WINDOW_SECONDS
    Threshold,     \* BREAKER_THRESHOLD
    AuditRequired, \* SOAR_AUDIT_REQUIRED
    MaxTime,       \* bound on the clock
    MaxFaults,     \* bound on the appends that fail
    MaxCrashes,    \* bound on the crashes
    Faults         \* how an append can fail, see AppendRecord

ASSUME PipelineAssumption ==
    /\ Tier \in [Calls -> 0..4]
    /\ Verdict \in [Calls -> {"allow", "require_approval", "deny"}]
    /\ Reference \in [Calls -> Requests \cup {None}]
    /\ None \notin Requests
    /\ Cap \in [{2, 3} -> Nat]
    /\ Window \in Nat \ {0} /\ Threshold \in Nat \ {0}
    /\ MaxTime \in Nat /\ MaxFaults \in Nat /\ MaxCrashes \in Nat
    /\ AuditRequired \in BOOLEAN
    /\ Faults \subseteq {"refused", "unsynced", "torn", "unended"}

VARIABLES
    now,           \* the clock, of both the windows and the records
    mode,          \* "serving", "unaudited" (no audit log is open) or "down"
    killSwitch,    \* the kill switch file exists
    log,           \* the audit file, and the chain tail the process remembers
    window,        \* the slots taken in each sliding window
    failures,      \* consecutive failures
    tripped,       \* breaker_tripped
    pc,            \* where each call is
    approval,      \* what status() answers for each reference
    reached,       \* history: the calls whose write was sent to SOAR
    started,       \* history: when each tool function was started
    faults,        \* history: appends that failed
    crashes        \* history: crashes

memory == <<window, failures, tripped>>
vars   == <<now, mode, killSwitch, log, memory, pc, approval, reached, started, faults, crashes>>

Slots == [call : Calls, at : 0..MaxTime]

Places == {"new", "classifying", "executing", "refused", "asked", "limited", "committed",
           "failed", "cancelled", "lost"}

TypeOK ==
    /\ now \in 0..MaxTime
    /\ mode \in {"serving", "unaudited", "down"}
    /\ killSwitch \in BOOLEAN
    /\ log.seq \in Nat
    /\ \A i \in 1..Len(log.file) :
         /\ log.file[i].ended \in BOOLEAN
         /\ log.file[i].parses =>
              /\ log.file[i].text.seq \in Nat
              /\ log.file[i].text.event \in Events /\ log.file[i].text.decision \in Codes
              /\ log.file[i].text.call \in Calls /\ log.file[i].text.ts \in 0..MaxTime
    /\ window \in [{2, 3} -> SUBSET Slots]
    /\ failures \in Nat
    /\ tripped \in BOOLEAN
    /\ pc \in [Calls -> Places]
    /\ approval \in [Requests -> {"unknown", "pending", "approved", "consumed"}]
    /\ reached \subseteq Calls
    /\ started \subseteq Slots
    /\ faults \in 0..MaxFaults
    /\ crashes \in 0..MaxCrashes

Init ==
    /\ now = 0
    /\ mode = "down"
    /\ killSwitch = FALSE
    /\ log = [file |-> <<>>, seq |-> 0, prev |-> Genesis]
    /\ window = [t \in {2, 3} |-> {}]
    /\ failures = 0
    /\ tripped = FALSE
    /\ pc = [c \in Calls |-> "new"]
    /\ approval = [r \in Requests |-> "unknown"]
    /\ reached = {}
    /\ started = {}
    /\ faults = 0
    /\ crashes = 0

(* ------------------------------ audit log ------------------------------ *)

\* What the file holds after an append of rec that raised: nothing new, the whole line
\* unsynced, a part of it (torn), or all of it but the newline (unended).
Remains(file, rec, fault) ==
    CASE fault = "refused"  -> file
      [] fault = "unsynced" -> Written(file, Line(rec, TRUE))
      [] fault = "torn"     -> Written(file, Wreck(FALSE))
      [] fault = "unended"  -> Written(file, Line(rec, FALSE))

\* AuditLog.append on log l: the logs it can leave, with whether it returned.  The chain
\* tail moves only when fsync has returned.
AppendRecord(l, event, decision, c) ==
    LET rec == Record(l.seq + 1, l.prev, event, decision, c, now)
    IN  {[ok |-> TRUE, log |-> [file |-> Written(l.file, Line(rec, TRUE)),
                                seq |-> rec.seq, prev |-> Digest(rec)]]}
        \cup {[ok |-> FALSE, log |-> [file |-> Remains(l.file, rec, fault),
                                      seq |-> l.seq, prev |-> l.prev]] :
                 fault \in IF faults = MaxFaults THEN {} ELSE Faults}

\* _audit: best effort, and nothing at all when no log is open.
Audit(l, event, decision, c) ==
    IF mode = "unaudited" THEN {[ok |-> TRUE, log |-> l]} ELSE AppendRecord(l, event, decision, c)

Counted(a) == faults' = IF a.ok THEN faults ELSE faults + 1

(* ------------------------------- limits -------------------------------- *)

WindowOf(c) == IF Tier[c] >= 3 THEN {3} ELSE {2} \cap {Tier[c]}

Live(slots) == {s \in slots : s.at > now - Window}

Full(c) == \E w \in WindowOf(c) : Cardinality(Live(window[w])) >= Cap[w]

Acquired(c) ==
    [w \in {2, 3} |-> IF w \in WindowOf(c)
                      THEN Live(window[w]) \cup {[call |-> c, at |-> now]}
                      ELSE window[w]]

\* A slip the runs must notice: Tier 1 counted among the reads.
BlockedAboveOne(c) == Tier[c] >= 2 /\ (killSwitch \/ tripped)

\* check_kill_switch and check_breaker.
Blocked(c) ==
    \/ Tier[c] >= 1 /\ killSwitch
    \/ Tier[c] >= 2 /\ tripped

(* ------------------------------ the calls ------------------------------ *)

Goes(c, place) == pc' = [pc EXCEPT ![c] = place]

Serving == mode # "down"

\* The call arrives; its classifier, if it has one, reads from SOAR first.
Classify(c) ==
    /\ Serving /\ pc[c] = "new"
    /\ Goes(c, "classifying")
    /\ UNCHANGED <<now, mode, killSwitch, log, memory, approval, reached, started, faults, crashes>>

\* The classifier fails: the error is returned and nothing is recorded.
ClassifyFails(c) ==
    /\ Serving /\ pc[c] = "classifying"
    /\ Goes(c, "refused")
    /\ UNCHANGED <<now, mode, killSwitch, log, memory, approval, reached, started, faults, crashes>>

DeniedUnasked(c) ==   \* a slip: any reference will do
    Verdict[c] = "deny" \/ Blocked(c)

\* Steps 3-8 refuse the call: enforce() or the cap on mutations per call, which depend on
\* nothing that moves, the kill switch, the breaker, or the approval it carries, which is
\* not there or was spent.
Denied(c) ==
    \/ Verdict[c] = "deny" \/ Blocked(c)
    \/ /\ Verdict[c] = "require_approval"
       /\ Reference[c] # None /\ approval[Reference[c]] # "approved"

Refuse(c) ==
    /\ Serving /\ pc[c] = "classifying" /\ Denied(c)
    /\ \E a \in Audit(log, "DECISION_DENIED", "DENY", c) : log' = a.log /\ Counted(a)
    /\ Goes(c, "refused")
    /\ UNCHANGED <<now, mode, killSwitch, memory, approval, reached, started, crashes>>

\* Step 8 without an approval_id: the request is written and the call returns.
AskApproval(c) ==
    /\ Serving /\ pc[c] = "classifying" /\ ~Denied(c)
    /\ Verdict[c] = "require_approval" /\ Reference[c] = None
    /\ \E r \in Requests : /\ approval[r] = "unknown"
                           /\ approval' = [approval EXCEPT ![r] = "pending"]
    /\ \E a \in Audit(log, "APPROVAL_REQUESTED", "allow", c) : log' = a.log /\ Counted(a)
    /\ Goes(c, "asked")
    /\ UNCHANGED <<now, mode, killSwitch, memory, reached, started, crashes>>

\* Step 8 with an approval_id: the approval is spent before anything else can fail.
Approved(c) ==
    IF Verdict[c] = "require_approval"
    THEN {[ok |-> a.ok, log |-> a.log,
           approval |-> [approval EXCEPT ![Reference[c]] = "consumed"]] :
             a \in Audit(log, "APPROVAL_CONSUMED", "allow", c)}
    ELSE {[ok |-> TRUE, log |-> log, approval |-> approval]}

\* Step 9: MUTATION_PENDING, which must be written, then a slot of the window,
\* whose refusal is recorded.  Step 10 starts the tool function.
Permitted(c) ==
    /\ Serving /\ pc[c] = "classifying" /\ ~Denied(c)
    /\ Verdict[c] = "require_approval" => Reference[c] # None

\* A slip: MUTATION_PENDING is best effort like the other records.
StartBestEffort(c) ==
    /\ Permitted(c) /\ mode = "serving" /\ ~Full(c)
    /\ \E s \in Approved(c) : \E p \in AppendRecord(s.log, "MUTATION_PENDING", "allow", c) :
         /\ s.ok \/ p.ok
         /\ approval' = s.approval
         /\ log' = p.log /\ Counted([ok |-> s.ok /\ p.ok])
    /\ Goes(c, "executing")
    /\ window' = Acquired(c)
    /\ started' = started \cup {[call |-> c, at |-> now]}
    /\ UNCHANGED <<now, mode, killSwitch, failures, tripped, reached, crashes>>

Start(c) ==
    /\ Permitted(c)
    /\ \E s \in Approved(c) :
         /\ approval' = s.approval
         /\ IF mode = "unaudited"
            THEN /\ log' = s.log /\ Counted(s)
                 /\ Goes(c, "refused")
                 /\ UNCHANGED <<window, started>>
            ELSE \E p \in AppendRecord(s.log, "MUTATION_PENDING", "allow", c) :
              /\ s.ok \/ p.ok
              /\ \/ /\ ~p.ok
                    /\ log' = p.log /\ Counted(p)
                    /\ Goes(c, "refused")
                    /\ UNCHANGED <<window, started>>
                 \/ /\ p.ok /\ Full(c)
                    /\ \E d \in AppendRecord(p.log, "DECISION_DENIED", "DENY_RATE_LIMIT", c) :
                         /\ s.ok \/ d.ok
                         /\ log' = d.log /\ Counted([ok |-> s.ok /\ d.ok])
                    /\ Goes(c, "limited")
                    /\ window' = [w \in {2, 3} |-> IF w \in WindowOf(c) THEN Live(window[w])
                                                   ELSE window[w]]
                    /\ UNCHANGED started
                 \/ /\ p.ok /\ ~Full(c)
                    /\ log' = p.log /\ Counted(s)
                    /\ Goes(c, "executing")
                    /\ window' = Acquired(c)
                    /\ started' = started \cup {[call |-> c, at |-> now]}
    /\ UNCHANGED <<now, mode, killSwitch, failures, tripped, reached, crashes>>

\* The tool function sends its write.
Send(c) ==
    /\ Serving /\ pc[c] = "executing" /\ c \notin reached
    /\ reached' = reached \cup {c}
    /\ UNCHANGED <<now, mode, killSwitch, log, memory, pc, approval, started, faults, crashes>>

\* record_result: a success clears the count and leaves a tripped breaker tripped.
Trips(c, success) == Tier[c] >= 2 /\ ~success /\ failures + 1 >= Threshold /\ ~tripped

\* Two slips: a success takes one failure back, or closes the breaker.
RecordResultLeaky(c, success) ==
    /\ failures' = IF Tier[c] < 2 THEN failures ELSE IF success THEN failures - 1 ELSE failures + 1
    /\ tripped' = (tripped \/ Trips(c, success))

RecordResultClosing(c, success) ==
    /\ failures' = IF Tier[c] < 2 THEN failures ELSE IF success THEN 0 ELSE failures + 1
    /\ tripped' = (~success /\ (tripped \/ Trips(c, success)))

RecordResult(c, success) ==
    /\ failures' = IF Tier[c] < 2 THEN failures ELSE IF success THEN 0 ELSE failures + 1
    /\ tripped' = (tripped \/ Trips(c, success))

\* A slip: a terminal record that could not be written is tried again.
FinishRetrying(c, success) ==
    /\ Serving /\ pc[c] = "executing" /\ (success => c \in reached)
    /\ \E a \in Audit(log, IF success THEN "MUTATION_COMMITTED" ELSE "MUTATION_FAILED", "allow", c) :
         /\ log' = a.log /\ Counted(a)
         /\ IF a.ok THEN RecordResult(c, success) /\ Goes(c, IF success THEN "committed" ELSE "failed")
            ELSE UNCHANGED <<failures, tripped, pc>>
    /\ UNCHANGED <<now, mode, killSwitch, window, approval, reached, started, crashes>>

\* Step 11, _finish: the terminal record and the breaker's are best effort.  A
\* call can fail with its write sent: the answer or the read-back was lost.
Finish(c, success) ==
    /\ Serving /\ pc[c] = "executing" /\ (success => c \in reached)
    /\ \E a \in Audit(log, IF success THEN "MUTATION_COMMITTED" ELSE "MUTATION_FAILED", "allow", c) :
         IF Trips(c, success)
         THEN \E b \in Audit(a.log, "BREAKER_TRIPPED", "allow", c) :
                /\ a.ok \/ b.ok
                /\ log' = b.log /\ Counted([ok |-> a.ok /\ b.ok])
         ELSE log' = a.log /\ Counted(a)
    /\ RecordResult(c, success)
    /\ Goes(c, IF success THEN "committed" ELSE "failed")
    /\ UNCHANGED <<now, mode, killSwitch, window, approval, reached, started, crashes>>

\* The client cancels the call: CancelledError passes every handler of step 10.
Cancel(c) ==
    /\ Serving /\ pc[c] \in {"classifying", "executing"}
    /\ Goes(c, "cancelled")
    /\ UNCHANGED <<now, mode, killSwitch, log, memory, approval, reached, started, faults, crashes>>

(* ---------------------------- surroundings ----------------------------- *)

\* The human approves; ApprovalLifecycle is what the broker makes of it.
Approve(r) ==
    /\ approval[r] = "pending"
    /\ approval' = [approval EXCEPT ![r] = "approved"]
    /\ UNCHANGED <<now, mode, killSwitch, log, memory, pc, reached, started, faults, crashes>>

ToggleKillSwitch ==
    /\ killSwitch' = ~killSwitch
    /\ UNCHANGED <<now, mode, log, memory, pc, approval, reached, started, faults, crashes>>

Tick ==
    /\ now < MaxTime
    /\ now' = now + 1
    /\ UNCHANGED <<mode, killSwitch, log, memory, pc, approval, reached, started, faults, crashes>>

Dies ==
    /\ crashes < MaxCrashes
    /\ crashes' = crashes + 1
    /\ mode' = "down"
    /\ pc' = [c \in Calls |-> IF pc[c] \in {"classifying", "executing"} THEN "lost" ELSE pc[c]]

\* The process dies between two steps of the event loop, with every call it served.
Crash ==
    /\ Serving /\ Dies
    /\ UNCHANGED <<now, killSwitch, log, memory, approval, reached, started, faults>>

\* It dies within the step that starts c: its approval is spent, and MUTATION_PENDING
\* may be written, but no slot is taken and no function started.
CrashStarting(c) ==
    /\ Permitted(c) /\ Dies
    /\ \E s \in Approved(c) :
         /\ s.ok
         /\ approval' = s.approval
         /\ \/ log' = s.log
            \/ /\ mode = "serving"
               /\ \E p \in AppendRecord(s.log, "MUTATION_PENDING", "allow", c) :
                    p.ok /\ log' = p.log
    /\ UNCHANGED <<now, killSwitch, memory, reached, started, faults>>

\* Runtime.build, at the first start and after a crash: the log is opened, the windows are
\* rebuilt from it and the breaker starts afresh.  A log that cannot be opened stops a
\* server that requires it; the other one goes on without a log.
Restart ==
    /\ mode = "down"
    /\ \/ mode' = "serving" /\ log' = [file |-> log.file, seq |-> ChainTail(log.file).seq,
                                       prev |-> ChainTail(log.file).prev]
       \/ ~AuditRequired /\ mode' = "unaudited" /\ UNCHANGED log
    /\ window' = [w \in {2, 3} |->
                    {s \in Charged(log.file) : w \in WindowOf(s.call) /\ now - s.at <= Window}]
    /\ failures' = 0
    /\ tripped' = FALSE
    /\ UNCHANGED <<now, killSwitch, pc, approval, reached, started, faults, crashes>>

Steps(c) ==
    \/ Classify(c) \/ ClassifyFails(c) \/ Refuse(c) \/ AskApproval(c)
    \/ Start(c) \/ CrashStarting(c)
    \/ Send(c) \/ Finish(c, TRUE) \/ Finish(c, FALSE) \/ Cancel(c)

Surroundings ==
    \/ \E r \in Requests : Approve(r)
    \/ ToggleKillSwitch \/ Tick \/ Crash \/ Restart

Next == (\E c \in Calls : Steps(c)) \/ Surroundings

Spec == Init /\ [][Next]_vars

--------------------------------------------------------------------------------

\* The hourly cap holds over any hour and over any restart: among the calls of a
\* window's tier, no more than Cap were started within one Window, although the
\* terminal records are best effort and calls are cancelled or lost.
HourlyCap ==
    \A w \in {2, 3} : \A t \in 0..now :
        Cardinality({s \in started : w \in WindowOf(s.call) /\ s.at \in (t - Window + 1)..t})
            <= Cap[w]

\* No write is sent without a MUTATION_PENDING record that can be read back.
EveryWriteIsLogged ==
    \A c \in reached : \E i \in 1..Len(log.file) :
        /\ log.file[i].parses
        /\ log.file[i].text.call = c /\ log.file[i].text.event = "MUTATION_PENDING"

\* A call leaves one story in the log: at most one PENDING, settled at most once
\* and only after it, by a COMMITTED only if the write was sent.
OneStory ==
    LET Rec(i) == log.file[i].text
    IN  \A i, j \in Legible(log.file) : Rec(i).call = Rec(j).call =>
          /\ Rec(i).event = "MUTATION_PENDING" /\ Rec(j).event = "MUTATION_PENDING" => i = j
          /\ Rec(i).event = "MUTATION_PENDING" /\ Settles(Rec(j)) => i < j
          /\ Settles(Rec(i)) /\ Settles(Rec(j)) => i = j
          /\ Rec(i).event = "MUTATION_COMMITTED" => Rec(i).call \in reached

\* A mutation that started and is over has its second record, COMMITTED or FAILED, as the
\* design says of every mutation (a crash aside); a cancelled call has none.
SettledInLog ==
    \A s \in started : pc[s.call] \notin {"executing", "lost"} =>
        \E i \in 1..Len(log.file) :
            /\ log.file[i].parses
            /\ log.file[i].text.call = s.call /\ log.file[i].text.event \in Terminal

\* The log verifies from its first line to its last, across restarts.
ChainVerifies == ChainIntact(log.file)

\* As long as no append failed, a call that was refused, by the cap or otherwise, takes no
\* slot: not now, and not after a restart.
RefusalsAreFree ==
    faults = 0 => \A w \in {2, 3} : \A s \in window[w] : pc[s.call] \notin {"refused", "asked", "limited"}

\* One approval lets one call write, whatever is retried after a crash.
ApprovalSpentOnce ==
    \A c, d \in {e \in reached : Verdict[e] = "require_approval"} :
        Reference[c] = Reference[d] => c = d

\* Once tripped, the breaker lets no call of Tier 2 or above start until the
\* server restarts; a late success of a call in flight does not reset it.
BreakerHolds ==
    [][ tripped /\ mode # "down" =>
          /\ mode' # "down" => tripped'
          /\ \A c \in Calls : Tier[c] >= 2 /\ pc'[c] = "executing" => pc[c] = "executing" ]_vars

\* No call starts while the kill switch is there, even if it arrived before.
KillSwitchHolds ==
    [][ killSwitch => \A c \in Calls :
          Tier[c] >= 1 /\ pc'[c] = "executing" => pc[c] = "executing" ]_vars

\* What the pipeline takes for granted of the broker is its lifecycle.
Lifecycle == INSTANCE ApprovalLifecycle WITH
    status <- approval,
    used <- [r \in Requests |-> IF approval[r] = "consumed" THEN 1 ELSE 0]
LifecycleSpec == Lifecycle!Spec
================================================================================
