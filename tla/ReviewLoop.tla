------------------------------ MODULE ReviewLoop -------------------------------
(***************************************************************************)
(* The automated fix loop of one pull request (automation/review_loop and   *)
(* .github/workflows/review-loop.yml): workflow runs that triage a review,   *)
(* claim the head commit in the comment ledger, fix, push and report, while  *)
(* people push, label and close.  Each job of a run is a process of its own  *)
(* that GitHub starts when its predecessor ends; it can die between any two  *)
(* of its requests.  Runs of one concurrency group follow each other, but an *)
(* event that names no pull request puts its run in a group of its own       *)
(* ("unknown"), so two runs of a pull request can overlap.                   *)
(* Commits are numbered in the order they become the head of the branch.     *)
(***************************************************************************)
EXTENDS Integers, Sequences, FiniteSets

CONSTANTS
    Runs,          \* workflow runs
    MaxAttempts,   \* policy.MAX_FIX_ATTEMPTS
    MaxPushes,     \* bound on the commits that people push
    MaxFaults,     \* bound on the jobs that die and the reads that lag
    MaxReleases    \* bound on the times a maintainer removes the halted label

ASSUME ReviewLoopAssumption ==
    /\ MaxAttempts \in Nat \ {0} /\ MaxPushes \in Nat
    /\ MaxFaults \in Nat /\ MaxReleases \in Nat

VARIABLES
    head,          \* the head commit of the branch
    parent,        \* the commits the loop pushed, with the commit each was made from
    review,        \* what assess() says of each commit, as far as plan_loop tells it apart
    halted,        \* the label review-loop:halted
    standing,      \* the pull request is "open", labelled review-loop:"off", or "closed"
    ledger,        \* the claim comments, in the order of their ids
    reports,       \* the report comments, in order
    run,           \* what each run knows
    faults, releases

vars == <<head, parent, review, halted, standing, ledger, reports, run, faults, releases>>

world == <<head, parent, review, halted, standing, ledger, reports, releases>>

\* The first head, what people push, and one commit for each attempt.
MaxHead == 1 + MaxPushes + MaxAttempts

Commits == 1..MaxHead

\* "quiet" stands for clean, pending, stale and missing: plan_loop acts on none of them.
Reviews == {"quiet", "incomplete", "findings", "too-many", "old-threads"}

Attempt(h) == <<"attempt", h>>
Exhausted  == <<"exhausted", 0>>

Keys == ({"attempt", "ci-failed", "incomplete", "too-many", "old-threads"} \X Commits) \cup {Exhausted}

\* OUTCOMES: whether an outcome comes with the halted label.  "unfixed" stands for
\* no-change, needs-human, claude-failed, policy-failed and tests-failed.
Halts ==
    [o \in {"unfixed", "push-refused", "rereview-failed", "halt", "pushed", "report"} |->
       o \notin {"pushed", "report"}]

ClaimJob  == {"claim", "post", "verify"}
ReportJob == {"report", "tell", "label"}

Live == {"plan", "fix", "prepush", "push", "rereview"} \cup ClaimJob \cup ReportJob

Died == {"claim died", "report died"}

\* A run that has not begun.
Fresh ==
    [pc |-> "idle", group |-> "pr", ciFailed |-> 0, head |-> 0, stopped |-> FALSE,
     attempt |-> 0, comment |-> 0, won |-> FALSE, halts |-> FALSE, key |-> Exhausted]

TypeOK ==
    /\ head \in Commits
    /\ parent \in UNION {[S -> Commits] : S \in SUBSET (2..head)}
    /\ review \in [Commits -> Reviews]
    /\ halted \in BOOLEAN /\ standing \in {"open", "off", "closed"}
    /\ ledger \in Seq([head : Commits, attempt : 1..MaxAttempts])
    /\ reports \in Seq([key : Keys, halts : BOOLEAN])
    /\ run \in [Runs -> [pc : Live \cup Died \cup {"idle", "done"},
                         group : {"pr", "unknown"}, ciFailed : 0..MaxHead, head : 0..MaxHead,
                         stopped : BOOLEAN, attempt : 0..MaxAttempts, comment : Nat,
                         won : BOOLEAN, halts : BOOLEAN, key : Keys]]
    /\ faults \in 0..MaxFaults /\ releases \in 0..MaxReleases

Init ==
    /\ head = 1
    /\ parent = [h \in {} |-> 0]
    /\ review = [h \in Commits |-> "quiet"]
    /\ halted = FALSE /\ standing = "open"
    /\ ledger = <<>>
    /\ reports = <<>>
    /\ run = [r \in Runs |-> Fresh]
    /\ faults = 0 /\ releases = 0

--------------------------------------------------------------------------------
(* The ledger: ledger.py. *)

\* The claims for h; the first of them counts.
ClaimsFor(l, h) == {i \in DOMAIN l : l[i].head = h}

FirstClaim(l, h) == CHOOSE i \in ClaimsFor(l, h) : \A j \in ClaimsFor(l, h) : i <= j

ClaimedHeads(l) == {l[i].head : i \in DOMAIN l}

\* Where h stands among the distinct claimed heads, in the order of their first claims.
Position(l, h) == Cardinality({l[i].head : i \in 1..FirstClaim(l, h)})

\* A slip: the earliest claim for a head is not looked for.
OwnsAny(l, h, comment) == ClaimsFor(l, h) # {} /\ Position(l, h) <= MaxAttempts

\* A slip: the limit is checked before the claim is posted, and not again.
OwnsBeyond(l, h, comment) == ClaimsFor(l, h) # {} /\ FirstClaim(l, h) = comment

\* verify_claim: the earliest claim for the head is ours, and not beyond the limit.
Owns(l, h, comment) ==
    /\ ClaimsFor(l, h) # {}
    /\ FirstClaim(l, h) = comment
    /\ Position(l, h) <= MaxAttempts

\* A slip: any report about the commit counts.
ReportedHead(key) == \E i \in DOMAIN reports : reports[i].key[2] = key[2]

Reported(key) == \E i \in DOMAIN reports : reports[i].key = key

--------------------------------------------------------------------------------
(* Triage: snapshot.take, evaluate.plan_loop, cmd_triage. *)

\* A slip: only the opt-out label is looked at.
LabelledOff == standing = "off"

Labelled == halted \/ standing = "off"

\* Everything that keeps plan_loop from looking further: not eligible, or labelled.
Stopped == standing = "closed" \/ Labelled

\* An event starts a run, which reads the pull request first: its head and its labels.
\* A CI failure names the commit it happened on.  Runs of one group do not overlap.
Begin(r) ==
    /\ run[r].pc = "idle"
    /\ \E g \in {"pr", "unknown"}, c \in {0, head} :
         /\ \A s \in Runs : run[s].pc \in Live => run[s].group # g
         /\ run' = [run EXCEPT ![r] = [Fresh EXCEPT !.pc = "plan", !.group = g, !.ciFailed = c,
                                                    !.head = head, !.stopped = Stopped]]
    /\ UNCHANGED <<world, faults>>

\* What a run keeps when its triage is over, and when all of it is.
Goes(r, pc) == [run[r] EXCEPT !.pc = pc, !.ciFailed = 0, !.stopped = FALSE]

End(r) == run' = [run EXCEPT ![r] = [Goes(r, "done") EXCEPT !.halts = FALSE, !.key = Exhausted]]

\* _once: a condition is reported once for its key.
Once(r, key, action) ==
    IF Reported(key) THEN End(r)
    ELSE run' = [run EXCEPT ![r] = [Goes(r, "report") EXCEPT !.halts = Halts[action], !.key = key]]

Fix(r) ==
    IF run[r].head \in ClaimedHeads(ledger) THEN End(r)
    ELSE IF Cardinality(ClaimedHeads(ledger)) >= MaxAttempts THEN Once(r, Exhausted, "halt")
    ELSE run' = [run EXCEPT ![r] = Goes(r, "claim")]

\* The lists are read, and the head once more: a moved head ends the run.
Plan(r) ==
    /\ run[r].pc = "plan"
    /\ LET h == run[r].head  c == run[r].ciFailed
       IN  IF head # h \/ run[r].stopped \/ (c # 0 /\ ~(c = h /\ h \in DOMAIN parent)) THEN End(r)
           ELSE IF c # 0 THEN Once(r, <<"ci-failed", h>>, "halt")
           ELSE CASE review[h] = "incomplete"  -> Once(r, <<"incomplete", h>>, "report")
                  [] review[h] = "too-many"    -> Once(r, <<"too-many", h>>, "halt")
                  [] review[h] = "old-threads" -> Once(r, <<"old-threads", h>>, "report")
                  [] review[h] = "findings"    -> Fix(r)
                  [] review[h] = "quiet"       -> End(r)
    /\ UNCHANGED <<world, faults>>

--------------------------------------------------------------------------------
(* The claim job: cmd_claim. *)

ReadClaims(r) ==
    /\ run[r].pc = "claim"
    /\ IF \/ head # run[r].head \/ Labelled
          \/ run[r].head \in ClaimedHeads(ledger)
          \/ Cardinality(ClaimedHeads(ledger)) >= MaxAttempts
       THEN End(r)
       ELSE run' = [run EXCEPT ![r].pc = "post",
                               ![r].attempt = Cardinality(ClaimedHeads(ledger)) + 1]
    /\ UNCHANGED <<world, faults>>

PostClaim(r) ==
    /\ run[r].pc = "post"
    /\ ledger' = Append(ledger, [head |-> run[r].head, attempt |-> run[r].attempt])
    /\ run' = [run EXCEPT ![r].pc = "verify", ![r].comment = Len(ledger) + 1]
    /\ UNCHANGED <<head, parent, review, halted, standing, reports, releases, faults>>

\* A slip: the claim must be the last one of all.
VerifyLastClaim(r) ==
    /\ run[r].pc = "verify"
    /\ IF run[r].comment = Len(ledger) /\ Owns(ledger, run[r].head, run[r].comment)
       THEN run' = [run EXCEPT ![r].pc = "fix", ![r].won = TRUE,
                               ![r].attempt = Position(ledger, run[r].head),
                               ![r].key = Attempt(run[r].head)]
       ELSE End(r)
    /\ UNCHANGED <<world, faults>>

\* Whoever owns the claim goes on, under the number its head has in the ledger.
VerifyClaim(r) ==
    /\ run[r].pc = "verify"
    /\ IF Owns(ledger, run[r].head, run[r].comment)
       THEN run' = [run EXCEPT ![r].pc = "fix", ![r].won = TRUE,
                               ![r].attempt = Position(ledger, run[r].head),
                               ![r].key = Attempt(run[r].head)]
       ELSE End(r)
    /\ UNCHANGED <<world, faults>>

\* Comments become visible in the order of their ids; ours may not be there yet.
VerifyTooEarly(r) ==
    /\ run[r].pc = "verify"
    /\ faults < MaxFaults
    /\ End(r)
    /\ faults' = faults + 1
    /\ UNCHANGED world

--------------------------------------------------------------------------------
(* The jobs after a won claim. *)

ToReport(r, outcome) == run' = [run EXCEPT ![r].pc = "report", ![r].halts = Halts[outcome]]

\* fix and verify, whatever the model and the tests made of the findings.
FixAndVerify(r) ==
    /\ run[r].pc = "fix"
    /\ \/ run' = [run EXCEPT ![r].pc = "prepush"]
       \/ ToReport(r, "unfixed")
    /\ UNCHANGED <<world, faults>>

\* cmd_prepush: same head, still eligible, still our attempt.
Prepush(r) ==
    /\ run[r].pc = "prepush"
    /\ IF \/ head # run[r].head \/ Stopped
          \/ ledger[FirstClaim(ledger, run[r].head)].attempt # run[r].attempt
       THEN ToReport(r, "push-refused")
       ELSE run' = [run EXCEPT ![r].pc = "push"]
    /\ UNCHANGED <<world, faults>>

\* A slip: a forced push.
PushForced(r) ==
    /\ run[r].pc = "push"
    /\ head < MaxHead
    /\ head' = head + 1
    /\ parent' = [c \in DOMAIN parent \cup {head + 1} |->
                     IF c = head + 1 THEN run[r].head ELSE parent[c]]
    /\ run' = [run EXCEPT ![r].pc = "rereview"]
    /\ UNCHANGED <<review, halted, standing, ledger, reports, releases, faults>>

\* A plain push of a commit made on the reviewed head.
Push(r) ==
    /\ run[r].pc = "push"
    /\ head = run[r].head
    /\ head < MaxHead
    /\ head' = head + 1
    /\ parent' = [c \in DOMAIN parent \cup {head + 1} |->
                     IF c = head + 1 THEN run[r].head ELSE parent[c]]
    /\ run' = [run EXCEPT ![r].pc = "rereview"]
    /\ UNCHANGED <<review, halted, standing, ledger, reports, releases, faults>>

\* GitHub refuses it if the branch moved, and may refuse it for reasons of its own.
PushRefused(r) ==
    /\ run[r].pc = "push"
    /\ ToReport(r, "push-refused")
    /\ UNCHANGED <<world, faults>>

\* cmd_rereview, or nothing to ask in manual mode.
Rereview(r) ==
    /\ run[r].pc = "rereview"
    /\ \/ ToReport(r, "pushed")
       \/ ToReport(r, "rereview-failed")
    /\ UNCHANGED <<world, faults>>

--------------------------------------------------------------------------------
(* The report job: cmd_report. *)

\* A slip: the report is posted whether or not its key was.
ReadNoReports(r) ==
    /\ run[r].pc = "report"
    /\ run' = [run EXCEPT ![r].pc = "tell"]
    /\ UNCHANGED <<world, faults>>

ReadReports(r) ==
    /\ run[r].pc = "report"
    /\ IF Reported(run[r].key) THEN End(r)
       ELSE run' = [run EXCEPT ![r].pc = "tell"]
    /\ UNCHANGED <<world, faults>>

\* A slip: the label is left to the next run.
TellOnly(r) ==
    /\ run[r].pc = "tell"
    /\ reports' = Append(reports, [key |-> run[r].key, halts |-> run[r].halts])
    /\ End(r)
    /\ UNCHANGED <<head, parent, review, halted, standing, ledger, releases, faults>>

\* The comment says that the label was added; the label comes after it.
Tell(r) ==
    /\ run[r].pc = "tell"
    /\ reports' = Append(reports, [key |-> run[r].key, halts |-> run[r].halts])
    /\ IF run[r].halts THEN run' = [run EXCEPT ![r].pc = "label"] ELSE End(r)
    /\ UNCHANGED <<head, parent, review, halted, standing, ledger, releases, faults>>

Label(r) ==
    /\ run[r].pc = "label"
    /\ halted' = TRUE
    /\ End(r)
    /\ UNCHANGED <<head, parent, review, standing, ledger, reports, releases, faults>>

--------------------------------------------------------------------------------
(* Jobs that die, and people. *)

\* A run ends with its claim or its report job: nothing more is reported.  After a
\* lost triage job the next event is as good as a rerun.
JobDies(r) ==
    /\ run[r].pc \in {"plan"} \cup ClaimJob \cup ReportJob
    /\ faults < MaxFaults
    /\ faults' = faults + 1
    /\ run' = [run EXCEPT ![r] = IF @.pc = "plan" THEN Fresh
                                 ELSE [@ EXCEPT !.pc = IF run[r].pc \in ClaimJob
                                                       THEN "claim died" ELSE "report died"]]
    /\ UNCHANGED world

\* The push job is lost after its push, and with it the sha it would have told.
PushJobDies(r) ==
    /\ run[r].pc = "rereview"
    /\ faults < MaxFaults
    /\ faults' = faults + 1
    /\ ToReport(r, "push-refused")
    /\ UNCHANGED world

\* A maintainer runs the failed job again.
Rerun(r) ==
    /\ run[r].pc \in Died
    /\ \A s \in Runs : run[s].pc \in Live => run[s].group # run[r].group
    /\ run' = [run EXCEPT ![r].pc = IF @ = "claim died" THEN "claim" ELSE "report"]
    /\ UNCHANGED <<world, faults>>

HumanPush ==
    /\ Cardinality((2..head) \ DOMAIN parent) < MaxPushes
    /\ head' = head + 1
    /\ UNCHANGED <<parent, review, halted, standing, ledger, reports, run, faults, releases>>

\* Codex reviews the head; people resolve what it found.
ReviewArrives ==
    /\ \E v \in Reviews : /\ review[head] = "quiet" \/ v = "quiet"
                          /\ review' = [review EXCEPT ![head] = v]
    /\ UNCHANGED <<head, parent, halted, standing, ledger, reports, run, faults, releases>>

\* Somebody labels the pull request off, closes it or makes it a draft.
Withdraw ==
    /\ standing = "open"
    /\ standing' \in {"off", "closed"}
    /\ UNCHANGED <<head, parent, review, halted, ledger, reports, run, faults, releases>>

Release ==
    /\ halted /\ releases < MaxReleases
    /\ halted' = FALSE
    /\ releases' = releases + 1
    /\ UNCHANGED <<head, parent, review, standing, ledger, reports, run, faults>>

--------------------------------------------------------------------------------
RunStep(r) ==
    \/ Plan(r)
    \/ ReadClaims(r) \/ PostClaim(r) \/ VerifyClaim(r)
    \/ FixAndVerify(r) \/ Prepush(r) \/ Push(r) \/ PushRefused(r) \/ Rereview(r)
    \/ ReadReports(r) \/ Tell(r) \/ Label(r)

Next ==
    \/ \E r \in Runs : \/ Begin(r) \/ RunStep(r)
                       \/ VerifyTooEarly(r) \/ JobDies(r) \/ PushJobDies(r) \/ Rerun(r)
    \/ HumanPush \/ ReviewArrives \/ Withdraw \/ Release

Spec == Init /\ [][Next]_vars

--------------------------------------------------------------------------------
(* What the loop promises. *)

\* A head commit is fixed by one run only, and no more heads than MAX_FIX_ATTEMPTS, also when
\* two runs claim one head, or the last attempt for two heads, at the same time (ledger.py, "at
\* most one attempt per head commit", and verify_claim's position).
OneWinner ==
    LET winners == {r \in Runs : run[r].won}
    IN  /\ \A r, s \in winners : run[r].head = run[s].head => r = s
        /\ Cardinality({run[r].head : r \in winners}) <= MaxAttempts

\* What the loop pushes sits on the commit it was made for, which was the head
\* until then: a commit that somebody pushed meanwhile is never built over or lost
\* (cmd_prepush and the plain push), and only the owner of the claim pushes.
HumanWorkStands ==
    \A c \in DOMAIN parent :
      /\ parent[c] = c - 1
      /\ \E r \in Runs : run[r].won /\ run[r].head = parent[c]

OneGroup == \A r \in Runs : run[r].pc # "idle" => run[r].group = "pr"

\* Where no two runs overlap, a condition is reported once, however often its
\* event comes and whichever job is run again (evaluate._once, cmd_report).  And a pull
\* request that was told that the loop halted is halted, unless the report job died between
\* the two or a maintainer removed the label.
ReportedOnce ==
    /\ OneGroup => \A i, j \in DOMAIN reports : reports[i].key = reports[j].key => i = j
    /\ (\E i \in DOMAIN reports : reports[i].halts) /\ faults = 0 /\ releases = 0 =>
         halted \/ \E r \in Runs : run[r].pc = "label"

\* Where no two runs overlap, a halted loop pushes nothing.
HaltHolds == [][halted /\ OneGroup => parent' = parent]_vars

Told(h) == \E i \in DOMAIN reports : reports[i].key = Attempt(h)

\* Whoever won a claim and ended said what became of it; only a report job that died, and was
\* not run again, leaves a won claim unreported.  And no claim is left behind in silence: its
\* run is at work, its end was reported, it lost to an earlier claim or to the limit, or a job
\* died or read too early.
ClaimIsSettled ==
    \A r \in Runs :
      /\ run[r].won /\ run[r].pc = "done" => Told(run[r].head)
      /\ run[r].comment # 0 /\ run[r].pc = "done" =>
           \/ Told(run[r].head)
           \/ ~Owns(ledger, run[r].head, run[r].comment)
           \/ faults > 0
================================================================================
