------------------------------- MODULE MergeGate -------------------------------
(***************************************************************************)
(* What the merge gate makes of a snapshot of a pull request                *)
(* (automation/review_loop/codex.py, evaluate.py, ledger.py).  The commits   *)
(* are "head" and "other"; an artefact carries its author's account, the App *)
(* it was written through, the pull request its own URL names, and what its  *)
(* body says, already told apart: the commit of a receipt, a state block.    *)
(***************************************************************************)
EXTENDS Naturals, Sequences, FiniteSets, Values

\* A slip: any account of that name.
IsBotByName(user, who) == user.login = who

\* is_bot_user: id, type and login must all match.
IsBot(user, who) == user = [id |-> who, type |-> "Bot", login |-> who]

\* is_app_issue_comment: the acting App is compared wherever GitHub names it.
IsAppComment(c, who, requireApp) ==
    /\ IsBot(c.user, who)
    /\ IF c.app = None THEN ~requireApp ELSE c.app = who

BelongsToPr(item) == item.pr = "this"

NoReview == [commit |-> None, status |-> None, any |-> None, unresolved |-> None]

--------------------------------------------------------------------------------
(* assess: what Codex has said about the head.  s is the snapshot. *)

CodexReviews(s)  == {r \in s.reviews : IsBot(r.user, "codex") /\ BelongsToPr(r)}
CodexComments(s) == {c \in s.comments : IsAppComment(c, "codex", TRUE) /\ BelongsToPr(c)}
CodexInline(s)   == {c \in s.inline : IsBot(c.user, "codex") /\ BelongsToPr(c) /\ ~c.reply}

States(s)   == {c \in CodexComments(s) : c.state # None}
Receipts(s) == {r \in CodexReviews(s) : r.receipt}

HeadReviews(s)   == {r \in Receipts(s) : r.commit = "head"}
CleanReceipts(s) == {c \in CodexComments(s) : c.receipt /\ c.names = "head"}

\* A receipt about the head that names another commit than GitHub recorded for it, or none.
Inconsistent(s) ==
    \/ \E r \in Receipts(s) : (r.commit = "head" \/ r.names = "head") /\ r.names # r.commit
    \/ \E c \in CodexComments(s) : c.receipt /\ c.names = None

Thread(s, c) == IF c.id \in DOMAIN s.threads THEN s.threads[c.id] ELSE None

Open(s) == {c \in CodexInline(s) : Thread(s, c) = "open"}

\* _written_on: by the review that wrote it, never by where GitHub shows it now.
WrittenOn(s, c) ==
    LET owners == {r \in CodexReviews(s) : r.id = c.review}
    IN  IF owners # {} THEN (CHOOSE r \in owners : TRUE).commit ELSE c.original

OnHead(s) == {c \in Open(s) : WrittenOn(s, c) = "head"}

OfReview(s, r) == {c \in CodexInline(s) : c.review = r.id}

\* A slip: Codex's own count of what is open is not compared.
UntoldByThreads(s, code) ==
    \/ HeadReviews(s) = {} /\ CleanReceipts(s) = {}
    \/ \E c \in CodexInline(s) : Thread(s, c) = None
    \/ \E r \in HeadReviews(s) : OfReview(s, r) = {}
    \/ code.any = None \/ code.unresolved = None

\* The review is completed; are the findings it reports all here?
Untold(s, code) ==
    \/ HeadReviews(s) = {} /\ CleanReceipts(s) = {}
    \/ \E c \in CodexInline(s) : Thread(s, c) = None
    \/ \E r \in HeadReviews(s) : OfReview(s, r) = {}
    \/ code.any = TRUE /\ \A r \in HeadReviews(s) : OfReview(s, r) = {}
    \/ code.any = None \/ code.unresolved = None
    \/ code.unresolved = TRUE /\ Open(s) = {}

\* Binding only when the security review ran on the head.
SecurityClean(state) ==
    state.security.commit = "head" =>
        state.security.status = "completed" /\ state.security.unresolved = FALSE

Verdict(status, secure) == [status |-> status, secure |-> secure]

\* Every doubt fails closed.  Only the verdicts on a completed review speak of its security.
assess(s) ==
    IF \E c \in States(s) : c.state = Malformed THEN Verdict("incomplete", TRUE)
    ELSE IF Cardinality(States(s)) > 1 \/ Inconsistent(s) THEN Verdict("incomplete", TRUE)
    ELSE IF States(s) = {}
    THEN Verdict(IF HeadReviews(s) = {} /\ CleanReceipts(s) = {} THEN "missing" ELSE "pending", TRUE)
    ELSE LET state == (CHOOSE c \in States(s) : TRUE).state
             code  == state.code
         IN  IF code.commit # "head"
             THEN Verdict(IF code.commit = None THEN "missing" ELSE "stale", TRUE)
             ELSE IF code.status # "completed" THEN Verdict("pending", TRUE)
             ELSE IF Untold(s, code) THEN Verdict("incomplete", TRUE)
             ELSE Verdict(IF Open(s) # {} THEN "findings" ELSE "clean", SecurityClean(state))

--------------------------------------------------------------------------------
(* CI: the newest run of the workflow for the head decides. *)

TrustedRuns(s) == {r \in s.ciRuns : r.commit = "head" /\ r.trusted}

\* A slip: the order of creation, which a rerun keeps.
NewerById(a, b) == a.id > b.id

Newer(a, b) ==
    \/ a.number > b.number
    \/ a.number = b.number /\ a.attempt > b.attempt
    \/ a.number = b.number /\ a.attempt = b.attempt /\ a.id > b.id

latest_ci_run(s) == CHOOSE r \in TrustedRuns(s) : \A q \in TrustedRuns(s) \ {r} : Newer(r, q)

\* required: the names of REQUIRED_CI_JOBS; jobs: name to [commit, conclusion].
assess_ci(s, required) ==
    IF TrustedRuns(s) = {} THEN "missing"
    ELSE LET run == latest_ci_run(s)
         IN  IF run.status # "completed" THEN "pending"
             ELSE IF /\ run.conclusion = "success"
                     /\ \A j \in required :
                          /\ j \in DOMAIN run.jobs
                          /\ run.jobs[j].commit \in {None, "head"}
                          /\ run.jobs[j].conclusion = "success"
             THEN "success" ELSE "failed"

--------------------------------------------------------------------------------
(* Eligibility and the other requirements. *)

\* pr: what the pull request is; an approved branch matches APPROVED_BRANCH.
eligible(pr) ==
    /\ pr.state = "open" /\ ~pr.draft
    /\ pr.base = "main" /\ pr.baseHere /\ pr.headHere
    /\ pr.branch = "approved"
    /\ pr.author \in {"OWNER", "MEMBER", "COLLABORATOR"}

\* sensitive_files: None when the list is not complete.
sensitive_files(s) ==
    IF s.pr.changed # Len(s.files) THEN None
    ELSE {i \in 1..Len(s.files) : s.files[i].now = "sensitive" \/ s.files[i].before = "sensitive"}

\* A slip: an approval of an earlier head counts.
ApprovedOnce(s) == \E c \in s.comments : c.user.type = "User" /\ c.association = "OWNER" /\ c.app = None

\* An owner's own comment, for this very commit.
sensitive_approved(s) ==
    \E c \in s.comments : /\ c.user.type = "User" /\ c.association = "OWNER" /\ c.app = None
                          /\ "head" \in c.approves

security_ok(s, codex) ==
    /\ "halted" \notin s.pr.labels
    /\ sensitive_files(s) # None
    /\ sensitive_files(s) # {} => sensitive_approved(s)
    /\ codex.secure

gate(s, required) ==
    /\ eligible(s.pr)
    /\ assess_ci(s, required) = "success"
    /\ assess(s).status = "clean"
    /\ security_ok(s, assess(s))
================================================================================
