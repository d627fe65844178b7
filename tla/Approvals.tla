------------------------------- MODULE Approvals -------------------------------
(***************************************************************************)
(* The out-of-band approval broker (security/approvals.py) and the          *)
(* approver's command line (cli_approve.py).  They share no memory: one      *)
(* directory of files per deployment is all they have in common.  Server    *)
(* handlers are the tool calls that carry an approval_id; they may belong   *)
(* to one process or to several that share the directory, so a handler's    *)
(* checks and its rename are two steps.  An approver's session is one run   *)
(* of qradar-soar-approve; the human's answer comes any time after the      *)
(* session looked at the request.                                           *)
(*                                                                          *)
(* A call stands for a tool name with its arguments, that is for the value  *)
(* of canonical_args_hash.  A grant stands for a signed approved.json; its  *)
(* signature verifies exactly when the approver holds the key whose public  *)
(* half the server was given (Trusted).                                     *)
(***************************************************************************)
EXTENDS Naturals

CONSTANTS
    Requests,      \* approval references
    Calls,         \* (tool, arguments) pairs, as canonical_args_hash tells them apart
    Servers,       \* tool calls in flight that carry an approval_id
    Approvers,     \* concurrent runs of qradar-soar-approve
    Trusted,       \* the approvers whose key matches the server's public key
    Ttl,           \* SOAR_APPROVAL_TTL_SECONDS in the server
    ApproverTtl,   \* --ttl of the command line
    MaxTime,       \* bound on the clock
    Absent,        \* no file, or nobody there
    Torn           \* a file that was created and never filled

Grant   == [id : Requests, call : Calls, approver : Approvers, expires : Nat]
Request == [call : Calls, expires : Nat]
Claim   == [id : Requests, call : Calls, approver : Approvers, at : Nat]
Answer  == [id : Requests, approver : Approvers, at : Nat]

ASSUME ApprovalsAssumption ==
    /\ Trusted \subseteq Approvers
    /\ Ttl \in Nat /\ ApproverTtl \in Nat /\ MaxTime \in Nat
    /\ Absent # Torn
    /\ {Absent, Torn} \cap (Grant \cup Request \cup Claim \cup Requests) = {}

VARIABLES
    now,           \* time.time(), in seconds
    requestFile,   \* {id}.request.json
    approvedFile,  \* {id}.approved.json
    rejectedFile,  \* {id}.rejected.json is there
    consumedFile,  \* {id}.consumed.json
    session,       \* the reference a session waits for an answer to
    handler,       \* what a handler has verified, and when, and is about to consume
    created,       \* history: approved.json files created for a reference
    asked,         \* history: when a request was made
    typed,         \* history: who typed a reference back, and when
    used,          \* history: calls a reference has let through
    audited        \* history: the APPROVAL_CONSUMED records, and when each was verified

files   == <<requestFile, approvedFile, rejectedFile, consumedFile>>
history == <<created, asked, typed, used, audited>>
vars    == <<now, files, session, handler, history>>

TypeOK ==
    /\ now \in Nat
    /\ requestFile \in [Requests -> Request \cup {Absent}]
    /\ approvedFile \in [Requests -> Grant \cup {Absent, Torn}]
    /\ rejectedFile \in [Requests -> BOOLEAN]
    /\ consumedFile \in [Requests -> Grant \cup {Absent, Torn}]
    /\ session \in [Approvers -> Requests \cup {Absent}]
    /\ handler \in [Servers -> Claim \cup {Absent}]
    /\ created \in [Requests -> Nat]
    /\ asked \in [Requests -> Nat]
    /\ typed \subseteq Answer
    /\ used \in [Requests -> Nat]
    /\ audited \subseteq Claim

Init ==
    /\ now = 0
    /\ requestFile = [r \in Requests |-> Absent]
    /\ approvedFile = [r \in Requests |-> Absent]
    /\ rejectedFile = [r \in Requests |-> FALSE]
    /\ consumedFile = [r \in Requests |-> Absent]
    /\ session = [a \in Approvers |-> Absent]
    /\ handler = [s \in Servers |-> Absent]
    /\ created = [r \in Requests |-> 0]
    /\ asked = [r \in Requests |-> 0]
    /\ typed = {}
    /\ used = [r \in Requests |-> 0]
    /\ audited = {}

(***************************************************************************)
(* What status() reports, in the order it looks for the files.  Expiry is   *)
(* looked at only when no decision file is there.                           *)
(***************************************************************************)
status == [r \in Requests |->
    IF requestFile[r] = Absent        THEN "unknown"
    ELSE IF consumedFile[r] # Absent  THEN "consumed"
    ELSE IF approvedFile[r] # Absent  THEN "approved"
    ELSE IF rejectedFile[r]           THEN "rejected"
    ELSE "pending"]

Expired(expires) == now > expires

Earlier(t, u) == IF t <= u THEN t ELSE u

(* ----------------------------- the server ------------------------------ *)

\* broker.request(): a call without an approval_id that needs one.
RequestApproval(r, c) ==
    /\ requestFile[r] = Absent
    /\ requestFile' = [requestFile EXCEPT ![r] = [call |-> c, expires |-> now + Ttl]]
    /\ asked' = [asked EXCEPT ![r] = now]
    /\ UNCHANGED <<now, approvedFile, rejectedFile, consumedFile, session, handler, created,
                   typed, used, audited>>

\* A slip the runs must notice: the expiry that the approver signed is not looked at.
VerifiedWithoutApprovalTtl(r, c) ==
    /\ requestFile[r] # Absent /\ requestFile[r].call = c /\ ~Expired(requestFile[r].expires)
    /\ approvedFile[r] \notin {Absent, Torn}
    /\ approvedFile[r].approver \in Trusted
    /\ approvedFile[r].id = r /\ approvedFile[r].call = requestFile[r].call

\* Another: the signature is not verified.
VerifiedUnsigned(r, c) ==
    /\ requestFile[r] # Absent /\ requestFile[r].call = c /\ ~Expired(requestFile[r].expires)
    /\ approvedFile[r] \notin {Absent, Torn}
    /\ approvedFile[r].id = r /\ approvedFile[r].call = requestFile[r].call
    /\ ~Expired(approvedFile[r].expires)

\* The checks of verify_and_consume, up to the rename, that let call c go on.
Verified(r, c) ==
    /\ requestFile[r] # Absent
    /\ requestFile[r].call = c
    /\ ~Expired(requestFile[r].expires)
    /\ approvedFile[r] \notin {Absent, Torn}
    /\ approvedFile[r].approver \in Trusted
    /\ approvedFile[r].id = r
    /\ approvedFile[r].call = requestFile[r].call
    /\ ~Expired(approvedFile[r].expires)

\* A handler has read the files and found them good.  Every other outcome
\* (pending, expired, rejected, consumed, invalid, unknown) changes nothing.
Verify(s, r, c) ==
    /\ handler[s] = Absent
    /\ Verified(r, c)
    /\ handler' = [handler EXCEPT ![s] =
                     [id |-> r, call |-> c, approver |-> approvedFile[r].approver, at |-> now]]
    /\ UNCHANGED <<now, files, session, history>>

\* A slip: consumed.json is written as a copy and approved.json stays.
ConsumeByCopy(s) ==
    /\ handler[s] # Absent
    /\ LET r == handler[s].id IN
         /\ approvedFile[r] # Absent
         /\ consumedFile' = [consumedFile EXCEPT ![r] = approvedFile[r]]
         /\ used' = [used EXCEPT ![r] = @ + 1]
    /\ audited' = audited \cup {handler[s]}
    /\ handler' = [handler EXCEPT ![s] = Absent]
    /\ UNCHANGED <<now, requestFile, approvedFile, rejectedFile, session, created, asked, typed>>

\* approved.json is renamed to consumed.json, whatever either holds by now; the
\* call goes through and APPROVAL_CONSUMED names the approver read before.
Consume(s) ==
    /\ handler[s] # Absent
    /\ LET r == handler[s].id IN
         /\ approvedFile[r] # Absent
         /\ consumedFile' = [consumedFile EXCEPT ![r] = approvedFile[r]]
         /\ approvedFile' = [approvedFile EXCEPT ![r] = Absent]
         /\ used' = [used EXCEPT ![r] = @ + 1]
    /\ audited' = audited \cup {handler[s]}
    /\ handler' = [handler EXCEPT ![s] = Absent]
    /\ UNCHANGED <<now, requestFile, rejectedFile, session, created, asked, typed>>

\* The rename finds no file: another handler was faster.  Or the process dies.
GiveUp(s) ==
    /\ handler[s] # Absent
    /\ handler' = [handler EXCEPT ![s] = Absent]
    /\ UNCHANGED <<now, files, session, history>>

(* ---------------------------- the approver ----------------------------- *)

\* A slip: the status is not asked for before the plan is shown.
ShowPlanUnchecked(a, r) ==
    /\ session[a] = Absent
    /\ requestFile[r] # Absent /\ ~Expired(requestFile[r].expires)
    /\ session' = [session EXCEPT ![a] = r]
    /\ UNCHANGED <<now, files, handler, history>>

\* cmd_approve reads the request and its status and shows the plan.
ShowPlan(a, r) ==
    /\ session[a] = Absent
    /\ status[r] = "pending"
    /\ ~Expired(requestFile[r].expires)
    /\ session' = [session EXCEPT ![a] = r]
    /\ UNCHANGED <<now, files, handler, history>>

\* The session ends: an interrupt at the prompt, or a file that O_EXCL found.
EndSession(a) == session' = [session EXCEPT ![a] = Absent]

\* A slip: the approval lasts as long as the later of the two allows.
SignedForLonger(a, r) ==
    LET mine == now + ApproverTtl  theirs == requestFile[r].expires
    IN  [id |-> r, call |-> requestFile[r].call, approver |-> a,
         expires |-> IF Earlier(mine, theirs) = mine THEN theirs ELSE mine]

\* sign_request(): the approval never outlives the request.
Signed(a, r) ==
    [id |-> r, call |-> requestFile[r].call, approver |-> a,
     expires |-> Earlier(now + ApproverTtl, requestFile[r].expires)]

\* The reference is typed back.  O_EXCL refuses an approved.json that exists,
\* and the status is not looked at again.
TypeReference(a) ==
    /\ session[a] # Absent
    /\ LET r == session[a] IN
         /\ approvedFile[r] = Absent
         /\ \/ approvedFile' = [approvedFile EXCEPT ![r] = Signed(a, r)]
            \/ approvedFile' = [approvedFile EXCEPT ![r] = Torn]   \* killed before the write
         /\ created' = [created EXCEPT ![r] = @ + 1]
         /\ typed' = typed \cup {[id |-> r, approver |-> a, at |-> now]}
    /\ EndSession(a)
    /\ UNCHANGED <<now, requestFile, rejectedFile, consumedFile, handler, asked, used, audited>>

\* Anything else is typed: rejected.json is written, over another one if need be.
TypeOther(a) ==
    /\ session[a] # Absent
    /\ rejectedFile' = [rejectedFile EXCEPT ![session[a]] = TRUE]
    /\ EndSession(a)
    /\ UNCHANGED <<now, requestFile, approvedFile, consumedFile, handler, history>>

Abandon(a) ==
    /\ session[a] # Absent
    /\ EndSession(a)
    /\ UNCHANGED <<now, files, handler, history>>

Tick ==
    /\ now < MaxTime
    /\ now' = now + 1
    /\ UNCHANGED <<files, session, handler, history>>

Next ==
    \/ \E r \in Requests, c \in Calls : RequestApproval(r, c)
    \/ \E s \in Servers, r \in Requests, c \in Calls : Verify(s, r, c)
    \/ \E s \in Servers : Consume(s) \/ GiveUp(s)
    \/ \E a \in Approvers, r \in Requests : ShowPlan(a, r)
    \/ \E a \in Approvers : TypeReference(a) \/ TypeOther(a) \/ Abandon(a)
    \/ Tick

Spec == Init /\ [][Next]_vars

--------------------------------------------------------------------------------

(* No two sessions run side by side: what one human at one terminal gives. *)
SoleApprover == \A a, b \in Approvers : a = b

\* "Exactly once" (verify_and_consume): a reference lets one call through.
SingleUse == \A r \in Requests : used[r] <= 1

\* Every call that went through had been requested as that very call, and the
\* approver the audit record names holds the key and typed that reference back.
UseIsAuthorised ==
    \A u \in audited :
        /\ requestFile[u.id] # Absent /\ requestFile[u.id].call = u.call
        /\ u.approver \in Trusted
        /\ \E t \in typed : t.id = u.id /\ t.approver = u.approver

\* However many sessions and handlers interleave, a reference lets through at
\* most one call for each time an approver typed it back: the rename spends an
\* approved.json that was created, and none is spent twice.
UsesAreBacked ==
    \A r \in Requests :
        used[r] + (IF approvedFile[r] = Absent THEN 0 ELSE 1) = created[r]

\* The consumed.json left behind is the one the audit record speaks of: a use
\* is attributed to the approver whose signature it spent.
Attributed ==
    \A r \in Requests : consumedFile[r] # Absent =>
        /\ consumedFile[r] # Torn
        /\ \E u \in audited : /\ u.id = r
                             /\ u.call = consumedFile[r].call
                             /\ u.approver = consumedFile[r].approver

\* What the human rejected is never carried out.
RejectionHolds == \A r \in Requests : rejectedFile[r] => used[r] = 0

\* No call rests on a stale answer: the approver it names typed the reference back
\* after the request was made, and when the call was verified neither the
\* approver's --ttl had passed since that answer nor the server's time to live
\* since the request, whatever came between: a late answer, a poll, another
\* session that recreated the file, a handler that waits before its rename.
Timely(u) ==
    /\ u.at <= asked[u.id] + Ttl
    /\ \E t \in typed :
         /\ t.id = u.id /\ t.approver = u.approver
         /\ asked[u.id] <= t.at /\ t.at <= u.at /\ u.at <= t.at + ApproverTtl

UseIsTimely == \A u \in audited : Timely(u)

\* With one approver at a time the broker keeps the promise of the lifecycle:
\* the files are its status, and the rename its Use.
Lifecycle == INSTANCE ApprovalLifecycle
LifecycleSpec == Lifecycle!Spec

(***************************************************************************)
(* Why the properties hold.  The first three hold whatever sessions run     *)
(* side by side, the last one when there is a single session at a time.     *)
(***************************************************************************)

\* Nothing refers to a request that was never made.
FilesFollowRequest ==
    /\ \A a \in Approvers : session[a] # Absent => requestFile[session[a]] # Absent
    /\ \A r \in Requests : requestFile[r] = Absent =>
          approvedFile[r] = Absent /\ consumedFile[r] = Absent /\ ~rejectedFile[r]

\* What a handler is about to consume is as authorised as what was consumed.
ClaimIsAuthorised ==
    \A s \in Servers : handler[s] # Absent =>
        /\ requestFile[handler[s].id] # Absent
        /\ requestFile[handler[s].id].call = handler[s].call
        /\ handler[s].approver \in Trusted
        /\ Timely(handler[s])

\* A request's expiry and a grant's come from when each was made: no file holds a
\* longer one.
ExpiryIsDated ==
    /\ \A r \in Requests : requestFile[r] # Absent =>
          /\ requestFile[r].expires = asked[r] + Ttl
          /\ asked[r] <= now
    /\ \A r \in Requests : approvedFile[r] \notin {Absent, Torn} =>
          \E t \in typed :
            /\ t.id = r /\ t.approver = approvedFile[r].approver
            /\ asked[r] <= t.at /\ t.at <= now
            /\ approvedFile[r].expires <= t.at + ApproverTtl

IInv ==
    /\ TypeOK
    /\ FilesFollowRequest /\ ClaimIsAuthorised /\ ExpiryIsDated
    /\ UseIsAuthorised /\ UseIsTimely /\ UsesAreBacked

\* One session at a time: while it waits, nothing was decided for its request.
OneDecision ==
    \A r \in Requests :
        /\ created[r] <= 1
        /\ (created[r] = 0) \/ ~rejectedFile[r]
        /\ (\E a \in Approvers : session[a] = r) => created[r] = 0 /\ ~rejectedFile[r]
        /\ (consumedFile[r] = Absent) = (used[r] = 0)

\* ... and the file a handler verified is the only one there will ever be.
ClaimIsCurrent ==
    \A s \in Servers : handler[s] # Absent =>
        LET file == approvedFile[handler[s].id] IN
        /\ created[handler[s].id] = 1
        /\ file # Absent => /\ file # Torn
                           /\ file.call = handler[s].call
                           /\ file.approver = handler[s].approver

SoleInv == IInv /\ OneDecision /\ ClaimIsCurrent
================================================================================
