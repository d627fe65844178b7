---------------------------- MODULE ApprovalsProofs ----------------------------
(* Theorems about Approvals, for every set of requests, calls, handlers and    *)
(* sessions and for every time to live.                                        *)
EXTENDS Approvals, TLAPS

USE ApprovalsAssumption

LEMMA Initially == Init => IInv
  BY DEF Init, IInv, TypeOK, FilesFollowRequest, ClaimIsAuthorised, ExpiryIsDated,
         UseIsAuthorised, UseIsTimely, UsesAreBacked

(* What the shapes of the records give to every step below. *)
LEMMA Shapes ==
  ASSUME TypeOK
  PROVE  /\ \A r \in Requests : requestFile[r] # Absent =>
               requestFile[r].call \in Calls /\ requestFile[r].expires \in Nat
         /\ \A r \in Requests : approvedFile[r] \notin {Absent, Torn} =>
               /\ approvedFile[r] \in Grant /\ approvedFile[r].approver \in Approvers
               /\ approvedFile[r].expires \in Nat
         /\ \A s \in Servers : handler[s] # Absent =>
               handler[s] \in Claim /\ handler[s].id \in Requests /\ handler[s].at \in Nat
         /\ \A u \in audited : u.id \in Requests /\ u.at \in Nat
         /\ \A t \in typed : t.id \in Requests /\ t.at \in Nat
  BY DEF TypeOK, Request, Grant, Claim, Answer

(* A use stays timely while answers are only added and its request's date stands. *)
LEMMA StaysTimely ==
  ASSUME NEW u, Timely(u), typed \subseteq typed', asked'[u.id] = asked[u.id]
  PROVE  Timely(u)'
  BY DEF Timely

LEMMA RequestStep ==
  ASSUME IInv, NEW r \in Requests, NEW c \in Calls, RequestApproval(r, c)
  PROVE  IInv'
<1>1. [call |-> c, expires |-> now + Ttl] \in Request
  BY DEF Request, IInv, TypeOK
<1>2. TypeOK'
  BY <1>1 DEF RequestApproval, IInv, TypeOK
<1>3. FilesFollowRequest' /\ UsesAreBacked'
  BY <1>1 DEF RequestApproval, IInv, TypeOK, FilesFollowRequest, UsesAreBacked
<1>4. \A q \in Requests : requestFile[q] # Absent =>
         requestFile'[q] = requestFile[q] /\ asked'[q] = asked[q]
  BY DEF RequestApproval, IInv, TypeOK
<1>5. ClaimIsAuthorised'
  <2> SUFFICES ASSUME NEW s \in Servers, handler[s] # Absent
               PROVE  /\ requestFile'[handler[s].id] # Absent
                      /\ requestFile'[handler[s].id].call = handler[s].call
                      /\ handler[s].approver \in Trusted
                      /\ Timely(handler[s])'
    BY DEF RequestApproval, ClaimIsAuthorised, Timely
  <2>1. handler[s].id \in Requests
    BY Shapes DEF IInv
  <2>2. typed' = typed
    BY DEF RequestApproval
  <2>3. asked'[handler[s].id] = asked[handler[s].id] /\ Timely(handler[s])
    BY <1>4, <2>1 DEF IInv, ClaimIsAuthorised
  <2>4. handler'[s] = handler[s]
    BY DEF RequestApproval
  <2>5. Timely(handler[s])'
    BY <2>2, <2>3, <2>4 DEF Timely
  <2> QED BY <1>4, <2>1, <2>5 DEF IInv, ClaimIsAuthorised
<1>6. UseIsAuthorised' /\ UseIsTimely'
  <2> SUFFICES ASSUME NEW u \in audited
               PROVE  /\ requestFile'[u.id] # Absent /\ requestFile'[u.id].call = u.call
                      /\ u.approver \in Trusted
                      /\ \E t \in typed' : t.id = u.id /\ t.approver = u.approver
                      /\ Timely(u)'
    BY DEF RequestApproval, UseIsAuthorised, UseIsTimely
  <2>1. u.id \in Requests
    BY Shapes DEF IInv
  <2>2. typed' = typed /\ asked'[u.id] = asked[u.id]
    BY <1>4, <2>1 DEF RequestApproval, IInv, UseIsAuthorised
  <2>3. Timely(u)'
    BY <2>2, StaysTimely DEF IInv, UseIsTimely
  <2> QED BY <1>4, <2>1, <2>2, <2>3 DEF IInv, UseIsAuthorised
<1>7. ExpiryIsDated'
  <2>1. ASSUME NEW q \in Requests, requestFile'[q] # Absent
        PROVE  requestFile'[q].expires = asked'[q] + Ttl /\ asked'[q] <= now'
    <3>1. CASE q = r
      BY <3>1 DEF RequestApproval, IInv, TypeOK
    <3>2. CASE q # r
      BY <2>1, <3>2 DEF RequestApproval, IInv, TypeOK, ExpiryIsDated
    <3> QED BY <3>1, <3>2
  <2>2. ASSUME NEW q \in Requests, approvedFile'[q] \notin {Absent, Torn}
        PROVE  \E t \in typed' :
                 /\ t.id = q /\ t.approver = approvedFile'[q].approver
                 /\ asked'[q] <= t.at /\ t.at <= now'
                 /\ approvedFile'[q].expires <= t.at + ApproverTtl
    <3>1. approvedFile' = approvedFile /\ typed' = typed /\ now' = now
      BY DEF RequestApproval
    <3>2. asked'[q] = asked[q]
      BY <1>4, <2>2, <3>1 DEF IInv, FilesFollowRequest
    <3> QED BY <2>2, <3>1, <3>2 DEF IInv, ExpiryIsDated
  <2> QED BY <2>1, <2>2 DEF ExpiryIsDated
<1> QED BY <1>2, <1>3, <1>5, <1>6, <1>7 DEF IInv

LEMMA VerifyStep ==
  ASSUME IInv, NEW s \in Servers, NEW r \in Requests, NEW c \in Calls, Verify(s, r, c)
  PROVE  IInv'
<1> DEFINE claim == [id |-> r, call |-> c, approver |-> approvedFile[r].approver, at |-> now]
<1>1. claim \in Claim
  BY Shapes DEF Verify, Verified, IInv, Claim, TypeOK
<1>2. /\ requestFile[r] # Absent /\ requestFile[r].call = c
      /\ approvedFile[r].approver \in Trusted
      /\ approvedFile[r] \notin {Absent, Torn}
  BY DEF Verify, Verified
<1>3. Timely(claim)
  <2>1. now <= requestFile[r].expires /\ now <= approvedFile[r].expires
    BY <1>2, Shapes DEF Verify, Verified, Expired, IInv, TypeOK
  <2>2. requestFile[r].expires = asked[r] + Ttl
    BY <1>2 DEF IInv, ExpiryIsDated
  <2>3. PICK t \in typed :
           /\ t.id = r /\ t.approver = approvedFile[r].approver
           /\ asked[r] <= t.at /\ t.at <= now
           /\ approvedFile[r].expires <= t.at + ApproverTtl
    BY <1>2 DEF IInv, ExpiryIsDated
  <2>4. now \in Nat /\ t.at \in Nat /\ approvedFile[r].expires \in Nat
    BY <1>2, Shapes DEF IInv, TypeOK
  <2>5. now <= t.at + ApproverTtl
    BY <2>1, <2>3, <2>4
  <2>6. /\ claim.id = r /\ claim.approver = approvedFile[r].approver /\ claim.at = now
    OBVIOUS
  <2> HIDE DEF claim
  <2> QED BY <2>1, <2>2, <2>3, <2>5, <2>6 DEF Timely
<1>4. TypeOK'
  BY <1>1 DEF Verify, files, history, IInv, TypeOK
<1>5. typed' = typed /\ asked' = asked /\ requestFile' = requestFile /\ audited' = audited
  BY DEF Verify, files, history
<1>6. ClaimIsAuthorised'
  <2> SUFFICES ASSUME NEW t \in Servers, handler'[t] # Absent
               PROVE  /\ requestFile[handler'[t].id] # Absent
                      /\ requestFile[handler'[t].id].call = handler'[t].call
                      /\ handler'[t].approver \in Trusted
                      /\ Timely(handler[t])'
    BY <1>5 DEF ClaimIsAuthorised
  <2>1. CASE t = s
    <3>1. handler'[t] = claim
      BY <2>1 DEF Verify, IInv, TypeOK
    <3>2. claim.id = r /\ claim.call = c /\ claim.approver = approvedFile[r].approver
      OBVIOUS
    <3> HIDE DEF claim
    <3>3. Timely(handler[t])'
      BY <1>3, <1>5, <3>1 DEF Timely
    <3> QED BY <1>2, <3>1, <3>2, <3>3
  <2>2. CASE t # s
    <3>1. handler'[t] = handler[t]
      BY <2>2 DEF Verify, IInv, TypeOK
    <3>2. Timely(handler[t])'
      BY <1>5, <3>1 DEF Timely, IInv, ClaimIsAuthorised
    <3> QED BY <3>1, <3>2 DEF IInv, ClaimIsAuthorised
  <2> QED BY <2>1, <2>2
<1>7. UseIsTimely'
  BY <1>5 DEF IInv, UseIsTimely, Timely
<1>8. FilesFollowRequest' /\ ExpiryIsDated' /\ UseIsAuthorised' /\ UsesAreBacked'
  BY DEF Verify, files, history, IInv, FilesFollowRequest, ExpiryIsDated, UseIsAuthorised,
         UsesAreBacked
<1> QED BY <1>4, <1>6, <1>7, <1>8 DEF IInv

LEMMA ConsumeStep ==
  ASSUME IInv, NEW s \in Servers, Consume(s)
  PROVE  IInv'
<1> DEFINE r == handler[s].id
<1>1. handler[s] \in Claim /\ r \in Requests
  BY Shapes DEF Consume, IInv
<1>2. TypeOK'
  BY <1>1 DEF Consume, IInv, TypeOK
<1>3. FilesFollowRequest'
  BY <1>1 DEF Consume, IInv, TypeOK, FilesFollowRequest, ClaimIsAuthorised
<1>4. ExpiryIsDated'
  <2>1. /\ now' = now /\ asked' = asked /\ typed' = typed /\ requestFile' = requestFile
        /\ \A q \in Requests : approvedFile'[q] = Absent \/ approvedFile'[q] = approvedFile[q]
    BY <1>1 DEF Consume, IInv, TypeOK
  <2> QED BY <2>1 DEF IInv, ExpiryIsDated
<1>5. /\ audited' = audited \cup {handler[s]} /\ requestFile' = requestFile
      /\ typed' = typed /\ asked' = asked
      /\ \A t \in Servers : handler'[t] = Absent \/ handler'[t] = handler[t]
  BY DEF Consume, IInv, TypeOK
<1>6. /\ requestFile[r] # Absent /\ requestFile[r].call = handler[s].call
      /\ handler[s].approver \in Trusted /\ Timely(handler[s])
  BY DEF Consume, IInv, ClaimIsAuthorised
<1>7. ClaimIsAuthorised'
  BY <1>5 DEF IInv, ClaimIsAuthorised, Timely
<1>8. UseIsAuthorised' /\ UseIsTimely'
  BY <1>5, <1>6 DEF IInv, UseIsAuthorised, UseIsTimely, Timely
<1>9. UsesAreBacked'
  BY <1>1 DEF Consume, IInv, TypeOK, UsesAreBacked
<1> QED BY <1>2, <1>3, <1>4, <1>7, <1>8, <1>9 DEF IInv

LEMMA TypeReferenceStep ==
  ASSUME IInv, NEW a \in Approvers, TypeReference(a)
  PROVE  IInv'
<1> DEFINE r == session[a]
           answer == [id |-> r, approver |-> a, at |-> now]
<1>1. r \in Requests /\ requestFile[r] # Absent /\ requestFile[r] \in Request
  BY DEF TypeReference, IInv, TypeOK, FilesFollowRequest
<1>2. /\ Signed(a, r) \in Grant /\ Signed(a, r).approver = a
      /\ Signed(a, r).expires <= now + ApproverTtl
  BY <1>1 DEF Signed, Grant, Request, Earlier, IInv, TypeOK
<1>3. answer \in Answer
  BY <1>1 DEF Answer, IInv, TypeOK
<1>4. TypeOK'
  BY <1>1, <1>2, <1>3 DEF TypeReference, EndSession, IInv, TypeOK
<1>5. FilesFollowRequest'
  BY <1>1 DEF TypeReference, EndSession, IInv, TypeOK, FilesFollowRequest
<1>6. /\ typed' = typed \cup {answer} /\ asked' = asked /\ now' = now
      /\ requestFile' = requestFile /\ handler' = handler /\ audited' = audited
  BY DEF TypeReference
<1>7. ExpiryIsDated'
  <2> SUFFICES ASSUME NEW q \in Requests, approvedFile'[q] \notin {Absent, Torn}
               PROVE  \E t \in typed' :
                        /\ t.id = q /\ t.approver = approvedFile'[q].approver
                        /\ asked[q] <= t.at /\ t.at <= now
                        /\ approvedFile'[q].expires <= t.at + ApproverTtl
    BY <1>6 DEF IInv, ExpiryIsDated
  <2>1. CASE q = r
    <3>1. approvedFile'[q] = Signed(a, r)
      BY <2>1, <1>1, <1>2 DEF TypeReference, IInv, TypeOK
    <3>2. answer.id = q /\ answer.approver = a /\ answer.at = now /\ answer \in typed'
      BY <2>1, <1>6
    <3>3. asked[q] <= now /\ now <= now
      BY <2>1, <1>1 DEF IInv, TypeOK, ExpiryIsDated
    <3> HIDE DEF answer
    <3> QED BY <3>1, <3>2, <3>3, <1>2
  <2>2. CASE q # r
    <3>1. approvedFile'[q] = approvedFile[q]
      BY <2>2, <1>1 DEF TypeReference, IInv, TypeOK
    <3> QED BY <3>1, <1>6 DEF IInv, ExpiryIsDated
  <2> QED BY <2>1, <2>2
<1>8. ClaimIsAuthorised'
  BY <1>6 DEF IInv, ClaimIsAuthorised, Timely
<1>9. UseIsAuthorised' /\ UseIsTimely'
  BY <1>6 DEF IInv, UseIsAuthorised, UseIsTimely, Timely
<1>10. UsesAreBacked'
  BY <1>1, <1>2 DEF TypeReference, IInv, TypeOK, UsesAreBacked
<1> QED BY <1>4, <1>5, <1>7, <1>8, <1>9, <1>10 DEF IInv

LEMMA TypeOtherStep ==
  ASSUME IInv, NEW a \in Approvers, TypeOther(a)
  PROVE  IInv'
<1>1. session[a] \in Requests /\ requestFile[session[a]] # Absent
  BY DEF TypeOther, IInv, TypeOK, FilesFollowRequest
<1>2. TypeOK' /\ FilesFollowRequest'
  BY <1>1 DEF TypeOther, EndSession, history, IInv, TypeOK, FilesFollowRequest
<1> QED
  BY <1>2 DEF TypeOther, history, IInv, ClaimIsAuthorised, ExpiryIsDated, UseIsAuthorised,
              UseIsTimely, Timely, UsesAreBacked

(* The steps that touch no file and no history. *)
LEMMA QuietStep ==
  ASSUME IInv,
         \/ \E s \in Servers : GiveUp(s)
         \/ \E a \in Approvers, r \in Requests : ShowPlan(a, r)
         \/ \E a \in Approvers : Abandon(a)
         \/ Tick
         \/ UNCHANGED vars
  PROVE  IInv'
<1>1. TypeOK' /\ FilesFollowRequest'
  <2>1. ASSUME NEW s \in Servers, GiveUp(s) PROVE TypeOK' /\ FilesFollowRequest'
    BY <2>1 DEF GiveUp, files, history, IInv, TypeOK, FilesFollowRequest
  <2>2. ASSUME NEW a \in Approvers, NEW r \in Requests, ShowPlan(a, r)
        PROVE  TypeOK' /\ FilesFollowRequest'
    <3>1. requestFile[r] # Absent
      BY <2>2 DEF ShowPlan, status, IInv, TypeOK
    <3> QED BY <2>2, <3>1 DEF ShowPlan, files, history, IInv, TypeOK, FilesFollowRequest
  <2>3. ASSUME NEW a \in Approvers, Abandon(a) PROVE TypeOK' /\ FilesFollowRequest'
    BY <2>3 DEF Abandon, EndSession, files, history, IInv, TypeOK, FilesFollowRequest
  <2>4. CASE Tick
    BY <2>4 DEF Tick, files, history, IInv, TypeOK, FilesFollowRequest
  <2>5. CASE UNCHANGED vars
    BY <2>5 DEF vars, files, history, IInv, TypeOK, FilesFollowRequest
  <2> QED BY <2>1, <2>2, <2>3, <2>4, <2>5
<1>2. files' = files /\ history' = history
  BY DEF GiveUp, ShowPlan, Abandon, Tick, vars
<1>3. \A s \in Servers : handler'[s] = Absent \/ handler'[s] = handler[s]
  BY DEF GiveUp, ShowPlan, Abandon, Tick, vars, IInv, TypeOK
<1>4. now \in Nat /\ (now' = now \/ now' = now + 1)
  BY DEF GiveUp, ShowPlan, Abandon, Tick, vars, IInv, TypeOK
<1>5. ClaimIsAuthorised'
  BY <1>2, <1>3 DEF files, history, IInv, ClaimIsAuthorised, Timely
<1>6. UseIsAuthorised' /\ UseIsTimely' /\ UsesAreBacked'
  BY <1>2 DEF files, history, IInv, UseIsAuthorised, UseIsTimely, Timely, UsesAreBacked
<1>7. ExpiryIsDated'
  <2>1. ASSUME NEW r \in Requests, requestFile[r] # Absent PROVE asked[r] <= now'
    BY <2>1, <1>4 DEF IInv, TypeOK, ExpiryIsDated
  <2>2. ASSUME NEW t \in typed, t.at <= now PROVE t.at <= now'
    BY <2>2, <1>4, Shapes DEF IInv
  <2> QED BY <1>2, <2>1, <2>2 DEF files, history, IInv, ExpiryIsDated
<1> QED BY <1>1, <1>5, <1>6, <1>7 DEF IInv

(* IInv is inductive: no bound on sessions or handlers is needed for it. *)
THEOREM Inductive == Spec => []IInv
<1>1. IInv /\ [Next]_vars => IInv'
  BY RequestStep, VerifyStep, ConsumeStep, TypeReferenceStep, TypeOtherStep, QuietStep DEF Next
<1> QED BY Initially, <1>1, PTL DEF Spec

(* Every variable keeps its type: the files hold what their writers put there. *)
THEOREM TypeCorrect == Spec => []TypeOK
<1>1. IInv => TypeOK
  BY DEF IInv
<1> QED BY Inductive, <1>1, PTL

(* However many sessions and handlers there are: every call that went through was   *)
(* verified within the server's time to live of its request and within the approver's *)
(* of an answer that the approver it names gave to it.                                *)
THEOREM UsesAreTimely == Spec => []UseIsTimely
<1>1. IInv => UseIsTimely
  BY DEF IInv
<1> QED BY Inductive, <1>1, PTL

(* A call goes through only as the call that was requested, and only when an  *)
(* approver with the right key typed the reference back.                      *)
THEOREM Authorised == Spec => []UseIsAuthorised
<1>1. IInv => UseIsAuthorised
  BY DEF IInv
<1> QED BY Inductive, <1>1, PTL

(* A reference lets through no more calls than approvals were created for it. *)
THEOREM Backed == Spec => []UsesAreBacked
<1>1. IInv => UsesAreBacked
  BY DEF IInv
<1> QED BY Inductive, <1>1, PTL

--------------------------------------------------------------------------------
(* One session at a time.                                                      *)

LEMMA SoleInitially == Init => SoleInv /\ Attributed
  BY Initially DEF Init, SoleInv, OneDecision, ClaimIsCurrent, Attributed

LEMMA SoleStep ==
  ASSUME SoleApprover, SoleInv, Attributed, IInv', [Next]_vars
  PROVE  SoleInv' /\ Attributed'
<1> USE DEF SoleInv, IInv, TypeOK
<1>1. ASSUME NEW r \in Requests, NEW c \in Calls, RequestApproval(r, c)
      PROVE  OneDecision' /\ ClaimIsCurrent' /\ Attributed'
  BY <1>1 DEF RequestApproval, history, OneDecision, ClaimIsCurrent, Attributed
<1>2. ASSUME NEW s \in Servers, NEW r \in Requests, NEW c \in Calls, Verify(s, r, c)
      PROVE  OneDecision' /\ ClaimIsCurrent' /\ Attributed'
  <2>1. created[r] = 1
    BY <1>2 DEF Verify, Verified, UsesAreBacked, OneDecision
  <2>2. ClaimIsCurrent'
    BY <1>2, <2>1 DEF Verify, Verified, files, history, ClaimIsCurrent
  <2> QED BY <1>2, <2>2 DEF Verify, files, history, OneDecision, Attributed
<1>3. ASSUME NEW s \in Servers, Consume(s)
      PROVE  OneDecision' /\ ClaimIsCurrent' /\ Attributed'
  <2> DEFINE r == handler[s].id
  <2>1. handler[s] \in Claim /\ r \in Requests
    BY <1>3, Shapes DEF Consume
  <2>2. OneDecision'
    <3>1. created[r] = 1 /\ created' = created /\ rejectedFile' = rejectedFile
          /\ session' = session
      BY <1>3, <2>1 DEF Consume, ClaimIsCurrent
    <3>2. consumedFile'[r] # Absent /\ used'[r] = used[r] + 1 /\ used[r] \in Nat
      BY <1>3, <2>1 DEF Consume
    <3>3. \A q \in Requests \ {r} :
             consumedFile'[q] = consumedFile[q] /\ used'[q] = used[q]
      BY <1>3, <2>1 DEF Consume
    <3> QED BY <3>1, <3>2, <3>3, <2>1 DEF OneDecision
  <2>3. ClaimIsCurrent'
    BY <1>3, <2>1, Shapes DEF Consume, ClaimIsCurrent
  <2>4. Attributed'
    <3>1. /\ approvedFile[r] \notin {Absent, Torn}
          /\ approvedFile[r].call = handler[s].call
          /\ approvedFile[r].approver = handler[s].approver
      BY <1>3, <2>1 DEF Consume, ClaimIsCurrent
    <3>2. handler[s] \in audited' /\ audited \subseteq audited'
      BY <1>3 DEF Consume
    <3> QED BY <1>3, <2>1, <3>1, <3>2 DEF Consume, Attributed
  <2> QED BY <2>2, <2>3, <2>4
<1>4. ASSUME NEW s \in Servers, GiveUp(s)
      PROVE  OneDecision' /\ ClaimIsCurrent' /\ Attributed'
  BY <1>4 DEF GiveUp, files, history, OneDecision, ClaimIsCurrent, Attributed
<1>5. ASSUME NEW a \in Approvers, NEW r \in Requests, ShowPlan(a, r)
      PROVE  OneDecision' /\ ClaimIsCurrent' /\ Attributed'
  <2>1. consumedFile[r] = Absent /\ approvedFile[r] = Absent /\ ~rejectedFile[r]
    BY <1>5 DEF ShowPlan, status
  <2>2. created[r] = 0
    BY <2>1 DEF UsesAreBacked, OneDecision
  <2>3. OneDecision'
    BY <1>5, <2>1, <2>2 DEF ShowPlan, files, history, OneDecision
  <2> QED BY <1>5, <2>3 DEF ShowPlan, files, history, ClaimIsCurrent, Attributed
<1>6. ASSUME NEW a \in Approvers, TypeReference(a)
      PROVE  OneDecision' /\ ClaimIsCurrent' /\ Attributed'
  <2> DEFINE r == session[a]
  <2>1. r \in Requests /\ created[r] = 0 /\ ~rejectedFile[r]
    BY <1>6 DEF TypeReference, OneDecision
  <2>2. \A b \in Approvers : session'[b] = Absent
    BY <1>6 DEF TypeReference, EndSession, SoleApprover
  <2>3. Absent \notin Requests
    BY DEF Grant
  <2>4. OneDecision'
    BY <1>6, <2>1, <2>2, <2>3 DEF TypeReference, OneDecision
  <2>5. ClaimIsCurrent'
    BY <1>6, <2>1, Shapes DEF TypeReference, ClaimIsCurrent
  <2> QED BY <1>6, <2>4, <2>5 DEF TypeReference, Attributed
<1>7. ASSUME NEW a \in Approvers, TypeOther(a)
      PROVE  OneDecision' /\ ClaimIsCurrent' /\ Attributed'
  <2> DEFINE r == session[a]
  <2>1. r \in Requests /\ created[r] = 0
    BY <1>7 DEF TypeOther, OneDecision
  <2>2. \A b \in Approvers : session'[b] = Absent
    BY <1>7 DEF TypeOther, EndSession, SoleApprover
  <2>3. OneDecision'
    BY <1>7, <2>1, <2>2 DEF TypeOther, history, OneDecision
  <2> QED BY <1>7, <2>3 DEF TypeOther, history, ClaimIsCurrent, Attributed
<1>8. ASSUME NEW a \in Approvers, Abandon(a)
      PROVE  OneDecision' /\ ClaimIsCurrent' /\ Attributed'
  BY <1>8 DEF Abandon, EndSession, files, history, OneDecision, ClaimIsCurrent, Attributed
<1>9. CASE Tick
  BY <1>9 DEF Tick, files, history, OneDecision, ClaimIsCurrent, Attributed
<1>10. CASE UNCHANGED vars
  BY <1>10 DEF vars, files, history, OneDecision, ClaimIsCurrent, Attributed
<1> QED
  BY <1>1, <1>2, <1>3, <1>4, <1>5, <1>6, <1>7, <1>8, <1>9, <1>10 DEF Next

(* With one approver at a time an approval is spent at most once, by a call   *)
(* the audit record attributes correctly, and never after a rejection.        *)
THEOREM SoleInductive == SoleApprover /\ Spec => [](SoleInv /\ Attributed)
<1> SUFFICES ASSUME SoleApprover PROVE Spec => [](SoleInv /\ Attributed)
  OBVIOUS
<1>1. SoleInv /\ Attributed /\ IInv' /\ [Next]_vars => SoleInv' /\ Attributed'
  BY SoleStep
<1> QED BY Inductive, SoleInitially, <1>1, PTL DEF Spec

(* verify_and_consume's "Exactly once", where it holds. *)
THEOREM ExactlyOnce == SoleApprover /\ Spec => []SingleUse
<1>1. SoleInv => SingleUse
  <2> SUFFICES ASSUME SoleInv, NEW r \in Requests PROVE used[r] <= 1
    BY DEF SingleUse
  <2>1. used[r] \in Nat /\ created[r] \in Nat /\ created[r] <= 1
    BY DEF SoleInv, IInv, TypeOK, OneDecision
  <2>2. used[r] = created[r] \/ used[r] + 1 = created[r]
    BY <2>1 DEF SoleInv, IInv, UsesAreBacked
  <2> QED BY <2>1, <2>2
<1> QED BY SoleInductive, <1>1, PTL

(* An approval is spent by the call the audit record attributes it to. *)
THEOREM RightlyAttributed == SoleApprover /\ Spec => []Attributed
  BY SoleInductive, PTL

(* What the human rejected is never carried out. *)
THEOREM NotAfterRejection == SoleApprover /\ Spec => []RejectionHolds
<1>1. SoleInv => RejectionHolds
  <2> SUFFICES ASSUME SoleInv, NEW r \in Requests, rejectedFile[r] PROVE used[r] = 0
    BY DEF RejectionHolds
  <2>1. created[r] = 0 /\ used[r] \in Nat
    BY DEF SoleInv, IInv, TypeOK, OneDecision
  <2>2. used[r] = created[r] \/ used[r] + 1 = created[r]
    BY <2>1 DEF SoleInv, IInv, UsesAreBacked
  <2> QED BY <2>1, <2>2
<1> QED BY SoleInductive, <1>1, PTL

--------------------------------------------------------------------------------
(* The broker implements the lifecycle.                                        *)

LEMMA LifecycleInit == Init => Lifecycle!Init
  BY DEF Init, status, Lifecycle!Init

(* A handler or a session that only reads moves nothing. *)
LEMMA SameFiles ==
  ASSUME files' = files, used' = used
  PROVE  status' = status
  BY DEF files, status

LEMMA LifecycleStep ==
  ASSUME SoleApprover, SoleInv, [Next]_vars
  PROVE  [Lifecycle!Next]_(Lifecycle!vars)
<1> USE DEF SoleInv, IInv, TypeOK, Lifecycle!vars
<1>1. ASSUME NEW r \in Requests, NEW c \in Calls, RequestApproval(r, c)
      PROVE  Lifecycle!Ask(r)
  <2>1. [call |-> c, expires |-> now + Ttl] # Absent
    BY DEF Request
  <2> QED
    BY <1>1, <2>1 DEF RequestApproval, history, FilesFollowRequest, status, Lifecycle!Ask,
                      Lifecycle!Move
<1>2. ASSUME NEW s \in Servers, Consume(s)
      PROVE  \E r \in Requests : Lifecycle!Use(r)
  <2> DEFINE r == handler[s].id
  <2>1. handler[s] \in Claim /\ r \in Requests /\ requestFile[r] # Absent
    BY <1>2, Shapes DEF Consume, ClaimIsAuthorised
  <2>2. created[r] = 1 /\ used[r] = 0 /\ consumedFile[r] = Absent
    BY <1>2, <2>1 DEF Consume, ClaimIsCurrent, UsesAreBacked, OneDecision
  <2>3. Lifecycle!Use(r)
    BY <1>2, <2>1, <2>2 DEF Consume, status, Lifecycle!Use, Lifecycle!Move
  <2> QED BY <2>1, <2>3
<1>3. ASSUME NEW a \in Approvers, TypeReference(a)
      PROVE  \E r \in Requests : Lifecycle!Approve(r)
  <2> DEFINE r == session[a]
  <2>1. /\ r \in Requests /\ requestFile[r] # Absent /\ ~rejectedFile[r]
        /\ created[r] = 0 /\ approvedFile[r] = Absent
    BY <1>3 DEF TypeReference, OneDecision, FilesFollowRequest
  <2>2. used[r] = 0 /\ consumedFile[r] = Absent
    BY <2>1 DEF UsesAreBacked, OneDecision
  <2>3. approvedFile'[r] # Absent /\ \A q \in Requests \ {r} : approvedFile'[q] = approvedFile[q]
    <3>1. requestFile[r] \in Request
      BY <2>1
    <3>2. Signed(a, r) \in Grant
      BY <2>1, <3>1 DEF Signed, Grant, Request, Earlier
    <3> QED BY <1>3, <2>1, <3>2 DEF TypeReference
  <2>4. Lifecycle!Approve(r)
    BY <1>3, <2>1, <2>2, <2>3 DEF TypeReference, status, Lifecycle!Approve, Lifecycle!Move
  <2> QED BY <2>1, <2>4
<1>4. ASSUME NEW a \in Approvers, TypeOther(a)
      PROVE  \E r \in Requests : Lifecycle!Reject(r)
  <2> DEFINE r == session[a]
  <2>1. r \in Requests /\ requestFile[r] # Absent /\ ~rejectedFile[r] /\ created[r] = 0
    BY <1>4 DEF TypeOther, OneDecision, FilesFollowRequest
  <2>2. used[r] = 0 /\ consumedFile[r] = Absent /\ approvedFile[r] = Absent
    BY <2>1 DEF UsesAreBacked, OneDecision
  <2>3. Lifecycle!Reject(r)
    BY <1>4, <2>1, <2>2 DEF TypeOther, history, status, Lifecycle!Reject, Lifecycle!Move
  <2> QED BY <2>1, <2>3
<1>5. ASSUME \/ \E s \in Servers, r \in Requests, c \in Calls : Verify(s, r, c)
             \/ \E s \in Servers : GiveUp(s)
             \/ \E a \in Approvers, r \in Requests : ShowPlan(a, r)
             \/ \E a \in Approvers : Abandon(a)
             \/ Tick
             \/ UNCHANGED vars
      PROVE  UNCHANGED Lifecycle!vars
  <2>1. files' = files /\ used' = used
    BY <1>5 DEF Verify, GiveUp, ShowPlan, Abandon, Tick, vars, history
  <2> QED BY <2>1, SameFiles
<1> QED BY <1>1, <1>2, <1>3, <1>4, <1>5 DEF Next, Lifecycle!Next

(* With one approver at a time, status() moves as the lifecycle promises.      *)
THEOREM ImplementsLifecycle == SoleApprover /\ Spec => LifecycleSpec
<1> SUFFICES ASSUME SoleApprover PROVE Spec => LifecycleSpec
  OBVIOUS
<1>1. SoleInv /\ [Next]_vars => [Lifecycle!Next]_(Lifecycle!vars)
  BY LifecycleStep
<1> QED BY SoleInductive, LifecycleInit, <1>1, PTL DEF Spec, LifecycleSpec, Lifecycle!Spec
================================================================================
