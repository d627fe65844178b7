--------------------------- MODULE ApprovalLifecycle ---------------------------
(***************************************************************************)
(* What the approval broker promises: a request is decided once, an         *)
(* approval is spent once, and a decision is never taken back.  The states  *)
(* are the ones ApprovalBroker.status() reports; expiry is not a state here *)
(* because it only ever forbids a step.                                     *)
(***************************************************************************)
EXTENDS Naturals

CONSTANT Requests     \* approval references, APR-YYYY-MMDD-xxxxxx

VARIABLES
    status,           \* "unknown", "pending", "approved", "rejected" or "consumed"
    used              \* how many calls each reference has let through

vars == <<status, used>>

Init ==
    /\ status = [r \in Requests |-> "unknown"]
    /\ used = [r \in Requests |-> 0]

Move(r, from, to) ==
    /\ status[r] = from
    /\ status' = [status EXCEPT ![r] = to]

Ask(r)     == Move(r, "unknown", "pending") /\ UNCHANGED used
Approve(r) == Move(r, "pending", "approved") /\ UNCHANGED used
Reject(r)  == Move(r, "pending", "rejected") /\ UNCHANGED used

Use(r) ==
    /\ Move(r, "approved", "consumed")
    /\ used' = [used EXCEPT ![r] = @ + 1]

Next == \E r \in Requests : Ask(r) \/ Approve(r) \/ Reject(r) \/ Use(r)

Spec == Init /\ [][Next]_vars
================================================================================
