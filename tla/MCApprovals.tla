------------------------------ MODULE MCApprovals ------------------------------
(***************************************************************************)
(* Small instances of Approvals.  The handlers are interchangeable; the      *)
(* approvers are not where only some of them hold the key.                   *)
(***************************************************************************)
EXTENDS Approvals, TLC

Symmetry == Permutations(Servers)
================================================================================
