----------------------------- MODULE MCReviewLoop ------------------------------
(***************************************************************************)
(* Small instances of ReviewLoop.  The pull request begins with its first    *)
(* commit, for which there are no threads on an older one.                   *)
(***************************************************************************)
EXTENDS ReviewLoop, TLC

Symmetry == Permutations(Runs)

MCNext == Next /\ review'[1] # "old-threads"

MCSpec == Init /\ [][MCNext]_vars
================================================================================
