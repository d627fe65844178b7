------------------------------- MODULE Question --------------------------------
(* The question put to the decisions that read their input and keep no state. *)
EXTENDS Naturals, Sequences, FiniteSets, Values

VARIABLE asked

Init == asked = [kind |-> "nothing"]
================================================================================
