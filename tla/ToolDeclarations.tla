---------------------------- MODULE ToolDeclarations ---------------------------
(***************************************************************************)
(* What a tool may be declared as (soar_tool in registry.py) and how a client *)
(* is told of the tools there are (register_all).  The declarations are read  *)
(* at import: one that is refused, and there is no server.                    *)
(*                                                                         *)
(* A declaration is [name, named, tier, capability, params, async, describe,  *)
(* mutations, doc, unsupported]: named says whether the name is well formed,  *)
(* mutations is None when it is not given, and unsupported is None, "blank"   *)
(* or "text".                                                              *)
(***************************************************************************)
EXTENDS Enforce

MUTATING_FROM          == DOCUMENTATION
APPROVAL_REQUIRED_FROM == CONTROL

\* A slip: any capability will do.
CapabilityKnown(d) == IF d.tier >= MUTATING_FROM THEN d.capability \in Capabilities ELSE d.capability = None

\* The flag that turns the tool on is one of its own tier.
CapabilityFits(d) ==
    IF d.tier >= MUTATING_FROM THEN d.capability \in CapabilitiesOf(d.tier) ELSE d.capability = None

\* How many objects it may change in a call.
MutationsOf(d) == IF d.mutations # None THEN d.mutations ELSE IF d.tier >= MUTATING_FROM THEN 1 ELSE 0

DeclarationOK(names, d) ==
    /\ d.named /\ d.name \notin names
    /\ d.async
    /\ d.params # <<>> /\ Head(d.params) = "rt"
    /\ d.tier < HIGH_RISK
    /\ CapabilityFits(d)
    /\ d.tier >= APPROVAL_REQUIRED_FROM => "approval_id" \in ToSet(d.params) /\ d.describe
    /\ IF d.tier >= MUTATING_FROM THEN MutationsOf(d) >= 1 ELSE MutationsOf(d) = 0
    /\ d.doc
    /\ d.unsupported # "blank"

\* soar_tool: one more tool, or Malformed.
soar_tool(registry, d) ==
    IF registry = Malformed THEN Malformed
    ELSE IF ~DeclarationOK({registry[i].name : i \in DOMAIN registry}, d) THEN Malformed
    ELSE Append(registry, [name |-> d.name, tier |-> d.tier, capability |-> d.capability, mutations |-> MutationsOf(d),
                           unsupported |-> d.unsupported # None, params |-> d.params])

\* The registry after the first tools.
Registry(tools) ==
    LET registry[n \in 0..Len(tools)] == IF n = 0 THEN <<>> ELSE soar_tool(registry[n - 1], tools[n])
    IN  registry

\* bind: the public parameters, without the runtime.  A client gives them by name.
Bound(spec) == ToSet(spec.params) \ {"rt"}

TellsBefore(a, b) == a.tier < b.tier \/ (a.tier = b.tier /\ a.name < b.name)

\* By tier and name, no two of which are the same.
Sorted(registry) ==
    CHOOSE sorted \in [DOMAIN registry -> ToSet(registry)] :
        \A i, j \in DOMAIN registry : i < j => TellsBefore(sorted[i], sorted[j])

\* register_all: what a client is told of each tool.
register_all(registry) ==
    LET sorted == Sorted(registry)
    IN  [i \in DOMAIN sorted |->
           [spec |-> sorted[i], name |-> sorted[i].name, params |-> Bound(sorted[i]),
            read_only_hint |-> sorted[i].tier < MUTATING_FROM,
            destructive_hint |-> sorted[i].tier >= APPROVAL_REQUIRED_FROM]]
================================================================================
