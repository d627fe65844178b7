------------------------------ MODULE MCPipeline -------------------------------
(***************************************************************************)
(* Small instances of Pipeline.  A configuration picks the calls; what      *)
(* enforce() made of each is given here.                                    *)
(***************************************************************************)
EXTENDS Pipeline, TLC

CONSTANTS w1, w2, w3, d1, t1, t2, t3, ask, use1, use2, bulk, r1

\* w1..w3 are Tier-2 writes and t1..t3 Tier-3 ones that are simply allowed, d1 a Tier-1 one,
\* the others Tier-3 calls: one asks for an approval, two carry it, and bulk asks for too much.
MCTier == [c \in Calls |-> IF c \in {w1, w2, w3} THEN 2 ELSE IF c = d1 THEN 1 ELSE 3]

MCVerdict ==
    [c \in Calls |-> IF c \in {ask, use1, use2} THEN "require_approval"
                     ELSE IF c = bulk THEN "deny" ELSE "allow"]

MCReference == [c \in Calls |-> IF c \in {use1, use2} THEN r1 ELSE None]

CapOne == [w \in {2, 3} |-> 1]
CapTwo == [w \in {2, 3} |-> 2]
CapOneOrThree == [w \in {2, 3} |-> IF w = 2 THEN 1 ELSE 3]

\* w1..w3 and t1..t3 are permuted alike: a behaviour has calls of one kind only.
Twin == w1 :> t1 @@ w2 :> t2 @@ w3 :> t3

Symmetry ==
    {p @@ [t \in {t1, t2, t3} |-> Twin[p[CHOOSE w \in {w1, w2, w3} : Twin[w] = t]]] : p \in Permutations({w1, w2, w3})}

(***************************************************************************)
(* Two scenarios of the limits in one run: the Tier-2 calls against a cap    *)
(* of one, over time, crashes and a failed append; and the Tier-3 ones with  *)
(* a Tier-1 call, in flight together, against the breaker and the kill       *)
(* switch, with a crash once the breaker has tripped.  Any other run has one  *)
(* scenario, with all of its calls.                                          *)
(***************************************************************************)
CONSTANT Scenarios

VARIABLE scenario

MCInit == Init /\ scenario \in Scenarios

Coming ==
    CASE scenario = "cap"     -> {w1, w2, w3}
      [] scenario = "breaker" -> {t1, t2, t3, d1}
      [] OTHER                -> Calls

MCNext ==
    /\ UNCHANGED scenario
    /\ (\E c \in Coming : Steps(c)) \/ Surroundings
    /\ scenario = "cap" => ~killSwitch'
    /\ scenario = "breaker" => /\ now' = 0 /\ faults' = 0 /\ crashes' < MaxCrashes
                               /\ crashes' # crashes => tripped

MCSpec == MCInit /\ [][MCNext]_<<vars, scenario>>
================================================================================
