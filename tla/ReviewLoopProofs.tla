---------------------------- MODULE ReviewLoopProofs ----------------------------
(* What the fix loop promises, for any number of workflow runs, attempts, pushes,  *)
(* deaths of jobs and releases, and any overlap of runs of different groups.      *)
EXTENDS ReviewLoop, FiniteSetTheorems, SequenceTheorems, TLAPS

--------------------------------------------------------------------------------
(* The ledger as a sequence: its claims are appended, so what it says of a claimed  *)
(* head stands.                                                                    *)

LEMMA LeastOf ==
  ASSUME NEW S \in SUBSET Nat, S # {}
  PROVE  \E i \in S : \A j \in S : i <= j
<1> DEFINE R == OpToRel(<, Nat)
<1>1. IsWellFoundedOn(R, Nat)
  BY NatLessThanWellFounded
<1>2. \A t, u \in Nat : u < t => <<u, t>> \in R
  BY DEF OpToRel
<1> HIDE DEF R
<1>3. PICK t \in S : \A u \in S : ~(<<u, t>> \in R)
  BY <1>1, WFMin
<1>4. \A u \in S : t <= u
  <2>1. \A u \in S : ~(u < t)
    BY <1>2, <1>3
  <2> QED BY <2>1
<1> QED BY <1>4

LEMMA GreatestOf ==
  ASSUME NEW n \in Nat, NEW S \in SUBSET (1..n), S # {}
  PROVE  \E i \in S : \A j \in S : j <= i
<1> DEFINE T == {n - i : i \in S}
<1>1. T \subseteq Nat /\ T # {}
  <2>1. \A i \in S : n - i \in Nat
    OBVIOUS
  <2> QED BY <2>1
<1> HIDE DEF T
<1>2. PICK t \in T : \A u \in T : t <= u
  BY <1>1, LeastOf
<1>3. n - t \in S /\ \A i \in S : n - t >= i
  BY <1>2 DEF T
<1> QED BY <1>3

LEMMA FirstIsFirst ==
  ASSUME NEW C, NEW l \in Seq(C), NEW h, ClaimsFor(l, h) # {}
  PROVE  /\ FirstClaim(l, h) \in ClaimsFor(l, h)
         /\ \A j \in ClaimsFor(l, h) : FirstClaim(l, h) <= j
<1>1. ClaimsFor(l, h) \in SUBSET Nat
  BY DEF ClaimsFor
<1>2. \E i \in ClaimsFor(l, h) : \A j \in ClaimsFor(l, h) : i <= j
  BY <1>1, LeastOf
<1> QED BY <1>2 DEF FirstClaim

\* The claim that comes first is the only one that does.
LEMMA FirstIsOne ==
  ASSUME NEW C, NEW l \in Seq(C), NEW h, NEW i \in ClaimsFor(l, h),
         \A j \in ClaimsFor(l, h) : i <= j
  PROVE  FirstClaim(l, h) = i
<1>1. /\ FirstClaim(l, h) \in ClaimsFor(l, h)
      /\ \A j \in ClaimsFor(l, h) : FirstClaim(l, h) <= j
  BY FirstIsFirst
<1>2. ClaimsFor(l, h) \subseteq Nat
  BY DEF ClaimsFor
<1> QED BY <1>1, <1>2

LEMMA Appended ==
  ASSUME NEW C, NEW l \in Seq(C), NEW x \in C
  PROVE  /\ Append(l, x) \in Seq(C) /\ Len(Append(l, x)) = Len(l) + 1
         /\ DOMAIN l = 1..Len(l) /\ DOMAIN Append(l, x) = 1..(Len(l) + 1)
         /\ \A i \in DOMAIN l : i \in DOMAIN Append(l, x) /\ Append(l, x)[i] = l[i]
         /\ Append(l, x)[Len(l) + 1] = x
OBVIOUS

\* What one more claim leaves of a claimed head: its first claim and its place.
LEMMA Stands ==
  ASSUME NEW C, NEW l \in Seq(C), NEW x \in C, NEW h, ClaimsFor(l, h) # {}
  PROVE  /\ ClaimsFor(Append(l, x), h) # {}
         /\ FirstClaim(Append(l, x), h) = FirstClaim(l, h)
         /\ Position(Append(l, x), h) = Position(l, h)
<1> DEFINE m == Append(l, x)
<1>1. m \in Seq(C) /\ DOMAIN l = 1..Len(l) /\ DOMAIN m = 1..(Len(l) + 1)
      /\ Len(l) \in Nat /\ \A i \in DOMAIN l : m[i] = l[i]
  BY Appended
<1> HIDE DEF m
<1>2. PICK f \in ClaimsFor(l, h) : f = FirstClaim(l, h) /\ \A j \in ClaimsFor(l, h) : f <= j
  BY FirstIsFirst
<1>3. f \in 1..Len(l)
  BY <1>1 DEF ClaimsFor
<1>4. f \in ClaimsFor(m, h)
  BY <1>1, <1>3 DEF ClaimsFor
<1>5. \A j \in ClaimsFor(m, h) : f <= j
  <2> SUFFICES ASSUME NEW j \in ClaimsFor(m, h) PROVE f <= j
    OBVIOUS
  <2>1. CASE j \in 1..Len(l)
    BY <1>1, <1>2, <2>1 DEF ClaimsFor
  <2>2. CASE j = Len(l) + 1
    BY <1>1, <1>3, <2>2
  <2> QED BY <1>1, <2>1, <2>2 DEF ClaimsFor
<1>6. FirstClaim(m, h) = f
  BY <1>1, <1>4, <1>5, FirstIsOne
<1>7. {m[i].head : i \in 1..f} = {l[i].head : i \in 1..f}
  <2>1. \A i \in 1..f : m[i] = l[i]
    BY <1>1, <1>3
  <2> QED BY <2>1
<1> QED BY <1>2, <1>4, <1>6, <1>7 DEF Position, m

LEMMA OwnsStands ==
  ASSUME NEW C, NEW l \in Seq(C), NEW x \in C, NEW h, NEW i \in ClaimsFor(l, h)
  PROVE  /\ i \in ClaimsFor(Append(l, x), h)
         /\ Owns(Append(l, x), h, i) = Owns(l, h, i)
<1>1. i \in ClaimsFor(Append(l, x), h)
  BY Appended DEF ClaimsFor
<1> QED BY <1>1, Stands DEF Owns

LEMMA HeadsFinite ==
  ASSUME NEW C, NEW l \in Seq(C), NEW n \in Nat, n <= Len(l)
  PROVE  /\ IsFiniteSet({l[i].head : i \in 1..n}) /\ IsFiniteSet(ClaimedHeads(l))
         /\ Cardinality({l[i].head : i \in 1..n}) \in Nat
         /\ Cardinality(ClaimedHeads(l)) \in Nat
<1> DEFINE f == [i \in 1..n |-> l[i].head]
           g == [i \in 1..Len(l) |-> l[i].head]
<1>1. f \in Surjection(1..n, {l[i].head : i \in 1..n})
  BY DEF Surjection
<1>2. g \in Surjection(1..Len(l), ClaimedHeads(l))
  <2>1. ClaimedHeads(l) = {l[i].head : i \in 1..Len(l)}
    BY DEF ClaimedHeads
  <2> QED BY <2>1 DEF Surjection
<1>3. IsFiniteSet(1..n) /\ IsFiniteSet(1..Len(l))
  BY FS_Interval
<1>4. IsFiniteSet({l[i].head : i \in 1..n}) /\ IsFiniteSet(ClaimedHeads(l))
  BY <1>1, <1>2, <1>3, FS_Surjection
<1> QED BY <1>4, FS_CardinalityType

LEMMA PositionIsNat ==
  ASSUME NEW C, NEW l \in Seq(C), NEW h, ClaimsFor(l, h) # {}
  PROVE  Position(l, h) \in Nat \ {0}
<1>1. FirstClaim(l, h) \in 1..Len(l)
  BY FirstIsFirst DEF ClaimsFor
<1> DEFINE S == {l[i].head : i \in 1..FirstClaim(l, h)}
<1>2. IsFiniteSet(S) /\ Cardinality(S) \in Nat
  BY <1>1, HeadsFinite
<1>3. S # {}
  <2>1. l[1].head \in S
    BY <1>1
  <2> QED BY <2>1
<1>4. Cardinality(S) # 0
  BY <1>2, <1>3, FS_EmptySet
<1> QED BY <1>2, <1>4 DEF Position

\* No more heads are owned than there are attempts, however many are claimed.
LEMMA OwnedHeads ==
  ASSUME NEW C, NEW l \in Seq(C), MaxAttempts \in Nat, NEW H,
         \A h \in H : ClaimsFor(l, h) # {} /\ Position(l, h) <= MaxAttempts
  PROVE  IsFiniteSet(H) /\ Cardinality(H) <= MaxAttempts
<1>1. CASE H = {}
  BY <1>1, FS_EmptySet
<1>2. CASE H # {}
  <2> DEFINE T == {FirstClaim(l, h) : h \in H}
  <2>1. \A h \in H : FirstClaim(l, h) \in 1..Len(l) /\ l[FirstClaim(l, h)].head = h
    BY FirstIsFirst DEF ClaimsFor
  <2>2. T \in SUBSET (1..Len(l)) /\ T # {}
    BY <1>2, <2>1
  <2>3. PICK t \in T : \A u \in T : u <= t
    <3>1. Len(l) \in Nat
      OBVIOUS
    <3> HIDE DEF T
    <3> QED BY <2>2, <3>1, GreatestOf
  <2>4. PICK g \in H : t = FirstClaim(l, g)
    OBVIOUS
  <2> DEFINE S == {l[i].head : i \in 1..t}
  <2>5. H \subseteq S
    <3> SUFFICES ASSUME NEW h \in H PROVE h \in S
      OBVIOUS
    <3>1. FirstClaim(l, h) <= t /\ FirstClaim(l, h) \in Nat /\ FirstClaim(l, h) >= 1 /\ t \in Nat
      BY <2>1, <2>2, <2>3
    <3> QED BY <2>1, <3>1
  <2>6. t \in Nat /\ t <= Len(l)
    BY <2>2
  <2>7. IsFiniteSet(S) /\ Cardinality(S) \in Nat
    BY <2>6, HeadsFinite
  <2>8. Cardinality(S) <= MaxAttempts
    BY <2>4 DEF Position
  <2>9. IsFiniteSet(H) /\ Cardinality(H) <= Cardinality(S)
    BY <2>5, <2>7, FS_Subset
  <2>10. Cardinality(H) \in Nat
    BY <2>9, FS_CardinalityType
  <2> QED BY <2>7, <2>8, <2>9, <2>10
<1> QED BY <1>1, <1>2
--------------------------------------------------------------------------------
(* The invariant. *)

Claims  == [head : Commits, attempt : 1..MaxAttempts]
Reports == [key : Keys, halts : BOOLEAN]
Places  == Live \cup Died \cup {"idle", "done"}
RunRec  == [pc : Places, group : {"pr", "unknown"}, ciFailed : 0..MaxHead, head : 0..MaxHead,
            stopped : BOOLEAN, attempt : 0..MaxAttempts, comment : Nat,
            won : BOOLEAN, halts : BOOLEAN, key : Keys]

Working == {"fix", "prepush", "push", "rereview"}
Acting  == Working \cup ClaimJob \cup ReportJob

\* What a run keeps of its claim: a comment of its own head; once it has won, the first one
\* for that head, within the limit, until what came of it is told.
Local(r) ==
  /\ run[r].pc \in {"idle", "plan"} => run[r].comment = 0
  /\ run[r].pc # "idle" => run[r].head # 0
  /\ run[r].pc = "post" => run[r].attempt # 0
  /\ run[r].comment # 0 => run[r].comment \in ClaimsFor(ledger, run[r].head)
  /\ run[r].pc = "verify" => run[r].comment # 0
  /\ run[r].pc \in Working => run[r].won
  /\ run[r].won =>
       /\ run[r].pc \in Working \cup ReportJob \cup {"report died", "done"}
       /\ run[r].comment # 0 /\ Owns(ledger, run[r].head, run[r].comment)
       /\ run[r].pc # "done" => run[r].key = Attempt(run[r].head)
       /\ run[r].pc \in {"label", "done"} => Told(run[r].head)
  /\ run[r].comment # 0 /\ ~run[r].won =>
       \/ run[r].pc = "verify"
       \/ faults > 0
       \/ run[r].pc = "done" /\ ~Owns(ledger, run[r].head, run[r].comment)

\* The runs of one group do not overlap.
OneLive ==
  \A r, s \in Runs : r # s /\ run[r].pc \in Live /\ run[s].pc \in Live => run[r].group # run[s].group

\* A comment is of one run.
Distinct ==
  \A r, s \in Runs : r # s /\ run[r].comment # 0 => run[r].comment # run[s].comment

\* No run beyond its triage is of another group.  Unlike OneGroup it never comes back once it
\* is false: a run that dies in its triage is forgotten.
OneActed == \A r \in Runs : run[r].pc \notin {"idle", "plan"} => run[r].group = "pr"

\* While no two runs act at a time, a report that is about to be posted is the first of its
\* key, and a push that is about to be made is not of a halted loop.
Apart ==
  OneActed =>
    /\ \A i, j \in DOMAIN reports : reports[i].key = reports[j].key => i = j
    /\ \A r \in Runs : /\ run[r].pc = "tell" => ~Reported(run[r].key)
                       /\ run[r].pc = "push" => ~halted

Halting ==
  (\E i \in DOMAIN reports : reports[i].halts) /\ faults = 0 /\ releases = 0 =>
    halted \/ \E r \in Runs : run[r].pc = "label"

LoopInv ==
  /\ TypeOK /\ OneLive /\ Distinct /\ Apart /\ Halting /\ HumanWorkStands
  /\ \A r \in Runs : Local(r)

LEMMA RunTypes == TypeOK => /\ run \in [Runs -> RunRec] /\ ledger \in Seq(Claims)
                            /\ reports \in Seq(Reports)
BY DEF TypeOK, RunRec, Claims, Reports, Places

LEMMA Numbers ==
  MaxHead \in Nat /\ 0 \in 0..MaxHead /\ 0 \in 0..MaxAttempts /\ 0 \in Nat /\ Exhausted \in Keys
<1>1. MaxHead \in Nat
  BY ReviewLoopAssumption DEF MaxHead
<1>2. 0 \in 0..MaxHead /\ 0 \in 0..MaxAttempts
  BY <1>1, ReviewLoopAssumption
<1>3. Exhausted \in Keys
  BY DEF Keys
<1> QED BY <1>1, <1>2, <1>3

LEMMA PlacesAre ==
  /\ Live \subseteq Places /\ Acting \subseteq Live
  /\ {"idle", "done", "fix", "report", "claim", "post", "verify", "tell", "label",
      "prepush", "push", "rereview", "claim died", "report died"} \subseteq Places
BY DEF Places, Live, ClaimJob, ReportJob, Died, Acting, Working

--------------------------------------------------------------------------------
(* What the steps of a run do to what it knows.                                     *)

Turns(r, pc, comment, won, key) ==
  /\ run' \in [Runs -> RunRec] /\ \A s \in Runs \ {r} : run'[s] = run[s]
  /\ run'[r].pc = pc /\ run'[r].comment = comment /\ run'[r].won = won /\ run'[r].key = key
  /\ run'[r].head = run[r].head /\ run'[r].group = run[r].group

\* The same for the steps that leave the claim alone.
Keeps(r, pc, key) == Turns(r, pc, run[r].comment, run[r].won, key)

LEMMA Becomes ==
  ASSUME run \in [Runs -> RunRec], NEW r \in Runs, NEW k \in RunRec, run' = [run EXCEPT ![r] = k],
         k.head = run[r].head, k.group = run[r].group
  PROVE  Turns(r, k.pc, k.comment, k.won, k.key)
BY DEF Turns

LEMMA EndTurns ==
  ASSUME run \in [Runs -> RunRec], NEW r \in Runs, End(r)
  PROVE  Keeps(r, "done", Exhausted)
<1> DEFINE k == [Goes(r, "done") EXCEPT !.halts = FALSE, !.key = Exhausted]
<1>1. k \in RunRec
  BY Numbers, PlacesAre DEF RunRec, Goes
<1>2. /\ k.pc = "done" /\ k.comment = run[r].comment /\ k.won = run[r].won /\ k.key = Exhausted
      /\ k.head = run[r].head /\ k.group = run[r].group
  BY DEF RunRec, Goes
<1>3. run' = [run EXCEPT ![r] = k]
  BY DEF End
<1> HIDE DEF k
<1> QED BY <1>1, <1>2, <1>3, Becomes DEF Keeps

\* A job hands its run to another.
LEMMA PcTurns ==
  ASSUME run \in [Runs -> RunRec], NEW r \in Runs, NEW pc \in Places,
         run' = [run EXCEPT ![r].pc = pc]
  PROVE  Keeps(r, pc, run[r].key)
<1> DEFINE k == [run[r] EXCEPT !.pc = pc]
<1>1. k \in RunRec
  BY DEF RunRec
<1>2. /\ k.pc = pc /\ k.comment = run[r].comment /\ k.won = run[r].won /\ k.key = run[r].key
      /\ k.head = run[r].head /\ k.group = run[r].group
  BY DEF RunRec
<1>3. run' = [run EXCEPT ![r] = k]
  OBVIOUS
<1> HIDE DEF k
<1> QED BY <1>1, <1>2, <1>3, Becomes DEF Keeps

LEMMA ToReportTurns ==
  ASSUME run \in [Runs -> RunRec], NEW r \in Runs, NEW o \in DOMAIN Halts, ToReport(r, o)
  PROVE  Keeps(r, "report", run[r].key)
<1> DEFINE k == [run[r] EXCEPT !.pc = "report", !.halts = Halts[o]]
<1>1. Halts[o] \in BOOLEAN
  BY DEF Halts
<1>2. k \in RunRec
  BY <1>1, PlacesAre DEF RunRec
<1>3. /\ k.pc = "report" /\ k.comment = run[r].comment /\ k.won = run[r].won /\ k.key = run[r].key
      /\ k.head = run[r].head /\ k.group = run[r].group
  BY DEF RunRec
<1>4. run' = [run EXCEPT ![r] = k]
  BY DEF ToReport
<1> HIDE DEF k
<1> QED BY <1>2, <1>3, <1>4, Becomes DEF Keeps

LEMMA OnceTurns ==
  ASSUME run \in [Runs -> RunRec], NEW r \in Runs, NEW key \in Keys, NEW o \in DOMAIN Halts,
         Once(r, key, o)
  PROVE  Keeps(r, "done", Exhausted) \/ Keeps(r, "report", key)
<1>1. CASE Reported(key)
  BY <1>1, EndTurns DEF Once
<1>2. CASE ~Reported(key)
  <2> DEFINE k == [Goes(r, "report") EXCEPT !.halts = Halts[o], !.key = key]
  <2>1. Halts[o] \in BOOLEAN
    BY DEF Halts
  <2>2. k \in RunRec
    BY <2>1, Numbers, PlacesAre DEF RunRec, Goes
  <2>3. /\ k.pc = "report" /\ k.comment = run[r].comment /\ k.won = run[r].won /\ k.key = key
        /\ k.head = run[r].head /\ k.group = run[r].group
    BY DEF RunRec, Goes
  <2>4. run' = [run EXCEPT ![r] = k]
    BY <1>2 DEF Once
  <2> HIDE DEF k
  <2> QED BY <2>2, <2>3, <2>4, Becomes DEF Keeps
<1> QED BY <1>1, <1>2

LEMMA PlanTurns ==
  ASSUME LoopInv, NEW r \in Runs, Plan(r)
  PROVE  \E pc \in {"done", "report", "claim"}, key \in Keys : Keeps(r, pc, key)
<1>1. run \in [Runs -> RunRec]
  BY RunTypes DEF LoopInv
<1>2. run[r].head \in Commits
  <2>1. run[r].head # 0 /\ run[r].head \in 0..MaxHead
    BY <1>1 DEF LoopInv, Local, Plan, RunRec
  <2> QED BY <2>1, ReviewLoopAssumption DEF Commits, MaxHead
<1>3. Exhausted \in Keys
  BY DEF Keys
<1>4. \A k \in {"ci-failed", "incomplete", "too-many", "old-threads"} : <<k, run[r].head>> \in Keys
  BY <1>2 DEF Keys
<1>5. "halt" \in DOMAIN Halts /\ "report" \in DOMAIN Halts
  BY DEF Halts
<1>6. CASE End(r)
  BY <1>1, <1>3, <1>6, EndTurns
<1>7. ASSUME NEW key \in Keys, NEW o \in DOMAIN Halts, Once(r, key, o)
      PROVE  \E pc \in {"done", "report", "claim"}, kk \in Keys : Keeps(r, pc, kk)
  BY <1>1, <1>3, <1>7, OnceTurns
<1>8. CASE run' = [run EXCEPT ![r] = Goes(r, "claim")]
  <2> DEFINE k == Goes(r, "claim")
  <2>1. k \in RunRec
    BY <1>1, Numbers, PlacesAre DEF RunRec, Goes
  <2>2. /\ k.pc = "claim" /\ k.comment = run[r].comment /\ k.won = run[r].won /\ k.key = run[r].key
        /\ k.head = run[r].head /\ k.group = run[r].group /\ run[r].key \in Keys
    BY <1>1 DEF RunRec, Goes
  <2> HIDE DEF k
  <2>3. Turns(r, k.pc, k.comment, k.won, k.key)
    BY <1>1, <1>8, <2>1, <2>2, Becomes DEF k
  <2> QED BY <2>2, <2>3 DEF Keeps
<1>9. Fix(r) => End(r) \/ Once(r, Exhausted, "halt") \/ run' = [run EXCEPT ![r] = Goes(r, "claim")]
  BY DEF Fix
<1>10. review[run[r].head] \in Reviews
  BY <1>2 DEF LoopInv, TypeOK
<1>11. \/ End(r) \/ Fix(r)
       \/ Once(r, <<"ci-failed", run[r].head>>, "halt")
       \/ Once(r, <<"incomplete", run[r].head>>, "report")
       \/ Once(r, <<"too-many", run[r].head>>, "halt")
       \/ Once(r, <<"old-threads", run[r].head>>, "report")
  BY <1>10, Zenon DEF Plan, Reviews
<1> QED BY <1>3, <1>4, <1>5, <1>6, <1>7, <1>8, <1>9, <1>11

LEMMA ReadClaimsTurns ==
  ASSUME LoopInv, NEW r \in Runs, ReadClaims(r)
  PROVE  \/ Keeps(r, "done", Exhausted)
         \/ Keeps(r, "post", run[r].key) /\ run'[r].attempt # 0
<1>1. run \in [Runs -> RunRec] /\ ledger \in Seq(Claims)
  BY RunTypes DEF LoopInv
<1>2. CASE End(r)
  BY <1>1, <1>2, EndTurns
<1>3. CASE ~End(r)
  <2> DEFINE n == Cardinality(ClaimedHeads(ledger))
             k == [run[r] EXCEPT !.pc = "post", !.attempt = n + 1]
  <2>1. n \in Nat
    BY <1>1, HeadsFinite, 0 <= Len(ledger)
  <2>2. ~(n >= MaxAttempts) /\ run' = [run EXCEPT ![r].pc = "post", ![r].attempt = n + 1]
    BY <1>3 DEF ReadClaims
  <2>3. n + 1 \in 1..MaxAttempts
    BY <2>1, <2>2, ReviewLoopAssumption
  <2> HIDE DEF n
  <2>4. k \in RunRec
    BY <1>1, <2>3, n + 1 \in 0..MaxAttempts, PlacesAre DEF RunRec
  <2>5. /\ k.pc = "post" /\ k.comment = run[r].comment /\ k.won = run[r].won /\ k.key = run[r].key
        /\ k.head = run[r].head /\ k.group = run[r].group /\ k.attempt = n + 1
    BY <1>1 DEF RunRec
  <2>6. run' = [run EXCEPT ![r] = k]
    BY <2>2
  <2> HIDE DEF k
  <2>7. Turns(r, k.pc, k.comment, k.won, k.key)
    BY <1>1, <2>4, <2>5, <2>6, Becomes
  <2>8. run'[r].attempt = n + 1
    BY <1>1, <2>5, <2>6
  <2> QED BY <2>1, <2>5, <2>7, <2>8 DEF Keeps
<1> QED BY <1>2, <1>3

LEMMA PostClaimTurns ==
  ASSUME LoopInv, NEW r \in Runs, PostClaim(r)
  PROVE  Turns(r, "verify", Len(ledger) + 1, run[r].won, run[r].key)
<1>1. run \in [Runs -> RunRec] /\ ledger \in Seq(Claims)
  BY RunTypes DEF LoopInv
<1> DEFINE k == [run[r] EXCEPT !.pc = "verify", !.comment = Len(ledger) + 1]
<1>2. k \in RunRec
  <2>1. Len(ledger) + 1 \in Nat
    BY <1>1
  <2> QED BY <1>1, <2>1 DEF RunRec, Places, Live, ClaimJob
<1>3. /\ k.pc = "verify" /\ k.comment = Len(ledger) + 1 /\ k.won = run[r].won
      /\ k.key = run[r].key /\ k.head = run[r].head /\ k.group = run[r].group
  BY <1>1 DEF RunRec
<1>4. run' = [run EXCEPT ![r] = k]
  BY DEF PostClaim
<1> HIDE DEF k
<1> QED BY <1>1, <1>2, <1>3, <1>4, Becomes

LEMMA VerifyClaimTurns ==
  ASSUME LoopInv, NEW r \in Runs, VerifyClaim(r)
  PROVE  \/ /\ Owns(ledger, run[r].head, run[r].comment)
            /\ Turns(r, "fix", run[r].comment, TRUE, Attempt(run[r].head))
         \/ /\ ~Owns(ledger, run[r].head, run[r].comment)
            /\ Keeps(r, "done", Exhausted)
<1>1. run \in [Runs -> RunRec] /\ ledger \in Seq(Claims)
  BY RunTypes DEF LoopInv
<1>2. CASE ~Owns(ledger, run[r].head, run[r].comment)
  BY <1>1, <1>2, EndTurns DEF VerifyClaim
<1>3. CASE Owns(ledger, run[r].head, run[r].comment)
  <2> DEFINE p == Position(ledger, run[r].head)
             k == [run[r] EXCEPT !.pc = "fix", !.won = TRUE, !.attempt = p,
                                 !.key = Attempt(run[r].head)]
  <2>1. p \in 0..MaxAttempts
    BY <1>1, <1>3, PositionIsNat, ReviewLoopAssumption DEF Owns
  <2>2. Attempt(run[r].head) \in Keys
    <3>1. run[r].head # 0 /\ run[r].head \in 0..MaxHead
      BY <1>1 DEF LoopInv, Local, VerifyClaim, RunRec
    <3>2. run[r].head \in Commits
      BY <3>1, ReviewLoopAssumption DEF Commits, MaxHead
    <3> QED BY <3>2 DEF Attempt, Keys
  <2>3. run' = [run EXCEPT ![r] = k]
    BY <1>3 DEF VerifyClaim
  <2> HIDE DEF p
  <2>4. k \in RunRec
    BY <1>1, <2>1, <2>2 DEF RunRec, Places, Live
  <2>5. /\ k.pc = "fix" /\ k.comment = run[r].comment /\ k.won = TRUE
        /\ k.key = Attempt(run[r].head) /\ k.head = run[r].head /\ k.group = run[r].group
    BY <1>1 DEF RunRec
  <2> HIDE DEF k
  <2>6. Turns(r, k.pc, k.comment, k.won, k.key)
    BY <1>1, <2>3, <2>4, <2>5, Becomes
  <2> QED BY <1>3, <2>5, <2>6
<1> QED BY <1>2, <1>3

\* The steps of a run after its claim, and what they find.
LEMMA WorkTurns ==
  ASSUME run \in [Runs -> RunRec], NEW r \in Runs
  PROVE  /\ FixAndVerify(r) => Keeps(r, "prepush", run[r].key) \/ Keeps(r, "report", run[r].key)
         /\ Prepush(r) => \/ Keeps(r, "push", run[r].key) /\ ~halted
                          \/ Keeps(r, "report", run[r].key)
         /\ Push(r) => Keeps(r, "rereview", run[r].key)
         /\ PushRefused(r) \/ Rereview(r) \/ PushJobDies(r) => Keeps(r, "report", run[r].key)
<1>1. /\ \A o \in DOMAIN Halts : ToReport(r, o) => Keeps(r, "report", run[r].key)
      /\ {"unfixed", "push-refused", "rereview-failed", "pushed"} \subseteq DOMAIN Halts
  BY ToReportTurns DEF Halts
<1>2. \A pc \in Working : run' = [run EXCEPT ![r].pc = pc] => Keeps(r, pc, run[r].key)
  BY PcTurns, PlacesAre DEF Working
<1>3. FixAndVerify(r) => Keeps(r, "prepush", run[r].key) \/ Keeps(r, "report", run[r].key)
  BY <1>1, <1>2 DEF FixAndVerify, Working
<1>4. Prepush(r) => \/ Keeps(r, "push", run[r].key) /\ ~halted
                    \/ Keeps(r, "report", run[r].key)
  BY <1>1, <1>2 DEF Prepush, Working, Stopped, Labelled
<1>5. Push(r) => Keeps(r, "rereview", run[r].key)
  BY <1>2 DEF Push, Working
<1>6. PushRefused(r) \/ Rereview(r) \/ PushJobDies(r) => Keeps(r, "report", run[r].key)
  BY <1>1 DEF PushRefused, Rereview, PushJobDies
<1> QED BY <1>3, <1>4, <1>5, <1>6

LEMMA ReportTurns ==
  ASSUME run \in [Runs -> RunRec], NEW r \in Runs
  PROVE  /\ ReadReports(r) => \/ Reported(run[r].key) /\ Keeps(r, "done", Exhausted)
                              \/ ~Reported(run[r].key) /\ Keeps(r, "tell", run[r].key)
         /\ Tell(r) => \/ run[r].halts /\ Keeps(r, "label", run[r].key)
                       \/ ~run[r].halts /\ Keeps(r, "done", Exhausted)
         /\ Label(r) \/ VerifyTooEarly(r) => Keeps(r, "done", Exhausted)
         /\ Rerun(r) => \/ run[r].pc = "claim died" /\ Keeps(r, "claim", run[r].key)
                        \/ run[r].pc = "report died" /\ Keeps(r, "report", run[r].key)
<1>1. /\ End(r) => Keeps(r, "done", Exhausted)
      /\ \A pc \in Places : run' = [run EXCEPT ![r].pc = pc] => Keeps(r, pc, run[r].key)
  BY EndTurns, PcTurns
<1>2. {"tell", "label", "claim", "report"} \subseteq Places
  BY PlacesAre
<1>3. ReadReports(r) => \/ Reported(run[r].key) /\ Keeps(r, "done", Exhausted)
                        \/ ~Reported(run[r].key) /\ Keeps(r, "tell", run[r].key)
  BY <1>1, <1>2 DEF ReadReports
<1>4. Tell(r) => \/ run[r].halts /\ Keeps(r, "label", run[r].key)
                 \/ ~run[r].halts /\ Keeps(r, "done", Exhausted)
  BY <1>1, <1>2 DEF Tell
<1>5. Label(r) \/ VerifyTooEarly(r) => Keeps(r, "done", Exhausted)
  BY <1>1 DEF Label, VerifyTooEarly
<1>6. Rerun(r) => \/ run[r].pc = "claim died" /\ Keeps(r, "claim", run[r].key)
                  \/ run[r].pc = "report died" /\ Keeps(r, "report", run[r].key)
  <2>1. Rerun(r) => run[r].pc \in {"claim died", "report died"}
    BY DEF Rerun, Died
  <2>2. CASE run[r].pc = "claim died"
    BY <1>1, <1>2, <2>2 DEF Rerun
  <2>3. CASE run[r].pc = "report died"
    BY <1>1, <1>2, <2>3 DEF Rerun
  <2> QED BY <2>1, <2>2, <2>3
<1> QED BY <1>3, <1>4, <1>5, <1>6

\* A job dies: a triage is forgotten, a claim or a report can be run again.
LEMMA DiesTurns ==
  ASSUME run \in [Runs -> RunRec], NEW r \in Runs, JobDies(r)
  PROVE  \/ run[r].pc = "plan" /\ run' = [run EXCEPT ![r] = Fresh]
         \/ run[r].pc \in ClaimJob /\ Keeps(r, "claim died", run[r].key)
         \/ run[r].pc \in ReportJob /\ Keeps(r, "report died", run[r].key)
<1>1. "plan" \notin ClaimJob \cup ReportJob /\ ClaimJob \cap ReportJob = {}
  BY DEF ClaimJob, ReportJob
<1>2. CASE run[r].pc = "plan"
  BY <1>2 DEF JobDies
<1>3. {"claim died", "report died"} \subseteq Places
  BY DEF Places, Died
<1>4. CASE run[r].pc \in ClaimJob
  <2>1. run' = [run EXCEPT ![r] = [run[r] EXCEPT !.pc = "claim died"]]
    BY <1>1, <1>4 DEF JobDies
  <2> QED BY <1>3, <1>4, <2>1, PcTurns
<1>5. CASE run[r].pc \in ReportJob
  <2>1. run' = [run EXCEPT ![r] = [run[r] EXCEPT !.pc = "report died"]]
    BY <1>1, <1>5 DEF JobDies
  <2> QED BY <1>3, <1>5, <2>1, PcTurns
<1> QED BY <1>2, <1>4, <1>5 DEF JobDies

LEMMA FreshIsRec == Fresh \in RunRec
BY Numbers, PlacesAre DEF Fresh, RunRec

LEMMA BeginTurns ==
  ASSUME LoopInv, NEW r \in Runs, Begin(r)
  PROVE  \E k \in RunRec : /\ run' = [run EXCEPT ![r] = k]
                           /\ k.pc = "plan" /\ k.comment = 0 /\ k.won = FALSE /\ k.head = head
                           /\ \A s \in Runs : run[s].pc \in Live => run[s].group # k.group
<1>1. PICK g \in {"pr", "unknown"}, c \in {0, head} :
        /\ \A s \in Runs : run[s].pc \in Live => run[s].group # g
        /\ run' = [run EXCEPT ![r] = [Fresh EXCEPT !.pc = "plan", !.group = g, !.ciFailed = c,
                                                   !.head = head, !.stopped = Stopped]]
  BY DEF Begin
<1> DEFINE k == [Fresh EXCEPT !.pc = "plan", !.group = g, !.ciFailed = c,
                              !.head = head, !.stopped = Stopped]
<1>2. c \in 0..MaxHead /\ head \in 0..MaxHead
  BY Numbers DEF LoopInv, TypeOK, Commits
<1>3. Stopped \in BOOLEAN
  BY DEF Stopped, Labelled, LoopInv, TypeOK
<1>4. "plan" \in Places
  BY DEF Places, Live
<1>5. k \in RunRec
  BY <1>2, <1>3, <1>4, FreshIsRec DEF RunRec
<1>6. /\ k.pc = "plan" /\ k.comment = 0 /\ k.won = FALSE /\ k.head = head /\ k.group = g
  BY DEF Fresh
<1> HIDE DEF k
<1>7. run' = [run EXCEPT ![r] = k]
  BY <1>1 DEF k
<1> QED BY <1>1, <1>5, <1>6, <1>7

--------------------------------------------------------------------------------
(* The pull request: what a step adds to the comments.                             *)

Grows ==
  /\ ledger' = ledger \/ \E x \in Claims : ledger' = Append(ledger, x)
  /\ reports' = reports \/ \E x \in Reports : reports' = Append(reports, x)
  /\ faults' = faults \/ faults' = faults + 1

LEMMA GrowsStep == ASSUME LoopInv, [Next]_vars PROVE Grows
<1>1. run \in [Runs -> RunRec]
  BY RunTypes DEF LoopInv
<1>2. ASSUME NEW r \in Runs, PostClaim(r) PROVE Grows
  <2>1. run[r].pc = "post" /\ run[r] \in RunRec /\ Local(r)
    BY <1>1, <1>2 DEF PostClaim, LoopInv
  <2>2. run[r].head \in Commits
    <3>1. run[r].head # 0 /\ run[r].head \in 0..MaxHead
      BY <2>1 DEF Local, RunRec
    <3> QED BY <3>1, Numbers DEF Commits
  <2>3. run[r].attempt \in 1..MaxAttempts
    <3>1. run[r].attempt # 0 /\ run[r].attempt \in 0..MaxAttempts
      BY <2>1 DEF Local, RunRec
    <3> QED BY <3>1, ReviewLoopAssumption
  <2>4. [head |-> run[r].head, attempt |-> run[r].attempt] \in Claims
    BY <2>2, <2>3 DEF Claims
  <2> QED BY <1>2, <2>4 DEF PostClaim, Grows
<1>3. ASSUME NEW r \in Runs, Tell(r) PROVE Grows
  <2>1. [key |-> run[r].key, halts |-> run[r].halts] \in Reports
    BY <1>1 DEF RunRec, Reports
  <2> QED BY <1>3, <2>1 DEF Tell, Grows
<1>4. ASSUME NEW r \in Runs, VerifyTooEarly(r) \/ JobDies(r) \/ PushJobDies(r) PROVE Grows
  BY <1>4 DEF VerifyTooEarly, JobDies, PushJobDies, Grows, world
<1>5. ASSUME NEW r \in Runs,
             \/ Begin(r) \/ Plan(r) \/ ReadClaims(r) \/ VerifyClaim(r) \/ FixAndVerify(r)
             \/ Prepush(r) \/ PushRefused(r) \/ Rereview(r) \/ ReadReports(r) \/ Rerun(r)
      PROVE  Grows
  <2>1. UNCHANGED <<world, faults>>
    BY <1>5 DEF Begin, Plan, ReadClaims, VerifyClaim, FixAndVerify, Prepush, PushRefused, Rereview,
                ReadReports, Rerun
  <2> QED BY <2>1 DEF Grows, world
<1>6. ASSUME NEW r \in Runs, Push(r) \/ Label(r) PROVE Grows
  BY <1>6 DEF Push, Label, Grows
<1>7. CASE HumanPush \/ ReviewArrives \/ Withdraw \/ Release
  BY <1>7 DEF HumanPush, ReviewArrives, Withdraw, Release, Grows
<1>8. CASE UNCHANGED vars
  BY <1>8 DEF vars, Grows
<1> QED BY <1>2, <1>3, <1>4, <1>5, <1>6, <1>7, <1>8 DEF Next, RunStep

LEMMA FaultCounts == TypeOK => head # 0 /\ faults + 1 > 0 /\ faults + 1 # 0
<1> SUFFICES ASSUME TypeOK PROVE head # 0 /\ faults + 1 > 0 /\ faults + 1 # 0
  OBVIOUS
<1>1. faults \in 0..MaxFaults /\ head \in Commits
  BY DEF TypeOK
<1> QED BY <1>1, Numbers, ReviewLoopAssumption DEF Commits

ToldNext(h) == \E i \in DOMAIN reports' : reports'[i].key = Attempt(h)

\* A claim of a head stays one, and is as good as it was; what was told stays told.
LEMMA WorldStands ==
  ASSUME TypeOK, Grows
  PROVE  /\ \A h : \A i \in ClaimsFor(ledger, h) :
              i \in ClaimsFor(ledger', h) /\ Owns(ledger', h, i) = Owns(ledger, h, i)
         /\ \A key : Reported(key) => Reported(key)'
         /\ \A h : Told(h) => ToldNext(h)
         /\ faults > 0 => faults' > 0
<1>1. ledger \in Seq(Claims) /\ reports \in Seq(Reports)
  BY RunTypes
<1>2. ASSUME NEW h, NEW i \in ClaimsFor(ledger, h)
      PROVE  i \in ClaimsFor(ledger', h) /\ Owns(ledger', h, i) = Owns(ledger, h, i)
  <2>1. CASE ledger' = ledger
    BY <1>2, <2>1
  <2>2. ASSUME NEW x \in Claims, ledger' = Append(ledger, x)
        PROVE  i \in ClaimsFor(ledger', h) /\ Owns(ledger', h, i) = Owns(ledger, h, i)
    <3>1. /\ i \in ClaimsFor(Append(ledger, x), h)
          /\ Owns(Append(ledger, x), h, i) = Owns(ledger, h, i)
      BY <1>1, <1>2, OwnsStands
    <3> QED BY <2>2, <3>1
  <2> QED BY <2>1, <2>2 DEF Grows
<1>3. \A i \in DOMAIN reports : i \in DOMAIN reports' /\ reports'[i] = reports[i]
  BY <1>1, Appended DEF Grows
<1>4. \A key : Reported(key) => Reported(key)'
  BY <1>3 DEF Reported
<1>5. \A h : Told(h) => ToldNext(h)
  BY <1>3 DEF Told, ToldNext
<1>6. faults > 0 => faults' > 0
  BY DEF Grows, TypeOK
<1> QED BY <1>2, <1>4, <1>5, <1>6

--------------------------------------------------------------------------------
(* What each run keeps.                                                            *)

LEMMA OtherLocal ==
  ASSUME TypeOK, Grows, NEW s \in Runs, Local(s), run'[s] = run[s]
  PROVE  Local(s)'
<1>1. run[s].comment # 0 =>
        /\ run[s].comment \in ClaimsFor(ledger', run[s].head)
        /\ Owns(ledger', run[s].head, run[s].comment) = Owns(ledger, run[s].head, run[s].comment)
  BY WorldStands DEF Local
<1>2. Told(run[s].head) => ToldNext(run[s].head)
  BY WorldStands
<1>3. faults > 0 => faults' > 0
  BY WorldStands
<1>4. run[s] \in RunRec
  BY RunTypes
<1> QED BY <1>1, <1>2, <1>3, <1>4 DEF Local, RunRec, Told, ToldNext

\* A step that leaves the claim alone, and takes a winner to no other end than a told one.
LEMMA KeepsLocal ==
  ASSUME TypeOK, Grows, NEW r \in Runs, Local(r), NEW pc, NEW key, Keeps(r, pc, key),
         run[r].pc \notin {"idle", "done", "verify"}, pc \notin {"idle", "plan", "verify"},
         pc = "post" => run'[r].attempt # 0,
         pc \in Working => run[r].won,
         run[r].won => /\ pc \in Working \cup ReportJob \cup {"report died", "done"}
                       /\ pc # "done" => key = run[r].key
                       /\ pc \in {"label", "done"} => ToldNext(run[r].head)
  PROVE  Local(r)'
<1>1. /\ run'[r].pc = pc /\ run'[r].comment = run[r].comment /\ run'[r].won = run[r].won
      /\ run'[r].key = key /\ run'[r].head = run[r].head
  BY DEF Keeps, Turns
<1>2. run[r].comment # 0 =>
        /\ run[r].comment \in ClaimsFor(ledger', run[r].head)
        /\ Owns(ledger', run[r].head, run[r].comment) = Owns(ledger, run[r].head, run[r].comment)
  BY WorldStands DEF Local
<1>3. faults > 0 => faults' > 0
  BY WorldStands
<1>4. run[r] \in RunRec
  BY RunTypes
<1>5. run[r].comment # 0 /\ ~run[r].won => faults > 0
  BY DEF Local
<1> QED BY <1>1, <1>2, <1>3, <1>4, <1>5 DEF Local, RunRec, Told, ToldNext

\* The same for a step that keeps the key.
LEMMA GoesLocal ==
  ASSUME TypeOK, Grows, NEW r \in Runs, Local(r), NEW pc \in Places, Keeps(r, pc, run[r].key),
         run[r].pc \notin {"idle", "done", "verify"}, pc \notin {"idle", "plan", "verify"},
         pc = "post" => run'[r].attempt # 0,
         pc \in Working => run[r].won,
         run[r].won => /\ pc \in Working \cup ReportJob \cup {"report died", "done"}
                       /\ pc \in {"label", "done"} => ToldNext(run[r].head)
  PROVE  Local(r)'
BY KeepsLocal

LEMMA ClaimLocal ==
  ASSUME LoopInv, Grows, NEW r \in Runs,
         Plan(r) \/ ReadClaims(r) \/ PostClaim(r) \/ VerifyClaim(r) \/ VerifyTooEarly(r)
  PROVE  Local(r)'
<1>1. Local(r) /\ TypeOK /\ run \in [Runs -> RunRec] /\ run[r] \in RunRec /\ ledger \in Seq(Claims)
  BY RunTypes DEF LoopInv
<1>2. CASE Plan(r)
  <2>1. run[r].pc = "plan"
    BY <1>2 DEF Plan
  <2>2. ~run[r].won
    BY <1>1, <2>1 DEF Local, Working, ReportJob
  <2>3. PICK pc \in {"done", "report", "claim"}, key \in Keys : Keeps(r, pc, key)
    BY <1>2, PlanTurns
  <2> QED BY <1>1, <2>1, <2>2, <2>3, KeepsLocal DEF Working
<1>3. CASE ReadClaims(r)
  <2>1. run[r].pc = "claim"
    BY <1>3 DEF ReadClaims
  <2>2. ~run[r].won
    BY <1>1, <2>1 DEF Local, Working, ReportJob
  <2>3. CASE Keeps(r, "done", Exhausted)
    BY <1>1, <2>1, <2>2, <2>3, KeepsLocal DEF Working
  <2>4. CASE Keeps(r, "post", run[r].key) /\ run'[r].attempt # 0
    BY <1>1, <2>1, <2>2, <2>4, GoesLocal, PlacesAre DEF Working
  <2> QED BY <1>3, <2>3, <2>4, ReadClaimsTurns
<1>4. CASE PostClaim(r)
  <2>1. Turns(r, "verify", Len(ledger) + 1, run[r].won, run[r].key) /\ run[r].pc = "post"
    BY <1>4, PostClaimTurns DEF PostClaim
  <2>2. ~run[r].won /\ run[r].head # 0
    BY <1>1, <2>1 DEF Local, Working, ReportJob
  <2>3. PICK x \in Claims : ledger' = Append(ledger, x) /\ x.head = run[r].head
    <3>1. run[r].attempt \in 1..MaxAttempts
      <4>1. run[r].attempt # 0 /\ run[r].attempt \in 0..MaxAttempts
        BY <1>1, <2>1 DEF Local, RunRec
      <4> QED BY <4>1, ReviewLoopAssumption
    <3>2. run[r].head \in Commits
      BY <1>1, <2>2, Numbers DEF RunRec, Commits
    <3> QED BY <1>4, <3>1, <3>2 DEF PostClaim, Claims
  <2>4. Len(ledger) + 1 \in ClaimsFor(ledger', run[r].head) /\ Len(ledger) + 1 # 0
    BY <1>1, <2>3, Appended DEF ClaimsFor
  <2>5. /\ run'[r].pc = "verify" /\ run'[r].comment = Len(ledger) + 1 /\ run'[r].won = FALSE
        /\ run'[r].head = run[r].head
    BY <1>1, <2>1, <2>2 DEF Turns, RunRec
  <2> QED BY <2>2, <2>4, <2>5 DEF Local, Working
<1>5. CASE VerifyClaim(r) \/ VerifyTooEarly(r)
  <2>1. run[r].pc = "verify"
    BY <1>5 DEF VerifyClaim, VerifyTooEarly
  <2>2. ~run[r].won /\ run[r].comment # 0 /\ run[r].head # 0
        /\ run[r].comment \in ClaimsFor(ledger, run[r].head)
    BY <1>1, <2>1 DEF Local, Working, ReportJob
  <2>3. CASE /\ Owns(ledger, run[r].head, run[r].comment)
             /\ Turns(r, "fix", run[r].comment, TRUE, Attempt(run[r].head))
             /\ VerifyClaim(r)
    <3>1. ledger' = ledger
      BY <2>3 DEF VerifyClaim, world
    <3>2. /\ run'[r].pc = "fix" /\ run'[r].comment = run[r].comment /\ run'[r].won = TRUE
          /\ run'[r].head = run[r].head /\ run'[r].key = Attempt(run'[r].head)
      BY <2>3 DEF Turns
    <3> QED BY <2>2, <2>3, <3>1, <3>2 DEF Local, Working
  <2>4. CASE Keeps(r, "done", Exhausted) /\ ledger' = ledger
             /\ (faults' > 0 \/ ~Owns(ledger, run[r].head, run[r].comment))
    <3>1. /\ run'[r].pc = "done" /\ run'[r].comment = run[r].comment /\ run'[r].won = FALSE
          /\ run'[r].head = run[r].head
      BY <1>1, <2>2, <2>4 DEF Keeps, Turns, RunRec
    <3> QED BY <2>2, <2>4, <3>1 DEF Local, Working
  <2>5. VerifyTooEarly(r) => /\ Keeps(r, "done", Exhausted) /\ ledger' = ledger /\ faults' > 0
    <3>1. VerifyTooEarly(r) => ledger' = ledger /\ faults' = faults + 1
      BY DEF VerifyTooEarly, world
    <3> QED BY <1>1, <3>1, FaultCounts, ReportTurns
  <2>6. VerifyClaim(r) => ledger' = ledger
    BY DEF VerifyClaim, world
  <2> QED BY <1>5, <2>3, <2>4, <2>5, <2>6, VerifyClaimTurns
<1> QED BY <1>2, <1>3, <1>4, <1>5

LEMMA WorkLocal ==
  ASSUME LoopInv, Grows, NEW r \in Runs,
         \/ FixAndVerify(r) \/ Prepush(r) \/ Push(r) \/ PushRefused(r) \/ Rereview(r)
         \/ PushJobDies(r)
  PROVE  Local(r)'
<1>1. Local(r) /\ TypeOK /\ run \in [Runs -> RunRec]
  BY RunTypes DEF LoopInv
<1>2. run[r].pc \in Working
  BY DEF FixAndVerify, Prepush, Push, PushRefused, Rereview, PushJobDies, Working
<1>3. run[r].won /\ run[r].pc \notin {"idle", "done", "verify"}
  BY <1>1, <1>2 DEF Local, Working
<1>4. \E pc \in {"prepush", "push", "rereview", "report"} : Keeps(r, pc, run[r].key)
  BY <1>1, WorkTurns
<1> QED BY <1>1, <1>3, <1>4, GoesLocal, PlacesAre DEF Working, ReportJob

LEMMA ReportLocal ==
  ASSUME LoopInv, Grows, NEW r \in Runs,
         ReadReports(r) \/ Tell(r) \/ Label(r) \/ Rerun(r)
  PROVE  Local(r)'
<1>1. Local(r) /\ TypeOK /\ run \in [Runs -> RunRec] /\ reports \in Seq(Reports)
  BY RunTypes DEF LoopInv
<1>2. CASE ReadReports(r)
  <2>1. run[r].pc = "report"
    BY <1>2 DEF ReadReports
  <2>2. run[r].won => run[r].key = Attempt(run[r].head)
    BY <1>1, <2>1 DEF Local
  <2>3. Reported(run[r].key) /\ run[r].won => ToldNext(run[r].head)
    <3>1. Reported(run[r].key) /\ run[r].won => Told(run[r].head)
      BY <2>2 DEF Reported, Told
    <3> QED BY <1>1, <3>1, WorldStands
  <2>4. CASE Reported(run[r].key) /\ Keeps(r, "done", Exhausted)
    BY <1>1, <2>1, <2>3, <2>4, KeepsLocal DEF Working, ReportJob
  <2>5. CASE Keeps(r, "tell", run[r].key)
    BY <1>1, <2>1, <2>5, GoesLocal, PlacesAre DEF Working, ReportJob
  <2> QED BY <1>1, <1>2, <2>4, <2>5, ReportTurns
<1>3. CASE Tell(r)
  <2>1. run[r].pc = "tell"
        /\ reports' = Append(reports, [key |-> run[r].key, halts |-> run[r].halts])
    BY <1>3 DEF Tell
  <2>2. [key |-> run[r].key, halts |-> run[r].halts] \in Reports
    BY <1>1 DEF RunRec, Reports
  <2>3. run[r].won => ToldNext(run[r].head)
    <3>1. run[r].won => run[r].key = Attempt(run[r].head)
      BY <1>1, <2>1 DEF Local
    <3>2. Len(reports) + 1 \in DOMAIN reports' /\ reports'[Len(reports) + 1].key = run[r].key
      BY <1>1, <2>1, <2>2, Appended
    <3> QED BY <3>1, <3>2 DEF ToldNext
  <2>4. CASE Keeps(r, "label", run[r].key)
    BY <1>1, <2>1, <2>3, <2>4, GoesLocal, PlacesAre DEF Working, ReportJob
  <2>5. CASE Keeps(r, "done", Exhausted)
    BY <1>1, <2>1, <2>3, <2>5, KeepsLocal DEF Working, ReportJob
  <2> QED BY <1>1, <1>3, <2>4, <2>5, ReportTurns
<1>4. CASE Label(r)
  <2>1. run[r].pc = "label"
    BY <1>4 DEF Label
  <2>2. run[r].won => ToldNext(run[r].head)
    BY <1>1, <2>1, WorldStands DEF Local
  <2>3. Keeps(r, "done", Exhausted)
    BY <1>1, <1>4, ReportTurns
  <2> QED BY <1>1, <2>1, <2>2, <2>3, KeepsLocal DEF Working, ReportJob
<1>5. CASE Rerun(r)
  <2>1. run[r].pc = "claim died" => ~run[r].won
    BY <1>1 DEF Local, Working, ReportJob
  <2>2. CASE run[r].pc = "claim died" /\ Keeps(r, "claim", run[r].key)
    BY <1>1, <2>1, <2>2, GoesLocal, PlacesAre DEF Working, ReportJob
  <2>3. CASE run[r].pc = "report died" /\ Keeps(r, "report", run[r].key)
    BY <1>1, <2>3, GoesLocal, PlacesAre DEF Working, ReportJob
  <2> QED BY <1>1, <1>5, <2>2, <2>3, ReportTurns
<1> QED BY <1>2, <1>3, <1>4, <1>5

LEMMA BeginLocal ==
  ASSUME LoopInv, Grows, NEW r \in Runs, Begin(r) \/ JobDies(r)
  PROVE  Local(r)'
<1>1. Local(r) /\ TypeOK /\ run \in [Runs -> RunRec] /\ head # 0
  BY RunTypes, FaultCounts DEF LoopInv
<1>2. CASE Begin(r)
  <2>1. /\ run'[r].pc = "plan" /\ run'[r].comment = 0 /\ run'[r].won = FALSE
        /\ run'[r].head # 0
    BY <1>1, <1>2, BeginTurns
  <2> QED BY <2>1 DEF Local, Working
<1>3. CASE JobDies(r)
  <2>1. CASE run' = [run EXCEPT ![r] = Fresh]
    <3>1. run'[r].pc = "idle" /\ run'[r].comment = 0 /\ run'[r].won = FALSE
      BY <1>1, <2>1 DEF Fresh
    <3> QED BY <3>1 DEF Local, Working
  <2>2. CASE run[r].pc \in ReportJob /\ Keeps(r, "report died", run[r].key)
    <3>1. run[r].pc \notin {"idle", "done", "verify"}
      BY <2>2 DEF ReportJob
    <3>2. "report died" \notin Working
      BY DEF Working
    <3> QED BY <1>1, <2>2, <3>1, <3>2, GoesLocal, PlacesAre
  <2>3. CASE run[r].pc \in ClaimJob /\ Keeps(r, "claim died", run[r].key)
    <3>1. ~run[r].won
      BY <1>1, <2>3 DEF Local, Working, ReportJob, ClaimJob
    <3>2. faults' > 0
      BY <1>1, <1>3, FaultCounts DEF JobDies
    <3>3. /\ run'[r].pc = "claim died" /\ run'[r].comment = run[r].comment
          /\ run'[r].won = FALSE /\ run'[r].head = run[r].head
      BY <1>1, <2>3, <3>1 DEF Keeps, Turns, RunRec
    <3>4. run[r].comment # 0 => run[r].comment \in ClaimsFor(ledger', run[r].head)
      BY <1>1, WorldStands DEF Local
    <3>5. run[r].head # 0
      BY <1>1, <2>3 DEF Local, ClaimJob
    <3> QED BY <3>2, <3>3, <3>4, <3>5 DEF Local, Working
  <2> QED BY <1>1, <1>3, <2>1, <2>2, <2>3, DiesTurns
<1> QED BY <1>2, <1>3

--------------------------------------------------------------------------------
(* What the runs keep of each other.                                               *)

\* A run goes on, or ends: its head and its group stand, and so does a won claim.
Continues(r) ==
  \E pc \in Places \ {"idle", "plan"}, key \in Keys, won \in BOOLEAN,
     comment \in {run[r].comment, Len(ledger) + 1} :
    Turns(r, pc, comment, won, key) /\ (run[r].won => won)

LEMMA KeepsContinues ==
  ASSUME run \in [Runs -> RunRec], NEW r \in Runs, NEW pc \in Places \ {"idle", "plan"},
         NEW key \in Keys, Keeps(r, pc, key)
  PROVE  Continues(r)
<1>1. run[r].won \in BOOLEAN
  BY DEF RunRec
<1> QED BY <1>1 DEF Continues, Keeps

LEMMA LiveContinues ==
  ASSUME LoopInv, NEW r \in Runs,
         RunStep(r) \/ VerifyTooEarly(r) \/ PushJobDies(r) \/ (JobDies(r) /\ run[r].pc # "plan")
  PROVE  Continues(r) /\ run[r].pc \in Live
<1>1. run \in [Runs -> RunRec] /\ run[r].key \in Keys /\ Exhausted \in Keys
  BY RunTypes, Numbers DEF LoopInv, RunRec
<1> DEFINE Ends == {"done", "fix", "report", "claim", "post", "verify", "tell", "label",
                    "prepush", "push", "rereview", "claim died", "report died"}
<1>2. ASSUME NEW pc \in Ends, NEW key \in Keys, Keeps(r, pc, key) PROVE Continues(r)
  <2>1. pc \in Places \ {"idle", "plan"}
    BY PlacesAre
  <2> HIDE DEF Ends
  <2> QED BY <1>1, <1>2, <2>1, KeepsContinues
<1>3. CASE Plan(r)
  BY <1>2, <1>3, PlanTurns DEF Plan, Live
<1>4. CASE ReadClaims(r)
  BY <1>1, <1>2, <1>4, ReadClaimsTurns DEF ReadClaims, Live, ClaimJob
<1>5. CASE PostClaim(r)
  <2>1. Turns(r, "verify", Len(ledger) + 1, run[r].won, run[r].key)
    BY <1>5, PostClaimTurns
  <2>2. "verify" \in Places \ {"idle", "plan"} /\ run[r].won \in BOOLEAN
    BY <1>1, PlacesAre DEF RunRec
  <2>3. Continues(r)
    BY <1>1, <2>1, <2>2 DEF Continues
  <2> QED BY <1>5, <2>3 DEF PostClaim, Live, ClaimJob
<1>6. CASE VerifyClaim(r)
  <2>1. CASE Turns(r, "fix", run[r].comment, TRUE, Attempt(run[r].head))
    <3>1. "fix" \in Places \ {"idle", "plan"}
      BY PlacesAre
    <3>2. Attempt(run[r].head) \in Keys
      BY <1>1, <2>1 DEF Turns, RunRec
    <3>3. Continues(r)
      BY <2>1, <3>1, <3>2 DEF Continues
    <3> QED BY <1>6, <3>3 DEF VerifyClaim, Live, ClaimJob
  <2>2. CASE Keeps(r, "done", Exhausted)
    BY <1>1, <1>2, <1>6, <2>2 DEF VerifyClaim, Live, ClaimJob
  <2> QED BY <1>6, <2>1, <2>2, VerifyClaimTurns
<1>7. CASE FixAndVerify(r) \/ Prepush(r) \/ Push(r) \/ PushRefused(r) \/ Rereview(r) \/ PushJobDies(r)
  <2>1. \E pc \in {"prepush", "push", "rereview", "report"} : Keeps(r, pc, run[r].key)
    BY <1>1, <1>7, WorkTurns
  <2> QED BY <1>1, <1>2, <1>7, <2>1 DEF FixAndVerify, Prepush, Push, PushRefused, Rereview,
                                       PushJobDies, Live
<1>8. CASE ReadReports(r) \/ Tell(r) \/ Label(r) \/ VerifyTooEarly(r)
  <2>1. \/ Keeps(r, "tell", run[r].key) \/ Keeps(r, "label", run[r].key)
        \/ Keeps(r, "done", Exhausted)
    BY <1>1, <1>8, ReportTurns
  <2> QED BY <1>1, <1>2, <1>8, <2>1 DEF ReadReports, Tell, Label, VerifyTooEarly, Live, ReportJob,
                                       ClaimJob
<1>9. CASE JobDies(r) /\ run[r].pc # "plan"
  BY <1>1, <1>2, <1>9, DiesTurns DEF Live
<1> QED BY <1>3, <1>4, <1>5, <1>6, <1>7, <1>8, <1>9 DEF RunStep

LEMMA RerunContinues ==
  ASSUME LoopInv, NEW r \in Runs, Rerun(r)
  PROVE  Continues(r)
<1>1. run \in [Runs -> RunRec] /\ run[r].key \in Keys
  BY RunTypes DEF LoopInv, RunRec
<1>2. "claim" \in Places \ {"idle", "plan"} /\ "report" \in Places \ {"idle", "plan"}
  BY PlacesAre
<1> QED BY <1>1, <1>2, ReportTurns, KeepsContinues

\* The ways a step changes what the runs know.
LEMMA Moves ==
  ASSUME LoopInv, [Next]_vars
  PROVE  \/ run' = run
         \/ \E r \in Runs : Continues(r) /\ run[r].pc \in Live
         \/ \E r \in Runs : Continues(r) /\ Rerun(r)
         \/ \E r \in Runs : Begin(r)
         \/ \E r \in Runs : run[r].pc = "plan" /\ run' = [run EXCEPT ![r] = Fresh]
<1>1. run \in [Runs -> RunRec]
  BY RunTypes DEF LoopInv
<1>2. HumanPush \/ ReviewArrives \/ Withdraw \/ Release \/ UNCHANGED vars => run' = run
  BY DEF HumanPush, ReviewArrives, Withdraw, Release, vars
<1>3. ASSUME NEW r \in Runs, JobDies(r), run[r].pc = "plan"
      PROVE  run' = [run EXCEPT ![r] = Fresh]
  BY <1>3 DEF JobDies
<1> QED BY <1>2, <1>3, LiveContinues, RerunContinues DEF Next

LEMMA RunsStep == ASSUME LoopInv, [Next]_vars PROVE run' \in [Runs -> RunRec]
<1>1. run \in [Runs -> RunRec]
  BY RunTypes DEF LoopInv
<1>2. \A r \in Runs : Continues(r) => run' \in [Runs -> RunRec]
  BY DEF Continues, Turns
<1>3. \A r \in Runs : Begin(r) => run' \in [Runs -> RunRec]
  BY <1>1, BeginTurns
<1> QED BY <1>1, <1>2, <1>3, Moves, FreshIsRec

\* Beyond its triage a run never goes back to it, and keeps its group and its head; a winner
\* stays one.
LEMMA Stays ==
  ASSUME LoopInv, [Next]_vars, NEW s \in Runs, run[s].pc \notin {"idle", "plan"}
  PROVE  /\ run'[s].pc \notin {"idle", "plan"} /\ run'[s].group = run[s].group
         /\ run'[s].head = run[s].head /\ (run[s].won => run'[s].won)
<1>1. run \in [Runs -> RunRec]
  BY RunTypes DEF LoopInv
<1>2. ASSUME NEW r \in Runs, Continues(r)
      PROVE  /\ run'[s].pc \notin {"idle", "plan"} /\ run'[s].group = run[s].group
             /\ run'[s].head = run[s].head /\ (run[s].won => run'[s].won)
  BY <1>1, <1>2 DEF Continues, Turns
<1>3. ASSUME NEW r \in Runs, Begin(r) PROVE run'[s] = run[s]
  BY <1>1, <1>3, BeginTurns DEF Begin
<1>4. ASSUME NEW r \in Runs, run[r].pc = "plan", run' = [run EXCEPT ![r] = Fresh]
      PROVE  run'[s] = run[s]
  BY <1>1, <1>4
<1> QED BY <1>2, <1>3, <1>4, Moves

LEMMA LocalStep == ASSUME LoopInv, [Next]_vars, NEW s \in Runs PROVE Local(s)'
<1>1. Grows /\ TypeOK /\ Local(s) /\ run \in [Runs -> RunRec]
  BY GrowsStep, RunTypes DEF LoopInv
<1>2. CASE UNCHANGED run
  BY <1>1, <1>2, OtherLocal
<1>3. ASSUME NEW r \in Runs,
             \/ Begin(r) \/ RunStep(r) \/ VerifyTooEarly(r) \/ JobDies(r) \/ PushJobDies(r)
             \/ Rerun(r)
      PROVE  Local(s)'
  <2>1. Local(r)'
    BY <1>1, <1>3, ClaimLocal, WorkLocal, ReportLocal, BeginLocal DEF RunStep
  <2>2. s # r => run'[s] = run[s]
    <3>1. Continues(r) => \A t \in Runs \ {r} : run'[t] = run[t]
      BY DEF Continues, Turns
    <3>2. Begin(r) => \E k : run' = [run EXCEPT ![r] = k]
      BY DEF Begin
    <3>3. JobDies(r) => \E k : run' = [run EXCEPT ![r] = k]
      BY DEF JobDies
    <3> QED BY <1>1, <1>3, <3>1, <3>2, <3>3, LiveContinues, RerunContinues
  <2> QED BY <1>1, <2>1, <2>2, OtherLocal
<1>4. HumanPush \/ ReviewArrives \/ Withdraw \/ Release => UNCHANGED run
  BY DEF HumanPush, ReviewArrives, Withdraw, Release
<1> QED BY <1>2, <1>3, <1>4 DEF Next, vars

LEMMA OneLiveStep == ASSUME LoopInv, [Next]_vars PROVE OneLive'
<1>1. run \in [Runs -> RunRec] /\ OneLive
  BY RunTypes DEF LoopInv
<1>2. CASE run' = run
  BY <1>1, <1>2 DEF OneLive
<1>3. ASSUME NEW r \in Runs, Continues(r), run[r].pc \in Live PROVE OneLive'
  <2>1. \A s \in Runs : run'[s].pc \in Live => run[s].pc \in Live /\ run'[s].group = run[s].group
    BY <1>3 DEF Continues, Turns
  <2> QED BY <1>1, <2>1 DEF OneLive
<1>4. ASSUME NEW r \in Runs, Continues(r), Rerun(r) PROVE OneLive'
  <2>1. \A s \in Runs \ {r} : run'[s] = run[s]
    BY <1>4 DEF Continues, Turns
  <2>2. run'[r].group = run[r].group
    BY <1>4 DEF Continues, Turns
  <2>3. \A s \in Runs \ {r} : run[s].pc \in Live => run[s].group # run[r].group
    BY <1>4 DEF Rerun
  <2> QED BY <1>1, <2>1, <2>2, <2>3 DEF OneLive
<1>5. ASSUME NEW r \in Runs, Begin(r) PROVE OneLive'
  <2>1. PICK k \in RunRec : /\ run' = [run EXCEPT ![r] = k]
                            /\ \A s \in Runs : run[s].pc \in Live => run[s].group # k.group
    BY <1>5, BeginTurns
  <2> QED BY <1>1, <2>1 DEF OneLive
<1>6. ASSUME NEW r \in Runs, run' = [run EXCEPT ![r] = Fresh] PROVE OneLive'
  <2>1. Fresh.pc \notin Live
    BY DEF Fresh, Live, ClaimJob, ReportJob
  <2> QED BY <1>1, <1>6, <2>1 DEF OneLive
<1> QED BY <1>2, <1>3, <1>4, <1>5, <1>6, Moves

LEMMA DistinctStep == ASSUME LoopInv, [Next]_vars PROVE Distinct'
<1>1. run \in [Runs -> RunRec] /\ Distinct /\ ledger \in Seq(Claims)
  BY RunTypes DEF LoopInv
<1>2. CASE run' = run
  BY <1>1, <1>2 DEF Distinct
<1>3. \A s \in Runs : run[s].comment # Len(ledger) + 1
  <2>1. \A s \in Runs : run[s].comment # 0 => run[s].comment \in 1..Len(ledger)
    <3>1. \A s \in Runs : run[s].comment # 0 => run[s].comment \in ClaimsFor(ledger, run[s].head)
      BY DEF LoopInv, Local
    <3>2. \A h : ClaimsFor(ledger, h) \subseteq 1..Len(ledger)
      BY <1>1 DEF ClaimsFor
    <3> QED BY <3>1, <3>2
  <2>2. Len(ledger) \in Nat
    BY <1>1
  <2> QED BY <2>1, <2>2
<1>4. ASSUME NEW r \in Runs, Continues(r) PROVE Distinct'
  <2>1. /\ \A s \in Runs \ {r} : run'[s] = run[s]
        /\ run'[r].comment \in {run[r].comment, Len(ledger) + 1}
    BY <1>4 DEF Continues, Turns
  <2> QED BY <1>1, <1>3, <2>1 DEF Distinct
<1>5. ASSUME NEW r \in Runs, Begin(r) PROVE Distinct'
  <2>1. PICK k \in RunRec : run' = [run EXCEPT ![r] = k] /\ k.comment = 0
    BY <1>5, BeginTurns
  <2> QED BY <1>1, <2>1 DEF Distinct
<1>6. ASSUME NEW r \in Runs, run' = [run EXCEPT ![r] = Fresh] PROVE Distinct'
  <2>1. Fresh.comment = 0
    BY DEF Fresh
  <2> QED BY <1>1, <1>6, <2>1 DEF Distinct
<1> QED BY <1>2, <1>4, <1>5, <1>6, Moves

--------------------------------------------------------------------------------
(* Reports and the label.                                                          *)

\* The runs whose steps matter here are alone at work, while no two groups act.
LEMMA Alone ==
  ASSUME LoopInv, OneActed, NEW r \in Runs, run[r].pc \in Acting, NEW s \in Runs, s # r
  PROVE  run[s].pc \notin Acting
<1>1. \A t \in Runs : run[t].pc \in Acting => run[t].group = "pr" /\ run[t].pc \in Live
  <2>1. "idle" \notin Acting /\ "plan" \notin Acting
    BY DEF Acting, Working, ClaimJob, ReportJob
  <2> QED BY <2>1, PlacesAre DEF OneActed
<1> QED BY <1>1 DEF LoopInv, OneLive

\* Who comes to the points where a report is posted or a push is made.
LEMMA Arrives ==
  ASSUME LoopInv, [Next]_vars, NEW s \in Runs, run'[s].pc \in {"tell", "push"}
  PROVE  \/ run'[s] = run[s]
         \/ run'[s].pc = "tell" /\ ~Reported(run'[s].key) /\ ReadReports(s)
         \/ run'[s].pc = "push" /\ ~halted /\ Prepush(s)
<1>1. run \in [Runs -> RunRec]
  BY RunTypes DEF LoopInv
<1>2. ASSUME NEW r \in Runs,
             \/ Begin(r) \/ RunStep(r) \/ VerifyTooEarly(r) \/ JobDies(r) \/ PushJobDies(r)
             \/ Rerun(r)
      PROVE  \/ run'[s] = run[s]
             \/ run'[s].pc = "tell" /\ ~Reported(run'[s].key) /\ ReadReports(s)
             \/ run'[s].pc = "push" /\ ~halted /\ Prepush(s)
  <2>1. CASE s # r
    <3>1. Continues(r) => run'[s] = run[s]
      BY <2>1 DEF Continues, Turns
    <3>2. Begin(r) => run'[s] = run[s]
      BY <1>1, <2>1 DEF Begin
    <3>3. JobDies(r) => run'[s] = run[s]
      BY <1>1, <2>1 DEF JobDies
    <3> QED BY <1>2, <3>1, <3>2, <3>3, LiveContinues, RerunContinues
  <2>2. CASE s = r
    <3>1. ASSUME NEW pc, NEW key \in Keys, Keeps(r, pc, key)
          PROVE  run'[r].pc = pc /\ run'[r].key = key
      BY <3>1 DEF Keeps, Turns
    <3>2. run[r].key \in Keys /\ Exhausted \in Keys
      BY <1>1, Numbers DEF RunRec
    <3>3. CASE Plan(r)
      BY <2>2, <3>1, <3>3, PlanTurns
    <3>4. CASE ReadClaims(r)
      BY <2>2, <3>1, <3>2, <3>4, ReadClaimsTurns
    <3>5. CASE PostClaim(r)
      BY <2>2, <3>5, PostClaimTurns DEF Turns
    <3>6. CASE VerifyClaim(r)
      <4>1. run'[r].pc \in {"fix", "done"}
        BY <3>1, <3>2, <3>6, VerifyClaimTurns DEF Turns, Keeps
      <4> QED BY <2>2, <4>1
    <3>7. CASE FixAndVerify(r) \/ Push(r) \/ PushRefused(r) \/ Rereview(r) \/ PushJobDies(r)
      BY <1>1, <2>2, <3>1, <3>2, <3>7, WorkTurns
    <3>8. CASE Prepush(r)
      <4>1. CASE Keeps(r, "push", run[r].key) /\ ~halted
        BY <2>2, <3>1, <3>2, <3>8, <4>1
      <4>2. CASE Keeps(r, "report", run[r].key)
        BY <2>2, <3>1, <3>2, <4>2
      <4> QED BY <1>1, <3>8, <4>1, <4>2, WorkTurns
    <3>9. CASE ReadReports(r)
      <4>1. CASE Keeps(r, "tell", run[r].key) /\ ~Reported(run[r].key)
        BY <2>2, <3>1, <3>2, <3>9, <4>1
      <4>2. CASE Keeps(r, "done", Exhausted)
        BY <2>2, <3>1, <3>2, <4>2
      <4> QED BY <1>1, <3>9, <4>1, <4>2, ReportTurns
    <3>10. CASE Tell(r) \/ Label(r) \/ VerifyTooEarly(r) \/ Rerun(r)
      BY <1>1, <2>2, <3>1, <3>2, <3>10, ReportTurns
    <3>11. CASE Begin(r)
      BY <1>1, <2>2, <3>11, BeginTurns
    <3>12. CASE JobDies(r)
      <4>1. run' = [run EXCEPT ![r] = Fresh] => run'[r].pc = "idle"
        BY <1>1 DEF Fresh
      <4> QED BY <1>1, <2>2, <3>1, <3>2, <3>12, <4>1, DiesTurns
    <3> QED BY <1>2, <3>3, <3>4, <3>5, <3>6, <3>7, <3>8, <3>9, <3>10, <3>11, <3>12 DEF RunStep
  <2> QED BY <2>1, <2>2
<1>3. HumanPush \/ ReviewArrives \/ Withdraw \/ Release \/ UNCHANGED vars => run' = run
  BY DEF HumanPush, ReviewArrives, Withdraw, Release, vars
<1> QED BY <1>2, <1>3 DEF Next

\* What else a step changes of the pull request, and who does it.
LEMMA WhoDoes ==
  ASSUME [Next]_vars
  PROVE  /\ reports' = reports \/ \E r \in Runs : Tell(r)
         /\ halted' = halted \/ (\E r \in Runs : Label(r)) \/ Release
         /\ parent' = parent \/ \E r \in Runs : Push(r)
         /\ releases' = releases \/ Release
<1>1. ASSUME NEW r \in Runs, VerifyTooEarly(r) \/ JobDies(r) \/ PushJobDies(r)
      PROVE  UNCHANGED world
  BY <1>1 DEF VerifyTooEarly, JobDies, PushJobDies
<1>2. ASSUME NEW r \in Runs,
             \/ Begin(r) \/ Plan(r) \/ ReadClaims(r) \/ VerifyClaim(r) \/ FixAndVerify(r)
             \/ Prepush(r) \/ PushRefused(r) \/ Rereview(r) \/ ReadReports(r) \/ Rerun(r)
      PROVE  UNCHANGED world
  BY <1>2 DEF Begin, Plan, ReadClaims, VerifyClaim, FixAndVerify, Prepush, PushRefused, Rereview,
              ReadReports, Rerun
<1>3. ASSUME NEW r \in Runs, Push(r) PROVE UNCHANGED <<reports, halted, releases>>
  BY <1>3 DEF Push
<1>4. ASSUME NEW r \in Runs, Tell(r) PROVE UNCHANGED <<parent, halted, releases>>
  BY <1>4 DEF Tell
<1>5. ASSUME NEW r \in Runs, Label(r) PROVE UNCHANGED <<parent, reports, releases>>
  BY <1>5 DEF Label
<1>6. ASSUME NEW r \in Runs, PostClaim(r) PROVE UNCHANGED <<parent, reports, halted, releases>>
  BY <1>6 DEF PostClaim
<1>7. HumanPush \/ ReviewArrives \/ Withdraw \/ UNCHANGED vars
        => UNCHANGED <<parent, reports, halted, releases>>
  BY DEF HumanPush, ReviewArrives, Withdraw, vars
<1>8. Release => UNCHANGED <<parent, reports>>
  BY DEF Release
<1> QED BY <1>1, <1>2, <1>3, <1>4, <1>5, <1>6, <1>7, <1>8 DEF Next, RunStep, world

LEMMA OneActedBefore == ASSUME LoopInv, [Next]_vars, OneActed' PROVE OneActed
BY Stays DEF OneActed

LEMMA ApartStep == ASSUME LoopInv, [Next]_vars PROVE Apart'
<1> SUFFICES ASSUME OneActed'
             PROVE  /\ \A i, j \in DOMAIN reports' : reports'[i].key = reports'[j].key => i = j
                    /\ \A s \in Runs : /\ run'[s].pc = "tell" => ~Reported(run[s].key)'
                                       /\ run'[s].pc = "push" => ~halted'
  BY DEF Apart
<1>1. OneActed
  BY OneActedBefore
<1>2. /\ \A i, j \in DOMAIN reports : reports[i].key = reports[j].key => i = j
      /\ \A s \in Runs : /\ run[s].pc = "tell" => ~Reported(run[s].key)
                         /\ run[s].pc = "push" => ~halted
  BY <1>1 DEF LoopInv, Apart
<1>3. run \in [Runs -> RunRec] /\ reports \in Seq(Reports)
  BY RunTypes DEF LoopInv
<1>4. {"tell", "push", "label", "prepush", "report"} \subseteq Acting
  BY DEF Acting, Working, ReportJob
<1>5. \A i, j \in DOMAIN reports' : reports'[i].key = reports'[j].key => i = j
  <2>1. CASE reports' = reports
    BY <1>2, <2>1
  <2>2. ASSUME NEW r \in Runs, Tell(r)
        PROVE  \A i, j \in DOMAIN reports' : reports'[i].key = reports'[j].key => i = j
    <3> DEFINE x == [key |-> run[r].key, halts |-> run[r].halts]
    <3>1. reports' = Append(reports, x) /\ run[r].pc = "tell"
      BY <2>2 DEF Tell
    <3>2. x \in Reports /\ x.key = run[r].key
      BY <1>3 DEF RunRec, Reports
    <3> HIDE DEF x
    <3>3. \A i \in DOMAIN reports : reports[i].key # x.key
      BY <1>2, <3>1, <3>2 DEF Reported
    <3>4. /\ DOMAIN reports' = 1..(Len(reports) + 1) /\ reports'[Len(reports) + 1] = x
          /\ DOMAIN reports = 1..Len(reports) /\ Len(reports) \in Nat
          /\ \A i \in DOMAIN reports : reports'[i] = reports[i]
      BY <1>3, <3>1, <3>2, Appended
    <3>5. \A i \in DOMAIN reports' : i \in DOMAIN reports \/ i = Len(reports) + 1
      BY <3>4
    <3> QED BY <1>2, <3>3, <3>4, <3>5
  <2> QED BY <2>1, <2>2, WhoDoes
<1>6. ASSUME NEW s \in Runs, run'[s].pc = "tell" PROVE ~Reported(run[s].key)'
  <2>1. CASE reports' = reports
    BY <1>2, <1>6, <2>1, Arrives DEF Reported
  <2>2. ASSUME NEW r \in Runs, Tell(r) PROVE FALSE
    <3>1. run[r].pc = "tell" /\ run'[r].pc # "tell"
      <4>1. run'[r].pc \in {"label", "done"}
        BY <1>3, <2>2, ReportTurns DEF Keeps, Turns
      <4> QED BY <2>2, <4>1 DEF Tell
    <3>2. run[s].pc \in Acting
      BY <1>4, <1>6, Arrives DEF ReadReports
    <3> QED BY <1>1, <1>4, <1>6, <3>1, <3>2, Alone
  <2> QED BY <2>1, <2>2, WhoDoes
<1>7. ASSUME NEW s \in Runs, run'[s].pc = "push" PROVE ~halted'
  <2>1. CASE halted' = halted
    BY <1>2, <1>7, <2>1, Arrives
  <2>2. CASE Release
    BY <2>2 DEF Release
  <2>3. ASSUME NEW r \in Runs, Label(r) PROVE FALSE
    <3>1. run[r].pc = "label" /\ run'[r].pc = "done"
      <4>1. run'[r].pc = "done"
        BY <1>3, <2>3, ReportTurns DEF Keeps, Turns
      <4> QED BY <2>3, <4>1 DEF Label
    <3>2. run[s].pc \in Acting
      BY <1>4, <1>7, Arrives DEF Prepush
    <3> QED BY <1>1, <1>4, <1>7, <3>1, <3>2, Alone
  <2> QED BY <2>1, <2>2, <2>3, WhoDoes
<1> QED BY <1>5, <1>6, <1>7

LEMMA HaltingStep == ASSUME LoopInv, [Next]_vars PROVE Halting'
<1> SUFFICES ASSUME (\E i \in DOMAIN reports : reports[i].halts)', faults' = 0, releases' = 0
             PROVE  halted' \/ \E s \in Runs : run'[s].pc = "label"
  BY DEF Halting
<1>1. run \in [Runs -> RunRec] /\ reports \in Seq(Reports) /\ TypeOK
  BY RunTypes DEF LoopInv
<1>2. ASSUME NEW r \in Runs, VerifyTooEarly(r) \/ JobDies(r) \/ PushJobDies(r) PROVE FALSE
  <2>1. faults' = faults + 1
    BY <1>2 DEF VerifyTooEarly, JobDies, PushJobDies
  <2> QED BY <1>1, <2>1, FaultCounts
<1>3. CASE Release
  <2>1. releases \in Nat
    BY <1>1, ReviewLoopAssumption DEF TypeOK
  <2> QED BY <1>3, <2>1 DEF Release
<1>4. faults = 0 /\ (releases' = releases => releases = 0)
  <2>1. faults + 1 # 0
    BY <1>1, FaultCounts
  <2> QED BY <2>1, GrowsStep DEF Grows
<1>5. ASSUME NEW r \in Runs, Tell(r), run[r].halts PROVE run'[r].pc = "label"
  <2>1. run[r].halts => run' = [run EXCEPT ![r].pc = "label"]
    BY <1>5 DEF Tell
  <2> QED BY <1>1, <1>5, <2>1 DEF RunRec
<1>6. CASE \E i \in DOMAIN reports : reports[i].halts
  <2>1. CASE releases' # releases
    BY <1>3, <2>1, WhoDoes
  <2>2. CASE releases' = releases
    <3>1. halted \/ \E s \in Runs : run[s].pc = "label"
      BY <1>4, <1>6, <2>2 DEF LoopInv, Halting
    <3>2. CASE halted
      BY <1>3, <3>2, WhoDoes DEF Label
    <3>3. ASSUME NEW s \in Runs, run[s].pc = "label"
          PROVE  Label(s) \/ run'[s].pc = "label"
      <4>1. ASSUME NEW r \in Runs, s # r, Continues(r) PROVE run'[s] = run[s]
        BY <4>1 DEF Continues, Turns
      <4>2. ASSUME NEW r \in Runs, s # r, Begin(r) PROVE run'[s] = run[s]
        BY <1>1, <4>2 DEF Begin
      <4>3. RunStep(s) => Label(s)
        BY <3>3 DEF RunStep, Plan, ReadClaims, PostClaim, VerifyClaim, FixAndVerify, Prepush, Push,
                    PushRefused, Rereview, ReadReports, Tell
      <4>4. ~Begin(s) /\ ~Rerun(s)
        BY <3>3 DEF Begin, Rerun, Died
      <4>5. HumanPush \/ ReviewArrives \/ Withdraw \/ Release \/ UNCHANGED vars => run' = run
        BY DEF HumanPush, ReviewArrives, Withdraw, Release, vars
      <4> QED BY <1>2, <3>3, <4>1, <4>2, <4>3, <4>4, <4>5, LiveContinues, RerunContinues DEF Next
    <3> QED BY <3>1, <3>2, <3>3 DEF Label
  <2> QED BY <2>1, <2>2
<1>7. CASE ~\E i \in DOMAIN reports : reports[i].halts
  <2>1. reports' # reports
    BY <1>7
  <2>2. PICK r \in Runs : Tell(r)
    BY <2>1, WhoDoes
  <2>3. run[r].halts
    <3> DEFINE x == [key |-> run[r].key, halts |-> run[r].halts]
    <3>1. reports' = Append(reports, x)
      BY <2>2 DEF Tell
    <3>2. x \in Reports /\ x.halts = run[r].halts
      BY <1>1 DEF RunRec, Reports
    <3> HIDE DEF x
    <3>3. /\ DOMAIN reports' = 1..(Len(reports) + 1) /\ reports'[Len(reports) + 1] = x
          /\ DOMAIN reports = 1..Len(reports) /\ Len(reports) \in Nat
          /\ \A i \in DOMAIN reports : reports'[i] = reports[i]
      BY <1>1, <3>1, <3>2, Appended
    <3>4. \A i \in DOMAIN reports' : i \in DOMAIN reports \/ i = Len(reports) + 1
      BY <3>3
    <3> QED BY <1>7, <3>2, <3>3, <3>4
  <2> QED BY <1>5, <2>2, <2>3
<1> QED BY <1>6, <1>7

--------------------------------------------------------------------------------
(* What is pushed, and by how many.                                                *)

LEMMA HumanWorkStep == ASSUME LoopInv, [Next]_vars PROVE HumanWorkStands'
<1>1. run \in [Runs -> RunRec] /\ HumanWorkStands
  BY RunTypes DEF LoopInv
<1>2. \A r \in Runs : run[r].won => run'[r].won /\ run'[r].head = run[r].head
  <2>1. \A r \in Runs : run[r].won => run[r].pc \notin {"idle", "plan"}
    BY DEF LoopInv, Local, Working, ReportJob
  <2> QED BY <2>1, Stays
<1>3. CASE parent' = parent
  BY <1>1, <1>2, <1>3 DEF HumanWorkStands
<1>4. ASSUME NEW r \in Runs, Push(r) PROVE HumanWorkStands'
  <2>1. run[r].won
    BY <1>4 DEF LoopInv, Local, Push, Working
  <2>2. /\ run[r].head = head
        /\ parent' = [c \in DOMAIN parent \cup {head + 1} |->
                         IF c = head + 1 THEN run[r].head ELSE parent[c]]
    BY <1>4 DEF Push
  <2>3. head \in Nat
    BY DEF LoopInv, TypeOK, Commits
  <2>4. ASSUME NEW c \in DOMAIN parent'
        PROVE  /\ parent'[c] = c - 1
               /\ \E s \in Runs : run'[s].won /\ run'[s].head = parent'[c]
    <3>1. CASE c = head + 1
      BY <1>2, <2>1, <2>2, <2>3, <3>1
    <3>2. CASE c # head + 1
      BY <1>1, <1>2, <2>2, <2>4, <3>2 DEF HumanWorkStands
    <3> QED BY <3>1, <3>2
  <2> QED BY <2>4 DEF HumanWorkStands
<1> QED BY <1>3, <1>4, WhoDoes

LEMMA Winners ==
  ASSUME LoopInv
  PROVE  /\ OneWinner
         /\ IsFiniteSet({run[r].head : r \in {s \in Runs : run[s].won}})
<1> DEFINE W == {s \in Runs : run[s].won}
           H == {run[r].head : r \in W}
<1>1. \A r \in W : run[r].comment # 0 /\ Owns(ledger, run[r].head, run[r].comment)
  BY DEF LoopInv, Local
<1>2. \A r, s \in W : run[r].head = run[s].head => r = s
  <2>1. \A r, s \in W : run[r].head = run[s].head => run[r].comment = run[s].comment
    BY <1>1 DEF Owns
  <2> QED BY <1>1, <2>1 DEF LoopInv, Distinct
<1>3. \A h \in H : ClaimsFor(ledger, h) # {} /\ Position(ledger, h) <= MaxAttempts
  BY <1>1 DEF Owns
<1>4. ledger \in Seq(Claims) /\ MaxAttempts \in Nat
  BY RunTypes, ReviewLoopAssumption DEF LoopInv
<1> HIDE DEF H
<1>5. IsFiniteSet(H) /\ Cardinality(H) <= MaxAttempts
  BY <1>3, <1>4, OwnedHeads
<1> QED BY <1>2, <1>5 DEF H, OneWinner

\* The loop pushes at most once an attempt, so the branch has no more commits than people
\* and attempts make.
LEMMA HeadsBounded ==
  ASSUME LoopInv, Cardinality((2..head) \ DOMAIN parent) < MaxPushes
  PROVE  head + 1 \in Commits
<1> DEFINE D == DOMAIN parent
           H == {run[r].head : r \in {s \in Runs : run[s].won}}
           f == [c \in D |-> c - 1]
<1>1. /\ head \in Nat /\ head >= 1 /\ D \subseteq 2..head
      /\ MaxPushes \in Nat /\ MaxAttempts \in Nat
  <2>1. head \in 1..MaxHead
    BY DEF LoopInv, TypeOK, Commits
  <2>2. D \subseteq 2..head
    BY DEF LoopInv, TypeOK
  <2> HIDE DEF D
  <2> QED BY <2>1, <2>2, Numbers, ReviewLoopAssumption
<1>2. IsFiniteSet(H) /\ Cardinality(H) <= MaxAttempts
  BY Winners DEF OneWinner
<1>3. f \in Injection(D, H)
  <2>1. \A c \in D : c - 1 \in H
    BY DEF LoopInv, HumanWorkStands
  <2>2. \A c, d \in D : c - 1 = d - 1 => c = d
    BY <1>1
  <2> HIDE DEF D, H
  <2>3. f \in [D -> H]
    BY <2>1
  <2>4. \A c, d \in D : f[c] = f[d] => c = d
    BY <2>2
  <2> HIDE DEF f
  <2> QED BY <2>3, <2>4 DEF Injection, IsInjective
<1> HIDE DEF D, H, f
<1>4. IsFiniteSet(D) /\ Cardinality(D) <= Cardinality(H)
  BY <1>2, <1>3, FS_Injection
<1>5. IsFiniteSet(2..head) /\ Cardinality(2..head) = head - 1
  <2>1. Cardinality(2..head) = IF 2 > head THEN 0 ELSE head - 2 + 1
    BY <1>1, FS_Interval
  <2> QED BY <1>1, <2>1, FS_Interval
<1>6. Cardinality((2..head) \ D) = head - 1 - Cardinality(D)
  <2>1. (2..head) \cap D = D
    BY <1>1
  <2>2. Cardinality((2..head) \ D) = Cardinality(2..head) - Cardinality((2..head) \cap D)
    BY <1>5, FS_Difference
  <2> QED BY <1>5, <2>1, <2>2
<1>7. Cardinality(D) \in Nat /\ Cardinality(H) \in Nat
  BY <1>2, <1>4, FS_CardinalityType
<1>8. head - 1 - Cardinality(D) < MaxPushes
  BY <1>6 DEF D
<1>9. head + 1 <= 1 + MaxPushes + MaxAttempts
  BY <1>1, <1>2, <1>4, <1>7, <1>8
<1> QED BY <1>1, <1>9 DEF Commits, MaxHead

LEMMA TypesStep == ASSUME LoopInv, [Next]_vars PROVE TypeOK'
<1>1. TypeOK
  BY DEF LoopInv
<1>2. run' \in [Runs -> RunRec]
  BY RunsStep
<1>3. ledger' \in Seq(Claims) /\ reports' \in Seq(Reports)
  <2>1. ledger \in Seq(Claims) /\ reports \in Seq(Reports)
    BY <1>1, RunTypes
  <2>2. \A x \in Claims : Append(ledger, x) \in Seq(Claims)
    BY <2>1, Appended
  <2>3. \A x \in Reports : Append(reports, x) \in Seq(Reports)
    BY <2>1, Appended
  <2> QED BY <2>1, <2>2, <2>3, GrowsStep DEF Grows
<1>4. /\ head' \in Commits
      /\ parent' \in UNION {[S -> Commits] : S \in SUBSET (2..head')}
  <2>1. head \in Nat /\ head >= 1 /\ head \in Commits
    BY <1>1, Numbers DEF TypeOK, Commits
  <2>2. PICK S \in SUBSET (2..head) : parent \in [S -> Commits]
    BY <1>1 DEF TypeOK
  <2>3. CASE UNCHANGED <<head, parent>>
    BY <1>1, <2>3 DEF TypeOK
  <2>4. CASE HumanPush
    <3>1. head' = head + 1 /\ parent' = parent
      BY <2>4 DEF HumanPush
    <3>2. head + 1 \in Commits
      BY <2>4, HeadsBounded DEF HumanPush
    <3>3. S \in SUBSET (2..(head + 1))
      BY <2>1, <2>2
    <3> QED BY <2>2, <3>1, <3>2, <3>3
  <2>5. ASSUME NEW r \in Runs, Push(r)
        PROVE  /\ head' \in Commits
               /\ parent' \in UNION {[T -> Commits] : T \in SUBSET (2..head')}
    <3>1. /\ head' = head + 1 /\ run[r].head = head /\ head < MaxHead
          /\ parent' = [c \in DOMAIN parent \cup {head + 1} |->
                           IF c = head + 1 THEN run[r].head ELSE parent[c]]
      BY <2>5 DEF Push
    <3>2. head + 1 \in Commits
      BY <2>1, <3>1, Numbers DEF Commits
    <3>3. S \cup {head + 1} \in SUBSET (2..(head + 1))
      BY <2>1, <2>2
    <3>4. parent' \in [S \cup {head + 1} -> Commits]
      BY <2>1, <2>2, <3>1
    <3> QED BY <3>1, <3>2, <3>3, <3>4
  <2>6. HumanPush \/ UNCHANGED <<head, parent>> \/ \E r \in Runs : Push(r)
    <3>1. ASSUME NEW r \in Runs,
                 \/ Begin(r) \/ Plan(r) \/ ReadClaims(r) \/ PostClaim(r) \/ VerifyClaim(r)
                 \/ FixAndVerify(r) \/ Prepush(r) \/ PushRefused(r) \/ Rereview(r)
                 \/ ReadReports(r) \/ Tell(r) \/ Label(r)
                 \/ VerifyTooEarly(r) \/ JobDies(r) \/ PushJobDies(r) \/ Rerun(r)
          PROVE  UNCHANGED <<head, parent>>
      BY <3>1 DEF Begin, Plan, ReadClaims, PostClaim, VerifyClaim, FixAndVerify, Prepush, PushRefused,
                  Rereview, ReadReports, Tell, Label, VerifyTooEarly, JobDies, PushJobDies, Rerun, world
    <3>2. ReviewArrives \/ Withdraw \/ Release \/ UNCHANGED vars => UNCHANGED <<head, parent>>
      BY DEF ReviewArrives, Withdraw, Release, vars
    <3> QED BY <3>1, <3>2 DEF Next, RunStep
  <2> QED BY <2>3, <2>4, <2>5, <2>6
<1>5. halted' \in BOOLEAN /\ releases' \in 0..MaxReleases
  <2>1. CASE Release
    <3>1. halted' = FALSE /\ releases < MaxReleases /\ releases' = releases + 1
      BY <2>1 DEF Release
    <3>2. releases \in 0..MaxReleases
      BY <1>1 DEF TypeOK
    <3>3. releases' \in 0..MaxReleases
      BY <3>1, <3>2, ReviewLoopAssumption
    <3>4. halted' \in BOOLEAN
      BY <3>1
    <3> QED BY <3>3, <3>4
  <2>2. CASE \E r \in Runs : Label(r)
    <3>1. halted' = TRUE /\ releases' = releases
      BY <2>2 DEF Label
    <3> QED BY <1>1, <3>1 DEF TypeOK
  <2>3. CASE halted' = halted /\ releases' = releases
    BY <1>1, <2>3 DEF TypeOK
  <2>4. Release \/ (\E r \in Runs : Label(r)) \/ (halted' = halted /\ releases' = releases)
    BY WhoDoes
  <2> QED BY <2>1, <2>2, <2>3, <2>4
<1>6. faults' \in 0..MaxFaults
  <2>1. faults \in 0..MaxFaults
    BY <1>1 DEF TypeOK
  <2>2. faults' = faults \/ (faults < MaxFaults /\ faults' = faults + 1)
    <3>1. ASSUME NEW r \in Runs, VerifyTooEarly(r) \/ JobDies(r) \/ PushJobDies(r)
          PROVE  faults < MaxFaults /\ faults' = faults + 1
      BY <3>1 DEF VerifyTooEarly, JobDies, PushJobDies
    <3>2. ASSUME NEW r \in Runs, Begin(r) \/ RunStep(r) \/ Rerun(r) PROVE faults' = faults
      BY <3>2 DEF Begin, RunStep, Plan, ReadClaims, PostClaim, VerifyClaim, FixAndVerify, Prepush, Push,
                  PushRefused, Rereview, ReadReports, Tell, Label, Rerun
    <3>3. HumanPush \/ ReviewArrives \/ Withdraw \/ Release \/ UNCHANGED vars => faults' = faults
      BY DEF HumanPush, ReviewArrives, Withdraw, Release, vars
    <3> QED BY <3>1, <3>2, <3>3 DEF Next
  <2> QED BY <2>1, <2>2, ReviewLoopAssumption
<1>7. review' \in [Commits -> Reviews] /\ standing' \in {"open", "off", "closed"}
  <2>1. CASE UNCHANGED <<review, standing>>
    BY <1>1, <2>1 DEF TypeOK
  <2>2. CASE ReviewArrives
    BY <1>1, <2>2 DEF ReviewArrives, TypeOK
  <2>3. CASE Withdraw
    BY <1>1, <2>3 DEF Withdraw, TypeOK
  <2>4. ASSUME NEW r \in Runs,
               \/ Begin(r) \/ RunStep(r) \/ VerifyTooEarly(r) \/ JobDies(r) \/ PushJobDies(r)
               \/ Rerun(r)
        PROVE  UNCHANGED <<review, standing>>
    BY <2>4 DEF Begin, RunStep, Plan, ReadClaims, PostClaim, VerifyClaim, FixAndVerify, Prepush, Push,
                PushRefused, Rereview, ReadReports, Tell, Label, VerifyTooEarly, JobDies, PushJobDies,
                Rerun, world
  <2>5. HumanPush \/ Release \/ UNCHANGED vars => UNCHANGED <<review, standing>>
    BY DEF HumanPush, Release, vars
  <2> QED BY <2>1, <2>2, <2>3, <2>4, <2>5 DEF Next
<1> QED BY <1>2, <1>3, <1>4, <1>5, <1>6, <1>7 DEF TypeOK, RunRec, Claims, Reports, Places

--------------------------------------------------------------------------------

LEMMA Initially == Init => LoopInv
<1> SUFFICES ASSUME Init PROVE LoopInv
  OBVIOUS
<1>1. TypeOK
  <2>1. run \in [Runs -> RunRec]
    BY FreshIsRec DEF Init
  <2>2. head \in Commits
    BY ReviewLoopAssumption DEF Init, Commits, MaxHead
  <2>3. parent \in UNION {[S -> Commits] : S \in SUBSET (2..head)}
    <3>1. parent \in [{} -> Commits] /\ {} \in SUBSET (2..head)
      BY DEF Init
    <3> QED BY <3>1
  <2>4. ledger \in Seq(Claims) /\ reports \in Seq(Reports)
    BY DEF Init
  <2>5. /\ review \in [Commits -> Reviews]
        /\ faults \in 0..MaxFaults /\ releases \in 0..MaxReleases
    BY ReviewLoopAssumption DEF Init, Reviews
  <2> QED BY <2>1, <2>2, <2>3, <2>4, <2>5 DEF TypeOK, RunRec, Claims, Reports, Places, Init
<1>2. \A r \in Runs : run[r].pc = "idle" /\ run[r].comment = 0 /\ run[r].won = FALSE
  BY DEF Init, Fresh
<1>3. OneLive /\ Distinct
  BY <1>2 DEF OneLive, Distinct, Live, ClaimJob, ReportJob
<1>4. Apart /\ Halting
  BY <1>2 DEF Apart, Halting, Init
<1>5. HumanWorkStands
  BY DEF HumanWorkStands, Init
<1>6. \A r \in Runs : Local(r)
  BY <1>2 DEF Local, Working
<1> QED BY <1>1, <1>3, <1>4, <1>5, <1>6 DEF LoopInv

LEMMA Steadily == ASSUME LoopInv, [Next]_vars PROVE LoopInv'
BY TypesStep, OneLiveStep, DistinctStep, ApartStep, HaltingStep, HumanWorkStep, LocalStep DEF LoopInv

\* The invariant holds of any number of runs, whichever of them overlap, die or run again.
THEOREM LoopKeepsInv == Spec => []LoopInv
BY Initially, Steadily, PTL DEF Spec

\* The types of the fix loop: the branch gets no more commits than people and attempts make.
THEOREM LoopTypes == Spec => []TypeOK
<1>1. LoopInv => TypeOK
  BY DEF LoopInv
<1> QED BY <1>1, LoopKeepsInv, PTL

\* A head commit is fixed by at most one run, and at most MAX_FIX_ATTEMPTS heads are, however
\* the claims of overlapping runs interleave.
THEOREM LoopHasOneWinner == Spec => []OneWinner
BY LoopKeepsInv, Winners, PTL

\* What the loop pushes was made by the winner of its parent, which was the head until then.
THEOREM LoopKeepsHumanWork == Spec => []HumanWorkStands
<1>1. LoopInv => HumanWorkStands
  BY DEF LoopInv
<1> QED BY <1>1, LoopKeepsInv, PTL

\* Where no two runs overlap a condition is reported once, and a pull request that was told it
\* is halted is halted.
THEOREM LoopReportsOnce == Spec => []ReportedOnce
<1>1. LoopInv => ReportedOnce
  BY DEF LoopInv, Apart, Halting, OneActed, OneGroup, ReportedOnce
<1> QED BY <1>1, LoopKeepsInv, PTL

\* Every claim is settled: what became of it was told, it lost, or a job died on it.
THEOREM LoopSettlesClaims == Spec => []ClaimIsSettled
<1>1. ASSUME LoopInv PROVE ClaimIsSettled
  <2>1. TypeOK /\ \A r \in Runs : Local(r)
    BY <1>1 DEF LoopInv
  <2> QED BY <2>1 DEF ClaimIsSettled, Local
<1> QED BY <1>1, LoopKeepsInv, PTL

\* Where no two runs overlap, nothing is pushed while the loop is halted.
THEOREM LoopHaltHolds == Spec => HaltHolds
<1>1. ASSUME LoopInv, [Next]_vars PROVE [halted /\ OneGroup => parent' = parent]_vars
  <2>1. OneGroup => OneActed
    BY DEF OneGroup, OneActed
  <2>2. ASSUME OneActed, NEW r \in Runs, Push(r) PROVE ~halted
    BY <1>1, <2>2 DEF LoopInv, Apart, Push
  <2> QED BY <1>1, <2>1, <2>2, WhoDoes
<1> QED BY <1>1, LoopKeepsInv, PTL DEF Spec, HaltHolds
================================================================================
