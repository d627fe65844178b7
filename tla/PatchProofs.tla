------------------------------ MODULE PatchProofs -------------------------------
(* What the parser makes of a patch, of any number of files, hunks and lines, is what  *)
(* git would make of it; and what is applied is what was checked.  The walk over a      *)
(* text is taken apart as the text is put together: line, hunk, file, patch.           *)
EXTENDS PatchPolicyCases, FiniteSetTheorems, SequenceTheorems, NaturalsInduction, WellFoundedInduction, TLAPS

(* Whatever holds at the start and goes on holding does so at every length.         *)
LEMMA AtEveryLength ==
  ASSUME NEW S, 0 \in S, \A n \in Nat : n \in S => n + 1 \in S
  PROVE  Nat \subseteq S
<1> DEFINE R == OpToRel(<, Nat)
           T == Nat \ S
<1>1. IsWellFoundedOn(R, Nat)
  BY NatLessThanWellFounded
<1>2. \A t, u \in Nat : u < t => <<u, t>> \in R
  BY DEF OpToRel
<1> HIDE DEF R
<1> SUFFICES ASSUME T # {} PROVE FALSE
  OBVIOUS
<1>3. PICK t \in T : \A u \in T : ~(<<u, t>> \in R)
  BY <1>1, WFMin
<1>4. t - 1 \in Nat /\ t - 1 \in T /\ t \in Nat
  OBVIOUS
<1>5. <<t - 1, t>> \in R
  BY <1>2, <1>4
<1> HIDE DEF T
<1> QED BY <1>3, <1>4, <1>5

(* Of numbers one is the least.                                                     *)
LEMMA LeastOf ==
  ASSUME NEW S \in SUBSET Nat, S # {}
  PROVE  \E k \in S : \A l \in S : k <= l
<1> DEFINE R == OpToRel(<, Nat)
<1>1. IsWellFoundedOn(R, Nat)
  BY NatLessThanWellFounded
<1>2. \A t, u \in Nat : u < t => <<u, t>> \in R
  BY DEF OpToRel
<1> HIDE DEF R
<1>3. PICK k \in S : \A l \in S : ~(<<l, k>> \in R)
  BY <1>1, WFMin
<1>4. \A l \in S : ~(l < k)
  BY <1>2, <1>3
<1> QED BY <1>4

--------------------------------------------------------------------------------
(* Lines, one after the other: the walk over two texts is a walk over the first and   *)
(* then over the second.                                                            *)

WalkSteps(p, lines, g, n) == g = [i \in 0..n |-> IF i = 0 THEN p ELSE Step(g[i - 1], lines[i])]

LEMMA WalkThere ==
  ASSUME NEW p, NEW lines
  PROVE  \A n \in Nat : \E g : WalkSteps(p, lines, g, n)
<1> DEFINE S == {n \in Nat : \E g : WalkSteps(p, lines, g, n)}
<1>1. 0 \in S
  <2> DEFINE h == [i \in 0..0 |-> p]
  <2>1. WalkSteps(p, lines, h, 0)
    BY DEF WalkSteps
  <2> QED BY <2>1
<1>2. ASSUME NEW n \in Nat, NEW g, WalkSteps(p, lines, g, n)
      PROVE  \E h : WalkSteps(p, lines, h, n + 1)
  <2> DEFINE h == [i \in 0..(n + 1) |-> IF i <= n THEN g[i] ELSE Step(g[n], lines[n + 1])]
  <2>1. WalkSteps(p, lines, h, n + 1)
    BY <1>2 DEF WalkSteps
  <2> QED BY <2>1
<1>3. Nat \subseteq S
  <2>1. \A n \in Nat : n \in S => n + 1 \in S
    BY <1>2
  <2> HIDE DEF S
  <2> QED BY <1>1, <2>1, AtEveryLength
<1> QED BY <1>3

LEMMA WalkIs ==
  ASSUME NEW p, NEW lines, Len(lines) \in Nat
  PROVE  /\ Walk(p, lines)[0] = p
         /\ \A i \in 1..Len(lines) : Walk(p, lines)[i] = Step(Walk(p, lines)[i - 1], lines[i])
<1> DEFINE G == CHOOSE g : WalkSteps(p, lines, g, Len(lines))
<1>1. WalkSteps(p, lines, G, Len(lines))
  BY WalkThere
<1>2. Walk(p, lines) = G
  BY DEF Walk, WalkSteps
<1> HIDE DEF G
<1> DEFINE W == Walk(p, lines)
<1>3. W = [i \in 0..Len(lines) |-> IF i = 0 THEN p ELSE Step(W[i - 1], lines[i])]
  BY <1>1, <1>2 DEF WalkSteps
<1> HIDE DEF W
<1>4. W[0] = p /\ \A i \in 1..Len(lines) : W[i] = Step(W[i - 1], lines[i])
  BY <1>3
<1> QED BY <1>4 DEF W

End(p, lines) == Walk(p, lines)[Len(lines)]

\* A line of content is read within a hunk, and after a file's name nothing may end.
Sound(p, lines) ==
  \A k \in 1..Len(lines) :
    /\ lines[k].of = "body" => Walk(p, lines)[k - 1].at = "in hunk"
    /\ lines[k].of = "names" => Walk(p, lines)[k].at \in {"new file", "no hunk yet"}

LEMMA WalkFirst ==
  ASSUME NEW p, NEW S, NEW a \in Seq(S), NEW b \in Seq(S)
  PROVE  \A k \in 0..Len(a) : Walk(p, a \o b)[k] = Walk(p, a)[k]
<1> DEFINE ab == a \o b
           A == {k \in Nat : k <= Len(a) => Walk(p, ab)[k] = Walk(p, a)[k]}
<1>1. /\ Len(a) \in Nat /\ Len(b) \in Nat /\ Len(ab) = Len(a) + Len(b)
      /\ \A i \in 1..Len(a) : ab[i] = a[i]
      /\ \A i \in 1..Len(b) : ab[Len(a) + i] = b[i]
  BY ConcatProperties
<1> HIDE DEF ab
<1>0. Len(ab) \in Nat
  BY <1>1
<1>2. \A i \in 1..Len(ab) : Walk(p, ab)[i] = Step(Walk(p, ab)[i - 1], ab[i])
  BY <1>0, WalkIs
<1>3. \A i \in 1..Len(a) : Walk(p, a)[i] = Step(Walk(p, a)[i - 1], a[i])
  BY <1>1, WalkIs
<1>5. Walk(p, ab)[0] = p /\ Walk(p, a)[0] = p
  BY <1>1, WalkIs
<1>6. Nat \subseteq A
  <2>1. 0 \in A
    BY <1>5
  <2>2. ASSUME NEW n \in Nat, n \in A PROVE n + 1 \in A
    <3> SUFFICES ASSUME n + 1 <= Len(a) PROVE Walk(p, ab)[n + 1] = Walk(p, a)[n + 1]
      OBVIOUS
    <3>1. Walk(p, ab)[n] = Walk(p, a)[n]
      BY <1>1, <2>2
    <3>2. n + 1 \in 1..Len(a) /\ n + 1 \in 1..Len(ab) /\ (n + 1) - 1 = n
      BY <1>1
    <3>3. ab[n + 1] = a[n + 1]
      BY <1>1, <3>2
    <3>4. Walk(p, ab)[n + 1] = Step(Walk(p, ab)[n], ab[n + 1])
      BY <1>2, <3>2
    <3>5. Walk(p, a)[n + 1] = Step(Walk(p, a)[n], a[n + 1])
      BY <1>3, <3>2
    <3> QED BY <3>1, <3>3, <3>4, <3>5
  <2> HIDE DEF A
  <2> QED BY <2>1, <2>2, AtEveryLength
<1>7. \A k \in 0..Len(a) : Walk(p, ab)[k] = Walk(p, a)[k]
  BY <1>1, <1>6
<1> QED BY <1>7 DEF ab

LEMMA WalkSecond ==
  ASSUME NEW p, NEW S, NEW a \in Seq(S), NEW b \in Seq(S)
  PROVE  \A k \in 0..Len(b) : Walk(p, a \o b)[Len(a) + k] = Walk(End(p, a), b)[k]
<1> DEFINE ab == a \o b
           B == {k \in Nat : k <= Len(b) => Walk(p, ab)[Len(a) + k] = Walk(End(p, a), b)[k]}
<1>1. /\ Len(a) \in Nat /\ Len(b) \in Nat /\ Len(ab) = Len(a) + Len(b)
      /\ \A i \in 1..Len(a) : ab[i] = a[i]
      /\ \A i \in 1..Len(b) : ab[Len(a) + i] = b[i]
  BY ConcatProperties
<1> HIDE DEF ab
<1>0. Len(ab) \in Nat
  BY <1>1
<1>2. \A i \in 1..Len(ab) : Walk(p, ab)[i] = Step(Walk(p, ab)[i - 1], ab[i])
  BY <1>0, WalkIs
<1>4. \A i \in 1..Len(b) : Walk(End(p, a), b)[i] = Step(Walk(End(p, a), b)[i - 1], b[i])
  BY <1>1, WalkIs
<1>5. Walk(End(p, a), b)[0] = End(p, a)
  BY <1>1, WalkIs
<1>7. \A k \in 0..Len(a) : Walk(p, ab)[k] = Walk(p, a)[k]
  BY WalkFirst DEF ab
<1>8. Nat \subseteq B
  <2>1. 0 \in B
    BY <1>1, <1>5, <1>7 DEF End
  <2>2. ASSUME NEW n \in Nat, n \in B PROVE n + 1 \in B
    <3> SUFFICES ASSUME n + 1 <= Len(b) PROVE Walk(p, ab)[Len(a) + (n + 1)] = Walk(End(p, a), b)[n + 1]
      OBVIOUS
    <3>1. Walk(p, ab)[Len(a) + n] = Walk(End(p, a), b)[n]
      BY <1>1, <2>2
    <3>2. /\ n + 1 \in 1..Len(b) /\ Len(a) + (n + 1) \in 1..Len(ab)
          /\ (n + 1) - 1 = n /\ (Len(a) + (n + 1)) - 1 = Len(a) + n
      BY <1>1
    <3>3. ab[Len(a) + (n + 1)] = b[n + 1]
      BY <1>1, <3>2
    <3>4. Walk(p, ab)[Len(a) + (n + 1)] = Step(Walk(p, ab)[Len(a) + n], ab[Len(a) + (n + 1)])
      BY <1>2, <3>2
    <3>5. Walk(End(p, a), b)[n + 1] = Step(Walk(End(p, a), b)[n], b[n + 1])
      BY <1>4, <3>2
    <3> QED BY <3>1, <3>3, <3>4, <3>5
  <2> HIDE DEF B
  <2> QED BY <2>1, <2>2, AtEveryLength
<1>9. \A k \in 0..Len(b) : Walk(p, ab)[Len(a) + k] = Walk(End(p, a), b)[k]
  BY <1>1, <1>8
<1> QED BY <1>9 DEF ab

LEMMA EndJoined ==
  ASSUME NEW p, NEW S, NEW a \in Seq(S), NEW b \in Seq(S)
  PROVE  End(p, a \o b) = End(End(p, a), b)
<1>1. Len(a) \in Nat /\ Len(b) \in Nat /\ Len(a \o b) = Len(a) + Len(b)
  BY ConcatProperties
<1>2. \A k \in 0..Len(b) : Walk(p, a \o b)[Len(a) + k] = Walk(End(p, a), b)[k]
  BY WalkSecond
<1>3. Len(b) \in 0..Len(b)
  BY <1>1
<1>4. Walk(p, a \o b)[Len(a) + Len(b)] = Walk(End(p, a), b)[Len(b)]
  BY <1>2, <1>3
<1> QED BY <1>1, <1>4 DEF End

LEMMA SoundJoined ==
  ASSUME NEW p, NEW S, NEW a \in Seq(S), NEW b \in Seq(S), Sound(p, a), Sound(End(p, a), b)
  PROVE  Sound(p, a \o b)
<1> DEFINE ab == a \o b
<1>1. Len(a) \in Nat /\ Len(b) \in Nat /\ Len(ab) = Len(a) + Len(b)
  BY ConcatProperties
<1>2. /\ \A i \in 1..Len(a) : ab[i] = a[i]
      /\ \A i \in 1..Len(b) : ab[Len(a) + i] = b[i]
  BY ConcatProperties
<1>3. \A k \in 0..Len(a) : Walk(p, ab)[k] = Walk(p, a)[k]
  BY WalkFirst
<1>6. \A k \in 0..Len(b) : Walk(p, ab)[Len(a) + k] = Walk(End(p, a), b)[k]
  BY WalkSecond
<1> HIDE DEF ab
<1> SUFFICES ASSUME NEW k \in 1..Len(ab)
             PROVE  /\ ab[k].of = "body" => Walk(p, ab)[k - 1].at = "in hunk"
                    /\ ab[k].of = "names" => Walk(p, ab)[k].at \in {"new file", "no hunk yet"}
  BY DEF Sound, ab
<1>4. CASE k <= Len(a)
  <2>1. k \in 1..Len(a) /\ k \in 0..Len(a) /\ k - 1 \in 0..Len(a)
    BY <1>1, <1>4
  <2>2. ab[k] = a[k] /\ Walk(p, ab)[k] = Walk(p, a)[k] /\ Walk(p, ab)[k - 1] = Walk(p, a)[k - 1]
    BY <1>2, <1>3, <2>1
  <2>3. /\ a[k].of = "body" => Walk(p, a)[k - 1].at = "in hunk"
        /\ a[k].of = "names" => Walk(p, a)[k].at \in {"new file", "no hunk yet"}
    BY <2>1 DEF Sound
  <2> QED BY <2>2, <2>3
<1>5. CASE k > Len(a)
  <2> DEFINE j == k - Len(a)
  <2>1. /\ j \in 1..Len(b) /\ j \in 0..Len(b) /\ j - 1 \in 0..Len(b)
        /\ Len(a) + j = k /\ Len(a) + (j - 1) = k - 1
    BY <1>1, <1>5
  <2>2. ab[k] = b[j]
    BY <1>2, <2>1
  <2>3. Walk(p, ab)[k] = Walk(End(p, a), b)[j]
    BY <1>6, <2>1
  <2>4. Walk(p, ab)[k - 1] = Walk(End(p, a), b)[j - 1]
    BY <1>6, <2>1
  <2> HIDE DEF j
  <2>5. j \in 1..Len(b)
    BY <2>1
  <2>6. /\ b[j].of = "body" => Walk(End(p, a), b)[j - 1].at = "in hunk"
        /\ b[j].of = "names" => Walk(End(p, a), b)[j].at \in {"new file", "no hunk yet"}
    BY <2>5 DEF Sound
  <2>7. ab[k].of = "body" => Walk(p, ab)[k - 1].at = "in hunk"
    BY <2>2, <2>4, <2>6
  <2>8. ab[k].of = "names" => Walk(p, ab)[k].at \in {"new file", "no hunk yet"}
    BY <2>2, <2>3, <2>6
  <2> QED BY <2>7, <2>8
<1>7. k <= Len(a) \/ k > Len(a)
  BY <1>1
<1> QED BY <1>4, <1>5, <1>7

--------------------------------------------------------------------------------
(* How many lines of a hunk, or of several, have these tags.                        *)

Counted(h, tags, n) == Cardinality({i \in 1..n : h[i].tag \in tags})

LEMMA CountStep ==
  ASSUME NEW h, NEW tags
  PROVE  \A n \in Nat :
           /\ Counted(h, tags, n) \in Nat
           /\ Counted(h, tags, n + 1) = Counted(h, tags, n) + (IF h[n + 1].tag \in tags THEN 1 ELSE 0)
<1> DEFINE In(n) == {i \in 1..n : h[i].tag \in tags}
<1>1. \A n \in Nat : IsFiniteSet(In(n)) /\ Cardinality(In(n)) \in Nat
  <2> SUFFICES ASSUME NEW n \in Nat PROVE IsFiniteSet(In(n)) /\ Cardinality(In(n)) \in Nat
    OBVIOUS
  <2>1. IsFiniteSet(1..n)
    BY FS_Interval
  <2>2. IsFiniteSet(In(n))
    BY <2>1, FS_Subset
  <2> QED BY <2>2, FS_CardinalityType
<1>3. ASSUME NEW n \in Nat
      PROVE  Cardinality(In(n + 1)) = Cardinality(In(n)) + (IF h[n + 1].tag \in tags THEN 1 ELSE 0)
  <2>1. CASE h[n + 1].tag \in tags
    <3>1. In(n + 1) = In(n) \cup {n + 1} /\ n + 1 \notin In(n)
      BY <2>1
    <3>2. IsFiniteSet(In(n))
      BY <1>1
    <3> HIDE DEF In
    <3>3. Cardinality(In(n) \cup {n + 1}) = Cardinality(In(n)) + 1
      BY <3>1, <3>2, FS_AddElement
    <3> QED BY <2>1, <3>1, <3>3
  <2>2. CASE h[n + 1].tag \notin tags
    <3>1. In(n + 1) = In(n)
      BY <2>2
    <3>2. Cardinality(In(n)) \in Nat
      BY <1>1
    <3> HIDE DEF In
    <3> QED BY <2>2, <3>1, <3>2
  <2> QED BY <2>1, <2>2
<1> QED BY <1>1, <1>3 DEF Counted

LEMMA CountNone ==
  ASSUME NEW h, NEW tags
  PROVE  Counted(h, tags, 0) = 0
<1>1. {i \in 1..0 : h[i].tag \in tags} = {}
  OBVIOUS
<1> QED BY <1>1, FS_EmptySet DEF Counted

LEMMA CountGrows ==
  ASSUME NEW h, NEW tags, NEW n \in Nat
  PROVE  \A m \in Nat : n <= m => Counted(h, tags, n) <= Counted(h, tags, m)
<1> DEFINE C(k) == Counted(h, tags, k)
           S == {m \in Nat : n <= m => C(n) <= C(m)}
<1>1. C(0) = 0 /\ \A k \in Nat : C(k) \in Nat /\ C(k) <= C(k + 1)
  <2>1. \A k \in Nat : C(k) \in Nat /\ C(k + 1) = C(k) + (IF h[k + 1].tag \in tags THEN 1 ELSE 0)
    BY CountStep
  <2>2. C(0) = 0
    BY CountNone
  <2> HIDE DEF C
  <2> QED BY <2>1, <2>2
<1> HIDE DEF C
<1>2. 0 \in S
  BY <1>1
<1>3. ASSUME NEW m \in Nat, m \in S PROVE m + 1 \in S
  <2>1. CASE n <= m
    <3>1. C(n) <= C(m) /\ C(m) <= C(m + 1) /\ C(n) \in Nat /\ C(m) \in Nat /\ C(m + 1) \in Nat
      BY <1>1, <1>3, <2>1
    <3>2. C(n) <= C(m + 1)
      BY <3>1
    <3> QED BY <3>2
  <2>2. CASE ~(n <= m)
    <3>1. n <= m + 1 => n = m + 1
      BY <2>2
    <3>2. C(m + 1) <= C(m + 1)
      BY <1>1
    <3>3. n <= m + 1 => C(n) <= C(m + 1)
      BY <3>1, <3>2
    <3> QED BY <3>3
  <2> QED BY <2>1, <2>2
<1>4. Nat \subseteq S
  <2> HIDE DEF S
  <2> QED BY <1>2, <1>3, AtEveryLength
<1>5. \A m \in Nat : n <= m => C(n) <= C(m)
  BY <1>4
<1> QED BY <1>5 DEF C

LEMMA CountWhole ==
  ASSUME NEW S, NEW h \in Seq(S), NEW tags
  PROVE  Count(h, tags) = Counted(h, tags, Len(h))
<1>1. DOMAIN h = 1..Len(h)
  OBVIOUS
<1> QED BY <1>1 DEF Count, Counted

LEMMA CountJoined ==
  ASSUME NEW S, NEW a \in Seq(S), NEW b \in Seq(S), NEW tags
  PROVE  Count(a \o b, tags) = Count(a, tags) + Count(b, tags)
<1> DEFINE ab == a \o b
           CA(k) == Counted(a, tags, k)
           CB(k) == Counted(b, tags, k)
           C(k) == Counted(ab, tags, k)
           A == {k \in Nat : k <= Len(a) => C(k) = CA(k)}
           B == {k \in Nat : k <= Len(b) => C(Len(a) + k) = CA(Len(a)) + CB(k)}
<1>1. /\ Len(a) \in Nat /\ Len(b) \in Nat /\ ab \in Seq(S) /\ Len(ab) = Len(a) + Len(b)
      /\ \A i \in 1..Len(a) : ab[i] = a[i]
      /\ \A i \in 1..Len(b) : ab[Len(a) + i] = b[i]
  BY ConcatProperties
<1>2. Count(ab, tags) = C(Len(ab)) /\ Count(a, tags) = CA(Len(a)) /\ Count(b, tags) = CB(Len(b))
  BY <1>1, CountWhole
<1> HIDE DEF ab
<1>3. \A k \in Nat : C(k) \in Nat /\ C(k + 1) = C(k) + (IF ab[k + 1].tag \in tags THEN 1 ELSE 0)
  BY CountStep
<1>13. C(0) = 0
  BY CountNone
<1>4. \A k \in Nat : CA(k) \in Nat /\ CA(k + 1) = CA(k) + (IF a[k + 1].tag \in tags THEN 1 ELSE 0)
  BY CountStep
<1>14. CA(0) = 0
  BY CountNone
<1>5. \A k \in Nat : CB(k) \in Nat /\ CB(k + 1) = CB(k) + (IF b[k + 1].tag \in tags THEN 1 ELSE 0)
  BY CountStep
<1>15. CB(0) = 0
  BY CountNone
<1> HIDE DEF C, CA, CB
<1>6. Nat \subseteq A
  <2>1. 0 \in A
    BY <1>13, <1>14
  <2>2. ASSUME NEW n \in Nat, n \in A PROVE n + 1 \in A
    <3> SUFFICES ASSUME n + 1 <= Len(a) PROVE C(n + 1) = CA(n + 1)
      OBVIOUS
    <3>1. C(n) = CA(n) /\ n + 1 \in 1..Len(a)
      BY <1>1, <2>2
    <3>2. ab[n + 1] = a[n + 1]
      BY <1>1, <3>1
    <3> QED BY <1>3, <1>4, <3>1, <3>2
  <2> HIDE DEF A
  <2> QED BY <2>1, <2>2, AtEveryLength
<1>7. C(Len(a)) = CA(Len(a))
  BY <1>1, <1>6
<1>8. Nat \subseteq B
  <2>1. 0 \in B
    BY <1>1, <1>4, <1>15, <1>7
  <2>2. ASSUME NEW n \in Nat, n \in B PROVE n + 1 \in B
    <3> SUFFICES ASSUME n + 1 <= Len(b) PROVE C(Len(a) + (n + 1)) = CA(Len(a)) + CB(n + 1)
      OBVIOUS
    <3>1. C(Len(a) + n) = CA(Len(a)) + CB(n) /\ n + 1 \in 1..Len(b)
      BY <1>1, <2>2
    <3>2. ab[Len(a) + (n + 1)] = b[n + 1]
      BY <1>1, <3>1
    <3>3. Len(a) + n \in Nat /\ (Len(a) + n) + 1 = Len(a) + (n + 1)
      BY <1>1
    <3>4. C((Len(a) + n) + 1) = C(Len(a) + n) + (IF ab[(Len(a) + n) + 1].tag \in tags THEN 1 ELSE 0)
      BY <1>3, <3>3
    <3>5. CB(n + 1) = CB(n) + (IF b[n + 1].tag \in tags THEN 1 ELSE 0) /\ CB(n) \in Nat /\ CA(Len(a)) \in Nat
      BY <1>1, <1>4, <1>5
    <3>6. C(Len(a) + (n + 1)) = C(Len(a) + n) + (IF b[n + 1].tag \in tags THEN 1 ELSE 0)
      BY <3>2, <3>3, <3>4
    <3> QED BY <3>1, <3>5, <3>6
  <2> HIDE DEF B
  <2> QED BY <2>1, <2>2, AtEveryLength
<1>9. C(Len(a) + Len(b)) = CA(Len(a)) + CB(Len(b))
  BY <1>1, <1>8
<1> QED BY <1>1, <1>2, <1>9 DEF ab

--------------------------------------------------------------------------------
(* Texts that follow each other.                                                    *)

FlatSteps(seqs, g, n) == g = [i \in 0..n |-> IF i = 0 THEN <<>> ELSE g[i - 1] \o seqs[i]]

Flat(seqs) == CHOOSE g : FlatSteps(seqs, g, Len(seqs))

LEMMA FlatThere ==
  ASSUME NEW seqs
  PROVE  \A n \in Nat : \E g : FlatSteps(seqs, g, n)
<1> DEFINE S == {n \in Nat : \E g : FlatSteps(seqs, g, n)}
<1>1. 0 \in S
  <2> DEFINE h == [i \in 0..0 |-> <<>>]
  <2>1. FlatSteps(seqs, h, 0)
    BY DEF FlatSteps
  <2> QED BY <2>1
<1>2. ASSUME NEW n \in Nat, NEW g, FlatSteps(seqs, g, n)
      PROVE  \E h : FlatSteps(seqs, h, n + 1)
  <2> DEFINE h == [i \in 0..(n + 1) |-> IF i <= n THEN g[i] ELSE g[n] \o seqs[n + 1]]
  <2>1. FlatSteps(seqs, h, n + 1)
    BY <1>2 DEF FlatSteps
  <2> QED BY <2>1
<1>3. Nat \subseteq S
  <2>1. \A n \in Nat : n \in S => n + 1 \in S
    BY <1>2
  <2> HIDE DEF S
  <2> QED BY <1>1, <2>1, AtEveryLength
<1> QED BY <1>3

LEMMA FlatIs ==
  ASSUME NEW S, NEW seqs \in Seq(Seq(S))
  PROVE  /\ Flat(seqs)[0] = <<>>
         /\ \A i \in 1..Len(seqs) : Flat(seqs)[i] = Flat(seqs)[i - 1] \o seqs[i]
         /\ \A i \in 0..Len(seqs) : Flat(seqs)[i] \in Seq(S)
<1> DEFINE F == Flat(seqs)
           n == Len(seqs)
           T == {i \in Nat : i <= n => F[i] \in Seq(S)}
<1>1. n \in Nat /\ \A i \in 1..n : seqs[i] \in Seq(S)
  OBVIOUS
<1>2. FlatSteps(seqs, F, n)
  BY <1>1, FlatThere DEF Flat
<1> HIDE DEF F, n
<1>3. F = [i \in 0..n |-> IF i = 0 THEN <<>> ELSE F[i - 1] \o seqs[i]]
  BY <1>2 DEF FlatSteps
<1>7. F[0] = <<>>
  BY <1>1, <1>3
<1>8. ASSUME NEW i \in 1..n PROVE F[i] = F[i - 1] \o seqs[i]
  <2>1. i \in 0..n /\ i # 0
    BY <1>1
  <2> QED BY <1>3, <2>1
<1>4. F[0] = <<>> /\ \A i \in 1..n : F[i] = F[i - 1] \o seqs[i]
  BY <1>7, <1>8
<1>5. Nat \subseteq T
  <2>1. 0 \in T
    <3>1. <<>> \in Seq(S)
      OBVIOUS
    <3> QED BY <1>4, <3>1
  <2>2. ASSUME NEW i \in Nat, i \in T PROVE i + 1 \in T
    <3> SUFFICES ASSUME i + 1 <= n PROVE F[i + 1] \in Seq(S)
      OBVIOUS
    <3>1. i + 1 \in 1..n /\ (i + 1) - 1 = i /\ F[i] \in Seq(S)
      BY <1>1, <2>2
    <3>2. F[i + 1] = F[i] \o seqs[i + 1] /\ seqs[i + 1] \in Seq(S)
      BY <1>1, <1>4, <3>1
    <3>3. F[i] \o seqs[i + 1] \in Seq(S)
      BY <3>1, <3>2, ConcatProperties
    <3> QED BY <3>2, <3>3
  <2> HIDE DEF T
  <2> QED BY <2>1, <2>2, AtEveryLength
<1>6. \A i \in 0..n : F[i] \in Seq(S)
  BY <1>1, <1>5
<1> QED BY <1>4, <1>6 DEF F, n

LEMMA FlattenIs ==
  ASSUME NEW S, NEW seqs \in Seq(Seq(S))
  PROVE  FlattenSeq(seqs) = Flat(seqs)[Len(seqs)]
<1> DEFINE F == Flat(seqs)
           n == Len(seqs)
           G == [i \in 1..n |-> F[i]]
           Is(g) == g = [i \in 1..n |-> IF i = 1 THEN seqs[i] ELSE g[i - 1] \o seqs[i]]
           H == CHOOSE g : Is(g)
           T == {i \in Nat : i \in 1..n => H[i] = F[i]}
<1>1. n \in Nat /\ \A i \in 1..n : seqs[i] \in Seq(S)
  OBVIOUS
<1>2. F[0] = <<>>
  BY FlatIs
<1>5. \A i \in 1..n : F[i] = F[i - 1] \o seqs[i]
  BY FlatIs
<1>3. CASE n = 0
  <2>1. seqs = <<>>
    BY <1>3, EmptySeq
  <2> QED BY <1>2, <1>3, <2>1 DEF FlattenSeq
<1>4. CASE n # 0
  <2>1. FlattenSeq(seqs) = H[n]
    BY <1>4 DEF FlattenSeq
  <2> HIDE DEF F, n
  <2>2. Is(G)
    <3>1. ASSUME NEW i \in 1..n PROVE F[i] = IF i = 1 THEN seqs[i] ELSE G[i - 1] \o seqs[i]
      <4>1. CASE i = 1
        <5>1. 1 \in 1..n /\ 1 - 1 = 0
          BY <4>1
        <5>2. F[1] = F[1 - 1] \o seqs[1] /\ seqs[1] \in Seq(S)
          BY <1>1, <1>5, <5>1
        <5>3. F[1] = <<>> \o seqs[1] /\ seqs[1] \in Seq(S)
          BY <1>2, <5>1, <5>2
        <5> QED BY <4>1, <5>3, ConcatEmptySeq
      <4>2. CASE i # 1
        <5>1. i - 1 \in 1..n
          BY <1>1, <4>2
        <5> QED BY <1>5, <4>2, <5>1
      <4> QED BY <4>1, <4>2
    <3> QED BY <3>1
  <2> HIDE DEF G
  <2>3. Is(H)
    BY <2>2
  <2> HIDE DEF H
  <2>4. Nat \subseteq T
    <3>1. 0 \in T
      OBVIOUS
    <3>2. ASSUME NEW i \in Nat, i \in T PROVE i + 1 \in T
      <4> SUFFICES ASSUME i + 1 \in 1..n PROVE H[i + 1] = F[i + 1]
        OBVIOUS
      <4>1. H[i + 1] = IF i + 1 = 1 THEN seqs[i + 1] ELSE H[(i + 1) - 1] \o seqs[i + 1]
        BY <2>3
      <4>2. F[i + 1] = F[(i + 1) - 1] \o seqs[i + 1] 
        BY <1>5
      <4>5. (i + 1) - 1 = i
        OBVIOUS
      <4>3. CASE i = 0
        <5>1. i + 1 = 1 /\ seqs[i + 1] \in Seq(S) /\ F[(i + 1) - 1] = <<>>
          BY <1>1, <1>2, <4>3, <4>5
        <5>2. F[i + 1] = <<>> \o seqs[i + 1]
          BY <4>2, <5>1
        <5>3. F[i + 1] = seqs[i + 1]
          BY <5>1, <5>2, ConcatEmptySeq
        <5>4. H[i + 1] = seqs[i + 1]
          BY <4>1, <5>1
        <5> QED BY <5>3, <5>4
      <4>4. CASE i # 0
        <5>1. H[i] = F[i]
          BY <1>1, <3>2, <4>4
        <5>2. i + 1 # 1
          BY <4>4
        <5>3. H[i + 1] = H[i] \o seqs[i + 1]
          BY <4>1, <4>5, <5>2
        <5>4. F[i + 1] = F[i] \o seqs[i + 1]
          BY <4>2, <4>5
        <5> QED BY <5>1, <5>3, <5>4
      <4> QED BY <4>3, <4>4
    <3> HIDE DEF T
    <3> QED BY <3>1, <3>2, AtEveryLength
  <2>5. n \in Nat /\ n \in 1..n
    BY <1>1, <1>4
  <2>6. H[n] = F[n]
    BY <2>4, <2>5
  <2> QED BY <2>1, <2>6 DEF F, n
<1> QED BY <1>3, <1>4

--------------------------------------------------------------------------------
(* A patch as git writes it.                                                        *)

IsContent(l) == l.of = "body" /\ l.tag \in {" ", "-", "+"}

IsHunk(h) ==
  /\ h # <<>> /\ IsContent(h[1])
  /\ \A i \in 1..Len(h) : IsContent(h[i]) \/ h[i] = NoNewline
  /\ \A i \in 1..(Len(h) - 1) : h[i] = NoNewline => IsContent(h[i + 1])

Plus == {"+"}

Minus == {"-"}

OldSide == {" ", "-"}
NewSide == {" ", "+"}

At(files, at, o, n) == [files |-> files, at |-> at, oldLeft |-> o, newLeft |-> n]

\* The entry of a file of which so many lines are read.
Of(f, a, r) ==
  [old |-> f.path, new |-> f.path, status |-> f.status,
   oldMode |-> IF f.status = "delete" THEN f.mode ELSE None,
   newMode |-> IF f.status = "add" THEN f.mode ELSE None,
   indexMode |-> IF f.status = "modify" THEN f.mode ELSE None,
   binary |-> FALSE, added |-> a, removed |-> r]

IsParser(p) == p = [v \in {"files", "at", "oldLeft", "newLeft"} |-> p[v]]

IsEntry(e) ==
  e = [v \in {"old", "new", "status", "oldMode", "newMode", "indexMode", "binary", "added", "removed"} |-> e[v]]

LEMMA ParserIs ==
  ASSUME NEW p, IsParser(p)
  PROVE  p = At(p.files, p.at, p.oldLeft, p.newLeft)
BY DEF IsParser, At

LEMMA ParserFields ==
  ASSUME NEW files, NEW at, NEW o, NEW n
  PROVE  /\ IsParser(At(files, at, o, n))
         /\ At(files, at, o, n).files = files /\ At(files, at, o, n).at = at
         /\ At(files, at, o, n).oldLeft = o /\ At(files, at, o, n).newLeft = n
BY DEF IsParser, At

LEMMA EntryIs ==
  ASSUME NEW e, IsEntry(e)
  PROVE  e = [old |-> e.old, new |-> e.new, status |-> e.status, oldMode |-> e.oldMode, newMode |-> e.newMode,
              indexMode |-> e.indexMode, binary |-> e.binary, added |-> e.added, removed |-> e.removed]
BY DEF IsEntry

\* Two entries are one if they agree in all fields.
SameEntry(e, d) ==
  /\ e.old = d.old /\ e.new = d.new /\ e.status = d.status
  /\ e.oldMode = d.oldMode /\ e.newMode = d.newMode /\ e.indexMode = d.indexMode
  /\ e.binary = d.binary /\ e.added = d.added /\ e.removed = d.removed

LEMMA EntriesEqual ==
  ASSUME NEW e, IsEntry(e), NEW d, IsEntry(d), SameEntry(e, d)
  PROVE  e = d
BY EntryIs DEF SameEntry

LEMMA OfIs ==
  ASSUME NEW f, NEW a, NEW r
  PROVE  /\ IsEntry(Of(f, a, r))
         /\ Of(f, a, r).added = a /\ Of(f, a, r).removed = r
BY DEF Of, IsEntry

LEMMA OneMoreLine ==
  ASSUME NEW f, NEW a, NEW r
  PROVE  /\ [Of(f, a, r) EXCEPT !.added = @ + 1] = Of(f, a + 1, r)
         /\ [Of(f, a, r) EXCEPT !.removed = @ + 1] = Of(f, a, r + 1)
<1> DEFINE e == Of(f, a, r)
           more == [e EXCEPT !.added = @ + 1]
           less == [e EXCEPT !.removed = @ + 1]
<1>1. IsEntry(e) /\ e.added = a /\ e.removed = r
  BY OfIs
<1>2. /\ e.old = f.path /\ e.new = f.path /\ e.status = f.status /\ e.binary = FALSE
      /\ \A x, y : /\ Of(f, x, y).oldMode = e.oldMode /\ Of(f, x, y).newMode = e.newMode
                   /\ Of(f, x, y).indexMode = e.indexMode /\ Of(f, x, y).binary = FALSE
                   /\ Of(f, x, y).old = f.path /\ Of(f, x, y).new = f.path /\ Of(f, x, y).status = f.status
  BY DEF Of
<1> HIDE DEF e
<1>3. /\ IsEntry(more) /\ more.added = a + 1 /\ more.removed = r
      /\ more.old = e.old /\ more.new = e.new /\ more.status = e.status /\ more.binary = e.binary
      /\ more.oldMode = e.oldMode /\ more.newMode = e.newMode /\ more.indexMode = e.indexMode
  BY <1>1 DEF IsEntry
<1>4. /\ IsEntry(less) /\ less.added = a /\ less.removed = r + 1
      /\ less.old = e.old /\ less.new = e.new /\ less.status = e.status /\ less.binary = e.binary
      /\ less.oldMode = e.oldMode /\ less.newMode = e.newMode /\ less.indexMode = e.indexMode
  BY <1>1 DEF IsEntry
<1> HIDE DEF more, less
<1>8. /\ Of(f, a + 1, r).added = a + 1 /\ Of(f, a + 1, r).removed = r
      /\ Of(f, a, r + 1).added = a /\ Of(f, a, r + 1).removed = r + 1
  BY OfIs
<1>9. SameEntry(more, Of(f, a + 1, r))
  <2> DEFINE d == Of(f, a + 1, r)
  <2>1. /\ d.oldMode = e.oldMode /\ d.newMode = e.newMode /\ d.indexMode = e.indexMode /\ d.binary = FALSE
        /\ d.old = f.path /\ d.new = f.path /\ d.status = f.status /\ d.added = a + 1 /\ d.removed = r
    BY <1>2, <1>8
  <2> HIDE DEF d
  <2>2. SameEntry(more, d)
    BY <1>2, <1>3, <2>1 DEF SameEntry
  <2> QED BY <2>2 DEF d
<1>5. SameEntry(less, Of(f, a, r + 1))
  BY <1>2, <1>4, <1>8 DEF SameEntry
<1>6. more = Of(f, a + 1, r)
  BY <1>3, <1>9, OfIs, EntriesEqual
<1>7. less = Of(f, a, r + 1)
  BY <1>4, <1>5, OfIs, EntriesEqual
<1> QED BY <1>6, <1>7 DEF more, less, e

IsSeq(s) == \E T : s \in Seq(T)

LEMMA LastIs ==
  ASSUME NEW fs, IsSeq(fs), NEW e
  PROVE  Last(Append(fs, e)) = e /\ Front(Append(fs, e)) = fs
<1>1. PICK T : fs \in Seq(T)
  BY DEF IsSeq
<1> DEFINE U == T \cup {e}
           q == Append(fs, e)
<1>2. fs \in Seq(U) /\ e \in U
  BY <1>1
<1> HIDE DEF U
<1>3. q \in Seq(U) /\ Len(q) = Len(fs) + 1 /\ Len(fs) \in Nat
  BY <1>2
<1>4. q[Len(fs) + 1] = e
  BY <1>2, AppendProperties
<1>5. Last(q) = e
  BY <1>3, <1>4 DEF Last
<1>6. SubSeq(q, 1, Len(fs)) = fs
  BY <1>2
<1>7. Front(q) = fs
  BY <1>3, <1>6 DEF Front
<1> QED BY <1>5, <1>7

LEMMA CurrentIs ==
  ASSUME NEW fs, IsSeq(fs), NEW e, NEW at, NEW o, NEW n
  PROVE  Current(At(Append(fs, e), at, o, n)) = e
BY LastIs, ParserFields DEF Current

LEMMA Amended ==
  ASSUME NEW fs, IsSeq(fs), NEW e, NEW e2, NEW at, NEW o, NEW n
  PROVE  Amend(At(Append(fs, e), at, o, n), e2) = At(Append(fs, e2), at, o, n)
<1> DEFINE q == Append(fs, e)
           p == At(q, at, o, n)
           p2 == [p EXCEPT !.files = Append(Front(@), e2)]
<1>1. Front(q) = fs
  BY LastIs
<1> HIDE DEF q
<1>2. IsParser(p) /\ p.files = q /\ p.at = at /\ p.oldLeft = o /\ p.newLeft = n
  BY ParserFields
<1> HIDE DEF p
<1>3. IsParser(p2) /\ p2.files = Append(Front(q), e2) /\ p2.at = at /\ p2.oldLeft = o /\ p2.newLeft = n
  BY <1>2 DEF IsParser
<1>4. Amend(p, e2) = p2
  BY DEF Amend
<1> HIDE DEF p2
<1>5. p2 = At(Append(fs, e2), at, o, n)
  BY <1>1, <1>3, ParserIs
<1> QED BY <1>4, <1>5 DEF p, q

\* There is room for the line in what is left of the hunk.
Room(line, o, n) ==
  /\ o \in Nat /\ n \in Nat
  /\ line.tag \in OldSide => o > 0
  /\ line.tag \in NewSide => n > 0

Leaving(p, at, o, n) == [p EXCEPT !.oldLeft = o, !.newLeft = n, !.at = at]

LEMMA LeavingIs ==
  ASSUME NEW p, IsParser(p), NEW at, NEW o, NEW n
  PROVE  Leaving(p, at, o, n) = At(p.files, at, o, n)
<1> DEFINE p2 == [p EXCEPT !.oldLeft = o, !.newLeft = n, !.at = at]
           q == p.files
<1>2. IsParser(p2) /\ p2.files = q /\ p2.at = at /\ p2.oldLeft = o /\ p2.newLeft = n
  BY DEF IsParser
<1> HIDE DEF p2, q
<1>3. p2 = At(q, at, o, n)
  BY <1>2, ParserIs
<1> QED BY <1>3 DEF p2, q, Leaving

InHunk == "in hunk"

AtHunk == "hunk"

HunkEnded == "hunk ended"

AfterLine(o, n) == IF o = 0 /\ n = 0 THEN AtHunk ELSE InHunk

\* What is left of a side of the hunk when such a line is read, and what is counted.
Less(x, tag, side) == x - (IF tag \in side THEN 1 ELSE 0)

More(x, tag, side) == x + (IF tag \in side THEN 1 ELSE 0)

MoreAdded(e) == [e EXCEPT !.added = @ + 1]

MoreRemoved(e) == [e EXCEPT !.removed = @ + 1]

ReadInto(e, tag) == IF tag = "-" THEN MoreRemoved(e) ELSE IF tag = "+" THEN MoreAdded(e) ELSE e

LEMMA HunkLineIs ==
  ASSUME NEW fs, IsSeq(fs), NEW e, NEW o, NEW n, NEW line, Room(line, o, n), IsContent(line)
  PROVE  Step(At(Append(fs, e), InHunk, o, n), line) =
           At(Append(fs, ReadInto(e, line.tag)), AfterLine(Less(o, line.tag, OldSide), Less(n, line.tag, NewSide)),
              Less(o, line.tag, OldSide), Less(n, line.tag, NewSide))
<1> DEFINE q == Append(fs, e)
           p == At(q, InHunk, o, n)
           o2 == Less(o, line.tag, OldSide)
           n2 == Less(n, line.tag, NewSide)
           w == AfterLine(o2, n2)
           L == Leaving(p, w, o2, n2)
           d == ReadInto(e, line.tag)
<1>1. Current(p) = e
  BY CurrentIs
<1>2. Amend(At(q, w, o2, n2), d) = At(Append(fs, d), w, o2, n2)
  <2> HIDE DEF w, o2, n2, d
  <2> QED BY Amended
<1> HIDE DEF q
<1>3. IsParser(p) /\ p.files = q /\ p.at = InHunk /\ p.oldLeft = o /\ p.newLeft = n
  BY ParserFields
<1> HIDE DEF p, o2, n2, w, d
<1>4. L = At(q, w, o2, n2)
  BY <1>3, LeavingIs
<1>5. Step(p, line) = HunkLine(p, line)
  BY <1>3 DEF Step, InHunk
<1>6. Amend(L, d) = At(Append(fs, d), w, o2, n2)
  BY <1>2, <1>4
<1>7. ASSUME line.tag = " " PROVE HunkLine(p, line) = L /\ d = e
  <2>1. o > 0 /\ n > 0 /\ o \in Nat /\ n \in Nat
    BY <1>7 DEF Room, OldSide, NewSide
  <2>2. o2 = o - 1 /\ n2 = n - 1 /\ d = e
    BY <1>7 DEF o2, n2, d, Less, OldSide, NewSide, ReadInto
  <2>3. HunkLine(p, line) = L
    BY <1>3, <1>7, <2>1, <2>2 DEF HunkLine, Leaving, w, AfterLine, InHunk, AtHunk
  <2> QED BY <2>2, <2>3
<1>8. ASSUME line.tag = "-" PROVE HunkLine(p, line) = Amend(L, d)
  <2>1. o > 0 /\ o \in Nat /\ n \in Nat
    BY <1>8 DEF Room, OldSide, NewSide
  <2>2. o2 = o - 1 /\ n2 = n /\ d = [e EXCEPT !.removed = @ + 1]
    BY <1>8, <2>1 DEF o2, n2, d, Less, OldSide, NewSide, ReadInto, MoreRemoved
  <2>3. HunkLine(p, line) = Amend(L, [e EXCEPT !.removed = @ + 1])
    BY <1>1, <1>3, <1>8, <2>1, <2>2 DEF HunkLine, Leaving, w, AfterLine, InHunk, AtHunk
  <2> HIDE DEF L
  <2> QED BY <2>2, <2>3
<1>9. ASSUME line.tag = "+" PROVE HunkLine(p, line) = Amend(L, d)
  <2>1. n > 0 /\ o \in Nat /\ n \in Nat
    BY <1>9 DEF Room, OldSide, NewSide
  <2>2. o2 = o /\ n2 = n - 1 /\ d = [e EXCEPT !.added = @ + 1]
    BY <1>9, <2>1 DEF o2, n2, d, Less, OldSide, NewSide, ReadInto, MoreAdded
  <2>3. HunkLine(p, line) = Amend(L, [e EXCEPT !.added = @ + 1])
    BY <1>1, <1>3, <1>9, <2>1, <2>2 DEF HunkLine, Leaving, w, AfterLine, InHunk, AtHunk
  <2> HIDE DEF L
  <2> QED BY <2>2, <2>3
<1> HIDE DEF L
<1>10. ASSUME line.tag = " " PROVE Step(p, line) = At(Append(fs, d), w, o2, n2)
  BY <1>4, <1>5, <1>7, <1>10 DEF q
<1>11. Step(p, line) = At(Append(fs, d), w, o2, n2)
  BY <1>5, <1>6, <1>8, <1>9, <1>10 DEF IsContent
<1> QED BY <1>11 DEF p, q, w, o2, n2, d

LEMMA BodyStep ==
  ASSUME NEW fs, IsSeq(fs), NEW f, NEW a \in Nat, NEW r \in Nat, NEW o, NEW n,
         NEW line, IsContent(line), Room(line, o, n)
  PROVE  Step(At(Append(fs, Of(f, a, r)), InHunk, o, n), line) =
           At(Append(fs, Of(f, More(a, line.tag, Plus), More(r, line.tag, Minus))),
              AfterLine(Less(o, line.tag, OldSide), Less(n, line.tag, NewSide)),
              Less(o, line.tag, OldSide), Less(n, line.tag, NewSide))
<1> DEFINE e == Of(f, a, r)
<1>1. MoreRemoved(e) = Of(f, a, r + 1) /\ MoreAdded(e) = Of(f, a + 1, r)
  BY OneMoreLine DEF MoreRemoved, MoreAdded
<1>2. Step(At(Append(fs, e), InHunk, o, n), line) =
        At(Append(fs, ReadInto(e, line.tag)), AfterLine(Less(o, line.tag, OldSide), Less(n, line.tag, NewSide)),
           Less(o, line.tag, OldSide), Less(n, line.tag, NewSide))
  <2> HIDE DEF e
  <2> QED BY HunkLineIs
<1>3. a + 0 = a /\ r + 0 = r
  OBVIOUS
<1>4. ReadInto(e, line.tag) = Of(f, More(a, line.tag, Plus), More(r, line.tag, Minus))
  <2>1. CASE line.tag = " "
    BY <1>3, <2>1 DEF ReadInto, More, Plus, Minus
  <2>2. CASE line.tag = "-"
    <3>1. More(a, line.tag, Plus) = a /\ More(r, line.tag, Minus) = r + 1 /\ ReadInto(e, line.tag) = MoreRemoved(e)
      BY <2>2 DEF More, ReadInto, Plus, Minus
    <3> HIDE DEF e
    <3> QED BY <1>1, <3>1
  <2>3. CASE line.tag = "+"
    <3>1. More(a, line.tag, Plus) = a + 1 /\ More(r, line.tag, Minus) = r /\ ReadInto(e, line.tag) = MoreAdded(e)
      BY <2>3 DEF More, ReadInto, Plus, Minus
    <3> HIDE DEF e
    <3> QED BY <1>1, <3>1
  <2> QED BY <2>1, <2>2, <2>3 DEF IsContent
<1> QED BY <1>2, <1>4

LEMMA MarkIs ==
  /\ NoNewline.tag \notin {" ", "-", "+"} /\ NoNewline.head = "no newline" /\ NoNewline.of = "mark"
  /\ ~IsContent(NoNewline)
BY DEF NoNewline, Line, IsContent

LEMMA MarkStep ==
  ASSUME NEW files, NEW o, NEW n
  PROVE  /\ Step(At(files, InHunk, o, n), NoNewline) = At(files, InHunk, o, n)
         /\ Step(At(files, AtHunk, o, n), NoNewline) = At(files, HunkEnded, o, n)
<1>1. NoNewline.tag \notin {" ", "-", "+"} /\ NoNewline.head = "no newline"
  BY MarkIs
<1>2. Step(At(files, InHunk, o, n), NoNewline) = At(files, InHunk, o, n)
  BY <1>1 DEF Step, HunkLine, At, InHunk
<1>3. Step(At(files, AtHunk, o, n), NoNewline) = At(files, HunkEnded, o, n)
  BY <1>1 DEF Step, At, AtHunk, HunkEnded
<1> QED BY <1>2, <1>3

\* What is left of a side of a hunk after so many of its lines, and where the parser then is.
LeftOf(h, side, k) == Counted(h, side, Len(h)) - Counted(h, side, k)

HeldAt(h, k) ==
  IF LeftOf(h, OldSide, k) = 0 /\ LeftOf(h, NewSide, k) = 0
  THEN (IF h[k] = NoNewline THEN HunkEnded ELSE AtHunk)
  ELSE InHunk

Held(fs, f, a, r, h, k) ==
  At(Append(fs, Of(f, a + Counted(h, Plus, k), r + Counted(h, Minus, k))),
     HeldAt(h, k), LeftOf(h, OldSide, k), LeftOf(h, NewSide, k))

LEMMA LeftStep ==
  ASSUME NEW S, NEW h \in Seq(S), NEW side, NEW k \in Nat, k < Len(h)
  PROVE  /\ LeftOf(h, side, k) \in Nat /\ LeftOf(h, side, k + 1) \in Nat
         /\ LeftOf(h, side, k + 1) = Less(LeftOf(h, side, k), h[k + 1].tag, side)
         /\ h[k + 1].tag \in side => LeftOf(h, side, k) > 0
<1> DEFINE n == Len(h)
           C(i) == Counted(h, side, i)
<1>1. n \in Nat /\ k + 1 <= n
  OBVIOUS
<1> HIDE DEF n
<1>2. C(k) \in Nat /\ C(n) \in Nat /\ C(k + 1) \in Nat
  BY <1>1, CountStep
<1>3. C(k + 1) = C(k) + (IF h[k + 1].tag \in side THEN 1 ELSE 0)
  BY CountStep
<1>4. C(k + 1) <= C(n)
  BY <1>1, CountGrows
<1>7. LeftOf(h, side, k) = C(n) - C(k) /\ LeftOf(h, side, k + 1) = C(n) - C(k + 1)
  BY DEF LeftOf, n
<1> HIDE DEF C
<1>5. LeftOf(h, side, k) \in Nat /\ LeftOf(h, side, k + 1) \in Nat
  BY <1>2, <1>3, <1>4, <1>7
<1>6. LeftOf(h, side, k + 1) = Less(LeftOf(h, side, k), h[k + 1].tag, side)
  BY <1>2, <1>3, <1>7 DEF Less
<1>8. h[k + 1].tag \in side => LeftOf(h, side, k) > 0
  BY <1>2, <1>3, <1>4, <1>7
<1> QED BY <1>5, <1>6, <1>8

LEMMA NothingLeft ==
  ASSUME NEW S, NEW h \in Seq(S), NEW side
  PROVE  LeftOf(h, side, Len(h)) = 0
<1>1. Len(h) \in Nat
  OBVIOUS
<1>2. Counted(h, side, Len(h)) \in Nat
  BY <1>1, CountStep
<1> QED BY <1>2 DEF LeftOf

\* A line of content is met in the hunk.
LEMMA HunkStands ==
  ASSUME NEW S, NEW h \in Seq(S), NEW k \in Nat, k < Len(h), IsContent(h[k + 1])
  PROVE  HeldAt(h, k) = InHunk
<1> DEFINE o == LeftOf(h, OldSide, k)
           n == LeftOf(h, NewSide, k)
           tag == h[k + 1].tag
<1>1. tag \in OldSide => o > 0
  BY LeftStep
<1>2. tag \in NewSide => n > 0
  BY LeftStep
<1>3. tag \in OldSide \/ tag \in NewSide
  BY DEF IsContent, OldSide, NewSide
<1>4. ~(o = 0 /\ n = 0)
  BY <1>1, <1>2, <1>3
<1> QED BY <1>4 DEF HeldAt

LEMMA HunkStep ==
  ASSUME NEW fs, IsSeq(fs), NEW f, NEW a \in Nat, NEW r \in Nat,
         NEW S, NEW h \in Seq(S), IsHunk(h), NEW k \in Nat, k < Len(h)
  PROVE  Step(Held(fs, f, a, r, h, k), h[k + 1]) = Held(fs, f, a, r, h, k + 1)
<1> DEFINE line == h[k + 1]
           tag == line.tag
           o == LeftOf(h, OldSide, k)
           n == LeftOf(h, NewSide, k)
           o2 == LeftOf(h, OldSide, k + 1)
           n2 == LeftOf(h, NewSide, k + 1)
           x == a + Counted(h, Plus, k)
           y == r + Counted(h, Minus, k)
           x2 == a + Counted(h, Plus, k + 1)
           y2 == r + Counted(h, Minus, k + 1)
<1>1. Len(h) \in Nat /\ k + 1 \in 1..Len(h)
  OBVIOUS
<1>2. o \in Nat /\ o2 \in Nat /\ o2 = Less(o, tag, OldSide) /\ (tag \in OldSide => o > 0)
  BY LeftStep
<1>3. n \in Nat /\ n2 \in Nat /\ n2 = Less(n, tag, NewSide) /\ (tag \in NewSide => n > 0)
  BY LeftStep
<1>4. x \in Nat /\ y \in Nat /\ x2 = More(x, tag, Plus) /\ y2 = More(y, tag, Minus)
  <2>1. Counted(h, Plus, k) \in Nat /\ Counted(h, Minus, k) \in Nat
    BY CountStep
  <2>2. Counted(h, Plus, k + 1) = Counted(h, Plus, k) + (IF h[k + 1].tag \in Plus THEN 1 ELSE 0)
    BY CountStep
  <2>3. Counted(h, Minus, k + 1) = Counted(h, Minus, k) + (IF h[k + 1].tag \in Minus THEN 1 ELSE 0)
    BY CountStep
  <2> QED BY <2>1, <2>2, <2>3 DEF More
<1>5. /\ Held(fs, f, a, r, h, k) = At(Append(fs, Of(f, x, y)), HeldAt(h, k), o, n)
      /\ Held(fs, f, a, r, h, k + 1) = At(Append(fs, Of(f, x2, y2)), HeldAt(h, k + 1), o2, n2)
  BY DEF Held
<1>6. IsContent(line) \/ line = NoNewline
  BY <1>1 DEF IsHunk
<1>7. /\ HeldAt(h, k) = IF o = 0 /\ n = 0 THEN (IF h[k] = NoNewline THEN HunkEnded ELSE AtHunk) ELSE InHunk
      /\ HeldAt(h, k + 1) = IF o2 = 0 /\ n2 = 0 THEN (IF line = NoNewline THEN HunkEnded ELSE AtHunk) ELSE InHunk
  BY DEF HeldAt
<1>8. line = NoNewline => k # 0 /\ h[k] # NoNewline
  <2>1. k = 0 => IsContent(line)
    BY DEF IsHunk
  <2>2. k # 0 => k \in 1..(Len(h) - 1)
    BY <1>1
  <2>3. \A i \in 1..(Len(h) - 1) : h[i] = NoNewline => IsContent(h[i + 1])
    BY DEF IsHunk
  <2>4. k # 0 /\ h[k] = NoNewline => IsContent(line)
    BY <2>2, <2>3
  <2> QED BY <2>1, <2>4, MarkIs
<1> HIDE DEF line, o, n, o2, n2, x, y, x2, y2
<1>9. CASE IsContent(line)
  <2>1. Room(line, o, n)
    BY <1>2, <1>3 DEF Room
  <2>2. HeldAt(h, k) = InHunk
    BY <1>9, HunkStands DEF line
  <2>3. Step(At(Append(fs, Of(f, x, y)), InHunk, o, n), line) =
          At(Append(fs, Of(f, x2, y2)), AfterLine(o2, n2), o2, n2)
    BY <1>2, <1>3, <1>4, <1>9, <2>1, BodyStep
  <2>4. HeldAt(h, k + 1) = AfterLine(o2, n2)
    BY <1>7, <1>9, MarkIs DEF AfterLine
  <2>5. Step(Held(fs, f, a, r, h, k), line) = Held(fs, f, a, r, h, k + 1)
    BY <1>5, <2>2, <2>3, <2>4
  <2> QED BY <2>5 DEF line
<1>10. CASE line = NoNewline
  <2>1. o2 = o /\ n2 = n /\ x2 = x /\ y2 = y
    <3>1. tag \notin OldSide /\ tag \notin NewSide /\ tag \notin Plus /\ tag \notin Minus
      BY <1>10, MarkIs DEF OldSide, NewSide, Plus, Minus
    <3>2. o2 = o - 0 /\ n2 = n - 0 /\ x2 = x + 0 /\ y2 = y + 0
      BY <1>2, <1>3, <1>4, <3>1 DEF Less, More
    <3> QED BY <1>2, <1>3, <1>4, <3>2
  <2>2. CASE o = 0 /\ n = 0
    <3>1. HeldAt(h, k) = AtHunk /\ HeldAt(h, k + 1) = HunkEnded
      BY <1>7, <1>8, <1>10, <2>1, <2>2
    <3>2. Step(At(Append(fs, Of(f, x, y)), AtHunk, o, n), line) = At(Append(fs, Of(f, x, y)), HunkEnded, o, n)
      BY <1>10, MarkStep
    <3> QED BY <1>5, <1>10, <2>1, <3>1, <3>2, MarkIs DEF line
  <2>3. CASE ~(o = 0 /\ n = 0)
    <3>1. HeldAt(h, k) = InHunk /\ HeldAt(h, k + 1) = InHunk
      BY <1>7, <2>1, <2>3
    <3>2. Step(At(Append(fs, Of(f, x, y)), InHunk, o, n), line) = At(Append(fs, Of(f, x, y)), InHunk, o, n)
      BY <1>10, MarkStep
    <3> QED BY <1>5, <1>10, <2>1, <3>1, <3>2, MarkIs DEF line
  <2> QED BY <2>2, <2>3
<1> QED BY <1>6, <1>9, <1>10

LEMMA HunkHeld ==
  ASSUME NEW fs, IsSeq(fs), NEW f, NEW a \in Nat, NEW r \in Nat, NEW S, NEW h \in Seq(S), IsHunk(h)
  PROVE  \A k \in 0..Len(h) : Walk(Held(fs, f, a, r, h, 0), h)[k] = Held(fs, f, a, r, h, k)
<1> DEFINE H(k) == Held(fs, f, a, r, h, k)
           W == Walk(H(0), h)
           T == {k \in Nat : k <= Len(h) => W[k] = H(k)}
<1>1. Len(h) \in Nat
  OBVIOUS
<1>2. ASSUME NEW k \in Nat, k < Len(h) PROVE Step(H(k), h[k + 1]) = H(k + 1)
  <2>1. Step(Held(fs, f, a, r, h, k), h[k + 1]) = Held(fs, f, a, r, h, k + 1)
    BY <1>2, HunkStep
  <2> QED BY <2>1
<1> HIDE DEF H
<1>3. W[0] = H(0)
  BY <1>1, WalkIs
<1>4. \A i \in 1..Len(h) : W[i] = Step(W[i - 1], h[i])
  BY <1>1, WalkIs
<1> HIDE DEF W
<1>5. Nat \subseteq T
  <2>1. 0 \in T
    BY <1>3
  <2>2. ASSUME NEW k \in Nat, k \in T PROVE k + 1 \in T
    <3> SUFFICES ASSUME k + 1 <= Len(h) PROVE W[k + 1] = H(k + 1)
      OBVIOUS
    <3>1. k < Len(h) /\ k + 1 \in 1..Len(h) /\ (k + 1) - 1 = k /\ W[k] = H(k)
      BY <1>1, <2>2
    <3>2. W[k + 1] = Step(W[k], h[k + 1])
      BY <1>4, <3>1
    <3> QED BY <1>2, <3>1, <3>2
  <2> HIDE DEF T
  <2> QED BY <2>1, <2>2, AtEveryLength
<1>6. \A k \in 0..Len(h) : W[k] = H(k)
  BY <1>1, <1>5
<1> QED BY <1>6 DEF W, H

LEMMA HunkSound ==
  ASSUME NEW fs, IsSeq(fs), NEW f, NEW a \in Nat, NEW r \in Nat, NEW S, NEW h \in Seq(S), IsHunk(h)
  PROVE  Sound(Held(fs, f, a, r, h, 0), h)
<1> DEFINE p == Held(fs, f, a, r, h, 0)
           W == Walk(p, h)
<1> SUFFICES ASSUME NEW k \in 1..Len(h)
             PROVE  /\ h[k].of = "body" => W[k - 1].at = "in hunk"
                    /\ h[k].of = "names" => W[k].at \in {"new file", "no hunk yet"}
  BY DEF Sound
<1>1. k - 1 \in Nat /\ k - 1 < Len(h) /\ (k - 1) + 1 = k /\ k - 1 \in 0..Len(h)
  OBVIOUS
<1>2. \A i \in 0..Len(h) : W[i] = Held(fs, f, a, r, h, i)
  BY HunkHeld
<1>6. IsContent(h[k]) => HeldAt(h, k - 1) = InHunk
  BY <1>1, HunkStands
<1>7. Held(fs, f, a, r, h, k - 1).at = HeldAt(h, k - 1)
  BY ParserFields DEF Held
<1>8. h[k].of = "body" => IsContent(h[k])
  BY MarkIs DEF IsHunk
<1>3. h[k].of = "body" => Held(fs, f, a, r, h, k - 1).at = InHunk
  BY <1>6, <1>7, <1>8
<1> HIDE DEF W
<1>4. W[k - 1] = Held(fs, f, a, r, h, k - 1)
  BY <1>1, <1>2
<1>5. h[k].of # "names"
  BY MarkIs DEF IsHunk, IsContent
<1> QED BY <1>3, <1>4, <1>5 DEF InHunk

LEMMA OnlyOne == (\A i \in 1..1 : i = 1) /\ (\A i : i \notin 1..0)
OBVIOUS

LEMMA FunctionIsSeq ==
  ASSUME NEW V, NEW n \in Nat, NEW g \in [1..n -> V]
  PROVE  g \in Seq(V) /\ Len(g) = n
OBVIOUS

\* One line.
LEMMA OneLine ==
  ASSUME NEW p, NEW line
  PROVE  End(p, <<line>>) = Step(p, line)
<1> DEFINE s == <<line>>
<1>1. Len(s) = 1 /\ s[1] = line
  OBVIOUS
<1> HIDE DEF s
<1>2. Len(s) \in Nat /\ 1 \in 1..Len(s) /\ 1 - 1 = 0
  BY <1>1
<1>3. Walk(p, s)[0] = p
  BY <1>2, WalkIs
<1>4. Walk(p, s)[1] = Step(Walk(p, s)[1 - 1], s[1])
  BY <1>2, WalkIs
<1>5. End(p, s) = Step(p, line)
  BY <1>1, <1>2, <1>3, <1>4 DEF End
<1> QED BY <1>5 DEF s

LEMMA OneLineSound ==
  ASSUME NEW p, NEW line, line.of # "body",
         line.of = "names" => Step(p, line).at \in {"new file", "no hunk yet"}
  PROVE  Sound(p, <<line>>)
<1> DEFINE s == <<line>>
<1>1. Len(s) = 1 /\ s[1] = line
  OBVIOUS
<1>2. End(p, s) = Step(p, line)
  BY OneLine
<1> HIDE DEF s
<1>3. Walk(p, s)[1] = Step(p, line)
  BY <1>1, <1>2 DEF End
<1>4. ASSUME NEW k \in 1..Len(s)
      PROVE  /\ s[k].of = "body" => Walk(p, s)[k - 1].at = "in hunk"
             /\ s[k].of = "names" => Walk(p, s)[k].at \in {"new file", "no hunk yet"}
  <2>2. Len(s) = 1
    BY <1>1
  <2>3. k = 1
    BY <2>2, OnlyOne
  <2> QED BY <1>1, <1>3, <2>3
<1>5. Sound(p, s)
  BY <1>4 DEF Sound
<1> QED BY <1>5 DEF s

NoHunkYet == "no hunk yet"

Between == {NoHunkYet, AtHunk, HunkEnded}

HunkHead(h) == [of |-> "hunk", head |-> "@@", tag |-> "@", old |-> Count(h, OldSide), new |-> Count(h, NewSide)]

LEMMA HunkHeadIs ==
  ASSUME NEW h
  PROVE  /\ HunkText(h) = <<HunkHead(h)>> \o h
         /\ HunkHead(h).of = "hunk" /\ HunkHead(h).head = "@@"
         /\ HunkHead(h).old = Count(h, OldSide) /\ HunkHead(h).new = Count(h, NewSide)
BY DEF HunkHead, HunkText, OldSide, NewSide

LEMMA HunkStarts ==
  ASSUME NEW S, NEW h \in Seq(S), IsHunk(h)
  PROVE  Count(h, OldSide) \in Nat /\ Count(h, NewSide) \in Nat /\ Count(h, OldSide) + Count(h, NewSide) # 0
<1> DEFINE o == Count(h, OldSide)
           n == Count(h, NewSide)
<1>1. Len(h) \in Nat /\ h # <<>> /\ IsContent(h[1])
  BY DEF IsHunk
<1>2. 0 < Len(h)
  <2>1. Len(h) = 0 => h = <<>>
    BY EmptySeq
  <2> QED BY <1>1, <2>1
<1>3. o = LeftOf(h, OldSide, 0)
  <2>1. Counted(h, OldSide, 0) = 0
    BY CountNone
  <2>2. o = Counted(h, OldSide, Len(h)) /\ Counted(h, OldSide, Len(h)) \in Nat
    BY <1>1, CountWhole, CountStep
  <2> QED BY <2>1, <2>2 DEF LeftOf
<1>4. n = LeftOf(h, NewSide, 0)
  <2>1. Counted(h, NewSide, 0) = 0
    BY CountNone
  <2>2. n = Counted(h, NewSide, Len(h)) /\ Counted(h, NewSide, Len(h)) \in Nat
    BY <1>1, CountWhole, CountStep
  <2> QED BY <2>1, <2>2 DEF LeftOf
<1> HIDE DEF o, n
<1>5. o \in Nat /\ (h[0 + 1].tag \in OldSide => o > 0)
  BY <1>2, <1>3, LeftStep
<1>6. n \in Nat /\ (h[0 + 1].tag \in NewSide => n > 0)
  BY <1>2, <1>4, LeftStep
<1>7. h[0 + 1].tag \in OldSide \/ h[0 + 1].tag \in NewSide
  <2>1. h[1].tag \in OldSide \/ h[1].tag \in NewSide
    BY <1>1 DEF IsContent, OldSide, NewSide
  <2>2. 0 + 1 = 1
    OBVIOUS
  <2> QED BY <2>1, <2>2
<1>8. o \in Nat /\ n \in Nat /\ o + n # 0
  BY <1>5, <1>6, <1>7
<1> QED BY <1>8 DEF o, n

LEMMA HunkHeadStep ==
  ASSUME NEW files, NEW at \in Between, NEW o, NEW n, NEW S, NEW h \in Seq(S), IsHunk(h)
  PROVE  Step(At(files, at, o, n), HunkHead(h)) = At(files, InHunk, Count(h, OldSide), Count(h, NewSide))
<1> DEFINE p == At(files, at, o, n)
           line == HunkHead(h)
           o2 == Count(h, OldSide)
           n2 == Count(h, NewSide)
           p2 == [p EXCEPT !.at = InHunk, !.oldLeft = o2, !.newLeft = n2]
<1>1. IsParser(p) /\ p.files = files /\ p.at = at
  BY ParserFields
<1>2. line.head = "@@" /\ line.old = o2 /\ line.new = n2
  BY HunkHeadIs
<1>3. o2 + n2 # 0
  BY HunkStarts
<1> HIDE DEF p, line, o2, n2
<1>4. Step(p, line) = HunkHeader(p, line)
  BY <1>1, <1>2 DEF Step, Between, NoHunkYet, AtHunk, HunkEnded
<1>5. HunkHeader(p, line) = p2
  BY <1>2, <1>3 DEF HunkHeader, InHunk
<1>6. IsParser(p2) /\ p2.files = files /\ p2.at = InHunk /\ p2.oldLeft = o2 /\ p2.newLeft = n2
  BY <1>1 DEF IsParser
<1> HIDE DEF p2
<1>7. p2 = At(files, InHunk, o2, n2)
  BY <1>6, ParserIs
<1> QED BY <1>4, <1>5, <1>7 DEF p, line, o2, n2

LEMMA HeldFirst ==
  ASSUME NEW fs, NEW f, NEW a \in Nat, NEW r \in Nat, NEW S, NEW h \in Seq(S), IsHunk(h)
  PROVE  Held(fs, f, a, r, h, 0) = At(Append(fs, Of(f, a, r)), InHunk, Count(h, OldSide), Count(h, NewSide))
<1>1. Len(h) \in Nat /\ h # <<>> /\ IsContent(h[1])
  BY DEF IsHunk
<1>2. 0 < Len(h)
  <2>1. Len(h) = 0 => h = <<>>
    BY EmptySeq
  <2> QED BY <1>1, <2>1
<1>3. HeldAt(h, 0) = InHunk
  <2>1. 0 + 1 = 1
    OBVIOUS
  <2>2. IsContent(h[0 + 1])
    BY <1>1, <2>1
  <2> QED BY <1>2, <2>2, HunkStands
<1>4. LeftOf(h, OldSide, 0) = Count(h, OldSide)
  <2>1. Counted(h, OldSide, 0) = 0
    BY CountNone
  <2>2. Count(h, OldSide) = Counted(h, OldSide, Len(h)) /\ Counted(h, OldSide, Len(h)) \in Nat
    BY <1>1, CountWhole, CountStep
  <2> QED BY <2>1, <2>2 DEF LeftOf
<1>5. LeftOf(h, NewSide, 0) = Count(h, NewSide)
  <2>1. Counted(h, NewSide, 0) = 0
    BY CountNone
  <2>2. Count(h, NewSide) = Counted(h, NewSide, Len(h)) /\ Counted(h, NewSide, Len(h)) \in Nat
    BY <1>1, CountWhole, CountStep
  <2> QED BY <2>1, <2>2 DEF LeftOf
<1>6. Counted(h, Plus, 0) = 0 /\ Counted(h, Minus, 0) = 0
  BY CountNone
<1>7. a + Counted(h, Plus, 0) = a /\ r + Counted(h, Minus, 0) = r
  BY <1>6
<1> QED BY <1>3, <1>4, <1>5, <1>7 DEF Held

LEMMA HeldLast ==
  ASSUME NEW fs, NEW f, NEW a \in Nat, NEW r \in Nat, NEW S, NEW h \in Seq(S)
  PROVE  \E at \in {AtHunk, HunkEnded} :
           Held(fs, f, a, r, h, Len(h)) = At(Append(fs, Of(f, a + Count(h, Plus), r + Count(h, Minus))), at, 0, 0)
<1>1. LeftOf(h, OldSide, Len(h)) = 0 /\ LeftOf(h, NewSide, Len(h)) = 0
  BY NothingLeft
<1>2. HeldAt(h, Len(h)) \in {AtHunk, HunkEnded}
  BY <1>1 DEF HeldAt
<1>3. Count(h, Plus) = Counted(h, Plus, Len(h)) /\ Count(h, Minus) = Counted(h, Minus, Len(h))
  BY CountWhole
<1>4. Held(fs, f, a, r, h, Len(h)) =
        At(Append(fs, Of(f, a + Count(h, Plus), r + Count(h, Minus))), HeldAt(h, Len(h)), 0, 0)
  BY <1>1, <1>3 DEF Held
<1> QED BY <1>2, <1>4

HasRead(p, fs, f, a, r, h) ==
  \E at2 \in {AtHunk, HunkEnded} :
    p = At(Append(fs, Of(f, a + Count(h, Plus), r + Count(h, Minus))), at2, 0, 0)

LEMMA HunkRead ==
  ASSUME NEW fs, IsSeq(fs), NEW f, NEW a \in Nat, NEW r \in Nat, NEW at \in Between,
         NEW S, NEW h \in Seq(S), IsHunk(h)
  PROVE  LET p == At(Append(fs, Of(f, a, r)), at, 0, 0)
         IN  /\ Sound(p, HunkText(h))
             /\ HasRead(End(p, HunkText(h)), fs, f, a, r, h)
<1> DEFINE p == At(Append(fs, Of(f, a, r)), at, 0, 0)
           q == Held(fs, f, a, r, h, 0)
           hd == <<HunkHead(h)>>
           U == S \cup {HunkHead(h)}
<1>1. hd \in Seq(U) /\ h \in Seq(U) /\ HunkText(h) = hd \o h
  BY HunkHeadIs
<1>2. Step(p, HunkHead(h)) = q
  <2> DEFINE g == Append(fs, Of(f, a, r))
  <2>1. q = At(g, InHunk, Count(h, OldSide), Count(h, NewSide))
    BY HeldFirst
  <2> HIDE DEF g, q
  <2>2. Step(At(g, at, 0, 0), HunkHead(h)) = At(g, InHunk, Count(h, OldSide), Count(h, NewSide))
    BY HunkHeadStep
  <2> QED BY <2>1, <2>2 DEF g
<1> HIDE DEF p, U
<1>3. End(p, hd) = q
  BY <1>2, OneLine
<1>4. Sound(p, hd)
  BY HunkHeadIs, OneLineSound
<1>5. Sound(q, h)
  BY HunkSound
<1>6. End(q, h) = Held(fs, f, a, r, h, Len(h))
  <2>1. Len(h) \in 0..Len(h)
    OBVIOUS
  <2>2. \A k \in 0..Len(h) : Walk(q, h)[k] = Held(fs, f, a, r, h, k)
    BY HunkHeld
  <2> HIDE DEF q
  <2> QED BY <2>1, <2>2 DEF End
<1> HIDE DEF q, hd
<1>7. Sound(p, HunkText(h))
  BY <1>1, <1>3, <1>4, <1>5, SoundJoined
<1>8. End(p, HunkText(h)) = Held(fs, f, a, r, h, Len(h))
  BY <1>1, <1>3, <1>6, EndJoined
<1>9. \E at2 \in {AtHunk, HunkEnded} :
        Held(fs, f, a, r, h, Len(h)) = At(Append(fs, Of(f, a + Count(h, Plus), r + Count(h, Minus))), at2, 0, 0)
  BY HeldLast
<1> QED BY <1>7, <1>8, <1>9 DEF p, HasRead

--------------------------------------------------------------------------------
(* The hunks of a file, one after the other.                                        *)

LEMMA SeqOfOwn ==
  ASSUME NEW s, IsSeq(s), NEW U, \A i \in 1..Len(s) : s[i] \in U
  PROVE  s \in Seq(U)
<1>1. PICK T : s \in Seq(T)
  BY DEF IsSeq
<1>2. Len(s) \in Nat /\ s = [i \in 1..Len(s) |-> s[i]]
  BY <1>1
<1> QED BY <1>2

\* Sequences of whatever elements are sequences of elements of one set.
LEMMA OneSet ==
  ASSUME NEW ss, IsSeq(ss), \A i \in 1..Len(ss) : IsSeq(ss[i])
  PROVE  \E U : ss \in Seq(Seq(U))
<1> DEFINE U == UNION {{ss[i][j] : j \in 1..Len(ss[i])} : i \in 1..Len(ss)}
<1>1. \A i \in 1..Len(ss) : \A j \in 1..Len(ss[i]) : ss[i][j] \in U
  OBVIOUS
<1> HIDE DEF U
<1>2. \A i \in 1..Len(ss) : ss[i] \in Seq(U)
  BY <1>1, SeqOfOwn
<1>3. ss \in Seq(Seq(U))
  BY <1>2, SeqOfOwn
<1> QED BY <1>3

Texts(hunks) == [i \in DOMAIN hunks |-> HunkText(hunks[i])]

LEMMA TextsAre ==
  ASSUME NEW S, NEW hs \in Seq(Seq(S))
  PROVE  /\ Len(Texts(hs)) = Len(hs)
         /\ \A i \in 1..Len(hs) : Texts(hs)[i] = HunkText(hs[i])
         /\ \E U : Texts(hs) \in Seq(Seq(U))
<1>1. Len(hs) \in Nat /\ DOMAIN hs = 1..Len(hs) /\ \A i \in 1..Len(hs) : hs[i] \in Seq(S)
  OBVIOUS
<1>2. Texts(hs) = [i \in 1..Len(hs) |-> HunkText(hs[i])]
  BY <1>1 DEF Texts
<1>3. IsSeq(Texts(hs)) /\ Len(Texts(hs)) = Len(hs)
  <2> DEFINE V == {HunkText(hs[i]) : i \in 1..Len(hs)}
  <2>1. Texts(hs) \in [1..Len(hs) -> V]
    BY <1>2
  <2> HIDE DEF V
  <2>2. Texts(hs) \in Seq(V) /\ Len(Texts(hs)) = Len(hs)
    BY <1>1, <2>1, FunctionIsSeq
  <2> QED BY <2>2 DEF IsSeq
<1>4. ASSUME NEW i \in 1..Len(hs) PROVE IsSeq(HunkText(hs[i]))
  <2> DEFINE hd == <<HunkHead(hs[i])>>
             V == S \cup {HunkHead(hs[i])}
  <2>1. hd \in Seq(V) /\ hs[i] \in Seq(V) /\ HunkText(hs[i]) = hd \o hs[i]
    BY <1>1, HunkHeadIs
  <2> HIDE DEF hd, V
  <2>2. hd \o hs[i] \in Seq(V)
    BY <2>1, ConcatProperties
  <2> QED BY <2>1, <2>2 DEF IsSeq
<1>5. \A i \in 1..Len(hs) : Texts(hs)[i] = HunkText(hs[i])
  BY <1>2
<1>6. \E U : Texts(hs) \in Seq(Seq(U))
  BY <1>3, <1>4, <1>5, OneSet
<1> QED BY <1>3, <1>5, <1>6

LEMMA SoundNone ==
  ASSUME NEW p
  PROVE  Sound(p, <<>>) /\ End(p, <<>>) = p
<1> DEFINE s == <<>>
<1>1. Len(s) = 0
  OBVIOUS
<1> HIDE DEF s
<1>2. Walk(p, s)[0] = p
  BY <1>1, WalkIs
<1>3. End(p, s) = p
  BY <1>1, <1>2 DEF End
<1>4. Sound(p, s)
  BY <1>1, OnlyOne DEF Sound
<1> QED BY <1>3, <1>4 DEF s

LEMMA CountIsNat ==
  ASSUME NEW S, NEW h \in Seq(S), NEW tags
  PROVE  Count(h, tags) \in Nat
<1>1. Len(h) \in Nat
  OBVIOUS
<1>2. Counted(h, tags, Len(h)) \in Nat
  BY <1>1, CountStep
<1> QED BY <1>2, CountWhole

HunksAre(fs, f, hs, k) ==
  /\ Sound(At(Append(fs, Of(f, 0, 0)), NoHunkYet, 0, 0), Flat(Texts(hs))[k])
  /\ \E at \in Between :
       /\ k > 0 => at # NoHunkYet
       /\ End(At(Append(fs, Of(f, 0, 0)), NoHunkYet, 0, 0), Flat(Texts(hs))[k]) =
            At(Append(fs, Of(f, Count(Flat(hs)[k], Plus), Count(Flat(hs)[k], Minus))), at, 0, 0)

LEMMA FirstHunks ==
  ASSUME NEW fs, NEW f, NEW S, NEW hs \in Seq(Seq(S))
  PROVE  HunksAre(fs, f, hs, 0)
<1> DEFINE p == At(Append(fs, Of(f, 0, 0)), NoHunkYet, 0, 0)
<1>1. PICK U : Texts(hs) \in Seq(Seq(U))
  BY TextsAre
<1>2. Flat(Texts(hs))[0] = <<>>
  BY <1>1, FlatIs
<1>3. Flat(hs)[0] = <<>>
  BY FlatIs
<1>4. Count(<<>>, Plus) = 0 /\ Count(<<>>, Minus) = 0
  <2>1. <<>> \in Seq({}) /\ Len(<<>>) = 0
    OBVIOUS
  <2>2. Count(<<>>, Plus) = Counted(<<>>, Plus, 0) /\ Count(<<>>, Minus) = Counted(<<>>, Minus, 0)
    BY <2>1, CountWhole
  <2> QED BY <2>2, CountNone
<1>5. Sound(p, Flat(Texts(hs))[0]) /\ End(p, Flat(Texts(hs))[0]) = p
  BY <1>2, SoundNone
<1>6. NoHunkYet \in Between
  BY DEF Between
<1>7. ~(0 > 0)
  OBVIOUS
<1> QED BY <1>3, <1>4, <1>5, <1>6, <1>7 DEF HunksAre

LEMMA NextHunk ==
  ASSUME NEW fs, IsSeq(fs), NEW f, NEW S, NEW hs \in Seq(Seq(S)), \A i \in 1..Len(hs) : IsHunk(hs[i]),
         NEW k \in Nat, k < Len(hs), HunksAre(fs, f, hs, k)
  PROVE  HunksAre(fs, f, hs, k + 1)
<1> DEFINE p == At(Append(fs, Of(f, 0, 0)), NoHunkYet, 0, 0)
           h == hs[k + 1]
           T == Flat(Texts(hs))[k]
           T2 == Flat(Texts(hs))[k + 1]
           H == Flat(hs)[k]
           H2 == Flat(hs)[k + 1]
           a == Count(H, Plus)
           r == Count(H, Minus)
<1>1. k + 1 \in 1..Len(hs) /\ (k + 1) - 1 = k /\ k \in 0..Len(hs) /\ k + 1 \in 0..Len(hs) /\ k + 1 > 0
  OBVIOUS
<1>2. h \in Seq(S) /\ IsHunk(h)
  BY <1>1
<1>3. H \in Seq(S) /\ H2 = H \o h
  BY <1>1, FlatIs
<1>4. PICK U : Texts(hs) \in Seq(Seq(U))
  BY TextsAre
<1>5. Len(Texts(hs)) = Len(hs) /\ Texts(hs)[k + 1] = HunkText(h)
  BY <1>1, TextsAre
<1>6. T \in Seq(U) /\ HunkText(h) \in Seq(U) /\ T2 = T \o HunkText(h)
  <2>1. T \in Seq(U) /\ T2 = T \o Texts(hs)[k + 1]
    BY <1>1, <1>4, <1>5, FlatIs
  <2>2. Texts(hs)[k + 1] \in Seq(U)
    BY <1>1, <1>4, <1>5
  <2> QED BY <1>5, <2>1, <2>2
<1>7. a \in Nat /\ r \in Nat
  BY <1>3, CountIsNat
<1>8. Count(H2, Plus) = a + Count(h, Plus) /\ Count(H2, Minus) = r + Count(h, Minus)
  BY <1>2, <1>3, CountJoined
<1>9. Sound(p, T)
  BY DEF HunksAre
<1>10. PICK at \in Between : End(p, T) = At(Append(fs, Of(f, a, r)), at, 0, 0)
  BY DEF HunksAre
<1> HIDE DEF p, h, T, T2, H, H2, a, r
<1> DEFINE q == At(Append(fs, Of(f, a, r)), at, 0, 0)
<1>11. Sound(q, HunkText(h))
  BY <1>2, <1>7, HunkRead
<1>18. HasRead(End(q, HunkText(h)), fs, f, a, r, h)
  BY <1>2, <1>7, HunkRead
<1> HIDE DEF q
<1>12. PICK at2 \in {AtHunk, HunkEnded} :
         End(q, HunkText(h)) = At(Append(fs, Of(f, a + Count(h, Plus), r + Count(h, Minus))), at2, 0, 0)
  BY <1>18 DEF HasRead
<1>13. End(p, T) = q
  BY <1>10 DEF q
<1>14. Sound(p, T2)
  BY <1>6, <1>9, <1>11, <1>13, SoundJoined
<1>15. End(p, T2) = End(q, HunkText(h))
  BY <1>6, <1>13, EndJoined
<1>16. End(p, T2) = At(Append(fs, Of(f, Count(H2, Plus), Count(H2, Minus))), at2, 0, 0)
  BY <1>8, <1>12, <1>15
<1>17. at2 \in Between /\ at2 # NoHunkYet
  BY <1>12 DEF Between, AtHunk, HunkEnded, NoHunkYet
<1> QED BY <1>14, <1>16, <1>17 DEF HunksAre, p, T2, H2

Ended(p, fs, e) == \E at \in {AtHunk, HunkEnded} : p = At(Append(fs, e), at, 0, 0)

LEMMA HunksRead ==
  ASSUME NEW fs, IsSeq(fs), NEW f, NEW S, NEW hs \in Seq(Seq(S)), hs # <<>>, \A i \in 1..Len(hs) : IsHunk(hs[i])
  PROVE  LET p == At(Append(fs, Of(f, 0, 0)), NoHunkYet, 0, 0)
             text == FlattenSeq(Texts(hs))
         IN  /\ Sound(p, text)
             /\ Ended(End(p, text), fs, Of(f, Count(FlattenSeq(hs), Plus), Count(FlattenSeq(hs), Minus)))
<1> DEFINE p == At(Append(fs, Of(f, 0, 0)), NoHunkYet, 0, 0)
           text == FlattenSeq(Texts(hs))
           T == {k \in Nat : k <= Len(hs) => HunksAre(fs, f, hs, k)}
<1>1. Len(hs) \in Nat /\ Len(hs) > 0
  <2>1. Len(hs) \in Nat /\ (Len(hs) = 0 => hs = <<>>)
    BY EmptySeq
  <2> QED BY <2>1
<1>2. Nat \subseteq T
  <2>1. 0 \in T
    BY FirstHunks
  <2>2. ASSUME NEW k \in Nat, k \in T PROVE k + 1 \in T
    <3> SUFFICES ASSUME k + 1 <= Len(hs) PROVE HunksAre(fs, f, hs, k + 1)
      OBVIOUS
    <3>1. k < Len(hs) /\ HunksAre(fs, f, hs, k)
      BY <1>1, <2>2
    <3> QED BY <3>1, NextHunk
  <2> HIDE DEF T
  <2> QED BY <2>1, <2>2, AtEveryLength
<1>3. HunksAre(fs, f, hs, Len(hs))
  BY <1>1, <1>2
<1>4. PICK U : Texts(hs) \in Seq(Seq(U))
  BY TextsAre
<1>5. text = Flat(Texts(hs))[Len(hs)]
  BY <1>4, TextsAre, FlattenIs
<1>6. FlattenSeq(hs) = Flat(hs)[Len(hs)]
  BY FlattenIs
<1> HIDE DEF p, text
<1>7. Sound(p, text)
  BY <1>3, <1>5 DEF HunksAre, p
<1>8. PICK at \in Between :
        /\ at # NoHunkYet
        /\ End(p, text) = At(Append(fs, Of(f, Count(Flat(hs)[Len(hs)], Plus), Count(Flat(hs)[Len(hs)], Minus))), at, 0, 0)
  BY <1>1, <1>3, <1>5 DEF HunksAre, p
<1>9. at \in {AtHunk, HunkEnded}
  BY <1>8 DEF Between
<1>10. Ended(End(p, text), fs, Of(f, Count(FlattenSeq(hs), Plus), Count(FlattenSeq(hs), Minus)))
  BY <1>6, <1>8, <1>9 DEF Ended
<1> QED BY <1>7, <1>10 DEF p, text

--------------------------------------------------------------------------------
(* The header of a file.                                                            *)

Moved(p, at) == [p EXCEPT !.at = at]

LEMMA MovedIs ==
  ASSUME NEW files, NEW at, NEW o, NEW n, NEW at2
  PROVE  Moved(At(files, at, o, n), at2) = At(files, at2, o, n)
<1> DEFINE p == At(files, at, o, n)
           p2 == [p EXCEPT !.at = at2]
<1>1. IsParser(p) /\ p.files = files /\ p.oldLeft = o /\ p.newLeft = n
  BY ParserFields
<1> HIDE DEF p
<1>2. IsParser(p2) /\ p2.files = files /\ p2.at = at2 /\ p2.oldLeft = o /\ p2.newLeft = n
  BY <1>1 DEF IsParser
<1>3. Moved(p, at2) = p2
  BY DEF Moved
<1> HIDE DEF p2
<1>4. p2 = At(files, at2, o, n)
  BY <1>2, ParserIs
<1> QED BY <1>3, <1>4 DEF p

AtStart == "start"
AtHeader == "header"
AtNewFile == "new file"
Ends == {AtStart, AtHunk, HunkEnded}

DiffLine(f) == [of |-> "entry", head |-> "diff", tag |-> "d", old |-> f.path, new |-> f.path]

OldLine(f) == [of |-> "names", head |-> "---", tag |-> "-", path |-> IF f.status = "add" THEN None ELSE f.path]

NewLine(f) == [of |-> "names", head |-> "+++", tag |-> "+", path |-> IF f.status = "delete" THEN None ELSE f.path]

LEMMA DiffStep ==
  ASSUME NEW fs, NEW at \in Ends, NEW o, NEW n, NEW f
  PROVE  Step(At(fs, at, o, n), DiffLine(f)) = At(Append(fs, Entry(f.path, f.path)), AtHeader, o, n)
<1> DEFINE p == At(fs, at, o, n)
           line == DiffLine(f)
           q == Append(fs, Entry(f.path, f.path))
           p2 == [p EXCEPT !.files = Append(@, Entry(line.old, line.new)), !.at = "header"]
<1>1. IsParser(p) /\ p.files = fs /\ p.at = at /\ p.oldLeft = o /\ p.newLeft = n
  BY ParserFields
<1>2. line.head = "diff" /\ line.old = f.path /\ line.new = f.path
  BY DEF DiffLine
<1> HIDE DEF p, line
<1>3. Step(p, line) = Header(p, line)
  BY <1>1, <1>2 DEF Step, Ends, AtStart, AtHunk, HunkEnded
<1>4. MayEnd(p)
  BY <1>1 DEF MayEnd, Ends, AtStart, AtHunk, HunkEnded
<1>5. Header(p, line) = p2
  BY <1>4 DEF Header
<1>6. Append(p.files, Entry(line.old, line.new)) = q
  BY <1>1, <1>2
<1> HIDE DEF q
<1>7. p2 = [p EXCEPT !.files = q, !.at = "header"]
  BY <1>6
<1> HIDE DEF p2
<1>8. IsParser(p2) /\ p2.files = q /\ p2.at = AtHeader /\ p2.oldLeft = o /\ p2.newLeft = n
  BY <1>1, <1>7 DEF IsParser, AtHeader
<1>9. p2 = At(q, AtHeader, o, n)
  BY <1>8, ParserIs
<1> QED BY <1>3, <1>5, <1>9 DEF p, line, q

ModeLine(f) == ModeLines(f.status, f.mode)[1]

Known(f) == f.status \in {"modify", "add", "delete"}

IsModeLine(line, f) ==
  /\ line.of = "entry" /\ line.head = "extended" /\ line.value = f.mode
  /\ f.status = "add" => line.name = "new file mode"
  /\ f.status = "delete" => line.name = "deleted file mode"
  /\ f.status = "modify" => line.name = "index"

LEMMA ModeLineIs ==
  ASSUME NEW f, Known(f)
  PROVE  ModeLines(f.status, f.mode) = <<ModeLine(f)>> /\ IsModeLine(ModeLine(f), f)
BY DEF ModeLines, ModeLine, Known, IsModeLine

LEMMA EntryOf ==
  ASSUME NEW path, NEW e, e = Entry(path, path)
  PROVE  /\ IsEntry(e) /\ e.old = path /\ e.new = path /\ e.status = "modify"
         /\ e.oldMode = None /\ e.newMode = None /\ e.indexMode = None
         /\ e.binary = FALSE /\ e.added = 0 /\ e.removed = 0
BY DEF Entry, IsEntry

LEMMA OfFields ==
  ASSUME NEW f
  PROVE  /\ IsEntry(Of(f, 0, 0)) /\ Of(f, 0, 0).old = f.path /\ Of(f, 0, 0).new = f.path
         /\ Of(f, 0, 0).status = f.status /\ Of(f, 0, 0).binary = FALSE
         /\ Of(f, 0, 0).added = 0 /\ Of(f, 0, 0).removed = 0
         /\ Of(f, 0, 0).oldMode = (IF f.status = "delete" THEN f.mode ELSE None)
         /\ Of(f, 0, 0).newMode = (IF f.status = "add" THEN f.mode ELSE None)
         /\ Of(f, 0, 0).indexMode = (IF f.status = "modify" THEN f.mode ELSE None)
BY DEF Of, IsEntry

\* What the line with the mode makes of the new entry.
WithMode(e, f) ==
  CASE f.status = "add"    -> [e EXCEPT !.status = "add", !.newMode = f.mode]
    [] f.status = "delete" -> [e EXCEPT !.status = "delete", !.oldMode = f.mode]
    [] f.status = "modify" -> [e EXCEPT !.indexMode = f.mode]

LEMMA WithModeIs ==
  ASSUME NEW f, Known(f)
  PROVE  WithMode(Entry(f.path, f.path), f) = Of(f, 0, 0)
<1> DEFINE e == Entry(f.path, f.path)
           d == WithMode(e, f)
<1>1. /\ IsEntry(e) /\ e.old = f.path /\ e.new = f.path /\ e.status = "modify"
      /\ e.oldMode = None /\ e.newMode = None /\ e.indexMode = None
      /\ e.binary = FALSE /\ e.added = 0 /\ e.removed = 0
  BY EntryOf
<1> HIDE DEF e
<1>2. CASE f.status = "add"
  <2>1. d = [e EXCEPT !.status = "add", !.newMode = f.mode]
    BY <1>2 DEF WithMode
  <2> HIDE DEF d
  <2>2. /\ IsEntry(d) /\ d.old = f.path /\ d.new = f.path /\ d.status = "add"
        /\ d.oldMode = None /\ d.newMode = f.mode /\ d.indexMode = None
        /\ d.binary = FALSE /\ d.added = 0 /\ d.removed = 0
    BY <1>1, <2>1 DEF IsEntry
  <2>3. SameEntry(d, Of(f, 0, 0))
    BY <1>2, <2>2, OfFields DEF SameEntry
  <2> QED BY <2>2, <2>3, OfFields, EntriesEqual DEF d, e
<1>3. CASE f.status = "delete"
  <2>1. d = [e EXCEPT !.status = "delete", !.oldMode = f.mode]
    BY <1>3 DEF WithMode
  <2> HIDE DEF d
  <2>2. /\ IsEntry(d) /\ d.old = f.path /\ d.new = f.path /\ d.status = "delete"
        /\ d.oldMode = f.mode /\ d.newMode = None /\ d.indexMode = None
        /\ d.binary = FALSE /\ d.added = 0 /\ d.removed = 0
    BY <1>1, <2>1 DEF IsEntry
  <2>3. SameEntry(d, Of(f, 0, 0))
    BY <1>3, <2>2, OfFields DEF SameEntry
  <2> QED BY <2>2, <2>3, OfFields, EntriesEqual DEF d, e
<1>4. CASE f.status = "modify"
  <2>1. d = [e EXCEPT !.indexMode = f.mode]
    BY <1>4 DEF WithMode
  <2> HIDE DEF d
  <2>2. /\ IsEntry(d) /\ d.old = f.path /\ d.new = f.path /\ d.status = "modify"
        /\ d.oldMode = None /\ d.newMode = None /\ d.indexMode = f.mode
        /\ d.binary = FALSE /\ d.added = 0 /\ d.removed = 0
    BY <1>1, <2>1 DEF IsEntry
  <2>3. SameEntry(d, Of(f, 0, 0))
    BY <1>4, <2>2, OfFields DEF SameEntry
  <2> QED BY <2>2, <2>3, OfFields, EntriesEqual DEF d, e
<1> QED BY <1>2, <1>3, <1>4 DEF Known

LEMMA ModeStep ==
  ASSUME NEW fs, IsSeq(fs), NEW o, NEW n, NEW f, Known(f)
  PROVE  Step(At(Append(fs, Entry(f.path, f.path)), AtHeader, o, n), ModeLine(f)) =
           At(Append(fs, Of(f, 0, 0)), AtHeader, o, n)
<1> DEFINE e == Entry(f.path, f.path)
           q == Append(fs, e)
           p == At(q, AtHeader, o, n)
           line == ModeLine(f)
           d == WithMode(e, f)
<1>1. Current(p) = e
  <2> HIDE DEF e
  <2> QED BY CurrentIs
<1>2. Amend(p, d) = At(Append(fs, Of(f, 0, 0)), AtHeader, o, n)
  <2>1. d = Of(f, 0, 0)
    BY WithModeIs
  <2> HIDE DEF d, e
  <2>2. Amend(p, d) = At(Append(fs, d), AtHeader, o, n)
    BY Amended
  <2> QED BY <2>1, <2>2
<1> HIDE DEF q
<1>3. p.at = AtHeader
  BY ParserFields
<1>4. IsModeLine(line, f)
  BY ModeLineIs
<1> HIDE DEF p, line, e
<1>5. Step(p, line) = Extended(p, line)
  BY <1>3, <1>4 DEF Step, AtHeader, IsModeLine
<1>6. CASE f.status = "add"
  <2>1. Extended(p, line) = Amend(p, [e EXCEPT !.status = "add", !.newMode = f.mode])
    BY <1>1, <1>4, <1>6 DEF IsModeLine, Extended
  <2>2. d = [e EXCEPT !.status = "add", !.newMode = f.mode]
    BY <1>6 DEF WithMode
  <2> HIDE DEF d
  <2> QED BY <1>2, <1>5, <2>1, <2>2 DEF p, q, e, line
<1>7. CASE f.status = "delete"
  <2>1. Extended(p, line) = Amend(p, [e EXCEPT !.status = "delete", !.oldMode = f.mode])
    BY <1>1, <1>4, <1>7 DEF IsModeLine, Extended
  <2>2. d = [e EXCEPT !.status = "delete", !.oldMode = f.mode]
    BY <1>7 DEF WithMode
  <2> HIDE DEF d
  <2> QED BY <1>2, <1>5, <2>1, <2>2 DEF p, q, e, line
<1>8. CASE f.status = "modify"
  <2>1. Extended(p, line) = Amend(p, [e EXCEPT !.indexMode = f.mode])
    BY <1>1, <1>4, <1>8 DEF IsModeLine, Extended
  <2>2. d = [e EXCEPT !.indexMode = f.mode]
    BY <1>8 DEF WithMode
  <2> HIDE DEF d
  <2> QED BY <1>2, <1>5, <2>1, <2>2 DEF p, q, e, line
<1> QED BY <1>6, <1>7, <1>8 DEF Known

LEMMA NameSteps ==
  ASSUME NEW fs, IsSeq(fs), NEW o, NEW n, NEW f
  PROVE  /\ Step(At(Append(fs, Of(f, 0, 0)), AtHeader, o, n), OldLine(f)) = At(Append(fs, Of(f, 0, 0)), AtNewFile, o, n)
         /\ Step(At(Append(fs, Of(f, 0, 0)), AtNewFile, o, n), NewLine(f)) = At(Append(fs, Of(f, 0, 0)), NoHunkYet, o, n)
<1> DEFINE e == Of(f, 0, 0)
           p == At(Append(fs, e), AtHeader, o, n)
           p2 == At(Append(fs, e), AtNewFile, o, n)
           a == OldLine(f)
           b == NewLine(f)
<1>1. e.old = f.path /\ e.new = f.path /\ e.status = f.status
  BY OfFields
<1> HIDE DEF e
<1>2. Current(p) = e /\ p.at = AtHeader
  BY CurrentIs, ParserFields
<1>3. Current(p2) = e /\ p2.at = AtNewFile
  BY CurrentIs, ParserFields
<1>4. Moved(p, AtNewFile) = p2
  BY MovedIs
<1>5. Moved(p2, NoHunkYet) = At(Append(fs, e), NoHunkYet, o, n)
  BY MovedIs
<1> HIDE DEF p, p2
<1>6. a.head = "---" /\ a.path = (IF f.status = "add" THEN None ELSE f.path)
  BY DEF OldLine
<1>7. b.head = "+++" /\ b.path = (IF f.status = "delete" THEN None ELSE f.path)
  BY DEF NewLine
<1> HIDE DEF a, b
<1>8. Nameable(e)
  BY <1>1 DEF Nameable
<1>9. Step(p, a) = OldFile(p, a)
  BY <1>2, <1>6 DEF Step, AtHeader
<1>10. OldFile(p, a) = Moved(p, AtNewFile)
  BY <1>1, <1>2, <1>6, <1>8 DEF OldFile, Moved, AtNewFile
<1>11. Step(p2, b) = NewFile(p2, b)
  BY <1>3 DEF Step, AtNewFile
<1>12. NewFile(p2, b) = Moved(p2, NoHunkYet)
  BY <1>1, <1>3, <1>7 DEF NewFile, Moved, NoHunkYet
<1>13. Step(p, a) = p2
  BY <1>4, <1>9, <1>10
<1>14. Step(p2, b) = At(Append(fs, e), NoHunkYet, o, n)
  BY <1>5, <1>11, <1>12
<1> QED BY <1>13, <1>14 DEF p, p2, e, a, b

Opening(f) == <<DiffLine(f)>> \o <<ModeLine(f)>> \o <<OldLine(f)>> \o <<NewLine(f)>>

LEMMA OpeningRead ==
  ASSUME NEW fs, IsSeq(fs), NEW at \in Ends, NEW f, Known(f)
  PROVE  /\ IsSeq(Opening(f))
         /\ Sound(At(fs, at, 0, 0), Opening(f))
         /\ End(At(fs, at, 0, 0), Opening(f)) = At(Append(fs, Of(f, 0, 0)), NoHunkYet, 0, 0)
<1> DEFINE p0 == At(fs, at, 0, 0)
           p1 == At(Append(fs, Entry(f.path, f.path)), AtHeader, 0, 0)
           p2 == At(Append(fs, Of(f, 0, 0)), AtHeader, 0, 0)
           p3 == At(Append(fs, Of(f, 0, 0)), AtNewFile, 0, 0)
           p4 == At(Append(fs, Of(f, 0, 0)), NoHunkYet, 0, 0)
           a == DiffLine(f)
           b == ModeLine(f)
           c == OldLine(f)
           d == NewLine(f)
           U == {a, b, c, d}
           A == <<a>>
           B == <<b>>
           C == <<c>>
           D == <<d>>
<1>1. Step(p0, a) = p1
  BY DiffStep
<1>2. Step(p1, b) = p2
  BY ModeStep
<1>3. Step(p2, c) = p3
  BY NameSteps
<1>4. Step(p3, d) = p4
  BY NameSteps
<1>5. p3.at = AtNewFile /\ p4.at = NoHunkYet
  BY ParserFields
<1>6. a.of = "entry" /\ c.of = "names" /\ d.of = "names"
  BY DEF DiffLine, OldLine, NewLine
<1>7. b.of = "entry"
  <2>1. IsModeLine(b, f)
    BY ModeLineIs
  <2> QED BY <2>1 DEF IsModeLine
<1>8. A \in Seq(U) /\ B \in Seq(U) /\ C \in Seq(U) /\ D \in Seq(U)
  OBVIOUS
<1>9. Opening(f) = ((A \o B) \o C) \o D
  BY DEF Opening
<1> HIDE DEF p0, p1, p2, p3, p4, a, b, c, d, U
<1>10. End(p0, A) = p1 /\ End(p1, B) = p2 /\ End(p2, C) = p3 /\ End(p3, D) = p4
  BY <1>1, <1>2, <1>3, <1>4, OneLine
<1>11. Sound(p0, A)
  BY <1>6, OneLineSound
<1>12. Sound(p1, B)
  BY <1>7, OneLineSound
<1>13. Sound(p2, C)
  BY <1>3, <1>5, <1>6, OneLineSound DEF AtNewFile
<1>14. Sound(p3, D)
  BY <1>4, <1>5, <1>6, OneLineSound DEF NoHunkYet
<1> HIDE DEF A, B, C, D
<1> DEFINE ab == A \o B
<1>15. ab \in Seq(U)
  BY <1>8, ConcatProperties
<1>27. End(p0, ab) = End(End(p0, A), B)
  BY <1>8, EndJoined
<1>16. End(p0, ab) = p2
  BY <1>10, <1>27
<1>17. Sound(p0, ab)
  BY <1>8, <1>10, <1>11, <1>12, SoundJoined
<1> HIDE DEF ab
<1> DEFINE abc == ab \o C
<1>18. abc \in Seq(U)
  BY <1>8, <1>15, ConcatProperties
<1>28. End(p0, abc) = End(End(p0, ab), C)
  BY <1>8, <1>15, EndJoined
<1>19. End(p0, abc) = p3
  BY <1>10, <1>16, <1>28
<1>20. Sound(p0, abc)
  BY <1>8, <1>13, <1>15, <1>16, <1>17, SoundJoined
<1> HIDE DEF abc
<1> DEFINE abcd == abc \o D
<1>21. abcd \in Seq(U)
  BY <1>8, <1>18, ConcatProperties
<1>29. End(p0, abcd) = End(End(p0, abc), D)
  BY <1>8, <1>18, EndJoined
<1>22. End(p0, abcd) = p4
  BY <1>10, <1>19, <1>29
<1>23. Sound(p0, abcd)
  BY <1>8, <1>14, <1>18, <1>19, <1>20, SoundJoined
<1> HIDE DEF abcd
<1>24. Opening(f) = abcd
  BY <1>9 DEF abcd, abc, ab
<1>25. IsSeq(Opening(f))
  BY <1>21, <1>24 DEF IsSeq
<1>26. Sound(p0, Opening(f)) /\ End(p0, Opening(f)) = p4
  BY <1>22, <1>23, <1>24
<1> QED BY <1>25, <1>26 DEF p0, p4

HunksTold(f) ==
  /\ \E S : f.hunks \in Seq(Seq(S))
  /\ f.hunks # <<>>
  /\ \A i \in 1..Len(f.hunks) : IsHunk(f.hunks[i])

LEMMA TwoLines ==
  ASSUME NEW x, NEW y
  PROVE  <<x>> \o <<y>> = <<x, y>>
<1> DEFINE a == <<x>>
           b == <<y>>
           c == <<x, y>>
           S == {x, y}
<1>1. a \in Seq(S) /\ Len(a) = 1 /\ a[1] = x
  OBVIOUS
<1>2. b \in Seq(S) /\ Len(b) = 1 /\ b[1] = y
  OBVIOUS
<1>3. c \in Seq(S) /\ Len(c) = 2 /\ c[1] = x /\ c[2] = y
  OBVIOUS
<1> HIDE DEF a, b, c, S
<1>4. a \o b \in Seq(S)
  BY <1>1, <1>2, ConcatProperties
<1>8. a \in Seq(S) /\ b \in Seq(S)
  BY <1>1, <1>2
<1>9. Len(a \o b) = Len(a) + Len(b)
  BY <1>8, ConcatProperties
<1>10. /\ \A i \in 1..Len(a) : (a \o b)[i] = a[i]
       /\ \A i \in 1..Len(b) : (a \o b)[Len(a) + i] = b[i]
  BY <1>8, ConcatProperties
<1>11. 1 \in 1..Len(a) /\ 1 \in 1..Len(b) /\ Len(a) + 1 = 2 /\ Len(a) + Len(b) = 2
  BY <1>1, <1>2
<1>5. Len(a \o b) = 2 /\ (a \o b)[1] = x /\ (a \o b)[2] = y
  BY <1>1, <1>2, <1>9, <1>10, <1>11
<1>6. \A i \in 1..Len(a \o b) : (a \o b)[i] = c[i]
  <2>1. \A i \in 1..2 : i = 1 \/ i = 2
    OBVIOUS
  <2> QED BY <1>3, <1>5, <2>1
<1>7. a \o b = c
  BY <1>3, <1>4, <1>5, <1>6, SeqEqual
<1> QED BY <1>7 DEF a, b, c

LEMMA FileTextIs ==
  ASSUME NEW f, Known(f)
  PROVE  FileText(f) = Opening(f) \o FlattenSeq(Texts(f.hunks))
<1> DEFINE a == <<DiffLine(f)>>
           b == <<ModeLine(f)>>
           c == <<OldLine(f)>>
           d == <<NewLine(f)>>
           U == {DiffLine(f), ModeLine(f), OldLine(f), NewLine(f)}
           T == FlattenSeq(Texts(f.hunks))
           cd == <<OldLine(f), NewLine(f)>>
<1>1. ModeLines(f.status, f.mode) = b
  BY ModeLineIs
<1>2. FileText(f) = ((a \o b) \o cd) \o T
  BY <1>1 DEF FileText, DiffLine, OldLine, NewLine, Texts
<1>3. c \o d = cd
  BY TwoLines
<1>4. a \in Seq(U) /\ b \in Seq(U) /\ c \in Seq(U) /\ d \in Seq(U)
  OBVIOUS
<1>7. Opening(f) = ((a \o b) \o c) \o d
  BY DEF Opening
<1> HIDE DEF a, b, c, d, cd, T, U
<1>5. a \o b \in Seq(U)
  BY <1>4, ConcatProperties
<1>6. ((a \o b) \o c) \o d = (a \o b) \o (c \o d)
  <2> DEFINE ab == a \o b
  <2>1. ab \in Seq(U)
    BY <1>5
  <2> HIDE DEF ab
  <2>2. (ab \o c) \o d = ab \o (c \o d)
    BY <1>4, <2>1, ConcatAssociative
  <2> QED BY <2>2 DEF ab
<1>8. FileText(f) = Opening(f) \o T
  BY <1>2, <1>3, <1>6, <1>7
<1> QED BY <1>8 DEF T

LEMMA MeaningIs ==
  ASSUME NEW f, Known(f)
  PROVE  Meaning(f) = Of(f, Count(FlattenSeq(f.hunks), Plus), Count(FlattenSeq(f.hunks), Minus))
<1> DEFINE a == Count(FlattenSeq(f.hunks), {"+"})
           r == Count(FlattenSeq(f.hunks), {"-"})
           e == Entry(f.path, f.path)
           m == [e EXCEPT !.status = f.status,
                          !.newMode = IF f.status = "add" THEN f.mode ELSE None,
                          !.oldMode = IF f.status = "delete" THEN f.mode ELSE None,
                          !.indexMode = IF f.status = "modify" THEN f.mode ELSE None,
                          !.added = a,
                          !.removed = r]
           d == Of(f, a, r)
<1>1. /\ IsEntry(e) /\ e.old = f.path /\ e.new = f.path /\ e.binary = FALSE
  BY EntryOf
<1>2. Meaning(f) = m
  BY DEF Meaning
<1> HIDE DEF a, r
<1>3. /\ d.old = f.path /\ d.new = f.path /\ d.status = f.status
      /\ d.oldMode = (IF f.status = "delete" THEN f.mode ELSE None)
      /\ d.newMode = (IF f.status = "add" THEN f.mode ELSE None)
      /\ d.indexMode = (IF f.status = "modify" THEN f.mode ELSE None)
      /\ d.binary = FALSE /\ d.added = a /\ d.removed = r
  BY DEF Of
<1>4. IsEntry(d)
  BY OfIs
<1> HIDE DEF e, d
<1>5. /\ m.old = e.old /\ m.new = e.new /\ m.status = f.status /\ m.binary = e.binary
      /\ m.oldMode = (IF f.status = "delete" THEN f.mode ELSE None)
      /\ m.newMode = (IF f.status = "add" THEN f.mode ELSE None)
      /\ m.indexMode = (IF f.status = "modify" THEN f.mode ELSE None)
      /\ m.added = a /\ m.removed = r
  BY <1>1 DEF IsEntry
<1>6. IsEntry(m)
  BY <1>1 DEF IsEntry
<1> HIDE DEF m
<1>7. SameEntry(m, d)
  BY <1>1, <1>3, <1>5 DEF SameEntry
<1>8. m = d
  BY <1>4, <1>6, <1>7, EntriesEqual
<1> QED BY <1>2, <1>8 DEF d, a, r, Plus, Minus

LEMMA FileRead ==
  ASSUME NEW fs, IsSeq(fs), NEW at \in Ends, NEW f, Known(f), HunksTold(f)
  PROVE  /\ IsSeq(FileText(f))
         /\ Sound(At(fs, at, 0, 0), FileText(f))
         /\ Ended(End(At(fs, at, 0, 0), FileText(f)), fs, Meaning(f))
<1> DEFINE p == At(fs, at, 0, 0)
           q == At(Append(fs, Of(f, 0, 0)), NoHunkYet, 0, 0)
           O == Opening(f)
           T == FlattenSeq(Texts(f.hunks))
<1>1. IsSeq(O)
  BY OpeningRead
<1>2. Sound(p, O)
  BY OpeningRead
<1>3. End(p, O) = q
  BY OpeningRead
<1>4. PICK S : f.hunks \in Seq(Seq(S))
  BY DEF HunksTold
<1>5. f.hunks # <<>> /\ \A i \in 1..Len(f.hunks) : IsHunk(f.hunks[i])
  BY DEF HunksTold
<1>6. Sound(q, T)
  BY <1>4, <1>5, HunksRead
<1>7. Ended(End(q, T), fs, Meaning(f))
  BY <1>4, <1>5, HunksRead, MeaningIs
<1>8. IsSeq(T)
  <2>1. PICK U : Texts(f.hunks) \in Seq(Seq(U))
    BY <1>4, TextsAre
  <2>2. Len(Texts(f.hunks)) \in 0..Len(Texts(f.hunks))
    BY <2>1
  <2>3. Flat(Texts(f.hunks))[Len(Texts(f.hunks))] \in Seq(U)
    BY <2>1, <2>2, FlatIs
  <2>4. T = Flat(Texts(f.hunks))[Len(Texts(f.hunks))]
    BY <2>1, FlattenIs
  <2> HIDE DEF T
  <2> QED BY <2>3, <2>4 DEF IsSeq
<1> HIDE DEF p, q, O, T
<1>9. PICK V1 : O \in Seq(V1)
  BY <1>1 DEF IsSeq
<1>10. PICK V2 : T \in Seq(V2)
  BY <1>8 DEF IsSeq
<1> DEFINE V == V1 \cup V2
<1>11. O \in Seq(V) /\ T \in Seq(V)
  BY <1>9, <1>10
<1> HIDE DEF V
<1>12. FileText(f) = O \o T
  BY FileTextIs DEF O, T
<1>13. O \o T \in Seq(V)
  BY <1>11, ConcatProperties
<1>14. IsSeq(FileText(f))
  BY <1>12, <1>13 DEF IsSeq
<1>15. End(p, O \o T) = End(End(p, O), T)
  BY <1>11, EndJoined
<1>16. Sound(End(p, O), T)
  BY <1>3, <1>6
<1>17. Sound(p, O \o T)
  BY <1>2, <1>11, <1>16, SoundJoined
<1>18. Ended(End(p, FileText(f)), fs, Meaning(f))
  BY <1>3, <1>7, <1>12, <1>15
<1> QED BY <1>12, <1>14, <1>17, <1>18 DEF p

--------------------------------------------------------------------------------
(* The files of a patch, one after the other.                                       *)

IsPatch(patch) == IsSeq(patch) /\ \A i \in 1..Len(patch) : Known(patch[i]) /\ HunksTold(patch[i])

FileTexts(patch) == [i \in DOMAIN patch |-> FileText(patch[i])]

Meanings(patch, k) == [i \in 1..k |-> Meaning(patch[i])]

LEMMA ParserIsAt == Parser = At(<<>>, AtStart, 0, 0)
BY DEF Parser, At, AtStart

LEMMA FileTextsAre ==
  ASSUME NEW patch, IsPatch(patch)
  PROVE  /\ Len(FileTexts(patch)) = Len(patch)
         /\ \A i \in 1..Len(patch) : FileTexts(patch)[i] = FileText(patch[i])
         /\ \E U : FileTexts(patch) \in Seq(Seq(U))
<1>1. Len(patch) \in Nat /\ DOMAIN patch = 1..Len(patch)
  BY DEF IsPatch, IsSeq
<1>2. FileTexts(patch) = [i \in 1..Len(patch) |-> FileText(patch[i])]
  BY <1>1 DEF FileTexts
<1>3. IsSeq(FileTexts(patch)) /\ Len(FileTexts(patch)) = Len(patch)
  <2> DEFINE V == {FileText(patch[i]) : i \in 1..Len(patch)}
  <2>1. FileTexts(patch) \in [1..Len(patch) -> V]
    BY <1>2
  <2> HIDE DEF V
  <2>2. FileTexts(patch) \in Seq(V) /\ Len(FileTexts(patch)) = Len(patch)
    BY <1>1, <2>1, FunctionIsSeq
  <2> QED BY <2>2 DEF IsSeq
<1>4. ASSUME NEW i \in 1..Len(patch) PROVE IsSeq(FileText(patch[i]))
  <2>1. Known(patch[i]) /\ HunksTold(patch[i])
    BY DEF IsPatch
  <2>2. IsSeq(<<>>) /\ AtStart \in Ends
    BY DEF IsSeq, Ends
  <2> QED BY <2>1, <2>2, FileRead
<1>5. \A i \in 1..Len(patch) : FileTexts(patch)[i] = FileText(patch[i])
  BY <1>2
<1>6. \E U : FileTexts(patch) \in Seq(Seq(U))
  BY <1>3, <1>4, <1>5, OneSet
<1> QED BY <1>3, <1>5, <1>6

LEMMA MeaningsAre ==
  ASSUME NEW patch, NEW k \in Nat
  PROVE  /\ IsSeq(Meanings(patch, k))
         /\ Append(Meanings(patch, k), Meaning(patch[k + 1])) = Meanings(patch, k + 1)
<1> DEFINE V == {Meaning(patch[i]) : i \in 1..(k + 1)}
           m == Meanings(patch, k)
           m2 == Meanings(patch, k + 1)
           e == Meaning(patch[k + 1])
<1>1. m \in [1..k -> V] /\ m2 \in [1..(k + 1) -> V] /\ e \in V
  BY DEF Meanings
<1>2. m2[k + 1] = e /\ \A i \in 1..k : m2[i] = m[i]
  BY DEF Meanings
<1> HIDE DEF V, m, m2, e
<1>3. m \in Seq(V) /\ Len(m) = k
  BY <1>1, FunctionIsSeq
<1>4. m2 \in Seq(V) /\ Len(m2) = k + 1
  BY <1>1, FunctionIsSeq
<1>5. Append(m, e) \in Seq(V) /\ Len(Append(m, e)) = k + 1
  BY <1>1, <1>3
<1>6. Append(m, e)[k + 1] = e /\ \A i \in 1..k : Append(m, e)[i] = m[i]
  BY <1>1, <1>3
<1>7. ASSUME NEW i \in 1..(k + 1) PROVE Append(m, e)[i] = m2[i]
  <2>1. i = k + 1 \/ i \in 1..k
    OBVIOUS
  <2> QED BY <1>2, <1>6, <2>1
<1>8. \A i \in 1..Len(Append(m, e)) : Append(m, e)[i] = m2[i]
  BY <1>5, <1>7
<1>9. Len(Append(m, e)) = Len(m2)
  BY <1>4, <1>5
<1>11. Append(m, e) \in Seq(V) /\ m2 \in Seq(V)
  BY <1>4, <1>5
<1>10. Append(m, e) = m2
  BY <1>8, <1>9, <1>11, SeqEqual
<1> QED BY <1>3, <1>10 DEF IsSeq, m, m2, e

FilesAre(patch, k) ==
  /\ Sound(Parser, Flat(FileTexts(patch))[k])
  /\ \E at \in Ends : End(Parser, Flat(FileTexts(patch))[k]) = At(Meanings(patch, k), at, 0, 0)

LEMMA FirstFiles ==
  ASSUME NEW patch, IsPatch(patch)
  PROVE  FilesAre(patch, 0)
<1>1. PICK U : FileTexts(patch) \in Seq(Seq(U))
  BY FileTextsAre
<1>2. Flat(FileTexts(patch))[0] = <<>>
  BY <1>1, FlatIs
<1>3. Meanings(patch, 0) = <<>>
  <2> DEFINE V == {Meaning(patch[i]) : i \in 1..0}
             m == Meanings(patch, 0)
  <2>1. m \in [1..0 -> V]
    BY DEF Meanings
  <2> HIDE DEF V, m
  <2>2. m \in Seq(V) /\ Len(m) = 0
    BY <2>1, FunctionIsSeq
  <2>3. m = <<>>
    BY <2>2, EmptySeq
  <2> QED BY <2>3 DEF m
<1>4. Sound(Parser, <<>>) /\ End(Parser, <<>>) = Parser
  BY SoundNone
<1>5. AtStart \in Ends
  BY DEF Ends
<1> QED BY <1>2, <1>3, <1>4, <1>5, ParserIsAt DEF FilesAre

LEMMA NextFile ==
  ASSUME NEW patch, IsPatch(patch), NEW k \in Nat, k < Len(patch), FilesAre(patch, k)
  PROVE  FilesAre(patch, k + 1)
<1> DEFINE f == patch[k + 1]
           fs == Meanings(patch, k)
           T == Flat(FileTexts(patch))[k]
           T2 == Flat(FileTexts(patch))[k + 1]
           X == FileText(f)
<1>0. Len(patch) \in Nat
  BY DEF IsPatch, IsSeq
<1>1. k + 1 \in 1..Len(patch) /\ (k + 1) - 1 = k /\ k \in 0..Len(patch) /\ k + 1 \in 0..Len(patch)
  BY <1>0
<1>2. Known(f) /\ HunksTold(f)
  BY <1>1 DEF IsPatch
<1>3. IsSeq(fs) /\ Append(fs, Meaning(f)) = Meanings(patch, k + 1)
  BY MeaningsAre
<1>4. PICK U : FileTexts(patch) \in Seq(Seq(U))
  BY FileTextsAre
<1>5. Len(FileTexts(patch)) = Len(patch) /\ FileTexts(patch)[k + 1] = X
  BY <1>1, FileTextsAre
<1>6. T \in Seq(U) /\ X \in Seq(U) /\ T2 = T \o X
  <2>1. T \in Seq(U) /\ T2 = T \o FileTexts(patch)[k + 1]
    BY <1>1, <1>4, <1>5, FlatIs
  <2>2. FileTexts(patch)[k + 1] \in Seq(U)
    BY <1>1, <1>4, <1>5
  <2> QED BY <1>5, <2>1, <2>2
<1>7. Sound(Parser, T)
  BY DEF FilesAre
<1>8. PICK at \in Ends : End(Parser, T) = At(fs, at, 0, 0)
  BY DEF FilesAre
<1> DEFINE q == At(fs, at, 0, 0)
<1> HIDE DEF f, fs, T, T2
<1>9. Sound(q, X)
  BY <1>2, <1>3, FileRead
<1>10. Ended(End(q, X), fs, Meaning(f))
  BY <1>2, <1>3, FileRead
<1> HIDE DEF q, X
<1>11. End(Parser, T) = q
  BY <1>8 DEF q
<1>12. PICK at2 \in {AtHunk, HunkEnded} : End(q, X) = At(Append(fs, Meaning(f)), at2, 0, 0)
  BY <1>10 DEF Ended
<1>13. Sound(Parser, T2)
  BY <1>6, <1>7, <1>9, <1>11, SoundJoined
<1>16. End(Parser, T2) = End(End(Parser, T), X)
  BY <1>6, EndJoined
<1>14. End(Parser, T2) = At(Meanings(patch, k + 1), at2, 0, 0)
  BY <1>3, <1>11, <1>12, <1>16
<1>15. at2 \in Ends
  BY <1>12 DEF Ends
<1> QED BY <1>13, <1>14, <1>15 DEF FilesAre, T2

LEMMA PatchRead ==
  ASSUME NEW patch, IsPatch(patch)
  PROVE  /\ IsSeq(Text(patch))
         /\ Sound(Parser, Text(patch))
         /\ \E at \in Ends : End(Parser, Text(patch)) = At(Meanings(patch, Len(patch)), at, 0, 0)
<1> DEFINE T == {k \in Nat : k <= Len(patch) => FilesAre(patch, k)}
           n == Len(patch)
<1>1. n \in Nat /\ n \in 0..n
  BY DEF IsPatch, IsSeq
<1>2. Nat \subseteq T
  <2>1. 0 \in T
    BY FirstFiles
  <2>2. ASSUME NEW k \in Nat, k \in T PROVE k + 1 \in T
    <3> SUFFICES ASSUME k + 1 <= n PROVE FilesAre(patch, k + 1)
      OBVIOUS
    <3>1. k < n /\ FilesAre(patch, k)
      BY <1>1, <2>2
    <3> QED BY <3>1, NextFile
  <2> HIDE DEF T
  <2> QED BY <2>1, <2>2, AtEveryLength
<1>3. FilesAre(patch, n)
  BY <1>1, <1>2
<1>4. PICK U : FileTexts(patch) \in Seq(Seq(U))
  BY FileTextsAre
<1>5. Len(FileTexts(patch)) = n
  BY FileTextsAre
<1>6. Text(patch) = FlattenSeq(FileTexts(patch))
  BY DEF Text, FileTexts
<1>7. FlattenSeq(FileTexts(patch)) = Flat(FileTexts(patch))[Len(FileTexts(patch))]
  BY <1>4, FlattenIs
<1>8. Text(patch) = Flat(FileTexts(patch))[n]
  BY <1>5, <1>6, <1>7
<1>9. Flat(FileTexts(patch))[n] \in Seq(U)
  BY <1>1, <1>4, <1>5, FlatIs
<1>10. IsSeq(Text(patch))
  BY <1>8, <1>9 DEF IsSeq
<1> QED BY <1>3, <1>8, <1>10 DEF FilesAre

LEMMA PatchParsed ==
  ASSUME NEW patch, IsPatch(patch)
  PROVE  parse_patch(Text(patch)) = [i \in DOMAIN patch |-> Meaning(patch[i])]
<1>1. PICK at \in Ends : End(Parser, Text(patch)) = At(Meanings(patch, Len(patch)), at, 0, 0)
  BY PatchRead
<1> DEFINE p == End(Parser, Text(patch))
<1>2. p.at = at /\ p.files = Meanings(patch, Len(patch))
  BY <1>1, ParserFields
<1> HIDE DEF p
<1>3. MayEnd(p)
  BY <1>2 DEF MayEnd, Ends, AtStart, AtHunk, HunkEnded
<1>4. parse_patch(Text(patch)) = p.files
  BY <1>3 DEF parse_patch, End, p
<1>5. DOMAIN patch = 1..Len(patch)
  BY DEF IsPatch, IsSeq
<1>6. Meanings(patch, Len(patch)) = [i \in DOMAIN patch |-> Meaning(patch[i])]
  BY <1>5 DEF Meanings
<1> QED BY <1>2, <1>4, <1>6

LEMMA CutIsRefused ==
  ASSUME NEW patch, IsPatch(patch), NEW k \in 1..(Len(Text(patch)) - 1),
         parse_patch(SubSeq(Text(patch), 1, k)) # None
  PROVE  Text(patch)[k + 1].of # "body" /\ Text(patch)[k].of # "names"
<1> DEFINE text == Text(patch)
           a == SubSeq(text, 1, k)
           b == SubSeq(text, k + 1, Len(text))
           p == Walk(Parser, text)[k]
<1>1. PICK U : text \in Seq(U)
  BY PatchRead DEF IsSeq
<1>2. Sound(Parser, text)
  BY PatchRead
<1> HIDE DEF text
<1>3. Len(text) \in Nat /\ k \in 1..Len(text) /\ k + 1 \in 1..Len(text) /\ (k + 1) - 1 = k /\ k \in Nat
  BY <1>1 DEF text
<1>4. /\ text[k + 1].of = "body" => Walk(Parser, text)[(k + 1) - 1].at = "in hunk"
      /\ text[k].of = "names" => Walk(Parser, text)[k].at \in {"new file", "no hunk yet"}
  BY <1>2, <1>3 DEF Sound
<1>5. a \in Seq(U) /\ b \in Seq(U) /\ Len(a) = k /\ a \o b = text
  BY <1>1, <1>3
<1> HIDE DEF a, b
<1>6. \A i \in 0..Len(a) : Walk(Parser, a \o b)[i] = Walk(Parser, a)[i]
  BY <1>5, WalkFirst
<1>7. Walk(Parser, a)[Len(a)] = p
  BY <1>3, <1>5, <1>6
<1> HIDE DEF p
<1>8. MayEnd(p)
  BY <1>7 DEF parse_patch, a, text
<1>9. p.at \notin {"in hunk", "new file", "no hunk yet"}
  BY <1>8 DEF MayEnd
<1> QED BY <1>3, <1>4, <1>9 DEF p, text

LEMMA NotEmpty ==
  ASSUME NEW h, h = <<>>
  PROVE  Len(h) = 0
OBVIOUS

(* The hunks, changes and patches that the run puts are such as the theorems are about. *)
LEMMA RunHunks ==
  ASSUME NEW h \in Hunks
  PROVE  h \in Seq(BodyLines \cup {NoNewline}) /\ IsHunk(h)
<1> DEFINE U == BodyLines \cup {NoNewline}
<1>1. ASSUME NEW l \in BodyLines PROVE IsContent(l)
  <2>1. \/ \E t \in {" ", "-", "+"} : l = Line("body", "other", t)
        \/ l = [of |-> "body", head |-> "---", tag |-> "-", path |-> Source]
        \/ l = [of |-> "body", head |-> "+++", tag |-> "+", path |-> Source]
    BY DEF BodyLines
  <2>2. CASE \E t \in {" ", "-", "+"} : l = Line("body", "other", t)
    <3>1. PICK t \in {" ", "-", "+"} : l = Line("body", "other", t)
      BY <2>2
    <3>2. l.of = "body" /\ l.tag = t
      BY <3>1 DEF Line
    <3> QED BY <3>2 DEF IsContent
  <2>3. CASE l = [of |-> "body", head |-> "---", tag |-> "-", path |-> Source]
    BY <2>3 DEF IsContent
  <2>4. CASE l = [of |-> "body", head |-> "+++", tag |-> "+", path |-> Source]
    BY <2>4 DEF IsContent
  <2> QED BY <2>1, <2>2, <2>3, <2>4
<1>2. ~IsContent(NoNewline)
  BY MarkIs
<1>3. \/ \E l \in BodyLines : h = <<l>>
      \/ \E l, k \in BodyLines : h = <<l, k>>
      \/ \E l \in BodyLines : h = <<l, NoNewline>>
      \/ \E l, k \in BodyLines : h = <<l, NoNewline, k, NoNewline>>
  BY DEF Hunks
<1> HIDE DEF U
<1>9. \A l \in BodyLines : l \in U
  BY DEF U
<1>10. NoNewline \in U
  BY DEF U
<1>4. CASE \E l \in BodyLines : h = <<l>>
  <2>1. PICK l \in BodyLines : h = <<l>>
    BY <1>4
  <2>2. h \in Seq(U) /\ Len(h) = 1 /\ h[1] = l
    BY <1>9, <2>1
  <2>3. \A i \in 1..Len(h) : i = 1
    BY <2>2
  <2>9. Len(h) # 0
    BY <2>2
  <2>4. h # <<>>
    BY <2>9, NotEmpty
  <2> QED BY <1>1, <1>2, <2>2, <2>3, <2>4 DEF IsHunk, U
<1>5. CASE \E l, k \in BodyLines : h = <<l, k>>
  <2>1. PICK l \in BodyLines, k \in BodyLines : h = <<l, k>>
    BY <1>5
  <2>2. h \in Seq(U) /\ Len(h) = 2 /\ h[1] = l /\ h[2] = k
    BY <1>9, <2>1
  <2>3. \A i \in 1..Len(h) : i = 1 \/ i = 2
    BY <2>2
  <2>9. Len(h) # 0
    BY <2>2
  <2>4. h # <<>>
    BY <2>9, NotEmpty
  <2>5. \A i \in 1..(Len(h) - 1) : i = 1
    BY <2>2
  <2> QED BY <1>1, <1>2, <2>2, <2>3, <2>4, <2>5 DEF IsHunk, U
<1>6. CASE \E l \in BodyLines : h = <<l, NoNewline>>
  <2>1. PICK l \in BodyLines : h = <<l, NoNewline>>
    BY <1>6
  <2>2. h \in Seq(U) /\ Len(h) = 2 /\ h[1] = l /\ h[2] = NoNewline
    BY <1>9, <1>10, <2>1
  <2>3. \A i \in 1..Len(h) : i = 1 \/ i = 2
    BY <2>2
  <2>9. Len(h) # 0
    BY <2>2
  <2>4. h # <<>>
    BY <2>9, NotEmpty
  <2>5. \A i \in 1..(Len(h) - 1) : i = 1
    BY <2>2
  <2> QED BY <1>1, <1>2, <2>2, <2>3, <2>4, <2>5 DEF IsHunk, U
<1>7. CASE \E l, k \in BodyLines : h = <<l, NoNewline, k, NoNewline>>
  <2>1. PICK l \in BodyLines, k \in BodyLines : h = <<l, NoNewline, k, NoNewline>>
    BY <1>7
  <2>2. /\ h \in Seq(U) /\ Len(h) = 4
        /\ h[1] = l /\ h[2] = NoNewline /\ h[3] = k /\ h[4] = NoNewline
    BY <1>9, <1>10, <2>1
  <2>3. \A i \in 1..Len(h) : i = 1 \/ i = 2 \/ i = 3 \/ i = 4
    BY <2>2
  <2>9. Len(h) # 0
    BY <2>2
  <2>4. h # <<>>
    BY <2>9, NotEmpty
  <2>5. \A i \in 1..(Len(h) - 1) : i = 1 \/ i = 2 \/ i = 3
    BY <2>2
  <2>6. IsContent(h[1]) /\ IsContent(h[3])
    BY <1>1, <2>2
  <2>7. \A i \in 1..Len(h) : IsContent(h[i]) \/ h[i] = NoNewline
    BY <2>2, <2>3, <2>6
  <2>8. \A i \in 1..(Len(h) - 1) : h[i] = NoNewline => IsContent(h[i + 1])
    <3>1. 2 + 1 = 3
      OBVIOUS
    <3> QED BY <1>2, <2>5, <2>6, <3>1
  <2> QED BY <2>2, <2>4, <2>6, <2>7, <2>8 DEF IsHunk, U
<1> QED BY <1>3, <1>4, <1>5, <1>6, <1>7

LEMMA RunChange ==
  ASSUME NEW path, NEW st, st \in {"modify", "add", "delete"}, NEW mode, NEW hs,
         \/ \E h \in Hunks : hs = <<h>>
         \/ \E h, g \in Hunks : hs = <<h, g>>
  PROVE  Known(Change(path, st, mode, hs)) /\ HunksTold(Change(path, st, mode, hs))
<1> DEFINE f == Change(path, st, mode, hs)
           U == BodyLines \cup {NoNewline}
<1>1. f.status = st /\ f.hunks = hs
  BY DEF Change
<1>2. \A h \in Hunks : h \in Seq(U) /\ IsHunk(h)
  BY RunHunks
<1> HIDE DEF f, U
<1>3. CASE \E h \in Hunks : hs = <<h>>
  <2>1. PICK h \in Hunks : hs = <<h>>
    BY <1>3
  <2>2. hs \in Seq(Seq(U)) /\ Len(hs) = 1 /\ hs[1] = h
    BY <1>2, <2>1
  <2>3. \A i \in 1..Len(hs) : i = 1
    BY <2>2
  <2>4. Len(hs) # 0
    BY <2>2
  <2>5. hs # <<>>
    BY <2>4, NotEmpty
  <2>6. \A i \in 1..Len(hs) : IsHunk(hs[i])
    BY <1>2, <2>2, <2>3
  <2> QED BY <1>1, <2>2, <2>5, <2>6 DEF HunksTold, Known, f
<1>4. CASE \E h, g \in Hunks : hs = <<h, g>>
  <2>1. PICK h \in Hunks, g \in Hunks : hs = <<h, g>>
    BY <1>4
  <2>2. hs \in Seq(Seq(U)) /\ Len(hs) = 2 /\ hs[1] = h /\ hs[2] = g
    BY <1>2, <2>1
  <2>3. \A i \in 1..Len(hs) : i = 1 \/ i = 2
    BY <2>2
  <2>4. Len(hs) # 0
    BY <2>2
  <2>5. hs # <<>>
    BY <2>4, NotEmpty
  <2>6. \A i \in 1..Len(hs) : IsHunk(hs[i])
    BY <1>2, <2>2, <2>3
  <2> QED BY <1>1, <2>2, <2>5, <2>6 DEF HunksTold, Known, f
<1> QED BY <1>3, <1>4

LEMMA TwoChanges ==
  ASSUME NEW a, NEW b, Known(a), HunksTold(a), Known(b), HunksTold(b)
  PROVE  IsPatch(<<a, b>>) /\ IsPatch(<<a>>)
<1>1. <<a, b>> \in Seq({a, b}) /\ Len(<<a, b>>) = 2 /\ <<a, b>>[1] = a /\ <<a, b>>[2] = b
  OBVIOUS
<1>2. <<a>> \in Seq({a}) /\ Len(<<a>>) = 1 /\ <<a>>[1] = a
  OBVIOUS
<1>3. (\A i \in 1..2 : i = 1 \/ i = 2) /\ (\A i \in 1..1 : i = 1)
  OBVIOUS
<1>4. IsPatch(<<a, b>>)
  <2> DEFINE p == <<a, b>>
  <2>1. p \in Seq({a, b}) /\ Len(p) = 2 /\ p[1] = a /\ p[2] = b
    BY <1>1
  <2> HIDE DEF p
  <2>2. IsPatch(p)
    BY <1>3, <2>1 DEF IsPatch, IsSeq
  <2> QED BY <2>2 DEF p
<1>5. IsPatch(<<a>>)
  <2> DEFINE p == <<a>>
  <2>1. p \in Seq({a}) /\ Len(p) = 1 /\ p[1] = a
    BY <1>2
  <2> HIDE DEF p
  <2>2. IsPatch(p)
    BY <1>3, <2>1 DEF IsPatch, IsSeq
  <2> QED BY <2>2 DEF p
<1> QED BY <1>4, <1>5

LEMMA RunAsksOfPatches ==
  ASSUME NEW patch \in Patches \cup Submitted
  PROVE  IsPatch(patch)
<1>1. CASE \E st \in {"modify", "add", "delete"}, h \in Hunks, g \in Hunks :
             patch = <<Change(Source, st, Regular, <<h>>), Change(Test, "modify", Regular, <<g>>)>>
  <2>1. PICK st \in {"modify", "add", "delete"}, h \in Hunks, g \in Hunks :
          patch = <<Change(Source, st, Regular, <<h>>), Change(Test, "modify", Regular, <<g>>)>>
    BY <1>1
  <2> DEFINE a == Change(Source, st, Regular, <<h>>)
             b == Change(Test, "modify", Regular, <<g>>)
  <2>2. Known(a) /\ HunksTold(a)
    BY RunChange
  <2>3. Known(b) /\ HunksTold(b)
    BY RunChange
  <2> HIDE DEF a, b
  <2>4. patch = <<a, b>>
    BY <2>1 DEF a, b
  <2> QED BY <2>2, <2>3, <2>4, TwoChanges
<1>2. CASE \E h, g \in Hunks : patch = <<Change(Test, "modify", Regular, <<h, g>>)>>
  <2>1. PICK h \in Hunks, g \in Hunks : patch = <<Change(Test, "modify", Regular, <<h, g>>)>>
    BY <1>2
  <2> DEFINE a == Change(Test, "modify", Regular, <<h, g>>)
  <2>2. Known(a) /\ HunksTold(a)
    BY RunChange
  <2> HIDE DEF a
  <2>4. patch = <<a>>
    BY <2>1 DEF a
  <2> QED BY <2>2, <2>4, TwoChanges
<1>3. CASE \E p \in Files, st \in {"modify", "add", "delete"}, m \in {Regular, "100755", "120000"} :
             patch = <<Change(p, st, m, <<<<AddsALine>>>>), Change(Test, "modify", Regular, <<<<AddsALine>>>>)>>
  <2>1. PICK p \in Files, st \in {"modify", "add", "delete"}, m \in {Regular, "100755", "120000"} :
          patch = <<Change(p, st, m, <<<<AddsALine>>>>), Change(Test, "modify", Regular, <<<<AddsALine>>>>)>>
    BY <1>3
  <2>5. <<AddsALine>> \in Hunks
    <3>1. AddsALine \in BodyLines
      BY DEF AddsALine, BodyLines
    <3> QED BY <3>1 DEF Hunks
  <2> DEFINE h == <<AddsALine>>
             a == Change(p, st, m, <<h>>)
             b == Change(Test, "modify", Regular, <<h>>)
  <2>6. h \in Hunks
    BY <2>5
  <2> HIDE DEF h
  <2>2. Known(a) /\ HunksTold(a)
    BY <2>6, RunChange
  <2>3. Known(b) /\ HunksTold(b)
    BY <2>6, RunChange
  <2> HIDE DEF a, b
  <2>7. IsPatch(<<a, b>>)
    BY <2>2, <2>3, TwoChanges
  <2>8. patch = <<a, b>>
    BY <2>1 DEF a, b, h
  <2> QED BY <2>7, <2>8
<1> DEFINE Pair(st, h, g) == <<Change(Source, st, Regular, <<h>>), Change(Test, "modify", Regular, <<g>>)>>
           Two == {Pair(st, h, g) : st \in {"modify", "add", "delete"}, h \in Hunks, g \in Hunks}
           Single == {<<Change(Test, "modify", Regular, <<h, g>>)>> : h, g \in Hunks}
<1>7. patch \in Single => \E h, g \in Hunks : patch = <<Change(Test, "modify", Regular, <<h, g>>)>>
  OBVIOUS
<1>8. Patches = Two \cup Single
  BY DEF Patches
<1> HIDE DEF Pair
<1>4. patch \in Two =>
        \E st \in {"modify", "add", "delete"}, h \in Hunks, g \in Hunks : patch = Pair(st, h, g)
  OBVIOUS
<1> USE DEF Pair
<1>5. patch \in Submitted =>
        \E p \in Files, st \in {"modify", "add", "delete"}, m \in {Regular, "100755", "120000"} :
          patch = <<Change(p, st, m, <<<<AddsALine>>>>), Change(Test, "modify", Regular, <<<<AddsALine>>>>)>>
  BY DEF Submitted
<1> HIDE DEF Two, Single
<1>6. patch \in Two \/ patch \in Single \/ patch \in Submitted
  BY <1>8
<1> QED BY <1>1, <1>2, <1>3, <1>4, <1>5, <1>6, <1>7, Zenon

(* Whatever the patch: the parser makes of its text what git would, and no text that is   *)
(* cut off within a hunk or between the names of a file is taken for a patch.             *)
THEOREM PatchesReadAsWritten ==
  ASSUME asked.kind = "patch" => IsPatch(asked.patch)
  PROVE  RoundTrip
<1> SUFFICES ASSUME asked.kind = "patch"
             PROVE  LET text == Text(asked.patch)
                    IN  /\ parse_patch(text) = [i \in DOMAIN asked.patch |-> Meaning(asked.patch[i])]
                        /\ \A k \in 1..Len(text) - 1 :
                             parse_patch(SubSeq(text, 1, k)) # None => text[k + 1].of # "body" /\ text[k].of # "names"
  BY DEF RoundTrip
<1>1. IsPatch(asked.patch)
  OBVIOUS
<1>2. parse_patch(Text(asked.patch)) = [i \in DOMAIN asked.patch |-> Meaning(asked.patch[i])]
  BY <1>1, PatchParsed
<1>3. ASSUME NEW k \in 1..(Len(Text(asked.patch)) - 1), parse_patch(SubSeq(Text(asked.patch), 1, k)) # None
      PROVE  Text(asked.patch)[k + 1].of # "body" /\ Text(asked.patch)[k].of # "names"
  BY <1>1, <1>3, CutIsRefused
<1> QED BY <1>2, <1>3

--------------------------------------------------------------------------------
(* What is applied.                                                                *)

\* A changed file: its path is names, and says by its names what it is; its mode is there.
IsChange(f) ==
  /\ f.path.parts \in Seq(STRING) /\ f.path.parts # <<>>
  /\ f.path.odd \in 0..Len(f.path.parts)
  /\ f.mode # None /\ Known(f)

LEMMA EntryMeans ==
  ASSUME NEW f, IsChange(f)
  PROVE  /\ Meaning(f).new = f.path /\ Meaning(f).status = f.status
         /\ f.status = "add" => Meaning(f).newMode = f.mode
         /\ f.status = "modify" => Meaning(f).indexMode = f.mode
BY DEF Meaning, Entry, IsChange, Known

LEMMA AllowedEntry ==
  ASSUME NEW f, IsChange(f), EntryAllowed(Meaning(f))
  PROVE  path_allowed(f.path) /\ f.mode = Regular
<1>1. path_allowed(f.path)
  BY EntryMeans DEF EntryAllowed, Paths
<1>2. f.status \in {"modify", "add"}
  BY EntryMeans DEF EntryAllowed
<1>3. f.mode \in {None, Regular}
  BY <1>2, EntryMeans DEF EntryAllowed
<1> QED BY <1>1, <1>3 DEF IsChange

(* Of the spellings of a directory or file one comes first, so that a path that does not *)
(* collide is spelt as one of them.                                                      *)
LEMMA FirstSpelling ==
  ASSUME NEW k \in Nat, NEW T, T # {}, \A t \in T : Spelled(t, k) \in 0..k
  PROVE  \E t \in T : \A u \in T : ~ListedBefore(Spelled(u, k), Spelled(t, k))
<1> DEFINE Place(t) == IF Spelled(t, k) = 0 THEN k + 1 ELSE Spelled(t, k)
           P == {Place(t) : t \in T}
<1>1. \A t \in T : Place(t) \in Nat
  OBVIOUS
<1>2. \A t, u \in T : ListedBefore(Spelled(u, k), Spelled(t, k)) => Place(u) < Place(t)
  BY DEF ListedBefore
<1> HIDE DEF Place
<1>3. P \subseteq Nat /\ P # {}
  BY <1>1
<1>4. PICK n \in P : \A m \in P : n <= m
  BY <1>3, LeastOf
<1>5. PICK t \in T : Place(t) = n
  OBVIOUS
<1>6. ASSUME NEW u \in T PROVE ~ListedBefore(Spelled(u, k), Spelled(t, k))
  <2>1. Place(t) <= Place(u)
    BY <1>4, <1>5
  <2>2. ~(Place(u) < Place(t))
    BY <1>1, <2>1
  <2> QED BY <1>2, <2>2
<1> QED BY <1>6

LEMMA NoNewSpelling ==
  ASSUME NEW p, NEW tree, Len(p.parts) \in Nat, ~Collides(p, tree)
  PROVE  SpelledAsTracked(p, tree)
<1> SUFFICES ASSUME NEW k \in 1..Len(p.parts), Tracked(p, k, tree) # {}
             PROVE  \E t \in Tracked(p, k, tree) : Spelled(t, k) = Spelled(p, k)
  BY DEF SpelledAsTracked
<1> DEFINE T == Tracked(p, k, tree)
<1>1. k \in Nat /\ \A t \in T : Spelled(t, k) \in 0..k
  BY DEF Spelled
<1> HIDE DEF T
<1>2. \E t \in T : \A u \in T : ~ListedBefore(Spelled(u, k), Spelled(t, k))
  <2>1. T # {}
    BY DEF T
  <2> QED BY <1>1, <2>1, FirstSpelling
<1> USE DEF T
<1>4. PICK t \in Tracked(p, k, tree) :
             \A u \in Tracked(p, k, tree) : ~ListedBefore(Spelled(u, k), Spelled(t, k))
  BY <1>2
<1>3. Spelled(t, k) = Spelled(p, k)
  BY <1>4 DEF Collides
<1> QED BY <1>3

(* Whatever the patch, the checkout and what git staged: what cmd_apply lets pass is a     *)
(* change of regular files that nobody has to review, each of them named by the patch and *)
(* none of them a new spelling of what is tracked.                                        *)
THEOREM AppliedPatches ==
  ASSUME Protected = ProtectedDirs,
         asked.kind = "apply" => IsPatch(asked.patch) /\ \A i \in DOMAIN asked.patch : IsChange(asked.patch[i])
  PROVE  AppliedIsAllowed
<1> SUFFICES ASSUME asked.kind = "apply", Applies(asked), NEW p \in DOMAIN asked.index
             PROVE  /\ \A d \in ProtectedDirs : ~IsPrefix(d, p.parts)
                    /\ asked.index[p].newMode = Regular /\ asked.index[p].oldMode \in {None, Regular}
                    /\ p \in DOMAIN asked.tree => asked.tree[p].mode = Regular
                    /\ SpelledAsTracked(p, asked.tree)
                    /\ \E i \in DOMAIN asked.patch : asked.patch[i].path = p /\ asked.patch[i].mode = Regular
  BY DEF AppliedIsAllowed
<1> DEFINE patch == asked.patch
           files == parse_patch(Text(patch))
           tree  == asked.tree
           index == asked.index
<1>1. /\ check_patch(files)
      /\ ReadAlike(files, [paths |-> asked.read, binary |-> FALSE, clean |-> TRUE], tree)
      /\ StagedAlike(files, index, {})
  BY DEF Applies, cmd_apply
<1>2. /\ files = [i \in DOMAIN patch |-> Meaning(patch[i])]
      /\ \A i \in DOMAIN patch : IsChange(patch[i])
  BY PatchParsed
<1> HIDE DEF files, patch, tree, index
<1>3. PICK i \in DOMAIN files : files[i].new = p
  BY <1>1 DEF StagedAlike, index
<1>4. i \in DOMAIN patch /\ files[i] = Meaning(patch[i]) /\ IsChange(patch[i])
  BY <1>2
<1>5. patch[i].path = p /\ patch[i].mode = Regular /\ path_allowed(p)
  BY <1>1, <1>3, <1>4, EntryMeans, AllowedEntry DEF check_patch
<1>6. \A d \in ProtectedDirs : ~IsPrefix(d, p.parts)
  BY <1>5 DEF path_allowed
<1>7. index[p].newMode = Regular /\ index[p].oldMode \in {None, Regular}
  BY <1>1 DEF StagedAlike, StatusOf, index
<1>8. ~Collides(p, tree) /\ p \in AllPaths(files)
  BY <1>1, <1>3 DEF ReadAlike, AllPaths, Paths
<1>9. p \in DOMAIN tree => tree[p].mode = Regular
  BY <1>1, <1>8 DEF ReadAlike
<1>10. SpelledAsTracked(p, tree)
  BY <1>4, <1>5, <1>8, NoNewSpelling DEF IsChange
<1> QED BY <1>4, <1>5, <1>6, <1>7, <1>9, <1>10 DEF patch, tree, index

================================================================================
