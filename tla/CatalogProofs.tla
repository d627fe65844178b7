----------------------------- MODULE CatalogProofs -----------------------------
(* What callers of the catalog are promised, for any number of them and any      *)
(* pattern of loads, failures and cancellations: that a refresh is never          *)
(* answered with data older than itself and never loads what was loaded for it,    *)
(* and that get() hands out what was true less than the time to live ago.         *)
(* And what a load promises: that all there is throughout is in it, as long as     *)
(* nothing is removed meanwhile, and in it once, but for renamed playbooks.      *)
EXTENDS CatalogCache, CatalogLoad, FiniteSetTheorems, TLAPS

USE CatalogAssumption

(* A caller that leaves the queue, unless it is the head, leaves the head in place. *)
LEMMA Leaving ==
  ASSUME NEW S, NEW q \in Seq(S), NEW i \in 1..Len(q)
  PROVE  /\ RemoveAt(q, i) \in Seq(S)
         /\ i # 1 => RemoveAt(q, i) # <<>> /\ Head(RemoveAt(q, i)) = Head(q)
<1> DEFINE before == SubSeq(q, 1, i - 1)
           after  == SubSeq(q, i + 1, Len(q))
<1>1. before \in Seq(S) /\ Len(before) = i - 1 /\ \A j \in 1..(i - 1) : before[j] = q[j]
  OBVIOUS
<1>2. after \in Seq(S)
  OBVIOUS
<1>3. RemoveAt(q, i) = before \o after
  BY DEF RemoveAt
<1> HIDE DEF before, after
<1>4. before \o after \in Seq(S) /\ Len(before \o after) >= Len(before)
  BY <1>1, <1>2
<1>5. ASSUME i # 1 PROVE (before \o after)[1] = q[1] /\ Len(before \o after) > 0
  BY <1>1, <1>2, <1>5
<1> QED BY <1>3, <1>4, <1>5

LEMMA TypeStep == ASSUME TypeOK, LockInv, [Next]_vars PROVE TypeOK'
<1> USE DEF TypeOK, Entry
<1>1. ASSUME NEW c \in Callers, Ask(c) PROVE TypeOK'
  <2>1. queue' \in Seq(Callers)
    BY <1>1 DEF Ask
  <2> QED BY <1>1, <2>1 DEF Ask
<1>2. ASSUME NEW c \in Callers, Serve(c) PROVE TypeOK'
  <2>1. queue' \in Seq(Callers)
    BY <1>2 DEF Serve, Holds
  <2>2. entry # None
    BY <1>2 DEF Serve, Serves, Cached, Shared
  <2>3. answer' = [answer EXCEPT ![c] = entry] /\ pc' = [pc EXCEPT ![c] = "answered"]
    BY <1>2 DEF Serve
  <2>4. \A d \in Callers : /\ pc'[d] = "loading" => load'[d] # None
                           /\ pc'[d] = "answered" => answer'[d] # None
    BY <1>2, <2>2, <2>3 DEF Serve
  <2>5. UNCHANGED <<now, world, entry, loadsStarted, ask, asked, load, seen, superseded, succeeded>>
    BY <1>2 DEF Serve
  <2> QED BY <2>1, <2>3, <2>4, <2>5
<1>3. ASSUME NEW c \in Callers, BeginLoad(c) PROVE TypeOK'
  <2> DEFINE begun == [began |-> now, sequence |-> loadsStarted + 1, version |-> world]
  <2>1. begun \in Entry /\ begun # None
    OBVIOUS
  <2>2. /\ load' = [load EXCEPT ![c] = begun] /\ pc' = [pc EXCEPT ![c] = "loading"]
        /\ loadsStarted' = loadsStarted + 1
        /\ UNCHANGED <<now, world, entry, queue, ask, asked, answer, seen, superseded, succeeded>>
    BY <1>3 DEF BeginLoad
  <2> HIDE DEF begun
  <2>3. \A d \in Callers : /\ pc'[d] = "loading" => load'[d] # None
                           /\ pc'[d] = "answered" => answer'[d] # None
    BY <2>1, <2>2
  <2> QED BY <2>1, <2>2, <2>3
<1>4. ASSUME NEW c \in Callers, LoadSucceeds(c) PROVE TypeOK'
  <2>1. PICK v \in load[c].version..world :
          entry' = [load[c] EXCEPT !.version = v] /\ answer' = [answer EXCEPT ![c] = entry']
    BY <1>4 DEF LoadSucceeds
  <2>2. load[c] \in Entry /\ v \in Nat
    BY <1>4 DEF LoadSucceeds
  <2>3. entry' \in Entry
    BY <2>1, <2>2
  <2>4. entry' # None /\ succeeded' \subseteq Nat
    BY <1>4, <2>2, <2>3 DEF LoadSucceeds
  <2>5. queue' \in Seq(Callers)
    BY <1>4 DEF LoadSucceeds, LockInv, Holds
  <2> QED BY <1>4, <2>1, <2>3, <2>4, <2>5 DEF LoadSucceeds
<1>5. ASSUME NEW c \in Callers, LoadFails(c) PROVE TypeOK'
  <2>1. queue' \in Seq(Callers)
    BY <1>5 DEF LoadFails, LockInv, Holds
  <2> QED BY <1>5, <2>1 DEF LoadFails
<1>6. ASSUME NEW c \in Callers, Cancel(c) PROVE TypeOK'
  <2>1. queue' \in Seq(Callers)
    BY <1>6, Leaving DEF Cancel
  <2> QED BY <1>6, <2>1 DEF Cancel
<1>7. CASE Tick
  BY <1>7 DEF Tick, calls
<1>8. CASE Change
  BY <1>8 DEF Change, calls
<1>9. CASE UNCHANGED vars
  BY <1>9 DEF vars, calls
<1> QED BY <1>1, <1>2, <1>3, <1>4, <1>5, <1>6, <1>7, <1>8, <1>9 DEF Next

(* What freshness rests on: everything but the queue. *)
Shape ==
  /\ world \in Nat /\ loadsStarted \in Nat /\ now \in Nat
  /\ entry \in Entry \cup {None}
  /\ pc \in [Callers -> {"idle", "waiting", "loading", "answered", "failed", "cancelled"}]
  /\ ask \in [Callers -> {"get", "refresh"}]
  /\ asked \in [Callers -> Nat] /\ seen \in [Callers -> Nat]
  /\ load \in [Callers -> Entry \cup {None}] /\ answer \in [Callers -> Entry \cup {None}]
  /\ \A c \in Callers : pc[c] = "loading" => load[c] \in Entry

LEMMA FreshStep == ASSUME Shape, Shape', FreshInv, [Next]_vars PROVE FreshInv'
<1> USE DEF Shape, Entry, FreshInv, FreshFor, Known, RefreshIsFresh
<1>1. ASSUME NEW c \in Callers, Ask(c) PROVE FreshInv'
  BY <1>1 DEF Ask
<1>2. ASSUME NEW c \in Callers, Serve(c) PROVE FreshInv'
  BY <1>2 DEF Serve, Serves, Cached, Shared
<1>3. ASSUME NEW c \in Callers, BeginLoad(c) PROVE FreshInv'
  BY <1>3 DEF BeginLoad
<1>4. ASSUME NEW c \in Callers, LoadSucceeds(c) PROVE FreshInv'
  <2>1. PICK v \in load[c].version..world :
          entry' = [load[c] EXCEPT !.version = v] /\ answer' = [answer EXCEPT ![c] = entry']
    BY <1>4 DEF LoadSucceeds
  <2>2. load[c] \in Entry /\ v \in Nat /\ v >= load[c].version /\ v <= world
    BY <1>4 DEF LoadSucceeds
  <2>3. entry'.sequence = load[c].sequence /\ entry'.version = v
    BY <2>1, <2>2
  <2>4. answer'[c] = entry' /\ \A d \in Callers \ {c} : answer'[d] = answer[d]
    BY <2>1
  <2>5. /\ pc' = [pc EXCEPT ![c] = "answered"] /\ load' = [load EXCEPT ![c] = None]
        /\ UNCHANGED <<world, loadsStarted, ask, asked, seen>> /\ pc[c] = "loading"
    BY <1>4 DEF LoadSucceeds
  <2>6. Known(entry)' /\ \A d \in Callers : FreshFor(entry, d)'
    BY <2>2, <2>3, <2>5
  <2>7. ASSUME NEW d \in Callers, pc'[d] = "loading"
        PROVE  /\ Known(load[d])' /\ load'[d].sequence > asked'[d]
               /\ \A e \in Callers : FreshFor(load[d], e)'
    <3>1. d # c /\ pc[d] = "loading" /\ load'[d] = load[d]
      BY <2>5, <2>7
    <3> QED BY <2>5, <3>1
  <2>8. \A d \in Callers : asked'[d] <= loadsStarted' /\ seen'[d] <= world'
    BY <2>5
  <2>9. RefreshIsFresh'
    <3>1. answer'[c].version >= seen'[c]
      BY <2>2, <2>3, <2>4, <2>5
    <3>2. ASSUME NEW d \in Callers, d # c, pc'[d] = "answered", ask'[d] = "refresh"
          PROVE  answer'[d].version >= seen'[d]
      BY <2>4, <2>5, <3>2
    <3> QED BY <3>1, <3>2
  <2> QED BY <2>6, <2>7, <2>8, <2>9
<1>5. ASSUME NEW c \in Callers, LoadFails(c) \/ Cancel(c) PROVE FreshInv'
  <2>1. /\ \E end \in {"failed", "cancelled"} : pc' = [pc EXCEPT ![c] = end]
        /\ pc[c] # "idle" /\ load' = [load EXCEPT ![c] = None]
        /\ UNCHANGED <<world, entry, loadsStarted, ask, asked, answer, seen>>
    BY <1>5 DEF LoadFails, Cancel
  <2> QED BY <2>1
<1>6. CASE Tick \/ Change \/ UNCHANGED vars
  BY <1>6 DEF Tick, Change, vars, calls
<1> QED BY <1>1, <1>2, <1>3, <1>4, <1>5, <1>6 DEF Next

(* The lock is held by whoever loads, so loads end in the order they began. *)
LEMMA LockStep == ASSUME TypeOK, LockInv, FreshInv, [Next]_vars PROVE LockInv'
<1> USE DEF TypeOK, Entry, LockInv, Holds
<1>1. ASSUME NEW c \in Callers, Ask(c) PROVE LockInv'
  <2>1. queue # <<>> => queue' # <<>> /\ Head(queue') = Head(queue)
    BY <1>1 DEF Ask
  <2> QED BY <1>1, <2>1 DEF Ask
<1>2. ASSUME NEW c \in Callers, Serve(c) PROVE LockInv'
  <2>1. \A d \in Callers : pc'[d] # "loading"
    BY <1>2 DEF Serve
  <2> QED BY <1>2, <2>1 DEF Serve
<1>3. ASSUME NEW c \in Callers, BeginLoad(c) PROVE LockInv'
  <2>1. \A d \in Callers : pc'[d] = "loading" => d = c
    BY <1>3 DEF BeginLoad
  <2>2. load'[c].sequence = loadsStarted'
    BY <1>3 DEF BeginLoad
  <2> QED BY <1>3, <2>1, <2>2 DEF BeginLoad
<1>4. ASSUME NEW c \in Callers, LoadSucceeds(c) PROVE LockInv'
  <2>1. PICK v \in load[c].version..world : entry' = [load[c] EXCEPT !.version = v]
    BY <1>4 DEF LoadSucceeds
  <2>2. load[c] \in Entry /\ v \in Nat
    BY <1>4 DEF LoadSucceeds
  <2>3. entry' \in Entry /\ entry'.sequence = load[c].sequence
    BY <2>1, <2>2
  <2>4. load[c].sequence = loadsStarted /\ loadsStarted' = loadsStarted
    BY <1>4 DEF LoadSucceeds
  <2>5. \A d \in Callers : pc'[d] # "loading"
    BY <1>4 DEF LoadSucceeds
  <2>6. succeeded' = succeeded \cup {load[c].sequence}
    BY <1>4 DEF LoadSucceeds
  <2>7. \A n \in succeeded' : n <= entry'.sequence
    BY <2>2, <2>3, <2>4, <2>6
  <2> QED BY <2>3, <2>4, <2>5, <2>7
<1>5. ASSUME NEW c \in Callers, LoadFails(c) PROVE LockInv'
  <2>1. \A d \in Callers : pc'[d] # "loading"
    BY <1>5 DEF LoadFails
  <2> QED BY <1>5, <2>1 DEF LoadFails
<1>6. ASSUME NEW c \in Callers, Cancel(c) PROVE LockInv'
  <2>1. PICK i \in 1..Len(queue) : queue[i] = c /\ queue' = RemoveAt(queue, i)
    BY <1>6 DEF Cancel
  <2>2. ASSUME NEW d \in Callers, pc'[d] = "loading"
        PROVE  Holds(d)' /\ load'[d].sequence = loadsStarted'
    <3>1. d # c /\ pc[d] = "loading" /\ load'[d] = load[d] /\ loadsStarted' = loadsStarted
      BY <1>6, <2>2 DEF Cancel
    <3>2. i # 1
      BY <2>1, <3>1
    <3>3. queue' # <<>> /\ Head(queue') = Head(queue)
      BY <2>1, <3>2, Leaving
    <3> QED BY <3>1, <3>3
  <2> QED BY <1>6, <2>2 DEF Cancel
<1>7. CASE Tick \/ Change \/ UNCHANGED vars
  BY <1>7 DEF Tick, Change, vars, calls
<1> QED BY <1>1, <1>2, <1>3, <1>4, <1>5, <1>6, <1>7 DEF Next

(* Versions are replaced in order, so what is read later was true no less long. *)
LEMMA YoungStep == ASSUME TypeOK, YoungInv, [Next]_vars PROVE YoungInv'
<1> USE DEF TypeOK, Entry, YoungInv, TrueWhenBegun
<1>1. ASSUME NEW c \in Callers, Ask(c) \/ Serve(c) \/ LoadFails(c) \/ Cancel(c) PROVE YoungInv'
  <2>1. UNCHANGED <<now, world, entry, superseded>>
    BY <1>1 DEF Ask, Serve, LoadFails, Cancel
  <2>2. \A d \in Callers : pc'[d] = "loading" => pc[d] = "loading" /\ load'[d] = load[d]
    BY <1>1 DEF Ask, Serve, LoadFails, Cancel
  <2> QED BY <2>1, <2>2
<1>2. ASSUME NEW c \in Callers, BeginLoad(c) PROVE YoungInv'
  <2>1. UNCHANGED <<now, world, entry, superseded>>
    BY <1>2 DEF BeginLoad
  <2>2. TrueWhenBegun(load[c])'
    BY <1>2 DEF BeginLoad
  <2>3. \A d \in Callers \ {c} : pc'[d] = pc[d] /\ load'[d] = load[d]
    BY <1>2 DEF BeginLoad
  <2> QED BY <2>1, <2>2, <2>3
<1>3. ASSUME NEW c \in Callers, LoadSucceeds(c) PROVE YoungInv'
  <2>1. PICK v \in load[c].version..world : entry' = [load[c] EXCEPT !.version = v]
    BY <1>3 DEF LoadSucceeds
  <2>2. load[c] \in Entry /\ v \in Nat /\ load[c].version <= v /\ v <= world /\ TrueWhenBegun(load[c])
    BY <1>3 DEF LoadSucceeds
  <2>3. entry'.began = load[c].began /\ entry'.version = v
    BY <2>1, <2>2
  <2>4. UNCHANGED <<now, world, superseded>>
    BY <1>3 DEF LoadSucceeds
  <2>5. v < world => superseded[v] >= load[c].began
    BY <2>2
  <2>6. TrueWhenBegun(entry)'
    BY <2>2, <2>3, <2>4, <2>5
  <2>7. \A d \in Callers : pc'[d] = "loading" => pc[d] = "loading" /\ load'[d] = load[d]
    BY <1>3 DEF LoadSucceeds
  <2> QED BY <2>4, <2>6, <2>7
<1>4. CASE Tick
  BY <1>4 DEF Tick, calls
<1>5. CASE Change
  <2>1. /\ world' = world + 1 /\ now' = now /\ entry' = entry /\ pc' = pc /\ load' = load
        /\ world < MaxVersion /\ superseded' = [superseded EXCEPT ![world] = now]
    BY <1>5 DEF Change, calls
  <2>2. superseded'[world] = now /\ \A v \in 0..MaxVersion : v # world => superseded'[v] = superseded[v]
    BY <2>1
  <2>3. ASSUME NEW l \in Entry, TrueWhenBegun(l) PROVE TrueWhenBegun(l)'
    BY <2>1, <2>2, <2>3
  <2>4. ASSUME NEW v \in 0..MaxVersion, v < world'
        PROVE  superseded'[v] <= now' /\ \A u \in 0..v : superseded'[u] <= superseded'[v]
    BY <2>1, <2>2, <2>4
  <2>5. entry' # None => TrueWhenBegun(entry)'
    BY <2>1, <2>3
  <2>6. \A d \in Callers : pc'[d] = "loading" => TrueWhenBegun(load[d])'
    BY <2>1, <2>3
  <2> QED BY <2>1, <2>4, <2>5, <2>6
<1>6. CASE UNCHANGED vars
  BY <1>6 DEF vars, calls
<1> QED BY <1>1, <1>2, <1>3, <1>4, <1>5, <1>6 DEF Next

CatalogInv == TypeOK /\ FreshInv /\ LockInv /\ YoungInv

LEMMA Inductive == Spec => []CatalogInv
<1>1. Init => CatalogInv
  <2>1. Init => TypeOK
    BY DEF Init, TypeOK
  <2> QED BY <2>1 DEF Init, CatalogInv, FreshInv, LockInv, YoungInv, RefreshIsFresh
<1>2. CatalogInv /\ [Next]_vars => CatalogInv'
  <2> SUFFICES ASSUME CatalogInv, [Next]_vars PROVE CatalogInv'
    OBVIOUS
  <2>1. TypeOK /\ FreshInv /\ LockInv /\ YoungInv
    BY DEF CatalogInv
  <2>2. TypeOK'
    BY <2>1, TypeStep
  <2>3. Shape /\ Shape'
    BY <2>1, <2>2 DEF TypeOK, Shape
  <2> QED BY <2>1, <2>2, <2>3, FreshStep, LockStep, YoungStep DEF CatalogInv
<1> QED BY <1>1, <1>2, PTL DEF Spec

(* The types: a queue of callers, each of them in it once, and an entry that some    *)
(* load brought.                                                                *)
THEOREM CatalogTypes == Spec => []TypeOK
  BY Inductive, PTL DEF CatalogInv

(* refresh(): "nobody is handed data older than their own request".            *)
THEOREM FreshAnswers == Spec => []RefreshIsFresh
<1>1. CatalogInv => RefreshIsFresh
  BY DEF CatalogInv, FreshInv
<1> QED BY <1>1, Inductive, PTL

(* refresh(): "a burst of refreshes costs SOAR one load".  Whoever loads found   *)
(* the latest load that succeeded to be no younger than its own call.           *)
THEOREM NoNeedlessLoad == Spec => LoadsAreNeeded
<1> DEFINE Needed == \A c \in Callers :
             ask[c] = "refresh" /\ pc[c] = "waiting" /\ pc'[c] = "loading" =>
                 \A n \in succeeded : n <= asked[c]
<1>1. ASSUME CatalogInv, [Next]_vars PROVE Needed
  <2> SUFFICES ASSUME NEW c \in Callers, ask[c] = "refresh", pc[c] = "waiting", pc'[c] = "loading",
                      NEW n \in succeeded
               PROVE  n <= asked[c]
    OBVIOUS
  <2>1. BeginLoad(c)
    <3>1. TypeOK
      BY <1>1 DEF CatalogInv
    <3> QED BY <1>1, <3>1 DEF TypeOK, Next, Ask, Serve, BeginLoad, LoadSucceeds, LoadFails, Cancel, Tick, Change, vars, calls
  <2>2. ~Shared(c)
    BY <2>1 DEF BeginLoad, Serves
  <2>3. entry # None /\ n <= entry.sequence
    BY <1>1 DEF CatalogInv, LockInv
  <2>4. entry \in Entry /\ asked[c] \in Nat /\ n \in Nat
    BY <1>1, <2>3 DEF CatalogInv, TypeOK
  <2> QED BY <2>2, <2>3, <2>4 DEF Shared, Entry
<1>2. CatalogInv /\ [Next]_vars => [Needed]_vars
  BY <1>1
<1> HIDE DEF Needed
<1>3. Spec => [][Needed]_vars
  BY <1>2, Inductive, PTL DEF Spec
<1> QED BY <1>3 DEF Needed, LoadsAreNeeded

(* get(): what it hands out without a load was still true of SOAR less than the   *)
(* time to live ago, counted from the start of the load that brought it.        *)
THEOREM AnswersAreYoung == Spec => GetIsYoung
<1> DEFINE Young == \A c \in Callers :
             ask[c] = "get" /\ pc[c] = "waiting" /\ pc'[c] = "answered" =>
                 LET v == answer'[c].version IN v = world \/ superseded[v] > now - Ttl
<1>1. ASSUME CatalogInv, [Next]_vars PROVE Young
  <2> SUFFICES ASSUME NEW c \in Callers, ask[c] = "get", pc[c] = "waiting", pc'[c] = "answered"
               PROVE  answer'[c].version = world \/ superseded[answer'[c].version] > now - Ttl
    OBVIOUS
  <2>0. TypeOK
    BY <1>1 DEF CatalogInv
  <2>1. Serve(c)
    BY <1>1, <2>0 DEF TypeOK, Next, Ask, Serve, BeginLoad, LoadSucceeds, LoadFails, Cancel, Tick, Change, vars, calls
  <2>2. Cached /\ answer'[c] = entry
    BY <2>0, <2>1 DEF Serve, Serves, TypeOK
  <2>3. entry \in Entry /\ TrueWhenBegun(entry)
    BY <1>1, <2>0, <2>2 DEF CatalogInv, YoungInv, TypeOK, Cached
  <2>4. world \in Nat /\ now \in Nat /\ superseded \in [0..MaxVersion -> Nat] /\ world <= MaxVersion
    BY <1>1, <2>0 DEF CatalogInv, YoungInv, TypeOK
  <2>5. entry.version \in Nat /\ entry.began \in Nat
    BY <2>3 DEF Entry
  <2>6. entry.version < world => superseded[entry.version] \in Nat /\ superseded[entry.version] >= entry.began
    BY <2>3, <2>4, <2>5 DEF TrueWhenBegun
  <2>7. now - entry.began < Ttl /\ entry.version <= world
    BY <2>2, <2>3 DEF Cached, TrueWhenBegun
  <2> QED BY <2>2, <2>4, <2>5, <2>6, <2>7
<1>2. CatalogInv /\ [Next]_vars => [Young]_vars
  BY <1>1
<1> HIDE DEF Young
<1>3. Spec => [][Young]_vars
  BY <1>2, Inductive, PTL DEF Spec
<1> QED BY <1>3 DEF Young, GetIsYoung

--------------------------------------------------------------------------------
(* A load of the catalog, whatever is added, renamed or removed meanwhile.        *)

LoadTypeOK ==
  /\ soar \in [Sections -> Seq(Row)]
  /\ reading \in 1..Len(Order) /\ requests \in Nat
  /\ listed \in Seq(Ids) /\ rows \in Seq(Row)
  /\ outcome \in {"loading", "loaded", "failed"}
  /\ throughout \in [Sections -> SUBSET Ids] /\ renamed \in [Sections -> SUBSET Ids]
  /\ removed \in BOOLEAN /\ edits \in Nat

(* What SOAR has: objects with ids of their own, the ones of `throughout` among     *)
(* them, and fields of a type that is asked for.                                 *)
SoarInv ==
  /\ \A s \in Sections : \A i, j \in DOMAIN soar[s] : soar[s][i].id = soar[s][j].id => i = j
  /\ \A s \in Sections : throughout[s] \subseteq IdsOf(soar[s])
  /\ \A i \in DOMAIN soar["fields"] : soar["fields"][i].type \in ToSet(FIELD_TYPES)

SectionsRead == 1..(IF outcome = "loaded" THEN Len(Order) ELSE reading - 1)

Has(specs, id)     == {n \in DOMAIN specs : specs[n] = id} # {}
HasOnce(specs, id) == Cardinality({n \in DOMAIN specs : specs[n] = id}) = 1

(* An object that a complete section must hold under one name.                      *)
OneName(s, id) == s # "playbooks" \/ id \notin renamed[s]

(* The sections read so far are whole.                                           *)
ReadInv ==
  /\ \A k \in SectionsRead : Order[k] \in DOMAIN content
  /\ ~removed => \A k \in SectionsRead : \A id \in throughout[Order[k]] :
       /\ Has(content[Order[k]], id)
       /\ OneName(Order[k], id) => HasOnce(content[Order[k]], id)

(* A section starts with nothing.                                                *)
StartInv == requests = 0 => rows = <<>>

(* A function that was there throughout is still listed or has been read, and no   *)
(* function is both, or either of them twice.                                    *)
FunctionsInv ==
  At("functions") /\ requests > 0 =>
    /\ requests = 1 => rows = <<>>
    /\ throughout["functions"] \subseteq IdsOf(rows) \cup ToSet(listed)
    /\ \A i, j \in DOMAIN rows : rows[i].id = rows[j].id => i = j
    /\ \A i, j \in DOMAIN listed : listed[i] = listed[j] => i = j
    /\ \A i \in DOMAIN rows, j \in DOMAIN listed : rows[i].id # listed[j]

(* A field that was read is still one of its type, and its id comes under one name; *)
(* the fields of the types asked for, if they were there throughout, are read.     *)
FieldsInv ==
  At("fields") =>
    /\ requests < Len(FIELD_TYPES)
    /\ ~removed =>
         /\ \A i \in DOMAIN rows :
              /\ \E j \in DOMAIN soar["fields"] :
                   soar["fields"][j].id = rows[i].id /\ soar["fields"][j].type = rows[i].type
              /\ \E k \in 1..requests : rows[i].type = FIELD_TYPES[k]
         /\ \A i, j \in DOMAIN rows : rows[i].id = rows[j].id => rows[i].name = rows[j].name
         /\ \A i \in DOMAIN soar["fields"] : \A k \in 1..requests :
              soar["fields"][i].id \in throughout["fields"] /\ soar["fields"][i].type = FIELD_TYPES[k]
                => soar["fields"][i].id \in IdsOf(rows)

(* The pages read are full, and a playbook that was there throughout is on one of   *)
(* them or comes later: what is added moves it back, never forth.  What was read and *)
(* not renamed since is still as it was read.                                     *)
PagesInv ==
  At("playbooks") =>
    /\ Len(rows) = requests * PageLength
    /\ ~removed =>
         /\ \A i \in DOMAIN rows :
              rows[i].id \notin renamed["playbooks"] => rows[i] \in ToSet(soar["playbooks"])
         /\ \A i \in 1..Len(rows) :
              i \in DOMAIN soar["playbooks"] /\ soar["playbooks"][i].id \in throughout["playbooks"]
                => soar["playbooks"][i].id \in IdsOf(rows)

LoadInv ==
  /\ LoadTypeOK /\ SoarInv
  /\ ReadInv /\ StartInv /\ FunctionsInv /\ FieldsInv /\ PagesInv

--------------------------------------------------------------------------------

LEMMA OrderFacts ==
  /\ Len(Order) = 11 /\ Order[1] = "functions"
  /\ \A k \in 1..11 : Order[k] \in Sections
  /\ \A s \in Sections : \E k \in 1..11 : Order[k] = s
  /\ \A k, l \in 1..11 : Order[k] = Order[l] => k = l
  /\ {"functions", "fields", "playbooks", "workflows"} \subseteq Sections
<1>1. Len(Order) = 11 /\ Order[1] = "functions" /\ DOMAIN Order = 1..11
  BY DEF Order
<1>2. Sections = {"functions", "scripts", "message_destinations", "incident_types", "phases", "fields",
                  "datatables", "playbooks", "rules", "groups", "workflows"}
  BY DEF Sections, ToSet, Order
<1>3. \A k \in 1..11 : Order[k] \in Sections
  BY <1>1 DEF Sections, ToSet
<1>4. \A k, l \in 1..11 : Order[k] = Order[l] => k = l
  BY DEF Order
<1> QED BY <1>1, <1>2, <1>3, <1>4 DEF Sections, ToSet

LEMMA TypeFacts ==
  /\ Len(FIELD_TYPES) = 3
  /\ \A k, l \in 1..3 : FIELD_TYPES[k] = FIELD_TYPES[l] => k = l
  /\ \A type \in ToSet(FIELD_TYPES) : \E k \in 1..3 : FIELD_TYPES[k] = type
BY DEF FIELD_TYPES, ToSet

LEMMA Joined ==
  ASSUME NEW S, NEW a \in Seq(S), NEW b \in Seq(S)
  PROVE  /\ a \o b \in Seq(S) /\ Len(a \o b) = Len(a) + Len(b)
         /\ \A j \in 1..(Len(a) + Len(b)) : (a \o b)[j] = IF j <= Len(a) THEN a[j] ELSE b[j - Len(a)]
OBVIOUS

(* A row more moves those from its place on by one.                              *)
MovedOn(new, old, i, e) ==
  \A j \in 1..(Len(old) + 1) :
    /\ j < i => new[j] = old[j]
    /\ j = i => new[j] = e
    /\ j > i => new[j] = old[j - 1]

LEMMA Inserted ==
  ASSUME NEW S, NEW q \in Seq(S), NEW i \in 1..(Len(q) + 1), NEW e \in S
  PROVE  /\ InsertAt(q, i, e) \in Seq(S) /\ Len(InsertAt(q, i, e)) = Len(q) + 1
         /\ MovedOn(InsertAt(q, i, e), q, i, e)
<1> DEFINE before == SubSeq(q, 1, i - 1)
           after  == SubSeq(q, i, Len(q))
<1>1. before \in Seq(S) /\ Len(before) = i - 1 /\ \A j \in 1..(i - 1) : before[j] = q[j]
  OBVIOUS
<1>2. after \in Seq(S) /\ Len(after) = Len(q) + 1 - i /\ \A j \in 1..(Len(q) + 1 - i) : after[j] = q[i + j - 1]
  OBVIOUS
<1>3. InsertAt(q, i, e) = before \o <<e>> \o after
  BY DEF InsertAt
<1> HIDE DEF before, after
<1> DEFINE head == before \o <<e>>
<1>4. head \in Seq(S) /\ Len(head) = i /\ head[i] = e /\ \A j \in 1..(i - 1) : head[j] = q[j]
  BY <1>1
<1> HIDE DEF head
<1>5. /\ head \o after \in Seq(S) /\ Len(head \o after) = Len(q) + 1
      /\ \A j \in 1..(Len(q) + 1) : (head \o after)[j] = IF j <= i THEN head[j] ELSE after[j - i]
  <2>1. Len(head) + Len(after) = Len(q) + 1
    BY <1>2, <1>4
  <2>2. /\ head \o after \in Seq(S) /\ Len(head \o after) = Len(head) + Len(after)
        /\ \A j \in 1..(Len(head) + Len(after)) :
             (head \o after)[j] = IF j <= Len(head) THEN head[j] ELSE after[j - Len(head)]
    BY <1>2, <1>4, Joined
  <2> QED BY <1>4, <2>1, <2>2
<1>6. \A j \in (i + 1)..(Len(q) + 1) : after[j - i] = q[j - 1]
  <2> TAKE j \in (i + 1)..(Len(q) + 1)
  <2>1. j - i \in 1..(Len(q) + 1 - i) /\ i + (j - i) - 1 = j - 1
    OBVIOUS
  <2> QED BY <2>1, <1>2
<1>7. MovedOn(head \o after, q, i, e)
  <2> SUFFICES ASSUME NEW j \in 1..(Len(q) + 1)
               PROVE  /\ j < i => (head \o after)[j] = q[j]
                      /\ j = i => (head \o after)[j] = e
                      /\ j > i => (head \o after)[j] = q[j - 1]
    BY DEF MovedOn
  <2>1. CASE j < i
    <3>1. j \in 1..(i - 1) /\ j <= i /\ j # i /\ ~(j > i)
      BY <2>1
    <3> QED BY <1>4, <1>5, <3>1
  <2>2. CASE j = i
    <3>1. j <= i /\ ~(j < i) /\ ~(j > i)
      BY <2>2
    <3> QED BY <1>4, <1>5, <2>2, <3>1
  <2>3. CASE j > i
    <3>1. j \in (i + 1)..(Len(q) + 1) /\ ~(j <= i) /\ ~(j < i) /\ j # i
      BY <2>3
    <3> QED BY <1>5, <1>6, <3>1
  <2> QED BY <2>1, <2>2, <2>3
<1>8. InsertAt(q, i, e) = head \o after
  BY <1>3 DEF head
<1> QED BY <1>5, <1>7, <1>8

(* A row less moves those after it.                                              *)
LEMMA Removed ==
  ASSUME NEW S, NEW q \in Seq(S), NEW i \in 1..Len(q)
  PROVE  /\ RemoveAt(q, i) \in Seq(S) /\ Len(RemoveAt(q, i)) = Len(q) - 1
         /\ \A j \in 1..(Len(q) - 1) : RemoveAt(q, i)[j] = IF j < i THEN q[j] ELSE q[j + 1]
<1> DEFINE before == SubSeq(q, 1, i - 1)
           after  == SubSeq(q, i + 1, Len(q))
<1>1. before \in Seq(S) /\ Len(before) = i - 1 /\ \A j \in 1..(i - 1) : before[j] = q[j]
  OBVIOUS
<1>2. after \in Seq(S) /\ Len(after) = Len(q) - i /\ \A j \in 1..(Len(q) - i) : after[j] = q[i + j]
  OBVIOUS
<1>3. RemoveAt(q, i) = before \o after
  BY DEF RemoveAt
<1> HIDE DEF before, after
<1>4. /\ before \o after \in Seq(S) /\ Len(before \o after) = Len(q) - 1
      /\ \A j \in 1..(Len(q) - 1) : (before \o after)[j] = IF j < i THEN before[j] ELSE after[j - (i - 1)]
  <2>1. Len(before) + Len(after) = Len(q) - 1
    BY <1>1, <1>2
  <2>2. /\ before \o after \in Seq(S) /\ Len(before \o after) = Len(before) + Len(after)
        /\ \A j \in 1..(Len(before) + Len(after)) :
             (before \o after)[j] = IF j <= Len(before) THEN before[j] ELSE after[j - Len(before)]
    BY <1>1, <1>2, Joined
  <2>3. \A j \in 1..(Len(q) - 1) : j <= i - 1 <=> j < i
    OBVIOUS
  <2> QED BY <1>1, <2>1, <2>2, <2>3
<1>5. \A j \in i..(Len(q) - 1) : after[j - (i - 1)] = q[j + 1]
  <2> TAKE j \in i..(Len(q) - 1)
  <2>1. j - (i - 1) \in 1..(Len(q) - i) /\ i + (j - (i - 1)) = j + 1
    OBVIOUS
  <2> QED BY <2>1, <1>2
<1> QED BY <1>1, <1>3, <1>4, <1>5

(* Rows that are kept under their names have each of their objects, and once if it   *)
(* comes under one name.                                                         *)
LEMMA KeptOnce ==
  ASSUME NEW some \in Seq(Row), NEW specs \in Keyed(some), NEW id \in IdsOf(some)
  PROVE  /\ Has(specs, id)
         /\ (\A i, j \in DOMAIN some : some[i].id = id /\ some[j].id = id => some[i].name = some[j].name)
              => HasOnce(specs, id)
<1> DEFINE names == {some[i].name : i \in DOMAIN some}
           At1(n) == CHOOSE i \in DOMAIN some : some[i].name = n
<1>1. /\ \A i, j \in DOMAIN some : some[i].name = some[j].name => i = j
      /\ specs = [n \in names |-> some[At1(n)].id]
  BY DEF Keyed
<1>2. PICK i \in DOMAIN some : some[i].id = id
  BY DEF IdsOf
<1>3. \A n \in names : At1(n) \in DOMAIN some /\ some[At1(n)].name = n
  OBVIOUS
<1> HIDE DEF At1
<1>4. some[i].name \in DOMAIN specs /\ specs[some[i].name] = id
  BY <1>1, <1>2, <1>3
<1>5. Has(specs, id)
  BY <1>4 DEF Has
<1>6. ASSUME \A k, j \in DOMAIN some : some[k].id = id /\ some[j].id = id => some[k].name = some[j].name
      PROVE  HasOnce(specs, id)
  <2>1. \A n \in names : specs[n] = id => n = some[i].name
    BY <1>1, <1>2, <1>3, <1>6
  <2>2. {n \in DOMAIN specs : specs[n] = id} = {some[i].name}
    BY <1>1, <1>4, <2>1
  <2> QED BY <2>2, FS_Singleton DEF HasOnce
<1> QED BY <1>5, <1>6

--------------------------------------------------------------------------------

LEMMA FailsKeeps == ASSUME LoadInv, Fails PROVE LoadInv'
<1>1. /\ outcome' = "failed"
      /\ UNCHANGED <<soar, reading, requests, listed, rows, content, throughout, renamed, removed, edits>>
  BY DEF Fails, history
<1>2. LoadTypeOK' /\ SoarInv' /\ StartInv'
  BY <1>1 DEF LoadInv, LoadTypeOK, SoarInv, StartInv
<1>3. ReadInv'
  <2>1. SectionsRead' \subseteq SectionsRead
    BY <1>1, OrderFacts DEF LoadInv, LoadTypeOK, SectionsRead
  <2> QED BY <1>1, <2>1 DEF LoadInv, ReadInv, OneName
<1>4. FunctionsInv' /\ FieldsInv' /\ PagesInv'
  BY <1>1 DEF FunctionsInv, FieldsInv, PagesInv, At
<1> QED BY <1>2, <1>3, <1>4 DEF LoadInv

(* A section that is complete.                                                   *)
LEMMA LoadedKeeps ==
  ASSUME LoadInv, outcome = "loading", NEW some \in Seq(Row), Loaded(some),
         ~removed =>
           /\ \A i, j \in DOMAIN some :
                some[i].id = some[j].id /\ OneName(Order[reading], some[i].id) => some[i].name = some[j].name
           /\ throughout[Order[reading]] \subseteq IdsOf(some)
  PROVE  LoadInv'
<1>1. CASE Fails
  BY <1>1, FailsKeeps
<1>2. CASE ~Fails
  <2> DEFINE section == Order[reading]
  <2>1. PICK specs \in Keyed(some) :
          content' = [s \in DOMAIN content \cup {section} |-> IF s = section THEN specs ELSE content[s]]
    BY <1>2 DEF Loaded
  <2>2. /\ rows' = <<>> /\ listed' = <<>> /\ requests' = 0
        /\ UNCHANGED <<soar, throughout, renamed, removed, edits>>
    BY <1>2 DEF Loaded, history
  <2>3. \/ reading = Len(Order) /\ outcome' = "loaded" /\ reading' = reading
        \/ reading # Len(Order) /\ reading' = reading + 1 /\ outcome' = outcome
    BY <1>2 DEF Loaded
  <2>4. LoadTypeOK'
    <3>1. Len(Order) = 11 /\ reading \in 1..11
      BY OrderFacts DEF LoadInv, LoadTypeOK
    <3>2. reading' \in 1..11 /\ outcome' \in {"loading", "loaded", "failed"}
      BY <2>3, <3>1
    <3>3. rows' \in Seq(Row) /\ listed' \in Seq(Ids) /\ requests' \in Nat
      BY <2>2
    <3> QED BY <2>2, <3>1, <3>2, <3>3 DEF LoadInv, LoadTypeOK
  <2>5. SoarInv' /\ StartInv'
    BY <2>2 DEF LoadInv, SoarInv, StartInv
  <2>6. FunctionsInv' /\ FieldsInv' /\ PagesInv'
    <3>1. PageLength \in Nat
      BY LoadAssumption
    <3>2. Len(rows') = requests' * PageLength
      BY <2>2, <3>1
    <3>3. DOMAIN rows' = {} /\ 1..requests' = {} /\ 1..Len(rows') = {} /\ requests' < Len(FIELD_TYPES)
      BY <2>2, TypeFacts
    <3> QED BY <2>2, <3>2, <3>3 DEF FunctionsInv, FieldsInv, PagesInv
  <2>7. ReadInv'
    <3>1. reading \in 1..11 /\ SectionsRead = 1..(reading - 1) /\ SectionsRead' = SectionsRead \cup {reading}
      <4>1. Len(Order) = 11 /\ reading \in 1..11
        BY OrderFacts DEF LoadInv, LoadTypeOK
      <4>2. SectionsRead = 1..(reading - 1)
        BY DEF SectionsRead
      <4>3. CASE reading = Len(Order) /\ outcome' = "loaded" /\ reading' = reading
        <5>1. SectionsRead' = 1..reading
          BY <4>1, <4>3 DEF SectionsRead
        <5> QED BY <4>1, <4>2, <5>1
      <4>4. CASE reading # Len(Order) /\ reading' = reading + 1 /\ outcome' = outcome
        <5>1. SectionsRead' = 1..reading
          BY <4>1, <4>4 DEF SectionsRead
        <5> QED BY <4>1, <4>2, <5>1
      <4> QED BY <2>3, <4>3, <4>4
    <3>2. \A k \in SectionsRead : Order[k] # section /\ Order[k] \in DOMAIN content
      BY <3>1, OrderFacts DEF LoadInv, ReadInv
    <3>3. \A k \in SectionsRead : Order[k] \in DOMAIN content' /\ content'[Order[k]] = content[Order[k]]
      BY <2>1, <3>2
    <3>4. Order[reading] \in DOMAIN content' /\ content'[Order[reading]] = specs
      BY <2>1
    <3>5. ASSUME ~removed, NEW id \in throughout[section]
          PROVE  Has(specs, id) /\ (OneName(section, id) => HasOnce(specs, id))
      BY <3>5, KeptOnce
    <3>6. ~removed => \A k \in SectionsRead : \A id \in throughout[Order[k]] :
             /\ Has(content[Order[k]], id)
             /\ OneName(Order[k], id) => HasOnce(content[Order[k]], id)
      BY DEF LoadInv, ReadInv
    <3> QED BY <2>2, <3>1, <3>3, <3>4, <3>5, <3>6 DEF ReadInv, OneName
  <2> QED BY <2>4, <2>5, <2>6, <2>7 DEF LoadInv
<1> QED BY <1>1, <1>2

(* An answer that is not the last of its section.                                 *)
LEMMA GoesOn ==
  ASSUME LoadInv, outcome = "loading", NEW newRows \in Seq(Row), NEW newListed \in Seq(Ids), Goes(newRows, newListed)
  PROVE  /\ LoadTypeOK' /\ SoarInv' /\ ReadInv' /\ StartInv'
         /\ rows' = newRows /\ listed' = newListed /\ requests' = requests + 1
         /\ UNCHANGED <<soar, reading, outcome, throughout, renamed, removed>>
<1>1. /\ rows' = newRows /\ listed' = newListed /\ requests' = requests + 1
      /\ UNCHANGED <<soar, reading, content, outcome, throughout, renamed, removed, edits>>
  BY DEF Goes, history
<1>2. LoadTypeOK' /\ SoarInv'
  BY <1>1 DEF LoadInv, LoadTypeOK, SoarInv
<1>3. ReadInv'
  BY <1>1 DEF LoadInv, ReadInv, SectionsRead, OneName
<1>4. StartInv'
  BY <1>1 DEF LoadInv, LoadTypeOK, StartInv
<1> QED BY <1>1, <1>2, <1>3, <1>4

(* Rows that SOAR has all at one time, or some of them: one object, one row.        *)
LEMMA OfOneSection ==
  ASSUME LoadInv, NEW s \in Sections, NEW a \in ToSet(soar[s]), NEW b \in ToSet(soar[s]), a.id = b.id
  PROVE  a = b
<1>1. PICK k \in DOMAIN soar[s], l \in DOMAIN soar[s] : a = soar[s][k] /\ b = soar[s][l]
  BY DEF ToSet
<1> QED BY <1>1 DEF LoadInv, SoarInv

LEMMA ListFunctionsKeeps == ASSUME LoadInv, ListFunctions PROVE LoadInv'
<1> DEFINE all == soar["functions"]
           ids == [i \in DOMAIN all |-> all[i].id]
<1>1. CASE Fails
  BY <1>1, FailsKeeps
<1>2. CASE Goes(<<>>, ids)
  <2>1. outcome = "loading" /\ At("functions")
    BY DEF ListFunctions, At
  <2>2. all \in Seq(Row) /\ \A i \in DOMAIN all : all[i] \in Row
    <3>1. all \in Seq(Row)
      BY OrderFacts DEF LoadInv, LoadTypeOK
    <3> QED BY <3>1
  <2>3. ids \in Seq(Ids) /\ DOMAIN ids = DOMAIN all /\ <<>> \in Seq(Row)
    BY <2>2 DEF Row
  <2>4. \A i, j \in DOMAIN ids : ids[i] = ids[j] => i = j
    BY OrderFacts DEF LoadInv, SoarInv
  <2>5. throughout["functions"] \subseteq ToSet(ids)
    BY OrderFacts DEF LoadInv, SoarInv, IdsOf, ToSet
  <2> HIDE DEF ids
  <2>6. /\ LoadTypeOK' /\ SoarInv' /\ ReadInv' /\ StartInv'
        /\ rows' = <<>> /\ listed' = ids
        /\ UNCHANGED <<soar, reading, outcome, throughout, renamed, removed>>
    BY <1>2, <2>1, <2>3, GoesOn
  <2>7. FunctionsInv'
    BY <2>4, <2>5, <2>6 DEF FunctionsInv, IdsOf
  <2>8. FieldsInv' /\ PagesInv'
    BY <2>1, <2>6 DEF At, FieldsInv, PagesInv
  <2> QED BY <2>6, <2>7, <2>8 DEF LoadInv
<1> QED BY <1>1, <1>2 DEF ListFunctions

LEMMA ReadInputsKeeps == ASSUME LoadInv, ReadInputs PROVE LoadInv'
<1>1. outcome = "loading" /\ At("functions") /\ requests = 1 /\ Goes(<<>>, listed)
  BY DEF ReadInputs, At
<1>2. listed \in Seq(Ids) /\ <<>> \in Seq(Row)
  BY DEF LoadInv, LoadTypeOK
<1>3. /\ LoadTypeOK' /\ SoarInv' /\ ReadInv' /\ StartInv'
      /\ rows' = <<>> /\ listed' = listed
      /\ UNCHANGED <<soar, reading, outcome, throughout, renamed, removed>>
  BY <1>1, <1>2, GoesOn
<1>4. FunctionsInv
  BY DEF LoadInv
<1>6. FunctionsInv'
  BY <1>1, <1>3, <1>4 DEF FunctionsInv
<1>7. FieldsInv' /\ PagesInv'
  BY <1>1, <1>3 DEF At, FieldsInv, PagesInv
<1> QED BY <1>3, <1>6, <1>7 DEF LoadInv

LEMMA ReadFunctionKeeps == ASSUME LoadInv, ReadFunction PROVE LoadInv'
<1>1. CASE Fails
  BY <1>1, FailsKeeps
<1>2. ASSUME NEW i \in DOMAIN soar["functions"], soar["functions"][i].id = Head(listed),
             Goes(Append(rows, soar["functions"][i]), Tail(listed))
      PROVE  LoadInv'
  <2> DEFINE row == soar["functions"][i]
  <2>1. outcome = "loading" /\ At("functions") /\ listed # <<>> /\ requests > 0
    <3>1. requests \in Nat
      BY DEF LoadInv, LoadTypeOK
    <3> QED BY <3>1 DEF ReadFunction, At
  <2>2. listed \in Seq(Ids) /\ rows \in Seq(Row) /\ row \in Row
    <3>1. soar["functions"] \in Seq(Row)
      BY OrderFacts DEF LoadInv, LoadTypeOK
    <3> QED BY <3>1 DEF LoadInv, LoadTypeOK
  <2>3. /\ LoadTypeOK' /\ SoarInv' /\ ReadInv' /\ StartInv'
        /\ rows' = Append(rows, row) /\ listed' = Tail(listed)
        /\ UNCHANGED <<soar, reading, outcome, throughout, renamed, removed>>
    <3>1. Append(rows, row) \in Seq(Row) /\ Tail(listed) \in Seq(Ids)
      BY <2>1, <2>2
    <3> QED BY <1>2, <2>1, <3>1, GoesOn
  <2>4. /\ Len(rows') = Len(rows) + 1 /\ \A j \in 1..Len(rows) : rows'[j] = rows[j]
        /\ rows'[Len(rows) + 1].id = listed[1]
        /\ DOMAIN rows = 1..Len(rows) /\ DOMAIN rows' = 1..(Len(rows) + 1)
    BY <1>2, <2>1, <2>2, <2>3
  <2>5. /\ Len(listed) >= 1 /\ DOMAIN listed = 1..Len(listed) /\ DOMAIN listed' = 1..(Len(listed) - 1)
        /\ \A j \in 1..(Len(listed) - 1) : listed'[j] = listed[j + 1]
    BY <2>1, <2>2, <2>3
  <2>6. FunctionsInv
    BY DEF LoadInv
  <2>7. throughout'["functions"] \subseteq IdsOf(rows') \cup ToSet(listed')
    <3> SUFFICES ASSUME NEW id \in throughout["functions"] PROVE id \in IdsOf(rows') \cup ToSet(listed')
      BY <2>3
    <3>1. CASE \E j \in DOMAIN rows : rows[j].id = id
      BY <3>1, <2>4 DEF IdsOf
    <3>2. CASE \E j \in DOMAIN listed : listed[j] = id
      <4>1. PICK j \in 1..Len(listed) : listed[j] = id
        BY <2>5, <3>2
      <4>2. CASE j = 1
        BY <2>4, <4>1, <4>2 DEF IdsOf
      <4>3. CASE j # 1
        <5>1. j - 1 \in 1..(Len(listed) - 1) /\ listed'[j - 1] = id
          BY <2>2, <2>5, <4>1, <4>3
        <5> QED BY <2>5, <5>1 DEF ToSet
      <4> QED BY <4>2, <4>3
    <3> QED BY <2>1, <2>6, <3>1, <3>2 DEF FunctionsInv, IdsOf, ToSet
  <2>8. \A j, k \in DOMAIN rows' : rows'[j].id = rows'[k].id => j = k
    BY <2>1, <2>4, <2>5, <2>6 DEF FunctionsInv
  <2>9. \A j, k \in DOMAIN listed' : listed'[j] = listed'[k] => j = k
    <3> SUFFICES ASSUME NEW j \in 1..(Len(listed) - 1), NEW k \in 1..(Len(listed) - 1), listed[j + 1] = listed[k + 1]
                 PROVE  j = k
      BY <2>5
    <3>1. j + 1 \in DOMAIN listed /\ k + 1 \in DOMAIN listed
      BY <2>2, <2>5
    <3>2. j + 1 = k + 1
      BY <2>1, <2>6, <3>1 DEF FunctionsInv
    <3> QED BY <3>2
  <2>10. \A j \in DOMAIN rows', k \in DOMAIN listed' : rows'[j].id # listed'[k]
    <3> SUFFICES ASSUME NEW j \in 1..(Len(rows) + 1), NEW k \in 1..(Len(listed) - 1)
                 PROVE  rows'[j].id # listed[k + 1]
      BY <2>4, <2>5
    <3>1. k + 1 \in DOMAIN listed /\ 1 \in DOMAIN listed /\ k + 1 # 1
      BY <2>2, <2>5
    <3>2. CASE j \in 1..Len(rows)
      BY <2>1, <2>4, <2>6, <3>1, <3>2 DEF FunctionsInv
    <3>3. CASE j = Len(rows) + 1
      BY <2>1, <2>4, <2>6, <3>1, <3>3 DEF FunctionsInv
    <3> QED BY <2>2, <3>2, <3>3
  <2>11. FunctionsInv'
    <3>1. requests' # 1
      BY <1>2 DEF ReadFunction, Goes, LoadInv, LoadTypeOK
    <3> QED BY <2>7, <2>8, <2>9, <2>10, <3>1 DEF FunctionsInv
  <2>12. FieldsInv' /\ PagesInv'
    BY <2>1, <2>3 DEF At, FieldsInv, PagesInv
  <2> QED BY <2>3, <2>11, <2>12 DEF LoadInv
<1> QED BY <1>1, <1>2 DEF ReadFunction

LEMMA FunctionsReadKeeps == ASSUME LoadInv, FunctionsRead PROVE LoadInv'
<1>1. outcome = "loading" /\ At("functions") /\ Order[reading] = "functions" /\ requests > 0 /\ listed = <<>> /\ Loaded(rows)
  <2>1. requests \in Nat
    BY DEF LoadInv, LoadTypeOK
  <2> QED BY <2>1 DEF FunctionsRead, At
<1>2. rows \in Seq(Row)
  BY DEF LoadInv, LoadTypeOK
<1>3. /\ \A i, j \in DOMAIN rows : rows[i].id = rows[j].id => rows[i].name = rows[j].name
      /\ throughout[Order[reading]] \subseteq IdsOf(rows)
  <2>1. ToSet(listed) = {}
    BY <1>1 DEF ToSet
  <2> QED BY <1>1, <2>1 DEF LoadInv, FunctionsInv
<1> QED BY <1>1, <1>2, <1>3, LoadedKeeps

(* The answer about one type of field has the fields of that type.                 *)
LEMMA TypeAnswer ==
  ASSUME LoadInv, NEW type, NEW told \in InOrder({row \in ToSet(soar["fields"]) : row.type = type})
  PROVE  told \in Seq(Row) /\ ToSet(told) = {row \in ToSet(soar["fields"]) : row.type = type}
<1> DEFINE all == soar["fields"]
           these == {row \in ToSet(all) : row.type = type}
<1>1. all \in Seq(Row)
  BY OrderFacts DEF LoadInv, LoadTypeOK
<1>2. IsFiniteSet(DOMAIN all) /\ \A i \in DOMAIN all : all[i] \in Row
  <2>1. DOMAIN all = 1..Len(all) /\ Len(all) \in Int /\ 1 \in Int
    BY <1>1
  <2>2. IsFiniteSet(1..Len(all))
    BY <2>1, FS_Interval
  <2> QED BY <1>1, <2>1, <2>2
<1>3. ToSet(all) = {all[i] : i \in DOMAIN all}
  BY DEF ToSet
<1>4. IsFiniteSet(ToSet(all))
  <2>1. all \in Surjection(DOMAIN all, ToSet(all))
    BY <1>1, <1>3 DEF Surjection
  <2> QED BY <1>2, <2>1, FS_Surjection
<1>5. these \subseteq Row /\ these \subseteq ToSet(all)
  BY <1>2, <1>3
<1>6. Cardinality(these) \in Nat
  BY <1>4, <1>5, FS_Subset, FS_CardinalityType
<1>7. told \in [1..Cardinality(these) -> these] /\ ToSet(told) = these
  BY DEF InOrder
<1> HIDE DEF these
<1>8. told \in Seq(Row)
  BY <1>5, <1>6, <1>7
<1> QED BY <1>7, <1>8 DEF these

LEMMA ElementsOfBoth ==
  ASSUME NEW S, NEW a \in Seq(S), NEW b \in Seq(S)
  PROVE  ToSet(a \o b) = ToSet(a) \cup ToSet(b)
<1>1. /\ a \o b \in Seq(S) /\ Len(a \o b) = Len(a) + Len(b)
      /\ \A j \in 1..(Len(a) + Len(b)) : (a \o b)[j] = IF j <= Len(a) THEN a[j] ELSE b[j - Len(a)]
  BY Joined
<1>2. DOMAIN a = 1..Len(a) /\ DOMAIN b = 1..Len(b) /\ DOMAIN (a \o b) = 1..(Len(a) + Len(b))
  BY <1>1
<1>3. \A j \in 1..Len(b) : Len(a) + j \in 1..(Len(a) + Len(b)) /\ (a \o b)[Len(a) + j] = b[j]
  BY <1>1
<1>4. \A j \in 1..(Len(a) + Len(b)) : j > Len(a) => j - Len(a) \in 1..Len(b)
  OBVIOUS
<1>5. \A j \in 1..Len(a) : j \in 1..(Len(a) + Len(b)) /\ (a \o b)[j] = a[j]
  BY <1>1
<1>6. ToSet(a) \cup ToSet(b) \subseteq ToSet(a \o b)
  BY <1>2, <1>3, <1>5 DEF ToSet
<1>7. ToSet(a \o b) \subseteq ToSet(a) \cup ToSet(b)
  BY <1>1, <1>2, <1>4 DEF ToSet
<1> QED BY <1>6, <1>7

LEMMA ReadFieldsKeeps == ASSUME LoadInv, ReadFields PROVE LoadInv'
<1> DEFINE type == FIELD_TYPES[requests + 1]
           these == {row \in ToSet(soar["fields"]) : row.type = type}
<1>1. outcome = "loading" /\ At("fields") /\ Order[reading] = "fields"
  BY DEF ReadFields, At
<1>2. PICK told \in InOrder(these) :
        IF requests + 1 < Len(FIELD_TYPES) THEN Goes(rows \o told, <<>>) ELSE Loaded(rows \o told)
  BY DEF ReadFields
<1>3. told \in Seq(Row) /\ ToSet(told) = these
  BY <1>2, TypeAnswer
<1>4. rows \in Seq(Row) /\ requests \in Nat /\ soar["fields"] \in Seq(Row)
  BY OrderFacts DEF LoadInv, LoadTypeOK
<1> DEFINE read == rows \o told
<1>5. read \in Seq(Row) /\ ToSet(read) = ToSet(rows) \cup these
  BY <1>3, <1>4, ElementsOfBoth
<1>6. requests < 3
  BY <1>1, TypeFacts DEF LoadInv, FieldsInv
<1> DEFINE all == soar["fields"]
           StillThere(told_) == \A i \in DOMAIN told_ :
             /\ \E j \in DOMAIN all : all[j].id = told_[i].id /\ all[j].type = told_[i].type
             /\ \E k \in 1..(requests + 1) : told_[i].type = FIELD_TYPES[k]
           NamedOnce(told_) == \A i, j \in DOMAIN told_ : told_[i].id = told_[j].id => told_[i].name = told_[j].name
           Complete(told_) == \A i \in DOMAIN all : \A k \in 1..(requests + 1) :
             all[i].id \in throughout["fields"] /\ all[i].type = FIELD_TYPES[k] => all[i].id \in IdsOf(told_)
<1>7. ASSUME ~removed
      PROVE  StillThere(read) /\ NamedOnce(read) /\ Complete(read)
  <2>1. /\ \A i \in DOMAIN rows :
             /\ \E j \in DOMAIN all : all[j].id = rows[i].id /\ all[j].type = rows[i].type
             /\ \E k \in 1..requests : rows[i].type = FIELD_TYPES[k]
        /\ NamedOnce(rows)
        /\ \A i \in DOMAIN all : \A k \in 1..requests :
             all[i].id \in throughout["fields"] /\ all[i].type = FIELD_TYPES[k] => all[i].id \in IdsOf(rows)
    BY <1>1, <1>7 DEF LoadInv, FieldsInv
  <2>2. /\ \A k \in 1..(requests + 1) : k \in 1..requests \/ k = requests + 1
        /\ \A k \in 1..requests : k \in 1..(requests + 1) /\ k # requests + 1
        /\ requests + 1 \in 1..(requests + 1)
    BY <1>4
  <2>3. \A r \in ToSet(read) :
          \/ \E i \in DOMAIN rows : r = rows[i]
          \/ r \in ToSet(all) /\ r.type = FIELD_TYPES[requests + 1]
    BY <1>5 DEF ToSet
  <2>4. \A i \in DOMAIN read : read[i] \in ToSet(read)
    BY DEF ToSet
  <2>5. \A r \in ToSet(all) : \E j \in DOMAIN all : all[j] = r
    BY DEF ToSet
  <2>6. \A i \in DOMAIN all : all[i].type = FIELD_TYPES[requests + 1] => all[i] \in ToSet(read)
    BY <1>5 DEF ToSet
  <2>7. IdsOf(read) = {r.id : r \in ToSet(read)} /\ IdsOf(rows) = {r.id : r \in ToSet(rows)}
    BY DEF IdsOf, ToSet
  <2> HIDE DEF read, these
  <2>8. StillThere(read)
    <3> SUFFICES ASSUME NEW i \in DOMAIN read
                 PROVE  /\ \E j \in DOMAIN all : all[j].id = read[i].id /\ all[j].type = read[i].type
                        /\ \E k \in 1..(requests + 1) : read[i].type = FIELD_TYPES[k]
      OBVIOUS
    <3>1. CASE \E h \in DOMAIN rows : read[i] = rows[h]
      BY <2>1, <2>2, <3>1
    <3>2. CASE read[i] \in ToSet(all) /\ read[i].type = FIELD_TYPES[requests + 1]
      BY <2>2, <2>5, <3>2
    <3> QED BY <2>3, <2>4, <3>1, <3>2
  <2>9. NamedOnce(read)
    <3>1. ASSUME NEW h \in DOMAIN rows, NEW r \in ToSet(all), r.type = FIELD_TYPES[requests + 1], r.id = rows[h].id
          PROVE  FALSE
      <4>1. PICK j \in DOMAIN all : all[j].id = rows[h].id /\ all[j].type = rows[h].type
        BY <2>1
      <4>2. PICK k \in 1..requests : rows[h].type = FIELD_TYPES[k]
        BY <2>1
      <4>3. all[j] \in ToSet(all)
        BY DEF ToSet
      <4>4. all[j] = r
        BY <3>1, <4>1, <4>3, OrderFacts, OfOneSection
      <4>5. FIELD_TYPES[k] = FIELD_TYPES[requests + 1] /\ k \in 1..3 /\ requests + 1 \in 1..3 /\ k # requests + 1
        BY <1>4, <1>6, <2>2, <3>1, <4>1, <4>2, <4>4
      <4> QED BY <4>5, TypeFacts
    <3>2. ASSUME NEW i \in DOMAIN read, NEW j \in DOMAIN read, read[i].id = read[j].id
          PROVE  read[i].name = read[j].name
      <4>1. CASE \E h \in DOMAIN rows : read[i] = rows[h]
        <5>1. PICK h \in DOMAIN rows : read[i] = rows[h]
          BY <4>1
        <5>2. CASE \E g \in DOMAIN rows : read[j] = rows[g]
          BY <2>1, <3>2, <5>1, <5>2
        <5>3. CASE read[j] \in ToSet(all) /\ read[j].type = FIELD_TYPES[requests + 1]
          BY <3>1, <3>2, <5>1, <5>3
        <5> QED BY <2>3, <2>4, <5>2, <5>3
      <4>2. CASE read[i] \in ToSet(all) /\ read[i].type = FIELD_TYPES[requests + 1]
        <5>1. CASE \E g \in DOMAIN rows : read[j] = rows[g]
          BY <3>1, <3>2, <4>2, <5>1
        <5>2. CASE read[j] \in ToSet(all) /\ read[j].type = FIELD_TYPES[requests + 1]
          <6>1. read[i] = read[j]
            BY <3>2, <4>2, <5>2, OrderFacts, OfOneSection
          <6> QED BY <6>1
        <5> QED BY <2>3, <2>4, <5>1, <5>2
      <4> QED BY <2>3, <2>4, <4>1, <4>2
    <3> QED BY <3>2
  <2>10. Complete(read)
    <3> SUFFICES ASSUME NEW i \in DOMAIN all, NEW k \in 1..(requests + 1),
                        all[i].id \in throughout["fields"], all[i].type = FIELD_TYPES[k]
                 PROVE  all[i].id \in IdsOf(read)
      OBVIOUS
    <3>1. CASE k \in 1..requests
      <4>1. all[i].id \in IdsOf(rows)
        BY <2>1, <3>1
      <4> QED BY <1>5, <2>7, <4>1
    <3>2. CASE k = requests + 1
      BY <2>6, <2>7, <3>2
    <3> QED BY <2>2, <3>1, <3>2
  <2> QED BY <2>8, <2>9, <2>10
<1> HIDE DEF read, these
<1>8. CASE requests + 1 < 3
  <2>1. Goes(read, <<>>) /\ <<>> \in Seq(Ids)
    BY <1>2, <1>8, TypeFacts DEF read
  <2>2. /\ LoadTypeOK' /\ SoarInv' /\ ReadInv' /\ StartInv'
        /\ rows' = read /\ requests' = requests + 1
        /\ UNCHANGED <<soar, reading, outcome, throughout, renamed, removed>>
    BY <1>1, <1>5, <2>1, GoesOn
  <2>3. FieldsInv'
    <3>1. requests' < Len(FIELD_TYPES)
      BY <1>8, <2>2, TypeFacts
    <3>2. removed' = removed /\ soar'["fields"] = all /\ throughout' = throughout
      BY <2>2
    <3> QED BY <1>7, <2>2, <3>1, <3>2 DEF FieldsInv
  <2>4. FunctionsInv' /\ PagesInv'
    BY <1>1, <2>2 DEF At, FunctionsInv, PagesInv
  <2> QED BY <2>2, <2>3, <2>4 DEF LoadInv
<1>9. CASE ~(requests + 1 < 3)
  <2>1. Loaded(read)
    BY <1>2, <1>9, TypeFacts DEF read
  <2>2. requests + 1 = 3
    BY <1>4, <1>6, <1>9
  <2>3. ASSUME ~removed PROVE throughout["fields"] \subseteq IdsOf(read)
    <3> SUFFICES ASSUME NEW id \in throughout["fields"] PROVE id \in IdsOf(read)
      OBVIOUS
    <3>1. PICK i \in DOMAIN soar["fields"] : soar["fields"][i].id = id
      BY OrderFacts DEF LoadInv, SoarInv, IdsOf
    <3>2. PICK k \in 1..3 : FIELD_TYPES[k] = soar["fields"][i].type
      BY TypeFacts DEF LoadInv, SoarInv
    <3>3. soar["fields"][i].id \in IdsOf(read)
      BY <1>7, <2>2, <2>3, <3>1, <3>2
    <3> QED BY <3>1, <3>3
  <2>4. ~removed => \A i, j \in DOMAIN read : read[i].id = read[j].id => read[i].name = read[j].name
    BY <1>7
  <2> QED BY <1>1, <1>5, <2>1, <2>3, <2>4, LoadedKeeps
<1> QED BY <1>8, <1>9

LEMMA ReadPageKeeps == ASSUME LoadInv, ReadPage PROVE LoadInv'
<1> DEFINE all   == soar["playbooks"]
           total == Len(all)
           start == requests * PageLength
           end   == IF start + PageLength < total THEN start + PageLength ELSE total
           items == SubSeq(all, start + 1, end)
           read  == rows \o items
<1>1. outcome = "loading" /\ At("playbooks") /\ Order[reading] = "playbooks"
  BY DEF ReadPage, At
<1>2. /\ rows \in Seq(Row) /\ all \in Seq(Row) /\ total \in Nat /\ Len(rows) = start
      /\ PageLength \in Nat /\ PageLength > 0 /\ requests \in Nat
  <2>1. rows \in Seq(Row) /\ all \in Seq(Row) /\ requests \in Nat
    BY OrderFacts DEF LoadInv, LoadTypeOK
  <2> QED BY <1>1, <2>1, LoadAssumption DEF LoadInv, PagesInv
<1>3. start \in Nat /\ (requests + 1) * PageLength = start + PageLength
  BY <1>2
<1> HIDE DEF start
<1>4. end \in Nat /\ end <= total /\ end <= start + PageLength /\ (end = total \/ end = start + PageLength)
  BY <1>2, <1>3
<1> HIDE DEF end
<1>5. /\ items \in Seq(Row) /\ Len(items) = IF start < end THEN end - start ELSE 0
      /\ \A j \in 1..Len(items) : items[j] = all[start + j] /\ start + j \in 1..total
  <2>1. items \in Seq(Row) /\ Len(items) = IF start < end THEN end - start ELSE 0
    BY <1>2, <1>3, <1>4
  <2>2. \A j \in 1..Len(items) : items[j] = all[start + j]
    BY <1>2, <1>3, <1>4, <2>1
  <2>3. \A j \in 1..Len(items) : start + j \in 1..total
    BY <1>2, <1>3, <1>4, <2>1
  <2> QED BY <2>1, <2>2, <2>3
<1>6. \A i \in 1..total : i > start /\ i <= end => all[i] \in ToSet(items)
  <2> SUFFICES ASSUME NEW i \in 1..total, i > start, i <= end PROVE all[i] \in ToSet(items)
    OBVIOUS
  <2>1. i - start \in 1..Len(items) /\ start + (i - start) = i
    BY <1>2, <1>3, <1>4, <1>5
  <2>2. DOMAIN items = 1..Len(items) /\ items[i - start] = all[i]
    BY <1>5, <2>1
  <2> QED BY <2>1, <2>2 DEF ToSet
<1>7. ToSet(items) \subseteq ToSet(all)
  <2>1. DOMAIN items = 1..Len(items) /\ DOMAIN all = 1..total
    BY <1>2, <1>5
  <2> QED BY <1>5, <2>1 DEF ToSet
<1> HIDE DEF items
<1>8. read \in Seq(Row) /\ Len(read) = start + Len(items) /\ ToSet(read) = ToSet(rows) \cup ToSet(items)
  <2>1. ToSet(read) = ToSet(rows) \cup ToSet(items)
    BY <1>2, <1>5, ElementsOfBoth
  <2>2. rows \o items \in Seq(Row) /\ Len(rows \o items) = Len(rows) + Len(items)
    BY <1>2, <1>5, Joined
  <2> QED BY <1>2, <2>1, <2>2
<1> HIDE DEF read
<1>8b. Len(items) \in Nat /\ (items = <<>> <=> Len(items) = 0)
  BY <1>5
<1>8c. \A r \in ToSet(read) : (\E h \in DOMAIN rows : r = rows[h]) \/ r \in ToSet(all)
  BY <1>7, <1>8 DEF ToSet
<1>8d. IdsOf(read) = {r.id : r \in ToSet(read)} /\ IdsOf(rows) = {r.id : r \in ToSet(rows)}
  BY DEF IdsOf, ToSet
<1>9. ASSUME ~removed
      PROVE  /\ \A i \in DOMAIN read : read[i].id \notin renamed["playbooks"] => read[i] \in ToSet(all)
             /\ \A i \in 1..total : i <= end /\ all[i].id \in throughout["playbooks"] => all[i].id \in IdsOf(read)
  <2>1. /\ \A i \in DOMAIN rows : rows[i].id \notin renamed["playbooks"] => rows[i] \in ToSet(all)
        /\ \A i \in 1..Len(rows) :
             i \in DOMAIN all /\ all[i].id \in throughout["playbooks"] => all[i].id \in IdsOf(rows)
    BY <1>1, <1>9 DEF LoadInv, PagesInv
  <2>2. \A i \in 1..total : i \in DOMAIN all /\ (i \in 1..start \/ i > start)
    BY <1>2, <1>3
  <2>3. \A i \in DOMAIN read : read[i] \in ToSet(read)
    BY DEF ToSet
  <2>4. \A i \in DOMAIN read : read[i].id \notin renamed["playbooks"] => read[i] \in ToSet(all)
    BY <1>8c, <2>1, <2>3
  <2>5. ASSUME NEW i \in 1..total, i <= end, all[i].id \in throughout["playbooks"]
        PROVE  all[i].id \in IdsOf(read)
    <3>1. CASE i \in 1..start
      <4>1. all[i].id \in IdsOf(rows)
        BY <1>2, <2>1, <2>2, <2>5, <3>1
      <4> QED BY <1>8, <1>8d, <4>1
    <3>2. CASE i > start
      <4>1. all[i] \in ToSet(read)
        BY <1>6, <1>8, <2>5, <3>2
      <4> QED BY <1>8d, <4>1
    <3> QED BY <2>2, <3>1, <3>2
  <2> QED BY <2>4, <2>5
<1>10. CASE Fails
  BY <1>10, FailsKeeps
<1>11. CASE (items = <<>> \/ Len(read) >= total) /\ Loaded(read)
  <2>1. end = total
    BY <1>2, <1>3, <1>4, <1>5, <1>8, <1>11, <1>8b
  <2>2. ASSUME ~removed PROVE throughout["playbooks"] \subseteq IdsOf(read)
    <3> SUFFICES ASSUME NEW id \in throughout["playbooks"] PROVE id \in IdsOf(read)
      OBVIOUS
    <3>1. DOMAIN all = 1..total /\ id \in IdsOf(all)
      BY <1>2, OrderFacts DEF LoadInv, SoarInv
    <3>2. PICK i \in 1..total : all[i].id = id
      BY <3>1 DEF IdsOf
    <3>3. \A k \in 1..total : k <= end
      BY <1>2, <2>1
    <3>4. all[i].id \in IdsOf(read)
      BY <1>9, <2>2, <3>2, <3>3
    <3> QED BY <3>2, <3>4
  <2>3. ASSUME ~removed, NEW i \in DOMAIN read, NEW j \in DOMAIN read,
               read[i].id = read[j].id, OneName(Order[reading], read[i].id)
        PROVE  read[i].name = read[j].name
    <3>1. read[i].id \notin renamed["playbooks"]
      BY <1>1, <2>3 DEF OneName
    <3>2. read[i] \in ToSet(all) /\ read[j] \in ToSet(all)
      BY <1>9, <2>3, <3>1
    <3>3. read[i] = read[j]
      BY <2>3, <3>2, OrderFacts, OfOneSection
    <3> QED BY <3>3
  <2> QED BY <1>1, <1>8, <1>11, <2>2, <2>3, LoadedKeeps
<1>12. CASE ~(items = <<>> \/ Len(read) >= total) /\ Goes(read, <<>>)
  <2>1. end = start + PageLength /\ Len(items) = PageLength
    BY <1>2, <1>3, <1>4, <1>5, <1>8, <1>12, <1>8b
  <2>2. /\ LoadTypeOK' /\ SoarInv' /\ ReadInv' /\ StartInv'
        /\ rows' = read /\ requests' = requests + 1
        /\ UNCHANGED <<soar, reading, outcome, throughout, renamed, removed>>
    <3>1. <<>> \in Seq(Ids)
      OBVIOUS
    <3> QED BY <1>1, <1>8, <1>12, <3>1, GoesOn
  <2>3. Len(rows') = requests' * PageLength
    BY <1>3, <1>8, <2>1, <2>2
  <2>4. 1..Len(rows') \cap DOMAIN all \subseteq 1..total /\ \A i \in 1..Len(rows') : i <= end
    BY <1>2, <1>3, <1>8, <2>1, <2>2
  <2>5. PagesInv'
    BY <1>9, <2>2, <2>3, <2>4 DEF PagesInv
  <2>6. FunctionsInv' /\ FieldsInv'
    BY <1>1, <2>2 DEF At, FunctionsInv, FieldsInv
  <2> QED BY <2>2, <2>5, <2>6 DEF LoadInv
<1> QED
  <2>1. IF items = <<>> \/ Len(read) >= total
        THEN IF Len(read) # total THEN Fails ELSE Loaded(read)
        ELSE IF requests + 1 = MaxPages THEN Fails ELSE Goes(read, <<>>)
    BY DEF ReadPage, read, items, end, start
  <2> QED BY <1>10, <1>11, <1>12, <2>1

(* A section in one answer.                                                      *)
LEMMA AnswerKeeps ==
  ASSUME LoadInv, outcome = "loading", Loaded(soar[Order[reading]])
  PROVE  LoadInv'
<1> DEFINE s == Order[reading]
<1>1. s \in Sections /\ soar[s] \in Seq(Row)
  BY OrderFacts DEF LoadInv, LoadTypeOK
<1>2. \A i, j \in DOMAIN soar[s] : soar[s][i].id = soar[s][j].id => soar[s][i].name = soar[s][j].name
  BY <1>1 DEF LoadInv, SoarInv
<1>3. throughout[s] \subseteq IdsOf(soar[s])
  BY <1>1 DEF LoadInv, SoarInv
<1> QED BY <1>1, <1>2, <1>3, LoadedKeeps

(* What people do to one section leaves the others alone.                          *)
LEMMA EditLeaves ==
  ASSUME LoadInv, NEW s \in Sections, NEW new \in Seq(Row), Edited(s, new),
         throughout' \in [Sections -> SUBSET Ids],
         \A t \in Sections \ {s} : throughout'[t] = throughout[t],
         throughout'[s] \subseteq throughout[s], throughout'[s] \subseteq IdsOf(new),
         renamed' \in [Sections -> SUBSET Ids], \A t \in Sections : renamed[t] \subseteq renamed'[t],
         removed' \in BOOLEAN, ~removed' => ~removed,
         \A i, j \in DOMAIN new : new[i].id = new[j].id => i = j,
         s = "fields" => \A i \in DOMAIN new : new[i].type \in ToSet(FIELD_TYPES)
  PROVE  /\ LoadTypeOK' /\ SoarInv' /\ ReadInv' /\ StartInv' /\ FunctionsInv'
         /\ soar'[s] = new /\ \A t \in Sections \ {s} : soar'[t] = soar[t]
         /\ UNCHANGED <<reading, requests, listed, rows, content, outcome>>
<1>1. /\ soar' = [soar EXCEPT ![s] = new] /\ edits' = edits + 1
      /\ UNCHANGED <<reading, requests, listed, rows, content, outcome>>
  BY DEF Edited, progress
<1>2. /\ soar' \in [Sections -> Seq(Row)] /\ soar'[s] = new
      /\ \A t \in Sections \ {s} : soar'[t] = soar[t]
  BY <1>1 DEF LoadInv, LoadTypeOK
<1>3. LoadTypeOK'
  BY <1>1, <1>2 DEF LoadInv, LoadTypeOK
<1>4. SoarInv'
  <2>1. \A t \in Sections : t = s \/ t \in Sections \ {s}
    OBVIOUS
  <2>2. \A t \in Sections : \A i, j \in DOMAIN soar'[t] : soar'[t][i].id = soar'[t][j].id => i = j
    BY <1>2, <2>1 DEF LoadInv, SoarInv
  <2>3. \A t \in Sections : throughout'[t] \subseteq IdsOf(soar'[t])
    BY <1>2, <2>1 DEF LoadInv, SoarInv
  <2>4. \A i \in DOMAIN soar'["fields"] : soar'["fields"][i].type \in ToSet(FIELD_TYPES)
    BY <1>2, <2>1, OrderFacts DEF LoadInv, SoarInv
  <2> QED BY <2>2, <2>3, <2>4 DEF SoarInv
<1>5. \A t \in Sections : throughout'[t] \subseteq throughout[t]
  OBVIOUS
<1>6. ReadInv'
  <2>1. SectionsRead' = SectionsRead
    BY <1>1 DEF SectionsRead
  <2>2. SectionsRead \subseteq 1..11
    <3>1. Len(Order) = 11 /\ reading \in 1..11
      BY OrderFacts DEF LoadInv, LoadTypeOK
    <3> QED BY <3>1 DEF SectionsRead
  <2>3. \A k \in SectionsRead : throughout'[Order[k]] \subseteq throughout[Order[k]]
    BY <1>5, <2>2, OrderFacts
  <2>4. \A k \in SectionsRead : renamed[Order[k]] \subseteq renamed'[Order[k]]
    BY <2>2, OrderFacts
  <2> QED BY <1>1, <2>1, <2>3, <2>4 DEF LoadInv, ReadInv, OneName
<1>7. StartInv'
  BY <1>1 DEF LoadInv, StartInv
<1>8. FunctionsInv'
  <2>1. throughout'["functions"] \subseteq throughout["functions"]
    BY <1>5, OrderFacts
  <2>2. FunctionsInv /\ (At("functions")' <=> At("functions"))
    BY <1>1 DEF LoadInv, At
  <2> QED BY <1>1, <2>1, <2>2 DEF FunctionsInv
<1> QED BY <1>1, <1>2, <1>3, <1>4, <1>6, <1>7, <1>8

LEMMA AddKeeps == ASSUME LoadInv, Add PROVE LoadInv'
<1>a. PICK s \in DOMAIN NewRows : \E row \in NewRows[s] : \E i \in 1..(Len(soar[s]) + 1) :
        /\ row.id \notin IdsOf(soar[s])
        /\ Edited(s, InsertAt(soar[s], i, row))
        /\ UNCHANGED <<throughout, renamed, removed>>
  BY DEF Add
<1>b. PICK row \in NewRows[s] : \E i \in 1..(Len(soar[s]) + 1) :
        /\ row.id \notin IdsOf(soar[s])
        /\ Edited(s, InsertAt(soar[s], i, row))
        /\ UNCHANGED <<throughout, renamed, removed>>
  BY <1>a
<1>1. PICK i \in 1..(Len(soar[s]) + 1) :
        /\ row.id \notin IdsOf(soar[s])
        /\ Edited(s, InsertAt(soar[s], i, row))
        /\ UNCHANGED <<throughout, renamed, removed>>
  BY <1>b
<1>2. s \in Sections /\ soar[s] \in Seq(Row) /\ row \in Row /\ row.id \notin throughout[s]
  BY <1>1, LoadAssumption DEF LoadInv, LoadTypeOK, SoarInv
<1> DEFINE old == soar[s]
           new == InsertAt(soar[s], i, row)
<1>3. /\ new \in Seq(Row) /\ Len(new) = Len(old) + 1
      /\ \A j \in 1..(Len(old) + 1) :
           /\ j < i => new[j] = old[j]
           /\ j = i => new[j] = row
           /\ j > i => new[j] = old[j - 1]
  <2>1. old \in Seq(Row) /\ i \in 1..(Len(old) + 1) /\ row \in Row
    BY <1>2
  <2>2. /\ InsertAt(old, i, row) \in Seq(Row) /\ Len(InsertAt(old, i, row)) = Len(old) + 1
        /\ MovedOn(InsertAt(old, i, row), old, i, row)
    BY <2>1, Inserted
  <2> QED BY <2>2 DEF MovedOn
<1>4. old \in Seq(Row) /\ DOMAIN old = 1..Len(old) /\ Len(old) \in Nat /\ i \in 1..(Len(old) + 1)
  BY <1>2
<1> HIDE DEF new
<1>5. DOMAIN new = 1..(Len(old) + 1)
  BY <1>3
<1>6. \A j \in 1..Len(old) : \E k \in 1..(Len(old) + 1) : k >= j /\ new[k] = old[j]
  <2> TAKE j \in 1..Len(old)
  <2>1. CASE j < i
    <3>1. j \in 1..(Len(old) + 1) /\ j >= j
      BY <1>4
    <3>2. new[j] = old[j]
      BY <1>3, <2>1, <3>1
    <3> QED BY <3>1, <3>2
  <2>2. CASE j >= i
    <3>1. j + 1 \in 1..(Len(old) + 1) /\ j + 1 > i /\ (j + 1) - 1 = j /\ j + 1 >= j
      BY <1>4, <2>2
    <3>2. new[j + 1] = old[j]
      BY <1>3, <3>1
    <3> QED BY <3>1, <3>2
  <2> QED BY <1>4, <2>1, <2>2
<1>7. \A j \in 1..(Len(old) + 1) : new[j] = row \/ \E k \in 1..Len(old) : k <= j /\ new[j] = old[k]
  <2> TAKE j \in 1..(Len(old) + 1)
  <2>1. CASE j < i
    BY <1>3, <1>4, <2>1
  <2>2. CASE j > i
    <3>1. j - 1 \in 1..Len(old)
      BY <1>4, <2>2
    <3> QED BY <1>3, <1>4, <2>2, <3>1
  <2>3. CASE j = i
    BY <1>3, <2>3
  <2> QED BY <1>4, <2>1, <2>2, <2>3
<1>8. \A j, k \in DOMAIN new : new[j].id = new[k].id => j = k
  <2> SUFFICES ASSUME NEW j \in 1..(Len(old) + 1), NEW k \in 1..(Len(old) + 1), j < k, new[j].id = new[k].id
               PROVE  FALSE
    BY <1>4, <1>5
  <2>1. \A a, b \in 1..Len(old) : old[a].id = old[b].id => a = b
    BY <1>2, <1>4 DEF LoadInv, SoarInv
  <2>2. \A a \in 1..Len(old) : old[a].id # row.id
    BY <1>1, <1>4 DEF IdsOf
  <2>3. /\ j < i => j \in 1..Len(old) /\ new[j] = old[j]
        /\ j > i => j - 1 \in 1..Len(old) /\ new[j] = old[j - 1]
        /\ k < i => k \in 1..Len(old) /\ new[k] = old[k]
        /\ k > i => k - 1 \in 1..Len(old) /\ new[k] = old[k - 1]
    BY <1>3, <1>4
  <2>4. j = i => new[j] = row
    BY <1>3
  <2>5. k = i => new[k] = row
    BY <1>3
  <2>6. CASE j = i
    <3>1. k > i
      BY <1>4, <2>6
    <3> QED BY <2>2, <2>3, <2>4, <2>6, <3>1
  <2>7. CASE k = i
    <3>1. j < i
      BY <1>4, <2>7
    <3> QED BY <2>2, <2>3, <2>5, <2>7, <3>1
  <2>8. CASE k < i
    <3>1. j < i /\ j # k
      BY <1>4, <2>8
    <3> QED BY <2>1, <2>3, <2>8, <3>1
  <2>9. CASE j < i /\ k > i
    <3>1. j # k - 1
      BY <1>4, <2>9
    <3> QED BY <2>1, <2>3, <2>9, <3>1
  <2>10. CASE j > i
    <3>1. k > i /\ j - 1 # k - 1
      BY <1>4, <2>10
    <3> QED BY <2>1, <2>3, <2>10, <3>1
  <2> QED BY <1>4, <2>6, <2>7, <2>8, <2>9, <2>10
<1>9. ToSet(old) \subseteq ToSet(new) /\ throughout[s] \subseteq IdsOf(new)
  <2>1. throughout[s] \subseteq IdsOf(old)
    BY <1>2 DEF LoadInv, SoarInv
  <2>2. IdsOf(old) \subseteq IdsOf(new)
    BY <1>4, <1>5, <1>6 DEF IdsOf
  <2>3. ToSet(old) \subseteq ToSet(new)
    BY <1>4, <1>5, <1>6 DEF ToSet
  <2> QED BY <2>1, <2>2, <2>3
<1>10. s = "fields" => \A j \in DOMAIN new : new[j].type \in ToSet(FIELD_TYPES)
  BY <1>1, <1>4, <1>5, <1>7, LoadAssumption DEF LoadInv, SoarInv
<1>11. /\ LoadTypeOK' /\ SoarInv' /\ ReadInv' /\ StartInv' /\ FunctionsInv'
       /\ soar'[s] = new /\ \A t \in Sections \ {s} : soar'[t] = soar[t]
       /\ UNCHANGED <<reading, requests, listed, rows, content, outcome>>
  <2>1. Edited(s, new) /\ throughout' \in [Sections -> SUBSET Ids] /\ removed' \in BOOLEAN
    BY <1>1 DEF new, LoadInv, LoadTypeOK
  <2>2. renamed' \in [Sections -> SUBSET Ids] /\ \A t \in Sections : renamed[t] \subseteq renamed'[t]
    BY <1>1 DEF LoadInv, LoadTypeOK
  <2> QED BY <1>1, <1>2, <1>3, <1>8, <1>9, <1>10, <2>1, <2>2, EditLeaves
<1>12. FieldsInv'
  <2>1. CASE s # "fields"
    <3>1. soar'["fields"] = soar["fields"]
      BY <1>11, <2>1, OrderFacts
    <3> QED BY <1>1, <1>11, <3>1 DEF LoadInv, FieldsInv, At
  <2>2. CASE s = "fields"
    <3> SUFFICES ASSUME At("fields")
                 PROVE  /\ requests < Len(FIELD_TYPES)
                        /\ ~removed =>
                             /\ \A j \in DOMAIN rows :
                                  /\ \E k \in DOMAIN new : new[k].id = rows[j].id /\ new[k].type = rows[j].type
                                  /\ \E k \in 1..requests : rows[j].type = FIELD_TYPES[k]
                             /\ \A j, k \in DOMAIN rows : rows[j].id = rows[k].id => rows[j].name = rows[k].name
                             /\ \A j \in DOMAIN new : \A k \in 1..requests :
                                  new[j].id \in throughout[s] /\ new[j].type = FIELD_TYPES[k] => new[j].id \in IdsOf(rows)
      BY <1>1, <1>11, <2>2 DEF FieldsInv, At
    <3>1. /\ requests < Len(FIELD_TYPES)
          /\ ~removed =>
               /\ \A j \in DOMAIN rows :
                    /\ \E k \in DOMAIN old : old[k].id = rows[j].id /\ old[k].type = rows[j].type
                    /\ \E k \in 1..requests : rows[j].type = FIELD_TYPES[k]
               /\ \A j, k \in DOMAIN rows : rows[j].id = rows[k].id => rows[j].name = rows[k].name
               /\ \A j \in DOMAIN old : \A k \in 1..requests :
                    old[j].id \in throughout[s] /\ old[j].type = FIELD_TYPES[k] => old[j].id \in IdsOf(rows)
      BY <2>2 DEF LoadInv, FieldsInv
    <3>2. \A k \in DOMAIN old : \E l \in DOMAIN new : new[l] = old[k]
      BY <1>4, <1>5, <1>6
    <3>3. \A j \in DOMAIN new : new[j].id \in throughout[s] => \E k \in DOMAIN old : new[j] = old[k]
      BY <1>2, <1>4, <1>5, <1>7
    <3> HIDE DEF old
    <3>4. ASSUME ~removed, NEW j \in DOMAIN rows
          PROVE  \E k \in DOMAIN new : new[k].id = rows[j].id /\ new[k].type = rows[j].type
      BY <3>1, <3>2, <3>4
    <3>5. ASSUME ~removed, NEW j \in DOMAIN new, NEW k \in 1..requests,
                 new[j].id \in throughout[s], new[j].type = FIELD_TYPES[k]
          PROVE  new[j].id \in IdsOf(rows)
      BY <3>1, <3>3, <3>5
    <3> QED BY <3>1, <3>4, <3>5
  <2> QED BY <2>1, <2>2
<1>13. PagesInv'
  <2>1. CASE s # "playbooks"
    <3>1. soar'["playbooks"] = soar["playbooks"]
      BY <1>11, <2>1, OrderFacts
    <3> QED BY <1>1, <1>11, <3>1 DEF LoadInv, PagesInv, At
  <2>2. CASE s = "playbooks"
    <3> SUFFICES ASSUME At("playbooks")
                 PROVE  /\ Len(rows) = requests * PageLength
                        /\ ~removed =>
                             /\ \A j \in DOMAIN rows : rows[j].id \notin renamed[s] => rows[j] \in ToSet(new)
                             /\ \A j \in 1..Len(rows) :
                                  j \in DOMAIN new /\ new[j].id \in throughout[s] => new[j].id \in IdsOf(rows)
      BY <1>1, <1>11, <2>2 DEF PagesInv, At
    <3>1. /\ Len(rows) = requests * PageLength
          /\ ~removed =>
               /\ \A j \in DOMAIN rows : rows[j].id \notin renamed[s] => rows[j] \in ToSet(old)
               /\ \A j \in 1..Len(rows) :
                    j \in DOMAIN old /\ old[j].id \in throughout[s] => old[j].id \in IdsOf(rows)
      BY <2>2 DEF LoadInv, PagesInv
    <3>2. Len(rows) \in Nat
      BY DEF LoadInv, LoadTypeOK
    <3>3. ASSUME ~removed, NEW j \in 1..Len(rows), j \in DOMAIN new, new[j].id \in throughout[s]
          PROVE  new[j].id \in IdsOf(rows)
      <4>1. PICK k \in 1..Len(old) : k <= j /\ new[j] = old[k]
        BY <1>2, <1>5, <1>7, <3>3
      <4>2. k \in 1..Len(rows) /\ k \in DOMAIN old
        BY <1>4, <3>2, <4>1
      <4> QED BY <3>1, <3>3, <4>1, <4>2
    <3> QED BY <1>9, <3>1, <3>3
  <2> QED BY <2>1, <2>2
<1> QED BY <1>11, <1>12, <1>13 DEF LoadInv

LEMMA DeleteKeeps == ASSUME LoadInv, Delete PROVE LoadInv'
<1>a. PICK s \in DOMAIN NewRows : \E i \in DOMAIN soar[s] :
        /\ Edited(s, RemoveAt(soar[s], i))
        /\ throughout' = [throughout EXCEPT ![s] = @ \ {soar[s][i].id}]
        /\ removed' = TRUE
        /\ UNCHANGED renamed
  BY DEF Delete
<1>1. PICK i \in DOMAIN soar[s] :
        /\ Edited(s, RemoveAt(soar[s], i))
        /\ throughout' = [throughout EXCEPT ![s] = @ \ {soar[s][i].id}]
        /\ removed' = TRUE
        /\ UNCHANGED renamed
  BY <1>a
<1> DEFINE old == soar[s]
           new == RemoveAt(soar[s], i)
<1>2. s \in Sections /\ old \in Seq(Row) /\ i \in 1..Len(old) /\ Len(old) \in Nat /\ DOMAIN old = 1..Len(old)
  BY <1>1, LoadAssumption DEF LoadInv, LoadTypeOK
<1>3. /\ new \in Seq(Row) /\ Len(new) = Len(old) - 1
      /\ \A j \in 1..(Len(old) - 1) : new[j] = IF j < i THEN old[j] ELSE old[j + 1]
  <2>1. old \in Seq(Row) /\ i \in 1..Len(old)
    BY <1>2
  <2> HIDE DEF old, new
  <2>2. new = RemoveAt(old, i)
    BY DEF new, old
  <2> QED BY <2>1, <2>2, Removed
<1>4. \A j, k \in 1..Len(old) : old[j].id = old[k].id => j = k
  BY <1>2 DEF LoadInv, SoarInv
<1> HIDE DEF new
<1>5. DOMAIN new = 1..(Len(old) - 1)
  BY <1>2, <1>3
<1>6. \A j \in 1..(Len(old) - 1) :
        /\ j < i => new[j] = old[j] /\ j \in 1..Len(old)
        /\ j >= i => new[j] = old[j + 1] /\ j + 1 \in 1..Len(old)
  BY <1>2, <1>3
<1>7. \A j, k \in DOMAIN new : new[j].id = new[k].id => j = k
  <2> SUFFICES ASSUME NEW j \in 1..(Len(old) - 1), NEW k \in 1..(Len(old) - 1), j < k, new[j].id = new[k].id
               PROVE  FALSE
    BY <1>2, <1>5
  <2>1. CASE k < i
    <3>1. j < i /\ j # k
      BY <1>2, <2>1
    <3> QED BY <1>4, <1>6, <2>1, <3>1
  <2>2. CASE j < i /\ k >= i
    <3>1. j # k + 1
      BY <1>2
    <3> QED BY <1>4, <1>6, <2>2, <3>1
  <2>3. CASE j >= i
    <3>1. k >= i /\ j + 1 # k + 1
      BY <1>2, <2>3
    <3>2. old[j + 1].id = old[k + 1].id /\ j + 1 \in 1..Len(old) /\ k + 1 \in 1..Len(old)
      BY <1>6, <2>3, <3>1
    <3> QED BY <1>4, <3>1, <3>2
  <2> QED BY <1>2, <2>1, <2>2, <2>3
<1>8. throughout'[s] = throughout[s] \ {old[i].id} /\ throughout' \in [Sections -> SUBSET Ids]
  BY <1>1, <1>2 DEF LoadInv, LoadTypeOK
<1>9. throughout'[s] \subseteq IdsOf(new)
  <2> SUFFICES ASSUME NEW id \in throughout[s], id # old[i].id PROVE id \in IdsOf(new)
    BY <1>8
  <2>1. PICK j \in 1..Len(old) : old[j].id = id
    BY <1>2 DEF LoadInv, SoarInv, IdsOf
  <2>2. CASE j < i
    <3>1. j \in 1..(Len(old) - 1)
      BY <1>2, <2>2
    <3> QED BY <1>5, <1>6, <2>1, <2>2, <3>1 DEF IdsOf
  <2>3. CASE j > i
    <3>1. j - 1 \in 1..(Len(old) - 1) /\ j - 1 >= i /\ (j - 1) + 1 = j
      BY <1>2, <2>3
    <3> QED BY <1>5, <1>6, <2>1, <3>1 DEF IdsOf
  <2>4. j # i
    BY <2>1
  <2> QED BY <1>2, <2>2, <2>3, <2>4
<1>10. s = "fields" => \A j \in DOMAIN new : new[j].type \in ToSet(FIELD_TYPES)
  <2>1. \A j \in 1..(Len(old) - 1) : \E k \in DOMAIN old : new[j] = old[k]
    BY <1>2, <1>6
  <2> QED BY <1>5, <2>1 DEF LoadInv, SoarInv
<1>11. /\ LoadTypeOK' /\ SoarInv' /\ ReadInv' /\ StartInv' /\ FunctionsInv'
       /\ UNCHANGED <<reading, requests, listed, rows, content, outcome>>
  <2>1. Edited(s, new) /\ removed' \in BOOLEAN
    BY <1>1 DEF new
  <2>2. \A t \in Sections \ {s} : throughout'[t] = throughout[t]
    BY <1>1 DEF LoadInv, LoadTypeOK
  <2>3. renamed' \in [Sections -> SUBSET Ids] /\ \A t \in Sections : renamed[t] \subseteq renamed'[t]
    BY <1>1 DEF LoadInv, LoadTypeOK
  <2> QED BY <1>1, <1>2, <1>3, <1>7, <1>8, <1>9, <1>10, <2>1, <2>2, <2>3, EditLeaves
<1>12. FieldsInv' /\ PagesInv'
  BY <1>1, <1>11 DEF LoadInv, FieldsInv, PagesInv, At
<1> QED BY <1>11, <1>12 DEF LoadInv

LEMMA RenameKeeps == ASSUME LoadInv, Rename PROVE LoadInv'
<1>a. PICK s \in DOMAIN NewRows : \E i \in DOMAIN soar[s] : \E name \in NewNames :
        /\ Edited(s, [soar[s] EXCEPT ![i].name = name])
        /\ renamed' = [renamed EXCEPT ![s] = @ \cup {soar[s][i].id}]
        /\ UNCHANGED <<throughout, removed>>
  BY DEF Rename
<1>1. PICK i \in DOMAIN soar[s], name \in NewNames :
        /\ Edited(s, [soar[s] EXCEPT ![i].name = name])
        /\ renamed' = [renamed EXCEPT ![s] = @ \cup {soar[s][i].id}]
        /\ UNCHANGED <<throughout, removed>>
  BY <1>a
<1> DEFINE old == soar[s]
           new == [soar[s] EXCEPT ![i].name = name]
<1>2. old \in Seq(Row) /\ name \in Names /\ s \in Sections
  BY LoadAssumption DEF LoadInv, LoadTypeOK
<1>3. \A j \in DOMAIN old : old[j] \in Row
  BY <1>2
<1>4. /\ [old[i] EXCEPT !.name = name] \in Row /\ [old[i] EXCEPT !.name = name].id = old[i].id
      /\ [old[i] EXCEPT !.name = name].type = old[i].type /\ old[i].id \in Ids
  BY <1>1, <1>2, <1>3 DEF Row
<1>5. new = [old EXCEPT ![i] = [old[i] EXCEPT !.name = name]]
  OBVIOUS
<1>6. /\ new \in Seq(Row) /\ DOMAIN new = DOMAIN old
      /\ \A j \in DOMAIN old : new[j].id = old[j].id /\ new[j].type = old[j].type
      /\ \A j \in DOMAIN old : j # i => new[j] = old[j]
  BY <1>1, <1>2, <1>4, <1>5
<1> HIDE DEF new
<1>7. \A j, k \in DOMAIN new : new[j].id = new[k].id => j = k
  BY <1>2, <1>6 DEF LoadInv, SoarInv
<1>8. throughout'[s] \subseteq IdsOf(new)
  BY <1>1, <1>2, <1>6 DEF LoadInv, SoarInv, IdsOf
<1>9. /\ LoadTypeOK' /\ SoarInv' /\ ReadInv' /\ StartInv' /\ FunctionsInv'
      /\ soar'[s] = new /\ \A t \in Sections \ {s} : soar'[t] = soar[t]
      /\ UNCHANGED <<reading, requests, listed, rows, content, outcome>>
  <2>1. Edited(s, new) /\ removed' \in BOOLEAN /\ throughout' \in [Sections -> SUBSET Ids]
    BY <1>1 DEF new, LoadInv, LoadTypeOK
  <2>2. renamed' \in [Sections -> SUBSET Ids] /\ \A t \in Sections : renamed[t] \subseteq renamed'[t]
    BY <1>1, <1>2, <1>4 DEF LoadInv, LoadTypeOK
  <2>3. s = "fields" => \A j \in DOMAIN new : new[j].type \in ToSet(FIELD_TYPES)
    BY <1>6 DEF LoadInv, SoarInv
  <2> QED BY <1>1, <1>2, <1>6, <1>7, <1>8, <2>1, <2>2, <2>3, EditLeaves
<1>10. FieldsInv'
  <2>1. CASE s # "fields"
    <3>1. soar'["fields"] = soar["fields"]
      BY <1>9, <2>1, OrderFacts
    <3> QED BY <1>1, <1>9, <3>1 DEF LoadInv, FieldsInv, At
  <2>2. CASE s = "fields"
    <3> SUFFICES ASSUME At("fields")
                 PROVE  /\ requests < Len(FIELD_TYPES)
                        /\ ~removed =>
                             /\ \A j \in DOMAIN rows :
                                  /\ \E k \in DOMAIN new : new[k].id = rows[j].id /\ new[k].type = rows[j].type
                                  /\ \E k \in 1..requests : rows[j].type = FIELD_TYPES[k]
                             /\ \A j, k \in DOMAIN rows : rows[j].id = rows[k].id => rows[j].name = rows[k].name
                             /\ \A j \in DOMAIN new : \A k \in 1..requests :
                                  new[j].id \in throughout[s] /\ new[j].type = FIELD_TYPES[k] => new[j].id \in IdsOf(rows)
      BY <1>1, <1>9, <2>2 DEF FieldsInv, At
    <3>1. /\ requests < Len(FIELD_TYPES)
          /\ ~removed =>
               /\ \A j \in DOMAIN rows :
                    /\ \E k \in DOMAIN old : old[k].id = rows[j].id /\ old[k].type = rows[j].type
                    /\ \E k \in 1..requests : rows[j].type = FIELD_TYPES[k]
               /\ \A j, k \in DOMAIN rows : rows[j].id = rows[k].id => rows[j].name = rows[k].name
               /\ \A j \in DOMAIN old : \A k \in 1..requests :
                    old[j].id \in throughout[s] /\ old[j].type = FIELD_TYPES[k] => old[j].id \in IdsOf(rows)
      BY <2>2 DEF LoadInv, FieldsInv
    <3> HIDE DEF old
    <3> QED BY <1>6, <3>1
  <2> QED BY <2>1, <2>2
<1>11. PagesInv'
  <2>1. CASE s # "playbooks"
    <3>1. soar'["playbooks"] = soar["playbooks"]
      BY <1>9, <2>1, OrderFacts
    <3>2. renamed'["playbooks"] = renamed["playbooks"]
      BY <1>1, <2>1, OrderFacts DEF LoadInv, LoadTypeOK
    <3> QED BY <1>1, <1>9, <3>1, <3>2 DEF LoadInv, PagesInv, At
  <2>2. CASE s = "playbooks"
    <3> SUFFICES ASSUME At("playbooks")
                 PROVE  /\ Len(rows) = requests * PageLength
                        /\ ~removed =>
                             /\ \A j \in DOMAIN rows : rows[j].id \notin renamed'[s] => rows[j] \in ToSet(new)
                             /\ \A j \in 1..Len(rows) :
                                  j \in DOMAIN new /\ new[j].id \in throughout[s] => new[j].id \in IdsOf(rows)
      BY <1>1, <1>9, <2>2 DEF PagesInv, At
    <3>1. /\ Len(rows) = requests * PageLength
          /\ ~removed =>
               /\ \A j \in DOMAIN rows : rows[j].id \notin renamed[s] => rows[j] \in ToSet(old)
               /\ \A j \in 1..Len(rows) :
                    j \in DOMAIN old /\ old[j].id \in throughout[s] => old[j].id \in IdsOf(rows)
      BY <2>2 DEF LoadInv, PagesInv
    <3>2. renamed'[s] = renamed[s] \cup {old[i].id}
      BY <1>1, <1>2 DEF LoadInv, LoadTypeOK
    <3>3. ASSUME ~removed, NEW j \in DOMAIN rows, rows[j].id \notin renamed'[s]
          PROVE  rows[j] \in ToSet(new)
      <4>1. PICK k \in DOMAIN old : rows[j] = old[k]
        BY <3>1, <3>2, <3>3 DEF ToSet
      <4>2. k # i
        BY <3>2, <3>3, <4>1
      <4> QED BY <1>6, <4>1, <4>2 DEF ToSet
    <3> QED BY <1>6, <3>1, <3>3
  <2> QED BY <2>1, <2>2
<1> QED BY <1>9, <1>10, <1>11 DEF LoadInv

LEMMA LoadBegins == LoadInit => LoadInv
<1> SUFFICES ASSUME LoadInit PROVE LoadInv
  OBVIOUS
<1> USE DEF LoadInit
<1>1. LoadTypeOK
  <2>1. \A s \in Sections : IdsOf(Rows[s]) \subseteq Ids
    <3> TAKE s \in Sections
    <3>1. \A i \in DOMAIN Rows[s] : Rows[s][i] \in Row
      BY LoadAssumption
    <3> QED BY <3>1 DEF IdsOf, Row
  <2>2. throughout \in [Sections -> SUBSET Ids]
    BY <2>1
  <2>3. soar \in [Sections -> Seq(Row)]
    BY LoadAssumption
  <2>4. reading \in 1..Len(Order) /\ requests \in Nat /\ edits \in Nat
    BY OrderFacts
  <2>5. listed \in Seq(Ids) /\ rows \in Seq(Row)
    OBVIOUS
  <2>6. renamed \in [Sections -> SUBSET Ids]
    OBVIOUS
  <2> QED BY <2>2, <2>3, <2>4, <2>5, <2>6 DEF LoadTypeOK
<1>2. SoarInv
  BY LoadAssumption DEF SoarInv
<1>3. ReadInv
  BY DEF ReadInv, SectionsRead
<1>4. StartInv /\ FunctionsInv
  BY DEF StartInv, FunctionsInv
<1>5. FieldsInv /\ PagesInv
  BY OrderFacts DEF FieldsInv, PagesInv, At
<1> QED BY <1>1, <1>2, <1>3, <1>4, <1>5 DEF LoadInv

LEMMA LoadStep == ASSUME LoadInv, [LoadNext]_loadVars PROVE LoadInv'
<1>1. CASE ReadSection
  BY <1>1, AnswerKeeps DEF ReadSection, At
<1>2. CASE ReadWorkflows
  <2>1. outcome = "loading" /\ Order[reading] = "workflows"
    BY <1>2 DEF ReadWorkflows, At
  <2> QED BY <1>2, <2>1, AnswerKeeps, FailsKeeps DEF ReadWorkflows
<1>3. CASE RequestFails
  BY <1>3, FailsKeeps DEF RequestFails
<1>4. CASE UNCHANGED loadVars
  BY <1>4 DEF loadVars, progress, history, LoadInv, LoadTypeOK, SoarInv, ReadInv, SectionsRead, OneName,
              StartInv, FunctionsInv, FieldsInv, PagesInv, At
<1> QED
  BY <1>1, <1>2, <1>3, <1>4, ListFunctionsKeeps, ReadInputsKeeps, ReadFunctionKeeps, FunctionsReadKeeps,
     ReadFieldsKeeps, ReadPageKeeps, AddKeeps, DeleteKeeps, RenameKeeps DEF LoadNext

(* A load that ends well has everything that was there throughout, as long as nothing *)
(* is removed meanwhile: however many requests it takes, whatever is added or renamed  *)
(* between them, and wherever SOAR puts it.  And it has it once, unless it is a        *)
(* playbook that somebody renamed: that one may have come on two pages.                *)
THEOREM LoadsAreWhole == LoadSpec => []WholeUnlessRemoved
<1>1. LoadInv => WholeUnlessRemoved
  <2> SUFFICES ASSUME LoadInv, outcome = "loaded", ~removed, NEW s \in Sections, NEW id \in throughout[s]
               PROVE  /\ KeptAs(s, id) # {}
                      /\ s # "playbooks" \/ id \notin renamed[s] => Cardinality(KeptAs(s, id)) = 1
    BY DEF WholeUnlessRemoved
  <2>1. PICK k \in 1..11 : Order[k] = s
    BY OrderFacts
  <2>2. k \in SectionsRead
    BY OrderFacts DEF SectionsRead
  <2>3. Has(content[s], id) /\ (OneName(s, id) => HasOnce(content[s], id))
    BY <2>1, <2>2 DEF LoadInv, ReadInv
  <2> QED BY <2>3 DEF Has, HasOnce, OneName, KeptAs
<1> QED BY <1>1, LoadBegins, LoadStep, PTL DEF LoadSpec
================================================================================
