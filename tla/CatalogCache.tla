----------------------------- MODULE CatalogCache ------------------------------
(***************************************************************************)
(* CatalogService (catalog/cache.py): one entry, one lock, and callers that  *)
(* get or refresh the catalog.  A load takes many requests to SOAR, whose    *)
(* data may change meanwhile; what it brings back is a version of that data  *)
(* no older than the one its first request saw.  The lock is asyncio.Lock:   *)
(* first come, first served, and a cancelled caller leaves the queue.        *)
(***************************************************************************)
EXTENDS Integers, Sequences, SequencesExt

CONSTANTS
    Callers,       \* one call of get() or refresh() each
    Ttl,           \* SOAR_CATALOG_TTL_SECONDS
    MaxTime,       \* bound on the clock
    MaxVersion,    \* bound on the changes of SOAR's data
    None           \* no entry, no load, no answer

ASSUME CatalogAssumption ==
    /\ Ttl \in Nat /\ MaxTime \in Nat /\ MaxVersion \in Nat
    /\ None \notin [began : Nat, sequence : Nat, version : Nat]

VARIABLES
    now,           \* the monotonic clock
    world,         \* version of SOAR's data
    entry,         \* _entry
    loadsStarted,  \* _loads_started
    queue,         \* the callers at the lock; its head may proceed
    pc,            \* where each caller is
    ask,           \* what a caller asks for: "get" or "refresh"
    asked,         \* asked_at
    load,          \* the load a caller is running
    answer,        \* the entry a caller was handed
    seen,          \* history: the version of SOAR's data when the caller asked
    superseded,    \* history: when each version of it was replaced
    succeeded      \* history: the loads that succeeded

calls == <<pc, ask, asked, load, answer, seen>>
vars  == <<now, world, entry, loadsStarted, queue, calls, superseded, succeeded>>

Entry == [began : Nat, sequence : Nat, version : Nat]

TypeOK ==
    /\ now \in Nat
    /\ world \in Nat
    /\ entry \in Entry \cup {None}
    /\ loadsStarted \in Nat
    /\ queue \in Seq(Callers)
    /\ superseded \in [0..MaxVersion -> Nat]
    /\ pc \in [Callers -> {"idle", "waiting", "loading", "answered", "failed", "cancelled"}]
    /\ ask \in [Callers -> {"get", "refresh"}]
    /\ asked \in [Callers -> Nat]
    /\ load \in [Callers -> Entry \cup {None}] /\ answer \in [Callers -> Entry \cup {None}]
    /\ \A c \in Callers : /\ pc[c] = "loading" => load[c] # None
                          /\ pc[c] = "answered" => answer[c] # None
    /\ seen \in [Callers -> Nat]
    /\ succeeded \subseteq Nat

Init ==
    /\ now = 0
    /\ world = 0
    /\ entry = None
    /\ loadsStarted = 0
    /\ queue = <<>>
    /\ pc = [c \in Callers |-> "idle"]
    /\ ask \in [Callers -> {"get", "refresh"}]
    /\ asked = [c \in Callers |-> 0]
    /\ load = [c \in Callers |-> None]
    /\ answer = [c \in Callers |-> None]
    /\ seen = [c \in Callers |-> 0]
    /\ superseded = [v \in 0..MaxVersion |-> 0]
    /\ succeeded = {}

\* cached(): the entry is younger than the time to live.
Cached == entry # None /\ now - entry.began < Ttl

\* A slip: the entry of a load that was running when the caller asked will do.
SharedAnyway(c) == entry # None /\ entry.sequence >= asked[c]

\* A slip: the count is noted as if the next load were running already.
SharedLater(c) == entry # None /\ entry.sequence > asked[c] + 1

\* refresh(): the entry was loaded, from start to end, after the call was made.
Shared(c) == entry # None /\ entry.sequence > asked[c]

Serves(c) == IF ask[c] = "get" THEN Cached ELSE Shared(c)

\* The call is made: refresh() notes the loads started so far, then both queue up.
Ask(c) ==
    /\ pc[c] = "idle"
    /\ pc' = [pc EXCEPT ![c] = "waiting"]
    /\ asked' = [asked EXCEPT ![c] = loadsStarted]
    /\ seen' = [seen EXCEPT ![c] = world]
    /\ queue' = Append(queue, c)
    /\ UNCHANGED <<now, world, entry, loadsStarted, ask, load, answer, superseded, succeeded>>

Holds(c) == queue # <<>> /\ Head(queue) = c

\* The caller got the lock and the entry serves it.
Serve(c) ==
    /\ Holds(c) /\ pc[c] = "waiting" /\ Serves(c)
    /\ answer' = [answer EXCEPT ![c] = entry]
    /\ pc' = [pc EXCEPT ![c] = "answered"]
    /\ queue' = Tail(queue)
    /\ UNCHANGED <<now, world, entry, loadsStarted, ask, asked, load, seen, superseded, succeeded>>

\* It does not: _load begins.
BeginLoad(c) ==
    /\ Holds(c) /\ pc[c] = "waiting" /\ ~Serves(c)
    /\ loadsStarted' = loadsStarted + 1
    /\ load' = [load EXCEPT ![c] =
                  [began |-> now, sequence |-> loadsStarted + 1, version |-> world]]
    /\ pc' = [pc EXCEPT ![c] = "loading"]
    /\ UNCHANGED <<now, world, entry, queue, ask, asked, answer, seen, superseded, succeeded>>

\* A slip: the entry's age is counted from the end of its load.
LoadSucceedsDatedLate(c) ==
    /\ pc[c] = "loading"
    /\ \E v \in load[c].version..world :
         /\ entry' = [load[c] EXCEPT !.version = v, !.began = now]
         /\ answer' = [answer EXCEPT ![c] = entry']
    /\ succeeded' = succeeded \cup {load[c].sequence}
    /\ pc' = [pc EXCEPT ![c] = "answered"]
    /\ load' = [load EXCEPT ![c] = None]
    /\ queue' = Tail(queue)
    /\ UNCHANGED <<now, world, loadsStarted, ask, asked, seen, superseded>>

\* The backend answers with what it read between the start of the load and now; the
\* version is that of the oldest part.
LoadSucceeds(c) ==
    /\ pc[c] = "loading"
    /\ \E v \in load[c].version..world :
         /\ entry' = [load[c] EXCEPT !.version = v]
         /\ answer' = [answer EXCEPT ![c] = entry']
    /\ succeeded' = succeeded \cup {load[c].sequence}
    /\ pc' = [pc EXCEPT ![c] = "answered"]
    /\ load' = [load EXCEPT ![c] = None]
    /\ queue' = Tail(queue)
    /\ UNCHANGED <<now, world, loadsStarted, ask, asked, seen, superseded>>

\* A slip: the lock is not released when the load raises.
LoadFailsHolding(c) ==
    /\ pc[c] = "loading"
    /\ pc' = [pc EXCEPT ![c] = "failed"]
    /\ load' = [load EXCEPT ![c] = None]
    /\ UNCHANGED <<now, world, entry, loadsStarted, queue, ask, asked, answer, seen, superseded, succeeded>>

\* It raises, or labels its catalog with another source: the entry stays as it was.
LoadFails(c) ==
    /\ pc[c] = "loading"
    /\ pc' = [pc EXCEPT ![c] = "failed"]
    /\ load' = [load EXCEPT ![c] = None]
    /\ queue' = Tail(queue)
    /\ UNCHANGED <<now, world, entry, loadsStarted, ask, asked, answer, seen, superseded, succeeded>>

\* The call is cancelled, at the lock or during its load.
Cancel(c) ==
    /\ pc[c] \in {"waiting", "loading"}
    /\ pc' = [pc EXCEPT ![c] = "cancelled"]
    /\ load' = [load EXCEPT ![c] = None]
    /\ \E i \in 1..Len(queue) : queue[i] = c /\ queue' = RemoveAt(queue, i)
    /\ UNCHANGED <<now, world, entry, loadsStarted, ask, asked, answer, seen, superseded, succeeded>>

Tick ==
    /\ now < MaxTime
    /\ now' = now + 1
    /\ UNCHANGED <<world, entry, loadsStarted, queue, calls, superseded, succeeded>>

\* Somebody edits playbooks, rules or fields in SOAR.
Change ==
    /\ world < MaxVersion
    /\ world' = world + 1
    /\ superseded' = [superseded EXCEPT ![world] = now]
    /\ UNCHANGED <<now, entry, loadsStarted, queue, calls, succeeded>>

Next ==
    \/ \E c \in Callers : \/ Ask(c) \/ Serve(c) \/ BeginLoad(c)
                          \/ LoadSucceeds(c) \/ LoadFails(c) \/ Cancel(c)
    \/ Tick \/ Change

Spec == Init /\ [][Next]_vars

\* The event loop runs a caller that has the lock, and a load ends: every request to
\* SOAR has a timeout.
FairSpec ==
    /\ Spec
    /\ \A c \in Callers : /\ WF_vars(Serve(c) \/ BeginLoad(c))
                          /\ WF_vars(LoadSucceeds(c) \/ LoadFails(c))

--------------------------------------------------------------------------------

\* Nobody who refreshes is handed data older than their own request, whichever load
\* they share.
RefreshIsFresh ==
    \A c \in Callers :
        pc[c] = "answered" /\ ask[c] = "refresh" => answer[c].version >= seen[c]

\* A refresh starts a load only when no load that began after it asked has succeeded:
\* a burst of refreshes shares one, and a failure in between loses nothing.
LoadsAreNeeded ==
    [][ \A c \in Callers :
          ask[c] = "refresh" /\ pc[c] = "waiting" /\ pc'[c] = "loading" =>
              \A n \in succeeded : n <= asked[c] ]_vars

\* What get() hands out without loading was still true of SOAR less than the time to
\* live ago, however long its load took.
GetIsYoung ==
    [][ \A c \in Callers :
          ask[c] = "get" /\ pc[c] = "waiting" /\ pc'[c] = "answered" =>
              LET v == answer'[c].version IN v = world \/ superseded[v] > now - Ttl ]_vars

\* Every caller gets an answer, an error, or was cancelled itself: no failed or
\* cancelled load keeps the lock.
EveryoneIsServed ==
    \A c \in Callers : pc[c] = "waiting" ~> pc[c] \in {"answered", "failed", "cancelled"}

(***************************************************************************)
(* Why they hold.  The loads are numbered in the order they start, so a load *)
(* numbered above what a caller noted began after the caller asked; only the *)
(* caller at the head of the queue loads, so a later load also ends later;   *)
(* and versions are replaced in order, so what a load brings back was still  *)
(* true when the load began.                                                *)
(***************************************************************************)

\* A load, or what became of it, is fresh for everyone who asked before it began.
FreshFor(l, c) == pc[c] # "idle" /\ l.sequence > asked[c] => l.version >= seen[c]

Known(l) == l.sequence <= loadsStarted /\ l.version <= world

FreshInv ==
    /\ entry # None => Known(entry) /\ \A c \in Callers : FreshFor(entry, c)
    /\ \A d \in Callers : pc[d] = "loading" =>
          /\ Known(load[d]) /\ load[d].sequence > asked[d]
          /\ \A c \in Callers : FreshFor(load[d], c)
    /\ \A c \in Callers : asked[c] <= loadsStarted /\ seen[c] <= world
    /\ RefreshIsFresh

\* The lock: whoever loads holds it, and runs the load that started last.
LockInv ==
    /\ \A d \in Callers : pc[d] = "loading" => Holds(d) /\ load[d].sequence = loadsStarted
    /\ \A n \in succeeded : entry # None /\ n <= entry.sequence
    /\ entry # None => entry.sequence <= loadsStarted

\* What a load brings back was still true of SOAR when the load began.
TrueWhenBegun(l) ==
    /\ l.began <= now /\ l.version <= world
    /\ l.version < world => superseded[l.version] >= l.began

YoungInv ==
    /\ world <= MaxVersion
    /\ \A v \in 0..MaxVersion : v < world =>
         /\ superseded[v] <= now
         /\ \A u \in 0..v : superseded[u] <= superseded[v]
    /\ entry # None => TrueWhenBegun(entry)
    /\ \A d \in Callers : pc[d] = "loading" => TrueWhenBegun(load[d])
================================================================================
