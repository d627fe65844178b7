# A TLA+ model of qradar-soar-mcp

qradar-soar-mcp is an MCP server between a language model and IBM QRadar SOAR. What it
promises about writes rests on a few state machines: a pipeline that every tool call passes,
an append-only audit log, hourly caps rebuilt from that log, a breaker and a kill switch,
approvals that a human gives through files, and two protocols that change a task or an
incident under other people's hands. Around them are decisions that keep no state: what the
settings permit, what a text may show, what a workflow's diagram says. The repository also
has a loop that fixes its own pull requests, and the gate that merges them. This directory
models all of these, checks them with TLC and proves what matters most with TLAPS.

Paths below are relative to `src/src/qradar_soar_mcp/` unless they start with `automation/`,
`scripts/` or `docs/` (all under `src/`).

## 1. The system

| part | source | state | operations | modelled in |
|---|---|---|---|---|
| pipeline | `tools/registry.py` | a call's place between its steps | classify, decide, ask for or spend an approval, PENDING, slot, tool function, terminal record; declarations of tools | `Pipeline`, `InBandTokens`, `ToolDeclarations` |
| limits | `security/limits.py` | two sliding windows, failure count, breaker | acquire, record_result, kill switch, replay of the log | `Pipeline`, `AuditFile` |
| audit log | `security/audit.py` | the file; last seq and hash in memory | open, append, verify | `AuditFile`, `Pipeline` |
| start-up | `tools/runtime.py` | which log, broker and limits are there | build | `Pipeline` (`Restart`), `Enforce` |
| approval broker | `security/approvals.py` | files of one directory; in-band tokens in memory | request, status, verify_and_consume; issue and consume of tokens | `Approvals`, `ApprovalLifecycle`, `InBandTokens` |
| approver | `cli_approve.py` | what a session read before it asked | approve or reject | `Approvals` |
| catalog cache | `catalog/cache.py` | one entry, a lock, a count of loads | get, refresh | `CatalogCache` |
| decisions | `security/permissions.py`, `tiers.py`, `action_policy.py`, `transport.py` | none | enforce, classify | `Enforce` |
| task writes | `client/tasks.py` | what a call read first; the task is SOAR's | GET, PUT, read-back | `TaskStatus` |
| incident writes | `client/incidents.py`, `tools/incidents.py` | what a call read; incidents and their versions are SOAR's | GET, PATCH, post-read, POST | `IncidentPatch` |
| SOAR client | `client/base.py`, `errors.py` | a connection pool | requests, error mapping | `SoarRequest` |
| catalog data | `catalog/backends.py`, `workflow_xml.py`, `bpmn.py`, `playbooks.py`, `models.py` | what a load has read so far | load, parse workflows and playbooks | `CatalogLoad`, `WorkflowGraph`, `Discovery` |
| read tools | `tools/investigation.py`, `discovery.py`, `projection.py`, `actions.py`, `logging.py` | none | list, get, search, redact, cut | `Discovery`, `IncidentReads`, `Redaction` |
| wiring | `server.py`, `config.py`, `tls.py`, `cli*.py`, `logging.py` | none after start | parse settings, trust, redact log lines | `Enforce`, `Redaction` |
| review loop | `automation/review_loop/{ledger,cli,codex,snapshot}.py` | comments and labels of a pull request, its branch | claim, fix, push, report | `ReviewLoop` |
| merge gate | `automation/review_loop/{evaluate,codex,patch_policy,gitcheck}.py` | none | verdict on a snapshot, verdict on a patch | `MergeGate`, `PatchPolicy` |
| scripts | `scripts/` | none; the probe's client counts one query | one-shot maintenance, probe | `ReadOnlyProbe` (the client only) |

**How they meet.** A tool call enters `run_pipeline`. It asks `enforce` and the limits,
reads and renames files of the broker directory, appends to the audit log, takes a slot,
runs the tool function (which talks to SOAR), appends again and feeds the breaker. The
approver's command line shares nothing with the server but the broker directory. A restart
keeps the directory, the log and the kill switch file; the windows, the breaker, the in-band
tokens and the chain tail live in memory. Read tools ask the catalog cache, which loads
through the client; their answers pass the redactor. The review loop shares nothing with the
server: its runs meet in the comments, labels and commits of a pull request, and the gate
reads a snapshot of the same.

**What is hard.** The server is one event loop, so a call gives way only where it awaits: in
its classifier and in its tool function. What it read before may be stale after, several
calls are in flight, and each can be cancelled there. Records other than PENDING are best
effort. A crash falls between any two effects. The approver answers minutes after looking.
A request may be carried out after its sender gave up on the answer. A catalog load takes
many requests while the data it reads change. Two runs of the review loop can overlap, their
jobs can die and be run again, and people push meanwhile. And rules that hide each other,
texts that are cut after they are redacted, and diagrams that contradict themselves make
decisions hard that keep no state. `PROJECT.json` lists these hazards line by line, with the
property that would notice each going wrong.

**What makes each part correct.** *Pipeline and limits*: no more writes start in any hour
than the cap, across restarts; a refused call costs nothing; a tripped breaker and a kill
switch let nothing start; a write has its PENDING record and at most one outcome. *Audit
log*: it verifies from end to end across restarts. *Approvals*: one approval, one call, the
call that was asked for, in time, by a holder of the key, rightly attributed. *Cache*: a
refresh is at least as new as the call, `get` is younger than the time to live, concurrent
callers share loads, nobody waits forever; a load is whole or raises. *Writes*: what a call
reports of its request is true, the request is made once, and nobody's edit is lost under
it. *Decisions*: from Tier 3 on a human is asked, and a stricter rule never opens anything.
*Answers*: all there is, or they say what is missing; no secret in them. *Review loop*: one
fix per commit, nothing built over somebody's push, every attempt told. *Gate*: each proof
is of the present head, and doubt closes it.

## 2. The modules

### State machines

`ApprovalLifecycle` is the abstract promise: a reference goes from unknown to pending, to
approved or rejected, and from approved to consumed, letting one call through.

`Approvals` is the broker directory with its users. Each file is a variable; a server
handler's checks (`Verify`) and its rename (`Consume`) are two steps because several
processes can share the directory; `GiveUp` is the rename that finds no file, or a process
that dies in between. A session of the approver reads the request and its status
(`ShowPlan`) and later types the reference (`TypeReference`), something else (`TypeOther`)
or nothing (`Abandon`). Arguments are reduced to what `canonical_args_hash` tells apart and
a signature to whether its key is the trusted one. A created but unfilled `approved.json`
is `Torn`. `created`, `asked`, `typed`, `used` and `audited` are history. The record of a use in
the audit log follows its rename in one step of the event loop; a crash between the two, which
would leave a use without its APPROVAL_CONSUMED, is not a step of its own.

`AuditFile` holds operators only: a file as a sequence of lines, what an append leaves, what
`verify` accepts, what `open` takes for the tail, and which slots a replay charges. A record
keeps the fields that chain and replay look at; its hash is the record without its link,
which is injective on the records one log can hold.

`Pipeline` extends it with the server. One action is one uninterrupted stretch of the event
loop: `Classify`, `Refuse`, `AskApproval`, `Start` (approval, PENDING, slot), `Send`,
`Finish` (terminal record and breaker), `Cancel`. `CrashStarting` is a crash within the
synchronous stretch of `Start`; `Crash` falls between stretches. `Restart` is
`Runtime.build`, the first start included. `enforce`'s verdict and the tier of a call are
constants here: `enforce` depends on configuration and on the call, on nothing that moves
(`Enforce` has the decision itself). Time in the windows and in the records is one clock.
The approvals of the pipeline are the abstract ones: `Approve` and the spending in
`Approved` follow `ApprovalLifecycle`, which both the broker and the pipeline are checked
against.

`CatalogCache` has the entry, the FIFO lock, and callers that ask once each. SOAR's data are
a version number that grows; a load brings back some version between the one it began with
and the one it ended with. A catalog labelled with another source is one way for a load to
fail.

`CatalogLoad` is one load in its requests: the functions' list, their inputs, each function
by its id, the fields type by type, the playbooks page by page, and each other section in
one answer. Between two requests people add, remove and rename. A row is its id, its name,
the verified keys it misses and, of a field, its type; `Loaded` parses and keys a section as `_keyed` does. What
was there from the first request to the last is history (`throughout`).

`TaskStatus` is `set_status` with several calls on one task, its editors, and a PUT that
travels: `put` is where it is and `pc` where its sender is, and SOAR carries it out (`Land`)
or not (`NotLand`) before or after the sender stopped waiting. An answer is one of SOAR's own
two (`Accepted`, `Rejected`) or anything else (`Unclear`). The task is its status, whether it is
active and unfrozen, and one value for the rest of its fields; the read checks that compare
nothing that moves (its id, its incident, its form) are one way for `ReadRefuses` to happen.
What a call tells is `refused`, `changed` or `unverified`. `landed` and `disturbed` are history.

`IncidentPatch` is the other way to write. An update, an assignment or a close reads the
incident (`Read`), and its PATCH carries the version and the old values of the fields it
changes, which SOAR compares (`Land`); a new incident, a note and an artifact are POSTs that
read nothing. Requests travel as above. A value of a field is who wrote it, names are fields
with or without `properties.`. `Garbled` is an answer below 400 that is not SOAR's own.
`replaced` and `added` are history.

`ReviewLoop` has the workflow runs of one pull request. A run is triaged against the head it
read (`Begin`, `Plan`), claims that head by a comment and looks whose claim came first
(`ReadClaims`, `PostClaim`, the verification), fixes, looks at the head once more, pushes and
asks for a review; what ends an attempt is reported and, if it halts the loop, labelled, in
a job of its own. Runs of one concurrency group follow each other; runs in the two groups
overlap. A job dies between two of its requests and is run again by hand, or not. Codex reviews
and people resolve what it found; people push, label the pull request off or close it (for good,
here), and release a loop that halted.

### Decisions

`Question` has one variable, the question that is asked. A module of operators has the code;
a module of the same name with `Cases` (`ClientCases` for `ToolDeclarations` and `SoarRequest`,
`SessionCases` for `InBandTokens` and `ReadOnlyProbe`) has the inputs (`Ask...`, one action per kind
of question) and the properties, each stated against a reference that is written from what the
answer promises rather than from how the code finds it.

- `Enforce`: variables of the environment to settings (deprecated, misspelt and half-set
  ones), TLS trust, what may listen, start-up, policy rules with their constraints, and
  `enforce` in its order. A regular expression is the set of names it matches.
- `ToolDeclarations`: what `soar_tool` accepts, and what `register_all` tells clients.
- `InBandTokens`: the step of the pipeline that issues and spends a token when the mode is
  `in_band`; a session is folded over its calls and restarts.
- `MergeGate`: `codex.assess` and `evaluate.gate` on a snapshot: receipts, state blocks,
  threads, inline findings, CI runs, the owner's approval. `PatchPolicy`: the parser of a
  patch, what git makes of the same lines, the paths that are protected, `cmd_apply`.
- `WorkflowGraph`: the summary of a BPMN document and the resolution of its calls. A document
  is the children of its processes in order, or a flaw that refuses the whole text.
- `Discovery` and `IncidentReads`: every read tool, with pages, budgets, ranking and the
  exact match that `get` wants; of a text or a row only its size counts.
- `Redaction`: a text is a sequence of pieces, fine enough for a cut to go through a secret
  or through the marker. `redact`, the order of the secrets, `redact_strings`, and the cut
  of a text after it. `SoarRequest`: one request, what is raised on the way, which answers
  are accepted, and what an error says.
- `ReadOnlyProbe`: the client of the probe scripts: the requests it refuses, and the one
  query that it lets through once.

### Instances

`MCApprovals`, `MCPipeline` and `MCReviewLoop` are instances of one module each; `MCPipeline` has
several scenarios, of which a configuration names those of its run. `Writes` has `TaskStatus` and an
instance of `IncidentPatch` side by side; its `IncidentStands` is the latter's `EditsStand` and
`AnswersAreTrue`. `MCWrites` is an instance of `Writes`, and `MCCatalog` puts the cache and one load
in one run: a variable chosen in the initial state says which of the two a behaviour is about, and
the other one stays as it began; neither reads the other's state. `MCVerdicts` turns to a topic and asks every question about it.

### Proofs

`ApprovalsProofs`, `PipelineProofs`, `CatalogProofs` (of the cache and of a load), `WritesProofs`,
`IncidentPatchProofs` and `ReviewLoopProofs` extend the modules they are named after; `PatchProofs`
extends `PatchPolicyCases`, and `VerdictProofs` extends `ClientCases` (and so `EnforceCases`),
`MergeGateCases`, `SessionCases`, `WorkflowGraph` and `PatchProofs`. See 4.

Definitions marked "a slip" are what the code would be with one plausible mistake. They are
used by no behaviour: they show that a property notices the mistake.

## 3. The runs

| run | instance | what it shows | states |
|---|---|---|---|
| approvals_one | 2 requests, 2 calls, 2 handlers, 1 approver, clock 0..2, time to live 1 (approver's 2) | `Attributed`, and the lifecycle, which says that an approval is used once and never after a rejection | 20,179 |
| approvals_concurrent | 1 request, 2 calls, 2 handlers, 3 approvers of whom 1 has a wrong key, clock 0..3, time to live 2 (approver's 1) | `UseIsAuthorised`, `UseIsTimely`, `UsesAreBacked` | 31,348 |
| approvals_replay | 1 request, 2 approvers | `SingleUse` fails: see 6 | - |
| pipeline_limits | 3 Tier-2 writes, cap 1, window 2, clock 0..3, 2 crashes, 1 failed append; or 3 Tier-3 writes and a Tier-1 one, threshold 2, 1 crash after the breaker tripped | `HourlyCap`, `EveryWriteIsLogged`, `OneStory`, `RefusalsAreFree`, `BreakerHolds`, `KillSwitchHolds` | 998,005 |
| pipeline_approval | one call that asks, two that carry the approval, one refused; 2 crashes, 1 refused append, the audit log not required | the lifecycle, `ChainVerifies` | 134,118 |
| pipeline_torn | 3 writes, 1 torn append, 1 crash | `HourlyCap` fails: see 6 | - |
| pipeline_cancelled | 3 writes, no crash, no failed append | `SettledInLog` fails: see 6 | - |
| catalog | 3 callers, clock 0..1, time to live 1, 1 change in SOAR; or a load of 2 functions, 5 playbooks on pages of 2 and one row or three of everything else, 3 edits: additions, removals, and renames of any of these | `RefreshIsFresh`, `LoadsAreNeeded`, `GetIsYoung`, `EveryoneIsServed`; `WholeUnlessRemoved` | 704,501 |
| catalog_part | 1 load, 1 edit | `CatalogIsWhole` fails: see 6 | - |
| writes | 2 calls that close a task, 1 that opens it, 1 edit; or 2 of eight calls on an incident, 1 edit | `RefusedNeverLands`, `LandsOnce`, `ChangedMeansLanded`; `IncidentStands`; `CallsEnd` | 352,466 |
| review_loop | 2 runs, 1 attempt, 1 push, 1 job that dies, 1 release of the halt | `OneWinner`, `HumanWorkStands`, `ReportedOnce`, `ClaimIsSettled`, `HaltHolds` | 4,150,824 |
| verdicts | every question of the `Cases` modules | the decisions: below | 877,594 |

**What verdicts checks.** `VerdictStands`, `EachProofIsOfTheHead` (gate), `RoundTrip`,
`AppliedIsAllowed` (patches), `HighTierIsAsked`, `StricterIsStricter`, `TrustIsAsNamed`
(settings, rules, trust), `GraphIsTold` (diagrams), `ReadsAreWhole` (lists and reads: `PagesAreWhole`, `ListsAreWhole`, `BudgetIsKept` and
the others it names), `ShownAsStated`
(texts), `ClientIsToldTruly` (declarations of tools; requests and their failures) and `SpentOnce`
(tokens and the probe's query). But for the first ten, a state of this run is a question, so the
number of states is the number of inputs looked at. Inputs are whole products where these are
small; where they are not, one part varies in full while the others take the values that matter to
it, which the `Ask` actions name. The limits of the code (pages, budgets, numbers of nodes) are constants with
values of 2 or 3 such that inputs lie below, at and above each of them.

**Bounds.** `MaxTime`, `MaxVersion`, `MaxEdits`, `MaxFaults`, `MaxCrashes`, `MaxPushes` and
`MaxReleases` stop the clock, changes by people, failed appends, crashes, pushes and releases of
the loop. Besides, at most one append fails within one step of the pipeline (`s.ok \/ p.ok` in
`Start`, and the like in `Finish`). Two crashes are what a call can meet before and after the
restart that charges it; three writes and a cap of one are one that fills the window, one that is
refused and one that comes after. The window of two ticks lets a slot age, sit on the boundary and
expire; the breaker counts and reads no clock, so its half of the run stays at time 0, and a crash
changes the breaker only once it has tripped. The kill switch moves in the breaker's half and in
pipeline_approval. Two handlers
are enough for a race on the rename, as three approvers are for a session that stays open while
another one creates the file and a third has no key. Three callers of the cache are one that loads,
one that came before the load and one that came during it. Two removals and an addition on three
pages shift a row over each boundary in both directions. For the task, two calls that close it can
hide behind each other's write, and the one that opens it undoes both; for the incident, two calls
and an editor are what a version can be read between. Two runs of the loop meet in one claim, or in
the last attempt for two heads, which one push makes; the pull request begins with its first commit,
for which no threads on an older one are open.

**Symmetry** is used for calls, handlers and runs that differ in name only, in runs whose
properties are invariants or `[][A]_v`.

**Deadlock** is checked where an operator can always move the kill switch: pipeline_approval,
pipeline_torn and pipeline_cancelled. The others really stop: every request is decided, every
caller answered, every call and run has ended, the question has been asked, and people's changes
have reached their bound.

**Fairness** is assumed in the `FairSpec` of `CatalogCache`, `TaskStatus` and `IncidentPatch`, and
in the same words in `MCCatalog` and `MCWrites`. A caller at the head of the lock runs, because the
event loop resumes it; a load ends, because each of its requests has a timeout (`client/base.py`)
and it makes finitely many. No fairness is assumed for callers to ask or to be cancelled, nor of
SOAR's changes. A call that writes does not stop at an await for the same reason; nothing is assumed
of when, or whether, SOAR carries out a request. Nothing is assumed of the review loop's jobs: what
it promises of its end is stated of runs that ended.

## 4. The proofs

Each proof module extends the module it is about. The constants are constrained by named
assumptions only: `ApprovalsAssumption`, `PipelineAssumption`, `CatalogAssumption`,
`LoadAssumption`, `TaskAssumption`, `WritesAssumption`, `ReviewLoopAssumption`, `EnforceAssumption`,
`BundlesAssumption`, `RequestAssumption`, `ClientAssumption` and `TokensAssumption`, which TLC evaluates in the runs of these modules, and
`IncidentAssumption`, a hypothesis of the theorems that `Writes` asserts of its instance. They say that bounds are numbers, that `None` is none of
the values it stands beside, that a server starts whatever flags are on, and, for incidents, that
the tools are the five there are and the fields that close an incident are fields. The inductive invariants were checked by TLC before
they were proved.

`ApprovalsProofs`. `SingleUse` is not inductive, and not true when sessions overlap. What is
inductive without any restriction is `IInv`: types, no file without its request, claims
that were authorised and in time when they were made, grants whose expiry is no later than the two
times to live allow and whose answer was typed by whoever they name (`ExpiryIsDated`), and
`UsesAreBacked`, which counts one unspent
file per creation. `Inductive` proves it, action by action; `Authorised`, `Backed` and `UsesAreTimely`
follow, with any number of sessions and handlers. `UseIsTimely` measures a use from when its request was made
and from when its answer was typed, not from the expiry in a file: it is lost when the
broker does not look at the approval's expiry or when the signature promises a later one.

With one approver session at a time (`SoleApprover`) the invariant is strengthened to
`SoleInv`: nothing was decided for the request of an open session (`OneDecision`), and the
file a handler verified is the only one its reference will ever have (`ClaimIsCurrent`).
From it follow `ExactlyOnce` (`SingleUse` under `SoleApprover`), `RightlyAttributed`,
`NotAfterRejection`, and `ImplementsLifecycle`: `status` maps each step of the directory to a
step of `ApprovalLifecycle` or to a stutter.

`PipelineProofs`. A tool function starts in `Start` only and a write is sent in `Send` only
(`OnlyStart`, `OnlySend`). From this `KillSwitchStops` and `BreakerStops` are action
properties. `SpentOnce` needs the invariant that a call which got past its approval holds a
consumed reference that no other call holds; with it every step of the pipeline maps to a step
of `ApprovalLifecycle` or to a stutter (`PipelineFollowsLifecycle`). `WritesAreLogged` assumes
that no append is cut short (`CleanFaults`): a file whose lines all end only grows
(`AppendKeeps`), so the record `Start` leaves is there when the write is sent.

Its second half is what the pipeline owes to the file.

- `PipelineTypes`: whatever an append leaves behind, what parses is a record of a call.
- `OneStoryEach`, for all four ways an append can fail: each record of a call that the file still
  shows is one the call wrote when it was there (`StoryInv`). A line that is torn, glued or never
  synced takes records away and adds none.
- `HourlyCapHolds`, under `CleanFaults`. The cap counts starts, the code counts the slots in its
  memory, and a restart has neither but the log. So the invariant has three parts: every start is
  charged by some record of the log at its time or later (`StartedInv`); every start that is still
  in its window is held by a slot no earlier (`HeldInv`); and no past `Window` had too many
  (`Capped`). `Start` admits by the second, `Restart` rebuilds the second from the first, and the
  third is what follows for the window that ends now. Without `CleanFaults` it is false: see 6.
- `RefusalsTakeNothing`: while no append has failed, each record that a replay would charge, and
  each slot in memory, is of a call that began (`FreeInv`).
- `ChainHolds`, where an append that fails leaves nothing (`Faults \subseteq {"refused"}`): the
  chain is intact, and a serving process has the tail of the file in memory (`ChainInv`). After an
  append that was written but not synced a seq is used twice and the chain does not verify, so the
  hypothesis cannot be weaker.

`CatalogProofs`. Loads are numbered in the order they begin, so a load numbered above
the count a caller noted began after that caller asked (`FreshInv`); `FreshAnswers` follows.
That only the head of the queue loads, that its load is the last one started, and that no load
that succeeded is younger than the entry (`LockInv`) gives `NoNeedlessLoad`, and is
what makes an entry the best there is. `AnswersAreYoung` needs that a load's version was still
true when the load began, and that versions are replaced in their order (`YoungInv`).

Of a load, `LoadsAreWhole` proves `WholeUnlessRemoved` for any number of rows, pages, edits and any
page length: nothing that was there throughout is missed, and only a playbook that was renamed can be
there twice. The invariant (`LoadInv`) is that a row that was there throughout is at a place not yet
read or was read. For the functions the place is the list of ids taken at first (`FunctionsInv`), for
the fields a type not yet asked for (`FieldsInv`), for the playbooks a position behind the pages read:
what is added moves a row back, never forth (`PagesInv`). All of it needs that the ids
of what SOAR has are distinct (`SoarInv`); that a section read is in the catalog, each row once, follows
from `_keyed`, which refuses a name it already has (`ReadInv`), where the ids read are distinct: they are in every
section that comes in one answer, and among the functions and fields, but among the playbooks only as far as none
was renamed.

`WritesProofs`. That a reported change is the call's own is not inductive: it needs that
the task keeps the status that was read while nobody else writes and the PUT has not landed
(`StatusKept`), and that a PUT is out only while its call waits for it or after
(`PutFollowsCall`). `CallByCall` splits this invariant by call, so each step is looked at
once for its own call and once for another. `RefusalsAreTrue`, `WrittenOnce` and `ChangesAreTrue`
follow. `IncidentsStand` carries the theorems of `IncidentPatchProofs` over to the instance beside
it: a step of the one protocol is a stutter of the other.

`IncidentPatchProofs`. The invariant (`WriteInv`) says per call (`Local`) what its place and its
request have to do with each other, and for a call that writes fields what it knows of the
incident (`Knows`): it read the incident at the version its PATCH carries, and as long as the
incident has that version it is what was read. A PATCH that lands therefore lands on what was
read, whoever else wrote in between, which is `IncidentEditsStand`; that the closing fields are of
one hand but for people (`OneHand`) is kept because a close writes all of them.
`IncidentAnswersAreTrue` follows from `Local`.

`ReviewLoopProofs`. The winner of a head is the one whose claim is the first of the ledger. That
this lasts is because the ledger only grows and a run looks after it wrote: a run that has won owns
the first claim on its head, and a comment belongs to one run (`Local`, `Distinct`). The
attempts are bounded because the position of a head among the heads claimed never changes
(`LoopHasOneWinner`). `LoopKeepsHumanWork` and `LoopSettlesClaims` follow, for runs that overlap,
die and run again. `LoopReportsOnce` and `LoopHaltHolds` say of a loop whose runs have one group
that a run which is about to report or to push looked, and nobody acted since (`Apart`, `Halting`);
it needs that runs of one group do not overlap (`OneLive`). The theorems are about `Spec`, which
has more initial states than the run.

`VerdictProofs`. Decisions keep no state, so these are theorems about operators, without an
invariant: `HumanAtHighTier` for every environment, command line, disk, tool and answer of the
policy; `StricterPolicies` for policies of any length (the first rule that applies is the least index
of one that does, which the natural numbers have); `TrustFollowsNames` for
every environment and disk. `HighTierAnswers`, `StricterAnswers` and `TrustAnswers` tie them to
the properties of the run: whatever question is put, the property holds of it. Of the merge gate,
`ReadsOnlyCodex` says that a verdict depends on what is Codex's, through its App and on this pull
request, which gives `VerdictsStand` for every snapshot; `ProofsAreOfTheHead` holds for every pull
request whose CI runs have a newest one (GitHub numbers them) and on which Codex said that the head
is clean, if anything, and the owner approved of it, if anybody: of these the property asks that they lose their worth by a push.

A session is a recursive function over the number of calls so far, as a walk through a patch is one
over its lines. `AtEveryLength` (from the well-foundedness of the natural numbers) gives such a function
its value at every length, and an invariant of the prefix then holds of the whole. Of the tokens it
is that a token not yet spent was issued by one call and answers to its name and arguments
(`TokensInv`); of the probe's client, that the one query is spent exactly if it was sent, and
that the requests it sent and refused are counted (`ClientInv`). `TokensSpentOnce` and `ProbesOnlyRead` give `SpentOnce`, for sessions of any length.

`ClientsAreToldTruly` is `ClientIsToldTruly`. Of a failed handshake: the walk along what an exception
wraps sees each exception once, so after as many steps as there are exceptions it has stopped
(`WalkEnds`, by the pigeonhole principle), and where it stops it has seen all the reasons there are
(`ReasonsAre`). Of the size: the sum of the chunks never falls, so an answer is cut off at some chunk exactly if
it is too large as a whole (`TooLargeIs`). Of the credential: SOAR may quote the key's secret and the header
that carries it, which share a piece, in any text. What `str.replace` leaves of a text is described from each place on
(`RestIs`), and in the text each piece of a secret has the rest of that secret beside it; taking out the secret keeps
this of the header (`KeyIsOut`), and taking out the header leaves nothing (`CredentialIsOut`), so
nothing is left to show wherever the text is cut afterwards. The theorem has `Sensitive = OwnSecrets`, the two
texts `SoarClient` scrubs, as a hypothesis. Of tools: by induction the registry holds each declared tool once
(`AllRegistered`), and it has one order by tier and name (`SortedThere`, `SortedIs`: a tool's place is the number of those
before it). A tool whose declaration was accepted then does as `AsTold` says, under
every setting of the flags (`DeclaredAsTold`). `IsTools` asks of tools that names and tiers are
numbers; `IsWire` that an exception is of a class httpx raises at that point, that what it wraps is among the
exceptions, and that what SOAR says is made of whole secrets and other text.
The questions of the run meet this (`RunAsksTheClient`).

Of properties that are model-checked as a whole, three parts are proved. `SearchIsWhole`: the search of
a diagram has, after as many levels as there are nodes, stopped or found more nodes than there are (`SearchStops`), and
what no flow enters is never found (`SearchIsEarned`), so a diagram is reported to have an unreachable node exactly if
it has one; `IsGraph`, that a valid flow is between two nodes, holds of what `Edge` makes (`EdgesAreValid`).
This is the part of `GraphIsTold` that loops over a diagram until nothing changes. `CutsAreTold`:
two markers never overlap, so a cut that is moved out of one is in none (`CutIs`); and
`MappingsAreKept`. These two are the parts of `ShownAsStated` that come after the redactor; they hold
whatever `redact` makes of a text.

`PatchProofs`. The text of a patch is taken apart where the parser takes it apart. Within a hunk,
what is still owed of old and new lines is what the rest of the hunk has (`Held`), so a hunk ends where
it was meant to and not at a line that looks like a header (`HunkRead`); a file is its names and
its hunks (`FileRead`), a patch its files (`PatchRead`). For texts that are cut off, the parser
owes nothing exactly where the text is at the end of a hunk (`Sound`). `PatchesReadAsWritten` is
`RoundTrip`, for patches of any number of files, hunks and lines. `IsPatch` asks of them a status that git
has, and of a hunk that it has lines and that each no-newline mark follows a line of content. `AppliedPatches` builds on
it, and holds for every checkout and everything git may stage, additions, deletions and changes of mode
included. Of names tracked in several spellings the code knows the first that git lists;
that there is a first (`FirstSpelling`, by `LeastOf`) is why a path that does not collide is spelt as a
tracked one, if any differs from it in case only (`NoNewSpelling`).
The questions of the run meet these hypotheses (`RunAsksOfPatches` and its like).

**Only model-checked**: `EveryoneIsServed` and `CallsEnd`, whose fairness is out of the prover's
reach, and of the verdicts run `GraphIsTold`, `ReadsAreWhole` and `ShownAsStated`.
Parts of the first and the last are proved, see above. These relate decisions written with the folds, sorts and filters of the community modules over
diagrams, pages and texts to references. What such a fold computes for every input is induction
over data, which the provers here do not have: `AtEveryLength` reaches recursive functions over a
number only.

## 5. What the results leave out

- An append that fails leaves nothing (`refused`), the whole line (`unsynced`), a part of it
  (`torn`) or all but the newline (`unended`). Passing runs use the first two, `ChainVerifies` the
  first only: after `unsynced` the next record reuses a seq, which
  `docs/design/08-GREENFIELD-AMENDMENTS.md:1046` documents. `torn` is the subject of 6.
- The model has one server process per audit log, which is what the code is written for.
- Files other than `approved.json` are written whole: a half-written request only ever makes
  its own reference unusable.
- A call sends at most one write (`SOAR_MAX_MUTATIONS_PER_CALL` is 1 and no tool does more).
- A clock that is set back. The windows use a monotonic clock, records the wall clock.
- An empty or foreign answer below 400 to a PATCH is told as "Patch rejected"
  (`client/base.py:319`), though the PATCH may have been carried out. The model has it
  (`Garbled`), and `AnswersAreTrue` leaves these rejections out: the code cannot tell them
  from SOAR's own.
- What decides on a text does so on what its parts are: a regular expression is the set of
  names it matches, XML is what ElementTree makes of it, a signature is valid or not, a
  credential is a sequence of pieces, the size of a row a number. Character sets, encodings
  and normalisation of names are left out.
- Rows of a list, and answers of a note, that are no objects are dropped by the client
  (`client/comments.py:21` and its like, `tools/projection.py:123`) without being told or counted; `ReadsAreWhole`
  is about the objects. At no reduction the whole incident still leaves out what is over
  `FULL_INCIDENT_CAPS`, and counts it.
- Of a name tracked in two spellings `gitcheck.case_collisions` compares with the one git lists first: a patch
  may add to a directory that is tracked in another case as well. `AppliedIsAllowed` asks for a tracked spelling,
  not for the only one.
- Not modelled: the command lines other than `approve` (keygen, list, verification of a log),
  the wiring to the MCP library and the HTTP server, the bearer check, the client of GitHub and
  the fan-out of its events, the patterns for secrets in patches, and the scripts under
  `scripts/`, each a fixed sequence of requests and a report on one appliance, whose output is
  a document and no behaviour. The client that all probe scripts share is modelled.

## 6. Where the code and its documents differ

- **An approval used twice** (approvals_replay). `security/approvals.py:331` promises
  "Exactly once", and `docs/design/02-SECURITY-MODEL.md:231` likewise. `cmd_approve` looks at
  the status before the prompt and relies on `O_EXCL` after it (`cli_approve.py:138`), but
  consuming renames `approved.json` away. Two sessions opened while the request was pending
  can so create the file one after the other, with a use after each. `UsesAreBacked` is what
  holds: each use was typed by somebody. With one session at a time `SingleUse` is proved.
- **A write that a restart does not charge** (pipeline_torn). `security/limits.py:139` says
  that an unclear record "can only cost budget, never free it". If an append is cut short,
  its line has no newline and the next record, here the PENDING of a call that then writes,
  is glued to it (`security/audit.py:243`) and skipped by `iter_jsonl`. If the process then
  dies before the terminal record, the restart does not see the write.
- **A write that is never settled in the log** (pipeline_cancelled).
  `docs/design/06-ROADMAP-TICKETS.md:159` says "Every mutation produces exactly two records".
  A call that is cancelled in its tool function leaves by `CancelledError`, which neither
  handler catches (`tools/registry.py:425` and `:440`): its PENDING stays alone and the
  breaker is not fed. The cap holds all the same, since the replay charges an open PENDING.
- **A catalog that misses a playbook** (catalog_part). `catalog/backends.py:13` says "A load
  either yields a complete catalog or raises", and `:92` "Never returns part of one". Playbooks are
  read page by page by position (`catalog/backends.py:555`). If one is removed from a page
  already read, the next one moves back onto that page and is not read again. The later page's
  `recordsTotal` is one less too, so the rows add up: the removed playbook is in the catalog, one
  that was there throughout is not. `WholeUnlessRemoved` is what holds: additions and
  renames, wherever they fall, make a load miss nothing. They can make it read a playbook twice: one that
  an addition in front moves to the next page, and that is renamed before that page is read, is in the
  catalog under both names, because `_keyed` knows playbooks by their names (`catalog/backends.py:476`).

## 7. Plan

Done: every component of 1, each as far as 5 says, and the proofs of 4.

1. An abstract write, an atomic update or none and a report that says which, implemented by
   `TaskStatus` and by `IncidentPatch`.
2. A second server process on one audit log; the remaining command lines of the approver.
