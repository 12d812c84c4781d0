# A formal model of AICybersec

AICybersec is a web application that runs security scanners (nmap, httpx,
nuclei, subfinder, dnsx) against targets a user is authorized to test, records
every step, and keeps the findings. This directory holds TLA+ modules of the
parts that carry its logic, the TLC configurations that check them on small
instances, and proofs, checked by TLAPS, of what holds for every instance.

Paths below are relative to the repository root (`src/` here). A name such as
`FinishCommit` is a definition of a module; the table `map` of `PROJECT.json`
gives the lines of code each definition stands for.

```
tlc -workers 2 -config ScanRaces.cfg MCScanManager.tla    # one run
tlapm ScanManagerProofs.tla                               # one proof module
```

## 1. The system

One backend process (FastAPI) serves requests on a thread pool and runs scans on
a second pool (`ScanManager`), against PostgreSQL under READ COMMITTED. A scan
passes through these parts:

```
 browser --- POST /scans, /cancel, GET /events ---> API handlers --+
                                                                   | scans row
   +---------------- ScanManager worker <---- FIFO, cancel event --+
   |  TX1 queued -> initializing     TX2 initializing -> running
   |  resolve_scope                  (hosts -> allowed addresses)
   |  DiscoveryService.run           subfinder, dnsx -> promoted hosts
   |  AgentRuntime.execute
   |     decide    PipelinePlanner (pipeline mode) or a model (agent mode)
   |     validate  PromotedHttpxValidator around SafetyValidator
   |     execute   tool -> make_cancelling_runner -> process group
   |     record    DbEventSink -> agent_events, tool_runs, findings
   |  TX4 _finish_scan               terminal status, assets, audit of tool_runs
   +----> finally: leave ScanManager._active
 next boot: recover()  (queued -> again, running -> failed, cancelling -> cancelled)
```

### Components

| component | state it keeps | operations | hard behaviour | correct means |
|---|---|---|---|---|
| scan status machine (`backend/services/scan_state.py`, the index in `backend/db/models.py`) | `scans.status` | `apply_transition` | none by itself | only table transitions; one active scan per project |
| scan execution (`scan_manager.py`, `scan_service.py`, `api/scans.py`, `main.py`) | rows, `_active`, cancel events, FIFO, workers, open transactions | create, submit, cancel, TX1, TX2, terminal mapping, `_mark_failed`, live refusal, shutdown, death, recovery | overlapping transactions, crash at any step, escaped exceptions, failed database calls, bounded pool | tools start at most once; status tells the truth; one outcome event; every accepted scan ends |
| discovery pre-stage (`discovery_service.py`, `subdomain_policy.py`) | sources, failures, batches, one session of writes | parents, subfinder, store, dnsx, promote, commit | failed statements poison the session; cancel at any moment | promoted hosts were verified and committed |
| tool runner (`tool_runner.py`) | process group, pipe, deadline, cancel event | poll, terminate, grace, kill, reap | processes that ignore SIGTERM, helpers that outlive the scanner or have let go of its pipe, a pipe nobody reads | the record is true; a stopped call leaves nothing behind that holds the pipe or obeys SIGTERM; every call returns in bounded time |
| tools and parsers (`agent_core/tools/*`) | none | check targets, call the runner, parse, answer | a scanner that ends by itself in the poll that stops it, output cut in the middle of a record, caps, lines that do not parse | success only for a completed scanner; a part never passes for the whole |
| agent loop (`agent_core/runtime/agent.py`) | status, step, trajectory | decide, validate, execute, record, finish | cancel at any moment; planner, tool or store raise | bounded steps; every decision has its record |
| event sink (`db_sink.py`) | `agent_events`, `tool_runs` | one row per event, open and close a tool run | failed or rolled back writes; rows matched by name and position | a row shows its own result and audit |
| result persistence (`result_persistence.py`) | assets, their DNS answers, findings and their links | derive assets, merge answers, record and link findings | answers in any order, nested parents, caps, findings before their assets | the tree of assets hangs on authorized domains; a link is no guess between different names |
| pipeline planner, validators, scope (`pipeline_planner.py`, `httpx_eligibility.py`, `agent_core/safety/*`, `scope_resolution.py`) | targets derived from observations | decide, validate, resolve | DNS changes, redirects, caps, step budget | nothing outside the scope runs; the budget suffices |
| live authorizations (`live_authorization_service.py`, `live_probe_budgets.py`) | records, snapshots, profiles, digests | approve, suspend, revoke, create a scan, verify | stale reads, expiry, policy change, columns changed elsewhere | a withdrawn or altered authorization never verifies |
| event feed (`event_service.py`) | a client's cursor | list after id | ids become visible out of order | no event is skipped |
| projects, assets, findings, dashboard, authentication | rows | CRUD, status of a finding | unique indexes decide races | ownership |
| planners, providers, state store (`agent_core/*`) | none or files | HTTP, prompts, JSON files | arbitrary answers and exceptions | only what their callers assume |
| frontend (`frontend/`) | the last answers | create, cancel, poll | answers overtake one another | shows the latest state |

`PROJECT.json` lists every component with its status, and under `hazards` the
places where this code can go wrong in a way a test would hardly reach.

### Interactions that matter

* The request thread, the worker and recovery all write `scans.status`. Each
  reads the row, decides, and commits later; nothing locks the row and it has no
  version column. `ScanManager` splits every transaction into the read and the
  commit for this reason.
* The cancel event is set by a request thread and read by discovery, by the
  agent loop once per step and by the runner once per poll. Each of the three
  modules has its own `RequestCancel`, enabled at every moment.
* The sink is called by the loop and swallows its own failures; `_finish_scan`
  matches rows and runner records afterwards. Both are in `AgentRun`.
* What discovery promotes enters the planner's httpx stage (`promoted` in
  `PipelineRun`), outside the scope the original validator knows.
* A tool's answer is what the runner's record, the cut of the output and the
  parser make of it together: `ScannerTool` extends `ToolRunner`, and its steps are
  steps of the runner or leave it alone.
* Assets are written by discovery through one session and by `_finish_scan`
  afterwards; findings in between, each in a transaction of its own. `AttackSurface`
  follows a scan through all of these.

## 2. Modules

| module | models | state and actions |
|---|---|---|
| `ScanState` | the transition table and status classes | operators only |
| `ScanLifecycle` | abstract: what the backend promises about a scan | `status`, `tools` (scans whose scanners execute) |
| `ScanManager` | scan execution | see below; implements `ScanLifecycle` |
| `AgentRun` | the loop, the sink and the audit of `_finish_scan` | one scan, one worker thread, an asynchronous cancel |
| `PipelineRun` | planner, validators, httpx chaining, budget | one action per turn of the loop |
| `Discovery` | `DiscoveryService.run` and its session | one action per tool call, per database statement that may fail, per return |
| `ToolRunner` | one call of the cancelling runner | discrete time; process group of a leader and at most one helper |
| `ScannerTool` | `execute` of the five tools around the runner | `ToolRunner` extended by the tool, its stage and its reply |
| `AttackSurface` | assets, DNS answers, findings and links of a scan | one action per call of `result_persistence.py` and per commit |
| `LiveAuthorization` | applications, records, snapshots, verification | read and commit are separate; a clock; redeployment |
| `MC...` | instances for TLC | values of constants, symmetry |
| `...Proofs` | TLAPS proofs about the module they are named after | |

Three assumptions are about what comes in: `ObservableAssumption` (AttackSurface) on the
shape of observations, `ValuesAssumption` (AttackSurface) that a name, an address, a
service and a URL are never spelled alike, and `PromotableAssumption` (PipelineRun) on
promoted names.

The data is abstract: a host, a finding or a tool is a model value, a digest is
the value it is taken of, a DNS answer or a scanner's output is an arbitrary
member of a small set. The control is kept: every early return, error path and
the order of side effects.

**ScanManager.** `status` and `outcomeEvents` are the database; `created`,
`active`, `signalled`, `queue`, `worker`, `seen`, `result` and `request` are
memory and vanish with the process (`Exit`). `worker[s]` is the place of a worker in
`_run_scan`; `seen[s]` is what its open transaction has read. `CreateScan` is the
commit of `create_scan`, `Submit` the call after it; a cancel request is
`CancelRead`, `CancelCommit`, `Signal`, since `request_cancel` comes after the
commit. `StartCommit`, `LaunchRead`/`LaunchCommit`, `FinishRead`/`FinishCommit`,
`MarkRead`/`MarkCommit` are TX1, TX2, TX4 and `_mark_failed`. `WorkerError` is an
exception escaping to `_run_scan`, `TransactionFails` a database failure. `Boot` runs
`recover` before requests are served; `BootWithoutRecovery` is the lifespan going
on when it raised. Discovery and the agent run are one arbitrary result here.

**AgentRun.** `at` is the place in `execute`. The decision, the verdict and the
tool's answer are arbitrary. `Sink(NewRows)` is a write that happens or is lost;
`Closed` is the lookup of the newest running row of a tool; `Enriched` the match
by position of `_finish_scan`.

**PipelineRun.** `Nmap`, `Httpx`, `Nuclei` and `Conclude` are `decide`,
`validate` and the observation's effect in one step, because nothing else runs
between them that the planner can see. `Allowed` is the scope resolved at the
start; DNS may answer differently later. `Only(s, S)` is a comprehension with a condition.
`Named` is the URL a record of httpx stands for: the requested one or, in a record that
lacks it, the page its redirect led to, wherever that is. `StagesHandOver` relates
what a stage ran on to what the stage before it found.
`NeverOutOfSteps` also says what a run that the planner refuses for its budget has done:
nothing.

**Discovery.** `Break` is a failed statement: SQLAlchemy leaves the session
unusable, so everything the stage wrote is gone and every later statement raises.
`Collapse` is the `except` around the stage, `Commit` its end.

**ToolRunner.** A tick is `POLL_INTERVAL_S`. The leader works, writes or blocks on a
full pipe. A helper either holds the pipe (`alive`) or has redirected or closed its
output (`mute`), and either may ignore SIGTERM; `PipeOpen` asks only for the leader and a
helper of the first kind. `SignalGroup` is `_terminate_tree`; `Read`, `EndOfFile`,
`GraceExpires` and `ReapExpires` are the two `communicate` calls.

**ScannerTool.** `CheckTargets` is the second look at the allowlist, `CallRunner` a
step of the runner, and `Nmap`, `Httpx`, `Nuclei`, `Subfinder`, `Dnsx` what each tool
makes of the record and of the lines `truncate_output` (`Capped`) leaves: a chunk of
the runner's output is a line here, a record is the number of its line, and what a
parser makes of a line the cut went through is an arbitrary choice.

**AttackSurface.** A row is identified by type and value, as the unique index does;
names are compared in their normal form. `StoreNames` and `StoreAnswers` write through
the session of the discovery stage (`draft`), `CommitDiscovery` ends it.
`RecordFinding` is `persist_finding`, which may link at once; `FinishScan` derives
the assets of all observations, stores what the cap leaves and links the rest, or
loses all of it when a URL makes the derivation raise.

**LiveAuthorization.** An application names its origins in any spelling:
`IsOrigin` keeps the checks of `parse_origin` as the parts of a spelling they look at,
and `Canonical` takes spellings of one origin for one, which is what lets an
exclusion in another spelling remove it. `ReadChange`/`CommitChange` are suspend and revoke,
`ReadForScan`/`InsertScan` the creation of a scan, `VerifySnapshot` and
`VerifyParent` the two halves of `verify_live_scan_authorization`, between which the
record is loaded. `EditScan` and `EditRecord` are changes made to a column without
the service, what the digests exist for. The profile's column may be replaced by
another scan's or be `Forged` in any one field, its own `id` (`profile_id`) and the fields
the code pins to the rendered profile (`pinned`) among them. An edit made while the
worker holds the row would show only after a restart, so `EditScan` comes before.
A scan counts as active until it is verified: stage 1 then refuses it in any case, and cancelling it is in `ScanManager`.

## 3. What the runs show

| run | module | checks | result |
|---|---|---|---|
| scan_races | MCScanManager | seven invariants with freely overlapping transactions | hold |
| scan_locked | MCScanManager | `ImplementsLifecycle`, `AcceptedEventuallyTerminal`, `QueuedEventuallyTaken` when transactions on one row do not overlap | hold |
| runner_stops | MCScannerTool | truth of the record, no survivors but mute helpers, bounded return, earned success, every line accounted for, an answer in the end | hold |
| agent_runs | MCAgentRun | late cancel, earned status, rows, audit, termination | hold |
| pipeline_safety | MCPipelineRun | stages hand over all they found, the planner's scope, the budget | hold |
| discovery_stage | MCDiscovery | committed promotions, skipped parents, late cancel | hold |
| attack_surface | MCAttackSurface | rooted assets, DNS answers in any order, complete and unambiguous links | hold |
| live_authorizations | MCLiveAuthorization | altered, withdrawn and untouched authorizations | hold |
| terminal_left | MCScanManager | `TerminalIsFinal` | **violated** |
| stuck_by_error | MCScanManager | `CancellingEventuallyCancelled` | **violated** |
| finding_event_dropped | MCAgentRun | `EveryFindingEventStored` | **violated** |
| nuclei_starved | MCPipelineRun | `PromotionSparesNuclei` | **violated** |

The four violated properties restate a sentence of the repository; `findings` in
`PROJECT.json` quotes it:

* **terminal_left** — `cancel_scan` reads `running`, the worker commits
  `completed`, the request commits `cancelling`: a terminal row moves, although
  `scan_state.py:15` says there are no transitions out.
* **stuck_by_error** — a running scan is being cancelled, its worker raises,
  `_mark_failed` asks for `cancelling -> failed`, which the table refuses, and
  returns. The row stays `cancelling`, and its project blocked by the index,
  until a restart. The run allows no overlapping transactions.
* **finding_event_dropped** — a duplicate fingerprint rolls back the whole session
  of the sink, the event row of its caller included.
* **nuclei_starved** — URLs httpx observed on a promoted host are chained into the
  nuclei call, which the original validator refuses as a whole.

### Why `scan_races` and `scan_locked` are two runs

With overlapping transactions (`RowLocked = FALSE`, which is what the code does)
`ScanManager` does not implement `ScanLifecycle`: terminal_left is the shortest
reason. What survives every overlap is checked by scan_races and proved.
With `RowLocked = TRUE` only the schedules without an overlap on one row remain;
there the full promise holds, which is proved, and so does liveness. `RowLocked` is an assumption about
the schedule and not a lock the code has.

### Bounds

* *scan_races, scan_locked*: three scans, two of one project (so the index
  matters), the third live_probe; two workers and therefore a queue; one
  restart, one escaped exception, one failed database call. Two cancel requests
  may overlap in scan_races; scan_locked, which has a liveness check and no
  symmetry, has one. The faults are independent of one another and each kind
  needs one occurrence to reach every error path; the invariants proved need no
  bound. stuck_by_error and terminal_left use one scan: their traces need no
  second one.
* *runner_stops*: work and output of up to 4 against a pipe of 2 and a timeout of
  6 ticks: scanners that finish, block, or exceed the deadline; a grace of 3 and
  a reap time of 2 keep the two waits apart. A call has no helper or one, which
  may turn mute, ignore SIGTERM, or both. Output is cut at 3 lines, parsers
  keep 2 records and one name is looked up, so that each of the caps is met
  alone and together.
* *agent_runs*: two tools, one of which the pre-stage ran as well; three steps,
  the fewest in which one tool runs twice after another; one lost write. Two lost writes
  break `RowsShowTheirOwnResult` (section 6).
* *pipeline_safety*: snapshots with no host, one, and one more than the cap of 2, so
  that merged lists are cut; two addresses, a record with and without its URL, one
  host outside for redirects; one promoted name outside and one inside the snapshot; budgets
  of 1 and 3 to 6 straddle what each profile needs.
* *discovery_stage*: nested parents, three hosts, batches of two: a full and a
  partial batch.
* *attack_surface*: two nested parents, six spellings of which two share a normal
  form and one has none, eight observations and six answers, two of each kind per
  stage; three rows, two values per key and two links at most, so that every cap
  cuts.
* *live_authorizations*: eight applications, of which six are refused, each by
  another check; two records, projects, scans and policy versions, three
  instants, one redeployment, two changed columns. Two changes make a column and its
  recomputed digest agree; `VerifiedAsIssued` claims the columns as issued after one
  change, and after two the same but for the profile's id, and nothing of
  more. `WithdrawnNeverVerified` claims something up to four changes, of which the run
  makes two and the theorem all. One suspend or revoke is under way at a time: two
  that overlap exceed what TLC can explore here, and the theorem covers any number.

Symmetry is used in scan_races (cancel requests; the two scans of one project)
and live_authorizations (records, scans, versions). Both check only safety and
no definition tells the permuted values apart. Deadlock checking is off in every
run: calls and runs end, and creations, restarts and other bounded events run
out, so a final state is no error. That nothing stops early is what the liveness
properties say.

### Fairness

* `ScanManager`: weak fairness of each worker's next step, of submitting a
  created scan, of both later steps of a cancel request, of the end of a
  shutdown and of booting. Threads that can run do run; a tool call returns,
  which is `EventuallyReplies` of `ScannerTool`. That a stopped process is started
  again is an assumption about its operator, not something the repository
  configures. None for creating, cancelling, faults and crashes.
* `AgentRun`: weak fairness of the one worker thread. Planner and tool calls
  return: HTTP calls have a timeout, tools are bounded by the runner.
* `ScannerTool`: weak fairness of time, the runner's steps and the tool's; none
  for the scanner, which may work, write or hang, nor for the cancel.
* `Discovery`, `PipelineRun`, `AttackSurface` and `LiveAuthorization` state safety
  only and assume none.

## 4. What is proved

All theorems hold for every value of the constants allowed by the named
assumptions of each module (finite sets of scans, a positive number of workers,
naturals as bounds and timings, and of what tools report only the shape). They use
no fairness. Every invariant and every action property that a passing run checks is
stated by one of them; the table `theorems` of `PROJECT.json` lists them all.

**`ScanManagerProofs`.** `TypeCorrect`; then `InvariantHolds`, `Spec => []IInv`, where
`IInv` is `DownInv`, a `ScanInv` per scan and a `RequestInv` per cancel request.
The properties are not inductive: `ExecutedAtMostOnce` could be broken from a
state in which a worker stands before TX2 of a scan that already ran. `LaunchInv`
excludes that by tying the row, the worker's place and the count of launches;
`OnItsWayOut` says that a scan signalled, or about to be overwritten by a stale
cancel, ran before and is never `running` again, which is what makes stale commits
harmless for launches. `ResultInv` and `EventInv` place the run's result and the
terminal event, `CancelInv` and `RequestInv` trace each cancellation to a request
and give `seen` its meaning between read and commit. There is one lemma per
action. `ExecutionIsUnique`, `CompletionIsEarned`, `CancellationIsAskedFor`,
`OutcomeIsAnnouncedOnce` and `TerminalMappingNeverFails` follow from it;
`ProjectExclusion` is inductive by itself, since every write goes through the
index. All of them cover overlapping transactions (`RowLocked` is arbitrary).

`ManagerImplementsLifecycle`, in the same module: if `RowLocked`, then `Spec` implies
`ImplementsLifecycle`, so what the run scan_locked shows on three scans holds for
any number of scans, workers and requests. The mapping needs more than `IInv`:
`LockInv` says that an open transaction, a worker's (`LockScan`) or a cancel
request's (`LockRequest`), has read what the row still holds, and that no two of them
are open on one row. Each commit is then a step of the lifecycle from the status
it has read. Without `RowLocked` the proof fails where terminal_left does.

`TerminalIsFinalWithoutOverlap` and `OneToolRunnerPerProject` take what
`ScanLifecycleProofs` proves back over this refinement (`Promise` is an instance of that
module). They mark the border of two of the observations: the first is
what terminal_left refutes with overlaps, the second what section 6 says of a cancel
inside TX2.

**`ScanLifecycleProofs`.** For the abstract lifecycle: tools of two scans of a
project exclude each other (`ToolsExcludeEachOther`), and a terminal status is final
(`TerminalStatusIsFinal`).

**`ToolRunnerProofs`.** `OutcomeRecorded`, `SurvivorsAreMute`, `CallIsBounded` for all
timings and pipe sizes. The invariant adds which processes may be alive in each phase
(`LoopInv`, `WaitInv`) and bounds `now`, `limit` and `cancelAt` by the phase
(`ClockInv`). `SurvivorsAreMute` says which process outlives a stopped call: never the
scanner, and a helper only if it both ignores SIGTERM and has let go of the pipe, since
nothing then keeps `communicate` from returning before SIGKILL. `ToolsDriveTheRunner`
carries these over to the call of a tool: `ToolSpec` implies the runner's `Spec`, since
`CallRunner` is the only step of a tool that moves the runner. `SuccessIsEarned` rests
on `AnswersOfTools`: whatever the parser, each tool answers from the same three
branches, and the one that may say ok has seen exit status 0 of a call nobody stopped.

`ToolTypeCorrect` and `LinesAreTold` count. `Conserved` says that nothing the scanner
wrote is lost or doubled between the pipe and the record, so a success has all of it or,
if a helper held the pipe past both waits, none. Each line of that is a record, skipped
or filtered (`Counted`), unless the answer says truncated, or httpx or nuclei stopped
at their last record: then all lines up to it are counted and none behind it. What a
parser keeps is `First(n, S)`, the n least lines of a set; `FirstSize` says how many those
are, by a least counterexample, and one lemma per tool (`NmapProper` to
`DescendantsProper`) draws the count from it.

**`AgentRunProofs`.** `TypeCorrect`, `CancelIsHeeded`, `StatusTellsTheTruth`. The
invariant has one part for the place in the loop (`StepInv`), one for what is
decided when the loop is left (`ClosingInv`) and one for the cancel (`LateInv`): once
a tool has started late, the loop is never again before a decision or a start.

`RowsShowOwnResults`: rows are in the order of their steps (`OrderInv`), and a row that
waits for ever or was never written costs a lost write each (`LossInv`). A result could
only reach another call's row if both had happened, which is why one lost write is
harmless and two are not. `AuditsAligned`: a tool has as many
records as rows, but for a call under way (`Counted`), and the record at a row's
position is of its step (`Matched`); `PositionBound` says that the last row of a tool is the
only one at the last position. `RunShrinks` bounds the length of a run by
7 * max_steps + 3 steps of its thread, so that `EventuallyReturns` asks of fairness only
that the thread goes on.

**`DiscoveryProofs`.** `TypeCorrect`, `PromotionIsCommitted`, `FailedParentsAreNotQueried`,
`CancelIsHeeded`. `PromotionInv` ties what is verified to what the session has
written, and says that a session that broke has nothing left to promote from.

**`PipelineRunProofs`.** All four properties of the module. `StagesAreConnected`: the
lists are built from several parts, filtered against one another and cut at the
cap, and no target is lost in that. `HeadSurvives` says that a cut of a concatenation
keeps a first part that fits, `FreshCovers` that dropping the later of two services
of one URL drops no URL, and `OnlyDisjoint` that services with and without a 2xx answer
together are no more than there were, so that the cap spares them. `Handover` is the
invariant: what a stage hands on is final once the next has begun. `PlannerInScope` adds
that what the planner chains is of names it asked about (`ReportsInScope`); its premises are
a stable DNS, no promoted name outside the scope and no redirect out of it in a record
without its URL, and each is needed. `BudgetSuffices`: `BudgetKept` says that the steps
left cover the stages left, one for each host nmap has not seen (`Remaining`), and
`RemainingFalls` that a step which is taken uses up one of these. It needs
`PromotableAssumption`: a promoted name is never an address, because `normalize_hostname`
refuses IP literals. `OnlyProperties` says what a filtered list holds and how long
it is, for every list.

**`AttackSurfaceProofs`.** All five properties of the module. `Inv` has one part per
question. `Sound(rows)` is the tree: it survives a pass because what a subfinder answer
derives starts with its domain (`RootedSeqs`), and so does every prefix the cap
leaves (`CutRooted`). `Faithful(rows, answers)` is the DNS part: merging cuts twice, and
`SmallestOfMerge` says that the smallest of what remains are the smallest of all that was
given. `LinksUnambiguous`: `ValuesTell` says that only the domain and the subdomain of
one name share a value, so that a value names one row or these two, and `ResolveUnambiguous`
that what is resolved is then the one row meant, but for the choice between the two;
`SameCandidates` keeps a finding's candidates from one record of it to the next.
`LinkingPass` is what `link_findings_to_assets` does to the findings, from which
`NothingUnlinked` and the step of `LinksUnambiguous` at the end of a scan follow. The proofs assume of a tool only what
`ObservableAssumption` states: the shape of its answer, and that subfinder calls a name
resolved exactly if it brings addresses.

**`LiveAuthorizationProofs`.** All four properties of the module, for any number of
records, scans, redeployments and edits. `ScanInv` follows a scan from its request
to the verdict. `Rendered` is a row whose columns agree with one another;
`CopyOf` says of every row in the table or in the worker's hands that each
difference from the row that was issued, and from the record, has cost an edit.
`TamperingIsNoticed` is then a count: a payload that is not the issued one needs another
digest and a changed record as well, three edits; a profile differs from the issued one
in a field that is checked or in its id only. `WithdrawalIsFinal` counts further: to verify
under another authorization, key, payload, profile and both digests must all name
it, five edits. `UntouchedPasses` is the other direction: without
an edit, every check finds what was rendered.

### Only model-checked

Liveness: `AcceptedEventuallyTerminal`, `QueuedEventuallyTaken`, `EventuallyReplies`,
`EventuallyReturns`. Fairness is out of the prover's reach; `CallIsBounded` and
`RunShrinks` are the parts of the last two that need none.

Induction over data is out of reach as well, since its theorems take an operator
as a parameter. Where a proof is about lists (what a filter keeps, what a concatenation
of lists contains, how many elements a cut leaves) it takes the least
counterexample instead: `MinimalNat` gives one, from the well-foundedness of the naturals, and
the definition at that length refutes it. `FlattenClosed` states its result of any
set of lists that is closed under concatenation, which serves every derived list at once.

No module declares a RECURSIVE operator.

## 5. What is not modelled

* Deletion of projects, which cascades to scans.
* The syntax of hosts and scope entries beyond a normal form, argument vectors, the
  fields of a scanner's record, prompts, the parsing of a model's answer: pure
  formatting or validation whose outcome is an arbitrary choice where it matters.
* The cursor of the event feed (`event_service.py:58`): ids become visible out of order
  only if two transactions of one scan overlap. One worker thread writes the events
  of a scan, one transaction after the other, and recovery writes before any
  worker starts; `ExecutedAtMostOnce` and the order of a worker's steps in `ScanManager` give
  this, so the cursor skips nothing.
* Authentication and read-only queries: no state of their own beyond single rows
  decided by unique indexes. The frontend keeps no state of the backend.
* Runner spill files: no decision reads them. What stderr adds to `truncated` is left
  out as well.
* katana, which no registry offers, and the capping of event data.
* Files under `docker/`, `alembic/`, `docs/`.

## 6. Observations without a run of their own

The models also exhibit the following, described here and not asserted as
properties. They come from the same lines as the hazards.

* A `cancelling` written over a terminal row has no worker, so it stays until a
  restart (`scan_service.py:199`).
* A cancel committed between the read and the commit of TX2 is overwritten by
  `running`, or leaves `cancelled` while the tools start
  (`scan_manager.py:277`): the project is free then, and a second scan's tools may
  execute beside the first's. The live refusal can overwrite a cancellation in the
  same way (`scan_manager.py:426`).
* When the scanner exits by itself, a helper holding its pipe survives the
  grace period: the group is then no longer signalled (`tool_runner.py:203-209`).
* A helper that ignores SIGTERM and has redirected or closed its output survives a
  cancel and a timeout: `communicate` returns as soon as the scanner has died, and SIGKILL
  follows only when it times out (`tool_runner.py:207-209`), although line 11 says that both
  kill the whole group. `OnlyTheMuteSurvive` says that nothing else does.
* The runner does not read the pipe while it polls: a scanner with more output
  than a pipe holds blocks until the deadline and is reported as timed out
  (`tool_runner.py:184-200`).
* A helper that holds the pipe past both waits makes the call throw the output away
  although the scanner ended with status 0: httpx, nuclei, subfinder and dnsx then
  report success with no records, nmap an error for the empty document
  (`tool_runner.py:212`).
* The parsers of httpx and nuclei stop at 100 records without counting the rest,
  although the comment at `httpx_parser.py:115` says "Count the rest as skipped". Unless the
  output was cut as well, nothing in the answer tells that there was more;
  `LinesAreAccountedFor` names this case and the one above as its two exceptions. Cut XML loses the whole nmap scan.
* A URL that `urlparse` rejects raises, and with it the whole asset pass is lost, or
  takes the host of the URL before it (`result_persistence.py:653-661`), although
  lines 789-792 say that anything malformed yields nothing.
* A link given while the agent runs can become ambiguous when `_finish_scan`
  stores more rows. Nested parents give a domain and a subdomain of the same value, of
  which `.first()` takes one without an order (`result_persistence.py:314-321`), although
  lines 15-16 promise a link only to "an exact, unambiguous match" and line 309 that it is
  never guessed. `LinksAreUnambiguous` allows this one choice and no other.
* A record of httpx that lacks the requested URL stands for the page its redirect led to
  (`pipeline_planner.py:144`), so nuclei may be asked for a host outside the scope, which
  the validator refuses; the docstring at lines 124-134 says that redirects are not
  followed. `RedirectsStay` is the premise that excludes it. A record with neither URL gives
  no target, like one that never came.
* `profile_id` is said to bind the profile to the scan's lifetime
  (`live_probe_budgets.py:155`), but `verify_execution_profile` compares it with nothing
  (`live_authorization_service.py:801-820`): another id verifies once the profile's digest
  is recomputed.
* subfinder's IPv6 answers are stored among the IPv4 ones and dropped by the next
  merge of a dnsx answer (`result_persistence.py:451`).
* The cap of 500 assets is one per call and not per scan, and what dnsx answers in
  the agent loop is stored nowhere.
* A scan that is being cancelled when its worker raises, or when the database fails, need
  not end before a restart; `AcceptedEventuallyTerminal` speaks of runs without these, and
  stuck_by_error shows the first.
* If the state store raises, the run ends without a closing event
  (`agent.py:160`).
* Two lost sink writes can attribute a result to an older row of the same tool.
  Records of the pre-stage shift the match by position of `_finish_scan` for
  tools that run in both (`scan_manager.py:589`); the property excludes them.
* `recover` fails a scan and leaves its `tool_runs` rows `running`.
* `suspend` can overwrite a revocation that committed after its read
  (`live_authorization_service.py:407`), although line 319 calls lifecycle
  movements one-way. The record stays unusable either way, which is
  what `WithdrawnNeverVerified` relies on.
* `DiscoveryResult.discovered` includes hosts of failed parents on one return
  path only (`discovery_service.py:464` against `:289`), and one failed flush makes
  the whole stage report nothing.
* `frontend/README.md:112` says cancel works on queued and initializing scans
  only; `backend/schemas/scans.py:38` accepts running ones too, as the model does.

## 7. What is left

What has been modelled is what decides something: every part with state of its own or
with steps that can interleave, fail or be cut off. What remains would add little:

1. The normalisation of targets and `target_in_scope` against a reference definition of
   containment. They are pure functions on addresses, well covered by the
   repository's unit tests; `PipelineRun` takes their result as equality of hosts.
2. Project deletion beside a running scan. It needs the cascade as a third writer of the
   row in `ScanManager`, whose proofs would all have to be extended.
3. The composition of `ScanManager` and `AgentRun` across a restart, for the `tool_runs` rows
   that recovery leaves running: nothing closes them and no document promises it.
4. A proof of liveness, when the prover has rules for fairness.

Runs are few on purpose: a new question joins an existing run of its module
where the state allows, and replaces a shallower property otherwise.
