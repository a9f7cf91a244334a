# A verification development for Tainted

Tainted scans a repository for the security holes that code-writing agents leave, and then
*proves* them: it fires a probe at the running app and reports what came back. What the product
sells is the strength of its words. `PROVEN` must mean that something happened, `NOT_REPRODUCED`
that the boundary was tried and held, `REPORTED` that nothing was tried or nothing could be
concluded, and a run that stopped must not read like one that found nothing. This directory holds
TLA+ models of the parts in which those words are earned or lost, TLC configurations that check
them, and TLAPS proofs of the results that matter most.

## The system

| part | source | state it keeps | operations | talks to |
|---|---|---|---|---|
| prove run | `tainted/orchestrator.py`, `execution/base.py`, `budget.py`, `dynamic/target.py` | the two `Account`s, the seed, the findings, the budget's counter and start | `LocalExecutor.prove`, `prove`, `Budget.*` | every harness, the observers `on_candidates` and `on_finding` |
| request-plane harnesses | `dynamic/probes.py`, `replay.py`, `route_probes.py`, `injection_probes.py` | tokens and user ids on the shared accounts | `prove_candidate`, `prove_route_bola`, `prove_sql_injection`, logins | the running app over HTTP |
| agent sandbox | `dynamic/sandbox.py`, `agent_driver.py`, `checks/tool_plane.py` | the stubs' call log | `run_sandbox`, `_prove_tool_plane` | a language model |
| seed discovery | `dynamic/discovery.py` | none that outlives it | `discover`, `seed_from_discovery` | a browser |
| plan guard | `execution/guard.py`, `selfdefense/plan_commitment.py` | the signed plan, the calls it blocked | `guarded_replay`, `guarded_prober`, `PlanGuard` | hooks of the two HTTP clients |
| website prove stream | `surfaces/website/backend/app.py` | a semaphore, a queue per stream | `api_prove`, `_stream_prove` | an executor, the reader at the other end |
| website gate | `app.py`, `session_token.py`, `ownership_token.py`, `keys.py`, `tainted/ownership.py` | two sealed cookies per browser; ownership tokens, which carry their own state | `auth_*`, `api_ownership_token`, `_gate_ownership` | GitHub's sign-in, DNS and a well-known path of the host |
| website trees | `app.py`, `github.py` | fetched checkouts, the analysis cache | `_checkout`, `fetch_repo`, `_analysis_for`, `api_*` | GitHub |
| MCP server | `surfaces/mcp/tainted_mcp/server.py` | the job table and its lock | `tainted_prove_start`, `_status`, `_result`, `_run_prove`, `_evict_finished` | an executor on a worker thread |
| docker executor | `execution/docker.py`, `container_main.py`, `wire.py` | a container | `DockerExecutor.prove`, `_consume`, the container's `main` | a line-by-line event stream |
| operations | `tainted/operations.py`, `security_mutation.py` | saved file contents while a test suite runs | `preflight`, `reprove`, `lockout_check`, `regression_check`, `run_security_mutation`, `pairing_diff`, `completion_gate` | the harnesses, a test command, the user's checkout |
| CLI | `surfaces/cli` | in `watch`: the dirty flag of the debounce | commands, hooks, `watch_repo` | the engine, a file observer's thread |
| CI | `surfaces/ci`, `tainted/invariants.py` | a branch and files on disk | `run`, `verify_ci_ownership`, `open_pull_request`, `check_invariants` | git, GitHub, a key server, the target |
| static passes | `tainted/static`, `tainted/checks`, `applicability.py`, `orchestrator.analyze` | none | parsers and candidate generation, `BehavioralProbe` | source text; with a target, the app itself, without a login |
| tool plane | `static/tools.py`, `checks/tool_plane.py`, `llm/client.py`, `tainted/fix`, `orchestrator.fix` | none between commands but the tree | `discover_scopes`, `analyze_tool_plane`, `tool_plane_interview`, `generate_tool_plane_fix`, `reverify_tool_plane` | a language model, the developer |
| report, receipt, memories, standards | `tainted/report`, `receipt.py`, `memories.py` and others | a suppression file | pure functions | - |

`analyze` produces a ranked list of candidates. An *executor* (local or docker) takes that list
through `prove`. The surfaces call an executor: the website on a request's thread or on a worker
thread that feeds a stream, the MCP server on a worker thread that a client polls, the CLI and CI
on their only thread.

What is hard here:

* **Partial failure inside a run.** Every probe is a short protocol (log in, attack, control) and
  each step can fail in a way that looks like an answer. A refusal may be a boundary, a missing
  login, or a route that is simply wrong.
* **State shared between harnesses.** The PostgREST and the route harness log the same `Account`
  objects in, so the order of candidates decides as whom later ones speak.
* **Threads around a run.** Request thread, generator, worker and reader of the website; start,
  worker and poller of the MCP server. Timeouts bound some of the waits between them and not others.
* **Trees that move.** People save, push and redeploy while something reads what they change: a
  watch that is analysing, a gate that is resolving, a fix whose re-check was made on the tree
  before it.
* **Limits.** The candidate cap, the clock, a bounded queue, a bounded number of slots, a bounded
  job table.

`PROJECT.json` lists each hazard at its line with the properties that would notice it.

### What makes each part correct

* *Prove run*: one finding per candidate in ranked order; what is missing is counted; before the
  ownership gate nothing but the analysis's own requests; it ends.
* *Harnesses*: a verdict is backed by the exchange that justifies it; a refusal counts only when
  the owner gets in; no verb that writes is ever sent; everybody speaks as the same B.
* *Plan guard*: a supplied plan, whole or not, never turns into an unguarded run.
* *Website stream*: slots are neither lost nor given back twice; a checkout outlives the run that
  reads it; events keep their order; no party blocks another for ever.
* *MCP jobs*: a running job is never evicted and a run that ends is recorded as ended; a final answer is whole; when a job is added nothing is
  left in the table that was due to go.
* *Operations on a target*: a verdict about a fix had both its halves answered; a check that
  passes asked through every door there is.
* *Operations on a checkout*: its files are as they were when the call is over, however it ends; a
  suite's answer is about the edits of its own round.
* *Watch*: a change is followed by a run that sees it; only changes cause runs, where the observer
  reports changes alone.
* *Docker wire*: the answer is the one the run in the container gave, what the caller was shown is
  in order and whole before a report, no child is left behind.
* *Website gate*: a hosted deployment fires only for the caller to whom it issued the token that the
  URL it fires at, or that URL's DNS, shows.
* *Website trees*: an answer is about the tree that was asked for, and no tree outlives its request.
* *CI*: an unverified target is not attacked, nor asked for a rule or for the owner's record; the report and its other forms claim what the
  answers support; a pull request carries exactly the proven; a green job hides nothing.
* *Tool plane*: no pairing leaves the report unmentioned; the agent stood up is the candidate's; the
  re-check's FIXED is true of the tree the fix leaves, and said of every split that leaves no pairing;
  a gate, which leaves the agent its tools, is not called FIXED.

## The models

### `ProveRun` - one run, from the executor's call to its outcome

The run is one thread (`pc`), the app is the environment. An action is what the code does between
two answers of the app:

| action | code |
|---|---|
| `Announce` | `core_analyze`, which may ask the target without a login (`BehavioralProbe`); then `on_candidates` is handed the ranked list, and may raise; nothing has been checked yet |
| `RefusePartialPlan`, `RefuseUnowned`, `Begin` | head of `LocalExecutor.prove` and of `prove`: plan supplied in part, ownership, `seed_from_discovery` |
| `ReportUnsent`, `BeginProbe`, `StopLoop` | one turn of the loop: `budget.exhausted()`, `note_attempt()`, dispatch by check; a candidate that needs no request is concluded at once |
| `TableLogin`, `TargetedBola`, `UnfilteredRls` | `prove_candidate` |
| `ProberLogin`, `ProveRouteBola`, `OwnerReads` | `RouteProber.request` (best-effort login), `prove_route_bola`, `_owner_reads` |
| `ProveSqlInjection` | the benign, crafted and broken request and `_judge` |
| `LabelScopes`, `ReportAgent`, `RunSandbox` | `_discover_labelled_scopes`, `_prove_tool_plane`, `run_sandbox` |
| `GuardStops` | a hop off the target refused by the plan guard, which raises out of the run |
| `ReportBudget` | the second reading of the budget, after the loop |
| `Tick` | time |

Answers are kept as far as verdicts tell them apart: for a table read, the seed row, rows of
somebody else, rows of B, none, an HTTP error, or a failure to get an answer at all; similarly for
routes, SQL inputs and agent turns. `wire` records the requests sent for a candidate and goes into
its finding. The code keeps only the last exchange, so there `wire` is a history variable: it is
read by `_judge` (which in the code has its three responses at hand) and by the properties, and
by no other guard. `loose` is a history variable too: the kinds of request made outside the
candidates' exchanges, the analysis's `"bare"` GETs, the browser's `"walk"`, and a `"hop"`, a redirect off the
target that a harness followed. `RefusePartialPlan` comes before the ownership gate, as in the code.

Left out: how many rows a leak reaches (text of a note), the text of every note, provenance,
the signature of a plan and its matching of paths (a hop is on the target or off it), and the
agent driver's own loop.

### `ProveStream` - `POST /api/prove` on the website

For each request, four parties: the request thread (`TakeSlot`, `Refuse`, `HandOver`,
`StartDirect`, `EndDirect`), the generator (`Open`, `Get`, `Close`, `Join`, `Cleanup`, `Release`),
the worker (`EmitCandidates` ... `EmitEnd`, and `Put` or `PutTimesOut` for the `q.put` inside
`_emit`), and the reader (`Read`, `Disconnect`). An event is its position in `said`, so order,
loss and duplication are visible in `q` and `taken`. A timeout may strike whenever the call it
bounds is blocked, because the model has no clock. `Join` may return with the worker alive or dead
for the same reason. `Abandon` is a response that is dropped before its generator is first
iterated: a generator that never began runs no `finally`, so its slot is gone (`"lost"`), while the
checkout's own context manager is collected and cleans up.

### `McpJobs` - the job table of the MCP server

`Begin`, `Expire`/`EndExpire`, `Trim`/`EndTrim` and `Insert` are `tainted_prove_start` and the two
loops of `_evict_finished` under the lock, one table entry at a time, because the worker
(`Prove`, `Write`, `Stamp`) writes a job's fields without the lock and a poller (`Ask`,
`ReadStatus`, `ReadRest`) reads them without it. Insertion and the start of the thread are one
step: nothing between them reads either. `Prove` is the executor's return, which may never come;
`Recording` is what the worker does after it.

### `ObservedRun` and `SandboxWire` - the executor that runs in a container

`ObservedRun` is the abstract specification of an executor: candidates announced once, each finding
shown once and in order, one answer, and a report that holds exactly what was shown. A call may end
in a refusal or a failure at any time, and then there is no report at all.

`SandboxWire` is the docker executor that has to keep this promise across a process boundary.

| action | code |
|---|---|
| `Rank`, `Find`, `Report`, `Refuse`, `Fail`, `Exit` | `container_main._run` and `main`: the observers that `_emit`, and the terminal event for each way the run ends |
| `Stray`, `Diagnose`/`Diagnosed`, `Die` | what goes wrong in a container: a line that `_emit` did not write, a diagnostic, an end at any moment |
| `CannotStart`, `Spawn`, `ReadLine`, `EndOfStream`, `Close`, `Reap` | `DockerExecutor.prove`, `_consume`, and the generator `SubprocessRunner.run` with its `finally` |

The run in the container is `ProveRun`'s, and its order of events (candidates, findings, one end) is
not taken on trust: `ProveRun` implements `ObservedRun` too (`RunIsAsObserved`), and `SandboxWire`
has a container's run that keeps this order. Both
pipes are bounded; a write to a full one blocks, and to a closed one fails, which the run survives
or not as the code has it (`LocalExecutor.prove` suppresses an observer's failure for a finding
and not for the candidates). A line is one element of the pipe. Any line that `decode_event`
refuses is `noise`, whether it was printed by something else, broken in two or cut off by the end of
the process. Left out: blank lines and events of an unknown kind, which the host skips; the write
of the request to stdin, which is small; what the events carry besides their number.

### `Operations` - re-fires, lockout checks and preflights

It extends `ProveRun` and takes its probes: the finding to be re-fired is the only candidate, `pc`
is where its probe is, `wire` goes on to log what is asked as the owner, and `step` is where the
operation is.

| action | code |
|---|---|
| `RefuseTarget` | the gate at the head of each operation |
| `Refire`, `Probe`, `RefireRaises` | `_refire` with its dispatch, the probe it calls, an exception out of it |
| `StillLands`, `NotRefired`, `ClassifyRoute`, `OwnerUnasked`, `AskOwner` | the classification in `reprove`, which `second_opinion` calls under another name |
| `OwnerLogin`, `OwnerRead` | `_legit_via_postgrest`, and the same lines in `_positive_control` |
| `LockoutUndecided`, `LockoutCheck`, `DoorLogin`, `LockoutDoor` | `lockout_check`, `legitimate_access_survives` |
| `Reach`, `AuthB`, `PositiveControl`, `ControlDoor` | `preflight`, `_positive_control` |

Left out: `pairing_diff` and `completion_gate`, which compare lists, and the wording of details.

### `SuiteTrials` - operations that run the user's test suite on changed files

`regression_check` is one round with the edits of a fix, after a run on the tree as it is;
`run_security_mutation` is one round for each mutant. A round reads, remembers and writes each file
(`ReadRaises`, `JudgeUnread`, `WriteEdit`), runs the suite (`RunTrial`), and puts the files back in
a `finally` (`Restore`, `Proceed`). A file's contents are one text out of a few and its line
endings; `Garbled` is half a file, or a mutant made to another text than the one it was found in.
`kind` is what the process may do with a file, so any of reading, writing and restoring may fail.
The environment is a user who saves or deletes files (`Save`) and presses Ctrl-C (`Interrupt`), and
a suite that may time out. `before` and `said` are the suite's answers: `RegressionResult.regressed`
is `before = "pass" /\ said[1] = "fail"`, a mutant is killed when the suite said `"fail"`. A killed
process restores nothing; that is not modelled, since nothing promises otherwise.

### `WatchLoop` - `tainted watch`

Two threads: the observer's (`OnAnyEvent`) and the main one (`WatchRepo`, `ReadFile`, `EndRun`,
`StartObserver`, `Poll`, `Clear`, `Settle`, `Interrupt`). `Save` is a person's editor, in place or by
a rename over the file, `ToolEvent` a build, `ToolRead` another program that reads a source file.
Whether a read makes an event (`reads`) depends on the observer: inotify under watchdog 4 reports a file
opened and closed unwritten, and `on_any_event` asks no event for its kind. A run reads one file at a time, so a save can fall
before, between and after the reads. `at` is where the main thread is; `wait_for_change` is three
places because its flag is cleared between two waits. `base`, `due` and `heard` are history;
`heard` holds the causes of the relevant events since the latest run began.

### `Report` and `CiRun` - one job in a pipeline

`Report` is the pure part: `build_report`, the coverage note of each check, priorities, the silence
ledger, SARIF levels, the receipt's lists, as operators on the candidates kept and the findings. The
report's order is a relation (`MayRankAbove`) of which `Pick` takes a sequence, as Python's stable
sort does, and nothing depends on how ties fall.
`CiRun` is `run()` from first to last, over them:

| action | code |
|---|---|
| `Configure`, `Reach`, `Analyse`, `Narrow` | options, `BehavioralProbe`'s requests, the rest of `core_analyze`, `_changed_files` with a diff that names any files, in a checkout at the top of the repository or not |
| `Own` | `verify_ci_ownership`: any token, from any issuer, for any repository |
| `Prove` | what `ProveRun` promises: one finding per candidate in ranked order, each with the answer it rests on |
| `Fix`, `WriteEdit`, `Checkout`, `Add`, `Commit`, `Push`, `Request` | `_open_fix_pr`, `apply_edits`, the steps of `open_pull_request`; any step may fail or raise |
| `BuildReport`, `CheckInvariants`, `LockoutCheck`, `Gate` | the rest of `run()` |
| `Raise` | what nobody catches: a step's time-out, a token whose claims are no object, a summary that cannot be written |

`replies` (history) is what the target answered, which the properties compare with what is said. What
the analysis is told is taken for the worst, data without a login.
A migration's name has the second it was written in, so two fixes may or may not share one path.

### `WebsiteGate` - who may fire from the website

Signing in (`AuthLogin`, `AuthCallback`, `AuthLogout`), `OwnershipToken`, and for each request
`Arrive`, `Identify`, `Resolve`, `Verify`, `End`: the gate's cheap checks, its lookup of the address
and its lookup of the published token, apart because the lookups take time. A target is a
URL (`Site`) of a host; a token is looked for below the URL and in the TXT record of its host
(`Places`). Meanwhile whoever can write at a place publishes or withdraws tokens (`Publish`), whoever
runs the DNS points a name inside or out (`Rebind`), time passes (`Tick`) and the process is replaced, with
another secret or none (`Redeploy`). A sealed cookie is a record with the key it was sealed under;
a token with the secret of its MAC. `shown` and `out` are history: every token a place has
ever published, and whether a request's host has resolved outside since it arrived.

### `WebsiteTrees` - fetched checkouts and the analysis cache

A request fetches (`Fetch`, `FetchFails`) or opens a folder (`Open`), goes through `_analysis_for`
(`Lookup`, `Analyse`, `Store`: the lock is not held during the analysis) or an analysis of its own,
fires (`Fire`) and leaves (`Leave`). `Change` pushes or saves a new version; `Restart` ends the
process and leaves its directories. A path is a number and is never used twice, as `mkdtemp`
has it.

### `ToolPlane` - agents, their pairing, and its fix

The developer's commands over a tree that changes between them: `Analyze`, `ProveToolPlane`, `Fix`,
`Apply`, and the developer's own `RetireAgent` (what a split asks for) and `Edit`. A file is the
record of what the parsers find in it, one `parse_*` operator per format, named as in the code.
The language model labels tools as it likes, a role per tool's name and command (where the code
labels each occurrence, so no property would notice that one of two tools of one name is lost), and may answer for fewer
agents than it was asked about, or fail. `Parts` says what a tool's name is read back as when it
has been joined with others and split again at commas. `reverify_tool_plane` is modelled as it
is, on a graph in memory; the properties compare its verdict with the tree once the developer is done.
`Written` is `apply_edits` for whole files: a file of the fix may land on one that is there, the
agent's own included, and `RetireAgent` then finds nothing left to take out.

## The runs

Every run names its bounds in its MC module and `.cfg`.

| run | instance | states | shows |
|---|---|---|---|
| `prove_run` | eleven queues of at most four candidates, covering every shape the dispatch tells apart and the orders in which harnesses share a login; seven settings (guarded, unguarded, partial plan, unowned, owned without keys, capped, capped and timed); two tables, one with the seed; clock 0..1 | 1,938,702 | five invariants on what a verdict rests on, refinement of `ObservedRun` |
| `prove_stream` | two requests, one slot, a queue of two, at most one finding | 180,699 | slots, checkouts, loss, and two leads-to properties |
| `prove_stream_run_over` | as `prove_stream` | - | refuted, see below |
| `mcp_jobs` | three jobs, a table of one, TTL 1, clock 0..2, one job polled | 238,352 | what eviction must keep and what it must remove, whole answers, a run that is over ends its job |
| `sandbox_wire` | up to three findings, pipes of two lines and two diagnostics | 8,390 | refinement of `ObservedRun`, whole answers, every call answered unless stderr fills, no child left |
| `operations` | the finding of each shape that `_refire` tells apart (six), with and without a seed, four settings, each operation, any earlier login, emails for any of the accounts | 321,236 | what a verdict about a fix rests on, what a check that passes has seen |
| `suite_trials` | two files, a fix that edits both or one of them twice, two mutants of one file or of two, five suites | 369,856 | files restored, rounds kept apart |
| `watch_loop` | two source files, a temporary name, a file of a build; versions 0..1, two events under way, an observer that reports reads or not | 1,254,377 | no save forgotten, no run without a save (or, where those are reported, a read), every save analysed |
| `ci_run` | four candidates of four checks in three files, one rule, one table, every threshold, any subset of files changed | 2,359,484 | what is sent, said, written and gated |
| `website_gate` | two visitors; the machine itself, a name with two URLs and an address; one request at a time, two processes, one sign-in under way, one token, shown at one place, clock 0..1 | 3,588,072 | no shot without shown ownership |
| `website_trees` | two requests, one repository, one folder, a cache of one, three fetches, versions 0..1, two processes | 684,444 | answers current, trees removed |
| `tool_plane` | two files with one stem, five contents (one for each way to declare), six tools, one with a comma and one that is a comma; two labellings that swap source and sink, exclusions of either file; one edit, one fix, one agent left unanswered | 240,684 | pairings accounted for, the right agent stood up, the re-check's verdict on splits and gates |

Why the bounds are enough. In a run, candidates affect one another only through the accounts'
tokens, the discovered seed, the labelled scopes and the budget, so two probes in a row reach every
interaction and the queue of four only serves the budget. The clock needs two values because the
budget compares it with one limit. Two requests for one slot are the smallest contention; a queue
of two and runs of up to five events (candidates, one finding, report, end) fill it with events
left over; requests do not interact except through the semaphore. Three jobs through a table of
one make both loops of eviction skip one entry and delete another, and two ticks of the clock tell a job
past its time to live from one just within it. `Ends` in `MCMcpJobs` lets only
the polled job end in every way, because eviction looks at whether a job runs and not at how it
ended. A wire of two lines against a stream of up to five and any number of stray ones is full with
events left over; two diagnostics are one that fits and one that may block. An operation is about
one finding or one target, so one candidate is all there is; its table is the seed's or another
one. Two files and two rounds are the least in which one restoration can fail next to one that does
not, an edit can meet an earlier one, and a mutant could be left in the tree of the next; the
suites fail on nothing, on the tree as found, on one edit or on every edit.

A watch needs two files so that a run can read one before and one after a save, and two events so
that one is under way while the flag is cleared. The four candidates of a job are one for each way
a fix is placed (a splice beside the file, a splice through a link, a migration, none because a
person must decide), two of them in one file. The gate's steps read one request and one browser at a time, so
one slot and one token reach every order of expiry, publication and deployment between them; a
second visitor is needed for tokens and states of somebody else, a second host for tokens of
another host, and a second URL of one host for tokens of another path. A cache of one with two requests evicts. Two files of one stem are the least in which
a name is not an agent; two agents in one file, the least in which a name and a file are not; one
edit between analysis and proof or fix is the least in which either is stale. Every safety property of
every passing run is also proved without any of these bounds; only liveness rests on them.

Symmetry is used where every constant and property treats the permuted values alike: the two
visitors of `website_gate` and the two files of `tool_plane`, neither of which has a liveness property.

Deadlock is checked in `prove_run`, `operations` and `suite_trials`, where what is finished stutters
explicitly. The other models stop for good when every request, job, call or command is finished (or
waits for a party that is not obliged to act, or a bound is reached), so `CHECK_DEADLOCK` is off there
and progress is a matter of the leads-to properties.

Each property of a passing run has a mutant: a definition of the model changed the way a plausible
bug would change the code, defined just before the true one and commented `Fault`, under which TLC
refutes the property.

### Fairness

* `ProveRun`, `Operations`, `SuiteTrials`: `WF` of the only thread, whose requests and runs of a
  suite have time limits. Time and the user need do nothing. None of the runs' properties depends on it.
* `ProveStream`: `WF` of the generator and of the worker's `_emit`. Nothing is assumed of the run
  itself, which may be stuck for ever, of new requests or of the reader. That readers do not leave a
  line unread for ever is stated as a hypothesis (`ReadersKeepUp`) of the one property that needs it.
* `McpJobs`: the thread that holds the lock proceeds, and so does a worker whose executor has returned or
  raised (`Recording`). An executor need never return, since the docker one has no timeout and a container
  may block for ever; a client need not ask.
* `SandboxWire`: `WF` of the run in the container, whose requests have time limits, and of
  the host's thread. No mishap need ever happen.
* `WatchLoop`: `WF` of the main thread and of `OnAnyEvent`: both threads run, and an analysis ends.
  People and tools need do nothing; that people pause, and other programs' reads where those are reported,
  is the hypothesis (`EditsPause`) of `SavesAreAnalysed`, because the debounce waits for a pause by
  design. A run's own reads need no hypothesis: they end with the run.
* `CiRun`, `WebsiteGate`, `WebsiteTrees`, `ToolPlane` state safety only and assume no fairness.

### How the models fit together

`ObservedRun` is implemented twice. `ProveRun` is the executor in this process: `Observed` is an
`INSTANCE` of it `WITH` the findings made so far as what was shown. `SandboxWire` is the one in a
container: `Outer` is an `INSTANCE` `WITH` what the host told the caller. `Operations` extends `ProveRun` and takes its probes
as they are. `CiRun` extends `Report`, and its `Prove` is the promise `FindingsFollowTheQueue` and
`ClaimsRestOnARequest` of `ProveRun` establish; `LockoutCheck` is what `LockoutPassIsEarned` of `Operations` does.
`ProveStream` and `McpJobs` run any executor on their threads and rely on nothing it promises.

### What the code does not do

One statement of the repository is refuted by a run. `RunOverFreesTheSlot`: the marker that ends a stream can be dropped by a full queue, and the generator
then waits for ever and keeps its slot, although a comment in `app.py` says that the generator
"releases it when the run is over". `EndFreesTheSlot`, which holds, says this is the only way for a
stream whose reader keeps up.

Other places where code and words part were met while modelling. The models follow the code, so no property says the opposite:

* `analyze` with a target asks it first: where neither a signature nor the model decides whether the app has a
  request plane, `BehavioralProbe` sends it up to seven GETs without credentials (`orchestrator.py:90-96`,
  `applicability.py:210-216`), before any ownership check, in CI and in every `prove`. `ownership.py:23`
  says "`analyze` is never gated — it touches nothing", and `entrypoint.py:164` "Every request this job
  sends to the target is gated on this". `NothingUnverified` and `GateFirst` say what is true: these GETs are all
  an unverified target gets. The comment on the paths it asks for calls data so obtained "a finding, not merely a
  detection" (`orchestrator.py:48`); it ends in the applicability decision and gates nothing, as
  `GreenHidesNothing` says.
* `report/model.py:198-204` notes "no attack was run" of a check whose only findings are reported, and the SARIF
  legend calls them "not fired" (`sarif.py:121`), also when the attack was sent, B was refused and the
  owner's request left it undecided (`route_probes.py:228-234`). `CoverageIsEarned` names these findings
  (`Undecided`) as its one exception.
* "A hosted Tainted never fires at one", an internal host (`app.py:736`), holds for the moment of the look only:
  the address is not kept, and `verify` and every later request look the name up again. `FiredOnlyWhereProved`
  says that the host resolved outside at some moment since the request, and no more.
* `app.py:411` asks for the token at `https://{host}` and the well-known path, but it is looked for below the URL
  (`ownership.py:94`), so whoever can write below one path of a shared host shows ownership of that URL,
  and with a token that was issued for the host.
* `_Rerun` (`watch.py:88`) "turns file events into exactly one pending re-run", and a campaign that writes is
  the one thing said to make "every run trigger the next one" (`watch.py:61-70`). The handler asks no event for
  its kind (`:108-116`), and with `watchdog>=4.0` (`surfaces/cli/pyproject.toml:21`) inotify reports files opened and closed unwritten:
  there each run's own reads trigger the next. `OnlySavesCauseRuns` has it as its exception (`reads`).
* `fix/paths.py:9` calls an edit without an original "a new file". Nothing checks that it is one: it takes
  the place of whatever is there (`:40`), in CI and in `fix --apply`; only an edit that quotes source is put beside it.
* `execution/base.py:156` asks the budget again after the loop, so a run that attempted every
  candidate under a cap equal to their number is reported as stopped early, against `budget.py:51`.
* `route_probes.py:126`: after a login that fails, a route is called held on what a request without a
  login was refused, and no note says so (`:127`, `:155`).
* `injection_probes.py:125`: a route that refuses all three SQL inputs is called not reproduced; this
  probe has no control request, unlike the route probe (`route_probes.py:230`).
* `operations.py:208`: re-firing "exactly the probe this finding's check uses" knows three probes, and
  the finding of an agent is re-fired as reads of the seed's table.
* `security_mutation.py:181` and `operations.py:393` read and write as text: files with DOS line
  endings come back with Unix ones. `TreeRestored` is about everything but line endings.
* `entrypoint.py:153-158`: in a checkout below the repository's root, `git diff --name-only` names paths
  from the root and candidates paths from the checkout, so the scan narrows to nothing, against the
  docstring of `_changed_files`. `Narrow` models it.
* `pull_request.py:63`: two fixes that land on one path leave the later one there; the body lists both.
* `priority.py:9` says that a proven LOW outranks a reported CRITICAL, 40 against 35; a critical that is
  certain by structure is floored at 45. `EverythingIsAccountedFor` has it as an exception.
* `app.py:851`: keyed on a path that is new for each request, the cache never answers, and its entries
  outlive their trees. `AnswersAreCurrent` holds all the same.
* `github.py:339`: a broken archive may raise `EOFError` or `zlib.error`, which the clause does not
  name, and the directory stays. `strays` in `WebsiteTrees` counts it.
* `app.py:346` takes a grant with an empty scope for the access that was asked for, where
  `github.py:198` says that an empty scope is the narrow grant and not an unknown one.
* The docstring of `reverify_tool_plane` says that a complete gate is "REPORTED, never FIXED"
  (`reverify.py:40`). A candidate holds its tools' names joined with commas and the re-check splits them
  again (`:50`), so an agent with a node named `get, sort` is not recognised, its pairing reads as gone
  and the gate is called FIXED. A gate whose file is written over the agent's has the same effect.
  A name with blanks around it is stripped by the re-check (`:50`) and not recognised either.
  `GateIsNotAFix`, which holds and is a part of `FixedClosesThePairing`, says that these are the only ways for a
  tree; without one, as on the website, all names of one side must be nothing but commas and blanks.
* The tool plane: agents of one CrewAI file without a literal role share a name, and a split's re-check
  retires them all; a `@tool` in such a file also yields an agent of the whole file, which pairs what no
  agent holds; a handle contains the labelled sinks (`models.py:150`) and so moves between two analyses;
  fixes for two agents whose names reduce to one segment overwrite each other's files. The first is,
  with names that hold a comma, an exception that `SplitClosesThePairing` names (`HasTwin`, `NamesSurvive`).

Two more remarks, which contradict no line of the repository. Above its ceiling the MCP job table
drops the finished job that was inserted first, not the one that finished first. Stderr of the
container is read only when its stdout has ended, so a container that fills that pipe waits for a
host that waits for its stdout; `AnsweredUnlessJammed` shows that this is the only way for a call to
stay unanswered. A job of the MCP server whose container does so stays "running", and so does its entry.

## The proofs

| module | proves about |
|---|---|
| `EngineProofs` | `ProveRun`, `Operations` and `ToolPlane`: the engine that every surface calls |
| `ServersProofs` | `McpJobs` and `WebsiteTrees`: what the servers keep between requests |
| `ProveStreamProofs`, `SandboxWireProofs`, `SuiteTrialsProofs`, `WatchLoopProofs`, `CiRunProofs`, `WebsiteGateProofs` | the model of that name |

The theorems assume what the modules name as their assumptions on constants and nothing else: any
tables, any settings, any candidate lists, any number of requests, jobs, slots, queue entries and
findings, pipes of any size, any files, edits and rounds, any rules, visitors, hosts, lives of a token and
agents. The assumptions are types, but for these: a fix is one round and a mutant one edit
(`SuiteTrials`), CI's candidates are a finite list (`Discovered`), a request is not the value that stands
for none (`NoneIsNoRequest`), and every source file is one of the formats the parsers
read (`ContentsAssumption`).

Every safety property that a passing run checks is a theorem, and so are both refinements of
`ObservedRun`. Some theorems state properties that no run repeats: `GateFirst`, `WritesHeld`,
`Contained` (no redirect off the target is followed under a plan) and `SetupIsShown`.

**`ProveRun`.** The inductive invariant is
`TypeOK /\ InStep /\ WireOK /\ OutcomeOK /\ AllHonest /\ GuardOK`.
None of the properties is inductive alone: that a route called held had a control follows only if
every state between the attack and the verdict is known to carry exactly one refusal by B.
`InStep` ties `pc` to the kind of candidate and the number of findings to `attempted`; `WireOK`
says, for each `pc`, what the current candidate's exchanges look like; `AllHonest` is the record
those leave in every finding; `OutcomeOK` is the arithmetic of the budget; `GuardOK` that under a plan
no hop off the target was followed, and when there was a walk. Each action has one lemma-sized step, and the theorems are read off the
invariant: `Typing`, `VerdictsRestOnRequests`, `RouteControl`, `QueueFollowed`, `Contained`, and
`WritesHeld`: no request is sent for a candidate whose verb writes.

Three theorems have invariants of their own on top of `TypeOK`. `GateFirst`
(`NothingBeforeOwnership`): a run whose target is neither local nor owned has not begun or was turned
away, so the analysis's GETs are all it has sent. `OneB` (`HarnessesAgreeOnB`): `Shape` reduces every action to what it does to the exchanges,
the findings and B's token, so that `TokenOK` (whoever spoke as a logged-in B left the token in the
shared account, and later findings and the probe under way speak with it) is kept by three cases
rather than one for each action. `ClaimsAreWitnessed` (`ProvenIsWitnessed`): every step that records PROVEN has
just received an answer only a hole explains, or, for the SQL probe, one of its three exchanges is;
`SqlAsB` says that those three are B's.

`Observable` is the refinement: `Spec => Observed!Spec`. `Places` says where a step may take a run (it
begins, is told of and ends once, and findings come from inside the loop only), and `InStep`, that the
n-th finding is the n-th candidate's. So a step that changes the findings is the abstract specification's
next one, and the last step reports as many as were shown.

**`Operations`.** The inductive invariant is `OpInv`: for each operation and each step of it,
what has been asked and answered so far. `ReproveOK` follows the probe being fired again, step by
step of `ProveRun`; `LockoutOK` and `PreflightOK` say which doors have been tried; `Earned` is the four
properties, which speak of finished operations only. The theorems are `OpTyping`, `FixedIsEarned`,
`BlockedIsEarned`, `LockoutIsEarned`, `SetupIsShown`. The typing lemmas of `ProveRun` are reused,
since a re-fire takes the same actions.

**`ToolPlane`.** The inductive invariant is `PlaneInv`: `TreeOK` and `AnalysisOK`, the shape of the
tree and of an analysis; `Fresh`, that a candidate whose file was not written since is an agent of that file
with the candidate's tools; `FixOK`, that a fix is what the interview's answer makes of its candidate;
and `Pending`, that until the developer is done the verdict is the one the re-check would give on the
tree as it is now (`VerdictStands`). The last is the heart of it: the verdict was given on a graph in
memory, and it has to survive the manifests being written, which may overwrite files, before it is
compared with the tree the developer ends with. An edit ends a fix, so nothing else has to be survived.
`PairsAreAccountedFor` needs no invariant but what one pass returns (`Passes`). `TurnedAgents` follows from
`Fresh` and from an agent that is not code being alone in its file. `SplitsClose` and `CleanIsFixed` are
the two directions of the re-check's verdict on a split: said, it is true, and true, it is said. They
meet in `AgentsAfterTheSplit`, which computes the agents of the final tree. `GatesAreReported` is about
gates: the agent is still in the graph under its name and with its tools (`AgentOfTheFix`), so its pairing
is seen and the verdict is not FIXED, unless a name fell apart or the gate's file overwrote the agent's.
`FixedIsFixed` puts the two together.

**`SuiteTrialsProofs`.** `Restored` rests on `RestoreInv`: a file that differs from what was found is
remembered with the text it was found with, or is excused (the user saved it, its restoration
failed, it was edited twice or could not be read). `RoundsApart` needs to know the
tree in the middle of a round: `Applied(n)` says that it is what was found with the first `n - 1` edits
of this round on it, and nothing of an earlier one. It uses the part of `ConstantsAssumption` that
says that a fix is one round and a mutant one edit.

**`ProveStreamProofs`.** The inductive invariant is `TypeOK /\ SlotsAccounted /\ DirOK`. `DirOK`
ties the checkout to the place of its request and to the worker's state: a removed checkout belongs
to a request that is past its cleanup, and a worker that was dead then is dead for good.
`SlotsAccounted` is counted by the lemmas on adding an element to and taking one from the set of
holders, from the library's facts about cardinality. `Typing` contains that the
semaphore never exceeds its initial value, which needs the accounting.

`ShortRunsLoseNothing` has an invariant of its own, `Unlost`: as long as a run has said no more than the
queue holds, what its reader has taken, what is queued and what its emitter is putting are together all
that it said. So the queue is not full when the emitter comes to it, and a `put` cannot time out.

**`SandboxWireProofs`.** `Refinement` is the theorem `Spec => Outer!Spec`. Its inductive invariant
is `TypeOK /\ RankedFirst /\ StreamOK /\ FinalOK /\ AnswerIsTheRuns`. The argument numbers the events
of a run: the candidates are event 0, finding `n` is event `n`, the terminal event is one more.
`StreamOK` says that up to the first noise in the pipe the i-th line is the i-th event the caller has
not been told yet, so the host, which stops at the first noise, can only ever tell the next one;
`FinalOK` that a terminal line is the last one of its run. Both are stated with bounds on indices
rather than by recursion over the pipe, so that a read (all indices move down by one) and a write
(one index is added) are arithmetic.

**`WatchLoopProofs`.** `NoSaveIsLost` follows a save from the queue to the flag to the run: its
invariant says that what is due is in the queue, in the flag, or in a settling loop that is bound to
run, and that what the latest run read of a file is what is there unless such a save came since.
`OneRunPerBurst` needs that a flag raised since the latest run means that a person's save was heard, or, where
reads are reported, a read (`HeardOf`); a build's events are irrelevant and stay so in the queue.

**`CiRunProofs`.** `Owned` says that nothing is verified, and nothing answered but the analysis's own
requests, before the token was looked at, and that from then on both mean that it was proper; the one lemma
about tokens is `AcceptedIsProper`. `GreenIsEarned` needs
`Answering`: each party was asked in its turn (`InTurn`), and every answer that should turn the job red
left its mark on what the gate reads (`Marked`), so that nothing told on the way is lost before the exit code.

The three theorems about words each have an invariant. `CoverageEarned`: `Faithful` ties findings and
answers both ways (a finding that fired has an answer that says the same, an answer to an attack has a
finding), and `Honest` says that every note already written has earned its reason; notes are written while the
findings no longer change. `EverythingAccountedFor`: `Counted` says that there is one finding for each
candidate kept once anything is said of them, and the rest is counting (`Rows`: every candidate has a row
and no two rows share one). `RequestsCarryTheProven`: `Filed` follows the edits from the findings into the
files, the index, the commit and the request, and says at each command what is already there.

**`WebsiteGateProofs`.** The inductive invariant is `TypeOK /\ Signed /\ Publicly /\ Asked`: a browser's
session is its visitor's own, a place's present token is one it has shown, and a request carries
what its place at the gate has checked, and on record that its host resolved outside if it does. `Asked` is why the gate may be slow: what `Identify` found
stays true through the lookups because a redeployment ends every request. `SlotKeeps`, `MoveKeeps` and `CookiesKeep`
reduce the actions to what they touch.

**`McpJobs`.** The inductive invariant is `JobsInv`: types; `Locked`, what the request inside the lock has
taken and has still to visit; `Working`, for each worker, which of its assignments are made, so that a
job with a final status is `Whole`; `Kept`, that a running job is in the table; `Polled`, what a client may
have read so far. `RunningSurvives` and `AnswersAreWhole` are read off it, and `ResultsSurvive`, an action
property, from its steps. A client reads without the lock: its answer is whole because it reads
the status first, and a worker writes it after everything that an answer carries. `EvictionSweeps` adds `Timed` (only an ended worker has stamped its
job) and `Swept`: of the entries visited so far, none is left that was past its time to live or, above the
ceiling, had ended before this sweep began. A job may end while the sweep passes it; that is why it says "before".

**`WebsiteTrees`.** The inductive invariant is `TreesInv`: `Apart` gives every request that has a directory one of
its own; `Current`, that what a request has read is no older than the request; `Unseen`, that no entry of
the cache is under the directory of a request that has yet to look for it. `Unseen` is why a stale answer is
impossible, and also why the cache never answers: a path is new for each request. `AnswersDescribeTheClick` and
`TreesAreRemoved` are read off it.

**Only model-checked.** Liveness under fairness (`ClosingFreesTheSlot`, `EndFreesTheSlot`, `RunOverEndsJob`,
`ChildIsReaped`, `AnsweredUnlessJammed`, `SavesAreAnalysed`) and anything about `ENABLED` is out of the
prover's reach and stays with TLC, as would induction over recursive definitions.

## The plan

1. *Done.* The models and runs above, a proof of every safety property a passing run checks, and both
   refinements of `ObservedRun`.
2. `ProveStream`'s worker as an implementation of `ObservedRun` up to what the queue drops, and
   `McpJobs`' worker as one for the client that polls.
3. An abstract lock for `ProveStream`'s slots and an abstract store for the job table, as the
   specifications those two implement.
4. The campaigns of Stryker and mutmut, which also write into the tree they measure.

## Not modelled, and why

* The static passes but for the tool plane, and the generation of candidates: they read source text and
  keep no state. The requests of `BehavioralProbe` are modelled, its decision is not. `ProveRun` and `CiRun` take any ranked list; `ToolPlane` takes what a parser finds.
* Cryptography of tokens, cookies, receipts and plans: a signature is valid or not, for the key it
  was made with.
* The browser walk, GitHub, DNS, key servers and language models are external: the models let them
  answer anything, or fail.
* The text of patches, rules and test cases; rendering, notes, prose, the frontend, the demo's canned
  data and the benchmark.
* The CLI's commands parse options and print, except `watch` and `fix --apply`; its hooks write
  settings files.
* `trifecta.py`, `standards.py`, `memories.py` and their like are pure functions of
  one finished analysis.
