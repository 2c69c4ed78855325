# Verification of EvalOps Lab

TLA+ models of the evaluation workspace of EvalOps Lab (`src/src/evalops`),
the TLC runs that check them on small instances and the TLAPS proofs about them
for instances of any size. Paths below are relative to `src/src/evalops/`.

## The system

EvalOps Lab evaluates retrieval and hallucination detection. It has three
parts: the *workspace*, a local multi-threaded server with a page in the
browser, which keeps inputs, runs, jobs, comparisons and exports as files; the
*pilots*, resumable batches of calls to remote and local judges, whose sessions
pass files on to one another; and the *tools* that prepare datasets, measure
retrieval and predictions, and compare what was measured.

| component | state | operations | what is hard | what makes it correct |
|---|---|---|---|---|
| job records (`workspace/jobs/models.py`, `storage.py:795-899`) | `jobs/<id>/job.json` with state, revision, cancel flag | create, compare-and-swap update, list | updates of several threads, torn creates | only allowed transitions; a terminal job is history |
| queue (`workspace/jobs/queue.py`) | `_pending`, `_pending_ids`, `_thread`, `_stop_requested` | start, recover, stop, enqueue, cancel, worker loop | lost wake-ups, recovery beside a worker, shutdown with work queued | one job at work; every accepted job ends |
| run service (`workspace/application/runs.py`) | `_submission_lock`, run configs | create, retry, cancel, execute | racing retries, cancel against commit | one active job per run; a complete run is final |
| evidence (`storage.py:489-608`) | `result.json`, `provenance.json` of a run | write, read, discard | crashes and failures between two files | a COMPLETE job has the pair it wrote |
| lifespan (`workspace/api/app.py`) | the process | boot, drain, stop | requests during boot and stop | nothing is lost on a restart |
| registry and state (`storage.py:181-270`) | `registry.json`, `workspace.json`, `state.json` | create, list, rename, pin a baseline | two files a create, read-modify-write | what an owner was told exists stays |
| ingestion (`workspace/ingestion`) | imported content, manifests, referenced files | import, reference, read | content before manifest, files that change | a run evaluates the bytes it has the checksums of |
| comparisons (`workspace/application/comparisons.py`, `workspace/comparison`) | `result.json`, `failures.json`, `config.json` | compare, list, read | three files, pinned checksum | a record is whole or absent |
| exports (`workspace/application/exports.py`) | previews in memory, destination, manifest | preview, confirm | stale source, expiry, partial failure | what is exported is what was previewed |
| event stream (`workspace/api/routes_jobs.py:48-78`) | last revision of one client | poll, reconnect | skipped revisions, bounded life | the terminal revision is shown |
| sessions (`workspace/security.py`, `workspace/cli.py`) | nonce, session ids, cookies | consume, validate | two tabs with one link, restarts | a start lets one browser in |
| pages (the repository's `apps/workspace/src`) | what a page shows | load, create, watch, cancel, retry | answers that arrive late | a page never goes back |
| remote pilot (`pilot/execution.py`, `pilot/rate_limit.py`, `pilot/provenance.py`, `scripts/run_phase5a_pilot.py`) | state files, report, budget, breaker, pace, versions, request ledger | preflight, run, resume, retry, regenerate, repeat | crash between call, save and report; three counters over nested loops | no call beyond the budget; a success is never repeated; every request is booked once |
| local pilots and full run (`scripts/run_phase5a_local_pilot*.py`, `run_phase5b_local_full.py`) | preflight, state files, diagnostics, reports | preflight, run, resume, repeat, authorize, stop | commit, data and weights change between sessions | one model has answered, at a commit that was tried |
| judge (`evaluators/judge`) | none | call, parse, classify | error classes, retries | a failure is never a decision |
| measures (`evaluators`, `pilot/analysis.py`, `full_analysis.py`, `sampling.py`, `regression`) | none | metrics, samples, thresholds, comparisons | ties, empty populations, boundaries | parts add up to the whole they are parts of |
| datasets (`datasets`, `benchmarks`) | prepared files and their manifest | copy, validate, load, run | deaths between copies and manifest | a manifest tells what is in its place |
| conversions, evidence console, health probes | files | convert, print, render | I/O | not modelled |

Requests run in threads of their own (FastAPI runs plain `def` routes in a
thread pool) and share one `WorkspaceStore` (`_job_lock`), one
`RetrievalRunService` (`_submission_lock`) and one `SingleWorkerQueue`
(`_lock`), whose worker thread calls back into the service. All that outlives
the process is files; a file is created by a `mkdir` and a `link`
(`storage.py:143-162`) and replaced atomically.

## Modules

| module | what it is |
|---|---|
| `JobRecords` | operators: job states, allowed transitions, the guards and effect of `update_job_record` |
| `JobLifecycle` | the abstract specification: what the workspace promises about jobs and published evidence, without queue, thread, lock, file or crash |
| `RunService` | the job core in detail: requests, worker, locks, files, crashes, faults |
| `RunServiceInvariants` | its properties, the inductive strengthening, the refinement mapping |
| `RunServiceProofs` | TLAPS proofs: the evidence invariant, what follows from it, and that what is complete never changes |
| `RunServiceLifecycle` | TLAPS proofs: queue and worker, that `RunService` implements `JobLifecycle`, and that its loops end |
| `MCRunService` + `.cfg` | the instances TLC checks |
| `PilotExecution` | the resumable pilot: sessions, budget, pace, breaker, retries, regenerations, versions, state file, report, crashes |
| `PilotProperties` | its properties and the inductive strengthening |
| `PilotProofs` | TLAPS proofs: the invariant and every property the run checks |
| `MCPilot` + `.cfg` | the instances TLC checks |
| `EvidenceStore` | what comparisons and exports share: the files of a workspace, previews, requests and their locks, edits, time, crashes |
| `ComparisonService` | pin a baseline, compare, save a comparison with its rollback |
| `ExportService` | preview, expiry, confirm, destination, manifest |
| `EvidenceFlow` | the two services composed on one store, and what holds of the evidence that leaves a workspace |
| `EvidenceFlowProofs` | TLAPS proofs: every property of comparisons and exports |
| `MCEvidence` + `.cfg` | the instances TLC checks |
| `OwnerSessions` | links, sessions, cookies, starts of the process |
| `WorkspaceRegistry` | the registry with its requests, and the overview page |
| `InputStore` | uploads, references, manifests, and what a run makes of them |
| `JobPage` | a job's routes, its bounded event stream, and its progress page |
| `Home` | the four composed: one of the last three under the sessions |
| `HomeProofs` | TLAPS proofs: owners and their workspaces, what runs make of inputs, the progress page |
| `MCHome` + `.cfg` | the instances TLC checks |
| `PilotLedger` | preflight, runs and consistency sessions of the remote pilot, and what they book of their requests |
| `LocalSession` | what the local experiments share: files, judge, the loop over the examples |
| `LocalPilotV1`, `LocalPilotV2`, `LocalPilotV3`, `LocalFull` | one script each |
| `LocalPilots` | the four over the files they share, in a checkout that changes |
| `LocalPilotsProofs` | TLAPS proofs: every property of the local experiments |
| `JudgeCall` | operators: from an exchange with a service to the trace of a judge, and what is asked of them |
| `Ratios` | operators: exact fractions, their sums, and the order in which what has a score is listed |
| `Classification`, `PilotAnalysis`, `FullAnalysis` | operators: predictions, metrics, thresholds, samples, summaries, recommendations, calibration |
| `RetrievalScoring` | operators: ranking, metrics, rules of comparison, transitions |
| `DatasetRecords` | operators: loaders, validators, benchmarks, exit codes of commands |
| `Preparation` | the preparation of a dataset's directory, file by file |
| `Measurements`, `RetrievalQuestions` | what is asked of the other operators, and what the answers must satisfy |
| `Tools` | all of these composed: one tool at work at a time |
| `MeasureProofs` | TLAPS proofs: what the operators of the tools compute, and every kind of question about them |
| `ToolProofs` | TLAPS proofs: every property of the `tools` run, and that the tools are their components |
| `MCTools` + `.cfg` | the instance TLC checks |

The modules fall into five parts. The job core produces the evidence of runs, the
evidence flow reads it: all it needs of the job core is that a run which is
complete never changes, and that is what `FinalityTheorem` proves; so a run
completes in one step there (`CompleteRun`). The home is what the owner meets
around the two: sessions, registry, inputs, and the progress page of a job,
whose record changes there as `JobRecords` allows. The remote pilot and the
tools are batches that neither read nor write the workspace.

### RunService and the code

State on disk: `jobs` (all `job.json`; `NONE` is no directory, `TORN` a
directory without its file), `runs` (saved configs), `result` and `provenance`
(per run, the job that wrote the file: contents are told apart by their writer
only). State of the process: `pending`, `stopRequested`, `thread`, and the
threads themselves: `wk`, the worker, and `cl`, the requests and `Main`, each a
record of a program counter and the local variables its code still needs.
`server` is where the lifespan is.

One step is what a thread does between two points where another thread or the
end of the process can come in between. A read of a record without a lock is a
step; a body under `_job_lock` is one step, except where the process can die
between two file writes, and there it is a step per write with the lock held
(`JobLockFree` is false at those program counters). `_lock` and
`_submission_lock` are held over several steps and are treated the same way.

| code | actions |
|---|---|
| `_worker_loop`, `_finish_uncompleted` | `WorkerGet`, `WorkerRead`, `WorkerClaim`, `WorkerReread`, `WorkerFinish`, `WorkerFinishCas` |
| `execute_job`, `_advance`, `transition`, `_check_cancel`, `_fail` | `ExecuteBegin`, `ReadInputs`, `AdvanceRead`, `TransitionRead`, `AdvanceCas`, `Compute`, `CheckCancel`, `FailCas` |
| `write_run_artifacts` | `WriteResult`, `WriteProvenance`, `Commit`, `WriteFails` |
| `request_cancel` | `CancelBegin`, `CancelRead`, `CancelCas` |
| `create_and_enqueue`, `retry_job` | `CreateRun`, `RetryCheck`, `DiscardResult`, `DiscardProvenance` |
| `enqueue`, `save_job_record` | `Enqueue`, `Create`, `EnqueueFails` |
| `start`, `recover` | `StartBegin`, `RecoverJob`, `StartWorker` |
| `stop`, lifespan, process | `Boot`, `StopBegin`, `StopJoin`, `StopClear`, `Exit`, `Crash` |
| a store call that raises | `StoreFails`, `WriteFails`, `EnqueueFails` |

Abstractions, each with its reason:

- `_pending_ids` is the set of what is in `_pending`: it is filled with it, and
  discarded right after the `get` (`queue.py:144-150`).
- A listing of all records is one read. Listings only decide whether a run has
  an active or complete job, under `_submission_lock`, and what recovery finds,
  under `_lock` without a worker.
- Job identities are numbers in the order of their creation; the code orders by
  `created_at`.
- The evaluation computes nothing: only who wrote a file is recorded. Inputs
  fail as a choice of `ReadInputs`; its three error codes are one.
- One worker thread is modelled; `QueueIsCoherent` says that no second
  one is started beside it. Requests are drained before the lifespan stops the
  queue (that is the server's doing, and external): `stop()` called beside a
  `start()` could forget a living worker (`queue.py:97-101`).
- There is one workspace; job ids are unique over workspaces and the queue is
  shared by them.

### PilotExecution and the code

A session is one invocation of `scripts/run_phase5a_pilot.py`: it reads the
state file and the last report, runs `run_provider_pilot` and writes its report.
It is one sequential process; what is hard is its nested loops, the four objects
they update (`RequestBudget`, `RateAwareRequestScheduler`,
`ModelVersionContinuity`, `PilotStateStore`), and that the process can die
between any two steps while only `records` and `report` stay.

| code | actions |
|---|---|
| `_run_base` up to the call, `_resume_request_budget`, `_resume_model_version_sets` | `Begin` |
| the two `for` loops and the skip (`execution.py:120-130`) | `Pick` |
| `reserve`, `before_request` (`:132-134`) | `Request` |
| the evaluator (`:135`), external | `Call`: any answer, after any of the latencies |
| `observe`, the breaker, regeneration (`:136-163`) | `Observe` |
| `success_observer` (`:172-173`, `provenance.py:32-43`) | `Accept` |
| `upsert` (`:174`, `:61-79`) | `Save` |
| settled, or retry after a sleep (`:177-187`) | `Advance` |
| the report (`run_phase5a_pilot.py:1122-1143`) | `Report` |
| death of the process, a write that raises | `Crash` |

Abstractions, each with its reason:

- A pair is a provider and an example, numbered in the order of the two loops:
  the loops only ever go forward, and every object but `parse_regenerations`
  ignores which provider a pair belongs to.
- `calls` is the ledger of the session's calls; only its last entry, `trace`, is
  a variable of the code. The others are history for the properties.
- A prediction is told from another by its model version only. Kinds of
  answers: a 429, a 429 that names the daily quota (`RPD`), another error of
  `RETRYABLE_ERRORS`, an answer that does not parse, an error that is not
  retried, a success.
- Time passes only in sleeps and in calls, in units; `MinInterval = 0` is a
  pilot without a scheduler. `Retry-After` comes with a 429 only, and is 0 when
  it is absent. `wait_before_retry` reads the delay of the 429 just observed;
  its fallback, `_last_retry_after_seconds`, holds the same value at that point.
- Files are replaced atomically, so a write happens or the session ends there.
- The report's other contents decide nothing in the loop; its ledger of requests
  is `PilotLedger`'s.

### The evidence flow and the code

On disk: `evidence` (the result and the checksum in the provenance of every
run), `baseline` (the pointer in the workspace state), `comparisons` (a record
and the files that are there, of every directory in the order of creation),
`exported` (what lies in the directories of the user), `manifests`. In memory:
`previews`, of which `live` are still in `_prepared`, and the requests `cl`,
each with what it has read so far. A request that is refused before it has
changed anything takes no step.

| code | actions |
|---|---|
| `put_baseline`, `set_baseline` | `PinBegin`, `ReadOperand`, `PinSave` |
| `create_comparison` | `CompareBegin`, `ReadOperand` (twice), `Assess` |
| `save_comparison_record` | `SaveBegin`, `WriteNext`, `SaveFails` |
| `preview_run`, `preview_comparison` | `PreviewBegin`, `ReadOperand`, `CheckSource`, `PolicyRejects`, `StorePreview` |
| `confirm` and the preview it nests | `ConfirmBegin`, `ReadOperand`, `CheckSource`, `PolicyRejects`, `Recheck` |
| `_write_export_files`, `save_export_manifest` | `Recheck` (the target is free), `Commit`, `SaveManifest` |
| a read or a write that raises | `StoreRaises`, `SaveFails` |
| the world around | `CompleteRun`, `EditEvidence`, `EditInputs`, `Occupy`, `Tick`, `Crash` |

Abstractions, each with its reason:

- The content of a result is a version, and its checksum is the version: two
  contents with one checksum are not considered. What is computed from results
  (a report, the bytes of an export) is a function of them in the code, and is
  represented by the tuple of their versions.
- The files of a run only change because somebody edits them. That is not
  far-fetched to the code: every read goes through checksums. An edit is one
  step, and may fit the provenance to the result. Comparison files are not
  edited.
- Compatibility is the code's, of two runs whose inputs verify: `Queries` is
  what `ground_truth_query_ids_fingerprint` tells apart, `Population` all else
  that must match, `Covering` the runs with a prediction for every query and
  for no other. These never change for a run: they are read through checksums.
  The snapshots and populations of both operands are read in one step.
- The public adapters accept or refuse (`PolicyRejects`), and accept again what
  they have accepted.
- Temporary and staged files are not modelled, nor a failure to remove one.
- The mode of a comparison and the directory of an export are chosen where the
  code first looks at them. A directory that cannot be used is a refusal.
- The nested preview of `confirm` reads the clock again: any value between
  confirm's own reading and now.
- There is one workspace; identifiers are fresh.

### The home and the code

Handlers declared `async` and awaiting nothing (`app.py:182-206`, and what an
upload does after its body has arrived) run to their end on the event loop;
plain ones run in threads. `LoopFree` and `Importing` say the former; everything
else interleaves. A request that is under way when the process dies is answered
with an error. A session is the pair of a start and a browser; tabs of one
browser share its cookie.

| code | actions |
|---|---|
| `consume_bootstrap_nonce`, `run_workspace_command` | `OpenLink`, `NextStart` |
| `create_workspace`, `list_workspaces`, `rename_workspace` | `BeginCreate`, `WriteRecord`, `WriteRegistry`, `WriteFails`, `ServeList`, `Rename` |
| the overview's effects and reducer (`app.tsx`) | `OpenPage`, `ListArrives`, `CreateArrives` |
| `register_imported_*`, `register_referenced_jsonl` | `Upload`, `SaveContent`, `Refer`, `ReadSource`, `SaveManifest`, `ManifestFails` |
| `create_retrieval_run`, `execute_job` | `Submit`, `Check` (four reads), `SaveSnapshot`, `Execute`, `Evaluate`, `Retry` |
| `stream_job`, `get_job`, `cancel_job`, `retry_job` | `Connect`, `Poll`, `ServeGet`, `ServeCancel`, `ServeRetry`, `LinkRecord` |
| `JobProgress.tsx` and the browser's `EventSource` | `OpenJob`, `Refresh`, `PressCancel`, `PressRetry`, `ReplyArrives`, `RetryArrives`, `Deliver`, `StreamEnds`, `Break` |

- A content stands for its checksum. What makes a line valid is `DatasetRecords`'
  matter; here a content is valid, invalid or too big.
- A referenced file is the only one that others write. Nobody edits what the
  workspace has imported.
- A page that asks again loses the answers to its old self. What is shown after
  a failure (an error text) decides nothing.
- The jobs of the page are two attempts of one run; the worker's steps are any
  that `UpdateAllowed` permits.

### The tools and the code

A pure function is an operator over small data, and a *question* is one input to
it: `Tools` puts every question of a set and keeps the answer, and a predicate
relates the answer to the question, to a definition written another way, or to
what another part of the code says of the same data. Numbers that are quotients
in the code are exact (`Ratios`); scores, confidences and thresholds are
twentieths or small integers; logarithmic discounts are decreasing integers.
`sorted` is `InOrder`: the better score first and then the smaller id, which
decides ties where the code's key does and cannot be seen where it sorts equal
numbers. Sums are the folds of the community modules; `math.comb` is the number
of subsets that it counts (`ChoicesUpTo`).

- `JudgeCall`: an exchange is how it ended, a status, the kind of its body and
  what it says. Every adapter has its own places for content, errors and delays.
- `Classification`, `PilotAnalysis`, `FullAnalysis`: what a seed selects is a
  choice among all samples of the sizes the code computes.
- `RetrievalScoring`, `DatasetRecords`: scores are given, tokens are not computed.
- `Preparation`: a session copies, validates and writes its manifest last; it
  can die anywhere, and so can the process between a replace and an unlink.
- `PilotLedger`: an example costs one request or, after a rate limit, two;
  `PilotExecution` says when.
- `LocalSession` and the four scripts: commit, tree, data and served weights
  change between sessions only, which is how the procedure is written down.
  A digest stands for the weights; the adapter reports the configured one.

Definitions whose names start with `Slip` are not part of the code: each is
the definition that follows it with a plausible mistake, used to see that the
properties notice.

## Runs

| run | instance | properties | shows |
|---|---|---|---|
| `requests` | 2 clients, 2 jobs, 2 runs, 1 fault, no restart | `QueueIsCoherent`, `LoopsConverge`, no deadlock | locks, compare-and-swap loops and scheduling in every interleaving |
| `retries` | 2 clients, 3 jobs, 1 run, no fault, no restart | `OneActiveJobPerRun`, `SettledRuns`, `CompleteRunIsFinal` | three attempts of one run, created, cancelled, completed and retried by racing clients |
| `crashes` | 1 client, 2 jobs, 2 runs, 2 restarts, 2 faults, torn creates | `TypeOK`, `EvidenceIsWhole`, `OneJobAtWork`, `NextAttemptStartsClean`, `ImplementsLifecycle`, `NoResumption` | evidence, recovery and history over crashes and failing writes, and the refinement |
| `liveness` | 1 client, 2 jobs, 2 runs, 1 restart | `EveryJobEnds`, `RequestsReturn` | every accepted job ends and every request is answered |
| `torn_create` | as liveness, with torn creates | `QueuedSurvivesRestart` is violated | a finding, below |
| `pilot` | 2 pairs, 2 versions, 2 retries, 1 regeneration for the second pair, 3 rate limits, ceiling 4, 3 sessions | `TypeOK`, `CallsAreBounded`, `CallsArePaced`, `ResultsAreComplete`, `OneVersionInSession`, `SuccessIsFinal`, `RecordsTellCalls` | budget, pace, breaker and counters over every sequence of answers, and what resumed sessions make of what crashes left |
| `comparisons` | 2 clients, 4 runs (two comparable, one asked other queries, one that does not cover its queries), 2 versions, 1 edit, 1 comparison, crashes and failures | `ReportTellsOperands`, `ComparisonIsWhole`, `ComparisonIsFinal` | what a comparison records is whole, final and true to the two results it was made of |
| `exports` | 2 clients, 2 comparable runs, 2 directories, 1 comparison, 1 preview, 1 edit, clock up to 1, crashes and failures | `TypeOK`, `ExportsAreTrue`, `OneExportPerPreview`, `NoOverwrite` | what leaves the workspace is canonical, current, what was previewed, once, and replaces nothing |
| `baseline_race` | 2 clients, no comparison | `ReplacementIsConfirmed` is violated | a finding, below |
| `tools` | questions over up to 3 examples and documents; 2 datasets; 2 examples and 8 requests of the remote pilot; 2 pilot examples, 3 full ones, 5 sessions and 2 changes of the local ones | `JudgingIsConclusive`, `ClassificationsAddUp`, `RetrievalIsScoredFairly`, `PreparedDataAreWhole`, `LedgerTellsRequests`, `ReportsAreSound`, `DiagnosticsCoverFailures`, `FullRunIsGuarded`, `ConsistencyIsThreefold` | a judge's failures are told from its decisions; measures add up; retrieval is compared fairly; prepared data, ledgers and reports are true, wherever a session dies |
| `home` | 2 tabs of one browser or two, 2 starts, 2 workspaces, 2 inputs, 2 edits, 2 jobs, 2 polls a stream, 1 break, 2 requests at once | `OwnersKeepWorkspaces`, `InputsKeepTheirContent`, `PageNeverGoesBack`, `PageKeepsUp` | one owner a start; nothing registered is lost; a run evaluates what it names; a page never goes back and keeps up |
| `page_late_answer` | as `home` | `LateAnswerOverwritesNothing` is violated | a finding, below |

Bounds. Two jobs are enough for two attempts of one run, for two runs that
compete for the worker and for a job that waits behind another; three let two
retries of an ended run race, and a retry race the end of another attempt; two clients for
two requests of any kinds that race; two restarts for a crash during the
recovery from a crash; two faults for a write that fails with its rollback. The
number of attempts of a loop is the code's 8 and is never used up
(`LoopsConverge`): a record changes at most six times, whatever the clients do. `retries` has 2, so that loops do give up there and
what they leave behind is checked too. Clients and runs are interchangeable and `TLC` uses
their symmetry, but not in `liveness`.

`MaxJobs` bounds how many jobs are ever created; when identities are used up
clients go on cancelling. `Waiting` is the server with nothing to do; every
other state without a successor would be reported as a deadlock.

The pilot's bounds. Two pairs show what carries over from one pair to the next
(the streak, the time of the last request) and what must not (retries,
regenerations). Retries and breaker have the code's values, 2 and 3. The
script's ceiling, `min(pending + 10, 120)`, is `min(pending + 2, 4)`: enough for
a pair that is called four times and for a budget that ends in the middle of
one. Times are chosen to fall on both sides of the interval: a latency or a
`Retry-After` of 0 or 3 around an interval of 2, a back-off of 1. Three sessions
are a report, a crash without one, and what the third makes of both. A session
that has ended and may not be followed by another is `Finished`; model versions
are interchangeable, and `TLC` uses their symmetry.

The evidence flow's bounds. Crashes, faults and confirmations are not bounded:
they lead back to states that are there already. One comparison and one preview
are enough because records and previews never refer to each other except an
export to its one source; what races is the second client, with a pin, another
confirmation of the same preview, or an edit in between. One edit falls on
either side of every step of a request. `Lifetime` is 1 and the clock ends at 1,
so a preview is confirmed in time, too late, and while it expires. An export
goes to the directory it was refused in or to the other one. In `exports`, runs
are interchangeable; so are clients everywhere, and `TLC` uses it.

The tools' bounds. Three examples are two that differ and a third beside them:
enough for ties at a threshold or between quartiles, for empty classes, and for
pairs on which evaluators differ. The questions of one kind are all inputs over
those examples, with labels, scores and outcomes on both sides of every
comparison in the code. Files have two or three lines, one of which may be
blank or unreadable. `MaxSent` 8 is a preflight, a run, a resumed run and a
consistency session; `RepairLimit` is 4 for the code's 300. Five sessions of the
local experiments are preflight, run, resumed run and two consistency sessions,
or a change in between. The full run's stopping rule counts 2 failures in a row
and asks for its rate after 2 answers, where the code has 10 and 100; the rate
is the code's, 98 %.

The home's bounds. Two tabs race for one link, one list against one creation, or
one registration against another. Two starts show what a session and a request
do not survive. Two edits of a referenced file make it what it was again, on
either side of a check. Two polls end a stream of which the code has 150; one
break and every end of a stream ask again. A refresh beyond two requests fails.
The second job ends at revision 1 at the latest: what a stream skips is from -1
to 1, or from 3 to 5 of the first.

Fairness. `FairSpec` assumes that the operating system runs every thread again
and again: the worker (a thread that waits for `_pending` or for a lock),
requests that were accepted, and `Main`, which boots a server that is down and
goes on with a stop that has begun. Nobody is obliged to send a request, to
stop, to crash or to fail. Weak fairness is enough: locks are held over a
bounded number of steps of their holder and nobody who holds one waits for
somebody who waits for it. A fault of the store outside the executor ends the
worker thread and only the next request starts another; so `liveness` has no
faults. In `Home` the event loop polls an open stream, the network delivers what
it does not lose, and a browser whose stream has ended asks again; nobody is
obliged to work, press, break or answer anything else. `PageKeepsUp` excepts a
page that was turned away (`EventSource` gives up then) and one that an answer
about another job has reached, which is the finding below.

## Findings

- `torn_create`: a crash between the `mkdir` and the `link` of a new job record
  leaves a directory on which every listing raises, and so every later boot:
  jobs that are QUEUED on disk are never executed (`storage.py:146-157`, against
  `queue.py:22`).
- `baseline_race`: the route reads the baseline and decides that no confirmation
  is needed; the service verifies evidence and then writes. Two requests that
  pin different runs for the first time both go through, and the second replaces
  the first one's baseline unconfirmed (`routes_comparisons.py:68-79`, against
  `:76`). A comparison is not misled: it records the pointer it has read.
- `page_late_answer`: after a retry, the answer to a refresh that was sent for the
  job before replaces what the new job's stream has shown, because `refresh()`
  neither asks whether the page is still about that job nor compares revisions
  of different jobs; an older answer about the new job then finds nothing newer
  to give way to (`JobProgress.tsx:19`, against `JobProgress.test.tsx:66`).
  Between answers about one job the guard holds (`PageNeverGoesBack`).

## Observations

Met while modelling; the models have these behaviours and no property is stated
against them.

Workspace. A crash in the middle of `save_comparison_record` leaves a directory
without `config.json`, and the comparisons of the workspace cannot be listed any
more (`storage.py:684-691`, `:770-773`); a crash between `workspace.json` and the
registry leaves a workspace that nobody can reach (`:211`); a manifest that fails
after it was linked loses its content (`ingestion/service.py:57-61`), though no
client was told of it; a stopping queue refuses a job whose run is saved already
(`runs.py:259-261`). A creation that ends before the first list arrives shows its
workspace alone until then, and twice if the list already has it and came first
(`app.tsx:76-90`). The job page's buttons stay off after a retry (`JobProgress.tsx:54-63`),
and its `EventSource` never asks again after an answer other than a success,
which a listing that meets a half-made record can cause (`storage.py:832`).

Remote pilot. A 429 on the last attempt of a pair is not waited for
(`pilot/execution.py:180-182`, against `docs/llm-judge-pilot.md:146-147`). A report
whose version sets are empty is believed although the state file has successes, so
that another version can be accepted after a crash
(`scripts/run_phase5a_pilot.py:769`). A recommendation is made although examples
were never asked (`:1036`, `pilot/analysis.py:240-316`). Requests of a session that
dies or raises are booked nowhere; consistency is called COMPLETE although
repeats failed, and running the primary again clears the rate-limit pressure
that would have deferred it (`:1160-1171`).

Judges. A body that is not JSON under a success status, and Gemini's empty list
of candidates, end in exceptions that the adapter does not turn into an error
(`providers.py`); a network error of a remote service is not retried, a local
one is.

Local experiments. The first one's resumed run may mix two models
(`docs/llm-judge-pilot.md:220`, `:245`); a repeat of the third that dies leaves the
old COMPLETE report beside files that are gone; the full run's rate of valid
answers counts those of earlier sessions (`run_phase5b_local_full.py:833-840`); the
checks of a digest against the one it was configured with cannot fail.

Datasets. A preparation that dies before its manifest makes every later one from
the web raise, and so does RAGTruth's second one without expected checksums; one
for topics only drops the corpus from the manifest; a download that broke off
where it still validates is taken and pinned; RAGTruth accepts a file in its
place that equals the local source although another checksum was expected
(`ragtruth_prepare.py:57-60`); the benchmarks never look at the manifest
(`cli.py:322-405`). MIRACL's benchmark ends in a `KeyError` for a topic without
judgements (`benchmarks/miracl.py:90`); RAGTruth's counts issues of excluded
examples as failures.

## Proofs

`RunServiceProofs` proves, for any number of clients, jobs, runs, attempts,
crashes and faults, with or without torn creates:

| theorem | states |
|---|---|
| `TypeTheorem` | `Spec => []TypeOK` |
| `WholeEvidenceTheorem` | `Spec => []EvidenceIsWhole` |
| `OneActiveJobTheorem` | `Spec => []OneActiveJobPerRun` |
| `CleanStartTheorem` | `Spec => []NextAttemptStartsClean` |
| `EvidenceTheorem` | `Spec => []EvidenceInvariant`, which all rest on |
| `SettledTheorem` | `Spec => []SettledRuns` |
| `FinalityTheorem` | `Spec => CompleteRunIsFinal` |

`RunServiceLifecycle` goes on from them:

| theorem | states |
|---|---|
| `QueueTheorem` | `Spec => []QueueInvariant`, which the others rest on |
| `CoherentQueueTheorem` | `Spec => []QueueIsCoherent` |
| `OneWorkerTheorem` | `Spec => []OneJobAtWork` |
| `NoResumptionTheorem` | `Spec => NoResumption` |
| `LifecycleTheorem` | `Spec => ImplementsLifecycle`: the refinement of `JobLifecycle` |
| `LoopsTheorem` | `Spec => []LoopsConverge`, for loops of at least 8 attempts, as the code's are |

Assumptions: `BoundsAssumption` (the bounds are natural numbers, at least one
attempt, the switch is a Boolean) and `IdentityAssumption` (`Main` is not a
client, `NoRun` is not a run).

The argument. `EvidenceIsWhole` is not inductive: that a `Commit` finds the
right pair rests on what the writer knew two steps earlier and on nobody having
touched the files since. `EvidenceInvariant` adds

- what a thread knows by its program counter (`WorkerKnows`, `ClientKnows`,
  `QueueKnows`): its job exists, its target is one of a few states;
- that the submission lock excludes (`OneSubmitter`) and what its holder has
  found out (`SubmitterKnows`): its run has neither an active nor a complete
  job, and the files it has discarded are still gone;
- that the job lock excludes (`WriterExcludesOthers`) and what the writer has
  done (`WriterKnows`): its job is WRITING_ARTIFACT at the revision it read, not
  cancelled, its run has no complete job, and the files are its own;
- `KnownRuns`: jobs and files belong to saved runs, so that a new run is clean.

Steps are proved in families. Most steps touch neither records nor files
(`QuietStep`); many change one record without making it COMPLETE and without
touching files (`JobsStepKeeps`); what is left is `WriteResult`,
`WriteProvenance`, `Commit`, `WriteFails`, the two discards, `Enqueue` and
`Create`, each with a lemma of its own. `EveryStep` puts them together and the
theorems follow by temporal logic.

Finality. Every step has one of five effects on records and files (`Effect`):
records change without becoming COMPLETE and files stay; files change, of runs
that are not complete; a directory is made; a record is linked, for a run that
is neither active nor complete; the only active job of its run becomes
COMPLETE. That a step has one of them follows from `EvidenceInvariant`; that
none of them touches a complete run needs `SettledRuns` besides, which the same
case split preserves: a record can only change while its job is active.

The queue. `EvidenceInvariant` says nothing of who works: a record in flight
could belong to a worker that is gone. `QueueInvariant` adds that such a record
is in the hands of a living worker, or still on the list of the thread that
recovers (`WorkIsInHand`); that recovery has put back all that waits before a
worker starts (`QueueIsRefilled`); that `_lock` excludes recording and
recovering (`OneInQueue`); what each part of the start and the stop of the
server guarantees (`ServerTells`); and that only a record at revision 0 is
QUEUED, so that what worker and requests have read still says something of the
record they will update (`RecordsTell`, `WorkerTells`, `RequestTells`).

The refinement. The lifecycle sees of a state what the records say of every
job, its state, its run and whether it is cancelled, and of every run the job
whose evidence `get_run_artifacts` returns: none until a job of the run is
COMPLETE and both files name the same job. A torn directory is no job. Under
both invariants every step of `RunService` is one of the lifecycle's (a create,
a claim or an advance of the worker, a commit, a cancel, a failure or an
interruption by recovery) or changes nothing that it sees. Reads, locks, writes
before the commit, discards, the whole of the queue and the end of the process
are stutters. The proof follows the actions:
most change no record (`QuietStep` again), and those that update one do so by
`update_job_record`, whose guard gives the lifecycle's.

The loops. A refused attempt is repeated with what is read anew, so a loop ends
when it meets few changes. Every change of a record takes it to a later place
(`Place`) or sets its cancel flag, which is set once: `RevisionFits` bounds its
revision by six. A cancel is refused only when the revision it read is not the
record's any more (`CancelRefused`), and it counts no more refusals than
revisions (`CancelLoops`). The worker's record is changed by nobody else but a
cancel, and its second attempt is made in knowledge of it (`WorkerLoops`); that
this one is not refused rests on the order of the phases (`WorkerInPhase`): the
phase it asks for is the next one of the record. These make up `LoopInvariant`,
inductive beside the other two. The hypothesis `MaxTries >= 8` holds of the
code, whose three loops have eight attempts.

`PilotProofs` proves every property of the `pilot` run, for any number of pairs
and versions, any limits, intervals, delays and latencies, any number of
sessions and a crash between any two steps:

| theorem | states |
|---|---|
| `InvariantTheorem` | `Spec => []PilotInvariant`, which all rest on |
| `PilotTypeTheorem` | `Spec => []TypeOK` |
| `BudgetTheorem`, `BreakerTheorem`, `AttemptsTheorem` | `BudgetHolds`, `BreakerHolds`, `AttemptsAreBounded` |
| `BoundedTheorem` | `CallsAreBounded`, the three together |
| `PaceTheorem` | `CallsArePaced`: `RequestsArePaced` and `RetryHonoursDelay` |
| `ResultsTheorem`, `VersionTheorem` | `ResultsAreComplete`, `OneVersionInSession` |
| `SuccessTheorem`, `RecordsTheorem` | the action properties `SuccessIsFinal`, `RecordsTellCalls` |

from `PilotAssumption`: limits and times are natural numbers, at least one rate
limit trips the breaker, budgets are positive (`RequestBudget.__init__` and
`__post_init__` refuse the rest).

The argument. What is promised about the ledger of calls is not inductive,
because the loop does not look at the ledger: it looks at counters.
`PilotInvariant` says what each counter knows of the ledger at each program
counter: that calls are reserved before they are made (`BudgetKnows`), that the
clock has passed what the next request must wait for (`PaceKnows`), that no more
than `streak` rate limits end the observed part of the ledger (`StreakKnows`),
that retries and regenerations add up to the calls of the pair in work, and that
nothing of it was called before (`CountsKnow`, `CursorKnows`), that every pair
behind the cursor is settled (`ResultsKnow`), and that without a report whatever
is persisted was accepted (`VersionsKnow`). Each part has a step lemma over the
ten actions; a crash changes nothing but the program counter, and a new session
starts from an empty ledger. `StepInvariant` puts them together.

`EvidenceFlowProofs` proves every property that the three runs of the evidence
flow check, for any runs, versions, clients, edits, clocks and crashes:

| theorem | states |
|---|---|
| `EvidenceFlowTheorem` | `Spec => []EvidenceInvariant`, which all rest on |
| `EvidenceTypes` | `Spec => []TypeOK` |
| `ReportTheorem`, `WholeComparisonTheorem` | `ReportTellsOperands`, `ComparisonIsWhole` |
| `FinalComparisonTheorem` | the action property `ComparisonIsFinal` |
| `ExportTheorem`, `OnceTheorem` | `ExportsAreTrue`, `OneExportPerPreview` |
| `DestinationTheorem` | the action property `NoOverwrite` |

from `EvidenceAssumption`: the bounds are natural numbers, the original content
is a version, and `None`, which stands for evidence that is not there, is not
itself evidence.

The argument. `EvidenceInvariant` says what a request knows at each program
counter: a reader, what it has read of its operands; a comparer, that they are
comparable; an exporter, that what it holds is what its source said; one that is
confirming, that its preview is alive and unconfirmed (`ReaderKnows`,
`ComparerKnows`, `ExporterKnows`, `ConfirmerKnows`). Two locks protect that:
one comparison is being written at a time, and exactly the files that are still
to come are missing (`OneWriter`); one preview is being confirmed, and no
manifest names it yet (`OneConfirmer`). Comparisons, exports and manifests only
grow, so that what was once true of them stays so.

`HomeProofs` proves, for any tabs, inputs, edits and starts, of `Home`'s whole
specification:

| theorem | states |
|---|---|
| `OwnerTheorem` | `Spec => []OneOwner`, the first half of the next |
| `WorkspacesTheorem` | `Spec => []OwnersKeepWorkspaces` |
| `InputsTheorem` | `Spec => []InputsKeepTheirContent` |
| `PageTheorem` | `Spec => PageNeverGoesBack` |

The argument. A start has no session as long as its link is good
(`SessionsKnow`). A creation reads the registry and writes it some steps later;
the event loop runs one at a time, so what it has read is what it adds to
(`CreationKnows`), its record is there before it is registered
(`RegisteredAreThere`), and a list that arrives keeps what the page has created
(`PagesShow`). A registration of an input that has taken an identifier has it alone
(`ClaimsKnow`), which is what makes the removal of a content after a failure
harmless: no accepted input has that identifier. A manifest that is there never
changes (`ManifestsStay`), so that the kinds a submission has checked and the
checksums a snapshot has noted hold on (`KnowledgeStays`), and a content that
fits its manifest when it is read is the snapshot's. For the progress page, what is on
the wire is in order, newer than the last event that came, and not newer than
what the server has noted as sent (`StreamKnows`); and a retry is granted once,
so that the page goes on to another job once (`RetryKnows`).

`LocalPilotsProofs` proves every property of the local experiments, for any
example sets, bounds and number of sessions:

| theorem | states |
|---|---|
| `LocalInvariantTheorem` | `LocalSpec => []LocalInvariant`, which all rest on |
| `ReportsTheorem` | `LocalSpec => []ReportsAreSound` |
| `DiagnosticsTheorem` | `LocalSpec => []DiagnosticsCoverFailures` |
| `FullRunTheorem` | `LocalSpec => []FullRunIsGuarded` |
| `ThreefoldTheorem` | `LocalSpec => ConsistencyIsThreefold` |

from `LocalAssumption`: examples are numbers, finitely many, bounds are natural
numbers, and at least one failure is permitted (the code's constant is 10).

The argument. A session is where the files let it in (`Admitted`: a clean,
vetted commit, frozen data and weights, and commit, data and weights change
between sessions only); it is at an example without a prediction
(`CursorIsOpen`), so that each prediction of each file was once counted
(`EveryAnswerCounts`) and a full run's sample of three predictions was really
asked for thrice; a full run that is not stopped has not failed too often
(`FullGoesOn`), for which the smallest open example must exist, and a failed
answer that is about to be saved has been diagnosed (`FailureIsDiagnosed`).
What was reported complete stays so (`ReportKnows`), because a prediction is
never overwritten outside the repeats.

`ToolProofs` proves every property of the `tools` run, for any number of
examples, names and sessions:

| theorem | states |
|---|---|
| `PreparationTheorem` | `PreparationSpec => []PreparedDataAreWhole` |
| `LedgerInvariantTheorem` | `LedgerSpec => []LedgerInvariant` |
| `LedgerTheorem` | `LedgerSpec => []LedgerTellsRequests` |
| `TraceTheorem` | the answer of every adapter to every wire is judged conclusively |
| `JudgingTheorem` | `Spec => []JudgingIsConclusive` |
| `ClassificationsTheorem` | `Spec => []ClassificationsAddUp` |
| `RetrievalTheorem` | `Spec => []RetrievalIsScoredFairly` |
| `ToolsTheorem` | `Spec` of `Tools` has the properties of all three components |

Preparation: a file is told of only while it is in its place, and files in their
place are only replaced by RAGTruth's rejection, which takes away what it has
just put there and what no manifest tells of (`SessionTells`). Ledger: at any
time the requests sent are those booked, those the session at work has used and
those nobody booked (`EveryRequestCounts`); a run knows what is booked
(`RunKnows`) and has nothing to do beside a complete report; a round of a
consistency session ends with every example repeated (`RoundKnows`).

The judge: `TraceTheorem` is about all wires, where the run's questions are
some: any integer is a status, and any body comes with it. What a call that
returned tells of the exchange (`CallTells`) holds of each of the five adapters:
a success only of an answer with a successful status, and of the local adapter
only of the model that was asked for; an error that is asked again only where
the exchange broke off or the status is 408, 429 or 5xx; and an enforced schema
only where it was sent. From `CallTells` alone the evaluator's trace is
conclusive.

The measures: `ClassificationsTheorem` and `RetrievalTheorem` go by the kinds of
questions that a step of `Tools` asks. For every kind `MeasureProofs` has one
lemma, `...OfQuestions`, which states the kind's predicate of every question of
its set; a step of another kind asks nothing that the invariant speaks of. The
examples are any finite set there that is not empty, as `ExamplesAssumption`
says; the sets of documents, lines and grades are those of the run.

The components' specifications start from more states than the tools do, and a
step of `Tools` is a step of the component or leaves its variables as they are
(`ToolsArePreparation`, `ToolsAreLedger`, `ToolsAreLocal`). So `ToolsTheorem`
states for the specification that the `tools` run checks what the other
theorems state of the components.

`MeasureProofs` proves about the operators themselves, for any data, what the
questions of `ClassificationsAddUp` and `RetrievalIsScoredFairly` are small
instances of:

| theorem | states |
|---|---|
| `MatrixTheorem`, `RatesTheorem` | the cells of a confusion matrix add up to its examples, to either label and to the errors; F1 is the harmonic mean, rates complement each other and do not exceed one |
| `PairedTheorem` | two predictors' examples are in one category each, gains and losses are the errors they mend or make |
| `ThresholdTheorem`, `HeuristicTheorem` | a threshold's row is what HHEM would decide with it, and rates only move one way with the threshold; `HeuristicHolds` for any words and any threshold up to one |
| `BatchesTheorem`, `BootstrapTheorem` | `BatchesHold` for any supports and size; a resample's matrix counts each occurrence |
| `CompletesTheorem`, `RecommendationTheorem`, `ReadinessTheorem`, `FailuresTheorem` | who is complete, that nobody complete is better than the recommended one; `ReadinessHolds`; `FailuresAddUp` |
| `SamplesTheorem`, `QuartilesTheorem` | `SamplesHold` for any targets from one; quartiles of any values are ordered and differ by one at most |
| `SearchTheorem`, `CategoryTheorem`, `TransitionsTheorem` | `SearchedFairly` for any documents and scores; a query passes just where its metrics are positive, and a longer cut costs nothing; transitions tell the failures of both runs |
| `GateTheorem` | `ComparesClosed` for any files of finite or infinite numbers, any bounds and any tolerance from zero |
| `RagtruthTheorem`, `IssuesTheorem` | the benchmark measures the examples of the wanted quality once, and every issue is a failure in sight; no example with an offset that does not fit is loaded without one |

The argument. Cells, categories, quartiles and strata are finite sets that part
the examples, so their cardinalities add up (`Splits`). Fractions are pairs of
integers, and to compare two is to compare products, from which a positive
factor is cancelled (`Products`, `LossOfRule`). A ranking is the surjection from
documents to places that the number of better documents is (`BeforeOrders`,
`PlacesAreTaken`), and so are the quartiles; batches are quotients (`Quotients`,
`BatchOf`). The hypotheses are what the code's types and guards let in: labels,
integers for scores and supports, finitely many examples, positive sizes and
targets. `ClassificationsTheorem` and `RetrievalTheorem` show that the questions
of `Spec` meet them.

Sums. A fold over a finite set is the value of a function that is chosen by its
recursive equation. That there is such a function is an induction over the sizes
of subsets, for which a set of numbers stands in for the induction theorem's
operator (`FoldExists`); after that a sum unfolds by any of its elements
(`RatioSumUnfolds` for fractions) and three facts carry the rest: sums of what
is as large are as large (`SumMonotone`), the sizes of parts add up to the whole
(`PartsAddUp`, `SumOfParts`), and so slices, tasks, bins and categories add up.
The calibration error and the Brier score are at most one because each term is
(`SquaresAreBounded`). McNemar's p-value is 1 just where the sides differ by one
at most, because a choice leaves as much as another takes and so the small
choices are half of all (`HalfAreSmall`); and it falls as they part, because one
example more doubles all choices but at most doubles the small ones
(`ChoicesGrow`, `TailsFall`).

Sorting. In an ascending sequence the element at a place has at least as many
elements that are no larger and fewer that are smaller (`RankTells`), which fixes
what a percentile can be. `Picked`, which is how the loaders select lines and
consistency selects labels, keeps the chosen places in their order
(`PickedTells`), from which follow what the loaders keep and that a file is as
valid in any other order.

Retrieval. nDCG is at most one: the ranks that earn are different places of a
falling sequence of discounts, and no choice of places has more than the first
ones, grade by grade (`Majorized`, `BestTells`). A swap that brings the better of two
neighbours forward and the removal of a repetition give a ranking in which
nothing is found later or earns less (`SwapFinds`, `RemovalIsFair`). A policy that
passes has a mean hit rate that is no lower; the queries that hit are then as
many as before (`MeansCompare`), so as many were gained as were lost
(`PassesAsMuch`).

Assumptions of the tools' theorems, beside those of the components:
`ExamplesAssumption`, and that what stands for an exception or for a blank line
is no number, no report and no record (`ValueErrorAssumption`,
`RefusalAssumption`, `BlankAssumption`), as it is none in Python.

Every safety property of a passing run, invariants and action properties, is
thus stated by a theorem of the specification that the run checks, or of the
component's, which that specification implies. Only model-checked:

- `EveryJobEnds`, `RequestsReturn` and `PageKeepsUp`: liveness, which stays with
  TLC as fairness and `ENABLED` are out of the prover's reach.
- Of the questions that `Tools` asks about retrieval, rankings have at most three
  documents and files at most three lines. That no other ranking of any length
  would break `RankedFairly`, or no other file its predicate, is proved in parts
  (`SearchTheorem`, `CategoryTheorem`, `RagtruthTheorem`), not as a whole.

## Plan

All components that keep state are modelled, and every safety property of the
runs is proved. What could follow:

1. `Majorized` for any number of places: nDCG is at most one and moves the right
   way for rankings of any length, by exchanging neighbours.
2. The questions about files for files of any length.
3. An abstract specification of comparisons (absent or whole, and never
   changing) that `EvidenceFlow` implements; `WholeComparisonTheorem` and
   `FinalComparisonTheorem` together say nearly as much.

## Not modelled

- Provider health and OKMD probes (`providers/health.py`, `okmd.py`): one request and
  a printed summary each, without state.
- The public export adapters, their policy and serialisation, and the checks of
  the exported evidence (`export/`, `workspace/export/`): pure conversions of one
  record to another and searches for forbidden text in it. `ExportService`
  takes their verdict as a choice.
- The public evidence console, and what the workspace's page renders; its forms
  for inputs, comparisons and exports, where no answers race.
- Scripts that build, install and verify (wheels, end-to-end runs, generated
  assets).
- HTTP clients and their libraries, model inference and tokenisers: external.
  What an exchange can end in is `JudgeCall`'s, scores are inputs.
- Host and origin checks, path and size checks of destinations, argument
  parsing, texts of errors: guards without state.
