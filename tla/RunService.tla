----------------------------- MODULE RunService -----------------------------
(***************************************************************************)
(* The job core of the workspace: RetrievalRunService (application/runs.py)*)
(* over SingleWorkerQueue (jobs/queue.py) over the job and evidence files  *)
(* of WorkspaceStore (storage.py), in the process of api/app.py.           *)
(*                                                                         *)
(* Clients are request threads: they create runs, retry and cancel jobs.   *)
(* Main runs the application's lifespan: start() before the first request, *)
(* stop() after the last.  One worker thread claims queued jobs and        *)
(* executes them.  A step is what a thread does between two points where   *)
(* another thread, or the end of the process, can come in between: every   *)
(* read of a record without a lock is a step, a body under _job_lock is    *)
(* one step (or several while JobLockFree is false, where the process can  *)
(* die between two file writes).                                           *)
(*                                                                         *)
(* A definition named Slip... is not part of the service: it is the        *)
(* definition that follows it with a plausible mistake, against which the  *)
(* properties are tried.                                                   *)
(***************************************************************************)
EXTENDS JobRecords, Sequences, FiniteSets

CONSTANTS
  Clients,        \* request threads
  Main,           \* the thread of the lifespan
  MaxJobs,        \* bound: job identities; a larger number is created later
  Runs,           \* run identities
  NoRun,          \* no run
  MaxTries,       \* attempts of every compare-and-swap loop (8 in the code)
  MaxRestarts,    \* bound: crashes and orderly shutdowns
  MaxFaults,      \* bound: store calls that raise
  TornCreates     \* may a create be cut off between its mkdir and its link?

Jobs == 1..MaxJobs
NoJob == 0
StopToken == 0       \* the None that stop() puts into the queue
Threads == Clients \cup {Main}

ASSUME BoundsAssumption ==
  /\ MaxJobs \in Nat /\ MaxRestarts \in Nat /\ MaxFaults \in Nat
  /\ MaxTries \in Nat \ {0}
  /\ TornCreates \in BOOLEAN

ASSUME IdentityAssumption == Main \notin Clients /\ NoRun \notin Runs

VARIABLES
  \* on disk
  jobs,           \* [Jobs -> record]: jobs/<id>/job.json
  runs,           \* runs whose config.json is saved
  result,         \* [Runs -> Jobs or NoJob]: the job that wrote result.json
  provenance,     \* [Runs -> Jobs or NoJob]: the job that wrote provenance.json
  \* in the process
  pending,        \* _pending: job ids, and StopToken
  stopRequested,  \* _stop_requested
  thread,         \* "none": _thread is None; "set": a thread, running or dead
  wk,             \* the worker thread
  cl,             \* [Threads -> what the thread is doing]
  server,         \* what Main is doing
  restarts, faults

disk == <<jobs, runs, result, provenance>>
memory == <<pending, stopRequested, thread>>
budgets == <<restarts, faults>>
vars == <<disk, memory, wk, cl, server, budgets>>

-----------------------------------------------------------------------------
(* Threads *)

\* wk.pc, in the order of _worker_loop, execute_job and write_run_artifacts.
LoopPcs == {"read", "claim", "reread", "finish", "finish_cas"}
ExecutorPcs == {"exec", "inputs", "fail_check", "fail_read", "fail_cas", "adv",
                "adv_read", "adv_cas", "compute", "check", "write",
                "write_provenance", "commit"}
WorkerPcs == {"off", "get"} \cup LoopPcs \cup ExecutorPcs

ClientPcs == {"idle", "cancel_read", "cancel_cas", "discard", "discard_provenance",
              "enqueue", "create", "start", "recover"}

WorkerAt(pc) ==
  [pc |-> pc, job |-> NoJob, revision |-> 0, phase |-> Same, target |-> Same,
   tries |-> 0, error |-> NoError]

Off == WorkerAt("off")
Looping == WorkerAt("get")      \* back at the top of _worker_loop

IdleClient ==
  [pc |-> "idle", job |-> NoJob, run |-> NoRun, revision |-> 0, target |-> Same,
   tries |-> 0, todo |-> {}]

\* is_alive() taken for "is waiting for a job".
SlipWorkerAlive == thread = "set" /\ wk.pc = "get"
WorkerAlive == thread = "set" /\ wk.pc # "off"

\* _job_lock, _lock and _submission_lock are held exactly at these points.
JobLockFree ==
  /\ wk.pc \notin {"write_provenance", "commit"}
  /\ \A t \in Threads : cl[t].pc \notin {"discard_provenance", "create"}
QueueLockFree == \A t \in Threads : cl[t].pc \notin {"recover", "create"}
\* The submission lock forgotten.
SlipSubmissionLockFree == TRUE
SubmissionLockFree ==
  \A t \in Threads : cl[t].pc \notin {"discard", "discard_provenance", "enqueue", "create"}

-----------------------------------------------------------------------------
(* Records *)

Recorded(j) == jobs[j].state \notin NoRecord
JobsOf(r) == {j \in Jobs : Recorded(j) /\ jobs[j].run = r}
CompleteJobs(r) == {j \in JobsOf(r) : jobs[j].state = "COMPLETE"}
ActiveJobs(r) == {j \in JobsOf(r) : jobs[j].state \notin TerminalStates}
InState(S) == {j \in Jobs : jobs[j].state \in S}

\* list_job_records raises on a job directory without a job.json.
Listable == InState({"TORN"}) = {}

\* get_run_artifacts: the job whose evidence a reader of the run gets.
Published(r) ==
  IF CompleteJobs(r) # {} /\ provenance[r] = result[r] THEN result[r] ELSE NoJob

NoEvidence(f, r) == [f EXCEPT ![r] = NoJob]

-----------------------------------------------------------------------------
(* The worker: _worker_loop and _finish_uncompleted *)

\* A step that only reads the store.
WorkerStep(next) == wk' = next /\ UNCHANGED <<disk, memory, cl, server, budgets>>

\* A step that updates the record of wk.job, or finds that it may not.
WorkerUpdate(next, error, ok, refused) ==
  /\ JobLockFree
  /\ IF UpdateAllowed(jobs[wk.job], wk.revision, next, FALSE, error)
       THEN jobs' = [jobs EXCEPT ![wk.job] = Updated(@, next, FALSE, error)] /\ wk' = ok
       ELSE wk' = refused /\ UNCHANGED jobs
  /\ UNCHANGED <<runs, result, provenance, memory, cl, server, budgets>>

\* The executor returned (error = NoError) or raised (WORKER_ERROR).
Finish(error) == [wk EXCEPT !.pc = "finish", !.error = error, !.tries = 0]

WorkerGet ==
  /\ wk.pc = "get" /\ pending # <<>>
  /\ pending' = Tail(pending)
  /\ wk' = IF Head(pending) = StopToken THEN Off
           ELSE IF stopRequested THEN Looping
           ELSE [WorkerAt("read") EXCEPT !.job = Head(pending)]
  /\ UNCHANGED <<disk, stopRequested, thread, cl, server, budgets>>

WorkerRead ==
  /\ wk.pc = "read"
  /\ WorkerStep(IF jobs[wk.job].state = "QUEUED"
                  THEN [wk EXCEPT !.pc = "claim", !.revision = jobs[wk.job].revision]
                  ELSE Looping)

WorkerClaim ==
  /\ wk.pc = "claim"
  /\ WorkerUpdate("VALIDATING", NoError, [wk EXCEPT !.pc = "reread"], Looping)

WorkerReread ==
  /\ wk.pc = "reread"
  /\ WorkerStep(IF jobs[wk.job].cancel_requested THEN Finish(NoError)
                                                 ELSE [wk EXCEPT !.pc = "exec"])

\* Only an error is recorded; an executor that returned is believed.
SlipWorkerFinish ==
  /\ wk.pc = "finish"
  /\ WorkerStep(IF jobs[wk.job].state \in TerminalStates \/ wk.error = NoError THEN Looping
                ELSE [wk EXCEPT !.pc = "finish_cas", !.revision = jobs[wk.job].revision,
                        !.target = "FAILED"])

WorkerFinish ==
  /\ wk.pc = "finish"
  /\ LET job == jobs[wk.job]
         error == IF job.cancel_requested THEN NoError
                  ELSE IF wk.error # NoError THEN wk.error ELSE "INCOMPLETE_EXECUTION"
     IN  WorkerStep(IF job.state \in TerminalStates THEN Looping
                    ELSE [wk EXCEPT !.pc = "finish_cas", !.revision = job.revision,
                            !.target = IF job.cancel_requested THEN "CANCELLED" ELSE "FAILED",
                            !.error = error])

\* When the last attempt is refused the error leaves the loop: the thread ends.
WorkerFinishCas ==
  /\ wk.pc = "finish_cas"
  /\ WorkerUpdate(wk.target, wk.error, Looping,
                  IF wk.tries + 1 = MaxTries THEN Off
                  ELSE [wk EXCEPT !.pc = "finish", !.tries = @ + 1])

-----------------------------------------------------------------------------
(* The executor: execute_job, _advance, _check_cancel and _fail *)

AdvanceTo(phase) == [wk EXCEPT !.pc = "adv", !.phase = phase, !.tries = 0]

ExecuteBegin ==
  /\ wk.pc = "exec"
  /\ WorkerStep(IF jobs[wk.job].state = "VALIDATING" /\ ~jobs[wk.job].cancel_requested
                  THEN [wk EXCEPT !.pc = "inputs"] ELSE Finish(NoError))

\* The inputs are read, their hashes compared and their records parsed.
ReadInputs ==
  /\ wk.pc = "inputs"
  /\ \E next \in {AdvanceTo("EVALUATING"), [wk EXCEPT !.pc = "fail_check"],
                  Finish("WORKER_ERROR")} : WorkerStep(next)

\* The evaluation, and then the building of the artifacts, return or raise.
Compute ==
  /\ wk.pc = "compute"
  /\ \E next \in {AdvanceTo(NextPhase[wk.target]), Finish("WORKER_ERROR")} : WorkerStep(next)

AdvanceRead ==
  /\ wk.pc = "adv"
  /\ LET job == jobs[wk.job] IN
     WorkerStep(IF job.state \in TerminalStates THEN Finish(NoError)
                ELSE [wk EXCEPT !.pc = "adv_read",
                        !.target = IF job.cancel_requested THEN "CANCELLED" ELSE wk.phase])

\* transition() reads the record again before it compares and swaps.
TransitionRead ==
  /\ wk.pc \in {"adv_read", "fail_read"}
  /\ WorkerStep([wk EXCEPT !.pc = IF wk.pc = "adv_read" THEN "adv_cas" ELSE "fail_cas",
                           !.revision = jobs[wk.job].revision])

AfterAdvance ==
  CASE wk.target = "CANCELLED" -> Finish(NoError)
    [] wk.target = "WRITING_ARTIFACT" -> [wk EXCEPT !.pc = "check"]
    [] OTHER -> [wk EXCEPT !.pc = "compute"]

AdvanceCas ==
  /\ wk.pc = "adv_cas"
  /\ WorkerUpdate(wk.target, NoError, AfterAdvance,
                  IF wk.tries + 1 = MaxTries THEN Finish("WORKER_ERROR")
                  ELSE [wk EXCEPT !.pc = "adv", !.tries = @ + 1])

\* _check_cancel, before the artifacts are written and before a failure is.
CheckCancel ==
  /\ wk.pc \in {"check", "fail_check"}
  /\ LET job == jobs[wk.job] IN
     WorkerStep(IF job.state \in TerminalStates THEN Finish(NoError)
                ELSE IF job.cancel_requested THEN AdvanceTo("CANCELLED")
                ELSE [wk EXCEPT !.pc = IF wk.pc = "check" THEN "write" ELSE "fail_read"])

FailCas ==
  /\ wk.pc = "fail_cas"
  /\ WorkerUpdate("FAILED", "INPUT", Finish(NoError), Finish("WORKER_ERROR"))

-----------------------------------------------------------------------------
(* write_run_artifacts: one body under _job_lock, three durable steps *)

Eligible(j) ==
  LET r == jobs[j].run IN
  /\ jobs[j].state = "WRITING_ARTIFACT" /\ ~jobs[j].cancel_requested
  /\ Listable /\ CompleteJobs(r) = {}
  /\ result[r] = NoJob /\ provenance[r] = NoJob

\* The job is committed with the result alone.
SlipWriteResult ==
  /\ wk.pc = "write" /\ JobLockFree
  /\ IF Eligible(wk.job)
       THEN /\ result' = [result EXCEPT ![jobs[wk.job].run] = wk.job]
            /\ wk' = [wk EXCEPT !.pc = "commit", !.revision = jobs[wk.job].revision]
       ELSE wk' = Finish("WORKER_ERROR") /\ UNCHANGED result
  /\ UNCHANGED <<jobs, runs, provenance, memory, cl, server, budgets>>

WriteResult ==
  /\ wk.pc = "write" /\ JobLockFree
  /\ IF Eligible(wk.job)
       THEN /\ result' = [result EXCEPT ![jobs[wk.job].run] = wk.job]
            /\ wk' = [wk EXCEPT !.pc = "write_provenance", !.revision = jobs[wk.job].revision]
       ELSE wk' = Finish("WORKER_ERROR") /\ UNCHANGED result
  /\ UNCHANGED <<jobs, runs, provenance, memory, cl, server, budgets>>

WriteProvenance ==
  /\ wk.pc = "write_provenance"
  /\ provenance' = [provenance EXCEPT ![jobs[wk.job].run] = wk.job]
  /\ wk' = [wk EXCEPT !.pc = "commit"]
  /\ UNCHANGED <<jobs, runs, result, memory, cl, server, budgets>>

\* The record's COMPLETE makes the pair canonical; refused, the pair goes.
Commit ==
  /\ wk.pc = "commit"
  /\ LET job == jobs[wk.job] IN
     IF UpdateAllowed(job, wk.revision, "COMPLETE", FALSE, NoError)
       THEN /\ jobs' = [jobs EXCEPT ![wk.job] = Updated(@, "COMPLETE", FALSE, NoError)]
            /\ wk' = Finish(NoError)
            /\ UNCHANGED <<result, provenance>>
       ELSE /\ result' = NoEvidence(result, job.run)
            /\ provenance' = NoEvidence(provenance, job.run)
            /\ wk' = Finish("WORKER_ERROR")
            /\ UNCHANGED jobs
  /\ UNCHANGED <<runs, memory, cl, server, budgets>>

\* A file write raises and the handler removes the pair; when the handler's
\* own read raises too, the pair stays behind.
WriteFails ==
  /\ wk.pc \in {"write_provenance", "commit"}
  /\ LET r == jobs[wk.job].run IN
     \/ /\ faults + 1 <= MaxFaults /\ faults' = faults + 1
        /\ result' = NoEvidence(result, r) /\ provenance' = NoEvidence(provenance, r)
     \/ /\ faults + 2 <= MaxFaults /\ faults' = faults + 2
        /\ UNCHANGED <<result, provenance>>
  /\ wk' = Finish("WORKER_ERROR")
  /\ UNCHANGED <<jobs, runs, memory, cl, server, restarts>>

\* Any other store call of the worker raises: inside the executor the loop
\* records WORKER_ERROR, outside of it nobody catches and the thread ends.
StoreFails ==
  /\ wk.pc \in LoopPcs \cup (ExecutorPcs \ {"write_provenance", "commit"})
  /\ faults < MaxFaults /\ faults' = faults + 1
  /\ wk' = IF wk.pc \in LoopPcs THEN Off ELSE Finish("WORKER_ERROR")
  /\ UNCHANGED <<disk, memory, cl, server, restarts>>

Worker ==
  \/ WorkerGet \/ WorkerRead \/ WorkerClaim \/ WorkerReread
  \/ ExecuteBegin \/ ReadInputs \/ Compute
  \/ AdvanceRead \/ TransitionRead \/ AdvanceCas \/ CheckCancel \/ FailCas
  \/ WriteResult \/ WriteProvenance \/ Commit
  \/ WorkerFinish \/ WorkerFinishCas

-----------------------------------------------------------------------------
(* Requests: cancel, create and retry *)

Requestable(c) ==
  cl[c].pc = "idle" /\ server = "up"

ClientStep(t, next) ==
  cl' = [cl EXCEPT ![t] = next] /\ UNCHANGED <<disk, memory, wk, server, budgets>>

\* request_cancel: read, then compare and swap, up to MaxTries times.
CancelBegin(c) ==
  /\ Requestable(c)
  /\ \E j \in Jobs :
       Recorded(j) /\ ClientStep(c, [IdleClient EXCEPT !.pc = "cancel_read", !.job = j])

\* There is nothing left to ask for; the slip asks again for the same.
SlipCancelSettled(job) == job.state \in TerminalStates
CancelSettled(job) == job.state \in TerminalStates \/ job.cancel_requested

CancelRead(c) ==
  /\ cl[c].pc = "cancel_read"
  /\ LET job == jobs[cl[c].job] IN
     ClientStep(c, IF ~Listable \/ CancelSettled(job) THEN IdleClient
                     ELSE [cl[c] EXCEPT !.pc = "cancel_cas", !.revision = job.revision,
                             !.target = IF job.state = "QUEUED" THEN "CANCELLED" ELSE Same])

\* After a refused attempt; the slip repeats it with what it has read before.
SlipCancelAgain(request) == request
CancelAgain(request) ==
  IF request.tries + 1 = MaxTries THEN IdleClient
  ELSE [request EXCEPT !.pc = "cancel_read", !.tries = @ + 1]

CancelCas(c) ==
  /\ cl[c].pc = "cancel_cas" /\ JobLockFree
  /\ LET j == cl[c].job IN
         IF UpdateAllowed(jobs[j], cl[c].revision, cl[c].target, TRUE, NoError)
           THEN /\ jobs' = [jobs EXCEPT ![j] = Updated(@, cl[c].target, TRUE, NoError)]
                /\ cl' = [cl EXCEPT ![c] = IdleClient]
           ELSE /\ cl' = [cl EXCEPT ![c] = CancelAgain(@)]
                /\ UNCHANGED jobs
  /\ UNCHANGED <<runs, result, provenance, memory, wk, server, budgets>>

\* The bound on identities keeps new submissions out, never one under way.
IdentityLeft == InState({"NONE"}) # {}

\* create_and_enqueue: the snapshot of a new run is on disk before its job.
CreateRun(c) ==
  /\ Requestable(c) /\ SubmissionLockFree /\ IdentityLeft
  /\ \E r \in Runs \ runs :
       /\ runs' = runs \cup {r}
       /\ cl' = [cl EXCEPT ![c] = [IdleClient EXCEPT !.pc = "enqueue", !.run = r]]
  /\ UNCHANGED <<jobs, result, provenance, memory, wk, server, budgets>>

\* Checked by retry_job and again, under _job_lock, before it discards; the
\* slip does not look for a COMPLETE job.
SlipRetryable(r) == Listable /\ ActiveJobs(r) = {}
Retryable(r) == Listable /\ ActiveJobs(r) = {} /\ CompleteJobs(r) = {}

\* retry_job: an ended job of a run without an active or a COMPLETE job.
RetryCheck(c) ==
  /\ Requestable(c) /\ SubmissionLockFree /\ IdentityLeft
  /\ \E j \in InState(TerminalStates \ {"COMPLETE"}) :
       /\ Retryable(jobs[j].run)
       /\ ClientStep(c, [IdleClient EXCEPT !.pc = "discard", !.run = jobs[j].run])

\* discard_unfinished_run_artifacts: under _job_lock, one file at a time.
DiscardResult(c) ==
  /\ cl[c].pc = "discard" /\ JobLockFree
  /\ LET r == cl[c].run IN
     IF Retryable(r)
       THEN /\ result' = NoEvidence(result, r)
            /\ cl' = [cl EXCEPT ![c].pc = "discard_provenance"]
       ELSE cl' = [cl EXCEPT ![c] = IdleClient] /\ UNCHANGED result
  /\ UNCHANGED <<jobs, runs, provenance, memory, wk, server, budgets>>

\* Only result.json is discarded.
SlipDiscardProvenance(c) ==
  /\ cl[c].pc = "discard_provenance"
  /\ cl' = [cl EXCEPT ![c].pc = "enqueue"]
  /\ UNCHANGED <<disk, memory, wk, server, budgets>>

DiscardProvenance(c) ==
  /\ cl[c].pc = "discard_provenance"
  /\ provenance' = NoEvidence(provenance, cl[c].run)
  /\ cl' = [cl EXCEPT ![c].pc = "enqueue"]
  /\ UNCHANGED <<jobs, runs, result, memory, wk, server, budgets>>

\* The next identity; job records are listed in the order of their creation.
NewJob(j) == jobs[j].state = "NONE" /\ \A k \in Jobs : k < j => jobs[k].state # "NONE"

\* A job is dropped when another one is waiting.
SlipSchedule(j) == IF pending # <<>> THEN pending ELSE Append(pending, j)
Schedule(j) == IF \E i \in DOMAIN pending : pending[i] = j THEN pending ELSE Append(pending, j)

\* enqueue: a stopping queue refuses.  save_job_record makes the directory
\* of the job, then links the complete job.json into it.
Enqueue(c) ==
  /\ cl[c].pc = "enqueue" /\ QueueLockFree /\ JobLockFree
  /\ IF stopRequested
       THEN cl' = [cl EXCEPT ![c] = IdleClient] /\ UNCHANGED jobs
       ELSE \E j \in Jobs :
              /\ NewJob(j)
              /\ jobs' = [jobs EXCEPT ![j].state = "TORN"]
              /\ cl' = [cl EXCEPT ![c].pc = "create", ![c].job = j]
  /\ UNCHANGED <<runs, result, provenance, memory, wk, server, budgets>>

\* Once the record is there the worker hears of it, if there is a worker;
\* then the route calls start().
Create(c) ==
  /\ cl[c].pc = "create"
  /\ jobs' = [jobs EXCEPT ![cl[c].job] = QueuedRecord(cl[c].run)]
  /\ pending' = IF thread = "none" THEN pending ELSE Schedule(cl[c].job)
  /\ cl' = [cl EXCEPT ![c] = [IdleClient EXCEPT !.pc = "start"]]
  /\ UNCHANGED <<runs, result, provenance, stopRequested, thread, wk, server, budgets>>

\* save_job_record raises; the directory stays if it was made.
EnqueueFails(c) ==
  /\ cl[c].pc = "enqueue" \/ (cl[c].pc = "create" /\ TornCreates)
  /\ faults < MaxFaults /\ faults' = faults + 1
  /\ cl' = [cl EXCEPT ![c] = IdleClient]
  /\ UNCHANGED <<disk, memory, wk, server, restarts>>

-----------------------------------------------------------------------------
(* start(), called by Main and after every submission *)

\* When start() raises, a request answers 500; the application does not boot.
StartRaises(t) ==
  /\ cl' = [cl EXCEPT ![t] = IdleClient]
  /\ server' = IF t = Main THEN "down" ELSE server

InCreationOrder(q) == \A i, k \in DOMAIN q : i < k => q[i] < q[k]
Queues == UNION {[1..n -> Jobs] : n \in 0..MaxJobs}

\* What recover() interrupts; the slip forgets the first phase.
SlipInFlight == InState(TransientStates \ {"VALIDATING"})
InFlight == InState(TransientStates)

\* start() under _lock: a fresh queue, then recover() reads all records and
\* schedules the QUEUED ones; the others that have not ended are its todo.
StartBegin(t) ==
  /\ cl[t].pc = "start" /\ QueueLockFree
  /\ IF WorkerAlive
       THEN /\ cl' = [cl EXCEPT ![t] = IdleClient]
            /\ UNCHANGED <<memory, server>>
       ELSE /\ stopRequested' = FALSE
            /\ IF Listable
                 THEN /\ \E q \in Queues :
                           /\ InCreationOrder(q)
                           /\ {q[i] : i \in DOMAIN q} = InState({"QUEUED"})
                           /\ pending' = q
                      /\ cl' = [cl EXCEPT ![t] = [IdleClient EXCEPT !.pc = "recover",
                            !.todo = {<<j, jobs[j].revision>> : j \in InFlight}]]
                      /\ UNCHANGED server
                 ELSE pending' = <<>> /\ StartRaises(t)
            /\ UNCHANGED thread
  /\ UNCHANGED <<disk, wk, budgets>>

\* What becomes of it; the slip writes it off as FAILED.
SlipRecoveredState == "FAILED"
RecoveredState == "INTERRUPTED"

\* recover(): a job that was in flight when its worker ended is interrupted.
RecoverJob(t) ==
  /\ cl[t].pc = "recover" /\ JobLockFree
  /\ \E seen \in cl[t].todo :
       LET j == seen[1] IN
       IF UpdateAllowed(jobs[j], seen[2], RecoveredState, FALSE, "WORKER_RESTART")
         THEN /\ jobs' = [jobs EXCEPT ![j] = Updated(@, RecoveredState, FALSE, "WORKER_RESTART")]
              /\ cl' = [cl EXCEPT ![t].todo = @ \ {seen}]
              /\ UNCHANGED server
         ELSE StartRaises(t) /\ UNCHANGED jobs
  /\ UNCHANGED <<runs, result, provenance, memory, wk, budgets>>

\* No worker is alive here (RecoveryExcludesWorker).
StartWorker(t) ==
  /\ cl[t].pc = "recover" /\ cl[t].todo = {}
  /\ wk.pc = "off"
  /\ wk' = Looping
  /\ thread' = "set"
  /\ cl' = [cl EXCEPT ![t] = IdleClient]
  /\ server' = IF t = Main THEN "up" ELSE server
  /\ UNCHANGED <<disk, pending, stopRequested, budgets>>

-----------------------------------------------------------------------------
(* The process: boot, orderly shutdown, crash *)

Boot ==
  /\ server = "down"
  /\ server' = "booting"
  /\ cl' = [cl EXCEPT ![Main] = [IdleClient EXCEPT !.pc = "start"]]
  /\ UNCHANGED <<disk, memory, wk, budgets>>

AllIdle == \A t \in Threads : cl[t].pc = "idle"

\* stop(): the flag and the sentinel under _lock; the server drains its
\* requests before the lifespan ends.
StopBegin ==
  /\ server = "up" /\ QueueLockFree
  /\ AllIdle
  /\ restarts < MaxRestarts /\ restarts' = restarts + 1
  /\ stopRequested' = TRUE
  /\ pending' = Append(pending, StopToken)
  /\ server' = "stopping"
  /\ UNCHANGED <<disk, thread, wk, cl, faults>>

\* join() returns when the worker has ended; _thread is cleared afterwards.
StopJoin ==
  /\ server = "stopping" /\ wk.pc = "off"
  /\ server' = "joined"
  /\ UNCHANGED <<disk, memory, wk, cl, budgets>>

StopClear ==
  /\ server = "joined" /\ QueueLockFree
  /\ thread' = "none"
  /\ server' = "stopped"
  /\ UNCHANGED <<disk, pending, stopRequested, wk, cl, budgets>>

\* The process is gone: what is left is on disk.
ForgetMemory ==
  /\ pending' = <<>> /\ stopRequested' = FALSE /\ thread' = "none"
  /\ wk' = Off
  /\ cl' = [t \in Threads |-> IdleClient]
  /\ server' = "down"

Exit ==
  /\ server = "stopped" /\ AllIdle
  /\ ForgetMemory
  /\ UNCHANGED <<disk, budgets>>

\* The process dies between any two steps.
Crash ==
  /\ server # "down"
  /\ TornCreates \/ \A c \in Clients : cl[c].pc # "create"
  /\ restarts < MaxRestarts /\ restarts' = restarts + 1
  /\ ForgetMemory
  /\ UNCHANGED <<disk, faults>>

-----------------------------------------------------------------------------

NoJobRecord ==
  [run |-> NoRun, state |-> "NONE", revision |-> 0,
   cancel_requested |-> FALSE, safe_error |-> NoError]

Init ==
  /\ jobs = [j \in Jobs |-> NoJobRecord]
  /\ runs = {}
  /\ result = [r \in Runs |-> NoJob] /\ provenance = [r \in Runs |-> NoJob]
  /\ pending = <<>> /\ stopRequested = FALSE /\ thread = "none"
  /\ wk = Off
  /\ cl = [t \in Threads |-> IdleClient]
  /\ server = "down"
  /\ restarts = 0 /\ faults = 0

Request(c) ==
  \/ CancelBegin(c) \/ CancelRead(c) \/ CancelCas(c)
  \/ CreateRun(c) \/ RetryCheck(c)
  \/ DiscardResult(c) \/ DiscardProvenance(c)
  \/ Enqueue(c) \/ Create(c) \/ EnqueueFails(c)

Start(t) == StartBegin(t) \/ RecoverJob(t) \/ StartWorker(t)

Lifespan == Boot \/ StopBegin \/ StopJoin \/ StopClear \/ Exit

\* Nothing to do until a request comes: not a deadlock.
Waiting ==
  /\ server = "up" /\ AllIdle
  /\ wk.pc = "off" \/ (wk.pc = "get" /\ pending = <<>>)
  /\ UNCHANGED vars

Next ==
  \/ Worker
  \/ WriteFails
  \/ StoreFails
  \/ \E c \in Clients : Request(c)
  \/ \E t \in Threads : Start(t)
  \/ Lifespan
  \/ Crash
  \/ Waiting

Spec == Init /\ [][Next]_vars

\* What a thread does of its own accord once it was set going.
Proceed(c) ==
  \/ CancelRead(c) \/ CancelCas(c)
  \/ DiscardResult(c) \/ DiscardProvenance(c)
  \/ Enqueue(c) \/ Create(c) \/ Start(c)

MainProceeds == Boot \/ Start(Main) \/ StopJoin \/ StopClear \/ Exit

(***************************************************************************)
(* Every thread is scheduled again and again: the worker, the requests     *)
(* that were accepted, and Main, which boots a server that is down and     *)
(* goes on with a stop that has begun.  Nobody has to send a request, to   *)
(* begin a stop, to crash or to fail.                                      *)
(***************************************************************************)
Fairness ==
  /\ WF_vars(Worker)
  /\ \A c \in Clients : WF_vars(Proceed(c))
  /\ WF_vars(MainProceeds)

FairSpec == Spec /\ Fairness

=============================================================================
