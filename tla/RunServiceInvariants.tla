------------------------ MODULE RunServiceInvariants ------------------------
(***************************************************************************)
(* What the job core of RunService must never do, and what it must         *)
(* eventually do.  The first invariants are the ones TLC checks and        *)
(* RunServiceProofs proves; their inductive strengthening follows them.    *)
(***************************************************************************)
EXTENDS RunService

JobRecord ==
  [run : Runs \cup {NoRun}, state : JobStates \cup NoRecord, revision : Nat,
   cancel_requested : BOOLEAN, safe_error : Errors]

Steps == JobStates \cup {Same}

WorkerRecord ==
  [pc : WorkerPcs, job : Jobs \cup {NoJob}, revision : Nat, phase : Steps,
   target : Steps, tries : Nat, error : Errors]

ClientRecord ==
  [pc : ClientPcs, job : Jobs \cup {NoJob}, run : Runs \cup {NoRun}, revision : Nat,
   target : Steps, tries : Nat, todo : SUBSET (Jobs \X Nat)]

\* Every variable has its type, and a thread that works on a job or a run
\* has one: the values of jobs/models.py and the local variables of the code.
TypeOK ==
  /\ jobs \in [Jobs -> JobRecord]
  /\ runs \subseteq Runs
  /\ result \in [Runs -> Jobs \cup {NoJob}]
  /\ provenance \in [Runs -> Jobs \cup {NoJob}]
  /\ pending \in Seq(Jobs \cup {StopToken})
  /\ stopRequested \in BOOLEAN
  /\ thread \in {"none", "set"}
  /\ wk \in WorkerRecord
  /\ cl \in [Threads -> ClientRecord]
  /\ server \in {"down", "booting", "up", "stopping", "joined", "stopped"}
  /\ restarts \in Nat
  /\ faults \in Nat

-----------------------------------------------------------------------------
(* Safety *)

\* A COMPLETE job's run has both files, written by that job: a crash, a
\* failed write, a retry or a racing cancel never leaves half a pair behind a
\* COMPLETE record, nor the pair of another attempt (storage.py:489-546).
EvidenceIsWhole ==
  \A r \in Runs : \A j \in CompleteJobs(r) : result[r] = j /\ provenance[r] = j

\* A run never has two jobs that have not ended: retries of one run, sent by
\* several clients, exclude each other (runs.py:264-279).
OneActiveJobPerRun ==
  \A r \in Runs : \A j, k \in ActiveJobs(r) : j = k

\* A run that is COMPLETE is settled: it has no job that could still change it,
\* however late a retry or a commit of another attempt comes (runs.py:272-275).
SettledRuns ==
  \A r \in Runs : CompleteJobs(r) # {} => ActiveJobs(r) = {}

\* The persistent queue has a single worker: over crashes, restarts and dead
\* worker threads, no two records are ever in flight (queue.py:22).
OneJobAtWork ==
  \A j, k \in InState(TransientStates) : j = k

\* No lost wake-up: while the worker lives, every QUEUED record on disk is in
\* its queue or in its hands, whoever created it and whenever (queue.py:44-85).
QueuedJobIsScheduled ==
  WorkerAlive /\ ~stopRequested =>
    \A j \in InState({"QUEUED"}) :
      \/ \E i \in DOMAIN pending : pending[i] = j
      \/ wk.job = j /\ wk.pc \in {"read", "claim"}

\* What a crash or a failed rollback left of an earlier attempt is gone before
\* the next attempt is queued, so that it can write its own pair
\* (runs.py:276-278, storage.py:530-531).
NextAttemptStartsClean ==
  \A r \in Runs :
    (\E j \in ActiveJobs(r) : jobs[j].state # "WRITING_ARTIFACT") =>
      result[r] = NoJob /\ provenance[r] = NoJob

\* No compare-and-swap loop comes to its last attempt, so the errors "could
\* not be serialized" of queue.py:119, :212 and runs.py:301 are never raised.
LoopsConverge ==
  /\ wk.tries + 1 < MaxTries
  /\ \A t \in Threads : cl[t].tries + 1 < MaxTries

\* Recovery never runs beside a living worker, whose job it would interrupt:
\* the error of queue.py:56-57 guards every path to it.
RecoveryExcludesWorker ==
  \A t \in Threads : cl[t].pc = "recover" => wk.pc = "off"

\* Disk, queue and worker agree: nothing that waits is forgotten, and nothing is taken from
\* the worker (queue.py:44-85).
QueueIsCoherent == QueuedJobIsScheduled /\ RecoveryExcludesWorker

-----------------------------------------------------------------------------
(* The strengthening that makes the safety of the evidence inductive *)

\* A busy thread has the local values its next step needs.
Submitting(t) == cl[t].pc \in {"discard", "discard_provenance", "enqueue", "create"}
Writing == wk.pc \in {"write_provenance", "commit"}
Phases == {"EVALUATING", "ANALYZING", "WRITING_ARTIFACT", "CANCELLED"}

WorkerHolds(w) ==
  /\ w.pc \in LoopPcs \cup ExecutorPcs => w.job \in Jobs /\ Recorded(w.job)
  /\ w.pc \in {"adv", "adv_read", "adv_cas"} => w.phase \in Phases
  /\ w.pc \in {"adv_read", "adv_cas"} => w.target \in Phases
  /\ w.pc = "compute" => w.target \in {"EVALUATING", "ANALYZING"}
  /\ w.pc = "finish_cas" => w.target \in {"CANCELLED", "FAILED"}

WorkerKnows == WorkerHolds(wk)

RequestHolds(request) ==
  /\ request.pc \in {"cancel_read", "cancel_cas"} =>
       request.job \in Jobs /\ Recorded(request.job)
  /\ request.pc = "cancel_cas" => request.target \in {"CANCELLED", Same}
  /\ \A seen \in request.todo : Recorded(seen[1])

ClientKnows == \A t \in Threads : RequestHolds(cl[t])

QueueKnows ==
  \A i \in DOMAIN pending : pending[i] # StopToken => Recorded(pending[i])

\* The submission lock, and what its holder has found out and done so far.
OneSubmitter == \A t, u \in Threads : Submitting(t) /\ Submitting(u) => t = u

SubmitterHolds(t) ==
  /\ cl[t].run \in runs /\ ActiveJobs(cl[t].run) = {} /\ CompleteJobs(cl[t].run) = {}
  /\ cl[t].pc # "discard" => result[cl[t].run] = NoJob
  /\ cl[t].pc \in {"enqueue", "create"} => provenance[cl[t].run] = NoJob
  /\ cl[t].pc = "create" => cl[t].job \in Jobs /\ jobs[cl[t].job].state = "TORN"

SubmitterKnows == \A t \in Threads : Submitting(t) => SubmitterHolds(t)

\* The job lock while artifacts are written, and what the writer relies on.
WriterExcludesOthers ==
  Writing => \A t \in Threads : cl[t].pc \notin {"discard_provenance", "create"}

WriterKnows ==
  Writing =>
    LET j == wk.job  r == jobs[j].run IN
    /\ jobs[j].state = "WRITING_ARTIFACT" /\ ~jobs[j].cancel_requested
    /\ jobs[j].revision = wk.revision
    /\ CompleteJobs(r) = {} /\ result[r] = j
    /\ provenance[r] = IF wk.pc = "commit" THEN j ELSE NoJob

KnownRuns ==
  /\ \A j \in Jobs : Recorded(j) => jobs[j].run \in runs
  /\ \A r \in Runs : result[r] # NoJob \/ provenance[r] # NoJob => r \in runs

\* Inductive: the invariants of the evidence with all they rest on.
EvidenceInvariant ==
  /\ TypeOK
  /\ WorkerKnows /\ ClientKnows /\ QueueKnows
  /\ OneSubmitter /\ SubmitterKnows
  /\ WriterExcludesOthers /\ WriterKnows
  /\ KnownRuns
  /\ EvidenceIsWhole /\ OneActiveJobPerRun /\ NextAttemptStartsClean

-----------------------------------------------------------------------------
(* The strengthening that makes the queue's safety inductive *)

\* The points where a claimed job is in the worker's hands.
WorkingPcs == {"reread", "finish", "finish_cas"} \cup ExecutorPcs

\* A record leaves the queue with its first revision; an identity without a
\* record says nothing yet.
RecordsTell ==
  \A j \in Jobs :
    /\ Recorded(j) => (jobs[j].state = "QUEUED" <=> jobs[j].revision = 0)
    /\ jobs[j].state \in {"QUEUED"} \cup NoRecord => ~jobs[j].cancel_requested
    /\ ~Recorded(j) => jobs[j].run = NoRun

\* What the worker has read still says something of the record it will update.
WorkerTells ==
  /\ wk.pc = "claim" => wk.revision = 0
  /\ wk.pc \in WorkingPcs => jobs[wk.job].state # "QUEUED"
  /\ wk.pc \in {"adv_read", "adv_cas", "finish_cas"} /\ wk.target = "CANCELLED" =>
       jobs[wk.job].cancel_requested
  /\ wk.pc \in {"adv", "adv_read", "adv_cas"} /\ wk.phase = "CANCELLED" =>
       jobs[wk.job].cancel_requested

\* And so does what a cancelling request has read.
RequestTells(request) ==
  request.pc = "cancel_cas" => (request.target = "CANCELLED" <=> request.revision = 0)

\* Work is in the hands of a living worker, or on the list of the thread that
\* recovers it.
WorkIsInHand ==
  \A j \in InState(TransientStates) :
    /\ wk.pc # "off" => wk.job = j /\ wk.pc \in WorkingPcs
    /\ \A t \in Threads : cl[t].pc = "recover" => \E seen \in cl[t].todo : seen[1] = j

InPending(j) == \E i \in DOMAIN pending : pending[i] = j

\* A recovered queue has all that waits before its worker starts.
QueueIsRefilled ==
  \A t \in Threads : cl[t].pc = "recover" => \A j \in InState({"QUEUED"}) : InPending(j)

\* The queue lock, held while a job is recorded and while others are recovered.
OneInQueue ==
  \A t, u \in Threads :
    cl[t].pc \in {"recover", "create"} /\ cl[u].pc \in {"recover", "create"} => t = u

\* Requests run while the server is up, Main starts the queue before and has
\* joined the worker when it forgets the thread.
ServerTells ==
  /\ thread = "none" \/ server = "joined" => wk.pc = "off"
  /\ server # "up" => \A c \in Clients : cl[c].pc = "idle"
  /\ server # "booting" => cl[Main].pc = "idle"

\* Inductive, beside EvidenceInvariant.
QueueInvariant ==
  /\ RecordsTell /\ WorkerTells
  /\ \A t \in Threads : RequestTells(cl[t])
  /\ OneJobAtWork /\ WorkIsInHand
  /\ QueueIsRefilled /\ OneInQueue /\ ServerTells
  /\ QueueIsCoherent

-----------------------------------------------------------------------------
(* Why the compare-and-swap loops end *)

\* The changes a record can have seen on its way to a state, beside its one cancel.
Place ==
  [s \in JobStates |->
     CASE s = "QUEUED" -> 0 [] s = "VALIDATING" -> 1 [] s = "EVALUATING" -> 2
       [] s = "ANALYZING" -> 3 [] s = "WRITING_ARTIFACT" -> 4 [] OTHER -> 5]

RevisionFits(job) == job.revision <= Place[job.state] + (IF job.cancel_requested THEN 1 ELSE 0)

\* Every refused attempt of a cancel has seen a later revision.
CancelLoops(request, job) ==
  /\ request.pc \notin {"cancel_read", "cancel_cas"} => request.tries = 0
  /\ request.pc = "cancel_read" => request.tries <= job.revision
  /\ request.pc = "cancel_cas" =>
       /\ request.tries <= request.revision /\ request.revision <= job.revision
       /\ request.revision = job.revision => ~CancelSettled(job)

\* The worker goes through the phases in order.
WorkerInPhase(w, job) ==
  /\ w.pc \in WorkingPcs \ {"finish"} => job.state \in TransientStates
  /\ w.pc = "inputs" => job.state = "VALIDATING"
  /\ w.pc = "compute" => job.state = w.target
  /\ w.pc \in {"adv", "adv_read", "adv_cas"} => w.phase \in {"CANCELLED", NextPhase[job.state]}
  /\ w.pc \in {"adv_read", "adv_cas"} => w.target \in {"CANCELLED", w.phase}
  /\ w.pc = "finish_cas" => (w.target = "FAILED" <=> w.error # NoError)

\* Only a cancel can come in between, and once.
WorkerLoops(w, job) ==
  /\ w.tries \in {0, 1}
  /\ w.pc \in {"adv_cas", "finish_cas"} /\ w.revision # job.revision =>
       job.cancel_requested /\ w.tries = 0
  /\ w.pc \in {"adv", "adv_read", "adv_cas", "finish", "finish_cas"} /\ w.tries = 1 =>
       job.cancel_requested
  /\ w.pc \in {"adv_read", "adv_cas"} /\ w.tries = 1 => w.target = "CANCELLED"

\* Inductive, beside EvidenceInvariant and QueueInvariant.
LoopInvariant ==
  /\ \A j \in Jobs : Recorded(j) => RevisionFits(jobs[j])
  /\ \A t \in Threads : CancelLoops(cl[t], jobs[cl[t].job])
  /\ WorkerInPhase(wk, jobs[wk.job]) /\ WorkerLoops(wk, jobs[wk.job])

-----------------------------------------------------------------------------
(* What a step may never do *)

\* Once a run is COMPLETE its records and its evidence are history: no retry,
\* cancel, recovery, rollback or discard changes them (design, section 15).
CompleteRunIsFinal ==
  [][\A r \in Runs : CompleteJobs(r) # {} =>
       /\ result'[r] = result[r] /\ provenance'[r] = provenance[r]
       /\ JobsOf(r)' = JobsOf(r)
       /\ \A j \in JobsOf(r) : jobs'[j] = jobs[j]]_vars

\* Work that lost its worker is never taken up again in the middle: the record
\* only becomes INTERRUPTED (design, section 17; queue.py:62-71).
NoResumption ==
  [][\A j \in InState(TransientStates) :
       jobs'[j].state # jobs[j].state /\ (wk.job # j \/ wk.pc = "off") =>
         jobs'[j].state = "INTERRUPTED"]_vars

\* RunService implements the lifecycle: the evidence a reader gets of a run is
\* what get_run_artifacts reads, and a torn job directory is not a job.
Lifecycle ==
  INSTANCE JobLifecycle WITH
    state <- [j \in Jobs |-> IF Recorded(j) THEN jobs[j].state ELSE "NONE"],
    runOf <- [j \in Jobs |-> jobs[j].run],
    cancelled <- [j \in Jobs |-> jobs[j].cancel_requested],
    published <- [r \in Runs |-> Published(r)]

\* Every interleaving of workers, requests, crashes and faults is, seen from
\* the records and the readable evidence, a behaviour of the lifecycle.
ImplementsLifecycle == Lifecycle!LifecycleSpec

-----------------------------------------------------------------------------
(* Liveness, under FairSpec *)

\* Every job that was accepted ends, over crashes and shutdowns: it is not
\* forgotten in a queue, not left in flight (queue.py:53-85, :142-183).
EveryJobEnds ==
  \A j \in Jobs :
    jobs[j].state \in {"QUEUED"} \cup TransientStates ~> jobs[j].state \in TerminalStates

\* Every request is answered: no cycle of _submission_lock, _lock and
\* _job_lock, no loop of retries that goes on (runs.py:257-279).
RequestsReturn ==
  \A c \in Clients : cl[c].pc # "idle" ~> cl[c].pc = "idle"

\* "queued references survive process restarts on disk" (queue.py:22).
QueuedSurvivesRestart ==
  \A j \in Jobs : jobs[j].state = "QUEUED" ~> jobs[j].state # "QUEUED"

=============================================================================
