-------------------------- MODULE RunServiceProofs --------------------------
(***************************************************************************)
(* What holds of RunService for any number of clients, jobs, runs, tries,  *)
(* restarts and faults: the evidence of a complete run is whole and final. *)
(***************************************************************************)
EXTENDS RunServiceInvariants, SequenceTheorems, TLAPS

-----------------------------------------------------------------------------
(* The compare-and-swap on a record *)

USE DEF NoJob, StopToken

\* update_job_record keeps a record well formed, never leaves a terminal
\* state, reaches COMPLETE only from WRITING_ARTIFACT without a cancel, and
\* never goes back to a phase before the artifacts (storage.py:850-899).
LEMMA UpdateKeeps ==
  ASSUME NEW job \in JobRecord, job.state \in JobStates,
         NEW revision, NEW next \in Steps, NEW cancel \in BOOLEAN, NEW error \in Errors,
         UpdateAllowed(job, revision, next, cancel, error)
  PROVE  LET new == Updated(job, next, cancel, error) IN
         /\ new \in JobRecord
         /\ new.state \in JobStates
         /\ new.run = job.run
         /\ new.revision = job.revision + 1
         /\ job.revision = revision
         /\ job.state \notin TerminalStates
         /\ new.state = "COMPLETE" => next = "COMPLETE" /\ job.state = "WRITING_ARTIFACT"
         /\ job.state = "WRITING_ARTIFACT" =>
              new.state \in TerminalStates \cup {"WRITING_ARTIFACT"}
<1> DEFINE new == Updated(job, next, cancel, error)
<1>1. Target(job, next) \in JobStates
  BY DEF Target, Steps, JobRecord
<1>2. /\ job.state \notin TerminalStates /\ job.revision = revision
      /\ next # Same => Target(job, next) \in AllowedTransitions(job.state)
  BY DEF UpdateAllowed
<1> DEFINE flag == job.cancel_requested \/ cancel
<1>3. flag \in BOOLEAN
  BY DEF JobRecord
<1>6. new = [run |-> job.run, state |-> Target(job, next), revision |-> job.revision + 1,
             cancel_requested |-> flag, safe_error |-> error]
  BY Zenon DEF Updated
<1>7. /\ new \in JobRecord /\ new.run = job.run /\ new.revision = job.revision + 1
      /\ new.state = Target(job, next)
  <2> HIDE DEF flag, new
  <2>1. job.run \in Runs \cup {NoRun} /\ job.revision + 1 \in Nat
    BY DEF JobRecord
  <2>2. QED
    BY <1>1, <1>3, <1>6, <2>1 DEF JobRecord
<1>4. job.state \in {"QUEUED", "VALIDATING", "EVALUATING", "ANALYZING", "WRITING_ARTIFACT"}
  BY <1>2 DEF JobStates, TerminalStates, TransientStates
<1>5. /\ Target(job, next) = "COMPLETE" => next = "COMPLETE" /\ job.state = "WRITING_ARTIFACT"
      /\ job.state = "WRITING_ARTIFACT" =>
              Target(job, next) \in TerminalStates \cup {"WRITING_ARTIFACT"}
  BY <1>2, <1>4 DEF Target, Same, AllowedTransitions, NextPhase, TerminalStates, TransientStates
<1>8. QED
  BY <1>1, <1>2, <1>7, <1>5

-----------------------------------------------------------------------------
(* Steps that change at most one record, through update_job_record, and do *)
(* not make it COMPLETE: all but the steps of a writer and of a submitter. *)

JobUpdated(j) ==
  \E revision \in Nat, next \in Steps \ {"COMPLETE"}, cancel \in BOOLEAN, error \in Errors :
    /\ UpdateAllowed(jobs[j], revision, next, cancel, error)
    /\ jobs' = [jobs EXCEPT ![j] = Updated(@, next, cancel, error)]

JobsStep == jobs' = jobs \/ \E j \in Jobs : Recorded(j) /\ JobUpdated(j)

\* What such a step leaves of every record (storage.py:850-899).
LEMMA JobsStepKeeps ==
  ASSUME jobs \in [Jobs -> JobRecord], JobsStep
  PROVE  /\ jobs' \in [Jobs -> JobRecord]
         /\ \A k \in Jobs :
              /\ jobs'[k].run = jobs[k].run
              /\ jobs'[k].state = "TORN" <=> jobs[k].state = "TORN"
              /\ jobs'[k].state \in NoRecord <=> jobs[k].state \in NoRecord
              /\ jobs'[k].state = "COMPLETE" <=> jobs[k].state = "COMPLETE"
              /\ jobs[k].state \in TerminalStates => jobs'[k] = jobs[k]
              /\ jobs[k].state = "WRITING_ARTIFACT" =>
                   jobs'[k].state \in TerminalStates \cup {"WRITING_ARTIFACT"}
<1>1. CASE jobs' = jobs
  BY <1>1 DEF TerminalStates
<1>2. ASSUME NEW j \in Jobs, Recorded(j), JobUpdated(j)
      PROVE  /\ jobs' \in [Jobs -> JobRecord]
             /\ \A k \in Jobs :
                  /\ jobs'[k].run = jobs[k].run
                  /\ jobs'[k].state = "TORN" <=> jobs[k].state = "TORN"
                  /\ jobs'[k].state \in NoRecord <=> jobs[k].state \in NoRecord
                  /\ jobs'[k].state = "COMPLETE" <=> jobs[k].state = "COMPLETE"
                  /\ jobs[k].state \in TerminalStates => jobs'[k] = jobs[k]
                  /\ jobs[k].state = "WRITING_ARTIFACT" =>
                       jobs'[k].state \in TerminalStates \cup {"WRITING_ARTIFACT"}
  <2>1. PICK revision \in Nat, next \in Steps \ {"COMPLETE"}, cancel \in BOOLEAN,
             error \in Errors :
          /\ UpdateAllowed(jobs[j], revision, next, cancel, error)
          /\ jobs' = [jobs EXCEPT ![j] = Updated(jobs[j], next, cancel, error)]
    BY <1>2 DEF JobUpdated
  <2> DEFINE new == Updated(jobs[j], next, cancel, error)
  <2>2. jobs[j] \in JobRecord /\ jobs[j].state \in JobStates
    BY <1>2 DEF Recorded, JobRecord
  <2>3. /\ new \in JobRecord /\ new.state \in JobStates
        /\ new.run = jobs[j].run
        /\ jobs[j].state \notin TerminalStates
        /\ new.state # "COMPLETE"
        /\ jobs[j].state = "WRITING_ARTIFACT" =>
              new.state \in TerminalStates \cup {"WRITING_ARTIFACT"}
    BY <2>1, <2>2, UpdateKeeps
  <2>4. jobs' = [jobs EXCEPT ![j] = new]
    BY <2>1
  <2>5. new.state \notin NoRecord /\ new.state # "TORN" /\ jobs[j].state \notin NoRecord
        /\ jobs[j].state # "TORN"
    BY <2>2, <2>3 DEF JobStates, NoRecord, TransientStates, TerminalStates
  <2> HIDE DEF new
  <2>6. \A k \in Jobs : jobs'[k] = IF k = j THEN new ELSE jobs[k]
    BY <2>4
  <2>7. jobs' \in [Jobs -> JobRecord]
    BY <2>3, <2>4
  <2>8. QED
    BY <2>3, <2>5, <2>6, <2>7 DEF TerminalStates
<1>3. QED
  BY <1>1, <1>2 DEF JobsStep

\* The part of the invariant that a quiet step keeps as a whole.
DiskInvariant ==
  /\ OneSubmitter /\ SubmitterKnows
  /\ WriterExcludesOthers /\ WriterKnows
  /\ KnownRuns
  /\ EvidenceIsWhole /\ OneActiveJobPerRun /\ NextAttemptStartsClean

\* A quiet step updates at most one record and touches no file of a run; no
\* thread becomes a submitter or a writer in it, and while there is a writer
\* it updates nothing: it keeps all that is known of the evidence.
LEMMA QuietStep ==
  ASSUME TypeOK, DiskInvariant, JobsStep, UNCHANGED <<runs, result, provenance>>,
         \A t \in Threads : Submitting(t)' => Submitting(t) /\ cl'[t] = cl[t],
         Writing' => Writing /\ wk' = wk /\ jobs' = jobs
  PROVE  DiskInvariant'
<1>1. jobs \in [Jobs -> JobRecord]
  BY DEF TypeOK
<1> DEFINE Keeps(k) ==
             /\ jobs'[k].run = jobs[k].run
             /\ jobs'[k].state = "TORN" <=> jobs[k].state = "TORN"
             /\ jobs'[k].state \in NoRecord <=> jobs[k].state \in NoRecord
             /\ jobs'[k].state = "COMPLETE" <=> jobs[k].state = "COMPLETE"
             /\ jobs[k].state \in TerminalStates => jobs'[k] = jobs[k]
             /\ jobs[k].state = "WRITING_ARTIFACT" =>
                  jobs'[k].state \in TerminalStates \cup {"WRITING_ARTIFACT"}
<1>2. \A k \in Jobs : Keeps(k)
  BY <1>1, JobsStepKeeps
<1>3. \A r \in Runs : CompleteJobs(r)' = CompleteJobs(r)
  BY <1>2 DEF CompleteJobs, JobsOf, Recorded
<1>4. \A r \in Runs : ActiveJobs(r)' \subseteq ActiveJobs(r)
  BY <1>2 DEF ActiveJobs, JobsOf, Recorded
<1>5. OneSubmitter'
  BY DEF DiskInvariant, OneSubmitter
<1>6. SubmitterKnows'
  <2> SUFFICES ASSUME NEW t \in Threads, Submitting(t)'
               PROVE  SubmitterHolds(t)'
    BY DEF SubmitterKnows
  <2>1. Submitting(t) /\ cl'[t] = cl[t] /\ SubmitterHolds(t)
    BY DEF DiskInvariant, SubmitterKnows
  <2>2. cl[t].run \in Runs
    BY <2>1 DEF SubmitterHolds, TypeOK
  <2>3. ActiveJobs(cl[t].run)' = {} /\ CompleteJobs(cl[t].run)' = {}
    BY <1>3, <1>4, <2>1, <2>2 DEF SubmitterHolds
  <2>4. QED
    BY <1>2, <2>1, <2>2, <2>3 DEF SubmitterHolds
<1>7. WriterExcludesOthers'
  BY DEF DiskInvariant, WriterExcludesOthers, Submitting, Writing
<1>8. WriterKnows'
  <2> SUFFICES ASSUME Writing'
               PROVE  WriterKnows'
    BY DEF WriterKnows
  <2>1. Writing /\ wk' = wk /\ jobs' = jobs
    OBVIOUS
  <2>2. QED
    BY <2>1 DEF DiskInvariant, WriterKnows, CompleteJobs, JobsOf, Recorded
<1>9. KnownRuns'
  BY <1>2 DEF DiskInvariant, KnownRuns, Recorded
<1>10. EvidenceIsWhole'
  BY <1>3 DEF DiskInvariant, EvidenceIsWhole
<1>11. OneActiveJobPerRun'
  BY <1>4 DEF DiskInvariant, OneActiveJobPerRun
<1>12. NextAttemptStartsClean'
  <2> SUFFICES ASSUME NEW r \in Runs, NEW j \in ActiveJobs(r)',
                      jobs'[j].state # "WRITING_ARTIFACT"
               PROVE  result'[r] = NoJob /\ provenance'[r] = NoJob
    BY DEF NextAttemptStartsClean
  <2>1. j \in ActiveJobs(r) /\ j \in Jobs /\ jobs'[j].state \notin TerminalStates
    BY <1>4 DEF ActiveJobs, JobsOf
  <2>2. jobs[j].state # "WRITING_ARTIFACT"
    BY <1>2, <2>1
  <2>3. QED
    BY <2>1, <2>2 DEF DiskInvariant, NextAttemptStartsClean
<1>13. QED
  BY <1>5, <1>6, <1>7, <1>8, <1>9, <1>10, <1>11, <1>12 DEF DiskInvariant

-----------------------------------------------------------------------------
(* The worker *)

\* A step of the worker that leaves the files of runs and all requests alone,
\* and after which it is not writing.
LEMMA QuietWorker ==
  ASSUME EvidenceInvariant, JobsStep,
         UNCHANGED <<runs, result, provenance, stopRequested, thread, cl, server>>,
         restarts' \in Nat, faults' \in Nat,
         pending' = pending \/ (pending # <<>> /\ pending' = Tail(pending)),
         wk' \in WorkerRecord, WorkerHolds(wk'), ~Writing'
  PROVE  EvidenceInvariant'
<1>1. TypeOK /\ DiskInvariant /\ jobs \in [Jobs -> JobRecord]
  BY DEF EvidenceInvariant, DiskInvariant, TypeOK
<1>2. DiskInvariant'
  BY <1>1, QuietStep DEF Submitting
<1>3. jobs' \in [Jobs -> JobRecord] /\ \A k \in Jobs : Recorded(k)' <=> Recorded(k)
  BY <1>1, JobsStepKeeps DEF Recorded
<1>4. /\ pending' \in Seq(Jobs \cup {StopToken})
      /\ \A i \in DOMAIN pending' : \E k \in DOMAIN pending : pending'[i] = pending[k]
  <2>1. pending \in Seq(Jobs \cup {StopToken})
    BY DEF EvidenceInvariant, TypeOK
  <2>2. CASE pending' = pending
    BY <2>1, <2>2
  <2>3. CASE pending # <<>> /\ pending' = Tail(pending)
    <3>1. /\ Tail(pending) \in Seq(Jobs \cup {StopToken})
          /\ Len(Tail(pending)) = Len(pending) - 1
          /\ \A i \in 1..Len(Tail(pending)) : Tail(pending)[i] = pending[i + 1]
      BY <2>1, <2>3, HeadTailProperties
    <3>2. ASSUME NEW i \in DOMAIN Tail(pending)
          PROVE  Tail(pending)[i] = pending[i + 1] /\ i + 1 \in DOMAIN pending
      <4>1. i \in 1..Len(Tail(pending)) /\ DOMAIN pending = 1..Len(pending)
            /\ Len(pending) \in Nat
        BY <2>1, <3>1
      <4>2. QED
        BY <3>1, <4>1
    <3>3. QED
      BY <2>3, <3>1, <3>2
  <2>4. QED
    BY <2>2, <2>3
<1>5. TypeOK'
  BY <1>1, <1>3, <1>4 DEF TypeOK
<1>6. WorkerKnows'
  BY <1>3 DEF WorkerKnows, WorkerHolds, Recorded
<1>7. ClientKnows'
  <2>1. ASSUME NEW t \in Threads
        PROVE  RequestHolds(cl[t])'
    <3>1. RequestHolds(cl[t]) /\ cl[t].todo \subseteq Jobs \X Nat
      BY <1>1 DEF EvidenceInvariant, ClientKnows, TypeOK, ClientRecord
    <3>2. QED
      BY <1>3, <3>1 DEF RequestHolds
  <2>2. QED
    BY <2>1 DEF ClientKnows
<1>8. QueueKnows'
  <2>1. \A i \in DOMAIN pending : pending[i] \in Jobs \cup {StopToken}
    BY <1>1 DEF TypeOK
  <2>2. QED
    BY <1>3, <1>4, <2>1 DEF EvidenceInvariant, QueueKnows
<1>9. QED
  BY <1>2, <1>5, <1>6, <1>7, <1>8 DEF EvidenceInvariant, DiskInvariant

\* A state of the worker that may follow: it knows what it needs and does not
\* write artifacts.
Fits(w) == w \in WorkerRecord /\ WorkerHolds(w) /\ w.pc \notin {"write_provenance", "commit"}

\* A step that only reads.
LEMMA WorkerReads ==
  ASSUME EvidenceInvariant, NEW next, WorkerStep(next), Fits(next)
  PROVE  EvidenceInvariant'
<1>1. JobsStep /\ restarts' \in Nat /\ faults' \in Nat /\ pending' = pending /\ wk' = next
  BY DEF WorkerStep, JobsStep, disk, memory, budgets, EvidenceInvariant, TypeOK
<1>2. wk' \in WorkerRecord /\ WorkerHolds(wk') /\ ~Writing'
  BY <1>1 DEF Fits, Writing
<1>3. UNCHANGED <<runs, result, provenance, stopRequested, thread, cl, server>>
  BY DEF WorkerStep, disk, memory
<1>4. QED
  BY <1>1, <1>2, <1>3, QuietWorker

\* A step that compares and swaps the record of the worker's job.
LEMMA WorkerUpdates ==
  ASSUME EvidenceInvariant, wk.job \in Jobs, Recorded(wk.job),
         NEW next \in Steps \ {"COMPLETE"}, NEW error \in Errors,
         NEW ok, NEW refused, Fits(ok), Fits(refused),
         WorkerUpdate(next, error, ok, refused)
  PROVE  EvidenceInvariant'
<1>1. /\ restarts' \in Nat /\ faults' \in Nat /\ pending' = pending
      /\ wk' = ok \/ wk' = refused
      /\ UNCHANGED <<runs, result, provenance, stopRequested, thread, cl, server>>
  BY DEF WorkerUpdate, memory, budgets, EvidenceInvariant, TypeOK
<1>2. wk' \in WorkerRecord /\ WorkerHolds(wk') /\ ~Writing'
  BY <1>1 DEF Fits, Writing
<1>3. JobsStep
  <2>1. CASE jobs' = jobs
    BY <2>1 DEF JobsStep
  <2>2. CASE jobs' # jobs
    <3>1. /\ UpdateAllowed(jobs[wk.job], wk.revision, next, FALSE, error)
          /\ jobs' = [jobs EXCEPT ![wk.job] = Updated(jobs[wk.job], next, FALSE, error)]
      BY <2>2 DEF WorkerUpdate
    <3>2. wk.revision \in Nat
      BY DEF EvidenceInvariant, TypeOK, WorkerRecord
    <3>3. JobUpdated(wk.job)
      BY <3>1, <3>2 DEF JobUpdated
    <3>4. QED
      BY <3>3 DEF JobsStep
  <2>3. QED
    BY <2>1, <2>2
<1>4. QED
  BY <1>1, <1>2, <1>3, QuietWorker

\* The states in which the worker waits or has ended, and the one in which it
\* is back from the executor.
LEMMA Resting ==
  ASSUME EvidenceInvariant
  PROVE  /\ Fits(Off) /\ Fits(Looping)
         /\ wk.job \in Jobs /\ Recorded(wk.job) =>
              \A error \in Errors : Fits(Finish(error))
<1>1. Same \in Steps /\ NoError \in Errors
  BY DEF Steps, Errors
<1>2. Fits(Off) /\ Fits(Looping)
  BY <1>1 DEF Fits, Off, Looping, WorkerAt, WorkerRecord, WorkerHolds, WorkerPcs, LoopPcs,
              ExecutorPcs
<1>3. ASSUME wk.job \in Jobs, Recorded(wk.job), NEW error \in Errors
      PROVE  Fits(Finish(error))
  <2>1. wk \in WorkerRecord
    BY DEF EvidenceInvariant, TypeOK
  <2>2. QED
    BY <1>3, <2>1 DEF Fits, Finish, WorkerRecord, WorkerHolds, WorkerPcs, LoopPcs, ExecutorPcs
<1>4. QED
  BY <1>2, <1>3

\* Steps of the loop that read: the claim of a job and its end.
LEMMA LoopReads ==
  ASSUME EvidenceInvariant, WorkerRead \/ WorkerReread \/ WorkerFinish
  PROVE  EvidenceInvariant'
<1>1. /\ wk \in WorkerRecord /\ wk.job \in Jobs /\ Recorded(wk.job)
      /\ jobs[wk.job].revision \in Nat
  BY DEF EvidenceInvariant, TypeOK, WorkerKnows, WorkerHolds, JobRecord, LoopPcs,
         WorkerRead, WorkerReread, WorkerFinish
<1>2. Fits(Looping) /\ Fits(Finish(NoError))
  BY <1>1, Resting DEF Errors
<1>3. CASE WorkerRead
  <2> DEFINE next == IF jobs[wk.job].state = "QUEUED"
                       THEN [wk EXCEPT !.pc = "claim", !.revision = jobs[wk.job].revision]
                       ELSE Looping
  <2>1. Fits(next)
    BY <1>1, <1>2 DEF Fits, WorkerRecord, WorkerHolds, WorkerPcs, LoopPcs, ExecutorPcs
  <2>2. QED
    BY <1>3, <2>1, WorkerReads DEF WorkerRead
<1>4. CASE WorkerReread
  <2>1. Fits([wk EXCEPT !.pc = "exec"])
    BY <1>1 DEF Fits, WorkerRecord, WorkerHolds, WorkerPcs, LoopPcs, ExecutorPcs
  <2>2. QED
    BY <1>2, <1>4, <2>1, WorkerReads DEF WorkerReread
<1>5. CASE WorkerFinish
  <2>1. ASSUME NEW target \in {"CANCELLED", "FAILED"}, NEW error \in Errors
        PROVE  Fits([wk EXCEPT !.pc = "finish_cas", !.revision = jobs[wk.job].revision,
                       !.target = target, !.error = error])
    BY <1>1, <2>1 DEF Fits, WorkerRecord, WorkerHolds, WorkerPcs, LoopPcs, ExecutorPcs, Steps,
                      JobStates, TerminalStates
  <2> DEFINE found == IF jobs[wk.job].cancel_requested THEN NoError
                      ELSE IF wk.error # NoError THEN wk.error ELSE "INCOMPLETE_EXECUTION"
             decided == IF jobs[wk.job].cancel_requested THEN "CANCELLED" ELSE "FAILED"
  <2>2. found \in Errors /\ decided \in {"CANCELLED", "FAILED"}
    BY <1>1 DEF Errors, WorkerRecord
  <2>3. WorkerStep(IF jobs[wk.job].state \in TerminalStates THEN Looping
                   ELSE [wk EXCEPT !.pc = "finish_cas", !.revision = jobs[wk.job].revision,
                           !.target = decided, !.error = found])
    BY <1>5 DEF WorkerFinish
  <2> HIDE DEF found, decided
  <2>4. QED
    BY <1>2, <2>1, <2>2, <2>3, WorkerReads
<1>6. QED
  BY <1>3, <1>4, <1>5

\* Steps of the loop that update the record: the claim and the end.
LEMMA LoopUpdates ==
  ASSUME EvidenceInvariant, WorkerClaim \/ WorkerFinishCas
  PROVE  EvidenceInvariant'
<1>1. wk \in WorkerRecord /\ wk.job \in Jobs /\ Recorded(wk.job)
  BY DEF EvidenceInvariant, TypeOK, WorkerKnows, WorkerHolds, LoopPcs, WorkerClaim,
         WorkerFinishCas
<1>2. Fits(Looping) /\ Fits(Off)
  BY Resting
<1>3. CASE WorkerClaim
  <2>1. Fits([wk EXCEPT !.pc = "reread"])
    BY <1>1 DEF Fits, WorkerRecord, WorkerHolds, WorkerPcs, LoopPcs, ExecutorPcs
  <2>2. "VALIDATING" \in Steps \ {"COMPLETE"} /\ NoError \in Errors
    BY DEF Steps, JobStates, TransientStates, Errors
  <2>3. QED
    BY <1>1, <1>2, <1>3, <2>1, <2>2, WorkerUpdates DEF WorkerClaim
<1>4. CASE WorkerFinishCas
  <2> DEFINE refused == IF wk.tries + 1 = MaxTries THEN Off
                        ELSE [wk EXCEPT !.pc = "finish", !.tries = @ + 1]
  <2>1. Fits(refused)
    <3>1. wk.tries + 1 \in Nat
      BY <1>1 DEF WorkerRecord
    <3>2. Fits([wk EXCEPT !.pc = "finish", !.tries = wk.tries + 1])
      BY <1>1, <3>1 DEF Fits, WorkerRecord, WorkerHolds, WorkerPcs, LoopPcs, ExecutorPcs
    <3>3. QED
      BY <1>2, <3>2
  <2>2. wk.target \in Steps \ {"COMPLETE"} /\ wk.error \in Errors
    BY <1>1, <1>4 DEF EvidenceInvariant, WorkerKnows, WorkerHolds, WorkerFinishCas, WorkerRecord
  <2>3. WorkerUpdate(wk.target, wk.error, Looping, refused)
    BY <1>4 DEF WorkerFinishCas
  <2> HIDE DEF refused
  <2>4. QED
    BY <1>1, <1>2, <2>1, <2>2, <2>3, WorkerUpdates
<1>5. QED
  BY <1>3, <1>4

\* Steps of the executor that read, compute, or find the inputs wanting.
LEMMA ExecutorReads ==
  ASSUME EvidenceInvariant,
         ExecuteBegin \/ ReadInputs \/ Compute \/ AdvanceRead \/ TransitionRead \/ CheckCancel
  PROVE  EvidenceInvariant'
<1>1. /\ wk \in WorkerRecord /\ wk.job \in Jobs /\ Recorded(wk.job)
      /\ jobs[wk.job].revision \in Nat
  BY DEF EvidenceInvariant, TypeOK, WorkerKnows, WorkerHolds, JobRecord, ExecutorPcs,
         ExecuteBegin, ReadInputs, Compute, AdvanceRead, TransitionRead, CheckCancel
<1>2. \A error \in Errors : Fits(Finish(error))
  BY <1>1, Resting
<1>3. Fits(Finish(NoError)) /\ Fits(Finish("WORKER_ERROR"))
  BY <1>2 DEF Errors
<1>4. \A phase \in Phases : Fits(AdvanceTo(phase))
  BY <1>1 DEF Fits, AdvanceTo, WorkerRecord, WorkerHolds, WorkerPcs, LoopPcs, ExecutorPcs,
              Phases, Steps, JobStates, TerminalStates, TransientStates
<1>5. \A pc \in {"inputs", "fail_check", "fail_read", "write"} : Fits([wk EXCEPT !.pc = pc])
  BY <1>1 DEF Fits, WorkerRecord, WorkerHolds, WorkerPcs, LoopPcs, ExecutorPcs
<1>6. CASE ExecuteBegin
  BY <1>3, <1>5, <1>6, WorkerReads DEF ExecuteBegin
<1>7. CASE ReadInputs
  <2>1. Fits(AdvanceTo("EVALUATING")) /\ Fits([wk EXCEPT !.pc = "fail_check"])
    BY <1>4, <1>5 DEF Phases
  <2>2. QED
    BY <1>3, <1>7, <2>1, WorkerReads DEF ReadInputs
<1>8. CASE Compute
  <2>1. NextPhase[wk.target] \in Phases
    BY <1>8 DEF EvidenceInvariant, WorkerKnows, WorkerHolds, Compute, NextPhase, Phases,
                TransientStates
  <2>2. Fits(AdvanceTo(NextPhase[wk.target]))
    BY <1>4, <2>1
  <2>3. QED
    BY <1>3, <1>8, <2>2, WorkerReads DEF Compute
<1>9. CASE AdvanceRead
  <2>1. wk.phase \in Phases
    BY <1>9 DEF EvidenceInvariant, WorkerKnows, WorkerHolds, AdvanceRead
  <2>2. ASSUME NEW target \in Phases
        PROVE  Fits([wk EXCEPT !.pc = "adv_read", !.target = target])
    BY <1>1, <2>1, <2>2 DEF Fits, WorkerRecord, WorkerHolds, WorkerPcs, LoopPcs, ExecutorPcs,
         Phases, Steps, JobStates, TerminalStates, TransientStates
  <2> DEFINE decided == IF jobs[wk.job].cancel_requested THEN "CANCELLED" ELSE wk.phase
  <2>3. decided \in Phases
    BY <2>1 DEF Phases
  <2>4. WorkerStep(IF jobs[wk.job].state \in TerminalStates THEN Finish(NoError)
                   ELSE [wk EXCEPT !.pc = "adv_read", !.target = decided])
    BY <1>9 DEF AdvanceRead
  <2> HIDE DEF decided
  <2>5. QED
    BY <1>3, <2>2, <2>3, <2>4, WorkerReads
<1>10. CASE TransitionRead
  <2>1. ASSUME NEW pc \in {"adv_cas", "fail_cas"}, pc = "adv_cas" => wk.pc = "adv_read"
        PROVE  Fits([wk EXCEPT !.pc = pc, !.revision = jobs[wk.job].revision])
    <3>1. WorkerHolds(wk)
      BY DEF EvidenceInvariant, WorkerKnows
    <3>2. QED
      BY <1>1, <2>1, <3>1 DEF Fits, WorkerRecord, WorkerHolds, WorkerPcs, LoopPcs, ExecutorPcs
  <2> DEFINE pc == IF wk.pc = "adv_read" THEN "adv_cas" ELSE "fail_cas"
  <2>2. pc \in {"adv_cas", "fail_cas"} /\ (pc = "adv_cas" => wk.pc = "adv_read")
    OBVIOUS
  <2>3. WorkerStep([wk EXCEPT !.pc = pc, !.revision = jobs[wk.job].revision])
    BY <1>10 DEF TransitionRead
  <2> HIDE DEF pc
  <2>4. QED
    BY <2>1, <2>2, <2>3, WorkerReads
<1>11. CASE CheckCancel
  <2>1. Fits(AdvanceTo("CANCELLED"))
    BY <1>4 DEF Phases
  <2> DEFINE pc == IF wk.pc = "check" THEN "write" ELSE "fail_read"
  <2>2. Fits([wk EXCEPT !.pc = pc])
    BY <1>5
  <2>3. WorkerStep(IF jobs[wk.job].state \in TerminalStates THEN Finish(NoError)
                   ELSE IF jobs[wk.job].cancel_requested THEN AdvanceTo("CANCELLED")
                   ELSE [wk EXCEPT !.pc = pc])
    BY <1>11 DEF CheckCancel
  <2> HIDE DEF pc
  <2>4. QED
    BY <1>3, <2>1, <2>2, <2>3, WorkerReads
<1>12. QED
  BY <1>6, <1>7, <1>8, <1>9, <1>10, <1>11

\* Steps of the executor that update the record: a phase, a failure.
LEMMA ExecutorUpdates ==
  ASSUME EvidenceInvariant, AdvanceCas \/ FailCas
  PROVE  EvidenceInvariant'
<1>1. wk \in WorkerRecord /\ wk.job \in Jobs /\ Recorded(wk.job) /\ WorkerHolds(wk)
  BY DEF EvidenceInvariant, TypeOK, WorkerKnows, WorkerHolds, ExecutorPcs, AdvanceCas, FailCas
<1>2. Fits(Finish(NoError)) /\ Fits(Finish("WORKER_ERROR"))
  BY <1>1, Resting DEF Errors
<1>3. CASE AdvanceCas
  <2>1. wk.target \in Phases /\ wk.target \in Steps \ {"COMPLETE"} /\ NoError \in Errors
    BY <1>1, <1>3 DEF WorkerHolds, AdvanceCas, Phases, Steps, JobStates, TransientStates,
                      TerminalStates, Errors
  <2>2. Fits(AfterAdvance)
    <3>1. Fits([wk EXCEPT !.pc = "check"])
      BY <1>1 DEF Fits, WorkerRecord, WorkerHolds, WorkerPcs, LoopPcs, ExecutorPcs
    <3>2. wk.target \in {"EVALUATING", "ANALYZING"} => Fits([wk EXCEPT !.pc = "compute"])
      BY <1>1 DEF Fits, WorkerRecord, WorkerHolds, WorkerPcs, LoopPcs, ExecutorPcs
    <3>3. QED
      BY <1>2, <2>1, <3>1, <3>2 DEF AfterAdvance, Phases
  <2> DEFINE refused == IF wk.tries + 1 = MaxTries THEN Finish("WORKER_ERROR")
                        ELSE [wk EXCEPT !.pc = "adv", !.tries = wk.tries + 1]
  <2>3. Fits(refused)
    <3>1. wk.tries + 1 \in Nat /\ wk.phase \in Phases
      BY <1>1, <1>3 DEF WorkerRecord, WorkerHolds, AdvanceCas
    <3>2. Fits([wk EXCEPT !.pc = "adv", !.tries = wk.tries + 1])
      BY <1>1, <3>1 DEF Fits, WorkerRecord, WorkerHolds, WorkerPcs, LoopPcs, ExecutorPcs
    <3>3. QED
      BY <1>2, <3>2
  <2>4. WorkerUpdate(wk.target, NoError, AfterAdvance, refused)
    BY <1>3 DEF AdvanceCas
  <2> HIDE DEF refused
  <2>5. QED
    BY <1>1, <2>1, <2>2, <2>3, <2>4, WorkerUpdates
<1>4. CASE FailCas
  <2>1. "FAILED" \in Steps \ {"COMPLETE"} /\ "INPUT" \in Errors
    BY DEF Steps, JobStates, TerminalStates, Errors
  <2>2. QED
    BY <1>1, <1>2, <1>4, <2>1, WorkerUpdates DEF FailCas
<1>5. QED
  BY <1>3, <1>4

\* The worker takes a job from the queue, or the token that ends it.
LEMMA GetKeeps ==
  ASSUME EvidenceInvariant, WorkerGet
  PROVE  EvidenceInvariant'
<1>1. /\ pending \in Seq(Jobs \cup {StopToken}) /\ pending # <<>>
      /\ pending' = Tail(pending)
  BY DEF EvidenceInvariant, TypeOK, WorkerGet
<1>2. Fits(Off) /\ Fits(Looping)
  BY Resting
<1>3. ASSUME Head(pending) # StopToken
      PROVE  Fits([WorkerAt("read") EXCEPT !.job = Head(pending)])
  <2>1. Head(pending) = pending[1] /\ 1 \in DOMAIN pending
    BY <1>1
  <2>2. Head(pending) \in Jobs /\ Recorded(Head(pending))
    BY <1>1, <1>3, <2>1 DEF EvidenceInvariant, QueueKnows
  <2>3. QED
    BY <2>2 DEF Fits, WorkerAt, WorkerRecord, WorkerHolds, WorkerPcs, LoopPcs, ExecutorPcs,
                Steps, Errors
<1>4. Fits(wk')
  BY <1>2, <1>3 DEF WorkerGet
<1>5. /\ JobsStep /\ UNCHANGED <<runs, result, provenance, stopRequested, thread, cl, server>>
      /\ restarts' \in Nat /\ faults' \in Nat
  BY DEF WorkerGet, JobsStep, disk, budgets, EvidenceInvariant, TypeOK
<1>6. ~Writing'
  BY <1>4 DEF Fits, Writing
<1>7. QED
  BY <1>1, <1>4, <1>5, <1>6, QuietWorker DEF Fits

\* A store call raises: the executor is left, or the thread ends.
LEMMA StoreFailsKeeps ==
  ASSUME EvidenceInvariant, StoreFails
  PROVE  EvidenceInvariant'
<1>1. Fits(wk')
  <2>1. wk.job \in Jobs /\ Recorded(wk.job)
    BY DEF EvidenceInvariant, WorkerKnows, WorkerHolds, StoreFails
  <2>2. QED
    BY <2>1, Resting DEF StoreFails, Errors
<1>2. /\ JobsStep /\ UNCHANGED <<runs, result, provenance, stopRequested, thread, cl, server>>
      /\ restarts' \in Nat /\ faults' \in Nat /\ pending' = pending
  BY DEF StoreFails, JobsStep, disk, memory, EvidenceInvariant, TypeOK
<1>3. ~Writing'
  BY <1>1 DEF Fits, Writing
<1>4. QED
  BY <1>1, <1>2, <1>3, QuietWorker DEF Fits

-----------------------------------------------------------------------------
(* The writer of the artifacts *)

\* All but the evidence: types and local knowledge, which a step that keeps
\* records on disk can only lose through the thread that takes it.
LocalInvariant == TypeOK /\ WorkerKnows /\ ClientKnows /\ QueueKnows

\* What changes at most result and provenance keeps the part of the invariant
\* that does not look at them, whatever the executing worker does next.
LEMMA WriterLocal ==
  ASSUME LocalInvariant, UNCHANGED <<runs, memory, cl, server>>,
         restarts' \in Nat, faults' \in Nat,
         jobs' \in [Jobs -> JobRecord], \A k \in Jobs : Recorded(k) => Recorded(k)',
         result' \in [Runs -> Jobs \cup {NoJob}], provenance' \in [Runs -> Jobs \cup {NoJob}],
         wk' \in WorkerRecord, WorkerHolds(wk')
  PROVE  LocalInvariant'
<1>1. UNCHANGED <<pending, stopRequested, thread>>
  BY DEF memory
<1>2. TypeOK'
  BY <1>1 DEF LocalInvariant, TypeOK
<1>3. WorkerKnows'
  BY DEF WorkerKnows, WorkerHolds, Recorded
<1>4. ASSUME NEW t \in Threads
      PROVE  RequestHolds(cl[t])'
  <2>1. RequestHolds(cl[t]) /\ cl[t].todo \subseteq Jobs \X Nat
    BY DEF LocalInvariant, ClientKnows, TypeOK, ClientRecord
  <2>2. QED
    BY <2>1 DEF RequestHolds
<1>5. QueueKnows'
  <2>1. \A i \in DOMAIN pending : pending[i] \in Jobs \cup {StopToken}
    BY DEF LocalInvariant, TypeOK
  <2>2. QED
    BY <1>1, <2>1 DEF LocalInvariant, QueueKnows
<1>6. QED
  BY <1>2, <1>3, <1>4, <1>5 DEF LocalInvariant, ClientKnows

\* Only an eligible job gets its result written: its run has no evidence, no
\* COMPLETE job, and no submitter at work on it (storage.py:501-533).
LEMMA WriteResultKeeps ==
  ASSUME EvidenceInvariant, WriteResult
  PROVE  EvidenceInvariant'
<1> DEFINE j == wk.job
           r == jobs[wk.job].run
<1>1. LocalInvariant /\ DiskInvariant
  BY DEF EvidenceInvariant, LocalInvariant, DiskInvariant
<1>2. /\ wk \in WorkerRecord /\ j \in Jobs /\ Recorded(j) /\ jobs[j].revision \in Nat
      /\ jobs \in [Jobs -> JobRecord] /\ r \in runs /\ runs \subseteq Runs
  BY <1>1 DEF LocalInvariant, DiskInvariant, TypeOK, WorkerKnows, WorkerHolds, JobRecord,
              ExecutorPcs, WriteResult, KnownRuns
<1>3. CASE ~Eligible(j)
  <2>1. Fits(Finish("WORKER_ERROR"))
    BY <1>2, Resting DEF Errors
  <2>2. WorkerStep(Finish("WORKER_ERROR"))
    BY <1>3 DEF WriteResult, WorkerStep, disk
  <2>3. QED
    BY <2>1, <2>2, WorkerReads
<1>4. CASE Eligible(j)
  <2>1. /\ result' = [result EXCEPT ![r] = j]
        /\ wk' = [wk EXCEPT !.pc = "write_provenance", !.revision = jobs[j].revision]
        /\ UNCHANGED <<jobs, runs, provenance, memory, cl, server, budgets>>
        /\ JobLockFree
    BY <1>4 DEF WriteResult
  <2>2. wk' \in WorkerRecord /\ WorkerHolds(wk') /\ wk'.job = j
        /\ wk'.pc = "write_provenance" /\ wk'.revision = jobs[j].revision
    BY <1>2, <2>1 DEF WorkerRecord, WorkerHolds, WorkerPcs, LoopPcs, ExecutorPcs
  <2>3. LocalInvariant'
    <3>1. result' \in [Runs -> Jobs \cup {NoJob}] /\ provenance' \in [Runs -> Jobs \cup {NoJob}]
          /\ restarts' \in Nat /\ faults' \in Nat
      BY <1>1, <1>2, <2>1 DEF LocalInvariant, TypeOK, budgets
    <3>2. jobs' \in [Jobs -> JobRecord] /\ \A k \in Jobs : Recorded(k) => Recorded(k)'
      BY <1>2, <2>1 DEF Recorded
    <3>3. QED
      BY <1>1, <2>1, <2>2, <3>1, <3>2, WriterLocal
  <2>4. /\ jobs[j].state = "WRITING_ARTIFACT" /\ ~jobs[j].cancel_requested
        /\ CompleteJobs(r) = {} /\ provenance[r] = NoJob
    BY <1>4 DEF Eligible
  <2>5. j \in ActiveJobs(r)
    BY <1>2, <2>4 DEF ActiveJobs, JobsOf, TerminalStates
  <2>6. \A q \in Runs : q # r => result'[q] = result[q]
    BY <1>1, <2>1 DEF LocalInvariant, TypeOK
  <2>7. result'[r] = j
    BY <1>1, <1>2, <2>1 DEF LocalInvariant, TypeOK
  <2>8. /\ \A q \in Runs : CompleteJobs(q)' = CompleteJobs(q) /\ ActiveJobs(q)' = ActiveJobs(q)
        /\ \A t \in Threads : Submitting(t)' <=> Submitting(t)
    BY <2>1 DEF CompleteJobs, ActiveJobs, JobsOf, Recorded, Submitting
  <2>9. OneSubmitter'
    BY <1>1, <2>8 DEF DiskInvariant, OneSubmitter
  <2>10. SubmitterKnows'
    <3> SUFFICES ASSUME NEW t \in Threads, Submitting(t)'
                 PROVE  SubmitterHolds(t)'
      BY DEF SubmitterKnows
    <3>1. SubmitterHolds(t) /\ cl[t].run \in Runs
      BY <1>1, <1>2, <2>8 DEF DiskInvariant, SubmitterKnows, SubmitterHolds
    <3>2. cl[t].run # r
      BY <2>5, <3>1 DEF SubmitterHolds
    <3>3. QED
      BY <2>1, <2>6, <2>8, <3>1, <3>2 DEF SubmitterHolds
  <2>11. WriterExcludesOthers'
    BY <2>1 DEF WriterExcludesOthers, JobLockFree
  <2>12. WriterKnows'
    BY <1>2, <2>1, <2>2, <2>4, <2>7, <2>8 DEF WriterKnows
  <2>13. KnownRuns'
    BY <1>1, <1>2, <2>1, <2>6 DEF DiskInvariant, KnownRuns, Recorded
  <2>14. EvidenceIsWhole'
    <3> SUFFICES ASSUME NEW q \in Runs, NEW k \in CompleteJobs(q)
                 PROVE  result'[q] = k /\ provenance'[q] = k
      BY <2>8 DEF EvidenceIsWhole
    <3>1. q # r
      BY <2>4
    <3>2. QED
      BY <1>1, <2>1, <2>6, <3>1 DEF DiskInvariant, EvidenceIsWhole
  <2>15. OneActiveJobPerRun'
    BY <1>1, <2>8 DEF DiskInvariant, OneActiveJobPerRun
  <2>16. NextAttemptStartsClean'
    <3> SUFFICES ASSUME NEW q \in Runs, NEW k \in ActiveJobs(q),
                        jobs[k].state # "WRITING_ARTIFACT"
                 PROVE  result'[q] = NoJob /\ provenance'[q] = NoJob
      BY <2>1, <2>8 DEF NextAttemptStartsClean
    <3>1. q # r
      BY <1>1, <1>2, <2>4, <2>5 DEF DiskInvariant, OneActiveJobPerRun
    <3>2. QED
      BY <1>1, <2>1, <2>6, <3>1 DEF DiskInvariant, NextAttemptStartsClean
  <2>17. QED
    BY <2>3, <2>9, <2>10, <2>11, <2>12, <2>13, <2>14, <2>15, <2>16
       DEF EvidenceInvariant, LocalInvariant
<1>5. QED
  BY <1>3, <1>4

\* What a writer knows, with the facts of types it is used with.
LEMMA Writers ==
  ASSUME EvidenceInvariant, Writing
  PROVE  /\ LocalInvariant /\ DiskInvariant
         /\ wk \in WorkerRecord /\ wk.job \in Jobs /\ Recorded(wk.job)
         /\ jobs \in [Jobs -> JobRecord] /\ runs \subseteq Runs /\ jobs[wk.job].run \in Runs
         /\ result \in [Runs -> Jobs \cup {NoJob}] /\ provenance \in [Runs -> Jobs \cup {NoJob}]
         /\ jobs[wk.job].state = "WRITING_ARTIFACT" /\ ~jobs[wk.job].cancel_requested
         /\ jobs[wk.job].revision = wk.revision
         /\ CompleteJobs(jobs[wk.job].run) = {} /\ result[jobs[wk.job].run] = wk.job
         /\ wk.job \in ActiveJobs(jobs[wk.job].run)
         /\ \A t \in Threads : Submitting(t) => cl[t].run # jobs[wk.job].run
         /\ \A t \in Threads : cl[t].pc \notin {"discard_provenance", "create"}
         /\ wk.pc = "commit" => provenance[jobs[wk.job].run] = wk.job
<1>1. LocalInvariant /\ DiskInvariant
  BY DEF EvidenceInvariant, LocalInvariant, DiskInvariant
<1>2. /\ wk \in WorkerRecord /\ wk.job \in Jobs /\ Recorded(wk.job)
      /\ jobs \in [Jobs -> JobRecord] /\ runs \subseteq Runs
      /\ result \in [Runs -> Jobs \cup {NoJob}] /\ provenance \in [Runs -> Jobs \cup {NoJob}]
  BY <1>1 DEF LocalInvariant, TypeOK, WorkerKnows, WorkerHolds, ExecutorPcs, Writing
<1>3. jobs[wk.job].run \in Runs
  BY <1>1, <1>2 DEF DiskInvariant, KnownRuns
<1>4. /\ jobs[wk.job].state = "WRITING_ARTIFACT" /\ ~jobs[wk.job].cancel_requested
      /\ jobs[wk.job].revision = wk.revision
      /\ CompleteJobs(jobs[wk.job].run) = {} /\ result[jobs[wk.job].run] = wk.job
      /\ wk.pc = "commit" => provenance[jobs[wk.job].run] = wk.job
  BY <1>1 DEF DiskInvariant, WriterKnows
<1>5. wk.job \in ActiveJobs(jobs[wk.job].run)
  BY <1>2, <1>4 DEF ActiveJobs, JobsOf, TerminalStates
<1>6. \A t \in Threads : Submitting(t) => cl[t].run # jobs[wk.job].run
  BY <1>1, <1>5 DEF DiskInvariant, SubmitterKnows, SubmitterHolds
<1>7. \A t \in Threads : cl[t].pc \notin {"discard_provenance", "create"}
  BY <1>1 DEF DiskInvariant, WriterExcludesOthers
<1>8. QED
  BY <1>1, <1>2, <1>3, <1>4, <1>5, <1>6, <1>7

\* A step of the writer that leaves the records as they are and changes the
\* files of its own run only.
LEMMA WriterFiles ==
  ASSUME EvidenceInvariant, Writing,
         UNCHANGED <<jobs, runs, memory, cl, server>>, restarts' \in Nat, faults' \in Nat,
         result' \in [Runs -> Jobs \cup {NoJob}], provenance' \in [Runs -> Jobs \cup {NoJob}],
         \A q \in Runs \ {jobs[wk.job].run} :
            result'[q] = result[q] /\ provenance'[q] = provenance[q],
         wk' \in WorkerRecord, WorkerHolds(wk'), WriterKnows'
  PROVE  EvidenceInvariant'
<1> DEFINE r == jobs[wk.job].run
<1>1. /\ LocalInvariant /\ DiskInvariant /\ jobs \in [Jobs -> JobRecord]
      /\ r \in Runs /\ wk.job \in ActiveJobs(r) /\ jobs[wk.job].state = "WRITING_ARTIFACT"
      /\ CompleteJobs(r) = {}
      /\ \A t \in Threads : Submitting(t) => cl[t].run # r
      /\ \A t \in Threads : cl[t].pc \notin {"discard_provenance", "create"}
      /\ wk.job \in Jobs /\ Recorded(wk.job)
  BY Writers
<1>2. LocalInvariant'
  BY <1>1, WriterLocal DEF Recorded
<1>3. /\ \A q \in Runs : CompleteJobs(q)' = CompleteJobs(q) /\ ActiveJobs(q)' = ActiveJobs(q)
      /\ \A t \in Threads : Submitting(t)' <=> Submitting(t)
  BY DEF CompleteJobs, ActiveJobs, JobsOf, Recorded, Submitting
<1>4. OneSubmitter'
  BY <1>1, <1>3 DEF DiskInvariant, OneSubmitter
<1>5. SubmitterKnows'
  <2> SUFFICES ASSUME NEW t \in Threads, Submitting(t)'
               PROVE  SubmitterHolds(t)'
    BY DEF SubmitterKnows
  <2>1. SubmitterHolds(t) /\ cl[t].run \in Runs \ {r}
    BY <1>1, <1>3 DEF DiskInvariant, SubmitterKnows, SubmitterHolds, LocalInvariant, TypeOK
  <2>2. QED
    BY <1>3, <2>1 DEF SubmitterHolds
<1>6. WriterExcludesOthers'
  BY <1>1 DEF WriterExcludesOthers
<1>7. KnownRuns'
  <2>1. r \in runs
    BY <1>1 DEF DiskInvariant, KnownRuns
  <2>2. QED
    BY <1>1, <2>1 DEF DiskInvariant, KnownRuns, Recorded
<1>8. EvidenceIsWhole'
  BY <1>1, <1>3 DEF DiskInvariant, EvidenceIsWhole
<1>9. OneActiveJobPerRun'
  BY <1>1, <1>3 DEF DiskInvariant, OneActiveJobPerRun
<1>10. NextAttemptStartsClean'
  <2> SUFFICES ASSUME NEW q \in Runs, NEW k \in ActiveJobs(q),
                      jobs[k].state # "WRITING_ARTIFACT"
               PROVE  result'[q] = NoJob /\ provenance'[q] = NoJob
    BY <1>3 DEF NextAttemptStartsClean
  <2>1. q # r
    BY <1>1 DEF DiskInvariant, OneActiveJobPerRun
  <2>2. QED
    BY <1>1, <2>1 DEF DiskInvariant, NextAttemptStartsClean
<1>11. QED
  BY <1>2, <1>4, <1>5, <1>6, <1>7, <1>8, <1>9, <1>10
     DEF EvidenceInvariant, LocalInvariant

\* The second file of the pair, written behind the first under the job lock.
LEMMA WriteProvenanceKeeps ==
  ASSUME EvidenceInvariant, WriteProvenance
  PROVE  EvidenceInvariant'
<1> DEFINE r == jobs[wk.job].run
<1>1. Writing
  BY DEF WriteProvenance, Writing
<1>2. /\ wk \in WorkerRecord /\ wk.job \in Jobs /\ Recorded(wk.job) /\ r \in Runs
      /\ LocalInvariant
      /\ result \in [Runs -> Jobs \cup {NoJob}] /\ provenance \in [Runs -> Jobs \cup {NoJob}]
      /\ jobs[wk.job].state = "WRITING_ARTIFACT" /\ ~jobs[wk.job].cancel_requested
      /\ jobs[wk.job].revision = wk.revision /\ CompleteJobs(r) = {} /\ result[r] = wk.job
  BY <1>1, Writers
<1>3. /\ provenance' = [provenance EXCEPT ![r] = wk.job]
      /\ wk' = [wk EXCEPT !.pc = "commit"]
      /\ UNCHANGED <<jobs, runs, result, memory, cl, server, restarts, faults>>
  BY DEF WriteProvenance, budgets
<1>4. /\ wk' \in WorkerRecord /\ WorkerHolds(wk') /\ wk'.job = wk.job /\ wk'.pc = "commit"
      /\ wk'.revision = wk.revision
  BY <1>2, <1>3 DEF WorkerRecord, WorkerHolds, WorkerPcs, LoopPcs, ExecutorPcs
<1>5. /\ provenance' \in [Runs -> Jobs \cup {NoJob}] /\ provenance'[r] = wk.job
      /\ \A q \in Runs \ {r} : result'[q] = result[q] /\ provenance'[q] = provenance[q]
  BY <1>2, <1>3
<1>6. WriterKnows'
  <2>1. CompleteJobs(r)' = CompleteJobs(r)
    BY <1>3 DEF CompleteJobs, JobsOf, Recorded
  <2>2. QED
    BY <1>2, <1>3, <1>4, <1>5, <2>1 DEF WriterKnows
<1>7. restarts' \in Nat /\ faults' \in Nat /\ result' \in [Runs -> Jobs \cup {NoJob}]
  BY <1>2, <1>3 DEF LocalInvariant, TypeOK
<1>8. QED
  BY <1>1, <1>3, <1>4, <1>5, <1>6, <1>7, WriterFiles

\* A write fails; the rollback removes the pair, or the pair stays behind.
LEMMA WriteFailsKeeps ==
  ASSUME EvidenceInvariant, WriteFails
  PROVE  EvidenceInvariant'
<1> DEFINE r == jobs[wk.job].run
<1>1. Writing
  BY DEF WriteFails, Writing
<1>2. /\ wk.job \in Jobs /\ Recorded(wk.job) /\ r \in Runs /\ LocalInvariant
      /\ result \in [Runs -> Jobs \cup {NoJob}] /\ provenance \in [Runs -> Jobs \cup {NoJob}]
  BY <1>1, Writers
<1>3. Fits(Finish("WORKER_ERROR"))
  BY <1>2, Resting DEF Errors
<1>4. wk' \in WorkerRecord /\ WorkerHolds(wk') /\ WriterKnows'
  BY <1>3 DEF WriteFails, Fits, WriterKnows, Writing
<1>5. /\ result' = NoEvidence(result, r) \/ result' = result
      /\ provenance' = NoEvidence(provenance, r) \/ provenance' = provenance
      /\ UNCHANGED <<jobs, runs, memory, cl, server>>
      /\ restarts' \in Nat /\ faults' \in Nat
  BY <1>2 DEF WriteFails, LocalInvariant, TypeOK
<1>6. /\ result' \in [Runs -> Jobs \cup {NoJob}] /\ provenance' \in [Runs -> Jobs \cup {NoJob}]
      /\ \A q \in Runs \ {r} : result'[q] = result[q] /\ provenance'[q] = provenance[q]
  BY <1>2, <1>5 DEF NoEvidence
<1>7. QED
  BY <1>1, <1>4, <1>5, <1>6, WriterFiles

\* The commit is never refused, because the job lock was held since the record
\* was read; the pair of files and the COMPLETE record agree (storage.py:535).
LEMMA CommitKeeps ==
  ASSUME EvidenceInvariant, Commit
  PROVE  EvidenceInvariant'
<1> DEFINE j == wk.job
           r == jobs[wk.job].run
           new == Updated(jobs[j], "COMPLETE", FALSE, NoError)
<1>1. Writing
  BY DEF Commit, Writing
<1>2. /\ wk \in WorkerRecord /\ j \in Jobs /\ Recorded(j) /\ r \in Runs
      /\ LocalInvariant /\ DiskInvariant /\ jobs \in [Jobs -> JobRecord]
      /\ result \in [Runs -> Jobs \cup {NoJob}] /\ provenance \in [Runs -> Jobs \cup {NoJob}]
      /\ jobs[j].state = "WRITING_ARTIFACT" /\ ~jobs[j].cancel_requested
      /\ jobs[j].revision = wk.revision /\ CompleteJobs(r) = {}
      /\ result[r] = j /\ j \in ActiveJobs(r)
      /\ \A t \in Threads : Submitting(t) => cl[t].run # r
      /\ \A t \in Threads : cl[t].pc \notin {"discard_provenance", "create"}
  BY <1>1, Writers
<1>3. provenance[r] = j
  BY <1>1, Writers DEF Commit
<1>4. UpdateAllowed(jobs[j], wk.revision, "COMPLETE", FALSE, NoError)
  BY <1>2 DEF UpdateAllowed, Target, Same, AllowedTransitions, NextPhase, TerminalStates,
              TransientStates, NoError
<1>5. /\ jobs' = [jobs EXCEPT ![j] = new]
      /\ wk' = Finish(NoError)
      /\ UNCHANGED <<result, provenance, runs, memory, cl, server, restarts, faults>>
  BY <1>4 DEF Commit, budgets
<1>6. /\ new \in JobRecord /\ new.run = r /\ new.state = "COMPLETE"
  <2> DEFINE flag == jobs[j].cancel_requested \/ FALSE
  <2>1. new = [run |-> r, state |-> Target(jobs[j], "COMPLETE"),
               revision |-> jobs[j].revision + 1, cancel_requested |-> flag,
               safe_error |-> NoError]
    BY Zenon DEF Updated
  <2>2. jobs[j] \in JobRecord /\ flag \in BOOLEAN /\ Target(jobs[j], "COMPLETE") = "COMPLETE"
    BY <1>2 DEF Target, Same
  <2> HIDE DEF flag, new
  <2>3. jobs[j].revision + 1 \in Nat /\ r \in Runs \cup {NoRun}
    BY <2>2 DEF JobRecord
  <2>4. QED
    BY <2>1, <2>2, <2>3 DEF JobRecord, JobStates, TerminalStates, Errors
<1> HIDE DEF new
<1>7. /\ jobs' \in [Jobs -> JobRecord]
      /\ \A k \in Jobs : jobs'[k] = IF k = j THEN new ELSE jobs[k]
  BY <1>2, <1>5, <1>6
<1>8. \A k \in Jobs : Recorded(k)' <=> Recorded(k)
  BY <1>2, <1>6, <1>7 DEF Recorded, NoRecord
<1>9. /\ wk' \in WorkerRecord /\ WorkerHolds(wk') /\ ~Writing'
  <2>1. Fits(wk')
    BY <1>2, <1>5, Resting DEF Errors
  <2>2. QED
    BY <2>1 DEF Fits, Writing
<1>10. LocalInvariant'
  <2>1. restarts' \in Nat /\ faults' \in Nat
    BY <1>2, <1>5 DEF LocalInvariant, TypeOK
  <2>2. QED
    BY <1>2, <1>5, <1>7, <1>8, <1>9, <2>1, WriterLocal
<1>11. /\ \A q \in Runs : CompleteJobs(q)' = IF q = r THEN {j} ELSE CompleteJobs(q)
       /\ \A q \in Runs : ActiveJobs(q)' \subseteq ActiveJobs(q) \ {j}
       /\ \A t \in Threads : Submitting(t)' <=> Submitting(t)
  <2>1. ASSUME NEW q \in Runs, q = r
        PROVE  CompleteJobs(q)' = {j}
    <3>1. \A k \in Jobs : Recorded(k) /\ jobs[k].run = q => jobs[k].state # "COMPLETE"
      BY <1>2, <2>1 DEF CompleteJobs, JobsOf
    <3>2. \A k \in Jobs : Recorded(k)' /\ jobs'[k].run = q /\ jobs'[k].state = "COMPLETE"
             <=> k = j
      BY <1>2, <1>6, <1>7, <1>8, <2>1, <3>1
    <3>3. CompleteJobs(q)' = {k \in Jobs : Recorded(k)' /\ jobs'[k].run = q
                                            /\ jobs'[k].state = "COMPLETE"}
      BY DEF CompleteJobs, JobsOf
    <3>4. QED
      BY <1>2, <3>2, <3>3
  <2>2. \A q \in Runs \ {r} : CompleteJobs(q)' = CompleteJobs(q)
    BY <1>2, <1>6, <1>7, <1>8 DEF CompleteJobs, JobsOf
  <2>3. \A q \in Runs : ActiveJobs(q)' \subseteq ActiveJobs(q) \ {j}
    BY <1>2, <1>6, <1>7, <1>8 DEF ActiveJobs, JobsOf, TerminalStates
  <2>4. QED
    BY <1>5, <2>1, <2>2, <2>3 DEF Submitting
<1>12. OneSubmitter'
  BY <1>2, <1>11 DEF DiskInvariant, OneSubmitter
<1>13. SubmitterKnows'
  <2> SUFFICES ASSUME NEW t \in Threads, Submitting(t)'
               PROVE  SubmitterHolds(t)'
    BY DEF SubmitterKnows
  <2>1. SubmitterHolds(t) /\ cl[t].run \in Runs \ {r} /\ cl[t].pc # "create"
    BY <1>2, <1>11 DEF DiskInvariant, SubmitterKnows, SubmitterHolds, LocalInvariant, TypeOK
  <2>2. \A q \in Runs : q = cl[t].run => ActiveJobs(q)' = {} /\ CompleteJobs(q)' = {}
    BY <1>11, <2>1 DEF SubmitterHolds
  <2>3. cl' = cl /\ runs' = runs /\ result' = result /\ provenance' = provenance
    BY <1>5
  <2>4. QED
    BY <2>1, <2>2, <2>3 DEF SubmitterHolds
<1>14. WriterExcludesOthers' /\ WriterKnows'
  BY <1>9 DEF WriterExcludesOthers, WriterKnows
<1>15. KnownRuns'
  BY <1>2, <1>5, <1>6, <1>7, <1>8 DEF DiskInvariant, KnownRuns
<1>16. EvidenceIsWhole'
  BY <1>2, <1>3, <1>5, <1>11 DEF DiskInvariant, EvidenceIsWhole
<1>17. OneActiveJobPerRun'
  BY <1>2, <1>11 DEF DiskInvariant, OneActiveJobPerRun
<1>18. NextAttemptStartsClean'
  <2> SUFFICES ASSUME NEW q \in Runs, NEW k \in ActiveJobs(q)',
                      jobs'[k].state # "WRITING_ARTIFACT"
               PROVE  result'[q] = NoJob /\ provenance'[q] = NoJob
    BY DEF NextAttemptStartsClean
  <2>1. k \in ActiveJobs(q) /\ k # j /\ k \in Jobs
    BY <1>11 DEF ActiveJobs, JobsOf
  <2>2. jobs'[k] = jobs[k]
    BY <1>7, <2>1
  <2>3. QED
    BY <1>2, <1>5, <2>1, <2>2 DEF DiskInvariant, NextAttemptStartsClean
<1>19. QED
  BY <1>10, <1>12, <1>13, <1>14, <1>15, <1>16, <1>17, <1>18
     DEF EvidenceInvariant, LocalInvariant

-----------------------------------------------------------------------------
(* Requests, and the start of a worker *)

\* Any step that forgets no record keeps the types and the local knowledge if
\* the threads it moves know what they need.
LEMMA LocalStep ==
  ASSUME LocalInvariant, runs' \subseteq Runs,
         restarts' \in Nat, faults' \in Nat,
         stopRequested' \in BOOLEAN, thread' \in {"none", "set"},
         server' \in {"down", "booting", "up", "stopping", "joined", "stopped"},
         jobs' \in [Jobs -> JobRecord], \A k \in Jobs : Recorded(k) => Recorded(k)',
         result' \in [Runs -> Jobs \cup {NoJob}], provenance' \in [Runs -> Jobs \cup {NoJob}],
         pending' \in Seq(Jobs \cup {StopToken}), QueueKnows',
         wk' \in WorkerRecord, WorkerHolds(wk'),
         cl' \in [Threads -> ClientRecord], \A u \in Threads : RequestHolds(cl'[u])
  PROVE  LocalInvariant'
<1>1. TypeOK'
  BY DEF LocalInvariant, TypeOK
<1>2. WorkerKnows'
  BY DEF WorkerKnows, WorkerHolds, Recorded
<1>3. ASSUME NEW u \in Threads
      PROVE  RequestHolds(cl[u])'
  <2>1. RequestHolds(cl'[u]) /\ cl'[u].todo \subseteq Jobs \X Nat
    BY DEF ClientRecord
  <2>2. QED
    BY <2>1 DEF RequestHolds
<1>4. QED
  BY <1>1, <1>2, <1>3 DEF LocalInvariant, ClientKnows

\* One thread moves.
LEMMA ThreadMoves ==
  ASSUME LocalInvariant, NEW t \in Threads, NEW request,
         cl' = [cl EXCEPT ![t] = request], request \in ClientRecord, RequestHolds(request)
  PROVE  /\ cl' \in [Threads -> ClientRecord] /\ \A u \in Threads : RequestHolds(cl'[u])
         /\ \A u \in Threads : cl'[u] = IF u = t THEN request ELSE cl[u]
  BY DEF LocalInvariant, TypeOK, ClientKnows

\* A step of a thread, outside of a submission, that leaves the files of runs
\* and the worker alone.
LEMMA QuietRequest ==
  ASSUME EvidenceInvariant, JobsStep, Writing => jobs' = jobs,
         UNCHANGED <<runs, result, provenance, wk>>, restarts' \in Nat, faults' \in Nat,
         stopRequested' \in BOOLEAN, thread' \in {"none", "set"},
         server' \in {"down", "booting", "up", "stopping", "joined", "stopped"},
         pending' \in Seq(Jobs \cup {StopToken}),
         \A i \in DOMAIN pending' : pending'[i] # StopToken => Recorded(pending'[i]),
         NEW t \in Threads, NEW request, cl' = [cl EXCEPT ![t] = request],
         request \in ClientRecord, RequestHolds(request),
         request.pc \notin {"discard", "discard_provenance", "enqueue", "create"}
  PROVE  EvidenceInvariant'
<1>1. LocalInvariant /\ DiskInvariant /\ TypeOK /\ WorkerHolds(wk)
  BY DEF EvidenceInvariant, LocalInvariant, DiskInvariant, WorkerKnows
<1>2. jobs' \in [Jobs -> JobRecord] /\ \A k \in Jobs : Recorded(k)' <=> Recorded(k)
  BY <1>1, JobsStepKeeps DEF Recorded, TypeOK
<1>3. /\ cl' \in [Threads -> ClientRecord] /\ \A u \in Threads : RequestHolds(cl'[u])
      /\ \A u \in Threads : cl'[u] = IF u = t THEN request ELSE cl[u]
  BY <1>1, ThreadMoves
<1>4. QueueKnows'
  <2>1. \A i \in DOMAIN pending' : pending'[i] \in Jobs \cup {StopToken}
    OBVIOUS
  <2>2. QED
    BY <1>2, <2>1 DEF QueueKnows
<1>5. LocalInvariant'
  <2>1. wk' \in WorkerRecord /\ WorkerHolds(wk') /\ runs' \subseteq Runs
        /\ result' \in [Runs -> Jobs \cup {NoJob}] /\ provenance' \in [Runs -> Jobs \cup {NoJob}]
    BY <1>1 DEF TypeOK
  <2>2. QED
    BY <1>1, <1>2, <1>3, <1>4, <2>1, LocalStep
<1>6. \A u \in Threads : Submitting(u)' => Submitting(u) /\ cl'[u] = cl[u]
  BY <1>3 DEF Submitting
<1>7. Writing' => Writing /\ wk' = wk /\ jobs' = jobs
  BY DEF Writing
<1>8. DiskInvariant'
  BY <1>1, <1>6, <1>7, QuietStep
<1>9. QED
  BY <1>5, <1>8 DEF EvidenceInvariant, LocalInvariant, DiskInvariant

\* A request that only reads.
LEMMA RequestReads ==
  ASSUME EvidenceInvariant, NEW t \in Threads, NEW request, ClientStep(t, request),
         request \in ClientRecord, RequestHolds(request),
         request.pc \notin {"discard", "discard_provenance", "enqueue", "create"}
  PROVE  EvidenceInvariant'
<1>1. /\ UNCHANGED <<jobs, runs, result, provenance, wk, pending, stopRequested, thread, server,
                     restarts, faults>>
      /\ cl' = [cl EXCEPT ![t] = request]
  BY DEF ClientStep, disk, memory, budgets
<1>2. /\ restarts' \in Nat /\ faults' \in Nat
      /\ stopRequested' \in BOOLEAN /\ thread' \in {"none", "set"}
      /\ server' \in {"down", "booting", "up", "stopping", "joined", "stopped"}
      /\ pending' \in Seq(Jobs \cup {StopToken})
      /\ \A i \in DOMAIN pending' : pending'[i] # StopToken => Recorded(pending'[i])
  BY <1>1 DEF EvidenceInvariant, TypeOK, QueueKnows
<1>3. JobsStep /\ (Writing => jobs' = jobs)
  BY <1>1 DEF JobsStep
<1>4. QED
  BY <1>1, <1>2, <1>3, QuietRequest

\* A thread that is done fits anywhere.
LEMMA Idle == IdleClient \in ClientRecord /\ RequestHolds(IdleClient) /\ IdleClient.pc = "idle"
BY DEF IdleClient, ClientRecord, RequestHolds, ClientPcs, Steps

\* A cancel changes one record, which stays in its run and never gets
\* COMPLETE; the writer's job is out of its reach behind the job lock.
LEMMA CancelKeeps ==
  ASSUME EvidenceInvariant, NEW c \in Clients, CancelBegin(c) \/ CancelRead(c) \/ CancelCas(c)
  PROVE  EvidenceInvariant'
<1>1. /\ c \in Threads /\ cl[c] \in ClientRecord /\ RequestHolds(cl[c])
      /\ jobs \in [Jobs -> JobRecord] /\ cl \in [Threads -> ClientRecord]
  BY DEF EvidenceInvariant, TypeOK, ClientKnows, Threads
<1>2. CASE CancelBegin(c)
  <2>1. PICK j \in Jobs :
          Recorded(j) /\ ClientStep(c, [IdleClient EXCEPT !.pc = "cancel_read", !.job = j])
    BY <1>2 DEF CancelBegin
  <2> DEFINE request == [IdleClient EXCEPT !.pc = "cancel_read", !.job = j]
  <2>2. request \in ClientRecord /\ RequestHolds(request) /\ request.pc = "cancel_read"
    BY <2>1, Idle DEF IdleClient, ClientRecord, RequestHolds, ClientPcs
  <2> HIDE DEF request
  <2>3. ClientStep(c, request)
    BY <2>1 DEF request
  <2>4. QED
    BY <1>1, <2>2, <2>3, RequestReads
<1>3. CASE CancelRead(c)
  <2> DEFINE job == jobs[cl[c].job]
             target == IF job.state = "QUEUED" THEN "CANCELLED" ELSE Same
             request == [cl[c] EXCEPT !.pc = "cancel_cas", !.revision = job.revision,
                                      !.target = target]
  <2>1. cl[c].pc = "cancel_read" /\ cl[c].job \in Jobs /\ Recorded(cl[c].job)
    BY <1>1, <1>3 DEF CancelRead, RequestHolds
  <2>2. target \in {"CANCELLED", Same} /\ target \in Steps /\ job.revision \in Nat
    BY <1>1, <2>1 DEF Steps, JobStates, TerminalStates, JobRecord
  <2>3. request \in ClientRecord /\ RequestHolds(request) /\ request.pc = "cancel_cas"
    <3> HIDE DEF target, job
    <3>1. QED
      BY <1>1, <2>1, <2>2 DEF ClientRecord, RequestHolds, ClientPcs
  <2>4. ClientStep(c, IdleClient) \/ ClientStep(c, request)
    BY <1>3 DEF CancelRead
  <2> HIDE DEF request
  <2>5. QED
    BY <1>1, <2>3, <2>4, Idle, RequestReads
<1>4. CASE CancelCas(c)
  <2>1. cl[c].pc = "cancel_cas" /\ cl[c].job \in Jobs /\ Recorded(cl[c].job)
        /\ cl[c].target \in {"CANCELLED", Same} /\ cl[c].revision \in Nat /\ cl[c].tries \in Nat
    BY <1>1, <1>4 DEF CancelCas, RequestHolds, ClientRecord
  <2>2. CancelAgain(cl[c]) \in ClientRecord /\ RequestHolds(CancelAgain(cl[c]))
        /\ CancelAgain(cl[c]).pc \in {"idle", "cancel_read"}
    <3>1. cl[c].tries + 1 \in Nat
      BY <2>1
    <3> DEFINE request == [cl[c] EXCEPT !.pc = "cancel_read", !.tries = @ + 1]
    <3>2. request \in ClientRecord /\ RequestHolds(request) /\ request.pc = "cancel_read"
      BY <1>1, <2>1, <3>1 DEF ClientRecord, RequestHolds, ClientPcs
    <3>3. CancelAgain(cl[c]) = IF cl[c].tries + 1 = MaxTries THEN IdleClient ELSE request
      BY Zenon DEF CancelAgain
    <3> HIDE DEF request
    <3>4. QED
      BY <3>2, <3>3, Idle
  <2>3. /\ UNCHANGED <<runs, result, provenance, wk, pending, stopRequested, thread, server,
                       restarts, faults>>
        /\ cl' = [cl EXCEPT ![c] = IdleClient] \/ cl' = [cl EXCEPT ![c] = CancelAgain(cl[c])]
    <3>1. cl' = [cl EXCEPT ![c] = IdleClient] \/ cl' = [cl EXCEPT ![c] = CancelAgain(@)]
      BY <1>4 DEF CancelCas
    <3>2. QED
      BY <1>4, <3>1 DEF CancelCas, memory, budgets
  <2>4. JobsStep
    <3>1. CASE jobs' = jobs
      BY <3>1 DEF JobsStep
    <3>2. CASE jobs' # jobs
      <4> DEFINE j == cl[c].job
      <4>1. /\ UpdateAllowed(jobs[j], cl[c].revision, cl[c].target, TRUE, NoError)
            /\ jobs' = [jobs EXCEPT ![j] = Updated(@, cl[c].target, TRUE, NoError)]
        BY <1>4, <3>2 DEF CancelCas
      <4>2. cl[c].target \in Steps \ {"COMPLETE"} /\ NoError \in Errors
        BY <2>1 DEF Steps, JobStates, TerminalStates, Same, Errors
      <4>3. JobUpdated(j)
        BY <2>1, <4>1, <4>2 DEF JobUpdated
      <4>4. QED
        BY <2>1, <4>3 DEF JobsStep
    <3>3. QED
      BY <3>1, <3>2
  <2>5. ~Writing
    BY <1>4 DEF CancelCas, JobLockFree, Writing
  <2>6. /\ restarts' \in Nat /\ faults' \in Nat
        /\ stopRequested' \in BOOLEAN /\ thread' \in {"none", "set"}
        /\ server' \in {"down", "booting", "up", "stopping", "joined", "stopped"}
        /\ pending' \in Seq(Jobs \cup {StopToken})
        /\ \A i \in DOMAIN pending' : pending'[i] # StopToken => Recorded(pending'[i])
    BY <2>3 DEF EvidenceInvariant, TypeOK, QueueKnows
  <2>7. QED
    BY <1>1, <2>2, <2>3, <2>4, <2>5, <2>6, Idle, QuietRequest
<1>5. QED
  BY <1>2, <1>3, <1>4

\* A failed creation leaves its directory and gives the submission up.
LEMMA EnqueueFailsKeeps ==
  ASSUME EvidenceInvariant, NEW c \in Clients, EnqueueFails(c)
  PROVE  EvidenceInvariant'
<1>1. /\ UNCHANGED <<jobs, runs, result, provenance, wk, pending, stopRequested, thread, server>>
      /\ cl' = [cl EXCEPT ![c] = IdleClient] /\ c \in Threads
      /\ restarts' \in Nat /\ faults' \in Nat
  BY DEF EnqueueFails, disk, memory, Threads, EvidenceInvariant, TypeOK
<1>2. JobsStep
  BY <1>1 DEF JobsStep
<1>3. /\ stopRequested' \in BOOLEAN /\ thread' \in {"none", "set"}
      /\ server' \in {"down", "booting", "up", "stopping", "joined", "stopped"}
      /\ pending' \in Seq(Jobs \cup {StopToken})
      /\ \A i \in DOMAIN pending' : pending'[i] # StopToken => Recorded(pending'[i])
  BY <1>1 DEF EvidenceInvariant, TypeOK, QueueKnows
<1>4. QED
  BY <1>1, <1>2, <1>3, Idle, QuietRequest

\* A fresh queue of QUEUED jobs, and a todo of jobs in flight (queue.py:53-85).
LEMMA StartBeginKeeps ==
  ASSUME EvidenceInvariant, NEW t \in Threads, StartBegin(t)
  PROVE  EvidenceInvariant'
<1> DEFINE recovering == [IdleClient EXCEPT !.pc = "recover",
                            !.todo = {<<j, jobs[j].revision>> : j \in InFlight}]
<1>1. /\ jobs \in [Jobs -> JobRecord] /\ pending \in Seq(Jobs \cup {StopToken})
      /\ server \in {"down", "booting", "up", "stopping", "joined", "stopped"}
      /\ stopRequested \in BOOLEAN /\ thread \in {"none", "set"}
  BY DEF EvidenceInvariant, TypeOK
<1>2. /\ UNCHANGED <<jobs, runs, result, provenance, wk, thread>>
      /\ restarts' \in Nat /\ faults' \in Nat
  BY DEF StartBegin, disk, memory, budgets, EvidenceInvariant, TypeOK
<1>3. stopRequested' \in BOOLEAN
  BY <1>1 DEF StartBegin, memory
<1>4. server' \in {"down", "booting", "up", "stopping", "joined", "stopped"}
  BY <1>1 DEF StartBegin, StartRaises
<1>5. /\ pending' \in Seq(Jobs \cup {StopToken})
      /\ \A i \in DOMAIN pending' : pending'[i] # StopToken => Recorded(pending'[i])
  <2>1. CASE pending' = pending
    BY <1>1, <2>1 DEF EvidenceInvariant, QueueKnows
  <2>2. CASE pending' = <<>>
    BY <2>2
  <2>3. CASE pending' # pending /\ pending' # <<>>
    <3>1. PICK q \in Queues : {q[i] : i \in DOMAIN q} = InState({"QUEUED"}) /\ pending' = q
      BY <2>3 DEF StartBegin, memory
    <3>2. PICK n \in 0..MaxJobs : q \in [1..n -> Jobs]
      BY <3>1 DEF Queues
    <3>3. n \in Nat
      BY BoundsAssumption
    <3>4. q \in Seq(Jobs \cup {StopToken})
      BY <3>2, <3>3
    <3>5. \A i \in DOMAIN q : Recorded(q[i])
      BY <3>1 DEF InState, Recorded, NoRecord
    <3>6. QED
      BY <3>1, <3>4, <3>5
  <2>4. QED
    BY <2>1, <2>2, <2>3
<1>6. recovering \in ClientRecord /\ RequestHolds(recovering) /\ recovering.pc = "recover"
  <2> DEFINE todo == {<<j, jobs[j].revision>> : j \in InFlight}
  <2>1. todo \in SUBSET (Jobs \X Nat) /\ \A seen \in todo : Recorded(seen[1])
    BY <1>1 DEF InFlight, InState, Recorded, NoRecord, TransientStates, JobRecord
  <2>2. recovering = [IdleClient EXCEPT !.pc = "recover", !.todo = todo]
    OBVIOUS
  <2> HIDE DEF todo, recovering
  <2>3. recovering = [pc |-> "recover", job |-> NoJob, run |-> NoRun, revision |-> 0,
                      target |-> Same, tries |-> 0, todo |-> todo]
    BY <2>2 DEF IdleClient
  <2>4. Same \in Steps
    BY DEF Steps
  <2>5. QED
    BY <2>1, <2>3, <2>4 DEF ClientRecord, RequestHolds, ClientPcs
<1>7. cl' = [cl EXCEPT ![t] = IdleClient] \/ cl' = [cl EXCEPT ![t] = recovering]
  BY DEF StartBegin, StartRaises
<1>8. JobsStep
  BY <1>2 DEF JobsStep
<1> HIDE DEF recovering
<1>9. ASSUME NEW request \in ClientRecord, RequestHolds(request),
             request.pc \in {"idle", "recover"}, cl' = [cl EXCEPT ![t] = request]
      PROVE  EvidenceInvariant'
  BY <1>1, <1>2, <1>3, <1>4, <1>5, <1>8, <1>9, QuietRequest
<1>10. QED
  BY <1>6, <1>7, <1>9, Idle

\* Recovery only interrupts; it cannot touch a record an artifact is written
\* for, nor a file of a run (queue.py:58-71).
LEMMA RecoverJobKeeps ==
  ASSUME EvidenceInvariant, NEW t \in Threads, RecoverJob(t)
  PROVE  EvidenceInvariant'
<1>1. PICK seen \in cl[t].todo :
        LET j == seen[1] IN
        IF UpdateAllowed(jobs[j], seen[2], RecoveredState, FALSE, "WORKER_RESTART")
          THEN /\ jobs' = [jobs EXCEPT ![j] = Updated(@, RecoveredState, FALSE, "WORKER_RESTART")]
               /\ cl' = [cl EXCEPT ![t].todo = @ \ {seen}]
               /\ UNCHANGED server
          ELSE StartRaises(t) /\ UNCHANGED jobs
  BY DEF RecoverJob
<1>2. /\ cl[t] \in ClientRecord /\ RequestHolds(cl[t]) /\ cl[t].pc = "recover"
      /\ cl \in [Threads -> ClientRecord]
      /\ server \in {"down", "booting", "up", "stopping", "joined", "stopped"}
  BY DEF EvidenceInvariant, TypeOK, ClientKnows, RecoverJob
<1>3. seen[1] \in Jobs /\ seen[2] \in Nat /\ Recorded(seen[1])
  BY <1>2 DEF ClientRecord, RequestHolds
<1> DEFINE request == [cl[t] EXCEPT !.todo = @ \ {seen}]
<1>4. request \in ClientRecord /\ RequestHolds(request) /\ request.pc = "recover"
  BY <1>2 DEF ClientRecord, RequestHolds
<1>5. cl' = [cl EXCEPT ![t] = IdleClient] \/ cl' = [cl EXCEPT ![t] = request]
  BY <1>1, <1>2 DEF StartRaises
<1>6. server' \in {"down", "booting", "up", "stopping", "joined", "stopped"}
  BY <1>1, <1>2 DEF StartRaises
<1>7. JobsStep
  <2>1. CASE jobs' = jobs
    BY <2>1 DEF JobsStep
  <2>2. CASE jobs' # jobs
    <3>1. /\ UpdateAllowed(jobs[seen[1]], seen[2], RecoveredState, FALSE, "WORKER_RESTART")
          /\ jobs' = [jobs EXCEPT ![seen[1]] =
                        Updated(@, RecoveredState, FALSE, "WORKER_RESTART")]
      BY <1>1, <2>2
    <3>2. RecoveredState \in Steps \ {"COMPLETE"} /\ "WORKER_RESTART" \in Errors
      BY DEF RecoveredState, Steps, JobStates, TerminalStates, Errors
    <3>3. JobUpdated(seen[1])
      BY <1>3, <3>1, <3>2 DEF JobUpdated
    <3>4. QED
      BY <1>3, <3>3 DEF JobsStep
  <2>3. QED
    BY <2>1, <2>2
<1>8. ~Writing
  BY DEF RecoverJob, JobLockFree, Writing
<1>9. /\ UNCHANGED <<runs, result, provenance, wk, pending, stopRequested, thread>>
      /\ restarts' \in Nat /\ faults' \in Nat
      /\ stopRequested' \in BOOLEAN /\ thread' \in {"none", "set"}
      /\ pending' \in Seq(Jobs \cup {StopToken})
      /\ \A i \in DOMAIN pending' : pending'[i] # StopToken => Recorded(pending'[i])
  BY DEF RecoverJob, memory, budgets, EvidenceInvariant, TypeOK, QueueKnows
<1> HIDE DEF request
<1>10. QED
  BY <1>4, <1>5, <1>6, <1>7, <1>8, <1>9, Idle, QuietRequest

\* A new worker starts at the top of its loop, with nothing in its hands.
LEMMA StartWorkerKeeps ==
  ASSUME EvidenceInvariant, NEW t \in Threads, StartWorker(t)
  PROVE  EvidenceInvariant'
<1>1. LocalInvariant /\ DiskInvariant /\ TypeOK /\ QueueKnows
  BY DEF EvidenceInvariant, LocalInvariant, DiskInvariant
<1>2. /\ UNCHANGED <<jobs, runs, result, provenance, pending, stopRequested, restarts, faults>>
      /\ cl' = [cl EXCEPT ![t] = IdleClient] /\ wk' = Looping /\ thread' = "set"
  BY DEF StartWorker, disk, budgets
<1>3. server' \in {"down", "booting", "up", "stopping", "joined", "stopped"}
  BY <1>1 DEF StartWorker, TypeOK
<1>4. Fits(Looping)
  BY Resting
<1>5. /\ cl' \in [Threads -> ClientRecord] /\ \A u \in Threads : RequestHolds(cl'[u])
      /\ \A u \in Threads : cl'[u] = IF u = t THEN IdleClient ELSE cl[u]
  BY <1>1, <1>2, Idle, ThreadMoves
<1>6. LocalInvariant'
  <2>1. QueueKnows'
    BY <1>1, <1>2 DEF QueueKnows, Recorded
  <2>2. wk' \in WorkerRecord /\ WorkerHolds(wk')
    BY <1>2, <1>4 DEF Fits
  <2>3. \A k \in Jobs : Recorded(k) => Recorded(k)'
    BY <1>2 DEF Recorded
  <2>4. /\ runs' \subseteq Runs /\ restarts' \in Nat /\ faults' \in Nat
        /\ stopRequested' \in BOOLEAN /\ thread' \in {"none", "set"}
        /\ jobs' \in [Jobs -> JobRecord] /\ pending' \in Seq(Jobs \cup {StopToken})
        /\ result' \in [Runs -> Jobs \cup {NoJob}] /\ provenance' \in [Runs -> Jobs \cup {NoJob}]
    BY <1>1, <1>2 DEF TypeOK
  <2>5. QED
    BY <1>1, <1>3, <1>5, <2>1, <2>2, <2>3, <2>4, LocalStep
<1>7. DiskInvariant'
  <2>1. \A u \in Threads : Submitting(u)' => Submitting(u) /\ cl'[u] = cl[u]
    BY <1>5, Idle DEF Submitting
  <2>2. ~Writing'
    BY <1>2, <1>4 DEF Writing, Fits
  <2>3. JobsStep
    BY <1>2 DEF JobsStep
  <2>4. QED
    BY <1>1, <1>2, <2>1, <2>2, <2>3, QuietStep
<1>8. QED
  BY <1>6, <1>7 DEF EvidenceInvariant, LocalInvariant, DiskInvariant

-----------------------------------------------------------------------------
(* Submissions: create and retry *)

\* A step of the only submitter, up to the reservation of a job directory: its
\* run has no active and no COMPLETE job, and of the files only those of its
\* run change, by being discarded (runs.py:254-279, storage.py:593-608).
LEMMA SubmissionStep ==
  ASSUME EvidenceInvariant,
         UNCHANGED <<jobs, wk, pending, stopRequested, thread, server>>,
         restarts' \in Nat, faults' \in Nat,
         runs \subseteq runs', runs' \subseteq Runs,
         NEW c \in Threads, \A u \in Threads \ {c} : ~Submitting(u),
         NEW request \in ClientRecord, RequestHolds(request), cl' = [cl EXCEPT ![c] = request],
         request.pc \in {"discard", "discard_provenance", "enqueue"},
         request.pc = "discard_provenance" => ~Writing,
         request.run \in runs',
         ActiveJobs(request.run) = {}, CompleteJobs(request.run) = {},
         result' \in [Runs -> Jobs \cup {NoJob}], provenance' \in [Runs -> Jobs \cup {NoJob}],
         \A q \in Runs : q # request.run => result'[q] = result[q] /\ provenance'[q] = provenance[q],
         \A q \in Runs : result'[q] \in {result[q], NoJob}
                         /\ provenance'[q] \in {provenance[q], NoJob},
         request.pc # "discard" => result'[request.run] = NoJob,
         request.pc = "enqueue" => provenance'[request.run] = NoJob
  PROVE  EvidenceInvariant'
<1>1. LocalInvariant /\ DiskInvariant /\ TypeOK /\ QueueKnows /\ WorkerHolds(wk)
  BY DEF EvidenceInvariant, LocalInvariant, DiskInvariant, WorkerKnows
<1>2. /\ cl' \in [Threads -> ClientRecord] /\ \A u \in Threads : RequestHolds(cl'[u])
      /\ \A u \in Threads : cl'[u] = IF u = c THEN request ELSE cl[u]
  BY <1>1, ThreadMoves
<1>3. LocalInvariant'
  <2>1. QueueKnows'
    BY <1>1 DEF QueueKnows, Recorded
  <2>2. \A k \in Jobs : Recorded(k) => Recorded(k)'
    BY DEF Recorded
  <2>3. /\ stopRequested' \in BOOLEAN /\ thread' \in {"none", "set"}
        /\ server' \in {"down", "booting", "up", "stopping", "joined", "stopped"}
        /\ jobs' \in [Jobs -> JobRecord] /\ pending' \in Seq(Jobs \cup {StopToken})
        /\ wk' \in WorkerRecord /\ WorkerHolds(wk')
    BY <1>1 DEF TypeOK
  <2>4. QED
    BY <1>1, <1>2, <2>1, <2>2, <2>3, LocalStep
<1>4. \A q \in Runs : CompleteJobs(q)' = CompleteJobs(q) /\ ActiveJobs(q)' = ActiveJobs(q)
  BY DEF CompleteJobs, ActiveJobs, JobsOf, Recorded
<1>5. OneSubmitter'
  BY <1>2 DEF OneSubmitter, Submitting
<1>6. SubmitterKnows'
  <2> SUFFICES ASSUME NEW t \in Threads, Submitting(t)'
               PROVE  SubmitterHolds(t)'
    BY DEF SubmitterKnows
  <2>1. cl'[t] = request
    BY <1>2 DEF Submitting
  <2>2. \A q \in Runs : q = request.run => ActiveJobs(q)' = {} /\ CompleteJobs(q)' = {}
    BY <1>4
  <2>3. QED
    BY <2>1, <2>2 DEF SubmitterHolds
<1>7. WriterExcludesOthers'
  <2> SUFFICES ASSUME Writing', NEW t \in Threads
               PROVE  cl'[t].pc \notin {"discard_provenance", "create"}
    BY DEF WriterExcludesOthers
  <2>1. Writing
    BY DEF Writing
  <2>2. QED
    BY <1>1, <1>2, <2>1 DEF DiskInvariant, WriterExcludesOthers
<1>8. WriterKnows'
  <2> SUFFICES ASSUME Writing'
               PROVE  WriterKnows'
    BY DEF WriterKnows
  <2>1. Writing
    BY DEF Writing
  <2> DEFINE r == jobs[wk.job].run
  <2>2. /\ r \in Runs /\ wk.job \in ActiveJobs(r)
        /\ jobs[wk.job].state = "WRITING_ARTIFACT" /\ ~jobs[wk.job].cancel_requested
        /\ jobs[wk.job].revision = wk.revision /\ CompleteJobs(r) = {} /\ result[r] = wk.job
    BY <2>1, Writers
  <2>3. provenance[r] = IF wk.pc = "commit" THEN wk.job ELSE NoJob
    BY <1>1, <2>1 DEF DiskInvariant, WriterKnows
  <2>4. r # request.run
    BY <2>2
  <2>5. result'[r] = result[r] /\ provenance'[r] = provenance[r] /\ CompleteJobs(r)' = {}
    BY <1>4, <2>2, <2>4
  <2>6. QED
    BY <2>2, <2>3, <2>5 DEF WriterKnows
<1>9. KnownRuns'
  BY <1>1 DEF DiskInvariant, KnownRuns, Recorded
<1>10. EvidenceIsWhole'
  <2> SUFFICES ASSUME NEW q \in Runs, NEW k \in CompleteJobs(q)
               PROVE  result'[q] = k /\ provenance'[q] = k
    BY <1>4 DEF EvidenceIsWhole
  <2>1. q # request.run
    OBVIOUS
  <2>2. QED
    BY <1>1, <2>1 DEF DiskInvariant, EvidenceIsWhole
<1>11. OneActiveJobPerRun'
  BY <1>1, <1>4 DEF DiskInvariant, OneActiveJobPerRun
<1>12. NextAttemptStartsClean'
  BY <1>1, <1>4 DEF DiskInvariant, NextAttemptStartsClean
<1>13. QED
  BY <1>3, <1>5, <1>6, <1>7, <1>8, <1>9, <1>10, <1>11, <1>12
     DEF EvidenceInvariant, LocalInvariant

\* A new run has no job and no file; a retried run no active and no COMPLETE
\* job.  Both take the submission lock.
LEMMA SubmissionBegins ==
  ASSUME EvidenceInvariant, NEW c \in Clients, CreateRun(c) \/ RetryCheck(c)
  PROVE  EvidenceInvariant'
<1>1. TypeOK /\ KnownRuns /\ c \in Threads /\ \A u \in Threads : ~Submitting(u)
  BY DEF EvidenceInvariant, Threads, CreateRun, RetryCheck, SubmissionLockFree, Submitting
<1>2. \A r \in Runs, pc \in {"enqueue", "discard"} :
        LET request == [IdleClient EXCEPT !.pc = pc, !.run = r] IN
        /\ request \in ClientRecord /\ RequestHolds(request)
        /\ request.pc = pc /\ request.run = r
  BY DEF IdleClient, ClientRecord, RequestHolds, ClientPcs, Steps
<1>3. CASE CreateRun(c)
  <2>1. PICK r \in Runs \ runs :
          /\ runs' = runs \cup {r}
          /\ cl' = [cl EXCEPT ![c] = [IdleClient EXCEPT !.pc = "enqueue", !.run = r]]
    BY <1>3 DEF CreateRun
  <2>2. UNCHANGED <<jobs, result, provenance, wk, pending, stopRequested, thread, server,
                    restarts, faults>>
    BY <1>3 DEF CreateRun, memory, budgets
  <2>3. /\ ActiveJobs(r) = {} /\ CompleteJobs(r) = {}
        /\ result[r] = NoJob /\ provenance[r] = NoJob
    BY <1>1, <2>1 DEF KnownRuns, ActiveJobs, CompleteJobs, JobsOf
  <2> DEFINE request == [IdleClient EXCEPT !.pc = "enqueue", !.run = r]
  <2>4. /\ request \in ClientRecord /\ RequestHolds(request)
        /\ request.pc = "enqueue" /\ request.run = r
    BY <1>2
  <2>5. cl' = [cl EXCEPT ![c] = request]
    BY <2>1
  <2> HIDE DEF request
  <2>6. /\ restarts' \in Nat /\ faults' \in Nat /\ runs' \subseteq Runs
        /\ result' \in [Runs -> Jobs \cup {NoJob}] /\ provenance' \in [Runs -> Jobs \cup {NoJob}]
    BY <1>1, <2>1, <2>2 DEF TypeOK
  <2>7. QED
    BY <1>1, <2>1, <2>2, <2>3, <2>4, <2>5, <2>6, SubmissionStep
<1>4. CASE RetryCheck(c)
  <2>1. PICK j \in InState(TerminalStates \ {"COMPLETE"}) :
          /\ Retryable(jobs[j].run)
          /\ ClientStep(c, [IdleClient EXCEPT !.pc = "discard", !.run = jobs[j].run])
    BY <1>4 DEF RetryCheck
  <2> DEFINE r == jobs[j].run
             request == [IdleClient EXCEPT !.pc = "discard", !.run = r]
  <2>2. r \in runs /\ r \in Runs
    BY <1>1, <2>1 DEF InState, KnownRuns, Recorded, NoRecord, TerminalStates, TypeOK
  <2>3. ActiveJobs(r) = {} /\ CompleteJobs(r) = {}
    BY <2>1 DEF Retryable
  <2>4. UNCHANGED <<jobs, runs, result, provenance, wk, pending, stopRequested, thread, server,
                    restarts, faults>>
    BY <2>1 DEF ClientStep, disk, memory, budgets
  <2>5. /\ request \in ClientRecord /\ RequestHolds(request)
        /\ request.pc = "discard" /\ request.run = r
    BY <1>2, <2>2
  <2>6. cl' = [cl EXCEPT ![c] = request]
    BY <2>1 DEF ClientStep
  <2> HIDE DEF request, r
  <2>7. /\ restarts' \in Nat /\ faults' \in Nat /\ runs' \subseteq Runs
        /\ result' \in [Runs -> Jobs \cup {NoJob}] /\ provenance' \in [Runs -> Jobs \cup {NoJob}]
    BY <1>1, <2>4 DEF TypeOK
  <2>8. QED
    BY <1>1, <2>2, <2>3, <2>4, <2>5, <2>6, <2>7, SubmissionStep
<1>5. QED
  BY <1>3, <1>4

\* A retry discards what earlier attempts left, one file at a time.
LEMMA DiscardKeeps ==
  ASSUME EvidenceInvariant, NEW c \in Clients, DiscardResult(c) \/ DiscardProvenance(c)
  PROVE  EvidenceInvariant'
<1> DEFINE r == cl[c].run
<1>1. TypeOK /\ c \in Threads /\ Submitting(c) /\ cl[c] \in ClientRecord /\ RequestHolds(cl[c])
  BY DEF EvidenceInvariant, TypeOK, ClientKnows, Threads, Submitting, DiscardResult,
         DiscardProvenance
<1>2. SubmitterHolds(c) /\ \A u \in Threads \ {c} : ~Submitting(u)
  BY <1>1 DEF EvidenceInvariant, SubmitterKnows, OneSubmitter
<1>3. /\ r \in runs /\ r \in Runs /\ ActiveJobs(r) = {} /\ CompleteJobs(r) = {}
      /\ cl[c].pc # "discard" => result[r] = NoJob
  BY <1>1, <1>2 DEF SubmitterHolds, TypeOK
<1>4. CASE DiscardResult(c) /\ Retryable(r)
  <2>1. /\ result' = NoEvidence(result, r)
        /\ cl' = [cl EXCEPT ![c].pc = "discard_provenance"]
        /\ UNCHANGED <<jobs, runs, provenance, wk, pending, stopRequested, thread, server,
                       restarts, faults>>
        /\ ~Writing
    BY <1>4 DEF DiscardResult, memory, budgets, JobLockFree, Writing
  <2> DEFINE request == [cl[c] EXCEPT !.pc = "discard_provenance"]
  <2>2. /\ request \in ClientRecord /\ RequestHolds(request)
        /\ request.pc = "discard_provenance" /\ request.run = r
    BY <1>1 DEF ClientRecord, RequestHolds, ClientPcs
  <2>3. cl' = [cl EXCEPT ![c] = request]
    BY <2>1
  <2>4. /\ result' \in [Runs -> Jobs \cup {NoJob}] /\ result'[r] = NoJob
        /\ \A q \in Runs : q # r => result'[q] = result[q]
    BY <1>1, <1>3, <2>1 DEF NoEvidence, TypeOK
  <2>5. /\ restarts' \in Nat /\ faults' \in Nat /\ runs' \subseteq Runs
        /\ provenance' \in [Runs -> Jobs \cup {NoJob}]
    BY <1>1, <2>1 DEF TypeOK
  <2> HIDE DEF request, r
  <2>6. QED
    BY <1>1, <1>2, <1>3, <2>1, <2>2, <2>3, <2>4, <2>5, SubmissionStep
<1>5. CASE DiscardResult(c) /\ ~Retryable(r)
  <2>1. ClientStep(c, IdleClient)
    BY <1>5 DEF DiscardResult, ClientStep, disk
  <2>2. QED
    BY <1>1, <2>1, Idle, RequestReads
<1>6. CASE DiscardProvenance(c)
  <2>1. /\ provenance' = NoEvidence(provenance, r)
        /\ cl' = [cl EXCEPT ![c].pc = "enqueue"]
        /\ UNCHANGED <<jobs, runs, result, wk, pending, stopRequested, thread, server,
                       restarts, faults>>
        /\ result[r] = NoJob
    BY <1>3, <1>6 DEF DiscardProvenance, memory, budgets
  <2> DEFINE request == [cl[c] EXCEPT !.pc = "enqueue"]
  <2>2. /\ request \in ClientRecord /\ RequestHolds(request)
        /\ request.pc = "enqueue" /\ request.run = r
    BY <1>1 DEF ClientRecord, RequestHolds, ClientPcs
  <2>3. cl' = [cl EXCEPT ![c] = request]
    BY <2>1
  <2>4. /\ provenance' \in [Runs -> Jobs \cup {NoJob}] /\ provenance'[r] = NoJob
        /\ \A q \in Runs : q # r => provenance'[q] = provenance[q]
    BY <1>1, <1>3, <2>1 DEF NoEvidence, TypeOK
  <2>5. /\ restarts' \in Nat /\ faults' \in Nat /\ runs' \subseteq Runs
        /\ result' \in [Runs -> Jobs \cup {NoJob}]
    BY <1>1, <2>1 DEF TypeOK
  <2> HIDE DEF request, r
  <2>6. QED
    BY <1>1, <1>2, <1>3, <2>1, <2>2, <2>3, <2>4, <2>5, SubmissionStep
<1>7. QED
  BY <1>4, <1>5, <1>6

\* The directory of the new job is made: nobody else knows of it.
LEMMA EnqueueKeeps ==
  ASSUME EvidenceInvariant, NEW c \in Clients, Enqueue(c)
  PROVE  EvidenceInvariant'
<1>1. /\ LocalInvariant /\ DiskInvariant /\ TypeOK /\ QueueKnows /\ WorkerHolds(wk)
      /\ c \in Threads /\ Submitting(c) /\ cl[c] \in ClientRecord /\ RequestHolds(cl[c])
      /\ cl \in [Threads -> ClientRecord] /\ jobs \in [Jobs -> JobRecord]
  BY DEF EvidenceInvariant, LocalInvariant, DiskInvariant, TypeOK, WorkerKnows, ClientKnows,
         Threads, Submitting, Enqueue
<1>2. CASE stopRequested
  <2>1. ClientStep(c, IdleClient)
    BY <1>2 DEF Enqueue, ClientStep, disk
  <2>2. QED
    BY <1>1, <2>1, Idle, RequestReads
<1>3. CASE ~stopRequested
  <2>1. PICK j \in Jobs :
          /\ NewJob(j)
          /\ jobs' = [jobs EXCEPT ![j].state = "TORN"]
          /\ cl' = [cl EXCEPT ![c].pc = "create", ![c].job = j]
    BY <1>3 DEF Enqueue
  <2>2. /\ UNCHANGED <<runs, result, provenance, wk, pending, stopRequested, thread, server,
                       restarts, faults>>
        /\ ~Writing /\ cl[c].pc = "enqueue"
    BY DEF Enqueue, memory, budgets, JobLockFree, Writing
  <2> DEFINE request == [cl[c] EXCEPT !.pc = "create", !.job = j]
  <2>3. /\ request \in ClientRecord /\ RequestHolds(request)
        /\ request.pc = "create" /\ request.job = j /\ request.run = cl[c].run
    BY <1>1 DEF ClientRecord, RequestHolds, ClientPcs
  <2>4. cl' = [cl EXCEPT ![c] = request]
    BY <1>1, <2>1
  <2> HIDE DEF request
  <2>5. /\ cl' \in [Threads -> ClientRecord] /\ \A u \in Threads : RequestHolds(cl'[u])
        /\ \A u \in Threads : cl'[u] = IF u = c THEN request ELSE cl[u]
    BY <1>1, <2>3, <2>4, ThreadMoves
  <2>6. /\ jobs' \in [Jobs -> JobRecord] /\ jobs'[j].state = "TORN" /\ jobs[j].state = "NONE"
        /\ \A k \in Jobs \ {j} : jobs'[k] = jobs[k]
    BY <1>1, <2>1 DEF JobRecord, NewJob, NoRecord
  <2>7. \A k \in Jobs : /\ Recorded(k)' <=> Recorded(k)
                        /\ Recorded(k) => jobs'[k] = jobs[k]
    BY <2>6 DEF Recorded, NoRecord
  <2>8. LocalInvariant'
    <3>1. QueueKnows'
      <4>1. \A i \in DOMAIN pending : pending[i] \in Jobs \cup {StopToken}
        BY <1>1 DEF TypeOK
      <4>2. QED
        BY <1>1, <2>2, <2>7, <4>1 DEF QueueKnows
    <3>2. /\ runs' \subseteq Runs /\ restarts' \in Nat /\ faults' \in Nat
          /\ stopRequested' \in BOOLEAN /\ thread' \in {"none", "set"}
          /\ server' \in {"down", "booting", "up", "stopping", "joined", "stopped"}
          /\ result' \in [Runs -> Jobs \cup {NoJob}]
          /\ provenance' \in [Runs -> Jobs \cup {NoJob}]
          /\ pending' \in Seq(Jobs \cup {StopToken})
          /\ wk' \in WorkerRecord /\ WorkerHolds(wk')
      BY <1>1, <2>2 DEF TypeOK
    <3>3. QED
      BY <1>1, <2>5, <2>6, <2>7, <3>1, <3>2, LocalStep
  <2>9. \A q \in Runs : CompleteJobs(q)' = CompleteJobs(q) /\ ActiveJobs(q)' = ActiveJobs(q)
    BY <2>7 DEF CompleteJobs, ActiveJobs, JobsOf
  <2>10. \A t \in Threads : Submitting(t)' <=> Submitting(t)
    BY <1>1, <2>3, <2>5 DEF Submitting
  <2>11. OneSubmitter'
    BY <1>1, <2>10 DEF DiskInvariant, OneSubmitter
  <2>12. SubmitterKnows'
    <3> SUFFICES ASSUME NEW t \in Threads, Submitting(t)'
                 PROVE  SubmitterHolds(t)'
      BY DEF SubmitterKnows
    <3>1. t = c
      BY <1>1, <2>10 DEF DiskInvariant, OneSubmitter
    <3>2. cl'[t] = request
      BY <2>5, <3>1
    <3>3. SubmitterHolds(c) /\ cl[c].run \in Runs
      BY <1>1 DEF DiskInvariant, SubmitterKnows, SubmitterHolds, TypeOK
    <3>4. \A q \in Runs : q = request.run => ActiveJobs(q)' = {} /\ CompleteJobs(q)' = {}
      BY <2>3, <2>9, <3>3 DEF SubmitterHolds
    <3>5. result[request.run] = NoJob /\ provenance[request.run] = NoJob /\ request.run \in runs
      BY <2>2, <2>3, <3>3 DEF SubmitterHolds
    <3>6. QED
      BY <2>2, <2>3, <2>6, <3>2, <3>3, <3>4, <3>5 DEF SubmitterHolds
  <2>13. WriterExcludesOthers' /\ WriterKnows'
    BY <2>2 DEF WriterExcludesOthers, WriterKnows, Writing
  <2>14. KnownRuns'
    BY <1>1, <2>2, <2>7 DEF DiskInvariant, KnownRuns
  <2>15. EvidenceIsWhole' /\ OneActiveJobPerRun'
    BY <1>1, <2>2, <2>9 DEF DiskInvariant, EvidenceIsWhole, OneActiveJobPerRun
  <2>16. NextAttemptStartsClean'
    <3>1. \A q \in Runs : \A k \in ActiveJobs(q) : jobs'[k] = jobs[k]
      BY <2>7 DEF ActiveJobs, JobsOf
    <3>2. QED
      BY <1>1, <2>2, <2>9, <3>1 DEF DiskInvariant, NextAttemptStartsClean
  <2>17. QED
    BY <2>8, <2>11, <2>12, <2>13, <2>14, <2>15, <2>16
       DEF EvidenceInvariant, LocalInvariant
<1>4. QED
  BY <1>2, <1>3

\* The record is linked and the worker hears of it: the run has one job that
\* has not ended, and no file (queue.py:44-51).
LEMMA CreateKeeps ==
  ASSUME EvidenceInvariant, NEW c \in Clients, Create(c)
  PROVE  EvidenceInvariant'
<1> SUFFICES ASSUME NEW r, r = cl[c].run, NEW j, j = cl[c].job
             PROVE  EvidenceInvariant'
  OBVIOUS
<1> DEFINE request == [IdleClient EXCEPT !.pc = "start"]
<1>1. /\ LocalInvariant /\ DiskInvariant /\ TypeOK /\ QueueKnows /\ WorkerHolds(wk)
      /\ c \in Threads /\ Submitting(c) /\ jobs \in [Jobs -> JobRecord]
      /\ pending \in Seq(Jobs \cup {StopToken})
  BY DEF EvidenceInvariant, LocalInvariant, DiskInvariant, TypeOK, WorkerKnows,
         Threads, Submitting, Create
<1>2. /\ r \in runs /\ r \in Runs /\ ActiveJobs(r) = {} /\ CompleteJobs(r) = {}
      /\ result[r] = NoJob /\ provenance[r] = NoJob
      /\ j \in Jobs /\ jobs[j].state = "TORN"
  <2>1. SubmitterHolds(c) /\ cl[c].pc = "create"
    BY <1>1 DEF DiskInvariant, SubmitterKnows, Create
  <2>2. QED
    BY <1>1, <2>1 DEF SubmitterHolds, TypeOK
<1>3. /\ jobs' = [jobs EXCEPT ![j] = QueuedRecord(r)]
      /\ pending' = pending \/ pending' = Append(pending, j)
      /\ cl' = [cl EXCEPT ![c] = request]
      /\ UNCHANGED <<runs, result, provenance, wk, stopRequested, thread, server,
                     restarts, faults>>
      /\ ~Writing
  <2>1. ~Writing
    BY <1>1 DEF Create, DiskInvariant, WriterExcludesOthers
  <2>2. QED
    BY <2>1 DEF Create, Schedule, budgets
<1>4. /\ request \in ClientRecord /\ RequestHolds(request) /\ request.pc = "start"
  BY DEF IdleClient, ClientRecord, RequestHolds, ClientPcs, Steps
<1> HIDE DEF request
<1>5. /\ cl' \in [Threads -> ClientRecord] /\ \A u \in Threads : RequestHolds(cl'[u])
      /\ \A u \in Threads : cl'[u] = IF u = c THEN request ELSE cl[u]
  BY <1>1, <1>3, <1>4, ThreadMoves
<1>6. /\ QueuedRecord(r) \in JobRecord /\ QueuedRecord(r).run = r
      /\ QueuedRecord(r).state = "QUEUED"
  BY <1>2 DEF QueuedRecord, JobRecord, JobStates, Errors
<1>7. /\ jobs' \in [Jobs -> JobRecord]
      /\ jobs'[j].run = r /\ jobs'[j].state = "QUEUED" /\ Recorded(j)' /\ ~Recorded(j)
      /\ \A k \in Jobs \ {j} : jobs'[k] = jobs[k]
  BY <1>1, <1>2, <1>3, <1>6 DEF Recorded, NoRecord
<1>8. \A k \in Jobs \ {j} : Recorded(k)' <=> Recorded(k)
  BY <1>7 DEF Recorded
<1>9. /\ pending' \in Seq(Jobs \cup {StopToken}) /\ QueueKnows'
  <2>1. CASE pending' = pending
    <3>1. \A i \in DOMAIN pending : pending[i] # StopToken => pending[i] \in Jobs /\ Recorded(pending[i])
      BY <1>1 DEF QueueKnows
    <3>2. QED
      BY <1>1, <1>7, <1>8, <2>1, <3>1 DEF QueueKnows
  <2>2. CASE pending' = Append(pending, j)
    <3>1. /\ pending' \in Seq(Jobs \cup {StopToken}) /\ DOMAIN pending' = 1..(Len(pending) + 1)
          /\ \A i \in 1..Len(pending) : pending'[i] = pending[i]
          /\ pending'[Len(pending) + 1] = j
      BY <1>1, <1>2, <2>2
    <3>2. \A i \in 1..Len(pending) : pending[i] # StopToken => pending[i] \in Jobs /\ Recorded(pending[i])
      BY <1>1 DEF QueueKnows
    <3>3. ASSUME NEW i \in DOMAIN pending', pending'[i] # StopToken
          PROVE  Recorded(pending[i])'
      <4>1. CASE i \in 1..Len(pending)
        <5>1. pending'[i] \in Jobs /\ Recorded(pending'[i])
          BY <3>1, <3>2, <3>3, <4>1
        <5>2. QED
          BY <1>7, <1>8, <5>1 DEF Recorded
      <4>2. CASE i = Len(pending) + 1
        BY <1>7, <3>1, <4>2 DEF Recorded
      <4>3. QED
        BY <1>1, <3>1, <3>3, <4>1, <4>2
    <3>4. QED
      BY <3>1, <3>3 DEF QueueKnows
  <2>3. QED
    BY <1>3, <2>1, <2>2
<1>10. LocalInvariant'
  <2>1. /\ runs' \subseteq Runs /\ restarts' \in Nat /\ faults' \in Nat
        /\ stopRequested' \in BOOLEAN /\ thread' \in {"none", "set"}
        /\ server' \in {"down", "booting", "up", "stopping", "joined", "stopped"}
        /\ result' \in [Runs -> Jobs \cup {NoJob}] /\ provenance' \in [Runs -> Jobs \cup {NoJob}]
        /\ wk' \in WorkerRecord /\ WorkerHolds(wk')
    BY <1>1, <1>3 DEF TypeOK
  <2>2. \A k \in Jobs : Recorded(k) => Recorded(k)'
    BY <1>7, <1>8
  <2>3. QED
    BY <1>1, <1>5, <1>7, <1>9, <2>1, <2>2, LocalStep
<1>11. /\ \A q \in Runs : CompleteJobs(q)' = CompleteJobs(q)
       /\ \A q \in Runs : q # r => ActiveJobs(q)' = ActiveJobs(q)
       /\ \A q \in Runs : q = r => ActiveJobs(q)' \subseteq {j}
  BY <1>2, <1>7, <1>8 DEF CompleteJobs, ActiveJobs, JobsOf
<1>12. \A t \in Threads : ~Submitting(t)'
  BY <1>1, <1>4, <1>5 DEF Submitting, DiskInvariant, OneSubmitter
<1>13. OneSubmitter' /\ SubmitterKnows'
  BY <1>12 DEF OneSubmitter, SubmitterKnows
<1>14. WriterExcludesOthers' /\ WriterKnows'
  BY <1>3 DEF WriterExcludesOthers, WriterKnows, Writing
<1>15. KnownRuns'
  BY <1>1, <1>2, <1>3, <1>7, <1>8 DEF DiskInvariant, KnownRuns
<1>16. EvidenceIsWhole'
  BY <1>1, <1>3, <1>11 DEF DiskInvariant, EvidenceIsWhole
<1>17. OneActiveJobPerRun'
  BY <1>1, <1>11 DEF DiskInvariant, OneActiveJobPerRun
<1>18. NextAttemptStartsClean'
  <2> SUFFICES ASSUME NEW q \in Runs, NEW k \in ActiveJobs(q)',
                      jobs'[k].state # "WRITING_ARTIFACT"
               PROVE  result'[q] = NoJob /\ provenance'[q] = NoJob
    BY DEF NextAttemptStartsClean
  <2>1. CASE q = r
    BY <1>2, <1>3, <2>1
  <2>2. CASE q # r
    <3>1. k \in ActiveJobs(q) /\ k \in Jobs /\ k # j
      BY <1>7, <1>11, <2>2 DEF ActiveJobs, JobsOf
    <3>2. QED
      BY <1>1, <1>3, <1>7, <3>1 DEF DiskInvariant, NextAttemptStartsClean
  <2>3. QED
    BY <2>1, <2>2
<1>19. QED
  BY <1>10, <1>13, <1>14, <1>15, <1>16, <1>17, <1>18
     DEF EvidenceInvariant, LocalInvariant

-----------------------------------------------------------------------------
(* The process *)

\* Boot and shutdown change neither records nor files.
LEMMA LifespanKeeps ==
  ASSUME EvidenceInvariant, Boot \/ StopBegin \/ StopJoin \/ StopClear
  PROVE  EvidenceInvariant'
<1>1. LocalInvariant /\ DiskInvariant /\ TypeOK /\ QueueKnows /\ ClientKnows
      /\ pending \in Seq(Jobs \cup {StopToken})
  BY DEF EvidenceInvariant, LocalInvariant, DiskInvariant, TypeOK
<1>2. /\ UNCHANGED <<jobs, runs, result, provenance, wk>>
      /\ restarts' \in Nat /\ faults' \in Nat
      /\ stopRequested' \in BOOLEAN /\ thread' \in {"none", "set"}
      /\ server' \in {"down", "booting", "up", "stopping", "joined", "stopped"}
  <2>1. /\ restarts \in Nat /\ faults \in Nat
        /\ stopRequested \in BOOLEAN /\ thread \in {"none", "set"}
    BY <1>1 DEF TypeOK
  <2>2. CASE Boot
    BY <2>1, <2>2 DEF Boot, disk, memory, budgets
  <2>3. CASE StopBegin
    BY <2>1, <2>3 DEF StopBegin, disk
  <2>4. CASE StopJoin
    BY <2>1, <2>4 DEF StopJoin, disk, memory, budgets
  <2>5. CASE StopClear
    BY <2>1, <2>5 DEF StopClear, disk, budgets
  <2>6. QED
    BY <2>2, <2>3, <2>4, <2>5
<1>3. pending' = pending \/ pending' = Append(pending, StopToken)
  BY DEF Boot, StopBegin, StopJoin, StopClear, memory
<1>4. pending' \in Seq(Jobs \cup {StopToken})
  BY <1>1, <1>3
<1>5. \A i \in DOMAIN pending' : pending'[i] # StopToken => Recorded(pending'[i])
  <2>1. CASE pending' = pending
    BY <1>1, <2>1 DEF QueueKnows
  <2>2. CASE pending' = Append(pending, StopToken)
    <3>1. /\ DOMAIN pending' = 1..(Len(pending) + 1) /\ pending'[Len(pending) + 1] = StopToken
          /\ \A i \in 1..Len(pending) : pending'[i] = pending[i]
          /\ DOMAIN pending = 1..Len(pending) /\ Len(pending) \in Nat
      BY <1>1, <2>2
    <3>2. ASSUME NEW i \in DOMAIN pending', pending'[i] # StopToken
          PROVE  i \in DOMAIN pending /\ pending'[i] = pending[i]
      BY <3>1, <3>2
    <3>3. QED
      BY <1>1, <3>2 DEF QueueKnows
  <2>3. QED
    BY <1>3, <2>1, <2>2
<1>6. JobsStep
  BY <1>2 DEF JobsStep
<1>7. CASE Boot
  <2> DEFINE request == [IdleClient EXCEPT !.pc = "start"]
  <2>1. request \in ClientRecord /\ RequestHolds(request) /\ request.pc = "start"
    BY DEF IdleClient, ClientRecord, RequestHolds, ClientPcs, Steps
  <2>2. cl' = [cl EXCEPT ![Main] = request] /\ Main \in Threads
    BY <1>7 DEF Boot, Threads
  <2> HIDE DEF request
  <2>3. QED
    BY <1>2, <1>4, <1>5, <1>6, <2>1, <2>2, QuietRequest
<1>8. CASE cl' = cl
  <2>1. LocalInvariant'
    <3>1. QueueKnows'
      BY <1>2, <1>5 DEF QueueKnows, Recorded
    <3>2. cl' \in [Threads -> ClientRecord] /\ \A u \in Threads : RequestHolds(cl'[u])
      BY <1>1, <1>8 DEF TypeOK, ClientKnows
    <3>3. /\ jobs' \in [Jobs -> JobRecord] /\ wk' \in WorkerRecord /\ WorkerHolds(wk')
          /\ runs' \subseteq Runs
          /\ result' \in [Runs -> Jobs \cup {NoJob}] /\ provenance' \in [Runs -> Jobs \cup {NoJob}]
      BY <1>1, <1>2 DEF TypeOK, LocalInvariant, WorkerKnows
    <3>4. \A k \in Jobs : Recorded(k) => Recorded(k)'
      BY <1>2 DEF Recorded
    <3>5. QED
      BY <1>1, <1>2, <1>4, <3>1, <3>2, <3>3, <3>4, LocalStep
  <2>2. DiskInvariant'
    BY <1>1, <1>2, <1>6, <1>8, QuietStep DEF Submitting, Writing
  <2>3. QED
    BY <2>1, <2>2 DEF EvidenceInvariant, LocalInvariant, DiskInvariant
<1>9. QED
  BY <1>7, <1>8 DEF StopBegin, StopJoin, StopClear

\* The end of the process leaves the disk as it is, whatever was going on.
LEMMA ProcessEnds ==
  ASSUME EvidenceInvariant, Crash \/ Exit
  PROVE  EvidenceInvariant'
<1>1. LocalInvariant /\ DiskInvariant /\ TypeOK
  BY DEF EvidenceInvariant, LocalInvariant, DiskInvariant
<1>2. /\ UNCHANGED <<jobs, runs, result, provenance>>
      /\ restarts' \in Nat /\ faults' \in Nat
      /\ pending' = <<>> /\ stopRequested' = FALSE /\ thread' = "none"
      /\ wk' = Off /\ cl' = [t \in Threads |-> IdleClient] /\ server' = "down"
  BY <1>1 DEF Crash, Exit, ForgetMemory, disk, budgets, TypeOK
<1>3. Fits(Off)
  BY Resting
<1>4. cl' \in [Threads -> ClientRecord] /\ \A u \in Threads : cl'[u] = IdleClient
  BY <1>2, Idle
<1>5. LocalInvariant'
  <2>1. QueueKnows' /\ pending' \in Seq(Jobs \cup {StopToken})
    BY <1>2 DEF QueueKnows
  <2>2. wk' \in WorkerRecord /\ WorkerHolds(wk')
    BY <1>2, <1>3 DEF Fits
  <2>3. \A u \in Threads : RequestHolds(cl'[u])
    BY <1>4, Idle
  <2>4. \A k \in Jobs : Recorded(k) => Recorded(k)'
    BY <1>2 DEF Recorded
  <2>5. /\ jobs' \in [Jobs -> JobRecord] /\ runs' \subseteq Runs
        /\ result' \in [Runs -> Jobs \cup {NoJob}] /\ provenance' \in [Runs -> Jobs \cup {NoJob}]
    BY <1>1, <1>2 DEF TypeOK
  <2>6. QED
    BY <1>1, <1>2, <1>4, <2>1, <2>2, <2>3, <2>4, <2>5, LocalStep
<1>6. DiskInvariant'
  <2>1. \A t \in Threads : ~Submitting(t)'
    BY <1>4, Idle DEF Submitting
  <2>2. ~Writing'
    BY <1>2, <1>3 DEF Fits, Writing
  <2>3. JobsStep
    BY <1>2 DEF JobsStep
  <2>4. QED
    BY <1>1, <1>2, <2>1, <2>2, <2>3, QuietStep
<1>7. QED
  BY <1>5, <1>6 DEF EvidenceInvariant, LocalInvariant, DiskInvariant

\* The empty workspace: no record, no evidence, nobody at work.
LEMMA Initially == Init => EvidenceInvariant
<1> SUFFICES ASSUME Init PROVE EvidenceInvariant
  OBVIOUS
<1>2. NoJobRecord \in JobRecord /\ NoJobRecord.state = "NONE"
  BY DEF NoJobRecord, JobRecord, NoRecord, Errors
<1>3. \A j \in Jobs : ~Recorded(j)
  BY <1>2 DEF Init, Recorded, NoRecord
<1>4. Off \in WorkerRecord /\ Off.pc = "off" /\ WorkerHolds(Off)
  BY DEF Off, WorkerAt, WorkerRecord, WorkerHolds, WorkerPcs, LoopPcs, ExecutorPcs, Steps, Errors
<1>5. TypeOK
  <2>1. jobs \in [Jobs -> JobRecord]
    BY <1>2 DEF Init
  <2>2. cl \in [Threads -> ClientRecord]
    BY Idle DEF Init
  <2>3. result \in [Runs -> Jobs \cup {NoJob}] /\ provenance \in [Runs -> Jobs \cup {NoJob}]
    BY DEF Init
  <2>4. pending \in Seq(Jobs \cup {StopToken}) /\ runs \subseteq Runs
    BY DEF Init
  <2>5. wk \in WorkerRecord
    BY <1>4 DEF Init
  <2>6. /\ stopRequested \in BOOLEAN /\ thread \in {"none", "set"} /\ restarts \in Nat
        /\ server \in {"down", "booting", "up", "stopping", "joined", "stopped"}
        /\ faults \in Nat
    BY DEF Init
  <2>7. QED
    BY <2>1, <2>2, <2>3, <2>4, <2>5, <2>6 DEF TypeOK
<1>6. WorkerKnows /\ ClientKnows /\ QueueKnows
  BY <1>4, Idle DEF Init, WorkerKnows, ClientKnows, QueueKnows
<1>7. OneSubmitter /\ SubmitterKnows
  BY Idle DEF Init, OneSubmitter, SubmitterKnows, Submitting
<1>8. WriterExcludesOthers /\ WriterKnows
  BY <1>4 DEF Init, WriterExcludesOthers, WriterKnows, Writing
<1>9. KnownRuns
  BY <1>3 DEF Init, KnownRuns
<1>10. EvidenceIsWhole /\ OneActiveJobPerRun /\ NextAttemptStartsClean
  BY <1>3 DEF EvidenceIsWhole, OneActiveJobPerRun, NextAttemptStartsClean, CompleteJobs,
              ActiveJobs, JobsOf
<1>11. QED
  BY <1>5, <1>6, <1>7, <1>8, <1>9, <1>10 DEF EvidenceInvariant

\* A step that changes nothing keeps the invariant.
LEMMA Stutter ==
  ASSUME EvidenceInvariant, UNCHANGED vars
  PROVE  EvidenceInvariant'
<1>1. UNCHANGED <<jobs, runs, result, provenance, pending, stopRequested, thread, wk, cl, server,
                  restarts, faults>>
  BY DEF vars, disk, memory, budgets
<1>2. LocalInvariant' /\ DiskInvariant'
  <2>1. LocalInvariant /\ DiskInvariant /\ TypeOK /\ JobsStep
    BY <1>1 DEF EvidenceInvariant, LocalInvariant, DiskInvariant, JobsStep
  <2>2. DiskInvariant'
    BY <1>1, <2>1, QuietStep DEF Submitting, Writing
  <2>3. LocalInvariant'
    BY <1>1, <2>1 DEF LocalInvariant, TypeOK, WorkerKnows, WorkerHolds, ClientKnows, RequestHolds,
                      QueueKnows, Recorded
  <2>4. QED
    BY <2>2, <2>3
<1>3. QED
  BY <1>2 DEF EvidenceInvariant, LocalInvariant, DiskInvariant

\* Every step keeps the invariant of the evidence.
LEMMA EveryStep == EvidenceInvariant /\ [Next]_vars => EvidenceInvariant'
<1> SUFFICES ASSUME EvidenceInvariant, [Next]_vars
             PROVE  EvidenceInvariant'
  OBVIOUS
<1>1. CASE Worker
  BY <1>1, GetKeeps, LoopReads, LoopUpdates, ExecutorReads, ExecutorUpdates, WriteResultKeeps,
     WriteProvenanceKeeps, CommitKeeps DEF Worker
<1>2. CASE WriteFails
  BY <1>2, WriteFailsKeeps
<1>3. CASE StoreFails
  BY <1>3, StoreFailsKeeps
<1>4. ASSUME NEW c \in Clients, Request(c)
      PROVE  EvidenceInvariant'
  BY <1>4, CancelKeeps, SubmissionBegins, DiscardKeeps, EnqueueKeeps, CreateKeeps,
     EnqueueFailsKeeps DEF Request
<1>5. ASSUME NEW t \in Threads, Start(t)
      PROVE  EvidenceInvariant'
  BY <1>5, StartBeginKeeps, RecoverJobKeeps, StartWorkerKeeps DEF Start
<1>6. CASE Lifespan
  BY <1>6, LifespanKeeps, ProcessEnds DEF Lifespan
<1>7. CASE Crash
  BY <1>7, ProcessEnds
<1>8. CASE Waiting \/ UNCHANGED vars
  BY <1>8, Stutter DEF Waiting
<1>9. QED
  BY <1>1, <1>2, <1>3, <1>4, <1>5, <1>6, <1>7, <1>8 DEF Next

-----------------------------------------------------------------------------
(* The theorems of the evidence *)

\* The inductive invariant holds in every state of every behaviour.
THEOREM EvidenceTheorem == Spec => []EvidenceInvariant
BY Initially, EveryStep, PTL DEF Spec

\* Every variable keeps its type, whatever clients, faults and crashes do.
THEOREM TypeTheorem == Spec => []TypeOK
<1>1. EvidenceInvariant => TypeOK
  BY DEF EvidenceInvariant
<1>2. QED
  BY <1>1, EvidenceTheorem, PTL

\* A COMPLETE job's run always has the whole evidence of that job and of no
\* other: for any number of crashes, faults and clients (storage.py:489-546).
THEOREM WholeEvidenceTheorem == Spec => []EvidenceIsWhole
<1>1. EvidenceInvariant => EvidenceIsWhole
  BY DEF EvidenceInvariant
<1>2. QED
  BY <1>1, EvidenceTheorem, PTL

\* No two jobs of a run are ever active at once (runs.py:264-279).
THEOREM OneActiveJobTheorem == Spec => []OneActiveJobPerRun
<1>1. EvidenceInvariant => OneActiveJobPerRun
  BY DEF EvidenceInvariant
<1>2. QED
  BY <1>1, EvidenceTheorem, PTL

\* An attempt never finds files of an earlier one in its way (runs.py:276-278).
THEOREM CleanStartTheorem == Spec => []NextAttemptStartsClean
<1>1. EvidenceInvariant => NextAttemptStartsClean
  BY DEF EvidenceInvariant
<1>2. QED
  BY <1>1, EvidenceTheorem, PTL

-----------------------------------------------------------------------------
(* Complete runs are final: each step has one of five effects on records and *)
(* files, and none of them changes a run that is COMPLETE.                   *)

FilesAreLeftAlone == result' = result /\ provenance' = provenance

\* Files change, but only those of runs that are not COMPLETE.
FilesStep ==
  /\ jobs' = jobs
  /\ \A r \in Runs : CompleteJobs(r) # {} =>
       result'[r] = result[r] /\ provenance'[r] = provenance[r]

\* A job directory is made.
TornStep ==
  /\ \E j \in Jobs : jobs[j].state = "NONE" /\ jobs' = [jobs EXCEPT ![j].state = "TORN"]
  /\ FilesAreLeftAlone

\* Its record is linked, for a run that is neither active nor COMPLETE.
RecordStep ==
  /\ \E j \in Jobs, r \in Runs :
       /\ jobs[j].state = "TORN" /\ CompleteJobs(r) = {}
       /\ jobs' = [jobs EXCEPT ![j] = QueuedRecord(r)]
  /\ FilesAreLeftAlone

\* The only active job of its run becomes COMPLETE.
CommitStep ==
  /\ \E j \in Jobs, new \in JobRecord :
       /\ jobs[j].state = "WRITING_ARTIFACT" /\ CompleteJobs(jobs[j].run) = {}
       /\ new.run = jobs[j].run /\ new.state = "COMPLETE"
       /\ jobs' = [jobs EXCEPT ![j] = new]
  /\ FilesAreLeftAlone

Effect ==
  \/ JobsStep /\ FilesAreLeftAlone
  \/ FilesStep
  \/ TornStep
  \/ RecordStep
  \/ CommitStep

\* CompleteRunIsFinal, of one step.
CompleteRunsStay ==
  \A r \in Runs : CompleteJobs(r) # {} =>
     /\ result'[r] = result[r] /\ provenance'[r] = provenance[r]
     /\ JobsOf(r)' = JobsOf(r)
     /\ \A j \in JobsOf(r) : jobs'[j] = jobs[j]

-----------------------------------------------------------------------------
(* What the effects do to complete runs *)

\* An updated record was not terminal, so it is none of a settled run.
LEMMA JobsStepIsHarmless ==
  ASSUME TypeOK, SettledRuns, JobsStep, FilesAreLeftAlone
  PROVE  SettledRuns' /\ CompleteRunsStay
<1>1. jobs \in [Jobs -> JobRecord]
  BY DEF TypeOK
<1> DEFINE Keeps(k) ==
             /\ jobs'[k].run = jobs[k].run
             /\ jobs'[k].state \in NoRecord <=> jobs[k].state \in NoRecord
             /\ jobs'[k].state = "COMPLETE" <=> jobs[k].state = "COMPLETE"
             /\ jobs[k].state \in TerminalStates => jobs'[k] = jobs[k]
<1>2. \A k \in Jobs : Keeps(k)
  BY <1>1, JobsStepKeeps
<1>3. \A r \in Runs :
        /\ CompleteJobs(r)' = CompleteJobs(r)
        /\ JobsOf(r)' = JobsOf(r)
        /\ ActiveJobs(r)' \subseteq ActiveJobs(r)
  BY <1>2 DEF CompleteJobs, JobsOf, ActiveJobs, Recorded
<1>4. SettledRuns'
  BY <1>3 DEF SettledRuns
<1>5. ASSUME NEW r \in Runs, CompleteJobs(r) # {}, NEW j \in JobsOf(r)
      PROVE  jobs'[j] = jobs[j]
  <2>1. j \in Jobs /\ jobs[j].state \in TerminalStates
    BY <1>5 DEF SettledRuns, ActiveJobs, JobsOf
  <2>2. QED
    BY <1>2, <2>1
<1>6. QED
  BY <1>3, <1>4, <1>5 DEF CompleteRunsStay, FilesAreLeftAlone

\* A step on files alone.
LEMMA FilesStepIsHarmless ==
  ASSUME SettledRuns, FilesStep
  PROVE  SettledRuns' /\ CompleteRunsStay
<1>1. \A r \in Runs : /\ CompleteJobs(r)' = CompleteJobs(r) /\ JobsOf(r)' = JobsOf(r)
                      /\ ActiveJobs(r)' = ActiveJobs(r)
  BY DEF FilesStep, CompleteJobs, ActiveJobs, JobsOf, Recorded
<1>2. QED
  BY <1>1 DEF FilesStep, SettledRuns, CompleteRunsStay, JobsOf

\* A torn directory is no record of any run.
LEMMA TornStepIsHarmless ==
  ASSUME TypeOK, SettledRuns, TornStep
  PROVE  SettledRuns' /\ CompleteRunsStay
<1>1. PICK j \in Jobs : jobs[j].state = "NONE" /\ jobs' = [jobs EXCEPT ![j].state = "TORN"]
  BY DEF TornStep
<1>2. jobs \in [Jobs -> JobRecord]
  BY DEF TypeOK
<1>3. /\ \A k \in Jobs \ {j} : jobs'[k] = jobs[k]
      /\ ~Recorded(j) /\ jobs'[j].state = "TORN"
  BY <1>1, <1>2 DEF Recorded, NoRecord, JobRecord
<1>4. ~Recorded(j)'
  BY <1>3 DEF Recorded, NoRecord
<1>5. \A r \in Runs : /\ CompleteJobs(r)' = CompleteJobs(r) /\ JobsOf(r)' = JobsOf(r)
                      /\ ActiveJobs(r)' = ActiveJobs(r) /\ j \notin JobsOf(r)
  BY <1>3, <1>4 DEF CompleteJobs, ActiveJobs, JobsOf, Recorded
<1>6. QED
  BY <1>3, <1>5 DEF TornStep, FilesAreLeftAlone, SettledRuns, CompleteRunsStay, JobsOf

\* A new record belongs to a run that is not COMPLETE.
LEMMA RecordStepIsHarmless ==
  ASSUME TypeOK, SettledRuns, RecordStep
  PROVE  SettledRuns' /\ CompleteRunsStay
<1>1. PICK j \in Jobs, r \in Runs :
        /\ jobs[j].state = "TORN" /\ CompleteJobs(r) = {}
        /\ jobs' = [jobs EXCEPT ![j] = QueuedRecord(r)]
  BY DEF RecordStep
<1>2. jobs \in [Jobs -> JobRecord]
  BY DEF TypeOK
<1>3. /\ \A k \in Jobs \ {j} : jobs'[k] = jobs[k]
      /\ ~Recorded(j) /\ jobs'[j].run = r /\ jobs'[j].state = "QUEUED"
  BY <1>1, <1>2 DEF Recorded, NoRecord, QueuedRecord
<1>4. \A q \in Runs \ {r} :
        /\ CompleteJobs(q)' = CompleteJobs(q) /\ JobsOf(q)' = JobsOf(q)
        /\ ActiveJobs(q)' = ActiveJobs(q)
  BY <1>3 DEF CompleteJobs, ActiveJobs, JobsOf, Recorded
<1>5. CompleteJobs(r)' = {}
  BY <1>1, <1>3 DEF CompleteJobs, JobsOf, Recorded
<1>6. \A q \in Runs : j \notin JobsOf(q)
  BY <1>3 DEF JobsOf
<1>7. QED
  BY <1>1, <1>3, <1>4, <1>5, <1>6
     DEF RecordStep, FilesAreLeftAlone, SettledRuns, CompleteRunsStay, JobsOf

\* A commit settles its run: its job was the only active one.
LEMMA CommitStepIsHarmless ==
  ASSUME TypeOK, OneActiveJobPerRun, SettledRuns, CommitStep, KnownRuns
  PROVE  SettledRuns' /\ CompleteRunsStay
<1>1. PICK j \in Jobs, new \in JobRecord :
        /\ jobs[j].state = "WRITING_ARTIFACT" /\ CompleteJobs(jobs[j].run) = {}
        /\ new.run = jobs[j].run /\ new.state = "COMPLETE"
        /\ jobs' = [jobs EXCEPT ![j] = new]
  BY DEF CommitStep
<1> SUFFICES ASSUME NEW r, r = jobs[j].run
             PROVE  SettledRuns' /\ CompleteRunsStay
  OBVIOUS
<1>2. jobs \in [Jobs -> JobRecord]
  BY DEF TypeOK
<1>3. /\ \A k \in Jobs \ {j} : jobs'[k] = jobs[k]
      /\ Recorded(j) /\ jobs'[j].run = r /\ jobs'[j].state = "COMPLETE"
  BY <1>1, <1>2 DEF Recorded, NoRecord
<1>4. r \in Runs /\ j \in ActiveJobs(r)
  BY <1>1, <1>3 DEF KnownRuns, TypeOK, ActiveJobs, JobsOf, TerminalStates
<1>5. \A q \in Runs \ {r} :
        /\ CompleteJobs(q)' = CompleteJobs(q) /\ JobsOf(q)' = JobsOf(q)
        /\ ActiveJobs(q)' = ActiveJobs(q) /\ j \notin JobsOf(q)
  BY <1>3 DEF CompleteJobs, ActiveJobs, JobsOf, Recorded
<1>6. ActiveJobs(r)' = {}
  <2>1. \A k \in Jobs \ {j} : k \notin ActiveJobs(r)
    BY <1>4 DEF OneActiveJobPerRun
  <2>2. QED
    BY <1>3, <2>1 DEF ActiveJobs, JobsOf, Recorded, TerminalStates
<1>7. QED
  BY <1>1, <1>3, <1>5, <1>6
     DEF CommitStep, FilesAreLeftAlone, SettledRuns, CompleteRunsStay, JobsOf

-----------------------------------------------------------------------------
(* Every step has one of the effects *)

\* An update by update_job_record to anything but COMPLETE.
LEMMA UpdateIsJobsStep ==
  ASSUME NEW j \in Jobs, Recorded(j), NEW revision \in Nat, NEW next \in Steps \ {"COMPLETE"},
         NEW cancel \in BOOLEAN, NEW error \in Errors,
         UpdateAllowed(jobs[j], revision, next, cancel, error),
         jobs' = [jobs EXCEPT ![j] = Updated(@, next, cancel, error)]
  PROVE  JobsStep
<1>1. JobUpdated(j)
  BY DEF JobUpdated
<1>2. QED
  BY <1>1 DEF JobsStep

\* The worker's claims, advances and finalisations.
LEMMA WorkerUpdateEffect ==
  ASSUME EvidenceInvariant, wk.job \in Jobs, Recorded(wk.job),
         NEW next \in Steps \ {"COMPLETE"}, NEW error \in Errors, NEW ok, NEW refused,
         WorkerUpdate(next, error, ok, refused)
  PROVE  Effect
<1>1. FilesAreLeftAlone /\ wk.revision \in Nat
  BY DEF WorkerUpdate, FilesAreLeftAlone, EvidenceInvariant, TypeOK, WorkerRecord
<1>2. JobsStep
  <2>1. CASE jobs' = jobs
    BY <2>1 DEF JobsStep
  <2>2. CASE jobs' # jobs
    <3>1. /\ UpdateAllowed(jobs[wk.job], wk.revision, next, FALSE, error)
          /\ jobs' = [jobs EXCEPT ![wk.job] = Updated(@, next, FALSE, error)]
      BY <2>2 DEF WorkerUpdate
    <3>2. QED
      BY <1>1, <3>1, UpdateIsJobsStep
  <2>3. QED
    BY <2>1, <2>2
<1>3. QED
  BY <1>1, <1>2 DEF Effect

\* The steps that update a record: what each may write is known.
LEMMA UpdatesEffect ==
  ASSUME EvidenceInvariant, WorkerClaim \/ WorkerFinishCas \/ AdvanceCas \/ FailCas
  PROVE  Effect
<1>1. wk \in WorkerRecord /\ wk.job \in Jobs /\ Recorded(wk.job)
  BY DEF EvidenceInvariant, TypeOK, WorkerKnows, WorkerHolds, LoopPcs, ExecutorPcs, WorkerClaim,
         WorkerFinishCas, AdvanceCas, FailCas
<1>2. {"VALIDATING", "FAILED", "CANCELLED"} \cup Phases \subseteq Steps \ {"COMPLETE"}
  BY DEF Steps, JobStates, TransientStates, TerminalStates, Phases
<1>3. CASE WorkerClaim
  BY <1>1, <1>2, <1>3, WorkerUpdateEffect DEF WorkerClaim, Errors
<1>4. CASE WorkerFinishCas
  <2>1. wk.target \in Steps \ {"COMPLETE"} /\ wk.error \in Errors
    BY <1>1, <1>2, <1>4
       DEF EvidenceInvariant, WorkerKnows, WorkerHolds, WorkerFinishCas, WorkerRecord
  <2>2. QED
    BY <1>1, <1>4, <2>1, WorkerUpdateEffect DEF WorkerFinishCas
<1>5. CASE AdvanceCas
  <2>1. wk.target \in Steps \ {"COMPLETE"} /\ NoError \in Errors
    BY <1>1, <1>2, <1>5 DEF EvidenceInvariant, WorkerKnows, WorkerHolds, AdvanceCas, Errors
  <2>2. QED
    BY <1>1, <1>5, <2>1, WorkerUpdateEffect DEF AdvanceCas
<1>6. CASE FailCas
  BY <1>1, <1>2, <1>6, WorkerUpdateEffect DEF FailCas, Errors
<1>7. QED
  BY <1>3, <1>4, <1>5, <1>6

\* A cancel sets the flag of one record.
LEMMA CancelEffect ==
  ASSUME EvidenceInvariant, NEW c \in Clients, CancelCas(c)
  PROVE  Effect
<1>1. cl[c] \in ClientRecord /\ RequestHolds(cl[c]) /\ cl[c].pc = "cancel_cas"
  BY DEF EvidenceInvariant, TypeOK, ClientKnows, Threads, CancelCas
<1>2. /\ cl[c].job \in Jobs /\ Recorded(cl[c].job) /\ cl[c].revision \in Nat
      /\ cl[c].target \in Steps \ {"COMPLETE"} /\ NoError \in Errors
  BY <1>1 DEF RequestHolds, ClientRecord, Steps, JobStates, TerminalStates, Same, Errors
<1>3. FilesAreLeftAlone
  BY DEF CancelCas, FilesAreLeftAlone
<1>4. JobsStep
  <2>1. CASE jobs' = jobs
    BY <2>1 DEF JobsStep
  <2>2. CASE jobs' # jobs
    <3>1. /\ UpdateAllowed(jobs[cl[c].job], cl[c].revision, cl[c].target, TRUE, NoError)
          /\ jobs' = [jobs EXCEPT ![cl[c].job] = Updated(@, cl[c].target, TRUE, NoError)]
      BY <2>2 DEF CancelCas
    <3>2. QED
      BY <1>2, <3>1, UpdateIsJobsStep
  <2>3. QED
    BY <2>1, <2>2
<1>5. QED
  BY <1>3, <1>4 DEF Effect

\* Recovery interrupts one record.
LEMMA RecoverEffect ==
  ASSUME EvidenceInvariant, NEW t \in Threads, RecoverJob(t)
  PROVE  Effect
<1>1. PICK seen \in cl[t].todo :
        IF UpdateAllowed(jobs[seen[1]], seen[2], RecoveredState, FALSE, "WORKER_RESTART")
          THEN jobs' = [jobs EXCEPT ![seen[1]] =
                          Updated(@, RecoveredState, FALSE, "WORKER_RESTART")]
          ELSE UNCHANGED jobs
  BY DEF RecoverJob
<1>2. seen[1] \in Jobs /\ seen[2] \in Nat /\ Recorded(seen[1])
  BY DEF EvidenceInvariant, TypeOK, ClientKnows, ClientRecord, RequestHolds
<1>3. RecoveredState \in Steps \ {"COMPLETE"} /\ "WORKER_RESTART" \in Errors
  BY DEF RecoveredState, Steps, JobStates, TerminalStates, Errors
<1>4. JobsStep
  <2>1. CASE jobs' = jobs
    BY <2>1 DEF JobsStep
  <2>2. CASE jobs' # jobs
    BY <1>1, <1>2, <1>3, <2>2, UpdateIsJobsStep
  <2>3. QED
    BY <2>1, <2>2
<1>5. QED
  BY <1>4 DEF Effect, FilesAreLeftAlone, RecoverJob

\* The writer touches the files of its own run, which is not COMPLETE yet.
LEMMA WriterEffect ==
  ASSUME EvidenceInvariant, WriteResult \/ WriteProvenance \/ Commit \/ WriteFails
  PROVE  Effect
<1> SUFFICES ASSUME NEW r, r = jobs[wk.job].run
             PROVE  Effect
  OBVIOUS
<1>1. /\ result \in [Runs -> Jobs \cup {NoJob}] /\ provenance \in [Runs -> Jobs \cup {NoJob}]
      /\ jobs \in [Jobs -> JobRecord]
  BY DEF EvidenceInvariant, TypeOK
<1>2. ASSUME jobs' = jobs, CompleteJobs(r) = {},
             result' = result \/ \E x : result' = [result EXCEPT ![r] = x],
             provenance' = provenance \/ \E x : provenance' = [provenance EXCEPT ![r] = x]
      PROVE  Effect
  BY <1>1, <1>2 DEF Effect, FilesStep
<1>3. CASE WriteResult
  <2>1. CASE Eligible(wk.job)
    BY <1>2, <1>3, <2>1 DEF WriteResult, Eligible
  <2>2. CASE ~Eligible(wk.job)
    BY <1>3, <2>2 DEF WriteResult, Effect, FilesAreLeftAlone, JobsStep
  <2>3. QED
    BY <2>1, <2>2
<1>4. CASE WriteProvenance
  <2>1. CompleteJobs(r) = {}
    BY <1>4, Writers DEF WriteProvenance, Writing
  <2>2. QED
    BY <1>2, <1>4, <2>1 DEF WriteProvenance
<1>5. CASE WriteFails
  <2>1. CompleteJobs(r) = {}
    BY <1>5, Writers DEF WriteFails, Writing
  <2>2. QED
    BY <1>2, <1>5, <2>1 DEF WriteFails, NoEvidence
<1>6. CASE Commit
  <2>1. /\ CompleteJobs(r) = {} /\ wk.job \in Jobs /\ Recorded(wk.job)
        /\ jobs[wk.job].state = "WRITING_ARTIFACT"
    BY <1>6, Writers DEF Commit, Writing
  <2>2. CASE jobs' = jobs
    <3>1. result' = result \/ result' = NoEvidence(result, r)
      BY <1>6 DEF Commit
    <3>2. provenance' = provenance \/ provenance' = NoEvidence(provenance, r)
      BY <1>6 DEF Commit
    <3>3. QED
      BY <1>2, <2>1, <2>2, <3>1, <3>2 DEF NoEvidence
  <2>3. CASE jobs' # jobs
    <3> DEFINE new == Updated(jobs[wk.job], "COMPLETE", FALSE, NoError)
    <3>1. /\ UpdateAllowed(jobs[wk.job], wk.revision, "COMPLETE", FALSE, NoError)
          /\ jobs' = [jobs EXCEPT ![wk.job] = new] /\ FilesAreLeftAlone
      BY <1>6, <2>3 DEF Commit, FilesAreLeftAlone
    <3>2. "COMPLETE" \in Steps /\ NoError \in Errors
      BY DEF Steps, JobStates, TerminalStates, Errors
    <3>3. jobs[wk.job] \in JobRecord /\ jobs[wk.job].state \in JobStates
      BY <1>1, <2>1 DEF JobStates, TransientStates
    <3>4. new \in JobRecord /\ new.run = r
      <4>1. ASSUME NEW flag \in BOOLEAN,
                   UpdateAllowed(jobs[wk.job], wk.revision, "COMPLETE", flag, NoError)
            PROVE  LET changed == Updated(jobs[wk.job], "COMPLETE", flag, NoError) IN
                   changed \in JobRecord /\ changed.run = jobs[wk.job].run
        BY <3>2, <3>3, <4>1, UpdateKeeps
      <4>2. QED
        BY <3>1, <4>1
    <3>5. new.state = "COMPLETE"
      BY Zenon DEF Updated, Target, Same
    <3> HIDE DEF new
    <3>6. CommitStep
      BY <2>1, <3>1, <3>4, <3>5 DEF CommitStep
    <3>7. QED
      BY <3>6 DEF Effect
  <2>4. QED
    BY <2>2, <2>3
<1>7. QED
  BY <1>3, <1>4, <1>5, <1>6

\* A submission discards, and creates, for a run that is not COMPLETE.
LEMMA SubmissionEffect ==
  ASSUME EvidenceInvariant, NEW c \in Clients,
         DiscardResult(c) \/ DiscardProvenance(c) \/ Enqueue(c) \/ Create(c)
  PROVE  Effect
<1> SUFFICES ASSUME NEW r, r = cl[c].run
             PROVE  Effect
  OBVIOUS
<1>1. /\ result \in [Runs -> Jobs \cup {NoJob}] /\ provenance \in [Runs -> Jobs \cup {NoJob}]
      /\ jobs \in [Jobs -> JobRecord]
  BY DEF EvidenceInvariant, TypeOK
<1>2. CompleteJobs(r) = {} /\ r \in Runs /\ SubmitterHolds(c)
  BY DEF EvidenceInvariant, SubmitterKnows, SubmitterHolds, Submitting, Threads, DiscardResult,
         DiscardProvenance, Enqueue, Create, TypeOK
<1>3. CASE DiscardResult(c) \/ DiscardProvenance(c)
  BY <1>1, <1>2, <1>3
     DEF DiscardResult, DiscardProvenance, NoEvidence, Effect, FilesStep
<1>4. CASE Enqueue(c)
  BY <1>4 DEF Enqueue, NewJob, Effect, TornStep, JobsStep, FilesAreLeftAlone
<1>5. CASE Create(c)
  BY <1>2, <1>5 DEF Create, SubmitterHolds, Effect, RecordStep, FilesAreLeftAlone
<1>6. QED
  BY <1>3, <1>4, <1>5

\* All other steps change neither records nor files.
LEMMA QuietEffect ==
  ASSUME UNCHANGED <<jobs, result, provenance>>
  PROVE  Effect
BY DEF Effect, JobsStep, FilesAreLeftAlone

\* The worker, the requests, the lifespan and the end of the process.
LEMMA StepEffect ==
  ASSUME EvidenceInvariant, [Next]_vars
  PROVE  Effect
<1>1. CASE Worker
  <2>1. CASE WorkerGet \/ WorkerRead \/ WorkerReread \/ WorkerFinish \/ ExecuteBegin \/ ReadInputs
             \/ Compute \/ AdvanceRead \/ TransitionRead \/ CheckCancel
    <3>1. UNCHANGED disk
      BY <2>1 DEF WorkerGet, WorkerRead, WorkerReread, WorkerFinish, ExecuteBegin, ReadInputs,
                  Compute, AdvanceRead, TransitionRead, CheckCancel, WorkerStep
    <3>2. QED
      BY <3>1, QuietEffect DEF disk
  <2>2. QED
    BY <1>1, <2>1, UpdatesEffect, WriterEffect DEF Worker
<1>2. CASE WriteFails
  BY <1>2, WriterEffect
<1>3. CASE StoreFails
  BY <1>3, QuietEffect DEF StoreFails, disk
<1>4. ASSUME NEW c \in Clients, Request(c)
      PROVE  Effect
  <2>1. CASE CancelBegin(c) \/ CancelRead(c) \/ RetryCheck(c) \/ CreateRun(c) \/ EnqueueFails(c)
    <3>1. UNCHANGED <<jobs, result, provenance>>
      BY <2>1 DEF CancelBegin, CancelRead, RetryCheck, CreateRun, EnqueueFails, ClientStep, disk
    <3>2. QED
      BY <3>1, QuietEffect
  <2>2. QED
    BY <1>4, <2>1, CancelEffect, SubmissionEffect DEF Request
<1>5. ASSUME NEW t \in Threads, Start(t)
      PROVE  Effect
  <2>1. CASE StartBegin(t) \/ StartWorker(t)
    BY <2>1, QuietEffect DEF StartBegin, StartWorker, disk
  <2>2. QED
    BY <1>5, <2>1, RecoverEffect DEF Start
<1>6. CASE Lifespan \/ Crash \/ Waiting \/ UNCHANGED vars
  BY <1>6, QuietEffect
     DEF Lifespan, Boot, StopBegin, StopJoin, StopClear, Exit, Crash, Waiting, vars, disk
<1>7. QED
  BY <1>1, <1>2, <1>3, <1>4, <1>5, <1>6 DEF Next

\* A step keeps the settled runs settled and the complete ones as they are.
LEMMA StepIsHarmless ==
  ASSUME EvidenceInvariant, SettledRuns, [Next]_vars
  PROVE  SettledRuns' /\ CompleteRunsStay
<1>1. TypeOK /\ OneActiveJobPerRun /\ KnownRuns
  BY DEF EvidenceInvariant
<1>2. Effect
  BY StepEffect
<1>3. QED
  BY <1>1, <1>2, JobsStepIsHarmless, FilesStepIsHarmless, TornStepIsHarmless,
     RecordStepIsHarmless, CommitStepIsHarmless DEF Effect

-----------------------------------------------------------------------------
(* The theorems of finality *)

\* A COMPLETE run never has an active job again: retries are refused as long
\* as it is COMPLETE, and that is for ever (runs.py:269-275).
THEOREM SettledTheorem == Spec => []SettledRuns
<1>1. Init => SettledRuns
  BY DEF Init, SettledRuns, CompleteJobs, JobsOf, Recorded, NoJobRecord, NoRecord
<1>2. EvidenceInvariant /\ SettledRuns /\ [Next]_vars => SettledRuns'
  BY StepIsHarmless
<1>3. QED
  BY <1>1, <1>2, EvidenceTheorem, PTL DEF Spec

\* No step changes the records or the evidence of a COMPLETE run: not a retry,
\* a cancel, a recovery, a rollback or a discard (storage.py:593-608, :850-899).
THEOREM FinalityTheorem == Spec => CompleteRunIsFinal
<1>1. EvidenceInvariant /\ SettledRuns /\ [Next]_vars =>
        [\A r \in Runs : CompleteJobs(r) # {} =>
           /\ result'[r] = result[r] /\ provenance'[r] = provenance[r]
           /\ JobsOf(r)' = JobsOf(r)
           /\ \A j \in JobsOf(r) : jobs'[j] = jobs[j]]_vars
  BY StepIsHarmless DEF CompleteRunsStay
<1>2. QED
  BY <1>1, EvidenceTheorem, SettledTheorem, PTL DEF Spec, CompleteRunIsFinal

=============================================================================
