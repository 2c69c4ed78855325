------------------------ MODULE RunServiceLifecycle ------------------------
(***************************************************************************)
(* The queue has one worker, forgets nothing that waits, and never takes   *)
(* up lost work again; seen from the records and the readable evidence,    *)
(* RunService implements JobLifecycle; its compare-and-swap loops end.     *)
(* For any number of clients, jobs, runs, tries, restarts and faults.      *)
(***************************************************************************)
EXTENDS RunServiceProofs

-----------------------------------------------------------------------------
(* What may become of a record *)

\* It leaves the queue; it goes to its next phase; it ends without evidence; its
\* cancellation is asked for.
Claims(job, new) ==
  /\ job.state = "QUEUED" /\ new.state = "VALIDATING"
  /\ ~job.cancel_requested /\ ~new.cancel_requested

Advances(job, new) ==
  /\ job.state \in TransientStates \ {"WRITING_ARTIFACT"} /\ new.state = NextPhase[job.state]
  /\ ~job.cancel_requested /\ ~new.cancel_requested

Ends(job, new) ==
  /\ job.state \in TransientStates /\ new.state \in {"FAILED", "INTERRUPTED", "CANCELLED"}
  /\ new.state = "CANCELLED" => job.cancel_requested
  /\ new.cancel_requested <=> job.cancel_requested

AsksToStop(job, new) ==
  /\ job.state \in {"QUEUED"} \cup TransientStates
  /\ new.state = IF job.state = "QUEUED" THEN "CANCELLED" ELSE job.state
  /\ ~job.cancel_requested /\ new.cancel_requested

\* The record of a job is replaced by its next revision.
Replaced(j, new) ==
  /\ jobs' = [jobs EXCEPT ![j] = new]
  /\ new.run = jobs[j].run /\ new.revision = jobs[j].revision + 1

\* An update to another state, without a cancel.
Becomes(job, new, next) ==
  /\ job.state \notin TerminalStates /\ next \in AllowedTransitions(job.state)
  /\ new.state = next
  /\ new.run = job.run /\ new.revision = job.revision + 1
  /\ new.cancel_requested <=> job.cancel_requested
  /\ job.cancel_requested => next \in {job.state, "CANCELLED", "FAILED", "INTERRUPTED"}

\* update_job_record, taken apart (storage.py:850-899).
LEMMA UpdateTells ==
  ASSUME NEW job \in JobRecord, job.state \in JobStates,
         NEW revision, NEW next \in Steps, NEW cancel \in BOOLEAN, NEW error \in Errors,
         UpdateAllowed(job, revision, next, cancel, error)
  PROVE  LET new == Updated(job, next, cancel, error) IN
         /\ new \in JobRecord
         /\ new.run = job.run /\ new.revision = job.revision + 1 /\ job.revision = revision
         /\ new.state = Target(job, next) /\ job.state \notin TerminalStates
         /\ next # Same => next \in AllowedTransitions(job.state)
         /\ new.cancel_requested <=> job.cancel_requested \/ cancel
         /\ job.cancel_requested =>
              Target(job, next) \in {job.state, "CANCELLED", "FAILED", "INTERRUPTED"}
         /\ Target(job, next) # job.state \/ (cancel /\ ~job.cancel_requested)
<1> DEFINE new == Updated(job, next, cancel, error)
<1>1. /\ new \in JobRecord /\ new.run = job.run /\ new.revision = job.revision + 1
      /\ job.revision = revision /\ job.state \notin TerminalStates
  BY UpdateKeeps
<1>2. new.state = Target(job, next) /\ (new.cancel_requested <=> job.cancel_requested \/ cancel)
  BY Zenon DEF Updated
<1>3. /\ next # Same => Target(job, next) \in AllowedTransitions(job.state)
      /\ job.cancel_requested =>
           Target(job, next) \in {job.state, "CANCELLED", "FAILED", "INTERRUPTED"}
      /\ Target(job, next) # job.state \/ (cancel /\ ~job.cancel_requested)
  BY Zenon DEF UpdateAllowed
<1>4. next # Same => Target(job, next) = next
  BY DEF Target
<1>5. QED
  <2> HIDE DEF new
  <2>1. /\ new \in JobRecord
        /\ new.run = job.run /\ new.revision = job.revision + 1 /\ job.revision = revision
        /\ new.state = Target(job, next) /\ job.state \notin TerminalStates
        /\ next # Same => next \in AllowedTransitions(job.state)
        /\ new.cancel_requested <=> job.cancel_requested \/ cancel
        /\ job.cancel_requested =>
             Target(job, next) \in {job.state, "CANCELLED", "FAILED", "INTERRUPTED"}
        /\ Target(job, next) # job.state \/ (cancel /\ ~job.cancel_requested)
    BY <1>1, <1>2, <1>3, <1>4
  <2>2. QED
    BY <2>1 DEF new

\* The transitions the code asks for without a cancel.
LEMMA BecomesTells ==
  ASSUME NEW job \in JobRecord, job.state \in JobStates, NEW new \in JobRecord, NEW next,
         Becomes(job, new, next)
  PROVE  /\ next = "VALIDATING" => Claims(job, new)
         /\ next \in {"EVALUATING", "ANALYZING", "WRITING_ARTIFACT"} => Advances(job, new)
         /\ next = "INTERRUPTED" => Ends(job, new)
         /\ next = "FAILED" /\ job.state # "QUEUED" => Ends(job, new)
         /\ next = "CANCELLED" /\ job.state # "QUEUED" /\ job.cancel_requested => Ends(job, new)
         /\ next = "COMPLETE" => job.state = "WRITING_ARTIFACT" /\ ~job.cancel_requested
<1>1. job.state \in {"QUEUED", "VALIDATING", "EVALUATING", "ANALYZING", "WRITING_ARTIFACT"}
  BY DEF Becomes, JobStates, TerminalStates, TransientStates
<1>2. /\ job.cancel_requested \in BOOLEAN /\ new.cancel_requested \in BOOLEAN
      /\ new.state = next /\ next \in AllowedTransitions(job.state)
      /\ new.cancel_requested <=> job.cancel_requested
      /\ job.cancel_requested => next \in {job.state, "CANCELLED", "FAILED", "INTERRUPTED"}
  BY DEF Becomes, JobRecord
<1>3. next \in {NextPhase[job.state], "FAILED", "CANCELLED"}
               \cup (IF job.state = "QUEUED" THEN {} ELSE {"INTERRUPTED"})
  BY <1>1, <1>2 DEF AllowedTransitions, TerminalStates
<1>4. /\ NextPhase["QUEUED"] = "VALIDATING" /\ NextPhase["VALIDATING"] = "EVALUATING"
      /\ NextPhase["EVALUATING"] = "ANALYZING" /\ NextPhase["ANALYZING"] = "WRITING_ARTIFACT"
      /\ NextPhase["WRITING_ARTIFACT"] = "COMPLETE"
  BY DEF NextPhase, TransientStates
<1>5. QED
  BY <1>1, <1>2, <1>3, <1>4 DEF Claims, Advances, Ends, TransientStates

-----------------------------------------------------------------------------
(* The steps that update a record *)

\* All that the proofs below need of what is known already.
LEMMA Known ==
  ASSUME EvidenceInvariant
  PROVE  /\ jobs \in [Jobs -> JobRecord]
         /\ cl \in [Threads -> ClientRecord] /\ wk \in WorkerRecord
         /\ pending \in Seq(Jobs \cup {StopToken})
         /\ \A j \in Jobs : Recorded(j) => jobs[j].state \in JobStates
         /\ wk.pc \in LoopPcs \cup ExecutorPcs => wk.job \in Jobs /\ Recorded(wk.job)
BY DEF EvidenceInvariant, TypeOK, Recorded, JobRecord, WorkerKnows, WorkerHolds

\* A record with its next revision has left the queue.
LEMMA RecordsStillTell ==
  ASSUME EvidenceInvariant, RecordsTell, NEW j \in Jobs, Recorded(j), NEW new \in JobRecord,
         Replaced(j, new), new.state \in JobStates \ {"QUEUED"}
  PROVE  RecordsTell'
<1>1. \A k \in Jobs : jobs'[k] = IF k = j THEN new ELSE jobs[k]
  BY Known DEF Replaced
<1>2. new.revision # 0
  BY Known DEF Replaced, JobRecord
<1>3. new.state \notin NoRecord /\ new.state # "QUEUED"
  BY DEF JobStates, NoRecord, TransientStates, TerminalStates
<1>4. ASSUME NEW k \in Jobs
      PROVE  /\ Recorded(k)' => (jobs'[k].state = "QUEUED" <=> jobs'[k].revision = 0)
             /\ jobs'[k].state \in {"QUEUED"} \cup NoRecord => ~jobs'[k].cancel_requested
             /\ ~Recorded(k)' => jobs'[k].run = NoRun
  <2>1. CASE k = j
    BY <1>1, <1>2, <1>3, <2>1 DEF Recorded
  <2>2. CASE k # j
    BY <1>1, <2>2 DEF RecordsTell, Recorded
  <2>3. QED
    BY <2>1, <2>2
<1>5. QED
  BY <1>4 DEF RecordsTell

\* The worker's updates: refused, or the record becomes what was asked for.
LEMMA WorkerUpdateTells ==
  ASSUME EvidenceInvariant, wk.job \in Jobs, Recorded(wk.job),
         NEW next \in JobStates, NEW error \in Errors, NEW ok, NEW refused,
         WorkerUpdate(next, error, ok, refused)
  PROVE  \/ /\ jobs' = jobs /\ wk' = refused
            /\ ~UpdateAllowed(jobs[wk.job], wk.revision, next, FALSE, error)
         \/ /\ wk' = ok
            /\ \E new \in JobRecord : Replaced(wk.job, new) /\ Becomes(jobs[wk.job], new, next)
<1>1. /\ jobs[wk.job] \in JobRecord /\ jobs[wk.job].state \in JobStates
      /\ next \in Steps /\ next # Same
  BY Known DEF Steps, Same, JobStates, TransientStates, TerminalStates
<1>2. CASE UpdateAllowed(jobs[wk.job], wk.revision, next, FALSE, error)
  <2> DEFINE new == Updated(jobs[wk.job], next, FALSE, error)
  <2>1. ASSUME NEW flag \in BOOLEAN, UpdateAllowed(jobs[wk.job], wk.revision, next, flag, error)
        PROVE  LET it == Updated(jobs[wk.job], next, flag, error) IN
               /\ it \in JobRecord
               /\ it.run = jobs[wk.job].run /\ it.revision = jobs[wk.job].revision + 1
               /\ it.state = Target(jobs[wk.job], next)
               /\ jobs[wk.job].state \notin TerminalStates
               /\ next # Same => next \in AllowedTransitions(jobs[wk.job].state)
               /\ it.cancel_requested <=> jobs[wk.job].cancel_requested \/ flag
               /\ jobs[wk.job].cancel_requested =>
                    Target(jobs[wk.job], next)
                      \in {jobs[wk.job].state, "CANCELLED", "FAILED", "INTERRUPTED"}
    BY <1>1, <2>1, UpdateTells
  <2>2. /\ new \in JobRecord
        /\ new.run = jobs[wk.job].run /\ new.revision = jobs[wk.job].revision + 1
        /\ new.state = Target(jobs[wk.job], next)
        /\ jobs[wk.job].state \notin TerminalStates
        /\ next # Same => next \in AllowedTransitions(jobs[wk.job].state)
        /\ new.cancel_requested <=> jobs[wk.job].cancel_requested
        /\ jobs[wk.job].cancel_requested =>
             Target(jobs[wk.job], next)
               \in {jobs[wk.job].state, "CANCELLED", "FAILED", "INTERRUPTED"}
    BY <1>2, <2>1
  <2>3. wk' = ok /\ jobs' = [jobs EXCEPT ![wk.job] = new]
    BY <1>2 DEF WorkerUpdate
  <2> HIDE DEF new
  <2>4. Target(jobs[wk.job], next) = next
    BY <1>1 DEF Target
  <2>5. Replaced(wk.job, new) /\ Becomes(jobs[wk.job], new, next)
    BY <1>1, <2>2, <2>3, <2>4 DEF Replaced, Becomes
  <2>6. QED
    BY <2>2, <2>3, <2>5
<1>3. CASE ~UpdateAllowed(jobs[wk.job], wk.revision, next, FALSE, error)
  BY <1>3 DEF WorkerUpdate
<1>4. QED
  BY <1>2, <1>3

\* A claim is refused only when the job has left the queue: there is no other
\* worker to have touched it (queue.py:159-168).
LEMMA ClaimTells ==
  ASSUME EvidenceInvariant, QueueInvariant, WorkerClaim
  PROVE  \/ jobs' = jobs /\ wk' = Looping /\ jobs[wk.job].state # "QUEUED"
         \/ /\ wk' = [wk EXCEPT !.pc = "reread"]
            /\ \E new \in JobRecord : Replaced(wk.job, new) /\ Claims(jobs[wk.job], new)
<1>1. /\ wk.pc = "claim" /\ wk.job \in Jobs /\ Recorded(wk.job)
      /\ jobs[wk.job] \in JobRecord /\ jobs[wk.job].state \in JobStates
      /\ "VALIDATING" \in JobStates /\ NoError \in Errors
  BY Known DEF WorkerClaim, LoopPcs, JobStates, TransientStates, Errors
<1>2. \/ /\ jobs' = jobs /\ wk' = Looping
         /\ ~UpdateAllowed(jobs[wk.job], wk.revision, "VALIDATING", FALSE, NoError)
      \/ /\ wk' = [wk EXCEPT !.pc = "reread"]
         /\ \E new \in JobRecord :
              Replaced(wk.job, new) /\ Becomes(jobs[wk.job], new, "VALIDATING")
  BY <1>1, WorkerUpdateTells DEF WorkerClaim
<1>3. ASSUME jobs[wk.job].state = "QUEUED"
      PROVE  UpdateAllowed(jobs[wk.job], wk.revision, "VALIDATING", FALSE, NoError)
  <2>1. jobs[wk.job].revision = wk.revision /\ ~jobs[wk.job].cancel_requested
    BY <1>1, <1>3 DEF QueueInvariant, RecordsTell, WorkerTells
  <2>2. "VALIDATING" \in AllowedTransitions("QUEUED")
    BY DEF AllowedTransitions, NextPhase, TerminalStates, TransientStates
  <2>3. QED
    BY <1>3, <2>1, <2>2 DEF UpdateAllowed, Target, Same, TerminalStates
<1>4. QED
  BY <1>1, <1>2, <1>3, BecomesTells

\* The other updates of the worker move a job on, or end it.
LEMMA WorkerMoves ==
  ASSUME EvidenceInvariant, QueueInvariant, AdvanceCas \/ FailCas \/ WorkerFinishCas, jobs' # jobs
  PROVE  \E new \in JobRecord :
           /\ Replaced(wk.job, new)
           /\ (AdvanceCas /\ Advances(jobs[wk.job], new)) \/ Ends(jobs[wk.job], new)
<1>1. /\ wk.job \in Jobs /\ Recorded(wk.job) /\ wk.pc \in WorkingPcs
      /\ jobs[wk.job] \in JobRecord /\ jobs[wk.job].state \in JobStates /\ wk.error \in Errors
      /\ NoError \in Errors /\ "INPUT" \in Errors
  BY Known DEF AdvanceCas, FailCas, WorkerFinishCas, LoopPcs, ExecutorPcs, WorkingPcs, WorkerRecord,
               Errors
<1>2. jobs[wk.job].state # "QUEUED"
  BY <1>1 DEF QueueInvariant, WorkerTells
<1>3. CASE AdvanceCas
  <2>1. wk.target \in Phases /\ wk.target \in JobStates
    BY <1>3 DEF EvidenceInvariant, WorkerKnows, WorkerHolds, AdvanceCas, Phases, JobStates,
                TransientStates, TerminalStates
  <2>2. wk.target = "CANCELLED" => jobs[wk.job].cancel_requested
    BY <1>3 DEF QueueInvariant, WorkerTells, AdvanceCas
  <2>3. \E new \in JobRecord : Replaced(wk.job, new) /\ Becomes(jobs[wk.job], new, wk.target)
    BY <1>1, <1>3, <2>1, WorkerUpdateTells DEF AdvanceCas
  <2>4. QED
    BY <1>1, <1>2, <1>3, <2>1, <2>2, <2>3, BecomesTells DEF Phases
<1>4. CASE FailCas
  <2>1. "FAILED" \in JobStates
    BY DEF JobStates, TerminalStates
  <2>2. \E new \in JobRecord : Replaced(wk.job, new) /\ Becomes(jobs[wk.job], new, "FAILED")
    BY <1>1, <1>4, <2>1, WorkerUpdateTells DEF FailCas
  <2>3. QED
    BY <1>1, <1>2, <2>2, BecomesTells
<1>5. CASE WorkerFinishCas
  <2>1. wk.target \in {"CANCELLED", "FAILED"} /\ wk.target \in JobStates
    BY <1>5 DEF EvidenceInvariant, WorkerKnows, WorkerHolds, WorkerFinishCas, JobStates,
                TerminalStates
  <2>2. wk.target = "CANCELLED" => jobs[wk.job].cancel_requested
    BY <1>5 DEF QueueInvariant, WorkerTells, WorkerFinishCas
  <2>3. \E new \in JobRecord : Replaced(wk.job, new) /\ Becomes(jobs[wk.job], new, wk.target)
    BY <1>1, <1>5, <2>1, WorkerUpdateTells DEF WorkerFinishCas
  <2>4. QED
    BY <1>1, <1>2, <2>1, <2>2, <2>3, BecomesTells
<1>6. QED
  BY <1>3, <1>4, <1>5

-----------------------------------------------------------------------------
(* The steps of the worker keep the queue's invariant *)

\* A living worker is on nobody's list and needs no recovery: what it does can only
\* disturb what is said of itself and of the records.
LEMMA WorkerFrame ==
  ASSUME QueueInvariant, wk.pc # "off", UNCHANGED <<cl, server, thread>>,
         RecordsTell', WorkerTells', OneJobAtWork', QueuedJobIsScheduled',
         wk'.pc # "off" => \A j \in InState(TransientStates)' :
                             wk'.job = j /\ wk'.pc \in WorkingPcs
  PROVE  QueueInvariant'
<1>1. \A t \in Threads : cl[t].pc # "recover"
  BY DEF QueueInvariant, QueueIsCoherent, RecoveryExcludesWorker
<1>2. thread # "none" /\ server # "joined"
  BY DEF QueueInvariant, ServerTells
<1>3. (\A t \in Threads : RequestTells(cl[t]))'
  BY DEF QueueInvariant, RequestTells
<1>4. WorkIsInHand' /\ QueueIsRefilled' /\ OneInQueue' /\ ServerTells' /\ RecoveryExcludesWorker'
  BY <1>1, <1>2
     DEF QueueInvariant, WorkIsInHand, QueueIsRefilled, OneInQueue, ServerTells,
         RecoveryExcludesWorker
<1>5. QED
  BY <1>3, <1>4 DEF QueueInvariant, QueueIsCoherent

\* A step of the worker updates the record in its hands, if any.
WorkerTouches ==
  \/ jobs' = jobs
  \/ \E new \in JobRecord : Replaced(wk.job, new) /\ new.state \in JobStates \ {"QUEUED"}

\* What it leaves of the records.
LEMMA TouchedRecords ==
  ASSUME EvidenceInvariant, QueueInvariant, wk.pc \in LoopPcs \cup ExecutorPcs, WorkerTouches
  PROVE  /\ RecordsTell'
         /\ \A j \in Jobs \ {wk.job} : jobs'[j] = jobs[j]
         /\ jobs'[wk.job] = jobs[wk.job] \/ jobs'[wk.job].state # "QUEUED"
         /\ wk.pc \in WorkingPcs => jobs'[wk.job].state # "QUEUED"
         /\ \A j \in Jobs \ {wk.job} : jobs'[j].state \notin TransientStates
<1>1. wk.job \in Jobs /\ Recorded(wk.job) /\ wk.pc # "off" /\ jobs \in [Jobs -> JobRecord]
  BY Known DEF LoopPcs, ExecutorPcs
<1>2. /\ RecordsTell
      /\ wk.pc \in WorkingPcs => jobs[wk.job].state # "QUEUED"
      /\ \A j \in Jobs \ {wk.job} : jobs[j].state \notin TransientStates
  BY <1>1 DEF QueueInvariant, WorkerTells, WorkIsInHand, InState
<1>3. CASE jobs' = jobs
  BY <1>2, <1>3 DEF RecordsTell, Recorded
<1>4. ASSUME NEW new \in JobRecord, Replaced(wk.job, new), new.state \in JobStates \ {"QUEUED"}
      PROVE  /\ RecordsTell'
             /\ \A j \in Jobs \ {wk.job} : jobs'[j] = jobs[j]
             /\ jobs'[wk.job].state # "QUEUED"
  BY <1>1, <1>2, <1>4, RecordsStillTell DEF Replaced
<1>5. QED
  BY <1>2, <1>3, <1>4 DEF WorkerTouches

\* The worker works on.
LEMMA WorkerWorks ==
  ASSUME EvidenceInvariant, QueueInvariant, wk.pc \in WorkingPcs, wk'.pc \in WorkingPcs,
         wk'.job = wk.job, UNCHANGED <<memory, cl, server>>, WorkerTouches, WorkerTells'
  PROVE  QueueInvariant'
<1>1. /\ wk.pc \in LoopPcs \cup ExecutorPcs /\ wk.pc # "off" /\ wk.pc \notin {"read", "claim"}
      /\ UNCHANGED <<pending, stopRequested, thread>>
  BY DEF WorkingPcs, LoopPcs, ExecutorPcs, memory
<1>2. /\ RecordsTell'
      /\ \A j \in Jobs \ {wk.job} : jobs'[j] = jobs[j]
      /\ jobs'[wk.job].state # "QUEUED"
      /\ \A j \in Jobs \ {wk.job} : jobs'[j].state \notin TransientStates
  BY <1>1, TouchedRecords
<1>3. OneJobAtWork' /\ \A j \in InState(TransientStates)' : wk'.job = j
  BY <1>2 DEF OneJobAtWork, InState
<1>4. ASSUME WorkerAlive', ~stopRequested', NEW j \in InState({"QUEUED"})'
      PROVE  \E i \in DOMAIN pending' : pending'[i] = j
  <2>1. WorkerAlive /\ ~stopRequested /\ j \in InState({"QUEUED"})
    BY <1>1, <1>2, <1>4 DEF WorkerAlive, InState
  <2>2. QED
    BY <1>1, <2>1 DEF QueueInvariant, QueueIsCoherent, QueuedJobIsScheduled
<1>5. QueuedJobIsScheduled'
  BY <1>4 DEF QueuedJobIsScheduled
<1>6. QED
  BY <1>1, <1>2, <1>3, <1>5, WorkerFrame

\* The worker is done with its job, or gives up.
LEMMA WorkerRests ==
  ASSUME EvidenceInvariant, QueueInvariant, wk.pc \in LoopPcs \cup ExecutorPcs,
         wk' \in {Off, Looping}, UNCHANGED <<memory, cl, server>>, WorkerTouches,
         wk' = Looping => jobs'[wk.job].state \notin {"QUEUED"} \cup TransientStates
  PROVE  QueueInvariant'
<1>1. wk.pc # "off" /\ UNCHANGED <<pending, stopRequested, thread>>
  BY DEF LoopPcs, ExecutorPcs, memory
<1>2. /\ RecordsTell'
      /\ \A j \in Jobs \ {wk.job} : jobs'[j] = jobs[j]
      /\ \A j \in Jobs \ {wk.job} : jobs'[j].state \notin TransientStates
  BY <1>1, TouchedRecords
<1>3. OneJobAtWork' /\ (wk' = Looping => InState(TransientStates)' = {})
  BY <1>2 DEF OneJobAtWork, InState
<1>4. wk'.pc \in {"off", "get"} /\ (wk'.pc = "get" <=> wk' = Looping)
  BY DEF Off, Looping, WorkerAt
<1>5. WorkerTells'
  BY <1>4 DEF WorkerTells, WorkingPcs, ExecutorPcs
<1>6. ASSUME WorkerAlive', ~stopRequested', NEW j \in InState({"QUEUED"})'
      PROVE  \E i \in DOMAIN pending' : pending'[i] = j
  <2>1. wk' = Looping
    BY <1>4, <1>6 DEF WorkerAlive
  <2>2. j # wk.job /\ WorkerAlive /\ ~stopRequested /\ j \in InState({"QUEUED"})
    BY <1>1, <1>2, <1>6, <2>1 DEF WorkerAlive, InState
  <2>3. QED
    BY <1>1, <2>2 DEF QueueInvariant, QueueIsCoherent, QueuedJobIsScheduled
<1>7. QueuedJobIsScheduled'
  BY <1>6 DEF QueuedJobIsScheduled
<1>8. QED
  BY <1>1, <1>2, <1>3, <1>4, <1>5, <1>7, WorkerFrame

\* The worker takes the head of the queue, and hears of a stop.
LEMMA GetKeepsQueue ==
  ASSUME EvidenceInvariant, QueueInvariant, WorkerGet
  PROVE  QueueInvariant'
<1>1. /\ wk.pc = "get" /\ pending # <<>> /\ pending' = Tail(pending) /\ jobs' = jobs
      /\ UNCHANGED <<stopRequested, thread, cl, server>>
      /\ pending \in Seq(Jobs \cup {StopToken})
  BY Known DEF WorkerGet, disk
<1>2. \/ wk' \in {Off, Looping} /\ (wk' = Looping => stopRequested)
      \/ wk' = [WorkerAt("read") EXCEPT !.job = Head(pending)]
  BY DEF WorkerGet, Off, Looping, WorkerAt
<1>3. wk'.pc \in {"off", "get", "read"} /\ (wk'.pc = "get" => stopRequested)
      /\ (wk'.pc = "read" => wk'.job = Head(pending))
  BY <1>2 DEF Off, Looping, WorkerAt
<1>4. InState(TransientStates)' = {}
  BY <1>1 DEF QueueInvariant, WorkIsInHand, InState, WorkingPcs, ExecutorPcs
<1>5. RecordsTell' /\ WorkerTells' /\ OneJobAtWork'
  BY <1>1, <1>3, <1>4
     DEF QueueInvariant, RecordsTell, Recorded, WorkerTells, WorkingPcs, ExecutorPcs, OneJobAtWork
<1>6. ASSUME WorkerAlive', ~stopRequested', NEW j \in InState({"QUEUED"})'
      PROVE  \/ \E i \in DOMAIN pending' : pending'[i] = j
             \/ wk'.job = j /\ wk'.pc \in {"read", "claim"}
  <2>1. WorkerAlive /\ ~stopRequested /\ j \in InState({"QUEUED"})
    BY <1>1, <1>6 DEF WorkerAlive, InState
  <2>2. PICK i \in DOMAIN pending : pending[i] = j
    BY <1>1, <2>1 DEF QueueInvariant, QueueIsCoherent, QueuedJobIsScheduled
  <2>3. wk'.pc = "read" /\ wk'.job = pending[1]
    BY <1>1, <1>3, <1>6 DEF WorkerAlive
  <2>4. CASE i = 1
    BY <2>2, <2>3, <2>4
  <2>5. CASE i # 1
    <3>1. i - 1 \in DOMAIN Tail(pending) /\ Tail(pending)[i - 1] = pending[i]
      BY <1>1, <2>2, <2>5
    <3>2. QED
      BY <1>1, <2>2, <3>1
  <2>6. QED
    BY <2>4, <2>5
<1>7. QueuedJobIsScheduled'
  BY <1>6 DEF QueuedJobIsScheduled
<1>8. QED
  BY <1>1, <1>4, <1>5, <1>7, WorkerFrame

\* The worker looks whether its job still waits.
LEMMA ReadKeepsQueue ==
  ASSUME EvidenceInvariant, QueueInvariant, WorkerRead
  PROVE  QueueInvariant'
<1>1. /\ wk.pc = "read" /\ jobs' = jobs /\ wk.job \in Jobs /\ Recorded(wk.job)
      /\ wk \in WorkerRecord /\ UNCHANGED <<memory, cl, server>>
      /\ wk.pc \in LoopPcs \cup ExecutorPcs
  BY Known DEF WorkerRead, WorkerStep, disk, LoopPcs
<1>2. InState(TransientStates) = {}
  BY <1>1 DEF QueueInvariant, WorkIsInHand, InState, WorkingPcs, ExecutorPcs
<1>3. CASE jobs[wk.job].state = "QUEUED"
  <2>1. wk' = [wk EXCEPT !.pc = "claim", !.revision = jobs[wk.job].revision]
    BY <1>3 DEF WorkerRead, WorkerStep
  <2>2. wk'.pc = "claim" /\ wk'.job = wk.job /\ wk'.revision = 0
    BY <1>1, <1>3, <2>1 DEF QueueInvariant, RecordsTell, WorkerRecord
  <2>3. RecordsTell' /\ OneJobAtWork' /\ InState(TransientStates)' = {} /\ WorkerTells'
    BY <1>1, <1>2, <2>2 DEF QueueInvariant, RecordsTell, Recorded, OneJobAtWork, InState,
         WorkerTells, WorkingPcs, ExecutorPcs
  <2>4. QueuedJobIsScheduled'
    BY <1>1, <2>2 DEF QueueInvariant, QueueIsCoherent, QueuedJobIsScheduled, InState, WorkerAlive,
         memory
  <2>5. QED
    BY <1>1, <2>3, <2>4, WorkerFrame DEF memory
<1>4. CASE jobs[wk.job].state # "QUEUED"
  <2>1. wk' = Looping
    BY <1>4 DEF WorkerRead, WorkerStep
  <2>2. jobs[wk.job].state \notin {"QUEUED"} \cup TransientStates
    BY <1>1, <1>2, <1>4 DEF InState
  <2>3. QED
    BY <1>1, <2>1, <2>2, WorkerRests DEF WorkerTouches
<1>5. QED
  BY <1>3, <1>4

\* The worker claims its job, or finds it gone.
LEMMA ClaimKeepsQueue ==
  ASSUME EvidenceInvariant, QueueInvariant, WorkerClaim
  PROVE  QueueInvariant'
<1>1. /\ wk.pc = "claim" /\ wk.job \in Jobs /\ Recorded(wk.job)
      /\ wk \in WorkerRecord /\ UNCHANGED <<memory, cl, server>>
      /\ wk.pc \in LoopPcs \cup ExecutorPcs /\ jobs \in [Jobs -> JobRecord]
  BY Known DEF WorkerClaim, WorkerUpdate, LoopPcs
<1>2. InState(TransientStates) = {}
  BY <1>1 DEF QueueInvariant, WorkIsInHand, InState, WorkingPcs, ExecutorPcs
<1>3. CASE jobs' = jobs /\ wk' = Looping /\ jobs[wk.job].state # "QUEUED"
  <2>1. jobs[wk.job].state \notin {"QUEUED"} \cup TransientStates
    BY <1>1, <1>2, <1>3 DEF InState
  <2>2. QED
    BY <1>1, <1>3, <2>1, WorkerRests DEF WorkerTouches
<1>4. ASSUME wk' = [wk EXCEPT !.pc = "reread"],
             NEW new \in JobRecord, Replaced(wk.job, new), Claims(jobs[wk.job], new)
      PROVE  QueueInvariant'
  <2>1. wk'.pc = "reread" /\ wk'.job = wk.job /\ wk'.pc \in WorkingPcs
    BY <1>1, <1>4 DEF WorkerRecord, WorkingPcs
  <2>2. new.state = "VALIDATING" /\ new.state \in JobStates \ {"QUEUED"}
    BY <1>4 DEF Claims, JobStates, TransientStates
  <2>3. /\ RecordsTell'
        /\ \A j \in Jobs \ {wk.job} : jobs'[j] = jobs[j]
        /\ \A j \in Jobs \ {wk.job} : jobs'[j].state \notin TransientStates
    BY <1>1, <1>4, <2>2, TouchedRecords DEF WorkerTouches
  <2>4. jobs'[wk.job].state = "VALIDATING"
    BY <1>1, <1>4, <2>2 DEF Replaced
  <2>5. OneJobAtWork' /\ \A j \in InState(TransientStates)' : wk'.job = j
    BY <2>1, <2>3 DEF OneJobAtWork, InState
  <2>6. WorkerTells'
    BY <2>1, <2>4 DEF WorkerTells
  <2>7. QueuedJobIsScheduled'
    BY <1>1, <2>1, <2>3, <2>4
       DEF QueueInvariant, QueueIsCoherent, QueuedJobIsScheduled, InState, WorkerAlive, memory
  <2>8. QED
    BY <1>1, <2>1, <2>3, <2>5, <2>6, <2>7, WorkerFrame DEF memory
<1>5. QED
  BY <1>3, <1>4, ClaimTells

\* What the worker reads or computes with its job in hand.
LEMMA ReadsKeepQueue ==
  ASSUME EvidenceInvariant, QueueInvariant,
         \/ WorkerReread \/ WorkerFinish \/ ExecuteBegin \/ ReadInputs \/ Compute
         \/ AdvanceRead \/ TransitionRead \/ CheckCancel
  PROVE  QueueInvariant'
<1>1. /\ wk.pc \in WorkingPcs /\ wk.pc \in LoopPcs \cup ExecutorPcs
      /\ jobs' = jobs /\ UNCHANGED <<memory, cl, server>>
      /\ wk \in WorkerRecord /\ wk.job \in Jobs /\ Recorded(wk.job)
      /\ jobs[wk.job].state \in JobStates /\ jobs[wk.job].state # "QUEUED" /\ WorkerTells
  <2>1. /\ wk.pc \in WorkingPcs /\ wk.pc \in LoopPcs \cup ExecutorPcs
        /\ jobs' = jobs /\ UNCHANGED <<memory, cl, server>>
    BY DEF WorkerReread, WorkerFinish, ExecuteBegin, ReadInputs, Compute, AdvanceRead,
           TransitionRead, CheckCancel, WorkerStep, disk, WorkingPcs, LoopPcs, ExecutorPcs
  <2>2. QED
    BY <2>1, Known DEF QueueInvariant, WorkerTells
<1>2. WorkerKnows
  BY DEF EvidenceInvariant
<1>3. ASSUME wk'.pc \in WorkingPcs, wk'.job = wk.job,
             wk'.pc \in {"adv_read", "adv_cas", "finish_cas"} /\ wk'.target = "CANCELLED" =>
               jobs[wk.job].cancel_requested,
             wk'.pc \in {"adv", "adv_read", "adv_cas"} /\ wk'.phase = "CANCELLED" =>
               jobs[wk.job].cancel_requested
      PROVE  QueueInvariant'
  <2>1. WorkerTells'
    BY <1>1, <1>3 DEF WorkerTells, WorkingPcs, ExecutorPcs
  <2>2. QED
    BY <1>1, <1>3, <2>1, WorkerWorks DEF WorkerTouches
<1>4. ASSUME NEW error, wk' = Finish(error)
      PROVE  QueueInvariant'
  <2>1. wk'.pc = "finish" /\ wk'.job = wk.job /\ wk'.pc \in WorkingPcs
    BY <1>1, <1>4 DEF Finish, WorkerRecord, WorkingPcs
  <2>2. QED
    BY <1>3, <2>1
<1>5. ASSUME NEW phase, wk' = AdvanceTo(phase),
             phase = "CANCELLED" => jobs[wk.job].cancel_requested
      PROVE  QueueInvariant'
  <2>1. wk'.pc = "adv" /\ wk'.job = wk.job /\ wk'.pc \in WorkingPcs /\ wk'.phase = phase
    BY <1>1, <1>5 DEF AdvanceTo, WorkerRecord, WorkingPcs, ExecutorPcs
  <2>2. QED
    BY <1>3, <1>5, <2>1
<1>6. ASSUME NEW pc \in {"exec", "inputs", "fail_check", "write", "fail_read"},
             wk' = [wk EXCEPT !.pc = pc]
      PROVE  QueueInvariant'
  <2>1. wk'.pc = pc /\ wk'.job = wk.job /\ wk'.pc \in WorkingPcs
    BY <1>1, <1>6 DEF WorkerRecord, WorkingPcs, ExecutorPcs
  <2>2. QED
    BY <1>3, <2>1
<1>7. CASE WorkerReread \/ ExecuteBegin
  BY <1>4, <1>6, <1>7 DEF WorkerReread, ExecuteBegin, WorkerStep
<1>8. CASE ReadInputs
  BY <1>4, <1>5, <1>6, <1>8 DEF ReadInputs, WorkerStep
<1>9. CASE Compute
  <2>1. NextPhase[wk.target] # "CANCELLED"
    BY <1>2, <1>9 DEF Compute, WorkerKnows, WorkerHolds, NextPhase, TransientStates
  <2>2. QED
    BY <1>4, <1>5, <1>9, <2>1 DEF Compute, WorkerStep
<1>10. CASE AdvanceRead
  <2>1. CASE jobs[wk.job].state \in TerminalStates
    BY <1>4, <1>10, <2>1 DEF AdvanceRead, WorkerStep
  <2>2. CASE jobs[wk.job].state \notin TerminalStates
    <3>1. wk' = [wk EXCEPT !.pc = "adv_read",
                   !.target = IF jobs[wk.job].cancel_requested THEN "CANCELLED" ELSE wk.phase]
      BY <1>10, <2>2 DEF AdvanceRead, WorkerStep
    <3>2. /\ wk'.pc = "adv_read" /\ wk'.job = wk.job /\ wk'.pc \in WorkingPcs
          /\ wk'.target = IF jobs[wk.job].cancel_requested THEN "CANCELLED" ELSE wk.phase
          /\ wk'.phase = wk.phase
      BY <1>1, <3>1 DEF WorkerRecord, WorkingPcs, ExecutorPcs
    <3>3. wk.phase = "CANCELLED" => jobs[wk.job].cancel_requested
      BY <1>1, <1>10 DEF WorkerTells, AdvanceRead
    <3>4. QED
      BY <1>3, <3>2, <3>3
  <2>3. QED
    BY <2>1, <2>2
<1>11. CASE TransitionRead
  <2>1. CASE wk.pc = "adv_read"
    <3>1. wk' = [wk EXCEPT !.pc = "adv_cas", !.revision = jobs[wk.job].revision]
      BY <1>11, <2>1 DEF TransitionRead, WorkerStep
    <3>2. wk'.pc = "adv_cas" /\ wk'.job = wk.job /\ wk'.pc \in WorkingPcs
          /\ wk'.target = wk.target /\ wk'.phase = wk.phase
      BY <1>1, <3>1 DEF WorkerRecord, WorkingPcs, ExecutorPcs
    <3>3. /\ wk.target = "CANCELLED" => jobs[wk.job].cancel_requested
          /\ wk.phase = "CANCELLED" => jobs[wk.job].cancel_requested
      BY <1>1, <2>1 DEF WorkerTells
    <3>4. QED
      BY <1>3, <3>2, <3>3
  <2>2. CASE wk.pc # "adv_read"
    <3>1. wk' = [wk EXCEPT !.pc = "fail_cas", !.revision = jobs[wk.job].revision]
      BY <1>11, <2>2 DEF TransitionRead, WorkerStep
    <3>2. wk'.pc = "fail_cas" /\ wk'.job = wk.job /\ wk'.pc \in WorkingPcs
      BY <1>1, <3>1 DEF WorkerRecord, WorkingPcs, ExecutorPcs
    <3>3. QED
      BY <1>3, <3>2
  <2>3. QED
    BY <2>1, <2>2
<1>12. CASE CheckCancel
  BY <1>4, <1>5, <1>6, <1>12 DEF CheckCancel, WorkerStep
<1>13. CASE WorkerFinish
  <2>1. CASE jobs[wk.job].state \in TerminalStates
    <3>1. wk' = Looping
      BY <1>13, <2>1 DEF WorkerFinish, WorkerStep
    <3>2. jobs'[wk.job].state \notin {"QUEUED"} \cup TransientStates
      BY <1>1, <2>1 DEF TerminalStates, TransientStates
    <3>3. QED
      BY <1>1, <3>1, <3>2, WorkerRests DEF WorkerTouches
  <2>2. CASE jobs[wk.job].state \notin TerminalStates
    <3>1. /\ wk'.pc = "finish_cas" /\ wk'.job = wk.job /\ wk'.pc \in WorkingPcs
          /\ wk'.target = IF jobs[wk.job].cancel_requested THEN "CANCELLED" ELSE "FAILED"
      BY <1>1, <1>13, <2>2 DEF WorkerFinish, WorkerStep, WorkerRecord, WorkingPcs
    <3>2. QED
      BY <1>3, <3>1
  <2>3. QED
    BY <2>1, <2>2
<1>14. QED
  BY <1>7, <1>8, <1>9, <1>10, <1>11, <1>12, <1>13

\* What the worker's updates make of its record.
LEMMA MovedRecord ==
  ASSUME EvidenceInvariant, wk.job \in Jobs, NEW new \in JobRecord, Replaced(wk.job, new),
         Advances(jobs[wk.job], new) \/ Ends(jobs[wk.job], new)
  PROVE  /\ new.state \in JobStates \ {"QUEUED"} /\ jobs'[wk.job] = new
         /\ Ends(jobs[wk.job], new) => new.state \in TerminalStates
<1>1. jobs'[wk.job] = new
  BY Known DEF Replaced
<1>2. CASE Advances(jobs[wk.job], new)
  <2>1. jobs[wk.job].state \in {"VALIDATING", "EVALUATING", "ANALYZING"}
    BY <1>2 DEF Advances, TransientStates
  <2>2. new.state \in {"EVALUATING", "ANALYZING", "WRITING_ARTIFACT"}
    BY <1>2, <2>1 DEF Advances, NextPhase, TransientStates
  <2>3. new.state \in JobStates \ {"QUEUED"} /\ ~Ends(jobs[wk.job], new)
    BY <2>2 DEF JobStates, TransientStates, Ends
  <2>4. QED
    BY <1>1, <2>3
<1>3. CASE Ends(jobs[wk.job], new)
  BY <1>1, <1>3 DEF Ends, JobStates, TerminalStates
<1>4. QED
  BY <1>2, <1>3

\* The worker's updates after the claim.
LEMMA UpdatesKeepQueue ==
  ASSUME EvidenceInvariant, QueueInvariant, AdvanceCas \/ FailCas \/ WorkerFinishCas
  PROVE  QueueInvariant'
<1>1. /\ wk.pc \in WorkingPcs /\ wk.pc \in LoopPcs \cup ExecutorPcs
      /\ UNCHANGED <<memory, cl, server>>
      /\ wk \in WorkerRecord /\ wk.job \in Jobs /\ Recorded(wk.job)
      /\ jobs[wk.job].state \in JobStates /\ jobs[wk.job].state # "QUEUED" /\ WorkerTells
  <2>1. /\ wk.pc \in WorkingPcs /\ wk.pc \in LoopPcs \cup ExecutorPcs
        /\ UNCHANGED <<memory, cl, server>>
    BY DEF AdvanceCas, FailCas, WorkerFinishCas, WorkerUpdate, WorkingPcs, LoopPcs, ExecutorPcs
  <2>2. QED
    BY <2>1, Known DEF QueueInvariant, WorkerTells
<1>2. /\ WorkerTouches
      /\ jobs' # jobs => AdvanceCas \/ jobs'[wk.job].state \in TerminalStates
  <2>1. CASE jobs' = jobs
    BY <2>1 DEF WorkerTouches
  <2>2. CASE jobs' # jobs
    <3>1. PICK new \in JobRecord :
            /\ Replaced(wk.job, new)
            /\ (AdvanceCas /\ Advances(jobs[wk.job], new)) \/ Ends(jobs[wk.job], new)
      BY <2>2, WorkerMoves
    <3>2. /\ new.state \in JobStates \ {"QUEUED"} /\ jobs'[wk.job] = new
          /\ Ends(jobs[wk.job], new) => new.state \in TerminalStates
      BY <1>1, <3>1, MovedRecord
    <3>3. QED
      BY <3>1, <3>2 DEF WorkerTouches
  <2>3. QED
    BY <2>1, <2>2
<1>3. ASSUME wk'.pc \in WorkingPcs \ {"adv", "adv_read", "adv_cas", "finish_cas"}, wk'.job = wk.job
      PROVE  QueueInvariant'
  <2>1. jobs'[wk.job].state # "QUEUED"
    BY <1>1, <1>2, TouchedRecords
  <2>2. WorkerTells'
    BY <1>3, <2>1 DEF WorkerTells, WorkingPcs, ExecutorPcs
  <2>3. QED
    BY <1>1, <1>2, <1>3, <2>2, WorkerWorks
<1>4. ASSUME NEW error, wk' = Finish(error)
      PROVE  QueueInvariant'
  <2>1. wk'.pc = "finish" /\ wk'.job = wk.job
    BY <1>1, <1>4 DEF Finish, WorkerRecord
  <2>2. QED
    BY <1>3, <2>1 DEF WorkingPcs
<1>5. CASE AdvanceCas
  <2>1. \/ wk' = AfterAdvance \/ wk' = Finish("WORKER_ERROR")
        \/ jobs' = jobs /\ wk' = [wk EXCEPT !.pc = "adv", !.tries = @ + 1]
    BY <1>5 DEF AdvanceCas, WorkerUpdate
  <2>2. CASE wk' = AfterAdvance
    <3>1. \/ wk' = Finish(NoError)
          \/ wk'.pc \in {"check", "compute"} /\ wk'.job = wk.job
      BY <1>1, <2>2 DEF AfterAdvance, WorkerRecord
    <3>2. QED
      BY <1>3, <1>4, <3>1 DEF WorkingPcs, ExecutorPcs
  <2>3. CASE jobs' = jobs /\ wk' = [wk EXCEPT !.pc = "adv", !.tries = @ + 1]
    <3>1. wk'.pc = "adv" /\ wk'.job = wk.job /\ wk'.phase = wk.phase /\ wk'.pc \in WorkingPcs
      BY <1>1, <2>3 DEF WorkerRecord, WorkingPcs, ExecutorPcs
    <3>2. wk.phase = "CANCELLED" => jobs[wk.job].cancel_requested
      BY <1>1, <1>5 DEF WorkerTells, AdvanceCas
    <3>3. WorkerTells'
      BY <1>1, <2>3, <3>1, <3>2 DEF WorkerTells
    <3>4. QED
      BY <1>1, <1>2, <3>1, <3>3, WorkerWorks
  <2>4. QED
    BY <1>4, <2>1, <2>2, <2>3
<1>6. CASE FailCas
  <2>1. wk' = Finish(NoError) \/ wk' = Finish("WORKER_ERROR")
    BY <1>6 DEF FailCas, WorkerUpdate
  <2>2. QED
    BY <1>4, <2>1
<1>7. CASE WorkerFinishCas
  <2>1. \/ wk' = Looping /\ jobs' # jobs
        \/ wk' = Off
        \/ wk' = [wk EXCEPT !.pc = "finish", !.tries = @ + 1]
    <3>1. UpdateAllowed(jobs[wk.job], wk.revision, wk.target, FALSE, wk.error) => jobs' # jobs
      <4>1. ASSUME UpdateAllowed(jobs[wk.job], wk.revision, wk.target, FALSE, wk.error)
            PROVE  jobs' # jobs
        <5>1. jobs' = [jobs EXCEPT ![wk.job] =
                         Updated(jobs[wk.job], wk.target, FALSE, wk.error)]
          BY <1>7, <4>1 DEF WorkerFinishCas, WorkerUpdate
        <5>2. Updated(jobs[wk.job], wk.target, FALSE, wk.error).revision
                = jobs[wk.job].revision + 1
          BY Zenon DEF Updated
        <5>3. jobs \in [Jobs -> JobRecord] /\ jobs[wk.job].revision \in Nat
          BY <1>1, Known DEF JobRecord
        <5>4. jobs'[wk.job].revision = jobs[wk.job].revision + 1
          BY <1>1, <5>1, <5>2, <5>3
        <5>5. QED
          BY <5>3, <5>4
      <4>2. QED
        BY <4>1
    <3>2. QED
      BY <1>7, <3>1 DEF WorkerFinishCas, WorkerUpdate
  <2>2. CASE wk' = Looping /\ jobs' # jobs
    <3>1. jobs'[wk.job].state \in TerminalStates
      BY <1>2, <1>7, <2>2 DEF WorkerFinishCas, AdvanceCas
    <3>2. QED
      BY <1>1, <1>2, <2>2, <3>1, WorkerRests DEF TerminalStates, TransientStates
  <2>3. CASE wk' = Off
    <3>1. Off # Looping
      BY DEF Off, Looping, WorkerAt
    <3>2. QED
      BY <1>1, <1>2, <2>3, <3>1, WorkerRests
  <2>4. CASE wk' = [wk EXCEPT !.pc = "finish", !.tries = @ + 1]
    <3>1. wk'.pc = "finish" /\ wk'.job = wk.job
      BY <1>1, <2>4 DEF WorkerRecord
    <3>2. QED
      BY <1>3, <3>1 DEF WorkingPcs
  <2>5. QED
    BY <2>1, <2>2, <2>3, <2>4
<1>8. QED
  BY <1>5, <1>6, <1>7

\* The commit of the artifacts: the record becomes COMPLETE and nothing else changes,
\* or it stays and the files go (storage.py:533-546).
LEMMA CommitTells ==
  ASSUME EvidenceInvariant, Commit
  PROVE  \/ jobs' = jobs /\ wk' = Finish("WORKER_ERROR")
         \/ /\ wk' = Finish(NoError) /\ UNCHANGED <<result, provenance>>
            /\ \E new \in JobRecord : /\ Replaced(wk.job, new)
                                      /\ new.state = "COMPLETE" /\ ~new.cancel_requested
<1>1. /\ wk.job \in Jobs /\ Recorded(wk.job) /\ ~jobs[wk.job].cancel_requested
      /\ jobs[wk.job] \in JobRecord /\ jobs[wk.job].state \in JobStates
      /\ "COMPLETE" \in Steps /\ NoError \in Errors /\ "COMPLETE" # Same
  BY Writers, Known DEF Commit, Writing, Steps, JobStates, TerminalStates, Errors, Same
<1>2. CASE UpdateAllowed(jobs[wk.job], wk.revision, "COMPLETE", FALSE, NoError)
  <2> DEFINE new == Updated(jobs[wk.job], "COMPLETE", FALSE, NoError)
  <2>1. ASSUME NEW flag \in BOOLEAN,
               UpdateAllowed(jobs[wk.job], wk.revision, "COMPLETE", flag, NoError)
        PROVE  LET it == Updated(jobs[wk.job], "COMPLETE", flag, NoError) IN
               /\ it \in JobRecord
               /\ it.run = jobs[wk.job].run /\ it.revision = jobs[wk.job].revision + 1
               /\ it.state = Target(jobs[wk.job], "COMPLETE")
               /\ it.cancel_requested <=> jobs[wk.job].cancel_requested \/ flag
    BY <1>1, <2>1, UpdateTells
  <2>2. /\ new \in JobRecord
        /\ new.run = jobs[wk.job].run /\ new.revision = jobs[wk.job].revision + 1
        /\ new.state = Target(jobs[wk.job], "COMPLETE")
        /\ new.cancel_requested <=> jobs[wk.job].cancel_requested
    BY <1>2, <2>1
  <2>3. /\ wk' = Finish(NoError) /\ UNCHANGED <<result, provenance>>
        /\ jobs' = [jobs EXCEPT ![wk.job] = new]
    BY <1>2 DEF Commit
  <2> HIDE DEF new
  <2>4. Target(jobs[wk.job], "COMPLETE") = "COMPLETE"
    BY <1>1 DEF Target
  <2>5. QED
    BY <1>1, <2>2, <2>3, <2>4 DEF Replaced
<1>3. CASE ~UpdateAllowed(jobs[wk.job], wk.revision, "COMPLETE", FALSE, NoError)
  BY <1>3 DEF Commit
<1>4. QED
  BY <1>2, <1>3

\* The writer, whether its files and its record get written or not.
LEMMA WriterKeepsQueue ==
  ASSUME EvidenceInvariant, QueueInvariant,
         WriteResult \/ WriteProvenance \/ Commit \/ WriteFails
  PROVE  QueueInvariant'
<1>1. /\ wk.pc \in WorkingPcs /\ wk.pc \in LoopPcs \cup ExecutorPcs
      /\ UNCHANGED <<memory, cl, server>>
      /\ wk \in WorkerRecord /\ wk.job \in Jobs
  <2>1. /\ wk.pc \in WorkingPcs /\ wk.pc \in LoopPcs \cup ExecutorPcs
        /\ UNCHANGED <<memory, cl, server>>
    BY DEF WriteResult, WriteProvenance, Commit, WriteFails, WorkingPcs, ExecutorPcs
  <2>2. QED
    BY <2>1, Known
<1>2. ASSUME WorkerTouches,
             wk'.pc \in WorkingPcs \ {"adv", "adv_read", "adv_cas", "finish_cas"}, wk'.job = wk.job
      PROVE  QueueInvariant'
  <2>1. jobs'[wk.job].state # "QUEUED"
    BY <1>1, <1>2, TouchedRecords
  <2>2. WorkerTells'
    BY <1>2, <2>1 DEF WorkerTells, WorkingPcs, ExecutorPcs
  <2>3. QED
    BY <1>1, <1>2, <2>2, WorkerWorks
<1>3. ASSUME WorkerTouches, NEW error, wk' = Finish(error)
      PROVE  QueueInvariant'
  <2>1. wk'.pc = "finish" /\ wk'.job = wk.job
    BY <1>1, <1>3 DEF Finish, WorkerRecord
  <2>2. QED
    BY <1>2, <1>3, <2>1 DEF WorkingPcs
<1>4. CASE WriteResult
  <2>1. WorkerTouches
    BY <1>4 DEF WriteResult, WorkerTouches
  <2>2. CASE Eligible(wk.job)
    <3>1. wk'.pc = "write_provenance" /\ wk'.job = wk.job
      BY <1>1, <1>4, <2>2 DEF WriteResult, WorkerRecord
    <3>2. QED
      BY <1>2, <2>1, <3>1 DEF WorkingPcs, ExecutorPcs
  <2>3. CASE ~Eligible(wk.job)
    BY <1>3, <1>4, <2>1, <2>3 DEF WriteResult
  <2>4. QED
    BY <2>2, <2>3
<1>5. CASE WriteProvenance
  <2>1. WorkerTouches /\ wk'.pc = "commit" /\ wk'.job = wk.job
    BY <1>1, <1>5 DEF WriteProvenance, WorkerTouches, WorkerRecord
  <2>2. QED
    BY <1>2, <2>1 DEF WorkingPcs, ExecutorPcs
<1>6. CASE Commit
  <2>1. "COMPLETE" \in JobStates \ {"QUEUED"}
    BY DEF JobStates, TerminalStates
  <2>2. WorkerTouches
    BY <1>6, <2>1, CommitTells DEF WorkerTouches
  <2>3. QED
    BY <1>3, <1>6, <2>2, CommitTells
<1>7. CASE WriteFails
  BY <1>3, <1>7 DEF WriteFails, WorkerTouches
<1>8. QED
  BY <1>4, <1>5, <1>6, <1>7

\* Any other store call of the worker raises.
LEMMA StoreFailsKeepsQueue ==
  ASSUME EvidenceInvariant, QueueInvariant, StoreFails
  PROVE  QueueInvariant'
<1>1. /\ wk.pc \in LoopPcs \cup ExecutorPcs /\ jobs' = jobs /\ WorkerTouches
      /\ UNCHANGED <<memory, cl, server>> /\ wk \in WorkerRecord
  BY Known DEF StoreFails, disk, WorkerTouches
<1>2. CASE wk.pc \in LoopPcs
  <2>1. wk' = Off /\ Off # Looping
    BY <1>2 DEF StoreFails, Off, Looping, WorkerAt
  <2>2. QED
    BY <1>1, <2>1, WorkerRests
<1>3. CASE wk.pc \notin LoopPcs
  <2>1. /\ wk.pc \in WorkingPcs /\ wk'.pc = "finish" /\ wk'.job = wk.job
    BY <1>1, <1>3 DEF StoreFails, WorkingPcs, Finish, WorkerRecord
  <2>2. WorkerTells'
    BY <1>1, <2>1 DEF QueueInvariant, WorkerTells
  <2>3. QED
    BY <1>1, <2>1, <2>2, WorkerWorks DEF WorkingPcs
<1>4. QED
  BY <1>2, <1>3

-----------------------------------------------------------------------------
(* The steps of the requests keep the queue's invariant *)

\* A cancel ends a waiting job and asks a working one to stop; what it has read tells the
\* two apart as long as the revision is the same (queue.py:87-119).
LEMMA CancelTells ==
  ASSUME EvidenceInvariant, QueueInvariant, NEW c \in Clients, CancelCas(c)
  PROVE  \/ jobs' = jobs
         \/ \E new \in JobRecord :
              /\ Replaced(cl[c].job, new) /\ AsksToStop(jobs[cl[c].job], new)
              /\ cl[c].job \in Jobs /\ Recorded(cl[c].job)
<1> SUFFICES ASSUME NEW j, j = cl[c].job, NEW target, target = cl[c].target
             PROVE  \/ jobs' = jobs
                    \/ \E new \in JobRecord :
                         Replaced(j, new) /\ AsksToStop(jobs[j], new) /\ j \in Jobs /\ Recorded(j)
  OBVIOUS
<1>1. c \in Threads /\ cl[c] \in ClientRecord /\ RequestHolds(cl[c]) /\ cl[c].pc = "cancel_cas"
  BY Known DEF EvidenceInvariant, ClientKnows, Threads, CancelCas
<1>2. /\ j \in Jobs /\ Recorded(j) /\ target \in {"CANCELLED", Same} /\ cl[c].revision \in Nat
      /\ target = "CANCELLED" <=> cl[c].revision = 0
      /\ jobs[j] \in JobRecord /\ jobs[j].state \in JobStates
      /\ target \in Steps /\ NoError \in Errors
      /\ jobs[j].state = "QUEUED" <=> jobs[j].revision = 0
      /\ jobs[j].state = "QUEUED" => ~jobs[j].cancel_requested
  BY <1>1, Known DEF RequestHolds, ClientRecord, QueueInvariant, RequestTells, RecordsTell, Steps,
                     JobStates, TerminalStates, Errors
<1>3. CASE UpdateAllowed(jobs[j], cl[c].revision, target, TRUE, NoError)
  <2> DEFINE new == Updated(jobs[j], target, TRUE, NoError)
  <2>1. ASSUME NEW flag \in BOOLEAN,
               UpdateAllowed(jobs[j], cl[c].revision, target, flag, NoError)
        PROVE  LET it == Updated(jobs[j], target, flag, NoError) IN
               /\ it \in JobRecord
               /\ it.run = jobs[j].run /\ it.revision = jobs[j].revision + 1
               /\ jobs[j].revision = cl[c].revision
               /\ it.state = Target(jobs[j], target) /\ jobs[j].state \notin TerminalStates
               /\ it.cancel_requested <=> jobs[j].cancel_requested \/ flag
               /\ Target(jobs[j], target) # jobs[j].state \/ (flag /\ ~jobs[j].cancel_requested)
    BY <1>2, <2>1, UpdateTells
  <2>2. /\ new \in JobRecord
        /\ new.run = jobs[j].run /\ new.revision = jobs[j].revision + 1
        /\ jobs[j].revision = cl[c].revision
        /\ new.state = Target(jobs[j], target) /\ jobs[j].state \notin TerminalStates
        /\ new.cancel_requested
        /\ Target(jobs[j], target) # jobs[j].state \/ ~jobs[j].cancel_requested
    BY <1>3, <2>1
  <2>3. jobs' = [jobs EXCEPT ![j] = new]
    BY <1>3 DEF CancelCas
  <2> HIDE DEF new
  <2>4. CASE target = "CANCELLED"
    <3>1. jobs[j].state = "QUEUED" /\ new.state = "CANCELLED" /\ ~jobs[j].cancel_requested
      BY <1>2, <2>2, <2>4 DEF Target, Same
    <3>2. QED
      BY <1>2, <2>2, <2>3, <3>1 DEF AsksToStop, Replaced
  <2>5. CASE target # "CANCELLED"
    <3>1. Target(jobs[j], target) = jobs[j].state /\ jobs[j].state # "QUEUED"
      BY <1>2, <2>2, <2>5 DEF Target
    <3>2. jobs[j].state \in TransientStates /\ ~jobs[j].cancel_requested
      BY <1>2, <2>2, <3>1 DEF JobStates
    <3>3. QED
      BY <1>2, <2>2, <2>3, <3>1, <3>2 DEF AsksToStop, Replaced
  <2>6. QED
    BY <2>4, <2>5
<1>4. CASE ~UpdateAllowed(jobs[j], cl[c].revision, target, TRUE, NoError)
  BY <1>4 DEF CancelCas
<1>5. QED
  BY <1>3, <1>4

\* A request changes what is said of itself and of the records; only a creation, under
\* the queue's lock, lets a job wait.
LEMMA RequestFrame ==
  ASSUME EvidenceInvariant, QueueInvariant, NEW c \in Clients, NEW request,
         cl' = [cl EXCEPT ![c] = request], UNCHANGED <<stopRequested, thread, wk, server>>,
         server = "up" \/ cl[c].pc # "idle", request.pc # "recover", RequestTells(request),
         request.pc = "create" => QueueLockFree,
         RecordsTell', WorkerTells', QueuedJobIsScheduled',
         \A j \in Jobs : jobs'[j].state \in TransientStates => jobs[j].state \in TransientStates,
         \/ cl[c].pc = "create"
         \/ /\ pending' = pending
            /\ \A j \in Jobs : jobs'[j].state = "QUEUED" => jobs[j].state = "QUEUED"
  PROVE  QueueInvariant'
<1>1. /\ c \in Threads /\ c # Main /\ server = "up"
      /\ \A t \in Threads : cl'[t] = IF t = c THEN request ELSE cl[t]
  BY Known, IdentityAssumption DEF Threads, QueueInvariant, ServerTells
<1>2. (\A t \in Threads : RequestTells(cl[t]))'
  BY <1>1 DEF QueueInvariant, RequestTells
<1>3. OneJobAtWork' /\ WorkIsInHand'
  BY <1>1 DEF QueueInvariant, OneJobAtWork, WorkIsInHand, InState
<1>4. QueueIsRefilled'
  <2>1. ASSUME NEW t \in Threads, cl'[t].pc = "recover"
        PROVE  /\ t # c /\ cl[t].pc = "recover" /\ cl[c].pc # "create"
    BY <1>1, <2>1 DEF QueueInvariant, OneInQueue
  <2>2. QED
    BY <2>1 DEF QueueInvariant, QueueIsRefilled, InPending, InState
<1>5. OneInQueue'
  BY <1>1 DEF QueueInvariant, OneInQueue, QueueLockFree
<1>6. ServerTells' /\ RecoveryExcludesWorker'
  BY <1>1 DEF QueueInvariant, ServerTells, QueueIsCoherent, RecoveryExcludesWorker, Threads
<1>7. QED
  BY <1>2, <1>3, <1>4, <1>5, <1>6 DEF QueueInvariant, QueueIsCoherent

\* A request that leaves the records alone.
LEMMA RequestReadsQueue ==
  ASSUME EvidenceInvariant, QueueInvariant, NEW c \in Clients, NEW request,
         cl' = [cl EXCEPT ![c] = request], UNCHANGED <<jobs, memory, wk, server>>,
         server = "up" \/ cl[c].pc # "idle", request.pc \notin {"recover", "create"},
         RequestTells(request)
  PROVE  QueueInvariant'
<1>1. UNCHANGED <<pending, stopRequested, thread>>
  BY DEF memory
<1>2. RecordsTell' /\ WorkerTells'
  BY DEF QueueInvariant, RecordsTell, Recorded, WorkerTells
<1>3. QueuedJobIsScheduled'
  BY <1>1 DEF QueueInvariant, QueueIsCoherent, QueuedJobIsScheduled, WorkerAlive, InState
<1>4. QED
  BY <1>1, <1>2, <1>3, RequestFrame

\* The requests that leave the records alone.
LEMMA QuietRequestsKeepQueue ==
  ASSUME EvidenceInvariant, QueueInvariant, NEW c \in Clients,
         \/ CancelBegin(c) \/ CancelRead(c) \/ CreateRun(c) \/ RetryCheck(c)
         \/ DiscardResult(c) \/ DiscardProvenance(c) \/ EnqueueFails(c)
  PROVE  QueueInvariant'
<1>1. c \in Threads /\ cl \in [Threads -> ClientRecord] /\ cl[c] \in ClientRecord
  BY Known DEF Threads
<1>2. /\ UNCHANGED <<jobs, memory, wk, server>>
      /\ server = "up" \/ cl[c].pc # "idle"
  BY DEF CancelBegin, CancelRead, CreateRun, RetryCheck, DiscardResult, DiscardProvenance,
         EnqueueFails, ClientStep, Requestable, disk
<1>3. IdleClient.pc = "idle"
  BY DEF IdleClient
<1>4. ASSUME cl' = [cl EXCEPT ![c] = IdleClient]
      PROVE  QueueInvariant'
  BY <1>2, <1>3, <1>4, RequestReadsQueue DEF RequestTells
<1>5. ASSUME NEW request, cl' = [cl EXCEPT ![c] = request],
             request.pc \in {"cancel_read", "enqueue", "discard", "discard_provenance"}
      PROVE  QueueInvariant'
  BY <1>2, <1>5, RequestReadsQueue DEF RequestTells
<1>6. CASE CancelBegin(c)
  <2>1. PICK j \in Jobs : cl' = [cl EXCEPT ![c] = [IdleClient EXCEPT !.pc = "cancel_read", !.job = j]]
    BY <1>6 DEF CancelBegin, ClientStep
  <2>2. [IdleClient EXCEPT !.pc = "cancel_read", !.job = j].pc = "cancel_read"
    BY DEF IdleClient
  <2>3. QED
    BY <1>5, <2>1, <2>2
<1>7. CASE CancelRead(c)
  <2>1. CASE ~Listable \/ CancelSettled(jobs[cl[c].job])
    BY <1>4, <1>7, <2>1 DEF CancelRead, ClientStep
  <2>2. CASE ~(~Listable \/ CancelSettled(jobs[cl[c].job]))
    <3> DEFINE request == [cl[c] EXCEPT !.pc = "cancel_cas", !.revision = jobs[cl[c].job].revision,
                             !.target = IF jobs[cl[c].job].state = "QUEUED" THEN "CANCELLED"
                                        ELSE Same]
    <3>1. cl' = [cl EXCEPT ![c] = request]
      BY <1>7, <2>2 DEF CancelRead, ClientStep
    <3>2. RequestHolds(cl[c]) /\ cl[c].pc = "cancel_read"
      BY <1>1, <1>7 DEF EvidenceInvariant, ClientKnows, CancelRead
    <3>3. jobs[cl[c].job].state = "QUEUED" <=> jobs[cl[c].job].revision = 0
      BY <3>2 DEF RequestHolds, QueueInvariant, RecordsTell
    <3>4. /\ request.pc = "cancel_cas" /\ request.revision = jobs[cl[c].job].revision
          /\ request.target = IF jobs[cl[c].job].state = "QUEUED" THEN "CANCELLED" ELSE Same
      BY <1>1 DEF ClientRecord
    <3> HIDE DEF request
    <3>5. RequestTells(request)
      BY <3>3, <3>4 DEF RequestTells, Same
    <3>6. QED
      BY <1>2, <3>1, <3>4, <3>5, RequestReadsQueue
  <2>3. QED
    BY <2>1, <2>2
<1>8. CASE CreateRun(c)
  <2>1. PICK r \in Runs : cl' = [cl EXCEPT ![c] = [IdleClient EXCEPT !.pc = "enqueue", !.run = r]]
    BY <1>8 DEF CreateRun
  <2>2. [IdleClient EXCEPT !.pc = "enqueue", !.run = r].pc = "enqueue"
    BY DEF IdleClient
  <2>3. QED
    BY <1>5, <2>1, <2>2
<1>9. CASE RetryCheck(c)
  <2>1. PICK j \in Jobs :
          cl' = [cl EXCEPT ![c] = [IdleClient EXCEPT !.pc = "discard", !.run = jobs[j].run]]
    BY <1>9 DEF RetryCheck, ClientStep, InState
  <2>2. [IdleClient EXCEPT !.pc = "discard", !.run = jobs[j].run].pc = "discard"
    BY DEF IdleClient
  <2>3. QED
    BY <1>5, <2>1, <2>2
<1>10. CASE DiscardResult(c)
  <2>1. CASE Retryable(cl[c].run)
    <3>1. cl' = [cl EXCEPT ![c] = [cl[c] EXCEPT !.pc = "discard_provenance"]]
      BY <1>10, <2>1 DEF DiscardResult
    <3>2. [cl[c] EXCEPT !.pc = "discard_provenance"].pc = "discard_provenance"
      BY <1>1 DEF ClientRecord
    <3>3. QED
      BY <1>5, <3>1, <3>2
  <2>2. CASE ~Retryable(cl[c].run)
    BY <1>4, <1>10, <2>2 DEF DiscardResult
  <2>3. QED
    BY <2>1, <2>2
<1>11. CASE DiscardProvenance(c)
  <2>1. cl' = [cl EXCEPT ![c] = [cl[c] EXCEPT !.pc = "enqueue"]]
    BY <1>11 DEF DiscardProvenance
  <2>2. [cl[c] EXCEPT !.pc = "enqueue"].pc = "enqueue"
    BY <1>1 DEF ClientRecord
  <2>3. QED
    BY <1>5, <2>1, <2>2
<1>12. CASE EnqueueFails(c)
  BY <1>4, <1>12 DEF EnqueueFails
<1>13. QED
  BY <1>6, <1>7, <1>8, <1>9, <1>10, <1>11, <1>12

\* A cancel takes a job out of the queue or leaves its state.
LEMMA CancelKeepsQueue ==
  ASSUME EvidenceInvariant, QueueInvariant, NEW c \in Clients, CancelCas(c)
  PROVE  QueueInvariant'
<1>1. /\ c \in Threads /\ cl[c] \in ClientRecord /\ cl[c].pc = "cancel_cas"
      /\ UNCHANGED <<memory, wk, server>>
      /\ UNCHANGED <<pending, stopRequested, thread, wk, server>>
  BY Known DEF Threads, CancelCas, memory
<1>2. PICK request : /\ cl' = [cl EXCEPT ![c] = request]
                     /\ request.pc \in {"idle", "cancel_read"}
  <2>1. IdleClient.pc = "idle"
    BY DEF IdleClient
  <2>2. CancelAgain(cl[c]).pc \in {"idle", "cancel_read"}
    BY <1>1, <2>1 DEF CancelAgain, ClientRecord
  <2>3. cl' = [cl EXCEPT ![c] = IdleClient] \/ cl' = [cl EXCEPT ![c] = CancelAgain(cl[c])]
    BY DEF CancelCas
  <2>4. QED
    BY <2>1, <2>2, <2>3
<1>3. CASE jobs' = jobs
  BY <1>1, <1>2, <1>3, RequestReadsQueue DEF RequestTells
<1>4. ASSUME NEW j \in Jobs, Recorded(j), NEW new \in JobRecord, Replaced(j, new),
             AsksToStop(jobs[j], new)
      PROVE  QueueInvariant'
  <2>1. \A k \in Jobs : jobs'[k] = IF k = j THEN new ELSE jobs[k]
    BY <1>4, Known DEF Replaced
  <2>2. /\ new.state \in JobStates \ {"QUEUED"} /\ new.cancel_requested
        /\ new.state \in TransientStates => jobs[j].state \in TransientStates
    BY <1>4 DEF AsksToStop, JobStates, TransientStates, TerminalStates
  <2>3. RecordsTell'
    BY <1>4, <2>2, RecordsStillTell DEF QueueInvariant
  <2>4. wk.pc \in WorkingPcs \cup LoopPcs => wk.job \in Jobs
    BY Known DEF WorkingPcs, LoopPcs
  <2>5. WorkerTells'
    BY <1>1, <2>1, <2>2, <2>4 DEF QueueInvariant, WorkerTells, WorkingPcs, ExecutorPcs
  <2>6. \A k \in Jobs : /\ jobs'[k].state = "QUEUED" => jobs[k].state = "QUEUED"
                        /\ jobs'[k].state \in TransientStates => jobs[k].state \in TransientStates
    BY <2>1, <2>2
  <2>7. QueuedJobIsScheduled'
    <3>1. /\ WorkerAlive' <=> WorkerAlive
          /\ InState({"QUEUED"})' \subseteq InState({"QUEUED"})
      BY <1>1, <2>6 DEF WorkerAlive, InState
    <3>2. QED
      BY <1>1, <3>1 DEF QueueInvariant, QueueIsCoherent, QueuedJobIsScheduled
  <2>8. RequestTells(request)
    BY <1>2 DEF RequestTells
  <2>9. QED
    BY <1>1, <1>2, <2>3, <2>5, <2>6, <2>7, <2>8, RequestFrame
<1>5. QED
  BY <1>3, <1>4, CancelTells

\* The directory of a new job is made under the queue's lock.
LEMMA EnqueueKeepsQueue ==
  ASSUME EvidenceInvariant, QueueInvariant, NEW c \in Clients, Enqueue(c)
  PROVE  QueueInvariant'
<1>1. /\ c \in Threads /\ cl \in [Threads -> ClientRecord] /\ cl[c] \in ClientRecord
      /\ jobs \in [Jobs -> JobRecord]
      /\ cl[c].pc = "enqueue" /\ QueueLockFree
      /\ UNCHANGED <<memory, wk, server>>
      /\ UNCHANGED <<pending, stopRequested, thread>>
  BY Known DEF Threads, Enqueue, memory
<1>2. CASE stopRequested
  <2>1. cl' = [cl EXCEPT ![c] = IdleClient] /\ jobs' = jobs
    BY <1>2 DEF Enqueue
  <2>2. IdleClient.pc = "idle"
    BY DEF IdleClient
  <2>3. QED
    BY <1>1, <2>1, <2>2, RequestReadsQueue DEF RequestTells
<1>3. CASE ~stopRequested
  <2>1. PICK j \in Jobs : /\ jobs[j].state = "NONE"
                         /\ jobs' = [jobs EXCEPT ![j].state = "TORN"]
                         /\ cl' = [cl EXCEPT ![c].pc = "create", ![c].job = j]
    BY <1>3 DEF Enqueue, NewJob
  <2> DEFINE request == [cl[c] EXCEPT !.pc = "create", !.job = j]
  <2>2. cl' = [cl EXCEPT ![c] = request]
    BY <1>1, <2>1
  <2>3. request.pc = "create"
    BY <1>1 DEF ClientRecord
  <2> HIDE DEF request
  <2>4. \A k \in Jobs : jobs'[k] = IF k = j THEN [jobs[j] EXCEPT !.state = "TORN"] ELSE jobs[k]
    BY <1>1, <2>1
  <2>5. /\ jobs'[j].state = "TORN" /\ jobs'[j].run = jobs[j].run
        /\ jobs'[j].cancel_requested = jobs[j].cancel_requested
    BY <1>1, <2>4 DEF JobRecord
  <2>6. RecordsTell'
    <3>1. ~Recorded(j) /\ ~Recorded(j)'
      BY <2>1, <2>5 DEF Recorded, NoRecord
    <3>2. jobs[j].run = NoRun /\ ~jobs[j].cancel_requested
      BY <2>1, <3>1 DEF QueueInvariant, RecordsTell, NoRecord
    <3>3. ASSUME NEW k \in Jobs
          PROVE  /\ Recorded(k)' => (jobs'[k].state = "QUEUED" <=> jobs'[k].revision = 0)
                 /\ jobs'[k].state \in {"QUEUED"} \cup NoRecord => ~jobs'[k].cancel_requested
                 /\ ~Recorded(k)' => jobs'[k].run = NoRun
      <4>1. CASE k = j
        BY <2>5, <3>1, <3>2, <4>1
      <4>2. CASE k # j
        BY <2>4, <4>2 DEF QueueInvariant, RecordsTell, Recorded
      <4>3. QED
        BY <4>1, <4>2
    <3>4. QED
      BY <3>3 DEF RecordsTell
  <2>7. WorkerTells'
    <3>1. wk.pc \in WorkingPcs => wk.job \in Jobs /\ wk.job # j
      BY <2>1, Known DEF WorkingPcs, LoopPcs, Recorded, NoRecord
    <3>2. QED
      BY <1>1, <2>4, <3>1 DEF QueueInvariant, WorkerTells, WorkingPcs, ExecutorPcs
  <2>8. \A k \in Jobs :
          /\ jobs'[k].state = "QUEUED" => jobs[k].state = "QUEUED"
          /\ jobs'[k].state \in TransientStates => jobs[k].state \in TransientStates
    BY <2>4, <2>5 DEF TransientStates
  <2>9. QueuedJobIsScheduled'
    <3>1. /\ WorkerAlive' <=> WorkerAlive
          /\ InState({"QUEUED"})' \subseteq InState({"QUEUED"})
      BY <1>1, <2>8 DEF WorkerAlive, InState
    <3>2. QED
      BY <1>1, <3>1 DEF QueueInvariant, QueueIsCoherent, QueuedJobIsScheduled
  <2>10. RequestTells(request)
    BY <2>3 DEF RequestTells
  <2>11. QED
    BY <1>1, <2>2, <2>3, <2>6, <2>7, <2>8, <2>9, <2>10, RequestFrame
<1>4. QED
  BY <1>2, <1>3

\* The worker, if there is one, hears of every job that is recorded.
LEMMA CreateKeepsQueue ==
  ASSUME EvidenceInvariant, QueueInvariant, NEW c \in Clients, Create(c)
  PROVE  QueueInvariant'
<1> SUFFICES ASSUME NEW j, j = cl[c].job, NEW r, r = cl[c].run
             PROVE  QueueInvariant'
  OBVIOUS
<1>1. /\ c \in Threads /\ cl[c] \in ClientRecord /\ cl[c].pc = "create"
      /\ jobs \in [Jobs -> JobRecord]
      /\ UNCHANGED <<stopRequested, thread, wk, server>>
      /\ pending \in Seq(Jobs \cup {StopToken})
      /\ jobs' = [jobs EXCEPT ![j] = QueuedRecord(r)]
      /\ pending' = IF thread = "none" THEN pending ELSE Schedule(j)
  BY Known DEF Threads, Create
<1>2. j \in Jobs /\ jobs[j].state = "TORN"
  BY <1>1 DEF EvidenceInvariant, SubmitterKnows, Submitting, SubmitterHolds
<1>3. \A k \in Jobs : jobs'[k] = IF k = j THEN QueuedRecord(r) ELSE jobs[k]
  BY <1>1
<1>4. RecordsTell'
  <2>1. /\ QueuedRecord(r).state = "QUEUED" /\ QueuedRecord(r).revision = 0
        /\ ~QueuedRecord(r).cancel_requested
    BY DEF QueuedRecord
  <2>2. ASSUME NEW k \in Jobs
        PROVE  /\ Recorded(k)' => (jobs'[k].state = "QUEUED" <=> jobs'[k].revision = 0)
               /\ jobs'[k].state \in {"QUEUED"} \cup NoRecord => ~jobs'[k].cancel_requested
               /\ ~Recorded(k)' => jobs'[k].run = NoRun
    <3>1. CASE k = j
      BY <1>3, <2>1, <3>1 DEF Recorded, NoRecord
    <3>2. CASE k # j
      BY <1>3, <3>2 DEF QueueInvariant, RecordsTell, Recorded
    <3>3. QED
      BY <3>1, <3>2
  <2>3. QED
    BY <2>2 DEF RecordsTell
<1>5. WorkerTells'
  <2>1. wk.pc \in WorkingPcs => wk.job \in Jobs /\ wk.job # j
    BY <1>2, Known DEF WorkingPcs, LoopPcs, Recorded, NoRecord
  <2>2. QED
    BY <1>1, <1>3, <2>1 DEF QueueInvariant, WorkerTells, WorkingPcs, ExecutorPcs
<1>6. \A k \in Jobs : jobs'[k].state \in TransientStates => jobs[k].state \in TransientStates
  BY <1>3 DEF QueuedRecord, TransientStates
<1>7. QueuedJobIsScheduled'
  <2>1. ASSUME WorkerAlive', ~stopRequested', NEW k \in InState({"QUEUED"})'
        PROVE  \/ \E i \in DOMAIN pending' : pending'[i] = k
               \/ wk'.job = k /\ wk'.pc \in {"read", "claim"}
    <3>1. WorkerAlive /\ ~stopRequested /\ k \in Jobs /\ pending' = Schedule(j)
      BY <1>1, <2>1 DEF WorkerAlive, InState
    <3>2. \/ \E i \in DOMAIN pending : pending[i] = j
          \/ pending' = Append(pending, j)
      BY <3>1 DEF Schedule
    <3>3. /\ \A i \in DOMAIN pending : i \in DOMAIN pending' /\ pending'[i] = pending[i]
          /\ \E i \in DOMAIN pending' : pending'[i] = j
      BY <1>1, <1>2, <3>1, <3>2 DEF Schedule
    <3>4. CASE k = j
      BY <3>3, <3>4
    <3>5. CASE k # j
      <4>1. k \in InState({"QUEUED"})
        BY <1>3, <2>1, <3>1, <3>5 DEF InState
      <4>2. QED
        BY <1>1, <3>1, <3>3, <4>1 DEF QueueInvariant, QueueIsCoherent, QueuedJobIsScheduled
    <3>6. QED
      BY <3>4, <3>5
  <2>2. QED
    BY <2>1 DEF QueuedJobIsScheduled
<1>8. PICK request : cl' = [cl EXCEPT ![c] = request] /\ request.pc = "start"
  <2>1. [IdleClient EXCEPT !.pc = "start"].pc = "start"
    BY DEF IdleClient
  <2>2. QED
    BY <2>1 DEF Create
<1>9. RequestTells(request)
  BY <1>8 DEF RequestTells
<1>10. QED
  BY <1>1, <1>4, <1>5, <1>6, <1>7, <1>8, <1>9, RequestFrame

-----------------------------------------------------------------------------
(* start(): the queue is refilled and lost work interrupted, without a worker *)

\* A thread that starts belongs to an application that is booting, or up.
LEMMA Starters ==
  ASSUME EvidenceInvariant, QueueInvariant, NEW t \in Threads, cl[t].pc \in {"start", "recover"}
  PROVE  /\ IF t = Main THEN server = "booting" ELSE t \in Clients /\ server = "up"
         /\ Main \notin Clients
         /\ cl[t].pc = "recover" => wk.pc = "off"
         /\ QueueLockFree \/ cl[t].pc = "recover" =>
              \A u \in Threads \ {t} : cl[u].pc # "recover"
BY IdentityAssumption
   DEF Threads, QueueInvariant, ServerTells, QueueIsCoherent, RecoveryExcludesWorker, OneInQueue,
       QueueLockFree

\* start() finds a living worker, or raises.
LEMMA StartReturns ==
  ASSUME EvidenceInvariant, QueueInvariant, NEW t \in Threads,
         cl[t].pc = "recover" \/ (cl[t].pc = "start" /\ QueueLockFree),
         cl' = [cl EXCEPT ![t] = IdleClient], UNCHANGED <<jobs, wk, thread>>,
         server' = server \/ (t = Main /\ server' = "down"),
         WorkerAlive => UNCHANGED <<pending, stopRequested>>
  PROVE  QueueInvariant'
<1>1. /\ IF t = Main THEN server = "booting" ELSE t \in Clients /\ server = "up"
      /\ Main \notin Clients
      /\ \A u \in Threads \ {t} : cl[u].pc # "recover"
  BY Starters
<1>2. IdleClient.pc = "idle" /\ \A u \in Threads : cl'[u] = IF u = t THEN IdleClient ELSE cl[u]
  BY Known DEF IdleClient
<1>3. RecordsTell' /\ WorkerTells' /\ OneJobAtWork'
  BY DEF QueueInvariant, RecordsTell, Recorded, WorkerTells, OneJobAtWork, InState
<1>4. (\A u \in Threads : RequestTells(cl[u]))'
  BY <1>2 DEF QueueInvariant, RequestTells
<1>5. /\ WorkIsInHand' /\ QueueIsRefilled' /\ OneInQueue' /\ RecoveryExcludesWorker'
  BY <1>1, <1>2
     DEF QueueInvariant, WorkIsInHand, InState, QueueIsRefilled, OneInQueue, RecoveryExcludesWorker
<1>6. ServerTells'
  BY <1>1, <1>2 DEF QueueInvariant, ServerTells, Threads
<1>7. QueuedJobIsScheduled'
  BY DEF QueueInvariant, QueueIsCoherent, QueuedJobIsScheduled, WorkerAlive, InState
<1>8. QED
  BY <1>3, <1>4, <1>5, <1>6, <1>7 DEF QueueInvariant, QueueIsCoherent

\* start() reads all records: what waits is scheduled, what was in flight is its list.
LEMMA StartBeginKeepsQueue ==
  ASSUME EvidenceInvariant, QueueInvariant, NEW t \in Threads, StartBegin(t)
  PROVE  QueueInvariant'
<1>1. /\ cl[t].pc = "start" /\ QueueLockFree /\ UNCHANGED <<jobs, wk, thread>>
  BY DEF StartBegin, disk, memory
<1>2. CASE WorkerAlive
  <2>1. cl' = [cl EXCEPT ![t] = IdleClient] /\ server' = server
        /\ UNCHANGED <<pending, stopRequested>>
    BY <1>2 DEF StartBegin, memory
  <2>2. QED
    BY <1>1, <2>1, StartReturns
<1>3. CASE ~WorkerAlive /\ ~Listable
  <2>1. cl' = [cl EXCEPT ![t] = IdleClient] /\ server' = IF t = Main THEN "down" ELSE server
    BY <1>3 DEF StartBegin, StartRaises
  <2>2. QED
    BY <1>1, <1>3, <2>1, StartReturns
<1>4. CASE ~WorkerAlive /\ Listable
  <2> DEFINE request == [IdleClient EXCEPT !.pc = "recover",
                           !.todo = {<<j, jobs[j].revision>> : j \in InFlight}]
  <2>1. /\ cl' = [cl EXCEPT ![t] = request] /\ server' = server
        /\ \E q \in Queues : /\ {q[i] : i \in DOMAIN q} = InState({"QUEUED"})
                            /\ pending' = q
    BY <1>4 DEF StartBegin
  <2>2. request.pc = "recover" /\ request.todo = {<<j, jobs[j].revision>> : j \in InFlight}
    BY DEF IdleClient
  <2> HIDE DEF request
  <2>3. /\ IF t = Main THEN server = "booting" ELSE t \in Clients /\ server = "up"
        /\ Main \notin Clients
        /\ \A u \in Threads : cl[u].pc \notin {"recover", "create"}
        /\ \A u \in Threads : cl'[u] = IF u = t THEN request ELSE cl[u]
    BY <1>1, <2>1, Starters, Known DEF QueueLockFree
  <2>4. wk.pc = "off"
    BY <1>4 DEF WorkerAlive, QueueInvariant, ServerTells, EvidenceInvariant, TypeOK
  <2>5. RecordsTell' /\ WorkerTells' /\ OneJobAtWork'
    BY <1>1 DEF QueueInvariant, RecordsTell, Recorded, WorkerTells, OneJobAtWork, InState
  <2>6. (\A u \in Threads : RequestTells(cl[u]))'
    BY <2>2, <2>3 DEF QueueInvariant, RequestTells
  <2>7. WorkIsInHand'
    <3>1. ASSUME NEW j \in InState(TransientStates)', NEW u \in Threads, cl'[u].pc = "recover"
          PROVE  \E seen \in cl'[u].todo : seen[1] = j
      <4>1. cl'[u] = request /\ j \in InFlight
        BY <1>1, <2>3, <3>1 DEF InState, InFlight
      <4>2. <<j, jobs[j].revision>> \in request.todo
        BY <2>2, <4>1
      <4>3. QED
        BY <4>1, <4>2
    <3>2. QED
      BY <1>1, <2>4, <3>1 DEF WorkIsInHand
  <2>8. QueueIsRefilled'
    <3>1. ASSUME NEW j \in InState({"QUEUED"})'
          PROVE  InPending(j)'
      <4>1. j \in InState({"QUEUED"})
        BY <1>1, <3>1 DEF InState
      <4>2. QED
        BY <2>1, <4>1 DEF InPending
    <3>2. QED
      BY <3>1 DEF QueueIsRefilled
  <2>9. OneInQueue' /\ RecoveryExcludesWorker'
    BY <1>1, <2>3, <2>4 DEF OneInQueue, RecoveryExcludesWorker
  <2>10. ServerTells'
    BY <1>1, <2>1, <2>3, <2>4 DEF QueueInvariant, ServerTells, Threads
  <2>11. QueuedJobIsScheduled'
    BY <1>1, <2>4 DEF QueuedJobIsScheduled, WorkerAlive
  <2>12. QED
    BY <2>5, <2>6, <2>7, <2>8, <2>9, <2>10, <2>11 DEF QueueInvariant, QueueIsCoherent
<1>5. QED
  BY <1>2, <1>3, <1>4

\* What recovery interrupts had lost its worker.
LEMMA RecoverTells ==
  ASSUME EvidenceInvariant, NEW t \in Threads, NEW seen \in cl[t].todo,
         NEW j, j = seen[1],
         UpdateAllowed(jobs[j], seen[2], RecoveredState, FALSE, "WORKER_RESTART"),
         jobs' = [jobs EXCEPT ![j] = Updated(jobs[j], RecoveredState, FALSE, "WORKER_RESTART")]
  PROVE  /\ j \in Jobs /\ Recorded(j)
         /\ \E new \in JobRecord :
              /\ Replaced(j, new) /\ Ends(jobs[j], new) /\ new.state = "INTERRUPTED"
<1>1. /\ j \in Jobs /\ Recorded(j) /\ seen[2] \in Nat
      /\ jobs[j] \in JobRecord /\ jobs[j].state \in JobStates
      /\ RecoveredState = "INTERRUPTED" /\ RecoveredState \in Steps /\ "WORKER_RESTART" \in Errors
      /\ RecoveredState # Same
  <2>1. cl[t] \in ClientRecord /\ RequestHolds(cl[t])
    BY Known DEF EvidenceInvariant, ClientKnows
  <2>2. seen \in Jobs \X Nat /\ Recorded(seen[1])
    BY <2>1 DEF ClientRecord, RequestHolds
  <2>3. QED
    BY <2>2, Known DEF RecoveredState, Steps, JobStates, TerminalStates, Errors, Same
<1> DEFINE new == Updated(jobs[j], RecoveredState, FALSE, "WORKER_RESTART")
<1>2. ASSUME NEW flag \in BOOLEAN,
             UpdateAllowed(jobs[j], seen[2], RecoveredState, flag, "WORKER_RESTART")
      PROVE  LET it == Updated(jobs[j], RecoveredState, flag, "WORKER_RESTART") IN
             /\ it \in JobRecord
             /\ it.run = jobs[j].run /\ it.revision = jobs[j].revision + 1
             /\ it.state = Target(jobs[j], RecoveredState)
             /\ jobs[j].state \notin TerminalStates
             /\ RecoveredState \in AllowedTransitions(jobs[j].state)
             /\ it.cancel_requested <=> jobs[j].cancel_requested \/ flag
  BY <1>1, <1>2, UpdateTells
<1>3. /\ new \in JobRecord
      /\ new.run = jobs[j].run /\ new.revision = jobs[j].revision + 1
      /\ new.state = Target(jobs[j], RecoveredState)
      /\ jobs[j].state \notin TerminalStates
      /\ RecoveredState \in AllowedTransitions(jobs[j].state)
      /\ new.cancel_requested <=> jobs[j].cancel_requested
  BY <1>2
<1> HIDE DEF new
<1>4. Target(jobs[j], RecoveredState) = "INTERRUPTED"
  BY <1>1 DEF Target
<1>5. Becomes(jobs[j], new, "INTERRUPTED")
  BY <1>1, <1>3, <1>4 DEF Becomes
<1>6. Replaced(j, new)
  BY <1>3 DEF Replaced, new
<1>7. QED
  BY <1>1, <1>3, <1>4, <1>5, <1>6, BecomesTells

\* A recovery that goes on has one job less on its list, and in flight.
LEMMA RecoverKeepsQueue ==
  ASSUME EvidenceInvariant, QueueInvariant, NEW t \in Threads, RecoverJob(t)
  PROVE  QueueInvariant'
<1>1. /\ cl[t].pc = "recover" /\ UNCHANGED <<wk, memory>>
      /\ UNCHANGED <<pending, stopRequested, thread>>
      /\ cl \in [Threads -> ClientRecord] /\ cl[t] \in ClientRecord
  BY Known DEF RecoverJob, memory
<1>2. PICK seen \in cl[t].todo :
        IF UpdateAllowed(jobs[seen[1]], seen[2], RecoveredState, FALSE, "WORKER_RESTART")
          THEN /\ jobs' = [jobs EXCEPT ![seen[1]] =
                             Updated(jobs[seen[1]], RecoveredState, FALSE, "WORKER_RESTART")]
               /\ cl' = [cl EXCEPT ![t].todo = @ \ {seen}]
               /\ UNCHANGED server
          ELSE StartRaises(t) /\ UNCHANGED jobs
  BY DEF RecoverJob
<1>3. CASE ~UpdateAllowed(jobs[seen[1]], seen[2], RecoveredState, FALSE, "WORKER_RESTART")
  <2>1. cl' = [cl EXCEPT ![t] = IdleClient] /\ server' = (IF t = Main THEN "down" ELSE server)
        /\ jobs' = jobs
    BY <1>2, <1>3 DEF StartRaises
  <2>2. QED
    BY <1>1, <2>1, StartReturns
<1>4. CASE UpdateAllowed(jobs[seen[1]], seen[2], RecoveredState, FALSE, "WORKER_RESTART")
  <2> SUFFICES ASSUME NEW j, j = seen[1]
               PROVE  QueueInvariant'
    OBVIOUS
  <2>1. j \in Jobs /\ Recorded(j)
        /\ \E new \in JobRecord :
              Replaced(j, new) /\ Ends(jobs[j], new) /\ new.state = "INTERRUPTED"
    BY <1>2, <1>4, RecoverTells
  <2>2. PICK new \in JobRecord :
          Replaced(j, new) /\ Ends(jobs[j], new) /\ new.state = "INTERRUPTED"
    BY <2>1
  <2>3. cl' = [cl EXCEPT ![t].todo = @ \ {seen}] /\ server' = server
    BY <1>2, <1>4
  <2>4. /\ cl'[t].pc = "recover" /\ cl'[t].todo = cl[t].todo \ {seen}
        /\ \A u \in Threads : cl'[u].pc = cl[u].pc
        /\ \A u \in Threads \ {t} : cl'[u] = cl[u]
    BY <1>1, <2>3 DEF ClientRecord
  <2>5. wk.pc = "off" /\ \A u \in Threads \ {t} : cl[u].pc # "recover"
    BY <1>1, Starters
  <2>6. \A k \in Jobs : jobs'[k] = IF k = j THEN new ELSE jobs[k]
    BY <2>1, <2>2, Known DEF Replaced
  <2>7. \A k \in Jobs :
          /\ jobs'[k].state \in TransientStates => k # j /\ jobs'[k] = jobs[k]
          /\ jobs'[k].state = "QUEUED" => jobs[k].state = "QUEUED"
    BY <2>2, <2>6 DEF TransientStates
  <2>8. "INTERRUPTED" \in JobStates \ {"QUEUED"}
    BY DEF JobStates, TerminalStates
  <2>9. RecordsTell'
    BY <2>1, <2>2, <2>8, RecordsStillTell DEF QueueInvariant
  <2>10. WorkerTells' /\ OneJobAtWork'
    BY <1>1, <2>5, <2>7
       DEF QueueInvariant, WorkerTells, WorkingPcs, ExecutorPcs, OneJobAtWork, InState
  <2>11. ASSUME NEW u \in Threads
         PROVE  RequestTells(cl[u])'
    BY <2>4, <1>1 DEF QueueInvariant, RequestTells
  <2>12. WorkIsInHand'
    <3>1. ASSUME NEW k \in InState(TransientStates)', NEW u \in Threads, cl'[u].pc = "recover"
          PROVE  \E other \in cl'[u].todo : other[1] = k
      <4>1. u = t /\ k \in InState(TransientStates) /\ k # j
        BY <2>4, <2>5, <2>7, <3>1 DEF InState
      <4>2. PICK other \in cl[t].todo : other[1] = k
        BY <1>1, <4>1 DEF QueueInvariant, WorkIsInHand
      <4>3. QED
        BY <2>4, <4>1, <4>2
    <3>2. QED
      BY <1>1, <2>5, <3>1 DEF WorkIsInHand
  <2>13. QueueIsRefilled'
    BY <1>1, <2>4, <2>7 DEF QueueInvariant, QueueIsRefilled, InPending, InState
  <2>14. OneInQueue' /\ ServerTells' /\ RecoveryExcludesWorker'
    <3>1. OneInQueue' /\ RecoveryExcludesWorker'
      BY <1>1, <2>4, <2>5 DEF QueueInvariant, OneInQueue, RecoveryExcludesWorker
    <3>2. Main \in Threads /\ Clients \subseteq Threads
      BY DEF Threads
    <3>3. ServerTells'
      BY <1>1, <2>3, <2>4, <3>2 DEF QueueInvariant, ServerTells
    <3>4. QED
      BY <3>1, <3>3
  <2>15. QueuedJobIsScheduled'
    BY <1>1, <2>5 DEF QueuedJobIsScheduled, WorkerAlive
  <2>16. QED
    BY <2>9, <2>10, <2>11, <2>12, <2>13, <2>14, <2>15 DEF QueueInvariant, QueueIsCoherent
<1>5. QED
  BY <1>3, <1>4

\* A worker starts when nothing is in flight any more and all that waits is pending.
LEMMA StartWorkerKeepsQueue ==
  ASSUME EvidenceInvariant, QueueInvariant, NEW t \in Threads, StartWorker(t)
  PROVE  QueueInvariant'
<1>1. /\ cl[t].pc = "recover" /\ cl[t].todo = {} /\ wk' = Looping /\ thread' = "set"
      /\ cl' = [cl EXCEPT ![t] = IdleClient]
      /\ server' = IF t = Main THEN "up" ELSE server
      /\ UNCHANGED <<jobs, pending, stopRequested>>
  BY DEF StartWorker, disk
<1>2. /\ IF t = Main THEN server = "booting" ELSE t \in Clients /\ server = "up"
      /\ Main \notin Clients
      /\ \A u \in Threads \ {t} : cl[u].pc # "recover"
  BY <1>1, Starters
<1>3. /\ IdleClient.pc = "idle" /\ Looping.pc = "get"
      /\ \A u \in Threads : cl'[u] = IF u = t THEN IdleClient ELSE cl[u]
  BY <1>1, Known DEF IdleClient, Looping, WorkerAt
<1>4. InState(TransientStates) = {} /\ InState(TransientStates)' = {}
  BY <1>1 DEF QueueInvariant, WorkIsInHand, InState
<1>5. RecordsTell' /\ WorkerTells' /\ OneJobAtWork' /\ WorkIsInHand'
  BY <1>1, <1>3, <1>4
     DEF QueueInvariant, RecordsTell, Recorded, WorkerTells, WorkingPcs, ExecutorPcs, OneJobAtWork,
         WorkIsInHand
<1>6. (\A u \in Threads : RequestTells(cl[u]))'
  BY <1>3 DEF QueueInvariant, RequestTells
<1>7. QueueIsRefilled' /\ OneInQueue' /\ RecoveryExcludesWorker'
  BY <1>2, <1>3 DEF QueueInvariant, QueueIsRefilled, OneInQueue, RecoveryExcludesWorker
<1>8. ServerTells'
  BY <1>1, <1>2, <1>3 DEF QueueInvariant, ServerTells, Threads
<1>9. QueuedJobIsScheduled'
  BY <1>1 DEF QueueInvariant, QueueIsRefilled, InPending, QueuedJobIsScheduled, InState
<1>10. QED
  BY <1>5, <1>6, <1>7, <1>8, <1>9 DEF QueueInvariant, QueueIsCoherent

-----------------------------------------------------------------------------
(* The lifespan, the end of the process, and the start of all *)

\* Boot, shutdown and the loss of memory leave the records alone.
LEMMA LifespanKeepsQueue ==
  ASSUME EvidenceInvariant, QueueInvariant, Boot \/ StopBegin \/ StopJoin \/ StopClear
  PROVE  QueueInvariant'
<1>1. UNCHANGED <<jobs, wk>> /\ Main \in Threads /\ cl \in [Threads -> ClientRecord]
      /\ pending \in Seq(Jobs \cup {StopToken})
  BY Known DEF Boot, StopBegin, StopJoin, StopClear, disk, Threads
<1>2. RecordsTell' /\ WorkerTells' /\ OneJobAtWork'
  BY <1>1 DEF QueueInvariant, RecordsTell, Recorded, WorkerTells, OneJobAtWork, InState
<1>3. CASE Boot
  <2>1. /\ server = "down" /\ server' = "booting" /\ UNCHANGED <<pending, stopRequested, thread>>
        /\ \E request : /\ cl' = [cl EXCEPT ![Main] = request]
                        /\ request.pc = "start"
    <3>1. [IdleClient EXCEPT !.pc = "start"].pc = "start"
      BY DEF IdleClient
    <3>2. QED
      BY <1>3, <3>1 DEF Boot, memory
  <2>2. PICK request : cl' = [cl EXCEPT ![Main] = request] /\ request.pc = "start"
    BY <2>1
  <2>3. \A u \in Threads : cl'[u] = IF u = Main THEN request ELSE cl[u]
    BY <1>1, <2>2
  <2>4. (\A u \in Threads : RequestTells(cl[u]))'
    BY <2>2, <2>3 DEF QueueInvariant, RequestTells
  <2>5. WorkIsInHand' /\ QueueIsRefilled' /\ OneInQueue' /\ RecoveryExcludesWorker'
    BY <1>1, <2>1, <2>2, <2>3
       DEF QueueInvariant, QueueIsCoherent, WorkIsInHand, QueueIsRefilled, InPending, InState,
           OneInQueue, RecoveryExcludesWorker
  <2>6. ServerTells'
    BY <1>1, <2>1, <2>2, <2>3, IdentityAssumption DEF QueueInvariant, ServerTells, Threads
  <2>7. QueuedJobIsScheduled'
    BY <1>1, <2>1
       DEF QueueInvariant, QueueIsCoherent, QueuedJobIsScheduled, WorkerAlive, InState
  <2>8. QED
    BY <1>2, <2>4, <2>5, <2>6, <2>7 DEF QueueInvariant, QueueIsCoherent
<1>4. CASE StopBegin \/ StopJoin \/ StopClear
  <2>1. /\ UNCHANGED cl
        /\ thread' = thread \/ wk.pc = "off"
        /\ pending' = pending \/ pending' = Append(pending, StopToken)
    BY <1>4 DEF StopBegin, StopJoin, StopClear, memory, QueueInvariant, ServerTells
  <2>2. (\A u \in Threads : RequestTells(cl[u]))'
    BY <2>1 DEF QueueInvariant, RequestTells
  <2>3. WorkIsInHand' /\ OneInQueue' /\ RecoveryExcludesWorker'
    BY <1>1, <2>1
       DEF QueueInvariant, QueueIsCoherent, WorkIsInHand, InState, OneInQueue,
           RecoveryExcludesWorker
  <2>4. \A i \in DOMAIN pending : i \in DOMAIN pending' /\ pending'[i] = pending[i]
    BY <1>1, <2>1
  <2>5. QueueIsRefilled'
    BY <1>1, <2>1, <2>4 DEF QueueInvariant, QueueIsRefilled, InPending, InState
  <2>6. ServerTells'
    <3>1. CASE StopBegin
      BY <1>1, <2>1, <3>1 DEF StopBegin, AllIdle, Threads, QueueInvariant, ServerTells
    <3>2. CASE StopJoin
      BY <1>1, <2>1, <3>2 DEF StopJoin, QueueInvariant, ServerTells
    <3>3. CASE StopClear
      BY <1>1, <2>1, <3>3 DEF StopClear, QueueInvariant, ServerTells
    <3>4. QED
      BY <1>4, <3>1, <3>2, <3>3
  <2>7. QueuedJobIsScheduled'
    <3>1. CASE StopBegin
      BY <3>1 DEF StopBegin, QueuedJobIsScheduled
    <3>2. CASE StopJoin \/ StopClear
      <4>1. wk.pc = "off"
        BY <3>2 DEF StopJoin, StopClear, QueueInvariant, ServerTells
      <4>2. QED
        BY <1>1, <4>1 DEF QueuedJobIsScheduled, WorkerAlive
    <3>3. QED
      BY <1>4, <3>1, <3>2
  <2>8. QED
    BY <1>2, <2>2, <2>3, <2>5, <2>6, <2>7 DEF QueueInvariant, QueueIsCoherent
<1>5. QED
  BY <1>3, <1>4

\* Without memory there is no worker, no request and no recovery.
LEMMA WithoutMemory ==
  ASSUME RecordsTell', OneJobAtWork', thread' = "none", wk' = Off, server' = "down",
         cl' = [t \in Threads |-> IdleClient]
  PROVE  QueueInvariant'
<1>1. /\ wk'.pc = "off"
      /\ \A t \in Threads : cl'[t].pc = "idle"
  BY DEF Off, WorkerAt, IdleClient
<1>2. WorkerTells' /\ (\A t \in Threads : RequestTells(cl[t]))'
  BY <1>1 DEF WorkerTells, WorkingPcs, ExecutorPcs, RequestTells
<1>3. WorkIsInHand' /\ QueueIsRefilled' /\ OneInQueue' /\ RecoveryExcludesWorker'
  BY <1>1 DEF WorkIsInHand, QueueIsRefilled, OneInQueue, RecoveryExcludesWorker
<1>4. ServerTells' /\ QueuedJobIsScheduled'
  BY <1>1 DEF ServerTells, Threads, QueuedJobIsScheduled, WorkerAlive
<1>5. QED
  BY <1>2, <1>3, <1>4 DEF QueueInvariant, QueueIsCoherent

LEMMA QueueAtStart == Init => QueueInvariant
<1> SUFFICES ASSUME Init
             PROVE  QueueInvariant
  OBVIOUS
<1>1. \A j \in Jobs :
        jobs[j].state = "NONE" /\ ~jobs[j].cancel_requested /\ jobs[j].run = NoRun
  BY DEF Init, NoJobRecord
<1>2. RecordsTell /\ InState(TransientStates) = {}
  BY <1>1 DEF RecordsTell, Recorded, NoRecord, InState, TransientStates
<1>3. wk.pc = "off" /\ \A t \in Threads : cl[t].pc = "idle"
  BY DEF Init, Off, WorkerAt, IdleClient
<1>4. /\ WorkerTells /\ \A t \in Threads : RequestTells(cl[t])
      /\ OneJobAtWork
  BY <1>2, <1>3 DEF WorkerTells, WorkingPcs, ExecutorPcs, RequestTells, OneJobAtWork
<1>5. WorkIsInHand /\ QueueIsRefilled /\ OneInQueue /\ RecoveryExcludesWorker
  BY <1>3 DEF WorkIsInHand, QueueIsRefilled, OneInQueue, RecoveryExcludesWorker
<1>6. ServerTells /\ QueuedJobIsScheduled
  BY <1>3 DEF ServerTells, Threads, QueuedJobIsScheduled, WorkerAlive, Init
<1>7. QED
  BY <1>2, <1>4, <1>5, <1>6 DEF QueueInvariant, QueueIsCoherent

\* A step that leaves everything as it is.
LEMMA QueueStutters ==
  ASSUME QueueInvariant, UNCHANGED vars
  PROVE  QueueInvariant'
<1>1. UNCHANGED <<jobs, pending, stopRequested, thread, wk, cl, server>>
  BY DEF vars, disk, memory
<1>2. RecordsTell' /\ WorkerTells' /\ OneJobAtWork' /\ WorkIsInHand'
  BY <1>1 DEF QueueInvariant, RecordsTell, Recorded, WorkerTells, OneJobAtWork, WorkIsInHand,
              InState
<1>3. (\A t \in Threads : RequestTells(cl[t]))'
  BY <1>1 DEF QueueInvariant, RequestTells
<1>4. QueueIsRefilled' /\ OneInQueue' /\ ServerTells'
  BY <1>1 DEF QueueInvariant, QueueIsRefilled, InPending, InState, OneInQueue, ServerTells
<1>5. QueueIsCoherent'
  BY <1>1 DEF QueueInvariant, QueueIsCoherent, QueuedJobIsScheduled, RecoveryExcludesWorker,
              WorkerAlive, InState
<1>6. QED
  BY <1>2, <1>3, <1>4, <1>5 DEF QueueInvariant

LEMMA QueueStep ==
  ASSUME EvidenceInvariant, QueueInvariant, [Next]_vars
  PROVE  QueueInvariant'
<1>1. CASE Worker
  BY <1>1, GetKeepsQueue, ReadKeepsQueue, ClaimKeepsQueue, ReadsKeepQueue, UpdatesKeepQueue,
     WriterKeepsQueue DEF Worker
<1>2. CASE WriteFails \/ StoreFails
  BY <1>2, WriterKeepsQueue, StoreFailsKeepsQueue
<1>3. ASSUME NEW c \in Clients, Request(c)
      PROVE  QueueInvariant'
  BY <1>3, QuietRequestsKeepQueue, CancelKeepsQueue, EnqueueKeepsQueue, CreateKeepsQueue
     DEF Request
<1>4. ASSUME NEW t \in Threads, Start(t)
      PROVE  QueueInvariant'
  BY <1>4, StartBeginKeepsQueue, RecoverKeepsQueue, StartWorkerKeepsQueue DEF Start
<1>5. CASE Exit \/ Crash
  <2>1. /\ jobs' = jobs /\ thread' = "none" /\ wk' = Off /\ server' = "down"
        /\ cl' = [t \in Threads |-> IdleClient]
    BY <1>5 DEF Exit, Crash, ForgetMemory, disk
  <2>2. RecordsTell' /\ OneJobAtWork'
    BY <2>1 DEF QueueInvariant, RecordsTell, Recorded, OneJobAtWork, InState
  <2>3. QED
    BY <2>1, <2>2, WithoutMemory
<1>6. CASE Lifespan
  BY <1>5, <1>6, LifespanKeepsQueue DEF Lifespan
<1>7. CASE Waiting \/ UNCHANGED vars
  BY <1>7, QueueStutters DEF Waiting
<1>8. QED
  BY <1>1, <1>2, <1>3, <1>4, <1>5, <1>6, <1>7 DEF Next

-----------------------------------------------------------------------------
(* The theorems of the queue *)

\* What disk, queue, worker and server know of each other at any time.
THEOREM QueueTheorem == Spec => []QueueInvariant
<1>1. Init => QueueInvariant
  BY QueueAtStart
<1>2. EvidenceInvariant /\ QueueInvariant /\ [Next]_vars => QueueInvariant'
  BY QueueStep
<1>3. QED
  BY <1>1, <1>2, EvidenceTheorem, PTL DEF Spec

\* Nothing that waits is forgotten while a worker lives, and recovery never runs beside a
\* worker (queue.py:44-85).
THEOREM CoherentQueueTheorem == Spec => []QueueIsCoherent
<1>1. QueueInvariant => QueueIsCoherent
  BY DEF QueueInvariant
<1>2. QED
  BY <1>1, QueueTheorem, PTL

\* No two records are ever in flight, over crashes, restarts and dead workers (queue.py:22).
THEOREM OneWorkerTheorem == Spec => []OneJobAtWork
<1>1. QueueInvariant => OneJobAtWork
  BY DEF QueueInvariant
<1>2. QED
  BY <1>1, QueueTheorem, PTL

-----------------------------------------------------------------------------
(* What a step does to the records *)

InHand(j) == wk.job = j /\ wk.pc # "off"

Claimed ==
  \E j \in Jobs, new \in JobRecord :
    /\ Recorded(j) /\ Replaced(j, new) /\ Claims(jobs[j], new)
    /\ InState(TransientStates) = {}

Advanced ==
  \E j \in Jobs, new \in JobRecord :
    Recorded(j) /\ Replaced(j, new) /\ Advances(jobs[j], new) /\ InHand(j)

Ended ==
  \E j \in Jobs, new \in JobRecord :
    /\ Recorded(j) /\ Replaced(j, new) /\ Ends(jobs[j], new)
    /\ new.state = "INTERRUPTED" \/ InHand(j)

Asked ==
  \E j \in Jobs, new \in JobRecord :
    Recorded(j) /\ Replaced(j, new) /\ AsksToStop(jobs[j], new)

Made == \E j \in Jobs : jobs[j].state = "NONE" /\ jobs' = [jobs EXCEPT ![j].state = "TORN"]

Submitted ==
  \E j \in Jobs, r \in Runs :
    /\ jobs[j].state = "TORN" /\ jobs' = [jobs EXCEPT ![j] = QueuedRecord(r)]
    /\ ActiveJobs(r) = {} /\ CompleteJobs(r) = {}

Completed ==
  \E j \in Jobs, new \in JobRecord :
    /\ Recorded(j) /\ Replaced(j, new) /\ InHand(j)
    /\ jobs[j].state = "WRITING_ARTIFACT" /\ new.state = "COMPLETE"
    /\ ~jobs[j].cancel_requested /\ ~new.cancel_requested
    /\ jobs[j].run \in Runs /\ CompleteJobs(jobs[j].run) = {}
    /\ result[jobs[j].run] = j /\ provenance[jobs[j].run] = j
    /\ UNCHANGED <<result, provenance>>

RecordsChange ==
  Claimed \/ Advanced \/ Ended \/ Asked \/ Made \/ Submitted \/ Completed \/ jobs' = jobs

LEMMA WorkerChanges ==
  ASSUME EvidenceInvariant, QueueInvariant, Worker \/ WriteFails \/ StoreFails
  PROVE  RecordsChange
<1>1. CASE \/ WorkerGet \/ WorkerRead \/ WorkerReread \/ WorkerFinish \/ ExecuteBegin \/ ReadInputs
           \/ Compute \/ AdvanceRead \/ TransitionRead \/ CheckCancel \/ WriteResult
           \/ WriteProvenance \/ WriteFails \/ StoreFails
  <2>1. jobs' = jobs
    BY <1>1 DEF WorkerGet, WorkerRead, WorkerReread, WorkerFinish, ExecuteBegin, ReadInputs,
                Compute, AdvanceRead, TransitionRead, CheckCancel, WorkerStep, WriteResult,
                WriteProvenance, WriteFails, StoreFails, disk
  <2>2. QED
    BY <2>1 DEF RecordsChange
<1>2. CASE WorkerClaim
  <2>1. /\ wk.job \in Jobs /\ Recorded(wk.job)
        /\ InState(TransientStates) = {}
    BY <1>2, Known
       DEF WorkerClaim, LoopPcs, QueueInvariant, WorkIsInHand, WorkingPcs, ExecutorPcs
  <2>2. jobs' = jobs \/ Claimed
    BY <1>2, <2>1, ClaimTells DEF Claimed
  <2>3. QED
    BY <2>2 DEF RecordsChange
<1>3. CASE AdvanceCas \/ FailCas \/ WorkerFinishCas
  <2>1. /\ wk.job \in Jobs /\ Recorded(wk.job) /\ InHand(wk.job)
    BY <1>3, Known DEF AdvanceCas, FailCas, WorkerFinishCas, LoopPcs, ExecutorPcs, InHand
  <2>2. CASE jobs' # jobs
    BY <1>3, <2>1, <2>2, WorkerMoves DEF RecordsChange, Advanced, Ended
  <2>3. CASE jobs' = jobs
    BY <2>3 DEF RecordsChange
  <2>4. QED
    BY <2>2, <2>3
<1>4. CASE Commit
  <2>1. /\ wk.job \in Jobs /\ Recorded(wk.job) /\ InHand(wk.job)
        /\ jobs[wk.job].state = "WRITING_ARTIFACT" /\ ~jobs[wk.job].cancel_requested
        /\ jobs[wk.job].run \in Runs /\ CompleteJobs(jobs[wk.job].run) = {}
        /\ result[jobs[wk.job].run] = wk.job /\ provenance[jobs[wk.job].run] = wk.job
    BY <1>4, Writers DEF Commit, Writing, InHand
  <2>2. jobs' = jobs \/ Completed
    BY <1>4, <2>1, CommitTells DEF Completed
  <2>3. QED
    BY <2>2 DEF RecordsChange
<1>5. QED
  BY <1>1, <1>2, <1>3, <1>4 DEF Worker

LEMMA RequestChanges ==
  ASSUME EvidenceInvariant, QueueInvariant, NEW c \in Clients, Request(c)
  PROVE  RecordsChange
<1>1. CASE \/ CancelBegin(c) \/ CancelRead(c) \/ CreateRun(c) \/ RetryCheck(c)
           \/ DiscardResult(c) \/ DiscardProvenance(c) \/ EnqueueFails(c)
  <2>1. jobs' = jobs
    BY <1>1 DEF CancelBegin, CancelRead, CreateRun, RetryCheck, DiscardResult, DiscardProvenance,
                EnqueueFails, ClientStep, disk
  <2>2. QED
    BY <2>1 DEF RecordsChange
<1>2. CASE CancelCas(c)
  BY <1>2, CancelTells DEF RecordsChange, Asked
<1>3. CASE Enqueue(c)
  <2>1. jobs' = jobs \/ Made
    BY <1>3 DEF Enqueue, NewJob, Made
  <2>2. QED
    BY <2>1 DEF RecordsChange
<1>4. CASE Create(c)
  <2>1. c \in Threads /\ SubmitterHolds(c) /\ cl[c].pc = "create" /\ runs \subseteq Runs
    BY <1>4 DEF Create, Threads, EvidenceInvariant, SubmitterKnows, Submitting, TypeOK
  <2>2. /\ cl[c].job \in Jobs /\ jobs[cl[c].job].state = "TORN" /\ cl[c].run \in Runs
        /\ ActiveJobs(cl[c].run) = {} /\ CompleteJobs(cl[c].run) = {}
        /\ jobs' = [jobs EXCEPT ![cl[c].job] = QueuedRecord(cl[c].run)]
    BY <1>4, <2>1 DEF SubmitterHolds, Create
  <2>3. Submitted
    BY <2>2 DEF Submitted
  <2>4. QED
    BY <2>3 DEF RecordsChange
<1>5. QED
  BY <1>1, <1>2, <1>3, <1>4 DEF Request

LEMMA StepChanges ==
  ASSUME EvidenceInvariant, QueueInvariant, [Next]_vars
  PROVE  RecordsChange
<1>1. ASSUME NEW t \in Threads, Start(t)
      PROVE  RecordsChange
  <2>1. CASE StartBegin(t) \/ StartWorker(t)
    BY <2>1 DEF StartBegin, StartWorker, disk, RecordsChange
  <2>2. CASE RecoverJob(t)
    <3>1. PICK seen \in cl[t].todo :
            IF UpdateAllowed(jobs[seen[1]], seen[2], RecoveredState, FALSE, "WORKER_RESTART")
              THEN jobs' = [jobs EXCEPT ![seen[1]] =
                              Updated(jobs[seen[1]], RecoveredState, FALSE, "WORKER_RESTART")]
              ELSE UNCHANGED jobs
      BY <2>2 DEF RecoverJob
    <3>2. CASE ~UpdateAllowed(jobs[seen[1]], seen[2], RecoveredState, FALSE, "WORKER_RESTART")
      BY <3>1, <3>2 DEF RecordsChange
    <3>3. CASE UpdateAllowed(jobs[seen[1]], seen[2], RecoveredState, FALSE, "WORKER_RESTART")
      <4>1. /\ seen[1] \in Jobs /\ Recorded(seen[1])
            /\ \E new \in JobRecord : /\ Replaced(seen[1], new) /\ Ends(jobs[seen[1]], new)
                                     /\ new.state = "INTERRUPTED"
        BY <3>1, <3>3, RecoverTells
      <4>2. QED
        BY <4>1 DEF RecordsChange, Ended
    <3>4. QED
      BY <3>2, <3>3
  <2>3. QED
    BY <1>1, <2>1, <2>2 DEF Start
<1>2. CASE Lifespan \/ Crash \/ Waiting \/ UNCHANGED vars
  BY <1>2 DEF Lifespan, Boot, StopBegin, StopJoin, StopClear, Exit, Crash, Waiting, vars, disk,
              RecordsChange
<1>3. QED
  BY <1>1, <1>2, WorkerChanges, RequestChanges DEF Next

\* NoResumption, of one step.
LostWorkIsInterrupted ==
  \A j \in InState(TransientStates) :
    jobs'[j].state # jobs[j].state /\ (wk.job # j \/ wk.pc = "off") =>
      jobs'[j].state = "INTERRUPTED"

LEMMA NothingIsResumed ==
  ASSUME EvidenceInvariant, RecordsChange
  PROVE  LostWorkIsInterrupted
<1>1. jobs \in [Jobs -> JobRecord]
  BY Known
<1>2. CASE \E j \in Jobs, new \in JobRecord : Replaced(j, new) /\ InHand(j)
  BY <1>1, <1>2 DEF Replaced, InHand, LostWorkIsInterrupted, InState
<1>3. CASE Claimed
  BY <1>1, <1>3 DEF Claimed, LostWorkIsInterrupted
<1>4. CASE Ended
  BY <1>1, <1>2, <1>4 DEF Ended, Replaced, LostWorkIsInterrupted, InState
<1>5. CASE Asked
  <2>1. PICK j \in Jobs, new \in JobRecord : Replaced(j, new) /\ AsksToStop(jobs[j], new)
    BY <1>5 DEF Asked
  <2>2. \A k \in Jobs : jobs'[k] = IF k = j THEN new ELSE jobs[k]
    BY <1>1, <2>1 DEF Replaced
  <2>3. jobs[j].state \in TransientStates => new.state = jobs[j].state
    BY <2>1 DEF AsksToStop, TransientStates
  <2>4. QED
    BY <2>2, <2>3 DEF LostWorkIsInterrupted, InState
<1>6. CASE Made
  <2>1. PICK j \in Jobs : jobs[j].state = "NONE" /\ jobs' = [jobs EXCEPT ![j].state = "TORN"]
    BY <1>6 DEF Made
  <2>2. \A k \in Jobs \ {j} : jobs'[k] = jobs[k]
    BY <1>1, <2>1
  <2>3. QED
    BY <2>1, <2>2 DEF LostWorkIsInterrupted, InState, TransientStates
<1>7. CASE Submitted
  <2>1. PICK j \in Jobs, r \in Runs :
          jobs[j].state = "TORN" /\ jobs' = [jobs EXCEPT ![j] = QueuedRecord(r)]
    BY <1>7 DEF Submitted
  <2>2. \A k \in Jobs \ {j} : jobs'[k] = jobs[k]
    BY <1>1, <2>1
  <2>3. QED
    BY <2>1, <2>2 DEF LostWorkIsInterrupted, InState, TransientStates
<1>8. CASE jobs' = jobs
  BY <1>8 DEF LostWorkIsInterrupted
<1>9. QED
  BY <1>2, <1>3, <1>4, <1>5, <1>6, <1>7, <1>8 DEF RecordsChange, Advanced, Completed

-----------------------------------------------------------------------------
(* The lifecycle *)

\* The evidence a reader gets of a run, step by step: nothing but a commit changes it.
PublishedStays == \A r \in Runs : Published(r)' = Published(r)

LEMMA OnlyCommitsPublish ==
  ASSUME EvidenceInvariant, Effect,
         \A j \in Jobs : jobs'[j].state = "COMPLETE" => jobs[j].state = "COMPLETE"
  PROVE  PublishedStays
<1>1. jobs \in [Jobs -> JobRecord]
  BY Known
<1>2. ASSUME \A r \in Runs : CompleteJobs(r)' = CompleteJobs(r),
             \A r \in Runs : CompleteJobs(r) # {} =>
               result'[r] = result[r] /\ provenance'[r] = provenance[r]
      PROVE  PublishedStays
  BY <1>2 DEF PublishedStays, Published
<1>3. CASE JobsStep /\ FilesAreLeftAlone
  <2>1. \A k \in Jobs :
          /\ jobs'[k].run = jobs[k].run
          /\ jobs'[k].state \in NoRecord <=> jobs[k].state \in NoRecord
          /\ jobs'[k].state = "COMPLETE" <=> jobs[k].state = "COMPLETE"
    BY <1>1, <1>3, JobsStepKeeps
  <2>2. \A r \in Runs : CompleteJobs(r)' = CompleteJobs(r)
    BY <2>1 DEF CompleteJobs, JobsOf, Recorded
  <2>3. QED
    BY <1>2, <1>3, <2>2 DEF FilesAreLeftAlone
<1>4. CASE FilesStep
  BY <1>2, <1>4 DEF FilesStep, CompleteJobs, JobsOf, Recorded
<1>5. CASE TornStep
  <2>1. PICK j \in Jobs : jobs[j].state = "NONE" /\ jobs' = [jobs EXCEPT ![j].state = "TORN"]
    BY <1>5 DEF TornStep
  <2>2. jobs'[j].state = "TORN" /\ \A k \in Jobs \ {j} : jobs'[k] = jobs[k]
    BY <1>1, <2>1 DEF JobRecord
  <2>3. \A r \in Runs : CompleteJobs(r)' = CompleteJobs(r)
    BY <2>1, <2>2 DEF CompleteJobs, JobsOf, Recorded
  <2>4. QED
    BY <1>2, <1>5, <2>3 DEF TornStep, FilesAreLeftAlone
<1>6. CASE RecordStep
  <2>1. PICK j \in Jobs, r \in Runs :
          jobs[j].state = "TORN" /\ jobs' = [jobs EXCEPT ![j] = QueuedRecord(r)]
    BY <1>6 DEF RecordStep
  <2>2. jobs'[j].state = "QUEUED" /\ \A k \in Jobs \ {j} : jobs'[k] = jobs[k]
    BY <1>1, <2>1 DEF QueuedRecord
  <2>3. \A q \in Runs : CompleteJobs(q)' = CompleteJobs(q)
    BY <2>1, <2>2 DEF CompleteJobs, JobsOf, Recorded
  <2>4. QED
    BY <1>2, <1>6, <2>3 DEF RecordStep, FilesAreLeftAlone
<1>7. CASE CommitStep
  BY <1>1, <1>7 DEF CommitStep
<1>8. QED
  BY <1>3, <1>4, <1>5, <1>6, <1>7 DEF Effect

\* The states of the lifecycle are those of the records.
LEMMA SameStates ==
  /\ Lifecycle!TerminalStates = TerminalStates /\ Lifecycle!TransientStates = TransientStates
  /\ Lifecycle!NextPhase = NextPhase
BY DEF Lifecycle!TerminalStates, TerminalStates, Lifecycle!TransientStates, TransientStates,
       Lifecycle!NextPhase, NextPhase

LEMMA LifecycleStarts == Init => Lifecycle!LifecycleInit
<1> SUFFICES ASSUME Init
             PROVE  Lifecycle!LifecycleInit
  OBVIOUS
<1>1. \A j \in Jobs : jobs[j] = NoJobRecord /\ ~Recorded(j)
  BY DEF Init, NoJobRecord, Recorded, NoRecord
<1>2. \A r \in Runs : CompleteJobs(r) = {} /\ Published(r) = NoJob
  BY <1>1 DEF CompleteJobs, JobsOf, Published
<1>3. /\ [j \in Jobs |-> IF Recorded(j) THEN jobs[j].state ELSE "NONE"] = [j \in Jobs |-> "NONE"]
      /\ [j \in Jobs |-> jobs[j].run] = [j \in Jobs |-> NoRun]
  BY <1>1 DEF NoJobRecord
<1>4. [j \in Jobs |-> jobs[j].cancel_requested] = [j \in Jobs |-> FALSE]
  <2>1. \A j \in Jobs : jobs[j].cancel_requested = FALSE
    BY <1>1 DEF NoJobRecord
  <2>2. QED
    BY <2>1, Zenon
<1>5. [r \in Runs |-> Published(r)] = [r \in Runs |-> NoJob]
  BY <1>2
<1>6. QED
  BY <1>3, <1>4, <1>5 DEF Lifecycle!LifecycleInit

\* A step that replaces one record, seen from the lifecycle.
LEMMA ReplacedIsSeen ==
  ASSUME EvidenceInvariant, NEW j \in Jobs, Recorded(j), NEW new \in JobRecord,
         Replaced(j, new), new.state \in JobStates
  PROVE  /\ \A k \in Jobs : jobs'[k] = IF k = j THEN new ELSE jobs[k]
         /\ \A k \in Jobs : Recorded(k)' <=> Recorded(k)
         /\ \A k \in Jobs : jobs'[k].run = jobs[k].run
<1>1. \A k \in Jobs : jobs'[k] = IF k = j THEN new ELSE jobs[k]
  BY Known DEF Replaced
<1>2. new.run = jobs[j].run /\ new.state \notin NoRecord
  BY DEF Replaced, JobStates, NoRecord, TransientStates, TerminalStates
<1>3. QED
  BY <1>1, <1>2 DEF Recorded

\* The variables of the lifecycle.
StateOf == [j \in Jobs |-> IF Recorded(j) THEN jobs[j].state ELSE "NONE"]
RunOf == [j \in Jobs |-> jobs[j].run]
Cancelled == [j \in Jobs |-> jobs[j].cancel_requested]
PublishedOf == [r \in Runs |-> Published(r)]

\* What they are worth after a step that replaces one record.
LEMMA ReplacedIsMapped ==
  ASSUME EvidenceInvariant, NEW j \in Jobs, Recorded(j), NEW new \in JobRecord,
         Replaced(j, new), new.state \in JobStates
  PROVE  /\ StateOf' = [StateOf EXCEPT ![j] = new.state]
         /\ RunOf' = RunOf
         /\ Cancelled' = [Cancelled EXCEPT ![j] = new.cancel_requested]
         /\ (new.cancel_requested <=> jobs[j].cancel_requested) => Cancelled' = Cancelled
         /\ StateOf[j] = jobs[j].state
<1>1. /\ \A k \in Jobs : jobs'[k] = IF k = j THEN new ELSE jobs[k]
      /\ \A k \in Jobs : Recorded(k)' <=> Recorded(k)
      /\ \A k \in Jobs : jobs'[k].run = jobs[k].run
  BY ReplacedIsSeen
<1>2. /\ StateOf' = [StateOf EXCEPT ![j] = new.state] /\ RunOf' = RunOf
      /\ StateOf[j] = jobs[j].state
  BY <1>1 DEF StateOf, RunOf
<1>3. Cancelled' = [Cancelled EXCEPT ![j] = new.cancel_requested]
  <2>1. \A k \in Jobs : jobs'[k].cancel_requested =
          IF k = j THEN new.cancel_requested ELSE jobs[k].cancel_requested
    BY <1>1, Zenon
  <2>2. QED
    BY <2>1, Zenon DEF Cancelled
<1>4. ASSUME new.cancel_requested <=> jobs[j].cancel_requested
      PROVE  Cancelled' = Cancelled
  <2>1. new.cancel_requested = jobs[j].cancel_requested
    BY <1>4, Known DEF JobRecord
  <2>2. \A k \in Jobs : jobs'[k].cancel_requested = jobs[k].cancel_requested
    BY <1>1, <2>1, Zenon
  <2>3. QED
    BY <2>2, Zenon DEF Cancelled
<1>5. QED
  BY <1>2, <1>3, <1>4

\* A record moves on.
LEMMA ClaimsAndAdvances ==
  ASSUME EvidenceInvariant, Effect, Claimed \/ Advanced
  PROVE  Lifecycle!LifecycleNext
<1>1. PICK j \in Jobs, new \in JobRecord :
        /\ Recorded(j) /\ Replaced(j, new)
        /\ \/ Claims(jobs[j], new) /\ InState(TransientStates) = {}
           \/ Advances(jobs[j], new)
  BY DEF Claimed, Advanced
<1>2. /\ jobs[j].state \in {"QUEUED"} \cup (TransientStates \ {"WRITING_ARTIFACT"})
      /\ new.state = NextPhase[jobs[j].state]
      /\ ~jobs[j].cancel_requested /\ ~new.cancel_requested
      /\ jobs[j].state = "QUEUED" => InState(TransientStates) = {}
  BY <1>1 DEF Claims, Advances, NextPhase, TransientStates
<1>3. new.state \in {"VALIDATING", "EVALUATING", "ANALYZING", "WRITING_ARTIFACT"}
  BY <1>2 DEF NextPhase, TransientStates
<1>4. new.state \in JobStates /\ new.state # "COMPLETE"
  BY <1>3 DEF JobStates, TransientStates
<1>5. /\ StateOf' = [StateOf EXCEPT ![j] = new.state] /\ RunOf' = RunOf /\ Cancelled' = Cancelled
      /\ StateOf[j] = jobs[j].state
  BY <1>1, <1>2, <1>4, ReplacedIsMapped
<1>6. PublishedOf' = PublishedOf
  <2>1. \A k \in Jobs : jobs'[k].state = "COMPLETE" => jobs[k].state = "COMPLETE"
    BY <1>1, <1>4, Known DEF Replaced
  <2>2. QED
    BY <2>1, OnlyCommitsPublish DEF PublishedStays, PublishedOf
<1>7. ~Cancelled[j] /\ (StateOf[j] = "QUEUED" => \A k \in Jobs : StateOf[k] \notin TransientStates)
  <2>1. ~Cancelled[j]
    BY <1>2 DEF Cancelled
  <2>2. StateOf[j] = "QUEUED" => \A k \in Jobs : StateOf[k] \notin TransientStates
    BY <1>2, <1>5 DEF StateOf, InState, TransientStates
  <2>3. QED
    BY <2>1, <2>2
<1>8. Lifecycle!Advance(j)
  <2>1. StateOf' = [StateOf EXCEPT ![j] = NextPhase[StateOf[j]]]
    BY <1>2, <1>5
  <2>2. StateOf[j] \in {"QUEUED"} \cup (TransientStates \ {"WRITING_ARTIFACT"})
    BY <1>2, <1>5
  <2>3. QED
    BY <1>5, <1>6, <1>7, <2>1, <2>2, SameStates, Zenon
       DEF Lifecycle!Advance, StateOf, RunOf, Cancelled, PublishedOf
<1>9. QED
  BY <1>8 DEF Lifecycle!LifecycleNext

\* A record that is replaced, and not by a COMPLETE one, publishes nothing.
LEMMA ReplacedPublishesNothing ==
  ASSUME EvidenceInvariant, Effect, NEW j \in Jobs, NEW new \in JobRecord,
         Replaced(j, new), new.state # "COMPLETE"
  PROVE  PublishedOf' = PublishedOf
<1>1. \A k \in Jobs : jobs'[k].state = "COMPLETE" => jobs[k].state = "COMPLETE"
  BY Known DEF Replaced
<1>2. QED
  BY <1>1, OnlyCommitsPublish DEF PublishedStays, PublishedOf

\* Work ends without evidence.
LEMMA EndsAreAbandoned ==
  ASSUME EvidenceInvariant, Effect, Ended
  PROVE  Lifecycle!LifecycleNext
<1>1. PICK j \in Jobs, new \in JobRecord :
        Recorded(j) /\ Replaced(j, new) /\ Ends(jobs[j], new)
  BY DEF Ended
<1>2. /\ jobs[j].state \in TransientStates
      /\ new.state \in {"FAILED", "INTERRUPTED", "CANCELLED"}
      /\ new.state = "CANCELLED" => jobs[j].cancel_requested
      /\ new.cancel_requested <=> jobs[j].cancel_requested
  BY <1>1 DEF Ends
<1>3. new.state \in JobStates /\ new.state # "COMPLETE"
  BY <1>2 DEF JobStates, TerminalStates
<1>4. /\ StateOf' = [StateOf EXCEPT ![j] = new.state] /\ RunOf' = RunOf /\ Cancelled' = Cancelled
      /\ StateOf[j] = jobs[j].state
  BY <1>1, <1>2, <1>3, ReplacedIsMapped
<1>5. PublishedOf' = PublishedOf
  BY <1>1, <1>3, ReplacedPublishesNothing
<1>6. Cancelled[j] <=> jobs[j].cancel_requested
  BY DEF Cancelled
<1>7. new.state \in {"FAILED", "INTERRUPTED"} \cup (IF Cancelled[j] THEN {"CANCELLED"} ELSE {})
  BY <1>2, <1>6
<1>8. Lifecycle!Abandon(j)
  <2>1. StateOf[j] \in TransientStates
    BY <1>2, <1>4
  <2>2. \E s \in {"FAILED", "INTERRUPTED"} \cup (IF Cancelled[j] THEN {"CANCELLED"} ELSE {}) :
          StateOf' = [StateOf EXCEPT ![j] = s]
    BY <1>4, <1>7
  <2>3. QED
    BY <1>4, <1>5, <2>1, <2>2, SameStates, Zenon
       DEF Lifecycle!Abandon, StateOf, RunOf, Cancelled, PublishedOf
<1>9. QED
  BY <1>8 DEF Lifecycle!LifecycleNext

\* A cancellation is asked for.
LEMMA AskedIsRequested ==
  ASSUME EvidenceInvariant, Effect, Asked
  PROVE  Lifecycle!LifecycleNext
<1>1. PICK j \in Jobs, new \in JobRecord :
        Recorded(j) /\ Replaced(j, new) /\ AsksToStop(jobs[j], new)
  BY DEF Asked
<1>2. /\ jobs[j].state \in {"QUEUED"} \cup TransientStates
      /\ new.state = IF jobs[j].state = "QUEUED" THEN "CANCELLED" ELSE jobs[j].state
      /\ ~jobs[j].cancel_requested /\ new.cancel_requested
  BY <1>1 DEF AsksToStop
<1>3. new.state \in JobStates /\ new.state # "COMPLETE"
  BY <1>2 DEF JobStates, TransientStates, TerminalStates
<1>4. new.cancel_requested = TRUE
  BY <1>2 DEF JobRecord
<1>5. /\ StateOf' = [StateOf EXCEPT ![j] = new.state] /\ RunOf' = RunOf
      /\ Cancelled' = [Cancelled EXCEPT ![j] = new.cancel_requested]
      /\ StateOf[j] = jobs[j].state
  BY <1>1, <1>3, ReplacedIsMapped
<1>6. PublishedOf' = PublishedOf
  BY <1>1, <1>3, ReplacedPublishesNothing
<1>7. ~Cancelled[j]
  BY <1>2 DEF Cancelled
<1>8. Lifecycle!RequestCancel(j)
  <2>1. StateOf[j] \in {"QUEUED"} \cup TransientStates
    BY <1>2, <1>5
  <2>2. StateOf' = [StateOf EXCEPT ![j] = IF @ = "QUEUED" THEN "CANCELLED" ELSE @]
    BY <1>2, <1>5
  <2>3. Cancelled' = [Cancelled EXCEPT ![j] = TRUE]
    BY <1>4, <1>5, Zenon
  <2>4. QED
    BY <1>5, <1>6, <1>7, <2>1, <2>2, <2>3, SameStates, Zenon
       DEF Lifecycle!RequestCancel, StateOf, RunOf, Cancelled, PublishedOf
<1>9. QED
  BY <1>8 DEF Lifecycle!LifecycleNext

\* A commit makes the evidence of its job readable.
LEMMA CompletedIsPublished ==
  ASSUME EvidenceInvariant, Completed
  PROVE  Lifecycle!LifecycleNext
<1>1. PICK j \in Jobs, new \in JobRecord :
        /\ Recorded(j) /\ Replaced(j, new)
        /\ jobs[j].state = "WRITING_ARTIFACT" /\ new.state = "COMPLETE"
        /\ ~jobs[j].cancel_requested /\ ~new.cancel_requested
        /\ jobs[j].run \in Runs /\ CompleteJobs(jobs[j].run) = {}
        /\ result[jobs[j].run] = j /\ provenance[jobs[j].run] = j
        /\ UNCHANGED <<result, provenance>>
  BY DEF Completed
<1>2. new.state \in JobStates
  BY <1>1 DEF JobStates, TerminalStates
<1>3. /\ StateOf' = [StateOf EXCEPT ![j] = "COMPLETE"] /\ RunOf' = RunOf
      /\ Cancelled' = Cancelled /\ StateOf[j] = "WRITING_ARTIFACT" /\ RunOf[j] = jobs[j].run
  BY <1>1, <1>2, ReplacedIsMapped DEF RunOf
<1>4. /\ \A k \in Jobs : jobs'[k] = IF k = j THEN new ELSE jobs[k]
      /\ \A k \in Jobs : Recorded(k)' <=> Recorded(k)
      /\ \A k \in Jobs : jobs'[k].run = jobs[k].run
  BY <1>1, <1>2, ReplacedIsSeen
<1>5. \A r \in Runs : Published(r)' = IF r = jobs[j].run THEN j ELSE Published(r)
  <2>1. ASSUME NEW r \in Runs, r = jobs[j].run
        PROVE  Published(r)' = j
    <3>1. \A k \in Jobs : Recorded(k)' /\ jobs'[k].run = r /\ jobs'[k].state = "COMPLETE" =>
                           k \in CompleteJobs(r)'
      BY DEF CompleteJobs, JobsOf
    <3>2. CompleteJobs(r)' # {}
      BY <1>1, <1>4, <2>1, <3>1
    <3>3. QED
      BY <1>1, <2>1, <3>2 DEF Published
  <2>2. \A r \in Runs \ {jobs[j].run} : CompleteJobs(r)' = CompleteJobs(r)
    BY <1>1, <1>4 DEF CompleteJobs, JobsOf
  <2>3. \A r \in Runs \ {jobs[j].run} : Published(r)' = Published(r)
    BY <1>1, <2>2 DEF Published
  <2>4. QED
    BY <2>1, <2>3
<1>6. PublishedOf' = [PublishedOf EXCEPT ![RunOf[j]] = j]
  BY <1>1, <1>3, <1>5 DEF PublishedOf
<1>7. PublishedOf[RunOf[j]] = NoJob
  BY <1>1, <1>3 DEF PublishedOf, Published
<1>8. ~Cancelled[j]
  BY <1>1 DEF Cancelled
<1>9. Lifecycle!Publish(j)
  BY <1>3, <1>6, <1>7, <1>8, Zenon
     DEF Lifecycle!Publish, StateOf, RunOf, Cancelled, PublishedOf
<1>10. QED
  BY <1>9 DEF Lifecycle!LifecycleNext

\* What is published depends on the runs' COMPLETE records alone.
LEMMA QuietStepsPublishNothing ==
  ASSUME EvidenceInvariant, Effect,
         \A k \in Jobs : jobs'[k].state = "COMPLETE" => jobs[k].state = "COMPLETE"
  PROVE  PublishedOf' = PublishedOf
BY OnlyCommitsPublish DEF PublishedStays, PublishedOf

\* A record is linked.
LEMMA SubmittedIsNew ==
  ASSUME EvidenceInvariant, RecordsTell, Effect, Submitted
  PROVE  Lifecycle!LifecycleNext
<1>1. PICK j \in Jobs, r \in Runs :
        /\ jobs[j].state = "TORN" /\ jobs' = [jobs EXCEPT ![j] = QueuedRecord(r)]
        /\ ActiveJobs(r) = {} /\ CompleteJobs(r) = {}
  BY DEF Submitted
<1>2. \A k \in Jobs : jobs'[k] = IF k = j THEN QueuedRecord(r) ELSE jobs[k]
  BY <1>1, Known
<1>3. /\ jobs'[j].state = "QUEUED" /\ jobs'[j].run = r
      /\ \A k \in Jobs \ {j} : jobs'[k] = jobs[k]
  BY <1>2 DEF QueuedRecord
<1>4. ~Recorded(j) /\ Recorded(j)' /\ \A k \in Jobs \ {j} : Recorded(k)' <=> Recorded(k)
  BY <1>1, <1>3 DEF Recorded, NoRecord
<1>5. /\ StateOf[j] = "NONE" /\ StateOf' = [StateOf EXCEPT ![j] = "QUEUED"]
      /\ RunOf' = [RunOf EXCEPT ![j] = r]
  BY <1>3, <1>4 DEF StateOf, RunOf
<1>6. Cancelled' = Cancelled
  <2>1. jobs[j].cancel_requested = FALSE
    <3>1. ~jobs[j].cancel_requested /\ jobs[j].cancel_requested \in BOOLEAN
      BY <1>1, Known DEF RecordsTell, NoRecord, JobRecord
    <3>2. QED
      BY <3>1
  <2>2. QueuedRecord(r).cancel_requested = FALSE
    BY Zenon DEF QueuedRecord
  <2>3. \A k \in Jobs : jobs'[k].cancel_requested = jobs[k].cancel_requested
    BY <1>2, <2>1, <2>2, Zenon
  <2>4. QED
    BY <2>3, Zenon DEF Cancelled
<1>7. PublishedOf' = PublishedOf /\ PublishedOf[r] = NoJob
  <2>1. \A k \in Jobs : jobs'[k].state = "COMPLETE" => jobs[k].state = "COMPLETE"
    BY <1>3
  <2>2. PublishedOf[r] = NoJob
    BY <1>1 DEF PublishedOf, Published
  <2>3. QED
    BY <2>1, <2>2, QuietStepsPublishNothing
<1>8. \A k \in Jobs : RunOf[k] = r => StateOf[k] \in TerminalStates \ {"COMPLETE"}
  <2> SUFFICES ASSUME NEW k \in Jobs, jobs[k].run = r
               PROVE  StateOf[k] \in TerminalStates \ {"COMPLETE"}
    BY DEF RunOf
  <2>1. Recorded(k)
    BY IdentityAssumption DEF RecordsTell
  <2>2. k \notin ActiveJobs(r) /\ k \notin CompleteJobs(r)
    BY <1>1
  <2>3. jobs[k].state \in TerminalStates \ {"COMPLETE"}
    BY <2>1, <2>2 DEF ActiveJobs, CompleteJobs, JobsOf
  <2>4. QED
    BY <2>1, <2>3 DEF StateOf
<1>9. Lifecycle!Submit(j, r)
  BY <1>5, <1>6, <1>7, <1>8, SameStates, Zenon
     DEF Lifecycle!Submit, Lifecycle!JobsOf, StateOf, RunOf, Cancelled, PublishedOf
<1>10. QED
  BY <1>9 DEF Lifecycle!LifecycleNext

\* A job directory without a record is no job; other steps leave the records alone.
LEMMA OthersAreUnseen ==
  ASSUME EvidenceInvariant, Effect, Made \/ jobs' = jobs
  PROVE  UNCHANGED Lifecycle!lifecycleVars
<1>1. /\ \A k \in Jobs : /\ Recorded(k)' <=> Recorded(k)
                         /\ Recorded(k) => jobs'[k].state = jobs[k].state
                         /\ jobs'[k].run = jobs[k].run
      /\ \A k \in Jobs : jobs'[k].state = "COMPLETE" => jobs[k].state = "COMPLETE"
  <2>1. CASE Made
    <3>1. PICK j \in Jobs : jobs[j].state = "NONE" /\ jobs' = [jobs EXCEPT ![j].state = "TORN"]
      BY <2>1 DEF Made
    <3>2. /\ jobs'[j].state = "TORN" /\ jobs'[j].run = jobs[j].run
          /\ \A k \in Jobs \ {j} : jobs'[k] = jobs[k]
      BY <3>1, Known DEF JobRecord
    <3>3. QED
      BY <3>1, <3>2 DEF Recorded, NoRecord
  <2>2. CASE jobs' = jobs
    BY <2>2 DEF Recorded
  <2>3. QED
    BY <2>1, <2>2
<1>2. \A k \in Jobs : jobs'[k].cancel_requested = jobs[k].cancel_requested
  <2>1. CASE Made
    <3>1. PICK j \in Jobs : jobs' = [jobs EXCEPT ![j].state = "TORN"]
      BY <2>1 DEF Made
    <3>2. jobs'[j] = [jobs[j] EXCEPT !.state = "TORN"] /\ \A k \in Jobs \ {j} : jobs'[k] = jobs[k]
      BY <3>1, Known
    <3>3. jobs'[j].cancel_requested = jobs[j].cancel_requested
      BY <3>2, Known DEF JobRecord
    <3>4. QED
      BY <3>2, <3>3, Zenon
  <2>2. QED
    BY <2>1
<1>3. StateOf' = StateOf /\ RunOf' = RunOf
  BY <1>1 DEF StateOf, RunOf
<1>4. Cancelled' = Cancelled
  BY <1>2, Zenon DEF Cancelled
<1>5. PublishedOf' = PublishedOf
  BY <1>1, QuietStepsPublishNothing
<1>6. QED
  BY <1>3, <1>4, <1>5, Zenon DEF Lifecycle!lifecycleVars, StateOf, RunOf, Cancelled, PublishedOf

\* Every step is one of the lifecycle, or none.
LEMMA LifecycleStep ==
  ASSUME EvidenceInvariant, QueueInvariant, [Next]_vars
  PROVE  [Lifecycle!LifecycleNext]_(Lifecycle!lifecycleVars)
<1>1. Effect /\ RecordsChange /\ RecordsTell
  BY StepEffect, StepChanges DEF QueueInvariant
<1>2. Lifecycle!LifecycleNext \/ UNCHANGED Lifecycle!lifecycleVars
  BY <1>1, ClaimsAndAdvances, EndsAreAbandoned, AskedIsRequested, CompletedIsPublished,
     SubmittedIsNew, OthersAreUnseen DEF RecordsChange
<1>3. QED
  BY <1>2

-----------------------------------------------------------------------------
(* The theorems of the lifecycle *)

\* Work that lost its worker only becomes INTERRUPTED, whatever crashed and restarted
\* (design, section 17; queue.py:62-71).
THEOREM NoResumptionTheorem == Spec => NoResumption
<1>1. EvidenceInvariant /\ QueueInvariant /\ [Next]_vars =>
        [\A j \in InState(TransientStates) :
           jobs'[j].state # jobs[j].state /\ (wk.job # j \/ wk.pc = "off") =>
             jobs'[j].state = "INTERRUPTED"]_vars
  BY StepChanges, NothingIsResumed DEF LostWorkIsInterrupted
<1>2. QED
  BY <1>1, EvidenceTheorem, QueueTheorem, PTL DEF Spec, NoResumption

\* Worker, requests, starts, crashes and faults implement the lifecycle: its phases in order,
\* one job at work, no step of a cancelled job but its end, and at most one job ever published
\* for a run, once.
THEOREM LifecycleTheorem == Spec => ImplementsLifecycle
<1>1. Init => Lifecycle!LifecycleInit
  BY LifecycleStarts
<1>2. EvidenceInvariant /\ QueueInvariant /\ [Next]_vars =>
        [Lifecycle!LifecycleNext]_(Lifecycle!lifecycleVars)
  BY LifecycleStep
<1>3. QED
  BY <1>1, <1>2, EvidenceTheorem, QueueTheorem, PTL
     DEF Spec, ImplementsLifecycle, Lifecycle!LifecycleSpec

-----------------------------------------------------------------------------
(* The compare-and-swap loops end before their last attempt *)

\* A record that completes.
Completes(job, new) ==
  /\ job.state = "WRITING_ARTIFACT" /\ new.state = "COMPLETE"
  /\ ~job.cancel_requested /\ ~new.cancel_requested

\* Every change takes a record to a later place, or asks for its cancel.
LEMMA NextRevisionFits ==
  ASSUME NEW job \in JobRecord, NEW new \in JobRecord, RevisionFits(job),
         new.revision = job.revision + 1,
         \/ Claims(job, new) \/ Advances(job, new) \/ Ends(job, new) \/ AsksToStop(job, new)
         \/ Completes(job, new)
  PROVE  RevisionFits(new) /\ new.state \in JobStates
<1>1. /\ Place["QUEUED"] = 0 /\ Place["VALIDATING"] = 1 /\ Place["EVALUATING"] = 2
      /\ Place["ANALYZING"] = 3 /\ Place["WRITING_ARTIFACT"] = 4 /\ Place["COMPLETE"] = 5
      /\ Place["FAILED"] = 5 /\ Place["CANCELLED"] = 5 /\ Place["INTERRUPTED"] = 5
  BY DEF Place, JobStates, TransientStates, TerminalStates
<1>2. /\ NextPhase["VALIDATING"] = "EVALUATING" /\ NextPhase["EVALUATING"] = "ANALYZING"
      /\ NextPhase["ANALYZING"] = "WRITING_ARTIFACT"
  BY DEF NextPhase, TransientStates
<1>3. /\ job.revision \in Nat /\ job.cancel_requested \in BOOLEAN
      /\ new.cancel_requested \in BOOLEAN
      /\ job.revision <= Place[job.state] + (IF job.cancel_requested THEN 1 ELSE 0)
  BY DEF JobRecord, RevisionFits
<1>4. CASE Claims(job, new) \/ Advances(job, new) \/ Completes(job, new)
  <2>1. ~job.cancel_requested /\ ~new.cancel_requested
    BY <1>4 DEF Claims, Advances, Completes
  <2>2. /\ new.state \in {"VALIDATING", "EVALUATING", "ANALYZING", "WRITING_ARTIFACT", "COMPLETE"}
        /\ Place[new.state] = Place[job.state] + 1 /\ Place[job.state] \in Nat
    BY <1>1, <1>2, <1>4 DEF Claims, Advances, Completes, TransientStates
  <2>3. job.revision <= Place[job.state]
    BY <1>3, <2>1, <2>2
  <2>4. new.revision <= Place[new.state] /\ Place[new.state] \in Nat
    BY <1>3, <2>2, <2>3
  <2>5. QED
    BY <2>1, <2>2, <2>4 DEF RevisionFits, JobStates, TransientStates, TerminalStates
<1>5. CASE Ends(job, new)
  <2>1. /\ Place[job.state] <= 4 /\ Place[job.state] \in Nat /\ Place[new.state] = 5
        /\ new.state \in JobStates
    BY <1>1, <1>5 DEF Ends, TransientStates, JobStates, TerminalStates
  <2>2. new.cancel_requested <=> job.cancel_requested
    BY <1>5 DEF Ends
  <2>3. QED
    BY <1>3, <2>1, <2>2 DEF RevisionFits
<1>6. CASE AsksToStop(job, new)
  <2>1. /\ Place[job.state] \in Nat /\ Place[job.state] <= Place[new.state]
        /\ Place[new.state] \in Nat /\ new.state \in JobStates
    BY <1>1, <1>6 DEF AsksToStop, TransientStates, JobStates, TerminalStates
  <2>2. ~job.cancel_requested /\ new.cancel_requested
    BY <1>6 DEF AsksToStop
  <2>3. job.revision <= Place[job.state]
    BY <1>3, <2>1, <2>2
  <2>4. new.revision <= Place[new.state] + 1
    BY <1>3, <2>1, <2>3
  <2>5. QED
    BY <2>1, <2>2, <2>4 DEF RevisionFits
<1>7. QED
  BY <1>4, <1>5, <1>6

\* A record is never forgotten, and every change of it is a later revision.
LEMMA RecordsGrow ==
  ASSUME EvidenceInvariant, QueueInvariant, [Next]_vars,
         \A j \in Jobs : Recorded(j) => RevisionFits(jobs[j])
  PROVE  /\ (\A j \in Jobs : Recorded(j) => RevisionFits(jobs[j]))'
         /\ \A j \in Jobs : Recorded(j) =>
              jobs'[j] = jobs[j] \/ jobs'[j].revision = jobs[j].revision + 1
<1>1. ASSUME NEW j \in Jobs, NEW new \in JobRecord, Recorded(j), Replaced(j, new),
             \/ Claims(jobs[j], new) \/ Advances(jobs[j], new) \/ Ends(jobs[j], new)
             \/ AsksToStop(jobs[j], new) \/ Completes(jobs[j], new)
      PROVE  /\ (\A k \in Jobs : Recorded(k) => RevisionFits(jobs[k]))'
             /\ \A k \in Jobs : Recorded(k) =>
                  jobs'[k] = jobs[k] \/ jobs'[k].revision = jobs[k].revision + 1
  <2>1. /\ jobs[j] \in JobRecord /\ new.revision = jobs[j].revision + 1
        /\ \A k \in Jobs : jobs'[k] = IF k = j THEN new ELSE jobs[k]
    BY <1>1, Known DEF Replaced
  <2>2. RevisionFits(new)
    BY <1>1, <2>1, NextRevisionFits
  <2>3. QED
    BY <2>1, <2>2 DEF Recorded
<1>2. CASE jobs' = jobs
  BY <1>2 DEF Recorded
<1>3. CASE Made
  <2>1. PICK j \in Jobs : jobs[j].state = "NONE" /\ jobs' = [jobs EXCEPT ![j].state = "TORN"]
    BY <1>3 DEF Made
  <2>2. jobs'[j].state = "TORN" /\ \A k \in Jobs \ {j} : jobs'[k] = jobs[k]
    BY <2>1, Known DEF JobRecord
  <2>3. QED
    BY <2>1, <2>2 DEF Recorded, NoRecord
<1>4. CASE Submitted
  <2>1. PICK j \in Jobs, r \in Runs :
          jobs[j].state = "TORN" /\ jobs' = [jobs EXCEPT ![j] = QueuedRecord(r)]
    BY <1>4 DEF Submitted
  <2>2. jobs'[j] = QueuedRecord(r) /\ \A k \in Jobs \ {j} : jobs'[k] = jobs[k]
    BY <2>1, Known
  <2>3. RevisionFits(QueuedRecord(r))
    BY DEF RevisionFits, QueuedRecord, Place, JobStates
  <2>4. QED
    BY <2>1, <2>2, <2>3 DEF Recorded, NoRecord
<1>5. CASE Claimed \/ Advanced \/ Ended \/ Asked \/ Completed
  <2>1. \E j \in Jobs, new \in JobRecord :
          /\ Recorded(j) /\ Replaced(j, new)
          /\ \/ Claims(jobs[j], new) \/ Advances(jobs[j], new) \/ Ends(jobs[j], new)
             \/ AsksToStop(jobs[j], new) \/ Completes(jobs[j], new)
    BY <1>5 DEF Claimed, Advanced, Ended, Asked, Completed, Completes
  <2>2. QED
    BY <1>1, <2>1
<1>6. QED
  BY <1>2, <1>3, <1>4, <1>5, StepChanges DEF RecordsChange

\* A cancel under way hears of every change of its record.
LEMMA CancelStillLoops ==
  ASSUME NEW request \in ClientRecord, NEW job, NEW new, CancelLoops(request, job),
         request.pc \in {"cancel_read", "cancel_cas"} =>
           /\ job.revision \in Nat
           /\ new = job \/ new.revision = job.revision + 1
  PROVE  CancelLoops(request, new)
BY DEF CancelLoops, ClientRecord

\* A request that is not in a cancel.
Calm(request) == request.pc \notin {"cancel_read", "cancel_cas"} /\ request.tries = 0

LEMMA CalmRequests ==
  ASSUME NEW request, Calm(request), NEW job
  PROVE  CancelLoops(request, job)
BY DEF Calm, CancelLoops

\* What a step makes of a thread.
Moves(t) ==
  \/ cl'[t] = cl[t] \/ Calm(cl'[t])
  \/ t \in Clients /\ (CancelBegin(t) \/ CancelRead(t) \/ CancelCas(t))

LEMMA ThreadsMove ==
  ASSUME EvidenceInvariant, [Next]_vars,
         \A t \in Threads : CancelLoops(cl[t], jobs[cl[t].job])
  PROVE  \A t \in Threads : Moves(t)
<1>1. CASE cl' = cl
  BY <1>1 DEF Moves
<1>2. ASSUME NEW t \in Threads, NEW request, cl' = [cl EXCEPT ![t] = request], Calm(request)
      PROVE  \A u \in Threads : Moves(u)
  BY <1>2, Known DEF Moves
<1>3. Calm(IdleClient)
  BY DEF Calm, IdleClient
<1>4. ASSUME NEW c \in Clients, Request(c)
      PROVE  \A t \in Threads : Moves(t)
  <2>1. c \in Threads /\ cl[c] \in ClientRecord /\ CancelLoops(cl[c], jobs[cl[c].job])
    BY Known DEF Threads
  <2>2. CASE CancelBegin(c) \/ CancelRead(c) \/ CancelCas(c)
    <3>1. \A t \in Threads \ {c} : cl'[t] = cl[t]
      BY <2>2, Known DEF CancelBegin, CancelRead, CancelCas, ClientStep
    <3>2. QED
      BY <1>4, <2>2, <3>1 DEF Moves
  <2>3. CASE CreateRun(c)
    <3>1. PICK r \in Runs :
            cl' = [cl EXCEPT ![c] = [IdleClient EXCEPT !.pc = "enqueue", !.run = r]]
      BY <2>3 DEF CreateRun
    <3>2. Calm([IdleClient EXCEPT !.pc = "enqueue", !.run = r])
      BY DEF Calm, IdleClient
    <3>3. QED
      BY <1>2, <2>1, <3>1, <3>2
  <2>4. CASE RetryCheck(c)
    <3>1. PICK j \in Jobs :
            cl' = [cl EXCEPT ![c] = [IdleClient EXCEPT !.pc = "discard", !.run = jobs[j].run]]
      BY <2>4 DEF RetryCheck, ClientStep, InState
    <3>2. Calm([IdleClient EXCEPT !.pc = "discard", !.run = jobs[j].run])
      BY DEF Calm, IdleClient
    <3>3. QED
      BY <1>2, <2>1, <3>1, <3>2
  <2>5. CASE DiscardResult(c) \/ DiscardProvenance(c) \/ Enqueue(c)
    <3>1. cl[c].tries = 0
      BY <2>1, <2>5 DEF CancelLoops, DiscardResult, DiscardProvenance, Enqueue
    <3>2. \/ cl' = [cl EXCEPT ![c] = IdleClient]
          \/ cl' = [cl EXCEPT ![c] = [cl[c] EXCEPT !.pc = "discard_provenance"]]
          \/ cl' = [cl EXCEPT ![c] = [cl[c] EXCEPT !.pc = "enqueue"]]
          \/ \E j \in Jobs : cl' = [cl EXCEPT ![c].pc = "create", ![c].job = j]
      BY <2>5 DEF DiscardResult, DiscardProvenance, Enqueue
    <3>3. /\ Calm([cl[c] EXCEPT !.pc = "discard_provenance"])
          /\ Calm([cl[c] EXCEPT !.pc = "enqueue"])
      BY <2>1, <3>1 DEF Calm, ClientRecord
    <3>4. ASSUME NEW j \in Jobs, cl' = [cl EXCEPT ![c].pc = "create", ![c].job = j]
          PROVE  \A t \in Threads : Moves(t)
      <4>1. /\ cl'[c].pc = "create" /\ cl'[c].tries = 0
            /\ \A t \in Threads \ {c} : cl'[t] = cl[t]
        BY <2>1, <3>1, <3>4, Known DEF ClientRecord
      <4>2. Calm(cl'[c])
        BY <4>1 DEF Calm
      <4>3. QED
        BY <4>1, <4>2 DEF Moves
    <3>5. QED
      BY <1>2, <1>3, <2>1, <3>2, <3>3, <3>4
  <2>6. CASE Create(c)
    <3>1. cl' = [cl EXCEPT ![c] = [IdleClient EXCEPT !.pc = "start"]]
      BY <2>6 DEF Create
    <3>2. Calm([IdleClient EXCEPT !.pc = "start"])
      BY DEF Calm, IdleClient
    <3>3. QED
      BY <1>2, <2>1, <3>1, <3>2
  <2>7. CASE EnqueueFails(c)
    BY <1>2, <1>3, <2>1, <2>7 DEF EnqueueFails
  <2>8. QED
    BY <1>4, <2>2, <2>3, <2>4, <2>5, <2>6, <2>7 DEF Request
<1>5. ASSUME NEW t \in Threads, Start(t)
      PROVE  \A u \in Threads : Moves(u)
  <2>1. cl[t] \in ClientRecord /\ CancelLoops(cl[t], jobs[cl[t].job])
    BY Known
  <2>2. CASE StartBegin(t)
    <3>1. \/ cl' = [cl EXCEPT ![t] = IdleClient]
          \/ cl' = [cl EXCEPT ![t] = [IdleClient EXCEPT !.pc = "recover",
                            !.todo = {<<j, jobs[j].revision>> : j \in InFlight}]]
      BY <2>2 DEF StartBegin, StartRaises
    <3>2. Calm([IdleClient EXCEPT !.pc = "recover",
                            !.todo = {<<j, jobs[j].revision>> : j \in InFlight}])
      BY DEF Calm, IdleClient
    <3>3. QED
      BY <1>2, <1>3, <3>1, <3>2
  <2>3. CASE RecoverJob(t)
    <3>1. cl[t].pc = "recover" /\ cl[t].tries = 0
      BY <2>1, <2>3 DEF CancelLoops, RecoverJob
    <3>2. \/ cl' = [cl EXCEPT ![t] = IdleClient]
          \/ \E seen \in cl[t].todo :
               cl' = [cl EXCEPT ![t] = [cl[t] EXCEPT !.todo = cl[t].todo \ {seen}]]
      BY <2>3 DEF RecoverJob, StartRaises
    <3>3. ASSUME NEW seen
          PROVE  Calm([cl[t] EXCEPT !.todo = cl[t].todo \ {seen}])
      BY <2>1, <3>1 DEF Calm, ClientRecord
    <3>4. QED
      BY <1>2, <1>3, <3>2, <3>3
  <2>4. CASE StartWorker(t)
    BY <1>2, <1>3, <2>4 DEF StartWorker
  <2>5. QED
    BY <1>5, <2>2, <2>3, <2>4 DEF Start
<1>6. CASE Boot
  <2>1. cl' = [cl EXCEPT ![Main] = [IdleClient EXCEPT !.pc = "start"]] /\ Main \in Threads
    BY <1>6 DEF Boot, Threads
  <2>2. Calm([IdleClient EXCEPT !.pc = "start"])
    BY DEF Calm, IdleClient
  <2>3. QED
    BY <1>2, <2>1, <2>2
<1>7. CASE Exit \/ Crash
  BY <1>3, <1>7 DEF Exit, Crash, ForgetMemory, Moves
<1>8. CASE \/ Worker \/ WriteFails \/ StoreFails \/ StopBegin \/ StopJoin \/ StopClear
           \/ Waiting \/ UNCHANGED vars
  <2>1. cl' = cl
    BY <1>8 DEF Worker, WorkerGet, WorkerRead, WorkerClaim, WorkerReread, ExecuteBegin, ReadInputs,
       Compute, AdvanceRead, TransitionRead, AdvanceCas, CheckCancel, FailCas, WriteResult,
       WriteProvenance, Commit, WorkerFinish, WorkerFinishCas, WorkerStep, WorkerUpdate, WriteFails,
       StoreFails, StopBegin, StopJoin, StopClear, Waiting, vars
  <2>2. QED
    BY <1>1, <2>1
<1>9. QED
  BY <1>4, <1>5, <1>6, <1>7, <1>8 DEF Next, Lifespan

\* A cancel is refused only when the record has changed since it was read
\* (queue.py:105-118).
LEMMA CancelRefused ==
  ASSUME EvidenceInvariant, QueueInvariant, NEW c \in Clients, cl[c].pc = "cancel_cas",
         CancelLoops(cl[c], jobs[cl[c].job]),
         ~UpdateAllowed(jobs[cl[c].job], cl[c].revision, cl[c].target, TRUE, NoError)
  PROVE  cl[c].revision < jobs[cl[c].job].revision
<1> SUFFICES cl[c].revision # jobs[cl[c].job].revision
  <2>1. c \in Threads /\ cl[c] \in ClientRecord /\ RequestHolds(cl[c])
    BY Known DEF EvidenceInvariant, ClientKnows, Threads
  <2>2. cl[c].revision \in Nat /\ jobs[cl[c].job].revision \in Nat
        /\ cl[c].revision <= jobs[cl[c].job].revision
    BY <2>1, Known DEF RequestHolds, ClientRecord, JobRecord, CancelLoops
  <2>3. QED
    BY <2>2
<1> SUFFICES ASSUME cl[c].revision = jobs[cl[c].job].revision
             PROVE  FALSE
  OBVIOUS
<1> SUFFICES ASSUME NEW j, j = cl[c].job, NEW target, target = cl[c].target
             PROVE  UpdateAllowed(jobs[j], cl[c].revision, target, TRUE, NoError)
  OBVIOUS
<1>1. c \in Threads /\ RequestHolds(cl[c]) /\ RequestTells(cl[c])
  BY DEF EvidenceInvariant, ClientKnows, QueueInvariant, Threads
<1>2. /\ j \in Jobs /\ Recorded(j) /\ target \in {"CANCELLED", Same}
      /\ target = "CANCELLED" <=> jobs[j].state = "QUEUED"
      /\ jobs[j].state \in JobStates
      /\ jobs[j].state \notin TerminalStates /\ ~jobs[j].cancel_requested
  BY <1>1, Known DEF RequestHolds, RequestTells, QueueInvariant, RecordsTell, CancelLoops,
                     CancelSettled
<1>3. CASE target = "CANCELLED"
  <2>1. "CANCELLED" \in AllowedTransitions("QUEUED")
    BY DEF AllowedTransitions, TerminalStates
  <2>2. Target(jobs[j], target) = "CANCELLED" /\ jobs[j].state = "QUEUED"
    BY <1>2, <1>3 DEF Target, Same
  <2>3. QED
    BY <1>2, <2>1, <2>2 DEF UpdateAllowed
<1>4. CASE target = Same
  <2>1. Target(jobs[j], target) = jobs[j].state /\ jobs[j].state # "FAILED"
    BY <1>2, <1>4 DEF Target, TerminalStates
  <2>2. QED
    BY <1>2, <1>4, <2>1 DEF UpdateAllowed
<1>5. QED
  BY <1>2, <1>3, <1>4

LEMMA CancelsLoop ==
  ASSUME EvidenceInvariant, QueueInvariant, LoopInvariant, [Next]_vars
  PROVE  (\A t \in Threads : CancelLoops(cl[t], jobs[cl[t].job]))'
<1> SUFFICES ASSUME NEW t \in Threads
             PROVE  CancelLoops(cl'[t], jobs'[cl'[t].job])
  OBVIOUS
<1>1. CancelLoops(cl[t], jobs[cl[t].job]) /\ cl[t] \in ClientRecord /\ RequestHolds(cl[t])
  BY Known DEF LoopInvariant, EvidenceInvariant, ClientKnows
<1>2. CASE cl'[t] = cl[t]
  <2>1. cl[t].pc \in {"cancel_read", "cancel_cas"} =>
          /\ jobs[cl[t].job].revision \in Nat
          /\ \/ jobs'[cl[t].job] = jobs[cl[t].job]
             \/ jobs'[cl[t].job].revision = jobs[cl[t].job].revision + 1
    BY <1>1, Known, RecordsGrow DEF LoopInvariant, RequestHolds, JobRecord
  <2>2. QED
    BY <1>1, <1>2, <2>1, CancelStillLoops
<1>3. CASE Calm(cl'[t])
  BY <1>3, CalmRequests
<1>4. CASE t \in Clients /\ CancelBegin(t)
  <2>1. PICK j \in Jobs : /\ Recorded(j) /\ jobs' = jobs
                          /\ cl' = [cl EXCEPT ![t] = [IdleClient EXCEPT !.pc = "cancel_read",
                                                                        !.job = j]]
    BY <1>4 DEF CancelBegin, ClientStep, disk
  <2>2. cl'[t].pc = "cancel_read" /\ cl'[t].job = j /\ cl'[t].tries = 0
    BY <2>1, Known DEF IdleClient
  <2>3. jobs'[j].revision \in Nat
    BY <2>1, Known DEF JobRecord
  <2>4. QED
    BY <2>2, <2>3 DEF CancelLoops
<1>5. CASE t \in Clients /\ CancelRead(t)
  <2>1. /\ cl[t].pc = "cancel_read" /\ jobs' = jobs
        /\ cl[t].tries <= jobs[cl[t].job].revision /\ jobs[cl[t].job].revision \in Nat
    BY <1>1, <1>5, Known DEF CancelRead, ClientStep, disk, CancelLoops, RequestHolds, JobRecord
  <2>2. CASE ~Listable \/ CancelSettled(jobs[cl[t].job])
    <3>1. cl'[t] = IdleClient
      BY <1>5, <2>2, Known DEF CancelRead, ClientStep
    <3>2. QED
      BY <3>1 DEF CancelLoops, IdleClient
  <2>3. CASE ~(~Listable \/ CancelSettled(jobs[cl[t].job]))
    <3>1. cl' = [cl EXCEPT ![t] = [cl[t] EXCEPT !.pc = "cancel_cas",
                     !.revision = jobs[cl[t].job].revision,
                     !.target = IF jobs[cl[t].job].state = "QUEUED" THEN "CANCELLED" ELSE Same]]
      BY <1>5, <2>3 DEF CancelRead, ClientStep
    <3>2. /\ cl'[t].pc = "cancel_cas" /\ cl'[t].revision = jobs[cl[t].job].revision
          /\ cl'[t].job = cl[t].job /\ cl'[t].tries = cl[t].tries
      BY <1>1, <3>1, Known DEF ClientRecord
    <3>3. QED
      BY <2>1, <2>3, <3>2 DEF CancelLoops
  <2>4. QED
    BY <2>2, <2>3
<1>6. CASE t \in Clients /\ CancelCas(t)
  <2>1. cl[t].pc = "cancel_cas"
    BY <1>6 DEF CancelCas
  <2>2. CASE cl' = [cl EXCEPT ![t] = IdleClient]
    <3>1. cl'[t] = IdleClient
      BY <2>2, Known
    <3>2. QED
      BY <3>1 DEF CancelLoops, IdleClient
  <2>3. CASE /\ cl' = [cl EXCEPT ![t] = CancelAgain(cl[t])] /\ jobs' = jobs
             /\ ~UpdateAllowed(jobs[cl[t].job], cl[t].revision, cl[t].target, TRUE, NoError)
    <3>1. cl[t].revision < jobs[cl[t].job].revision
      BY <1>1, <1>6, <2>1, <2>3, CancelRefused
    <3>2. /\ cl[t].tries <= cl[t].revision /\ cl[t].tries \in Nat /\ cl[t].revision \in Nat
          /\ jobs[cl[t].job].revision \in Nat
      BY <1>1, <2>1, Known DEF CancelLoops, RequestHolds, ClientRecord, JobRecord
    <3>3. \/ cl'[t] = IdleClient
          \/ /\ cl'[t].pc = "cancel_read" /\ cl'[t].job = cl[t].job
             /\ cl'[t].tries = cl[t].tries + 1
      BY <1>1, <2>3, Known DEF CancelAgain, ClientRecord
    <3>4. CASE cl'[t] = IdleClient
      BY <3>4 DEF CancelLoops, IdleClient
    <3>5. CASE cl'[t].pc = "cancel_read" /\ cl'[t].job = cl[t].job /\ cl'[t].tries = cl[t].tries + 1
      BY <2>3, <3>1, <3>2, <3>5 DEF CancelLoops
    <3>6. QED
      BY <3>3, <3>4, <3>5
  <2>4. QED
    BY <1>6, <2>2, <2>3 DEF CancelCas
<1>7. QED
  BY <1>2, <1>3, <1>4, <1>5, <1>6, ThreadsMove DEF Moves, LoopInvariant

\* What is said of the worker where it neither advances nor finishes.
WorkerFits(w, job) == WorkerInPhase(w, job) /\ WorkerLoops(w, job)

LEMMA RestingFits ==
  ASSUME NEW w, NEW job, w.tries \in {0, 1},
         w.pc \notin WorkingPcs \/ (w.pc = "finish" /\ w.tries = 0)
  PROVE  WorkerFits(w, job)
BY DEF WorkerFits, WorkerInPhase, WorkerLoops, WorkingPcs, ExecutorPcs

LEMMA WorkingFits ==
  ASSUME NEW w, NEW job, w.tries \in {0, 1}, job.state \in TransientStates,
         w.pc \in WorkingPcs \ {"adv", "adv_read", "adv_cas", "finish", "finish_cas"},
         w.pc = "inputs" => job.state = "VALIDATING",
         w.pc = "compute" => job.state = w.target
  PROVE  WorkerFits(w, job)
BY DEF WorkerFits, WorkerInPhase, WorkerLoops, WorkingPcs, ExecutorPcs

\* The worker's phase outlives a cancel of its job, which comes once.
LEMMA AskedFits ==
  ASSUME NEW w \in WorkerRecord, NEW job \in JobRecord, NEW new \in JobRecord,
         WorkerFits(w, job), AsksToStop(job, new)
  PROVE  WorkerFits(w, new)
<1>1. job.state \in TransientStates => new.state = job.state
  BY DEF AsksToStop, TransientStates
<1>2. WorkerInPhase(w, new)
  BY <1>1 DEF WorkerFits, WorkerInPhase, WorkingPcs, ExecutorPcs
<1>3. ~job.cancel_requested /\ new.cancel_requested
  BY DEF AsksToStop
<1>4. WorkerLoops(w, new)
  BY <1>3 DEF WorkerFits, WorkerLoops
<1>5. QED
  BY <1>2, <1>4 DEF WorkerFits

\* What the other threads leave of the worker and of the job in its hands.
Left ==
  \/ wk'.pc \in {"off", "get"} /\ wk'.tries = 0
  \/ /\ wk' = wk
     /\ wk.pc \in LoopPcs \cup ExecutorPcs =>
          \/ jobs'[wk.job] = jobs[wk.job]
          \/ jobs'[wk.job] \in JobRecord /\ AsksToStop(jobs[wk.job], jobs'[wk.job])

LEMMA OthersLeave ==
  ASSUME EvidenceInvariant, QueueInvariant, [Next]_vars, ~Worker, ~WriteFails, ~StoreFails
  PROVE  Left
<1>1. CASE wk' = wk /\ jobs' = jobs
  BY <1>1 DEF Left
<1>2. wk.pc \in LoopPcs \cup ExecutorPcs => wk.job \in Jobs /\ Recorded(wk.job) /\ wk.pc # "off"
  BY Known DEF LoopPcs, ExecutorPcs
<1>3. ASSUME NEW c \in Clients, Request(c)
      PROVE  Left
  <2>1. wk' = wk
    BY <1>3 DEF Request, CancelBegin, CancelRead, CancelCas, CreateRun, RetryCheck, DiscardResult,
                DiscardProvenance, Enqueue, Create, EnqueueFails, ClientStep
  <2>2. CASE CancelCas(c)
    <3>1. ASSUME NEW new \in JobRecord, Replaced(cl[c].job, new), cl[c].job \in Jobs,
                 AsksToStop(jobs[cl[c].job], new)
          PROVE  Left
      <4>1. \A k \in Jobs : jobs'[k] = IF k = cl[c].job THEN new ELSE jobs[k]
        BY <3>1, Known DEF Replaced
      <4>2. QED
        BY <1>2, <2>1, <3>1, <4>1 DEF Left
    <3>2. QED
      BY <1>1, <2>1, <2>2, <3>1, CancelTells
  <2>3. CASE Enqueue(c)
    <3>1. jobs' = jobs \/ Made
      BY <2>3 DEF Enqueue, NewJob, Made
    <3>2. CASE Made
      <4>1. PICK j \in Jobs : jobs[j].state = "NONE" /\ jobs' = [jobs EXCEPT ![j].state = "TORN"]
        BY <3>2 DEF Made
      <4>2. \A k \in Jobs \ {j} : jobs'[k] = jobs[k]
        BY <4>1, Known
      <4>3. QED
        BY <1>2, <2>1, <4>1, <4>2 DEF Left, Recorded, NoRecord
    <3>3. QED
      BY <1>1, <2>1, <3>1, <3>2
  <2>4. CASE Create(c)
    <3>1. c \in Threads /\ SubmitterHolds(c) /\ cl[c].pc = "create"
      BY <2>4 DEF Create, Threads, EvidenceInvariant, SubmitterKnows, Submitting
    <3>2. /\ cl[c].job \in Jobs /\ jobs[cl[c].job].state = "TORN"
          /\ \A k \in Jobs \ {cl[c].job} : jobs'[k] = jobs[k]
      BY <2>4, <3>1, Known DEF SubmitterHolds, Create
    <3>3. QED
      BY <1>2, <2>1, <3>2 DEF Left, Recorded, NoRecord
  <2>5. CASE \/ CancelBegin(c) \/ CancelRead(c) \/ CreateRun(c) \/ RetryCheck(c)
             \/ DiscardResult(c) \/ DiscardProvenance(c) \/ EnqueueFails(c)
    <3>1. jobs' = jobs
      BY <2>5 DEF CancelBegin, CancelRead, CreateRun, RetryCheck, DiscardResult, DiscardProvenance,
                  EnqueueFails, ClientStep, disk
    <3>2. QED
      BY <1>1, <2>1, <3>1
  <2>6. QED
    BY <1>3, <2>2, <2>3, <2>4, <2>5 DEF Request
<1>4. ASSUME NEW t \in Threads, Start(t)
      PROVE  Left
  <2>1. CASE StartBegin(t)
    BY <1>1, <2>1 DEF StartBegin, disk
  <2>2. CASE RecoverJob(t)
    <3>1. wk.pc = "off" /\ wk' = wk
      BY <2>2 DEF RecoverJob, QueueInvariant, QueueIsCoherent, RecoveryExcludesWorker
    <3>2. QED
      BY <1>2, <3>1 DEF Left
  <2>3. CASE StartWorker(t)
    BY <2>3 DEF StartWorker, Left, Looping, WorkerAt
  <2>4. QED
    BY <1>4, <2>1, <2>2, <2>3 DEF Start
<1>5. CASE Exit \/ Crash
  BY <1>5 DEF Exit, Crash, ForgetMemory, Left, Off, WorkerAt
<1>6. CASE Boot \/ StopBegin \/ StopJoin \/ StopClear \/ Waiting \/ UNCHANGED vars
  BY <1>1, <1>6 DEF Boot, StopBegin, StopJoin, StopClear, Waiting, vars, disk
<1>7. QED
  BY <1>3, <1>4, <1>5, <1>6 DEF Next, Lifespan

LEMMA LeftFits ==
  ASSUME EvidenceInvariant, WorkerFits(wk, jobs[wk.job]), Left
  PROVE  WorkerFits(wk', jobs'[wk'.job])
<1>1. CASE wk'.pc \in {"off", "get"} /\ wk'.tries = 0
  BY <1>1, RestingFits DEF WorkingPcs, ExecutorPcs
<1>2. CASE wk' = wk /\ wk.pc \notin LoopPcs \cup ExecutorPcs
  BY <1>2, RestingFits DEF WorkerFits, WorkerLoops, WorkingPcs, LoopPcs
<1>3. CASE wk' = wk /\ wk.pc \in LoopPcs \cup ExecutorPcs /\ jobs'[wk.job] = jobs[wk.job]
  BY <1>3
<1>4. CASE /\ wk' = wk /\ wk.pc \in LoopPcs \cup ExecutorPcs
           /\ jobs'[wk.job] \in JobRecord /\ AsksToStop(jobs[wk.job], jobs'[wk.job])
  <2>1. wk \in WorkerRecord /\ jobs[wk.job] \in JobRecord
    BY <1>4, Known
  <2>2. QED
    BY <1>4, <2>1, AskedFits
<1>5. QED
  BY <1>1, <1>2, <1>3, <1>4 DEF Left

\* The worker is done with a job, or has none.
LEMMA LoopingFits ==
  ASSUME EvidenceInvariant, WorkerFits(wk, jobs[wk.job]), NEW job,
         \/ wk' \in {Off, Looping} \/ \E error : wk' = Finish(error)
         \/ \E j : wk' = [WorkerAt("read") EXCEPT !.job = j]
         \/ wk'.pc = "claim" /\ wk'.tries = wk.tries
  PROVE  WorkerFits(wk', job)
<1>1. wk \in WorkerRecord /\ wk.tries \in {0, 1}
  BY Known DEF WorkerFits, WorkerLoops
<1>2. \/ wk'.pc \in {"off", "get", "read"} /\ wk'.tries = 0
      \/ wk'.pc = "finish" /\ wk'.tries = 0
      \/ wk'.pc = "claim" /\ wk'.tries = wk.tries
  <2>1. CASE wk' \in {Off, Looping}
    BY <2>1 DEF Off, Looping, WorkerAt
  <2>2. CASE \E error : wk' = Finish(error)
    BY <1>1, <2>2 DEF Finish, WorkerRecord
  <2>3. CASE \E j : wk' = [WorkerAt("read") EXCEPT !.job = j]
    BY <2>3 DEF WorkerAt
  <2>4. QED
    BY <2>1, <2>2, <2>3
<1>3. QED
  BY <1>1, <1>2, RestingFits DEF WorkingPcs, ExecutorPcs

LEMMA ReadsFit ==
  ASSUME EvidenceInvariant, QueueInvariant, WorkerFits(wk, jobs[wk.job]),
         \/ WorkerGet \/ WorkerRead \/ WorkerReread \/ WorkerFinish \/ ExecuteBegin \/ ReadInputs
         \/ Compute \/ AdvanceRead \/ TransitionRead \/ CheckCancel \/ WriteResult
         \/ WriteProvenance \/ WriteFails \/ StoreFails
  PROVE  WorkerFits(wk', jobs'[wk'.job])
<1>1. /\ jobs' = jobs /\ wk \in WorkerRecord /\ wk.tries \in {0, 1}
      /\ WorkerInPhase(wk, jobs[wk.job]) /\ WorkerLoops(wk, jobs[wk.job]) /\ WorkerKnows
  BY Known DEF WorkerGet, WorkerRead, WorkerReread, WorkerFinish, ExecuteBegin, ReadInputs,
               Compute, AdvanceRead, TransitionRead, CheckCancel, WorkerStep, WriteResult,
               WriteProvenance, WriteFails, StoreFails, disk, WorkerFits, WorkerLoops,
               EvidenceInvariant
<1>2. /\ NextPhase["VALIDATING"] = "EVALUATING" /\ NextPhase["EVALUATING"] = "ANALYZING"
      /\ NextPhase["ANALYZING"] = "WRITING_ARTIFACT"
  BY DEF NextPhase, TransientStates
\* The shapes of what the worker does next.
<1>3. ASSUME wk' \in {Off, Looping} \/ \E error : wk' = Finish(error)
      PROVE  WorkerFits(wk', jobs'[wk'.job])
  BY <1>3, LoopingFits
<1>4. ASSUME NEW pc \in WorkingPcs \ {"adv", "adv_read", "adv_cas", "finish", "finish_cas",
                                      "compute"},
             wk'.pc = pc, wk'.job = wk.job, wk'.tries = wk.tries,
             jobs[wk.job].state \in TransientStates,
             pc = "inputs" => jobs[wk.job].state = "VALIDATING"
      PROVE  WorkerFits(wk', jobs'[wk'.job])
  BY <1>1, <1>4, WorkingFits
<1>5. ASSUME NEW phase, wk' = AdvanceTo(phase), jobs[wk.job].state \in TransientStates,
             phase \in {"CANCELLED", NextPhase[jobs[wk.job].state]}
      PROVE  WorkerFits(wk', jobs'[wk'.job])
  <2>1. wk'.pc = "adv" /\ wk'.job = wk.job /\ wk'.tries = 0 /\ wk'.phase = phase
    BY <1>1, <1>5 DEF AdvanceTo, WorkerRecord
  <2>2. QED
    BY <1>1, <1>5, <2>1 DEF WorkerFits, WorkerInPhase, WorkerLoops
\* The steps.
<1>6. CASE WorkerGet
  <2>1. \/ wk' \in {Off, Looping} \/ wk' = [WorkerAt("read") EXCEPT !.job = Head(pending)]
    BY <1>6 DEF WorkerGet, Off, Looping, WorkerAt
  <2>2. QED
    BY <2>1, LoopingFits
<1>7. CASE WorkerRead
  <2>1. CASE jobs[wk.job].state = "QUEUED"
    <3>1. wk' = [wk EXCEPT !.pc = "claim", !.revision = jobs[wk.job].revision]
      BY <1>7, <2>1 DEF WorkerRead, WorkerStep
    <3>2. wk'.pc = "claim" /\ wk'.tries = wk.tries
      BY <1>1, <3>1 DEF WorkerRecord
    <3>3. QED
      BY <3>2, LoopingFits
  <2>2. CASE jobs[wk.job].state # "QUEUED"
    BY <1>3, <1>7, <2>2 DEF WorkerRead, WorkerStep
  <2>3. QED
    BY <2>1, <2>2
<1>8. CASE WorkerReread \/ ExecuteBegin
  <2>1. jobs[wk.job].state \in TransientStates
    BY <1>1, <1>8 DEF WorkerReread, ExecuteBegin, WorkerInPhase, WorkingPcs, ExecutorPcs
  <2>2. \/ \E error : wk' = Finish(error)
        \/ /\ wk'.pc \in {"exec", "inputs"} /\ wk'.job = wk.job /\ wk'.tries = wk.tries
           /\ wk'.pc = "inputs" => jobs[wk.job].state = "VALIDATING"
    BY <1>1, <1>8 DEF WorkerReread, ExecuteBegin, WorkerStep, WorkerRecord
  <2>3. QED
    BY <1>3, <1>4, <2>1, <2>2 DEF WorkingPcs, ExecutorPcs
<1>9. CASE ReadInputs
  <2>1. jobs[wk.job].state = "VALIDATING" /\ "VALIDATING" \in TransientStates
    BY <1>1, <1>9 DEF ReadInputs, WorkerInPhase, TransientStates
  <2>2. \/ wk' = Finish("WORKER_ERROR") \/ wk' = AdvanceTo("EVALUATING")
        \/ wk'.pc = "fail_check" /\ wk'.job = wk.job /\ wk'.tries = wk.tries
    BY <1>1, <1>9 DEF ReadInputs, WorkerStep, WorkerRecord
  <2>3. QED
    BY <1>2, <1>3, <1>4, <1>5, <2>1, <2>2 DEF WorkingPcs, ExecutorPcs
<1>10. CASE Compute
  <2>1. jobs[wk.job].state = wk.target /\ jobs[wk.job].state \in TransientStates
    BY <1>1, <1>10 DEF Compute, WorkerInPhase, WorkingPcs, ExecutorPcs
  <2>2. wk' = Finish("WORKER_ERROR") \/ wk' = AdvanceTo(NextPhase[wk.target])
    BY <1>10 DEF Compute, WorkerStep
  <2>3. QED
    BY <1>3, <1>5, <2>1, <2>2
<1>11. CASE AdvanceRead
  <2>1. /\ jobs[wk.job].state \in TransientStates
        /\ wk.phase \in {"CANCELLED", NextPhase[jobs[wk.job].state]}
        /\ wk.tries = 1 => jobs[wk.job].cancel_requested
    BY <1>1, <1>11 DEF AdvanceRead, WorkerInPhase, WorkerLoops, WorkingPcs, ExecutorPcs
  <2>2. CASE jobs[wk.job].state \in TerminalStates
    BY <1>3, <1>11, <2>2 DEF AdvanceRead, WorkerStep
  <2>3. CASE jobs[wk.job].state \notin TerminalStates
    <3>1. wk' = [wk EXCEPT !.pc = "adv_read",
                   !.target = IF jobs[wk.job].cancel_requested THEN "CANCELLED" ELSE wk.phase]
      BY <1>11, <2>3 DEF AdvanceRead, WorkerStep
    <3>2. /\ wk'.pc = "adv_read" /\ wk'.job = wk.job /\ wk'.tries = wk.tries
          /\ wk'.target = IF jobs[wk.job].cancel_requested THEN "CANCELLED" ELSE wk.phase
          /\ wk'.phase = wk.phase
      BY <1>1, <3>1 DEF WorkerRecord
    <3>3. QED
      BY <1>1, <2>1, <3>2 DEF WorkerFits, WorkerInPhase, WorkerLoops
  <2>4. QED
    BY <2>2, <2>3
<1>12. CASE TransitionRead
  <2>1. jobs[wk.job].state \in TransientStates
    BY <1>1, <1>12 DEF TransitionRead, WorkerInPhase, WorkingPcs, ExecutorPcs
  <2>2. /\ wk'.pc = IF wk.pc = "adv_read" THEN "adv_cas" ELSE "fail_cas"
        /\ wk'.job = wk.job /\ wk'.tries = wk.tries /\ wk'.revision = jobs[wk.job].revision
        /\ wk'.phase = wk.phase /\ wk'.target = wk.target
    BY <1>1, <1>12 DEF TransitionRead, WorkerStep, WorkerRecord
  <2>3. QED
    BY <1>1, <2>1, <2>2 DEF WorkerFits, WorkerInPhase, WorkerLoops
<1>13. CASE CheckCancel
  <2>1. jobs[wk.job].state \in TransientStates
    BY <1>1, <1>13 DEF CheckCancel, WorkerInPhase, WorkingPcs, ExecutorPcs
  <2>2. \/ wk' = Finish(NoError) \/ wk' = AdvanceTo("CANCELLED")
        \/ wk'.pc \in {"write", "fail_read"} /\ wk'.job = wk.job /\ wk'.tries = wk.tries
    BY <1>1, <1>13 DEF CheckCancel, WorkerStep, WorkerRecord
  <2>3. QED
    BY <1>3, <1>4, <1>5, <2>1, <2>2 DEF WorkingPcs, ExecutorPcs
<1>14. CASE WriteResult \/ WriteProvenance
  <2>1. jobs[wk.job].state \in TransientStates
    BY <1>1, <1>14 DEF WriteResult, WriteProvenance, WorkerInPhase, WorkingPcs, ExecutorPcs
  <2>2. \/ wk' = Finish("WORKER_ERROR")
        \/ /\ wk'.pc \in {"write_provenance", "commit"} /\ wk'.job = wk.job
           /\ wk'.tries = wk.tries
    BY <1>1, <1>14 DEF WriteResult, WriteProvenance, WorkerRecord
  <2>3. QED
    BY <1>3, <1>4, <2>1, <2>2 DEF WorkingPcs, ExecutorPcs
<1>15. CASE WriteFails \/ StoreFails
  <2>1. wk' = Off \/ wk' = Finish("WORKER_ERROR")
    BY <1>15 DEF WriteFails, StoreFails
  <2>2. QED
    BY <1>3, <2>1
<1>16. CASE WorkerFinish
  <2>1. CASE jobs[wk.job].state \in TerminalStates
    BY <1>3, <1>16, <2>1 DEF WorkerFinish, WorkerStep
  <2>2. CASE jobs[wk.job].state \notin TerminalStates
    <3>1. /\ wk.pc = "finish" /\ jobs[wk.job].state \in TransientStates
          /\ wk.tries = 1 => jobs[wk.job].cancel_requested
      <4>1. wk.pc = "finish" /\ Recorded(wk.job) /\ wk.job \in Jobs
        BY <1>16, Known DEF WorkerFinish, LoopPcs
      <4>2. jobs[wk.job].state \in JobStates /\ jobs[wk.job].state # "QUEUED"
        BY <4>1, Known DEF QueueInvariant, WorkerTells, WorkingPcs
      <4>3. QED
        BY <1>1, <2>2, <4>1, <4>2 DEF WorkerLoops, JobStates
    <3>2. PICK error :
            /\ error = IF jobs[wk.job].cancel_requested THEN NoError
                       ELSE IF wk.error # NoError THEN wk.error ELSE "INCOMPLETE_EXECUTION"
            /\ wk' = [wk EXCEPT !.pc = "finish_cas", !.revision = jobs[wk.job].revision,
                       !.target = IF jobs[wk.job].cancel_requested THEN "CANCELLED" ELSE "FAILED",
                       !.error = error]
      BY <1>16, <2>2 DEF WorkerFinish, WorkerStep
    <3>3. /\ wk'.pc = "finish_cas" /\ wk'.job = wk.job /\ wk'.tries = wk.tries
          /\ wk'.revision = jobs[wk.job].revision
          /\ wk'.target = IF jobs[wk.job].cancel_requested THEN "CANCELLED" ELSE "FAILED"
          /\ wk'.error = error
      BY <1>1, <3>2 DEF WorkerRecord
    <3>4. wk'.target = "FAILED" <=> wk'.error # NoError
      BY <3>2, <3>3 DEF NoError
    <3>5. QED
      BY <1>1, <3>1, <3>3, <3>4 DEF WorkerFits, WorkerInPhase, WorkerLoops
  <2>3. QED
    BY <2>1, <2>2
<1>17. QED
  BY <1>6, <1>7, <1>8, <1>9, <1>10, <1>11, <1>12, <1>13, <1>14, <1>15, <1>16

\* The first attempt is refused when a cancel came in between, the second is made in
\* knowledge of it (runs.py:284-301).
LEMMA AdvanceRefused ==
  ASSUME EvidenceInvariant, WorkerFits(wk, jobs[wk.job]), wk.pc = "adv_cas",
         ~UpdateAllowed(jobs[wk.job], wk.revision, wk.target, FALSE, NoError)
  PROVE  jobs[wk.job].cancel_requested /\ wk.tries = 0
<1>1. CASE wk.revision # jobs[wk.job].revision
  BY <1>1 DEF WorkerFits, WorkerLoops
<1>2. CASE wk.revision = jobs[wk.job].revision
  <2>1. /\ jobs[wk.job].state \in TransientStates /\ wk.target \in Phases
        /\ wk.target \in {"CANCELLED", NextPhase[jobs[wk.job].state]}
        /\ wk.tries \in {0, 1}
        /\ wk.tries = 1 => wk.target = "CANCELLED"
    BY DEF WorkerFits, WorkerInPhase, WorkerLoops, WorkingPcs, ExecutorPcs, EvidenceInvariant,
           WorkerKnows, WorkerHolds
  <2>2. /\ jobs[wk.job].state \notin TerminalStates /\ wk.target # Same /\ wk.target # "FAILED"
        /\ wk.target # jobs[wk.job].state
    BY <2>1 DEF TransientStates, TerminalStates, Phases, Same, NextPhase
  <2>3. Target(jobs[wk.job], wk.target) = wk.target
    BY <2>2 DEF Target
  <2>4. wk.target \in AllowedTransitions(jobs[wk.job].state)
    BY <2>1, <2>2 DEF AllowedTransitions
  <2>5. jobs[wk.job].cancel_requested /\ wk.target # "CANCELLED"
    BY <1>2, <2>2, <2>3, <2>4 DEF UpdateAllowed
  <2>6. QED
    BY <2>1, <2>5
<1>3. QED
  BY <1>1, <1>2

\* Likewise for the record of a job that has not ended (queue.py:188-212).
LEMMA FinishRefused ==
  ASSUME EvidenceInvariant, WorkerFits(wk, jobs[wk.job]), wk.pc = "finish_cas",
         ~UpdateAllowed(jobs[wk.job], wk.revision, wk.target, FALSE, wk.error)
  PROVE  jobs[wk.job].cancel_requested /\ wk.tries = 0
<1>1. /\ jobs[wk.job].state \in TransientStates /\ wk.target \in {"CANCELLED", "FAILED"}
      /\ wk.target = "FAILED" <=> wk.error # NoError
  BY DEF WorkerFits, WorkerInPhase, WorkingPcs, EvidenceInvariant, WorkerKnows, WorkerHolds
<1>2. /\ jobs[wk.job].state \notin TerminalStates /\ wk.target # Same
      /\ wk.target # jobs[wk.job].state
  BY <1>1 DEF TransientStates, TerminalStates, Same
<1>3. Target(jobs[wk.job], wk.target) = wk.target
  BY <1>2 DEF Target
<1>4. wk.target \in AllowedTransitions(jobs[wk.job].state)
  BY <1>1, <1>2 DEF AllowedTransitions
<1>5. wk.revision # jobs[wk.job].revision
  BY <1>1, <1>2, <1>3, <1>4 DEF UpdateAllowed
<1>6. QED
  BY <1>5 DEF WorkerFits, WorkerLoops

LEMMA UpdatesFit ==
  ASSUME EvidenceInvariant, QueueInvariant, WorkerFits(wk, jobs[wk.job]),
         WorkerClaim \/ AdvanceCas \/ FailCas \/ WorkerFinishCas \/ Commit
  PROVE  WorkerFits(wk', jobs'[wk'.job])
<1>1. /\ wk \in WorkerRecord /\ wk.job \in Jobs /\ Recorded(wk.job) /\ wk.tries \in {0, 1}
      /\ WorkerInPhase(wk, jobs[wk.job]) /\ WorkerLoops(wk, jobs[wk.job])
      /\ jobs \in [Jobs -> JobRecord] /\ NoError \in Errors
  BY Known DEF WorkerClaim, AdvanceCas, FailCas, WorkerFinishCas, Commit, LoopPcs, ExecutorPcs,
               WorkerFits, WorkerLoops, Errors
<1>2. ASSUME wk' \in {Off, Looping} \/ \E error : wk' = Finish(error)
      PROVE  WorkerFits(wk', jobs'[wk'.job])
  BY <1>2, LoopingFits
<1>3. CASE WorkerClaim
  <2>1. ASSUME NEW new \in JobRecord, Replaced(wk.job, new), Claims(jobs[wk.job], new),
               wk' = [wk EXCEPT !.pc = "reread"]
        PROVE  WorkerFits(wk', jobs'[wk'.job])
    <3>1. wk'.pc = "reread" /\ wk'.job = wk.job /\ wk'.tries = wk.tries
      BY <1>1, <2>1 DEF WorkerRecord
    <3>2. jobs'[wk.job].state = "VALIDATING"
      BY <1>1, <2>1 DEF Replaced, Claims
    <3>3. QED
      BY <1>1, <3>1, <3>2, WorkingFits DEF WorkingPcs, TransientStates
  <2>2. QED
    BY <1>2, <1>3, <2>1, ClaimTells
<1>4. CASE AdvanceCas
  <2>1. wk.pc = "adv_cas" /\ wk.target \in Phases /\ wk.target \in JobStates
    BY <1>4 DEF EvidenceInvariant, WorkerKnows, WorkerHolds, AdvanceCas, Phases, JobStates,
                TransientStates, TerminalStates
  <2>2. \/ /\ wk' = AfterAdvance
           /\ \E new \in JobRecord :
                Replaced(wk.job, new) /\ Becomes(jobs[wk.job], new, wk.target)
        \/ /\ jobs' = jobs
           /\ wk' = IF wk.tries + 1 = MaxTries THEN Finish("WORKER_ERROR")
                    ELSE [wk EXCEPT !.pc = "adv", !.tries = @ + 1]
           /\ ~UpdateAllowed(jobs[wk.job], wk.revision, wk.target, FALSE, NoError)
    BY <1>1, <1>4, <2>1, WorkerUpdateTells DEF AdvanceCas
  <2>3. ASSUME wk' = AfterAdvance, NEW new \in JobRecord, Replaced(wk.job, new),
               Becomes(jobs[wk.job], new, wk.target)
        PROVE  WorkerFits(wk', jobs'[wk'.job])
    <3>1. jobs'[wk.job].state = wk.target
      BY <1>1, <2>3 DEF Replaced, Becomes
    <3>2. \/ wk' = Finish(NoError)
          \/ /\ wk'.pc = IF wk.target = "WRITING_ARTIFACT" THEN "check" ELSE "compute"
             /\ wk'.job = wk.job /\ wk'.tries = wk.tries /\ wk'.target = wk.target
             /\ wk.target # "CANCELLED"
      BY <1>1, <2>3 DEF AfterAdvance, WorkerRecord
    <3>3. wk.target # "CANCELLED" => wk.target \in TransientStates
      BY <2>1 DEF Phases, TransientStates
    <3>4. QED
      BY <1>1, <1>2, <3>1, <3>2, <3>3, WorkingFits DEF WorkingPcs, ExecutorPcs
  <2>4. ASSUME jobs' = jobs, wk' = [wk EXCEPT !.pc = "adv", !.tries = @ + 1],
               ~UpdateAllowed(jobs[wk.job], wk.revision, wk.target, FALSE, NoError)
        PROVE  WorkerFits(wk', jobs'[wk'.job])
    <3>1. jobs[wk.job].cancel_requested /\ wk.tries = 0
      BY <2>1, <2>4, AdvanceRefused
    <3>2. wk'.pc = "adv" /\ wk'.job = wk.job /\ wk'.tries = 1 /\ wk'.phase = wk.phase
      BY <1>1, <2>4, <3>1 DEF WorkerRecord
    <3>3. QED
      BY <1>1, <2>1, <2>4, <3>1, <3>2 DEF WorkerFits, WorkerInPhase, WorkerLoops, WorkingPcs,
                                          ExecutorPcs
  <2>5. QED
    BY <1>2, <2>2, <2>3, <2>4
<1>5. CASE FailCas
  BY <1>2, <1>5 DEF FailCas, WorkerUpdate
<1>6. CASE WorkerFinishCas
  <2>1. \/ wk' \in {Off, Looping}
        \/ /\ jobs' = jobs /\ wk' = [wk EXCEPT !.pc = "finish", !.tries = @ + 1]
           /\ ~UpdateAllowed(jobs[wk.job], wk.revision, wk.target, FALSE, wk.error)
    BY <1>6 DEF WorkerFinishCas, WorkerUpdate
  <2>2. ASSUME jobs' = jobs, wk' = [wk EXCEPT !.pc = "finish", !.tries = @ + 1],
               ~UpdateAllowed(jobs[wk.job], wk.revision, wk.target, FALSE, wk.error)
        PROVE  WorkerFits(wk', jobs'[wk'.job])
    <3>1. jobs[wk.job].cancel_requested /\ wk.tries = 0
      BY <1>6, <2>2, FinishRefused DEF WorkerFinishCas
    <3>2. wk'.pc = "finish" /\ wk'.job = wk.job /\ wk'.tries = 1
      BY <1>1, <2>2, <3>1 DEF WorkerRecord
    <3>3. QED
      BY <2>2, <3>1, <3>2 DEF WorkerFits, WorkerInPhase, WorkerLoops
  <2>3. QED
    BY <1>2, <2>1, <2>2
<1>7. CASE Commit
  BY <1>2, <1>7, CommitTells
<1>8. QED
  BY <1>3, <1>4, <1>5, <1>6, <1>7

LEMMA LoopsAtStart == Init => LoopInvariant
<1> SUFFICES ASSUME Init
             PROVE  LoopInvariant
  OBVIOUS
<1>1. \A j \in Jobs : ~Recorded(j)
  BY DEF Init, NoJobRecord, Recorded, NoRecord
<1>2. \A t \in Threads : CancelLoops(cl[t], jobs[cl[t].job])
  BY CalmRequests DEF Init, Calm, IdleClient
<1>3. WorkerFits(wk, jobs[wk.job])
  BY RestingFits DEF Init, Off, WorkerAt, WorkingPcs, ExecutorPcs
<1>4. QED
  BY <1>1, <1>2, <1>3 DEF LoopInvariant, WorkerFits

LEMMA LoopsStep ==
  ASSUME EvidenceInvariant, QueueInvariant, LoopInvariant, [Next]_vars
  PROVE  LoopInvariant'
<1>1. WorkerFits(wk, jobs[wk.job])
  BY DEF LoopInvariant, WorkerFits
<1>2. WorkerFits(wk', jobs'[wk'.job])
  <2>1. CASE Worker \/ WriteFails \/ StoreFails
    BY <1>1, <2>1, ReadsFit, UpdatesFit DEF Worker
  <2>2. CASE ~Worker /\ ~WriteFails /\ ~StoreFails
    BY <1>1, <2>2, OthersLeave, LeftFits
  <2>3. QED
    BY <2>1, <2>2
<1>3. (\A j \in Jobs : Recorded(j) => RevisionFits(jobs[j]))'
  BY RecordsGrow DEF LoopInvariant
<1>4. (\A t \in Threads : CancelLoops(cl[t], jobs[cl[t].job]))'
  BY CancelsLoop
<1>5. QED
  BY <1>2, <1>3, <1>4 DEF LoopInvariant, WorkerFits

\* A record has at most six revisions after its first one, and a worker's loop meets at
\* most one cancel: the eight attempts of queue.py:105, :188 and runs.py:286 are enough.
THEOREM LoopsTheorem ==
  ASSUME MaxTries >= 8
  PROVE  Spec => []LoopsConverge
<1>1. EvidenceInvariant /\ LoopInvariant => LoopsConverge
  <2> SUFFICES ASSUME EvidenceInvariant, LoopInvariant
               PROVE  LoopsConverge
    OBVIOUS
  <2>1. MaxTries \in Nat
    BY BoundsAssumption
  <2>2. wk.tries + 1 < MaxTries
    BY <2>1 DEF LoopInvariant, WorkerLoops
  <2>3. ASSUME NEW t \in Threads
        PROVE  cl[t].tries + 1 < MaxTries
    <3>1. /\ cl[t] \in ClientRecord /\ RequestHolds(cl[t]) /\ CancelLoops(cl[t], jobs[cl[t].job])
      BY Known DEF EvidenceInvariant, ClientKnows, LoopInvariant
    <3>2. CASE cl[t].pc \notin {"cancel_read", "cancel_cas"}
      BY <2>1, <3>1, <3>2 DEF CancelLoops
    <3>3. CASE cl[t].pc \in {"cancel_read", "cancel_cas"}
      <4>1. /\ cl[t].job \in Jobs /\ Recorded(cl[t].job) /\ jobs[cl[t].job] \in JobRecord
            /\ jobs[cl[t].job].state \in JobStates
        BY <3>1, <3>3, Known DEF RequestHolds
      <4>2. cl[t].tries <= jobs[cl[t].job].revision
        BY <3>1, <3>3, <4>1 DEF CancelLoops, ClientRecord, JobRecord
      <4>3. Place[jobs[cl[t].job].state] \in 0..5
        BY <4>1 DEF Place
      <4>4. jobs[cl[t].job].revision <= 6
        BY <4>1, <4>3 DEF LoopInvariant, RevisionFits, JobRecord
      <4>5. QED
        BY <2>1, <3>1, <4>1, <4>2, <4>4 DEF ClientRecord, JobRecord
    <3>4. QED
      BY <3>2, <3>3
  <2>4. QED
    BY <2>2, <2>3 DEF LoopsConverge
<1>2. Init => LoopInvariant
  BY LoopsAtStart
<1>3. EvidenceInvariant /\ QueueInvariant /\ LoopInvariant /\ [Next]_vars => LoopInvariant'
  BY LoopsStep
<1>4. QED
  BY <1>1, <1>2, <1>3, EvidenceTheorem, QueueTheorem, PTL DEF Spec

=============================================================================
