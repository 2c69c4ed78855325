---------------------------- MODULE JobLifecycle ----------------------------
(***************************************************************************)
(* What the workspace promises of evaluation jobs, with no queue, thread,  *)
(* lock, file or crash in sight: a job goes through its phases one at a    *)
(* time, only one job works at any time, a cancelled job goes no further,  *)
(* a terminal job is history, and a run publishes the evidence of exactly  *)
(* one job, once.  RunService is shown to implement it.                    *)
(***************************************************************************)
EXTENDS JobRecords

CONSTANTS Jobs, Runs, NoJob, NoRun

VARIABLES
  state,      \* [Jobs -> JobStates or "NONE"]
  runOf,      \* [Jobs -> Runs or NoRun]: the run a job evaluates
  cancelled,  \* [Jobs -> BOOLEAN]: somebody asked for its cancellation
  published   \* [Runs -> Jobs or NoJob]: the job whose evidence a reader gets

lifecycleVars == <<state, runOf, cancelled, published>>

LifecycleInit ==
  /\ state = [j \in Jobs |-> "NONE"]
  /\ runOf = [j \in Jobs |-> NoRun]
  /\ cancelled = [j \in Jobs |-> FALSE]
  /\ published = [r \in Runs |-> NoJob]

JobsOf(r) == {j \in Jobs : runOf[j] = r}

\* A new identity for a run that has neither an active job nor evidence.
Submit(j, r) ==
  /\ state[j] = "NONE"
  /\ published[r] = NoJob
  /\ \A k \in JobsOf(r) : state[k] \in TerminalStates \ {"COMPLETE"}
  /\ state' = [state EXCEPT ![j] = "QUEUED"]
  /\ runOf' = [runOf EXCEPT ![j] = r]
  /\ UNCHANGED <<cancelled, published>>

\* The next phase; a job may leave the queue only when nobody else works.
Advance(j) ==
  /\ state[j] \in {"QUEUED"} \cup (TransientStates \ {"WRITING_ARTIFACT"})
  /\ ~cancelled[j]
  /\ state[j] = "QUEUED" => \A k \in Jobs : state[k] \notin TransientStates
  /\ state' = [state EXCEPT ![j] = NextPhase[state[j]]]
  /\ UNCHANGED <<runOf, cancelled, published>>

\* The job completes and its evidence becomes readable in one step.
Publish(j) ==
  /\ state[j] = "WRITING_ARTIFACT"
  /\ ~cancelled[j]
  /\ published[runOf[j]] = NoJob
  /\ state' = [state EXCEPT ![j] = "COMPLETE"]
  /\ published' = [published EXCEPT ![runOf[j]] = j]
  /\ UNCHANGED <<runOf, cancelled>>

\* A queued job is cancelled at once, a working one is only asked to stop.
RequestCancel(j) ==
  /\ state[j] \in {"QUEUED"} \cup TransientStates
  /\ ~cancelled[j]
  /\ cancelled' = [cancelled EXCEPT ![j] = TRUE]
  /\ state' = [state EXCEPT ![j] = IF @ = "QUEUED" THEN "CANCELLED" ELSE @]
  /\ UNCHANGED <<runOf, published>>

\* A working job ends without evidence: it failed, it was interrupted by a
\* restart, or it was cancelled because somebody had asked for it.
Abandon(j) ==
  /\ state[j] \in TransientStates
  /\ \E s \in {"FAILED", "INTERRUPTED"} \cup (IF cancelled[j] THEN {"CANCELLED"} ELSE {}) :
       state' = [state EXCEPT ![j] = s]
  /\ UNCHANGED <<runOf, cancelled, published>>

LifecycleNext ==
  \E j \in Jobs :
    \/ \E r \in Runs : Submit(j, r)
    \/ Advance(j)
    \/ Publish(j)
    \/ RequestCancel(j)
    \/ Abandon(j)

LifecycleSpec == LifecycleInit /\ [][LifecycleNext]_lifecycleVars

=============================================================================
