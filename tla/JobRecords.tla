----------------------------- MODULE JobRecords -----------------------------
(***************************************************************************)
(* The persistent job contract: the states of workspace/jobs/models.py and *)
(* the guards of WorkspaceStore.update_job_record, the compare-and-swap on *)
(* the persisted revision through which every later change of a job goes.  *)
(* The module has no state: RunService keeps the records and calls these   *)
(* operators, JobLifecycle is the promise they are meant to keep.          *)
(***************************************************************************)
EXTENDS Naturals

TerminalStates == {"COMPLETE", "FAILED", "CANCELLED", "INTERRUPTED"}

\* The phases a worker moves a claimed job through, in this order.
TransientStates == {"VALIDATING", "EVALUATING", "ANALYZING", "WRITING_ARTIFACT"}

JobStates == {"QUEUED"} \cup TransientStates \cup TerminalStates

\* What a job id may be on disk besides a record: no directory at all, or a
\* directory whose job.json was never linked (the create failed half way).
NoRecord == {"NONE", "TORN"}

NextPhase ==
  [s \in {"QUEUED"} \cup TransientStates |->
     CASE s = "QUEUED" -> "VALIDATING"
       [] s = "VALIDATING" -> "EVALUATING"
       [] s = "EVALUATING" -> "ANALYZING"
       [] s = "ANALYZING" -> "WRITING_ARTIFACT"
       [] s = "WRITING_ARTIFACT" -> "COMPLETE"]

AllowedTransitions(s) ==
  IF s \in TerminalStates THEN {}
  ELSE {NextPhase[s], "FAILED", "CANCELLED"}
         \cup (IF s = "QUEUED" THEN {} ELSE {"INTERRUPTED"})

\* Safe error codes; the three input codes differ only in wording.
NoError == "none"
Errors == {NoError, "INPUT", "WORKER_ERROR", "INCOMPLETE_EXECUTION", "WORKER_RESTART"}

\* next_state=None in the code: leave the state as it is.
Same == "Same"

\* (A Slip... is the definition after it with a plausible mistake.)
SlipTarget(current, next) == next
Target(current, next) == IF next = Same THEN current.state ELSE next

(***************************************************************************)
(* The guards of update_job_record, in order.  No caller passes            *)
(* cancel_requested=False, so cancel says whether the flag is being set.   *)
(* The slip lets a cancelled job advance.                                  *)
(***************************************************************************)
SlipUpdateAllowed(current, revision, next, cancel, error) ==
  LET target == Target(current, next) IN
  /\ current.revision = revision
  /\ current.state \notin TerminalStates
  /\ next # Same => target \in AllowedTransitions(current.state)
  /\ error # NoError => target \in {"FAILED", "INTERRUPTED"}
  /\ target = "FAILED" => error # NoError
  /\ target # current.state \/ (cancel /\ ~current.cancel_requested)

UpdateAllowed(current, revision, next, cancel, error) ==
  LET target == Target(current, next) IN
  /\ current.revision = revision
  /\ current.state \notin TerminalStates
  /\ next # Same => target \in AllowedTransitions(current.state)
  /\ current.cancel_requested =>
       target \in {current.state, "CANCELLED", "FAILED", "INTERRUPTED"}
  /\ error # NoError => target \in {"FAILED", "INTERRUPTED"}
  /\ target = "FAILED" => error # NoError
  /\ target # current.state \/ (cancel /\ ~current.cancel_requested)

Updated(current, next, cancel, error) ==
  [run |-> current.run, state |-> Target(current, next), revision |-> current.revision + 1,
   cancel_requested |-> current.cancel_requested \/ cancel,
   safe_error |-> error]

\* JobRecord.queued, the only record save_job_record accepts.
QueuedRecord(run) ==
  [run |-> run, state |-> "QUEUED", revision |-> 0,
   cancel_requested |-> FALSE, safe_error |-> NoError]

=============================================================================
