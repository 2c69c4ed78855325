------------------------------ MODULE LocalFull ------------------------------
(***************************************************************************)
(* scripts/run_phase5b_local_full.py: the full population, judged by the   *)
(* configuration of the third experiment.  A session begins only on the    *)
(* strength of that experiment's report, and ends early when too many of   *)
(* its answers are no predictions.                                         *)
(***************************************************************************)
EXTENDS LocalSession

VerifiesFull == world.served = Frozen

\* The population, and the two baselines over it, are those of the frozen data.
IntactFull == world.intact
BaselinesHold == world.intact

\* _validate_existing_state: predictions of another contract end the session at once.
ExistingHolds == \A i \in Predicted("full") : store["full"][i].contract = world.contract

\* _validate_v3_report
SlipAuthorized ==                    \* the consistency is not asked for
  report.written /\ report.complete /\ report.digest = Frozen
Authorized ==
  /\ report.written /\ report.complete /\ report.digest = Frozen
  /\ report.contract = world.contract
  /\ report.consistency = "COMPLETE"
  /\ report.requests = 2 * Cardinality(Sample)

\* _run as far as the loop; its own preflight's artifact is read by nobody.
RunFull ==
  /\ experiment = "v3" /\ world.clean /\ IntactFull /\ BaselinesHold
  /\ Authorized /\ VerifiesFull /\ ExistingHolds
  /\ Begins("full")
  /\ Fills("full", Predicted("full"))
  /\ pc' = "ask"
  /\ began' = Predicted("full")
  /\ UNCHANGED <<artifacts, store, diagnosed>>

\* evaluate_local: the full run keeps no diagnostics.
AskFull ==
  /\ mode = "full"
  /\ \E kind \in Kinds : JudgeAnswers(kind, FALSE, 1)

\* The examples this session has a record of, its failed records, and whether the rate of
\* predictions among the former is too low.  The predictions are counted in the whole
\* state file: in a resumed session those of earlier sessions count as well.
Attempted == terminal \cup {id}
Failed    == failures + (IF verdict = "SUCCESS" THEN 0 ELSE 1)
Valid     == Cardinality(Predicted("full")
               \cup (IF verdict = "SUCCESS" THEN {id} ELSE {}))
SlipUnreliable == FALSE
Unreliable ==
  /\ Cardinality(Attempted) >= MinAttempted
  /\ Valid * 100 < MinValid * Cardinality(Attempted)

\* upsert(), then observe(): every record counts, those of a try that is repeated too.
SaveFull ==
  /\ mode = "full"
  /\ Recorded
  /\ terminal' = Attempted /\ failures' = Failed
  /\ pc' = IF Failed >= FailureLimit \/ Unreliable THEN "stopped" ELSE "ask"

\* _report: complete when the state file is, whatever stopped the session.
ReportFull ==
  /\ mode = "full"
  /\ FileIsFilled("full") \/ pc = "stopped"
  /\ fullReport' = IF Predicted("full") = FullIds THEN "COMPLETE"
                   ELSE IF pc = "stopped" THEN "REGRESSION" ELSE "INCOMPLETE"
  /\ Ends
  /\ UNCHANGED <<experiment, world, preflight, report, store, diagnosed, history, bounds>>

NextFull == RunFull \/ AskFull \/ SaveFull \/ ReportFull
=============================================================================
