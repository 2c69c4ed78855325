----------------------------- MODULE LocalPilotV1 -----------------------------
(***************************************************************************)
(* scripts/run_phase5a_local_pilot.py: the first local experiment.  It     *)
(* takes the model its preflight found, the preferred one or, where that   *)
(* does not fit, a smaller one, and looks at neither the commit nor the    *)
(* weights again.                                                          *)
(***************************************************************************)
EXTENDS LocalSession

CONSTANTS StrictOnly   \* --strict-only: no second call without the schema

ASSUME StrictAssumption == StrictOnly \in BOOLEAN

\* _preflight_once: every case answered with a parsed prediction, in reasonable time.
PassesV1(kinds, slow) == kinds = {"SUCCESS"} /\ ~slow

\* Only a model that does not fit or is not there is replaced.
FallsBack(kinds) == "RESOURCE" \in kinds

\* _run_preflight: ks are the ways the cases end under the preferred model, fs under the
\* fallback.  Its artifact is written whether it passed or not.
PreflightV1 ==
  /\ experiment = "v1"
  /\ \E ks, fs \in PreflightOutcomes, slow \in BOOLEAN :
       IF PassesV1(ks, slow) \/ ~FallsBack(ks)
         THEN Preflights(IF PassesV1(ks, slow) THEN "PASS" ELSE "BLOCKED", world.served)
         ELSE Preflights(IF PassesV1(fs, slow) THEN "PASS" ELSE "BLOCKED", "small")

\* _load_preflight
LoadsV1 == preflight.status = "PASS"

\* The manifest, the examples and labels it names, and the two baselines over its IDs.
IntactV1 == world.intact

\* _run_local as far as the loop.
RunV1 ==
  /\ experiment = "v1" /\ LoadsV1 /\ IntactV1
  /\ Begins("run")
  /\ Fills("primary", Predicted("primary"))
  /\ pc' = "ask"
  /\ began' = {}
  /\ UNCHANGED <<artifacts, store, diagnosed>>

\* _evaluate_local_with_fallback and _evaluate_local_primary: strict is the answer under
\* the schema, plain the one without.
EvaluationV1(strict, plain) ==
  IF strict = "UNPARSED" /\ ~StrictOnly THEN plain ELSE strict

AskV1 ==
  /\ experiment = "v1"
  /\ \E strict, plain \in Kinds : JudgeAnswers(EvaluationV1(strict, plain), FALSE, 0)

\* The report of a run: an earlier report's consistency is kept.
ReportV1 ==
  /\ experiment = "v1" /\ mode = "run" /\ FileIsFilled("primary")
  /\ Reports([written |-> TRUE, complete |-> Predicted("primary") = Ids,
              digest |-> preflight.digest, contract |-> world.contract,
              consistency |-> report.consistency, requests |-> report.requests])

\* The consistency of an incomplete pilot is not measured, and the report says so.
RefuseConsistencyV1 ==
  /\ experiment = "v1" /\ pc = "down" /\ sessions < MaxSessions
  /\ report.written /\ ~report.complete
  /\ report' = [report EXCEPT !.consistency = "PRIMARY_INCOMPLETE", !.requests = 0]
  /\ sessions' = sessions + 1
  /\ UNCHANGED <<experiment, world, preflight, fullReport, store, diagnosed, pc, progress,
                 history, changes>>

\* The two repeats have state files of their own; a later session completes them.
ConsistencyV1 ==
  /\ experiment = "v1" /\ report.complete /\ LoadsV1 /\ IntactV1
  /\ Begins("consistency")
  /\ Fills("first", Predicted("first"))
  /\ pc' = "ask"
  /\ began' = {}
  /\ UNCHANGED <<artifacts, store, diagnosed>>

RepeatV1 ==
  /\ experiment = "v1" /\ FileIsFilled("first")
  /\ Fills("second", Predicted("second"))
  /\ UNCHANGED <<experiment, world, artifacts, store, diagnosed, pc, mode, verdict, requests,
                 began, terminal, failures, history, bounds>>

\* Examples with a primary prediction and two repeated ones (summarize_consistency).
SlipTriple == Predicted("primary") \cap (Predicted("first") \cup Predicted("second"))
Triple == Sample \cap Predicted("primary") \cap Predicted("first") \cap Predicted("second")

ReportConsistencyV1 ==
  /\ experiment = "v1" /\ mode = "consistency" /\ FileIsFilled("second")
  /\ Reports([report EXCEPT !.consistency = IF Triple = Sample THEN "COMPLETE" ELSE "INCOMPLETE",
                            !.requests = requests])

NextV1 ==
  \/ PreflightV1 \/ RunV1 \/ AskV1 \/ ReportV1
  \/ RefuseConsistencyV1 \/ ConsistencyV1 \/ RepeatV1 \/ ReportConsistencyV1
=============================================================================
