----------------------------- MODULE LocalPilotV2 -----------------------------
(***************************************************************************)
(* scripts/run_phase5a_local_pilot_v2.py: one model, one commit.  Every    *)
(* session wants a clean tree, the frozen weights and a preflight passed   *)
(* at the commit that is checked out; failed answers are kept for later.   *)
(***************************************************************************)
EXTENDS LocalSession

\* _verify_model
SlipVerifiesV2 == world.served \in Digests
VerifiesV2 == world.served = Frozen

\* All cases parsed, under the schema, with the expected label, none flawed: empty,
\* truncated, with thinking output or of other weights.
PassesV2(kinds, flawed) == kinds = {"SUCCESS"} /\ ~flawed

\* _preflight: a tree with changes or another model raises before the artifact is written.
PreflightV2 ==
  /\ experiment = "v2" /\ world.clean /\ VerifiesV2
  /\ \E ks \in PreflightOutcomes, flawed \in BOOLEAN :
       Preflights(IF PassesV2(ks, flawed) THEN "PASS" ELSE "BLOCKED", world.served)

\* _load_passing_preflight
LoadsV2 == preflight.status = "PASS" /\ preflight.commit = world.head

AdmitsV2 == world.clean /\ world.intact /\ LoadsV2 /\ VerifiesV2

\* _run_pilot as far as the loop.
RunV2 ==
  /\ experiment = "v2" /\ AdmitsV2
  /\ Begins("run")
  /\ Fills("primary", Predicted("primary"))
  /\ pc' = "ask"
  /\ began' = {}
  /\ UNCHANGED <<artifacts, store, diagnosed>>

\* An answer without a prediction is appended to the diagnostics.
DiagnosesV2(kind) == kind # "SUCCESS"

\* evaluate_local of a run or a repeat.
AskV2 ==
  /\ experiment = "v2"
  /\ \E kind \in Kinds : JudgeAnswers(kind, DiagnosesV2(kind), 1)

\* The report of a run is built anew: the consistency must be measured again.
ReportV2 ==
  /\ experiment = "v2" /\ mode = "run" /\ FileIsFilled("primary")
  /\ Reports([written |-> TRUE, complete |-> Predicted("primary") = Ids, digest |-> Frozen,
              contract |-> world.contract, consistency |-> "NOT_RUN", requests |-> 0])

\* _run_consistency: the state files of the repeats outlive a session.
ConsistencyV2 ==
  /\ experiment = "v2" /\ report.complete /\ AdmitsV2
  /\ Begins("consistency")
  /\ Fills("first", Predicted("first"))
  /\ pc' = "ask"
  /\ began' = {}
  /\ UNCHANGED <<artifacts, store, diagnosed>>

RepeatV2 ==
  /\ experiment = "v2" /\ FileIsFilled("first")
  /\ Fills("second", Predicted("second"))
  /\ UNCHANGED <<experiment, world, artifacts, store, diagnosed, pc, mode, verdict, requests,
                 began, terminal, failures, history, bounds>>

ReportConsistencyV2 ==
  /\ experiment = "v2" /\ mode = "consistency" /\ FileIsFilled("second")
  /\ LET triple == Predicted("primary") \cap Predicted("first") \cap Predicted("second")
     IN  Reports([report EXCEPT
           !.consistency = IF Sample \subseteq triple THEN "COMPLETE" ELSE "INCOMPLETE",
           !.requests = requests])

NextV2 ==
  \/ PreflightV2 \/ RunV2 \/ AskV2 \/ ReportV2
  \/ ConsistencyV2 \/ RepeatV2 \/ ReportConsistencyV2
=============================================================================
