----------------------------- MODULE LocalPilotV3 -----------------------------
(***************************************************************************)
(* scripts/run_phase5a_local_pilot_v3.py: as the second experiment, with a *)
(* smaller answer to parse, and with repeats that always begin afresh.     *)
(* Its report is what authorizes the full run.                             *)
(***************************************************************************)
EXTENDS LocalSession

\* _verify_model
VerifiesV3 == world.served = Frozen

PassesV3(kinds, flawed) == kinds = {"SUCCESS"} /\ ~flawed

PreflightV3 ==
  /\ experiment = "v3" /\ world.clean /\ VerifiesV3
  /\ \E ks \in PreflightOutcomes, flawed \in BOOLEAN :
       Preflights(IF PassesV3(ks, flawed) THEN "PASS" ELSE "BLOCKED", world.served)

\* _load_passing_preflight
LoadsV3 == preflight.status = "PASS" /\ preflight.commit = world.head

AdmitsV3 == world.clean /\ world.intact /\ LoadsV3 /\ VerifiesV3

\* _run_pilot as far as the loop.
RunV3 ==
  /\ experiment = "v3" /\ AdmitsV3
  /\ Begins("run")
  /\ Fills("primary", Predicted("primary"))
  /\ pc' = "ask"
  /\ began' = {}
  /\ UNCHANGED <<artifacts, store, diagnosed>>

SlipDiagnosesV3(kind) == kind # "SUCCESS" /\ mode = "run"   \* not in the repeats
DiagnosesV3(kind) == kind # "SUCCESS"

\* evaluate_local of a run or a repeat.
AskV3 ==
  /\ experiment = "v3" /\ mode # "full"
  /\ \E kind \in Kinds : JudgeAnswers(kind, DiagnosesV3(kind), 1)

ReportV3 ==
  /\ experiment = "v3" /\ mode = "run" /\ FileIsFilled("primary")
  /\ Reports([written |-> TRUE, complete |-> Predicted("primary") = Ids, digest |-> Frozen,
              contract |-> world.contract, consistency |-> "NOT_RUN", requests |-> 0])

Unlinked(f) == [store EXCEPT ![f] = [i \in Population |-> NoRecord]]

\* _run_consistency: the state file of a repeat is unlinked before the repeat.
ConsistencyV3 ==
  /\ experiment = "v3" /\ report.complete /\ AdmitsV3
  /\ Begins("consistency")
  /\ store' = Unlinked("first")
  /\ Fills("first", {})
  /\ pc' = "ask"
  /\ began' = {}
  /\ UNCHANGED <<artifacts, diagnosed>>

RepeatV3 ==
  /\ experiment = "v3" /\ FileIsFilled("first")
  /\ store' = Unlinked("second")
  /\ Fills("second", {})
  /\ UNCHANGED <<experiment, world, artifacts, diagnosed, pc, mode, verdict, requests,
                 began, terminal, failures, history, bounds>>

ReportConsistencyV3 ==
  /\ experiment = "v3" /\ mode = "consistency" /\ FileIsFilled("second")
  /\ LET triple == Predicted("primary") \cap Predicted("first") \cap Predicted("second")
     IN  Reports([report EXCEPT
           !.consistency = IF Sample \subseteq triple THEN "COMPLETE" ELSE "INCOMPLETE",
           !.requests = requests])

NextV3 ==
  \/ PreflightV3 \/ RunV3 \/ AskV3 \/ ReportV3
  \/ ConsistencyV3 \/ RepeatV3 \/ ReportConsistencyV3
=============================================================================
