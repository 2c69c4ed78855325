-------------------------- MODULE ComparisonService --------------------------
(***************************************************************************)
(* The requests of workspace/application/comparisons.py: pin a baseline    *)
(* and compare a candidate with it.  A comparison is three files in a      *)
(* directory of its own, written under _job_lock, config.json last; what   *)
(* was created is taken back when a write fails, but not when the process  *)
(* dies.  A refusal that changes nothing is no step.                       *)
(***************************************************************************)
EXTENDS EvidenceStore

Modes == {"CANONICAL", "EXPLORATORY_ONLY"}

-----------------------------------------------------------------------------
(* Pin.  The route decides whether the replacement is allowed; the service *)
(* reads the state again and replaces it.                                  *)

Replaces(r) == baseline # None /\ baseline.run # r

PinTask(r, confirmed) ==
  [kind |-> "pin", run |-> r, confirmed |-> confirmed]

PinBegin(c, r, confirmed) ==
  /\ At(c, "idle")
  /\ Replaces(r) => confirmed
  /\ cl' = [cl EXCEPT ![c] = Reading(PinTask(r, confirmed), <<r>>)]
  /\ UNCHANGED <<inputs, files, memory, clock>>

\* save_workspace_state: one atomic replacement.
PinSave(c) ==
  /\ HasRead(c) /\ Serves(c, "pin")
  /\ baseline' = [run |-> cl[c].task.run, sha |-> cl[c].read[1]]
  /\ Return(c)
  /\ UNCHANGED <<inputs, comparisons, exported, manifests, memory, clock>>

-----------------------------------------------------------------------------
(* Compare.                                                                *)

CompareTask(candidate) ==
  [kind |-> "compare", base |-> baseline.run, baseSha |-> baseline.sha,
   candidate |-> candidate, began |-> changes]

MayCompare(candidate) == baseline # None /\ baseline.run # candidate

Comparing == {c \in Clients : Serves(c, "compare")}

CompareBegin(c, candidate) ==
  /\ At(c, "idle") /\ MayCompare(candidate)
  /\ Len(comparisons) + Cardinality(Comparing) < MaxComparisons
  /\ cl' = [cl EXCEPT ![c] =
              Reading(CompareTask(candidate), <<baseline.run, candidate>>)]
  /\ UNCHANGED <<inputs, files, memory, clock>>

SlipAccepts(task, read, mode) ==              \* the pinned checksum is not compared
  /\ {task.base, task.candidate} \cap drifted = {}
  /\ mode = "CANONICAL" => Comparable(task.base, task.candidate)
\* The pinned checksum, the verified populations, and what the mode demands.
Accepts(task, read, mode) ==
  /\ read[1] = task.baseSha
  /\ {task.base, task.candidate} \cap drifted = {}
  /\ mode = "CANONICAL" => Comparable(task.base, task.candidate)

\* The report is what compare_metrics makes of the two results that were read.
ComparisonRecord(task, read, mode) ==
  [mode |-> mode, comparable |-> Comparable(task.base, task.candidate),
   base |-> task.base, baseSha |-> task.baseSha,
   candidate |-> task.candidate, candidateSha |-> read[2],
   report |-> read]

Assessed(task, read, mode) ==
  [pc |-> "save", task |-> task, read |-> read, mode |-> mode]

\* The mode of the request is looked at only here.
Assess(c) ==
  /\ HasRead(c) /\ Serves(c, "compare")
  /\ \E mode \in Modes :
       \/ /\ Accepts(cl[c].task, cl[c].read, mode)
          /\ cl' = [cl EXCEPT ![c] = Assessed(cl[c].task, cl[c].read, mode)]
       \/ ~Accepts(cl[c].task, cl[c].read, mode) /\ Return(c)
  /\ UNCHANGED <<inputs, files, memory, clock>>

SlipHasFailures(task) == TRUE           \* transitions are invented
HasFailures(task) == SameQueries(task.base, task.candidate)

SlipOrder(task) ==                      \* readable before it is whole
  IF HasFailures(task) THEN <<"result", "config", "failures">> ELSE <<"result", "config">>
\* The files of a comparison in the order they are linked.
Order(task) ==
  IF HasFailures(task) THEN <<"result", "failures", "config">> ELSE <<"result", "config">>

\* save_comparison_record takes _job_lock; its first write makes the directory.
SaveBegin(c) ==
  /\ At(c, "save") /\ JobLockFree
  /\ comparisons' = Append(comparisons,
                           [record |-> ComparisonRecord(cl[c].task, cl[c].read, cl[c].mode),
                            files |-> {"directory"}])
  /\ cl' = [cl EXCEPT ![c] = [pc |-> "saving", task |-> cl[c].task,
                              id |-> Len(comparisons) + 1, left |-> Order(cl[c].task)]]
  /\ UNCHANGED <<inputs, baseline, exported, manifests, memory, clock>>

\* The next file is linked.
WriteNext(c) ==
  /\ At(c, "saving")
  /\ comparisons' = [comparisons EXCEPT ![cl[c].id].files = @ \cup {Head(cl[c].left)}]
  /\ IF Tail(cl[c].left) = <<>> THEN Return(c)
     ELSE cl' = [cl EXCEPT ![c].left = Tail(@)]
  /\ UNCHANGED <<inputs, baseline, exported, manifests, memory, clock>>

\* A write raises: what was created is removed in reverse, then the directory.
SaveFails(c) ==
  /\ At(c, "saving")
  /\ comparisons' = [comparisons EXCEPT ![cl[c].id].files = {}]
  /\ Return(c)
  /\ UNCHANGED <<inputs, baseline, exported, manifests, memory, clock>>

ComparisonStep(c) ==
  \/ \E r \in Runs : \/ \E confirmed \in BOOLEAN : PinBegin(c, r, confirmed)
                     \/ CompareBegin(c, r)
  \/ PinSave(c) \/ Assess(c) \/ SaveBegin(c) \/ WriteNext(c) \/ SaveFails(c)
=============================================================================
