---------------------------- MODULE EvidenceStore ----------------------------
(***************************************************************************)
(* What comparisons and exports share: the files of one workspace they     *)
(* read and write (src/evalops/workspace/storage.py), the previews of      *)
(* ExportService, the requests and their locks, and the surroundings:      *)
(* runs complete, files are edited behind the program's back, time passes, *)
(* the process dies.                                                       *)
(*                                                                         *)
(* The content of a result is a version; its SHA-256 is told by the        *)
(* version too.  A run that is complete is final (RunServiceProofs), so    *)
(* only an edit from outside changes its evidence: the code reads through  *)
(* checksums because of such edits.  changes, changedAt and the field      *)
(* began of a task are history: they say which edits a request can have    *)
(* met.                                                                    *)
(***************************************************************************)
EXTENDS Naturals, Sequences, FiniteSets

CONSTANTS
  Clients,         \* requests that run at the same time
  Runs,
  Versions,        \* contents a result file may have
  None,            \* no evidence yet, no baseline
  Original,        \* the one a run is completed with
  Queries,         \* of every run: the queries of its ground truth
  Population,      \* of every run: everything else that must match
  Covering,        \* runs whose predictions answer these queries and no others
  Directories,     \* destinations of exports
  Lifetime,        \* PREVIEW_LIFETIME
  MaxClock, MaxComparisons, MaxPreviews, MaxChanges \* bounds

ASSUME EvidenceAssumption ==
  /\ Original \in Versions /\ None \notin [result : Versions, sha : Versions]
  /\ Lifetime \in Nat /\ MaxClock \in Nat
  /\ MaxComparisons \in Nat /\ MaxPreviews \in Nat
  /\ MaxChanges \in Nat

VARIABLES
  evidence,      \* result.json and provenance.json of every run
  drifted,       \* runs whose inputs no longer have the checksums of their snapshot
  baseline,      \* workspace-state.json
  comparisons,   \* comparison directories in the order of their creation
  exported,      \* what lies at the destinations
  manifests,     \* exports/manifests
  previews,      \* every preview ever put into _prepared ...
  live,          \* ... and which of them are still there
  clock,
  cl,            \* the requests
  changes, changedAt

files   == <<baseline, comparisons, exported, manifests>>
memory  == <<previews, live>>
inputs  == <<evidence, drifted, changes, changedAt>>
vars == <<inputs, files, memory, clock, cl>>

Foreign == <<>>                         \* a target that is not ours

RunSource(r) == <<"run", r>>
ComparisonSource(i) == <<"comparison", i>>

-----------------------------------------------------------------------------
(* What the store reads.                                                   *)

\* get_run_artifacts: a complete run whose result has the recorded checksum.
Verified(r) == evidence[r] # None /\ evidence[r].result = evidence[r].sha

\* get_comparison_record.
Readable(i) == {"config", "result"} \subseteq comparisons[i].files

SameQueries(a, b) == Queries[a] = Queries[b]
\* assess_local_retrieval_compatibility, of two verified populations.
Comparable(a, b) ==
  SameQueries(a, b) /\ Population[a] = Population[b] /\ {a, b} \subseteq Covering

-----------------------------------------------------------------------------
(* Requests.  A request that has read what it needs goes on with one of    *)
(* the steps of its service; one that is refused, or has returned, is Idle. *)

Idle == [pc |-> "idle"]
Reading(task, runs) == [pc |-> "read", task |-> task, left |-> runs, read |-> <<>>]
HasRead(c) == cl[c].pc = "read" /\ cl[c].left = <<>>
At(c, pc) == cl[c].pc = pc
Step(c, pc) == cl' = [cl EXCEPT ![c].pc = pc]
Return(c) == cl' = [cl EXCEPT ![c] = Idle]
Serves(c, kind) == cl[c].pc # "idle" /\ cl[c].task.kind = kind

\* _job_lock is held over steps by save_comparison_record only.
JobLockFree == \A c \in Clients : cl[c].pc # "saving"
\* ExportService._lock is held from the beginning of confirm to its end.
ExportLockFree == \A c \in Clients : ~Serves(c, "confirm")

\* get_run_artifacts for the next operand of a request.
ReadOperand(c) ==
  /\ At(c, "read") /\ cl[c].left # <<>> /\ JobLockFree
  /\ LET r == Head(cl[c].left)
     IN  \/ /\ Verified(r)
            /\ cl' = [cl EXCEPT ![c].left = Tail(@),
                                ![c].read = Append(@, evidence[r].result)]
         \/ ~Verified(r) /\ Return(c)
  /\ UNCHANGED <<inputs, files, memory, clock>>

\* A read or a write raises before anything has changed.
StoreRaises(c) ==
  /\ cl[c].pc \in {"read", "save", "commit", "manifest"}
  /\ Return(c)
  /\ UNCHANGED <<inputs, files, memory, clock>>

-----------------------------------------------------------------------------
(* The surroundings.                                                       *)

\* The worker commits a run: the last step of write_run_artifacts.
CompleteRun(r) ==
  /\ evidence[r] = None /\ JobLockFree
  /\ evidence' = [evidence EXCEPT ![r] = [result |-> Original, sha |-> Original]]
  /\ UNCHANGED <<drifted, changes, changedAt, files, memory, clock, cl>>

\* Somebody edits a result, and its provenance to match it or not.
EditEvidence(r) ==
  /\ changes < MaxChanges /\ evidence[r] # None
  /\ \E v \in Versions \ {evidence[r].result} : \E s \in {evidence[r].sha, v} :
       evidence' = [evidence EXCEPT ![r] = [result |-> v, sha |-> s]]
  /\ changes' = changes + 1 /\ changedAt' = [changedAt EXCEPT ![r] = changes + 1]
  /\ UNCHANGED <<drifted, files, memory, clock, cl>>

\* Somebody edits the inputs of a run.
EditInputs(r) ==
  /\ changes < MaxChanges /\ r \notin drifted
  /\ drifted' = drifted \cup {r} /\ changes' = changes + 1
  /\ UNCHANGED <<evidence, changedAt, files, memory, clock, cl>>

Taken(d, s) == \E e \in exported : e.directory = d /\ e.source = s

\* Somebody creates a file where an export would go.
Occupy(d, s) ==
  /\ changes < MaxChanges /\ ~Taken(d, s)
  /\ exported' = exported \cup {[directory |-> d, source |-> s, files |-> Foreign]}
  /\ changes' = changes + 1
  /\ UNCHANGED <<evidence, drifted, changedAt, baseline, comparisons, manifests,
                 memory, clock, cl>>

Tick ==
  /\ clock < MaxClock /\ clock' = clock + 1
  /\ UNCHANGED <<inputs, files, memory, cl>>

\* The process dies and is started again: files stay as they are.
Crash ==
  /\ cl' = [c \in Clients |-> Idle] /\ live' = {}
  /\ UNCHANGED <<inputs, files, previews, clock>>

Surroundings ==
  \/ \E r \in Runs : CompleteRun(r) \/ EditEvidence(r) \/ EditInputs(r)
  \/ \E d \in Directories :
       \/ \E r \in Runs : Occupy(d, RunSource(r))
       \/ \E i \in DOMAIN comparisons : Occupy(d, ComparisonSource(i))
  \/ Tick
  \/ Crash
=============================================================================
