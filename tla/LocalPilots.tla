----------------------------- MODULE LocalPilots -----------------------------
(***************************************************************************)
(* The local experiments: the four scripts over the files they share, in   *)
(* a checkout whose commit, tree and served model change between the       *)
(* sessions, where a session can die between any two steps.                *)
(***************************************************************************)
EXTENDS LocalPilotV1, LocalPilotV2, LocalPilotV3, LocalFull

LocalInit(experiments) ==
  /\ experiment \in experiments
  /\ world = [head |-> 1, contract |-> 1, clean |-> TRUE, intact |-> TRUE, served |-> Frozen]
  /\ preflight = NoPreflight /\ report = NoReport /\ fullReport = "NONE"
  /\ store = [f \in StateFiles |-> [i \in Population |-> NoRecord]]
  /\ diagnosed = {}
  /\ pc = "down" /\ mode = "NONE" /\ file = "primary" /\ id = Done
  /\ retries = 0 /\ regens = 0 /\ verdict = "NONE" /\ requests = 0
  /\ began = {} /\ terminal = {} /\ failures = 0
  /\ vetted = {} /\ trusted = TRUE
  /\ judged = [i \in Population |-> 0]
  /\ sessions = 0 /\ changes = 0

\* A commit is made or a change left in the tree, the prepared data are replaced or put back,
\* or the preferred tag is pulled again.
Change ==
  /\ pc = "down" /\ changes < MaxChanges
  /\ \/ \E c \in Drafts :
          world' = [world EXCEPT !.head = @ + 1, !.clean = TRUE, !.contract = c]
     \/ world.clean /\ world' = [world EXCEPT !.clean = FALSE]
     \/ world' = [world EXCEPT !.intact = ~@]
     \/ \E d \in {Frozen, "drifted"} \ {world.served} : world' = [world EXCEPT !.served = d]
  /\ changes' = changes + 1
  /\ UNCHANGED <<experiment, artifacts, store, diagnosed, pc, progress, history, sessions>>

\* Artifacts are replaced as a whole, so a session that dies leaves whole files.
Crash ==
  /\ pc # "down"
  /\ Ends
  /\ UNCHANGED <<experiment, world, artifacts, store, diagnosed, history, bounds>>

LocalNext == NextV1 \/ NextV2 \/ NextV3 \/ NextFull \/ Save \/ Change \/ Crash

LocalSpec == LocalInit({"v1", "v2", "v3"}) /\ [][LocalNext]_localVars

-----------------------------------------------------------------------------
(* Properties *)

\* A complete report of the second or third experiment rests, for every example, on a
\* prediction of the weights it names; a complete full report on predictions of the frozen
\* weights under one contract.
OneModelAnswers ==
  /\ report.complete => Predicted("primary") = Ids
  /\ experiment # "v1" =>
       /\ report.complete => \A i \in Ids : store["primary"][i].digest = report.digest
       /\ fullReport = "COMPLETE" =>
            \E c \in Drafts : \A i \in FullIds :
              store["full"][i] = [kind |-> "SUCCESS", digest |-> Frozen, contract |-> c]

(***************************************************************************)
(* What the second and third experiment and the full run report is sound,  *)
(* through all resumed sessions and however commit, data and served model  *)
(* change between them: one model has answered, at a clean commit that had *)
(* passed its preflight, about the frozen data.  (The first experiment     *)
(* does not promise it: its resumed run takes whatever model the last      *)
(* preflight found.)                                                       *)
(***************************************************************************)
ReportsAreSound == OneModelAnswers /\ (experiment # "v1" => trusted)

(***************************************************************************)
(* Whenever a report begins to call its consistency COMPLETE, every        *)
(* example of the sample has been predicted three times over, in the       *)
(* primary file and in those of the two repeats, though the repeats may    *)
(* come from several sessions.                                             *)
(***************************************************************************)
ConsistencyIsThreefold ==
  [][report'.consistency = "COMPLETE" /\ report' # report /\ mode = "consistency" =>
       \A i \in Sample, f \in {"primary", "first", "second"} :
         store[f][i].kind = "SUCCESS"]_localVars

(***************************************************************************)
(* A failed answer whose record is on disk has an entry in the             *)
(* diagnostics, wherever the second or third experiment's session died:    *)
(* the one is written before the other.                                    *)
(***************************************************************************)
DiagnosticsCoverFailures ==
  experiment # "v1" =>
    \A f \in {"primary", "first", "second"}, i \in Population :
      store[f][i].kind = "FAILED" => i \in diagnosed

\* The full run judges nothing before the pilot is complete and each example of the sample
\* has been predicted at least three times.
FullRunIsAuthorized ==
  mode = "full" => Predicted("primary") = Ids /\ \A i \in Sample : judged[i] >= 3

\* A session of the full run stops asking at its last permitted failure; and one that began
\* with nothing goes on only while enough of its answers are predictions.
FullRunStops ==
  mode = "full" =>
    /\ failures <= FailureLimit
    /\ pc = "ask" =>
         /\ failures < FailureLimit
         /\ began = {} /\ Cardinality(terminal) >= MinAttempted =>
              Cardinality(Predicted("full")) * 100 >= MinValid * Cardinality(terminal)

(***************************************************************************)
(* The full run is authorized by what really happened and stops when its   *)
(* answers go wrong.                                                       *)
(***************************************************************************)
FullRunIsGuarded == FullRunIsAuthorized /\ FullRunStops
=============================================================================
