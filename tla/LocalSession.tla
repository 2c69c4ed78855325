----------------------------- MODULE LocalSession -----------------------------
(***************************************************************************)
(* What the four scripts of the local experiments share: the files they    *)
(* keep, the judge they ask, and the loop that asks it about one example   *)
(* after the other (src/evalops/pilot/execution.py).  Each script is a     *)
(* module of its own: LocalPilotV1, LocalPilotV2, LocalPilotV3 and         *)
(* LocalFull; LocalPilots puts them together.                              *)
(*                                                                         *)
(* Examples are numbered in the order of the manifest.  A digest stands    *)
(* for the weights that really answer: the adapter reports the digest it   *)
(* was configured with, so a record's own model_version tells nothing.     *)
(***************************************************************************)
EXTENDS Integers, FiniteSets

CONSTANTS
  Ids,           \* examples of the pilot's manifest
  Sample,        \* those of the consistency manifest
  FullIds,       \* examples of the full population
  MaxRetries,    \* max_retries
  FailureLimit,  \* failed records that end a full session
  MinAttempted,  \* examples after which the validity rate is looked at
  MinValid,      \* the validity rate a full session must keep, in percent
  MaxSessions,   \* bound: sessions ever begun
  MaxChanges     \* bound: times the commit, the tree or the served weights change

ASSUME LocalAssumption ==
  /\ Ids \subseteq Nat /\ FullIds \subseteq Nat /\ Sample \subseteq Ids
  /\ IsFiniteSet(Ids) /\ IsFiniteSet(FullIds)
  /\ {MaxRetries, FailureLimit, MinAttempted, MinValid, MaxSessions, MaxChanges} \subseteq Nat
  /\ FailureLimit # 0   \* 10

VARIABLES
  experiment,    \* which pilot this checkout runs: "v1", "v2" or "v3"
  world,         \* commit checked out and the judge contract in it, is the tree clean, are data
                 \* and baselines those of the manifest, weights the preferred tag serves
  preflight,     \* the preflight artifact
  store,         \* the state files: records of the primary run, of two repeats, of the full run
  diagnosed,     \* examples with an entry in the failure diagnostics
  report,        \* the pilot's report
  fullReport,    \* the full run's report
  pc, mode, file, id, retries, regens,   \* the session, the file it fills, the example at hand
  verdict,        \* how the judge's last call ended
  requests,      \* calls of a consistency session
  began,         \* examples a full session found predicted
  terminal, failures,                    \* examples and failed records it has seen
  vetted,        \* commits a preflight of theirs has passed
  trusted,       \* was every prediction made at a clean, vetted commit on the right data
  judged,        \* how often each example was predicted, ever, counted up to three
  sessions, changes

artifacts == <<preflight, report, fullReport>>
progress  == <<mode, file, id, retries, regens, verdict, requests, began, terminal, failures>>
history   == <<vetted, trusted, judged>>
bounds    == <<sessions, changes>>
localVars == <<experiment, world, artifacts, store, diagnosed, pc, progress, history, bounds>>

StateFiles   == {"primary", "first", "second", "full"}
Frozen  == "frozen"                       \* the digest v2 and later expect
Digests == {Frozen, "drifted", "small"}   \* small: what the fallback tag serves
Drafts  == {1, 2}                         \* prompt, schema and transport, as the code has them

(* How an evaluation ends: a prediction, an answer without one, an error   *)
(* of RETRYABLE_ERRORS, a model that does not fit or is not there.         *)
Kinds == {"SUCCESS", "UNPARSED", "TRANSIENT", "RESOURCE"}

\* The ways the synthetic cases of a preflight end together.
PreflightOutcomes == {{"SUCCESS"}, {"SUCCESS", "UNPARSED"}, {"TRANSIENT"}, {"SUCCESS", "RESOURCE"}}

NoRecord    == [kind |-> "NONE", digest |-> Frozen, contract |-> 1]
NoPreflight == [status |-> "NONE", commit |-> 0, digest |-> Frozen]
NoReport    == [written |-> FALSE, complete |-> FALSE, digest |-> Frozen, contract |-> 1,
                consistency |-> "NOT_RUN", requests |-> 0]

IdsOf(f) == CASE f = "primary" -> Ids [] f = "full" -> FullIds [] OTHER -> Sample
Predicted(f) == {i \in IdsOf(f) : store[f][i].kind = "SUCCESS"}
Population == Ids \cup FullIds
Done == 0                                 \* no example is left

-----------------------------------------------------------------------------
(* run_provider_pilot: the next example, a call, a record *)

\* Examples that have a prediction are passed over.
NextId(f, after, predicted) ==
  LET left == {i \in IdsOf(f) \ predicted : i > after}
  IN  IF left = {} THEN Done ELSE CHOOSE i \in left : \A j \in left : i <= j

\* A session begins to fill a file.
Fills(f, predicted) ==
  /\ file' = f
  /\ id' = NextId(f, 0, predicted)
  /\ retries' = 0 /\ regens' = 0

\* A session ends, and its memory is gone.
Ends ==
  /\ pc' = "down" /\ mode' = "NONE" /\ file' = "primary" /\ id' = Done
  /\ retries' = 0 /\ regens' = 0 /\ verdict' = "NONE" /\ requests' = 0
  /\ began' = {} /\ terminal' = {} /\ failures' = 0

Begins(m) ==
  /\ pc = "down" /\ sessions < MaxSessions
  /\ sessions' = sessions + 1
  /\ mode' = m /\ verdict' = "NONE" /\ requests' = 0
  /\ terminal' = {} /\ failures' = 0
  /\ UNCHANGED <<experiment, world, changes, history>>

Asking == pc = "ask" /\ id # Done

Regenerates(kind, allowed) == kind = "UNPARSED" /\ regens < allowed

\* The judge answers; the script's diagnostics come before the record.
JudgeAnswers(kind, diagnoses, allowed) ==
  /\ Asking
  /\ verdict' = kind
  /\ requests' = IF mode = "consistency" THEN requests + 1 ELSE requests
  /\ diagnosed' = IF diagnoses THEN diagnosed \cup {id} ELSE diagnosed
  /\ regens' = IF Regenerates(kind, allowed) THEN regens + 1 ELSE regens
  /\ pc' = IF Regenerates(kind, allowed) THEN "ask" ELSE "save"
  /\ UNCHANGED <<experiment, world, artifacts, store, mode, file, id, retries, began, terminal,
                 failures, history, bounds>>

\* The fallback tag serves its own weights, every other session asks the preferred tag.
Answering == IF experiment = "v1" /\ preflight.digest = "small" THEN "small" ELSE world.served

Vetted ==
  world.clean /\ world.intact /\ (mode \in {"run", "consistency"} => world.head \in vetted)

GivesUp == verdict # "TRANSIENT" \/ retries >= MaxRetries

\* upsert(), and the record's fate: the next example, or another try of this one.
Recorded ==
  /\ pc = "save"
  /\ store' = [store EXCEPT ![file][id] =
                 [kind |-> IF verdict = "SUCCESS" THEN "SUCCESS" ELSE "FAILED",
                  digest |-> Answering, contract |-> world.contract]]
  /\ trusted' = (trusted /\ (verdict = "SUCCESS" => Vetted))
  /\ judged' = IF verdict = "SUCCESS" /\ judged[id] < 3 THEN [judged EXCEPT ![id] = @ + 1]
               ELSE judged
  /\ IF GivesUp THEN id' = NextId(file, id, Predicted(file)) /\ retries' = 0 /\ regens' = 0
     ELSE retries' = retries + 1 /\ UNCHANGED <<id, regens>>
  /\ UNCHANGED <<experiment, world, artifacts, diagnosed, mode, file, verdict, requests, began,
                 vetted, bounds>>

Save ==
  /\ mode # "full"
  /\ Recorded
  /\ pc' = "ask"
  /\ UNCHANGED <<terminal, failures>>

\* A file of the session is filled.
FileIsFilled(f) == pc = "ask" /\ id = Done /\ file = f

\* A report replaces the last one as a whole, and the session ends.
Reports(r) ==
  /\ report' = r
  /\ Ends
  /\ UNCHANGED <<experiment, world, preflight, fullReport, store, diagnosed, history, bounds>>

\* A preflight asks the judge about its synthetic cases and writes its artifact.
Preflights(status, digest) ==
  /\ pc = "down" /\ sessions < MaxSessions
  /\ sessions' = sessions + 1
  /\ preflight' = [status |-> status, commit |-> world.head, digest |-> digest]
  /\ vetted' = IF status = "PASS" THEN vetted \cup {world.head} ELSE vetted
  /\ UNCHANGED <<experiment, world, report, fullReport, store, diagnosed, pc, progress, trusted,
                 judged, changes>>
=============================================================================
