--------------------------- MODULE PilotExecution ---------------------------
(***************************************************************************)
(* The resumable pilot: sessions that ask an external judge about the      *)
(* pairs of a manifest, one call after the other, under a budget, a pace   *)
(* and a circuit breaker (src/evalops/pilot/execution.py, rate_limit.py,   *)
(* provenance.py), as scripts/run_phase5a_pilot.py drives them.  What      *)
(* outlives a session is the state file and the report; a session can die  *)
(* between any two steps.  Definitions named Slip... are plausible mistakes *)
(* in what follows them.                                                   *)
(*                                                                         *)
(* A pair is a provider and an example, numbered in the order of the two   *)
(* nested loops.  Time passes in units; only sleeps and answers take any.  *)
(***************************************************************************)
EXTENDS Integers, Sequences, FiniteSets

CONSTANTS
  NumPairs,        \* pairs of the manifest
  Versions,        \* model versions a provider may report
  NoVersion,       \* the answer names none
  Regenerations,   \* parse_regenerations, per pair
  MaxRetries,      \* max_retries
  MaxRateLimits,   \* max_consecutive_rate_limits
  MinInterval,     \* min_interval_seconds
  Backoff,         \* what retry_sleep sleeps, at most 2 seconds
  Delays,          \* Retry-After of a rate limit, 0 when there is none
  Latencies,       \* how long an answer takes
  Headroom,        \* RETRY_HEADROOM_REQUESTS
  Ceiling,         \* MAX_DAILY_RESUME_REQUESTS
  MaxSessions      \* bound: sessions ever begun

Pairs == 1..NumPairs

ASSUME PilotAssumption ==
  /\ NumPairs \in Nat /\ NoVersion \notin Versions
  /\ Regenerations \in [Pairs -> Nat] /\ MaxRetries \in Nat
  /\ MaxRateLimits \in Nat \ {0}
  /\ MinInterval \in Nat /\ Backoff \in Nat /\ Delays \subseteq Nat /\ Latencies \subseteq Nat
  /\ Headroom \in Nat \ {0} /\ Ceiling \in Nat \ {0} /\ MaxSessions \in Nat

VARIABLES
  records,      \* the state file: what is known of every pair
  report,       \* the versions of the last report, NoReport before the first
  pc, pair, retries, regens, stopped, results,   \* run_provider_pilot
  budget, used,                                  \* RequestBudget
  streak, lastRequest, clock,                    \* RateAwareRequestScheduler
  historical, resumed,                           \* ModelVersionContinuity
  calls,        \* the calls of the session with their answers: the last one is the trace
  sessions

disk     == <<records, report>>
progress == <<pair, retries, regens, results>>
limits   == <<budget, used>>
pacing   == <<streak, lastRequest, clock>>
lineage  == <<historical, resumed>>
vars == <<disk, pc, progress, stopped, limits, pacing, lineage, calls, sessions>>

NoReport == [historical |-> {}, resumed |-> {}, written |-> FALSE]
Never == -1

(* How a call can end: a prediction, a 429, a 429 that names the daily     *)
(* quota, another error of RETRYABLE_ERRORS, an answer without a           *)
(* prediction in it, an error that is not retried.                         *)
RateLimits == {"RATE_LIMIT", "RPD"}
Retryable  == RateLimits \cup {"TRANSIENT"}
Kinds      == Retryable \cup {"SUCCESS", "UNPARSED", "PERMANENT"}

NoRecord == [kind |-> "NONE", attempt |-> 0, version |-> NoVersion]
Successful(p) == records[p].kind = "SUCCESS"
Persisted == {records[p].version : p \in {q \in Pairs : Successful(q)}} \ {NoVersion}

trace == calls[Len(calls)]
Larger(a, b) == IF a > b THEN a ELSE b

-----------------------------------------------------------------------------
(* A session *)

SessionBudget ==
  LET wanted == Cardinality({p \in Pairs : ~Successful(p)}) + Headroom
  IN  IF wanted < Ceiling THEN wanted ELSE Ceiling

\* A report is believed even where the state file knows more.
History == IF report.written THEN report.historical ELSE Persisted

Begin ==
  /\ pc = "down" /\ sessions < MaxSessions
  /\ sessions' = sessions + 1
  /\ pc' = "pick" /\ pair' = 1 /\ retries' = 0 /\ regens' = 0 /\ results' = <<>>
  /\ stopped' = FALSE
  /\ budget' = SessionBudget /\ used' = 0
  /\ streak' = 0 /\ lastRequest' = Never /\ clock' = 0
  /\ historical' = History /\ resumed' = report.resumed
  /\ calls' = <<>>
  /\ UNCHANGED disk

SlipSkips(p) == FALSE                \* a resumed session starts from the first pair
SlipSkipsTried(p) == records[p] # NoRecord   \* nor does it try a failed pair again
Skips(p) == Successful(p)

\* The next pair: skipped when it has succeeded, in this session or an earlier one.
Pick ==
  /\ pc = "pick"
  /\ \/ /\ pair > NumPairs
        /\ pc' = "report"
        /\ UNCHANGED progress
     \/ /\ pair \in Pairs /\ Skips(pair)
        /\ results' = Append(results, pair) /\ pair' = pair + 1
        /\ UNCHANGED <<pc, retries, regens>>
     \/ /\ pair \in Pairs /\ ~Skips(pair)
        /\ retries' = 0 /\ regens' = 0
        /\ pc' = "request"
        /\ UNCHANGED <<pair, results>>
  /\ UNCHANGED <<disk, stopped, limits, pacing, lineage, calls, sessions>>

SlipExhausted == used > budget       \* the ceiling is passed by one
Exhausted == used >= budget

SlipSpacing == clock                 \* the time of the last request is not looked at
Spacing == IF lastRequest = Never THEN clock ELSE Larger(clock, lastRequest + MinInterval)

\* reserve() and before_request().
Request ==
  /\ pc = "request"
  /\ IF Exhausted
       THEN /\ pc' = "report" /\ stopped' = TRUE
            /\ UNCHANGED <<used, clock, lastRequest>>
       ELSE /\ used' = used + 1
            /\ clock' = Spacing /\ lastRequest' = Spacing
            /\ pc' = "call"
            /\ UNCHANGED stopped
  /\ UNCHANGED <<disk, progress, budget, streak, lineage, calls, sessions>>

Answers ==
  [kind : {"SUCCESS"}, version : Versions \cup {NoVersion}, delay : {0}]
    \cup [kind : {"RATE_LIMIT"}, version : {NoVersion}, delay : Delays]
    \cup [kind : Kinds \ {"SUCCESS", "RATE_LIMIT"}, version : {NoVersion}, delay : {0}]

\* The provider answers, in any way.
Call ==
  /\ pc = "call"
  /\ \E a \in Answers, latency \in Latencies :
       /\ clock' = clock + latency
       /\ calls' = Append(calls, [pair |-> pair, kind |-> a.kind, version |-> a.version,
                                  delay |-> a.delay, sent |-> clock, received |-> clock'])
  /\ pc' = "answered"
  /\ UNCHANGED <<disk, progress, stopped, limits, streak, lastRequest, lineage, sessions>>

Streak == IF trace.kind \in RateLimits THEN streak + 1 ELSE 0

SlipTrips == trace.kind = "RPD" \/ Streak > MaxRateLimits   \* one answer too late
Trips == trace.kind = "RPD" \/ Streak >= MaxRateLimits

Regenerates == trace.kind = "UNPARSED" /\ regens < Regenerations[pair]

\* observe(), and what the loop does with the answer.
Observe ==
  /\ pc = "answered"
  /\ streak' = Streak
  /\ stopped' = (trace.kind \in RateLimits /\ Trips)
  /\ regens' = IF Regenerates THEN regens + 1 ELSE regens
  /\ pc' = CASE Regenerates -> "request"
             [] trace.kind = "SUCCESS" -> "accept"
             [] OTHER -> "save"
  /\ UNCHANGED <<disk, pair, retries, results, limits, lastRequest, clock, lineage, calls,
                 sessions>>

SlipAccepts(v) == historical = {} \/ v \in historical   \* only history is compared
Accepts(v) ==
  /\ historical # {} => v \in historical
  /\ resumed # {} => v \in resumed

\* success_observer: a prediction of another model version ends the session unsaved.
Accept ==
  /\ pc = "accept"
  /\ IF trace.version = NoVersion
       THEN pc' = "save" /\ UNCHANGED <<stopped, resumed>>
       ELSE IF Accepts(trace.version)
         THEN pc' = "save" /\ resumed' = resumed \cup {trace.version} /\ UNCHANGED stopped
         ELSE pc' = "report" /\ stopped' = TRUE /\ UNCHANGED resumed
  /\ UNCHANGED <<disk, progress, limits, pacing, historical, calls, sessions>>

SlipAttempt == retries + 1           \* regenerations are not counted
SlipAttemptFromZero == retries + regens
Attempt == retries + regens + 1

\* upsert() replaces the state file at once; a success is never overwritten, by
\* another success not even quietly.
Save ==
  /\ pc = "save"
  /\ records' = IF Successful(pair) THEN records
                ELSE [records EXCEPT ![pair] = [kind |-> trace.kind, attempt |-> Attempt,
                                                version |-> trace.version]]
  /\ pc' = CASE Successful(pair) /\ trace.kind = "SUCCESS" -> "down"
             [] stopped -> "report"
             [] OTHER -> "saved"
  /\ UNCHANGED <<report, progress, stopped, limits, pacing, lineage, calls, sessions>>

SlipGivesUp == trace.kind \notin Retryable \/ retries > MaxRetries   \* one retry too many
GivesUp == trace.kind \notin Retryable \/ retries >= MaxRetries

SlipWait == Backoff                  \* the provider's delay is not looked at
Wait ==
  IF trace.kind \in RateLimits THEN Larger(MinInterval, trace.delay) ELSE Backoff

\* The pair is settled, or is tried again after a sleep.
Advance ==
  /\ pc = "saved"
  /\ \/ /\ GivesUp
        /\ results' = Append(results, pair) /\ pair' = pair + 1
        /\ pc' = "pick"
        /\ UNCHANGED <<retries, clock>>
     \/ /\ ~GivesUp
        /\ retries' = retries + 1
        /\ clock' = clock + Wait
        /\ pc' = "request"
        /\ UNCHANGED <<pair, results>>
  /\ UNCHANGED <<disk, regens, stopped, limits, streak, lastRequest, lineage, calls, sessions>>

\* The session ends: its report replaces the last one.
Report ==
  /\ pc = "report"
  /\ report' = [historical |-> historical, resumed |-> resumed, written |-> TRUE]
  /\ pc' = "down"
  /\ UNCHANGED <<records, progress, stopped, limits, pacing, lineage, calls, sessions>>

\* The process dies, or a write raises: files are replaced as a whole or not at all.
Crash ==
  /\ pc # "down"
  /\ pc' = "down"
  /\ UNCHANGED <<disk, progress, stopped, limits, pacing, lineage, calls, sessions>>

Finished == pc = "down" /\ sessions = MaxSessions /\ UNCHANGED vars

Init ==
  /\ records = [p \in Pairs |-> NoRecord] /\ report = NoReport
  /\ pc = "down" /\ pair = 1 /\ retries = 0 /\ regens = 0 /\ results = <<>> /\ stopped = FALSE
  /\ budget = 0 /\ used = 0
  /\ streak = 0 /\ lastRequest = Never /\ clock = 0
  /\ historical = {} /\ resumed = {}
  /\ calls = <<>> /\ sessions = 0

Next ==
  \/ Begin \/ Pick \/ Request \/ Call \/ Observe \/ Accept \/ Save \/ Advance \/ Report
  \/ Crash \/ Finished

Spec == Init /\ [][Next]_vars
=============================================================================
