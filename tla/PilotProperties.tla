-------------------------- MODULE PilotProperties --------------------------
(* What a pilot must get right over retries, resumed sessions and crashes. *)
EXTENDS PilotExecution

Pcs == {"down", "pick", "request", "call", "answered", "accept", "save", "saved", "report"}

CallRecord ==
  [pair : Pairs, kind : Kinds, version : Versions \cup {NoVersion}, delay : Delays \cup {0},
   sent : Nat, received : Nat]

Record ==
  [kind : Kinds, attempt : Nat \ {0}, version : Versions \cup {NoVersion}] \cup {NoRecord}

\* Types; a pair that was tried has been tried at least once.
TypeOK ==
  /\ records \in [Pairs -> Record]
  /\ report \in [historical : SUBSET Versions, resumed : SUBSET Versions, written : BOOLEAN]
  /\ pc \in Pcs /\ pair \in 1..(NumPairs + 1) /\ retries \in Nat /\ regens \in Nat
  /\ results \in Seq(Pairs) /\ stopped \in BOOLEAN
  /\ budget \in Nat /\ used \in Nat
  /\ streak \in Nat /\ lastRequest \in Nat \cup {Never} /\ clock \in Nat
  /\ historical \in SUBSET Versions /\ resumed \in SUBSET Versions
  /\ calls \in Seq(CallRecord) /\ sessions \in 0..MaxSessions

CallsOf(p) == {i \in DOMAIN calls : calls[i].pair = p}

(* On no path, a retry, a regeneration or a resumed session, does a call go out beyond the
   ceiling of its session; and a session never has more than it asked for. *)
BudgetHolds == Len(calls) <= budget /\ budget <= Ceiling

Going == {"pick", "request", "call", "saved"}   \* another call may follow

Tripped(i) ==
  \/ calls[i].kind = "RPD"
  \/ \E start \in DOMAIN calls :
       start = i + 1 - MaxRateLimits /\ \A k \in start..i : calls[k].kind \in RateLimits

(* The breaker counts over retries and over pairs: MaxRateLimits rate limits in a row, or
   one that names the daily quota, are the last calls of their session. *)
BreakerHolds == \A i \in DOMAIN calls : Tripped(i) => i = Len(calls) /\ pc \notin Going

(* Retries and regenerations together are bounded for every pair, whatever errors alternate. *)
AttemptsAreBounded ==
  \A p \in Pairs : Cardinality(CallsOf(p)) <= 1 + MaxRetries + Regenerations[p]

(* Two requests of a session are at least MinInterval apart, from pair to pair and from
   retry to retry. *)
RequestsArePaced ==
  \A i, k \in DOMAIN calls : k = i + 1 => calls[k].sent >= calls[i].sent + MinInterval

(* A retry after a 429 waits as long as the provider asked for. *)
RetryHonoursDelay ==
  \A i, k \in DOMAIN calls :
    k = i + 1 /\ calls[i].kind = "RATE_LIMIT" /\ calls[k].pair = calls[i].pair
      => calls[k].sent >= calls[i].received + calls[i].delay

(* No session calls without end: its calls are bounded by its budget, by the breaker, and for
   every pair by its retries and regenerations. *)
CallsAreBounded == BudgetHolds /\ BreakerHolds /\ AttemptsAreBounded

(* Calls are as far apart as the interval, and as what the provider asks for, demands. *)
CallsArePaced == RequestsArePaced /\ RetryHonoursDelay

(* A session that was not stopped has settled every pair, in the manifest's order: it has
   succeeded, failed for good, or been tried as often as allowed. *)
ResultsAreComplete ==
  pc = "report" /\ ~stopped =>
    /\ results = [p \in Pairs |-> p]
    /\ \A p \in Pairs :
         /\ records[p] # NoRecord
         /\ records[p].kind \in Retryable => Cardinality(CallsOf(p)) > MaxRetries

(* The versions a session accepts, and those it inherits, are one. *)
OneVersionInSession == Cardinality(historical \cup resumed) <= 1

-----------------------------------------------------------------------------

(* A success is final: over retries, crashes and resumed sessions it is neither overwritten
   nor paid for again. *)
SuccessIsFinal ==
  [][\A p \in Pairs : Successful(p) =>
       /\ records'[p] = records[p]
       /\ sessions' = sessions => CallsOf(p)' = CallsOf(p)]_vars

(* What is saved about a pair is its last call, and how often the session has called. *)
RecordsTellCalls ==
  [][\A p \in Pairs : records'[p] # records[p] =>
       /\ calls' = calls /\ trace.pair = p
       /\ records'[p] = [kind |-> trace.kind, version |-> trace.version,
                         attempt |-> Cardinality(CallsOf(p))]]_vars

-----------------------------------------------------------------------------
(* The inductive strengthening: what the loop knows at its program counter *)

Calling  == {"request", "call"}
Answered == {"answered", "accept", "save", "saved"}

\* A pair in work is one that has not succeeded, and the trace is of it.
CursorKnows ==
  /\ pc \in Calling \cup Answered => pair \in Pairs
  /\ pc \in Calling \cup (Answered \ {"saved"}) => ~Successful(pair)
  /\ pc = "saved" => records[pair].kind = trace.kind
  /\ pc \in Answered => calls # <<>> /\ trace.pair = pair
  /\ \A i \in DOMAIN calls : calls[i].pair <= pair /\ (pc = "pick" => calls[i].pair < pair)

BudgetKnows ==
  /\ Len(calls) <= used /\ used <= budget /\ budget <= Ceiling
  /\ pc = "call" => Len(calls) < used

PaceKnows ==
  /\ pc = "call" => clock = lastRequest
  /\ calls # <<>> =>
       /\ lastRequest >= trace.sent /\ clock >= trace.received
       /\ pc = "call" => clock >= trace.sent + MinInterval
       /\ pc \in Calling /\ trace.pair = pair /\ trace.kind = "RATE_LIMIT"
            => clock >= trace.received + trace.delay

Observed == IF pc = "answered" THEN Len(calls) - 1 ELSE Len(calls)

\* No more than streak rate limits are at the end of what was observed.
StreakKnows ==
  /\ pc # "down" => \A start \in DOMAIN calls :
       (\A k \in start..Observed : calls[k].kind \in RateLimits) => Observed + 1 - start <= streak
  /\ pc \in Going \cup {"answered"} => streak < MaxRateLimits
  /\ pc \in Going /\ calls # <<>> => trace.kind # "RPD"
  /\ pc = "accept" => streak = 0 /\ trace.kind = "SUCCESS" /\ ~stopped
  /\ pc = "save" /\ ~stopped => streak < MaxRateLimits /\ trace.kind # "RPD"

TrippedIsLast == \A i \in DOMAIN calls : Tripped(i) => i = Len(calls)

AtMostOne(S) == \A v, w \in S : v = w

VersionsKnow ==
  /\ AtMostOne(historical \cup resumed)
  /\ AtMostOne(report.historical \cup report.resumed)
  /\ ~report.written => report.resumed = {} /\ Persisted \subseteq historical \cup resumed
  /\ pc = "save" /\ trace.kind = "SUCCESS" /\ trace.version # NoVersion
       => trace.version \in resumed

CountsKnow ==
  /\ pc \in Calling => Cardinality(CallsOf(pair)) = retries + regens
  /\ pc \in Answered => Cardinality(CallsOf(pair)) = Attempt
  /\ pc \in Calling \cup Answered => retries <= MaxRetries /\ regens <= Regenerations[pair]

Settled(p) ==
  /\ records[p] # NoRecord
  /\ records[p].kind \in Retryable => Cardinality(CallsOf(p)) > MaxRetries

ResultsKnow ==
  /\ Len(results) = pair - 1 /\ \A i \in DOMAIN results : results[i] = i
  /\ \A p \in Pairs : p < pair => Settled(p)
  /\ pc = "saved" => records[pair] # NoRecord
  /\ pc = "report" /\ ~stopped => pair = NumPairs + 1

PilotInvariant ==
  /\ TypeOK /\ CursorKnows
  /\ BudgetKnows
  /\ PaceKnows /\ RequestsArePaced /\ RetryHonoursDelay
  /\ StreakKnows /\ TrippedIsLast
  /\ VersionsKnow
  /\ CountsKnow /\ AttemptsAreBounded
  /\ pc # "down" => ResultsKnow

=============================================================================
