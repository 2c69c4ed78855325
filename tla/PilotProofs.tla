---------------------------- MODULE PilotProofs ----------------------------
(***************************************************************************)
(* The pilot's promises, for any manifest, budget, number of retries,      *)
(* regenerations and sessions: each part of PilotInvariant is preserved by *)
(* every step, from the parts before it.                                   *)
(***************************************************************************)
EXTENDS PilotProperties, FiniteSetTheorems, TLAPS

-----------------------------------------------------------------------------
(* Helpers *)

\* The larger of two numbers is one of them and no smaller than either.
LEMMA LargerOfNats ==
  ASSUME NEW a \in Nat, NEW b \in Nat
  PROVE  Larger(a, b) \in Nat /\ Larger(a, b) >= a /\ Larger(a, b) >= b
BY DEF Larger

\* The last call has its fields.
LEMMA TraceIsACall ==
  ASSUME calls \in Seq(CallRecord), calls # <<>>
  PROVE  /\ trace \in CallRecord /\ Len(calls) \in DOMAIN calls
         /\ trace.pair \in Pairs /\ trace.kind \in Kinds /\ trace.version \in Versions \cup {NoVersion}
         /\ trace.delay \in Nat /\ trace.sent \in Nat /\ trace.received \in Nat
<1>1. Len(calls) \in 1..Len(calls) /\ DOMAIN calls = 1..Len(calls)
  OBVIOUS
<1>2. trace \in CallRecord
  BY <1>1 DEF trace
<1>3. Delays \cup {0} \subseteq Nat
  BY PilotAssumption
<1>4. QED
  BY <1>1, <1>2, <1>3 DEF CallRecord

\* What Call adds, at the end and nowhere else.
LEMMA CallAppends ==
  ASSUME TypeOK, pair \in Pairs, Call
  PROVE  \E a \in Answers, latency \in Latencies :
           /\ latency \in Nat /\ clock' = clock + latency
           /\ calls' \in Seq(CallRecord) /\ Len(calls') = Len(calls) + 1
           /\ \A i \in DOMAIN calls : i \in DOMAIN calls' /\ calls'[i] = calls[i]
           /\ DOMAIN calls' = DOMAIN calls \cup {Len(calls')}
           /\ trace'.pair = pair /\ trace'.kind = a.kind /\ trace'.version = a.version
           /\ trace'.delay = a.delay /\ trace'.sent = clock /\ trace'.received = clock'
<1>1. PICK a \in Answers, latency \in Latencies :
        /\ clock' = clock + latency
        /\ calls' = Append(calls, [pair |-> pair, kind |-> a.kind, version |-> a.version,
                                   delay |-> a.delay, sent |-> clock, received |-> clock'])
  BY DEF Call
<1> DEFINE c == [pair |-> pair, kind |-> a.kind, version |-> a.version,
                 delay |-> a.delay, sent |-> clock, received |-> clock']
<1>2. latency \in Nat /\ clock \in Nat
  BY PilotAssumption DEF TypeOK
<1>3. a.kind \in Kinds /\ a.version \in Versions \cup {NoVersion} /\ a.delay \in Delays \cup {0}
  BY DEF Answers, Kinds, Retryable, RateLimits
<1>4. c \in CallRecord
  BY <1>1, <1>2, <1>3 DEF CallRecord
<1>5. calls \in Seq(CallRecord) /\ calls' = Append(calls, c)
  BY <1>1 DEF TypeOK
<1>6. /\ calls' \in Seq(CallRecord) /\ Len(calls') = Len(calls) + 1
      /\ calls'[Len(calls')] = c
      /\ \A i \in DOMAIN calls : i \in DOMAIN calls' /\ calls'[i] = calls[i]
      /\ DOMAIN calls' = DOMAIN calls \cup {Len(calls')}
  <2> HIDE DEF c
  <2> QED
    BY <1>4, <1>5
<1>7. trace' = c
  BY <1>6 DEF trace
<1>8. QED
  BY <1>1, <1>2, <1>6, <1>7

\* The ledger's positions are 1..Len(calls), and every call is of some pair.
LEMMA CallsHavePairs ==
  ASSUME TypeOK
  PROVE  pair \in Nat /\ \A i \in DOMAIN calls : calls[i].pair \in Nat
<1>1. \A i \in DOMAIN calls : calls[i] \in CallRecord
  BY DEF TypeOK
<1>2. Pairs \subseteq Nat /\ 1..(NumPairs + 1) \subseteq Nat
  BY PilotAssumption DEF Pairs
<1>3. QED
  BY <1>1, <1>2 DEF CallRecord, TypeOK

\* before_request() never turns the clock back and keeps the interval.
LEMMA SpacingIsATime ==
  ASSUME TypeOK
  PROVE  /\ Spacing \in Nat /\ Spacing >= clock
         /\ lastRequest # Never => lastRequest \in Nat /\ Spacing >= lastRequest + MinInterval
<1>1. CASE lastRequest = Never
  BY <1>1 DEF Spacing, TypeOK
<1>2. CASE lastRequest # Never
  <2>1. clock \in Nat /\ lastRequest \in Nat /\ lastRequest + MinInterval \in Nat
    BY <1>2, PilotAssumption DEF TypeOK
  <2>2. Spacing = Larger(clock, lastRequest + MinInterval)
    BY <1>2 DEF Spacing
  <2>3. QED
    BY <2>1, <2>2, LargerOfNats
<1>3. QED
  BY <1>1, <1>2

\* What a session asks for is a number, at most the ceiling.
LEMMA BudgetIsANumber ==
  ASSUME TypeOK
  PROVE  SessionBudget \in Nat /\ SessionBudget <= Ceiling /\ SessionBudget > 0
<1>1. IsFiniteSet({p \in Pairs : ~Successful(p)})
  BY FS_Interval, FS_Subset, PilotAssumption DEF Pairs
<1>2. Cardinality({p \in Pairs : ~Successful(p)}) \in Nat
  BY <1>1, FS_CardinalityType
<1>3. QED
  BY <1>2, PilotAssumption DEF SessionBudget

-----------------------------------------------------------------------------
(* Types and the cursor *)

\* Types and the cursor, at first and over every step of the loop.
LEMMA InitTypes == Init => TypeOK /\ CursorKnows
<1> SUFFICES ASSUME Init PROVE TypeOK /\ CursorKnows
  OBVIOUS
<1>1. records \in [Pairs -> Record]
  BY DEF Init, Record
<1>2. pair \in 1..(NumPairs + 1) /\ sessions \in 0..MaxSessions
  BY PilotAssumption DEF Init
<1>3. results \in Seq(Pairs) /\ calls \in Seq(CallRecord)
  BY DEF Init
<1>4. TypeOK
  BY <1>1, <1>2, <1>3 DEF Init, TypeOK, NoReport, Pcs
<1>5. CursorKnows
  BY DEF Init, CursorKnows, Calling, Answered
<1>6. QED
  BY <1>4, <1>5

LEMMA StepTypes == TypeOK /\ CursorKnows /\ [Next]_vars => TypeOK' /\ CursorKnows'
<1> SUFFICES ASSUME TypeOK, CursorKnows, [Next]_vars PROVE TypeOK' /\ CursorKnows'
  OBVIOUS
<1> USE DEF disk, progress, limits, pacing, lineage, vars
<1>1. CASE Begin
  <2>1. SessionBudget \in Nat
    BY BudgetIsANumber
  <2>2. Persisted \in SUBSET Versions
    <3>1. \A p \in Pairs : records[p].version \in Versions \cup {NoVersion}
      BY DEF TypeOK, Record, NoRecord
    <3>2. QED
      BY <3>1 DEF Persisted
  <2>3. <<>> \in Seq(Pairs) /\ <<>> \in Seq(CallRecord) /\ sessions + 1 \in 0..MaxSessions
    BY <1>1, PilotAssumption DEF Begin, TypeOK
  <2>4. historical' \in SUBSET Versions /\ resumed' \in SUBSET Versions
    BY <1>1, <2>2 DEF Begin, History, TypeOK
  <2>5. TypeOK'
    <3>1. pair' \in 1..(NumPairs + 1) /\ pc' \in Pcs /\ lastRequest' \in Nat \cup {Never}
      BY <1>1, PilotAssumption DEF Begin, Pcs
    <3>2. /\ results' = <<>> /\ calls' = <<>> /\ budget' = SessionBudget
          /\ retries' = 0 /\ regens' = 0 /\ stopped' = FALSE /\ used' = 0 /\ streak' = 0
          /\ clock' = 0 /\ sessions' = sessions + 1 /\ UNCHANGED <<records, report>>
      BY <1>1 DEF Begin
    <3>3. QED
      BY <2>1, <2>3, <2>4, <3>1, <3>2 DEF TypeOK
  <2>6. CursorKnows'
    BY <1>1 DEF Begin, CursorKnows, Calling, Answered
  <2>7. QED
    BY <2>5, <2>6
<1>2. CASE Pick
  <2>1. CASE pair > NumPairs
    BY <1>2, <2>1, PilotAssumption DEF Pick, TypeOK, CursorKnows, Pcs, Pairs, Calling, Answered
  <2>2. CASE pair \in Pairs /\ Skips(pair)
    <3>1. results' = Append(results, pair) /\ pair' = pair + 1 /\ pc' = "pick"
      BY <1>2, <2>2, PilotAssumption DEF Pick, Pairs
    <3>2. results' \in Seq(Pairs) /\ pair' \in 1..(NumPairs + 1)
      BY <2>2, <3>1, PilotAssumption DEF TypeOK, Pairs
    <3>3. UNCHANGED <<disk, retries, regens, stopped, limits, pacing, lineage, calls, sessions>>
      BY <1>2, <2>2, PilotAssumption DEF Pick, Pairs
    <3>4. TypeOK'
      BY <3>1, <3>2, <3>3 DEF TypeOK, Pcs
    <3>5. pc = "pick"
      BY <1>2 DEF Pick
    <3>6. CursorKnows'
      BY <3>1, <3>3, <3>5, CallsHavePairs DEF CursorKnows, Calling, Answered
    <3>7. QED
      BY <3>4, <3>6
  <2>3. CASE pair \in Pairs /\ ~Skips(pair)
    BY <1>2, <2>3, PilotAssumption
    DEF Pick, TypeOK, CursorKnows, Pcs, Pairs, Calling, Answered, Skips, Successful
  <2>4. QED
    BY <1>2, <2>1, <2>2, <2>3 DEF Pick
<1>3. CASE Request
  <2>1. Spacing \in Nat
    BY SpacingIsATime
  <2>2. CASE Exhausted
    BY <1>3, <2>2 DEF Request, TypeOK, Pcs, CursorKnows, Calling, Answered
  <2>3. CASE ~Exhausted
    <3>1. /\ pc' = "call" /\ used' = used + 1 /\ clock' = Spacing /\ lastRequest' = Spacing
          /\ UNCHANGED <<disk, progress, stopped, budget, streak, lineage, calls, sessions>>
      BY <1>3, <2>3 DEF Request
    <3>2. TypeOK'
      BY <2>1, <3>1 DEF TypeOK, Pcs
    <3>3. CursorKnows'
      BY <1>3, <3>1 DEF Request, CursorKnows, Calling, Answered, Successful
    <3>4. QED
      BY <3>2, <3>3
  <2>4. QED
    BY <2>2, <2>3
<1>4. CASE Call
  <2>1. pair \in Pairs
    BY <1>4 DEF Call, CursorKnows, Calling
  <2>2. /\ calls' \in Seq(CallRecord) /\ clock' \in Nat /\ trace'.pair = pair /\ calls' # <<>>
        /\ \A i \in DOMAIN calls' : calls'[i].pair <= pair
    <3>1. calls \in Seq(CallRecord) /\ clock \in Nat /\ pair \in Nat
      BY <2>1 DEF TypeOK, Pairs
    <3>2. PICK a \in Answers, latency \in Latencies :
             /\ latency \in Nat /\ clock' = clock + latency
             /\ calls' \in Seq(CallRecord) /\ Len(calls') = Len(calls) + 1
             /\ \A i \in DOMAIN calls : i \in DOMAIN calls' /\ calls'[i] = calls[i]
             /\ DOMAIN calls' = DOMAIN calls \cup {Len(calls')}
             /\ trace'.pair = pair
      BY <1>4, <2>1, CallAppends
    <3>3. \A i \in DOMAIN calls : calls[i].pair <= pair
      BY <1>4 DEF Call, CursorKnows
    <3>4. calls'[Len(calls')].pair <= pair
      BY <3>1, <3>2 DEF trace
    <3>5. QED
      BY <3>1, <3>2, <3>3, <3>4
  <2>3. TypeOK'
    BY <1>4, <2>2 DEF Call, TypeOK, Pcs
  <2>4. CursorKnows'
    BY <1>4, <2>1, <2>2 DEF Call, CursorKnows, Calling, Answered, Successful
  <2>5. QED
    BY <2>3, <2>4
<1>5. CASE Observe
  <2>1. stopped' \in BOOLEAN
    BY <1>5 DEF Observe
  <2>2. streak' \in Nat /\ regens' \in Nat
    BY <1>5 DEF Observe, Streak, TypeOK
  <2>3. pc' \in {"request", "accept", "save"}
    BY <1>5 DEF Observe
  <2>4. TypeOK'
    BY <1>5, <2>1, <2>2, <2>3 DEF Observe, TypeOK, Pcs
  <2>5. CursorKnows'
    BY <1>5, <2>3 DEF Observe, CursorKnows, Calling, Answered, Successful, trace
  <2>6. QED
    BY <2>4, <2>5
<1>6. CASE Accept
  <2>1. pc' \in {"save", "report"} /\ stopped' \in BOOLEAN
    BY <1>6 DEF Accept, TypeOK
  <2>2. resumed' \in SUBSET Versions
    <3>1. trace.version \in Versions \cup {NoVersion}
      BY <1>6, TraceIsACall DEF Accept, TypeOK, CursorKnows, Answered
    <3>2. QED
      BY <1>6, <3>1 DEF Accept, TypeOK
  <2>3. TypeOK'
    BY <1>6, <2>1, <2>2 DEF Accept, TypeOK, Pcs
  <2>4. CursorKnows'
    BY <1>6, <2>1 DEF Accept, CursorKnows, Calling, Answered, Successful, trace
  <2>5. QED
    BY <2>3, <2>4
<1>7. CASE Save
  <2>1. pair \in Pairs /\ ~Successful(pair) /\ calls # <<>> /\ trace.pair = pair
    BY <1>7 DEF Save, CursorKnows, Answered
  <2>2. trace.kind \in Kinds /\ trace.version \in Versions \cup {NoVersion}
    BY <2>1, TraceIsACall DEF TypeOK
  <2>3. Attempt \in Nat \ {0}
    BY DEF Attempt, TypeOK
  <2>4. [kind |-> trace.kind, attempt |-> Attempt, version |-> trace.version] \in Record
    BY <2>2, <2>3 DEF Record
  <2>5. /\ records' = [records EXCEPT ![pair] =
                          [kind |-> trace.kind, attempt |-> Attempt, version |-> trace.version]]
        /\ pc' \in {"report", "saved"}
    BY <1>7, <2>1 DEF Save
  <2>6. records' \in [Pairs -> Record]
    BY <2>4, <2>5 DEF TypeOK
  <2>7. TypeOK'
    BY <1>7, <2>5, <2>6 DEF Save, TypeOK, Pcs
  <2>8. records'[pair].kind = trace.kind
    BY <2>1, <2>5 DEF TypeOK
  <2>9. CursorKnows'
    BY <1>7, <2>1, <2>5, <2>8 DEF Save, CursorKnows, Calling, Answered, trace
  <2>10. QED
    BY <2>7, <2>9
<1>8. CASE Advance
  <2>1. pair \in Pairs /\ calls # <<>> /\ records[pair].kind = trace.kind
    BY <1>8 DEF Advance, CursorKnows, Answered
  <2>2. trace.delay \in Nat
    BY <2>1, TraceIsACall DEF TypeOK
  <2>3. Wait \in Nat
    BY <2>2, LargerOfNats, PilotAssumption DEF Wait
  <2>4. CASE GivesUp
    <3>1. results' = Append(results, pair) /\ pair' = pair + 1 /\ pc' = "pick"
          /\ UNCHANGED <<retries, clock>>
      BY <1>8, <2>4 DEF Advance
    <3>2. results' \in Seq(Pairs) /\ pair' \in 1..(NumPairs + 1)
      BY <2>1, <3>1, PilotAssumption DEF TypeOK, Pairs
    <3>3. TypeOK'
      BY <1>8, <3>1, <3>2 DEF Advance, TypeOK, Pcs
    <3>4. CursorKnows'
      BY <1>8, <3>1, CallsHavePairs DEF Advance, CursorKnows, Calling, Answered
    <3>5. QED
      BY <3>3, <3>4
  <2>5. CASE ~GivesUp
    <3>1. pc' = "request" /\ retries' = retries + 1 /\ clock' = clock + Wait
          /\ UNCHANGED <<pair, results>>
      BY <1>8, <2>5 DEF Advance
    <3>2. TypeOK'
      BY <1>8, <2>3, <3>1 DEF Advance, TypeOK, Pcs
    <3>3. ~Successful(pair)
      BY <2>1, <2>5 DEF GivesUp, Retryable, RateLimits, Successful
    <3>4. CursorKnows'
      BY <1>8, <2>1, <3>1, <3>3 DEF Advance, CursorKnows, Calling, Answered, Successful
    <3>5. QED
      BY <3>2, <3>4
  <2>6. QED
    BY <2>4, <2>5
<1>9. CASE Report
  BY <1>9 DEF Report, TypeOK, CursorKnows, Pcs, Calling, Answered
<1>10. CASE Crash
  BY <1>10 DEF Crash, TypeOK, CursorKnows, Pcs, Calling, Answered
<1>11. CASE UNCHANGED vars
  BY <1>11 DEF TypeOK, CursorKnows, Successful, trace
<1>12. QED
  BY <1>1, <1>2, <1>3, <1>4, <1>5, <1>6, <1>7, <1>8, <1>9, <1>10, <1>11 DEF Next, Finished

-----------------------------------------------------------------------------
(* The budget *)

\* Every call was reserved before it was made.
LEMMA StepBudget ==
  TypeOK /\ CursorKnows /\ BudgetKnows /\ [Next]_vars => BudgetKnows'
<1> SUFFICES ASSUME TypeOK, CursorKnows, BudgetKnows, [Next]_vars PROVE BudgetKnows'
  OBVIOUS
<1> USE DEF disk, progress, limits, pacing, lineage, vars
<1>1. Len(calls) \in Nat /\ used \in Nat /\ budget \in Nat
  BY DEF TypeOK
<1>2. CASE Begin
  BY <1>2, BudgetIsANumber DEF Begin, BudgetKnows
<1>3. CASE Request
  BY <1>1, <1>3 DEF Request, BudgetKnows, Exhausted
<1>4. CASE Call
  <2>1. Len(calls') = Len(calls) + 1
    BY <1>4, CallAppends DEF Call, CursorKnows, Calling
  <2>2. QED
    BY <1>1, <1>4, <2>1 DEF Call, BudgetKnows
<1>5. CASE Pick \/ Observe \/ Accept \/ Save \/ Advance \/ Report \/ Crash \/ UNCHANGED vars
  <2>1. UNCHANGED <<calls, used, budget>> /\ (pc' = "call" => pc = "call")
    BY <1>5 DEF Pick, Observe, Accept, Save, Advance, Report, Crash
  <2>2. QED
    BY <2>1 DEF BudgetKnows
<1>6. QED
  BY <1>2, <1>3, <1>4, <1>5 DEF Next, Finished

-----------------------------------------------------------------------------
(* The pace *)

\* What is said of neighbours holds of all when it holds of the last two.
LEMMA NeighboursStay ==
  ASSUME TypeOK, CursorKnows, Call, RequestsArePaced, RetryHonoursDelay,
         calls # <<>> => /\ clock >= trace.sent + MinInterval
                         /\ trace.pair = pair /\ trace.kind = "RATE_LIMIT"
                              => clock >= trace.received + trace.delay
  PROVE  RequestsArePaced' /\ RetryHonoursDelay'
<1>1. PICK a \in Answers :
        /\ calls' \in Seq(CallRecord) /\ Len(calls') = Len(calls) + 1
        /\ \A i \in DOMAIN calls : i \in DOMAIN calls' /\ calls'[i] = calls[i]
        /\ DOMAIN calls' = DOMAIN calls \cup {Len(calls')}
        /\ trace'.pair = pair /\ trace'.sent = clock
  BY CallAppends DEF Call, CursorKnows, Calling
<1>2. DOMAIN calls = 1..Len(calls) /\ Len(calls) \in Nat /\ calls'[Len(calls')] = trace'
  BY DEF TypeOK, trace
<1> SUFFICES ASSUME NEW i \in DOMAIN calls', NEW k \in DOMAIN calls', k = i + 1
             PROVE  /\ calls'[k].sent >= calls'[i].sent + MinInterval
                    /\ calls'[i].kind = "RATE_LIMIT" /\ calls'[k].pair = calls'[i].pair
                         => calls'[k].sent >= calls'[i].received + calls'[i].delay
  BY DEF RequestsArePaced, RetryHonoursDelay
<1>3. i \in DOMAIN calls /\ calls'[i] = calls[i]
  BY <1>1, <1>2
<1>4. CASE k \in DOMAIN calls
  BY <1>1, <1>3, <1>4 DEF RequestsArePaced, RetryHonoursDelay
<1>5. CASE k = Len(calls')
  <2>1. i = Len(calls) /\ calls # <<>>
    BY <1>1, <1>2, <1>3, <1>5
  <2>2. calls'[i] = trace /\ calls'[k] = trace'
    BY <1>2, <1>3, <1>5, <2>1 DEF trace
  <2>3. QED
    BY <1>1, <2>1, <2>2
<1>6. QED
  BY <1>1, <1>4, <1>5

\* The clock has passed what the next request has to wait for.
LEMMA StepPace ==
  ASSUME TypeOK, CursorKnows, PaceKnows, RequestsArePaced, RetryHonoursDelay, [Next]_vars
  PROVE  PaceKnows' /\ RequestsArePaced' /\ RetryHonoursDelay'
<1> USE DEF disk, progress, limits, pacing, lineage, vars
<1>1. /\ clock \in Nat /\ lastRequest \in Nat \cup {Never} /\ MinInterval \in Nat
      /\ calls # <<>> => trace.sent \in Nat /\ trace.received \in Nat /\ trace.delay \in Nat
  BY TraceIsACall, PilotAssumption DEF TypeOK
<1>2. CASE Begin
  BY <1>2 DEF Begin, PaceKnows, RequestsArePaced, RetryHonoursDelay
<1>3. CASE Call
  <2>1. PICK a \in Answers, latency \in Latencies :
          /\ latency \in Nat /\ clock' = clock + latency
          /\ trace'.sent = clock /\ trace'.received = clock'
    BY <1>3, CallAppends DEF Call, CursorKnows, Calling
  <2>2. PaceKnows'
    BY <1>1, <1>3, <2>1 DEF Call, PaceKnows, Calling
  <2>3. QED
    BY <1>3, <2>2, NeighboursStay DEF Call, PaceKnows, Calling
<1>4. CASE UNCHANGED calls
  <2>1. trace' = trace
    BY <1>4 DEF trace
  <2>2. RequestsArePaced' /\ RetryHonoursDelay'
    BY <1>4 DEF RequestsArePaced, RetryHonoursDelay
  <2>3. CASE Request
    <3>1. CASE Exhausted
      BY <1>4, <2>2, <2>1, <2>3, <3>1 DEF Request, PaceKnows, Calling
    <3>2. CASE ~Exhausted
      <4>1. pc = "request" /\ pc' = "call" /\ clock' = Spacing /\ lastRequest' = Spacing
            /\ UNCHANGED pair
        BY <2>3, <3>2 DEF Request
      <4>2. /\ Spacing \in Nat /\ Spacing >= clock
            /\ lastRequest # Never => lastRequest \in Nat /\ Spacing >= lastRequest + MinInterval
        BY SpacingIsATime
      <4>3. CASE calls = <<>>
        BY <1>4, <2>2, <4>1, <4>3 DEF PaceKnows
      <4>4. CASE calls # <<>>
        <5>1. lastRequest \in Nat /\ lastRequest >= trace.sent /\ clock >= trace.received
          BY <1>1, <4>4 DEF PaceKnows, Never
        <5>2. Spacing >= trace.sent + MinInterval /\ Spacing >= trace.received
              /\ Spacing >= trace.sent
          BY <1>1, <4>2, <4>4, <5>1 DEF Never
        <5>3. trace.pair = pair /\ trace.kind = "RATE_LIMIT" => Spacing >= trace.received + trace.delay
          BY <1>1, <4>1, <4>2, <4>4 DEF PaceKnows, Calling
        <5>4. QED
          BY <1>4, <2>2, <2>1, <4>1, <5>2, <5>3 DEF PaceKnows
      <4>5. QED
        BY <4>3, <4>4
    <3>3. QED
      BY <3>1, <3>2
  <2>4. CASE Pick
    <3>1. calls # <<>> => trace.pair < pair
      BY <2>4, TraceIsACall DEF Pick, CursorKnows, TypeOK, trace
    <3>2. UNCHANGED <<clock, lastRequest>> /\ pc' # "call" /\ (pc' = "request" => pair' = pair)
      BY <2>4 DEF Pick
    <3>3. calls # <<>> => trace.pair \in Nat /\ pair \in Nat
      BY CallsHavePairs, TraceIsACall, PilotAssumption DEF TypeOK, Pairs
    <3>4. QED
      BY <1>4, <2>2, <2>1, <3>1, <3>2, <3>3 DEF PaceKnows, Calling
  <2>5. CASE Observe
    BY <1>4, <2>2, <2>1, <2>5 DEF Observe, PaceKnows, Calling, Regenerates
  <2>6. CASE Advance
    <3>1. calls # <<>> /\ trace.pair = pair
      BY <2>6 DEF Advance, CursorKnows, Answered
    <3>2. CASE GivesUp
      BY <1>4, <2>2, <2>1, <2>6, <3>2 DEF Advance, PaceKnows, Calling
    <3>3. CASE ~GivesUp
      <4>1. clock' = clock + Wait /\ lastRequest' = lastRequest /\ pc' = "request"
        BY <2>6, <3>3 DEF Advance
      <4>2. Wait \in Nat
        BY <1>1, <3>1, LargerOfNats, PilotAssumption DEF Wait
      <4>3. trace.kind = "RATE_LIMIT" => Wait >= trace.delay
        BY <1>1, <3>1, LargerOfNats DEF Wait, RateLimits
      <4>4. QED
        BY <1>1, <1>4, <2>2, <2>1, <3>1, <4>1, <4>2, <4>3 DEF PaceKnows, trace
    <3>4. QED
      BY <3>2, <3>3
  <2>7. CASE Accept \/ Save \/ Report \/ Crash
    <3>1. UNCHANGED <<clock, lastRequest>> /\ pc' \notin Calling
      BY <2>7 DEF Accept, Save, Report, Crash, Calling
    <3>2. QED
      BY <1>4, <2>2, <3>1 DEF PaceKnows, Calling, trace
  <2>8. CASE UNCHANGED vars
    BY <2>2, <2>8 DEF PaceKnows, trace
  <2>9. CASE Begin \/ Call
    BY <1>2, <1>3, <2>9
  <2>10. QED
    BY <2>2, <2>3, <2>4, <2>5, <2>6, <2>7, <2>8, <2>9 DEF Next, Finished
<1>5. QED
  BY <1>2, <1>3, <1>4 DEF Next, Finished, Pick, Request, Observe, Accept, Save, Advance, Report, Crash

-----------------------------------------------------------------------------
(* The circuit breaker *)

\* The streak tells which calls tripped the breaker.
LEMMA BreakerFromStreak ==
  ASSUME TypeOK, StreakKnows, TrippedIsLast
  PROVE  BreakerHolds
<1> SUFFICES ASSUME NEW i \in DOMAIN calls, Tripped(i), pc \in Going PROVE FALSE
  BY DEF BreakerHolds, TrippedIsLast
<1>1. i = Len(calls) /\ calls # <<>> /\ Len(calls) \in Nat /\ trace = calls[i]
  BY DEF TypeOK, trace, TrippedIsLast
<1>2. Observed = Len(calls) /\ pc # "down"
  BY DEF Observed, Going
<1>3. PICK start \in DOMAIN calls :
        start = i + 1 - MaxRateLimits /\ \A k \in start..i : calls[k].kind \in RateLimits
  BY <1>1 DEF Tripped, StreakKnows
<1>4. Observed + 1 - start <= streak
  BY <1>1, <1>2, <1>3 DEF StreakKnows
<1>5. streak < MaxRateLimits /\ streak \in Nat
  BY DEF StreakKnows, TypeOK
<1>6. QED
  BY <1>1, <1>2, <1>3, <1>4, <1>5, PilotAssumption

\* The streak is counted over retries, pairs and regenerations.
LEMMA StepBreaker ==
  ASSUME TypeOK, CursorKnows, StreakKnows, TrippedIsLast, [Next]_vars
  PROVE  StreakKnows' /\ TrippedIsLast'
<1> USE DEF disk, progress, limits, pacing, lineage, vars
<1>1. MaxRateLimits \in Nat \ {0} /\ streak \in Nat /\ Len(calls) \in Nat
      /\ DOMAIN calls = 1..Len(calls)
  BY PilotAssumption DEF TypeOK
<1>2. BreakerHolds
  BY BreakerFromStreak
<1>3. CASE Begin
  BY <1>1, <1>3 DEF Begin, StreakKnows, TrippedIsLast, Going
<1>4. CASE Call
  <2>1. PICK a \in Answers :
          /\ Len(calls') = Len(calls) + 1
          /\ \A i \in DOMAIN calls : i \in DOMAIN calls' /\ calls'[i] = calls[i]
          /\ DOMAIN calls' = DOMAIN calls \cup {Len(calls')}
    BY <1>4, CallAppends DEF Call, CursorKnows, Calling
  <2>2. pc = "call" /\ pc' = "answered" /\ UNCHANGED <<streak, stopped>>
    BY <1>4 DEF Call
  <2>3. Observed = Len(calls) /\ Observed' = Len(calls)
    BY <1>1, <2>1, <2>2 DEF Observed
  <2>4. ASSUME NEW start \in DOMAIN calls',
               \A k \in start..Observed' : calls'[k].kind \in RateLimits
        PROVE  Observed' + 1 - start <= streak'
    <3>1. CASE start \in DOMAIN calls
      <4>1. \A k \in start..Observed : k \in DOMAIN calls
        BY <1>1, <2>3, <3>1
      <4>2. \A k \in start..Observed : calls[k].kind \in RateLimits
        BY <2>1, <2>3, <2>4, <4>1
      <4>3. QED
        BY <2>2, <2>3, <3>1, <4>2 DEF StreakKnows
    <3>2. CASE start = Len(calls')
      BY <1>1, <2>1, <2>2, <2>3, <3>2
    <3>3. QED
      BY <2>1, <3>1, <3>2
  <2>5. streak < MaxRateLimits
    BY <2>2 DEF StreakKnows, Going
  <2>6. StreakKnows'
    BY <2>2, <2>4, <2>5 DEF StreakKnows, Going
  <2>7. ASSUME NEW i \in DOMAIN calls', Tripped(i)', i # Len(calls')
        PROVE  FALSE
    <3>1. i \in DOMAIN calls /\ calls'[i] = calls[i]
      BY <2>1, <2>7
    <3>2. ~Tripped(i)
      BY <1>2, <2>2, <3>1 DEF BreakerHolds, Going
    <3>3. PICK start \in DOMAIN calls' :
            start = i + 1 - MaxRateLimits /\ \A k \in start..i : calls'[k].kind \in RateLimits
      BY <2>7, <3>1, <3>2 DEF Tripped
    <3>4. start \in DOMAIN calls
      BY <1>1, <2>1, <3>1, <3>3
    <3>5. \A k \in start..i : k \in DOMAIN calls
      BY <1>1, <3>1, <3>4
    <3>6. \A k \in start..i : calls[k].kind \in RateLimits
      BY <2>1, <3>3, <3>5
    <3>7. QED
      BY <3>2, <3>3, <3>4, <3>6 DEF Tripped
  <2>8. QED
    BY <2>6, <2>7 DEF TrippedIsLast
<1>5. CASE UNCHANGED calls
  <2>1. trace' = trace
    BY <1>5 DEF trace
  <2>2. TrippedIsLast'
    BY <1>5 DEF TrippedIsLast, Tripped
  <2>3. CASE Observe
    <3>1. calls # <<>> /\ pc = "answered" /\ pc' # "answered"
      BY <2>3 DEF Observe, CursorKnows, Answered
    <3>2. Observed = Len(calls) - 1 /\ Observed' = Len(calls)
      BY <1>5, <3>1 DEF Observed
    <3>3. streak' = IF trace.kind \in RateLimits THEN streak + 1 ELSE 0
      BY <2>3 DEF Observe, Streak
    <3>4. ASSUME NEW start \in DOMAIN calls,
                 \A k \in start..Len(calls) : calls[k].kind \in RateLimits
          PROVE  Len(calls) + 1 - start <= streak'
      <4>1. start \in 1..Len(calls) /\ Len(calls) \in start..Len(calls)
        BY <1>1
      <4>2. trace.kind \in RateLimits
        BY <3>4, <4>1 DEF trace
      <4>3. \A k \in start..Observed : calls[k].kind \in RateLimits
        BY <1>1, <3>2, <3>4, <4>1
      <4>4. Observed + 1 - start <= streak
        BY <3>1, <4>3 DEF StreakKnows
      <4>5. QED
        BY <1>1, <3>2, <3>3, <4>1, <4>2, <4>4
    <3>5. pc' \in Going => streak' = 0 /\ trace.kind = "UNPARSED"
      BY <2>3, <3>3 DEF Observe, Regenerates, Going, RateLimits
    <3>6. pc' = "accept" => streak' = 0 /\ trace.kind = "SUCCESS" /\ ~stopped'
      BY <2>3, <3>3 DEF Observe, RateLimits
    <3>7. ~stopped' => streak' < MaxRateLimits /\ trace.kind # "RPD"
      <4>1. stopped' = (trace.kind \in RateLimits /\ Trips)
        BY <2>3 DEF Observe
      <4>2. CASE trace.kind \in RateLimits
        <5>1. ~stopped' => ~Trips
          BY <4>1, <4>2
        <5>2. Streak = streak'
          BY <3>3 DEF Streak
        <5>3. ~Trips => streak' < MaxRateLimits /\ trace.kind # "RPD"
          BY <1>1, <3>3, <4>2, <5>2 DEF Trips
        <5>4. QED
          BY <5>1, <5>3
      <4>3. CASE trace.kind \notin RateLimits
        BY <1>1, <3>3, <4>3 DEF RateLimits
      <4>4. QED
        BY <4>2, <4>3
    <3>8. StreakKnows'
      BY <1>1, <1>5, <2>1, <3>1, <3>2, <3>4, <3>5, <3>6, <3>7 DEF StreakKnows, Going
    <3>9. QED
      BY <2>2, <3>8
  <2>4. CASE Pick \/ Request \/ Accept \/ Save \/ Advance \/ Report \/ Crash \/ UNCHANGED vars
    <3>1. /\ streak' = streak
          /\ pc' = "answered" => pc = "answered"
          /\ pc = "answered" => pc' \in {"answered", "down"}
          /\ pc' # "down" => pc # "down"
      BY <2>4 DEF Pick, Request, Accept, Save, Advance, Report, Crash
    <3>2. Observed' = Observed \/ pc' = "down"
      BY <1>5, <3>1 DEF Observed
    <3>3. pc' \in Going => pc \in Going \/ (pc = "save" /\ ~stopped)
      <4>1. CASE Save
        BY <4>1 DEF Save, Going, TypeOK
      <4>2. CASE Pick \/ Request \/ Accept \/ Advance \/ Report \/ Crash \/ UNCHANGED vars
        BY <4>2 DEF Pick, Request, Accept, Advance, Report, Crash, Going
      <4>3. QED
        BY <2>4, <4>1, <4>2
    <3>4. /\ pc' = "accept" => pc = "accept" /\ stopped' = stopped
          /\ pc' = "save" => pc \in {"accept", "save"} /\ stopped' = stopped
      BY <2>4 DEF Pick, Request, Accept, Save, Advance, Report, Crash
    <3>5. StreakKnows'
      BY <1>1, <1>5, <2>1, <3>1, <3>2, <3>3, <3>4 DEF StreakKnows, Going
    <3>6. QED
      BY <2>2, <3>5
  <2>5. QED
    BY <1>3, <1>4, <2>3, <2>4 DEF Next, Finished
<1>6. QED
  BY <1>3, <1>4, <1>5 DEF Next, Finished, Pick, Request, Observe, Accept, Save, Advance, Report, Crash

-----------------------------------------------------------------------------
(* Model versions *)

\* Versions are compared with both inherited sets before they are added.
LEMMA StepVersions ==
  ASSUME TypeOK, CursorKnows, VersionsKnow, [Next]_vars
  PROVE  VersionsKnow'
<1> USE DEF disk, progress, limits, pacing, lineage, vars
<1>1. CASE UNCHANGED records
  <2>1. Persisted' = Persisted
    BY <1>1 DEF Persisted, Successful
  <2>2. CASE Begin
    <3>1. CASE report.written
      BY <2>2, <3>1 DEF Begin, History, VersionsKnow, AtMostOne
    <3>2. CASE ~report.written
      <4>1. historical' = Persisted /\ resumed' = {} /\ report' = report /\ pc' = "pick"
        BY <2>2, <3>2 DEF Begin, History, VersionsKnow
      <4>2. Persisted \subseteq historical \cup resumed /\ report.resumed = {}
        BY <3>2 DEF VersionsKnow
      <4>3. QED
        BY <2>1, <4>1, <4>2 DEF VersionsKnow, AtMostOne
    <3>3. QED
      BY <3>1, <3>2
  <2>3. CASE Observe
    BY <2>1, <2>3 DEF Observe, VersionsKnow, trace
  <2>4. CASE Accept
    <3>1. UNCHANGED <<historical, report, calls>> /\ pc' \in {"save", "report"}
      BY <2>4 DEF Accept
    <3>2. CASE resumed' = resumed /\ (pc' = "save" => trace.version = NoVersion)
      BY <2>1, <3>1, <3>2 DEF VersionsKnow, trace
    <3>3. CASE Accepts(trace.version) /\ resumed' = resumed \cup {trace.version}
      <4>1. AtMostOne(historical' \cup resumed')
        BY <3>1, <3>3 DEF VersionsKnow, AtMostOne, Accepts
      <4>2. trace' = trace
        BY <3>1 DEF trace
      <4>3. QED
        BY <2>1, <3>1, <3>3, <4>1, <4>2 DEF VersionsKnow
    <3>4. QED
      BY <2>4, <3>2, <3>3 DEF Accept
  <2>5. CASE Report
    BY <2>1, <2>5 DEF Report, VersionsKnow
  <2>6. CASE Pick \/ Request \/ Call \/ Advance \/ Crash
    <3>1. UNCHANGED <<report, historical, resumed>> /\ pc' # "save"
      BY <2>6 DEF Pick, Request, Call, Advance, Crash
    <3>2. QED
      BY <2>1, <3>1 DEF VersionsKnow
  <2>7. CASE UNCHANGED vars
    BY <2>1, <2>7 DEF VersionsKnow, trace
  <2>8. CASE Save
    <3>1. UNCHANGED <<report, historical, resumed>> /\ pc' # "save"
      BY <2>8 DEF Save
    <3>2. QED
      BY <2>1, <3>1 DEF VersionsKnow
  <2>9. QED
    BY <2>2, <2>3, <2>4, <2>5, <2>6, <2>7, <2>8 DEF Next, Finished
<1>2. CASE Save
  <2>1. /\ pair \in Pairs /\ ~Successful(pair) /\ UNCHANGED <<report, historical, resumed>>
        /\ records' = [records EXCEPT ![pair] = [kind |-> trace.kind, attempt |-> Attempt,
                                                version |-> trace.version]]
        /\ pc = "save" /\ pc' # "save"
    BY <1>2 DEF Save, CursorKnows, Answered
  <2>2. Persisted' \subseteq Persisted \cup {v \in {trace.version} : v # NoVersion /\ trace.kind = "SUCCESS"}
    <3>1. /\ records'[pair].kind = trace.kind /\ records'[pair].version = trace.version
          /\ \A p \in Pairs \ {pair} : records'[p] = records[p]
      BY <2>1 DEF TypeOK
    <3>2. QED
      BY <3>1 DEF Persisted, Successful
  <2>3. QED
    BY <2>1, <2>2 DEF VersionsKnow
<1>3. QED
  BY <1>1, <1>2
  DEF Next, Finished, Begin, Pick, Request, Call, Observe, Accept, Save, Advance, Report, Crash

-----------------------------------------------------------------------------
(* Attempts *)

\* The calls of a pair can be counted.
LEMMA CallsAreFinite ==
  ASSUME TypeOK, NEW p \in Pairs
  PROVE  IsFiniteSet(CallsOf(p)) /\ Cardinality(CallsOf(p)) \in Nat
<1>1. IsFiniteSet(DOMAIN calls)
  BY FS_Interval DEF TypeOK
<1>2. IsFiniteSet(CallsOf(p))
  BY <1>1, FS_Subset DEF CallsOf
<1>3. QED
  BY <1>2, FS_CardinalityType

\* A call is counted for its pair, and for no other.
LEMMA CallIsCounted ==
  ASSUME TypeOK, CursorKnows, Call
  PROVE  /\ pair \in Pairs
         /\ Cardinality(CallsOf(pair)') = Cardinality(CallsOf(pair)) + 1
         /\ \A p \in Pairs \ {pair} : CallsOf(p)' = CallsOf(p)
<1>1. pair \in Pairs
  BY DEF Call, CursorKnows, Calling
<1>2. PICK a \in Answers :
        /\ Len(calls') = Len(calls) + 1
        /\ \A i \in DOMAIN calls : i \in DOMAIN calls' /\ calls'[i] = calls[i]
        /\ DOMAIN calls' = DOMAIN calls \cup {Len(calls')}
        /\ trace'.pair = pair
  BY <1>1, CallAppends
<1>3. calls'[Len(calls')].pair = pair
  BY <1>2 DEF trace
<1>4. Len(calls') \notin DOMAIN calls
  <2> DEFINE n == Len(calls)  m == Len(calls')
  <2>1. DOMAIN calls = 1..n /\ n \in Nat
    BY DEF TypeOK
  <2>2. m = n + 1
    BY <1>2
  <2> HIDE DEF n, m
  <2>3. m \notin 1..n
    BY <2>1, <2>2
  <2>4. m \notin DOMAIN calls
    BY <2>1, <2>3
  <2>5. QED
    BY <2>4 DEF m
<1>5. CallsOf(pair)' = CallsOf(pair) \cup {Len(calls')} /\ Len(calls') \notin CallsOf(pair)
  <2>1. pair' = pair
    BY DEF Call, progress
  <2>2. Len(calls') \notin CallsOf(pair)
    BY <1>4 DEF CallsOf
  <2>3. ASSUME NEW i PROVE i \in CallsOf(pair)' <=> i \in CallsOf(pair) \cup {Len(calls')}
    BY <2>1, <1>2, <1>3, <1>4 DEF CallsOf
  <2>4. QED
    BY <2>2, <2>3
<1>6. Cardinality(CallsOf(pair)') = Cardinality(CallsOf(pair)) + 1
  BY <1>1, <1>5, CallsAreFinite, FS_AddElement
<1>7. \A p \in Pairs \ {pair} : CallsOf(p)' = CallsOf(p)
  BY <1>2, <1>3, <1>4 DEF CallsOf
<1>8. QED
  BY <1>1, <1>6, <1>7

\* The two counters of a pair add up to its calls.
LEMMA StepCounts ==
  ASSUME TypeOK, CursorKnows, CountsKnow, AttemptsAreBounded, [Next]_vars
  PROVE  CountsKnow' /\ AttemptsAreBounded'
<1> USE DEF disk, progress, limits, pacing, lineage, vars
<1>1. /\ retries \in Nat /\ regens \in Nat /\ MaxRetries \in Nat
      /\ \A p \in Pairs : Regenerations[p] \in Nat /\ Cardinality(CallsOf(p)) \in Nat
  BY CallsAreFinite, PilotAssumption DEF TypeOK
<1>2. CASE Begin
  <2>1. \A p \in Pairs : Cardinality(CallsOf(p)') = 0
    BY <1>2, FS_EmptySet DEF Begin, CallsOf
  <2>2. QED
    BY <1>1, <1>2, <2>1 DEF Begin, CountsKnow, AttemptsAreBounded, Calling, Answered
<1>3. CASE Call
  <2>1. /\ pair \in Pairs /\ pc = "call" /\ pc' = "answered" /\ UNCHANGED <<pair, retries, regens>>
        /\ Cardinality(CallsOf(pair)') = Cardinality(CallsOf(pair)) + 1
        /\ \A p \in Pairs \ {pair} : CallsOf(p)' = CallsOf(p)
    BY <1>3, CallIsCounted DEF Call
  <2>2. Cardinality(CallsOf(pair)') = retries + regens + 1
        /\ retries <= MaxRetries /\ regens <= Regenerations[pair]
    BY <2>1 DEF CountsKnow, Calling
  <2>3. CountsKnow'
    BY <2>1, <2>2 DEF CountsKnow, Calling, Answered, Attempt, CallsOf
  <2>4. AttemptsAreBounded'
    BY <1>1, <2>1, <2>2 DEF AttemptsAreBounded
  <2>5. QED
    BY <2>3, <2>4
<1>4. CASE UNCHANGED calls
  <2>1. \A p : CallsOf(p)' = CallsOf(p)
    BY <1>4 DEF CallsOf
  <2>2. AttemptsAreBounded'
    BY <2>1 DEF AttemptsAreBounded
  <2>3. CASE Pick
    <3>1. CASE pc' = "pick" \/ pc' = "report"
      BY <2>2, <3>1 DEF CountsKnow, Calling, Answered
    <3>2. CASE pc' = "request"
      <4>1. pc = "pick" /\ pair \in Pairs /\ pair' = pair /\ retries' = 0 /\ regens' = 0
        BY <2>3, <3>2 DEF Pick
      <4>2. CallsOf(pair) = {}
        BY <4>1, CallsHavePairs DEF CursorKnows, CallsOf
      <4>3. Cardinality(CallsOf(pair)) = retries' + regens'
        BY <4>1, <4>2, FS_EmptySet
      <4>4. retries' <= MaxRetries /\ regens' <= Regenerations[pair]
        BY <1>1, <4>1
      <4>5. QED
        BY <2>1, <2>2, <3>2, <4>1, <4>3, <4>4 DEF CountsKnow, Calling, Answered
    <3>3. QED
      BY <2>3, <3>1, <3>2 DEF Pick
  <2>4. CASE Observe
    <3>1. pc = "answered" /\ pair' = pair /\ retries' = retries
      BY <2>4 DEF Observe
    <3>2. pair \in Pairs /\ Cardinality(CallsOf(pair)) = retries + regens + 1
          /\ retries <= MaxRetries /\ regens <= Regenerations[pair]
      BY <3>1 DEF CountsKnow, CursorKnows, Answered, Attempt
    <3>3. CASE Regenerates
      <4>1. pc' = "request" /\ regens' = regens + 1
        BY <2>4, <3>3 DEF Observe, Regenerates
      <4>2. regens + 1 <= Regenerations[pair]
        BY <1>1, <3>2, <3>3 DEF Regenerates
      <4>3. QED
        BY <1>1, <2>1, <2>2, <3>1, <3>2, <4>1, <4>2 DEF CountsKnow, Calling, Answered
    <3>4. CASE ~Regenerates
      <4>1. pc' \in {"accept", "save"} /\ regens' = regens
        BY <2>4, <3>4 DEF Observe
      <4>2. QED
        BY <2>1, <2>2, <3>1, <3>2, <4>1 DEF CountsKnow, Calling, Answered, Attempt
    <3>5. QED
      BY <3>3, <3>4
  <2>5. CASE Advance
    <3>1. CASE GivesUp
      BY <2>2, <2>5, <3>1 DEF Advance, CountsKnow, Calling, Answered
    <3>2. CASE ~GivesUp
      <4>1. pc = "saved" /\ pc' = "request" /\ retries' = retries + 1
            /\ UNCHANGED <<pair, regens>> /\ ~(retries >= MaxRetries)
        BY <2>5, <3>2 DEF Advance, GivesUp
      <4>2. Cardinality(CallsOf(pair)) = retries + regens + 1
            /\ regens <= Regenerations[pair]
        BY <4>1 DEF CountsKnow, Answered, Attempt
      <4>3. QED
        BY <1>1, <2>1, <2>2, <4>1, <4>2 DEF CountsKnow, Calling, Answered
    <3>3. QED
      BY <3>1, <3>2
  <2>6. CASE Request \/ Accept \/ Save \/ Report \/ Crash \/ UNCHANGED vars
    <3>1. /\ UNCHANGED <<pair, retries, regens>>
          /\ pc' \in Calling => pc \in Calling
          /\ pc' \in Answered => pc \in Answered
      BY <2>6 DEF Request, Accept, Save, Report, Crash, Calling, Answered
    <3>2. QED
      BY <2>1, <2>2, <3>1 DEF CountsKnow, Attempt
  <2>7. QED
    BY <1>2, <1>3, <2>3, <2>4, <2>5, <2>6 DEF Next, Finished
<1>5. QED
  BY <1>2, <1>3, <1>4 DEF Next, Finished, Pick, Request, Observe, Accept, Save, Advance, Report, Crash

-----------------------------------------------------------------------------
(* Results *)

\* Every pair that was left behind is settled.
LEMMA StepResults ==
  ASSUME TypeOK, CursorKnows, CountsKnow, pc # "down" => ResultsKnow, [Next]_vars, pc' # "down"
  PROVE  ResultsKnow'
<1> USE DEF disk, progress, limits, pacing, lineage, vars
<1>1. pair \in 1..(NumPairs + 1) /\ pair \in Nat /\ results \in Seq(Pairs) /\ Len(results) \in Nat
      /\ MaxRetries \in Nat
  BY PilotAssumption DEF TypeOK
<1>2. CASE Begin
  <2>1. /\ pair' = 1 /\ results' = <<>> /\ pc' = "pick"
        /\ \A p \in Pairs : ~(p < 1)
    BY <1>2, PilotAssumption DEF Begin, Pairs
  <2>2. QED
    BY <2>1 DEF ResultsKnow
<1>3. CASE pc # "down" /\ ~Begin
  <2>1. ResultsKnow
    BY <1>3
  \* One more pair is settled.
  <2>2. ASSUME results' = Append(results, pair), pair' = pair + 1, pc' = "pick", Settled(pair),
               UNCHANGED <<records, calls>>, pair \in Pairs
        PROVE  ResultsKnow'
    <3>1. Len(results') = pair /\ \A i \in DOMAIN results' : results'[i] = i
      BY <1>1, <2>1, <2>2 DEF ResultsKnow
    <3>2. \A p \in Pairs : Settled(p)' <=> Settled(p)
      BY <2>2 DEF Settled, CallsOf
    <3>3. \A p \in Pairs : p < pair + 1 => p < pair \/ p = pair
      BY <1>1, PilotAssumption DEF Pairs
    <3>4. \A p \in Pairs : p < pair' => Settled(p)'
      BY <2>1, <2>2, <3>2, <3>3 DEF ResultsKnow
    <3>5. Len(results') = pair' - 1
      BY <1>1, <2>2, <3>1
    <3>6. QED
      BY <2>2, <3>1, <3>4, <3>5 DEF ResultsKnow
  \* Nothing is known to be settled that was not.
  <2>3. ASSUME UNCHANGED <<results, pair>>,
               \A p \in Pairs : p < pair => records'[p] = records[p] /\ CallsOf(p)' = CallsOf(p),
               pc' = "saved" => records'[pair] # NoRecord,
               pc' = "report" /\ ~stopped' => pair = NumPairs + 1
        PROVE  ResultsKnow'
    <3>1. \A p \in Pairs : p < pair => Settled(p)'
      BY <2>1, <2>3 DEF ResultsKnow, Settled
    <3>2. QED
      BY <2>1, <2>3, <3>1 DEF ResultsKnow
  <2>4. CASE UNCHANGED calls /\ ~Call
    <3>1. \A p : CallsOf(p)' = CallsOf(p)
      BY <2>4 DEF CallsOf
    <3>2. CASE Pick
      <4>1. CASE pair > NumPairs
        <5>1. pair = NumPairs + 1 /\ UNCHANGED <<results, pair, records>> /\ pc' = "report"
          BY <1>1, <3>2, <4>1, PilotAssumption DEF Pick, Pairs
        <5>2. QED
          BY <2>3, <3>1, <5>1
      <4>2. CASE pair \in Pairs /\ Skips(pair)
        <5>1. results' = Append(results, pair) /\ pair' = pair + 1 /\ pc' = "pick"
              /\ UNCHANGED <<records, calls>>
          BY <3>2, <4>2, PilotAssumption DEF Pick, Pairs
        <5>2. records[pair].kind = "SUCCESS"
          BY <4>2 DEF Skips, Successful
        <5>3. Settled(pair)
          BY <5>2 DEF Settled, NoRecord, Retryable, RateLimits
        <5>4. QED
          BY <2>2, <4>2, <5>1, <5>3
      <4>3. CASE pair \in Pairs /\ ~Skips(pair)
        <5>1. UNCHANGED <<results, pair, records>> /\ pc' = "request"
          BY <3>2, <4>3, PilotAssumption DEF Pick, Pairs
        <5>2. QED
          BY <2>3, <3>1, <5>1
      <4>4. QED
        BY <3>2, <4>1, <4>2, <4>3 DEF Pick
    <3>3. CASE Save
      <4>1. /\ pair \in Pairs /\ calls # <<>> /\ UNCHANGED <<results, pair, stopped>>
            /\ records' = [records EXCEPT ![pair] = [kind |-> trace.kind, attempt |-> Attempt,
                                                    version |-> trace.version]]
            /\ pc' = "report" => stopped'
        BY <3>3 DEF Save, CursorKnows, Answered
      <4>2. records'[pair].kind = trace.kind /\ \A p \in Pairs \ {pair} : records'[p] = records[p]
        BY <4>1 DEF TypeOK
      <4>3. trace.kind # "NONE"
        BY <4>1, TraceIsACall DEF TypeOK, Kinds, Retryable, RateLimits
      <4>4. records'[pair] # NoRecord
        BY <4>2, <4>3 DEF NoRecord
      <4>5. \A p \in Pairs : p < pair => records'[p] = records[p]
        BY <1>1, <4>2
      <4>6. QED
        BY <2>3, <3>1, <4>1, <4>4, <4>5
    <3>4. CASE Advance
      <4>1. pc = "saved" /\ pair \in Pairs /\ records[pair].kind = trace.kind /\ UNCHANGED records
        BY <3>4 DEF Advance, CursorKnows, Answered
      <4>2. CASE GivesUp
        <5>1. results' = Append(results, pair) /\ pair' = pair + 1 /\ pc' = "pick"
              /\ UNCHANGED <<records, calls>>
          BY <3>4, <4>2 DEF Advance
        <5>2. Cardinality(CallsOf(pair)) = retries + regens + 1 /\ retries \in Nat /\ regens \in Nat
          BY <4>1 DEF CountsKnow, Answered, Attempt, TypeOK
        <5>3. Settled(pair)
          BY <1>1, <2>1, <4>1, <4>2, <5>2 DEF Settled, GivesUp, ResultsKnow
        <5>4. QED
          BY <2>2, <4>1, <5>1, <5>3
      <4>3. CASE ~GivesUp
        <5>1. UNCHANGED <<results, pair>> /\ pc' = "request"
          BY <3>4, <4>3 DEF Advance
        <5>2. QED
          BY <2>3, <3>1, <4>1, <5>1
      <4>4. QED
        BY <4>2, <4>3
    <3>5. CASE Request \/ Observe \/ Accept \/ UNCHANGED vars
      <4>1. UNCHANGED <<results, pair, records>>
        BY <3>5 DEF Request, Observe, Accept
      <4>2. /\ pc' = "saved" => pc = "saved"
            /\ pc' = "report" /\ ~stopped' => pc = "report" /\ ~stopped
        BY <3>5 DEF Request, Observe, Accept
      <4>3. QED
        BY <2>1, <2>3, <3>1, <4>1, <4>2 DEF ResultsKnow
    <3>6. QED
      BY <1>3, <3>2, <3>3, <3>4, <2>4, <3>5 DEF Next, Finished, Report, Crash
  <2>5. CASE Call
    <3>1. UNCHANGED <<results, pair, records>> /\ pc' = "answered"
      BY <2>5 DEF Call
    <3>2. \A p \in Pairs : p < pair => CallsOf(p)' = CallsOf(p)
      BY <1>1, <2>5, CallIsCounted
    <3>3. QED
      BY <2>3, <3>1, <3>2
  <2>6. QED
    BY <1>3, <2>4, <2>5
    DEF Next, Finished, Pick, Request, Observe, Accept, Save, Advance, Report, Crash
<1>4. QED
  BY <1>2, <1>3 DEF Next, Finished, Pick, Request, Call, Observe, Accept, Save, Advance, Report, Crash

-----------------------------------------------------------------------------
(* The theorems *)

\* The conjunction of the parts is inductive.
LEMMA InitInvariant == Init => PilotInvariant
<1> SUFFICES ASSUME Init PROVE PilotInvariant
  OBVIOUS
<1>1. TypeOK /\ CursorKnows
  BY InitTypes
<1>2. BudgetKnows
  BY PilotAssumption DEF Init, BudgetKnows
<1>3. PaceKnows /\ RequestsArePaced /\ RetryHonoursDelay
  BY DEF Init, PaceKnows, RequestsArePaced, RetryHonoursDelay
<1>4. StreakKnows /\ TrippedIsLast
  BY DEF Init, StreakKnows, TrippedIsLast, Going
<1>5. VersionsKnow
  BY DEF Init, VersionsKnow, AtMostOne, NoReport, Persisted, Successful, NoRecord
<1>6. \A p \in Pairs : Cardinality(CallsOf(p)) = 0
  <2>1. \A p \in Pairs : CallsOf(p) = {}
    BY DEF Init, CallsOf
  <2>2. QED
    BY <2>1, FS_EmptySet
<1>7. CountsKnow /\ AttemptsAreBounded
  BY <1>6, PilotAssumption DEF Init, CountsKnow, AttemptsAreBounded, Calling, Answered
<1>8. QED
  BY <1>1, <1>2, <1>3, <1>4, <1>5, <1>7 DEF PilotInvariant, Init

LEMMA StepInvariant == PilotInvariant /\ [Next]_vars => PilotInvariant'
<1> SUFFICES ASSUME PilotInvariant, [Next]_vars PROVE PilotInvariant'
  OBVIOUS
<1> USE DEF PilotInvariant
<1>1. TypeOK' /\ CursorKnows'
  BY StepTypes
<1>2. BudgetKnows'
  BY StepBudget
<1>3. PaceKnows' /\ RequestsArePaced' /\ RetryHonoursDelay'
  BY StepPace
<1>4. StreakKnows' /\ TrippedIsLast'
  BY StepBreaker
<1>5. VersionsKnow'
  BY StepVersions
<1>6. CountsKnow' /\ AttemptsAreBounded'
  BY StepCounts
<1>7. pc' # "down" => ResultsKnow'
  BY StepResults
<1>8. QED
  BY <1>1, <1>2, <1>3, <1>4, <1>5, <1>6, <1>7

(* PilotInvariant holds in every reachable state: what the loop knows at every point, and the
   promises that are made of it. *)
THEOREM InvariantTheorem == Spec => []PilotInvariant
BY InitInvariant, StepInvariant, PTL DEF Spec

(* Every reachable state is well typed. *)
THEOREM PilotTypeTheorem == Spec => []TypeOK
<1>1. PilotInvariant => TypeOK
  BY DEF PilotInvariant
<1>2. QED
  BY <1>1, InvariantTheorem, PTL

(* No call goes out beyond the budget of its session, by retries, regenerations or resumes. *)
THEOREM BudgetTheorem == Spec => []BudgetHolds
<1>1. PilotInvariant => BudgetHolds
  BY DEF PilotInvariant, BudgetKnows, BudgetHolds, TypeOK
<1>2. QED
  BY <1>1, InvariantTheorem, PTL

(* Nothing is called after the limit of consecutive rate limits, or after the daily quota. *)
THEOREM BreakerTheorem == Spec => []BreakerHolds
<1>1. PilotInvariant => BreakerHolds
  BY BreakerFromStreak DEF PilotInvariant
<1>2. QED
  BY <1>1, InvariantTheorem, PTL

(* Whatever errors alternate, a pair is called no more than 1 + retries + regenerations times. *)
THEOREM AttemptsTheorem == Spec => []AttemptsAreBounded
<1>1. PilotInvariant => AttemptsAreBounded
  BY DEF PilotInvariant
<1>2. QED
  BY <1>1, InvariantTheorem, PTL

(* The calls of a session are bounded in each of the three ways. *)
THEOREM BoundedTheorem == Spec => []CallsAreBounded
<1>1. BudgetHolds /\ BreakerHolds /\ AttemptsAreBounded => CallsAreBounded
  BY DEF CallsAreBounded
<1>2. QED
  BY <1>1, BudgetTheorem, BreakerTheorem, AttemptsTheorem, PTL

(* Requests are MinInterval apart, and a retry after a 429 honours the provider's delay. *)
THEOREM PaceTheorem == Spec => []CallsArePaced
<1>1. PilotInvariant => CallsArePaced
  BY DEF PilotInvariant, CallsArePaced
<1>2. QED
  BY <1>1, InvariantTheorem, PTL

(* A session that was not stopped has settled every pair of the manifest, in its order. *)
THEOREM ResultsTheorem == Spec => []ResultsAreComplete
<1>1. PilotInvariant => ResultsAreComplete
  <2> SUFFICES ASSUME PilotInvariant, pc = "report", ~stopped PROVE
               /\ results = [p \in Pairs |-> p]
               /\ \A p \in Pairs : Settled(p)
    BY DEF ResultsAreComplete, Settled
  <2>1. ResultsKnow /\ pair = NumPairs + 1 /\ results \in Seq(Pairs)
    BY DEF PilotInvariant, ResultsKnow, TypeOK
  <2>2. Len(results) = NumPairs /\ \A p \in Pairs : p < pair
    BY <2>1, PilotAssumption DEF ResultsKnow, Pairs
  <2>3. results = [p \in Pairs |-> p]
    BY <2>1, <2>2 DEF ResultsKnow, Pairs
  <2>4. QED
    BY <2>1, <2>2, <2>3 DEF ResultsKnow
<1>2. QED
  BY <1>1, InvariantTheorem, PTL

(* A session inherits and accepts at most one model version. *)
THEOREM VersionTheorem == Spec => []OneVersionInSession
<1>1. ASSUME NEW S, AtMostOne(S) PROVE Cardinality(S) <= 1
  <2>1. CASE S = {}
    BY <2>1, FS_EmptySet
  <2>2. CASE S # {}
    <3>1. PICK v \in S : S = {v}
      BY <1>1, <2>2 DEF AtMostOne
    <3>2. Cardinality(S) = 1
      BY <3>1, FS_Singleton
    <3>3. QED
      BY <3>2
  <2>3. QED
    BY <2>1, <2>2
<1>2. PilotInvariant => OneVersionInSession
  BY <1>1 DEF PilotInvariant, VersionsKnow, OneVersionInSession
<1>3. QED
  BY <1>2, InvariantTheorem, PTL

(* A success is final: no later step overwrites its record or calls its pair again. *)
THEOREM SuccessTheorem == Spec => SuccessIsFinal
<1> DEFINE Final == \A p \in Pairs : Successful(p) =>
                      /\ records'[p] = records[p]
                      /\ sessions' = sessions => CallsOf(p)' = CallsOf(p)
<1>1. PilotInvariant /\ [Next]_vars => [Final]_vars
  <2> SUFFICES ASSUME PilotInvariant, [Next]_vars, NEW p \in Pairs, Successful(p)
               PROVE  /\ records'[p] = records[p]
                      /\ sessions' = sessions => CallsOf(p)' = CallsOf(p)
    OBVIOUS
  <2> USE DEF disk, progress, limits, pacing, lineage, vars
  <2>1. TypeOK /\ CursorKnows
    BY DEF PilotInvariant
  <2>2. CASE Begin
    BY <2>1, <2>2 DEF Begin, TypeOK
  <2>3. CASE Call
    <3>1. p # pair
      BY <2>1, <2>3 DEF Call, CursorKnows, Calling
    <3>2. QED
      BY <2>1, <2>3, <3>1, CallIsCounted DEF Call
  <2>4. CASE Save
    <3>1. UNCHANGED calls /\ records'[p] = records[p]
      BY <2>1, <2>4 DEF Save, TypeOK
    <3>2. QED
      BY <3>1 DEF CallsOf
  <2>5. CASE Pick \/ Request \/ Observe \/ Accept \/ Advance \/ Report \/ Crash \/ UNCHANGED vars
    <3>1. UNCHANGED <<calls, records>>
      BY <2>5 DEF Pick, Request, Observe, Accept, Advance, Report, Crash
    <3>2. QED
      BY <3>1 DEF CallsOf
  <2>6. QED
    BY <2>2, <2>3, <2>4, <2>5 DEF Next, Finished
<1>2. Spec => [][Final]_vars
  BY <1>1, InvariantTheorem, PTL DEF Spec
<1>3. QED
  BY <1>2 DEF SuccessIsFinal

(* What is saved about a pair is its last call and how often the session has called. *)
THEOREM RecordsTheorem == Spec => RecordsTellCalls
<1> DEFINE Tells == \A p \in Pairs : records'[p] # records[p] =>
                      /\ calls' = calls /\ trace.pair = p
                      /\ records'[p] = [kind |-> trace.kind, version |-> trace.version,
                                        attempt |-> Cardinality(CallsOf(p))]
<1>1. PilotInvariant /\ [Next]_vars => [Tells]_vars
  <2> SUFFICES ASSUME PilotInvariant, [Next]_vars, NEW p \in Pairs, records'[p] # records[p]
               PROVE  /\ calls' = calls /\ trace.pair = p
                      /\ records'[p] = [kind |-> trace.kind, version |-> trace.version,
                                        attempt |-> Cardinality(CallsOf(p))]
    OBVIOUS
  <2> USE DEF disk, progress, limits, pacing, lineage, vars
  <2>1. TypeOK /\ CursorKnows /\ CountsKnow
    BY DEF PilotInvariant
  <2>2. Save
    BY DEF Next, Finished, Begin, Pick, Request, Call, Observe, Accept, Advance, Report, Crash
  <2>3. calls' = calls /\ pc = "save" /\ trace.pair = pair
    BY <2>1, <2>2 DEF Save, CursorKnows, Answered
  <2>4. Cardinality(CallsOf(pair)) = Attempt
    BY <2>1, <2>3 DEF CountsKnow, Answered
  <2>5. records' = [records EXCEPT ![pair] = [kind |-> trace.kind, attempt |-> Attempt,
                                              version |-> trace.version]]
    BY <2>2 DEF Save
  <2>6. p = pair
    BY <2>1, <2>5 DEF TypeOK
  <2>7. QED
    BY <2>1, <2>3, <2>4, <2>5, <2>6 DEF TypeOK
<1>2. Spec => [][Tells]_vars
  BY <1>1, InvariantTheorem, PTL DEF Spec
<1>3. QED
  BY <1>2 DEF RecordsTellCalls
=============================================================================
