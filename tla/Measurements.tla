----------------------------- MODULE Measurements -----------------------------
(***************************************************************************)
(* What is asked of the measuring code, over small populations, and what   *)
(* the answers must have in common.  Every kind of question has a set of   *)
(* inputs, an answer computed by the code's operators, and a predicate     *)
(* that relates the answer to the input or to another part of the code.    *)
(***************************************************************************)
EXTENDS FullAnalysis

CONSTANT Examples       \* the example ids of a question

ASSUME ExamplesAssumption == IsFiniteSet(Examples) /\ Examples # {}

Judged == [Examples -> Labels]
Size(S) == Cardinality(S)

-----------------------------------------------------------------------------
(* Two predictors on the same examples, cut into slices *)

PairQuestions ==
  [about : {"pair"}, truth : Judged, one : Judged, other : Judged, slice : [Examples -> {"a", "b"}]]

AnswerPair(q) ==
  [one     |-> Confusion(q.truth, q.one), other |-> Confusion(q.truth, q.other),
   metrics |-> Metrics(Confusion(q.truth, q.one)),
   slices  |-> Slices(q.truth, q.one, q.slice),
   pair    |-> CompareArtifacts([i \in Examples |-> [human |-> q.truth[i], said |-> q.one[i]]],
                                [i \in Examples |-> [human |-> q.truth[i], said |-> q.other[i]]])]

SumOver(slices, place) == SumFunction([v \in DOMAIN slices |-> slices[v][place]])

\* The four counts are those of all examples, and of all slices together; F1 is the harmonic
\* mean; and what the comparison credits to either side is the difference of what both got right.
PairAddsUp(q, a) ==
  LET m == a.metrics
      categories == a.pair.categories
      wrong(c) == c.fp + c.fn
  IN  /\ a.one.tp + a.one.tn + a.one.fp + a.one.fn = Size(Examples)
      /\ \A place \in {"tp", "tn", "fp", "fn"} : SumOver(a.slices, place) = a.one[place]
      /\ Equal(m.f1, Ratio(2 * a.one.tp, 2 * a.one.tp + a.one.fp + a.one.fn))
      /\ "G" \in {q.truth[i] : i \in Examples} =>
           Equal(Plus(m.specificity, m.false_positive_rate), <<1, 1>>)
      /\ "H" \in {q.truth[i] : i \in Examples} =>
           Equal(Plus(m.recall, m.false_negative_rate), <<1, 1>>)
      /\ Size(categories.CANDIDATE_ONLY_CORRECT) - Size(categories.BASELINE_ONLY_CORRECT)
           = wrong(a.one) - wrong(a.other)
      /\ a.pair.fnFixed \cup a.pair.fpFixed = categories.CANDIDATE_ONLY_CORRECT
      /\ a.pair.fnBroken \cup a.pair.fpBroken = categories.BASELINE_ONLY_CORRECT
      /\ a.pair.fn \cup a.pair.fp = categories.BOTH_WRONG \cup categories.BASELINE_ONLY_CORRECT
      /\ UNION {categories[c] : c \in DOMAIN categories} = Examples
      /\ \A c, d \in DOMAIN categories : c # d => categories[c] \cap categories[d] = {}

-----------------------------------------------------------------------------
(* Exact McNemar over the discordant counts *)

DiscordantQuestions == [about : {"discordant"}, b : 0..5, c : 0..5]

\* The p-value does not tell the sides apart, is 1 just where they cannot be told apart, and
\* falls as they part.
McNemarHolds(q) ==
  LET p(b, c) == McNemar(b, c).p
  IN  /\ p(q.b, q.c) = p(q.c, q.b)
      /\ Leq(p(q.b, q.c), <<1, 1>>) /\ p(q.b, q.c)[1] > 0
      /\ Equal(p(q.b, q.c), <<1, 1>>) <=> Distance(q.b, q.c) <= 1
      /\ q.b <= q.c => Leq(p(q.b, q.c + 1), p(q.b, q.c))

-----------------------------------------------------------------------------
(* Thresholds over support scores *)

ThresholdQuestions ==
  [about : {"thresholds"}, truth : Judged, supports : [Examples -> 0..2],
   thresholds : SUBSET (0..3), split : {"test", "validation"}]

AnswerThresholds(q) ==
  [table |-> Table(q.supports, q.truth, q.thresholds),
   chosen |-> SelectThreshold(q.supports, q.truth, q.split, q.thresholds, "f1")]

\* The table says of a threshold what HHEM would be measured at with it; a higher threshold
\* catches as many hallucinations and turns down as many grounded answers at least; the chosen
\* one is the smallest of the best, and never of the test split.
ThresholdsHold(q, a) ==
  /\ \A t \in q.thresholds :
       a.table[t] = Metrics(Confusion(q.truth, [i \in Examples |-> Decides(q.supports[i], t)]))
  /\ \A t, u \in q.thresholds : t <= u =>
       /\ Leq(a.table[t].recall, a.table[u].recall)
       /\ Leq(a.table[t].false_positive_rate, a.table[u].false_positive_rate)
  /\ (a.chosen = ValueError) <=> (q.split = "test" \/ q.thresholds = {})
  /\ a.chosen # ValueError =>
       \A t \in q.thresholds :
         /\ Leq(a.table[t].f1, a.table[a.chosen].f1)
         /\ t < a.chosen => ~Leq(a.table[a.chosen].f1, a.table[t].f1)

-----------------------------------------------------------------------------
(* HHEM's batches *)

BatchQuestions ==
  [about : {"batches"}, supports : BoundedSeq(0..1, 4), size : 1..3, short : SUBSET (1..2)]

AnswerBatches(q) == EvaluateBatches(q.supports, q.size, q.short, 1)

\* A batch is no larger than asked for, and but for its size the batches change nothing; one
\* that comes back short yields no predictions at all.
BatchesHold(q, a) ==
  a # ValueError =>
    /\ DOMAIN a = 1..Len(q.supports)
    /\ \A i \in DOMAIN a : /\ a[i].support = q.supports[i]
                           /\ a[i].label = Decides(q.supports[i], 1)
                           /\ a[i].batch \notin q.short
                           /\ Size({j \in DOMAIN a : a[j].batch = a[i].batch}) <= q.size

-----------------------------------------------------------------------------
(* What two providers' records say of them *)

ProviderQuestions ==
  [about : {"providers"}, truth : Judged, one : [Examples -> Outcomes],
   other : {[i \in Examples |-> o] : o \in Outcomes}, cost : 1..2]

AnswerProviders(q) ==
  LET summaries == <<Summarize(q.one, q.truth), Summarize(q.other, q.truth)>>
  IN  [summaries |-> summaries, recommended |-> Recommend(summaries, <<q.cost, 1>>),
       errors |-> ErrorCounts(q.one),
       local |-> RecommendLocal(summaries[1], Metrics(Confusion(q.truth, [i \in Examples |-> "H"])),
                   IF Predicting(q.one) = Examples
                     THEN Compare(q.truth, [i \in Examples |-> "H"], q.one)
                     ELSE [categories |-> [CANDIDATE_ONLY_CORRECT |-> {},
                                           BASELINE_ONLY_CORRECT |-> {}]])]

\* A recommended provider has predicted whatever it was asked; where every example was asked
\* of both, none that predicted them all is better.  The local run is recommended only where
\* it errs less often, and answers for all of the examples, when all were asked.
ProvidersHold(q, a) ==
  LET outcomes == <<q.one, q.other>>
      right(p) == Size({i \in Examples : outcomes[p][i] = q.truth[i]})
  IN  /\ \A p \in 1..2 :
           LET s == a.summaries[p]
           IN  /\ s.evaluated + s.missing = Size(Asked(outcomes[p]))
               /\ s.matrix.tp + s.matrix.tn = right(p)
               /\ s.human["G"].fp = s.matrix.fp /\ s.human["H"].fn = s.matrix.fn
               /\ Size(s.fp) = s.matrix.fp /\ Size(s.fn) = s.matrix.fn
      /\ SumFunction(a.errors) = a.summaries[1].missing
      /\ \A chosen \in a.recommended :
           /\ Asked(outcomes[chosen]) # {}
           /\ Asked(outcomes[chosen]) = Predicting(outcomes[chosen])
           /\ \A p \in 1..2 : Predicting(outcomes[p]) = Examples =>
                Leq(a.summaries[p].metrics.balanced_accuracy,
                    a.summaries[chosen].metrics.balanced_accuracy)
      /\ (\E p \in 1..2 : Predicting(outcomes[p]) = Examples) => Size(a.recommended) = 1
      /\ Asked(q.one) = Examples =>
           (a.local = "INCONCLUSIVE" <=> Predicting(q.one) # Examples)
      /\ a.local = "FULL_RUN" /\ Predicting(q.one) = Examples =>
           right(1) >= Size({i \in Examples : q.truth[i] = "H"})

-----------------------------------------------------------------------------
(* Three and more evaluators, some of which miss an example *)

Partial == UNION {[S -> Labels] : S \in SUBSET {1, 2}}

ThreeQuestions ==
  [about : {"three"}, truth : [{1, 2} -> Labels],
   said : [{"heuristic", "hhem", "local_llm"} -> Partial]]

\* What all, none, one or two got right is every complete example once: in the five-way
\* analysis, but for other pairs than those it names; among three, once a pair is rid of all.
EvaluatorsAddUp(q, a) ==
  /\ a.count = Size(a.all) + Size(a.none)
                 + SumFunction([n \in DOMAIN a.only |-> Size(a.only[n])])
                 + SumFunction([p \in DOMAIN a.pair |-> Size(a.pair[p] \ a.all)])
  /\ \A n \in DOMAIN a.missing : a.missing[n] = DOMAIN q.truth \ DOMAIN q.said[n]
  /\ (DOMAIN a.missing = {}) => a.count = Size(DOMAIN q.truth)

ManyQuestions ==
  [about : {"many"}, truth : [{1} -> Labels],
   said : [{"heuristic", "hhem", "gemini", "groq"} -> UNION {[S -> Labels] : S \in SUBSET {1}}]]

ManyAddUp(q, a) ==
  /\ \A i \in a.bothLLM : \A n \in DOMAIN a.only : i \notin a.only[n]
  /\ a.hhemOver \subseteq a.only["hhem"] \cup a.pair[{"hhem", "heuristic"}]
  /\ a.count >= Size(a.all) + Size(a.none)
                  + SumFunction([n \in DOMAIN a.only |-> Size(a.only[n])])
                  + SumFunction([p \in DOMAIN a.pair |-> Size(a.pair[p])])

-----------------------------------------------------------------------------
(* Repeated decisions *)

RepeatQuestions ==
  [about : {"repeats"}, records : [{1, 2} -> BoundedSeq(Labels \cup {"NONE"}, 3)]]

\* Two labels agree in all three pairs or in one, so the rate is a third at least; and what is
\* unanimous, divided or incomplete is what was repeated.
RepeatsAddUp(q, a) ==
  LET divided == Size(a.disagreements)
  IN  /\ a.count > 0 => Equal(a.agreement, <<3 * a.count - 2 * divided, 3 * a.count>>)
      /\ a.count > 0 => Equal(a.unanimity, <<a.count - divided, a.count>>)
      /\ a.count + Size(a.incomplete) = Size({i \in DOMAIN q.records : q.records[i] # <<>>})
      /\ \A i \in a.disagreements : {"G", "H"} \subseteq {q.records[i][k] : k \in 1..3}

-----------------------------------------------------------------------------
(* Ranks, calibration, percentiles, bootstrap, failures *)

RankQuestions ==
  [about : {"ranks"}, lengths : UNION {[1..n -> 0..2] : n \in 1..5}, truth : {"G", "H"}]

AnswerRanks(q) ==
  LET labels == [i \in DOMAIN q.lengths |-> IF i % 2 = 0 THEN q.truth ELSE "H"]
      said   == [i \in DOMAIN q.lengths |-> IF i % 3 = 0 THEN "H" ELSE "G"]
  IN  [quartiles |-> Quartiles(q.lengths), whole |-> Confusion(labels, said),
       matrices |-> QuartileMatrices(q.lengths, labels, said)]

RanksAddUp(q, a) ==
  /\ UNION {a.quartiles[k] : k \in 1..4} = DOMAIN q.lengths
  /\ \A k, l \in 1..4 : Distance(Size(a.quartiles[k]), Size(a.quartiles[l])) <= 1
  /\ \A k, l \in 1..4 : k < l =>
       \A i \in a.quartiles[k], j \in a.quartiles[l] : q.lengths[i] <= q.lengths[j]
  /\ \A place \in {"tp", "tn", "fp", "fn"} :
       SumFunction([k \in 1..4 |-> a.matrices[k][place]]) = a.whole[place]

CalibrationQuestions ==
  [about : {"calibration"}, truth : [{1, 2} -> Labels], said : [{1, 2} -> Labels],
   confidence : [{1, 2} -> {0, 1, 2, 9, 10, 11, 19, 20}]]

AnswerCalibration(q) ==
  <<ProbabilityCalibration(q.truth, q.said, q.confidence),
    ConfidenceCalibration(q.truth, q.said, q.confidence)>>

\* Each score is in one bin; an expected error lies between the gap of the two means and one,
\* and there is none where every answer is certain and right.
CalibrationHolds(q, a) ==
  \A k \in 1..2 :
    /\ SumFunction([b \in 0..9 |-> Size(a[k].bins[b])]) = Size(DOMAIN q.truth)
    /\ Leq(a[k].ece, <<1, 1>>) /\ Leq(a[k].brier, <<1, 1>>)
    /\ (\A i \in DOMAIN q.truth : q.said[i] = q.truth[i] /\ q.confidence[i] = 20) <=>
         (a[2].brier[1] = 0 /\ \A i \in DOMAIN q.truth : q.confidence[i] = 20)
    /\ a[k].brier[1] = 0 => a[k].ece[1] = 0
    /\ Equal(a[1].brier, a[2].brier)

LatencyQuestions ==
  [about : {"latencies"}, values : BoundedSeq(0..2, 4) \cup {[i \in 1..n |-> i] : n \in 19..41}]

\* Half of the values, and 95 of a hundred, are no larger, and with one rank less they would
\* not be; the full run's formulas mean the same rank; an interval's ends are in order.
LatenciesHold(q, a) ==
  LET n == Len(q.values)
      upTo(v)  == Size({k \in 1..n : q.values[k] <= v})
      below(v) == Size({k \in 1..n : q.values[k] < v})
  IN  /\ a = FullLatencySummary(q.values)
      /\ n > 0 =>
           /\ 100 * upTo(a.p50) >= 50 * n /\ 100 * below(a.p50) < 50 * n
           /\ 100 * upTo(a.p95) >= 95 * n /\ 100 * below(a.p95) < 95 * n
           /\ Leq(Percentile(q.values, 3), Percentile(q.values, 97))
           /\ Leq(<<Ascending(q.values)[1], 1>>, Percentile(q.values, 3))

BootstrapQuestions ==
  [about : {"bootstrap"}, truth : [1..2 -> Labels], said : [1..2 -> Labels],
   sample : [1..3 -> 1..2]]

AnswerBootstrap(q) == BootstrapReport(q.sample, q.truth, q.said)

\* A sample is measured though it repeats ids, and each occurrence counts.
BootstrapHolds(q, a) ==
  /\ a # ValueError
  /\ a.matrix.tp + a.matrix.tn
       = Size({k \in DOMAIN q.sample : q.said[q.sample[k]] = q.truth[q.sample[k]]})

FailureQuestions ==
  [about : {"failures"}, outcomes : [1..3 -> Outcomes], length : [1..3 -> BOOLEAN]]

FailuresAddUp(q, a) ==
  a # ValueError =>
    /\ UNION {a[c] : c \in DOMAIN a} = DOMAIN q.outcomes \ Predicting(q.outcomes)
    /\ \A c, d \in DOMAIN a : c # d => a[c] \cap a[d] = {}

-----------------------------------------------------------------------------
(* The heuristic; errors by task and by confidence; who is ready *)

Words == 1..3
HeuristicQuestions ==
  [about : {"heuristic"}, response : SUBSET Words, context : SUBSET Words, more : Words,
   threshold : {<<0, 1>>, <<1, 2>>, <<2, 3>>, <<1, 1>>}]

\* More context never turns a grounded answer into a hallucinated one, nor does a lower
\* threshold; an answer whose words the context has is grounded under any.
HeuristicHolds(q, a) ==
  /\ a = "G" => HeuristicLabel(q.response, q.context \cup {q.more}, q.threshold) = "G"
  /\ a = "H" => HeuristicLabel(q.response, q.context, <<1, 1>>) = "H"
  /\ q.response \subseteq q.context => a = "G"

ErrorQuestions ==
  [about : {"errors"}, truth : Judged, said : Judged, task : [Examples -> {"QA", "Summary"}],
   score : [Examples -> {20, 79, 80}]]

AnswerErrors(q) ==
  [all |-> ErrorAnalysis(q.truth, q.said, q.task),
   confident |-> HighConfidenceErrors(q.truth, q.said, q.score)]

\* The errors are what the matrix counts as wrong and the tasks count together; the confident
\* ones are errors whose label the score is far from contradicting.
ErrorsAddUp(q, a) ==
  LET matrix == Confusion(q.truth, q.said)
  IN  /\ Size(a.all.errors) = matrix.fp + matrix.fn
      /\ SumFunction(a.all.byTask) = Size(a.all.errors)
      /\ a.confident \subseteq a.all.errors
      /\ \A i \in a.confident : Decides(100 - q.score[i], 50) = q.said[i]

ReadinessQuestions ==
  [about : {"readiness"}, selected : SUBSET {1, 2},
   results : [{1, 2} -> [api : 0..1, parse : 0..1, family : {"a", "b"}]]]

\* Somebody is ready just when one of those selected answered and parsed; several of one
\* family are no second opinion.
ReadinessHolds(q, a) ==
  /\ a.qualified \cup a.disqualified = q.selected
  /\ a.ready <=> \E p \in q.selected : q.results[p].api = 1 /\ q.results[p].parse = 1
  /\ a.multi => \E p, r \in a.qualified : q.results[p].family # q.results[r].family

-----------------------------------------------------------------------------
(* Samples *)

Example == [task : {"QA", "Summary", "other"}, spans : SUBSET BOOLEAN, split : {"test"},
            quality : {"good", "poor"}]
Populations ==
  [1..3 -> {e \in Example : e.spans # {TRUE, FALSE} /\ (e.task = "other" => e.quality = "good")}]

\* What a seed selects is a choice.
SampleAnswers(examples) ==
  UNION {{[pilot |-> p, consistency |-> c] : c \in ConsistencySamples(examples, p, 1)} :
           p \in PilotSamples(examples, 1)}

\* The repeated examples are examples of the pilot, of every stratum that it has.
SamplesHold(examples, a) ==
  LET stratum(i) == <<examples[i].task, HumanLabel(examples[i].spans, "strict")>>
  IN  /\ a.consistency \subseteq a.pilot
      /\ {stratum(i) : i \in a.pilot} = {stratum(i) : i \in Eligible(examples)}
      /\ {stratum(i) : i \in a.consistency} = {stratum(i) : i \in a.pilot}
=============================================================================
