---------------------------- MODULE PilotAnalysis ----------------------------
(***************************************************************************)
(* How the experiments sample their examples and what they make of the     *)
(* answers: pilot/sampling.py, analysis.py, full_analysis.py and           *)
(* readiness.py, and the summaries of the local scripts.                   *)
(*                                                                         *)
(* What a provider's state file knows of an example is an outcome: NONE    *)
(* (never asked), API (no answer), PARSE, SCHEMA (an answer without a      *)
(* prediction), or the predicted label.                                    *)
(***************************************************************************)
EXTENDS Classification, SequencesExt

Outcomes == {"NONE", "API", "PARSE", "SCHEMA"} \cup Labels

Asked(outcomes)     == {i \in DOMAIN outcomes : outcomes[i] # "NONE"}   \* the records there are
Predicting(outcomes) == {i \in DOMAIN outcomes : outcomes[i] \in Labels}

-----------------------------------------------------------------------------
(* Sampling *)

\* human_label: any annotation under the strict policy, one that is not implicitly true under
\* the factual one.  Spans are the set of their implicit_true flags.
HumanLabel(spans, policy) ==
  IF policy = "strict" THEN IF spans # {} THEN "H" ELSE "G"
  ELSE IF FALSE \in spans THEN "H" ELSE "G"

\* The selections a seed can make: of every stratum as many as it has, up to the target.
Stratified(ids, stratum, target) ==
  {S \in SUBSET ids :
     \A s \in {stratum[i] : i \in ids} :
       LET members == {i \in ids : stratum[i] = s}
       IN  Cardinality(S \cap members) =
             IF target < Cardinality(members) THEN target ELSE Cardinality(members)}

Eligible(examples) ==
  {i \in DOMAIN examples : examples[i].split = "test" /\ examples[i].quality = "good"
                             /\ examples[i].task # "other"}

PilotSamples(examples, target) ==
  Stratified(Eligible(examples),
             [i \in DOMAIN examples |-> <<examples[i].task, HumanLabel(examples[i].spans, "strict")>>],
             target)

SlipConsistencySamples(examples, sample, perStratum) ==   \* drawn from the data, not from the pilot
  Stratified(Eligible(examples), [i \in DOMAIN examples |-> examples[i].task], perStratum)
ConsistencySamples(examples, sample, perStratum) ==
  Stratified(sample,
             [i \in DOMAIN examples |-> <<examples[i].task, HumanLabel(examples[i].spans, "strict")>>],
             perStratum)

-----------------------------------------------------------------------------
(* One provider *)

SummaryOf(asked, outcomes, truth) ==
  LET evaluated == Predicting(outcomes)
  IN  [evaluated |-> Cardinality(evaluated),
       missing   |-> Cardinality(asked) - Cardinality(evaluated),
       api       |-> Ratio(Cardinality({i \in asked : outcomes[i] # "API"}), Cardinality(asked)),
       parse     |-> Ratio(Cardinality(evaluated), Cardinality(asked)),
       schema    |-> Ratio(Cardinality({i \in asked : outcomes[i] \in {"PARSE", "SCHEMA"}}),
                           Cardinality(asked)),
       matrix    |-> Confusion(Part(truth, evaluated), Part(outcomes, evaluated)),
       metrics   |-> Metrics(Confusion(Part(truth, evaluated), Part(outcomes, evaluated))),
       human     |-> [label \in Labels |->
                        LET ids == {i \in evaluated : truth[i] = label}
                        IN  Confusion(Part(truth, ids), Part(outcomes, ids))],
       fp |-> Hits(Part(truth, evaluated), outcomes, "G", "H"),
       fn |-> Hits(Part(truth, evaluated), outcomes, "H", "G")]

\* summarize_provider_records sees the records alone: what was never asked is not missing.
Summarize(outcomes, truth) == SummaryOf(Asked(outcomes), outcomes, truth)

ErrorCounts(outcomes) ==
  [e \in {outcomes[i] : i \in Asked(outcomes) \ Predicting(outcomes)} |->
     Cardinality({i \in DOMAIN outcomes : outcomes[i] = e})]

SlipCompletes(summary) == summary.missing = 0   \* a provider without a record passes
Completes(summary) ==
  summary.missing = 0 /\ Equal(summary.api, <<1, 1>>) /\ Equal(summary.parse, <<1, 1>>)

\* recommend_phase5b_judge: the smallest key in the order of its places, then the name; nobody
\* when no provider is complete.
Key(summary, cost) ==
  LET m == summary.metrics
  IN  <<<<-m.balanced_accuracy[1], m.balanced_accuracy[2]>>, <<-m.f1[1], m.f1[2]>>,
        m.false_positive_rate, <<cost, 1>>>>

Precedes(a, b) ==
  \E k \in DOMAIN a : Leq(a[k], b[k]) /\ ~Equal(a[k], b[k]) /\ \A j \in 1..(k - 1) : Equal(a[j], b[j])

Recommend(summaries, cost) ==
  LET complete == {p \in DOMAIN summaries : Completes(summaries[p])}
      key(p)   == Key(summaries[p], cost[p])
  IN  {p \in complete : \A q \in complete \ {p} :
         Precedes(key(p), key(q)) \/ (~Precedes(key(q), key(p)) /\ p < q)}

\* _local_recommendation of the local scripts
SlipRecommendLocal(local, hhem, comparison) ==   \* the paired corrections are not looked at
  IF local.missing # 0 \/ ~Equal(local.parse, <<1, 1>>) THEN "INCONCLUSIVE"
  ELSE IF /\ Leq(hhem.balanced_accuracy, local.metrics.balanced_accuracy)
          /\ Leq(local.metrics.false_positive_rate, hhem.false_positive_rate)
    THEN "FULL_RUN" ELSE "NO_FULL_RUN"
RecommendLocal(local, hhem, comparison) ==
  IF local.missing # 0 \/ ~Equal(local.parse, <<1, 1>>) THEN "INCONCLUSIVE"
  ELSE IF /\ Leq(hhem.balanced_accuracy, local.metrics.balanced_accuracy)
          /\ Leq(hhem.f1, local.metrics.f1)
          /\ Leq(local.metrics.false_positive_rate, hhem.false_positive_rate)
          /\ Cardinality(comparison.categories.CANDIDATE_ONLY_CORRECT) >=
               Cardinality(comparison.categories.BASELINE_ONLY_CORRECT)
    THEN "FULL_RUN" ELSE "NO_FULL_RUN"

\* _high_confidence_errors: scores are hundredths
HighConfidenceErrors(truth, said, score) ==
  {i \in DOMAIN said : /\ said[i] # truth[i]
                       /\ (IF said[i] = "H" THEN score[i] ELSE 100 - score[i]) >= 80}

\* assess_llm_judge_readiness: a provider qualifies when it answered and every answer parsed.
Readiness(selected, results) ==
  LET qualified == {p \in selected : results[p].api > 0 /\ results[p].api = results[p].parse}
      families  == {results[p].family : p \in qualified}
  IN  [ready |-> qualified # {}, qualified |-> qualified, disqualified |-> selected \ qualified,
       multi |-> Cardinality(qualified) >= 2 /\ Cardinality(families) >= 2]

-----------------------------------------------------------------------------
(* Several evaluators: predictions are functions on parts of the ids *)

CompleteIds(truth, predictions) ==
  {i \in DOMAIN truth : \A name \in DOMAIN predictions : i \in DOMAIN predictions[name]}

RightOn(truth, predictions, i) ==
  {name \in DOMAIN predictions : predictions[name][i] = truth[i]}

\* build_local_three_evaluator_analysis: the pairs also hold what all three got right.
Pairs3 == {{"local_llm", "hhem"}, {"local_llm", "heuristic"}, {"hhem", "heuristic"}}
ThreeEvaluators(truth, predictions) ==
  LET ids == CompleteIds(truth, predictions)
      right(i) == RightOn(truth, predictions, i)
  IN  [count |-> Cardinality(ids),
       missing |-> [name \in {n \in DOMAIN predictions : DOMAIN predictions[n] # DOMAIN truth} |->
                      DOMAIN truth \ DOMAIN predictions[name]],
       all  |-> {i \in ids : right(i) = DOMAIN predictions},
       none |-> {i \in ids : right(i) = {}},
       only |-> [name \in DOMAIN predictions |-> {i \in ids : right(i) = {name}}],
       pair |-> [p \in Pairs3 |-> {i \in ids : p \subseteq right(i)}]]

\* build_multi_evaluator_analysis: a pair is alone in being right.
PairsOfMany == {{"gemini", "hhem"}, {"gemini", "heuristic"}, {"hhem", "heuristic"}}
ManyEvaluators(truth, predictions) ==
  LET ids == CompleteIds(truth, predictions)
      right(i) == RightOn(truth, predictions, i)
  IN  [count |-> Cardinality(ids),
       all  |-> {i \in ids : right(i) = DOMAIN predictions},
       none |-> {i \in ids : right(i) = {}},
       bothLLM  |-> {i \in ids : {"gemini", "groq"} \subseteq right(i) /\ "hhem" \notin right(i)},
       hhemOver |-> {i \in ids : "hhem" \in right(i) /\ right(i) \cap {"gemini", "groq"} = {}},
       only |-> [name \in DOMAIN predictions |-> {i \in ids : right(i) = {name}}],
       pair |-> [p \in PairsOfMany |-> {i \in ids : right(i) = p}]]

\* summarize_consistency: an example counts when three of its records have a decision; records
\* are the sequences of each example's decisions, "NONE" where there was none.
Decided(decisions) == Cardinality({k \in DOMAIN decisions : decisions[k] \in Labels}) = 3

Consistency(records) ==
  LET complete == {i \in DOMAIN records : Decided(records[i])}
      labels(i) == Picked(records[i], {k \in DOMAIN records[i] : records[i][k] \in Labels})
      matches(i) == Cardinality({kl \in {<<1, 2>>, <<1, 3>>, <<2, 3>>} :
                                   labels(i)[kl[1]] = labels(i)[kl[2]]})
      unanimous == {i \in complete : matches(i) = 3}
  IN  [count |-> Cardinality(complete),
       agreement |-> Ratio(SumFunction([i \in complete |-> matches(i)]), 3 * Cardinality(complete)),
       unanimity |-> Ratio(Cardinality(unanimous), Cardinality(complete)),
       disagreements |-> complete \ unanimous,
       incomplete |-> {i \in DOMAIN records : records[i] # <<>>} \ complete]
=============================================================================
