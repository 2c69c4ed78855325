--------------------------- MODULE RetrievalScoring ---------------------------
(***************************************************************************)
(* Retrieval, its metrics and what is concluded from them:                 *)
(* retrieval/bm25.py, evaluators/retrieval/metrics.py, runners/retrieval.py, *)
(* regression/comparison.py, and the workspace's policy and transitions.   *)
(*                                                                         *)
(* Documents are integers, ordered as their ids are.  What is relevant to  *)
(* a query is a function from the documents listed for it to their grades. *)
(* The logarithmic discounts of nDCG are rounded to decreasing integers.   *)
(***************************************************************************)
EXTENDS Ratios, Sequences, FiniteSets, FiniteSetsExt, SequencesExt

-----------------------------------------------------------------------------
(* BM25: only documents that share a word with the query have a score *)

Retrieve(query, words, score, topK) ==
  LET matching == {d \in DOMAIN words : query \cap words[d] # {}}
      ordered  == InOrder(matching, score)
  IN  [r \in 1..Min({topK, Cardinality(matching)}) |-> ordered[r]]

-----------------------------------------------------------------------------
(* Metrics of one query *)

Relevant(listed) == {d \in DOMAIN listed : listed[d] > 0}
Cut(retrieved, k) == SubSeq(retrieved, 1, Min({k, Len(retrieved)}))
Found(listed, retrieved, k) == Relevant(listed) \cap Range(Cut(retrieved, k))

PrecisionAt(listed, retrieved, k) == <<Cardinality(Found(listed, retrieved, k)), k>>
RecallAt(listed, retrieved, k) ==
  Ratio(Cardinality(Found(listed, retrieved, k)), Cardinality(Relevant(listed)))
HitAt(listed, retrieved, k) == IF Found(listed, retrieved, k) # {} THEN <<1, 1>> ELSE <<0, 1>>

\* The reciprocal rank is not cut at k.
ReciprocalRank(listed, retrieved) ==
  LET ranks == {r \in DOMAIN retrieved : retrieved[r] \in Relevant(listed)}
  IN  IF ranks = {} THEN <<0, 1>> ELSE <<1, Min(ranks)>>

Gain(grade) == 2^grade - 1
Discount == <<6, 4, 3, 2>>

\* A document that comes again earns nothing, but keeps its rank.
SlipCounts(retrieved, r) == TRUE
Counts(retrieved, r) == \A earlier \in 1..(r - 1) : retrieved[earlier] # retrieved[r]

NDCGAt(listed, retrieved, k) ==
  LET earning == {r \in DOMAIN Cut(retrieved, k) :
                    retrieved[r] \in Relevant(listed) /\ Counts(retrieved, r)}
      dcg     == SumFunction([r \in earning |-> Gain(listed[retrieved[r]]) * Discount[r]])
      best    == InOrder(Relevant(listed), listed)
      ideal   == SumFunction([r \in DOMAIN Cut(best, k) |-> Gain(listed[best[r]]) * Discount[r]])
  IN  Ratio(dcg, ideal)

\* The five metrics; that one at a cut carries the cut in its name is left out.
QueryMetrics(listed, retrieved, k) ==
  [precision |-> PrecisionAt(listed, retrieved, k), recall |-> RecallAt(listed, retrieved, k),
   hit_rate |-> HitAt(listed, retrieved, k), mrr |-> ReciprocalRank(listed, retrieved),
   ndcg |-> NDCGAt(listed, retrieved, k)]

\* _classify_retrieval: only a query without any listed document is one to abstain from.
Classify(listed, retrieved, k) ==
  CASE DOMAIN listed = {} -> "SHOULD_ABSTAIN"
    [] DOMAIN listed # {} /\ HitAt(listed, retrieved, k)[1] = 1 -> "PASS"
    [] DOMAIN listed # {} /\ HitAt(listed, retrieved, k)[1] = 0 -> "RETRIEVAL_MISS"

-----------------------------------------------------------------------------
(* A run: a query that was not predicted retrieved nothing *)

Retrieved(predictions, q) == IF q \in DOMAIN predictions THEN predictions[q] ELSE <<>>

MetricNames == {"precision", "recall", "hit_rate", "mrr", "ndcg"}

EvaluateRetrieval(ground, predictions, k) ==
  LET query == [q \in DOMAIN ground |->
                  [metrics  |-> QueryMetrics(ground[q], Retrieved(predictions, q), k),
                   category |-> Classify(ground[q], Retrieved(predictions, q), k)]]
      sum(name) == SumRatios([q \in DOMAIN ground |-> query[q].metrics[name]])
      mean(name) == IF DOMAIN ground = {} THEN <<0, 1>>
                    ELSE <<sum(name)[1], sum(name)[2] * Cardinality(DOMAIN ground)>>
  IN  [metrics |-> [name \in MetricNames |-> mean(name)], per_query |-> query]

\* run_retrieval_evaluation
RunRetrieval(ground, predictions, topK) ==
  LET result == EvaluateRetrieval(ground, predictions, topK)
  IN  [metrics |-> result.metrics, per_query |-> result.per_query,
       failures |-> {q \in DOMAIN ground : result.per_query[q].category # "PASS"},
       predicted |-> Cardinality(DOMAIN predictions)]

-----------------------------------------------------------------------------
(* Regression.  Metrics map some names to values; one over zero is no finite *)
(* number.  A bound that a rule does not set is "none".                     *)

Finite(value) == value[2] # 0
Given(value)  == value # <<>>
Present(metrics, rule) == rule.name \in DOMAIN metrics

\* A current value is judged by the rule's bound before anybody misses the baseline.
SlipOutOfBound(current, rule) == FALSE
OutOfBound(current, rule) ==
  /\ Given(rule.bound)
  /\ IF rule.direction = "HIGHER_IS_BETTER" THEN ~Leq(rule.bound, current)
                                            ELSE ~Leq(current, rule.bound)

Regressed(current, baseline, rule) ==
  IF rule.direction = "HIGHER_IS_BETTER" THEN ~Leq(baseline, Plus(current, rule.allowed))
                                         ELSE ~Leq(current, Plus(baseline, rule.allowed))

CompareOne(current, baseline, rule) ==
  CASE ~Present(current, rule) -> "MISSING"
    [] Present(current, rule) /\ OutOfBound(current[rule.name], rule) -> "REGRESSION"
    [] OTHER ->
       IF ~Present(baseline, rule) THEN "MISSING"
       ELSE IF Regressed(current[rule.name], baseline[rule.name], rule) THEN "REGRESSION" ELSE "PASS"

CompareMetrics(current, baseline, rules) ==
  IF \/ rules = {}
     \/ \E rule \in rules : \E metrics \in {current, baseline} :
          Present(metrics, rule) /\ ~Finite(metrics[rule.name])
  THEN ValueError
  ELSE LET status == [rule \in rules |-> CompareOne(current, baseline, rule)]
       IN  [passed |-> \A rule \in rules : status[rule] = "PASS", status |-> status]

\* build_workspace_retrieval_rules: five rules, none of which allows anything.
WorkspaceRules == {[name |-> name, direction |-> "HIGHER_IS_BETTER", bound |-> <<>>,
                    allowed |-> <<0, 1>>] : name \in MetricNames}

\* build_failure_transitions, of the same queries in both
Transition(old, new) ==
  CASE old = "PASS" /\ new = "PASS" -> "UNCHANGED_PASS"
    [] old = "PASS" /\ new # "PASS" -> "REGRESSED"
    [] old # "PASS" /\ new = "PASS" -> "IMPROVED"
    [] old # "PASS" /\ new # "PASS" -> IF old = new THEN "PERSISTENT_FAILURE" ELSE "CHANGED_FAILURE"

Transitions(baseline, candidate) ==
  IF DOMAIN baseline = {} \/ DOMAIN baseline # DOMAIN candidate THEN ValueError
  ELSE [q \in DOMAIN baseline |-> Transition(baseline[q].category, candidate[q].category)]
=============================================================================
