---------------------------- MODULE Classification ----------------------------
(***************************************************************************)
(* What the evaluators of hallucination predict and how their predictions  *)
(* are measured against the human labels: evaluators/hallucination/        *)
(* heuristic.py, hhem.py, metrics.py, thresholds.py and comparison.py.     *)
(*                                                                         *)
(* Labels, truths and predictions are functions of example ids; "H" is     *)
(* hallucinated, the positive class, "G" grounded.                         *)
(***************************************************************************)
EXTENDS Ratios, Sequences, FiniteSets, FiniteSetsExt

Labels == {"G", "H"}

-----------------------------------------------------------------------------
(* Evaluators *)

\* Support that reaches the threshold is grounded; the score is what support leaves.
Decides(support, threshold) == IF support >= threshold THEN "G" ELSE "H"

\* The heuristic's support: the share of the response's words that the context has.
Overlap(response, context) ==
  CASE response = {} -> <<1, 1>>
    [] response # {} /\ context = {} -> <<0, 1>>
    [] response # {} /\ context # {} ->
         <<Cardinality(response \cap context), Cardinality(response)>>

HeuristicLabel(response, context, threshold) ==
  IF Leq(threshold, Overlap(response, context)) THEN "G" ELSE "H"

\* HHEM asks its model for one batch after the other; "short" gives the batches that the model
\* answers with a score too few.
FirstOf(b, size) == (b - 1) * size + 1
EvaluateBatches(supports, size, short, threshold) ==
  LET n       == Len(supports)
      batches == 1..((n + size - 1) \div size)
      batchOf == [i \in 1..n |-> CHOOSE b \in batches :
                    FirstOf(b, size) <= i /\ i < FirstOf(b + 1, size)]
  IN  IF short \cap batches # {} THEN ValueError
      ELSE [i \in 1..n |-> [label |-> Decides(supports[i], threshold), support |-> supports[i],
                            batch |-> batchOf[i]]]

-----------------------------------------------------------------------------
(* Metrics *)

Hits(truth, predicted, actual, said) ==
  {i \in DOMAIN truth : truth[i] = actual /\ predicted[i] = said}

SlipConfusion(truth, predicted) ==   \* every wrong label counts as a false positive
  [tp |-> Cardinality(Hits(truth, predicted, "H", "H")),
   tn |-> Cardinality(Hits(truth, predicted, "G", "G")),
   fp |-> Cardinality({i \in DOMAIN truth : truth[i] # predicted[i]}),
   fn |-> Cardinality(Hits(truth, predicted, "H", "G"))]
Confusion(truth, predicted) ==
  [tp |-> Cardinality(Hits(truth, predicted, "H", "H")),
   tn |-> Cardinality(Hits(truth, predicted, "G", "G")),
   fp |-> Cardinality(Hits(truth, predicted, "G", "H")),
   fn |-> Cardinality(Hits(truth, predicted, "H", "G"))]

Metrics(m) ==
  LET precision   == Ratio(m.tp, m.tp + m.fp)
      recall      == Ratio(m.tp, m.tp + m.fn)
      specificity == Ratio(m.tn, m.tn + m.fp)
      sum         == Plus(recall, specificity)
  IN  [precision |-> precision, recall |-> recall, specificity |-> specificity,
       f1 |-> Divide(<<2 * precision[1] * recall[1], precision[2] * recall[2]>>,
                     Plus(precision, recall)),
       accuracy |-> Ratio(m.tp + m.tn, m.tp + m.tn + m.fp + m.fn),
       balanced_accuracy |-> <<sum[1], 2 * sum[2]>>,
       false_positive_rate |-> Ratio(m.fp, m.fp + m.tn),
       false_negative_rate |-> Ratio(m.fn, m.fn + m.tp)]

\* _build_report: predictions are a sequence of <<id, label>>.
Misaligned(truth, predictions) ==
  \/ Cardinality({p[1] : p \in {predictions[k] : k \in DOMAIN predictions}}) # Len(predictions)
  \/ {predictions[k][1] : k \in DOMAIN predictions} # DOMAIN truth

\* Nobody takes the refusal for a report.
Matrices == [tp : Nat, tn : Nat, fp : Nat, fn : Nat]
Rates    == [precision : Nat \X Nat, recall : Nat \X Nat, specificity : Nat \X Nat, f1 : Nat \X Nat,
             accuracy : Nat \X Nat, balanced_accuracy : Nat \X Nat,
             false_positive_rate : Nat \X Nat, false_negative_rate : Nat \X Nat]
ReportRecords(ids) == [matrix : Matrices, metrics : Rates, fp : SUBSET ids, fn : SUBSET ids]
ASSUME RefusalAssumption == ValueError \notin ReportRecords(Int \X Int)

Report(truth, predictions) ==
  IF Misaligned(truth, predictions) THEN ValueError
  ELSE LET said   == [i \in DOMAIN truth |->
                        (CHOOSE p \in {predictions[k] : k \in DOMAIN predictions} : p[1] = i)[2]]
           matrix == Confusion(truth, said)
       IN  [matrix |-> matrix, metrics |-> Metrics(matrix),
            fp |-> Hits(truth, said, "G", "H"), fn |-> Hits(truth, said, "H", "G")]

\* The slices of one dimension: the report of every value's ids.
Part(f, S) == [i \in S |-> f[i]]
Slices(truth, predicted, dimension) ==
  [v \in {dimension[i] : i \in DOMAIN truth} |->
     LET ids == {i \in DOMAIN truth : dimension[i] = v}
     IN  Confusion(Part(truth, ids), Part(predicted, ids))]

-----------------------------------------------------------------------------
(* Thresholds *)

SlipBelow(support, threshold) == support <= threshold   \* support at the threshold is turned down
Below(support, threshold) == support < threshold

\* analyze_thresholds: every threshold's row, in increasing order.
ThresholdRow(supports, truth, t) ==
  Metrics(Confusion(truth, [i \in DOMAIN truth |-> IF Below(supports[i], t) THEN "H" ELSE "G"]))

Table(supports, truth, thresholds) == [t \in thresholds |-> ThresholdRow(supports, truth, t)]

\* select_threshold_from_validation: the smallest of the best.
SelectThreshold(supports, truth, split, candidates, metric) ==
  IF split = "test" \/ candidates = {} THEN ValueError
  ELSE LET table == Table(supports, truth, candidates)
           best  == {t \in candidates : \A u \in candidates : Leq(table[u][metric], table[t][metric])}
       IN  Min(best)

-----------------------------------------------------------------------------
(* Paired comparison *)

\* What math.comb counts: the choices, of n, of no more than some.
ChoicesUpTo(n, most) == Cardinality({S \in SUBSET (1..n) : Cardinality(S) <= most})

\* exact_mcnemar over the two numbers of discordant examples
McNemar(b, c) ==
  LET n       == b + c
      smaller == IF b < c THEN b ELSE c
      gap     == IF b < c THEN c - b ELSE b - c
      tail    == ChoicesUpTo(n, smaller)
  IN  [b |-> b, c |-> c, statistic |-> Ratio((gap - 1) * (gap - 1), n),
       p |-> IF n = 0 \/ 2 * tail > 2^n THEN <<1, 1>> ELSE <<2 * tail, 2^n>>]

\* compare_hallucination_predictions: every example by itself
Compare(truth, heuristic, candidate) ==
  IF DOMAIN heuristic # DOMAIN truth \/ DOMAIN candidate # DOMAIN truth THEN ValueError
  ELSE LET ids   == DOMAIN truth
           right(f) == {i \in ids : f[i] = truth[i]}
           h     == right(heuristic)
           c     == right(candidate)
       IN  [categories |-> [BOTH_CORRECT |-> h \cap c, BASELINE_ONLY_CORRECT |-> h \ c,
                            CANDIDATE_ONLY_CORRECT |-> c \ h, BOTH_WRONG |-> ids \ (h \cup c)],
            fnFixed  |-> Hits(truth, heuristic, "H", "G") \cap c,
            fpFixed  |-> Hits(truth, heuristic, "G", "H") \cap c,
            fnBroken |-> Hits(truth, candidate, "H", "G") \cap h,
            fpBroken |-> Hits(truth, candidate, "G", "H") \cap h,
            fn |-> Hits(truth, candidate, "H", "G"), fp |-> Hits(truth, candidate, "G", "H"),
            mcnemar |-> McNemar(Cardinality(h \ c), Cardinality(c \ h))]

\* compare_hallucination_artifacts: an artifact has the human label and the predicted one of
\* every example; two that disagree on what the humans said are not compared.
CompareArtifacts(baseline, candidate) ==
  IF DOMAIN baseline # DOMAIN candidate THEN ValueError
  ELSE IF \E i \in DOMAIN baseline : baseline[i].human # candidate[i].human THEN ValueError
  ELSE Compare([i \in DOMAIN baseline |-> baseline[i].human],
               [i \in DOMAIN baseline |-> baseline[i].said],
               [i \in DOMAIN baseline |-> candidate[i].said])
=============================================================================
