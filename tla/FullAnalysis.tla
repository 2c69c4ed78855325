----------------------------- MODULE FullAnalysis -----------------------------
(***************************************************************************)
(* The analysis of the complete local run: rank quartiles, calibration,    *)
(* percentiles and the bootstrap (pilot/full_analysis.py), the latencies   *)
(* of analysis.py and of the full run's script, and the breakdown of       *)
(* failures of the forensics script.  Scores and confidences are           *)
(* twentieths.                                                             *)
(***************************************************************************)
EXTENDS PilotAnalysis

-----------------------------------------------------------------------------
(* Rank quartiles: sorted by value, then by id; rank * 4 // n *)

Rank(values, i) ==
  Cardinality({j \in DOMAIN values : values[j] < values[i] \/ (values[j] = values[i] /\ j < i)})

SlipQuartileOf(rank, n) == rank \div (n \div 4 + 1)   \* quarters of a fixed size
QuartileOf(rank, n) == (rank * 4) \div n

Quartiles(values) ==
  [q \in 1..4 |-> {i \in DOMAIN values :
                     QuartileOf(Rank(values, i), Cardinality(DOMAIN values)) + 1 = q}]

\* _slice_reports
QuartileMatrices(values, truth, predicted) ==
  [q \in 1..4 |-> LET ids == Quartiles(values)[q]
                  IN  Confusion(Part(truth, ids), Part(predicted, ids))]

-----------------------------------------------------------------------------
(* Calibration: ten bins, the last one closed *)

SlipBinOf(score) == score \div 2      \* certainty falls out of the last bin
BinOf(score) == IF score = 20 THEN 9 ELSE score \div 2

Distance(a, b) == IF a < b THEN b - a ELSE a - b

\* scores against targets that are 0 or 20: a bin's gap is that of its two means, and the
\* expected error weighs it by the bin's share.
Calibration(scores, targets) ==
  LET ids    == DOMAIN scores
      bins   == [b \in 0..9 |-> {i \in ids : BinOf(scores[i]) = b}]
      gap(b) == Distance(SumFunctionOnSet(scores, bins[b]), SumFunctionOnSet(targets, bins[b]))
  IN  [bins |-> bins,
       ece  |-> <<SumFunction([b \in 0..9 |-> gap(b)]), 20 * Cardinality(ids)>>,
       brier |-> <<SumFunction([i \in ids |-> (scores[i] - targets[i]) * (scores[i] - targets[i])]),
                   400 * Cardinality(ids)>>]

\* Of the predicted probability: the target is the human label.  Of the decision's confidence:
\* whether the decision was right.
ProbabilityOf(label, confidence) == IF label = "H" THEN confidence ELSE 20 - confidence

ProbabilityCalibration(truth, said, confidence) ==
  Calibration([i \in DOMAIN truth |-> ProbabilityOf(said[i], confidence[i])],
              [i \in DOMAIN truth |-> IF truth[i] = "H" THEN 20 ELSE 0])

ConfidenceCalibration(truth, said, confidence) ==
  Calibration(confidence, [i \in DOMAIN truth |-> IF said[i] = truth[i] THEN 20 ELSE 0])

\* _error_analysis
ErrorAnalysis(truth, said, task) ==
  LET errors == Hits(truth, said, "G", "H") \cup Hits(truth, said, "H", "G")
  IN  [errors |-> errors,
       byTask |-> [t \in {task[i] : i \in errors} |-> Cardinality({i \in errors : task[i] = t})]]

-----------------------------------------------------------------------------
(* Percentiles of a sequence *)

Ascending(s) ==
  LET place == InOrder(DOMAIN s, [n \in DOMAIN s |-> -s[n]])
  IN  [r \in DOMAIN s |-> s[place[r]]]

\* ceil(n * hundredths / 100) - 1, kept within the sequence
NearestRank(s, hundredths) ==
  LET rank == (hundredths * Len(s) + 99) \div 100
  IN  Ascending(s)[IF rank < 1 THEN 1 ELSE rank]

LatencySummary(s) ==
  IF s = <<>> THEN [count |-> 0, p50 |-> 0, p95 |-> 0]
  ELSE [count |-> Len(s), p50 |-> NearestRank(s, 50), p95 |-> NearestRank(s, 95)]

\* The full run's own formulas
FullLatencySummary(s) ==
  IF s = <<>> THEN [count |-> 0, p50 |-> 0, p95 |-> 0]
  ELSE [count |-> Len(s), p50 |-> Ascending(s)[(Len(s) + 1) \div 2],
        p95 |-> Ascending(s)[(Len(s) * 950000 + 999999) \div 1000000]]

\* _percentile: interpolated between neighbours, in hundredths of a step
Percentile(s, hundredths) ==
  IF s = <<>> THEN <<0, 100>>
  ELSE LET position == hundredths * (Len(s) - 1)
           lower    == Ascending(s)[position \div 100 + 1]
           upper    == Ascending(s)[(position + 99) \div 100 + 1]
       IN  <<100 * lower + (position % 100) * (upper - lower), 100>>

-----------------------------------------------------------------------------
(* The bootstrap: a sample repeats ids, and the metrics refuse ids that repeat *)

SlipOccurrence(sample, k) == sample[k]   \* a repeated id keeps its name
Occurrence(sample, k) == <<sample[k], k>>

BootstrapReport(sample, truth, predicted) ==
  LET names == {Occurrence(sample, k) : k \in DOMAIN sample}
      id(name) == sample[CHOOSE k \in DOMAIN sample : Occurrence(sample, k) = name]
  IN  Report([name \in names |-> truth[id(name)]],
             [k \in DOMAIN sample |-> <<Occurrence(sample, k), predicted[sample[k]]>>])

-----------------------------------------------------------------------------
(* Forensics: the persisted failures by what the records still tell *)

FailureCategory(outcome, length) ==
  CASE outcome = "PARSE" /\ length  -> "OUTPUT_TOKEN_LIMIT"
    [] outcome = "PARSE" /\ ~length -> "PARSE_SUBTYPE_UNKNOWN"
    [] outcome = "SCHEMA"           -> "SCHEMA_SUBTYPE_UNKNOWN"
    [] OTHER                        -> "API"

\* Refused while an example of the manifest has no record.
FailureBreakdown(outcomes, length) ==
  IF Asked(outcomes) # DOMAIN outcomes THEN ValueError
  ELSE LET failures == DOMAIN outcomes \ Predicting(outcomes)
           category(i) == FailureCategory(outcomes[i], length[i])
       IN  [c \in {category(i) : i \in failures} |-> {i \in failures : category(i) = c}]
=============================================================================
