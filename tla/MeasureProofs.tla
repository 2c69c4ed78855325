----------------------------- MODULE MeasureProofs -----------------------------
(***************************************************************************)
(* What the measuring code promises of any data: the analyses are of the   *)
(* same examples and agree with each other, retrieval is listed, scored    *)
(* and compared fairly, and samples, batches and benchmarks leave nothing  *)
(* out.  The questions of Measurements and RetrievalQuestions are small    *)
(* instances of these.                                                     *)
(***************************************************************************)
EXTENDS Measurements, RetrievalQuestions, FiniteSetTheorems, SequenceTheorems,
        WellFoundedInduction, TLAPS

-----------------------------------------------------------------------------
(* What the measures have in common, for any examples *)

LEMMA Splits ==
  ASSUME NEW S, IsFiniteSet(S), NEW A, NEW B, S = A \cup B, A \cap B = {}
  PROVE  /\ IsFiniteSet(A) /\ IsFiniteSet(B)
         /\ Cardinality(A) \in Nat /\ Cardinality(B) \in Nat
         /\ Cardinality(S) = Cardinality(A) + Cardinality(B)
<1>1. A \in SUBSET S /\ B \in SUBSET S
  OBVIOUS
<1>2. IsFiniteSet(A) /\ IsFiniteSet(B)
  BY <1>1, FS_Subset
<1>3. Cardinality(A) \in Nat /\ Cardinality(B) \in Nat /\ Cardinality(A \cap B) = 0
  BY <1>2, FS_CardinalityType, FS_EmptySet
<1>4. Cardinality(A \cup B) = Cardinality(A) + Cardinality(B) - Cardinality(A \cap B)
  BY <1>2, FS_Union
<1> QED
  BY <1>2, <1>3, <1>4

Halves(S, A, B) == S = A \cup B /\ A \cap B = {}

LEMMA HalvesAddUp ==
  ASSUME NEW S, IsFiniteSet(S), NEW A, NEW B, Halves(S, A, B)
  PROVE  /\ IsFiniteSet(A) /\ IsFiniteSet(B)
         /\ Cardinality(A) \in Nat /\ Cardinality(B) \in Nat
         /\ Cardinality(S) = Cardinality(A) + Cardinality(B)
BY Splits DEF Halves

OfLabel(truth, label) == {i \in DOMAIN truth : truth[i] = label}
Wrong(truth, said)    == {i \in DOMAIN truth : said[i] # truth[i]}

\* Every example is in one cell of the confusion matrix: its rows are the examples of either
\* label, its other diagonal those with a wrong prediction (metrics.py).
THEOREM MatrixTheorem ==
  ASSUME NEW ids, IsFiniteSet(ids), NEW truth \in [ids -> Labels], NEW said \in [ids -> Labels],
         NEW m, m = Confusion(truth, said)
  PROVE  /\ m \in [tp : Nat, tn : Nat, fp : Nat, fn : Nat]
         /\ m.tp + m.tn + m.fp + m.fn = Cardinality(ids)
         /\ m.tp + m.fn = Cardinality(OfLabel(truth, "H"))
         /\ m.tn + m.fp = Cardinality(OfLabel(truth, "G"))
         /\ m.fp + m.fn = Cardinality(Wrong(truth, said))
<1> DEFINE cell(actual, predicted) == Hits(truth, said, actual, predicted)
<1>1. \A i \in ids : truth[i] \in {"G", "H"} /\ said[i] \in {"G", "H"}
  BY DEF Labels
<1>2. /\ OfLabel(truth, "H") = cell("H", "H") \cup cell("H", "G")
      /\ cell("H", "H") \cap cell("H", "G") = {}
  BY <1>1 DEF OfLabel, Hits
<1>3. /\ OfLabel(truth, "G") = cell("G", "G") \cup cell("G", "H")
      /\ cell("G", "G") \cap cell("G", "H") = {}
  BY <1>1 DEF OfLabel, Hits
<1>4. /\ Wrong(truth, said) = cell("G", "H") \cup cell("H", "G")
      /\ cell("G", "H") \cap cell("H", "G") = {}
  BY <1>1 DEF Wrong, Hits
<1>5. /\ ids = OfLabel(truth, "H") \cup OfLabel(truth, "G")
      /\ OfLabel(truth, "H") \cap OfLabel(truth, "G") = {}
  BY <1>1 DEF OfLabel
<1>6. IsFiniteSet(OfLabel(truth, "H")) /\ IsFiniteSet(OfLabel(truth, "G"))
  BY <1>5, Splits
<1>7. Wrong(truth, said) \in SUBSET ids
  BY DEF Wrong
<1>8. IsFiniteSet(Wrong(truth, said))
  BY <1>7, FS_Subset
<1>9. /\ Cardinality(ids) = Cardinality(OfLabel(truth, "H")) + Cardinality(OfLabel(truth, "G"))
      /\ Cardinality(OfLabel(truth, "H")) = Cardinality(cell("H", "H")) + Cardinality(cell("H", "G"))
      /\ Cardinality(OfLabel(truth, "G")) = Cardinality(cell("G", "G")) + Cardinality(cell("G", "H"))
      /\ Cardinality(Wrong(truth, said)) = Cardinality(cell("G", "H")) + Cardinality(cell("H", "G"))
      /\ Cardinality(cell("H", "H")) \in Nat /\ Cardinality(cell("H", "G")) \in Nat
      /\ Cardinality(cell("G", "G")) \in Nat /\ Cardinality(cell("G", "H")) \in Nat
  <2> HIDE DEF cell
  <2>1. Cardinality(ids) = Cardinality(OfLabel(truth, "H")) + Cardinality(OfLabel(truth, "G"))
    BY <1>5, Splits
  <2>2. /\ Cardinality(OfLabel(truth, "H"))
             = Cardinality(cell("H", "H")) + Cardinality(cell("H", "G"))
        /\ Cardinality(cell("H", "H")) \in Nat /\ Cardinality(cell("H", "G")) \in Nat
    BY <1>2, <1>6, Splits
  <2>3. /\ Cardinality(OfLabel(truth, "G"))
             = Cardinality(cell("G", "G")) + Cardinality(cell("G", "H"))
        /\ Cardinality(cell("G", "G")) \in Nat /\ Cardinality(cell("G", "H")) \in Nat
    BY <1>3, <1>6, Splits
  <2>4. Cardinality(Wrong(truth, said)) = Cardinality(cell("G", "H")) + Cardinality(cell("H", "G"))
    BY <1>4, <1>8, Splits
  <2> QED
    BY <2>1, <2>2, <2>3, <2>4
<1>10. m = [tp |-> Cardinality(cell("H", "H")), tn |-> Cardinality(cell("G", "G")),
            fp |-> Cardinality(cell("G", "H")), fn |-> Cardinality(cell("H", "G"))]
  BY DEF Confusion
<1> HIDE DEF cell
<1> QED
  BY <1>9, <1>10

-----------------------------------------------------------------------------
(* Rates *)

\* The rates of a matrix agree with each other, whatever its counts: F1 is the harmonic mean of
\* precision and recall, each error rate is what its hit rate leaves, where there is anything
\* to rate, and no rate of either class exceeds one (metrics.py).
THEOREM RatesTheorem ==
  ASSUME NEW m \in [tp : Nat, tn : Nat, fp : Nat, fn : Nat], NEW r, r = Metrics(m)
  PROVE  /\ Equal(r.f1, Ratio(2 * m.tp, 2 * m.tp + m.fp + m.fn))
         /\ m.tn + m.fp > 0 => Equal(Plus(r.specificity, r.false_positive_rate), <<1, 1>>)
         /\ m.tp + m.fn > 0 => Equal(Plus(r.recall, r.false_negative_rate), <<1, 1>>)
         /\ Leq(r.precision, <<1, 1>>) /\ Leq(r.recall, <<1, 1>>) /\ Leq(r.specificity, <<1, 1>>)
<1> DEFINE tp == m.tp
           tn == m.tn
           fp == m.fp
           fn == m.fn
           p == Ratio(tp, tp + fp)
           c == Ratio(tp, tp + fn)
<1>1. tp \in Nat /\ tn \in Nat /\ fp \in Nat /\ fn \in Nat
  OBVIOUS
<1>2. /\ r.f1 = Divide(<<2 * p[1] * c[1], p[2] * c[2]>>, Plus(p, c))
      /\ r.precision = p /\ r.recall = c /\ r.specificity = Ratio(tn, tn + fp)
      /\ r.false_positive_rate = Ratio(fp, fp + tn) /\ r.false_negative_rate = Ratio(fn, fn + tp)
  BY Zenon DEF Metrics
<1> HIDE DEF tp, tn, fp, fn
<1>3. ASSUME NEW x \in Nat, NEW y \in Nat
      PROVE  /\ Leq(Ratio(x, x + y), <<1, 1>>)
             /\ x + y > 0 => Equal(Plus(Ratio(x, x + y), Ratio(y, y + x)), <<1, 1>>)
  <2>1. CASE x + y = 0
    BY <1>3, <2>1 DEF Ratio, Leq
  <2>2. CASE x + y > 0
    <3>1. Ratio(x, x + y) = <<x, x + y>> /\ Ratio(y, y + x) = <<y, x + y>>
      BY <1>3, <2>2 DEF Ratio
    <3>2. Plus(<<x, x + y>>, <<y, x + y>>) = <<x * (x + y) + y * (x + y), (x + y) * (x + y)>>
      BY DEF Plus
    <3>3. x * (x + y) + y * (x + y) = (x + y) * (x + y)
      BY <1>3
    <3>4. (x + y) * (x + y) \in Int
      BY <1>3
    <3>5. Equal(Plus(<<x, x + y>>, <<y, x + y>>), <<1, 1>>)
      BY <3>2, <3>3, <3>4 DEF Equal
    <3> QED
      BY <1>3, <3>1, <3>5 DEF Leq
  <2> QED
    BY <1>3, <2>1, <2>2
<1>4. Equal(r.f1, Ratio(2 * tp, 2 * tp + fp + fn))
  <2>1. CASE tp = 0
    <3>1. p[1] = 0 /\ c[1] = 0 /\ p[2] \in Int /\ c[2] \in Int
      BY <1>1, <2>1 DEF Ratio
    <3> HIDE DEF p, c
    <3>2. Plus(p, c)[1] = 0
      BY <3>1 DEF Plus
    <3>3. r.f1 = <<0, 1>>
      <4>1. (p[2] * c[2]) * Plus(p, c)[1] = 0
        BY <3>1, <3>2
      <4> QED
        BY <1>2, <4>1 DEF Divide, Ratio
    <3>4. Ratio(2 * tp, 2 * tp + fp + fn)[1] = 0 /\ Ratio(2 * tp, 2 * tp + fp + fn)[2] \in Int
      BY <1>1, <2>1 DEF Ratio
    <3> QED
      BY <3>3, <3>4 DEF Equal
  <2>2. CASE tp > 0
    <3> DEFINE A == tp + fp
               B == tp + fn
    <3>1. p = <<tp, A>> /\ c = <<tp, B>>
      BY <1>1, <2>2 DEF Ratio
    <3>2. A \in Nat /\ B \in Nat /\ A > 0 /\ B > 0
      BY <1>1, <2>2
    <3>3. Ratio(2 * tp, 2 * tp + fp + fn) = <<2 * tp, A + B>>
      <4>1. 2 * tp + fp + fn = A + B /\ A + B # 0
        BY <1>1, <2>2
      <4> HIDE DEF A, B
      <4> QED
        BY <4>1 DEF Ratio
    <3> HIDE DEF A, B, p, c
    <3> DEFINE top == (2 * tp * tp) * (A * B)
               bottom == (A * B) * (tp * B + tp * A)
    <3>4. r.f1 = Ratio(top, bottom)
      BY <1>2, <3>1 DEF Divide, Plus
    <3>5. bottom # 0
      <4>1. A * B > 0 /\ tp * B > 0 /\ tp * A > 0
        BY <1>1, <2>2, <3>2
      <4>2. A * B \in Int /\ tp * B + tp * A \in Int /\ tp * B + tp * A > 0
        BY <1>1, <3>2, <4>1
      <4> QED
        BY <4>1, <4>2
    <3>6. top * (A + B) = (2 * tp) * bottom
      BY <1>1, <3>2
    <3> HIDE DEF top, bottom
    <3>7. r.f1 = <<top, bottom>>
      BY <3>4, <3>5 DEF Ratio
    <3> QED
      BY <3>3, <3>6, <3>7 DEF Equal
  <2> QED
    BY <1>1, <2>1, <2>2
<1> HIDE DEF p, c
<1>5. /\ tn + fp > 0 => Equal(Plus(r.specificity, r.false_positive_rate), <<1, 1>>)
      /\ tp + fn > 0 => Equal(Plus(r.recall, r.false_negative_rate), <<1, 1>>)
      /\ Leq(r.precision, <<1, 1>>) /\ Leq(r.recall, <<1, 1>>) /\ Leq(r.specificity, <<1, 1>>)
  BY <1>1, <1>2, <1>3 DEF p, c
<1> QED
  BY <1>4, <1>5 DEF tp, tn, fp, fn

-----------------------------------------------------------------------------
(* Two predictors of the same examples *)

RightIn(truth, said) == {i \in DOMAIN truth : said[i] = truth[i]}

\* The paired comparison puts every example in one category, names each gain and each loss as
\* the kind of error that it mends or makes, and credits the candidate with as many examples more
\* as its matrix has fewer errors (comparison.py).
THEOREM PairedTheorem ==
  ASSUME NEW ids, IsFiniteSet(ids), NEW truth \in [ids -> Labels],
         NEW old \in [ids -> Labels], NEW new \in [ids -> Labels],
         NEW pair, pair = Compare(truth, old, new),
         NEW m, m = Confusion(truth, old), NEW n, n = Confusion(truth, new)
  PROVE  /\ pair.categories.BOTH_CORRECT \cup pair.categories.BASELINE_ONLY_CORRECT
              \cup pair.categories.CANDIDATE_ONLY_CORRECT \cup pair.categories.BOTH_WRONG = ids
         /\ \A c, d \in DOMAIN pair.categories :
              c # d => pair.categories[c] \cap pair.categories[d] = {}
         /\ pair.fnFixed \cup pair.fpFixed = pair.categories.CANDIDATE_ONLY_CORRECT
         /\ pair.fnBroken \cup pair.fpBroken = pair.categories.BASELINE_ONLY_CORRECT
         /\ pair.fn \cup pair.fp
              = pair.categories.BOTH_WRONG \cup pair.categories.BASELINE_ONLY_CORRECT
         /\ Cardinality(pair.categories.CANDIDATE_ONLY_CORRECT)
              - Cardinality(pair.categories.BASELINE_ONLY_CORRECT)
              = (m.fp + m.fn) - (n.fp + n.fn)
<1> DEFINE h == RightIn(truth, old)
           c == RightIn(truth, new)
<1>1. \A i \in ids : truth[i] \in {"G", "H"} /\ old[i] \in {"G", "H"} /\ new[i] \in {"G", "H"}
  BY DEF Labels
<1>2. pair = [categories |-> [BOTH_CORRECT |-> h \cap c, BASELINE_ONLY_CORRECT |-> h \ c,
                              CANDIDATE_ONLY_CORRECT |-> c \ h, BOTH_WRONG |-> ids \ (h \cup c)],
              fnFixed  |-> Hits(truth, old, "H", "G") \cap c,
              fpFixed  |-> Hits(truth, old, "G", "H") \cap c,
              fnBroken |-> Hits(truth, new, "H", "G") \cap h,
              fpBroken |-> Hits(truth, new, "G", "H") \cap h,
              fn |-> Hits(truth, new, "H", "G"), fp |-> Hits(truth, new, "G", "H"),
              mcnemar |-> McNemar(Cardinality(h \ c), Cardinality(c \ h))]
  BY Zenon DEF Compare, RightIn
<1>3. h \subseteq ids /\ c \subseteq ids
  BY DEF RightIn
<1>4. /\ Hits(truth, old, "H", "G") \cup Hits(truth, old, "G", "H") = ids \ h
      /\ Hits(truth, new, "H", "G") \cup Hits(truth, new, "G", "H") = ids \ c
  BY <1>1 DEF Hits, RightIn
<1>5. /\ Wrong(truth, old) = ids \ h /\ Wrong(truth, new) = ids \ c
  BY DEF Wrong, RightIn
<1> HIDE DEF h, c
<1>6. /\ Cardinality(ids \ h) = Cardinality(c \ h) + Cardinality(ids \ (h \cup c))
      /\ Cardinality(ids \ c) = Cardinality(h \ c) + Cardinality(ids \ (h \cup c))
      /\ Cardinality(c \ h) \in Nat /\ Cardinality(h \ c) \in Nat
      /\ Cardinality(ids \ (h \cup c)) \in Nat
  <2>1. IsFiniteSet(ids \ h) /\ IsFiniteSet(ids \ c)
    BY FS_Subset
  <2>2. /\ ids \ h = (c \ h) \cup (ids \ (h \cup c)) /\ (c \ h) \cap (ids \ (h \cup c)) = {}
        /\ ids \ c = (h \ c) \cup (ids \ (h \cup c)) /\ (h \ c) \cap (ids \ (h \cup c)) = {}
    BY <1>3
  <2>3. /\ Cardinality(ids \ h) = Cardinality(c \ h) + Cardinality(ids \ (h \cup c))
        /\ Cardinality(c \ h) \in Nat /\ Cardinality(ids \ (h \cup c)) \in Nat
    BY <2>1, <2>2, Splits
  <2>4. /\ Cardinality(ids \ c) = Cardinality(h \ c) + Cardinality(ids \ (h \cup c))
        /\ Cardinality(h \ c) \in Nat
    BY <2>1, <2>2, Splits
  <2> QED
    BY <2>3, <2>4
<1>7. m.fp + m.fn = Cardinality(ids \ h) /\ n.fp + n.fn = Cardinality(ids \ c)
  <2>1. m.fp + m.fn = Cardinality(Wrong(truth, old))
    BY MatrixTheorem
  <2>2. n.fp + n.fn = Cardinality(Wrong(truth, new))
    BY MatrixTheorem
  <2> QED
    BY <1>5, <2>1, <2>2
<1>8. /\ pair.categories.BOTH_CORRECT = h \cap c /\ pair.categories.BASELINE_ONLY_CORRECT = h \ c
      /\ pair.categories.CANDIDATE_ONLY_CORRECT = c \ h
      /\ pair.categories.BOTH_WRONG = ids \ (h \cup c)
      /\ DOMAIN pair.categories = {"BOTH_CORRECT", "BASELINE_ONLY_CORRECT",
                                   "CANDIDATE_ONLY_CORRECT", "BOTH_WRONG"}
  BY <1>2
<1>9. /\ pair.fnFixed \cup pair.fpFixed = c \ h /\ pair.fnBroken \cup pair.fpBroken = h \ c
      /\ pair.fn \cup pair.fp = ids \ c
  BY <1>2, <1>3, <1>4
<1>10. \A x, y \in DOMAIN pair.categories :
         x # y => pair.categories[x] \cap pair.categories[y] = {}
  BY <1>8
<1> QED
  BY <1>3, <1>6, <1>7, <1>8, <1>9, <1>10

-----------------------------------------------------------------------------
(* Thresholds *)

\* A threshold's row tells what HHEM would be measured at with it, and a higher threshold misses
\* no hallucination more and lets pass no grounded answer that it has not before
\* (thresholds.py and hhem.py).
THEOREM ThresholdTheorem ==
  ASSUME NEW ids, IsFiniteSet(ids), NEW truth \in [ids -> Labels], NEW supports \in [ids -> Int],
         NEW t \in Int, NEW u \in Int, t <= u
  PROVE  /\ ThresholdRow(supports, truth, t)
              = Metrics(Confusion(truth, [i \in ids |-> Decides(supports[i], t)]))
         /\ Leq(ThresholdRow(supports, truth, t).recall, ThresholdRow(supports, truth, u).recall)
         /\ Leq(ThresholdRow(supports, truth, t).false_positive_rate,
                ThresholdRow(supports, truth, u).false_positive_rate)
<1> DEFINE said(v) == [i \in ids |-> Decides(supports[i], v)]
           m == Confusion(truth, said(t))
           n == Confusion(truth, said(u))
<1>1. ASSUME NEW v \in Int
      PROVE  /\ ThresholdRow(supports, truth, v) = Metrics(Confusion(truth, said(v)))
             /\ said(v) \in [ids -> Labels]
  <2>1. \A i \in ids : (IF Below(supports[i], v) THEN "H" ELSE "G") = Decides(supports[i], v)
    BY DEF Below, Decides
  <2>2. [i \in DOMAIN truth |-> IF Below(supports[i], v) THEN "H" ELSE "G"] = said(v)
    BY <2>1
  <2>3. said(v) \in [ids -> Labels]
    BY DEF Decides, Labels
  <2> QED
    BY <2>2, <2>3, Zenon DEF ThresholdRow
<1>2. /\ m.tp \in Nat /\ m.fn \in Nat /\ m.fp \in Nat /\ m.tn \in Nat
      /\ m.tp + m.fn = Cardinality(OfLabel(truth, "H"))
      /\ m.tn + m.fp = Cardinality(OfLabel(truth, "G"))
  BY <1>1, MatrixTheorem
<1>3. /\ n.tp \in Nat /\ n.fn \in Nat /\ n.fp \in Nat /\ n.tn \in Nat
      /\ n.tp + n.fn = Cardinality(OfLabel(truth, "H"))
      /\ n.tn + n.fp = Cardinality(OfLabel(truth, "G"))
  BY <1>1, MatrixTheorem
<1>4. m.tp <= n.tp /\ m.fp <= n.fp
  <2>1. ASSUME NEW actual \in Labels
        PROVE  Cardinality(Hits(truth, said(t), actual, "H"))
                 <= Cardinality(Hits(truth, said(u), actual, "H"))
    <3>1. Hits(truth, said(t), actual, "H") \subseteq Hits(truth, said(u), actual, "H")
      BY DEF Hits, Decides
    <3>2. Hits(truth, said(u), actual, "H") \in SUBSET ids
      BY DEF Hits
    <3>3. IsFiniteSet(Hits(truth, said(u), actual, "H"))
      BY <3>2, FS_Subset
    <3> QED
      BY <3>1, <3>3, FS_Subset
  <2> QED
    BY <2>1 DEF Confusion, Labels
<1> HIDE DEF m, n
<1>5. /\ Metrics(m).recall = Ratio(m.tp, m.tp + m.fn)
      /\ Metrics(m).false_positive_rate = Ratio(m.fp, m.fp + m.tn)
      /\ Metrics(n).recall = Ratio(n.tp, n.tp + n.fn)
      /\ Metrics(n).false_positive_rate = Ratio(n.fp, n.fp + n.tn)
  BY DEF Metrics
<1>6. ASSUME NEW a \in Nat, NEW b \in Nat, NEW d \in Nat, a <= b
      PROVE  Leq(Ratio(a, d), Ratio(b, d))
  BY <1>6 DEF Leq, Ratio
<1>7. /\ Leq(Metrics(m).recall, Metrics(n).recall)
      /\ Leq(Metrics(m).false_positive_rate, Metrics(n).false_positive_rate)
  BY <1>2, <1>3, <1>4, <1>5, <1>6
<1> QED
  BY <1>1, <1>7 DEF m, n

-----------------------------------------------------------------------------
(* The heuristic *)

\* For any words and any threshold up to one: more context never turns a grounded answer into a
\* hallucinated one, nor does a lower threshold, and an answer whose words are all in its context
\* is grounded (heuristic.py).
THEOREM HeuristicTheorem ==
  ASSUME NEW q, IsFiniteSet(q.response), NEW n \in Nat, NEW d \in Nat, n <= d, d > 0,
         q.threshold = <<n, d>>
  PROVE  HeuristicHolds(q, HeuristicLabel(q.response, q.context, q.threshold))
<1> DEFINE R == q.response
           C == q.context
           D == q.context \cup {q.more}
           r == Cardinality(R)
           k == Cardinality(R \cap C)
           l == Cardinality(R \cap D)
<1>1. r \in Nat /\ k \in Nat /\ l \in Nat /\ k <= l /\ l <= r /\ (R # {} => r > 0)
      /\ (R \subseteq C => k = r) /\ (C = {} => k = 0)
  <2>1. R \cap D \in SUBSET R
    OBVIOUS
  <2>2. IsFiniteSet(R \cap D) /\ l <= r
    BY <2>1, FS_Subset
  <2>3. R \cap C \in SUBSET (R \cap D)
    OBVIOUS
  <2>4. IsFiniteSet(R \cap C) /\ k <= l
    BY <2>2, <2>3, FS_Subset
  <2>5. R \subseteq C => k = r
    <3>1. R \subseteq C => R \cap C = R
      OBVIOUS
    <3> QED
      BY <3>1
  <2>6. C = {} => k = 0
    <3>1. C = {} => R \cap C = {}
      OBVIOUS
    <3> QED
      BY <3>1, FS_EmptySet
  <2>7. r \in Nat /\ k \in Nat /\ l \in Nat
    BY <2>2, <2>4, FS_CardinalityType
  <2>8. R # {} => r > 0
    <3>1. r = 0 => R = {}
      BY FS_EmptySet
    <3> QED
      BY <2>7, <3>1
  <2> HIDE DEF R, C, D, r, k, l
  <2> QED
    BY <2>2, <2>4, <2>5, <2>6, <2>7, <2>8
<1>2. /\ R = {} => Overlap(R, C) = <<1, 1>> /\ Overlap(R, D) = <<1, 1>>
      /\ R # {} => Overlap(R, D) = <<l, r>>
      /\ R # {} /\ C # {} => Overlap(R, C) = <<k, r>>
      /\ R # {} /\ C = {} => Overlap(R, C) = <<0, 1>>
  BY DEF Overlap
<1> HIDE DEF R, C, D, r, k, l
<1>3. CASE R = {}
  <2>1. Leq(q.threshold, <<1, 1>>)
    BY DEF Leq
  <2> QED
    BY <1>2, <1>3, <2>1 DEF HeuristicHolds, HeuristicLabel, R, C, D
<1>4. CASE R # {} /\ C # {}
  <2>1. n * r <= k * d => n * r <= l * d
    <3>1. k * d <= l * d
      BY <1>1
    <3> QED
      BY <1>1, <3>1
  <2>2. 1 * r <= k * 1 => n * r <= k * d
    <3>1. ASSUME r <= k
          PROVE  n * r <= k * d
      <4>1. n * r <= r * d
        BY <1>1
      <4>2. k = r
        BY <3>1, <1>1
      <4> QED
        BY <4>1, <4>2
    <3> QED
      BY <3>1, <1>1
  <2>3. R \subseteq C => n * r <= k * d
    BY <2>2, <1>1
  <2>4. /\ Leq(q.threshold, Overlap(R, C)) => Leq(q.threshold, Overlap(R, D))
        /\ Leq(<<1, 1>>, Overlap(R, C)) => Leq(q.threshold, Overlap(R, C))
        /\ R \subseteq C => Leq(q.threshold, Overlap(R, C))
    BY <1>2, <1>4, <2>1, <2>2, <2>3 DEF Leq
  <2> QED
    BY <2>4 DEF HeuristicHolds, HeuristicLabel, R, C, D
<1>5. CASE R # {} /\ C = {}
  <2>1. n * 1 <= 0 * d => n * r <= l * d
    <3>1. ASSUME n = 0
          PROVE  n * r <= l * d
      <4>1. n * r = 0 /\ l * d >= 0
        BY <3>1, <1>1
      <4> QED
        BY <4>1
    <3> QED
      BY <3>1
  <2>2. ~ (R \subseteq C)
    BY <1>5
  <2>3. ~ Leq(<<1, 1>>, Overlap(R, C))
    BY <1>2, <1>5 DEF Leq
  <2>4. Leq(q.threshold, Overlap(R, C)) => Leq(q.threshold, Overlap(R, D))
    BY <1>2, <1>5, <2>1 DEF Leq
  <2> QED
    BY <2>2, <2>3, <2>4 DEF HeuristicHolds, HeuristicLabel, R, C, D
<1> QED
  BY <1>3, <1>4, <1>5

-----------------------------------------------------------------------------
(* Readiness and failures *)

\* Somebody is ready just when one of the selected providers answered and parsed, and two of
\* one family are no second opinion, whoever was selected (run_phase5a_pilot.py).
THEOREM ReadinessTheorem ==
  ASSUME NEW q, IsFiniteSet(q.selected),
         \A p \in q.selected : q.results[p].api \in {0, 1} /\ q.results[p].parse \in {0, 1}
  PROVE  ReadinessHolds(q, Readiness(q.selected, q.results))
<1> DEFINE qualified == {p \in q.selected :
                          q.results[p].api > 0 /\ q.results[p].api = q.results[p].parse}
           families  == {q.results[p].family : p \in qualified}
           a         == Readiness(q.selected, q.results)
<1>1. /\ a.ready <=> qualified # {}
      /\ a.qualified = qualified /\ a.disqualified = q.selected \ qualified
      /\ a.multi <=> Cardinality(qualified) >= 2 /\ Cardinality(families) >= 2
  BY DEF Readiness
<1>2. qualified # {} <=> \E p \in q.selected : q.results[p].api = 1 /\ q.results[p].parse = 1
  OBVIOUS
<1>3. ASSUME Cardinality(families) >= 2
      PROVE  \E p, r \in qualified : q.results[p].family # q.results[r].family
  <2> SUFFICES ASSUME \A p, r \in qualified : q.results[p].family = q.results[r].family
               PROVE  FALSE
    OBVIOUS
  <2> HIDE DEF families
  <2>1. CASE qualified = {}
    <3>1. families = {}
      BY <2>1 DEF families
    <3> QED
      BY <1>3, <3>1, FS_EmptySet
  <2>2. CASE qualified # {}
    <3>1. PICK p \in qualified : TRUE
      BY <2>2
    <3>2. families = {q.results[p].family}
      BY <3>1 DEF families
    <3>3. Cardinality({q.results[p].family}) = 1
      BY FS_Singleton, Zenon
    <3> QED
      BY <1>3, <3>2, <3>3
  <2> QED
    BY <2>1, <2>2
<1>4. qualified \cup (q.selected \ qualified) = q.selected
  OBVIOUS
<1> HIDE DEF qualified, families, a
<1>5. ReadinessHolds(q, a)
  BY <1>1, <1>2, <1>3, <1>4 DEF ReadinessHolds
<1> QED
  BY <1>5 DEF a

\* The breakdown of the persisted failures has every failure in one category, whatever the
\* outcomes of however many examples (run_phase5b_failure_forensics.py).
THEOREM FailuresTheorem ==
  ASSUME NEW q
  PROVE  FailuresAddUp(q, FailureBreakdown(q.outcomes, q.length))
<1> DEFINE failing     == DOMAIN q.outcomes \ Predicting(q.outcomes)
           category(i) == FailureCategory(q.outcomes[i], q.length[i])
           a           == FailureBreakdown(q.outcomes, q.length)
<1> SUFFICES ASSUME a # ValueError
             PROVE  /\ UNION {a[c] : c \in DOMAIN a} = failing
                    /\ \A c, d \in DOMAIN a : c # d => a[c] \cap a[d] = {}
  BY Zenon DEF FailuresAddUp
<1>1. a = [c \in {category(i) : i \in failing} |-> {i \in failing : category(i) = c}]
  BY Zenon DEF FailureBreakdown
<1> HIDE DEF a, category, failing
<1> QED
  BY <1>1

-----------------------------------------------------------------------------
(* Recommendations *)

\* A provider is complete just where it was asked something and predicted whatever it was asked,
\* and no complete provider has a better balanced accuracy than the recommended one, however many
\* providers and examples there are (analysis.py).
THEOREM CompletesTheorem ==
  ASSUME NEW records, IsFiniteSet(DOMAIN records), NEW truth
  PROVE  Completes(Summarize(records, truth))
           <=> Asked(records) # {} /\ Asked(records) = Predicting(records)
<1> DEFINE asked == Asked(records)
           evaluated == Predicting(records)
           heard == {i \in asked : records[i] # "API"}
           s == Summarize(records, truth)
           a == Cardinality(asked)
           e == Cardinality(evaluated)
           h == Cardinality(heard)
<1>1. /\ s.missing = a - e /\ s.api = Ratio(h, a) /\ s.parse = Ratio(e, a)
  BY DEF Summarize, SummaryOf
<1>2. evaluated \subseteq heard /\ heard \subseteq asked /\ asked \subseteq DOMAIN records
  BY DEF Asked, Predicting, Labels
<1> HIDE DEF asked, evaluated, heard, s
<1>3. IsFiniteSet(asked) /\ IsFiniteSet(heard) /\ IsFiniteSet(evaluated)
  BY <1>2, FS_Subset
<1>4. a \in Nat /\ e \in Nat /\ h \in Nat /\ e <= h /\ h <= a /\ (e = a => evaluated = asked)
  <2>1. a \in Nat /\ e \in Nat /\ h \in Nat
    BY <1>3, FS_CardinalityType
  <2>2. e <= h /\ h <= a
    BY <1>2, <1>3, FS_Subset
  <2>3. e = a => evaluated = asked
    <3>1. evaluated \in SUBSET asked
      BY <1>2
    <3> QED
      BY <1>3, <3>1, FS_Subset
  <2> QED
    BY <2>1, <2>2, <2>3
<1>5. a = 0 <=> asked = {}
  BY <1>3, FS_EmptySet
<1>6. evaluated = asked => e = a
  OBVIOUS
<1> HIDE DEF a, e, h
<1>7. CASE a = 0
  BY <1>1, <1>5, <1>7 DEF Completes, Equal, Ratio, asked, s
<1>8. CASE a # 0
  <2>1. Equal(s.api, <<1, 1>>) <=> h = a
    BY <1>1, <1>4, <1>8 DEF Equal, Ratio
  <2>2. Equal(s.parse, <<1, 1>>) <=> e = a
    BY <1>1, <1>4, <1>8 DEF Equal, Ratio
  <2>3. s.missing = 0 <=> e = a
    BY <1>1, <1>4
  <2>4. e = a => h = a
    BY <1>4
  <2>5. Completes(s) <=> e = a
    BY <2>1, <2>2, <2>3, <2>4 DEF Completes
  <2> QED
    BY <1>4, <1>5, <1>6, <1>8, <2>5 DEF s, asked, evaluated
<1> QED
  BY <1>7, <1>8

\* Who is recommended is complete, and among the complete nobody's balanced accuracy is better,
\* whatever the fractions and the costs (recommend_phase5b_judge).
THEOREM RecommendationTheorem ==
  ASSUME NEW summaries, NEW cost,
         \A p \in DOMAIN summaries : summaries[p].metrics.balanced_accuracy \in Int \X Int,
         NEW chosen \in Recommend(summaries, cost),
         NEW p \in DOMAIN summaries, Completes(summaries[p])
  PROVE  /\ chosen \in DOMAIN summaries /\ Completes(summaries[chosen])
         /\ Leq(summaries[p].metrics.balanced_accuracy,
                summaries[chosen].metrics.balanced_accuracy)
<1> DEFINE key(x) == Key(summaries[x], cost[x])
           of(x) == summaries[x].metrics.balanced_accuracy
<1>1. /\ chosen \in DOMAIN summaries /\ Completes(summaries[chosen])
      /\ p # chosen => Precedes(key(chosen), key(p)) \/ ~Precedes(key(p), key(chosen))
  BY DEF Recommend
<1>2. of(p) \in Int \X Int /\ of(chosen) \in Int \X Int
  BY <1>1
<1>3. ASSUME NEW x \in {p, chosen}
      PROVE  key(x)[1] = <<-of(x)[1], of(x)[2]>> /\ DOMAIN key(x) = 1..4
  BY DEF Key
<1>4. CASE p = chosen
  <2>1. of(p)[1] * of(p)[2] \in Int
    BY <1>2
  <2> HIDE DEF of
  <2>2. Leq(of(p), of(p))
    BY <2>1 DEF Leq
  <2> QED
    BY <1>1, <1>4, <2>2 DEF of
<1>5. CASE p # chosen
  <2>1. Leq(key(chosen)[1], key(p)[1])
    <3> HIDE DEF key, of
    <3>1. CASE Precedes(key(chosen), key(p))
      <4>1. PICK k \in 1..4 : /\ Leq(key(chosen)[k], key(p)[k])
                              /\ \A j \in 1..(k - 1) : Equal(key(chosen)[j], key(p)[j])
        BY <1>3, <3>1 DEF Precedes
      <4>2. CASE k = 1
        BY <4>1, <4>2
      <4>3. CASE k # 1
        <5>1. 1 \in 1..(k - 1)
          BY <4>3
        <5>2. Equal(key(chosen)[1], key(p)[1])
          BY <4>1, <5>1
        <5> QED
          BY <1>2, <1>3, <5>2 DEF Equal, Leq
      <4> QED
        BY <4>2, <4>3
    <3>2. CASE ~Precedes(key(p), key(chosen))
      <4>1. 1 \in DOMAIN key(p) /\ \A j \in 1..(1 - 1) : Equal(key(p)[j], key(chosen)[j])
        BY <1>3
      <4>2. ~(Leq(key(p)[1], key(chosen)[1]) /\ ~Equal(key(p)[1], key(chosen)[1]))
        BY <3>2, <4>1 DEF Precedes
      <4> QED
        BY <1>2, <1>3, <4>2 DEF Equal, Leq
    <3> QED
      BY <1>1, <1>5, <3>1, <3>2
  <2> HIDE DEF key, of
  <2>2. Leq(of(p), of(chosen))
    BY <1>2, <1>3, <2>1 DEF Leq
  <2> QED
    BY <1>1, <2>2 DEF of
<1> QED
  BY <1>4, <1>5

-----------------------------------------------------------------------------
(* The gates of a regression *)

Finites(metrics) == \A name \in DOMAIN metrics : metrics[name] \in Int \X Nat

\* A bound or none; and what may be lost is not negative.
RuleSet(rules) ==
  \A rule \in rules :
    /\ rule.direction \in {"HIGHER_IS_BETTER", "LOWER_IS_BETTER"}
    /\ rule.bound \in {<<>>} \cup (Int \X (Nat \ {0}))
    /\ rule.allowed \in Nat \X (Nat \ {0})

LEMMA Products ==
  ASSUME NEW a \in Int, NEW b \in Int, NEW s \in Nat \ {0}, a * s < b * s
  PROVE  a < b
<1>1. ASSUME b <= a
      PROVE  b * s <= a * s
  BY <1>1
<1> QED
  BY <1>1

\* A rule's two guards, as what is lost.
LEMMA LossOfRule ==
  ASSUME NEW rule, rule.direction \in {"HIGHER_IS_BETTER", "LOWER_IS_BETTER"},
         rule.allowed \in Nat \X (Nat \ {0}), rule.bound \in {<<>>} \cup (Int \X (Nat \ {0})),
         NEW new \in Int \X Nat, NEW old \in Int \X Nat
  PROVE  /\ ~Regressed(new, old, rule) => Leq(Loss(new, old, rule), rule.allowed)
         /\ ~OutOfBound(new, rule) /\ rule.bound # <<>>
              => Leq(Loss(new, rule.bound, rule), <<0, 1>>)
         /\ ~Regressed(new, old, rule) /\ rule.allowed[1] = 0
              => IF rule.direction = "HIGHER_IS_BETTER" THEN Leq(old, new) ELSE Leq(new, old)
<1>1. ASSUME NEW x \in Int \X Nat, NEW y \in Int \X Nat, NEW z \in Nat \X (Nat \ {0})
      PROVE  /\ Leq(y, Plus(x, z)) => Leq(Plus(y, <<-x[1], x[2]>>), z)
             /\ Leq(y, x) => Leq(Plus(y, <<-x[1], x[2]>>), <<0, 1>>)
             /\ Leq(y, Plus(x, z)) /\ z[1] = 0 => Leq(y, x)
  <2> DEFINE a == x[1]
             b == x[2]
             c == y[1]
             d == y[2]
             e == z[1]
             f == z[2]
             sum == <<a * f + e * b, b * f>>
             gap == <<c * b + -a * d, d * b>>
  <2>1. a \in Int /\ b \in Nat /\ c \in Int /\ d \in Nat /\ e \in Nat /\ f \in Nat \ {0}
    OBVIOUS
  <2>2. Plus(x, z) = sum /\ Plus(y, <<-x[1], x[2]>>) = gap
    BY DEF Plus
  <2>3. /\ Leq(y, x) <=> c * b <= a * d
        /\ Leq(y, sum) <=> c * sum[2] <= sum[1] * d
        /\ Leq(gap, z) <=> gap[1] * f <= e * gap[2]
        /\ Leq(gap, <<0, 1>>) <=> gap[1] * 1 <= 0 * gap[2]
    BY Zenon DEF Leq
  <2>4. sum[1] = a * f + e * b /\ sum[2] = b * f /\ gap[1] = c * b + -a * d /\ gap[2] = d * b
    OBVIOUS
  <2>5. e = z[1]
    OBVIOUS
  <2> HIDE DEF a, b, c, d, e, f, sum, gap
  <2>6. (c * b + -a * d) * f = c * (b * f) - (a * f) * d
    BY <2>1
  <2>7. e * (d * b) = (e * b) * d /\ (a * f + e * b) * d = (a * f) * d + (e * b) * d
    BY <2>1
  <2>8. c * (b * f) = (c * b) * f /\ (a * f) * d = (a * d) * f
    BY <2>1
  <2>9. ASSUME (c * b) * f <= (a * d) * f
        PROVE  c * b <= a * d
    <3>1. c * b \in Int /\ a * d \in Int
      BY <2>1
    <3> QED
      BY <2>1, <2>9, <3>1, Products
  <2>10. (c * b + -a * d) * 1 = c * b - a * d /\ 0 * (d * b) = 0
    BY <2>1
  <2>11. /\ c * b \in Int /\ a * d \in Int /\ (c * b) * f \in Int /\ (a * d) * f \in Int
         /\ (e * b) * d \in Int
    BY <2>1
  <2>12. /\ Leq(y, x) <=> c * b <= a * d
         /\ Leq(y, sum) <=> (c * b) * f <= (a * d) * f + (e * b) * d
         /\ Leq(gap, z) <=> (c * b) * f - (a * d) * f <= (e * b) * d
         /\ Leq(gap, <<0, 1>>) <=> c * b - a * d <= 0
    BY <2>3, <2>4, <2>6, <2>7, <2>8, <2>10
  <2>13. e = 0 => (e * b) * d = 0
    BY <2>1
  <2>14. /\ Leq(y, sum) => Leq(gap, z)
         /\ Leq(y, x) => Leq(gap, <<0, 1>>)
         /\ Leq(y, sum) /\ e = 0 => Leq(y, x)
    <3> DEFINE s == c * b
               t == a * d
               u == (c * b) * f
               v == (a * d) * f
               w == (e * b) * d
    <3>1. s \in Int /\ t \in Int /\ u \in Int /\ v \in Int /\ w \in Int
      BY <2>11
    <3>2. (u <= v => s <= t) /\ (e = 0 => w = 0)
      BY <2>9, <2>13
    <3>3. /\ Leq(y, x) <=> s <= t
          /\ Leq(y, sum) <=> u <= v + w
          /\ Leq(gap, z) <=> u - v <= w
          /\ Leq(gap, <<0, 1>>) <=> s - t <= 0
      BY <2>12
    <3> HIDE DEF s, t, u, v, w
    <3> QED
      BY <3>1, <3>2, <3>3
  <2> QED
    BY <2>2, <2>5, <2>14
<1>2. /\ rule.direction = "HIGHER_IS_BETTER" =>
            /\ ~Regressed(new, old, rule) <=> Leq(old, Plus(new, rule.allowed))
            /\ ~OutOfBound(new, rule) /\ rule.bound # <<>> => Leq(rule.bound, new)
            /\ \A x : Loss(new, x, rule) = Plus(x, <<-new[1], new[2]>>)
      /\ rule.direction # "HIGHER_IS_BETTER" =>
            /\ ~Regressed(new, old, rule) <=> Leq(new, Plus(old, rule.allowed))
            /\ ~OutOfBound(new, rule) /\ rule.bound # <<>> => Leq(new, rule.bound)
            /\ \A x : Loss(new, x, rule) = Plus(new, <<-x[1], x[2]>>)
  BY ZenonT(60) DEF Regressed, OutOfBound, Given, Loss
<1>3. rule.bound # <<>> => rule.bound \in Int \X Nat
  OBVIOUS
<1> QED
  BY <1>1, <1>2, <1>3

LEMMA PassedRule ==
  ASSUME NEW q, NEW rule \in q.rules, RegressionCompare(q.candidate, q.baseline, q.rules).exit = 0
  PROVE  /\ q.rules # {}
         /\ Present(q.candidate, rule) /\ Finite(q.candidate[rule.name])
         /\ Present(q.baseline, rule) /\ Finite(q.baseline[rule.name])
         /\ ~OutOfBound(q.candidate[rule.name], rule)
         /\ ~Regressed(q.candidate[rule.name], q.baseline[rule.name], rule)
<1> DEFINE compared == CompareMetrics(q.candidate, q.baseline, q.rules)
<1>1. compared # ValueError /\ compared.passed
  BY DEF RegressionCompare, Exit
<1>2. /\ q.rules # {}
      /\ ~ \E r \in q.rules : \E metrics \in {q.candidate, q.baseline} :
             Present(metrics, r) /\ ~Finite(metrics[r.name])
  BY <1>1, Zenon DEF CompareMetrics
<1>3. compared.passed = \A r \in q.rules : CompareOne(q.candidate, q.baseline, r) = "PASS"
  BY <1>2 DEF CompareMetrics
<1>4. CompareOne(q.candidate, q.baseline, rule) = "PASS"
  BY <1>1, <1>3
<1>5. /\ Present(q.candidate, rule) /\ ~OutOfBound(q.candidate[rule.name], rule)
      /\ Present(q.baseline, rule)
      /\ ~Regressed(q.candidate[rule.name], q.baseline[rule.name], rule)
  BY <1>4 DEF CompareOne
<1> QED
  BY <1>2, <1>5

\* The exit code is 0 only where every rule has its two finite values and neither its bound nor
\* what it allows is overrun, for any names, any numbers and any rules; and where nothing may be
\* lost, two files that pass against each other are the same to them (comparison.py, cli.py).
THEOREM GateTheorem ==
  ASSUME NEW q, Finites(q.candidate), Finites(q.baseline), RuleSet(q.rules)
  PROVE  ComparesClosed(q, AnswerRegression(q))
<1> SUFFICES ASSUME RegressionCompare(q.candidate, q.baseline, q.rules).exit = 0
             PROVE  ComparesClosed(q, AnswerRegression(q))
  BY DEF ComparesClosed, AnswerRegression
<1>1. q.rules # {}
  <2>1. CompareMetrics(q.candidate, q.baseline, q.rules) # ValueError
    BY DEF RegressionCompare, Exit
  <2> QED
    BY <2>1 DEF CompareMetrics
<1>2. ASSUME NEW rule \in q.rules
      PROVE  LET new == q.candidate[rule.name]
                 old == q.baseline[rule.name]
             IN  /\ rule.name \in DOMAIN q.candidate \cap DOMAIN q.baseline
                 /\ new[2] # 0 /\ old[2] # 0
                 /\ Leq(Loss(new, old, rule), rule.allowed)
                 /\ rule.bound # <<>> => Leq(Loss(new, rule.bound, rule), <<0, 1>>)
                 /\ (RegressionCompare(q.baseline, q.candidate, q.rules).exit = 0
                       /\ Equal(rule.allowed, <<0, 1>>)) => Equal(new, old)
  <2> DEFINE new == q.candidate[rule.name]
             old == q.baseline[rule.name]
  <2>1. /\ rule.name \in DOMAIN q.candidate /\ rule.name \in DOMAIN q.baseline
        /\ new[2] # 0 /\ old[2] # 0
        /\ ~OutOfBound(new, rule) /\ ~Regressed(new, old, rule)
    BY PassedRule, Zenon DEF Present, Finite
  <2>2. new \in Int \X Nat /\ old \in Int \X Nat
    BY <2>1 DEF Finites
  <2>3. /\ rule.direction \in {"HIGHER_IS_BETTER", "LOWER_IS_BETTER"}
        /\ rule.allowed \in Nat \X (Nat \ {0})
        /\ rule.bound \in {<<>>} \cup (Int \X (Nat \ {0}))
    BY DEF RuleSet
  <2>4. /\ Leq(Loss(new, old, rule), rule.allowed)
        /\ rule.bound # <<>> => Leq(Loss(new, rule.bound, rule), <<0, 1>>)
    BY <2>1, <2>2, <2>3, LossOfRule
  <2>5. ASSUME RegressionCompare(q.baseline, q.candidate, q.rules).exit = 0,
               Equal(rule.allowed, <<0, 1>>)
        PROVE  Equal(new, old)
    <3> DEFINE back == [candidate |-> q.baseline, baseline |-> q.candidate, rules |-> q.rules]
    <3>1. ~Regressed(old, new, rule)
      <4>1. /\ back.candidate = q.baseline /\ back.baseline = q.candidate /\ back.rules = q.rules
        OBVIOUS
      <4> HIDE DEF back
      <4>2. /\ rule \in back.rules
            /\ RegressionCompare(back.candidate, back.baseline, back.rules).exit = 0
        BY <2>5, <4>1
      <4>3. ~Regressed(back.candidate[rule.name], back.baseline[rule.name], rule)
        BY <4>2, PassedRule, Zenon
      <4> QED
        BY <4>1, <4>3
    <3>2. rule.allowed[1] = 0
      BY <2>3, <2>5 DEF Equal
    <3>3. Leq(new, old) /\ Leq(old, new)
      BY <2>1, <2>2, <2>3, <3>1, <3>2, LossOfRule
    <3>4. new[1] * old[2] \in Int /\ old[1] * new[2] \in Int
      BY <2>2
    <3> QED
      BY <3>3, <3>4 DEF Leq, Equal
  <2> HIDE DEF new, old
  <2> QED
    BY <2>1, <2>4, <2>5 DEF new, old
<1> QED
  BY <1>1, <1>2 DEF ComparesClosed

-----------------------------------------------------------------------------
(* Retrieval *)

LEMMA SmallerOf ==
  ASSUME NEW a \in Int, NEW b \in Int
  PROVE  Min({a, b}) = IF a <= b THEN a ELSE b
<1> DEFINE least == IF a <= b THEN a ELSE b
<1>1. least \in {a, b} /\ \A y \in {a, b} : least <= y
  OBVIOUS
<1>2. \A x \in {a, b} : (\A y \in {a, b} : x <= y) => x = least
  OBVIOUS
<1> QED
  BY <1>1, <1>2 DEF Min

LEMMA CutIsPart ==
  ASSUME NEW D, NEW retrieved \in Seq(D), NEW k \in Nat
  PROVE  /\ Range(Cut(retrieved, k)) = {retrieved[r] : r \in {r \in DOMAIN retrieved : r <= k}}
         /\ IsFiniteSet(Range(Cut(retrieved, k)))
         /\ Cardinality(Range(Cut(retrieved, k))) <= k
<1> DEFINE n == IF k <= Len(retrieved) THEN k ELSE Len(retrieved)
           f == [r \in 1..n |-> retrieved[r]]
           T == {retrieved[r] : r \in {r \in DOMAIN retrieved : r <= k}}
<1>1. Cut(retrieved, k) = SubSeq(retrieved, 1, n)
  BY SmallerOf DEF Cut
<1>2. n \in Nat /\ n <= k /\ 1..n = {r \in DOMAIN retrieved : r <= k}
  OBVIOUS
<1>3. SubSeq(retrieved, 1, n) = f
  BY <1>2
<1>4. Range(f) = T
  BY <1>2 DEF Range
<1>5. f \in Surjection(1..n, T)
  BY <1>2 DEF Surjection
<1>6. IsFiniteSet(1..n) /\ Cardinality(1..n) = n
  BY <1>2, FS_Interval
<1> HIDE DEF f, T
<1>7. IsFiniteSet(T) /\ Cardinality(T) <= n
  BY <1>5, <1>6, FS_Surjection
<1>8. Cardinality(T) \in Nat
  BY <1>7, FS_CardinalityType
<1> HIDE DEF n
<1>9. Range(Cut(retrieved, k)) = T
  BY <1>1, <1>3, <1>4
<1>10. IsFiniteSet(T) /\ Cardinality(T) <= k
  BY <1>2, <1>7, <1>8
<1> QED
  BY <1>9, <1>10 DEF T

\* Whatever is listed and retrieved: a query passes just where a relevant document is in the cut,
\* which each metric with a cut tells with a positive value; none of them exceeds one; and a
\* longer cut costs neither recall nor a hit (metrics.py).
THEOREM CategoryTheorem ==
  ASSUME NEW listed, IsFiniteSet(DOMAIN listed), NEW D, NEW retrieved \in Seq(D),
         NEW k \in Nat \ {0}, NEW l \in Nat, k <= l,
         NEW m, m = QueryMetrics(listed, retrieved, k)
  PROVE  /\ Classify(listed, retrieved, k) = "PASS" <=> m.precision[1] > 0
         /\ Classify(listed, retrieved, k) = "PASS" <=> m.recall[1] > 0
         /\ Classify(listed, retrieved, k) = "PASS" <=> m.hit_rate[1] > 0
         /\ Leq(m.precision, <<1, 1>>) /\ Leq(m.recall, <<1, 1>>) /\ Leq(m.hit_rate, <<1, 1>>)
         /\ Leq(m.recall, RecallAt(listed, retrieved, l))
         /\ Leq(m.hit_rate, HitAt(listed, retrieved, l))
<1> DEFINE F == Found(listed, retrieved, k)
           G == Found(listed, retrieved, l)
           R == Relevant(listed)
<1>1. IsFiniteSet(R) /\ R \subseteq DOMAIN listed
  <2>1. R \in SUBSET DOMAIN listed
    BY DEF Relevant
  <2> QED
    BY <2>1, FS_Subset
<1>2. F \subseteq G /\ G \subseteq R
  <2>1. Range(Cut(retrieved, k)) \subseteq Range(Cut(retrieved, l))
    BY CutIsPart
  <2> QED
    BY <2>1 DEF Found
<1>3. IsFiniteSet(F) /\ IsFiniteSet(G)
  BY <1>1, <1>2, FS_Subset
<1>4. Cardinality(F) <= k
  <2>1. F \in SUBSET Range(Cut(retrieved, k))
    BY DEF Found
  <2>2. IsFiniteSet(Range(Cut(retrieved, k))) /\ Cardinality(Range(Cut(retrieved, k))) <= k
    BY CutIsPart
  <2>3. Cardinality(F) <= Cardinality(Range(Cut(retrieved, k)))
    BY <2>1, <2>2, FS_Subset
  <2>4. Cardinality(F) \in Nat /\ Cardinality(Range(Cut(retrieved, k))) \in Nat
    BY <1>3, <2>2, FS_CardinalityType
  <2> QED
    BY <2>2, <2>3, <2>4
<1> DEFINE f == Cardinality(F)
           g == Cardinality(G)
           r == Cardinality(R)
<1>5. f \in Nat /\ g \in Nat /\ r \in Nat
  BY <1>1, <1>3, FS_CardinalityType
<1>6. f <= g /\ g <= r
  BY <1>1, <1>2, <1>3, FS_Subset
<1>7. F # {} <=> f > 0
  <2>1. f = 0 <=> F = {}
    BY <1>3, FS_EmptySet
  <2> QED
    BY <1>5, <2>1
<1>8. G = {} => F = {}
  BY <1>2
<1>9. /\ m.precision = <<f, k>> /\ m.recall = Ratio(f, r)
      /\ m.hit_rate = (IF F # {} THEN <<1, 1>> ELSE <<0, 1>>)
      /\ RecallAt(listed, retrieved, l) = Ratio(g, r)
      /\ HitAt(listed, retrieved, l) = (IF G # {} THEN <<1, 1>> ELSE <<0, 1>>)
      /\ HitAt(listed, retrieved, k) = (IF F # {} THEN <<1, 1>> ELSE <<0, 1>>)
  BY DEF QueryMetrics, PrecisionAt, RecallAt, HitAt
<1>10. Classify(listed, retrieved, k) = "PASS" <=> F # {}
  <2>1. F # {} => DOMAIN listed # {}
    BY <1>1, <1>2
  <2> HIDE DEF F
  <2>2. CASE DOMAIN listed = {}
    BY <2>1, <2>2 DEF Classify
  <2>3. CASE DOMAIN listed # {}
    BY <1>9, <2>3 DEF Classify
  <2> QED
    BY <2>2, <2>3
<1> HIDE DEF F, G, R, f, g, r
<1>11. ASSUME NEW x \in Nat, NEW y \in Nat, NEW z \in Nat, x <= y, y <= z
       PROVE  /\ Leq(Ratio(x, z), <<1, 1>>) /\ Leq(Ratio(x, z), Ratio(y, z))
              /\ Ratio(x, z)[1] > 0 <=> x > 0
  <2>1. CASE z = 0
    BY <1>11, <2>1 DEF Leq, Ratio
  <2>2. CASE z # 0
    <3>1. x * z <= y * z
      BY <1>11
    <3> QED
      BY <1>11, <2>2, <3>1 DEF Leq, Ratio
  <2> QED
    BY <2>1, <2>2
<1>12. Leq(m.recall, <<1, 1>>) /\ Leq(m.recall, Ratio(g, r)) /\ (m.recall[1] > 0 <=> f > 0)
  BY <1>5, <1>6, <1>9, <1>11
<1>13. Leq(m.precision, <<1, 1>>) /\ (m.precision[1] > 0 <=> f > 0)
  BY <1>4, <1>5, <1>9 DEF Leq, f
<1>14. /\ Leq(m.hit_rate, <<1, 1>>) /\ (m.hit_rate[1] > 0 <=> F # {})
       /\ Leq(m.hit_rate, HitAt(listed, retrieved, l))
  BY <1>8, <1>9 DEF Leq
<1> QED
  BY <1>7, <1>9, <1>10, <1>12, <1>13, <1>14

\* The transitions between two runs over the same ground truth tell the failures of either run,
\* and a query without any listed document fails in both (runners/retrieval.py, and the
\* comparison of the workspace).
THEOREM TransitionsTheorem ==
  ASSUME NEW q, DOMAIN q.ground # {},
         NEW a, a = AnswerRuns(q)
  PROVE  /\ a.old.failures = {i \in DOMAIN q.ground :
              a.transitions[i] \in {"IMPROVED", "PERSISTENT_FAILURE", "CHANGED_FAILURE"}}
         /\ a.new.failures = {i \in DOMAIN q.ground :
              a.transitions[i] \in {"REGRESSED", "PERSISTENT_FAILURE", "CHANGED_FAILURE"}}
         /\ \A i \in DOMAIN q.ground :
              DOMAIN q.ground[i] = {} => a.transitions[i] = "PERSISTENT_FAILURE"
<1> DEFINE of(predictions, i) == Classify(q.ground[i], Retrieved(predictions, i), q.k)
<1>1. ASSUME NEW predictions, NEW run, run = RunRetrieval(q.ground, predictions, q.k)
      PROVE  /\ DOMAIN run.per_query = DOMAIN q.ground
             /\ \A i \in DOMAIN q.ground : run.per_query[i].category = of(predictions, i)
             /\ run.failures = {i \in DOMAIN q.ground : of(predictions, i) # "PASS"}
  <2> DEFINE result == EvaluateRetrieval(q.ground, predictions, q.k)
  <2>1. result.per_query = [i \in DOMAIN q.ground |->
           [metrics  |-> QueryMetrics(q.ground[i], Retrieved(predictions, i), q.k),
            category |-> of(predictions, i)]]
    BY DEF EvaluateRetrieval
  <2> HIDE DEF of, result
  <2>2. /\ run.per_query = result.per_query
        /\ run.failures = {i \in DOMAIN q.ground : result.per_query[i].category # "PASS"}
    BY <1>1 DEF RunRetrieval, result
  <2> QED
    BY <2>1, <2>2
<1>2. /\ a.old = RunRetrieval(q.ground, q.old, q.k) /\ a.new = RunRetrieval(q.ground, q.new, q.k)
      /\ a.transitions = Transitions(a.old.per_query, a.new.per_query)
  BY DEF AnswerRuns
<1>3. \A i \in DOMAIN q.ground : a.transitions[i] = Transition(of(q.old, i), of(q.new, i))
  <2> HIDE DEF of
  <2>1. /\ DOMAIN a.old.per_query = DOMAIN q.ground /\ DOMAIN a.new.per_query = DOMAIN q.ground
        /\ \A i \in DOMAIN q.ground : /\ a.old.per_query[i].category = of(q.old, i)
                                     /\ a.new.per_query[i].category = of(q.new, i)
    BY <1>1, <1>2
  <2> QED
    BY <1>2, <2>1 DEF Transitions
<1>4. \A i \in DOMAIN q.ground : DOMAIN q.ground[i] = {} =>
         of(q.old, i) = "SHOULD_ABSTAIN" /\ of(q.new, i) = "SHOULD_ABSTAIN"
  BY DEF Classify
<1> HIDE DEF of
<1>5. /\ a.old.failures = {i \in DOMAIN q.ground : of(q.old, i) # "PASS"}
      /\ a.new.failures = {i \in DOMAIN q.ground : of(q.new, i) # "PASS"}
  BY <1>1, <1>2
<1>6. \A i \in DOMAIN q.ground :
        /\ of(q.old, i) # "PASS" <=>
             a.transitions[i] \in {"IMPROVED", "PERSISTENT_FAILURE", "CHANGED_FAILURE"}
        /\ of(q.new, i) # "PASS" <=>
             a.transitions[i] \in {"REGRESSED", "PERSISTENT_FAILURE", "CHANGED_FAILURE"}
        /\ of(q.old, i) = "SHOULD_ABSTAIN" /\ of(q.new, i) = "SHOULD_ABSTAIN"
             => a.transitions[i] = "PERSISTENT_FAILURE"
  <2> SUFFICES ASSUME NEW old, NEW new
               PROVE  /\ old # "PASS" <=> Transition(old, new)
                            \in {"IMPROVED", "PERSISTENT_FAILURE", "CHANGED_FAILURE"}
                      /\ new # "PASS" <=> Transition(old, new)
                            \in {"REGRESSED", "PERSISTENT_FAILURE", "CHANGED_FAILURE"}
                      /\ old = "SHOULD_ABSTAIN" /\ new = "SHOULD_ABSTAIN"
                           => Transition(old, new) = "PERSISTENT_FAILURE"
    BY <1>3
  <2> QED
    BY DEF Transition
<1> QED
  BY <1>4, <1>5, <1>6

-----------------------------------------------------------------------------
(* BM25 *)

\* The documents that share a word with the query, and the place of each among them.
Matching(query, words) == {d \in DOMAIN words : query \cap words[d] # {}}
Ahead(matching, score, d) == {e \in matching : Before(score, e, d)}
PlaceAmong(matching, score, d) == Cardinality(Ahead(matching, score, d)) + 1

LEMMA BeforeOrders ==
  ASSUME NEW D, D \subseteq Int, NEW score, \A f \in D : score[f] \in Int, NEW d \in D, NEW e \in D
  PROVE  /\ ~Before(score, d, d)
         /\ d # e => Before(score, d, e) \/ Before(score, e, d)
         /\ Before(score, d, e) => ~Before(score, e, d) /\ score[d] >= score[e]
         /\ \A f \in D : Before(score, f, d) /\ Before(score, d, e) => Before(score, f, e)
BY DEF Before

\* The better document has the smaller place, so that there is one document at each place.
LEMMA PlacesAreTaken ==
  ASSUME NEW matching, IsFiniteSet(matching), matching \subseteq Int,
         NEW score, \A d \in matching : score[d] \in Int
  PROVE  /\ \A d \in matching : PlaceAmong(matching, score, d) \in 1..Cardinality(matching)
         /\ \A d, e \in matching : Before(score, d, e) =>
              PlaceAmong(matching, score, d) < PlaceAmong(matching, score, e)
         /\ \A d, e \in matching : d # e =>
              PlaceAmong(matching, score, d) # PlaceAmong(matching, score, e)
         /\ \A r \in 1..Cardinality(matching) :
              \E d \in matching : PlaceAmong(matching, score, d) = r
<1> DEFINE n == Cardinality(matching)
           ahead(d) == Ahead(matching, score, d)
           place(d) == PlaceAmong(matching, score, d)
           f == [d \in matching |-> place(d)]
<1>1. n \in Nat
  BY FS_CardinalityType
<1>2. ASSUME NEW d \in matching
      PROVE  /\ IsFiniteSet(ahead(d)) /\ Cardinality(ahead(d)) \in Nat
             /\ Cardinality(ahead(d)) < n
  <2>1. ahead(d) \in SUBSET matching /\ ahead(d) # matching
    <3>1. d \notin ahead(d)
      BY BeforeOrders DEF Ahead
    <3> QED
      BY <3>1 DEF Ahead
  <2>2. /\ IsFiniteSet(ahead(d)) /\ Cardinality(ahead(d)) <= n
        /\ Cardinality(ahead(d)) # n
    BY <2>1, FS_Subset
  <2>3. Cardinality(ahead(d)) \in Nat
    BY <2>2, FS_CardinalityType
  <2> QED
    BY <1>1, <2>2, <2>3
<1>3. ASSUME NEW d \in matching
      PROVE  place(d) \in 1..n /\ place(d) = Cardinality(ahead(d)) + 1
  BY <1>1, <1>2 DEF PlaceAmong
<1>4. ASSUME NEW d \in matching, NEW e \in matching, Before(score, d, e)
      PROVE  place(d) < place(e)
  <2>1. ahead(d) \in SUBSET ahead(e)
    BY <1>4, BeforeOrders DEF Ahead
  <2>2. d \in ahead(e) /\ d \notin ahead(d)
    BY <1>4, BeforeOrders DEF Ahead
  <2>3. Cardinality(ahead(d)) <= Cardinality(ahead(e)) /\ Cardinality(ahead(d)) # Cardinality(ahead(e))
    <3>1. ahead(d) # ahead(e)
      BY <2>2
    <3> HIDE DEF ahead
    <3> QED
      BY <1>2, <2>1, <3>1, FS_Subset
  <2> QED
    BY <1>2, <1>3, <2>3
<1>5. ASSUME NEW d \in matching, NEW e \in matching, d # e
      PROVE  place(d) # place(e)
  <2>1. Before(score, d, e) \/ Before(score, e, d)
    BY <1>5, BeforeOrders
  <2>2. place(d) < place(e) \/ place(e) < place(d)
    BY <1>4, <2>1
  <2> QED
    BY <1>3, <2>2
<1>6. f \in Surjection(matching, 1..n)
  <2>1. f \in Injection(matching, 1..n)
    <3> HIDE DEF place
    <3> QED
      BY <1>3, <1>5 DEF Injection, IsInjective
  <2>2. IsFiniteSet(1..n) /\ Cardinality(1..n) = n
    BY <1>1, FS_Interval
  <2> QED
    BY <2>1, <2>2, FS_Injection
<1>7. \A r \in 1..n : \E d \in matching : place(d) = r
  <2> HIDE DEF place
  <2> QED
    BY <1>6 DEF Surjection
<1> QED
  BY <1>3, <1>4, <1>5, <1>7

\* What is listed in order: every element once, at its place, the better ones first.
LEMMA InOrderTells ==
  ASSUME NEW S, IsFiniteSet(S), S \subseteq Int, NEW score, \A d \in S : score[d] \in Int,
         NEW a, a = InOrder(S, score)
  PROVE  /\ Cardinality(S) \in Nat /\ a \in [1..Cardinality(S) -> S]
         /\ \A r \in 1..Cardinality(S) : PlaceAmong(S, score, a[r]) = r
         /\ \A d \in S : /\ PlaceAmong(S, score, d) \in 1..Cardinality(S)
                         /\ a[PlaceAmong(S, score, d)] = d
         /\ \A r, s \in 1..Cardinality(S) : r < s => Before(score, a[r], a[s])
<1> DEFINE n == Cardinality(S)
           place(d) == PlaceAmong(S, score, d)
           at(r) == CHOOSE d \in S : place(d) = r
           places == [d \in S |-> Cardinality({e \in S : Before(score, e, d)}) + 1]
<1>1. a = [r \in 1..n |-> at(r)]
  <2>1. a = [r \in 1..n |-> CHOOSE d \in S : places[d] = r]
    BY Zenon DEF InOrder
  <2>2. \A d \in S : places[d] = place(d)
    BY Zenon DEF PlaceAmong, Ahead
  <2> HIDE DEF places, place
  <2>3. \A r \in 1..n : (CHOOSE d \in S : places[d] = r) = (CHOOSE d \in S : place(d) = r)
    BY <2>2
  <2> QED
    BY <2>1, <2>3
<1>2. /\ n \in Nat /\ \A d \in S : place(d) \in 1..n
      /\ \A d, e \in S : d # e => place(d) # place(e)
      /\ \A d, e \in S : Before(score, d, e) => place(d) < place(e)
      /\ \A r \in 1..n : \E d \in S : place(d) = r
  BY PlacesAreTaken, FS_CardinalityType
<1> HIDE DEF place, n
<1>3. \A r \in 1..n : at(r) \in S /\ place(at(r)) = r
  BY <1>2
<1> HIDE DEF at
<1>4. a \in [1..n -> S] /\ \A r \in 1..n : place(a[r]) = r
  BY <1>1, <1>3
<1>5. \A d \in S : a[place(d)] = d
  BY <1>2, <1>4
<1>6. ASSUME NEW r \in 1..n, NEW s \in 1..n, r < s
      PROVE  Before(score, a[r], a[s])
  <2>1. a[r] \in S /\ a[s] \in S /\ place(a[r]) = r /\ place(a[s]) = s
    BY <1>4
  <2>2. a[r] # a[s]
    BY <1>6, <2>1
  <2>3. ~Before(score, a[s], a[r])
    <3>1. Before(score, a[s], a[r]) => s < r
      BY <1>2, <2>1, ZenonT(60)
    <3> QED
      BY <1>6, <3>1
  <2> QED
    BY <2>1, <2>2, <2>3, BeforeOrders
<1> QED
  BY <1>2, <1>4, <1>5, <1>6 DEF place, n

LEMMA RetrievedTells ==
  ASSUME NEW query, NEW words, IsFiniteSet(DOMAIN words), DOMAIN words \subseteq Int,
         NEW score \in [DOMAIN words -> Int], NEW topK \in Nat \ {0},
         NEW matching, matching = Matching(query, words),
         NEW a, a = Retrieve(query, words, score, topK)
  PROVE  /\ DOMAIN a = 1..(IF topK <= Cardinality(matching) THEN topK ELSE Cardinality(matching))
         /\ Cardinality(matching) \in Nat
         /\ a \in Seq(matching)
         /\ \A r \in DOMAIN a : PlaceAmong(matching, score, a[r]) = r
         /\ \A d \in matching : PlaceAmong(matching, score, d) \in DOMAIN a
              => a[PlaceAmong(matching, score, d)] = d
<1> DEFINE n == Cardinality(matching)
           last == IF topK <= n THEN topK ELSE n
           place(d) == PlaceAmong(matching, score, d)
           ordered == InOrder(matching, score)
<1>1. IsFiniteSet(matching) /\ matching \subseteq DOMAIN words
  <2>1. matching \in SUBSET DOMAIN words
    BY DEF Matching
  <2> QED
    BY <2>1, FS_Subset
<1>2. /\ n \in Nat /\ ordered \in [1..n -> matching]
      /\ \A r \in 1..n : place(ordered[r]) = r
      /\ \A d \in matching : place(d) \in 1..n /\ ordered[place(d)] = d
  <2>1. matching \subseteq Int /\ \A d \in matching : score[d] \in Int
    BY <1>1
  <2>2. ordered = InOrder(matching, score)
    OBVIOUS
  <2> HIDE DEF ordered
  <2> QED
    BY <1>1, <2>1, <2>2, InOrderTells
<1>3. a = [r \in 1..last |-> ordered[r]]
  <2>1. a = [r \in 1..Min({topK, n}) |-> ordered[r]]
    <3>1. Retrieve(query, words, score, topK)
            = [r \in 1..Min({topK, Cardinality(Matching(query, words))}) |->
                 InOrder(Matching(query, words), score)[r]]
      BY Zenon DEF Retrieve, Matching
    <3> QED
      BY <3>1
  <2>2. Min({topK, n}) = last
    BY <1>2, SmallerOf
  <2> HIDE DEF ordered, last
  <2> QED
    BY <2>1, <2>2
<1> HIDE DEF place, ordered, n
<1>4. last \in Nat /\ last <= n /\ 1..last \subseteq 1..n
  BY <1>2
<1>5. DOMAIN a = 1..last /\ \A r \in DOMAIN a : a[r] \in matching /\ place(a[r]) = r
  BY <1>2, <1>3, <1>4
<1>6. a \in Seq(matching)
  <2> HIDE DEF last
  <2>1. a \in [1..last -> matching]
    BY <1>3, <1>5
  <2> QED
    BY <1>4, <2>1
<1>7. \A d \in matching : place(d) \in DOMAIN a => a[place(d)] = d
  BY <1>2, <1>3, <1>4
<1> QED
  BY <1>2, <1>5, <1>6, <1>7 DEF place, n

\* Whatever documents there are: none is retrieved twice, none without a word of the query, what
\* is left out is no better than what is listed, and a shorter list begins a longer one (bm25.py).
THEOREM SearchTheorem ==
  ASSUME NEW q, IsFiniteSet(DOMAIN q.words), DOMAIN q.words \subseteq Int,
         q.score \in [DOMAIN q.words -> Int], q.topK \in Nat \ {0}
  PROVE  SearchedFairly(q, AnswerSearch(q))
<1> DEFINE matching == Matching(q.query, q.words)
           n == Cardinality(matching)
           place(d) == PlaceAmong(matching, q.score, d)
           a == Retrieve(q.query, q.words, q.score, q.topK)
           b == Retrieve(q.query, q.words, q.score, q.topK + 1)
<1>1. IsFiniteSet(matching) /\ matching \subseteq DOMAIN q.words
  <2>1. matching \in SUBSET DOMAIN q.words
    BY DEF Matching
  <2> QED
    BY <2>1, FS_Subset
<1>2. /\ DOMAIN a = 1..(IF q.topK <= n THEN q.topK ELSE n)
      /\ n \in Nat /\ a \in Seq(matching)
      /\ \A r \in DOMAIN a : place(a[r]) = r
      /\ \A d \in matching : place(d) \in DOMAIN a => a[place(d)] = d
  BY RetrievedTells
<1>3. /\ DOMAIN b = 1..(IF q.topK + 1 <= n THEN q.topK + 1 ELSE n)
      /\ b \in Seq(matching)
      /\ \A r \in DOMAIN b : place(b[r]) = r
      /\ \A d \in matching : place(d) \in DOMAIN b => b[place(d)] = d
  <2>1. q.topK + 1 \in Nat \ {0}
    OBVIOUS
  <2> QED
    BY <2>1, RetrievedTells
<1>4. /\ \A d \in matching : place(d) \in 1..n
      /\ \A d, e \in matching : Before(q.score, d, e) => place(d) < place(e)
      /\ \A d, e \in matching : d # e => place(d) # place(e)
  <2>1. matching \subseteq Int /\ \A d \in matching : q.score[d] \in Int
    BY <1>1
  <2> HIDE DEF matching
  <2> QED
    BY <1>1, <2>1, PlacesAreTaken
<1> HIDE DEF matching, n, place, a, b
<1>5. ASSUME NEW d \in matching, NEW e \in matching, place(d) < place(e)
      PROVE  d # e /\ q.score[d] >= q.score[e]
  <2>1. place(d) \in Int /\ place(e) \in Int
    BY <1>2, <1>4
  <2>2. d # e
    BY <1>5, <2>1
  <2>3. ~Before(q.score, e, d)
    BY <1>4, <1>5, <2>1
  <2>4. d \in DOMAIN q.words /\ e \in DOMAIN q.words
    BY <1>1
  <2>5. Before(q.score, d, e)
    BY <2>2, <2>3, <2>4, BeforeOrders
  <2> QED
    BY <2>2, <2>4, <2>5, BeforeOrders
<1>6. \A r \in DOMAIN a : a[r] \in matching
  BY <1>2
<1>7. \A r, s \in DOMAIN a : r < s => a[r] # a[s] /\ q.score[a[r]] >= q.score[a[s]]
  BY <1>2, <1>5, <1>6
<1>8. \A d \in Range(a) : q.words[d] \cap q.query # {}
  BY <1>6 DEF Range, matching, Matching
<1>9. ASSUME NEW d \in DOMAIN q.words \ Range(a), q.words[d] \cap q.query # {}
      PROVE  Len(a) = q.topK /\ \A r \in DOMAIN a : q.score[a[r]] >= q.score[d]
  <2>1. d \in matching
    BY <1>9 DEF matching, Matching
  <2>2. place(d) \notin DOMAIN a
    BY <1>2, <1>9, <2>1 DEF Range
  <2>3. place(d) \in 1..n
    BY <1>4, <2>1
  <2>4. DOMAIN a = 1..q.topK /\ q.topK < place(d)
    BY <1>2, <2>2, <2>3
  <2>5. Len(a) = q.topK
    BY <1>2, <2>4, LenProperties
  <2>6. \A r \in DOMAIN a : place(a[r]) < place(d)
    BY <1>2, <2>3, <2>4
  <2> QED
    BY <1>5, <1>6, <2>1, <2>5, <2>6
<1>10. IsPrefix(a, b)
  <2>1. Len(a) \in Nat /\ Len(b) \in Nat /\ DOMAIN a = 1..Len(a) /\ DOMAIN b = 1..Len(b)
    BY <1>2, <1>3, LenProperties
  <2>2. DOMAIN a \subseteq DOMAIN b
    BY <1>2, <1>3
  <2>3. \A r \in DOMAIN a : b[r] = a[r]
    <3> TAKE r \in DOMAIN a
    <3>1. a[r] \in matching /\ place(a[r]) = r /\ r \in DOMAIN b
      BY <1>2, <1>6, <2>2
    <3> QED
      BY <1>3, <3>1
  <2>4. Len(a) <= Len(b)
    BY <2>1, <2>2
  <2>5. SubSeq(a, 1, Len(a)) = [r \in 1..Len(a) |-> a[r]]
        /\ SubSeq(b, 1, Len(a)) = [r \in 1..Len(a) |-> b[r]]
    BY <1>2, <1>3, <2>1, <2>4
  <2> QED
    BY <2>1, <2>3, <2>4, <2>5 DEF IsPrefix
<1>11. AnswerSearch(q) = a
  BY DEF AnswerSearch, a
<1> QED
  BY <1>7, <1>8, <1>9, <1>10, <1>11 DEF SearchedFairly, b

-----------------------------------------------------------------------------
(* Samples, bootstrap and batches *)

LEMMA EveryStratumIsDrawn ==
  ASSUME NEW ids, IsFiniteSet(ids), NEW stratum, NEW target \in Nat \ {0},
         NEW S \in Stratified(ids, stratum, target)
  PROVE  S \subseteq ids /\ {stratum[i] : i \in S} = {stratum[i] : i \in ids}
<1> DEFINE members(s) == {i \in ids : stratum[i] = s}
<1>1. S \subseteq ids
  BY DEF Stratified
<1>2. ASSUME NEW i \in ids
      PROVE  \E j \in S : stratum[j] = stratum[i]
  <2> DEFINE M == members(stratum[i])
  <2>1. Cardinality(S \cap M) = IF target < Cardinality(M) THEN target ELSE Cardinality(M)
    BY DEF Stratified
  <2>2. M \in SUBSET ids /\ M # {}
    OBVIOUS
  <2> HIDE DEF M
  <2>3. IsFiniteSet(M)
    BY <2>2, FS_Subset
  <2>4. Cardinality(M) \in Nat /\ Cardinality(M) # 0
    BY <2>2, <2>3, FS_CardinalityType, FS_EmptySet
  <2>5. Cardinality(S \cap M) # 0
    BY <2>1, <2>4
  <2>6. S \cap M # {}
    BY <2>5, FS_EmptySet
  <2> QED
    BY <2>6 DEF M
<1> QED
  BY <1>1, <1>2

\* However many a stratum gives to the pilot and to what is repeated, one at least: the repeated
\* examples are examples of the pilot, and of every stratum that the data have (sampling.py).
THEOREM SamplesTheorem ==
  ASSUME NEW examples, IsFiniteSet(DOMAIN examples), NEW t \in Nat \ {0}, NEW c \in Nat \ {0},
         NEW pilot \in PilotSamples(examples, t),
         NEW repeated \in ConsistencySamples(examples, pilot, c)
  PROVE  SamplesHold(examples, [pilot |-> pilot, consistency |-> repeated])
<1> DEFINE stratum == [i \in DOMAIN examples |->
                         <<examples[i].task, HumanLabel(examples[i].spans, "strict")>>]
           eligible == Eligible(examples)
           of(i) == <<examples[i].task, HumanLabel(examples[i].spans, "strict")>>
<1>1. eligible \in SUBSET DOMAIN examples
  BY DEF Eligible
<1>2. \A i \in DOMAIN examples : stratum[i] = of(i)
  OBVIOUS
<1>3. pilot \in Stratified(eligible, stratum, t) /\ repeated \in Stratified(pilot, stratum, c)
  BY DEF PilotSamples, ConsistencySamples
<1> HIDE DEF stratum, eligible, of
<1>4. IsFiniteSet(eligible)
  BY <1>1, FS_Subset
<1>5. pilot \subseteq eligible /\ {stratum[i] : i \in pilot} = {stratum[i] : i \in eligible}
  BY <1>3, <1>4, EveryStratumIsDrawn
<1>6. IsFiniteSet(pilot)
  BY <1>4, <1>5, FS_Subset
<1>7. repeated \subseteq pilot /\ {stratum[i] : i \in repeated} = {stratum[i] : i \in pilot}
  BY <1>3, <1>6, EveryStratumIsDrawn
<1>8. /\ {stratum[i] : i \in pilot} = {of(i) : i \in pilot}
      /\ {stratum[i] : i \in eligible} = {of(i) : i \in eligible}
      /\ {stratum[i] : i \in repeated} = {of(i) : i \in repeated}
  BY <1>1, <1>2, <1>5, <1>7
<1>9. /\ repeated \subseteq pilot
      /\ {of(i) : i \in pilot} = {of(i) : i \in eligible}
      /\ {of(i) : i \in repeated} = {of(i) : i \in pilot}
  BY <1>5, <1>7, <1>8
<1> QED
  BY <1>9 DEF SamplesHold, of, eligible

LEMMA SameSize ==
  ASSUME NEW S, IsFiniteSet(S), NEW T, NEW f \in Surjection(S, T), IsInjective(f)
  PROVE  IsFiniteSet(T) /\ Cardinality(T) = Cardinality(S)
<1>1. f \in Injection(S, T)
  BY DEF Surjection, Injection
<1> QED
  BY <1>1, FS_Surjection

LEMMA RatiosAreNatural == \A n, d \in Nat : Ratio(n, d) \in Nat \X (Nat \ {0})
BY DEF Ratio

LEMMA PlusIsNatural ==
  ASSUME NEW a \in Nat \X (Nat \ {0}), NEW b \in Nat \X (Nat \ {0})
  PROVE  Plus(a, b) \in Nat \X (Nat \ {0})
<1>1. PICK x \in Nat, y \in Nat \ {0} : a = <<x, y>>
  OBVIOUS
<1>2. PICK z \in Nat, w \in Nat \ {0} : b = <<z, w>>
  OBVIOUS
<1>3. x * w \in Nat /\ z * y \in Nat /\ y * w \in Nat /\ y * w # 0
  OBVIOUS
<1>4. Plus(a, b) = <<x * w + z * y, y * w>>
  BY <1>1, <1>2 DEF Plus
<1> QED
  BY <1>3, <1>4

LEMMA RatesAreNatural ==
  ASSUME NEW m \in Matrices
  PROVE  /\ Metrics(m) \in Rates
         /\ \A name \in DOMAIN Metrics(m) : Metrics(m)[name] \in Nat \X (Nat \ {0})
<1> DEFINE tp == m.tp
           tn == m.tn
           fp == m.fp
           fn == m.fn
           P == Nat \X (Nat \ {0})
           precision == Ratio(tp, tp + fp)
           recall == Ratio(tp, tp + fn)
           specificity == Ratio(tn, tn + fp)
           sum == Plus(recall, specificity)
           both == Plus(precision, recall)
           f1 == Divide(<<2 * precision[1] * recall[1], precision[2] * recall[2]>>, both)
<1>1. tp \in Nat /\ tn \in Nat /\ fp \in Nat /\ fn \in Nat
  BY DEF Matrices
<1>2. Metrics(m) = [precision |-> precision, recall |-> recall, specificity |-> specificity,
                    f1 |-> f1, accuracy |-> Ratio(tp + tn, tp + tn + fp + fn),
                    balanced_accuracy |-> <<sum[1], 2 * sum[2]>>,
                    false_positive_rate |-> Ratio(fp, fp + tn),
                    false_negative_rate |-> Ratio(fn, fn + tp)]
  BY Zenon DEF Metrics
<1> HIDE DEF tp, tn, fp, fn
<1>9. /\ tp + tn \in Nat /\ tp + tn + fp + fn \in Nat /\ fp + tn \in Nat /\ fn + tp \in Nat
      /\ tp + fp \in Nat /\ tp + fn \in Nat /\ tn + fp \in Nat
  BY <1>1
<1>3. /\ Ratio(tp + tn, tp + tn + fp + fn) \in P /\ Ratio(fp, fp + tn) \in P
      /\ Ratio(fn, fn + tp) \in P
  BY <1>1, <1>9, RatiosAreNatural
<1>4. precision \in P /\ recall \in P /\ specificity \in P
  BY <1>1, <1>9, RatiosAreNatural
<1> HIDE DEF precision, recall, specificity
<1>5. sum \in P /\ both \in P
  BY <1>4, PlusIsNatural
<1> HIDE DEF sum, both
<1>6. f1 \in P
  <2> DEFINE n == (2 * precision[1] * recall[1]) * both[2]
             d == (precision[2] * recall[2]) * both[1]
  <2>1. /\ precision[1] \in Nat /\ precision[2] \in Nat /\ recall[1] \in Nat /\ recall[2] \in Nat
        /\ both[1] \in Nat /\ both[2] \in Nat
    BY <1>4, <1>5
  <2>2. 2 * precision[1] * recall[1] \in Nat /\ precision[2] * recall[2] \in Nat
    BY <2>1
  <2>3. n \in Nat /\ d \in Nat
    BY <2>1, <2>2
  <2>4. f1 = Ratio(n, d)
    <3>1. \A x, y : Divide(<<x, y>>, both) = Ratio(x * both[2], y * both[1])
      BY DEF Divide
    <3> QED
      BY <3>1
  <2> HIDE DEF n, d, f1
  <2> QED
    BY <2>3, <2>4, RatiosAreNatural
<1>7. <<sum[1], 2 * sum[2]>> \in P
  BY <1>5
<1> HIDE DEF f1
<1>8. \A x \in P : x \in Nat \X Nat
  OBVIOUS
<1>10. Metrics(m) \in [precision : P, recall : P, specificity : P, f1 : P, accuracy : P,
                        balanced_accuracy : P, false_positive_rate : P, false_negative_rate : P]
  <2> HIDE DEF P
  <2> QED
    BY <1>2, <1>3, <1>4, <1>6, <1>7
<1>11. \A name \in DOMAIN Metrics(m) : Metrics(m)[name] \in P
  <2> HIDE DEF P
  <2> QED
    BY <1>10
<1>12. Metrics(m) \in Rates
  <2> HIDE DEF P
  <2> QED
    BY <1>8, <1>10 DEF Rates
<1> QED
  BY <1>11, <1>12

\* A report that was not refused is no refusal.
LEMMA ReportsAreRecords ==
  ASSUME NEW ids, ids \subseteq Int \X Int, IsFiniteSet(ids),
         NEW truth \in [ids -> Labels], NEW said \in [ids -> Labels]
  PROVE  [matrix |-> Confusion(truth, said), metrics |-> Metrics(Confusion(truth, said)),
          fp |-> Hits(truth, said, "G", "H"), fn |-> Hits(truth, said, "H", "G")] # ValueError
<1> DEFINE m == Confusion(truth, said)
<1>1. m \in Matrices
  BY MatrixTheorem DEF Matrices
<1>2. Hits(truth, said, "G", "H") \in SUBSET (Int \X Int) /\ Hits(truth, said, "H", "G") \in SUBSET (Int \X Int)
  BY DEF Hits
<1> HIDE DEF m
<1>3. Metrics(m) \in Rates
  BY <1>1, RatesAreNatural
<1>4. [matrix |-> m, metrics |-> Metrics(m), fp |-> Hits(truth, said, "G", "H"),
       fn |-> Hits(truth, said, "H", "G")] \in ReportRecords(Int \X Int)
  BY <1>1, <1>2, <1>3 DEF ReportRecords
<1> QED
  BY <1>4, RefusalAssumption DEF m

RightAt(sample, truth, said) == {k \in DOMAIN sample : said[sample[k]] = truth[sample[k]]}
WrongAt(sample, truth, said) == {k \in DOMAIN sample : said[sample[k]] # truth[sample[k]]}

MeasuredOn(a, sample, truth, said) ==
  /\ a.matrix.tp + a.matrix.tn = Cardinality(RightAt(sample, truth, said))
  /\ a.matrix.fp + a.matrix.fn = Cardinality(WrongAt(sample, truth, said))

\* A bootstrap sample of any size is measured though it repeats ids, and each occurrence counts
\* (full_analysis.py, and the refusal of repeated ids in metrics.py).
THEOREM BootstrapTheorem ==
  ASSUME NEW ids, NEW n \in Nat, NEW sample \in [1..n -> ids],
         NEW truth \in [ids -> Labels], NEW said \in [ids -> Labels],
         NEW a, a = BootstrapReport(sample, truth, said)
  PROVE  /\ MeasuredOn(a, sample, truth, said)
         /\ ids \subseteq Int => a # ValueError
<1> DEFINE m == a.matrix
           occ(k) == Occurrence(sample, k)
           names == {occ(k) : k \in DOMAIN sample}
           idOf(name) == sample[CHOOSE k \in DOMAIN sample : occ(k) = name]
           actual == [name \in names |-> truth[idOf(name)]]
           lines == [k \in DOMAIN sample |-> <<occ(k), said[sample[k]]>>]
           written == {lines[k] : k \in DOMAIN lines}
           taken == [name \in DOMAIN actual |-> (CHOOSE p \in written : p[1] = name)[2]]
           right == {k \in 1..n : said[sample[k]] = truth[sample[k]]}
           wrong == {k \in 1..n : said[sample[k]] # truth[sample[k]]}
<1>1. /\ DOMAIN sample = 1..n /\ \A k, l \in 1..n : occ(k) = occ(l) => k = l
      /\ DOMAIN actual = names /\ DOMAIN taken = names
      /\ Len(lines) = n /\ DOMAIN lines = 1..n
      /\ \A k \in 1..n : lines[k] = <<occ(k), said[sample[k]]>> /\ occ(k) \in names
  BY DEF Occurrence
<1>2. BootstrapReport(sample, truth, said) = Report(actual, lines)
  BY Zenon DEF BootstrapReport
<1> HIDE DEF occ
<1>3. IsFiniteSet(names) /\ Cardinality(names) = n
  <2> DEFINE f == [k \in 1..n |-> occ(k)]
  <2>1. f \in Surjection(1..n, names)
    BY <1>1 DEF Surjection
  <2>2. IsInjective(f)
    BY <1>1 DEF IsInjective
  <2>3. IsFiniteSet(1..n) /\ Cardinality(1..n) = n
    BY FS_Interval
  <2> HIDE DEF f, names
  <2> QED
    BY <2>1, <2>2, <2>3, SameSize
<1>4. \A k \in 1..n : actual[occ(k)] = truth[sample[k]] /\ taken[occ(k)] = said[sample[k]]
  <2> TAKE k \in 1..n
  <2>1. actual[occ(k)] = truth[sample[k]]
    <3>1. (CHOOSE l \in DOMAIN sample : occ(l) = occ(k)) = k
      BY <1>1
    <3> QED
      BY <1>1, <3>1
  <2>2. (CHOOSE p \in written : p[1] = occ(k)) = lines[k]
    <3> HIDE DEF lines
    <3>1. lines[k] \in written /\ \A p \in written : p[1] = occ(k) <=> p = lines[k]
      BY <1>1
    <3> HIDE DEF written
    <3> QED
      BY <3>1
  <2>3. taken[occ(k)] = lines[k][2]
    BY <1>1, <2>2
  <2> QED
    BY <1>1, <2>1, <2>3
<1> HIDE DEF lines, actual, idOf
<1>5. ~Misaligned(actual, lines)
  <2>1. {lines[k][1] : k \in DOMAIN lines} = names
    BY <1>1
  <2>2. {p[1] : p \in written} = names
    BY <1>1, <2>1
  <2> QED
    BY <1>1, <1>3, <2>1, <2>2 DEF Misaligned
<1>13. BootstrapReport(sample, truth, said)
         = [matrix |-> Confusion(actual, taken), metrics |-> Metrics(Confusion(actual, taken)),
            fp |-> Hits(actual, taken, "G", "H"), fn |-> Hits(actual, taken, "H", "G")]
  BY <1>2, <1>5, Zenon DEF Report
<1>6. m = Confusion(actual, taken)
  <2> HIDE DEF taken
  <2> QED
    BY <1>13
<1> HIDE DEF taken, written
<1>7. actual \in [names -> Labels] /\ taken \in [names -> Labels]
  <2>1. \A name \in names : actual[name] \in Labels /\ taken[name] \in Labels
    BY <1>1, <1>4
  <2>2. actual = [name \in names |-> actual[name]] /\ taken = [name \in names |-> taken[name]]
    BY <1>1 DEF actual, taken
  <2> HIDE DEF names
  <2> QED
    BY <2>1, <2>2
<1>14. ids \subseteq Int => BootstrapReport(sample, truth, said) # ValueError
  <2> SUFFICES ASSUME ids \subseteq Int PROVE BootstrapReport(sample, truth, said) # ValueError
    OBVIOUS
  <2>1. names \subseteq Int \X Int
    <3>1. ASSUME NEW k \in 1..n PROVE occ(k) \in Int \X Int
      <4>3. sample[k] \in ids
        OBVIOUS
      <4>4. k \in Int
        OBVIOUS
      <4>1. sample[k] \in Int /\ k \in Int
        BY <4>3, <4>4, Zenon
      <4>2. occ(k) = <<sample[k], k>>
        BY DEF occ, Occurrence
      <4> QED
        BY <4>1, <4>2
    <3> QED
      BY <1>1, <3>1
  <2> HIDE DEF names
  <2> QED
    BY <1>3, <1>7, <1>13, <2>1, ReportsAreRecords
<1> DEFINE tp == m.tp
           tn == m.tn
           fp == m.fp
           fn == m.fn
<1>8. /\ tp \in Nat /\ tn \in Nat /\ fp \in Nat /\ fn \in Nat
      /\ tp + tn + fp + fn = Cardinality(names)
      /\ fp + fn = Cardinality(Wrong(actual, taken))
  <2> HIDE DEF names
  <2>1. ASSUME NEW S, IsFiniteSet(S), NEW f \in [S -> Labels], NEW g \in [S -> Labels],
               NEW matrix, matrix = Confusion(f, g)
        PROVE  /\ matrix.tp \in Nat /\ matrix.tn \in Nat /\ matrix.fp \in Nat /\ matrix.fn \in Nat
               /\ matrix.tp + matrix.tn + matrix.fp + matrix.fn = Cardinality(S)
               /\ matrix.fp + matrix.fn = Cardinality(Wrong(f, g))
    BY <2>1, MatrixTheorem
  <2>2. /\ m.tp \in Nat /\ m.tn \in Nat /\ m.fp \in Nat /\ m.fn \in Nat
        /\ m.tp + m.tn + m.fp + m.fn = Cardinality(names)
        /\ m.fp + m.fn = Cardinality(Wrong(actual, taken))
    <3> HIDE DEF right, wrong
    <3> QED
      BY <1>3, <1>6, <1>7, <2>1
  <2> QED
    BY <2>2
<1>9. IsFiniteSet(1..n) /\ Cardinality(1..n) = n
  BY FS_Interval
<1>10. /\ IsFiniteSet(wrong) /\ Cardinality(right) \in Nat /\ Cardinality(wrong) \in Nat
       /\ Cardinality(1..n) = Cardinality(right) + Cardinality(wrong)
  <2>1. 1..n = right \cup wrong /\ right \cap wrong = {}
    OBVIOUS
  <2> DEFINE all == 1..n
  <2>2. IsFiniteSet(all) /\ Halves(all, right, wrong)
    BY <1>9, <2>1 DEF Halves
  <2> HIDE DEF right, wrong, all
  <2>3. /\ IsFiniteSet(wrong) /\ Cardinality(right) \in Nat /\ Cardinality(wrong) \in Nat
        /\ Cardinality(all) = Cardinality(right) + Cardinality(wrong)
    BY <2>2, HalvesAddUp
  <2> QED
    BY <2>3 DEF all
<1>11. Cardinality(Wrong(actual, taken)) = Cardinality(wrong)
  <2> DEFINE f == [k \in wrong |-> occ(k)]
  <2>1. Wrong(actual, taken) = {occ(k) : k \in wrong}
    BY <1>1, <1>4 DEF Wrong
  <2>2. f \in Surjection(wrong, Wrong(actual, taken)) /\ IsInjective(f)
    BY <1>1, <2>1 DEF Surjection, IsInjective
  <2> HIDE DEF f, wrong
  <2> QED
    BY <1>10, <2>2, SameSize
<1>12. fp + fn = Cardinality(wrong) /\ tp + tn = Cardinality(right)
  <2> DEFINE all == Cardinality(names)
             good == Cardinality(right)
             bad == Cardinality(wrong)
  <2>1. all = good + bad
    BY <1>3, <1>9, <1>10
  <2>2. good \in Nat /\ bad \in Nat /\ fp + fn = bad /\ tp + tn + fp + fn = all
    BY <1>8, <1>10, <1>11
  <2> HIDE DEF all, good, bad, tp, tn, fp, fn
  <2>3. fp + fn = bad /\ tp + tn = good
    BY <1>8, <2>1, <2>2
  <2> QED
    BY <2>3 DEF good, bad
<1>15. RightAt(sample, truth, said) = right /\ WrongAt(sample, truth, said) = wrong
  BY <1>1 DEF RightAt, WrongAt
<1> QED
  BY <1>12, <1>14, <1>15 DEF MeasuredOn

LEMMA Quotients ==
  ASSUME NEW x \in Nat, NEW s \in Nat \ {0}
  PROVE  x \div s \in Nat /\ (x \div s) * s <= x /\ x < (x \div s) * s + s
OBVIOUS

LEMMA BatchOf ==
  ASSUME NEW n \in Nat, NEW size \in Nat \ {0}, NEW i \in 1..n
  PROVE  \E b \in 1..((n + size - 1) \div size) :
           FirstOf(b, size) <= i /\ i < FirstOf(b + 1, size)
<1> DEFINE b == (i - 1) \div size + 1
           last == (n + size - 1) \div size
<1>1. i - 1 \in Nat /\ n + size - 1 \in Nat
  OBVIOUS
<1>2. b - 1 \in Nat /\ (b - 1) * size <= i - 1 /\ i - 1 < (b - 1) * size + size
  BY <1>1, Quotients
<1>3. last \in Nat /\ n + size - 1 < last * size + size
  BY <1>1, Quotients
<1> HIDE DEF b, last
<1>4. b \in Nat /\ b >= 1
  <2>1. b \in Int
    BY DEF b
  <2> QED
    BY <1>2, <2>1
<1>5. (b - 1) * size \in Int /\ last * size \in Int /\ b * size = (b - 1) * size + size
  BY <1>3, <1>4
<1>6. (b - 1) * size < last * size
  BY <1>2, <1>3, <1>5
<1>7. b - 1 < last
  BY <1>3, <1>4, <1>6, Products
<1>8. FirstOf(b, size) = (b - 1) * size + 1 /\ FirstOf(b + 1, size) = b * size + 1
  BY <1>4 DEF FirstOf
<1>9. b \in 1..last /\ FirstOf(b, size) <= i /\ i < FirstOf(b + 1, size)
  BY <1>2, <1>3, <1>4, <1>5, <1>7, <1>8
<1> QED
  BY <1>9 DEF last

\* However many supports and whatever the size of a batch: no batch is larger, every example gets
\* its own support and its label, and a batch that comes back short leaves no predictions (hhem.py).
THEOREM BatchesTheorem ==
  ASSUME NEW q, q.supports \in Seq(Int), q.size \in Nat \ {0}
  PROVE  BatchesHold(q, AnswerBatches(q))
<1> DEFINE a == EvaluateBatches(q.supports, q.size, q.short, 1)
           n == Len(q.supports)
           batches == 1..((n + q.size - 1) \div q.size)
           batchOf(i) == CHOOSE b \in batches :
                           FirstOf(b, q.size) <= i /\ i < FirstOf(b + 1, q.size)
<1> SUFFICES ASSUME a # ValueError
             PROVE  /\ DOMAIN a = 1..Len(q.supports)
                    /\ \A i \in DOMAIN a : /\ a[i].support = q.supports[i]
                                           /\ a[i].label = Decides(q.supports[i], 1)
                                           /\ a[i].batch \notin q.short
                                           /\ Size({j \in DOMAIN a : a[j].batch = a[i].batch}) <= q.size
  BY Zenon DEF BatchesHold, AnswerBatches
<1>1. n \in Nat
  OBVIOUS
<1>2. /\ q.short \cap batches = {}
      /\ a = [i \in 1..n |-> [label |-> Decides(q.supports[i], 1), support |-> q.supports[i],
                              batch |-> [j \in 1..n |-> batchOf(j)][i]]]
  BY Zenon DEF EvaluateBatches
<1>3. \A i \in 1..n : /\ batchOf(i) \in batches
                      /\ FirstOf(batchOf(i), q.size) <= i /\ i < FirstOf(batchOf(i) + 1, q.size)
  BY <1>1, BatchOf
<1> HIDE DEF a, n, batchOf
<1>4. /\ DOMAIN a = 1..n
      /\ \A i \in 1..n : /\ a[i].support = q.supports[i] /\ a[i].label = Decides(q.supports[i], 1)
                         /\ a[i].batch = batchOf(i)
  BY <1>2
<1>5. ASSUME NEW i \in 1..n
      PROVE  Size({j \in DOMAIN a : a[j].batch = a[i].batch}) <= q.size
  <2> DEFINE b == batchOf(i)
             J == {j \in DOMAIN a : a[j].batch = a[i].batch}
             first == FirstOf(b, q.size)
             next == FirstOf(b + 1, q.size)
  <2>1. b \in Nat
    BY <1>3
  <2>2. J \subseteq first..(next - 1)
    <3>1. \A j \in 1..n : a[j].batch = a[i].batch => batchOf(j) = b
      BY <1>4
    <3>2. first \in Int /\ next \in Int
      BY <2>1 DEF FirstOf
    <3> HIDE DEF b
    <3> QED
      BY <1>3, <1>4, <3>1, <3>2
  <2>3. first \in Int /\ next \in Int /\ next = first + q.size
    BY <2>1 DEF FirstOf
  <2> HIDE DEF first, next, J
  <2>4. IsFiniteSet(first..(next - 1)) /\ Cardinality(first..(next - 1)) = q.size
    <3> DEFINE end == next - 1
    <3>1. end \in Int /\ ~(first > end) /\ end - first + 1 = q.size
      BY <2>3
    <3> HIDE DEF end
    <3>2. IsFiniteSet(first..end) /\ Cardinality(first..end) = q.size
      BY <2>3, <3>1, FS_Interval
    <3> QED
      BY <3>2 DEF end
  <2>5. Cardinality(J) <= q.size
    BY <2>2, <2>4, FS_Subset
  <2> QED
    BY <2>5 DEF J, Size
<1> QED
  BY <1>2, <1>3, <1>4, <1>5 DEF n

-----------------------------------------------------------------------------
(* Rank quartiles *)

\* The quartiles cut any number of examples, in the order of their values, into four parts whose
\* sizes differ by one at most (full_analysis.py).
THEOREM QuartilesTheorem ==
  ASSUME NEW ids, IsFiniteSet(ids), ids \subseteq Int, NEW values \in [ids -> Int],
         NEW quartiles, quartiles = Quartiles(values)
  PROVE  /\ UNION {quartiles[k] : k \in 1..4} = ids
         /\ \A k, l \in 1..4 : Distance(Cardinality(quartiles[k]), Cardinality(quartiles[l])) <= 1
         /\ \A k, l \in 1..4 : k < l =>
              \A i \in quartiles[k], j \in quartiles[l] : values[i] <= values[j]
<1> DEFINE n == Cardinality(ids)
           minus == [i \in ids |-> -values[i]]
           rank(i) == Rank(values, i)
           of(k) == {i \in ids : QuartileOf(rank(i), n) + 1 = k}
<1>1. n \in Nat
  BY FS_CardinalityType
<1>2. \A i \in ids : rank(i) \in Nat /\ PlaceAmong(ids, minus, i) = rank(i) + 1
  <2> TAKE i \in ids
  <2>1. {j \in ids : values[j] < values[i] \/ (values[j] = values[i] /\ j < i)}
          = {j \in ids : Before(minus, j, i)}
    <3>1. \A j \in ids : minus[j] = -values[j] /\ values[j] \in Int
      OBVIOUS
    <3> HIDE DEF minus
    <3>2. \A j \in ids : values[j] < values[i] \/ (values[j] = values[i] /\ j < i)
                          <=> Before(minus, j, i)
      BY <3>1 DEF Before
    <3> QED
      BY <3>2
  <2>2. {j \in ids : Before(minus, j, i)} \in SUBSET ids
    OBVIOUS
  <2>3. Cardinality({j \in ids : Before(minus, j, i)}) \in Nat
    <3> DEFINE T == {j \in ids : Before(minus, j, i)}
    <3>1. T \in SUBSET ids
      OBVIOUS
    <3> HIDE DEF T
    <3>2. IsFiniteSet(T)
      BY <3>1, FS_Subset
    <3>3. Cardinality(T) \in Nat
      BY <3>2, FS_CardinalityType
    <3> QED
      BY <3>3 DEF T
  <2>4. rank(i) = Cardinality({j \in ids : Before(minus, j, i)})
    BY <2>1 DEF Rank
  <2> HIDE DEF minus, rank
  <2> QED
    BY <2>3, <2>4 DEF PlaceAmong, Ahead
<1>3. minus \in [ids -> Int]
  OBVIOUS
<1>4. \A k \in 1..4 : quartiles[k] = of(k)
  BY DEF Quartiles
<1>5. \A i, j \in ids : values[i] < values[j] => Before(minus, i, j)
  BY DEF Before
<1> HIDE DEF rank, minus
<1>6. /\ \A i \in ids : rank(i) \in 0..(n - 1)
      /\ \A i, j \in ids : values[i] < values[j] => rank(i) < rank(j)
      /\ \A i, j \in ids : i # j => rank(i) # rank(j)
      /\ \A r \in 0..(n - 1) : \E i \in ids : rank(i) = r
  <2>1. /\ \A d \in ids : PlaceAmong(ids, minus, d) \in 1..n
        /\ \A d, e \in ids : Before(minus, d, e) =>
             PlaceAmong(ids, minus, d) < PlaceAmong(ids, minus, e)
        /\ \A d, e \in ids : d # e => PlaceAmong(ids, minus, d) # PlaceAmong(ids, minus, e)
        /\ \A r \in 1..n : \E d \in ids : PlaceAmong(ids, minus, d) = r
    <3>1. \A i \in ids : minus[i] \in Int
      BY <1>3
    <3> QED
      BY <3>1, PlacesAreTaken
  <2> HIDE DEF n
  <2>2. \A i \in ids : rank(i) \in 0..(n - 1)
    BY <1>1, <1>2, <2>1
  <2>3. \A i, j \in ids : values[i] < values[j] => rank(i) < rank(j)
    BY <1>2, <1>5, <2>1
  <2>4. \A i, j \in ids : i # j => rank(i) # rank(j)
    BY <1>2, <2>1
  <2>5. \A r \in 0..(n - 1) : \E i \in ids : rank(i) = r
    <3> TAKE r \in 0..(n - 1)
    <3>1. r + 1 \in 1..n
      BY <1>1
    <3>2. PICK i \in ids : PlaceAmong(ids, minus, i) = r + 1
      BY <2>1, <3>1
    <3>3. rank(i) = r
      BY <1>2, <3>2
    <3> QED
      BY <3>3
  <2> QED
    BY <2>2, <2>3, <2>4, <2>5
<1> DEFINE from(k) == ((k - 1) * n + 3) \div 4
<1>7. ASSUME NEW k \in 1..4, NEW r \in 0..(n - 1)
      PROVE  QuartileOf(r, n) + 1 = k <=> from(k) <= r /\ r < from(k + 1)
  <2>1. n \in Nat \ {0} /\ r * 4 \in Nat
    BY <1>1
  <2> DEFINE q == (r * 4) \div n
  <2>2. q \in Nat /\ q * n <= r * 4 /\ r * 4 < q * n + n
    BY <2>1, Quotients
  <2> HIDE DEF q, n
  <2>3. q + 1 = k <=> (k - 1) * n <= r * 4 /\ r * 4 < (k - 1) * n + n
    <3>1. ASSUME q + 1 = k
          PROVE  (k - 1) * n <= r * 4 /\ r * 4 < (k - 1) * n + n
      <4>1. q = k - 1
        BY <2>2, <3>1
      <4> QED
        BY <2>2, <4>1
    <3>2. ASSUME (k - 1) * n <= r * 4, r * 4 < (k - 1) * n + n
          PROVE  q + 1 = k
      <4>1. q * n < k * n /\ (k - 1) * n < (q + 1) * n
        <5>1. k * n = (k - 1) * n + n /\ (q + 1) * n = q * n + n
          BY <2>1, <2>2
        <5>2. q * n \in Int /\ (k - 1) * n \in Int
          BY <2>1, <2>2
        <5> QED
          BY <2>1, <2>2, <3>2, <5>1, <5>2
      <4>2. q < k /\ k - 1 < q + 1
        BY <2>1, <2>2, <4>1, Products
      <4> QED
        BY <2>2, <4>2
    <3> QED
      BY <3>1, <3>2
  <2>4. /\ (k - 1) * n <= r * 4 <=> ((k - 1) * n + 3) \div 4 <= r
        /\ r * 4 < (k - 1) * n + n <=> r < ((k + 1 - 1) * n + 3) \div 4
    <3>1. k \in {1, 2, 3, 4}
      OBVIOUS
    <3> QED
      BY <2>1, <3>1
  <2> QED
    BY <2>3, <2>4 DEF QuartileOf, q
<1>8. ASSUME NEW k \in 1..4
      PROVE  /\ from(k) \in 0..n /\ from(k + 1) \in 0..n /\ from(k) <= from(k + 1)
  <2> HIDE DEF n
  <2>1. k \in {1, 2, 3, 4}
    OBVIOUS
  <2> QED
    BY <1>1, <2>1
<1>9. ASSUME NEW k \in 1..4
      PROVE  Cardinality(of(k)) = from(k + 1) - from(k)
  <2> DEFINE a == from(k)
             b == from(k + 1) - 1
             f == [i \in of(k) |-> rank(i)]
  <2>1. a \in Int /\ b \in Int /\ a >= 0 /\ b <= n - 1 /\ b - a + 1 = from(k + 1) - from(k)
        /\ a <= b + 1
    <3> HIDE DEF n, from
    <3> QED
      BY <1>1, <1>8
  <2>2. \A i \in ids : i \in of(k) <=> a <= rank(i) /\ rank(i) <= b
    <3>1. \A i \in ids : i \in of(k) <=> from(k) <= rank(i) /\ rank(i) < from(k + 1)
      <4> HIDE DEF from
      <4> QED
        BY <1>6, <1>7
    <3> HIDE DEF n, from, of
    <3>2. \A i \in ids : rank(i) \in Int
      BY <1>1, <1>6
    <3> QED
      BY <1>1, <1>8, <3>1, <3>2
  <2> HIDE DEF a, b, of, n, from
  <2>3. of(k) \in SUBSET ids
    BY DEF of
  <2>4. f \in Surjection(of(k), a..b) /\ IsInjective(f)
    <3>1. \A i \in of(k) : rank(i) \in a..b
      <4> TAKE i \in of(k)
      <4>1. i \in ids /\ rank(i) \in Int /\ a <= rank(i) /\ rank(i) <= b
        <5>1. i \in ids
          BY <2>3
        <5>2. rank(i) \in Int
          BY <1>1, <1>6, <5>1
        <5> QED
          BY <2>2, <5>1, <5>2
      <4> QED
        BY <2>1, <4>1
    <3>2. \A r \in a..b : \E i \in of(k) : rank(i) = r
      <4> TAKE r \in a..b
      <4>1. r \in 0..(n - 1)
        BY <1>1, <2>1
      <4>2. PICK i \in ids : rank(i) = r
        BY <1>6, <4>1
      <4>3. i \in of(k)
        BY <2>1, <2>2, <4>2
      <4> QED
        BY <4>2, <4>3
    <3>3. \A i, j \in of(k) : rank(i) = rank(j) => i = j
      BY <1>6, <2>3
    <3> QED
      BY <3>1, <3>2, <3>3 DEF Surjection, IsInjective
  <2>5. IsFiniteSet(of(k))
    BY <2>3, FS_Subset
  <2> HIDE DEF f
  <2>6. Cardinality(a..b) = Cardinality(of(k))
    BY <2>4, <2>5, SameSize
  <2>7. Cardinality(a..b) = IF a > b THEN 0 ELSE b - a + 1
    BY <2>1, FS_Interval
  <2> QED
    BY <2>1, <2>6, <2>7
<1>10. \A k, l \in 1..4 : Distance(from(k + 1) - from(k), from(l + 1) - from(l)) <= 1
  <2> TAKE k, l \in 1..4
  <2> HIDE DEF n
  <2>1. k \in {1, 2, 3, 4} /\ l \in {1, 2, 3, 4}
    OBVIOUS
  <2> QED
    BY <1>1, <2>1 DEF Distance
<1>11. UNION {quartiles[k] : k \in 1..4} = ids
  <2>1. ASSUME NEW i \in ids
        PROVE  \E k \in 1..4 : i \in of(k)
    <3>1. rank(i) \in 0..(n - 1)
      BY <1>6
    <3>2. \E k \in 1..4 : from(k) <= rank(i) /\ rank(i) < from(k + 1)
      <4> HIDE DEF n
      <4>1. /\ from(1) = 0 /\ from(5) = n
            /\ from(2) \in Nat /\ from(3) \in Nat /\ from(4) \in Nat
        BY <1>1
      <4> HIDE DEF from
      <4>2. /\ 1 \in 1..4 /\ 2 \in 1..4 /\ 3 \in 1..4 /\ 4 \in 1..4
            /\ 1 + 1 = 2 /\ 2 + 1 = 3 /\ 3 + 1 = 4 /\ 4 + 1 = 5
        OBVIOUS
      <4>3. CASE rank(i) < from(2)
        BY <3>1, <4>1, <4>2, <4>3
      <4>4. CASE from(2) <= rank(i) /\ rank(i) < from(3)
        BY <4>2, <4>4
      <4>5. CASE from(3) <= rank(i) /\ rank(i) < from(4)
        BY <4>2, <4>5
      <4>6. CASE from(4) <= rank(i)
        BY <1>1, <3>1, <4>1, <4>2, <4>6
      <4> QED
        BY <3>1, <4>1, <4>3, <4>4, <4>5, <4>6
    <3> HIDE DEF from
    <3> QED
      BY <1>7, <3>1, <3>2
  <2>2. \A k \in 1..4 : quartiles[k] \subseteq ids
    BY <1>4
  <2> HIDE DEF of
  <2> QED
    BY <1>4, <2>1, <2>2
<1>12. ASSUME NEW k \in 1..4, NEW l \in 1..4, k < l, NEW i \in of(k), NEW j \in of(l)
       PROVE  values[i] <= values[j]
  <2>1. i \in ids /\ j \in ids /\ rank(i) \in 0..(n - 1) /\ rank(j) \in 0..(n - 1)
    BY <1>6
  <2>2. rank(i) < from(k + 1) /\ from(l) <= rank(j)
    <3> HIDE DEF from
    <3> QED
      BY <1>7, <2>1
  <2>3. from(k + 1) <= from(l)
    <3> HIDE DEF n
    <3>1. k \in {1, 2, 3, 4} /\ l \in {1, 2, 3, 4}
      OBVIOUS
    <3> QED
      BY <1>1, <1>12, <3>1
  <2>4. from(k + 1) \in Int /\ from(l) \in Int
    BY <1>8
  <2>5. ~(rank(j) < rank(i))
    <3> HIDE DEF from, n
    <3> QED
      BY <2>1, <2>2, <2>3, <2>4
  <2>6. values[i] \in Int /\ values[j] \in Int
    BY <2>1
  <2> QED
    BY <1>6, <2>1, <2>5, <2>6
<1> HIDE DEF of, from
<1> QED
  BY <1>4, <1>9, <1>10, <1>11, <1>12

-----------------------------------------------------------------------------
(* RAGTruth *)

LEMMA SequenceOf ==
  ASSUME NEW S, IsFiniteSet(S), NEW s, s = SetToSeq(S)
  PROVE  s \in Seq(S) /\ Len(s) = Cardinality(S) /\ {s[k] : k \in DOMAIN s} = S
<1> DEFINE n == Cardinality(S)
<1>1. n \in Nat /\ ExistsBijection(1..n, S)
  BY FS_CardinalityType
<1>2. \E f \in [1..n -> S] : IsInjective(f)
  BY <1>1 DEF ExistsBijection, Bijection, Injection
<1>3. s \in [1..n -> S] /\ IsInjective(s)
  BY <1>2 DEF SetToSeq
<1>4. IsFiniteSet(1..n) /\ Cardinality(1..n) = n
  BY <1>1, FS_Interval
<1>5. s \in Surjection(1..n, S)
  <2>1. s \in Injection(1..n, S)
    BY <1>3 DEF Injection
  <2> QED
    BY <1>4, <2>1, FS_Injection
<1> HIDE DEF n
<1>6. {s[k] : k \in DOMAIN s} = S
  BY <1>3, <1>5 DEF Surjection
<1> QED
  BY <1>1, <1>3, <1>6 DEF n

Wanted(responses, split) == {r \in Lines(responses) : split \in {"any", r.split}}
Included(examples, filter) == {e \in examples : e.quality \in Qualities(filter)}
WithIssues(examples) == {e \in examples : \E span \in e.spans : SpanIssues(span, e.length) # {}}
OnlyOnce(examples) == \A d, e \in examples : d.id = e.id => d = e

\* The examples that are measured are those of the wanted quality, each once: the matrix, the
\* counts and the failures are of the same examples, and every issue of the dataset is a failure
\* in sight beside the wrong predictions (benchmarks/ragtruth.py).
THEOREM RagtruthTheorem ==
  ASSUME NEW dataset, IsFiniteSet(dataset.examples), IsFiniteSet(dataset.issues),
         OnlyOnce(dataset.examples),
         NEW filter, NEW said, \A e \in dataset.examples : said[e.id] \in Labels,
         NEW result, result = RagtruthBenchmark(dataset, filter, said),
         NEW m, m = result.report.matrix
  PROVE  /\ m.tp + m.tn + m.fp + m.fn = result.counts.included
         /\ result.counts.included + result.counts.excluded = result.counts.total
         /\ result.counts.included = Cardinality(Included(dataset.examples, filter))
         /\ result.failures = m.fp + m.fn + Cardinality(dataset.issues)
         /\ m.fp \in Nat /\ m.fn \in Nat
<1> DEFINE included == {e \in dataset.examples : e.quality \in Qualities(filter)}
           excluded == dataset.examples \ included
           names == {e.id : e \in included}
           truth == [name \in names |->
                       HumanLabel({span.implicit : span \in
                                     (CHOOSE e \in included : e.id = name).spans}, "strict")]
           pairs == {<<name, said[name]>> : name \in DOMAIN truth}
           lines == SetToSeq(pairs)
           written == {lines[k] : k \in DOMAIN lines}
           taken == [name \in DOMAIN truth |-> (CHOOSE p \in written : p[1] = name)[2]]
           summary == Report(truth, lines)
<1>1. /\ result.counts = [total |-> Cardinality(dataset.examples), included |-> Cardinality(included),
                          excluded |-> Cardinality(excluded)]
      /\ result.report = summary
      /\ result.failures = Cardinality(summary.fp) + Cardinality(summary.fn) + Cardinality(dataset.issues)
  <2> HIDE DEF summary
  <2>1. result = [counts |-> [total |-> Cardinality(dataset.examples), included |-> Cardinality(included),
                              excluded |-> Cardinality(excluded)],
                  report |-> summary,
                  failures |-> Cardinality(summary.fp) + Cardinality(summary.fn)
                                 + Cardinality(dataset.issues)]
    BY Zenon DEF RagtruthBenchmark, summary
  <2> QED
    BY <2>1
<1>2. /\ included \in SUBSET dataset.examples
      /\ dataset.examples = included \cup excluded /\ included \cap excluded = {}
  OBVIOUS
<1>3. DOMAIN truth = names /\ truth \in [names -> Labels]
  BY DEF HumanLabel, Labels
<1>4. \A name \in names : said[name] \in Labels
  OBVIOUS
<1>5. \A d, e \in included : d.id = e.id => d = e
  BY DEF OnlyOnce
<1> HIDE DEF truth, included
<1>6. /\ IsFiniteSet(included) /\ Cardinality(included) \in Nat /\ Cardinality(excluded) \in Nat
      /\ Cardinality(dataset.examples) = Cardinality(included) + Cardinality(excluded)
  <2> DEFINE all == dataset.examples
  <2>1. /\ IsFiniteSet(all) /\ included \in SUBSET all
        /\ all = included \cup excluded /\ included \cap excluded = {}
    BY <1>2
  <2> HIDE DEF all, excluded
  <2>2. /\ IsFiniteSet(included) /\ Cardinality(included) \in Nat /\ Cardinality(excluded) \in Nat
        /\ Cardinality(all) = Cardinality(included) + Cardinality(excluded)
    BY <2>1, Splits
  <2> QED
    BY <2>2 DEF all
<1>7. IsFiniteSet(names) /\ Cardinality(names) = Cardinality(included)
  <2> DEFINE f == [e \in included |-> e.id]
  <2>1. f \in Surjection(included, names) /\ IsInjective(f)
    BY <1>5 DEF Surjection, IsInjective
  <2> HIDE DEF f, names
  <2> QED
    BY <1>6, <2>1, SameSize
<1> HIDE DEF names
<1>8. IsFiniteSet(pairs) /\ Cardinality(pairs) = Cardinality(names)
  <2> DEFINE f == [name \in names |-> <<name, said[name]>>]
  <2>1. f \in Surjection(names, pairs) /\ IsInjective(f)
    BY <1>3 DEF Surjection, IsInjective
  <2> HIDE DEF f, pairs
  <2> QED
    BY <1>7, <2>1, SameSize
<1>9. lines \in Seq(pairs) /\ Len(lines) = Cardinality(names) /\ written = pairs
  <2> HIDE DEF pairs
  <2> QED
    BY <1>8, SequenceOf
<1>10. \A name \in names : taken[name] = said[name]
  <2> TAKE name \in names
  <2>1. (CHOOSE p \in pairs : p[1] = name) = <<name, said[name]>>
    BY <1>3
  <2>2. taken[name] = <<name, said[name]>>[2]
    <3> HIDE DEF pairs, lines
    <3> QED
      BY <1>3, <1>9, <2>1
  <2> QED
    BY <2>2
<1>11. taken \in [names -> Labels]
  <2>1. DOMAIN taken = names /\ taken = [name \in names |-> taken[name]]
    BY <1>3
  <2> HIDE DEF taken
  <2> QED
    BY <1>4, <1>10, <2>1
<1>12. ~Misaligned(truth, lines)
  <2>1. {p[1] : p \in written} = names
    <3>1. {p[1] : p \in pairs} = names
      <4>1. \A p \in pairs : p[1] \in names
        BY <1>3
      <4>2. \A name \in names : <<name, said[name]>> \in pairs /\ <<name, said[name]>>[1] = name
        BY <1>3
      <4> HIDE DEF pairs
      <4> QED
        BY <4>1, <4>2
    <3> HIDE DEF written, pairs
    <3> QED
      BY <1>9, <3>1
  <2>2. {lines[k][1] : k \in DOMAIN lines} = {p[1] : p \in written}
    <3> HIDE DEF lines
    <3> QED
      OBVIOUS
  <2> HIDE DEF lines
  <2> QED
    BY <1>3, <1>9, <2>1, <2>2, Zenon DEF Misaligned
<1>13. /\ m = Confusion(truth, taken)
       /\ summary.fp = Hits(truth, taken, "G", "H") /\ summary.fn = Hits(truth, taken, "H", "G")
  <2>1. summary = [matrix |-> Confusion(truth, taken), metrics |-> Metrics(Confusion(truth, taken)),
                   fp |-> Hits(truth, taken, "G", "H"), fn |-> Hits(truth, taken, "H", "G")]
    BY <1>12, Zenon DEF Report
  <2> HIDE DEF summary, taken
  <2> QED
    BY <1>1, <2>1
<1> HIDE DEF summary, taken, written, lines, pairs
<1>14. /\ Cardinality(summary.fp) = m.fp /\ Cardinality(summary.fn) = m.fn
  BY <1>13 DEF Confusion
<1>15. m.tp + m.tn + m.fp + m.fn = Cardinality(names) /\ m.fp \in Nat /\ m.fn \in Nat
  <2>1. ASSUME NEW S, IsFiniteSet(S), NEW f \in [S -> Labels], NEW g \in [S -> Labels],
               NEW matrix, matrix = Confusion(f, g)
        PROVE  /\ matrix.tp + matrix.tn + matrix.fp + matrix.fn = Cardinality(S)
               /\ matrix.fp \in Nat /\ matrix.fn \in Nat
    BY <2>1, MatrixTheorem
  <2> QED
    BY <1>3, <1>7, <1>11, <1>13, <2>1
<1> HIDE DEF excluded
<1>16. /\ m.tp + m.tn + m.fp + m.fn = result.counts.included
       /\ result.counts.included + result.counts.excluded = result.counts.total
       /\ result.counts.included = Cardinality(included)
       /\ result.failures = m.fp + m.fn + Cardinality(dataset.issues)
  BY <1>1, <1>6, <1>7, <1>14, <1>15
<1> QED
  BY <1>15, <1>16 DEF included, Included

LEMMA FiniteImage ==
  ASSUME NEW S, IsFiniteSet(S), NEW f
  PROVE  IsFiniteSet({f[x] : x \in S})
<1> DEFINE g == [x \in S |-> f[x]]
           T == {f[x] : x \in S}
<1>1. g \in Surjection(S, T)
  BY DEF Surjection
<1> HIDE DEF g, T
<1>2. IsFiniteSet(T)
  BY <1>1, FS_Surjection
<1> QED
  BY <1>2 DEF T

Codes == {"END_BEFORE_START", "END_OUT_OF_RANGE", "TEXT_OFFSET_MISMATCH", "START_OUT_OF_RANGE"}

\* What is loaded of a file of responses has each of them once, and every example with an
\* annotation whose offsets do not fit is in sight in the issues (datasets/ragtruth.py).
THEOREM IssuesTheorem ==
  ASSUME NEW sources, NEW D, NEW responses \in Seq(D),
         \A r \in Lines(responses) : IsFiniteSet(r.spans),
         NEW split, NEW dataset, dataset = LoadRagtruth(sources, responses, split),
         dataset # ValueError
  PROVE  /\ dataset.examples = Wanted(responses, split) /\ OnlyOnce(dataset.examples)
         /\ IsFiniteSet(dataset.examples) /\ IsFiniteSet(dataset.issues)
         /\ Cardinality(WithIssues(dataset.examples)) <= Cardinality(dataset.issues)
<1> DEFINE wanted == {r \in Lines(responses) : split \in {"any", r.split}}
           noted(r, span) == {<<r.id, span, code>> : code \in SpanIssues(span, r.length)}
           of(r) == UNION {noted(r, span) : span \in r.spans}
           issues == UNION {of(r) : r \in wanted}
           broken == {e \in wanted : \E span \in e.spans : SpanIssues(span, e.length) # {}}
<1>1. /\ dataset = [examples |-> wanted, issues |-> issues]
      /\ Distinct(responses, LAMBDA r : r.id)
  <2>1. ~(~Distinct(sources, LAMBDA s : s) \/ ~Distinct(responses, LAMBDA r : r.id))
    BY Zenon DEF LoadRagtruth
  <2>2. dataset = [examples |-> wanted, issues |-> issues]
    BY <2>1, Zenon DEF LoadRagtruth
  <2> QED
    BY <2>1, <2>2
<1>2. \A m, n \in DOMAIN responses : responses[m].id = responses[n].id => m = n
  BY <1>1 DEF Distinct
<1>3. \A d, e \in wanted : d.id = e.id => d = e
  BY <1>2 DEF Lines
<1>4. IsFiniteSet(wanted)
  <2>1. IsFiniteSet(DOMAIN responses)
    <3> DEFINE n == Len(responses)
    <3>1. DOMAIN responses = 1..n /\ n \in Int
      OBVIOUS
    <3> HIDE DEF n
    <3>2. IsFiniteSet(1..n)
      BY <3>1, FS_Interval
    <3> QED
      BY <3>1, <3>2
  <2>2. IsFiniteSet(Lines(responses))
    BY <2>1, FiniteImage DEF Lines
  <2>3. wanted \in SUBSET Lines(responses)
    OBVIOUS
  <2> HIDE DEF wanted
  <2> QED
    BY <2>2, <2>3, FS_Subset
<1>5. ASSUME NEW r, NEW span
      PROVE  IsFiniteSet(noted(r, span))
  <2> DEFINE f == [code \in SpanIssues(span, r.length) |-> <<r.id, span, code>>]
  <2>1. SpanIssues(span, r.length) \in SUBSET Codes
    BY DEF SpanIssues, Codes
  <2>2. IsFiniteSet(Codes)
    <3>1. IsFiniteSet({} \cup {"END_BEFORE_START"})
      BY FS_EmptySet, FS_AddElement, Zenon
    <3>2. IsFiniteSet(({} \cup {"END_BEFORE_START"}) \cup {"END_OUT_OF_RANGE"})
      BY <3>1, FS_AddElement, Zenon
    <3>3. IsFiniteSet((({} \cup {"END_BEFORE_START"}) \cup {"END_OUT_OF_RANGE"})
                        \cup {"TEXT_OFFSET_MISMATCH"})
      BY <3>2, FS_AddElement, Zenon
    <3>4. IsFiniteSet(((({} \cup {"END_BEFORE_START"}) \cup {"END_OUT_OF_RANGE"})
                        \cup {"TEXT_OFFSET_MISMATCH"}) \cup {"START_OUT_OF_RANGE"})
      BY <3>3, FS_AddElement, Zenon
    <3>5. Codes = ((({} \cup {"END_BEFORE_START"}) \cup {"END_OUT_OF_RANGE"})
                     \cup {"TEXT_OFFSET_MISMATCH"}) \cup {"START_OUT_OF_RANGE"}
      BY DEF Codes
    <3> QED
      BY <3>4, <3>5
  <2>3. IsFiniteSet(SpanIssues(span, r.length))
    BY <2>1, <2>2, FS_Subset
  <2>4. DOMAIN f = SpanIssues(span, r.length)
    OBVIOUS
  <2>5. noted(r, span) = {f[code] : code \in SpanIssues(span, r.length)}
    OBVIOUS
  <2> HIDE DEF f, noted
  <2> QED
    BY <2>3, <2>4, <2>5, FiniteImage
<1>6. ASSUME NEW r \in wanted
      PROVE  IsFiniteSet(of(r))
  <2> DEFINE f == [span \in r.spans |-> noted(r, span)]
             T == {f[span] : span \in r.spans}
  <2>1. IsFiniteSet(T)
    <3>1. IsFiniteSet(r.spans) /\ DOMAIN f = r.spans
      OBVIOUS
    <3> HIDE DEF f
    <3> QED
      BY <3>1, FiniteImage
  <2>2. \A s \in T : IsFiniteSet(s)
    <3> HIDE DEF noted
    <3> QED
      BY <1>5
  <2>3. of(r) = UNION T
    <3> HIDE DEF noted
    <3> QED
      OBVIOUS
  <2> HIDE DEF T, of
  <2> QED
    BY <2>1, <2>2, <2>3, FS_UNION
<1>7. IsFiniteSet(issues)
  <2> DEFINE f == [r \in wanted |-> of(r)]
             T == {f[r] : r \in wanted}
  <2> HIDE DEF of, wanted
  <2>1. IsFiniteSet(T)
    <3>1. DOMAIN f = wanted
      OBVIOUS
    <3> HIDE DEF f
    <3> QED
      BY <1>4, <3>1, FiniteImage
  <2>2. \A s \in T : IsFiniteSet(s)
    BY <1>6
  <2>3. issues = UNION T
    OBVIOUS
  <2> HIDE DEF T, issues
  <2> QED
    BY <2>1, <2>2, <2>3, FS_UNION
<1>8. \A e \in broken : \E issue \in issues : issue[1] = e.id
  <2> TAKE e \in broken
  <2>1. PICK span \in e.spans : SpanIssues(span, e.length) # {}
    OBVIOUS
  <2>2. PICK code \in SpanIssues(span, e.length) : <<e.id, span, code>> \in noted(e, span)
    BY <2>1
  <2> HIDE DEF noted
  <2>3. <<e.id, span, code>> \in of(e)
    BY <2>1, <2>2
  <2> HIDE DEF of
  <2>4. <<e.id, span, code>> \in issues
    BY <2>3
  <2> QED
    BY <2>4
<1>9. Cardinality(broken) <= Cardinality(issues)
  <2> DEFINE f == [e \in broken |-> CHOOSE issue \in issues : issue[1] = e.id]
  <2>1. \A d, e \in broken : d.id = e.id => d = e
    BY <1>3
  <2> HIDE DEF broken, issues
  <2>2. f \in [broken -> issues] /\ \A e \in broken : f[e][1] = e.id
    BY <1>8
  <2>3. f \in Injection(broken, issues)
    <3> HIDE DEF f
    <3> QED
      BY <2>1, <2>2 DEF Injection, IsInjective
  <2> QED
    BY <1>7, <2>3, FS_Injection
<1> HIDE DEF issues
<1>10. dataset.examples = wanted /\ dataset.issues = issues
  BY <1>1
<1>11. wanted = Wanted(responses, split) /\ broken = WithIssues(wanted)
  BY DEF Wanted, WithIssues
<1>12. OnlyOnce(wanted)
  BY <1>3 DEF OnlyOnce
<1> HIDE DEF wanted, broken
<1> QED
  BY <1>4, <1>7, <1>9, <1>10, <1>11, <1>12

-----------------------------------------------------------------------------
(* Induction over sets, which the proofs about sums need *)

LEMMA LeastOf ==
  ASSUME NEW T, T \subseteq Nat, T # {}
  PROVE  \E m \in T : \A n \in T : m <= n
<1>1. PICK m \in T : \A n \in T : ~ (<<n, m>> \in OpToRel(<, Nat))
  BY WFMin, NatLessThanWellFounded, Zenon
<1>2. \A n \in T : ~ (n < m)
  BY <1>1 DEF OpToRel
<1> QED
  BY <1>2

LEMMA CountingUp ==
  ASSUME NEW P, 0 \in P, \A n \in Nat : n \in P => n + 1 \in P
  PROVE  \A n \in Nat : n \in P
<1> SUFFICES ASSUME Nat \ P # {}
             PROVE  FALSE
  OBVIOUS
<1>1. PICK m \in Nat \ P : \A n \in Nat \ P : m <= n
  BY LeastOf
<1>2. m # 0
  BY <1>1
<1>3. m - 1 \in Nat /\ ~(m <= m - 1)
  BY <1>1, <1>2
<1>4. m - 1 \in P
  BY <1>1, <1>3
<1>5. (m - 1) + 1 \in P
  BY <1>3, <1>4
<1> QED
  BY <1>1, <1>5

LEMMA SubsetInduction ==
  ASSUME NEW S, IsFiniteSet(S), NEW P, {} \in P,
         \A T \in SUBSET S : T # {} /\ (\A x \in T : T \ {x} \in P) => T \in P
  PROVE  \A T \in SUBSET S : T \in P
<1> SUFFICES ASSUME NEW U \in SUBSET S, U \notin P
             PROVE  FALSE
  OBVIOUS
<1> DEFINE sizes == {Cardinality(T) : T \in (SUBSET S) \ P}
<1>1. \A T \in SUBSET S : IsFiniteSet(T) /\ Cardinality(T) \in Nat
  BY FS_Subset, FS_CardinalityType
<1>2. sizes \subseteq Nat /\ sizes # {}
  BY <1>1
<1>3. PICK m \in sizes : \A n \in sizes : m <= n
  <2> HIDE DEF sizes
  <2> QED
    BY <1>2, LeastOf
<1>4. PICK T \in (SUBSET S) \ P : m = Cardinality(T)
  BY <1>3
<1>5. ASSUME NEW x \in T
      PROVE  T \ {x} \in P
  <2>1. Cardinality(T \ {x}) = Cardinality(T) - 1
    BY <1>1, <1>4, FS_RemoveElement
  <2>2. Cardinality(T \ {x}) \notin sizes
    <3>1. Cardinality(T) \in Nat /\ ~(m <= Cardinality(T \ {x}))
      BY <1>1, <1>4, <2>1
    <3> HIDE DEF sizes
    <3> QED
      BY <1>3, <3>1
  <2> QED
    BY <1>4, <2>2
<1> QED
  BY <1>4, <1>5

-----------------------------------------------------------------------------
(* A fold over a finite set obeys its own definition *)

Picks(s) == CHOOSE x \in s : TRUE

Folds(f, S, V, base, step) ==
  /\ f \in [SUBSET S -> V]
  /\ f[{}] = base
  /\ \A s \in SUBSET S : s # {} => f[s] = step[s][f[s \ {Picks(s)}]]

LEMMA FoldExists ==
  ASSUME NEW S, IsFiniteSet(S), NEW V, NEW base \in V, NEW step,
         \A s \in SUBSET S : \A v \in V : step[s][v] \in V
  PROVE  \E f : Folds(f, S, V, base, step)
<1> DEFINE upTo(k) == {s \in SUBSET S : Cardinality(s) <= k}
           folds(f, s) == f[s] = IF s = {} THEN base ELSE step[s][f[s \ {Picks(s)}]]
           P == {k \in Nat : \E f \in [upTo(k) -> V] : \A s \in upTo(k) : folds(f, s)}
<1>1. \A s \in SUBSET S : IsFiniteSet(s) /\ Cardinality(s) \in Nat /\ (Cardinality(s) = 0 <=> s = {})
  BY FS_Subset, FS_CardinalityType, FS_EmptySet
<1>2. ASSUME NEW k \in Nat, NEW s \in upTo(k + 1), s # {}
      PROVE  s \ {Picks(s)} \in upTo(k)
  <2>1. Picks(s) \in s
    BY <1>2 DEF Picks
  <2>2. Cardinality(s \ {Picks(s)}) = Cardinality(s) - 1
    BY <1>1, <2>1, FS_RemoveElement
  <2> QED
    BY <1>1, <1>2, <2>2
<1>3. 0 \in P
  <2> DEFINE f == [s \in upTo(0) |-> base]
  <2>1. \A s \in upTo(0) : s = {}
    BY <1>1
  <2>2. f \in [upTo(0) -> V] /\ \A s \in upTo(0) : folds(f, s)
    BY <2>1
  <2> QED
    BY <2>2
<1>4. ASSUME NEW k \in Nat, k \in P
      PROVE  k + 1 \in P
  <2>1. PICK f \in [upTo(k) -> V] : \A s \in upTo(k) : folds(f, s)
    BY <1>4
  <2> DEFINE g == [s \in upTo(k + 1) |-> IF s = {} THEN base ELSE step[s][f[s \ {Picks(s)}]]]
  <2>2. g \in [upTo(k + 1) -> V]
    BY <1>2, <2>1
  <2>3. \A s \in upTo(k) : s \in upTo(k + 1) /\ g[s] = f[s]
    BY <1>1, <2>1
  <2>4. ASSUME NEW s \in upTo(k + 1)
        PROVE  folds(g, s)
    <3>1. CASE s = {}
      BY <3>1
    <3>2. CASE s # {}
      <4>1. g[s \ {Picks(s)}] = f[s \ {Picks(s)}]
        BY <1>2, <2>3, <3>2
      <4> QED
        BY <3>2, <4>1
    <3> QED
      BY <3>1, <3>2
  <2> HIDE DEF g, upTo, folds
  <2>5. k + 1 \in Nat
    OBVIOUS
  <2> QED
    BY <2>2, <2>4, <2>5
<1>5. Cardinality(S) \in P
  <2> HIDE DEF P
  <2> QED
    BY <1>1, <1>3, <1>4, CountingUp
<1>6. upTo(Cardinality(S)) = SUBSET S
  BY FS_Subset
<1>7. PICK f \in [SUBSET S -> V] : \A s \in SUBSET S : folds(f, s)
  BY <1>5, <1>6
<1>8. Folds(f, S, V, base, step)
  BY <1>7 DEF Folds
<1> QED
  BY <1>8

\* A sum over a finite set obeys its definition: some element is taken first, then the others.
SumsUp(f, S, g) ==
  /\ f \in [SUBSET S -> Int]
  /\ f[{}] = 0
  /\ \A s \in SUBSET S : s # {} => f[s] = g[Picks(s)] + f[s \ {Picks(s)}]

LEMMA SumUnfolds ==
  ASSUME NEW S, IsFiniteSet(S), NEW g, \A x \in S : g[x] \in Int
  PROVE  \E f : SumsUp(f, S, g) /\ SumFunctionOnSet(g, S) = f[S]
<1> DEFINE body(f) == [s \in SUBSET S |-> IF s = {} THEN 0 ELSE g[Picks(s)] + f[s \ {Picks(s)}]]
           chosen == CHOOSE f : f = body(f)
           step == [s \in SUBSET S |-> [v \in Int |-> IF s = {} THEN 0 ELSE g[Picks(s)] + v]]
<1>1. SumFunctionOnSet(g, S) = chosen[S]
  BY DEF SumFunctionOnSet, FoldFunctionOnSet, MapThenFoldSet, Picks
<1>2. \A s \in SUBSET S : s # {} => Picks(s) \in S /\ s \ {Picks(s)} \in SUBSET S
  BY DEF Picks
<1>3. PICK h \in [SUBSET S -> Int] :
        /\ h[{}] = 0
        /\ \A s \in SUBSET S : s # {} => h[s] = step[s][h[s \ {Picks(s)}]]
  <2>1. \A s \in SUBSET S : \A v \in Int : step[s][v] \in Int
    BY <1>2
  <2>2. 0 \in Int
    OBVIOUS
  <2> HIDE DEF step
  <2>3. PICK h : Folds(h, S, Int, 0, step)
    BY <2>1, <2>2, FoldExists
  <2> QED
    BY <2>3 DEF Folds
<1>4. h = body(h)
  <2>1. \A s \in SUBSET S : s # {} => step[s][h[s \ {Picks(s)}]] = g[Picks(s)] + h[s \ {Picks(s)}]
    BY <1>2, <1>3
  <2> HIDE DEF step
  <2>2. \A s \in SUBSET S : h[s] = body(h)[s]
    BY <1>3, <2>1
  <2> QED
    BY <1>3, <2>2
<1> HIDE DEF body
<1>5. chosen = body(chosen)
  BY <1>4
<1> HIDE DEF chosen
<1>6. /\ chosen[{}] = 0
      /\ \A s \in SUBSET S : s # {} => chosen[s] = g[Picks(s)] + chosen[s \ {Picks(s)}]
  BY <1>5 DEF body
<1> DEFINE P == {s \in SUBSET S : chosen[s] \in Int}
<1>7. \A T \in SUBSET S : T \in P
  <2>1. {} \in P
    BY <1>6
  <2>2. ASSUME NEW T \in SUBSET S, T # {}, \A x \in T : T \ {x} \in P
        PROVE  T \in P
    <3>1. Picks(T) \in T
      BY <2>2 DEF Picks
    <3>2. chosen[T \ {Picks(T)}] \in Int
      BY <2>2, <3>1
    <3> QED
      BY <1>2, <1>6, <2>2, <3>2
  <2> HIDE DEF P
  <2> QED
    BY <2>1, <2>2, SubsetInduction
<1>8. chosen \in [SUBSET S -> Int]
  <2>1. chosen = [s \in SUBSET S |-> chosen[s]]
    BY <1>5 DEF body
  <2> QED
    BY <1>7, <2>1
<1>9. SumsUp(chosen, S, g)
  BY <1>6, <1>8 DEF SumsUp
<1> QED
  BY <1>1, <1>9

LEMMA SumIsInteger ==
  ASSUME NEW S, IsFiniteSet(S), NEW g, \A x \in S : g[x] \in Int
  PROVE  SumFunctionOnSet(g, S) \in Int
<1>1. PICK f : SumsUp(f, S, g) /\ SumFunctionOnSet(g, S) = f[S]
  BY SumUnfolds
<1>2. S \in SUBSET S
  OBVIOUS
<1> QED
  BY <1>1, <1>2 DEF SumsUp

LEMMA SumOfNothing == ASSUME NEW g PROVE SumFunctionOnSet(g, {}) = 0
<1>1. IsFiniteSet({}) /\ \A x \in {} : g[x] \in Int
  BY FS_EmptySet
<1>2. \E f : SumsUp(f, {}, g) /\ SumFunctionOnSet(g, {}) = f[{}]
  BY <1>1, SumUnfolds
<1> QED
  BY <1>2 DEF SumsUp

\* Two folds with the same steps are the same.
LEMMA SumPicks ==
  ASSUME NEW S, IsFiniteSet(S), S # {}, NEW g, \A x \in S : g[x] \in Int
  PROVE  /\ Picks(S) \in S
         /\ SumFunctionOnSet(g, S) = g[Picks(S)] + SumFunctionOnSet(g, S \ {Picks(S)})
<1> DEFINE U == S \ {Picks(S)}
<1>1. IsFiniteSet(U) /\ Picks(S) \in S /\ U \in SUBSET S
  BY FS_RemoveElement DEF Picks
<1>2. PICK f : SumsUp(f, S, g) /\ SumFunctionOnSet(g, S) = f[S]
  BY SumUnfolds
<1> HIDE DEF U
<1>3. PICK h : SumsUp(h, U, g) /\ SumFunctionOnSet(g, U) = h[U]
  <2>1. \A x \in U : g[x] \in Int
    BY <1>1
  <2> QED
    BY <1>1, <2>1, SumUnfolds
<1> DEFINE P == {s \in SUBSET U : h[s] = f[s]}
<1>4. \A T \in SUBSET U : T \in P
  <2>1. {} \in P
    BY <1>2, <1>3 DEF SumsUp
  <2>2. ASSUME NEW T \in SUBSET U, T # {}, \A x \in T : T \ {x} \in P
        PROVE  T \in P
    <3>1. Picks(T) \in T
      BY <2>2 DEF Picks
    <3>2. h[T \ {Picks(T)}] = f[T \ {Picks(T)}]
      BY <2>2, <3>1
    <3>3. T \in SUBSET S
      BY <1>1
    <3> QED
      BY <1>2, <1>3, <2>2, <3>2, <3>3 DEF SumsUp
  <2> HIDE DEF P
  <2> QED
    BY <1>1, <2>1, <2>2, SubsetInduction
<1>5. h[U] = f[U]
  BY <1>4
<1>6. f[S] = g[Picks(S)] + f[U]
  BY <1>2 DEF U, SumsUp
<1> QED
  BY <1>1, <1>2, <1>3, <1>5, <1>6 DEF U

\* Any element may be taken first.
LEMMA SumStep ==
  ASSUME NEW S, IsFiniteSet(S), NEW g, \A y \in S : g[y] \in Int, NEW x \in S
  PROVE  SumFunctionOnSet(g, S) = g[x] + SumFunctionOnSet(g, S \ {x})
<1> DEFINE sum(s) == SumFunctionOnSet(g, s)
           P == {s \in SUBSET S : \A y \in s : sum(s) = g[y] + sum(s \ {y})}
<1>1. \A s \in SUBSET S : IsFiniteSet(s) /\ (\A y \in s : g[y] \in Int) /\ sum(s) \in Int
  BY FS_Subset, SumIsInteger
<1>2. ASSUME NEW T \in SUBSET S, T # {}, \A y \in T : T \ {y} \in P
      PROVE  T \in P
  <2> DEFINE z == Picks(T)
  <2>1. z \in T /\ sum(T) = g[z] + sum(T \ {z})
    BY <1>1, <1>2, SumPicks
  <2> HIDE DEF z, sum
  <2>2. ASSUME NEW y \in T, y # z
        PROVE  sum(T) = g[y] + sum(T \ {y})
    <3>1. sum(T \ {z}) = g[y] + sum((T \ {z}) \ {y})
      BY <1>2, <2>1, <2>2
    <3>2. sum(T \ {y}) = g[z] + sum((T \ {y}) \ {z})
      BY <1>2, <2>1, <2>2
    <3>3. (T \ {z}) \ {y} = (T \ {y}) \ {z}
      OBVIOUS
    <3>4. g[y] \in Int /\ g[z] \in Int /\ sum((T \ {z}) \ {y}) \in Int
      <4>1. (T \ {z}) \ {y} \in SUBSET S
        OBVIOUS
      <4> QED
        BY <1>1, <2>1, <4>1
    <3> DEFINE rest == sum((T \ {z}) \ {y})
    <3>5. sum(T) = g[z] + (g[y] + rest) /\ sum(T \ {y}) = g[z] + rest /\ rest \in Int
      BY <2>1, <3>1, <3>2, <3>3, <3>4
    <3> HIDE DEF rest
    <3> QED
      BY <3>4, <3>5
  <2> QED
    BY <2>1, <2>2
<1>3. {} \in P
  OBVIOUS
<1> HIDE DEF P
<1>4. \A T \in SUBSET S : T \in P
  BY <1>2, <1>3, SubsetInduction
<1> QED
  BY <1>4 DEF P

\* Sums of values that are as large, or the same, or of which none counts.
LEMMA SumMonotone ==
  ASSUME NEW S, IsFiniteSet(S), NEW f, NEW g,
         \A x \in S : f[x] \in Int /\ g[x] \in Int /\ f[x] <= g[x]
  PROVE  SumFunctionOnSet(f, S) <= SumFunctionOnSet(g, S)
<1> DEFINE less(s) == SumFunctionOnSet(f, s)
           more(s) == SumFunctionOnSet(g, s)
           P == {s \in SUBSET S : less(s) <= more(s)}
<1>1. \A s \in SUBSET S : /\ IsFiniteSet(s) /\ less(s) \in Int /\ more(s) \in Int
                          /\ \A x \in s : f[x] \in Int /\ g[x] \in Int
  BY FS_Subset, SumIsInteger
<1>2. ASSUME NEW T \in SUBSET S, T # {}, \A y \in T : T \ {y} \in P
      PROVE  T \in P
  <2>1. PICK x \in T : TRUE
    BY <1>2
  <2>2. less(T) = f[x] + less(T \ {x}) /\ more(T) = g[x] + more(T \ {x})
    BY <1>1, <2>1, SumStep
  <2>3. T \ {x} \in SUBSET S /\ T \ {x} \in P
    BY <1>2, <2>1
  <2> HIDE DEF less, more
  <2> QED
    BY <1>1, <2>1, <2>2, <2>3
<1>3. {} \in P
  BY SumOfNothing
<1> HIDE DEF P
<1>4. \A T \in SUBSET S : T \in P
  BY <1>2, <1>3, SubsetInduction
<1> QED
  BY <1>4 DEF P

\* Values that are the same, and a value for every element.
LEMMA SumSame ==
  ASSUME NEW S, IsFiniteSet(S), NEW f, NEW g, \A x \in S : f[x] \in Int /\ g[x] = f[x]
  PROVE  SumFunctionOnSet(f, S) = SumFunctionOnSet(g, S)
<1>1. \A x \in S : f[x] \in Int /\ g[x] \in Int /\ f[x] <= g[x] /\ g[x] <= f[x]
  OBVIOUS
<1>2. SumFunctionOnSet(f, S) <= SumFunctionOnSet(g, S)
  BY <1>1, SumMonotone
<1>3. SumFunctionOnSet(g, S) <= SumFunctionOnSet(f, S)
  BY <1>1, SumMonotone
<1>4. SumFunctionOnSet(f, S) \in Int /\ SumFunctionOnSet(g, S) \in Int
  BY <1>1, SumIsInteger
<1> QED
  BY <1>2, <1>3, <1>4

LEMMA SumScaled ==
  ASSUME NEW S, IsFiniteSet(S), NEW c \in Int, NEW f, NEW g,
         \A x \in S : f[x] \in Int /\ g[x] = c * f[x]
  PROVE  SumFunctionOnSet(g, S) = c * SumFunctionOnSet(f, S)
<1> DEFINE one(s) == SumFunctionOnSet(f, s)
           all(s) == SumFunctionOnSet(g, s)
           P == {s \in SUBSET S : all(s) = c * one(s)}
<1>1. \A s \in SUBSET S : /\ IsFiniteSet(s) /\ one(s) \in Int
                          /\ \A x \in s : f[x] \in Int /\ g[x] \in Int
  <2>1. \A x \in S : f[x] \in Int /\ g[x] \in Int
    OBVIOUS
  <2> QED
    BY <2>1, FS_Subset, SumIsInteger
<1>2. ASSUME NEW T \in SUBSET S, T # {}, \A y \in T : T \ {y} \in P
      PROVE  T \in P
  <2>1. PICK x \in T : TRUE
    BY <1>2
  <2>2. one(T) = f[x] + one(T \ {x}) /\ all(T) = g[x] + all(T \ {x})
    BY <1>1, <2>1, SumStep
  <2>3. T \ {x} \in SUBSET S /\ all(T \ {x}) = c * one(T \ {x})
    BY <1>2, <2>1
  <2>4. one(T \ {x}) \in Int /\ f[x] \in Int /\ g[x] = c * f[x]
    BY <1>1, <2>1, <2>3
  <2> DEFINE rest == one(T \ {x})
             first == f[x]
  <2>5. all(T) = c * first + c * rest /\ one(T) = first + rest
    BY <2>2, <2>3, <2>4
  <2>6. rest \in Int /\ first \in Int
    BY <2>4
  <2> HIDE DEF one, all, rest, first
  <2>7. c * first + c * rest = c * (first + rest)
    BY <2>6
  <2>8. all(T) = c * one(T)
    BY <2>5, <2>7
  <2> QED
    BY <2>8
<1>3. {} \in P
  <2>1. all({}) = 0 /\ one({}) = 0
    BY SumOfNothing
  <2> HIDE DEF one, all
  <2> QED
    BY <2>1
<1> HIDE DEF P
<1>4. \A T \in SUBSET S : T \in P
  BY <1>2, <1>3, SubsetInduction
<1> QED
  BY <1>4 DEF P

LEMMA SumOfOnes ==
  ASSUME NEW S, IsFiniteSet(S), NEW g, \A x \in S : g[x] = 1
  PROVE  SumFunctionOnSet(g, S) = Cardinality(S)
<1> DEFINE sum(s) == SumFunctionOnSet(g, s)
           P == {s \in SUBSET S : sum(s) = Cardinality(s)}
<1>1. \A s \in SUBSET S : /\ IsFiniteSet(s) /\ Cardinality(s) \in Nat
                          /\ \A x \in s : g[x] \in Int /\ g[x] = 1
  BY FS_Subset, FS_CardinalityType
<1>2. ASSUME NEW T \in SUBSET S, T # {}, \A y \in T : T \ {y} \in P
      PROVE  T \in P
  <2>1. PICK x \in T : TRUE
    BY <1>2
  <2>2. sum(T) = 1 + sum(T \ {x})
    BY <1>1, <2>1, SumStep
  <2>3. T \ {x} \in SUBSET S /\ T \ {x} \in P /\ Cardinality(T \ {x}) = Cardinality(T) - 1
    BY <1>1, <1>2, <2>1, FS_RemoveElement
  <2> HIDE DEF sum
  <2> QED
    BY <1>1, <2>2, <2>3
<1>3. {} \in P
  BY SumOfNothing, FS_EmptySet
<1> HIDE DEF P
<1>4. \A T \in SUBSET S : T \in P
  BY <1>2, <1>3, SubsetInduction
<1> QED
  BY <1>4 DEF P

\* A sum of values from 0 to some most lies between 0 and as many of the most as there are values.
LEMMA SumBounded ==
  ASSUME NEW S, IsFiniteSet(S), NEW c \in Nat, NEW g, \A x \in S : g[x] \in 0..c
  PROVE  /\ SumFunctionOnSet(g, S) \in Nat
         /\ SumFunctionOnSet(g, S) <= c * Cardinality(S)
<1> DEFINE ones == [x \in S |-> 1]
           none == [x \in S |-> 0]
           most == [x \in S |-> c]
<1>1. SumFunctionOnSet(ones, S) = Cardinality(S)
  BY SumOfOnes
<1>2. SumFunctionOnSet(most, S) = c * SumFunctionOnSet(ones, S)
  <2>1. \A x \in S : ones[x] \in Int /\ most[x] = c * ones[x]
    OBVIOUS
  <2> HIDE DEF ones, most
  <2> QED
    BY <2>1, SumScaled
<1>3. SumFunctionOnSet(none, S) = 0 * SumFunctionOnSet(ones, S)
  <2>1. \A x \in S : ones[x] \in Int /\ none[x] = 0 * ones[x]
    OBVIOUS
  <2> HIDE DEF ones, none
  <2> QED
    BY <2>1, SumScaled
<1>4. \A x \in S : /\ none[x] \in Int /\ g[x] \in Int /\ most[x] \in Int
                   /\ none[x] <= g[x] /\ g[x] <= most[x]
  OBVIOUS
<1> HIDE DEF ones, none, most
<1>5. SumFunctionOnSet(none, S) <= SumFunctionOnSet(g, S)
  BY <1>4, SumMonotone
<1>6. SumFunctionOnSet(g, S) <= SumFunctionOnSet(most, S)
  BY <1>4, SumMonotone
<1>7. Cardinality(S) \in Nat /\ SumFunctionOnSet(g, S) \in Int
  BY <1>4, FS_CardinalityType, SumIsInteger
<1> QED
  BY <1>1, <1>2, <1>3, <1>5, <1>6, <1>7

\* A sum of natural numbers is no less than any of them.
LEMMA SumHasPart ==
  ASSUME NEW S, IsFiniteSet(S), NEW g, \A x \in S : g[x] \in Nat
  PROVE  /\ SumFunctionOnSet(g, S) \in Nat
         /\ \A x \in S : g[x] <= SumFunctionOnSet(g, S)
<1>1. \A s \in SUBSET S : SumFunctionOnSet(g, s) \in Nat
  <2> TAKE s \in SUBSET S
  <2> DEFINE none == [x \in s |-> 0]
             ones == [x \in s |-> 1]
  <2>1. IsFiniteSet(s) /\ \A x \in s : none[x] \in Int /\ g[x] \in Int /\ none[x] <= g[x]
    BY FS_Subset
  <2>2. \A x \in s : ones[x] \in Int /\ none[x] = 0 * ones[x]
    OBVIOUS
  <2> HIDE DEF none, ones
  <2>3. SumFunctionOnSet(none, s) = 0 * SumFunctionOnSet(ones, s)
    BY <2>1, <2>2, SumScaled
  <2>4. SumFunctionOnSet(ones, s) \in Int /\ SumFunctionOnSet(g, s) \in Int
    BY <2>1, <2>2, SumIsInteger
  <2>5. SumFunctionOnSet(none, s) <= SumFunctionOnSet(g, s)
    BY <2>1, SumMonotone
  <2> QED
    BY <2>3, <2>4, <2>5
<1>2. ASSUME NEW x \in S
      PROVE  g[x] <= SumFunctionOnSet(g, S)
  <2>1. SumFunctionOnSet(g, S) = g[x] + SumFunctionOnSet(g, S \ {x})
    <3>1. \A y \in S : g[y] \in Int
      OBVIOUS
    <3> QED
      BY <3>1, SumStep
  <2>2. SumFunctionOnSet(g, S \ {x}) \in Nat /\ SumFunctionOnSet(g, S) \in Nat
    BY <1>1
  <2> QED
    BY <2>1, <2>2
<1> QED
  BY <1>1, <1>2

\* The parts of a finite set are together as many as it has elements.
Partition(all, part, V) ==
  /\ \A v \in V : part[v] \subseteq all
  /\ \A x \in all : \E v \in V : x \in part[v]
  /\ \A v, w \in V : v # w => part[v] \cap part[w] = {}

Sizes(part, V) == [v \in V |-> Cardinality(part[v])]

LEMMA PartsAddUp ==
  ASSUME NEW all, IsFiniteSet(all), NEW V, IsFiniteSet(V), NEW part, Partition(all, part, V)
  PROVE  SumFunctionOnSet(Sizes(part, V), V) = Cardinality(all)
<1> DEFINE sizes == Sizes(part, V)
           whole(s) == UNION {part[v] : v \in s}
           sum(s) == SumFunctionOnSet(sizes, s)
           P == {s \in SUBSET V : IsFiniteSet(whole(s)) /\ sum(s) = Cardinality(whole(s))}
<1>1. /\ \A v \in V : IsFiniteSet(part[v]) /\ sizes[v] = Cardinality(part[v]) /\ sizes[v] \in Int
      /\ \A v, w \in V : v # w => part[v] \cap part[w] = {}
      /\ \A s \in SUBSET V : IsFiniteSet(s) /\ \A v \in s : sizes[v] \in Int
  <2>1. \A v \in V : part[v] \in SUBSET all
    BY DEF Partition
  <2>2. \A v \in V : IsFiniteSet(part[v]) /\ Cardinality(part[v]) \in Nat
    BY <2>1, FS_Subset, FS_CardinalityType
  <2> QED
    BY <2>2, FS_Subset DEF Partition, Sizes
<1>5. whole(V) = all
  BY DEF Partition
<1> HIDE DEF sizes
<1>2. ASSUME NEW T \in SUBSET V, T # {}, \A y \in T : T \ {y} \in P
      PROVE  T \in P
  <2>1. PICK x \in T : TRUE
    BY <1>2
  <2>2. sum(T) = sizes[x] + sum(T \ {x})
    BY <1>1, <2>1, SumStep
  <2>3. IsFiniteSet(whole(T \ {x})) /\ sum(T \ {x}) = Cardinality(whole(T \ {x}))
    BY <1>2, <2>1
  <2>4. whole(T) = part[x] \cup whole(T \ {x})
    BY <2>1
  <2>5. part[x] \cap whole(T \ {x}) = {}
    BY <1>1, <2>1
  <2> HIDE DEF whole, sum
  <2>6. IsFiniteSet(part[x]) /\ sizes[x] = Cardinality(part[x]) /\ Cardinality(part[x]) \in Nat
    BY <1>1, <2>1, FS_CardinalityType
  <2>7. Cardinality(part[x] \cap whole(T \ {x})) = 0 /\ Cardinality(whole(T \ {x})) \in Nat
    BY <2>3, <2>5, FS_EmptySet, FS_CardinalityType
  <2>8. /\ IsFiniteSet(part[x] \cup whole(T \ {x}))
        /\ Cardinality(part[x] \cup whole(T \ {x})) =
             Cardinality(part[x]) + Cardinality(whole(T \ {x}))
               - Cardinality(part[x] \cap whole(T \ {x}))
    BY <2>3, <2>6, FS_Union
  <2>9. IsFiniteSet(whole(T)) /\ Cardinality(whole(T)) = Cardinality(part[x]) + Cardinality(whole(T \ {x}))
    BY <2>4, <2>6, <2>7, <2>8
  <2>10. sum(T) = Cardinality(whole(T))
    BY <2>2, <2>3, <2>6, <2>9
  <2> QED
    BY <2>9, <2>10
<1>3. {} \in P
  <2>1. whole({}) = {}
    OBVIOUS
  <2> QED
    BY <2>1, SumOfNothing, FS_EmptySet
<1> HIDE DEF P
<1>4. \A T \in SUBSET V : T \in P
  BY <1>2, <1>3, SubsetInduction
<1> QED
  BY <1>4, <1>5 DEF P, sizes

-----------------------------------------------------------------------------
(* Questions about two predictors *)

Places == {"tp", "tn", "fp", "fn"}

PlaceOfParts(truth, said, part, V, place) ==
  [v \in V |-> Confusion(Part(truth, part[v]), Part(said, part[v]))[place]]

\* The matrices of the parts of the examples add up to that of the whole.
LEMMA MatricesAddUp ==
  ASSUME NEW ids, IsFiniteSet(ids), NEW truth \in [ids -> Labels], NEW said \in [ids -> Labels],
         NEW V, IsFiniteSet(V), NEW part, Partition(ids, part, V), NEW place \in Places
  PROVE  SumFunctionOnSet(PlaceOfParts(truth, said, part, V, place), V) = Confusion(truth, said)[place]
<1>1. PICK actual \in Labels, predicted \in Labels :
        \A t, s : Confusion(t, s)[place] = Cardinality(Hits(t, s, actual, predicted))
  BY DEF Confusion, Places, Labels
<1> DEFINE hits == Hits(truth, said, actual, predicted)
           parts == [v \in V |-> hits \cap part[v]]
<1>2. hits \in SUBSET ids /\ \A v \in V : part[v] \subseteq ids
  BY DEF Hits, Partition
<1>3. \A v \in V : Hits(Part(truth, part[v]), Part(said, part[v]), actual, predicted) = parts[v]
  BY <1>2 DEF Hits, Part
<1>4. Partition(hits, parts, V)
  BY <1>2 DEF Partition
<1>5. IsFiniteSet(hits)
  BY <1>2, FS_Subset
<1> HIDE DEF hits, parts
<1>6. PlaceOfParts(truth, said, part, V, place) = Sizes(parts, V)
  <2>1. \A v \in V : Confusion(Part(truth, part[v]), Part(said, part[v]))[place] = Cardinality(parts[v])
    BY <1>1, <1>3
  <2> QED
    BY <2>1 DEF PlaceOfParts, Sizes
<1>7. SumFunctionOnSet(Sizes(parts, V), V) = Cardinality(hits)
  BY <1>4, <1>5, PartsAddUp
<1> QED
  BY <1>1, <1>6, <1>7 DEF hits

\* The values of a function part its domain.
ClassOf(S, f) == [v \in {f[i] : i \in S} |-> {i \in S : f[i] = v}]

LEMMA ClassesPart ==
  ASSUME NEW S, IsFiniteSet(S), NEW f
  PROVE  /\ IsFiniteSet({f[i] : i \in S})
         /\ Partition(S, ClassOf(S, f), {f[i] : i \in S})
<1>1. IsFiniteSet({f[i] : i \in S})
  BY FiniteImage, Zenon
<1> DEFINE V == {f[i] : i \in S}
<1>2. \A v \in V : ClassOf(S, f)[v] = {i \in S : f[i] = v}
  BY DEF ClassOf
<1>3. \A i \in S : f[i] \in V
  OBVIOUS
<1> HIDE DEF V
<1>4. Partition(S, ClassOf(S, f), V)
  BY <1>2, <1>3 DEF Partition
<1> QED
  BY <1>1, <1>4 DEF V

LEMMA SlicesAddUp ==
  ASSUME NEW ids, IsFiniteSet(ids), NEW truth \in [ids -> Labels], NEW said \in [ids -> Labels],
         NEW slice, NEW place \in Places
  PROVE  SumOver(Slices(truth, said, slice), place) = Confusion(truth, said)[place]
<1> DEFINE V == {slice[i] : i \in ids}
           part == ClassOf(ids, slice)
           slices == Slices(truth, said, slice)
           matrices == [v \in V |-> Confusion(Part(truth, part[v]), Part(said, part[v]))]
           g == PlaceOfParts(truth, said, part, V, place)
<1>1. slices = matrices
  BY DEF Slices, ClassOf
<1>2. SumOver(slices, place) = SumFunctionOnSet(g, V)
  <2>1. SumOver(slices, place) = SumFunction(g)
    BY <1>1 DEF SumOver, PlaceOfParts
  <2>2. DOMAIN g = V
    BY DEF PlaceOfParts
  <2> HIDE DEF g
  <2> QED
    BY <2>1, <2>2 DEF SumFunction
<1>3. IsFiniteSet(V) /\ Partition(ids, part, V)
  BY ClassesPart
<1> HIDE DEF V, part, slices, matrices
<1>4. SumFunctionOnSet(g, V) = Confusion(truth, said)[place]
  BY <1>3, MatricesAddUp
<1> QED
  BY <1>2, <1>4 DEF slices

LEMMA PairsHold == \A q \in PairQuestions : PairAddsUp(q, AnswerPair(q))
<1> SUFFICES ASSUME NEW q \in PairQuestions
             PROVE  PairAddsUp(q, AnswerPair(q))
  OBVIOUS
<1> DEFINE truth == q.truth
           one == q.one
           other == q.other
           a == AnswerPair(q)
           m == Confusion(truth, one)
           n == Confusion(truth, other)
           r == Metrics(m)
           pair == Compare(truth, one, other)
<1>1. /\ IsFiniteSet(Examples)
      /\ truth \in [Examples -> Labels] /\ one \in [Examples -> Labels]
      /\ other \in [Examples -> Labels]
  BY ExamplesAssumption DEF PairQuestions, Judged
<1>2. /\ a.one = m /\ a.other = n /\ a.metrics = r /\ a.slices = Slices(truth, one, q.slice)
      /\ a.pair = pair
  <2> DEFINE old == [i \in Examples |-> [human |-> truth[i], said |-> one[i]]]
             new == [i \in Examples |-> [human |-> truth[i], said |-> other[i]]]
  <2>1. DOMAIN old = Examples /\ DOMAIN new = Examples
        /\ \A i \in Examples : old[i].human = truth[i] /\ new[i].human = truth[i]
                               /\ old[i].said = one[i] /\ new[i].said = other[i]
    OBVIOUS
  <2>2. a = [one |-> m, other |-> n, metrics |-> r, slices |-> Slices(truth, one, q.slice),
             pair |-> CompareArtifacts(old, new)]
    BY DEF AnswerPair
  <2> HIDE DEF old, new
  <2>3. /\ [i \in DOMAIN old |-> old[i].human] = truth /\ [i \in DOMAIN old |-> old[i].said] = one
        /\ [i \in DOMAIN old |-> new[i].said] = other
    BY <1>1, <2>1
  <2>4. CompareArtifacts(old, new) = pair
    BY <2>1, <2>3 DEF CompareArtifacts
  <2> HIDE DEF m, n, r, pair
  <2> QED
    BY <2>2, <2>4
<1>3. /\ m \in [tp : Nat, tn : Nat, fp : Nat, fn : Nat]
      /\ m.tp + m.tn + m.fp + m.fn = Cardinality(Examples)
      /\ m.tp + m.fn = Cardinality(OfLabel(truth, "H"))
      /\ m.tn + m.fp = Cardinality(OfLabel(truth, "G"))
  BY <1>1, MatrixTheorem
<1>4. \A place \in Places : SumOver(Slices(truth, one, q.slice), place) = m[place]
  BY <1>1, SlicesAddUp
<1>5. /\ Equal(r.f1, Ratio(2 * m.tp, 2 * m.tp + m.fp + m.fn))
      /\ m.tn + m.fp > 0 => Equal(Plus(r.specificity, r.false_positive_rate), <<1, 1>>)
      /\ m.tp + m.fn > 0 => Equal(Plus(r.recall, r.false_negative_rate), <<1, 1>>)
  <2> HIDE DEF m
  <2> QED
    BY <1>3, RatesTheorem
<1>6. \A label \in Labels : label \in {truth[i] : i \in Examples} =>
        Cardinality(OfLabel(truth, label)) > 0
  <2> TAKE label \in Labels
  <2>1. OfLabel(truth, label) \in SUBSET Examples
    BY <1>1 DEF OfLabel
  <2>2. IsFiniteSet(OfLabel(truth, label))
    BY <1>1, <2>1, FS_Subset
  <2>3. label \in {truth[i] : i \in Examples} => OfLabel(truth, label) # {}
    BY <1>1 DEF OfLabel
  <2> QED
    BY <2>2, <2>3, FS_EmptySet, FS_CardinalityType
<1>7. ASSUME NEW p, p = Compare(truth, one, other), NEW k, k = Confusion(truth, one),
             NEW l, l = Confusion(truth, other)
      PROVE  /\ p.categories.BOTH_CORRECT \cup p.categories.BASELINE_ONLY_CORRECT
                  \cup p.categories.CANDIDATE_ONLY_CORRECT \cup p.categories.BOTH_WRONG = Examples
             /\ \A c, d \in DOMAIN p.categories : c # d => p.categories[c] \cap p.categories[d] = {}
             /\ p.fnFixed \cup p.fpFixed = p.categories.CANDIDATE_ONLY_CORRECT
             /\ p.fnBroken \cup p.fpBroken = p.categories.BASELINE_ONLY_CORRECT
             /\ p.fn \cup p.fp = p.categories.BOTH_WRONG \cup p.categories.BASELINE_ONLY_CORRECT
             /\ Cardinality(p.categories.CANDIDATE_ONLY_CORRECT)
                  - Cardinality(p.categories.BASELINE_ONLY_CORRECT) = (k.fp + k.fn) - (l.fp + l.fn)
  <2> HIDE DEF truth, one, other
  <2> QED
    BY <1>1, <1>7, PairedTheorem
<1>8. DOMAIN pair.categories = {"BOTH_CORRECT", "BASELINE_ONLY_CORRECT",
                                "CANDIDATE_ONLY_CORRECT", "BOTH_WRONG"}
  <2>1. DOMAIN one = DOMAIN truth /\ DOMAIN other = DOMAIN truth
    BY <1>1
  <2> QED
    BY <2>1 DEF Compare
<1>9. UNION {pair.categories[c] : c \in DOMAIN pair.categories} = Examples
  <2>1. pair.categories.BOTH_CORRECT \cup pair.categories.BASELINE_ONLY_CORRECT
          \cup pair.categories.CANDIDATE_ONLY_CORRECT \cup pair.categories.BOTH_WRONG = Examples
    BY <1>7, Zenon
  <2> HIDE DEF pair
  <2> QED
    BY <1>8, <2>1
<1>10. /\ "G" \in {truth[i] : i \in Examples} => m.tn + m.fp > 0
       /\ "H" \in {truth[i] : i \in Examples} => m.tp + m.fn > 0
  BY <1>3, <1>6 DEF Labels
<1>11. /\ \A c, d \in DOMAIN pair.categories :
            c # d => pair.categories[c] \cap pair.categories[d] = {}
       /\ pair.fnFixed \cup pair.fpFixed = pair.categories.CANDIDATE_ONLY_CORRECT
       /\ pair.fnBroken \cup pair.fpBroken = pair.categories.BASELINE_ONLY_CORRECT
       /\ pair.fn \cup pair.fp = pair.categories.BOTH_WRONG \cup pair.categories.BASELINE_ONLY_CORRECT
       /\ Cardinality(pair.categories.CANDIDATE_ONLY_CORRECT)
            - Cardinality(pair.categories.BASELINE_ONLY_CORRECT) = (m.fp + m.fn) - (n.fp + n.fn)
  <2>1. pair = Compare(truth, one, other) /\ m = Confusion(truth, one) /\ n = Confusion(truth, other)
    OBVIOUS
  <2> HIDE DEF truth, one, other, pair, m, n
  <2> QED
    BY <1>7, <2>1
<1> HIDE DEF a, m, n, r, pair
<1>12. PairAddsUp(q, a)
  BY <1>2, <1>3, <1>4, <1>5, <1>9, <1>10, <1>11 DEF PairAddsUp, Size, Places
<1> QED
  BY <1>12 DEF a

LEMMA UpTo == \A n \in Nat : IsFiniteSet(1..n) /\ Cardinality(1..n) = n
<1> TAKE n \in Nat
<1> QED
  BY FS_Interval

LEMMA BatchesOfQuestions == \A q \in BatchQuestions : BatchesHold(q, AnswerBatches(q))
<1> SUFFICES ASSUME NEW q \in BatchQuestions PROVE BatchesHold(q, AnswerBatches(q))
  OBVIOUS
<1>1. q.supports \in BoundedSeq(0..1, 4) /\ q.size \in Nat \ {0}
  BY DEF BatchQuestions
<1>2. q.supports \in Seq(Int)
  <2>1. PICK m \in 0..4 : q.supports \in [1..m -> 0..1]
    BY <1>1 DEF BoundedSeq, SeqOf
  <2> QED
    BY <2>1
<1> QED
  BY <1>1, <1>2, BatchesTheorem

LEMMA HeuristicOfQuestions ==
  \A q \in HeuristicQuestions : HeuristicHolds(q, HeuristicLabel(q.response, q.context, q.threshold))
<1> SUFFICES ASSUME NEW q \in HeuristicQuestions
             PROVE  HeuristicHolds(q, HeuristicLabel(q.response, q.context, q.threshold))
  OBVIOUS
<1>1. q.response \in SUBSET (1..3) /\ q.threshold \in {<<0, 1>>, <<1, 2>>, <<2, 3>>, <<1, 1>>}
  BY DEF HeuristicQuestions, Words
<1>2. IsFiniteSet(q.response)
  <2>1. IsFiniteSet(1..3)
    BY UpTo
  <2> QED
    BY <1>1, <2>1, FS_Subset
<1>3. PICK n \in Nat, d \in Nat : n <= d /\ d > 0 /\ q.threshold = <<n, d>>
  BY <1>1
<1> QED
  BY <1>2, <1>3, HeuristicTheorem

LEMMA ReadinessOfQuestions ==
  \A q \in ReadinessQuestions : ReadinessHolds(q, Readiness(q.selected, q.results))
<1> SUFFICES ASSUME NEW q \in ReadinessQuestions
             PROVE  ReadinessHolds(q, Readiness(q.selected, q.results))
  OBVIOUS
<1>1. /\ q.selected \in SUBSET {1, 2}
      /\ q.results \in [{1, 2} -> [api : 0..1, parse : 0..1, family : {"a", "b"}]]
  BY DEF ReadinessQuestions
<1>2. IsFiniteSet(q.selected)
  <2>1. {1, 2} = 1..2
    OBVIOUS
  <2>2. IsFiniteSet({1, 2})
    BY <2>1, UpTo
  <2> QED
    BY <1>1, <2>2, FS_Subset
<1>3. \A p \in q.selected : q.results[p].api \in {0, 1} /\ q.results[p].parse \in {0, 1}
  BY <1>1
<1> QED
  BY <1>2, <1>3, ReadinessTheorem

LEMMA FailuresOfQuestions ==
  \A q \in FailureQuestions : FailuresAddUp(q, FailureBreakdown(q.outcomes, q.length))
BY FailuresTheorem

LEMMA SamplesOfQuestions ==
  \A examples \in Populations : \A a \in SampleAnswers(examples) : SamplesHold(examples, a)
<1> SUFFICES ASSUME NEW examples \in Populations, NEW a \in SampleAnswers(examples)
             PROVE  SamplesHold(examples, a)
  OBVIOUS
<1>1. IsFiniteSet(DOMAIN examples)
  <2>1. DOMAIN examples = 1..3
    BY DEF Populations
  <2> QED
    BY <2>1, UpTo
<1>2. PICK p \in PilotSamples(examples, 1) :
        a \in {[pilot |-> p, consistency |-> c] : c \in ConsistencySamples(examples, p, 1)}
  BY Zenon DEF SampleAnswers
<1>4. PICK c \in ConsistencySamples(examples, p, 1) : a = [pilot |-> p, consistency |-> c]
  BY <1>2, Zenon
<1>3. 1 \in Nat \ {0}
  OBVIOUS
<1> QED
  BY <1>1, <1>2, <1>3, <1>4, SamplesTheorem

LEMMA SearchesOfQuestions == \A q \in SearchQuestions : SearchedFairly(q, AnswerSearch(q))
<1> SUFFICES ASSUME NEW q \in SearchQuestions PROVE SearchedFairly(q, AnswerSearch(q))
  OBVIOUS
<1>1. /\ DOMAIN q.words = 1..3 /\ q.score \in [1..3 -> Int] /\ q.topK \in Nat \ {0}
  BY DEF SearchQuestions, Documents
<1>3. IsFiniteSet(1..3)
  BY UpTo
<1>2. IsFiniteSet(DOMAIN q.words) /\ DOMAIN q.words \subseteq Int /\ q.score \in [DOMAIN q.words -> Int]
  BY <1>1, <1>3
<1> QED
  BY <1>1, <1>2, SearchTheorem

LEMMA GatesOfQuestions == \A q \in RegressionQuestions : ComparesClosed(q, AnswerRegression(q))
<1> SUFFICES ASSUME NEW q \in RegressionQuestions PROVE ComparesClosed(q, AnswerRegression(q))
  OBVIOUS
<1>1. q.candidate \in MetricFiles /\ q.baseline \in MetricFiles /\ q.rules \in Policies
  BY DEF RegressionQuestions
<1>2. ASSUME NEW file \in MetricFiles PROVE Finites(file)
  <2>1. \A name \in DOMAIN file : file[name] \in Values
    BY DEF MetricFiles
  <2> QED
    BY <2>1 DEF Values, Finites
<1>3. ASSUME NEW name, NEW rule \in RulesFor(name)
      PROVE  /\ rule.direction \in {"HIGHER_IS_BETTER", "LOWER_IS_BETTER"}
             /\ rule.bound \in {<<>>} \cup (Int \X (Nat \ {0}))
             /\ rule.allowed \in Nat \X (Nat \ {0})
  BY DEF RulesFor
<1>4. RuleSet(q.rules)
  <2>1. \A rule \in q.rules : rule \in RulesFor("m") \/ rule \in RulesFor("n")
    BY <1>1 DEF Policies
  <2> QED
    BY <1>3, <2>1, Zenon DEF RuleSet
<1> QED
  BY <1>1, <1>2, <1>4, GateTheorem

LEMMA BootstrapsOfQuestions == \A q \in BootstrapQuestions : BootstrapHolds(q, AnswerBootstrap(q))
<1> SUFFICES ASSUME NEW q \in BootstrapQuestions PROVE BootstrapHolds(q, AnswerBootstrap(q))
  OBVIOUS
<1> DEFINE truth == q.truth
           said == q.said
           sample == q.sample
           ids == 1..2
           n == 3
           a == BootstrapReport(sample, truth, said)
<1>1. /\ truth \in [ids -> Labels] /\ said \in [ids -> Labels] /\ sample \in [1..n -> ids]
      /\ n \in Nat /\ a = BootstrapReport(sample, truth, said)
  BY DEF BootstrapQuestions
<1>5. ids \subseteq Int
  OBVIOUS
<1> HIDE DEF truth, said, sample, ids, n, a
<1>2. DOMAIN sample = 1..n
  BY <1>1
<1>3. MeasuredOn(a, sample, truth, said) /\ (ids \subseteq Int => a # ValueError)
  BY <1>1, BootstrapTheorem
<1> QED
  BY <1>2, <1>3, <1>5 DEF truth, said, sample, a, MeasuredOn, RightAt, BootstrapHolds, AnswerBootstrap, Size

LEMMA ErrorsOfQuestions == \A q \in ErrorQuestions : ErrorsAddUp(q, AnswerErrors(q))
<1> SUFFICES ASSUME NEW q \in ErrorQuestions PROVE ErrorsAddUp(q, AnswerErrors(q))
  OBVIOUS
<1> DEFINE truth == q.truth
           said == q.said
           task == q.task
           score == q.score
           matrix == Confusion(truth, said)
           errors == Hits(truth, said, "G", "H") \cup Hits(truth, said, "H", "G")
           byTask == [t \in {task[i] : i \in errors} |-> Cardinality({i \in errors : task[i] = t})]
           a == AnswerErrors(q)
<1>1. /\ IsFiniteSet(Examples) /\ truth \in [Examples -> Labels] /\ said \in [Examples -> Labels]
      /\ score \in [Examples -> {20, 79, 80}]
  BY ExamplesAssumption DEF ErrorQuestions, Judged
<1>2. /\ a.all.errors = errors /\ a.all.byTask = byTask
      /\ a.confident = HighConfidenceErrors(truth, said, score)
  BY Zenon DEF AnswerErrors, ErrorAnalysis
<1>3. errors = Wrong(truth, said) /\ errors \in SUBSET Examples
  BY <1>1 DEF Hits, Wrong, Labels
<1>4. Cardinality(errors) = matrix.fp + matrix.fn
  <2>1. matrix = Confusion(truth, said)
    OBVIOUS
  <2> HIDE DEF matrix, truth, said
  <2>2. matrix.fp + matrix.fn = Cardinality(Wrong(truth, said))
    BY <1>1, <2>1, MatrixTheorem
  <2> QED
    BY <1>3, <2>2
<1>5. IsFiniteSet(errors)
  BY <1>1, <1>3, FS_Subset
<1>6. SumFunction(byTask) = Cardinality(errors)
  <2> HIDE DEF errors
  <2> DEFINE V == {task[i] : i \in errors}
             part == ClassOf(errors, task)
             sizes == Sizes(part, V)
  <2>1. byTask = sizes
    BY DEF ClassOf, Sizes
  <2>2. IsFiniteSet(V) /\ Partition(errors, part, V)
    BY <1>5, ClassesPart
  <2>3. DOMAIN sizes = V
    BY DEF Sizes
  <2> HIDE DEF V, part, byTask
  <2>4. SumFunctionOnSet(sizes, V) = Cardinality(errors)
    BY <1>5, <2>2, PartsAddUp
  <2> HIDE DEF sizes
  <2> QED
    BY <2>1, <2>3, <2>4 DEF SumFunction
<1>7. a.confident \subseteq errors
  BY <1>1, <1>2, <1>3 DEF HighConfidenceErrors, Wrong
<1>8. ASSUME NEW i \in a.confident PROVE Decides(100 - score[i], 50) = said[i]
  <2>1. i \in Examples /\ said[i] \in Labels /\ score[i] \in Int
        /\ (IF said[i] = "H" THEN score[i] ELSE 100 - score[i]) >= 80
    BY <1>1, <1>2, <1>8 DEF HighConfidenceErrors
  <2> HIDE DEF said, score
  <2> QED
    BY <2>1 DEF Decides, Labels
<1> HIDE DEF a, matrix, errors, byTask
<1>9. ErrorsAddUp(q, a)
  BY <1>2, <1>4, <1>6, <1>7, <1>8 DEF ErrorsAddUp, Size, matrix
<1> QED
  BY <1>9 DEF a

LEMMA RanksOfQuestions == \A q \in RankQuestions : RanksAddUp(q, AnswerRanks(q))
<1> SUFFICES ASSUME NEW q \in RankQuestions PROVE RanksAddUp(q, AnswerRanks(q))
  OBVIOUS
<1> DEFINE values == q.lengths
           ids == DOMAIN q.lengths
           labels == [i \in ids |-> IF i % 2 = 0 THEN q.truth ELSE "H"]
           said   == [i \in ids |-> IF i % 3 = 0 THEN "H" ELSE "G"]
           quartiles == Quartiles(values)
           matrices == QuartileMatrices(values, labels, said)
           whole == Confusion(labels, said)
           a == AnswerRanks(q)
<1>1. /\ IsFiniteSet(ids) /\ ids \subseteq Int /\ values \in [ids -> Int] /\ q.truth \in Labels
  <2>1. PICK n \in 1..5 : values \in [1..n -> 0..2]
    BY DEF RankQuestions
  <2>2. IsFiniteSet(1..n)
    BY UpTo
  <2> QED
    BY <2>1, <2>2 DEF RankQuestions, Labels
<1>2. /\ a.quartiles = quartiles /\ a.matrices = matrices /\ a.whole = whole
  BY Zenon DEF AnswerRanks
<1>3. labels \in [ids -> Labels] /\ said \in [ids -> Labels]
  BY <1>1 DEF Labels
<1> HIDE DEF values, ids, labels, said
<1>4. /\ UNION {quartiles[k] : k \in 1..4} = ids
      /\ \A k, l \in 1..4 : Distance(Cardinality(quartiles[k]), Cardinality(quartiles[l])) <= 1
      /\ \A k, l \in 1..4 : k < l => \A i \in quartiles[k], j \in quartiles[l] : values[i] <= values[j]
  BY <1>1, QuartilesTheorem
<1>5. Partition(ids, quartiles, 1..4)
  <2>1. \A k \in 1..4 : quartiles[k] =
          {i \in ids : QuartileOf(Rank(values, i), Cardinality(DOMAIN values)) + 1 = k}
    BY <1>1 DEF Quartiles
  <2> HIDE DEF quartiles
  <2>2. \A i \in ids : \E k \in 1..4 : i \in quartiles[k]
    BY <1>4
  <2> QED
    BY <2>1, <2>2, Zenon DEF Partition
<1> HIDE DEF quartiles
<1>6. IsFiniteSet(1..4)
  BY UpTo
<1>7. ASSUME NEW place \in Places
      PROVE  SumFunction([k \in 1..4 |-> a.matrices[k][place]]) = whole[place]
  <2> DEFINE sizes == PlaceOfParts(labels, said, quartiles, 1..4, place)
             V == 1..4
  <2>1. [k \in 1..4 |-> a.matrices[k][place]] = sizes
    <3>1. \A k \in 1..4 : matrices[k] = Confusion(Part(labels, quartiles[k]), Part(said, quartiles[k]))
      BY DEF QuartileMatrices, quartiles
    <3> HIDE DEF a, matrices
    <3> QED
      BY <1>2, <3>1 DEF PlaceOfParts
  <2>2. DOMAIN sizes = V
    BY DEF PlaceOfParts
  <2>3. IsFiniteSet(V) /\ Partition(ids, quartiles, V)
    BY <1>5, <1>6
  <2> HIDE DEF a, matrices, whole
  <2>4. SumFunctionOnSet(sizes, V) = whole[place]
    <3> HIDE DEF V
    <3> HIDE DEF sizes
    <3>1. SumFunctionOnSet(PlaceOfParts(labels, said, quartiles, V, place), V)
            = Confusion(labels, said)[place]
      <4>1. IsFiniteSet(ids)
        BY <1>1
      <4> QED
        BY <4>1, <1>3, <2>3, MatricesAddUp
    <3> QED
      BY <3>1 DEF V, whole, sizes
  <2> HIDE DEF sizes, V
  <2> QED
    BY <2>1, <2>2, <2>4 DEF SumFunction
<1> HIDE DEF a, matrices, whole
<1>8. RanksAddUp(q, a)
  BY <1>2, <1>4, <1>7 DEF RanksAddUp, Size, Places, values, ids
<1> QED
  BY <1>8 DEF a

-----------------------------------------------------------------------------
(* Questions about several evaluators *)

LEMMA FewAreFinite ==
  /\ \A x, y, z : IsFiniteSet({x, y, z})
  /\ \A x, y, z, w : IsFiniteSet({x, y, z, w})
<1>1. \A S, x : IsFiniteSet(S) => IsFiniteSet(S \cup {x})
  BY FS_AddElement
<1>2. \A x, y, z : IsFiniteSet({x, y, z})
  <2> TAKE x, y, z
  <2>1. IsFiniteSet({} \cup {x})
    BY <1>1, FS_EmptySet
  <2>2. IsFiniteSet(({} \cup {x}) \cup {y})
    BY <1>1, <2>1
  <2>3. IsFiniteSet((({} \cup {x}) \cup {y}) \cup {z})
    BY <1>1, <2>2
  <2>4. {x, y, z} = (({} \cup {x}) \cup {y}) \cup {z}
    OBVIOUS
  <2> QED
    BY <2>3, <2>4
<1>3. \A x, y, z, w : IsFiniteSet({x, y, z, w})
  <2> TAKE x, y, z, w
  <2>1. IsFiniteSet({x, y, z} \cup {w})
    BY <1>1, <1>2
  <2>2. {x, y, z, w} = {x, y, z} \cup {w}
    OBVIOUS
  <2> QED
    BY <2>1, <2>2
<1> QED
  BY <1>2, <1>3

Disjoint4(A, B, C, D) ==
  /\ A \cap B = {} /\ A \cap C = {} /\ A \cap D = {}
  /\ B \cap C = {} /\ B \cap D = {} /\ C \cap D = {}

LEMMA FourAddUp ==
  ASSUME NEW S, IsFiniteSet(S), NEW A \in SUBSET S, NEW B \in SUBSET S, NEW C \in SUBSET S,
         NEW D \in SUBSET S, Disjoint4(A, B, C, D)
  PROVE  /\ Cardinality(A) + Cardinality(B) + Cardinality(C) + Cardinality(D) <= Cardinality(S)
         /\ S = A \cup B \cup C \cup D =>
              Cardinality(S) = Cardinality(A) + Cardinality(B) + Cardinality(C) + Cardinality(D)
<1> DEFINE T == S \ A
           U == T \ B
           V == U \ C
           W == V \ D
<1>1. Halves(S, A, T)
  BY DEF Halves
<1>2. Halves(T, B, U)
  BY DEF Halves, Disjoint4
<1>3. Halves(U, C, V)
  BY DEF Halves, Disjoint4
<1>4. Halves(V, D, W)
  BY DEF Halves, Disjoint4
<1>5. S = A \cup B \cup C \cup D => W = {}
  OBVIOUS
<1> HIDE DEF T, U, V, W
<1>6. IsFiniteSet(T) /\ Cardinality(A) \in Nat /\ Cardinality(S) = Cardinality(A) + Cardinality(T)
  BY <1>1, HalvesAddUp
<1>7. IsFiniteSet(U) /\ Cardinality(B) \in Nat /\ Cardinality(T) = Cardinality(B) + Cardinality(U)
  BY <1>2, <1>6, HalvesAddUp
<1>8. IsFiniteSet(V) /\ Cardinality(C) \in Nat /\ Cardinality(U) = Cardinality(C) + Cardinality(V)
  BY <1>3, <1>7, HalvesAddUp
<1>9. IsFiniteSet(W) /\ Cardinality(D) \in Nat /\ Cardinality(V) = Cardinality(D) + Cardinality(W)
      /\ Cardinality(W) \in Nat
  BY <1>4, <1>8, HalvesAddUp
<1>10. S = A \cup B \cup C \cup D => Cardinality(W) = 0
  BY <1>5, FS_EmptySet
<1> QED
  BY <1>6, <1>7, <1>8, <1>9, <1>10

\* What is counted of the parts of a part.
LEMMA SumOfParts ==
  ASSUME NEW S, IsFiniteSet(S), NEW V, IsFiniteSet(V), NEW part, Partition(S, part, V)
  PROVE  SumFunction(Sizes(part, V)) = Cardinality(S)
<1>1. DOMAIN Sizes(part, V) = V
  BY DEF Sizes
<1> QED
  BY <1>1, PartsAddUp DEF SumFunction

LEMMA ThreeOfQuestions ==
  \A q \in ThreeQuestions : EvaluatorsAddUp(q, ThreeEvaluators(q.truth, q.said))
<1> SUFFICES ASSUME NEW q \in ThreeQuestions
             PROVE  EvaluatorsAddUp(q, ThreeEvaluators(q.truth, q.said))
  OBVIOUS
<1> DEFINE truth == q.truth
           said == q.said
           names == {"heuristic", "hhem", "local_llm"}
           ids == CompleteIds(truth, said)
           right(i) == RightOn(truth, said, i)
           all == {i \in ids : right(i) = names}
           none == {i \in ids : right(i) = {}}
           only == [name \in names |-> {i \in ids : right(i) = {name}}]
           pair == [p \in Pairs3 |-> {i \in ids : p \subseteq right(i)}]
           two == [p \in Pairs3 |-> pair[p] \ all]
           ones == {i \in ids : \E n \in names : right(i) = {n}}
           twos == {i \in ids : \E p \in Pairs3 : i \in two[p]}
           a == ThreeEvaluators(truth, said)
<1>1. /\ DOMAIN truth = {1, 2} /\ DOMAIN said = names
  BY DEF ThreeQuestions
<1>2. IsFiniteSet(ids) /\ ids \in SUBSET {1, 2}
  <2>1. {1, 2} = 1..2
    OBVIOUS
  <2>2. IsFiniteSet({1, 2})
    BY <2>1, UpTo
  <2>3. ids \in SUBSET {1, 2}
    BY <1>1 DEF CompleteIds
  <2> QED
    BY <2>2, <2>3, FS_Subset
<1>3. /\ a.count = Cardinality(ids) /\ a.all = all /\ a.none = none /\ a.only = only /\ a.pair = pair
      /\ a.missing = [name \in {n \in names : DOMAIN said[n] # DOMAIN truth} |->
                        DOMAIN truth \ DOMAIN said[name]]
  BY <1>1, Zenon DEF ThreeEvaluators
<1>4. \A i \in ids : right(i) \subseteq names
  BY <1>1 DEF RightOn
<1>5. IsFiniteSet(names) /\ IsFiniteSet(Pairs3)
  BY FewAreFinite DEF Pairs3
<1> HIDE DEF a, ids, right, truth, said
<1>6. Partition(ones, only, names)
  BY DEF Partition
<1>7. \A x \in SUBSET names : \A p, r \in Pairs3 : p # r /\ p \subseteq x /\ r \subseteq x => x = names
  <2> TAKE x \in SUBSET names
  <2> TAKE p, r \in Pairs3
  <2>1. p # r => \A n \in names : n \in p \/ n \in r
    BY DEF Pairs3
  <2> QED
    BY <2>1
<1>8. Partition(twos, two, Pairs3)
  <2>1. \A p \in Pairs3 : two[p] \subseteq twos
    OBVIOUS
  <2>2. \A i \in twos : \E p \in Pairs3 : i \in two[p]
    OBVIOUS
  <2>3. ASSUME NEW p \in Pairs3, NEW r \in Pairs3, p # r, NEW i \in two[p] \cap two[r]
        PROVE  FALSE
    <3>1. i \in ids /\ p \subseteq right(i) /\ r \subseteq right(i) /\ right(i) # names
      BY <2>3
    <3> QED
      BY <1>4, <1>7, <2>3, <3>1
  <2> HIDE DEF two, twos
  <2> QED
    BY <2>1, <2>2, <2>3 DEF Partition
<1>9. Disjoint4(all, none, ones, twos)
  <2>1. \A n : names # {n} /\ {} # {n} /\ names # {}
    OBVIOUS
  <2>2. \A p \in Pairs3 : p # {} /\ \A n : ~(p \subseteq {n})
    <3>1. \A n : "hhem" # n \/ "heuristic" # n
      OBVIOUS
    <3>2. \A n : "local_llm" # n \/ "heuristic" # n
      OBVIOUS
    <3>3. \A n : "local_llm" # n \/ "hhem" # n
      OBVIOUS
    <3> QED
      BY <3>1, <3>2, <3>3 DEF Pairs3
  <2>3. all \cap none = {} /\ all \cap ones = {} /\ none \cap ones = {}
    BY <2>1
  <2>4. \A i \in twos : i \notin all /\ i \notin none /\ i \notin ones
    <3> TAKE i \in twos
    <3>1. PICK p \in Pairs3 : p \subseteq right(i) /\ i \notin all
      OBVIOUS
    <3>2. right(i) # {} /\ \A n : right(i) # {n}
      BY <2>2, <3>1
    <3> QED
      BY <3>1, <3>2
  <2> HIDE DEF all, none, ones, twos
  <2> QED
    BY <2>3, <2>4 DEF Disjoint4
<1>10. ids = all \cup none \cup ones \cup twos
  <2>1. ASSUME NEW x \in SUBSET names, x # names, x # {}, \A n \in names : x # {n}
        PROVE  \E p \in Pairs3 : p \subseteq x
    <3>1. PICK m \in x, n \in x : m # n
      BY <2>1
    <3>2. {m, n} \in Pairs3
      <4>1. {"heuristic", "local_llm"} = {"local_llm", "heuristic"}
            /\ {"hhem", "local_llm"} = {"local_llm", "hhem"}
            /\ {"hhem", "heuristic"} = {"heuristic", "hhem"}
        OBVIOUS
      <4>2. m \in names /\ n \in names
        BY <2>1
      <4> QED
        BY <3>1, <4>1, <4>2 DEF Pairs3
    <3> QED
      BY <3>1, <3>2
  <2>2. ASSUME NEW i \in ids PROVE i \in all \/ i \in none \/ i \in ones \/ i \in twos
    <3>1. SUFFICES ASSUME right(i) # names, right(i) # {}, \A n \in names : right(i) # {n}
                   PROVE  i \in twos
      OBVIOUS
    <3>2. PICK p \in Pairs3 : p \subseteq right(i)
      BY <1>4, <2>1, <3>1
    <3>3. i \in two[p]
      BY <3>1, <3>2
    <3> QED
      BY <3>3
  <2>3. all \subseteq ids /\ none \subseteq ids /\ ones \subseteq ids /\ twos \subseteq ids
    OBVIOUS
  <2> HIDE DEF all, none, ones, twos
  <2> QED
    BY <2>2, <2>3
<1>11. all \in SUBSET ids /\ none \in SUBSET ids /\ ones \in SUBSET ids /\ twos \in SUBSET ids
  OBVIOUS
<1>12. SumFunction([n \in DOMAIN a.only |-> Size(a.only[n])]) = Cardinality(ones)
  <2>1. [n \in DOMAIN a.only |-> Size(a.only[n])] = Sizes(only, names)
    <3>1. DOMAIN only = names
      OBVIOUS
    <3> HIDE DEF only
    <3> QED
      BY <1>3, <3>1 DEF Size, Sizes
  <2>2. IsFiniteSet(ones)
    BY <1>2, <1>11, FS_Subset
  <2> HIDE DEF only, ones, names
  <2> QED
    BY <1>5, <1>6, <2>1, <2>2, SumOfParts
<1>13. SumFunction([p \in DOMAIN a.pair |-> Size(a.pair[p] \ a.all)]) = Cardinality(twos)
  <2>1. [p \in DOMAIN a.pair |-> Size(a.pair[p] \ a.all)] = Sizes(two, Pairs3)
    <3>1. DOMAIN pair = Pairs3 /\ \A p \in Pairs3 : two[p] = pair[p] \ all
      OBVIOUS
    <3> HIDE DEF pair, two, all
    <3> QED
      BY <1>3, <3>1 DEF Size, Sizes
  <2>2. IsFiniteSet(twos)
    BY <1>2, <1>11, FS_Subset
  <2> HIDE DEF two, twos
  <2> QED
    BY <1>5, <1>8, <2>1, <2>2, SumOfParts
<1> HIDE DEF all, none, ones, twos, only, pair, two
<1>14. Cardinality(ids) = Cardinality(all) + Cardinality(none) + Cardinality(ones) + Cardinality(twos)
  BY <1>2, <1>9, <1>10, <1>11, FourAddUp
<1>15. \A n \in DOMAIN a.missing : a.missing[n] = DOMAIN truth \ DOMAIN said[n]
  BY <1>3
<1>16. (DOMAIN a.missing = {}) => a.count = Cardinality(DOMAIN truth)
  <2>1. (DOMAIN a.missing = {}) => \A n \in names : DOMAIN said[n] = DOMAIN truth
    BY <1>3
  <2>2. (DOMAIN a.missing = {}) => ids = DOMAIN truth
    BY <1>1, <2>1 DEF ids, CompleteIds
  <2> QED
    BY <1>3, <2>2
<1>17. EvaluatorsAddUp(q, a)
  BY <1>3, <1>12, <1>13, <1>14, <1>15, <1>16 DEF EvaluatorsAddUp, Size, truth, said
<1> QED
  BY <1>17 DEF a, truth, said

LEMMA ManyOfQuestions ==
  \A q \in ManyQuestions : ManyAddUp(q, ManyEvaluators(q.truth, q.said))
<1> SUFFICES ASSUME NEW q \in ManyQuestions
             PROVE  ManyAddUp(q, ManyEvaluators(q.truth, q.said))
  OBVIOUS
<1> DEFINE truth == q.truth
           said == q.said
           names == {"heuristic", "hhem", "gemini", "groq"}
           ids == CompleteIds(truth, said)
           right(i) == RightOn(truth, said, i)
           all == {i \in ids : right(i) = names}
           none == {i \in ids : right(i) = {}}
           only == [name \in names |-> {i \in ids : right(i) = {name}}]
           pair == [p \in PairsOfMany |-> {i \in ids : right(i) = p}]
           bothLLM == {i \in ids : {"gemini", "groq"} \subseteq right(i) /\ "hhem" \notin right(i)}
           hhemOver == {i \in ids : "hhem" \in right(i) /\ right(i) \cap {"gemini", "groq"} = {}}
           ones == {i \in ids : \E n \in names : right(i) = {n}}
           twos == {i \in ids : \E p \in PairsOfMany : right(i) = p}
           a == ManyEvaluators(truth, said)
<1>1. /\ DOMAIN truth = {1} /\ DOMAIN said = names
  BY DEF ManyQuestions
<1>2. IsFiniteSet(ids)
  <2>1. IsFiniteSet({1})
    BY FS_Singleton
  <2>2. ids \in SUBSET {1}
    BY <1>1 DEF CompleteIds
  <2> QED
    BY <2>1, <2>2, FS_Subset
<1>3. /\ a.count = Cardinality(ids) /\ a.all = all /\ a.none = none /\ a.only = only /\ a.pair = pair
      /\ a.bothLLM = bothLLM /\ a.hhemOver = hhemOver
  BY <1>1, Zenon DEF ManyEvaluators
<1>4. \A i \in ids : right(i) \subseteq names
  BY <1>1 DEF RightOn
<1>5. IsFiniteSet(names) /\ IsFiniteSet(PairsOfMany)
  BY FewAreFinite DEF PairsOfMany
<1> HIDE DEF a, ids, right, truth, said
<1>6. Partition(ones, only, names)
  BY DEF Partition
<1>7. Partition(twos, pair, PairsOfMany)
  BY DEF Partition
<1>8. Disjoint4(all, none, ones, twos)
  <2>1. \A n : names # {n} /\ {} # {n} /\ names # {}
    OBVIOUS
  <2>2. \A p \in PairsOfMany : p # {} /\ p # names /\ \A n : p # {n}
    <3>1. \A p \in PairsOfMany : "groq" \notin p /\ \E m, n \in p : m # n
      BY DEF PairsOfMany
    <3> QED
      BY <3>1
  <2>3. all \cap none = {} /\ all \cap ones = {} /\ none \cap ones = {}
    BY <2>1
  <2>4. all \cap twos = {} /\ none \cap twos = {} /\ ones \cap twos = {}
    <3> HIDE DEF names
    <3> QED
      BY <2>2
  <2> HIDE DEF all, none, ones, twos
  <2> QED
    BY <2>3, <2>4 DEF Disjoint4
<1>9. all \in SUBSET ids /\ none \in SUBSET ids /\ ones \in SUBSET ids /\ twos \in SUBSET ids
  OBVIOUS
<1>10. IsFiniteSet(ones) /\ IsFiniteSet(twos)
  BY <1>2, <1>9, FS_Subset
<1>11. SumFunction([n \in DOMAIN a.only |-> Size(a.only[n])]) = Cardinality(ones)
  <2>1. [n \in DOMAIN a.only |-> Size(a.only[n])] = Sizes(only, names)
    <3>1. DOMAIN only = names
      OBVIOUS
    <3> HIDE DEF only
    <3> QED
      BY <1>3, <3>1 DEF Size, Sizes
  <2> HIDE DEF only, ones, names
  <2> QED
    BY <1>5, <1>6, <1>10, <2>1, SumOfParts
<1>12. SumFunction([p \in DOMAIN a.pair |-> Size(a.pair[p])]) = Cardinality(twos)
  <2>1. [p \in DOMAIN a.pair |-> Size(a.pair[p])] = Sizes(pair, PairsOfMany)
    <3>1. DOMAIN pair = PairsOfMany
      OBVIOUS
    <3> HIDE DEF pair
    <3> QED
      BY <1>3, <3>1 DEF Size, Sizes
  <2> HIDE DEF pair, twos
  <2> QED
    BY <1>5, <1>7, <1>10, <2>1, SumOfParts
<1>13. \A i \in a.bothLLM : \A n \in DOMAIN a.only : i \notin a.only[n]
  <2>1. \A n : ~({"gemini", "groq"} \subseteq {n})
    OBVIOUS
  <2>2. \A i \in bothLLM : \A n \in names : i \notin only[n]
    BY <2>1
  <2>3. DOMAIN only = names
    OBVIOUS
  <2> HIDE DEF bothLLM, only, names
  <2> QED
    BY <1>3, <2>2, <2>3
<1>14. a.hhemOver \subseteq a.only["hhem"] \cup a.pair[{"hhem", "heuristic"}]
  <2>1. ASSUME NEW i \in hhemOver
        PROVE  i \in only["hhem"] \/ i \in pair[{"hhem", "heuristic"}]
    <3>1. /\ i \in ids /\ right(i) \subseteq names /\ "hhem" \in right(i)
          /\ "gemini" \notin right(i) /\ "groq" \notin right(i)
      BY <1>4
    <3>2. right(i) = {"hhem"} \/ right(i) = {"hhem", "heuristic"}
      BY <3>1
    <3>3. {"hhem", "heuristic"} \in PairsOfMany /\ "hhem" \in names
      BY DEF PairsOfMany
    <3> QED
      BY <3>1, <3>2, <3>3
  <2> HIDE DEF hhemOver, only, pair
  <2> QED
    BY <1>3, <2>1
<1> HIDE DEF all, none, ones, twos, only, pair
<1>15. Cardinality(all) + Cardinality(none) + Cardinality(ones) + Cardinality(twos) <= Cardinality(ids)
  BY <1>2, <1>8, <1>9, FourAddUp
<1>16. Cardinality(ids) >= Cardinality(all) + Cardinality(none) + Cardinality(ones) + Cardinality(twos)
  BY <1>15
<1>17. ManyAddUp(q, a)
  BY <1>3, <1>11, <1>12, <1>13, <1>14, <1>16 DEF ManyAddUp, Size
<1> QED
  BY <1>17 DEF a, truth, said

Fractions == Int \X (Nat \ {0})

LEMMA LeqOrders ==
  /\ \A a, b \in Fractions : Leq(a, b) \/ Leq(b, a)
  /\ \A a, b, c \in Fractions : Leq(a, b) /\ Leq(b, c) => Leq(a, c)
<1>1. \A a \in Fractions : a[1] \in Int /\ a[2] \in Nat \ {0}
  BY DEF Fractions
<1>2. ASSUME NEW a \in Fractions, NEW b \in Fractions PROVE Leq(a, b) \/ Leq(b, a)
  <2>1. a[1] * b[2] \in Int /\ b[1] * a[2] \in Int
    BY <1>1
  <2> QED
    BY <2>1 DEF Leq
<1>3. ASSUME NEW a \in Fractions, NEW b \in Fractions, NEW c \in Fractions, Leq(a, b), Leq(b, c)
      PROVE  Leq(a, c)
  <2> DEFINE x == a[1]
             y == a[2]
             z == b[1]
             w == b[2]
             u == c[1]
             v == c[2]
  <2>1. x \in Int /\ y \in Nat \ {0} /\ z \in Int /\ w \in Nat \ {0} /\ u \in Int /\ v \in Nat \ {0}
    BY <1>1
  <2>2. x * w <= z * y /\ z * v <= u * w
    BY <1>3 DEF Leq
  <2>3. Leq(a, c) <=> x * v <= u * y
    BY DEF Leq
  <2> HIDE DEF x, y, z, w, u, v
  <2>4. (x * w) * v <= (z * y) * v
    <3> DEFINE p == x * w
               r == z * y
    <3>1. p \in Int /\ r \in Int /\ p <= r
      BY <2>1, <2>2
    <3> HIDE DEF p, r
    <3>2. p * v <= r * v
      BY <2>1, <3>1
    <3> QED
      BY <3>2 DEF p, r
  <2>5. (z * v) * y <= (u * w) * y
    <3> DEFINE p == z * v
               r == u * w
    <3>1. p \in Int /\ r \in Int /\ p <= r
      BY <2>1, <2>2
    <3> HIDE DEF p, r
    <3>2. p * y <= r * y
      BY <2>1, <3>1
    <3> QED
      BY <3>2 DEF p, r
  <2>6. (x * w) * v = (x * v) * w /\ (z * y) * v = (z * v) * y /\ (u * w) * y = (u * y) * w
    BY <2>1
  <2>7. x * v \in Int /\ u * y \in Int /\ (x * v) * w \in Int /\ (u * y) * w \in Int
        /\ (z * v) * y \in Int
    BY <2>1
  <2>8. (x * v) * w <= (u * y) * w
    BY <2>4, <2>5, <2>6, <2>7
  <2>9. ~((u * y) * w < (x * v) * w)
    BY <2>7, <2>8
  <2> DEFINE p == x * v
             r == u * y
  <2>10. p \in Int /\ r \in Int /\ ~(r * w < p * w)
    BY <2>7, <2>9
  <2> HIDE DEF p, r
  <2>11. ~(r < p)
    <3>1. ASSUME r < p PROVE r * w < p * w
      BY <2>1, <2>10, <3>1
    <3> QED
      BY <2>10, <3>1
  <2>12. p <= r
    BY <2>10, <2>11
  <2> QED
    BY <2>3, <2>12 DEF p, r
<1> QED
  BY <1>2, <1>3

\* Of finitely many fractions one is the best.
BestOf(T, f) == {t \in T : \A u \in T : Leq(f[u], f[t])}

LEMMA HasBest ==
  ASSUME NEW S, IsFiniteSet(S), S # {}, NEW f, \A t \in S : f[t] \in Fractions
  PROVE  BestOf(S, f) # {}
<1> DEFINE P == {T \in SUBSET S : T = {} \/ BestOf(T, f) # {}}
<1>1. {} \in P
  OBVIOUS
<1>2. ASSUME NEW T \in SUBSET S, T # {}, \A x \in T : T \ {x} \in P
      PROVE  T \in P
  <2>1. PICK x \in T : TRUE
    BY <1>2
  <2>2. T \ {x} = {} \/ BestOf(T \ {x}, f) # {}
    BY <1>2, <2>1
  <2>3. \A t, u \in T : f[t] \in Fractions /\ f[u] \in Fractions
    BY <1>2
  <2>4. CASE T \ {x} = {}
    <3>1. \A u \in T : u = x
      BY <2>4
    <3>2. Leq(f[x], f[x])
      BY <2>1, <2>3, LeqOrders
    <3>3. x \in BestOf(T, f)
      BY <2>1, <3>1, <3>2 DEF BestOf
    <3> QED
      BY <3>3
  <2>5. CASE BestOf(T \ {x}, f) # {}
    <3>1. PICK t \in T \ {x} : \A u \in T \ {x} : Leq(f[u], f[t])
      BY <2>5 DEF BestOf
    <3>2. CASE Leq(f[x], f[t])
      <4>1. t \in BestOf(T, f)
        BY <3>1, <3>2 DEF BestOf
      <4> QED
        BY <4>1
    <3>3. CASE Leq(f[t], f[x])
      <4>1. \A u \in T \ {x} : Leq(f[u], f[x])
        BY <2>1, <2>3, <3>1, <3>3, LeqOrders
      <4>2. Leq(f[x], f[x])
        BY <2>1, <2>3, LeqOrders
      <4>3. x \in BestOf(T, f)
        BY <2>1, <4>1, <4>2 DEF BestOf
      <4> QED
        BY <4>3
    <3> QED
      BY <2>1, <2>3, <3>1, <3>2, <3>3, LeqOrders
  <2> QED
    BY <2>2, <2>4, <2>5
<1> HIDE DEF P
<1>3. \A T \in SUBSET S : T \in P
  BY <1>1, <1>2, SubsetInduction
<1> QED
  BY <1>3 DEF P

LEMMA SmallestOf ==
  ASSUME NEW T, T \subseteq Nat, T # {}
  PROVE  Min(T) \in T /\ \A n \in T : Min(T) <= n
<1>1. PICK m \in T : \A n \in T : m <= n
  BY LeastOf
<1> QED
  BY <1>1 DEF Min

LEMMA ThresholdsOfQuestions == \A q \in ThresholdQuestions : ThresholdsHold(q, AnswerThresholds(q))
<1> SUFFICES ASSUME NEW q \in ThresholdQuestions
             PROVE  ThresholdsHold(q, AnswerThresholds(q))
  OBVIOUS
<1> DEFINE truth == q.truth
           supports == q.supports
           candidates == q.thresholds
           split == q.split
           row(t) == ThresholdRow(supports, truth, t)
           table == Table(supports, truth, candidates)
           f1 == [t \in candidates |-> table[t]["f1"]]
           best == BestOf(candidates, f1)
           chosen == SelectThreshold(supports, truth, split, candidates, "f1")
           a == AnswerThresholds(q)
<1>1. /\ IsFiniteSet(Examples) /\ truth \in [Examples -> Labels] /\ supports \in [Examples -> Int]
      /\ candidates \in SUBSET (0..3)
  BY ExamplesAssumption DEF ThresholdQuestions, Judged
<1>2. a.table = table /\ a.chosen = chosen
  BY DEF AnswerThresholds
<1>3. \A t \in candidates : table[t] = row(t) /\ t \in Nat
  BY <1>1 DEF Table
<1>4. DOMAIN truth = Examples
  BY <1>1
<1> HIDE DEF truth, supports, candidates, split, table
<1>5. \A t, u \in Int : t <= u =>
        /\ row(t) = Metrics(Confusion(truth, [i \in Examples |-> Decides(supports[i], t)]))
        /\ Leq(row(t).recall, row(u).recall)
        /\ Leq(row(t).false_positive_rate, row(u).false_positive_rate)
  BY <1>1, ThresholdTheorem
<1>6. ASSUME NEW t \in candidates PROVE f1[t] \in Fractions
  <2> DEFINE said == [i \in Examples |-> IF Below(supports[i], t) THEN "H" ELSE "G"]
             m == Confusion(truth, said)
  <2>1. said \in [Examples -> Labels]
    BY DEF Labels
  <2>2. row(t) = Metrics(m)
    BY <1>4 DEF ThresholdRow
  <2>3. m \in Matrices
    <3> HIDE DEF said
    <3>1. m = Confusion(truth, said) /\ IsFiniteSet(Examples) /\ truth \in [Examples -> Labels]
      BY <1>1
    <3> HIDE DEF m
    <3> QED
      BY <2>1, <3>1, MatrixTheorem DEF Matrices
  <2> HIDE DEF m
  <2>4. "f1" \in DOMAIN Metrics(m)
    BY DEF Metrics
  <2>5. Metrics(m)["f1"] \in Nat \X (Nat \ {0})
    BY <2>3, <2>4, RatesAreNatural
  <2>6. f1[t] = Metrics(m)["f1"]
    BY <1>3, <2>2
  <2> QED
    BY <2>5, <2>6 DEF Fractions
<1>7. IsFiniteSet(candidates) /\ candidates \subseteq Nat
  <2>1. 0..3 = {0, 1, 2, 3}
    OBVIOUS
  <2>2. candidates \in SUBSET {0, 1, 2, 3} /\ IsFiniteSet({0, 1, 2, 3})
    BY <1>1, <2>1, FewAreFinite
  <2>3. IsFiniteSet(candidates)
    BY <2>2, FS_Subset
  <2> QED
    BY <2>2, <2>3
<1>8. chosen = IF split = "test" \/ candidates = {} THEN ValueError ELSE Min(best)
  <2>1. \A t, u \in candidates : f1[t] = table[t]["f1"]
    OBVIOUS
  <2>2. best = {t \in candidates : \A u \in candidates : Leq(table[u]["f1"], table[t]["f1"])}
    BY DEF BestOf
  <2> QED
    BY <2>2 DEF SelectThreshold, table
<1> HIDE DEF f1, best, chosen, row
<1>9. candidates # {} => Min(best) \in best /\ \A t \in best : Min(best) <= t
  <2> SUFFICES ASSUME candidates # {}
               PROVE  Min(best) \in best /\ \A t \in best : Min(best) <= t
    OBVIOUS
  <2>1. best # {}
    BY <1>6, <1>7, HasBest DEF best
  <2>2. best \subseteq Nat
    BY <1>7 DEF best, BestOf
  <2> QED
    BY <2>1, <2>2, SmallestOf
<1>10. best \subseteq candidates
  BY DEF best, BestOf
<1>11. (chosen = ValueError) <=> (split = "test" \/ candidates = {})
  <2>1. \A n \in Nat : n # ValueError
    BY ValueErrorAssumption
  <2> QED
    BY <1>7, <1>8, <1>9, <1>10, <2>1
<1>12. chosen # ValueError =>
         \A t \in candidates :
           /\ Leq(a.table[t].f1, a.table[chosen].f1)
           /\ t < chosen => ~Leq(a.table[chosen].f1, a.table[t].f1)
  <2> SUFFICES ASSUME chosen # ValueError, NEW t \in candidates
               PROVE  /\ Leq(f1[t], f1[chosen])
                      /\ t < chosen => ~Leq(f1[chosen], f1[t])
    BY <1>2, <1>8, <1>9, <1>10 DEF f1
  <2>1. chosen \in best /\ \A u \in best : chosen <= u
    BY <1>8, <1>9
  <2>2. chosen \in candidates /\ \A u \in candidates : Leq(f1[u], f1[chosen])
    BY <2>1 DEF best, BestOf
  <2>3. ASSUME t < chosen, Leq(f1[chosen], f1[t]) PROVE FALSE
    <3>1. \A u \in candidates : Leq(f1[u], f1[t])
      BY <1>6, <2>2, <2>3, LeqOrders
    <3>2. t \in best
      BY <3>1 DEF best, BestOf
    <3>3. chosen <= t /\ chosen \in Nat /\ t \in Nat
      BY <1>7, <2>1, <2>2, <3>2
    <3> QED
      BY <2>3, <3>3
  <2> QED
    BY <2>2, <2>3
<1>13. \A t \in candidates : t \in Int /\ t <= t
  BY <1>3
<1>14. /\ \A t \in candidates :
            a.table[t] = Metrics(Confusion(truth, [i \in Examples |-> Decides(supports[i], t)]))
       /\ \A t, u \in candidates : t <= u =>
            /\ Leq(a.table[t].recall, a.table[u].recall)
            /\ Leq(a.table[t].false_positive_rate, a.table[u].false_positive_rate)
  BY <1>2, <1>3, <1>5, <1>13 DEF row
<1> HIDE DEF a
<1>15. ThresholdsHold(q, a)
  BY <1>2, <1>11, <1>12, <1>14 DEF ThresholdsHold, truth, supports, candidates, split
<1> QED
  BY <1>15 DEF a

-----------------------------------------------------------------------------
(* Choices, of which McNemar's test counts the small ones *)

Small(n, most)  == {S \in SUBSET (1..n) : Cardinality(S) <= most}
Large(n, least) == {S \in SUBSET (1..n) : Cardinality(S) >= least}

LEMMA ChoicesAreFinite ==
  ASSUME NEW n \in Nat
  PROVE  /\ IsFiniteSet(SUBSET (1..n)) /\ Cardinality(SUBSET (1..n)) = 2^n
         /\ \A S \in SUBSET (1..n) :
              /\ IsFiniteSet(S) /\ Cardinality(S) \in Nat
              /\ Cardinality((1..n) \ S) = n - Cardinality(S)
<1> DEFINE all == 1..n
<1>1. IsFiniteSet(all) /\ Cardinality(all) = n
  BY UpTo
<1> HIDE DEF all
<1>2. IsFiniteSet(SUBSET all) /\ Cardinality(SUBSET all) = 2^n
  BY <1>1, FS_SUBSET
<1>3. ASSUME NEW S \in SUBSET all
      PROVE  /\ IsFiniteSet(S) /\ Cardinality(S) \in Nat /\ Cardinality(all \ S) = n - Cardinality(S)
  <2>1. IsFiniteSet(S) /\ Cardinality(S) \in Nat
    BY <1>1, FS_Subset, FS_CardinalityType
  <2>2. Halves(all, S, all \ S)
    BY DEF Halves
  <2>3. Cardinality(all \ S) \in Nat /\ Cardinality(all) = Cardinality(S) + Cardinality(all \ S)
    BY <1>1, <2>2, HalvesAddUp
  <2> QED
    BY <1>1, <2>1, <2>3
<1> QED
  BY <1>2, <1>3 DEF all

LEMMA PowersArePositive == \A n \in Nat : 2^n \in Nat \ {0}
<1> TAKE n \in Nat
<1>1. IsFiniteSet(SUBSET (1..n)) /\ Cardinality(SUBSET (1..n)) = 2^n
  BY ChoicesAreFinite
<1>2. SUBSET (1..n) # {}
  OBVIOUS
<1> DEFINE F == SUBSET (1..n)
<1>3. Cardinality(F) \in Nat /\ Cardinality(F) # 0
  <2>1. IsFiniteSet(F) /\ F # {}
    BY <1>1, <1>2
  <2> HIDE DEF F
  <2> QED
    BY <2>1, FS_CardinalityType, FS_EmptySet
<1> QED
  BY <1>1, <1>3

LEMMA SmallAreChosen ==
  ASSUME NEW n \in Nat, NEW k \in Nat
  PROVE  /\ IsFiniteSet(Small(n, k)) /\ Cardinality(Small(n, k)) \in Nat \ {0}
         /\ ChoicesUpTo(n, k) = Cardinality(Small(n, k))
<1>1. Small(n, k) \in SUBSET (SUBSET (1..n))
  BY DEF Small
<1>2. IsFiniteSet(SUBSET (1..n))
  BY ChoicesAreFinite
<1>3. IsFiniteSet(Small(n, k)) /\ Cardinality(Small(n, k)) \in Nat
  BY <1>1, <1>2, FS_Subset, FS_CardinalityType
<1>4. {} \in Small(n, k)
  BY FS_EmptySet DEF Small
<1>5. Cardinality(Small(n, k)) # 0
  BY <1>3, <1>4, FS_EmptySet
<1> QED
  BY <1>3, <1>5 DEF ChoicesUpTo, Small

\* Each small choice leaves a large one, and the other way round.
LEMMA AsManyLarge ==
  ASSUME NEW n \in Nat, NEW k \in 0..n
  PROVE  IsFiniteSet(Large(n, n - k)) /\ Cardinality(Large(n, n - k)) = Cardinality(Small(n, k))
<1> DEFINE all == 1..n
           rest == [S \in Small(n, k) |-> all \ S]
<1>1. \A S \in SUBSET all : Cardinality(S) \in Nat /\ Cardinality(all \ S) = n - Cardinality(S)
  BY ChoicesAreFinite
<1>2. \A S \in Small(n, k) : S \in SUBSET all /\ Cardinality(S) <= k
  BY DEF Small
<1>3. \A S \in Small(n, k) : all \ S \in Large(n, n - k)
  <2> TAKE S \in Small(n, k)
  <2>1. all \ S \in SUBSET all /\ Cardinality(all \ S) = n - Cardinality(S)
        /\ Cardinality(S) \in Nat /\ Cardinality(S) <= k
    BY <1>1, <1>2
  <2>2. Cardinality(all \ S) >= n - k
    BY <2>1
  <2> QED
    BY <2>1, <2>2 DEF Large
<1>4. \A S \in Large(n, n - k) : all \ S \in Small(n, k) /\ all \ (all \ S) = S
  <2> TAKE S \in Large(n, n - k)
  <2>1. S \in SUBSET all /\ Cardinality(S) >= n - k
    BY DEF Large
  <2>2. all \ S \in SUBSET all /\ Cardinality(all \ S) = n - Cardinality(S) /\ Cardinality(S) \in Nat
    BY <1>1, <2>1
  <2>3. Cardinality(all \ S) <= k
    BY <2>1, <2>2
  <2> QED
    BY <2>1, <2>2, <2>3 DEF Small
<1>5. rest \in Surjection(Small(n, k), Large(n, n - k))
  BY <1>3, <1>4 DEF Surjection
<1>6. IsInjective(rest)
  <2>1. \A S, T \in Small(n, k) : all \ S = all \ T => S = T
    BY <1>2
  <2> QED
    BY <2>1 DEF IsInjective
<1>7. IsFiniteSet(Small(n, k))
  BY SmallAreChosen
<1> HIDE DEF rest
<1> QED
  BY <1>5, <1>6, <1>7, SameSize

\* Small choices are half of all where every choice is small or leaves a small one, and fewer
\* where some choice is neither.
LEMMA HalfAreSmall ==
  ASSUME NEW n \in Nat, NEW k \in 0..n, 2 * k <= n
  PROVE  (2 * Cardinality(Small(n, k)) >= 2^n) <=> (n <= 2 * k + 1)
<1> DEFINE F == SUBSET (1..n)
           A == Small(n, k)
           B == Large(n, n - k)
           few == Cardinality(A)
           power == 2^n
<1>1. IsFiniteSet(F) /\ Cardinality(F) = power
  BY ChoicesAreFinite
<1>2. IsFiniteSet(A) /\ IsFiniteSet(B) /\ Cardinality(B) = few
  BY SmallAreChosen, AsManyLarge
<1>3. A \subseteq F /\ B \subseteq F
  BY DEF Small, Large
<1>4. \A S \in F : Cardinality(S) \in Nat
  BY ChoicesAreFinite
<1>5. \A S \in F : (S \in A <=> Cardinality(S) <= k) /\ (S \in B <=> Cardinality(S) >= n - k)
  BY DEF Small, Large
<1>6. few \in Nat /\ power \in Nat
  BY <1>2, PowersArePositive, FS_CardinalityType
<1>7. CASE n <= 2 * k + 1
  <2>1. \A S \in F : S \in A \/ S \in B
    <3> TAKE S \in F
    <3>1. Cardinality(S) \in Nat
      BY <1>4
    <3>2. Cardinality(S) <= k \/ Cardinality(S) >= n - k
      BY <1>7, <3>1
    <3> QED
      BY <1>5, <3>2
  <2>2. A \cup B = F
    BY <1>3, <2>1
  <2> HIDE DEF A, B, F, power
  <2>3. Cardinality(A \cup B) = few + few - Cardinality(A \cap B)
    BY <1>2, FS_Union
  <2>4. Cardinality(A \cap B) \in Nat
    <3>1. A \cap B \in SUBSET A
      OBVIOUS
    <3> QED
      BY <1>2, <3>1, FS_Subset, FS_CardinalityType
  <2>5. 2 * few >= power
    <3> DEFINE both == Cardinality(A \cap B)
    <3>1. power = few + few - both
      BY <1>1, <2>2, <2>3
    <3>2. both \in Nat /\ few \in Nat
      BY <1>6, <2>4
    <3> HIDE DEF both, few
    <3> QED
      BY <3>1, <3>2
  <2> QED
    BY <1>7, <2>5 DEF few, power, A
<1>8. CASE ~(n <= 2 * k + 1)
  <2> DEFINE M == 1..(k + 1)
  <2>1. k + 1 \in Nat /\ k + 1 < n - k /\ k + 1 <= n
    BY <1>8
  <2>2. M \in F
    BY <2>1
  <2>3. Cardinality(M) = k + 1
    <3> DEFINE m == k + 1
    <3>1. Cardinality(1..m) = m
      <4> HIDE DEF m
      <4>1. m \in Nat
        BY <2>1 DEF m
      <4> QED
        BY <4>1, UpTo
    <3> QED
      BY <3>1
  <2>4. M \notin A /\ M \notin B
    <3>1. ~(k + 1 <= k) /\ ~(k + 1 >= n - k)
      BY <2>1
    <3> HIDE DEF M, A, B
    <3> QED
      BY <1>5, <2>2, <2>3, <3>1
  <2>5. A \cap B = {}
    <3> SUFFICES ASSUME NEW S \in A \cap B PROVE FALSE
      OBVIOUS
    <3>1. S \in F
      BY <1>3
    <3>2. Cardinality(S) \in Nat /\ Cardinality(S) <= k /\ Cardinality(S) >= n - k
      BY <1>4, <1>5, <3>1
    <3> QED
      BY <1>8, <3>2
  <2>6. A \cup B \in SUBSET F /\ A \cup B # F
    BY <1>3, <2>2, <2>4
  <2> HIDE DEF A, B, F, power, M
  <2>7. IsFiniteSet(A \cup B) /\ Cardinality(A \cup B) = few + few - Cardinality(A \cap B)
    BY <1>2, FS_Union
  <2>8. Cardinality(A \cap B) = 0
    BY <2>5, FS_EmptySet
  <2>9. Cardinality(A \cup B) <= power /\ Cardinality(A \cup B) # power
    BY <1>1, <2>6, FS_Subset
  <2> HIDE DEF few
  <2>10. ~(2 * few >= power)
    BY <1>6, <2>7, <2>8, <2>9
  <2> QED
    BY <1>8, <2>10 DEF few, power, A
<1> QED
  BY <1>7, <1>8

\* One more to choose from doubles the choices, and at most doubles the small ones.
With(F, x) == {S \cup {x} : S \in F}

LEMMA WithOneMore ==
  ASSUME NEW n \in Nat, NEW F, F \subseteq SUBSET (1..n)
  PROVE  IsFiniteSet(F \cup With(F, n + 1)) /\ Cardinality(F \cup With(F, n + 1)) = 2 * Cardinality(F)
<1> DEFINE x == n + 1
           G == With(F, x)
           f == [S \in F |-> S \cup {x}]
<1>1. \A S \in F : x \notin S
  OBVIOUS
<1>2. IsFiniteSet(F)
  <2>1. IsFiniteSet(SUBSET (1..n)) /\ F \in SUBSET (SUBSET (1..n))
    BY ChoicesAreFinite
  <2> DEFINE all == SUBSET (1..n)
  <2>2. IsFiniteSet(all) /\ F \in SUBSET all
    BY <2>1
  <2> HIDE DEF all
  <2> QED
    BY <2>2, FS_Subset
<1> HIDE DEF x
<1>3. f \in Surjection(F, G) /\ IsInjective(f)
  <2>1. ASSUME NEW S \in F, NEW T \in F, S \cup {x} = T \cup {x} PROVE S = T
    <3>1. S = (S \cup {x}) \ {x} /\ T = (T \cup {x}) \ {x}
      BY <1>1
    <3> QED
      BY <2>1, <3>1
  <2>2. f \in [F -> G] /\ \A T \in G : \E S \in F : f[S] = T
    BY DEF With
  <2> QED
    BY <2>1, <2>2 DEF Surjection, IsInjective
<1>4. F \cap G = {}
  <2>1. \A S \in G : x \in S
    BY DEF With
  <2> QED
    BY <1>1, <2>1
<1> HIDE DEF f, G
<1>5. IsFiniteSet(G) /\ Cardinality(G) = Cardinality(F)
  BY <1>2, <1>3, SameSize
<1>6. IsFiniteSet(F \cup G) /\ Cardinality(F \cup G) = Cardinality(F) + Cardinality(G) - Cardinality(F \cap G)
  BY <1>2, <1>5, FS_Union
<1>7. Cardinality(F \cap G) = 0 /\ Cardinality(F) \in Nat
  BY <1>2, <1>4, FS_EmptySet, FS_CardinalityType
<1> QED
  BY <1>5, <1>6, <1>7 DEF G, x

LEMMA ChoicesGrow ==
  ASSUME NEW n \in Nat, NEW k \in Nat
  PROVE  /\ 2^(n + 1) = 2 * 2^n
         /\ Cardinality(Small(n + 1, k)) <= 2 * Cardinality(Small(n, k))
<1> DEFINE x == n + 1
           rest(S) == S \ {x}
<1>1. \A S \in SUBSET (1..x) : /\ rest(S) \in SUBSET (1..n)
                               /\ S = rest(S) \/ S = rest(S) \cup {x}
  OBVIOUS
<1>2. SUBSET (1..n) \subseteq SUBSET (1..x) /\ \A S \in SUBSET (1..n) : S \cup {x} \in SUBSET (1..x)
  OBVIOUS
<1>3. x \in Nat
  OBVIOUS
<1> DEFINE all == SUBSET (1..n)
           more == SUBSET (1..x)
<1>4. more = all \cup With(all, x)
  <2>1. \A S \in more : S \in all \cup With(all, x)
    BY <1>1 DEF With
  <2>2. \A S \in all \cup With(all, x) : S \in more
    BY <1>2 DEF With
  <2> HIDE DEF all, more
  <2> QED
    BY <2>1, <2>2
<1>5. Cardinality(all \cup With(all, x)) = 2 * Cardinality(all)
  BY WithOneMore
<1>6. Cardinality(all) = 2^n /\ Cardinality(more) = 2^x
  <2> HIDE DEF x
  <2> QED
    BY <1>3, ChoicesAreFinite
<1>7. 2^x = 2 * 2^n
  <2> HIDE DEF all, more, x
  <2> QED
    BY <1>4, <1>5, <1>6
<1> DEFINE few == Small(n, k)
           grown == Small(x, k)
<1>8. grown \subseteq few \cup With(few, x)
  <2> SUFFICES ASSUME NEW S \in grown PROVE S \in few \cup With(few, x)
    OBVIOUS
  <2>1. S \in SUBSET (1..x) /\ Cardinality(S) <= k
    BY DEF Small
  <2>2. IsFiniteSet(S) /\ Cardinality(S) \in Nat
    <3> HIDE DEF x
    <3> QED
      BY <1>3, <2>1, ChoicesAreFinite
  <2>3. Cardinality(rest(S)) <= Cardinality(S) /\ Cardinality(rest(S)) \in Nat
    <3>1. rest(S) \in SUBSET S
      OBVIOUS
    <3> HIDE DEF rest
    <3> QED
      BY <2>2, <3>1, FS_Subset, FS_CardinalityType
  <2>4. rest(S) \in few
    <3>1. Cardinality(rest(S)) <= k
      BY <2>1, <2>2, <2>3
    <3> QED
      BY <1>1, <2>1, <3>1 DEF Small
  <2> HIDE DEF few
  <2> QED
    BY <1>1, <2>1, <2>4 DEF With
<1>9. few \subseteq SUBSET (1..n)
  BY DEF Small
<1> HIDE DEF few, grown
<1>10. IsFiniteSet(few \cup With(few, x)) /\ Cardinality(few \cup With(few, x)) = 2 * Cardinality(few)
  BY <1>9, WithOneMore
<1>11. Cardinality(grown) <= 2 * Cardinality(few)
  <2> DEFINE H == few \cup With(few, x)
  <2>1. IsFiniteSet(H) /\ grown \in SUBSET H
    BY <1>8, <1>10
  <2> HIDE DEF H
  <2>2. Cardinality(grown) <= Cardinality(H)
    BY <2>1, FS_Subset
  <2> QED
    BY <1>10, <2>2 DEF H
<1> QED
  BY <1>7, <1>11 DEF few, grown, x

\* What McNemar's test makes of the small choices among all.
Doubled(few, all) == IF 2 * few > all THEN <<1, 1>> ELSE <<2 * few, all>>
TailOf(b, c) == Doubled(Cardinality(Small(b + c, b)), 2^(b + c))

LEMMA NothingToChoose == Small(0, 0) = {{}} /\ 2^0 = 1
<1>1. 1..0 = {}
  OBVIOUS
<1>2. SUBSET (1..0) = {{}}
  BY <1>1
<1>3. Cardinality({{}}) = 1
  BY FS_Singleton
<1>4. Cardinality(SUBSET (1..0)) = 2^0
  BY ChoicesAreFinite
<1>5. Small(0, 0) = {{}}
  <2>1. Cardinality({}) = 0
    BY FS_EmptySet
  <2> QED
    BY <1>2, <2>1 DEF Small
<1> QED
  BY <1>2, <1>3, <1>4, <1>5

LEMMA PValue ==
  ASSUME NEW b \in Nat, NEW c \in Nat, b <= c
  PROVE  McNemar(b, c).p = TailOf(b, c) /\ McNemar(c, b).p = TailOf(b, c)
<1> DEFINE n == b + c
           few == Cardinality(Small(n, b))
           power == 2^n
<1>1. n \in Nat /\ c + b = n
  OBVIOUS
<1>2. ChoicesUpTo(n, b) = few
  <2> HIDE DEF n
  <2> QED
    BY <1>1, SmallAreChosen
<1>3. (IF b < c THEN b ELSE c) = b /\ (IF c < b THEN c ELSE b) = b
  OBVIOUS
<1> DEFINE capped == IF n = 0 \/ 2 * few > power THEN <<1, 1>> ELSE <<2 * few, power>>
<1>4. McNemar(b, c).p = capped /\ McNemar(c, b).p = capped
  <2>1. McNemar(b, c).p = IF n = 0 \/ 2 * ChoicesUpTo(n, IF b < c THEN b ELSE c) > 2^n THEN <<1, 1>>
                          ELSE <<2 * ChoicesUpTo(n, IF b < c THEN b ELSE c), 2^n>>
    BY DEF McNemar
  <2>2. McNemar(c, b).p = IF n = 0 \/ 2 * ChoicesUpTo(n, IF c < b THEN c ELSE b) > 2^n THEN <<1, 1>>
                          ELSE <<2 * ChoicesUpTo(n, IF c < b THEN c ELSE b), 2^n>>
    <3>1. McNemar(c, b).p
            = IF c + b = 0 \/ 2 * ChoicesUpTo(c + b, IF c < b THEN c ELSE b) > 2^(c + b) THEN <<1, 1>>
              ELSE <<2 * ChoicesUpTo(c + b, IF c < b THEN c ELSE b), 2^(c + b)>>
      BY DEF McNemar
    <3> HIDE DEF n
    <3> QED
      BY <1>1, <3>1, Zenon
  <2> QED
    BY <1>2, <1>3, <2>1, <2>2, Zenon
<1>5. CASE n = 0
  <2>1. b = 0 /\ c = 0
    BY <1>1, <1>5
  <2>2. Small(0, 0) = {{}} /\ 2^0 = 1
    BY NothingToChoose
  <2>3. Cardinality({{}}) = 1
    BY FS_Singleton
  <2>4. TailOf(b, c) = Doubled(Cardinality(Small(0, 0)), 2^0)
    BY <1>5, <2>1, Zenon DEF TailOf
  <2>5. TailOf(b, c) = Doubled(1, 1)
    BY <2>2, <2>3, <2>4, Zenon
  <2>6. TailOf(b, c) = <<1, 1>>
    BY <2>5 DEF Doubled
  <2> QED
    BY <1>4, <1>5, <2>6
<1>6. CASE n # 0
  BY <1>4, <1>6 DEF TailOf, Doubled
<1> QED
  BY <1>5, <1>6

LEMMA TailsFall ==
  ASSUME NEW b \in Nat, NEW c \in Nat, b <= c
  PROVE  /\ Leq(TailOf(b, c), <<1, 1>>) /\ TailOf(b, c)[1] > 0
         /\ Equal(TailOf(b, c), <<1, 1>>) <=> c - b <= 1
         /\ Leq(TailOf(b, c + 1), TailOf(b, c))
<1> DEFINE n == b + c
           few == Cardinality(Small(n, b))
           power == 2^n
           few2 == Cardinality(Small(n + 1, b))
           power2 == 2^(n + 1)
<1>1. n \in Nat /\ n + 1 \in Nat /\ b \in 0..n /\ 2 * b <= n /\ b + (c + 1) = n + 1
  OBVIOUS
<1>2. few \in Nat \ {0} /\ power \in Nat \ {0}
  <2> HIDE DEF n
  <2> QED
    BY <1>1, SmallAreChosen, PowersArePositive
<1>3. few2 \in Nat \ {0} /\ power2 \in Nat \ {0}
  <2> DEFINE m == n + 1
  <2>1. m \in Nat
    BY <1>1
  <2> HIDE DEF n, m
  <2>2. Cardinality(Small(m, b)) \in Nat \ {0} /\ 2^m \in Nat \ {0}
    BY <2>1, SmallAreChosen, PowersArePositive
  <2> QED
    BY <2>2 DEF m
<1>4. power2 = 2 * power /\ few2 <= 2 * few
  <2> HIDE DEF n
  <2> QED
    BY <1>1, ChoicesGrow
<1>5. (2 * few >= power) <=> (n <= 2 * b + 1)
  <2> HIDE DEF n
  <2> QED
    BY <1>1, HalfAreSmall
<1>6. n <= 2 * b + 1 <=> c - b <= 1
  OBVIOUS
<1>7. TailOf(b, c) = Doubled(few, power) /\ TailOf(b, c + 1) = Doubled(few2, power2)
  BY <1>1 DEF TailOf
<1> HIDE DEF few, power, few2, power2, n
<1> QED
  <2>1. Leq(Doubled(few, power), <<1, 1>>) /\ Doubled(few, power)[1] > 0
    BY <1>2 DEF Doubled, Leq
  <2>2. Equal(Doubled(few, power), <<1, 1>>) <=> 2 * few >= power
    BY <1>2 DEF Doubled, Equal
  <2>3. Leq(Doubled(few2, power2), Doubled(few, power))
    <3>1. CASE 2 * few > power
      BY <1>2, <1>3, <3>1 DEF Doubled, Leq
    <3>2. CASE ~(2 * few > power)
      <4>1. ~(2 * few2 > power2)
        BY <1>2, <1>3, <1>4, <3>2
      <4>2. Doubled(few, power) = <<2 * few, power>> /\ Doubled(few2, power2) = <<2 * few2, 2 * power>>
        BY <1>4, <3>2, <4>1 DEF Doubled
      <4>3. few2 * power <= (2 * few) * power
        BY <1>2, <1>3, <1>4, Products
      <4>4. (2 * few2) * power <= (2 * few) * (2 * power)
        <5> DEFINE x == few2 * power
                   y == few * power
        <5>1. x \in Int /\ y \in Int /\ (2 * few) * power = 2 * y /\ (2 * few2) * power = 2 * x
              /\ (2 * few) * (2 * power) = 4 * y
          BY <1>2, <1>3
        <5>2. x <= 2 * y
          BY <4>3, <5>1
        <5> HIDE DEF x, y
        <5> QED
          BY <5>1, <5>2
      <4> QED
        BY <4>2, <4>4 DEF Leq
    <3> QED
      BY <3>1, <3>2
  <2> QED
    BY <1>5, <1>6, <1>7, <2>1, <2>2, <2>3

LEMMA DiscordantOfQuestions == \A q \in DiscordantQuestions : McNemarHolds(q)
<1> TAKE q \in DiscordantQuestions
<1> DEFINE b == q.b
           c == q.c
<1>1. b \in Nat /\ c \in Nat
  BY DEF DiscordantQuestions
<1> HIDE DEF b, c
<1>2. Distance(b, c) = IF b <= c THEN c - b ELSE b - c
  BY <1>1 DEF Distance
<1>3. CASE b <= c
  <2>1. McNemar(b, c).p = TailOf(b, c) /\ McNemar(c, b).p = TailOf(b, c)
    BY <1>1, <1>3, PValue
  <2>2. c + 1 \in Nat /\ b <= c + 1
    BY <1>1, <1>3
  <2>3. McNemar(b, c + 1).p = TailOf(b, c + 1)
    BY <1>1, <2>2, PValue
  <2>4. /\ Leq(TailOf(b, c), <<1, 1>>) /\ TailOf(b, c)[1] > 0
        /\ Equal(TailOf(b, c), <<1, 1>>) <=> c - b <= 1
        /\ Leq(TailOf(b, c + 1), TailOf(b, c))
    BY <1>1, <1>3, TailsFall
  <2> QED
    BY <1>2, <1>3, <2>1, <2>3, <2>4 DEF McNemarHolds, b, c
<1>4. CASE ~(b <= c)
  <2>1. c <= b
    BY <1>1, <1>4
  <2>2. McNemar(c, b).p = TailOf(c, b) /\ McNemar(b, c).p = TailOf(c, b)
    BY <1>1, <2>1, PValue
  <2>3. /\ Leq(TailOf(c, b), <<1, 1>>) /\ TailOf(c, b)[1] > 0
        /\ Equal(TailOf(c, b), <<1, 1>>) <=> b - c <= 1
    BY <1>1, <2>1, TailsFall
  <2> QED
    BY <1>2, <1>4, <2>2, <2>3 DEF McNemarHolds, b, c
<1> QED
  BY <1>3, <1>4

-----------------------------------------------------------------------------
(* Questions about calibration *)

Squares(scores, targets) ==
  [i \in DOMAIN scores |-> (scores[i] - targets[i]) * (scores[i] - targets[i])]
Bins(scores) == [b \in 0..9 |-> {i \in DOMAIN scores : BinOf(scores[i]) = b}]
Gaps(scores, targets) ==
  [b \in 0..9 |-> Distance(SumFunctionOnSet(scores, Bins(scores)[b]),
                           SumFunctionOnSet(targets, Bins(scores)[b]))]

Calibrated(c, scores, targets) ==
  /\ c.bins = Bins(scores)
  /\ SumFunction(Sizes(Bins(scores), 0..9)) = Cardinality(DOMAIN scores)
  /\ c.brier = <<SumFunction(Squares(scores, targets)), 400 * Cardinality(DOMAIN scores)>>
  /\ Leq(c.ece, <<1, 1>>) /\ Leq(c.brier, <<1, 1>>)
  /\ c.brier[1] = 0 <=> \A i \in DOMAIN scores : scores[i] = targets[i]
  /\ c.brier[1] = 0 => c.ece[1] = 0

LEMMA SquaresAreBounded ==
  \A s, t \in 0..20 : (s - t) * (s - t) \in 0..400 /\ ((s - t) * (s - t) = 0 <=> s = t)
<1> TAKE s, t \in 0..20
<1> DEFINE d == s - t
<1>1. d \in -20..20 /\ (d = 0 <=> s = t)
  OBVIOUS
<1> HIDE DEF d
<1>2. CASE d \in 0..20
  <2>1. d * d <= 20 * d /\ d * d >= 0
    <3>1. d * d <= 20 * d
      BY <1>2, Products
    <3> QED
      BY <1>2, <3>1
  <2>2. d # 0 => d * d > 0
    BY <1>2
  <2> QED
    BY <1>1, <1>2, <2>1, <2>2 DEF d
<1>3. CASE d \in -20..(-1)
  <2> DEFINE e == -d
  <2>1. e \in 1..20 /\ d * d = e * e
    BY <1>3
  <2> HIDE DEF e
  <2>2. e * e <= 20 * e
    BY <2>1, Products
  <2>3. e * e > 0
    BY <2>1
  <2> QED
    BY <1>1, <1>3, <2>1, <2>2, <2>3 DEF d
<1> QED
  BY <1>1, <1>2, <1>3

LEMMA TenBins == IsFiniteSet(0..9)
<1>1. IsFiniteSet(1..9)
  BY UpTo
<1>2. IsFiniteSet((1..9) \cup {0})
  BY <1>1, FS_AddElement
<1>3. (1..9) \cup {0} = 0..9
  OBVIOUS
<1> QED
  BY <1>2, <1>3

LEMMA CalibrationLemma ==
  ASSUME NEW ids, IsFiniteSet(ids), NEW scores \in [ids -> 0..20], NEW targets \in [ids -> {0, 20}]
  PROVE  Calibrated(Calibration(scores, targets), scores, targets)
<1> DEFINE V == 0..9
           bins == Bins(scores)
           sizes == Sizes(bins, V)
           gaps == Gaps(scores, targets)
           squares == Squares(scores, targets)
           n == Cardinality(ids)
           c == Calibration(scores, targets)
<1>1. n \in Nat /\ DOMAIN scores = ids
  BY FS_CardinalityType
<1>2. c.bins = bins /\ c.ece = <<SumFunction(gaps), 20 * n>> /\ c.brier = <<SumFunction(squares), 400 * n>>
  BY <1>1, Zenon DEF Calibration, Bins, Gaps, Squares
<1>3. IsFiniteSet(V)
  BY TenBins
<1>4. Partition(ids, bins, V)
  <2>1. \A b \in V : bins[b] = {i \in ids : BinOf(scores[i]) = b}
    BY <1>1 DEF Bins
  <2>2. \A i \in ids : BinOf(scores[i]) \in V
    <3> TAKE i \in ids
    <3> DEFINE s == scores[i]
    <3>1. s \in 0..20
      OBVIOUS
    <3> HIDE DEF s
    <3>2. BinOf(s) \in 0..9
      BY <3>1 DEF BinOf
    <3> QED
      BY <3>2 DEF s
  <2> HIDE DEF bins, V
  <2> QED
    BY <2>1, <2>2 DEF Partition
<1>5. \A b \in V : /\ IsFiniteSet(bins[b]) /\ bins[b] \in SUBSET ids
                   /\ sizes[b] = Cardinality(bins[b]) /\ sizes[b] \in Nat
  <2> TAKE b \in V
  <2>1. bins[b] \in SUBSET ids
    BY <1>4 DEF Partition
  <2>2. sizes[b] = Cardinality(bins[b])
    BY DEF Sizes
  <2> HIDE DEF bins, sizes
  <2>3. IsFiniteSet(bins[b]) /\ Cardinality(bins[b]) \in Nat
    BY <2>1, FS_Subset, FS_CardinalityType
  <2> QED
    BY <2>1, <2>2, <2>3
<1>6. DOMAIN sizes = V /\ DOMAIN gaps = V /\ DOMAIN squares = ids
  BY DEF Sizes, Gaps, Squares
<1>7. \A b \in V : gaps[b] = Distance(SumFunctionOnSet(scores, bins[b]), SumFunctionOnSet(targets, bins[b]))
  BY DEF Gaps
<1>8. \A i \in ids : squares[i] \in 0..400 /\ (squares[i] = 0 <=> scores[i] = targets[i])
  <2> TAKE i \in ids
  <2> DEFINE s == scores[i]
             t == targets[i]
  <2>1. s \in 0..20 /\ t \in 0..20
    OBVIOUS
  <2>2. squares[i] = (s - t) * (s - t)
    BY DEF Squares
  <2> HIDE DEF s, t, squares
  <2>3. (s - t) * (s - t) \in 0..400 /\ ((s - t) * (s - t) = 0 <=> s = t)
    BY <2>1, SquaresAreBounded
  <2> QED
    BY <2>2, <2>3 DEF s, t
<1> HIDE DEF V, bins, sizes, gaps, squares, c, n
<1>9. SumFunction(sizes) = n
  <2>1. SumFunction(Sizes(bins, V)) = Cardinality(ids)
    BY <1>3, <1>4, SumOfParts
  <2> QED
    BY <2>1 DEF sizes, n
<1>10. \A b \in V : gaps[b] \in Nat /\ gaps[b] <= 20 * sizes[b]
  <2> TAKE b \in V
  <2> DEFINE x == SumFunctionOnSet(scores, bins[b])
             y == SumFunctionOnSet(targets, bins[b])
             S == bins[b]
  <2>1. IsFiniteSet(S) /\ (\A i \in S : scores[i] \in 0..20) /\ (\A i \in S : targets[i] \in 0..20)
    BY <1>5
  <2>2. x \in Nat /\ x <= 20 * Cardinality(S)
    <3> HIDE DEF S
    <3> QED
      BY <2>1, SumBounded DEF S
  <2>3. y \in Nat /\ y <= 20 * Cardinality(S)
    <3> HIDE DEF S
    <3> QED
      BY <2>1, SumBounded DEF S
  <2>4. gaps[b] = Distance(x, y) /\ Cardinality(S) = sizes[b] /\ sizes[b] \in Nat
    BY <1>5, <1>7
  <2> HIDE DEF x, y, S
  <2> QED
    BY <2>2, <2>3, <2>4 DEF Distance
<1>11. SumFunction(gaps) \in Int /\ SumFunction(gaps) <= 20 * n
  <2> DEFINE most == [b \in V |-> 20 * sizes[b]]
  <2>1. \A b \in V : sizes[b] \in Int /\ most[b] = 20 * sizes[b]
    BY <1>5
  <2>2. \A b \in V : gaps[b] \in Int /\ most[b] \in Int /\ gaps[b] <= most[b]
    BY <1>5, <1>10
  <2> HIDE DEF most
  <2>3. SumFunctionOnSet(most, V) = 20 * SumFunctionOnSet(sizes, V)
    BY <1>3, <2>1, SumScaled
  <2>4. SumFunctionOnSet(gaps, V) <= SumFunctionOnSet(most, V)
    BY <1>3, <2>2, SumMonotone
  <2>5. SumFunctionOnSet(gaps, V) \in Int
    BY <1>3, <2>2, SumIsInteger
  <2>6. SumFunctionOnSet(sizes, V) = n /\ SumFunction(gaps) = SumFunctionOnSet(gaps, V)
    BY <1>6, <1>9 DEF SumFunction
  <2> QED
    BY <2>3, <2>4, <2>5, <2>6
<1>12. SumFunction(squares) = SumFunctionOnSet(squares, ids)
  BY <1>6 DEF SumFunction
<1>13. SumFunction(squares) \in Nat /\ SumFunction(squares) <= 400 * n
  <2> DEFINE most == 400
  <2>1. most \in Nat /\ \A i \in ids : squares[i] \in 0..most
    BY <1>8
  <2> HIDE DEF most
  <2>2. SumFunctionOnSet(squares, ids) \in Nat /\ SumFunctionOnSet(squares, ids) <= most * Cardinality(ids)
    BY <2>1, SumBounded
  <2> QED
    BY <1>12, <2>2 DEF n, most
<1>14. SumFunction(squares) = 0 <=> \A i \in ids : scores[i] = targets[i]
  <2>1. ASSUME SumFunction(squares) = 0, NEW i \in ids PROVE scores[i] = targets[i]
    <3>1. \A j \in ids : squares[j] \in Nat
      BY <1>8, SMTT(30)
    <3>2. squares[i] <= SumFunctionOnSet(squares, ids)
      BY <3>1, SumHasPart
    <3>3. squares[i] = 0
      BY <1>12, <2>1, <3>1, <3>2
    <3> QED
      BY <1>8, <3>3
  <2>2. ASSUME \A i \in ids : scores[i] = targets[i] PROVE SumFunction(squares) = 0
    <3>1. \A i \in ids : squares[i] \in 0..0
      BY <1>8, <2>2
    <3>2. SumFunctionOnSet(squares, ids) \in Nat /\ SumFunctionOnSet(squares, ids) <= 0 * Cardinality(ids)
      BY <3>1, SumBounded
    <3> QED
      BY <1>1, <1>12, <3>2 DEF n
  <2> QED
    BY <2>1, <2>2
<1>15. ASSUME \A i \in ids : scores[i] = targets[i] PROVE SumFunction(gaps) = 0
  <2>1. ASSUME NEW b \in V PROVE gaps[b] \in 0..0
    <3>1. IsFiniteSet(bins[b]) /\ \A i \in bins[b] : scores[i] \in Int /\ targets[i] = scores[i]
      BY <1>5, <1>15
    <3> DEFINE S == bins[b]
               x == SumFunctionOnSet(scores, S)
    <3>2. IsFiniteSet(S) /\ (\A i \in S : scores[i] \in Int /\ targets[i] = scores[i])
          /\ (\A i \in S : scores[i] \in Int)
      BY <3>1
    <3> HIDE DEF S
    <3>3. SumFunctionOnSet(scores, S) = SumFunctionOnSet(targets, S)
      BY <3>2, SumSame
    <3>4. x \in Int
      BY <3>2, SumIsInteger
    <3>5. gaps[b] = Distance(x, x)
      BY <1>7, <3>3 DEF S
    <3> HIDE DEF x
    <3> QED
      BY <3>4, <3>5 DEF Distance
  <2>2. \A b \in V : gaps[b] \in 0..0
    BY <2>1
  <2>3. SumFunctionOnSet(gaps, V) \in Nat /\ SumFunctionOnSet(gaps, V) <= 0 * Cardinality(V)
    BY <1>3, <2>2, SumBounded
  <2>4. Cardinality(V) \in Nat
    BY <1>3, FS_CardinalityType
  <2> QED
    BY <1>6, <2>3, <2>4 DEF SumFunction
<1>16. Leq(c.ece, <<1, 1>>) /\ Leq(c.brier, <<1, 1>>)
  BY <1>1, <1>2, <1>11, <1>13 DEF Leq
<1>17. c.brier[1] = SumFunction(squares) /\ c.ece[1] = SumFunction(gaps)
  BY <1>2
<1> QED
  BY <1>1, <1>2, <1>9, <1>14, <1>15, <1>16, <1>17 DEF Calibrated, bins, sizes, squares, c, n, V

LEMMA CalibrationsOfQuestions ==
  \A q \in CalibrationQuestions : CalibrationHolds(q, AnswerCalibration(q))
<1> SUFFICES ASSUME NEW q \in CalibrationQuestions
             PROVE  CalibrationHolds(q, AnswerCalibration(q))
  OBVIOUS
<1> DEFINE ids == {1, 2}
           truth == q.truth
           said == q.said
           confidence == q.confidence
           shown == [i \in ids |-> ProbabilityOf(said[i], confidence[i])]
           labels == [i \in ids |-> IF truth[i] = "H" THEN 20 ELSE 0]
           rights == [i \in ids |-> IF said[i] = truth[i] THEN 20 ELSE 0]
           one == Calibration(shown, labels)
           two == Calibration(confidence, rights)
           a == AnswerCalibration(q)
<1>1. /\ truth \in [ids -> Labels] /\ said \in [ids -> Labels] /\ confidence \in [ids -> 0..20]
  BY DEF CalibrationQuestions
<1>2. IsFiniteSet(ids)
  <2>1. ids = 1..2
    OBVIOUS
  <2> QED
    BY <2>1, UpTo
<1> HIDE DEF ids, truth, said, confidence
<1>3. a = <<one, two>>
  <2>1. DOMAIN truth = ids
    BY <1>1
  <2> QED
    BY <2>1, Zenon DEF AnswerCalibration, ProbabilityCalibration, ConfidenceCalibration, truth, said, confidence
<1>4. ASSUME NEW i \in ids
      PROVE  /\ shown[i] \in 0..20 /\ confidence[i] \in 0..20
             /\ labels[i] \in {0, 20} /\ rights[i] \in {0, 20}
             /\ (rights[i] = 20 <=> said[i] = truth[i])
             /\ (shown[i] - labels[i]) * (shown[i] - labels[i])
                  = (confidence[i] - rights[i]) * (confidence[i] - rights[i])
  <2> DEFINE t == truth[i]
             s == said[i]
             p == confidence[i]
  <2>1. t \in Labels /\ s \in Labels /\ p \in 0..20
    BY <1>1
  <2>2. /\ shown[i] = ProbabilityOf(s, p) /\ labels[i] = IF t = "H" THEN 20 ELSE 0
        /\ rights[i] = IF s = t THEN 20 ELSE 0
    OBVIOUS
  <2> HIDE DEF t, s, p, shown, labels, rights
  <2>3. shown[i] \in 0..20 /\ labels[i] \in {0, 20} /\ rights[i] \in {0, 20} /\ (rights[i] = 20 <=> s = t)
    BY <2>1, <2>2 DEF ProbabilityOf, Labels
  <2>4. \/ shown[i] - labels[i] = p - rights[i]
        \/ shown[i] - labels[i] = -(p - rights[i])
    BY <2>1, <2>2 DEF ProbabilityOf, Labels
  <2> DEFINE x == shown[i] - labels[i]
             y == p - rights[i]
  <2>5. x \in Int /\ y \in Int /\ (x = y \/ x = -y)
    BY <2>1, <2>3, <2>4
  <2> HIDE DEF x, y
  <2>6. x * x = y * y
    BY <2>5
  <2> QED
    BY <2>1, <2>3, <2>6 DEF x, y, t, s, p
<1>5. /\ shown \in [ids -> 0..20] /\ labels \in [ids -> {0, 20}] /\ rights \in [ids -> {0, 20}]
      /\ DOMAIN shown = ids /\ DOMAIN confidence = ids /\ DOMAIN truth = ids
  BY <1>1, <1>4
<1>6. Squares(shown, labels) = Squares(confidence, rights)
  <2>1. \A i \in ids : (shown[i] - labels[i]) * (shown[i] - labels[i])
                  = (confidence[i] - rights[i]) * (confidence[i] - rights[i])
    BY <1>4
  <2> HIDE DEF shown, labels, rights
  <2> QED
    BY <1>5, <2>1 DEF Squares
<1> HIDE DEF shown, labels, rights
<1>7. Calibrated(one, shown, labels) /\ Calibrated(two, confidence, rights)
  BY <1>1, <1>2, <1>5, CalibrationLemma
<1> HIDE DEF one, two
<1> DEFINE sums(c) == SumFunction([b \in 0..9 |-> Cardinality(c.bins[b])])
<1>8. sums(one) = Cardinality(ids) /\ sums(two) = Cardinality(ids)
  <2>1. one.bins = Bins(shown) /\ SumFunction(Sizes(Bins(shown), 0..9)) = Cardinality(ids)
    BY <1>5, <1>7 DEF Calibrated
  <2>2. two.bins = Bins(confidence) /\ SumFunction(Sizes(Bins(confidence), 0..9)) = Cardinality(ids)
    BY <1>5, <1>7 DEF Calibrated
  <2> QED
    BY <2>1, <2>2, Zenon DEF Sizes
<1>9. one.brier[1] = two.brier[1] /\ one.brier = two.brier
  BY <1>5, <1>6, <1>7 DEF Calibrated
<1>10. two.brier[1] = 0 <=> \A i \in ids : confidence[i] = rights[i]
  BY <1>5, <1>7 DEF Calibrated
<1>11. (\A i \in ids : said[i] = truth[i] /\ confidence[i] = 20) <=>
         (two.brier[1] = 0 /\ \A i \in ids : confidence[i] = 20)
  BY <1>4, <1>10
<1>12. Equal(one.brier, two.brier)
  <2> DEFINE x == SumFunction(Squares(confidence, rights))
             y == 400 * Cardinality(ids)
  <2>1. one.brier = <<x, y>> /\ two.brier = <<x, y>>
    BY <1>5, <1>6, <1>7 DEF Calibrated
  <2> HIDE DEF x, y
  <2> QED
    BY <2>1 DEF Equal
<1>13. ASSUME NEW k \in 1..2
       PROVE  /\ sums(a[k]) = Cardinality(ids)
              /\ Leq(a[k].ece, <<1, 1>>) /\ Leq(a[k].brier, <<1, 1>>)
              /\ a[k].brier[1] = 0 => a[k].ece[1] = 0
  <2>1. a[1] = one /\ a[2] = two /\ k \in {1, 2}
    BY <1>3
  <2> HIDE DEF a, sums
  <2> QED
    BY <1>7, <1>8, <2>1 DEF Calibrated
<1>14. a[1] = one /\ a[2] = two
  BY <1>3
<1> HIDE DEF a
<1>15. CalibrationHolds(q, a)
  BY <1>5, <1>11, <1>12, <1>13, <1>14, Zenon DEF CalibrationHolds, Size, truth, said, confidence
<1> QED
  BY <1>15 DEF a

-----------------------------------------------------------------------------
(* Questions about latencies *)

\* The places of a sequence in the order of its numbers.
Ascends(b, n, s, place) ==
  /\ place \in [1..n -> 1..n] /\ b \in [1..n -> Int]
  /\ \A r \in 1..n : b[r] = s[place[r]]
  /\ \A r, t \in 1..n : r < t => place[r] # place[t]
  /\ \A r, t \in 1..n : r <= t => b[r] <= b[t]
  /\ \A k \in 1..n : \E r \in 1..n : place[r] = k

Enumerates(place, n, score) ==
  /\ place \in [1..n -> 1..n]
  /\ \A r \in 1..n : PlaceAmong(1..n, score, place[r]) = r
  /\ \A d \in 1..n : /\ PlaceAmong(1..n, score, d) \in 1..n
                     /\ place[PlaceAmong(1..n, score, d)] = d
  /\ \A r, s \in 1..n : r < s => Before(score, place[r], place[s])

LEMMA OrderOfPlaces ==
  ASSUME NEW n \in Nat, NEW score, \A d \in 1..n : score[d] \in Int
  PROVE  Enumerates(InOrder(1..n, score), n, score)
<1> DEFINE S == 1..n
           place == InOrder(S, score)
           m == Cardinality(S)
<1>1. IsFiniteSet(S) /\ S \subseteq Int
  BY UpTo
<1>4. m = n
  BY UpTo
<1>2. place = InOrder(S, score) /\ \A d \in S : score[d] \in Int
  OBVIOUS
<1> HIDE DEF place, S, m
<1>3. Cardinality(S) \in Nat /\ place \in [1..Cardinality(S) -> S]
  BY <1>1, <1>2, InOrderTells
<1>6. \A r \in 1..Cardinality(S) : PlaceAmong(S, score, place[r]) = r
  BY <1>1, <1>2, InOrderTells
<1>7. ASSUME NEW d \in S
      PROVE  /\ PlaceAmong(S, score, d) \in 1..Cardinality(S)
             /\ place[PlaceAmong(S, score, d)] = d
  <2>1. PlaceAmong(S, score, d) \in 1..Cardinality(S)
    BY <1>1, <1>2, InOrderTells
  <2>2. place[PlaceAmong(S, score, d)] = d
    <3> DEFINE e == place[PlaceAmong(S, score, d)]
    <3>1. e \in S /\ PlaceAmong(S, score, e) = PlaceAmong(S, score, d)
      BY <1>3, <1>6, <2>1
    <3> HIDE DEF e
    <3>2. d # e => PlaceAmong(S, score, d) # PlaceAmong(S, score, e)
      BY <1>1, <1>2, <3>1, PlacesAreTaken
    <3> QED
      BY <3>1, <3>2 DEF e
  <2> QED
    BY <2>1, <2>2
<1>5. \A r, s \in 1..Cardinality(S) : r < s => Before(score, place[r], place[s])
  <2> SUFFICES ASSUME NEW r \in 1..Cardinality(S), NEW s \in 1..Cardinality(S), r < s
               PROVE  Before(score, place[r], place[s])
    OBVIOUS
  <2> QED
    BY <1>1, <1>2, InOrderTells
<1> QED
  BY <1>3, <1>4, <1>5, <1>6, <1>7 DEF Enumerates, place, S, m

LEMMA AscendingTells ==
  ASSUME NEW values \in Seq(Int), NEW n, n = Len(values)
  PROVE  n \in Nat /\ \E place : Ascends(Ascending(values), n, values, place)
<1> DEFINE S == 1..n
           score == [k \in S |-> -values[k]]
           place == InOrder(S, score)
           b == Ascending(values)
<1>1. n \in Nat /\ DOMAIN values = S /\ values \in [S -> Int] /\ S \subseteq Int
  OBVIOUS
<1>2. IsFiniteSet(S) /\ Cardinality(S) = n
  BY <1>1, UpTo
<1>3. b = [r \in S |-> values[place[r]]]
  BY <1>1, Zenon DEF Ascending
<1>4. \A k \in S : score[k] \in Int /\ score[k] = -values[k]
  BY <1>1
<1> HIDE DEF score
<1>5. Enumerates(place, n, score)
  BY <1>1, <1>4, OrderOfPlaces
<1> HIDE DEF place, b
<1>6. b \in [1..n -> Int] /\ \A r \in 1..n : b[r] = values[place[r]]
  BY <1>1, <1>3, <1>5 DEF Enumerates
<1>7. ASSUME NEW r \in 1..n, NEW t \in 1..n, r < t
      PROVE  place[r] # place[t] /\ b[r] <= b[t]
  <2> DEFINE x == place[r]
             y == place[t]
  <2>1. x \in S /\ y \in S /\ Before(score, x, y)
    BY <1>5, <1>7 DEF Enumerates
  <2>2. score[x] = -values[x] /\ score[y] = -values[y] /\ values[x] \in Int /\ values[y] \in Int /\ b[r] = values[x] /\ b[t] = values[y]
    BY <1>1, <1>4, <1>6, <2>1
  <2> HIDE DEF x, y
  <2>3. x # y /\ values[x] <= values[y]
    BY <2>1, <2>2 DEF Before
  <2> QED
    BY <2>2, <2>3 DEF x, y
<1>8. \A r, t \in 1..n : r <= t => b[r] <= b[t]
  <2> TAKE r, t \in 1..n
  <2>1. r = t \/ r < t \/ ~(r <= t)
    BY <1>1
  <2>2. r = t => b[r] <= b[t]
    BY <1>6
  <2> QED
    BY <1>7, <2>1, <2>2
<1>9. \A k \in 1..n : \E r \in 1..n : place[r] = k
  BY <1>5 DEF Enumerates
<1>10. Ascends(b, n, values, place)
  BY <1>5, <1>6, <1>7, <1>8, <1>9 DEF Ascends, Enumerates
<1> QED
  BY <1>1, <1>10 DEF b

NoLarger(s, n, v) == {k \in 1..n : s[k] <= v}
Smaller(s, n, v)  == {k \in 1..n : s[k] < v}

\* At each place of the order as many are no larger, and fewer are smaller.
LEMMA RankTells ==
  ASSUME NEW n \in Nat, NEW s \in [1..n -> Int], NEW b, NEW place, Ascends(b, n, s, place), NEW r \in 1..n
  PROVE  /\ Cardinality(NoLarger(s, n, b[r])) \in Nat /\ Cardinality(NoLarger(s, n, b[r])) >= r
         /\ Cardinality(Smaller(s, n, b[r])) \in Nat /\ Cardinality(Smaller(s, n, b[r])) < r
<1> DEFINE all == 1..n
           first == 1..r
           most == {place[k] : k \in first}
           f == [k \in first |-> place[k]]
           A == NoLarger(s, n, b[r])
           B == Smaller(s, n, b[r])
<1>1. r \in Nat /\ r <= n /\ first \subseteq all /\ IsFiniteSet(all)
  BY UpTo
<1>2. IsFiniteSet(first) /\ Cardinality(first) = r
  <2>1. r \in Nat
    BY <1>1
  <2> QED
    BY <2>1, UpTo
<1>3. f \in Surjection(first, most) /\ IsInjective(f)
  <2>1. \A k, l \in first : place[k] = place[l] => k = l
    <3> TAKE k, l \in first
    <3>1. k \in all /\ l \in all /\ (k < l \/ l < k \/ k = l)
      BY <1>1
    <3> QED
      BY <3>1 DEF Ascends
  <2>2. \A x \in most : \E k \in first : f[k] = x
    OBVIOUS
  <2>3. f \in [first -> most]
    OBVIOUS
  <2> HIDE DEF most, first
  <2> QED
    BY <2>1, <2>2, <2>3 DEF Surjection, IsInjective
<1>4. most \subseteq A
  <2>1. \A k \in first : place[k] \in all /\ s[place[k]] = b[k] /\ b[k] <= b[r]
    BY <1>1 DEF Ascends
  <2> HIDE DEF first
  <2> QED
    BY <2>1 DEF NoLarger
<1>5. B \subseteq most \ {place[r]}
  <2> SUFFICES ASSUME NEW k \in B PROVE k \in most /\ k # place[r]
    OBVIOUS
  <2>1. k \in all /\ s[k] < b[r]
    BY DEF Smaller
  <2>2. PICK t \in 1..n : place[t] = k /\ s[k] = b[t]
    BY <2>1 DEF Ascends
  <2>3. b \in [1..n -> Int] /\ (r <= t => b[r] <= b[t])
    BY DEF Ascends
  <2>4. t < r
    <3>1. b[t] < b[r] /\ b[t] \in Int /\ b[r] \in Int
      BY <2>1, <2>2, <2>3
    <3> QED
      BY <1>1, <2>3, <3>1
  <2>5. t \in first /\ place[t] # place[r]
    BY <1>1, <2>4 DEF Ascends
  <2> QED
    BY <2>2, <2>5
<1>6. place[r] \in most
  BY <1>1
<1>7. A \in SUBSET all
  BY DEF NoLarger
<1> HIDE DEF all, first, most, f, A, B
<1>8. IsFiniteSet(most) /\ Cardinality(most) = r
  BY <1>2, <1>3, SameSize
<1>9. IsFiniteSet(A) /\ Cardinality(A) \in Nat /\ Cardinality(most) <= Cardinality(A)
  BY <1>1, <1>4, <1>7, FS_Subset, FS_CardinalityType
<1>10. Cardinality(most \ {place[r]}) = r - 1 /\ IsFiniteSet(most \ {place[r]})
  BY <1>6, <1>8, FS_RemoveElement
<1>11. Cardinality(B) \in Nat /\ Cardinality(B) <= Cardinality(most \ {place[r]})
  BY <1>5, <1>10, FS_Subset, FS_CardinalityType
<1> QED
  BY <1>1, <1>8, <1>9, <1>10, <1>11 DEF A, B

LEMMA Ranks ==
  ASSUME NEW n \in Nat \ {0}
  PROVE  /\ (50 * n + 99) \div 100 \in 1..n /\ (50 * n + 99) \div 100 = (n + 1) \div 2
         /\ (95 * n + 99) \div 100 \in 1..n /\ (95 * n + 99) \div 100 = (n * 950000 + 999999) \div 1000000
         /\ 100 * ((50 * n + 99) \div 100) >= 50 * n /\ 100 * (((50 * n + 99) \div 100) - 1) < 50 * n
         /\ 100 * ((95 * n + 99) \div 100) >= 95 * n /\ 100 * (((95 * n + 99) \div 100) - 1) < 95 * n
OBVIOUS

\* Between two neighbours: at the lower one, or a share of the way to the upper one.
Between(b, position) ==
  LET lower == b[position \div 100 + 1]
      upper == b[(position + 99) \div 100 + 1]
  IN  100 * lower + (position % 100) * (upper - lower)

LEMMA BetweenNeighbours ==
  ASSUME NEW x \in Int, NEW y \in Int, x <= y, NEW p \in 0..99, NEW r \in 0..99, p <= r
  PROVE  /\ 100 * x <= 100 * x + p * (y - x) /\ 100 * x + p * (y - x) <= 100 * y
         /\ 100 * x + p * (y - x) <= 100 * x + r * (y - x) /\ 100 * x + p * (y - x) \in Int
<1> DEFINE d == y - x
           u == p * d
           v == r * d
           w == 100 * d
<1>1. d \in Nat /\ w = 100 * y - 100 * x
  OBVIOUS
<1> HIDE DEF d
<1>2. u \in Nat /\ v \in Nat /\ w \in Nat /\ u <= v /\ v <= w
  <2>1. ASSUME NEW i \in Nat, NEW j \in Nat, i <= j PROVE i * d <= j * d /\ i * d \in Nat
    <3> DEFINE k == j - i
    <3>1. k \in Nat /\ j = i + k
      BY <2>1
    <3> HIDE DEF k
    <3>2. k * d \in Nat /\ i * d \in Nat
      BY <1>1, <3>1
    <3>3. j * d = i * d + k * d
      BY <1>1, <3>1
    <3> QED
      BY <3>2, <3>3
  <2> QED
    BY <1>1, <2>1
<1> HIDE DEF u, v, w
<1> QED
  BY <1>1, <1>2 DEF u, v, d

LEMMA BetweenThem ==
  ASSUME NEW x \in Int, NEW y \in Int, x <= y, NEW p \in 0..99
  PROVE  /\ 100 * x <= 100 * x + p * (y - x) /\ 100 * x + p * (y - x) <= 100 * y
         /\ 100 * x + p * (y - x) \in Int
<1>1. p <= p
  OBVIOUS
<1> QED
  BY <1>1, BetweenNeighbours

LEMMA Hundredths ==
  ASSUME NEW p \in Nat
  PROVE  /\ p \div 100 \in Nat /\ p % 100 \in 0..99 /\ p = 100 * (p \div 100) + (p % 100)
         /\ (p + 99) \div 100 = IF p % 100 = 0 THEN p \div 100 ELSE p \div 100 + 1
OBVIOUS

LEMMA BetweenAscends ==
  ASSUME NEW n \in Nat, NEW b \in [1..n -> Int], \A r, t \in 1..n : r <= t => b[r] <= b[t],
         NEW p \in 0..(100 * (n - 1)), NEW r \in 0..(100 * (n - 1)), p <= r
  PROVE  /\ Between(b, p) \in Int /\ Between(b, r) \in Int
         /\ Between(b, p) <= Between(b, r) /\ 100 * b[1] <= Between(b, p)
<1> DEFINE f == p \div 100
           g == r \div 100
           i == p % 100
           j == r % 100
           up(l, m) == IF m = 0 THEN l ELSE l + 1
<1>1. /\ f \in Nat /\ i \in 0..99 /\ p = 100 * f + i /\ (p + 99) \div 100 = up(f, i)
      /\ g \in Nat /\ j \in 0..99 /\ r = 100 * g + j /\ (r + 99) \div 100 = up(g, j)
  <2>1. p \in Nat /\ r \in Nat
    OBVIOUS
  <2> QED
    BY <2>1, Hundredths
<1> DEFINE x == b[f + 1]
           y == b[up(f, i) + 1]
           z == b[g + 1]
           w == b[up(g, j) + 1]
<1>2. Between(b, p) = 100 * x + i * (y - x) /\ Between(b, r) = 100 * z + j * (w - z)
  BY <1>1, ZenonT(60) DEF Between
<1> HIDE DEF f, g, i, j
<1>3. /\ 1 \in 1..n /\ f + 1 \in 1..n /\ up(f, i) + 1 \in 1..n /\ g + 1 \in 1..n /\ up(g, j) + 1 \in 1..n
      /\ f + 1 <= up(f, i) + 1 /\ g + 1 <= up(g, j) + 1 /\ 1 <= f + 1
  BY <1>1
<1>4. /\ x \in Int /\ y \in Int /\ z \in Int /\ w \in Int /\ b[1] \in Int
      /\ x <= y /\ z <= w /\ b[1] <= x
  <2> HIDE DEF up
  <2> QED
    BY <1>3
<1>5. /\ 100 * x <= 100 * x + i * (y - x) /\ 100 * x + i * (y - x) <= 100 * y
      /\ 100 * x + i * (y - x) \in Int
  <2> HIDE DEF x, y
  <2> QED
    BY <1>1, <1>4, BetweenThem
<1>6. 100 * z <= 100 * z + j * (w - z) /\ 100 * z + j * (w - z) \in Int
  <2> HIDE DEF z, w
  <2> QED
    BY <1>1, <1>4, BetweenThem
<1>7. 100 * x + i * (y - x) <= 100 * z + j * (w - z)
  <2>1. CASE up(f, i) <= g
    <3>1. y <= z
      <4>1. up(f, i) + 1 <= g + 1
        BY <1>1, <1>3, <2>1
      <4> HIDE DEF up
      <4> QED
        BY <1>3, <4>1
    <3> HIDE DEF x, y, z, w
    <3> DEFINE u == 100 * x + i * (y - x)
               v == 100 * z + j * (w - z)
    <3>2. u \in Int /\ v \in Int /\ u <= 100 * y /\ 100 * z <= v
      BY <1>5, <1>6
    <3> HIDE DEF u, v
    <3>3. u <= v
      BY <1>4, <3>1, <3>2
    <3> QED
      BY <3>3 DEF u, v
  <2>2. CASE ~(up(f, i) <= g)
    <3>1. f = g /\ i # 0 /\ i <= j
      BY <1>1, <2>2
    <3>2. z = x /\ w = y
      BY <1>1, <3>1
    <3> HIDE DEF x, y, z, w
    <3>3. 100 * x + i * (y - x) <= 100 * x + j * (y - x)
      BY <1>1, <1>4, <3>1, BetweenNeighbours
    <3> QED
      BY <3>2, <3>3
  <2> QED
    BY <2>1, <2>2
<1>8. 100 * b[1] <= 100 * x + i * (y - x)
  <2> HIDE DEF x, y
  <2> DEFINE u == 100 * x + i * (y - x)
             v == b[1]
  <2>1. u \in Int /\ v \in Int /\ 100 * x <= u /\ v <= x
    BY <1>4, <1>5
  <2> HIDE DEF u, v
  <2>2. 100 * v <= u
    BY <1>4, <2>1
  <2> QED
    BY <2>2 DEF u, v
<1> HIDE DEF x, y, z, w
<1> QED
  BY <1>2, <1>5, <1>6, <1>7, <1>8

LEMMA LatenciesOfQuestions ==
  \A q \in LatencyQuestions : LatenciesHold(q, LatencySummary(q.values))
<1> SUFFICES ASSUME NEW q \in LatencyQuestions
             PROVE  LatenciesHold(q, LatencySummary(q.values))
  OBVIOUS
<1> DEFINE s == q.values
           n == Len(s)
           a == LatencySummary(s)
           b == Ascending(s)
           mid == (50 * n + 99) \div 100
           high == (95 * n + 99) \div 100
<1>1. s \in Seq(Int) /\ n \in Nat
  <2>1. q.values \in BoundedSeq(0..2, 4) \cup {[i \in 1..m |-> i] : m \in 19..41}
    BY DEF LatencyQuestions
  <2>2. PICK m \in Nat : s \in [1..m -> Int]
    <3>1. CASE q.values \in BoundedSeq(0..2, 4)
      <4>1. PICK m \in 0..4 : q.values \in [1..m -> 0..2]
        BY <3>1 DEF BoundedSeq, SeqOf
      <4> QED
        BY <4>1
    <3>2. CASE q.values \in {[i \in 1..m |-> i] : m \in 19..41}
      <4>1. PICK m \in 19..41 : q.values = [i \in 1..m |-> i]
        BY <3>2
      <4>2. m \in Nat /\ s \in [1..m -> Int]
        BY <4>1
      <4> QED
        BY <4>2
    <3> QED
      BY <2>1, <3>1, <3>2
  <2> HIDE DEF s
  <2> QED
    BY <2>2
<1>2. PICK place : Ascends(b, n, s, place)
  <2> HIDE DEF s
  <2> QED
    BY <1>1, AscendingTells
<1>3. s \in [1..n -> Int] /\ (s = <<>> <=> n = 0)
  <2> HIDE DEF s
  <2> QED
    BY <1>1
<1> HIDE DEF s, b
<1>4. CASE s = <<>>
  BY <1>3, <1>4, SMT DEF LatenciesHold, LatencySummary, FullLatencySummary, s
<1>5. CASE s # <<>>
  <2>1. n \in Nat \ {0} /\ n > 0
    BY <1>1, <1>3, <1>5
  <2>2. /\ a = [count |-> n, p50 |-> NearestRank(s, 50), p95 |-> NearestRank(s, 95)]
        /\ NearestRank(s, 50) = b[IF mid < 1 THEN 1 ELSE mid]
        /\ NearestRank(s, 95) = b[IF high < 1 THEN 1 ELSE high]
        /\ \A h : Percentile(s, h) = <<Between(b, h * (n - 1)), 100>>
    BY <1>5, Zenon DEF LatencySummary, NearestRank, Percentile, Between, b
  <2>10. FullLatencySummary(s) = [count |-> n, p50 |-> b[(n + 1) \div 2],
                                  p95 |-> b[(n * 950000 + 999999) \div 1000000]]
    BY <1>5, SMT DEF FullLatencySummary, b
  <2> HIDE DEF n
  <2>3. /\ mid \in 1..n /\ mid = (n + 1) \div 2
        /\ high \in 1..n /\ high = (n * 950000 + 999999) \div 1000000
    BY <2>1, Ranks, SMT
  <2>11. /\ 100 * mid >= 50 * n /\ 100 * (mid - 1) < 50 * n
         /\ 100 * high >= 95 * n /\ 100 * (high - 1) < 95 * n
         /\ mid \in 1..n /\ high \in 1..n
    BY <2>1, Ranks, SMT
  <2> HIDE DEF mid, high
  <2>4. a = FullLatencySummary(s) /\ a.p50 = b[mid] /\ a.p95 = b[high]
    <3>1. ~(mid < 1) /\ ~(high < 1)
      BY <2>1, <2>11
    <3>2. NearestRank(s, 50) = b[mid] /\ NearestRank(s, 95) = b[high]
      BY <2>2, <3>1
    <3> HIDE DEF a
    <3> QED
      BY <2>2, <2>3, <2>10, <3>2, SMT
  <2>5. ASSUME NEW r \in 1..n
        PROVE  /\ Cardinality({k \in 1..n : s[k] <= b[r]}) \in Nat
               /\ Cardinality({k \in 1..n : s[k] <= b[r]}) >= r
               /\ Cardinality({k \in 1..n : s[k] < b[r]}) \in Nat
               /\ Cardinality({k \in 1..n : s[k] < b[r]}) < r
    <3>1. /\ Cardinality(NoLarger(s, n, b[r])) \in Nat /\ Cardinality(NoLarger(s, n, b[r])) >= r
          /\ Cardinality(Smaller(s, n, b[r])) \in Nat /\ Cardinality(Smaller(s, n, b[r])) < r
      BY <1>2, <1>3, <2>1, RankTells
    <3> QED
      BY <3>1 DEF NoLarger, Smaller
  <2> DEFINE upTo(v) == Cardinality({k \in 1..n : s[k] <= v})
             below(v) == Cardinality({k \in 1..n : s[k] < v})
  <2>6. /\ upTo(b[mid]) \in Nat /\ upTo(b[mid]) >= mid /\ below(b[mid]) \in Nat /\ below(b[mid]) < mid
        /\ upTo(b[high]) \in Nat /\ upTo(b[high]) >= high
        /\ below(b[high]) \in Nat /\ below(b[high]) < high
    BY <2>11, <2>5
  <2> HIDE DEF upTo, below, a
  <2>7. /\ 100 * upTo(b[mid]) >= 50 * n /\ 100 * below(b[mid]) < 50 * n
        /\ 100 * upTo(b[high]) >= 95 * n /\ 100 * below(b[high]) < 95 * n
    BY <2>1, <2>11, <2>6
  <2>8. Leq(Percentile(s, 3), Percentile(s, 97)) /\ Leq(<<b[1], 1>>, Percentile(s, 3))
    <3> DEFINE p == 3 * (n - 1)
               l == 97 * (n - 1)
               u == Between(b, p)
               v == Between(b, l)
    <3>1. Percentile(s, 3) = <<u, 100>> /\ Percentile(s, 97) = <<v, 100>>
      BY <2>2
    <3>2. p \in 0..(100 * (n - 1)) /\ l \in 0..(100 * (n - 1)) /\ p <= l
      BY <2>1
    <3>3. b \in [1..n -> Int] /\ (\A r, t \in 1..n : r <= t => b[r] <= b[t]) /\ 1 \in 1..n
      <4>1. 1 \in 1..n
        BY <2>1
      <4>2. b \in [1..n -> Int] /\ \A r, t \in 1..n : r <= t => b[r] <= b[t]
        BY <1>2 DEF Ascends
      <4> QED
        BY <4>1, <4>2
    <3> HIDE DEF p, l
    <3>4. u \in Int /\ v \in Int /\ u <= v /\ 100 * b[1] <= u
      BY <2>1, <3>2, <3>3, BetweenAscends
    <3>5. b[1] \in Int
      BY <3>3
    <3> HIDE DEF u, v
    <3> QED
      BY <3>1, <3>4, <3>5 DEF Leq
  <2>9. LatenciesHold(q, a)
    <3>1. /\ 100 * upTo(a.p50) >= 50 * n /\ 100 * below(a.p50) < 50 * n
          /\ 100 * upTo(a.p95) >= 95 * n /\ 100 * below(a.p95) < 95 * n
      BY <2>4, <2>7
    <3> QED
      BY <2>4, <2>8, <3>1, Zenon DEF LatenciesHold, Size, upTo, below, n, s, b
  <2> QED
    BY <2>9 DEF a, s
<1> QED
  BY <1>4, <1>5

-----------------------------------------------------------------------------
(* Questions about repeated decisions *)

LEMMA SumSplits ==
  ASSUME NEW S, IsFiniteSet(S), NEW f, \A x \in S : f[x] \in Int, NEW A \in SUBSET S, NEW B \in SUBSET S,
         Halves(S, A, B)
  PROVE  SumFunctionOnSet(f, S) = SumFunctionOnSet(f, A) + SumFunctionOnSet(f, B)
<1> DEFINE sum(s) == SumFunctionOnSet(f, s)
           P == {s \in SUBSET A : sum(s \cup B) = sum(s) + sum(B)}
<1>1. A \cap B = {} /\ A \cup B = S
  BY DEF Halves
<1>2. \A s \in SUBSET S : IsFiniteSet(s) /\ (\A x \in s : f[x] \in Int) /\ sum(s) \in Int
  BY FS_Subset, SumIsInteger
<1>3. {} \in P
  <2>1. sum({}) = 0 /\ {} \cup B = B /\ sum(B) \in Int
    BY <1>2, SumOfNothing
  <2> HIDE DEF sum
  <2> QED
    BY <2>1
<1>4. ASSUME NEW T \in SUBSET A, T # {}, \A x \in T : T \ {x} \in P
      PROVE  T \in P
  <2>1. PICK x \in T : TRUE
    BY <1>4
  <2>2. T \in SUBSET S /\ T \cup B \in SUBSET S /\ x \in T \cup B /\ (T \cup B) \ {x} = (T \ {x}) \cup B
    BY <1>1, <2>1
  <2>3. sum(T) = f[x] + sum(T \ {x})
    BY <1>2, <2>2, SumStep
  <2>4. sum(T \cup B) = f[x] + sum((T \cup B) \ {x})
    <3> DEFINE U == T \cup B
    <3>1. IsFiniteSet(U) /\ (\A y \in U : f[y] \in Int) /\ x \in U
      BY <1>2, <2>2
    <3> HIDE DEF U
    <3>2. SumFunctionOnSet(f, U) = f[x] + SumFunctionOnSet(f, U \ {x})
      BY <3>1, SumStep
    <3> QED
      BY <3>2 DEF U
  <2>5. sum((T \ {x}) \cup B) = sum(T \ {x}) + sum(B)
    BY <1>4, <2>1
  <2>6. f[x] \in Int /\ sum(T \ {x}) \in Int /\ sum(B) \in Int
    <3>1. T \ {x} \in SUBSET S
      OBVIOUS
    <3> QED
      BY <1>2, <2>2, <3>1
  <2>7. sum(T \cup B) = sum(T) + sum(B)
    <3> DEFINE t == sum(T)
               u == sum(T \cup B)
               r == sum(T \ {x})
               v == sum(B)
    <3>1. t = f[x] + r /\ u = f[x] + (r + v) /\ r \in Int /\ v \in Int
      BY <2>2, <2>3, <2>4, <2>5, <2>6
    <3> HIDE DEF t, u, r, v
    <3>2. u = t + v
      BY <2>6, <3>1
    <3> QED
      BY <3>2 DEF t, u, v
  <2> HIDE DEF sum
  <2> QED
    BY <2>7
<1>5. IsFiniteSet(A)
  BY <1>2
<1> HIDE DEF P, sum
<1>6. A \in P
  BY <1>3, <1>4, <1>5, SubsetInduction
<1> QED
  BY <1>1, <1>6 DEF P, sum

LEMMA SumOfSame ==
  ASSUME NEW S, IsFiniteSet(S), NEW c \in Int, NEW f, \A x \in S : f[x] = c
  PROVE  SumFunctionOnSet(f, S) = c * Cardinality(S)
<1> DEFINE ones == [x \in S |-> 1]
<1>1. \A x \in S : ones[x] = 1
  OBVIOUS
<1>2. \A x \in S : ones[x] \in Int /\ f[x] = c * ones[x]
  OBVIOUS
<1> HIDE DEF ones
<1>3. SumFunctionOnSet(ones, S) = Cardinality(S)
  BY <1>1, SumOfOnes
<1>4. SumFunctionOnSet(f, S) = c * SumFunctionOnSet(ones, S)
  BY <1>2, SumScaled
<1> QED
  BY <1>3, <1>4

\* Three places in their order are themselves.
LEMMA ThreePicked == \A s : Picked(s, 1..3) = [k \in 1..3 |-> s[k]]
<1> TAKE s
<1> DEFINE n == 3
           score == [k \in 1..3 |-> 0]
           place == InOrder(1..n, score)
<1>1. n \in Nat /\ \A d \in 1..n : score[d] \in Int
  OBVIOUS
<1>2. Enumerates(place, n, score)
  <2> HIDE DEF n, score
  <2> QED
    BY <1>1, OrderOfPlaces
<1>3. Picked(s, 1..3) = [k \in DOMAIN place |-> s[place[k]]]
  BY Zenon DEF Picked
<1> HIDE DEF place
<1>4. place \in [1..3 -> 1..3] /\ place[1] < place[2] /\ place[2] < place[3]
  <2>1. place \in [1..3 -> 1..3]
    BY <1>2 DEF Enumerates
  <2>2. \A x, y \in 1..3 : Before(score, x, y) => x < y
    BY DEF Before
  <2> HIDE DEF score
  <2>3. Before(score, place[1], place[2]) /\ Before(score, place[2], place[3])
    BY <1>2 DEF Enumerates
  <2> QED
    BY <2>1, <2>2, <2>3
<1>5. \A k \in 1..3 : place[k] = k
  <2>1. place[1] \in 1..3 /\ place[2] \in 1..3 /\ place[3] \in 1..3
    BY <1>4
  <2>2. place[1] = 1 /\ place[2] = 2 /\ place[3] = 3
    BY <1>4, <2>1
  <2> QED
    BY <2>2
<1>6. DOMAIN place = 1..3
  BY <1>4
<1> QED
  BY <1>3, <1>5, <1>6

ThreePairs == {<<1, 2>>, <<1, 3>>, <<2, 3>>}
Agreeing(l) == {kl \in ThreePairs : l[kl[1]] = l[kl[2]]}

\* Of three labels of two kinds all pairs agree, or one does.
LEMMA PairsAgree ==
  ASSUME NEW l \in [1..3 -> Labels]
  PROVE  /\ Cardinality(Agreeing(l)) \in {1, 3}
         /\ Cardinality(Agreeing(l)) # 3 => {"G", "H"} \subseteq {l[k] : k \in 1..3}
<1>1. l[1] \in {"G", "H"} /\ l[2] \in {"G", "H"} /\ l[3] \in {"G", "H"}
  BY DEF Labels
<1>2. /\ <<1, 2>> # <<1, 3>> /\ <<1, 2>> # <<2, 3>> /\ <<1, 3>> # <<2, 3>>
      /\ \A kl \in ThreePairs : kl = <<1, 2>> \/ kl = <<1, 3>> \/ kl = <<2, 3>>
  BY DEF ThreePairs
<1>3. /\ \A x : x \in Agreeing(l) <=> x \in ThreePairs /\ l[x[1]] = l[x[2]]
      /\ <<1, 2>> \in ThreePairs /\ <<1, 3>> \in ThreePairs /\ <<2, 3>> \in ThreePairs
  BY DEF Agreeing, ThreePairs
<1>4. \A x : Cardinality({x}) = 1
  BY FS_Singleton
<1>5. CASE l[1] = l[2] /\ l[2] = l[3]
  <2>1. Agreeing(l) = ThreePairs
    BY <1>5 DEF Agreeing, ThreePairs
  <2>2. Cardinality(ThreePairs) = 3
    <3> DEFINE x == <<1, 2>>
               y == <<1, 3>>
               z == <<2, 3>>
    <3>1. x # y /\ x # z /\ y # z /\ ThreePairs = {x, y, z}
      BY <1>2 DEF ThreePairs
    <3> HIDE DEF x, y, z
    <3>2. IsFiniteSet({x}) /\ Cardinality({x}) = 1 /\ y \notin {x}
      BY <3>1, FS_Singleton
    <3>3. IsFiniteSet({x} \cup {y}) /\ Cardinality({x} \cup {y}) = 1 + 1 /\ z \notin {x} \cup {y}
      BY <3>1, <3>2, FS_AddElement
    <3>4. Cardinality(({x} \cup {y}) \cup {z}) = (1 + 1) + 1
      BY <3>3, FS_AddElement
    <3>5. ThreePairs = ({x} \cup {y}) \cup {z}
      BY <3>1
    <3> QED
      BY <3>4, <3>5
  <2> QED
    BY <2>1, <2>2
<1>6. CASE ~(l[1] = l[2] /\ l[2] = l[3])
  <2>1. \E x \in ThreePairs : Agreeing(l) = {x}
    <3>1. CASE l[1] = l[2]
      <4>1. Agreeing(l) = {<<1, 2>>}
        BY <1>6, <3>1 DEF Agreeing, ThreePairs
      <4> QED
        BY <1>3, <4>1
    <3>2. CASE l[1] # l[2] /\ l[1] = l[3]
      <4>1. Agreeing(l) = {<<1, 3>>}
        BY <1>6, <3>2 DEF Agreeing, ThreePairs
      <4> QED
        BY <1>3, <4>1
    <3>3. CASE l[1] # l[2] /\ l[1] # l[3]
      <4>1. l[2] = l[3]
        BY <1>1, <3>3
      <4>2. Agreeing(l) = {<<2, 3>>}
        BY <1>6, <3>3, <4>1 DEF Agreeing, ThreePairs
      <4> QED
        BY <1>3, <4>2
    <3> QED
      BY <3>1, <3>2, <3>3
  <2>2. Cardinality(Agreeing(l)) = 1
    BY <1>4, <2>1
  <2>3. {"G", "H"} \subseteq {l[k] : k \in 1..3}
    BY <1>1, <1>6
  <2> QED
    BY <2>2, <2>3
<1> QED
  BY <1>5, <1>6

\* Three decisions of three at most are all there are.
LEMMA DecidedTells ==
  ASSUME NEW decisions \in BoundedSeq(Labels \cup {"NONE"}, 3), Decided(decisions)
  PROVE  /\ DOMAIN decisions = 1..3 /\ {k \in DOMAIN decisions : decisions[k] \in Labels} = 1..3
         /\ decisions # <<>>
<1>1. PICK m \in 0..3 : decisions \in [1..m -> Labels \cup {"NONE"}]
  BY DEF BoundedSeq, SeqOf
<1> DEFINE made == {k \in 1..m : decisions[k] \in Labels}
           all == 1..m
<1>2. made = {k \in DOMAIN decisions : decisions[k] \in Labels} /\ DOMAIN decisions = all
  BY <1>1
<1>3. Cardinality(made) = 3
  BY <1>2 DEF Decided
<1>4. IsFiniteSet(all) /\ Cardinality(all) = m /\ made \in SUBSET all
  <2>1. m \in Nat
    BY <1>1
  <2>2. IsFiniteSet(all) /\ Cardinality(all) = m
    BY <2>1, UpTo
  <2> QED
    BY <2>2
<1>5. Cardinality(made) <= m /\ (Cardinality(made) = m => made = all)
  <2> HIDE DEF made, all
  <2> QED
    BY <1>4, FS_Subset
<1>6. m = 3 /\ made = all
  BY <1>1, <1>3, <1>5
<1>7. decisions # <<>>
  <2>1. 1 \in DOMAIN decisions
    BY <1>2, <1>6
  <2> QED
    BY <2>1
<1> QED
  BY <1>2, <1>6, <1>7

LEMMA RepeatsOfQuestions == \A q \in RepeatQuestions : RepeatsAddUp(q, Consistency(q.records))
<1> SUFFICES ASSUME NEW q \in RepeatQuestions
             PROVE  RepeatsAddUp(q, Consistency(q.records))
  OBVIOUS
<1> DEFINE ids == {1, 2}
           records == q.records
           a == Consistency(records)
           complete == {i \in ids : Decided(records[i])}
           asked == {i \in ids : records[i] # <<>>}
           labels(i) == Picked(records[i], {k \in DOMAIN records[i] : records[i][k] \in Labels})
           matches == [i \in complete |-> Cardinality(Agreeing(labels(i)))]
           unanimous == {i \in complete : Cardinality(Agreeing(labels(i))) = 3}
           divided == complete \ unanimous
           n == Cardinality(complete)
           u == Cardinality(unanimous)
           d == Cardinality(divided)
           sum == SumFunction(matches)
<1>1. DOMAIN records = ids /\ \A i \in ids : records[i] \in BoundedSeq(Labels \cup {"NONE"}, 3)
  BY DEF RepeatQuestions
<1>2. a = [count |-> n, agreement |-> Ratio(sum, 3 * n), unanimity |-> Ratio(u, n),
           disagreements |-> divided, incomplete |-> asked \ complete]
  BY <1>1, Zenon DEF Consistency, Agreeing, ThreePairs
<1>3. ASSUME NEW i \in complete
      PROVE  /\ records[i] # <<>> /\ labels(i) \in [1..3 -> Labels]
             /\ \A k \in 1..3 : labels(i)[k] = records[i][k]
  <2> DEFINE s == records[i]
  <2>1. s \in BoundedSeq(Labels \cup {"NONE"}, 3) /\ Decided(s)
    BY <1>1
  <2> HIDE DEF s
  <2>2. /\ DOMAIN s = 1..3 /\ {k \in DOMAIN s : s[k] \in Labels} = 1..3 /\ s # <<>>
    BY <2>1, DecidedTells
  <2>3. labels(i) = [k \in 1..3 |-> s[k]]
    BY <2>2, ThreePicked DEF s
  <2>4. \A k \in 1..3 : s[k] \in Labels
    BY <2>2
  <2> HIDE DEF labels
  <2> QED
    BY <2>2, <2>3, <2>4 DEF s
<1> HIDE DEF labels, records
<1>4. \A i \in complete : /\ matches[i] = Cardinality(Agreeing(labels(i)))
                          /\ matches[i] \in {1, 3}
  <2> TAKE i \in complete
  <2>1. labels(i) \in [1..3 -> Labels]
    BY <1>3
  <2>2. Cardinality(Agreeing(labels(i))) \in {1, 3}
    BY <2>1, PairsAgree
  <2> QED
    BY <2>2
<1>5. IsFiniteSet(ids)
  <2>1. ids = 1..2
    OBVIOUS
  <2> QED
    BY <2>1, UpTo
<1>6. /\ complete \in SUBSET asked /\ asked \in SUBSET ids
      /\ unanimous \in SUBSET complete /\ divided \in SUBSET complete
  BY <1>3
<1>7. Halves(complete, unanimous, divided) /\ Halves(asked, complete, asked \ complete)
  BY <1>6 DEF Halves
<1>8. /\ \A i \in unanimous : matches[i] = 3
      /\ \A i \in divided : matches[i] = 1
      /\ \A i \in complete : matches[i] \in Int
  BY <1>4
<1>9. SumFunction(matches) = SumFunctionOnSet(matches, complete)
  BY DEF SumFunction
<1>10. ASSUME NEW i \in divided PROVE {"G", "H"} \subseteq {records[i][k] : k \in 1..3}
  <2>1. labels(i) \in [1..3 -> Labels] /\ Cardinality(Agreeing(labels(i))) # 3
        /\ \A k \in 1..3 : labels(i)[k] = records[i][k]
    BY <1>3, <1>10
  <2>2. {"G", "H"} \subseteq {labels(i)[k] : k \in 1..3}
    BY <2>1, PairsAgree
  <2> QED
    BY <2>1, <2>2
<1> HIDE DEF ids, complete, asked, matches, unanimous, divided
<1>11. IsFiniteSet(asked) /\ IsFiniteSet(complete)
  BY <1>5, <1>6, FS_Subset
<1>12. /\ IsFiniteSet(unanimous) /\ IsFiniteSet(divided) /\ u \in Nat /\ d \in Nat /\ n = u + d
  BY <1>7, <1>11, HalvesAddUp
<1>13. /\ Cardinality(asked \ complete) \in Nat
       /\ Cardinality(asked) = n + Cardinality(asked \ complete)
  BY <1>7, <1>11, HalvesAddUp
<1>14. SumFunctionOnSet(matches, complete)
         = SumFunctionOnSet(matches, unanimous) + SumFunctionOnSet(matches, divided)
  BY <1>6, <1>7, <1>8, <1>11, SumSplits
<1>15. SumFunctionOnSet(matches, unanimous) = 3 * u /\ SumFunctionOnSet(matches, divided) = 1 * d
  BY <1>8, <1>12, SumOfSame
<1> HIDE DEF n, u, d, sum
<1>16. sum = 3 * n - 2 * d
  BY <1>9, <1>12, <1>14, <1>15 DEF sum
<1>17. n > 0 => Equal(a.agreement, <<3 * n - 2 * d, 3 * n>>) /\ Equal(a.unanimity, <<n - d, n>>)
  BY <1>2, <1>12, <1>16 DEF Equal, Ratio
<1> HIDE DEF a
<1>18. /\ a.count = n /\ a.disagreements = divided /\ a.incomplete = asked \ complete
  BY <1>2
<1>19. Cardinality(asked) = a.count + Cardinality(a.incomplete)
  BY <1>13, <1>18
<1>20. RepeatsAddUp(q, a)
  <2>1. asked = {i \in DOMAIN q.records : q.records[i] # <<>>}
    BY <1>1 DEF asked, records
  <2>2. d = Cardinality(a.disagreements)
    BY <1>18 DEF d
  <2>3. \A i \in a.disagreements : {"G", "H"} \subseteq {q.records[i][k] : k \in 1..3}
    BY <1>10, <1>18 DEF records
  <2> QED
    BY <1>17, <1>18, <1>19, <2>1, <2>2, <2>3, Zenon DEF RepeatsAddUp, Size
<1> QED
  BY <1>20 DEF a, records

-----------------------------------------------------------------------------
(* Questions about providers *)

RightOf(outcomes, truth) == {i \in DOMAIN outcomes : outcomes[i] = truth[i]}

Summarized(s, outcomes, truth) ==
  /\ s.evaluated + s.missing = Cardinality(Asked(outcomes))
  /\ s.matrix.tp + s.matrix.tn = Cardinality(RightOf(outcomes, truth))
  /\ s.human["G"].fp = s.matrix.fp /\ s.human["H"].fn = s.matrix.fn
  /\ Cardinality(s.fp) = s.matrix.fp /\ Cardinality(s.fn) = s.matrix.fn

LEMMA AnsweredAreAsked ==
  ASSUME NEW ids, IsFiniteSet(ids), NEW outcomes \in [ids -> Outcomes],
         NEW asked, asked = Asked(outcomes), NEW evaluated, evaluated = Predicting(outcomes)
  PROVE  /\ IsFiniteSet(asked) /\ IsFiniteSet(evaluated)
         /\ asked \in SUBSET ids /\ evaluated \in SUBSET asked
         /\ Cardinality(asked) \in Nat /\ Cardinality(evaluated) \in Nat
         /\ Cardinality(evaluated) <= Cardinality(asked)
         /\ Cardinality(evaluated) = Cardinality(asked) => evaluated = asked
<1>1. asked \in SUBSET ids /\ evaluated \in SUBSET asked
  BY DEF Asked, Predicting, Labels
<1>2. IsFiniteSet(asked)
  BY <1>1, FS_Subset
<1>3. IsFiniteSet(evaluated) /\ Cardinality(evaluated) <= Cardinality(asked)
      /\ (Cardinality(evaluated) = Cardinality(asked) => evaluated = asked)
  BY <1>1, <1>2, FS_Subset
<1> QED
  BY <1>1, <1>2, <1>3, FS_CardinalityType

LEMMA SummaryTells ==
  ASSUME NEW ids, IsFiniteSet(ids), NEW truth \in [ids -> Labels], NEW outcomes \in [ids -> Outcomes],
         NEW s, s = Summarize(outcomes, truth)
  PROVE  Summarized(s, outcomes, truth) /\ s.matrix \in Matrices /\ s.metrics = Metrics(s.matrix)
<1> DEFINE P == Predicting(outcomes)
           asked == Asked(outcomes)
           t == Part(truth, P)
           o == Part(outcomes, P)
           m == Confusion(t, o)
           e == Cardinality(P)
           c == Cardinality(asked)
           of(label) == {i \in P : truth[i] = label}
           fp == Hits(t, outcomes, "G", "H")
           fn == Hits(t, outcomes, "H", "G")
<1>1. P = {i \in ids : outcomes[i] \in Labels} /\ P \in SUBSET ids
  BY DEF Predicting
<1>2. /\ s.evaluated = e /\ s.missing = c - e /\ s.matrix = m /\ s.metrics = Metrics(m)
      /\ s.fp = fp /\ s.fn = fn
      /\ s.human = [label \in Labels |-> Confusion(Part(truth, of(label)), Part(outcomes, of(label)))]
  BY Zenon DEF Summarize, SummaryOf
<1>3. t \in [P -> Labels] /\ o \in [P -> Labels] /\ \A i \in P : t[i] = truth[i] /\ o[i] = outcomes[i]
  BY <1>1 DEF Part
<1>4. IsFiniteSet(P) /\ e \in Nat /\ c \in Nat
  <2>1. asked = Asked(outcomes) /\ P = Predicting(outcomes)
    OBVIOUS
  <2> HIDE DEF asked, P
  <2> QED
    BY <2>1, AnsweredAreAsked
<1>5. fp = Hits(t, o, "G", "H") /\ fn = Hits(t, o, "H", "G")
  <2> HIDE DEF t, o, P
  <2> QED
    BY <1>3 DEF Hits
<1>6. m.fp = Cardinality(Hits(t, o, "G", "H")) /\ m.fn = Cardinality(Hits(t, o, "H", "G"))
  BY DEF Confusion
<1>7. s.human["G"].fp = Cardinality(Hits(Part(truth, of("G")), Part(outcomes, of("G")), "G", "H"))
      /\ s.human["H"].fn = Cardinality(Hits(Part(truth, of("H")), Part(outcomes, of("H")), "H", "G"))
  BY <1>2 DEF Confusion, Labels
<1>8. Hits(Part(truth, of("G")), Part(outcomes, of("G")), "G", "H") = Hits(t, o, "G", "H")
      /\ Hits(Part(truth, of("H")), Part(outcomes, of("H")), "H", "G") = Hits(t, o, "H", "G")
  <2> HIDE DEF P
  <2> QED
    BY DEF Hits, Part
<1> HIDE DEF P, t, o, m, fp, fn, asked, of
<1>9. m \in Matrices /\ m.tp + m.tn + m.fp + m.fn = e /\ m.fp + m.fn = Cardinality(Wrong(t, o))
  <2>1. m = Confusion(t, o)
    BY DEF m
  <2> QED
    BY <1>3, <1>4, <2>1, MatrixTheorem DEF Matrices
<1>10. m.tp + m.tn = Cardinality(RightOf(outcomes, truth))
  <2> DEFINE right == RightOf(outcomes, truth)
             wrong == Wrong(t, o)
  <2>1. Halves(P, right, wrong)
    <3>1. \A i \in ids : truth[i] \in Labels
      OBVIOUS
    <3> QED
      BY <1>1, <1>3, <3>1 DEF Halves, RightOf, Wrong
  <2> HIDE DEF right, wrong
  <2>2. Cardinality(right) \in Nat /\ Cardinality(wrong) \in Nat
        /\ Cardinality(P) = Cardinality(right) + Cardinality(wrong)
    BY <1>4, <2>1, HalvesAddUp
  <2> QED
    BY <1>9, <2>2 DEF Matrices, right, wrong
<1>11. s.evaluated + s.missing = c
  BY <1>2, <1>4
<1> QED
  BY <1>2, <1>5, <1>6, <1>7, <1>8, <1>9, <1>10, <1>11 DEF Summarized, asked, fp, fn

LEMMA ErrorsOfProvider ==
  ASSUME NEW ids, IsFiniteSet(ids), NEW truth, NEW outcomes \in [ids -> Outcomes]
  PROVE  SumFunction(ErrorCounts(outcomes)) = Summarize(outcomes, truth).missing
<1> DEFINE asked == Asked(outcomes)
           P == Predicting(outcomes)
           S == asked \ P
           V == {outcomes[i] : i \in S}
           part == ClassOf(S, outcomes)
<1>1. /\ IsFiniteSet(asked) /\ IsFiniteSet(P) /\ asked \in SUBSET ids /\ P \in SUBSET asked
      /\ Cardinality(asked) \in Nat /\ Cardinality(P) \in Nat
  <2>1. asked = Asked(outcomes) /\ P = Predicting(outcomes)
    OBVIOUS
  <2> HIDE DEF asked, P
  <2> QED
    BY <2>1, AnsweredAreAsked
<1>2. ErrorCounts(outcomes) = Sizes(part, V)
  <2>1. \A e \in V : {i \in DOMAIN outcomes : outcomes[i] = e} = part[e]
    <3>1. \A i, j \in ids : i \in S /\ outcomes[i] = outcomes[j] => j \in S
      BY DEF Asked, Predicting
    <3>2. \A e \in V : part[e] = {i \in S : outcomes[i] = e}
      BY DEF ClassOf
    <3>3. \A e \in V : \E i \in S : e = outcomes[i]
      OBVIOUS
    <3>4. S \subseteq ids
      BY <1>1
    <3> HIDE DEF S, part, V
    <3> QED
      BY <3>1, <3>2, <3>3, <3>4
  <2> HIDE DEF part
  <2> QED
    BY <2>1 DEF ErrorCounts, Sizes
<1>3. Halves(asked, P, S)
  BY <1>1 DEF Halves
<1>4. Summarize(outcomes, truth).missing = Cardinality(asked) - Cardinality(P)
  BY DEF Summarize, SummaryOf
<1> HIDE DEF asked, P, S
<1>5. IsFiniteSet(S) /\ Cardinality(S) \in Nat /\ Cardinality(asked) = Cardinality(P) + Cardinality(S)
  BY <1>1, <1>3, HalvesAddUp
<1>6. IsFiniteSet(V) /\ Partition(S, part, V)
  BY <1>5, ClassesPart
<1> HIDE DEF V, part
<1>7. SumFunction(Sizes(part, V)) = Cardinality(S)
  BY <1>5, <1>6, SumOfParts
<1> QED
  BY <1>1, <1>2, <1>4, <1>5, <1>7

\* Of two keys at most one is the smaller.
LEMMA KeysAreOrdered ==
  ASSUME NEW a, NEW b, DOMAIN a = 1..4, DOMAIN b = 1..4,
         \A k \in 1..4 : a[k] \in Int \X Int /\ b[k] \in Int \X Int,
         Precedes(a, b), Precedes(b, a)
  PROVE  FALSE
<1>1. PICK k \in 1..4 : /\ Leq(a[k], b[k]) /\ ~Equal(a[k], b[k])
                        /\ \A j \in 1..(k - 1) : Equal(a[j], b[j])
  BY DEF Precedes
<1>2. PICK l \in 1..4 : /\ Leq(b[l], a[l]) /\ ~Equal(b[l], a[l])
                        /\ \A j \in 1..(l - 1) : Equal(b[j], a[j])
  BY DEF Precedes
<1>3. \A x, y : Equal(x, y) => Equal(y, x)
  BY DEF Equal
<1>4. CASE k < l
  BY <1>1, <1>2, <1>3, <1>4
<1>5. CASE l < k
  BY <1>1, <1>2, <1>3, <1>5
<1>6. CASE k = l
  BY <1>1, <1>2, <1>6 DEF Leq, Equal
<1> QED
  BY <1>4, <1>5, <1>6

LEMMA OneIsRecommended ==
  ASSUME NEW summaries, NEW cost, DOMAIN summaries = 1..2,
         \A p \in 1..2 : summaries[p].metrics \in Rates /\ cost[p] \in Int,
         \E p \in 1..2 : Completes(summaries[p])
  PROVE  \E p \in 1..2 : Recommend(summaries, cost) = {p}
<1> DEFINE complete == {p \in DOMAIN summaries : Completes(summaries[p])}
           key(p) == Key(summaries[p], cost[p])
           a == key(1)
           b == key(2)
           chosen == Recommend(summaries, cost)
<1>1. ASSUME NEW p \in 1..2
      PROVE  DOMAIN key(p) = 1..4 /\ \A k \in 1..4 : key(p)[k] \in Int \X Int
  <2> DEFINE m == summaries[p].metrics
  <2>1. /\ m.balanced_accuracy \in Nat \X Nat /\ m.f1 \in Nat \X Nat
        /\ m.false_positive_rate \in Nat \X Nat /\ cost[p] \in Int
    BY DEF Rates
  <2>2. key(p) = <<<<-m.balanced_accuracy[1], m.balanced_accuracy[2]>>, <<-m.f1[1], m.f1[2]>>,
                   m.false_positive_rate, <<cost[p], 1>>>>
    BY Zenon DEF Key
  <2> HIDE DEF m, key
  <2> QED
    BY <2>1, <2>2
<1>2. chosen = {p \in complete : \A q \in complete \ {p} :
                  Precedes(key(p), key(q)) \/ (~Precedes(key(q), key(p)) /\ p < q)}
  BY Zenon DEF Recommend
<1>3. complete = {1} \/ complete = {2} \/ complete = {1, 2}
  <2>1. complete \subseteq {1, 2} /\ complete # {}
    BY DEF Recommend
  <2> HIDE DEF complete
  <2> QED
    BY <2>1
<1>4. ~(Precedes(a, b) /\ Precedes(b, a))
  <2>1. DOMAIN a = 1..4 /\ DOMAIN b = 1..4 /\ \A k \in 1..4 : a[k] \in Int \X Int /\ b[k] \in Int \X Int
    BY <1>1
  <2> HIDE DEF a, b
  <2> QED
    BY <2>1, KeysAreOrdered
<1> HIDE DEF complete, chosen, key
<1>5. CASE complete = {1}
  <2>1. chosen = {1}
    BY <1>2, <1>5
  <2> QED
    BY <2>1 DEF chosen
<1>6. CASE complete = {2}
  <2>1. chosen = {2}
    BY <1>2, <1>6
  <2> QED
    BY <2>1 DEF chosen
<1>7. CASE complete = {1, 2}
  <2>1. 1 \in chosen <=> Precedes(a, b) \/ ~Precedes(b, a)
    BY <1>2, <1>7
  <2>2. 2 \in chosen <=> Precedes(b, a)
    BY <1>2, <1>7
  <2>3. chosen \subseteq {1, 2}
    BY <1>2, <1>7
  <2>4. chosen = {1} \/ chosen = {2}
    BY <1>4, <2>1, <2>2, <2>3
  <2> QED
    BY <2>4 DEF chosen
<1> QED
  BY <1>3, <1>5, <1>6, <1>7

\* Who corrects as much as it breaks is right as often.
LEMMA CorrectsAsMuch ==
  ASSUME NEW ids, IsFiniteSet(ids), NEW h \in SUBSET ids, NEW c \in SUBSET ids,
         Cardinality(c \ h) >= Cardinality(h \ c)
  PROVE  Cardinality(c) >= Cardinality(h)
<1> DEFINE both == c \cap h
           more == c \ h
           less == h \ c
<1>1. Halves(c, both, more) /\ Halves(h, both, less)
  BY DEF Halves
<1> HIDE DEF both, more, less
<1>2. IsFiniteSet(c) /\ IsFiniteSet(h)
  BY FS_Subset
<1>3. /\ Cardinality(both) \in Nat /\ Cardinality(more) \in Nat
      /\ Cardinality(c) = Cardinality(both) + Cardinality(more)
  BY <1>1, <1>2, HalvesAddUp
<1>4. /\ Cardinality(less) \in Nat /\ Cardinality(h) = Cardinality(both) + Cardinality(less)
  BY <1>1, <1>2, HalvesAddUp
<1>5. Cardinality(more) >= Cardinality(less)
  BY DEF more, less
<1> QED
  BY <1>3, <1>4, <1>5

LEMMA LocalTells ==
  ASSUME NEW ids, IsFiniteSet(ids), ids # {}, NEW truth, NEW outcomes \in [ids -> Outcomes],
         NEW s, s = Summarize(outcomes, truth), NEW hhem, NEW comparison
  PROVE  /\ Asked(outcomes) = ids =>
              (RecommendLocal(s, hhem, comparison) = "INCONCLUSIVE" <=> Predicting(outcomes) # ids)
         /\ RecommendLocal(s, hhem, comparison) = "FULL_RUN" =>
              Cardinality(comparison.categories.CANDIDATE_ONLY_CORRECT) >=
                Cardinality(comparison.categories.BASELINE_ONLY_CORRECT)
<1> DEFINE asked == Asked(outcomes)
           P == Predicting(outcomes)
           n == Cardinality(asked)
           e == Cardinality(P)
<1>1. /\ asked \in SUBSET ids /\ n \in Nat /\ e \in Nat /\ (e = n => P = asked)
      /\ IsFiniteSet(asked)
  <2>1. asked = Asked(outcomes) /\ P = Predicting(outcomes)
    OBVIOUS
  <2> HIDE DEF asked, P
  <2> QED
    BY <2>1, AnsweredAreAsked
<1>2. s.missing = n - e /\ s.parse = Ratio(e, n)
  BY DEF Summarize, SummaryOf
<1>3. asked = ids => n # 0
  <2> HIDE DEF asked
  <2> QED
    BY <1>1, FS_EmptySet
<1>4. P = asked => e = n
  OBVIOUS
<1> HIDE DEF asked, P, n, e
<1>5. asked = ids => (s.missing = 0 /\ Equal(s.parse, <<1, 1>>) <=> P = ids)
  <2> SUFFICES ASSUME asked = ids PROVE s.missing = 0 /\ Equal(s.parse, <<1, 1>>) <=> P = ids
    OBVIOUS
  <2>1. n # 0
    BY <1>3
  <2>2. s.missing = 0 <=> e = n
    BY <1>1, <1>2
  <2>3. Equal(s.parse, <<1, 1>>) <=> e = n
    BY <1>1, <1>2, <2>1 DEF Equal, Ratio
  <2> QED
    BY <1>1, <1>4, <2>2, <2>3
<1>6. RecommendLocal(s, hhem, comparison) = "INCONCLUSIVE"
        <=> ~(s.missing = 0 /\ Equal(s.parse, <<1, 1>>))
  BY DEF RecommendLocal
<1>7. RecommendLocal(s, hhem, comparison) = "FULL_RUN" =>
              Cardinality(comparison.categories.CANDIDATE_ONLY_CORRECT) >=
                Cardinality(comparison.categories.BASELINE_ONLY_CORRECT)
  BY DEF RecommendLocal
<1> QED
  BY <1>5, <1>6, <1>7 DEF asked, P

\* What is recommended locally, once named.
LEMMA LocalIsTold ==
  ASSUME NEW ids, IsFiniteSet(ids), ids # {}, NEW truth, NEW outcomes \in [ids -> Outcomes],
         NEW s, s = Summarize(outcomes, truth), NEW hhem, NEW comparison,
         NEW local, local = RecommendLocal(s, hhem, comparison)
  PROVE  /\ Asked(outcomes) = ids => (local = "INCONCLUSIVE" <=> Predicting(outcomes) # ids)
         /\ local = "FULL_RUN" =>
              Cardinality(comparison.categories.CANDIDATE_ONLY_CORRECT) >=
                Cardinality(comparison.categories.BASELINE_ONLY_CORRECT)
<1>1. Asked(outcomes) = ids => (local = "INCONCLUSIVE" <=> Predicting(outcomes) # ids)
  BY LocalTells
<1>2. local = "FULL_RUN" =>
              Cardinality(comparison.categories.CANDIDATE_ONLY_CORRECT) >=
                Cardinality(comparison.categories.BASELINE_ONLY_CORRECT)
  BY LocalTells
<1> QED
  BY <1>1, <1>2

LEMMA ProvidersOfQuestions == \A q \in ProviderQuestions : ProvidersHold(q, AnswerProviders(q))
<1> SUFFICES ASSUME NEW q \in ProviderQuestions PROVE ProvidersHold(q, AnswerProviders(q))
  OBVIOUS
<1> DEFINE truth == q.truth
           one == q.one
           other == q.other
           s1 == Summarize(one, truth)
           s2 == Summarize(other, truth)
           summaries == <<s1, s2>>
           cost == <<q.cost, 1>>
           outcomes == <<one, other>>
           a == AnswerProviders(q)
           allH == [i \in Examples |-> "H"]
           hhem == Metrics(Confusion(truth, allH))
           comparison == IF Predicting(one) = Examples THEN Compare(truth, allH, one)
                         ELSE [categories |-> [CANDIDATE_ONLY_CORRECT |-> {}, BASELINE_ONLY_CORRECT |-> {}]]
           chosen == Recommend(summaries, cost)
<1>1. /\ IsFiniteSet(Examples) /\ Examples # {} /\ truth \in [Examples -> Labels]
      /\ one \in [Examples -> Outcomes] /\ other \in [Examples -> Outcomes] /\ q.cost \in Int
  <2>1. /\ q.truth \in [Examples -> Labels] /\ q.one \in [Examples -> Outcomes] /\ q.cost \in Int
        /\ \E o \in Outcomes : q.other = [i \in Examples |-> o]
    BY DEF ProviderQuestions, Judged
  <2> QED
    BY <2>1, ExamplesAssumption
<1>2. /\ a.summaries = summaries /\ a.recommended = chosen /\ a.errors = ErrorCounts(one)
      /\ a.local = RecommendLocal(s1, hhem, comparison)
  BY Zenon DEF AnswerProviders
<1> HIDE DEF truth, one, other
<1>3. /\ Summarized(s1, one, truth) /\ s1.matrix \in Matrices /\ s1.metrics = Metrics(s1.matrix)
      /\ Summarized(s2, other, truth) /\ s2.matrix \in Matrices /\ s2.metrics = Metrics(s2.matrix)
  <2>1. s1 = Summarize(one, truth) /\ s2 = Summarize(other, truth)
    OBVIOUS
  <2> HIDE DEF s1, s2
  <2>2. Summarized(s1, one, truth) /\ s1.matrix \in Matrices /\ s1.metrics = Metrics(s1.matrix)
    BY <1>1, <2>1, SummaryTells
  <2>3. Summarized(s2, other, truth) /\ s2.matrix \in Matrices /\ s2.metrics = Metrics(s2.matrix)
    BY <1>1, <2>1, SummaryTells
  <2> QED
    BY <2>2, <2>3
<1>4. s1.metrics \in Rates /\ s2.metrics \in Rates
  <2> HIDE DEF s1, s2
  <2> QED
    BY <1>3, RatesAreNatural
<1>5. SumFunction(a.errors) = s1.missing
  BY <1>1, <1>2, ErrorsOfProvider
<1>6. ASSUME NEW p \in 1..2
      PROVE  /\ summaries[p] = Summarize(outcomes[p], truth) /\ outcomes[p] \in [Examples -> Outcomes]
             /\ Summarized(summaries[p], outcomes[p], truth)
             /\ summaries[p].metrics \in Rates /\ cost[p] \in Int
  <2>1. p = 1 \/ p = 2
    OBVIOUS
  <2>2. /\ summaries[1] = s1 /\ summaries[2] = s2 /\ outcomes[1] = one /\ outcomes[2] = other
        /\ cost[1] = q.cost /\ cost[2] = 1
    OBVIOUS
  <2> HIDE DEF summaries, outcomes, cost
  <2>3. CASE p = 1
    <3> HIDE DEF s2
    <3>1. summaries[p] = s1 /\ outcomes[p] = one /\ cost[p] = q.cost
      BY <2>2, <2>3
    <3> QED
      BY <1>1, <1>3, <1>4, <3>1
  <2>4. CASE p = 2
    <3> HIDE DEF s1
    <3>1. summaries[p] = s2 /\ outcomes[p] = other /\ cost[p] = 1
      BY <2>2, <2>4
    <3> QED
      BY <1>1, <1>3, <1>4, <3>1
  <2> QED
    BY <2>1, <2>3, <2>4
<1>7. DOMAIN summaries = 1..2
  OBVIOUS
<1> HIDE DEF summaries, outcomes, cost
<1>8. ASSUME NEW p \in 1..2
      PROVE  /\ DOMAIN outcomes[p] = Examples
             /\ Completes(summaries[p]) <=>
                  Asked(outcomes[p]) # {} /\ Asked(outcomes[p]) = Predicting(outcomes[p])
  <2> DEFINE records == outcomes[p]
  <2>1. IsFiniteSet(DOMAIN records) /\ summaries[p] = Summarize(records, truth) /\ DOMAIN records = Examples
    BY <1>1, <1>6
  <2> HIDE DEF records
  <2>2. Completes(Summarize(records, truth)) <=>
          Asked(records) # {} /\ Asked(records) = Predicting(records)
    BY <2>1, CompletesTheorem
  <2> QED
    BY <2>1, <2>2 DEF records
<1>9. \A p \in 1..2 : Predicting(outcomes[p]) = Examples => Completes(summaries[p])
  <2> TAKE p \in 1..2
  <2>1. Predicting(outcomes[p]) \subseteq Asked(outcomes[p]) /\ Asked(outcomes[p]) \subseteq DOMAIN outcomes[p]
    BY DEF Predicting, Asked, Labels
  <2> QED
    BY <1>1, <1>8, <2>1
<1>10. ASSUME NEW c \in chosen
       PROVE  /\ Asked(outcomes[c]) # {} /\ Asked(outcomes[c]) = Predicting(outcomes[c])
              /\ \A p \in 1..2 : Predicting(outcomes[p]) = Examples =>
                   Leq(summaries[p].metrics.balanced_accuracy, summaries[c].metrics.balanced_accuracy)
  <2>1. c \in 1..2 /\ Completes(summaries[c])
    BY <1>7 DEF Recommend
  <2>2. ASSUME NEW p \in 1..2, Predicting(outcomes[p]) = Examples
        PROVE  Leq(summaries[p].metrics.balanced_accuracy, summaries[c].metrics.balanced_accuracy)
    <3>1. p \in DOMAIN summaries /\ Completes(summaries[p])
      BY <1>7, <1>9, <2>2
    <3>2. \A r \in DOMAIN summaries : summaries[r].metrics.balanced_accuracy \in Int \X Int
      <4> SUFFICES ASSUME NEW r \in 1..2 PROVE summaries[r].metrics.balanced_accuracy \in Int \X Int
        BY <1>7
      <4>1. summaries[r].metrics \in Rates
        BY <1>6
      <4> QED
        BY <4>1 DEF Rates
    <3>3. c \in Recommend(summaries, cost)
      OBVIOUS
    <3> HIDE DEF chosen
    <3> QED
      BY <3>1, <3>2, <3>3, RecommendationTheorem
  <2> QED
    BY <1>8, <2>1, <2>2
<1>11. (\E p \in 1..2 : Predicting(outcomes[p]) = Examples) => Cardinality(chosen) = 1
  <2> SUFFICES ASSUME NEW p \in 1..2, Predicting(outcomes[p]) = Examples
               PROVE  Cardinality(chosen) = 1
    OBVIOUS
  <2>1. \E r \in 1..2 : Completes(summaries[r])
    BY <1>9
  <2>2. \A r \in 1..2 : summaries[r].metrics \in Rates /\ cost[r] \in Int
    BY <1>6
  <2>3. \E r \in 1..2 : chosen = {r}
    BY <1>7, <2>1, <2>2, OneIsRecommended
  <2> HIDE DEF chosen
  <2> QED
    BY <2>3, FS_Singleton
<1>12. /\ Asked(one) = Examples => (a.local = "INCONCLUSIVE" <=> Predicting(one) # Examples)
       /\ a.local = "FULL_RUN" =>
            Cardinality(comparison.categories.CANDIDATE_ONLY_CORRECT) >=
              Cardinality(comparison.categories.BASELINE_ONLY_CORRECT)
  <2>1. s1 = Summarize(one, truth)
    OBVIOUS
  <2> HIDE DEF s1, hhem, comparison
  <2> DEFINE local == a.local
  <2>2. local = RecommendLocal(s1, hhem, comparison)
    BY <1>2
  <2> HIDE DEF a, local
  <2>3. Asked(one) = Examples => (local = "INCONCLUSIVE" <=> Predicting(one) # Examples)
    BY <1>1, <2>1, <2>2, LocalIsTold
  <2>4. local = "FULL_RUN" =>
            Cardinality(comparison.categories.CANDIDATE_ONLY_CORRECT) >=
              Cardinality(comparison.categories.BASELINE_ONLY_CORRECT)
    BY <1>1, <2>1, <2>2, LocalIsTold
  <2> QED
    BY <2>3, <2>4 DEF local
<1>13. ASSUME a.local = "FULL_RUN", Predicting(one) = Examples
       PROVE  Cardinality({i \in Examples : one[i] = truth[i]}) >= Cardinality({i \in Examples : truth[i] = "H"})
  <2> DEFINE c == {i \in Examples : one[i] = truth[i]}
             h == {i \in Examples : truth[i] = "H"}
             h2 == {i \in Examples : allH[i] = truth[i]}
  <2>1. h2 = h
    OBVIOUS
  <2>2. comparison = Compare(truth, allH, one) /\ DOMAIN truth = Examples /\ DOMAIN one = Examples
        /\ DOMAIN allH = Examples
    BY <1>1, <1>13
  <2>3. /\ comparison.categories.CANDIDATE_ONLY_CORRECT = c \ h2
        /\ comparison.categories.BASELINE_ONLY_CORRECT = h2 \ c
    <3> HIDE DEF comparison, allH
    <3>1. /\ Compare(truth, allH, one).categories.CANDIDATE_ONLY_CORRECT = c \ h2
          /\ Compare(truth, allH, one).categories.BASELINE_ONLY_CORRECT = h2 \ c
      BY <2>2, Zenon DEF Compare
    <3> QED
      BY <2>2, <3>1
  <2>4. Cardinality(c \ h) >= Cardinality(h \ c)
    BY <1>12, <1>13, <2>1, <2>3
  <2>5. c \in SUBSET Examples /\ h \in SUBSET Examples
    OBVIOUS
  <2> HIDE DEF c, h
  <2>6. Cardinality(c) >= Cardinality(h)
    BY <1>1, <2>4, <2>5, CorrectsAsMuch
  <2> QED
    BY <2>6 DEF c, h
<1>14. ASSUME NEW p \in 1..2
       PROVE  /\ summaries[p].evaluated + summaries[p].missing = Cardinality(Asked(outcomes[p]))
              /\ summaries[p].matrix.tp + summaries[p].matrix.tn
                   = Cardinality({i \in Examples : outcomes[p][i] = truth[i]})
              /\ summaries[p].human["G"].fp = summaries[p].matrix.fp
              /\ summaries[p].human["H"].fn = summaries[p].matrix.fn
              /\ Cardinality(summaries[p].fp) = summaries[p].matrix.fp
              /\ Cardinality(summaries[p].fn) = summaries[p].matrix.fn
  <2>1. Summarized(summaries[p], outcomes[p], truth) /\ DOMAIN outcomes[p] = Examples
    BY <1>6, <1>8
  <2> QED
    BY <2>1, Zenon DEF Summarized, RightOf
<1>15. outcomes[1] = one /\ summaries[1] = s1
  BY DEF outcomes, summaries
<1> HIDE DEF a, chosen, comparison, hhem, s1, s2
<1>16. ProvidersHold(q, a)
  <2> DEFINE right(p) == Cardinality({i \in Examples : outcomes[p][i] = truth[i]})
  <2>1. a.local = "FULL_RUN" /\ Predicting(one) = Examples =>
          right(1) >= Cardinality({i \in Examples : truth[i] = "H"})
    BY <1>13, <1>15
  <2>2. SumFunction(a.errors) = a.summaries[1].missing
    BY <1>2, <1>5, <1>15
  <2> HIDE DEF right
  <2>3. ASSUME NEW p \in 1..2
        PROVE  /\ a.summaries[p].evaluated + a.summaries[p].missing = Cardinality(Asked(outcomes[p]))
               /\ a.summaries[p].matrix.tp + a.summaries[p].matrix.tn = right(p)
               /\ a.summaries[p].human["G"].fp = a.summaries[p].matrix.fp
               /\ a.summaries[p].human["H"].fn = a.summaries[p].matrix.fn
               /\ Cardinality(a.summaries[p].fp) = a.summaries[p].matrix.fp
               /\ Cardinality(a.summaries[p].fn) = a.summaries[p].matrix.fn
    BY <1>2, <1>14 DEF right
  <2>4. ASSUME NEW c \in a.recommended
        PROVE  /\ Asked(outcomes[c]) # {} /\ Asked(outcomes[c]) = Predicting(outcomes[c])
               /\ \A p \in 1..2 : Predicting(outcomes[p]) = Examples =>
                    Leq(a.summaries[p].metrics.balanced_accuracy, a.summaries[c].metrics.balanced_accuracy)
    BY <1>2, <1>10, <2>4
  <2>5. (\E p \in 1..2 : Predicting(outcomes[p]) = Examples) => Cardinality(a.recommended) = 1
    BY <1>2, <1>11
  <2>6. Asked(one) = Examples => (a.local = "INCONCLUSIVE" <=> Predicting(one) # Examples)
    BY <1>12
  <2> QED
    BY <2>1, <2>2, <2>3, <2>4, <2>5, <2>6, Zenon
       DEF ProvidersHold, Size, right, outcomes, one, other, truth
<1> QED
  BY <1>16 DEF a

-----------------------------------------------------------------------------
(* The questions about retrieval and datasets *)

LEMMA BoundedSequences ==
  ASSUME NEW S, NEW n \in Nat, NEW s, s \in BoundedSeq(S, n)
  PROVE  s \in Seq(S) /\ Len(s) \in Nat /\ Len(s) <= n /\ DOMAIN s = 1..Len(s)
<1>1. PICK m \in 0..n : s \in [1..m -> S]
  BY DEF BoundedSeq, SeqOf
<1>2. s \in Seq(S) /\ Len(s) = m
  BY <1>1
<1> QED
  BY <1>1, <1>2

LEMMA RagtruthOfQuestions == \A q \in RagtruthQuestions : RagtruthIsWhole(q, AnswerRagtruth(q))
<1> SUFFICES ASSUME NEW q \in RagtruthQuestions, ~AnswerRagtruth(q).error
             PROVE  RagtruthIsWhole(q, AnswerRagtruth(q))
  BY DEF RagtruthIsWhole
<1> DEFINE responses == q.responses
           said == [id \in 1..2 |-> IF id = 1 THEN "H" ELSE "G"]
           dataset == LoadRagtruth(<<1>>, responses, q.split)
           result == RagtruthBenchmark(dataset, q.filter, said)
           a == AnswerRagtruth(q)
           m == result.report.matrix
           wanted == {r \in Lines(responses) : q.split \in {"any", r.split}}
           good == {r \in wanted : r.quality = "good"}
           broken == {r \in wanted : \E s \in r.spans : s.end > 2 \/ s.end < s.start \/ ~s.matches}
           seen == {e \in wanted : \E span \in e.spans : SpanIssues(span, e.length) # {}}
<1>1. /\ responses \in Seq(Response) /\ q.split \in {"any", "test"}
      /\ q.filter \in {{}, {"good", "poor"}}
  <2>1. responses \in BoundedSeq(Response, 2) /\ 2 \in Nat
    BY DEF RagtruthQuestions
  <2>2. responses \in Seq(Response)
    BY <2>1, BoundedSequences
  <2> QED
    BY <2>2 DEF RagtruthQuestions
<1>2. dataset # ValueError /\ a.result = result /\ ~a.error
  BY DEF AnswerRagtruth
<1>3. ASSUME NEW r \in Lines(responses)
      PROVE  /\ r \in Response /\ r.length = 2 /\ r.id \in 1..2 /\ r.quality \in {"good", "poor"}
             /\ IsFiniteSet(r.spans)
             /\ \A s \in r.spans : s.start \in Int /\ s.end \in Int
  <2>1. r \in Response
    BY <1>1 DEF Lines
  <2>2. r.spans = {} \/ \E s \in Span : r.spans = {s}
    BY <2>1 DEF Response
  <2>3. IsFiniteSet(r.spans)
    BY <2>2, FS_EmptySet, FS_Singleton
  <2>4. \A s \in Span : s.start \in Int /\ s.end \in Int
    BY DEF Span
  <2> QED
    BY <2>1, <2>2, <2>3, <2>4 DEF Response
<1>4. /\ dataset.examples = wanted /\ OnlyOnce(dataset.examples)
      /\ IsFiniteSet(dataset.examples) /\ IsFiniteSet(dataset.issues)
      /\ Cardinality(seen) <= Cardinality(dataset.issues)
  <2>1. \A r \in Lines(responses) : IsFiniteSet(r.spans)
    BY <1>3
  <2>2. dataset = LoadRagtruth(<<1>>, responses, q.split)
    OBVIOUS
  <2>4. wanted = Wanted(responses, q.split)
    BY DEF Wanted
  <2>5. seen = WithIssues(wanted)
    BY DEF WithIssues
  <2> HIDE DEF dataset, responses, wanted, seen
  <2>3. /\ dataset.examples = Wanted(responses, q.split) /\ OnlyOnce(dataset.examples)
        /\ IsFiniteSet(dataset.examples) /\ IsFiniteSet(dataset.issues)
        /\ Cardinality(WithIssues(dataset.examples)) <= Cardinality(dataset.issues)
    BY <1>1, <1>2, <2>1, <2>2, IssuesTheorem
  <2> QED
    BY <2>3, <2>4, <2>5
<1>5. /\ m.fp \in Nat /\ m.fn \in Nat
      /\ m.tp + m.tn + m.fp + m.fn = result.counts.included
      /\ result.counts.included + result.counts.excluded = result.counts.total
      /\ result.counts.included = Cardinality(Included(wanted, q.filter))
      /\ result.failures = m.fp + m.fn + Cardinality(dataset.issues)
  <2>1. \A e \in wanted : said[e.id] \in Labels
    <3> SUFFICES ASSUME NEW e \in wanted PROVE said[e.id] \in Labels
      OBVIOUS
    <3>1. e.id \in 1..2
      BY <1>3
    <3> QED
      BY <3>1 DEF Labels
  <2>2. result = RagtruthBenchmark(dataset, q.filter, said) /\ m = result.report.matrix
    OBVIOUS
  <2> HIDE DEF dataset, result, said, m, wanted
  <2>3. /\ m.fp \in Nat /\ m.fn \in Nat
        /\ m.tp + m.tn + m.fp + m.fn = result.counts.included
        /\ result.counts.included + result.counts.excluded = result.counts.total
        /\ result.counts.included = Cardinality(Included(dataset.examples, q.filter))
        /\ result.failures = m.fp + m.fn + Cardinality(dataset.issues)
    BY <1>4, <2>1, <2>2, RagtruthTheorem
  <2> QED
    BY <1>4, <2>3
<1>6. result.counts.total = Cardinality(wanted)
  <2>1. result.counts.total = Cardinality(dataset.examples)
    BY Zenon DEF RagtruthBenchmark
  <2> QED
    BY <1>4, <2>1
<1>7. Included(wanted, q.filter)
        = IF q.filter = {} THEN good ELSE wanted
  <2>1. \A e \in wanted : e.quality \in {"good", "poor"}
    BY <1>3
  <2>2. CASE q.filter = {}
    BY <2>2 DEF Qualities, Included
  <2>3. CASE q.filter = {"good", "poor"}
    BY <2>1, <2>3 DEF Qualities, Included
  <2> QED
    BY <1>1, <2>2, <2>3
<1>8. Cardinality(broken) <= Cardinality(dataset.issues) /\ Cardinality(dataset.issues) \in Nat
      /\ Cardinality(broken) \in Nat
  <2>1. broken \subseteq seen
    <3> SUFFICES ASSUME NEW r \in wanted, NEW s \in r.spans, s.end > 2 \/ s.end < s.start \/ ~s.matches
                 PROVE  SpanIssues(s, r.length) # {}
      OBVIOUS
    <3>1. r.length = 2 /\ s.start \in Int /\ s.end \in Int
      BY <1>3
    <3>2. CASE s.end < s.start
      <4>1. "END_BEFORE_START" \in SpanIssues(s, r.length)
        BY <3>2, SMT DEF SpanIssues
      <4> QED
        BY <4>1
    <3>3. CASE s.end > 2
      <4>1. "END_OUT_OF_RANGE" \in SpanIssues(s, r.length)
        BY <3>1, <3>3, SMT DEF SpanIssues
      <4> QED
        BY <4>1
    <3>4. CASE s.start <= s.end /\ s.end <= 2 /\ ~s.matches
      <4>1. "TEXT_OFFSET_MISMATCH" \in SpanIssues(s, r.length)
        BY <3>1, <3>4, SMT DEF SpanIssues
      <4> QED
        BY <4>1
    <3> QED
      BY <3>1, <3>2, <3>3, <3>4
  <2>2. IsFiniteSet(wanted) /\ seen \in SUBSET wanted
    BY <1>4
  <2>3. IsFiniteSet(seen)
    <3> HIDE DEF seen, wanted
    <3> QED
      BY <2>2, FS_Subset
  <2>4. Cardinality(seen) <= Cardinality(dataset.issues)
    BY <1>4
  <2> HIDE DEF seen, broken
  <2>5. IsFiniteSet(broken) /\ Cardinality(broken) <= Cardinality(seen)
    BY <2>1, <2>3, FS_Subset
  <2>6. Cardinality(broken) \in Nat /\ Cardinality(seen) \in Nat /\ Cardinality(dataset.issues) \in Nat
    BY <1>4, <2>3, <2>5, FS_CardinalityType
  <2> QED
    BY <2>4, <2>5, <2>6
<1> HIDE DEF dataset, result, m, broken, good, wanted
<1>10. result.failures >= m.fp + m.fn + Cardinality(broken)
  BY <1>5, <1>8
<1>11. /\ m.tp + m.tn + m.fp + m.fn = a.result.counts.included
       /\ a.result.counts.included + a.result.counts.excluded = Cardinality(wanted)
       /\ a.result.counts.included = Cardinality(IF q.filter = {} THEN good ELSE wanted)
       /\ a.result.failures >= m.fp + m.fn + Cardinality(broken)
  BY <1>2, <1>5, <1>6, <1>7, <1>10
<1>12. m = a.result.report.matrix
  BY <1>2 DEF m
<1> HIDE DEF a
<1> QED
  BY <1>11, <1>12 DEF RagtruthIsWhole, wanted, good, broken, a

\* What is picked are the elements at some places of a sequence, in their order.
PicksUp(t, s, places, place) ==
  /\ Cardinality(places) \in Nat
  /\ DOMAIN t = 1..Cardinality(places) /\ place \in [DOMAIN t -> places]
  /\ \A k \in DOMAIN t : t[k] = s[place[k]]
  /\ \A n \in places : \E k \in DOMAIN t : place[k] = n
  /\ \A k, l \in DOMAIN t : k < l => place[k] < place[l]

LEMMA PickedTells ==
  ASSUME NEW s, NEW places, IsFiniteSet(places), places \subseteq Int,
         NEW t, t = Picked(s, places)
  PROVE  \E place : PicksUp(t, s, places, place)
<1> DEFINE score == [n \in places |-> 0]
           place == InOrder(places, score)
           size == Cardinality(places)
<1>1. \A n \in places : score[n] \in Int /\ score[n] = 0
  OBVIOUS
<1>2. place = InOrder(places, score)
  OBVIOUS
<1>3. t = [k \in DOMAIN place |-> s[place[k]]]
  BY DEF Picked
<1> HIDE DEF score, place
<1>9. /\ Cardinality(places) \in Nat /\ place \in [1..Cardinality(places) -> places]
      /\ \A r \in 1..Cardinality(places) : PlaceAmong(places, score, place[r]) = r
  BY <1>1, <1>2, InOrderTells
<1>10. \A r, u \in 1..Cardinality(places) : r < u => Before(score, place[r], place[u])
  BY <1>1, <1>2, InOrderTells
<1>11. /\ \A d \in places : PlaceAmong(places, score, d) \in 1..Cardinality(places)
       /\ \A d, e \in places : d # e => PlaceAmong(places, score, d) # PlaceAmong(places, score, e)
  BY <1>1, PlacesAreTaken
<1>4. \A d \in places : PlaceAmong(places, score, d) \in 1..size /\ place[PlaceAmong(places, score, d)] = d
  <2> SUFFICES ASSUME NEW d \in places
               PROVE  /\ PlaceAmong(places, score, d) \in 1..size
                      /\ place[PlaceAmong(places, score, d)] = d
    OBVIOUS
  <2> DEFINE r == PlaceAmong(places, score, d)
  <2>1. r \in 1..size
    BY <1>11
  <2>2. place[r] \in places /\ PlaceAmong(places, score, place[r]) = r
    BY <1>9, <2>1
  <2> QED
    BY <1>11, <2>1, <2>2
<1>5. DOMAIN t = 1..size /\ DOMAIN place = 1..size
  BY <1>3, <1>9
<1>6. \A k \in DOMAIN t : t[k] = s[place[k]]
  BY <1>3, <1>5
<1>7. \A n \in places : \E k \in DOMAIN t : place[k] = n
  BY <1>4, <1>5
<1>8. ASSUME NEW k \in DOMAIN t, NEW l \in DOMAIN t, k < l
      PROVE  place[k] < place[l]
  <2>1. place[k] \in places /\ place[l] \in places /\ Before(score, place[k], place[l])
    BY <1>5, <1>8, <1>9, <1>10
  <2>2. score[place[k]] = 0 /\ score[place[l]] = 0
    BY <1>1, <2>1
  <2> QED
    BY <2>1, <2>2 DEF Before
<1> QED
  BY <1>5, <1>6, <1>7, <1>8, <1>9 DEF PicksUp

\* The records of a file are its lines with text.
FillsUp(records, file, place) ==
  /\ Len(records) \in Nat /\ DOMAIN records = 1..Len(records)
  /\ place \in [DOMAIN records -> DOMAIN file]
  /\ \A k \in DOMAIN records : records[k] = file[place[k]] /\ records[k] # Blank
  /\ \A n \in DOMAIN file : file[n] # Blank => \E k \in DOMAIN records : place[k] = n
  /\ \A k, l \in DOMAIN records : k < l => place[k] < place[l]

LEMMA FilledTells ==
  ASSUME NEW D, NEW file \in Seq(D), NEW records, records = Filled(file)
  PROVE  \E place : FillsUp(records, file, place)
<1> DEFINE places == {n \in DOMAIN file : file[n] # Blank}
<1>1. IsFiniteSet(places) /\ places \subseteq Int
  <2> DEFINE n == Len(file)
  <2>1. DOMAIN file = 1..n /\ n \in Nat
    OBVIOUS
  <2>2. places \in SUBSET (1..n)
    BY <2>1
  <2> HIDE DEF n, places
  <2>3. IsFiniteSet(1..n)
    BY <2>1, UpTo
  <2>4. IsFiniteSet(places)
    BY <2>2, <2>3, FS_Subset
  <2> QED
    BY <2>2, <2>4
<1>2. records = Picked(file, places)
  BY DEF Filled
<1> HIDE DEF places
<1>3. PICK place : PicksUp(records, file, places, place)
  BY <1>1, <1>2, PickedTells
<1>4. Cardinality(places) \in Nat /\ DOMAIN records = 1..Cardinality(places)
  BY <1>3 DEF PicksUp
<1>5. Len(records) = Cardinality(places)
  BY <1>4
<1>6. FillsUp(records, file, place)
  <2>1. /\ place \in [DOMAIN records -> places]
        /\ \A k \in DOMAIN records : records[k] = file[place[k]]
        /\ \A n \in places : \E k \in DOMAIN records : place[k] = n
        /\ \A k, l \in DOMAIN records : k < l => place[k] < place[l]
    BY <1>3, Zenon DEF PicksUp
  <2>2. \A n \in places : n \in DOMAIN file /\ file[n] # Blank
    BY Zenon DEF places
  <2>3. place \in [DOMAIN records -> DOMAIN file]
    BY <2>1, <2>2
  <2>4. \A k \in DOMAIN records : records[k] = file[place[k]] /\ records[k] # Blank
    BY <2>1, <2>2
  <2>5. \A n \in DOMAIN file : file[n] # Blank => \E k \in DOMAIN records : place[k] = n
    <3>1. \A n \in DOMAIN file : file[n] # Blank => n \in places
      BY Zenon DEF places
    <3> QED
      BY <2>1, <3>1, Zenon
  <2>6. Len(records) \in Nat /\ DOMAIN records = 1..Len(records)
    BY <1>4, <1>5
  <2> QED
    BY <2>1, <2>3, <2>4, <2>5, <2>6, Zenon DEF FillsUp
<1> QED
  BY <1>6

\* The queries that are loaded are the records of the file, each under its own name.
QueriesOf(loaded, file) ==
  /\ \A r \in Lines(file) : r # Blank => r[1] \in DOMAIN loaded /\ loaded[r[1]] = r[2]
  /\ \A i \in DOMAIN loaded : \E r \in Lines(file) : r # Blank /\ r[1] = i

LEMMA LoadedTells ==
  ASSUME NEW D, NEW file \in Seq(D), NEW loaded, loaded = LoadUniqueQueries(file),
         loaded # ValueError
  PROVE  /\ Bad \notin Lines(file) /\ QueriesOf(loaded, file)
         /\ Cardinality(DOMAIN loaded) = Len(Filled(file))
<1> DEFINE records == Filled(file)
           lines == Lines(records)
           names == {r[1] : r \in lines}
           n == Len(records)
<1>1. /\ Bad \notin Lines(file) /\ Distinct(records, LAMBDA r : r[1])
      /\ loaded = [i \in names |-> (CHOOSE r \in lines : r[1] = i)[2]]
  <2>1. Bad \notin Lines(file)
    BY Zenon DEF LoadUniqueQueries
  <2>2. Distinct(records, LAMBDA r : r[1])
    BY <2>1, Zenon DEF LoadUniqueQueries
  <2>3. loaded = [i \in names |-> (CHOOSE r \in lines : r[1] = i)[2]]
    BY <2>1, <2>2, Zenon DEF LoadUniqueQueries
  <2> QED
    BY <2>1, <2>2, <2>3
<1>2. PICK place : FillsUp(records, file, place)
  <2>1. records = Filled(file)
    OBVIOUS
  <2> HIDE DEF records
  <2> QED
    BY <2>1, FilledTells
<1>3. \A k, l \in DOMAIN records : records[k][1] = records[l][1] => k = l
  BY <1>1 DEF Distinct
<1> HIDE DEF records
<1>4. lines = {r \in Lines(file) : r # Blank}
  BY <1>2 DEF FillsUp, Lines
<1>5. ASSUME NEW r \in lines
      PROVE  r[1] \in names /\ loaded[r[1]] = r[2]
  <2>1. \A u \in lines : u[1] = r[1] => u = r
    BY <1>3 DEF Lines
  <2>2. (CHOOSE u \in lines : u[1] = r[1]) = r
    BY <2>1
  <2> HIDE DEF lines
  <2>3. loaded[r[1]] = (CHOOSE u \in lines : u[1] = r[1])[2]
    BY <1>1
  <2> QED
    BY <2>2, <2>3
<1>6. DOMAIN loaded = names
  BY <1>1
<1>7. QueriesOf(loaded, file)
  BY <1>4, <1>5, <1>6 DEF QueriesOf
<1>8. Cardinality(names) = n
  <2> DEFINE f == [k \in 1..n |-> records[k][1]]
  <2>1. n \in Nat /\ DOMAIN records = 1..n
    BY <1>2 DEF FillsUp
  <2>2. f \in Surjection(1..n, names) /\ IsInjective(f)
    <3>1. \A k \in 1..n : f[k] \in names
      BY <2>1 DEF Lines
    <3>2. \A i \in names : \E k \in 1..n : f[k] = i
      BY <2>1 DEF Lines
    <3>3. IsInjective(f)
      BY <1>3, <2>1 DEF IsInjective
    <3> HIDE DEF names
    <3> QED
      BY <3>1, <3>2, <3>3 DEF Surjection
  <2> HIDE DEF f, names, n
  <2>3. IsFiniteSet(1..n) /\ Cardinality(1..n) = n
    BY <2>1, UpTo
  <2>4. Cardinality(names) = Cardinality(1..n)
    BY <2>2, <2>3, SameSize
  <2> QED
    BY <2>3, <2>4
<1> QED
  BY <1>1, <1>6, <1>7, <1>8 DEF records

LEMMA EvaluationsOfQuestions ==
  \A q \in EvaluateQuestions : EvaluatesFiles(q, AnswerEvaluate(q))
<1> SUFFICES ASSUME NEW q \in EvaluateQuestions, AnswerEvaluate(q).exit = 0
             PROVE  EvaluatesFiles(q, AnswerEvaluate(q))
  BY DEF EvaluatesFiles
<1> DEFINE a == AnswerEvaluate(q)
           truth == q.truth
           predictions == q.predictions
           ground == LoadUniqueQueries(truth)
           found == LoadUniqueQueries(predictions)
           one == [d \in {1} |-> 1]
           sets == {<<>>, <<1>>, <<2, 1>>}
           D == {Bad, Blank} \cup {<<i, s>> : i \in 1..2, s \in {one}}
           E == {Bad, Blank} \cup {<<i, s>> : i \in 1..2, s \in {<<1>>, <<2, 1>>}}
<1>1. truth \in Seq(D) /\ predictions \in Seq(E) /\ q.k = 1
  <2>1. truth \in BoundedSeq(D, 2) /\ predictions \in BoundedSeq(E, 2) /\ q.k = 1 /\ 2 \in Nat
    BY DEF EvaluateQuestions, QueryFiles
  <2> HIDE DEF D, E, truth, predictions
  <2> QED
    BY <2>1, BoundedSequences
<1>2. ground # ValueError /\ found # ValueError /\ a.answer = RunRetrieval(ground, found, 1)
  <2>1. a = RetrievalEvaluate(truth, predictions, 1)
    BY <1>1, Zenon DEF AnswerEvaluate
  <2>2. a.exit # 2
    OBVIOUS
  <2>3. ~(ground = ValueError \/ found = ValueError)
    BY <2>1, <2>2 DEF RetrievalEvaluate, Exit
  <2>4. a = Exit(0, RunRetrieval(ground, found, 1))
    BY <2>1, <2>3 DEF RetrievalEvaluate
  <2> QED
    BY <2>3, <2>4 DEF Exit
<1> HIDE DEF D, E, truth, predictions
<1>3. /\ Bad \notin Lines(truth) /\ QueriesOf(ground, truth)
      /\ Cardinality(DOMAIN ground) = Len(Filled(truth))
  <2>1. ground = LoadUniqueQueries(truth)
    OBVIOUS
  <2> HIDE DEF ground
  <2> QED
    BY <1>1, <1>2, <2>1, LoadedTells
<1>4. Bad \notin Lines(predictions) /\ QueriesOf(found, predictions)
  <2>1. found = LoadUniqueQueries(predictions)
    OBVIOUS
  <2> HIDE DEF found
  <2> QED
    BY <1>1, <1>2, <2>1, LoadedTells
<1> HIDE DEF ground, found
<1>5. /\ DOMAIN a.answer.per_query = DOMAIN ground
      /\ \A i \in DOMAIN ground :
           (i \notin a.answer.failures) <=> (Classify(ground[i], Retrieved(found, i), 1) = "PASS")
  <2> DEFINE result == EvaluateRetrieval(ground, found, 1)
             run == RunRetrieval(ground, found, 1)
  <2>4. /\ run.per_query = result.per_query
        /\ run.failures = {i \in DOMAIN ground : result.per_query[i].category # "PASS"}
    <3>1. run = [metrics |-> result.metrics, per_query |-> result.per_query,
                 failures |-> {i \in DOMAIN ground : result.per_query[i].category # "PASS"},
                 predicted |-> Cardinality(DOMAIN found)]
      BY Zenon DEF RunRetrieval
    <3> HIDE DEF run, result
    <3> QED
      BY <3>1
  <2>1. /\ a.answer.per_query = result.per_query
        /\ a.answer.failures = {i \in DOMAIN ground : a.answer.per_query[i].category # "PASS"}
    <3>1. a.answer = run
      BY <1>2
    <3> HIDE DEF run, result, a
    <3> QED
      BY <2>4, <3>1
  <2>2. EvaluateRetrieval(ground, found, 1).per_query =
          [i \in DOMAIN ground |->
             [metrics  |-> QueryMetrics(ground[i], Retrieved(found, i), 1),
              category |-> Classify(ground[i], Retrieved(found, i), 1)]]
    BY Zenon DEF EvaluateRetrieval
  <2> HIDE DEF a
  <2>3. \A i \in DOMAIN ground : a.answer.per_query[i].category = Classify(ground[i], Retrieved(found, i), 1)
    BY <2>1, <2>2
  <2> QED
    BY <2>1, <2>2, <2>3
<1>6. ASSUME NEW i \in DOMAIN ground
      PROVE  i \in 1..2 /\ ground[i] = one
  <2>1. PICK r \in Lines(truth) : r # Blank /\ r[1] = i
    BY <1>3 DEF QueriesOf
  <2>2. r \in D /\ r # Bad
    BY <1>1, <1>3, <2>1 DEF Lines
  <2>3. \E j \in 1..2 : r = <<j, one>>
    BY <2>1, <2>2 DEF D
  <2>4. ground[r[1]] = r[2]
    BY <1>3, <2>1 DEF QueriesOf
  <2> HIDE DEF one
  <2> QED
    BY <2>1, <2>3, <2>4
<1>7. ASSUME NEW i \in 1..2
      PROVE  Retrieved(found, i) \in sets /\ ((Retrieved(found, i) = <<1>>) <=> (<<i, <<1>>>> \in Lines(predictions)))
  <2>1. ASSUME <<i, << 1 >> >> \in Lines(predictions)
        PROVE  Retrieved(found, i) = <<1>>
    <3>1. <<i, <<1>>>> # Blank
      <4>1. <<1>> \in Seq(Int) /\ i \in Int
        OBVIOUS
      <4> QED
        BY <4>1, BlankAssumption
    <3>2. i \in DOMAIN found /\ found[i] = <<1>>
      BY <1>4, <2>1, <3>1 DEF QueriesOf
    <3> QED
      BY <3>2 DEF Retrieved
  <2>2. ASSUME i \in DOMAIN found
        PROVE  found[i] \in sets /\ (found[i] = <<1>> => <<i, <<1>>>> \in Lines(predictions))
    <3>1. PICK r \in Lines(predictions) : r # Blank /\ r[1] = i
      BY <1>4, <2>2 DEF QueriesOf
    <3>2. r \in E /\ r # Bad
      BY <1>1, <1>4, <3>1 DEF Lines
    <3>3. PICK s \in {<<1>>, <<2, 1>>} : r = <<i, s>>
      BY <3>1, <3>2 DEF E
    <3>4. found[i] = s
      <4>1. found[r[1]] = r[2]
        BY <1>4, <3>1 DEF QueriesOf
      <4> QED
        BY <3>3, <4>1
    <3>5. s = <<1>> => <<i, <<1>>>> \in Lines(predictions)
      BY <3>1, <3>3
    <3> QED
      BY <3>3, <3>4, <3>5
  <2>3. <<>> # <<1>>
    OBVIOUS
  <2> QED
    BY <2>1, <2>2, <2>3 DEF Retrieved
<1>8. ASSUME NEW s \in sets
      PROVE  (Classify(one, s, 1) = "PASS") <=> (s = <<1>>)
  <2>1. s \in Seq(Nat) /\ 1 \in Nat
    <3>1. <<>> \in Seq(Nat) /\ <<1>> \in Seq(Nat) /\ <<2, 1>> \in Seq(Nat)
      OBVIOUS
    <3> QED
      BY <3>1
  <2>2. Range(Cut(s, 1)) = {s[r] : r \in {r \in DOMAIN s : r <= 1}}
    BY <2>1, CutIsPart
  <2>3. Relevant(one) = {1}
    BY DEF Relevant
  <2>4. (1 \in Range(Cut(s, 1))) <=> (s = <<1>>)
    <3>1. CASE s = <<>>
      BY <2>2, <3>1
    <3>2. CASE s = <<1>>
      <4>1. 1 \in DOMAIN s /\ s[1] = 1
        BY <3>2
      <4> QED
        BY <2>2, <3>2, <4>1
    <3>3. CASE s = <<2, 1>>
      <4>1. DOMAIN s = 1..2 /\ s[1] = 2 /\ s # <<1>>
        BY <3>3
      <4> QED
        BY <2>2, <4>1
    <3> QED
      BY <3>1, <3>2, <3>3
  <2>5. (Found(one, s, 1) # {}) <=> (s = <<1>>)
    BY <2>3, <2>4 DEF Found
  <2>6. HitAt(one, s, 1) = IF s = <<1>> THEN <<1, 1>> ELSE <<0, 1>>
    BY <2>5, Zenon DEF HitAt
  <2>7. DOMAIN one # {}
    OBVIOUS
  <2> HIDE DEF one
  <2> QED
    BY <2>6, <2>7, SMT DEF Classify
<1>9. ASSUME NEW i \in DOMAIN a.answer.per_query
      PROVE  (i \notin a.answer.failures) <=> (<<i, <<1>>>> \in Lines(q.predictions))
  <2>1. i \in 1..2 /\ i \in DOMAIN ground /\ ground[i] = one
    BY <1>5, <1>6
  <2> HIDE DEF one, a, sets
  <2>2. Retrieved(found, i) \in sets
    BY <1>7, <2>1
  <2>3. (i \notin a.answer.failures) <=> (Classify(one, Retrieved(found, i), 1) = "PASS")
    BY <1>5, <2>1
  <2>4. (Classify(one, Retrieved(found, i), 1) = "PASS") <=> (Retrieved(found, i) = <<1>>)
    BY <1>8, <2>2
  <2>5. (Retrieved(found, i) = <<1>>) <=> (<<i, <<1>>>> \in Lines(predictions))
    BY <1>7, <2>1
  <2> QED
    BY <2>3, <2>4, <2>5 DEF predictions
<1>10. Cardinality(DOMAIN a.answer.per_query) = Len(Filled(q.truth))
  BY <1>3, <1>5 DEF truth
<1> HIDE DEF a
<1> QED
  BY <1>9, <1>10, Zenon DEF EvaluatesFiles, a

LEMMA RemoveAtTells ==
  ASSUME NEW D, NEW s \in Seq(D), NEW m \in DOMAIN s, NEW part, part = RemoveAt(s, m)
  PROVE  /\ part \in Seq(D) /\ Len(part) = Len(s) - 1
         /\ \A k \in 1..Len(part) : part[k] = IF k < m THEN s[k] ELSE s[k + 1]
<1> DEFINE n == Len(s)
           front == SubSeq(s, 1, m - 1)
           back == SubSeq(s, m + 1, n)
<1>1. n \in Nat /\ m \in 1..n
  OBVIOUS
<1>2. /\ front \in Seq(D) /\ Len(front) = m - 1
      /\ \A k \in 1..(m - 1) : front[k] = s[k]
  BY <1>1
<1>3. /\ back \in Seq(D) /\ Len(back) = n - m
      /\ \A k \in 1..(n - m) : back[k] = s[m + k]
  BY <1>1
<1>4. part = front \o back
  BY DEF RemoveAt
<1> HIDE DEF front, back
<1>5. part \in Seq(D) /\ Len(part) = (m - 1) + (n - m)
  <2>1. front \o back \in Seq(D) /\ Len(front \o back) = Len(front) + Len(back)
    BY <1>2, <1>3, ConcatProperties
  <2> QED
    BY <1>2, <1>3, <1>4, <2>1
<1>6. \A k \in 1..(n - 1) : part[k] = IF k <= m - 1 THEN front[k] ELSE back[k - (m - 1)]
  <2> TAKE k \in 1..(n - 1)
  <2>1. k \in 1..(Len(front) + Len(back))
    BY <1>1, <1>2, <1>3
  <2>2. (front \o back)[k] = IF k <= Len(front) THEN front[k] ELSE back[k - Len(front)]
    BY <1>2, <1>3, <2>1, ConcatProperties
  <2> QED
    BY <1>2, <1>4, <2>2
<1>7. ASSUME NEW k \in 1..(n - 1)
      PROVE  part[k] = IF k < m THEN s[k] ELSE s[k + 1]
  <2>1. CASE k < m
    <3>1. k \in 1..(m - 1)
      BY <1>1, <2>1
    <3> QED
      BY <1>2, <1>6, <2>1, <3>1
  <2>2. CASE ~(k < m)
    <3>1. k - (m - 1) \in 1..(n - m) /\ m + (k - (m - 1)) = k + 1 /\ ~(k <= m - 1)
      BY <1>1, <2>2
    <3> QED
      BY <1>3, <1>6, <2>2, <3>1
  <2> QED
    BY <2>1, <2>2
<1>8. Len(part) = n - 1
  BY <1>1, <1>5
<1> QED
  BY <1>5, <1>7, <1>8 DEF n

\* What a dataset is valid for, whatever the order of its lines.
SoundCase(case) == case.documents \subseteq {1}
Different(one, other) == one.id # other.id /\ one.question # other.question

ValidFile(file) ==
  /\ Bad \notin Lines(file)
  /\ \A n \in DOMAIN file : file[n] # Blank => SoundCase(file[n])
  /\ \A m, n \in DOMAIN file : m # n /\ file[m] # Blank /\ file[n] # Blank => Different(file[m], file[n])

Cases == [id : 1..2, question : 1..2, documents : {{}, {1}, {1, 2}}]

\* Where no line is bad, the records are all of them parsed.
LEMMA ParsedTells ==
  ASSUME NEW D, NEW file \in Seq(D), Bad \notin Lines(file), NEW records, records = Filled(file),
         NEW parsed, parsed = Picked(records, {n \in DOMAIN records : records[n] # Bad})
  PROVE  \E place : FillsUp(parsed, file, place)
<1> DEFINE places == {n \in DOMAIN records : records[n] # Bad}
<1>1. PICK place : FillsUp(records, file, place)
  BY FilledTells
<1>2. places = DOMAIN records
  BY <1>1 DEF FillsUp, Lines
<1>3. IsFiniteSet(places) /\ places \subseteq Int
  <2>1. Len(records) \in Nat /\ DOMAIN records = 1..Len(records)
    BY <1>1 DEF FillsUp
  <2>2. IsFiniteSet(1..Len(records))
    BY <2>1, UpTo
  <2>3. IsFiniteSet(places)
    <3>1. places = 1..Len(records)
      BY <1>2, <2>1
    <3> QED
      BY <2>2, <3>1
  <2> HIDE DEF places
  <2> QED
    BY <1>2, <2>1, <2>3
<1>4. parsed = Picked(records, places)
  OBVIOUS
<1> HIDE DEF places
<1>5. PICK p : PicksUp(parsed, records, places, p)
  BY <1>3, <1>4, PickedTells
<1> DEFINE both == [k \in DOMAIN parsed |-> place[p[k]]]
<1>6. /\ DOMAIN parsed = 1..Cardinality(places) /\ Cardinality(places) \in Nat
      /\ \A k \in DOMAIN parsed : p[k] \in DOMAIN records /\ parsed[k] = records[p[k]]
  BY <1>2, <1>5 DEF PicksUp
<1>7. Len(parsed) = Cardinality(places)
  BY <1>6
<1>8. both \in [DOMAIN parsed -> DOMAIN file]
  BY <1>1, <1>6 DEF FillsUp
<1>9. \A k \in DOMAIN parsed : parsed[k] = file[both[k]] /\ parsed[k] # Blank
  BY <1>1, <1>6 DEF FillsUp
<1>10. \A n \in DOMAIN file : file[n] # Blank => \E k \in DOMAIN parsed : both[k] = n
  <2> SUFFICES ASSUME NEW n \in DOMAIN file, file[n] # Blank
               PROVE  \E k \in DOMAIN parsed : both[k] = n
    OBVIOUS
  <2>1. PICK l \in DOMAIN records : place[l] = n
    BY <1>1 DEF FillsUp
  <2>2. PICK k \in DOMAIN parsed : p[k] = l
    BY <1>2, <1>5, <2>1 DEF PicksUp
  <2> QED
    BY <2>1, <2>2
<1>11. \A k, l \in DOMAIN parsed : k < l => both[k] < both[l]
  <2> SUFFICES ASSUME NEW k \in DOMAIN parsed, NEW l \in DOMAIN parsed, k < l
               PROVE  both[k] < both[l]
    OBVIOUS
  <2>1. p[k] < p[l]
    BY <1>5 DEF PicksUp
  <2>2. place[p[k]] < place[p[l]]
    BY <1>1, <1>6, <2>1 DEF FillsUp
  <2> QED
    BY <2>2
<1> HIDE DEF both
<1>12. FillsUp(parsed, file, both)
  BY <1>6, <1>7, <1>8, <1>9, <1>10, <1>11 DEF FillsUp
<1> QED
  BY <1>12

LEMMA ValidTells ==
  ASSUME NEW file \in Seq({Bad, Blank} \cup Cases)
  PROVE  DatasetValidate(file, {1}, SameQuestion) = IF ValidFile(file) THEN 0 ELSE 1
<1>1. CASE Bad \in Lines(file)
  BY <1>1 DEF DatasetValidate, ValidFile
<1>2. CASE Bad \notin Lines(file)
  <2> DEFINE records == Filled(file)
             parsed == Picked(records, {n \in DOMAIN records : records[n] # Bad})
             bad == {n \in DOMAIN records : records[n] = Bad}
             twice == {n \in DOMAIN parsed : \E m \in 1..(n - 1) : parsed[m].id = parsed[n].id}
             unknown == {n \in DOMAIN parsed : ~(parsed[n].documents \subseteq {1})}
             near == {pair \in (DOMAIN parsed) \X (DOMAIN parsed) :
                        pair[1] < pair[2]
                          /\ <<parsed[pair[1]].question, parsed[pair[2]].question>> \in SameQuestion}
             issues == CaseIssues(records, {1}, SameQuestion)
  <2>1. issues = {<<"INVALID_FIELD", n>> : n \in bad}
                   \cup {<<"DUPLICATE_ID", n>> : n \in twice}
                   \cup {<<"UNKNOWN_DOCUMENT", n>> : n \in unknown}
                   \cup {<<"NEAR_DUPLICATE_QUESTION", pair[1], pair[2]>> : pair \in near}
    BY Zenon DEF CaseIssues
  <2>2. DatasetValidate(file, {1}, SameQuestion) = IF issues = {} THEN 0 ELSE 1
    BY <1>2 DEF DatasetValidate
  <2>3. issues = {} <=> bad = {} /\ twice = {} /\ unknown = {} /\ near = {}
    <3> HIDE DEF issues, bad, twice, unknown, near
    <3> QED
      BY <2>1
  <2> HIDE DEF issues
  <2>4. PICK place : FillsUp(records, file, place)
    <3>1. records = Filled(file)
      OBVIOUS
    <3> HIDE DEF records
    <3> QED
      BY <3>1, FilledTells
  <2>5. PICK p : FillsUp(parsed, file, p)
    <3>1. records = Filled(file)
      OBVIOUS
    <3>2. parsed = Picked(records, {n \in DOMAIN records : records[n] # Bad})
      OBVIOUS
    <3> HIDE DEF records, parsed
    <3> QED
      BY <1>2, <3>1, <3>2, ParsedTells
  <2> HIDE DEF records, parsed
  <2>6. bad = {}
    BY <1>2, <2>4 DEF FillsUp, Lines
  <2>7. /\ Len(parsed) \in Nat /\ DOMAIN parsed = 1..Len(parsed)
        /\ \A k \in DOMAIN parsed : p[k] \in DOMAIN file /\ p[k] \in Int /\ parsed[k] = file[p[k]]
                                      /\ parsed[k] # Blank /\ parsed[k] \in Cases
        /\ \A k, l \in DOMAIN parsed : k < l => p[k] < p[l]
    <3>1. \A n \in DOMAIN file : n \in Int /\ (file[n] # Blank => file[n] \in Cases)
      BY <1>2 DEF Lines
    <3> QED
      BY <2>5, <3>1 DEF FillsUp
  <2>8. \A n \in DOMAIN file : file[n] # Blank => \E k \in DOMAIN parsed : p[k] = n
    BY <2>5 DEF FillsUp
  <2>9. unknown = {} <=> \A n \in DOMAIN file : file[n] # Blank => SoundCase(file[n])
    BY <2>7, <2>8 DEF SoundCase
  <2>10. \A x, y \in 1..2 : <<x, y>> \in SameQuestion <=> x = y
    BY DEF SameQuestion
  <2>11. \A k \in DOMAIN parsed : parsed[k].question \in 1..2
    BY <2>7 DEF Cases
  <2>12. ASSUME ValidFile(file)
         PROVE  twice = {} /\ near = {}
    <3>1. ASSUME NEW k \in DOMAIN parsed, NEW l \in DOMAIN parsed, k < l
          PROVE  Different(parsed[k], parsed[l])
      <4>1. p[k] \in DOMAIN file /\ p[l] \in DOMAIN file /\ p[k] # p[l]
        BY <2>7, <3>1
      <4>2. file[p[k]] # Blank /\ file[p[l]] # Blank
        BY <2>7
      <4>3. Different(file[p[k]], file[p[l]])
        BY <2>12, <4>1, <4>2 DEF ValidFile
      <4> QED
        BY <2>7, <4>3
    <3>2. twice = {}
      <4> SUFFICES ASSUME NEW n \in DOMAIN parsed, NEW m \in 1..(n - 1), parsed[m].id = parsed[n].id
                   PROVE  FALSE
        OBVIOUS
      <4>1. m \in DOMAIN parsed /\ m < n
        BY <2>7
      <4> QED
        BY <3>1, <4>1 DEF Different
    <3>3. near = {}
      <4> SUFFICES ASSUME NEW k \in DOMAIN parsed, NEW l \in DOMAIN parsed, k < l,
                          <<parsed[k].question, parsed[l].question>> \in SameQuestion
                   PROVE  FALSE
        OBVIOUS
      <4> QED
        BY <2>10, <2>11, <3>1 DEF Different
    <3> QED
      BY <3>2, <3>3
  <2>13. ASSUME twice = {}, near = {}
         PROVE  \A m, n \in DOMAIN file : m # n /\ file[m] # Blank /\ file[n] # Blank
                  => Different(file[m], file[n])
    <3>1. ASSUME NEW k \in DOMAIN parsed, NEW l \in DOMAIN parsed, k < l
          PROVE  Different(parsed[k], parsed[l]) /\ Different(parsed[l], parsed[k])
      <4>1. parsed[k].id # parsed[l].id
        <5>1. k \in 1..(l - 1)
          BY <2>7, <3>1
        <5>2. l \notin twice
          BY <2>13
        <5> QED
          BY <5>1, <5>2
      <4>2. parsed[k].question # parsed[l].question
        <5>1. <<k, l>> \notin near
          BY <2>13
        <5>2. ~(<<parsed[k].question, parsed[l].question>> \in SameQuestion)
          BY <3>1, <5>1
        <5> QED
          BY <2>10, <2>11, <5>2
      <4> QED
        BY <4>1, <4>2 DEF Different
    <3> SUFFICES ASSUME NEW m \in DOMAIN file, NEW n \in DOMAIN file, m # n,
                        file[m] # Blank, file[n] # Blank
                 PROVE  Different(file[m], file[n])
      OBVIOUS
    <3>2. PICK k \in DOMAIN parsed : p[k] = m
      BY <2>8
    <3>3. PICK l \in DOMAIN parsed : p[l] = n
      BY <2>8
    <3>4. k # l /\ k \in Int /\ l \in Int
      BY <2>7, <3>2, <3>3
    <3>5. parsed[k] = file[m] /\ parsed[l] = file[n]
      BY <2>7, <3>2, <3>3
    <3>6. k < l \/ l < k
      BY <3>4
    <3> QED
      BY <3>1, <3>5, <3>6
  <2> HIDE DEF bad, twice, unknown, near
  <2>14. issues = {} <=> ValidFile(file)
    BY <1>2, <2>3, <2>6, <2>9, <2>12, <2>13 DEF ValidFile
  <2> QED
    BY <2>2, <2>14
<1> QED
  BY <1>1, <1>2

\* Lines of a valid file, in any order, are one.
LEMMA ValidParts ==
  ASSUME NEW file, ValidFile(file), NEW part, NEW place \in [DOMAIN part -> DOMAIN file],
         \A k \in DOMAIN part : part[k] = file[place[k]],
         \A k, l \in DOMAIN part : place[k] = place[l] => k = l
  PROVE  ValidFile(part)
BY DEF ValidFile, Lines

LEMMA CasesOfQuestions ==
  \A q \in CaseQuestions : ValidatesFiles(q, DatasetValidate(q.file, {1}, SameQuestion))
<1> TAKE q \in CaseQuestions
<1> DEFINE file == q.file
           n == Len(file)
           D == {Bad, Blank} \cup Cases
           other == Reverse(file)
           a == DatasetValidate(file, {1}, SameQuestion)
<1>1. file \in Seq(D) /\ n \in Nat /\ DOMAIN file = 1..n
  <2>1. file \in BoundedSeq(D, 2) /\ 2 \in Nat
    BY DEF CaseQuestions, Cases
  <2> HIDE DEF D, file
  <2> QED
    BY <2>1, BoundedSequences
<1> HIDE DEF D, file
<1>2. other \in Seq(D) /\ DOMAIN other = 1..n /\ \A k \in 1..n : other[k] = file[(n - k) + 1]
  <2>1. other = [k \in 1..n |-> file[(n - k) + 1]]
    BY DEF Reverse
  <2>2. \A k \in 1..n : (n - k) + 1 \in 1..n
    BY <1>1
  <2> HIDE DEF n, other
  <2>3. \A k \in 1..n : other[k] \in D
    BY <1>1, <2>1, <2>2
  <2> QED
    BY <1>1, <2>1, <2>3
<1> HIDE DEF n, other
<1>3. ValidFile(file) <=> ValidFile(other)
  <2> DEFINE place == [k \in 1..n |-> (n - k) + 1]
  <2>1. /\ place \in [1..n -> 1..n]
        /\ \A k, l \in 1..n : place[k] = place[l] => k = l
        /\ \A k \in 1..n : other[k] = file[place[k]] /\ file[k] = other[place[k]]
    <3>1. \A k \in 1..n : (n - k) + 1 \in 1..n /\ (n - ((n - k) + 1)) + 1 = k
      BY <1>1
    <3> QED
      BY <1>1, <1>2, <3>1
  <2> HIDE DEF place
  <2>4. DOMAIN file = 1..n /\ DOMAIN other = 1..n
    BY <1>1, <1>2
  <2>5. /\ place \in [DOMAIN other -> DOMAIN file]
        /\ \A k \in DOMAIN other : other[k] = file[place[k]]
        /\ \A k, l \in DOMAIN other : place[k] = place[l] => k = l
    BY <2>1, <2>4
  <2>6. /\ place \in [DOMAIN file -> DOMAIN other]
        /\ \A k \in DOMAIN file : file[k] = other[place[k]]
        /\ \A k, l \in DOMAIN file : place[k] = place[l] => k = l
    BY <2>1, <2>4
  <2>2. ASSUME ValidFile(file) PROVE ValidFile(other)
    BY <2>2, <2>5, ValidParts
  <2>3. ASSUME ValidFile(other) PROVE ValidFile(file)
    BY <2>3, <2>6, ValidParts
  <2> QED
    BY <2>2, <2>3
<1>4. a = DatasetValidate(other, {1}, SameQuestion)
  <2>1. a = IF ValidFile(file) THEN 0 ELSE 1
    BY <1>1, ValidTells DEF D
  <2>2. DatasetValidate(other, {1}, SameQuestion) = IF ValidFile(other) THEN 0 ELSE 1
    BY <1>2, ValidTells DEF D
  <2> QED
    BY <1>3, <2>1, <2>2
<1>5. ASSUME a = 0, NEW m \in DOMAIN file
      PROVE  DatasetValidate(RemoveAt(file, m), {1}, SameQuestion) = 0
  <2> DEFINE part == RemoveAt(file, m)
             place == [k \in 1..(n - 1) |-> IF k < m THEN k ELSE k + 1]
  <2>1. ValidFile(file)
    <3>1. a = IF ValidFile(file) THEN 0 ELSE 1
      BY <1>1, ValidTells DEF D
    <3> QED
      BY <1>5, <3>1
  <2>2. /\ part \in Seq(D) /\ DOMAIN part = 1..(n - 1)
        /\ \A k \in 1..(n - 1) : part[k] = file[IF k < m THEN k ELSE k + 1]
    <3>1. part = RemoveAt(file, m) /\ Len(file) = n
      BY DEF n
    <3> HIDE DEF part
    <3>2. /\ part \in Seq(D) /\ Len(part) = Len(file) - 1
          /\ \A k \in 1..Len(part) : part[k] = IF k < m THEN file[k] ELSE file[k + 1]
      BY <1>1, <3>1, RemoveAtTells
    <3> QED
      BY <3>1, <3>2
  <2>3. /\ place \in [DOMAIN part -> DOMAIN file]
        /\ \A k \in DOMAIN part : part[k] = file[place[k]]
        /\ \A k, l \in DOMAIN part : place[k] = place[l] => k = l
    <3> HIDE DEF part
    <3> QED
      BY <1>1, <2>2
  <2> HIDE DEF part, place
  <2>4. ValidFile(part)
    BY <2>1, <2>3, ValidParts
  <2>5. DatasetValidate(part, {1}, SameQuestion) = IF ValidFile(part) THEN 0 ELSE 1
    BY <2>2, ValidTells DEF D
  <2>6. DatasetValidate(part, {1}, SameQuestion) = 0
    BY <2>4, <2>5
  <2> QED
    BY <2>6 DEF part
<1> HIDE DEF a
<1> QED
  BY <1>4, <1>5 DEF ValidatesFiles, a, file, other

-----------------------------------------------------------------------------
(* Sums of fractions *)

LEMMA PlusIsFraction ==
  ASSUME NEW a \in Fractions, NEW b \in Fractions
  PROVE  Plus(a, b) \in Fractions
<1> DEFINE x == a[1] * b[2] + b[1] * a[2]
           y == a[2] * b[2]
<1>1. a[1] \in Int /\ b[1] \in Int /\ a[2] \in Nat \ {0} /\ b[2] \in Nat \ {0}
  BY DEF Fractions
<1>2. x \in Int
  BY <1>1
<1>3. y \in Nat /\ y # 0
  BY <1>1
<1>4. Plus(a, b) = <<x, y>>
  BY DEF Plus
<1> HIDE DEF x, y
<1> QED
  BY <1>2, <1>3, <1>4 DEF Fractions

LEMMA ScaledUp ==
  ASSUME NEW x \in Int, NEW y \in Int, NEW z \in Nat, x <= y
  PROVE  x * z <= y * z
<1>1. \A u, v \in Nat : u * v \in Nat
  OBVIOUS
<1>2. (y - x) * z \in Nat
  BY <1>1
<1>3. (y - x) * z = y * z - x * z /\ y * z \in Int /\ x * z \in Int
  OBVIOUS
<1> QED
  BY <1>2, <1>3

LEMMA PlusLeq ==
  ASSUME NEW a \in Fractions, NEW b \in Fractions, NEW c \in Fractions, NEW d \in Fractions,
         Leq(a, c), Leq(b, d)
  PROVE  Leq(Plus(a, b), Plus(c, d))
<1> DEFINE a1 == a[1]
           a2 == a[2]
           b1 == b[1]
           b2 == b[2]
           c1 == c[1]
           c2 == c[2]
           d1 == d[1]
           d2 == d[2]
<1>1. /\ a1 \in Int /\ b1 \in Int /\ c1 \in Int /\ d1 \in Int
      /\ a2 \in Nat /\ b2 \in Nat /\ c2 \in Nat /\ d2 \in Nat
  BY DEF Fractions
<1>2. a1 * c2 <= c1 * a2 /\ b1 * d2 <= d1 * b2
  BY DEF Leq
<1>3. Leq(Plus(a, b), Plus(c, d)) <=>
        (a1 * b2 + b1 * a2) * (c2 * d2) <= (c1 * d2 + d1 * c2) * (a2 * b2)
  BY DEF Leq, Plus
<1> HIDE DEF a1, a2, b1, b2, c1, c2, d1, d2
<1>4. (a1 * c2) * (b2 * d2) <= (c1 * a2) * (b2 * d2)
  <2>1. a1 * c2 \in Int /\ c1 * a2 \in Int /\ b2 * d2 \in Nat
    BY <1>1
  <2> QED
    BY <1>2, <2>1, ScaledUp
<1>5. (b1 * d2) * (a2 * c2) <= (d1 * b2) * (a2 * c2)
  <2>1. b1 * d2 \in Int /\ d1 * b2 \in Int /\ a2 * c2 \in Nat
    BY <1>1
  <2> QED
    BY <1>2, <2>1, ScaledUp
<1>6. (a1 * b2 + b1 * a2) * (c2 * d2) = (a1 * c2) * (b2 * d2) + (b1 * d2) * (a2 * c2)
  BY <1>1
<1>7. (c1 * d2 + d1 * c2) * (a2 * b2) = (c1 * a2) * (b2 * d2) + (d1 * b2) * (a2 * c2)
  BY <1>1
<1>8. /\ (a1 * c2) * (b2 * d2) \in Int /\ (c1 * a2) * (b2 * d2) \in Int
      /\ (b1 * d2) * (a2 * c2) \in Int /\ (d1 * b2) * (a2 * c2) \in Int
  BY <1>1
<1> QED
  BY <1>3, <1>4, <1>5, <1>6, <1>7, <1>8

\* A sum of fractions obeys its definition, too.
RatioSums(f, S, g) ==
  /\ f \in [SUBSET S -> Fractions]
  /\ f[{}] = <<0, 1>>
  /\ \A s \in SUBSET S : s # {} => f[s] = Plus(g[Picks(s)], f[s \ {Picks(s)}])

LEMMA RatioSumUnfolds ==
  ASSUME NEW S, IsFiniteSet(S), NEW g, DOMAIN g = S, \A x \in S : g[x] \in Fractions
  PROVE  \E f : RatioSums(f, S, g) /\ SumRatios(g) = f[S]
<1> DEFINE zero == <<0, 1>>
           body(f) == [s \in SUBSET S |-> IF s = {} THEN zero ELSE Plus(g[Picks(s)], f[s \ {Picks(s)}])]
           chosen == CHOOSE f : f = body(f)
           step == [s \in SUBSET S |-> [v \in Fractions |-> IF s = {} THEN zero ELSE Plus(g[Picks(s)], v)]]
<1>1. SumRatios(g) = chosen[S]
  BY DEF SumRatios, FoldFunction, FoldFunctionOnSet, MapThenFoldSet, Picks
<1>2. \A s \in SUBSET S : s # {} => Picks(s) \in S /\ s \ {Picks(s)} \in SUBSET S
  BY DEF Picks
<1>10. zero \in Fractions
  BY DEF Fractions
<1> HIDE DEF zero
<1>3. PICK h \in [SUBSET S -> Fractions] :
        /\ h[{}] = zero
        /\ \A s \in SUBSET S : s # {} => h[s] = step[s][h[s \ {Picks(s)}]]
  <2>1. \A s \in SUBSET S : \A v \in Fractions : step[s][v] \in Fractions
    BY <1>2, <1>10, PlusIsFraction
  <2> HIDE DEF step
  <2>3. PICK h : Folds(h, S, Fractions, zero, step)
    BY <1>10, <2>1, FoldExists
  <2> QED
    BY <2>3 DEF Folds
<1>4. h = body(h)
  <2>1. \A s \in SUBSET S : s # {} => step[s][h[s \ {Picks(s)}]] = Plus(g[Picks(s)], h[s \ {Picks(s)}])
    BY <1>2, <1>3
  <2> HIDE DEF step
  <2>2. \A s \in SUBSET S : h[s] = body(h)[s]
    BY <1>3, <2>1
  <2> QED
    BY <1>3, <2>2
<1> HIDE DEF body
<1>5. chosen = body(chosen)
  BY <1>4
<1> HIDE DEF chosen
<1>6. /\ chosen[{}] = zero
      /\ \A s \in SUBSET S : s # {} => chosen[s] = Plus(g[Picks(s)], chosen[s \ {Picks(s)}])
  BY <1>5 DEF body
<1> DEFINE P == {s \in SUBSET S : chosen[s] \in Fractions}
<1>7. \A T \in SUBSET S : T \in P
  <2>1. {} \in P
    BY <1>6, <1>10
  <2>2. ASSUME NEW T \in SUBSET S, T # {}, \A x \in T : T \ {x} \in P
        PROVE  T \in P
    <3>1. Picks(T) \in T
      BY <2>2 DEF Picks
    <3>2. chosen[T \ {Picks(T)}] \in Fractions
      BY <2>2, <3>1
    <3>3. g[Picks(T)] \in Fractions /\ chosen[T] = Plus(g[Picks(T)], chosen[T \ {Picks(T)}])
      BY <1>2, <1>6, <2>2
    <3>4. Plus(g[Picks(T)], chosen[T \ {Picks(T)}]) \in Fractions
      BY <3>2, <3>3, PlusIsFraction
    <3> QED
      BY <3>3, <3>4
  <2> HIDE DEF P
  <2> QED
    BY <2>1, <2>2, SubsetInduction
<1>8. chosen \in [SUBSET S -> Fractions]
  <2>1. chosen = [s \in SUBSET S |-> chosen[s]]
    BY <1>5 DEF body
  <2> QED
    BY <1>7, <2>1
<1>9. RatioSums(chosen, S, g)
  BY <1>6, <1>8 DEF RatioSums, zero
<1> QED
  BY <1>1, <1>9

LEMMA RatioSumIsFraction ==
  ASSUME NEW S, IsFiniteSet(S), NEW g, DOMAIN g = S, \A x \in S : g[x] \in Fractions
  PROVE  SumRatios(g) \in Fractions
<1>1. PICK f : RatioSums(f, S, g) /\ SumRatios(g) = f[S]
  BY RatioSumUnfolds
<1>2. S \in SUBSET S
  OBVIOUS
<1> QED
  BY <1>1, <1>2 DEF RatioSums

\* Fractions that are as large have a sum that is.
LEMMA RatioSumMonotone ==
  ASSUME NEW S, IsFiniteSet(S), NEW g, DOMAIN g = S, NEW h, DOMAIN h = S,
         \A x \in S : g[x] \in Fractions /\ h[x] \in Fractions /\ Leq(g[x], h[x])
  PROVE  Leq(SumRatios(g), SumRatios(h))
<1>1. PICK less : RatioSums(less, S, g) /\ SumRatios(g) = less[S]
  BY RatioSumUnfolds
<1>2. PICK more : RatioSums(more, S, h) /\ SumRatios(h) = more[S]
  BY RatioSumUnfolds
<1> DEFINE P == {s \in SUBSET S : Leq(less[s], more[s])}
<1>3. {} \in P
  BY <1>1, <1>2 DEF RatioSums, Leq
<1>4. ASSUME NEW T \in SUBSET S, T # {}, \A x \in T : T \ {x} \in P
      PROVE  T \in P
  <2> DEFINE x == Picks(T)
             rest == T \ {x}
  <2>1. x \in T
    BY <1>4 DEF Picks
  <2>2. less[T] = Plus(g[x], less[rest]) /\ more[T] = Plus(h[x], more[rest])
    BY <1>1, <1>2, <1>4 DEF RatioSums
  <2>3. rest \in SUBSET S /\ Leq(less[rest], more[rest])
    BY <1>4, <2>1
  <2> HIDE DEF x, rest
  <2>4. less[rest] \in Fractions /\ more[rest] \in Fractions
    BY <1>1, <1>2, <2>3 DEF RatioSums
  <2>5. g[x] \in Fractions /\ h[x] \in Fractions /\ Leq(g[x], h[x])
    BY <1>4, <2>1
  <2>6. Leq(less[T], more[T])
    BY <2>2, <2>3, <2>4, <2>5, PlusLeq
  <2> QED
    BY <2>6
<1> HIDE DEF P
<1>5. \A T \in SUBSET S : T \in P
  BY <1>3, <1>4, SubsetInduction
<1> QED
  BY <1>1, <1>2, <1>5 DEF P

\* Fractions that are zero or one have as many as are one for a sum.
LEMMA RatioSumCounts ==
  ASSUME NEW S, IsFiniteSet(S), NEW g, DOMAIN g = S, \A x \in S : g[x] \in {<<0, 1>>, <<1, 1>>}
  PROVE  SumRatios(g) = <<Cardinality({x \in S : g[x] = <<1, 1>>}), 1>>
<1>1. PICK f : RatioSums(f, S, g) /\ SumRatios(g) = f[S]
  <2>1. \A x \in S : g[x] \in Fractions
    BY DEF Fractions
  <2> QED
    BY <2>1, RatioSumUnfolds
<1> DEFINE ones(s) == {x \in s : g[x] = <<1, 1>>}
           P == {s \in SUBSET S : f[s] = <<Cardinality(ones(s)), 1>>}
<1>2. \A s \in SUBSET S : IsFiniteSet(ones(s)) /\ Cardinality(ones(s)) \in Nat
  <2> TAKE s \in SUBSET S
  <2>1. ones(s) \in SUBSET S
    OBVIOUS
  <2> HIDE DEF ones
  <2> QED
    BY <2>1, FS_Subset, FS_CardinalityType
<1>3. {} \in P
  <2>1. ones({}) = {}
    OBVIOUS
  <2> HIDE DEF ones
  <2> QED
    BY <1>1, <2>1, FS_EmptySet DEF RatioSums
<1>4. ASSUME NEW T \in SUBSET S, T # {}, \A x \in T : T \ {x} \in P
      PROVE  T \in P
  <2> DEFINE x == Picks(T)
             rest == T \ {x}
  <2>1. x \in T
    BY <1>4 DEF Picks
  <2>2. f[T] = Plus(g[x], f[rest])
    BY <1>1, <1>4 DEF RatioSums
  <2>3. rest \in SUBSET S /\ f[rest] = <<Cardinality(ones(rest)), 1>>
    BY <1>4, <2>1
  <2>4. CASE g[x] = <<0, 1>>
    <3>1. ones(T) = ones(rest)
      BY <2>1, <2>4
    <3> HIDE DEF ones, rest, x
    <3>2. Cardinality(ones(rest)) \in Nat
      BY <1>2, <2>3
    <3>3. f[T] = <<Cardinality(ones(rest)), 1>>
      BY <2>2, <2>3, <2>4, <3>2 DEF Plus
    <3>4. f[T] = <<Cardinality(ones(T)), 1>>
      BY <3>1, <3>3
    <3> QED
      BY <3>4
  <2>5. CASE g[x] = <<1, 1>>
    <3>1. ones(T) = ones(rest) \cup {x} /\ x \notin ones(rest)
      BY <2>1, <2>5
    <3> HIDE DEF ones, rest, x
    <3>2. Cardinality(ones(rest)) \in Nat /\ IsFiniteSet(ones(rest))
      BY <1>2, <2>3
    <3>5. Cardinality(ones(T)) = Cardinality(ones(rest)) + 1
      BY <3>1, <3>2, FS_AddElement
    <3>3. f[T] = <<Cardinality(ones(rest)) + 1, 1>>
      BY <2>2, <2>3, <2>5, <3>2 DEF Plus
    <3>4. f[T] = <<Cardinality(ones(T)), 1>>
      BY <3>3, <3>5
    <3> QED
      BY <3>4
  <2> QED
    BY <2>1, <2>4, <2>5
<1> HIDE DEF P
<1>5. \A T \in SUBSET S : T \in P
  BY <1>3, <1>4, SubsetInduction
<1>6. S \in P
  BY <1>5
<1> QED
  BY <1>1, <1>6 DEF P

LEMMA ListedOnly ==
  ASSUME NEW query, NEW words, IsFiniteSet(DOMAIN words), DOMAIN words \subseteq Int,
         NEW score, \A d \in DOMAIN words : score[d] \in Int, NEW topK \in Nat,
         NEW a, a = Retrieve(query, words, score, topK)
  PROVE  a \in Seq(DOMAIN words)
<1> DEFINE matching == {d \in DOMAIN words : query \cap words[d] # {}}
           ordered == InOrder(matching, score)
           most == Min({topK, Cardinality(matching)})
<1>1. matching \in SUBSET DOMAIN words
  OBVIOUS
<1>2. a = [r \in 1..most |-> ordered[r]]
  BY Zenon DEF Retrieve
<1>3. ordered = InOrder(matching, score)
  OBVIOUS
<1> HIDE DEF matching, ordered
<1>4. IsFiniteSet(matching) /\ matching \subseteq Int /\ \A d \in matching : score[d] \in Int
  BY <1>1, FS_Subset
<1>5. Cardinality(matching) \in Nat /\ ordered \in [1..Cardinality(matching) -> matching]
  BY <1>3, <1>4, InOrderTells
<1>6. most \in Nat /\ most <= Cardinality(matching)
  <2>1. most = IF topK <= Cardinality(matching) THEN topK ELSE Cardinality(matching)
    BY <1>5, SmallerOf
  <2> QED
    BY <1>5, <2>1
<1> HIDE DEF most
<1>7. \A r \in 1..most : ordered[r] \in DOMAIN words
  BY <1>1, <1>5, <1>6
<1> QED
  BY <1>2, <1>6, <1>7

\* The mean of a metric over the queries of a ground truth.
MetricOf(ground, predictions, k, name) ==
  [i \in DOMAIN ground |-> QueryMetrics(ground[i], Retrieved(predictions, i), k)[name]]
MeanOf(sum, size) == <<sum[1], sum[2] * size>>

LEMMA MeanTells ==
  ASSUME NEW ground, DOMAIN ground # {}, NEW predictions, NEW k, NEW name \in MetricNames,
         NEW result, result = EvaluateRetrieval(ground, predictions, k)
  PROVE  result.metrics[name] = MeanOf(SumRatios(MetricOf(ground, predictions, k, name)),
                                       Cardinality(DOMAIN ground))
<1> DEFINE query == [i \in DOMAIN ground |->
                       [metrics  |-> QueryMetrics(ground[i], Retrieved(predictions, i), k),
                        category |-> Classify(ground[i], Retrieved(predictions, i), k)]]
           sum(x) == SumRatios([i \in DOMAIN ground |-> query[i].metrics[x]])
           mean(x) == IF DOMAIN ground = {} THEN <<0, 1>>
                      ELSE <<sum(x)[1], sum(x)[2] * Cardinality(DOMAIN ground)>>
           means == [x \in MetricNames |-> mean(x)]
<1>1. result = [metrics |-> means, per_query |-> query]
  BY Zenon DEF EvaluateRetrieval
<1>2. [i \in DOMAIN ground |-> query[i].metrics[name]] = MetricOf(ground, predictions, k, name)
  BY DEF MetricOf
<1>3. means[name] = MeanOf(SumRatios(MetricOf(ground, predictions, k, name)), Cardinality(DOMAIN ground))
  <2>1. means[name] = <<sum(name)[1], sum(name)[2] * Cardinality(DOMAIN ground)>>
    <3> HIDE DEF sum
    <3> QED
      OBVIOUS
  <2>2. sum(name) = SumRatios(MetricOf(ground, predictions, k, name))
    <3> HIDE DEF query
    <3> QED
      BY <1>2
  <2> HIDE DEF means, sum
  <2> QED
    BY <2>1, <2>2 DEF MeanOf
<1> HIDE DEF means, query
<1> QED
  BY <1>1, <1>3

LEMMA MeansCompare ==
  ASSUME NEW a \in Fractions, NEW b \in Fractions, NEW n \in Nat \ {0}, Leq(a, b)
  PROVE  Leq(MeanOf(a, n), MeanOf(b, n))
<1> DEFINE a1 == a[1]
           a2 == a[2]
           b1 == b[1]
           b2 == b[2]
<1>1. a1 \in Int /\ b1 \in Int /\ a2 \in Nat /\ b2 \in Nat /\ n \in Nat
  BY DEF Fractions
<1>2. a1 * b2 <= b1 * a2
  BY DEF Leq
<1>3. Leq(MeanOf(a, n), MeanOf(b, n)) <=> a1 * (b2 * n) <= b1 * (a2 * n)
  BY DEF Leq, MeanOf
<1> HIDE DEF a1, a2, b1, b2
<1>4. (a1 * b2) * n <= (b1 * a2) * n
  <2>1. a1 * b2 \in Int /\ b1 * a2 \in Int
    BY <1>1
  <2> QED
    BY <1>1, <1>2, <2>1, ScaledUp
<1>5. a1 * (b2 * n) = (a1 * b2) * n /\ b1 * (a2 * n) = (b1 * a2) * n
  BY <1>1
<1> QED
  BY <1>3, <1>4, <1>5

\* What each query recalls is more at a larger cut, and so is the mean of it.
LEMMA RecallGrows ==
  ASSUME NEW ground, IsFiniteSet(DOMAIN ground), DOMAIN ground # {},
         \A i \in DOMAIN ground : IsFiniteSet(DOMAIN ground[i]),
         NEW D, NEW predictions, \A i \in DOMAIN ground : Retrieved(predictions, i) \in Seq(D),
         NEW k \in Nat \ {0}, NEW l \in Nat \ {0}, k <= l,
         NEW less, less = EvaluateRetrieval(ground, predictions, k),
         NEW more, more = EvaluateRetrieval(ground, predictions, l)
  PROVE  Leq(less.metrics.recall, more.metrics.recall)
<1> DEFINE f == MetricOf(ground, predictions, k, "recall")
           g == MetricOf(ground, predictions, l, "recall")
           n == Cardinality(DOMAIN ground)
<1>1. ASSUME NEW i \in DOMAIN ground
      PROVE  f[i] \in Fractions /\ g[i] \in Fractions /\ Leq(f[i], g[i])
  <2> DEFINE listed == ground[i]
             s == Retrieved(predictions, i)
  <2>1. /\ IsFiniteSet(DOMAIN listed) /\ s \in Seq(D)
    OBVIOUS
  <2>2. f[i] = RecallAt(listed, s, k) /\ g[i] = RecallAt(listed, s, l)
    BY DEF MetricOf, QueryMetrics
  <2> HIDE DEF listed, s
  <2>3. Leq(RecallAt(listed, s, k), RecallAt(listed, s, l))
    <3> DEFINE m == QueryMetrics(listed, s, k)
    <3>1. m.recall = RecallAt(listed, s, k)
      BY DEF QueryMetrics
    <3>2. m = QueryMetrics(listed, s, k)
      OBVIOUS
    <3> HIDE DEF m
    <3>3. Leq(m.recall, RecallAt(listed, s, l))
      BY <2>1, <3>2, CategoryTheorem
    <3> QED
      BY <3>1, <3>3
  <2>4. \A h \in {k, l} : RecallAt(listed, s, h) \in Fractions
    <3> TAKE h \in {k, l}
    <3> DEFINE found == Found(listed, s, h)
               relevant == Relevant(listed)
    <3>1. found \in SUBSET relevant /\ relevant \in SUBSET DOMAIN listed
      BY DEF Found, Relevant
    <3>2. RecallAt(listed, s, h) = Ratio(Cardinality(found), Cardinality(relevant))
      BY DEF RecallAt
    <3> HIDE DEF found, relevant
    <3>3. IsFiniteSet(relevant) /\ IsFiniteSet(found)
      BY <2>1, <3>1, FS_Subset
    <3>4. Cardinality(found) \in Nat /\ Cardinality(relevant) \in Nat
      BY <3>3, FS_CardinalityType
    <3>5. Ratio(Cardinality(found), Cardinality(relevant)) \in Nat \X (Nat \ {0})
      BY <3>4, RatiosAreNatural
    <3> QED
      BY <3>2, <3>5 DEF Fractions
  <2> QED
    BY <2>2, <2>3, <2>4
<1>2. DOMAIN f = DOMAIN ground /\ DOMAIN g = DOMAIN ground
  BY DEF MetricOf
<1>3. less.metrics["recall"] = MeanOf(SumRatios(f), n) /\ more.metrics["recall"] = MeanOf(SumRatios(g), n)
  <2>1. "recall" \in MetricNames
    BY DEF MetricNames
  <2> QED
    BY <2>1, MeanTells
<1> HIDE DEF f, g
<1>4. Leq(SumRatios(f), SumRatios(g))
  BY <1>1, <1>2, RatioSumMonotone
<1>5. SumRatios(f) \in Fractions
  BY <1>1, <1>2, RatioSumIsFraction
<1>6. SumRatios(g) \in Fractions
  BY <1>1, <1>2, RatioSumIsFraction
<1>7. n \in Nat \ {0}
  BY FS_CardinalityType, FS_EmptySet
<1> HIDE DEF n
<1>8. Leq(MeanOf(SumRatios(f), n), MeanOf(SumRatios(g), n))
  BY <1>4, <1>5, <1>6, <1>7, MeansCompare
<1> QED
  BY <1>3, <1>8

Verdicts == {"PASS", "RETRIEVAL_MISS", "SHOULD_ABSTAIN"}

LEMMA VerdictOf ==
  ASSUME NEW listed, NEW retrieved, NEW k
  PROVE  Classify(listed, retrieved, k) \in Verdicts
<1>1. HitAt(listed, retrieved, k)[1] = 1 \/ HitAt(listed, retrieved, k)[1] = 0
  BY DEF HitAt
<1> QED
  BY <1>1, SMT DEF Classify, Verdicts

\* What the judgements say, by query.
JudgedBy(file, i) == {j \in Lines(file) : j.query = i}
QrelsOf(qrels, file) ==
  /\ DOMAIN qrels = {j.query : j \in Lines(file)}
  /\ \A i \in DOMAIN qrels : DOMAIN qrels[i] = {j.doc : j \in JudgedBy(file, i)}

LEMMA QrelsTell ==
  ASSUME NEW file, NEW qrels, qrels = LoadQrels(file), qrels # ValueError
  PROVE  Lines(file) \cap {Bad, Blank} = {} /\ QrelsOf(qrels, file)
<1>1. Lines(file) \cap {Bad, Blank} = {}
  BY Zenon DEF LoadQrels
<1>2. ~((\E j \in Lines(file) : j.grade < 0) \/ ~Distinct(file, LAMBDA j : <<j.query, j.doc>>))
  BY <1>1, Zenon DEF LoadQrels
<1>3. qrels = [i \in {j.query : j \in Lines(file)} |->
                 [d \in {j.doc : j \in {j \in Lines(file) : j.query = i}} |->
                    (CHOOSE j \in Lines(file) : j.query = i /\ j.doc = d).grade]]
  BY <1>1, <1>2, Zenon DEF LoadQrels
<1> QED
  BY <1>1, <1>3 DEF QrelsOf, JudgedBy

LEMMA CorpusTells ==
  ASSUME NEW D, NEW file \in Seq(D), NEW corpus, corpus = LoadCorpus(file), corpus # ValueError
  PROVE  corpus \subseteq Lines(file) /\ Bad \notin corpus /\ Blank \notin corpus
<1> DEFINE passages == Filled(file)
<1>1. Bad \notin Lines(file)
  BY Zenon DEF LoadCorpus
<1>2. ~(~Distinct(passages, LAMBDA d : d))
  BY <1>1, Zenon DEF LoadCorpus
<1>3. corpus = Lines(passages)
  BY <1>1, <1>2, Zenon DEF LoadCorpus
<1>4. PICK place : FillsUp(passages, file, place)
  <2>1. passages = Filled(file)
    OBVIOUS
  <2> HIDE DEF passages
  <2> QED
    BY <2>1, FilledTells
<1> HIDE DEF passages
<1>5. \A k \in DOMAIN passages : passages[k] \in Lines(file) /\ passages[k] # Blank
  BY <1>4 DEF FillsUp, Lines
<1> QED
  BY <1>1, <1>3, <1>5 DEF Lines

\* A benchmark that ends well has found nothing wrong with its files.
SoundMiracl(topics, qrels, corpus) ==
  /\ \A m, n \in DOMAIN topics : topics[m] = topics[n] => m = n
  /\ DOMAIN qrels = Lines(topics)
  /\ \A i \in DOMAIN qrels : DOMAIN qrels[i] \subseteq corpus

LEMMA NoMiraclIssues ==
  ASSUME NEW D, NEW topics \in Seq(D), NEW qrels, NEW corpus,
         MiraclIssues(topics, qrels, {corpus}) = {}, Lines(topics) \ DOMAIN qrels = {}
  PROVE  SoundMiracl(topics, qrels, corpus)
<1> DEFINE twice == {n \in DOMAIN topics : \E m \in 1..(n - 1) : topics[m] = topics[n]}
           strange == DOMAIN qrels \ Lines(topics)
           unknown == UNION {UNION {Unknown(DOMAIN qrels[i], c) : i \in DOMAIN qrels} : c \in {corpus}}
           issues == MiraclIssues(topics, qrels, {corpus})
<1>1. issues = {<<"DUPLICATE_QUERY_ID", n>> : n \in twice}
                 \cup {<<"UNKNOWN_QUERY_ID", i>> : i \in strange}
                 \cup {<<"UNKNOWN_CORPUS_DOCUMENT_ID", d>> : d \in unknown}
  BY Zenon DEF MiraclIssues
<1>2. twice = {} /\ strange = {} /\ unknown = {}
  <2>1. issues = {}
    OBVIOUS
  <2> HIDE DEF issues, twice, strange, unknown
  <2> QED
    BY <1>1, <2>1
<1>3. \A i \in DOMAIN qrels : DOMAIN qrels[i] \subseteq corpus
  <2> TAKE i \in DOMAIN qrels
  <2>1. Unknown(DOMAIN qrels[i], corpus) \subseteq unknown
    OBVIOUS
  <2> HIDE DEF unknown
  <2>2. Unknown(DOMAIN qrels[i], corpus) = {}
    BY <1>2, <2>1
  <2> QED
    BY <2>2 DEF Unknown
<1>4. ASSUME NEW m \in DOMAIN topics, NEW n \in DOMAIN topics, topics[m] = topics[n]
      PROVE  m = n
  <2>1. m \in Nat /\ n \in Nat /\ m >= 1 /\ n >= 1 /\ m \notin twice /\ n \notin twice
    BY <1>2
  <2>2. ~(m \in 1..(n - 1)) /\ ~(n \in 1..(m - 1))
    BY <1>4, <2>1
  <2> QED
    BY <2>1, <2>2
<1>5. DOMAIN qrels = Lines(topics)
  BY <1>2
<1> QED
  BY <1>3, <1>4, <1>5 DEF SoundMiracl

\* The verdicts of a run part its queries.
Counted(ground, predictions, k) ==
  [c \in Verdicts |->
     Cardinality({i \in DOMAIN ground : EvaluateRetrieval(ground, predictions, k).per_query[i].category = c})]

LEMMA PerQueryTells ==
  ASSUME NEW ground, NEW predictions, NEW k, NEW result, result = EvaluateRetrieval(ground, predictions, k)
  PROVE  /\ DOMAIN result.per_query = DOMAIN ground
         /\ \A i \in DOMAIN ground :
              result.per_query[i].category = Classify(ground[i], Retrieved(predictions, i), k)
<1> DEFINE query == [i \in DOMAIN ground |->
                       [metrics  |-> QueryMetrics(ground[i], Retrieved(predictions, i), k),
                        category |-> Classify(ground[i], Retrieved(predictions, i), k)]]
<1>1. result.per_query = query
  BY Zenon DEF EvaluateRetrieval
<1>2. /\ DOMAIN query = DOMAIN ground
      /\ \A i \in DOMAIN ground : query[i].category = Classify(ground[i], Retrieved(predictions, i), k)
  OBVIOUS
<1> HIDE DEF query
<1> QED
  BY <1>1, <1>2

LEMMA VerdictsAddUp ==
  ASSUME NEW ground, IsFiniteSet(DOMAIN ground), NEW predictions, NEW k
  PROVE  SumFunction(Counted(ground, predictions, k)) = Cardinality(DOMAIN ground)
<1> DEFINE result == EvaluateRetrieval(ground, predictions, k)
           all == DOMAIN ground
           part == [c \in Verdicts |-> {i \in all : result.per_query[i].category = c}]
<1>1. \A i \in all : result.per_query[i].category \in Verdicts
  <2>1. \A i \in all : result.per_query[i].category = Classify(ground[i], Retrieved(predictions, i), k)
    <3>1. result = EvaluateRetrieval(ground, predictions, k)
      OBVIOUS
    <3> HIDE DEF result
    <3> QED
      BY <3>1, PerQueryTells
  <2> HIDE DEF result
  <2> QED
    BY <2>1, VerdictOf
<1>2. Counted(ground, predictions, k) = Sizes(part, Verdicts)
  <2>1. Sizes(part, Verdicts) = [c \in Verdicts |-> Cardinality(part[c])]
    BY DEF Sizes
  <2>2. \A c \in Verdicts : part[c] = {i \in DOMAIN ground : EvaluateRetrieval(ground, predictions, k).per_query[i].category = c}
    OBVIOUS
  <2> HIDE DEF part
  <2> QED
    BY <2>1, <2>2 DEF Counted
<1>3. IsFiniteSet(Verdicts)
  <2>1. Verdicts = ({"PASS"} \cup {"RETRIEVAL_MISS"}) \cup {"SHOULD_ABSTAIN"}
    BY DEF Verdicts
  <2>2. IsFiniteSet({"PASS"})
    BY FS_Singleton
  <2>3. IsFiniteSet({"PASS"} \cup {"RETRIEVAL_MISS"})
    BY <2>2, FS_AddElement, Zenon
  <2>4. IsFiniteSet(({"PASS"} \cup {"RETRIEVAL_MISS"}) \cup {"SHOULD_ABSTAIN"})
    BY <2>3, FS_AddElement, Zenon
  <2> QED
    BY <2>1, <2>4
<1> HIDE DEF result
<1>4. Partition(all, part, Verdicts)
  BY <1>1 DEF Partition
<1> HIDE DEF all, part
<1>5. SumFunction(Sizes(part, Verdicts)) = Cardinality(all)
  <2>1. IsFiniteSet(all)
    BY DEF all
  <2> QED
    BY <1>3, <1>4, <2>1, SumOfParts
<1> QED
  BY <1>2, <1>5 DEF all

LEMMA MiraclOfQuestions == \A q \in MiraclQuestions : MiraclIsWhole(q, AnswerMiracl(q))
<1> SUFFICES ASSUME NEW q \in MiraclQuestions, AnswerMiracl(q).exit = 0
             PROVE  MiraclIsWhole(q, AnswerMiracl(q))
  BY DEF MiraclIsWhole
<1> DEFINE a == AnswerMiracl(q)
           words == [d \in 1..2 |-> IF d = 1 THEN {1} ELSE {1, 2}]
           score == [d \in 1..2 |-> IF d = q.best THEN 2 ELSE 1]
           result == MiraclBenchmark(q.topics, q.qrels, q.corpus, words, score, q.topK)
           topics == q.topics
           qrels == LoadQrels(q.qrels)
           corpus == LoadCorpus(q.corpus)
           ranked == [i \in Lines(topics) |-> Retrieve({i}, [d \in corpus |-> words[d]], score, q.topK)]
           at == [k \in MetricKs(q.topK) |-> EvaluateRetrieval(qrels, ranked, k)]
           size == q.topK
           T == {1, 2, Bad}
           C == {1, 2, Blank}
<1>1. result # ValueError /\ result # KeyError /\ a.answer = result
  <2>1. a = MiraclCommand(q.topics, q.qrels, q.corpus, words, score, q.topK)
    BY Zenon DEF AnswerMiracl
  <2>2. a.exit = 0
    OBVIOUS
  <2> HIDE DEF a, words, score
  <2>3. a = CASE result = ValueError -> Exit(2, ValueError)
              [] result = KeyError   -> Exit(1, KeyError)
              [] OTHER               -> Exit(0, result)
    BY <2>1, Zenon DEF MiraclCommand
  <2> HIDE DEF result
  <2> QED
    BY <2>2, <2>3, SMT DEF Exit
<1>2. /\ topics \in Seq(T) /\ size \in 1..2 /\ q.corpus \in Seq(C)
      /\ (q.qrels \in Seq(Judgement) \/ q.qrels = <<Blank>>)
  <2>1. topics \in {<<1>>, <<1, 2>>, <<1, 1>>, <<1, Bad>>}
    BY DEF MiraclQuestions
  <2>2. q.corpus \in {<<1, 2>>, <<1, Blank, 2>>, <<1, 1>>, <<2>>}
    BY DEF MiraclQuestions
  <2>3. size \in 1..2 /\ q.qrels \in BoundedSeq(Judgement, 2) \cup {<<Blank>>} /\ 2 \in Nat
    BY DEF MiraclQuestions
  <2>4. topics \in Seq(T)
    <3>1. <<1>> \in Seq(T) /\ <<1, 2>> \in Seq(T) /\ <<1, 1>> \in Seq(T) /\ <<1, Bad>> \in Seq(T)
      OBVIOUS
    <3> HIDE DEF topics, T
    <3> QED
      BY <2>1, <3>1
  <2>5. q.corpus \in Seq(C)
    <3>1. <<1, 2>> \in Seq(C) /\ <<1, Blank, 2>> \in Seq(C) /\ <<1, 1>> \in Seq(C) /\ <<2>> \in Seq(C)
      OBVIOUS
    <3> HIDE DEF C
    <3> QED
      BY <2>2, <3>1
  <2>6. q.qrels \in Seq(Judgement) \/ q.qrels = <<Blank>>
    BY <2>3, BoundedSequences
  <2> QED
    BY <2>3, <2>4, <2>5, <2>6
<1>3. /\ Lines(topics) \cap {Bad, Blank} = {} /\ qrels # ValueError /\ corpus # ValueError
      /\ MiraclIssues(topics, qrels, {corpus}) = {} /\ Lines(topics) \ DOMAIN qrels = {}
      /\ result = [ranked |-> ranked, metrics |-> [k \in MetricKs(size) |-> at[k].metrics],
                   per_query |-> at[size].per_query,
                   counts |-> [c \in {"PASS", "RETRIEVAL_MISS", "SHOULD_ABSTAIN"} |->
                     Cardinality({i \in DOMAIN qrels : at[size].per_query[i].category = c})]]
  <2> DEFINE loaded == LoadTopics(q.topics)
  <2>1. ~(loaded = ValueError \/ qrels = ValueError \/ corpus = ValueError)
    BY <1>1, Zenon DEF MiraclBenchmark
  <2>2. loaded = topics /\ Lines(topics) \cap {Bad, Blank} = {}
    BY <2>1, Zenon DEF LoadTopics
  <2>3. ~(MiraclIssues(loaded, qrels, {corpus}) # {})
    BY <1>1, <2>1, Zenon DEF MiraclBenchmark
  <2>4. ~(Lines(loaded) \ DOMAIN qrels # {})
    BY <1>1, <2>1, <2>3, Zenon DEF MiraclBenchmark
  <2> DEFINE rankedL == [i \in Lines(loaded) |-> Retrieve({i}, [d \in corpus |-> words[d]], score, q.topK)]
             atL == [k \in MetricKs(q.topK) |-> EvaluateRetrieval(qrels, rankedL, k)]
  <2>5. result = [ranked |-> rankedL, metrics |-> [k \in MetricKs(q.topK) |-> atL[k].metrics],
                  per_query |-> atL[q.topK].per_query,
                  counts |-> [c \in {"PASS", "RETRIEVAL_MISS", "SHOULD_ABSTAIN"} |->
                    Cardinality({i \in DOMAIN qrels : atL[q.topK].per_query[i].category = c})]]
    BY <2>1, <2>3, <2>4, Zenon DEF MiraclBenchmark
  <2> HIDE DEF loaded, result, qrels, corpus, words, score
  <2>6. rankedL = ranked
    BY <2>2
  <2>7. atL = at
    <3> HIDE DEF ranked, rankedL
    <3> QED
      BY <2>6
  <2> HIDE DEF rankedL, atL, ranked, at
  <2> QED
    BY <2>1, <2>2, <2>3, <2>4, <2>5, <2>6, <2>7
<1> HIDE DEF result, topics
<1>4. q.qrels \in Seq(Judgement) /\ QrelsOf(qrels, q.qrels)
  <2>1. qrels = LoadQrels(q.qrels)
    OBVIOUS
  <2> HIDE DEF qrels
  <2>2. Lines(q.qrels) \cap {Bad, Blank} = {} /\ QrelsOf(qrels, q.qrels)
    BY <1>3, <2>1, QrelsTell
  <2>3. q.qrels # <<Blank>>
    <3>1. ASSUME q.qrels = <<Blank>> PROVE Blank \in Lines(q.qrels)
      BY <3>1 DEF Lines
    <3> QED
      BY <2>2, <3>1
  <2> QED
    BY <1>2, <2>2, <2>3
<1>5. corpus \subseteq Lines(q.corpus) /\ corpus \subseteq 1..2
  <2>1. corpus = LoadCorpus(q.corpus)
    OBVIOUS
  <2> HIDE DEF corpus, C
  <2>2. corpus \subseteq Lines(q.corpus) /\ Blank \notin corpus
    BY <1>2, <1>3, <2>1, CorpusTells
  <2>3. Lines(q.corpus) \subseteq C
    BY <1>2 DEF Lines
  <2> QED
    BY <2>2, <2>3 DEF C
<1>6. SoundMiracl(topics, qrels, corpus)
  <2> HIDE DEF qrels, corpus, T
  <2> QED
    BY <1>2, <1>3, NoMiraclIssues
<1> HIDE DEF qrels, corpus
<1>7. Lines(topics) \subseteq 1..2
  <2>1. Lines(topics) \subseteq T
    <3> HIDE DEF T
    <3> QED
      BY <1>2 DEF Lines
  <2>2. Bad \notin Lines(topics)
    BY <1>3
  <2> QED
    BY <2>1, <2>2
<1>19. IsFiniteSet(1..2)
  BY UpTo
<1>8. ASSUME NEW i \in Lines(topics)
      PROVE  ranked[i] \in Seq(corpus)
  <2> DEFINE known == [d \in corpus |-> words[d]]
  <2>1. IsFiniteSet(corpus)
    <3>1. corpus \in SUBSET (1..2)
      BY <1>5
    <3> QED
      BY <1>19, <3>1, FS_Subset
  <2>2. DOMAIN known = corpus /\ DOMAIN known \subseteq Int /\ \A d \in DOMAIN known : score[d] \in Int
    BY <1>5
  <2>3. ranked[i] = Retrieve({i}, known, score, size)
    OBVIOUS
  <2>4. size \in Nat
    BY <1>2
  <2> HIDE DEF known, score, ranked, size
  <2>5. ranked[i] \in Seq(DOMAIN known)
    BY <2>1, <2>2, <2>3, <2>4, ListedOnly
  <2> QED
    BY <2>2, <2>5
<1>9. DOMAIN ranked = Lines(topics)
  OBVIOUS
<1> HIDE DEF ranked, words, score
<1>10. /\ IsFiniteSet(DOMAIN qrels)
       /\ \A i \in DOMAIN qrels : IsFiniteSet(DOMAIN qrels[i]) /\ Retrieved(ranked, i) \in Seq(corpus)
  <2>1. DOMAIN qrels = Lines(topics) /\ \A i \in DOMAIN qrels : DOMAIN qrels[i] \subseteq corpus
    BY <1>6 DEF SoundMiracl
  <2>2. DOMAIN qrels \in SUBSET (1..2) /\ \A i \in DOMAIN qrels : DOMAIN qrels[i] \in SUBSET (1..2)
    BY <1>5, <1>7, <2>1
  <2>3. IsFiniteSet(DOMAIN qrels)
    BY <1>19, <2>2, FS_Subset
  <2>4. \A i \in DOMAIN qrels : IsFiniteSet(DOMAIN qrels[i])
    BY <1>19, <2>2, FS_Subset
  <2>5. \A i \in DOMAIN qrels : Retrieved(ranked, i) \in Seq(corpus)
    BY <1>8, <1>9, <2>1 DEF Retrieved
  <2> QED
    BY <2>1, <2>3, <2>4, <2>5
<1>11. \A k \in MetricKs(size) : k \in Nat \ {0}
  BY <1>2 DEF MetricKs
<1>12. size \in MetricKs(size)
  BY DEF MetricKs
<1>13. \A k \in MetricKs(size) : at[k] = EvaluateRetrieval(qrels, ranked, k)
  OBVIOUS
<1> HIDE DEF at
<1>14. DOMAIN a.answer.per_query = Lines(topics) /\ DOMAIN a.answer.ranked = Lines(topics)
  <2>1. a.answer.per_query = at[size].per_query /\ a.answer.ranked = ranked
    <3> HIDE DEF a, qrels, result, ranked, T, C
    <3> QED
      BY <1>1, <1>3
  <2>2. DOMAIN at[size].per_query = DOMAIN qrels
    BY <1>12, <1>13, PerQueryTells
  <2> QED
    BY <1>6, <1>9, <2>1, <2>2 DEF SoundMiracl
<1>15. SumFunction(a.answer.counts) = Len(topics)
  <2>1. a.answer.counts = [c \in Verdicts |->
                     Cardinality({i \in DOMAIN qrels : at[size].per_query[i].category = c})]
    <3> HIDE DEF a, qrels, result, ranked, T, C
    <3>1. a.answer.counts = result.counts
      BY <1>1
    <3>2. result.counts = [c \in Verdicts |->
                     Cardinality({i \in DOMAIN qrels : at[size].per_query[i].category = c})]
      BY <1>3 DEF Verdicts
    <3> QED
      BY <3>1, <3>2, Zenon
  <2>2. a.answer.counts = Counted(qrels, ranked, size)
    BY <1>12, <1>13, <2>1 DEF Counted
  <2>3. SumFunction(Counted(qrels, ranked, size)) = Cardinality(DOMAIN qrels)
    BY <1>10, VerdictsAddUp
  <2>4. Cardinality(Lines(topics)) = Len(topics)
    <3> DEFINE n == Len(topics)
    <3>1. n \in Nat /\ DOMAIN topics = 1..n
      BY <1>2
    <3>2. topics \in Surjection(1..n, Lines(topics)) /\ IsInjective(topics)
      <4>1. topics \in [1..n -> Lines(topics)]
        BY <1>2, <3>1 DEF Lines
      <4>2. \A i \in Lines(topics) : \E k \in 1..n : topics[k] = i
        BY <3>1 DEF Lines
      <4>3. IsInjective(topics)
        BY <1>6 DEF SoundMiracl, IsInjective
      <4> HIDE DEF n
      <4> QED
        BY <4>1, <4>2, <4>3 DEF Surjection
    <3> HIDE DEF n
    <3>3. IsFiniteSet(1..n) /\ Cardinality(1..n) = n
      BY <3>1, UpTo
    <3>4. Cardinality(Lines(topics)) = Cardinality(1..n)
      BY <3>2, <3>3, SameSize
    <3> QED
      BY <3>3, <3>4 DEF n
  <2> QED
    BY <1>6, <2>2, <2>3, <2>4 DEF SoundMiracl
<1>16. ASSUME NEW j \in Lines(q.qrels)
       PROVE  j.query \in Lines(topics) /\ j.doc \in Lines(q.corpus)
  <2>1. j.query \in DOMAIN qrels /\ j \in JudgedBy(q.qrels, j.query)
    BY <1>4 DEF QrelsOf, JudgedBy
  <2>2. j.doc \in DOMAIN qrels[j.query]
    BY <1>4, <2>1 DEF QrelsOf
  <2> QED
    BY <1>5, <1>6, <2>1, <2>2 DEF SoundMiracl
<1>17. \A i \in DOMAIN a.answer.ranked : Range(a.answer.ranked[i]) \subseteq Lines(q.corpus)
  <2>1. a.answer.ranked = ranked
    <3> HIDE DEF a, qrels, result, ranked, T, C
    <3> QED
      BY <1>1, <1>3
  <2> HIDE DEF a
  <2>2. \A i \in Lines(topics) : Range(ranked[i]) \subseteq corpus
    BY <1>8 DEF Range
  <2> QED
    BY <1>5, <1>14, <2>1, <2>2
<1>18. ASSUME NEW k \in DOMAIN a.answer.metrics, NEW l \in DOMAIN a.answer.metrics, k <= l
       PROVE  Leq(a.answer.metrics[k].recall, a.answer.metrics[l].recall)
  <2>1. a.answer.metrics = [h \in MetricKs(size) |-> at[h].metrics]
    <3> HIDE DEF a, qrels, result, ranked, T, C
    <3>1. a.answer.metrics = result.metrics
      BY <1>1
    <3>2. result.metrics = [h \in MetricKs(size) |-> at[h].metrics]
      BY <1>3
    <3> QED
      BY <3>1, <3>2, Zenon
  <2> HIDE DEF a
  <2>2. k \in MetricKs(size) /\ l \in MetricKs(size)
    BY <2>1
  <2>3. a.answer.metrics[k] = at[k].metrics /\ a.answer.metrics[l] = at[l].metrics
    BY <2>1, <2>2
  <2>4. at[k] = EvaluateRetrieval(qrels, ranked, k) /\ at[l] = EvaluateRetrieval(qrels, ranked, l)
    BY <1>13, <2>2
  <2>5. k \in Nat \ {0} /\ l \in Nat \ {0}
    BY <1>11, <2>2
  <2>6. DOMAIN qrels # {}
    <3>1. topics # <<>>
      <4>1. topics \in {<<1>>, <<1, 2>>, <<1, 1>>, <<1, Bad>>}
        BY DEF topics, MiraclQuestions
      <4>2. <<1>> # <<>> /\ <<1, 2>> # <<>> /\ <<1, 1>> # <<>> /\ <<1, Bad>> # <<>>
        OBVIOUS
      <4> QED
        BY <4>1, <4>2
    <3>2. 1 \in DOMAIN topics
      BY <1>2, <3>1
    <3>3. Lines(topics) # {}
      BY <3>2 DEF Lines
    <3> QED
      BY <1>6, <3>3 DEF SoundMiracl
  <2> DEFINE less == at[k]
             more == at[l]
  <2>7. less = EvaluateRetrieval(qrels, ranked, k) /\ more = EvaluateRetrieval(qrels, ranked, l)
    BY <2>4
  <2>9. /\ \A i \in DOMAIN qrels : IsFiniteSet(DOMAIN qrels[i])
        /\ \A i \in DOMAIN qrels : Retrieved(ranked, i) \in Seq(corpus)
    BY <1>10
  <2> HIDE DEF less, more
  <2>8. Leq(less.metrics.recall, more.metrics.recall)
    BY <1>10, <1>18, <2>5, <2>6, <2>7, <2>9, RecallGrows
  <2> QED
    BY <2>3, <2>8 DEF less, more
<1> HIDE DEF a
<1> QED
  BY <1>14, <1>15, <1>16, <1>17, <1>18 DEF MiraclIsWhole, a, topics

-----------------------------------------------------------------------------
(* The gains that nDCG sums *)

Graded(listed) ==
  /\ IsFiniteSet(DOMAIN listed) /\ DOMAIN listed \subseteq Int
  /\ \A d \in DOMAIN listed : listed[d] \in 0..2

LEMMA Gains == Gain(0) = 0 /\ Gain(1) = 1 /\ Gain(2) = 3
<1>1. 2^0 = 1
  OBVIOUS
<1>2. 2^1 = 2
  OBVIOUS
<1>3. 2^2 = 4
  OBVIOUS
<1> QED
  BY <1>1, <1>2, <1>3 DEF Gain

\* What a rank earns, what the best ranking has there, and three of them with their discounts.
Worth(listed, s, r) ==
  IF r \in DOMAIN s /\ s[r] \in Relevant(listed) /\ Counts(s, r) THEN Gain(listed[s[r]]) ELSE 0
Best(listed, r) ==
  IF r <= Cardinality(Relevant(listed)) THEN Gain(listed[InOrder(Relevant(listed), listed)[r]]) ELSE 0
Discounted(a, b, c, k) == 6 * a + (IF k >= 2 THEN 4 * b ELSE 0) + (IF k >= 3 THEN 3 * c ELSE 0)
Gained(listed, s, k) ==
  Discounted(Worth(listed, s, 1), Worth(listed, s, 2), Worth(listed, s, 3), k)
Ideal(listed, k) == Discounted(Best(listed, 1), Best(listed, 2), Best(listed, 3), k)

LEMMA SumOfThree ==
  ASSUME NEW S, S \subseteq 1..3, NEW g, \A r \in S : g[r] \in Int
  PROVE  SumFunctionOnSet(g, S) = (IF 1 \in S THEN g[1] ELSE 0) + (IF 2 \in S THEN g[2] ELSE 0)
                                    + (IF 3 \in S THEN g[3] ELSE 0)
<1> DEFINE sum(T) == SumFunctionOnSet(g, T)
           S1 == S \ {1}
           S2 == S1 \ {2}
           S3 == S2 \ {3}
<1>1. IsFiniteSet(1..3)
  BY UpTo
<1>2. \A T \in SUBSET S : IsFiniteSet(T) /\ sum(T) \in Int
  <2> TAKE T \in SUBSET S
  <2>1. IsFiniteSet(T)
    BY <1>1, FS_Subset
  <2>2. \A r \in T : g[r] \in Int
    OBVIOUS
  <2> QED
    BY <2>1, <2>2, SumIsInteger
<1>3. ASSUME NEW T \in SUBSET S, NEW r
      PROVE  sum(T) = (IF r \in T THEN g[r] ELSE 0) + sum(T \ {r})
  <2>1. CASE r \in T
    <3>1. IsFiniteSet(T) /\ \A x \in T : g[x] \in Int
      BY <1>2
    <3>2. SumFunctionOnSet(g, T) = g[r] + SumFunctionOnSet(g, T \ {r})
      BY <2>1, <3>1, SumStep
    <3> QED
      BY <2>1, <3>2
  <2>2. CASE r \notin T
    <3>1. T \ {r} = T
      BY <2>2
    <3>2. sum(T) \in Int
      BY <1>2
    <3>3. sum(T \ {r}) = sum(T)
      BY <3>1
    <3> HIDE DEF sum
    <3> QED
      BY <2>2, <3>2, <3>3
  <2> QED
    BY <2>1, <2>2
<1>4. S3 = {}
  <2>1. 1..3 = {1, 2, 3}
    OBVIOUS
  <2> QED
    BY <2>1
<1>5. sum(S3) = 0
  BY <1>4, SumOfNothing
<1>6. S \in SUBSET S /\ S1 \in SUBSET S /\ S2 \in SUBSET S
  OBVIOUS
<1>7. (1 \in S <=> 1 \in S) /\ (2 \in S1 <=> 2 \in S) /\ (3 \in S2 <=> 3 \in S)
  OBVIOUS
<1>8. sum(S) = (IF 1 \in S THEN g[1] ELSE 0) + sum(S1)
  BY <1>3, <1>6
<1>9. sum(S1) = (IF 2 \in S THEN g[2] ELSE 0) + sum(S2)
  BY <1>3, <1>6, <1>7
<1>10. sum(S2) = (IF 3 \in S THEN g[3] ELSE 0) + sum(S3)
  BY <1>3, <1>6, <1>7
<1>11. sum(S2) \in Int /\ sum(S1) \in Int
  BY <1>2, <1>6
<1> DEFINE x == IF 1 \in S THEN g[1] ELSE 0
           y == IF 2 \in S THEN g[2] ELSE 0
           z == IF 3 \in S THEN g[3] ELSE 0
<1>12. x \in Int /\ y \in Int /\ z \in Int
  OBVIOUS
<1>13. sum(S) = x + sum(S1) /\ sum(S1) = y + sum(S2) /\ sum(S2) = z + 0
  BY <1>5, <1>8, <1>9, <1>10
<1> HIDE DEF x, y, z, sum, S1, S2, S3
<1>14. sum(S) = x + y + z
  BY <1>12, <1>13
<1> QED
  BY <1>14 DEF x, y, z, sum

LEMMA WorthIsNatural ==
  ASSUME NEW listed, Graded(listed), NEW s, NEW r
  PROVE  Worth(listed, s, r) \in {0, 1, 3}
<1>1. \A d \in Relevant(listed) : listed[d] \in {1, 2}
  <2>1. 0..2 = {0, 1, 2}
    OBVIOUS
  <2> QED
    BY <2>1 DEF Graded, Relevant
<1>2. \A d \in Relevant(listed) : Gain(listed[d]) \in {1, 3}
  BY <1>1, Gains
<1> QED
  BY <1>2 DEF Worth

\* Where the documents are in order: their number, their grades, and where each is.
LEMMA BestTells ==
  ASSUME NEW listed, Graded(listed), NEW best, best = InOrder(Relevant(listed), listed),
         NEW n, n = Cardinality(Relevant(listed))
  PROVE  /\ n \in Nat /\ best \in [1..n -> Relevant(listed)]
         /\ \A r \in 1..n : listed[best[r]] \in {1, 2}
         /\ \A r, s \in 1..n : r < s => listed[best[r]] >= listed[best[s]]
         /\ \A d \in Relevant(listed) : PlaceAmong(Relevant(listed), listed, d) \in 1..n
         /\ \A r \in 1..n : PlaceAmong(Relevant(listed), listed, best[r]) = r
         /\ IsFiniteSet(Relevant(listed))
<1> DEFINE S == Relevant(listed)
<1>1. S \subseteq DOMAIN listed /\ \A d \in S : listed[d] \in {1, 2}
  <2>1. 0..2 = {0, 1, 2}
    OBVIOUS
  <2> QED
    BY <2>1 DEF Graded, Relevant
<1>2. IsFiniteSet(S)
  BY <1>1, FS_Subset DEF Graded
<1>3. S \subseteq Int /\ \A d \in S : listed[d] \in Int
  BY <1>1 DEF Graded
<1> HIDE DEF S
<1>4. best = InOrder(S, listed) /\ n = Cardinality(S)
  BY DEF S
<1>5. /\ n \in Nat /\ best \in [1..n -> S]
      /\ \A r \in 1..n : PlaceAmong(S, listed, best[r]) = r
      /\ \A r, s \in 1..n : r < s => Before(listed, best[r], best[s])
  <2>0. best = InOrder(S, listed)
    BY <1>4
  <2>1. Cardinality(S) \in Nat /\ best \in [1..Cardinality(S) -> S]
    BY <1>2, <1>3, <2>0, InOrderTells
  <2>2. \A r \in 1..Cardinality(S) : PlaceAmong(S, listed, best[r]) = r
    BY <1>2, <1>3, <2>0, InOrderTells
  <2>3. \A r, s \in 1..Cardinality(S) : r < s => Before(listed, best[r], best[s])
    BY <1>2, <1>3, <2>0, InOrderTells
  <2> QED
    BY <1>4, <2>1, <2>2, <2>3
<1>6. \A d \in S : PlaceAmong(S, listed, d) \in 1..n
  <2>1. \A d \in S : PlaceAmong(S, listed, d) \in 1..Cardinality(S)
    BY <1>2, <1>3, PlacesAreTaken
  <2> QED
    BY <1>4, <2>1
<1>7. \A r \in 1..n : listed[best[r]] \in {1, 2}
  BY <1>1, <1>5
<1>8. \A r, s \in 1..n : r < s => listed[best[r]] >= listed[best[s]]
  BY <1>5, <1>7 DEF Before
<1> QED
  BY <1>2, <1>5, <1>6, <1>7, <1>8 DEF S

LEMMA BestIsNatural ==
  ASSUME NEW listed, Graded(listed)
  PROVE  /\ \A r \in Nat \ {0} : Best(listed, r) \in {0, 1, 3}
         /\ \A r, s \in Nat \ {0} : r < s => Best(listed, r) >= Best(listed, s)
<1> DEFINE n == Cardinality(Relevant(listed))
           best == InOrder(Relevant(listed), listed)
<1>1. n = Cardinality(Relevant(listed)) /\ best = InOrder(Relevant(listed), listed)
  OBVIOUS
<1> HIDE DEF n, best
<1>2. /\ n \in Nat
      /\ \A r \in 1..n : listed[best[r]] \in {1, 2}
      /\ \A r, s \in 1..n : r < s => listed[best[r]] >= listed[best[s]]
  BY <1>1, BestTells
<1>3. \A r : Best(listed, r) = IF r <= n THEN Gain(listed[best[r]]) ELSE 0
  BY <1>1 DEF Best
<1>4. \A x, y \in {1, 2} : Gain(x) \in {1, 3} /\ (x >= y => Gain(x) >= Gain(y))
  BY Gains
<1>5. \A r \in Nat \ {0} : r <= n => r \in 1..n
  BY <1>2
<1>6. \A r \in Nat \ {0} : Best(listed, r) \in {0, 1, 3}
  BY <1>2, <1>3, <1>4, <1>5
<1>7. ASSUME NEW r \in Nat \ {0}, NEW s \in Nat \ {0}, r < s
      PROVE  Best(listed, r) >= Best(listed, s)
  <2>1. CASE s <= n
    <3>1. r \in 1..n /\ s \in 1..n
      BY <1>2, <1>7, <2>1
    <3>2. Best(listed, r) = Gain(listed[best[r]]) /\ Best(listed, s) = Gain(listed[best[s]])
      BY <1>2, <1>3, <3>1
    <3> QED
      BY <1>2, <1>4, <1>7, <3>1, <3>2
  <2>2. CASE ~(s <= n)
    <3>1. Best(listed, s) = 0
      BY <1>3, <2>2
    <3> QED
      BY <1>6, <3>1
  <2> QED
    BY <2>1, <2>2
<1> QED
  BY <1>6, <1>7

LEMMA CutAt ==
  ASSUME NEW D, NEW s \in Seq(D), NEW k \in Nat
  PROVE  \A r : r \in DOMAIN Cut(s, k) <=> r \in DOMAIN s /\ r <= k
<1> DEFINE m == Min({k, Len(s)})
<1>1. m = IF k <= Len(s) THEN k ELSE Len(s)
  <2>1. k \in Int /\ Len(s) \in Int
    OBVIOUS
  <2> QED
    BY <2>1, SmallerOf
<1>2. Cut(s, k) = SubSeq(s, 1, m)
  BY DEF Cut
<1> HIDE DEF m
<1>3. m \in Nat /\ m <= Len(s) /\ Len(s) \in Nat
  BY <1>1
<1>4. Len(SubSeq(s, 1, m)) = m /\ SubSeq(s, 1, m) \in Seq(D)
  BY <1>3
<1>5. DOMAIN Cut(s, k) = 1..m
  BY <1>2, <1>4
<1>6. DOMAIN s = 1..Len(s)
  OBVIOUS
<1> DEFINE l == Len(s)
<1>7. m = (IF k <= l THEN k ELSE l) /\ l \in Nat
  BY <1>1, <1>3
<1>8. DOMAIN s = 1..l
  BY <1>6
<1> HIDE DEF l
<1>9. \A r : r \in 1..m <=> r \in 1..l /\ r <= k
  <2> TAKE r
  <2>1. r \in 1..m => r \in 1..l /\ r <= k
    BY <1>7
  <2>2. r \in 1..l /\ r <= k => r \in 1..m
    BY <1>7
  <2> QED
    BY <2>1, <2>2
<1> QED
  BY <1>5, <1>8, <1>9

LEMMA DcgTells ==
  ASSUME NEW listed, Graded(listed), NEW D, NEW s \in Seq(D), Len(s) <= 3, NEW k \in 1..3,
         NEW earning, earning = {r \in DOMAIN Cut(s, k) : s[r] \in Relevant(listed) /\ Counts(s, r)}
  PROVE  SumFunction([r \in earning |-> Gain(listed[s[r]]) * Discount[r]]) = Gained(listed, s, k)
<1> DEFINE f == [r \in earning |-> Gain(listed[s[r]]) * Discount[r]]
           v(r) == IF r \in earning THEN f[r] ELSE 0
<1>1. \A r : r \in DOMAIN Cut(s, k) <=> r \in DOMAIN s /\ r <= k
  <2>1. k \in Nat
    OBVIOUS
  <2> QED
    BY <2>1, CutAt
<1>2. \A r : r \in earning <=> r \in DOMAIN s /\ r <= k /\ s[r] \in Relevant(listed) /\ Counts(s, r)
  BY <1>1
<1>3. earning \subseteq 1..3
  <2>1. Len(s) \in Nat /\ DOMAIN s = 1..Len(s)
    OBVIOUS
  <2> QED
    BY <1>2, <2>1
<1>4. \A r \in earning : Worth(listed, s, r) = Gain(listed[s[r]])
  BY <1>2 DEF Worth
<1>5. \A r : Worth(listed, s, r) \in {0, 1, 3}
  BY WorthIsNatural
<1>6. \A r \in earning : f[r] = Worth(listed, s, r) * Discount[r]
  BY <1>4
<1>7. \A r \in 1..3 : r <= k /\ r \notin earning => Worth(listed, s, r) = 0
  BY <1>2 DEF Worth
<1>8. DOMAIN f = earning
  OBVIOUS
<1> HIDE DEF f
<1>9. Discount[1] = 6 /\ Discount[2] = 4 /\ Discount[3] = 3
  BY DEF Discount
<1>10. \A r \in earning : f[r] \in Int
  <2> TAKE r \in earning
  <2>1. r \in {1, 2, 3}
    BY <1>3
  <2>2. Discount[r] \in Int /\ Worth(listed, s, r) \in Int
    BY <1>5, <1>9, <2>1
  <2>3. \A x, y \in Int : x * y \in Int
    OBVIOUS
  <2> QED
    BY <1>6, <2>2, <2>3
<1>11. SumFunction(f) = SumFunctionOnSet(f, earning)
  BY <1>8 DEF SumFunction
<1>12. SumFunctionOnSet(f, earning) = v(1) + v(2) + v(3)
  <2>1. SumFunctionOnSet(f, earning)
          = (IF 1 \in earning THEN f[1] ELSE 0) + (IF 2 \in earning THEN f[2] ELSE 0)
              + (IF 3 \in earning THEN f[3] ELSE 0)
    BY <1>3, <1>10, SumOfThree
  <2> QED
    BY <2>1
<1> DEFINE w1 == Worth(listed, s, 1)
           w2 == Worth(listed, s, 2)
           w3 == Worth(listed, s, 3)
<1>13. w1 \in Int /\ w2 \in Int /\ w3 \in Int
  BY <1>5
<1>14. v(1) = 6 * w1
  <2>1. 1 \in earning => f[1] = w1 * 6
    BY <1>6, <1>9
  <2>2. 1 \notin earning => w1 = 0
    BY <1>7
  <2> HIDE DEF w1
  <2> QED
    BY <1>13, <2>1, <2>2
<1>15. v(2) = IF k >= 2 THEN 4 * w2 ELSE 0
  <2>1. 2 \in earning => f[2] = w2 * 4 /\ k >= 2
    BY <1>2, <1>6, <1>9
  <2>2. 2 \notin earning /\ k >= 2 => w2 = 0
    BY <1>7
  <2> HIDE DEF w2
  <2> QED
    BY <1>13, <2>1, <2>2
<1>16. v(3) = IF k >= 3 THEN 3 * w3 ELSE 0
  <2>1. 3 \in earning => f[3] = w3 * 3 /\ k >= 3
    BY <1>2, <1>6, <1>9
  <2>2. 3 \notin earning /\ k >= 3 => w3 = 0
    BY <1>7
  <2> HIDE DEF w3
  <2> QED
    BY <1>13, <2>1, <2>2
<1>17. Gained(listed, s, k) = 6 * w1 + (IF k >= 2 THEN 4 * w2 ELSE 0) + (IF k >= 3 THEN 3 * w3 ELSE 0)
  BY DEF Gained, Discounted
<1> HIDE DEF v, w1, w2, w3
<1>18. SumFunction(f) = Gained(listed, s, k)
  BY <1>11, <1>12, <1>14, <1>15, <1>16, <1>17
<1> QED
  BY <1>18 DEF f

LEMMA IdealTells ==
  ASSUME NEW listed, Graded(listed), NEW k \in 1..3,
         NEW best, best = InOrder(Relevant(listed), listed)
  PROVE  SumFunction([r \in DOMAIN Cut(best, k) |-> Gain(listed[best[r]]) * Discount[r]]) = Ideal(listed, k)
<1> DEFINE n == Cardinality(Relevant(listed))
           S == DOMAIN Cut(best, k)
           f == [r \in S |-> Gain(listed[best[r]]) * Discount[r]]
           v(r) == IF r \in S THEN f[r] ELSE 0
<1>1. n = Cardinality(Relevant(listed))
  OBVIOUS
<1> HIDE DEF n
<1>2. n \in Nat /\ best \in [1..n -> Relevant(listed)]
  BY <1>1, BestTells
<1>3. best \in Seq(Relevant(listed)) /\ DOMAIN best = 1..n
  BY <1>2
<1>4. \A r : r \in S <=> r \in 1..n /\ r <= k
  <2>1. k \in Nat
    OBVIOUS
  <2>2. \A r : r \in DOMAIN Cut(best, k) <=> r \in DOMAIN best /\ r <= k
    BY <1>3, <2>1, CutAt
  <2> QED
    BY <1>3, <2>2
<1>5. S \subseteq 1..3
  BY <1>2, <1>4
<1>6. \A r : Best(listed, r) = IF r <= n THEN Gain(listed[best[r]]) ELSE 0
  BY <1>1 DEF Best
<1>7. \A r \in 1..3 : Best(listed, r) \in {0, 1, 3}
  BY BestIsNatural
<1>8. \A r \in S : f[r] = Best(listed, r) * Discount[r]
  BY <1>4, <1>6
<1>9. \A r \in 1..3 : r <= k /\ r \notin S => Best(listed, r) = 0
  BY <1>2, <1>4, <1>6
<1>10. DOMAIN f = S
  OBVIOUS
<1> HIDE DEF f, S
<1>11. Discount[1] = 6 /\ Discount[2] = 4 /\ Discount[3] = 3
  BY DEF Discount
<1>12. \A r \in S : f[r] \in Int
  <2> TAKE r \in S
  <2>1. r \in {1, 2, 3} /\ r \in 1..3
    BY <1>5
  <2>2. Discount[r] \in Int /\ Best(listed, r) \in Int
    BY <1>7, <1>11, <2>1
  <2>3. \A x, y \in Int : x * y \in Int
    OBVIOUS
  <2> QED
    BY <1>8, <2>2, <2>3
<1>13. SumFunction(f) = SumFunctionOnSet(f, S)
  BY <1>10 DEF SumFunction
<1>14. SumFunctionOnSet(f, S) = v(1) + v(2) + v(3)
  <2>1. SumFunctionOnSet(f, S)
          = (IF 1 \in S THEN f[1] ELSE 0) + (IF 2 \in S THEN f[2] ELSE 0)
              + (IF 3 \in S THEN f[3] ELSE 0)
    BY <1>5, <1>12, SumOfThree
  <2> QED
    BY <2>1
<1> DEFINE w1 == Best(listed, 1)
           w2 == Best(listed, 2)
           w3 == Best(listed, 3)
<1>15. w1 \in Int /\ w2 \in Int /\ w3 \in Int
  BY <1>7
<1>16. v(1) = 6 * w1
  <2>1. 1 \in S => f[1] = w1 * 6
    BY <1>8, <1>11
  <2>2. 1 \notin S => w1 = 0
    BY <1>9
  <2> HIDE DEF w1
  <2> QED
    BY <1>15, <2>1, <2>2
<1>17. v(2) = IF k >= 2 THEN 4 * w2 ELSE 0
  <2>1. 2 \in S => f[2] = w2 * 4 /\ k >= 2
    BY <1>4, <1>8, <1>11
  <2>2. 2 \notin S /\ k >= 2 => w2 = 0
    BY <1>9
  <2> HIDE DEF w2
  <2> QED
    BY <1>15, <2>1, <2>2
<1>18. v(3) = IF k >= 3 THEN 3 * w3 ELSE 0
  <2>1. 3 \in S => f[3] = w3 * 3 /\ k >= 3
    BY <1>4, <1>8, <1>11
  <2>2. 3 \notin S /\ k >= 3 => w3 = 0
    BY <1>9
  <2> HIDE DEF w3
  <2> QED
    BY <1>15, <2>1, <2>2
<1>19. Ideal(listed, k) = 6 * w1 + (IF k >= 2 THEN 4 * w2 ELSE 0) + (IF k >= 3 THEN 3 * w3 ELSE 0)
  BY DEF Ideal, Discounted
<1> HIDE DEF v, w1, w2, w3
<1>20. SumFunction(f) = Ideal(listed, k)
  BY <1>13, <1>14, <1>16, <1>17, <1>18, <1>19
<1> QED
  BY <1>20 DEF f, S

LEMMA NDCGTells ==
  ASSUME NEW listed, Graded(listed), NEW D, NEW s \in Seq(D), Len(s) <= 3, NEW k \in 1..3
  PROVE  NDCGAt(listed, s, k) = Ratio(Gained(listed, s, k), Ideal(listed, k))
<1> DEFINE earning == {r \in DOMAIN Cut(s, k) : s[r] \in Relevant(listed) /\ Counts(s, r)}
           dcg == SumFunction([r \in earning |-> Gain(listed[s[r]]) * Discount[r]])
           best == InOrder(Relevant(listed), listed)
           ideal == SumFunction([r \in DOMAIN Cut(best, k) |-> Gain(listed[best[r]]) * Discount[r]])
<1>1. NDCGAt(listed, s, k) = Ratio(dcg, ideal)
  BY Zenon DEF NDCGAt
<1>2. dcg = Gained(listed, s, k)
  <2>1. earning = {r \in DOMAIN Cut(s, k) : s[r] \in Relevant(listed) /\ Counts(s, r)}
    OBVIOUS
  <2> HIDE DEF earning
  <2> QED
    BY <2>1, DcgTells
<1>3. ideal = Ideal(listed, k)
  <2>1. best = InOrder(Relevant(listed), listed)
    OBVIOUS
  <2> HIDE DEF best
  <2> QED
    BY <2>1, IdealTells
<1> HIDE DEF dcg, ideal
<1> QED
  BY <1>1, <1>2, <1>3

\* No three different places of a falling function have more than its first three.
LEMMA Majorized ==
  ASSUME NEW b \in [Nat -> Nat], b[0] = 0,
         \A r, s \in Nat \ {0} : r < s => b[r] >= b[s],
         NEW x \in Nat, NEW y \in Nat, NEW z \in Nat,
         x = y => x = 0, x = z => x = 0, y = z => y = 0
  PROVE  b[x] <= b[1] /\ b[x] + b[y] <= b[1] + b[2] /\ b[x] + b[y] + b[z] <= b[1] + b[2] + b[3]
<1> DEFINE b1 == b[1]
           b2 == b[2]
           b3 == b[3]
<1>1. b1 \in Nat /\ b2 \in Nat /\ b3 \in Nat /\ b1 >= b2 /\ b2 >= b3
  OBVIOUS
<1>2. \A p \in Nat : /\ b[p] \in Nat /\ (p = 1 => b[p] = b1) /\ (p = 2 => b[p] = b2)
                     /\ (p = 0 => b[p] = 0) /\ (p > 2 => b[p] <= b3)
  <2> TAKE p \in Nat
  <2>1. p > 2 => b[p] <= b3
    <3>1. p > 3 => b[3] >= b[p]
      OBVIOUS
    <3>2. p > 2 => p > 3 \/ p = 3
      OBVIOUS
    <3>3. b[p] \in Nat /\ b[3] \in Nat
      OBVIOUS
    <3> QED
      BY <3>1, <3>2, <3>3
  <2> QED
    BY <2>1
<1> HIDE DEF b1, b2, b3
<1>3. \A p \in Nat : b[p] <= b1 /\ (p # 1 => b[p] <= b2) /\ (p # 1 /\ p # 2 => b[p] <= b3)
  <2> TAKE p \in Nat
  <2>1. p = 0 \/ p = 1 \/ p = 2 \/ p > 2
    OBVIOUS
  <2>2. CASE p = 0
    BY <1>1, <1>2, <2>2
  <2>3. CASE p = 1
    BY <1>1, <1>2, <2>3
  <2>4. CASE p = 2
    BY <1>1, <1>2, <2>4
  <2>5. CASE p > 2
    BY <1>1, <1>2, <2>5
  <2> QED
    BY <2>1, <2>2, <2>3, <2>4, <2>5
<1> DEFINE bx == b[x]
           by == b[y]
           bz == b[z]
<1>4. /\ bx \in Nat /\ bx <= b1 /\ (x # 1 => bx <= b2) /\ (x # 1 /\ x # 2 => bx <= b3)
      /\ by \in Nat /\ by <= b1 /\ (y # 1 => by <= b2) /\ (y # 1 /\ y # 2 => by <= b3)
      /\ bz \in Nat /\ bz <= b1 /\ (z # 1 => bz <= b2) /\ (z # 1 /\ z # 2 => bz <= b3)
  BY <1>2, <1>3
<1> HIDE DEF bx, by, bz
<1>5. (x # y \/ x = 0) /\ (x # z \/ x = 0) /\ (y # z \/ y = 0)
  OBVIOUS
<1>6. bx + by <= b1 + b2
  BY <1>1, <1>4, <1>5
<1>7. bx + by + bz <= b1 + b2 + b3
  BY <1>1, <1>4, <1>5
<1> QED
  BY <1>4, <1>6, <1>7 DEF bx, by, bz, b1, b2, b3

\* What earns has its own place in the best ranking, and gains what is there.
At(listed, s, r) ==
  IF r \in DOMAIN s /\ s[r] \in Relevant(listed) /\ Counts(s, r)
  THEN PlaceAmong(Relevant(listed), listed, s[r]) ELSE 0

LEMMA AtTells ==
  ASSUME NEW listed, Graded(listed), NEW s, DOMAIN s \subseteq Nat \ {0},
         NEW b, b = [p \in Nat |-> IF p = 0 THEN 0 ELSE Best(listed, p)]
  PROVE  /\ \A r : At(listed, s, r) \in Nat /\ Worth(listed, s, r) = b[At(listed, s, r)]
         /\ \A r, q : r # q /\ At(listed, s, r) = At(listed, s, q) => At(listed, s, r) = 0
<1> DEFINE S == Relevant(listed)
           n == Cardinality(S)
           best == InOrder(S, listed)
           place(d) == PlaceAmong(S, listed, d)
           earns(r) == r \in DOMAIN s /\ s[r] \in S /\ Counts(s, r)
<1>1. n = Cardinality(Relevant(listed)) /\ best = InOrder(Relevant(listed), listed)
  OBVIOUS
<1> HIDE DEF n, best
<1>2. /\ n \in Nat /\ best \in [1..n -> Relevant(listed)]
      /\ \A d \in Relevant(listed) : PlaceAmong(Relevant(listed), listed, d) \in 1..n
      /\ \A r \in 1..n : PlaceAmong(Relevant(listed), listed, best[r]) = r
      /\ IsFiniteSet(Relevant(listed))
  BY <1>1, BestTells
<1>3. \A d, e \in Relevant(listed) :
        d # e => PlaceAmong(Relevant(listed), listed, d) # PlaceAmong(Relevant(listed), listed, e)
  <2>1. Relevant(listed) \subseteq Int /\ \A d \in Relevant(listed) : listed[d] \in Int
    BY DEF Graded, Relevant
  <2> QED
    BY <1>2, <2>1, PlacesAreTaken
<1>4. \A r : At(listed, s, r) = IF earns(r) THEN place(s[r]) ELSE 0
  BY DEF At
<1>5. \A r : Worth(listed, s, r) = IF earns(r) THEN Gain(listed[s[r]]) ELSE 0
  BY DEF Worth
<1>6. \A p : Best(listed, p) = IF p <= n THEN Gain(listed[best[p]]) ELSE 0
  BY <1>1 DEF Best
<1>7. \A d \in S : place(d) \in 1..n /\ best[place(d)] = d
  <2> TAKE d \in S
  <2>1. place(d) \in 1..n
    BY <1>2
  <2>2. best[place(d)] \in S /\ place(best[place(d)]) = place(d)
    BY <1>2, <2>1
  <2>3. \A e \in S : e # d => place(e) # place(d)
    BY <1>3
  <2> HIDE DEF place
  <2> QED
    BY <2>1, <2>2, <2>3
<1>8. \A d, e \in S : place(d) = place(e) => d = e
  BY <1>3
<1>9. \A r, q : earns(r) /\ earns(q) /\ s[r] = s[q] => r = q
  <2> TAKE r, q
  <2>1. earns(r) /\ earns(q) => r \in Nat \ {0} /\ q \in Nat \ {0}
    OBVIOUS
  <2>2. earns(r) /\ earns(q) /\ s[r] = s[q] => ~(r \in 1..(q - 1)) /\ ~(q \in 1..(r - 1))
    BY DEF Counts
  <2> HIDE DEF earns
  <2> QED
    BY <2>1, <2>2
<1>10. \A r : earns(r) => s[r] \in S
  OBVIOUS
<1> HIDE DEF place, earns, S
<1>11. \A r : At(listed, s, r) \in Nat
  BY <1>2, <1>4, <1>7, <1>10
<1>12. \A r : Worth(listed, s, r) = b[At(listed, s, r)]
  <2> TAKE r
  <2>1. CASE earns(r)
    <3>1. At(listed, s, r) = place(s[r]) /\ Worth(listed, s, r) = Gain(listed[s[r]])
      BY <1>4, <1>5, <2>1
    <3>2. place(s[r]) \in 1..n /\ best[place(s[r])] = s[r]
      BY <1>7, <1>10, <2>1
    <3>3. place(s[r]) \in Nat /\ place(s[r]) # 0 /\ place(s[r]) <= n
      BY <1>2, <3>2
    <3>4. b[place(s[r])] = Best(listed, place(s[r]))
      BY <3>3
    <3>5. Best(listed, place(s[r])) = Gain(listed[s[r]])
      BY <1>6, <3>2, <3>3
    <3> QED
      BY <3>1, <3>4, <3>5
  <2>2. CASE ~earns(r)
    BY <1>4, <1>5, <2>2
  <2> QED
    BY <2>1, <2>2
<1>13. \A r, q : r # q /\ At(listed, s, r) = At(listed, s, q) => At(listed, s, r) = 0
  <2> TAKE r, q
  <2> HAVE r # q /\ At(listed, s, r) = At(listed, s, q)
  <2>1. CASE earns(r) /\ earns(q)
    <3>1. place(s[r]) = place(s[q])
      BY <1>4, <2>1
    <3>2. s[r] = s[q]
      BY <1>8, <1>10, <2>1, <3>1
    <3> QED
      BY <1>9, <2>1, <3>2
  <2>2. CASE ~(earns(r) /\ earns(q))
    BY <1>4, <2>2
  <2> QED
    BY <2>1, <2>2
<1> QED
  BY <1>11, <1>12, <1>13

\* No ranking gains more than the best one.
LEMMA GainedAtMost ==
  ASSUME NEW listed, Graded(listed), NEW s, DOMAIN s \subseteq Nat \ {0}, NEW k \in 1..3
  PROVE  /\ Gained(listed, s, k) \in Nat /\ Ideal(listed, k) \in Nat
         /\ Gained(listed, s, k) <= Ideal(listed, k)
<1> DEFINE b == [p \in Nat |-> IF p = 0 THEN 0 ELSE Best(listed, p)]
           x == At(listed, s, 1)
           y == At(listed, s, 2)
           z == At(listed, s, 3)
<1>1. (\A p \in Nat \ {0} : b[p] = Best(listed, p)) /\ b[0] = 0
  OBVIOUS
<1>2. b \in [Nat -> Nat]
  <2>1. \A p \in Nat \ {0} : Best(listed, p) \in Nat
    <3>1. \A p \in Nat \ {0} : Best(listed, p) \in {0, 1, 3}
      BY BestIsNatural
    <3> QED
      BY <3>1
  <2> QED
    BY <2>1
<1>3. \A p, q \in Nat \ {0} : p < q => b[p] >= b[q]
  <2>1. \A r, q \in Nat \ {0} : r < q => Best(listed, r) >= Best(listed, q)
    BY BestIsNatural
  <2> QED
    BY <1>1, <2>1
<1>0. b = [p \in Nat |-> IF p = 0 THEN 0 ELSE Best(listed, p)]
  OBVIOUS
<1> HIDE DEF b
<1>4. \A r : At(listed, s, r) \in Nat /\ Worth(listed, s, r) = b[At(listed, s, r)]
  BY <1>0, AtTells
<1>5. \A r, q : r # q /\ At(listed, s, r) = At(listed, s, q) => At(listed, s, r) = 0
  BY <1>0, AtTells
<1>6. x \in Nat /\ y \in Nat /\ z \in Nat
  BY <1>4
<1>7. (x = y => x = 0) /\ (x = z => x = 0) /\ (y = z => y = 0)
  BY <1>5
<1>8. /\ Worth(listed, s, 1) = b[x] /\ Worth(listed, s, 2) = b[y] /\ Worth(listed, s, 3) = b[z]
      /\ Best(listed, 1) = b[1] /\ Best(listed, 2) = b[2] /\ Best(listed, 3) = b[3]
  BY <1>1, <1>4
<1> HIDE DEF x, y, z
<1>9. b[x] <= b[1] /\ b[x] + b[y] <= b[1] + b[2] /\ b[x] + b[y] + b[z] <= b[1] + b[2] + b[3]
  BY <1>1, <1>2, <1>3, <1>6, <1>7, Majorized
<1>10. /\ Gained(listed, s, k) = Discounted(b[x], b[y], b[z], k)
       /\ Ideal(listed, k) = Discounted(b[1], b[2], b[3], k)
  BY <1>8 DEF Gained, Ideal
<1> DEFINE bx == b[x]
           by == b[y]
           bz == b[z]
           b1 == b[1]
           b2 == b[2]
           b3 == b[3]
<1>11. bx \in Nat /\ by \in Nat /\ bz \in Nat /\ b1 \in Nat /\ b2 \in Nat /\ b3 \in Nat
  BY <1>2, <1>6
<1>12. bx <= b1 /\ bx + by <= b1 + b2 /\ bx + by + bz <= b1 + b2 + b3
  BY <1>9
<1>13. Gained(listed, s, k) = Discounted(bx, by, bz, k) /\ Ideal(listed, k) = Discounted(b1, b2, b3, k)
  BY <1>10
<1> HIDE DEF bx, by, bz, b1, b2, b3
<1>14. k = 1 \/ k = 2 \/ k = 3
  OBVIOUS
<1>15. Discounted(bx, by, bz, k) \in Nat /\ Discounted(b1, b2, b3, k) \in Nat
  BY <1>11 DEF Discounted
<1>16. Discounted(bx, by, bz, k) <= Discounted(b1, b2, b3, k)
  <2>1. CASE k = 1
    BY <1>11, <1>12, <2>1 DEF Discounted
  <2>2. CASE k = 2
    BY <1>11, <1>12, <2>2 DEF Discounted
  <2>3. CASE k = 3
    BY <1>11, <1>12, <2>3 DEF Discounted
  <2> QED
    BY <1>14, <2>1, <2>2, <2>3
<1> QED
  BY <1>13, <1>15, <1>16

\* The ranks at which something relevant is, and the first of them.
RanksOf(listed, s) == {r \in DOMAIN s : s[r] \in Relevant(listed)}

LEMMA FirstRank ==
  ASSUME NEW listed, NEW D, NEW s \in Seq(D)
  PROVE  /\ RanksOf(listed, s) = {} => ReciprocalRank(listed, s) = <<0, 1>>
         /\ RanksOf(listed, s) # {} =>
              \E r \in RanksOf(listed, s) :
                (\A q \in RanksOf(listed, s) : r <= q) /\ ReciprocalRank(listed, s) = <<1, r>>
<1> DEFINE ranks == RanksOf(listed, s)
<1>1. ReciprocalRank(listed, s) = IF ranks = {} THEN <<0, 1>> ELSE <<1, Min(ranks)>>
  BY DEF ReciprocalRank, RanksOf
<1>2. ranks \subseteq Nat
  BY DEF RanksOf
<1> HIDE DEF ranks
<1>3. ASSUME ranks # {}
      PROVE  Min(ranks) \in ranks /\ \A q \in ranks : Min(ranks) <= q
  <2>1. \E m \in ranks : \A n \in ranks : m <= n
    BY <1>2, <1>3, LeastOf
  <2> QED
    BY <2>1 DEF Min
<1>4. ranks # {} => \E r \in ranks : (\A q \in ranks : r <= q) /\ ReciprocalRank(listed, s) = <<1, r>>
  BY <1>1, <1>3
<1> QED
  BY <1>1, <1>4 DEF ranks

LEMMA FoundTells ==
  ASSUME NEW listed, NEW D, NEW s \in Seq(D), NEW k \in Nat
  PROVE  \A d : d \in Found(listed, s, k) <=> \E r \in RanksOf(listed, s) : r <= k /\ s[r] = d
<1>1. Range(Cut(s, k)) = {s[r] : r \in {r \in DOMAIN s : r <= k}}
  BY CutIsPart
<1> QED
  BY <1>1 DEF Found, RanksOf

\* The first relevant document always earns.
LEMMA SomethingEarned ==
  ASSUME NEW listed, Graded(listed), NEW D, NEW s \in Seq(D), Len(s) <= 3, NEW k \in 1..3
  PROVE  Gained(listed, s, k) > 0 <=> Found(listed, s, k) # {}
<1> DEFINE w1 == Worth(listed, s, 1)
           w2 == Worth(listed, s, 2)
           w3 == Worth(listed, s, 3)
<1>1. \A d : d \in Found(listed, s, k) <=> \E r \in RanksOf(listed, s) : r <= k /\ s[r] = d
  <2>1. k \in Nat
    OBVIOUS
  <2> QED
    BY <2>1, FoundTells
<1>2. Gained(listed, s, k) = Discounted(w1, w2, w3, k)
  BY DEF Gained
<1>3. \A r : Worth(listed, s, r) \in {0, 1, 3}
  BY WorthIsNatural
<1>4. ASSUME Found(listed, s, k) # {}
      PROVE  \E r \in 1..3 : r <= k /\ Worth(listed, s, r) > 0
  <2>1. PICK q \in RanksOf(listed, s) : q <= k
    BY <1>1, <1>4
  <2>2. PICK r \in RanksOf(listed, s) : \A p \in RanksOf(listed, s) : r <= p
    <3>1. RanksOf(listed, s) \subseteq Nat
      BY DEF RanksOf
    <3>2. \E m \in RanksOf(listed, s) : \A n \in RanksOf(listed, s) : m <= n
      BY <2>1, <3>1, LeastOf
    <3> QED
      BY <3>2
  <2>3. r \in DOMAIN s /\ s[r] \in Relevant(listed) /\ r \in Nat /\ q \in Nat /\ r >= 1
    BY DEF RanksOf
  <2>4. r <= k /\ r \in 1..3
    BY <2>1, <2>2, <2>3
  <2>5. Counts(s, r)
    <3> SUFFICES ASSUME NEW p \in 1..(r - 1), s[p] = s[r]
                 PROVE  FALSE
      BY DEF Counts
    <3>1. p \in DOMAIN s
      BY <2>3
    <3>2. p \in RanksOf(listed, s)
      BY <2>3, <3>1 DEF RanksOf
    <3> QED
      BY <2>2, <2>3, <3>2
  <2>6. Worth(listed, s, r) = Gain(listed[s[r]])
    BY <2>3, <2>5 DEF Worth
  <2>7. listed[s[r]] \in {1, 2}
    <3>1. 0..2 = {0, 1, 2}
      OBVIOUS
    <3> QED
      BY <2>3, <3>1 DEF Relevant, Graded
  <2>8. Worth(listed, s, r) > 0
    BY <2>6, <2>7, Gains
  <2> QED
    BY <2>4, <2>8
<1>5. ASSUME NEW r \in 1..3, r <= k, Worth(listed, s, r) > 0
      PROVE  Found(listed, s, k) # {}
  <2>1. Worth(listed, s, r) # 0
    BY <1>3, <1>5
  <2>2. r \in DOMAIN s /\ s[r] \in Relevant(listed)
    BY <2>1 DEF Worth
  <2>3. r \in RanksOf(listed, s)
    BY <2>2 DEF RanksOf
  <2> QED
    BY <1>1, <1>5, <2>3
<1>6. Discounted(w1, w2, w3, k) > 0 <=> \E r \in 1..3 : r <= k /\ Worth(listed, s, r) > 0
  <2>1. w1 \in Nat /\ w2 \in Nat /\ w3 \in Nat
    BY <1>3
  <2>2. (\E r \in 1..3 : r <= k /\ Worth(listed, s, r) > 0) <=> w1 > 0 \/ (k >= 2 /\ w2 > 0) \/ (k >= 3 /\ w3 > 0)
    <3>1. 1..3 = {1, 2, 3}
      OBVIOUS
    <3> QED
      BY <3>1
  <2> HIDE DEF w1, w2, w3
  <2>3. Discounted(w1, w2, w3, k) > 0 <=> w1 > 0 \/ (k >= 2 /\ w2 > 0) \/ (k >= 3 /\ w3 > 0)
    BY <2>1 DEF Discounted
  <2> QED
    BY <2>2, <2>3
<1> QED
  BY <1>2, <1>4, <1>5, <1>6

Natural == Nat \X (Nat \ {0})

\* Every metric is a number between zero and one, and tells whether the query passed.
LEMMA MetricsTell ==
  ASSUME NEW listed, Graded(listed), NEW D, NEW s \in Seq(D), Len(s) <= 3, NEW k \in 1..3,
         NEW m, m = QueryMetrics(listed, s, k), NEW passed, passed = (Found(listed, s, k) # {})
  PROVE  /\ \A name \in MetricNames : m[name] \in Natural /\ Leq(m[name], <<1, 1>>)
         /\ \A name \in MetricNames \ {"mrr"} : passed <=> m[name][1] > 0
         /\ passed => m.mrr[1] > 0
         /\ passed <=> Classify(listed, s, k) = "PASS"
<1> DEFINE F == Found(listed, s, k)
           R == Relevant(listed)
           f == Cardinality(F)
           r == Cardinality(R)
           g == Gained(listed, s, k)
           i == Ideal(listed, k)
<1>1. /\ m.precision = <<f, k>> /\ m.recall = Ratio(f, r) /\ m.hit_rate = HitAt(listed, s, k)
      /\ m.mrr = ReciprocalRank(listed, s) /\ m.ndcg = NDCGAt(listed, s, k)
  BY DEF QueryMetrics, PrecisionAt, RecallAt
<1>2. f \in Nat /\ r \in Nat /\ (F # {} <=> f > 0)
  <2>1. R \in SUBSET DOMAIN listed /\ F \in SUBSET R
    BY DEF Relevant, Found
  <2>2. IsFiniteSet(R) /\ IsFiniteSet(F)
    BY <2>1, FS_Subset DEF Graded
  <2> HIDE DEF F, R
  <2>3. Cardinality(F) \in Nat /\ Cardinality(R) \in Nat /\ (Cardinality(F) = 0 <=> F = {})
    BY <2>2, FS_CardinalityType, FS_EmptySet
  <2> QED
    BY <2>3
<1>3. /\ Classify(listed, s, k) = "PASS" <=> m.precision[1] > 0
      /\ Classify(listed, s, k) = "PASS" <=> m.recall[1] > 0
      /\ Classify(listed, s, k) = "PASS" <=> m.hit_rate[1] > 0
      /\ Leq(m.precision, <<1, 1>>) /\ Leq(m.recall, <<1, 1>>) /\ Leq(m.hit_rate, <<1, 1>>)
  <2>1. IsFiniteSet(DOMAIN listed) /\ k \in Nat \ {0} /\ k <= k /\ k \in Nat
    BY DEF Graded
  <2> QED
    BY <2>1, CategoryTheorem
<1>4. passed <=> Classify(listed, s, k) = "PASS"
  <2>1. m.precision[1] = f
    BY <1>1
  <2> QED
    BY <1>2, <1>3, <2>1
<1>5. m.precision \in Natural /\ m.recall \in Natural /\ m.hit_rate \in Natural
  <2>1. m.precision \in Natural
    BY <1>1, <1>2 DEF Natural
  <2>2. m.recall \in Natural
    BY <1>1, <1>2, RatiosAreNatural DEF Natural
  <2>3. m.hit_rate \in Natural
    BY <1>1 DEF Natural, HitAt
  <2> QED
    BY <2>1, <2>2, <2>3
<1>6. m.mrr \in Natural /\ Leq(m.mrr, <<1, 1>>) /\ (passed => m.mrr[1] > 0)
  <2>1. passed => RanksOf(listed, s) # {}
    <3>1. \A d : d \in Found(listed, s, k) <=> \E q \in RanksOf(listed, s) : q <= k /\ s[q] = d
      <4>1. k \in Nat
        OBVIOUS
      <4> QED
        BY <4>1, FoundTells
    <3> QED
      BY <3>1
  <2>2. CASE RanksOf(listed, s) = {}
    <3>1. m.mrr = <<0, 1>>
      BY <1>1, <2>2, FirstRank
    <3> QED
      BY <2>1, <2>2, <3>1 DEF Natural, Leq
  <2>3. CASE RanksOf(listed, s) # {}
    <3>1. PICK q \in RanksOf(listed, s) : ReciprocalRank(listed, s) = <<1, q>>
      BY <2>3, FirstRank
    <3>2. q \in Nat \ {0}
      BY DEF RanksOf
    <3>3. m.mrr = <<1, q>>
      BY <1>1, <3>1
    <3> QED
      BY <3>2, <3>3 DEF Natural, Leq
  <2> QED
    BY <2>2, <2>3
<1>7. m.ndcg \in Natural /\ Leq(m.ndcg, <<1, 1>>) /\ (passed <=> m.ndcg[1] > 0)
  <2>1. m.ndcg = Ratio(g, i)
    BY <1>1, NDCGTells
  <2>2. g \in Nat /\ i \in Nat /\ g <= i
    <3>1. DOMAIN s \subseteq Nat \ {0}
      OBVIOUS
    <3> QED
      BY <3>1, GainedAtMost
  <2>3. passed <=> g > 0
    BY SomethingEarned
  <2> HIDE DEF g, i
  <2>4. Ratio(g, i) \in Natural
    BY <2>2, RatiosAreNatural DEF Natural
  <2>5. CASE i = 0
    BY <2>1, <2>2, <2>3, <2>4, <2>5 DEF Ratio, Leq
  <2>6. CASE i # 0
    BY <2>1, <2>2, <2>3, <2>4, <2>6 DEF Ratio, Leq
  <2> QED
    BY <2>5, <2>6
<1> HIDE DEF F, R, f, r, g, i
<1>8. \A name \in MetricNames : m[name] \in Natural /\ Leq(m[name], <<1, 1>>)
  BY <1>3, <1>5, <1>6, <1>7 DEF MetricNames
<1>9. \A name \in MetricNames \ {"mrr"} : passed <=> m[name][1] > 0
  BY <1>3, <1>4, <1>7 DEF MetricNames
<1> QED
  BY <1>4, <1>6, <1>8, <1>9

\* One ranking gives up nothing of another where it finds as many, as soon, and gains as much.
GivesUpNothing(listed, s, t, k) ==
  /\ Cardinality(Found(listed, s, k)) <= Cardinality(Found(listed, t, k))
  /\ \A r \in RanksOf(listed, s) : \E q \in RanksOf(listed, t) : q <= r
  /\ Gained(listed, s, k) <= Gained(listed, t, k)

LEMMA RatioGrows ==
  ASSUME NEW x \in Nat, NEW y \in Nat, NEW z \in Nat, x <= y
  PROVE  Leq(Ratio(x, z), Ratio(y, z))
<1>1. CASE z = 0
  BY <1>1 DEF Leq, Ratio
<1>2. CASE z # 0
  <2>1. x * z <= y * z
    BY ScaledUp
  <2> QED
    BY <1>2, <2>1 DEF Leq, Ratio
<1> QED
  BY <1>1, <1>2

LEMMA MetricsGrow ==
  ASSUME NEW listed, Graded(listed), NEW D, NEW s \in Seq(D), Len(s) <= 3,
         NEW t \in Seq(D), Len(t) <= 3, NEW k \in 1..3, GivesUpNothing(listed, s, t, k),
         NEW m, m = QueryMetrics(listed, s, k), NEW n, n = QueryMetrics(listed, t, k)
  PROVE  \A name \in MetricNames : Leq(m[name], n[name])
<1> DEFINE f(u) == Cardinality(Found(listed, u, k))
           r == Cardinality(Relevant(listed))
           g(u) == Gained(listed, u, k)
           i == Ideal(listed, k)
<1>1. /\ m.precision = <<f(s), k>> /\ m.recall = Ratio(f(s), r) /\ m.hit_rate = HitAt(listed, s, k)
      /\ m.mrr = ReciprocalRank(listed, s) /\ m.ndcg = NDCGAt(listed, s, k)
      /\ n.precision = <<f(t), k>> /\ n.recall = Ratio(f(t), r) /\ n.hit_rate = HitAt(listed, t, k)
      /\ n.mrr = ReciprocalRank(listed, t) /\ n.ndcg = NDCGAt(listed, t, k)
  BY DEF QueryMetrics, PrecisionAt, RecallAt
<1>2. r \in Nat /\ \A u : f(u) \in Nat /\ (Found(listed, u, k) = {} <=> f(u) = 0)
  <2>1. Relevant(listed) \in SUBSET DOMAIN listed /\ IsFiniteSet(DOMAIN listed)
    BY DEF Relevant, Graded
  <2>2. IsFiniteSet(Relevant(listed))
    BY <2>1, FS_Subset
  <2>3. \A u : Found(listed, u, k) \in SUBSET Relevant(listed)
    BY DEF Found
  <2>4. \A u : IsFiniteSet(Found(listed, u, k))
    BY <2>2, <2>3, FS_Subset
  <2> QED
    BY <2>2, <2>4, FS_CardinalityType, FS_EmptySet
<1>3. f(s) <= f(t)
  BY DEF GivesUpNothing
<1>4. Leq(m.hit_rate, n.hit_rate)
  <2>1. Found(listed, s, k) # {} => Found(listed, t, k) # {}
    <3>1. f(s) # 0 => f(t) # 0
      <4>1. f(s) \in Nat /\ f(t) \in Nat
        BY <1>2
      <4> HIDE DEF f
      <4> QED
        BY <1>3, <4>1
    <3> QED
      BY <1>2, <3>1
  <2> QED
    BY <1>1, <2>1 DEF HitAt, Leq
<1>5. Leq(m.precision, n.precision) /\ Leq(m.recall, n.recall)
  <2>1. f(s) \in Nat /\ f(t) \in Nat
    BY <1>2
  <2> HIDE DEF f, r
  <2>2. Leq(m.recall, n.recall)
    BY <1>1, <1>2, <1>3, <2>1, RatioGrows
  <2>3. f(s) * k <= f(t) * k
    BY <1>3, <2>1, ScaledUp
  <2>4. Leq(m.precision, n.precision)
    BY <1>1, <2>3 DEF Leq
  <2> QED
    BY <2>2, <2>4
<1>6. Leq(m.mrr, n.mrr)
  <2>1. CASE RanksOf(listed, s) = {}
    <3>1. m.mrr = <<0, 1>>
      BY <1>1, <2>1, FirstRank
    <3>2. n.mrr = <<0, 1>> \/ \E q \in RanksOf(listed, t) : n.mrr = <<1, q>>
      BY <1>1, FirstRank, ZenonT(60)
    <3>3. RanksOf(listed, t) \subseteq Nat
      BY DEF RanksOf
    <3> QED
      BY <3>1, <3>2, <3>3 DEF Leq
  <2>2. CASE RanksOf(listed, s) # {}
    <3>1. PICK x \in RanksOf(listed, s) : ReciprocalRank(listed, s) = <<1, x>>
      BY <2>2, FirstRank
    <3>2. PICK y \in RanksOf(listed, t) : y <= x
      BY DEF GivesUpNothing
    <3>3. RanksOf(listed, t) # {}
      BY <3>2
    <3>4. PICK z \in RanksOf(listed, t) :
            (\A q \in RanksOf(listed, t) : z <= q) /\ ReciprocalRank(listed, t) = <<1, z>>
      BY <3>3, FirstRank
    <3>5. x \in Nat /\ y \in Nat /\ z \in Nat
      BY DEF RanksOf
    <3>6. z <= x
      BY <3>2, <3>4, <3>5
    <3> QED
      BY <1>1, <3>1, <3>4, <3>5, <3>6 DEF Leq
  <2> QED
    BY <2>1, <2>2
<1>7. Leq(m.ndcg, n.ndcg)
  <2>1. m.ndcg = Ratio(g(s), i)
    BY <1>1, NDCGTells
  <2>2. n.ndcg = Ratio(g(t), i)
    BY <1>1, NDCGTells
  <2>3. g(s) \in Nat /\ i \in Nat
    <3>1. DOMAIN s \subseteq Nat \ {0}
      OBVIOUS
    <3> QED
      BY <3>1, GainedAtMost
  <2>4. g(t) \in Nat
    <3>1. DOMAIN t \subseteq Nat \ {0}
      OBVIOUS
    <3> QED
      BY <3>1, GainedAtMost
  <2>5. g(s) <= g(t)
    BY DEF GivesUpNothing
  <2> HIDE DEF g, i
  <2> QED
    BY <2>1, <2>2, <2>3, <2>4, <2>5, RatioGrows
<1> HIDE DEF f, g, r, i
<1> QED
  BY <1>4, <1>5, <1>6, <1>7 DEF MetricNames

\* What a document earns where it counts.
Value(listed, d) == IF d \in Relevant(listed) THEN Gain(listed[d]) ELSE 0

LEMMA ValuesTell ==
  ASSUME NEW listed, Graded(listed)
  PROVE  /\ \A s, r : Worth(listed, s, r)
                        = IF r \in DOMAIN s /\ Counts(s, r) THEN Value(listed, s[r]) ELSE 0
         /\ \A d, e : GradeOf(listed, d) <= GradeOf(listed, e) =>
              /\ Value(listed, d) <= Value(listed, e)
              /\ d \in Relevant(listed) => e \in Relevant(listed)
<1>1. \A s, r : Worth(listed, s, r) = IF r \in DOMAIN s /\ Counts(s, r) THEN Value(listed, s[r]) ELSE 0
  BY DEF Worth, Value
<1>2. \A d : /\ GradeOf(listed, d) \in {0, 1, 2}
             /\ d \in Relevant(listed) <=> GradeOf(listed, d) > 0
             /\ d \in Relevant(listed) => listed[d] = GradeOf(listed, d)
  <2>1. 0..2 = {0, 1, 2}
    OBVIOUS
  <2> QED
    BY <2>1 DEF GradeOf, Relevant, Graded
<1>3. \A d : Value(listed, d) = Gain(GradeOf(listed, d))
  <2> TAKE d
  <2>1. CASE d \in Relevant(listed)
    BY <1>2, <2>1 DEF Value
  <2>2. CASE d \notin Relevant(listed)
    <3>1. GradeOf(listed, d) = 0
      BY <1>2, <2>2
    <3> QED
      BY <2>2, <3>1, Gains DEF Value
  <2> QED
    BY <2>1, <2>2
<1>4. \A x, y \in {0, 1, 2} : x <= y => Gain(x) <= Gain(y)
  BY Gains
<1>5. ASSUME NEW d, NEW e, GradeOf(listed, d) <= GradeOf(listed, e)
      PROVE  /\ Value(listed, d) <= Value(listed, e)
             /\ d \in Relevant(listed) => e \in Relevant(listed)
  <2>1. Value(listed, d) <= Value(listed, e)
    BY <1>2, <1>3, <1>4, <1>5
  <2>2. d \in Relevant(listed) => e \in Relevant(listed)
    BY <1>2, <1>5
  <2> QED
    BY <2>1, <2>2
<1> QED
  BY <1>1, <1>5

LEMMA SwappedTells ==
  ASSUME NEW D, NEW s \in Seq(D), NEW r \in 1..(Len(s) - 1), NEW t, t = Swapped(s, r)
  PROVE  /\ t \in Seq(D) /\ Len(t) = Len(s) /\ DOMAIN t = DOMAIN s
         /\ t[r] = s[r + 1] /\ t[r + 1] = s[r]
         /\ \A q \in DOMAIN s : q # r /\ q # r + 1 => t[q] = s[q]
         /\ r \in DOMAIN s /\ r + 1 \in DOMAIN s /\ r \in Nat \ {0}
<1>1. r \in DOMAIN s /\ r + 1 \in DOMAIN s /\ r \in Nat \ {0} /\ r # r + 1
  OBVIOUS
<1>2. t = [s EXCEPT ![r] = s[r + 1], ![r + 1] = s[r]]
  BY DEF Swapped
<1>3. s \in [1..Len(s) -> D] /\ Len(s) \in Nat
  OBVIOUS
<1>4. DOMAIN t = DOMAIN s
  BY <1>2
<1>5. t[r] = s[r + 1] /\ t[r + 1] = s[r]
  BY <1>1, <1>2
<1>6. \A q \in DOMAIN s : q # r /\ q # r + 1 => t[q] = s[q]
  BY <1>2
<1>7. t \in [1..Len(s) -> D]
  <2>1. t = [q \in 1..Len(s) |-> t[q]]
    BY <1>2, <1>3
  <2>2. \A q \in 1..Len(s) : t[q] \in D
    BY <1>1, <1>3, <1>5, <1>6
  <2> QED
    BY <2>1, <2>2
<1>8. t \in Seq(D) /\ Len(t) = Len(s)
  BY <1>3, <1>7
<1> QED
  BY <1>1, <1>4, <1>5, <1>6, <1>8

\* Where a document changes places with the next one, those that count do so still.
LEMMA SwappedCounts ==
  ASSUME NEW D, NEW s \in Seq(D), NEW r \in 1..(Len(s) - 1), NEW t, t = Swapped(s, r),
         Counts(s, r), Counts(s, r + 1)
  PROVE  /\ Counts(t, r) /\ Counts(t, r + 1)
         /\ \A q \in DOMAIN s : q # r /\ q # r + 1 => (Counts(t, q) <=> Counts(s, q))
<1>1. /\ DOMAIN t = DOMAIN s /\ t[r] = s[r + 1] /\ t[r + 1] = s[r]
      /\ \A q \in DOMAIN s : q # r /\ q # r + 1 => t[q] = s[q]
      /\ r \in DOMAIN s /\ r + 1 \in DOMAIN s /\ r \in Nat \ {0}
  BY SwappedTells
<1>2. \A q \in DOMAIN s : \A p \in 1..(q - 1) : p \in DOMAIN s /\ p \in Nat /\ q \in Nat /\ p < q
  OBVIOUS
<1>3. \A p \in 1..(r - 1) : p \in DOMAIN s /\ p # r /\ p # r + 1 /\ t[p] = s[p] /\ p \in 1..((r + 1) - 1)
  BY <1>1
<1>4. Counts(t, r)
  <2> SUFFICES ASSUME NEW p \in 1..(r - 1)
               PROVE  t[p] # t[r]
    BY DEF Counts
  <2>1. s[p] # s[r + 1]
    BY <1>3 DEF Counts
  <2> QED
    BY <1>1, <1>3, <2>1
<1>5. Counts(t, r + 1)
  <2> SUFFICES ASSUME NEW p \in 1..((r + 1) - 1)
               PROVE  t[p] # t[r + 1]
    BY DEF Counts
  <2>1. p \in 1..(r - 1) \/ p = r
    BY <1>1
  <2>2. CASE p \in 1..(r - 1)
    <3>1. s[p] # s[r]
      BY <2>2 DEF Counts
    <3> QED
      BY <1>1, <1>3, <2>2, <3>1
  <2>3. CASE p = r
    <3>1. r \in 1..((r + 1) - 1)
      BY <1>1
    <3>2. s[r] # s[r + 1]
      BY <3>1 DEF Counts
    <3> QED
      BY <1>1, <2>3, <3>2
  <2> QED
    BY <2>1, <2>2, <2>3
<1>6. ASSUME NEW q \in DOMAIN s, q # r, q # r + 1
      PROVE  Counts(t, q) <=> Counts(s, q)
  <2>0. q \in Nat /\ q \in 1..Len(s)
    OBVIOUS
  <2> DEFINE of(p) == IF p = r THEN r + 1 ELSE IF p = r + 1 THEN r ELSE p
  <2>1. \A p \in 1..(q - 1) : of(p) \in 1..(q - 1) /\ t[p] = s[of(p)] /\ s[p] = t[of(p)]
    <3> TAKE p \in 1..(q - 1)
    <3>0. p \in DOMAIN s /\ p \in Nat /\ p < q
      BY <1>2
    <3>1. CASE p = r
      <4>1. r + 1 \in 1..(q - 1)
        BY <1>1, <1>6, <2>0, <3>0, <3>1
      <4> QED
        BY <1>1, <3>1, <4>1
    <3>2. CASE p = r + 1
      <4>1. r \in 1..(q - 1) /\ r + 1 # r
        BY <1>1, <1>6, <2>0, <3>0, <3>2
      <4> QED
        BY <1>1, <3>2, <4>1
    <3>3. CASE p # r /\ p # r + 1
      BY <1>1, <3>0, <3>3
    <3> QED
      BY <3>1, <3>2, <3>3
  <2>2. t[q] = s[q]
    BY <1>1, <1>6
  <2> HIDE DEF of
  <2> QED
    BY <2>1, <2>2 DEF Counts
<1> QED
  BY <1>4, <1>5, <1>6

LEMMA SwapFinds ==
  ASSUME NEW listed, Graded(listed), NEW D, NEW s \in Seq(D), NEW k \in 1..3,
         NEW r \in 1..(Len(s) - 1), Counts(s, r), Counts(s, r + 1),
         s[r] \in Relevant(listed) => s[r + 1] \in Relevant(listed), NEW t, t = Swapped(s, r)
  PROVE  /\ Cardinality(Found(listed, s, k)) <= Cardinality(Found(listed, t, k))
         /\ \A p \in RanksOf(listed, s) : \E q \in RanksOf(listed, t) : q <= p
<1>1. /\ DOMAIN t = DOMAIN s /\ t[r] = s[r + 1] /\ t[r + 1] = s[r]
      /\ \A q \in DOMAIN s : q # r /\ q # r + 1 => t[q] = s[q]
      /\ r \in DOMAIN s /\ r + 1 \in DOMAIN s /\ r \in Nat \ {0}
  BY SwappedTells
<1>2. t \in Seq(D)
  BY SwappedTells
<1>3. \A q \in DOMAIN s : q \in Nat
  OBVIOUS
<1>4. \A d : d \in Found(listed, s, k)
                <=> \E q \in DOMAIN s : q <= k /\ s[q] = d /\ d \in Relevant(listed)
  <2>1. \A d : d \in Found(listed, s, k) <=> \E q \in RanksOf(listed, s) : q <= k /\ s[q] = d
    <3>1. k \in Nat
      OBVIOUS
    <3> QED
      BY <3>1, FoundTells
  <2> QED
    BY <2>1 DEF RanksOf
<1>5. \A d : d \in Found(listed, t, k)
                <=> \E q \in DOMAIN s : q <= k /\ t[q] = d /\ d \in Relevant(listed)
  <2>1. \A d : d \in Found(listed, t, k) <=> \E q \in RanksOf(listed, t) : q <= k /\ t[q] = d
    <3>1. k \in Nat
      OBVIOUS
    <3> QED
      BY <1>2, <3>1, FoundTells
  <2> QED
    BY <1>1, <2>1 DEF RanksOf
<1>6. ASSUME NEW p \in RanksOf(listed, s)
      PROVE  \E q \in RanksOf(listed, t) : q <= p
  <2>1. p \in DOMAIN s /\ s[p] \in Relevant(listed) /\ p \in Nat
    BY <1>3 DEF RanksOf
  <2>2. CASE p = r \/ p = r + 1
    <3>1. s[r + 1] \in Relevant(listed)
      BY <2>1, <2>2
    <3>2. r \in RanksOf(listed, t)
      BY <1>1, <3>1 DEF RanksOf
    <3>3. r <= p
      BY <1>1, <2>2
    <3> QED
      BY <3>2, <3>3
  <2>3. CASE ~(p = r \/ p = r + 1)
    <3>1. p \in RanksOf(listed, t) /\ p <= p
      BY <1>1, <2>1, <2>3 DEF RanksOf
    <3> QED
      BY <3>1
  <2> QED
    BY <2>2, <2>3
<1>7. IsFiniteSet(Found(listed, s, k)) /\ IsFiniteSet(Found(listed, t, k))
  <2>1. Found(listed, s, k) \in SUBSET DOMAIN listed /\ Found(listed, t, k) \in SUBSET DOMAIN listed
    BY DEF Found, Relevant
  <2> QED
    BY <2>1, FS_Subset DEF Graded
<1>8. k \in Nat
  OBVIOUS
<1>9. CASE k # r \/ s[r] \notin Relevant(listed)
  <2>1. ASSUME NEW d \in Found(listed, s, k)
        PROVE  d \in Found(listed, t, k)
    <3>1. PICK q \in DOMAIN s : q <= k /\ s[q] = d /\ d \in Relevant(listed)
      BY <1>4
    <3>2. CASE q = r
      <4>1. r + 1 <= k
        BY <1>1, <1>8, <1>9, <3>1, <3>2
      <4> QED
        BY <1>1, <1>5, <3>1, <3>2, <4>1
    <3>3. CASE q = r + 1
      <4>1. r <= k
        BY <1>1, <1>8, <3>1, <3>3
      <4> QED
        BY <1>1, <1>5, <3>1, <3>3, <4>1
    <3>4. CASE q # r /\ q # r + 1
      BY <1>1, <1>5, <3>1, <3>4
    <3> QED
      BY <3>2, <3>3, <3>4
  <2>2. Found(listed, s, k) \in SUBSET Found(listed, t, k)
    BY <2>1
  <2>3. Cardinality(Found(listed, s, k)) <= Cardinality(Found(listed, t, k))
    BY <1>7, <2>2, FS_Subset
  <2> QED
    BY <1>6, <2>3
<1>10. CASE k = r /\ s[r] \in Relevant(listed)
  <2> DEFINE d == s[r]
             e == s[r + 1]
             A == Found(listed, s, k) \ {d}
  <2>1. d \in Found(listed, s, k)
    <3>1. r <= k
      BY <1>1, <1>10
    <3> QED
      BY <1>1, <1>4, <1>10, <3>1
  <2>2. e \in Found(listed, t, k)
    <3>1. r <= k
      BY <1>1, <1>10
    <3> QED
      BY <1>1, <1>5, <1>10, <3>1
  <2>3. \A c \in A : c \in Found(listed, t, k) /\ c # e
    <3> TAKE c \in A
    <3>1. PICK q \in DOMAIN s : q <= k /\ s[q] = c /\ c \in Relevant(listed)
      BY <1>4
    <3>2. q # r /\ q <= r /\ q \in Nat /\ q >= 1
      BY <1>3, <1>10, <3>1
    <3>3. q # r + 1 /\ q \in 1..((r + 1) - 1)
      BY <1>1, <3>2
    <3>4. c # e
      BY <3>1, <3>3 DEF Counts
    <3>5. t[q] = c
      BY <1>1, <3>1, <3>2, <3>3
    <3> QED
      BY <1>5, <3>1, <3>4, <3>5
  <2>4. IsFiniteSet(A) /\ Cardinality(A) = Cardinality(Found(listed, s, k)) - 1
    BY <1>7, <2>1, FS_RemoveElement
  <2>5. A \in SUBSET (Found(listed, t, k) \ {e})
    BY <2>3
  <2>6. /\ IsFiniteSet(Found(listed, t, k) \ {e})
        /\ Cardinality(Found(listed, t, k) \ {e}) = Cardinality(Found(listed, t, k)) - 1
    BY <1>7, <2>2, FS_RemoveElement
  <2>7. Cardinality(A) <= Cardinality(Found(listed, t, k) \ {e})
    BY <2>5, <2>6, FS_Subset
  <2>8. Cardinality(Found(listed, s, k)) \in Nat /\ Cardinality(Found(listed, t, k)) \in Nat
    BY <1>7, FS_CardinalityType
  <2> HIDE DEF A, d, e
  <2>9. Cardinality(Found(listed, s, k)) <= Cardinality(Found(listed, t, k))
    BY <2>4, <2>6, <2>7, <2>8
  <2> QED
    BY <1>6, <2>9
<1> QED
  BY <1>9, <1>10

LEMMA SwapGains ==
  ASSUME NEW listed, Graded(listed), NEW D, NEW s \in Seq(D), Len(s) <= 3, NEW k \in 1..3,
         NEW r \in 1..(Len(s) - 1), Counts(s, r), Counts(s, r + 1),
         GradeOf(listed, s[r]) <= GradeOf(listed, s[r + 1]), NEW t, t = Swapped(s, r)
  PROVE  Gained(listed, s, k) <= Gained(listed, t, k)
<1> DEFINE w(p) == Worth(listed, s, p)
           u(p) == Worth(listed, t, p)
<1>1. /\ DOMAIN t = DOMAIN s /\ t[r] = s[r + 1] /\ t[r + 1] = s[r]
      /\ \A q \in DOMAIN s : q # r /\ q # r + 1 => t[q] = s[q]
      /\ r \in DOMAIN s /\ r + 1 \in DOMAIN s /\ r \in Nat \ {0}
  BY SwappedTells
<1>2. /\ Counts(t, r) /\ Counts(t, r + 1)
      /\ \A q \in DOMAIN s : q # r /\ q # r + 1 => (Counts(t, q) <=> Counts(s, q))
  BY SwappedCounts
<1>3. \A v, p : Worth(listed, v, p) = IF p \in DOMAIN v /\ Counts(v, p) THEN Value(listed, v[p]) ELSE 0
  BY ValuesTell
<1>4. Value(listed, s[r]) <= Value(listed, s[r + 1])
  BY ValuesTell
<1>5. u(r) = w(r + 1) /\ u(r + 1) = w(r) /\ w(r) <= w(r + 1)
  BY <1>1, <1>2, <1>3, <1>4
<1>6. \A q : q # r /\ q # r + 1 => u(q) = w(q)
  <2> TAKE q
  <2>1. CASE q \in DOMAIN s
    BY <1>1, <1>2, <1>3, <2>1
  <2>2. CASE q \notin DOMAIN s
    BY <1>1, <1>3, <2>2
  <2> QED
    BY <2>1, <2>2
<1>7. \A p : w(p) \in Nat /\ u(p) \in Nat
  <2>1. \A v, p : Worth(listed, v, p) \in {0, 1, 3}
    BY WorthIsNatural
  <2> QED
    BY <2>1
<1>8. Gained(listed, s, k) = Discounted(w(1), w(2), w(3), k)
  BY DEF Gained
<1>9. Gained(listed, t, k) = Discounted(u(1), u(2), u(3), k)
  BY DEF Gained
<1> HIDE DEF w, u
<1> DEFINE w1 == w(1)
           w2 == w(2)
           w3 == w(3)
<1>10. w1 \in Nat /\ w2 \in Nat /\ w3 \in Nat
  BY <1>7
<1>11. k = 1 \/ k = 2 \/ k = 3
  OBVIOUS
<1>12. r = 1 \/ r = 2
  <2>1. Len(s) \in Nat
    OBVIOUS
  <2> QED
    BY <2>1
<1>13. CASE r = 1
  <2>1. 1 + 1 = 2 /\ 3 # 1 /\ 3 # 1 + 1
    OBVIOUS
  <2>2. u(1) = w2 /\ u(2) = w1 /\ u(3) = w3 /\ w1 <= w2
    BY <1>5, <1>6, <1>13, <2>1
  <2>3. Gained(listed, t, k) = Discounted(w2, w1, w3, k) /\ Gained(listed, s, k) = Discounted(w1, w2, w3, k)
    BY <1>8, <1>9, <2>2
  <2> HIDE DEF w1, w2, w3
  <2>4. Discounted(w1, w2, w3, k) <= Discounted(w2, w1, w3, k)
    BY <1>10, <1>11, <2>2 DEF Discounted
  <2> QED
    BY <2>3, <2>4
<1>14. CASE r = 2
  <2>1. 2 + 1 = 3 /\ 1 # 2 /\ 1 # 2 + 1
    OBVIOUS
  <2>2. u(1) = w1 /\ u(2) = w3 /\ u(3) = w2 /\ w2 <= w3
    BY <1>5, <1>6, <1>14, <2>1
  <2>3. Gained(listed, t, k) = Discounted(w1, w3, w2, k) /\ Gained(listed, s, k) = Discounted(w1, w2, w3, k)
    BY <1>8, <1>9, <2>2
  <2> HIDE DEF w1, w2, w3
  <2>4. Discounted(w1, w2, w3, k) <= Discounted(w1, w3, w2, k)
    BY <1>10, <1>11, <2>2 DEF Discounted
  <2> QED
    BY <2>3, <2>4
<1> QED
  BY <1>12, <1>13, <1>14

LEMMA SwapIsFair ==
  ASSUME NEW listed, Graded(listed), NEW D, NEW s \in Seq(D), Len(s) <= 3, NEW k \in 1..3,
         NEW r \in 1..(Len(s) - 1), Counts(s, r), Counts(s, r + 1),
         GradeOf(listed, s[r]) <= GradeOf(listed, s[r + 1]), NEW t, t = Swapped(s, r)
  PROVE  GivesUpNothing(listed, s, t, k) /\ t \in Seq(D) /\ Len(t) <= 3
<1>1. t \in Seq(D) /\ Len(t) = Len(s)
  BY SwappedTells
<1>2. s[r] \in Relevant(listed) => s[r + 1] \in Relevant(listed)
  BY ValuesTell
<1>3. Cardinality(Found(listed, s, k)) <= Cardinality(Found(listed, t, k))
  BY <1>2, SwapFinds
<1>4. \A p \in RanksOf(listed, s) : \E q \in RanksOf(listed, t) : q <= p
  BY <1>2, SwapFinds
<1>5. Gained(listed, s, k) <= Gained(listed, t, k)
  BY SwapGains
<1> QED
  BY <1>1, <1>3, <1>4, <1>5 DEF GivesUpNothing

\* A repeated document that goes away: where the others are then, and that they count as they did.
LEMMA RemovedTells ==
  ASSUME NEW D, NEW s \in Seq(D), NEW r \in DOMAIN s, ~Counts(s, r), NEW t, t = RemoveAt(s, r)
  PROVE  /\ t \in Seq(D) /\ Len(t) = Len(s) - 1 /\ r \in Nat /\ r > 1
         /\ \A q \in DOMAIN s : q < r => q \in DOMAIN t /\ t[q] = s[q] /\ (Counts(t, q) <=> Counts(s, q))
         /\ \A q \in DOMAIN s : q > r =>
              q - 1 \in DOMAIN t /\ t[q - 1] = s[q] /\ (Counts(s, q) => Counts(t, q - 1))
         /\ \E p \in DOMAIN s : p < r /\ s[p] = s[r]
<1> DEFINE n == Len(s)
<1>1. t \in Seq(D) /\ Len(t) = Len(s) - 1
  BY RemoveAtTells
<1>2. \A k \in 1..Len(t) : t[k] = IF k < r THEN s[k] ELSE s[k + 1]
  BY RemoveAtTells, SMTT(30)
<1>3. n \in Nat /\ DOMAIN s = 1..n /\ r \in 1..n /\ DOMAIN t = 1..(n - 1)
  BY <1>1
<1>4. PICK p \in 1..(r - 1) : s[p] = s[r]
  BY DEF Counts
<1> HIDE DEF n
<1>5. r \in Nat /\ r > 1 /\ p \in DOMAIN s /\ p < r
  BY <1>3
<1>6. \A q \in DOMAIN s : q < r => q \in DOMAIN t /\ t[q] = s[q]
  <2> TAKE q \in DOMAIN s
  <2> HAVE q < r
  <2>1. q \in 1..(n - 1)
    BY <1>3
  <2>2. q \in 1..Len(t)
    BY <1>1, <2>1 DEF n
  <2> QED
    BY <1>2, <1>3, <2>1, <2>2
<1>7. \A q \in DOMAIN s : q > r => q - 1 \in DOMAIN t /\ t[q - 1] = s[q]
  <2> TAKE q \in DOMAIN s
  <2> HAVE q > r
  <2>1. q - 1 \in 1..(n - 1) /\ ~(q - 1 < r) /\ (q - 1) + 1 = q
    BY <1>3
  <2>2. q - 1 \in 1..Len(t)
    BY <1>1, <2>1 DEF n
  <2>3. t[q - 1] = s[(q - 1) + 1]
    BY <1>2, <2>1, <2>2
  <2> QED
    BY <1>3, <2>1, <2>3
<1>8. ASSUME NEW q \in DOMAIN s, q < r
      PROVE  Counts(t, q) <=> Counts(s, q)
  <2>1. \A e \in 1..(q - 1) : e \in DOMAIN s /\ e < r
    BY <1>3, <1>8
  <2>2. t[q] = s[q] /\ \A e \in 1..(q - 1) : t[e] = s[e]
    BY <1>6, <1>8, <2>1
  <2> QED
    BY <2>2 DEF Counts
<1>9. ASSUME NEW q \in DOMAIN s, q > r, Counts(s, q)
      PROVE  Counts(t, q - 1)
  <2> SUFFICES ASSUME NEW e \in 1..((q - 1) - 1)
               PROVE  t[e] # t[q - 1]
    BY DEF Counts
  <2>1. t[q - 1] = s[q]
    BY <1>7, <1>9
  <2>2. q \in Nat /\ e \in Nat /\ e \in DOMAIN s /\ e + 1 \in DOMAIN s /\ e \in 1..(q - 1) /\ e + 1 \in 1..(q - 1)
    BY <1>3
  <2>3. s[e] # s[q] /\ s[e + 1] # s[q]
    BY <1>9, <2>2 DEF Counts
  <2>4. CASE e < r
    <3>1. t[e] = s[e]
      BY <1>6, <2>2, <2>4
    <3> QED
      BY <2>1, <2>3, <3>1
  <2>5. CASE ~(e < r)
    <3>1. e + 1 > r /\ (e + 1) - 1 = e
      BY <1>5, <2>2, <2>5
    <3>2. t[(e + 1) - 1] = s[e + 1]
      BY <1>7, <2>2, <3>1
    <3> QED
      BY <2>1, <2>3, <3>1, <3>2
  <2> QED
    BY <2>4, <2>5
<1>10. \E o \in DOMAIN s : o < r /\ s[o] = s[r]
  BY <1>4, <1>5
<1> QED
  BY <1>1, <1>5, <1>6, <1>7, <1>8, <1>9, <1>10

LEMMA RemovalFinds ==
  ASSUME NEW listed, Graded(listed), NEW D, NEW s \in Seq(D), NEW k \in 1..3,
         NEW r \in DOMAIN s, ~Counts(s, r), NEW t, t = RemoveAt(s, r)
  PROVE  /\ Cardinality(Found(listed, s, k)) <= Cardinality(Found(listed, t, k))
         /\ \A p \in RanksOf(listed, s) : \E q \in RanksOf(listed, t) : q <= p
<1>1. t \in Seq(D) /\ r \in Nat
  BY RemovedTells
<1>2. \A q \in DOMAIN s : q < r => q \in DOMAIN t /\ t[q] = s[q]
  BY RemovedTells
<1>3. \A q \in DOMAIN s : q > r => q - 1 \in DOMAIN t /\ t[q - 1] = s[q]
  BY RemovedTells
<1>4. \E p \in DOMAIN s : p < r /\ s[p] = s[r]
  BY RemovedTells
<1>5. k \in Nat /\ \A q \in DOMAIN s : q \in Nat
  OBVIOUS
<1>6. \A q \in DOMAIN s : \E p \in DOMAIN t : p <= q /\ t[p] = s[q]
  <2> TAKE q \in DOMAIN s
  <2>0. q \in Nat
    BY <1>5
  <2>1. CASE q < r
    <3>1. q <= q
      BY <2>0
    <3> QED
      BY <1>2, <2>1, <3>1
  <2>2. CASE q = r
    <3>1. PICK p \in DOMAIN s : p < r /\ s[p] = s[r]
      BY <1>4
    <3>2. p \in DOMAIN t /\ t[p] = s[p]
      BY <1>2, <3>1
    <3>3. p <= q
      BY <1>5, <2>2, <3>1
    <3> QED
      BY <2>2, <3>1, <3>2, <3>3
  <2>3. CASE q > r
    <3>1. q - 1 <= q
      BY <2>0
    <3>2. q - 1 \in DOMAIN t /\ t[q - 1] = s[q]
      BY <1>3, <2>3
    <3> QED
      BY <3>1, <3>2
  <2> QED
    BY <1>1, <2>0, <2>1, <2>2, <2>3
<1>7. \A d : d \in Found(listed, s, k) <=> \E q \in RanksOf(listed, s) : q <= k /\ s[q] = d
  BY <1>5, FoundTells
<1>8. \A d : d \in Found(listed, t, k) <=> \E q \in RanksOf(listed, t) : q <= k /\ t[q] = d
  <2>1. k \in Nat /\ t \in Seq(D)
    BY <1>1, <1>5
  <2> QED
    BY <2>1, FoundTells, SMTT(30)
<1>9. ASSUME NEW p \in RanksOf(listed, s)
      PROVE  \E q \in RanksOf(listed, t) : q <= p /\ t[q] = s[p]
  <2>1. p \in DOMAIN s /\ s[p] \in Relevant(listed)
    BY DEF RanksOf
  <2>2. PICK q \in DOMAIN t : q <= p /\ t[q] = s[p]
    BY <1>6, <2>1
  <2>3. q \in RanksOf(listed, t)
    BY <2>1, <2>2 DEF RanksOf
  <2> QED
    BY <2>2, <2>3
<1>10. \A q \in DOMAIN t : q \in Nat
  BY <1>1
<1>11. ASSUME NEW d \in Found(listed, s, k)
       PROVE  d \in Found(listed, t, k)
  <2>1. PICK p \in RanksOf(listed, s) : p <= k /\ s[p] = d
    BY <1>7
  <2>2. PICK q \in RanksOf(listed, t) : q <= p /\ t[q] = s[p]
    BY <1>9
  <2>3. p \in Nat /\ q \in Nat
    BY <1>5, <1>10 DEF RanksOf
  <2>4. q <= k
    BY <1>5, <2>1, <2>2, <2>3
  <2> QED
    BY <1>8, <2>1, <2>2, <2>4
<1>12. IsFiniteSet(Found(listed, t, k))
  <2>1. Found(listed, t, k) \in SUBSET DOMAIN listed
    BY DEF Found, Relevant
  <2> QED
    BY <2>1, FS_Subset DEF Graded
<1>13. Cardinality(Found(listed, s, k)) <= Cardinality(Found(listed, t, k))
  <2>1. Found(listed, s, k) \in SUBSET Found(listed, t, k)
    BY <1>11
  <2> QED
    BY <1>12, <2>1, FS_Subset
<1> QED
  BY <1>9, <1>13

LEMMA RemovalGains ==
  ASSUME NEW listed, Graded(listed), NEW D, NEW s \in Seq(D), Len(s) <= 3, NEW k \in 1..3,
         NEW r \in DOMAIN s, ~Counts(s, r), NEW t, t = RemoveAt(s, r)
  PROVE  Gained(listed, s, k) <= Gained(listed, t, k)
<1> DEFINE w(p) == Worth(listed, s, p)
           u(p) == Worth(listed, t, p)
<1>1. t \in Seq(D) /\ r \in Nat /\ r > 1
  BY RemovedTells
<1>2. \A q \in DOMAIN s : q < r => q \in DOMAIN t /\ t[q] = s[q] /\ (Counts(t, q) <=> Counts(s, q))
  BY RemovedTells
<1>3. \A q \in DOMAIN s : q > r => q - 1 \in DOMAIN t /\ t[q - 1] = s[q] /\ (Counts(s, q) => Counts(t, q - 1))
  BY RemovedTells
<1>4. \A v, p : Worth(listed, v, p) = IF p \in DOMAIN v /\ Counts(v, p) THEN Value(listed, v[p]) ELSE 0
  BY ValuesTell
<1>5. \A p : w(p) \in Nat /\ u(p) \in Nat
  <2>1. \A v, p : Worth(listed, v, p) \in {0, 1, 3}
    BY WorthIsNatural
  <2> QED
    BY <2>1
<1>6. w(r) = 0
  BY <1>4
<1>7. \A q \in DOMAIN s : q < r => w(q) = u(q)
  BY <1>2, <1>4
<1>8. \A q : q > r => w(q) <= u(q - 1)
  <2> TAKE q
  <2> HAVE q > r
  <2>1. CASE q \in DOMAIN s /\ Counts(s, q)
    <3>1. w(q) = u(q - 1)
      BY <1>3, <1>4, <2>1
    <3> QED
      BY <1>5, <3>1
  <2>2. CASE ~(q \in DOMAIN s /\ Counts(s, q))
    <3>1. w(q) = 0
      BY <1>4, <2>2
    <3> QED
      BY <1>5, <3>1
  <2> QED
    BY <2>1, <2>2
<1>9. Gained(listed, s, k) = Discounted(w(1), w(2), w(3), k)
  BY DEF Gained
<1>10. Gained(listed, t, k) = Discounted(u(1), u(2), u(3), k)
  BY DEF Gained
<1>11. (r = 2 \/ r = 3) /\ 1 \in DOMAIN s /\ (r = 3 => 2 \in DOMAIN s)
  <2>1. Len(s) \in Nat /\ DOMAIN s = 1..Len(s) /\ r \in 1..Len(s)
    OBVIOUS
  <2> QED
    BY <1>1, <2>1
<1> HIDE DEF w, u
<1> DEFINE w1 == w(1)
           w2 == w(2)
           w3 == w(3)
           u1 == u(1)
           u2 == u(2)
           u3 == u(3)
<1>12. w1 \in Nat /\ w2 \in Nat /\ w3 \in Nat /\ u1 \in Nat /\ u2 \in Nat /\ u3 \in Nat
  BY <1>5
<1>13. Gained(listed, s, k) = Discounted(w1, w2, w3, k) /\ Gained(listed, t, k) = Discounted(u1, u2, u3, k)
  BY <1>9, <1>10
<1>14. k = 1 \/ k = 2 \/ k = 3
  OBVIOUS
<1>15. CASE r = 2
  <2>1. 3 - 1 = 2 /\ 3 > 2 /\ 1 < 2
    OBVIOUS
  <2>2. w1 = u1 /\ w2 = 0 /\ w3 <= u2
    BY <1>6, <1>7, <1>8, <1>11, <1>15, <2>1
  <2> HIDE DEF w1, w2, w3, u1, u2, u3
  <2>3. Discounted(w1, w2, w3, k) <= Discounted(u1, u2, u3, k)
    BY <1>12, <1>14, <2>2 DEF Discounted
  <2> QED
    BY <1>13, <2>3
<1>16. CASE r = 3
  <2>1. 1 < 3 /\ 2 < 3
    OBVIOUS
  <2>2. w1 = u1 /\ w2 = u2 /\ w3 = 0
    BY <1>6, <1>7, <1>11, <1>16, <2>1
  <2> HIDE DEF w1, w2, w3, u1, u2, u3
  <2>3. Discounted(w1, w2, w3, k) <= Discounted(u1, u2, u3, k)
    BY <1>12, <1>14, <2>2 DEF Discounted
  <2> QED
    BY <1>13, <2>3
<1> QED
  BY <1>11, <1>15, <1>16

LEMMA RemovalIsFair ==
  ASSUME NEW listed, Graded(listed), NEW D, NEW s \in Seq(D), Len(s) <= 3, NEW k \in 1..3,
         NEW r \in DOMAIN s, ~Counts(s, r), NEW t, t = RemoveAt(s, r)
  PROVE  GivesUpNothing(listed, s, t, k) /\ t \in Seq(D) /\ Len(t) <= 3
<1>1. t \in Seq(D) /\ Len(t) = Len(s) - 1
  BY RemovedTells
<1>2. Len(t) <= 3
  <2>1. Len(s) \in Nat
    OBVIOUS
  <2> QED
    BY <1>1, <2>1
<1>3. Cardinality(Found(listed, s, k)) <= Cardinality(Found(listed, t, k))
  BY RemovalFinds
<1>4. \A p \in RanksOf(listed, s) : \E q \in RanksOf(listed, t) : q <= p
  BY RemovalFinds
<1>5. Gained(listed, s, k) <= Gained(listed, t, k)
  BY RemovalGains
<1> QED
  BY <1>1, <1>2, <1>3, <1>4, <1>5 DEF GivesUpNothing

LEMMA RankedOfQuestions == \A q \in RankedQuestions : RankedFairly(q, AnswerRanked(q))
<1> SUFFICES ASSUME NEW q \in RankedQuestions
             PROVE  RankedFairly(q, AnswerRanked(q))
  OBVIOUS
<1> DEFINE listed == q.listed
           s == q.retrieved
           k == q.k
           m == QueryMetrics(listed, s, k)
           passed == Found(listed, s, k) # {}
           a == AnswerRanked(q)
<1>1. Graded(listed) /\ s \in Seq(Documents) /\ Len(s) <= 3 /\ k \in 1..3
  <2>1. listed \in Listings(Documents) /\ s \in BoundedSeq(Documents, 3) /\ k \in 1..3
    BY DEF RankedQuestions
  <2>2. PICK E \in SUBSET Documents : listed \in [E -> 0..2]
    BY <2>1 DEF Listings
  <2>3. IsFiniteSet(Documents) /\ Documents \subseteq Int
    <3>1. IsFiniteSet(1..3)
      BY UpTo
    <3> QED
      BY <3>1 DEF Documents
  <2>4. IsFiniteSet(E)
    BY <2>3, FS_Subset
  <2>5. Graded(listed)
    BY <2>2, <2>3, <2>4 DEF Graded
  <2>6. s \in Seq(Documents) /\ Len(s) <= 3
    <3>1. 3 \in Nat
      OBVIOUS
    <3> HIDE DEF s
    <3> QED
      BY <2>1, <3>1, BoundedSequences
  <2> QED
    BY <2>1, <2>5, <2>6
<1>2. a.metrics = m /\ a.category = Classify(listed, s, k)
  BY DEF AnswerRanked
<1>3. m = QueryMetrics(listed, s, k) /\ passed = (Found(listed, s, k) # {})
  OBVIOUS
<1>4. RankedFairly(q, a) <=>
        /\ \A name \in MetricNames : Leq(a.metrics[name], <<1, 1>>)
        /\ \A name \in MetricNames \ {"mrr"} : (a.category = "PASS") <=> (a.metrics[name][1] > 0)
        /\ a.category = "PASS" => a.metrics.mrr[1] > 0
        /\ \A r \in 1..(Len(s) - 1) :
             /\ Counts(s, r) /\ Counts(s, r + 1)
             /\ GradeOf(listed, s[r]) <= GradeOf(listed, s[r + 1])
             => \A name \in MetricNames :
                  Leq(a.metrics[name], QueryMetrics(listed, Swapped(s, r), k)[name])
        /\ \A r \in DOMAIN s : ~Counts(s, r) =>
             \A name \in MetricNames :
               Leq(a.metrics[name], QueryMetrics(listed, RemoveAt(s, r), k)[name])
  BY Zenon DEF RankedFairly
<1> HIDE DEF listed, s, k, m, passed, a
<1>5. \A name \in MetricNames : Leq(m[name], <<1, 1>>)
  BY <1>1, <1>3, MetricsTell
<1>6. \A name \in MetricNames \ {"mrr"} : passed <=> m[name][1] > 0
  BY <1>1, <1>3, MetricsTell
<1>7. passed => m.mrr[1] > 0
  BY <1>1, <1>3, MetricsTell
<1>8. passed <=> Classify(listed, s, k) = "PASS"
  BY <1>1, <1>3, MetricsTell
<1>9. ASSUME NEW r \in 1..(Len(s) - 1), Counts(s, r), Counts(s, r + 1),
             GradeOf(listed, s[r]) <= GradeOf(listed, s[r + 1])
      PROVE  \A name \in MetricNames : Leq(m[name], QueryMetrics(listed, Swapped(s, r), k)[name])
  <2> DEFINE t == Swapped(s, r)
             n == QueryMetrics(listed, t, k)
  <2>1. t = Swapped(s, r)
    OBVIOUS
  <2> HIDE DEF t
  <2>2. GivesUpNothing(listed, s, t, k) /\ t \in Seq(Documents) /\ Len(t) <= 3
    BY <1>1, <1>9, <2>1, SwapIsFair
  <2>3. n = QueryMetrics(listed, t, k)
    OBVIOUS
  <2> HIDE DEF n
  <2>4. \A name \in MetricNames : Leq(m[name], n[name])
    BY <1>1, <1>3, <2>2, <2>3, MetricsGrow
  <2> QED
    BY <2>1, <2>3, <2>4
<1>10. ASSUME NEW r \in DOMAIN s, ~Counts(s, r)
       PROVE  \A name \in MetricNames : Leq(m[name], QueryMetrics(listed, RemoveAt(s, r), k)[name])
  <2> DEFINE t == RemoveAt(s, r)
             n == QueryMetrics(listed, t, k)
  <2>1. t = RemoveAt(s, r)
    OBVIOUS
  <2> HIDE DEF t
  <2>2. GivesUpNothing(listed, s, t, k) /\ t \in Seq(Documents) /\ Len(t) <= 3
    BY <1>1, <1>10, <2>1, RemovalIsFair
  <2>3. n = QueryMetrics(listed, t, k)
    OBVIOUS
  <2> HIDE DEF n
  <2>4. \A name \in MetricNames : Leq(m[name], n[name])
    BY <1>1, <1>3, <2>2, <2>3, MetricsGrow
  <2> QED
    BY <2>1, <2>3, <2>4
<1>11. \A name \in MetricNames : Leq(a.metrics[name], <<1, 1>>)
  BY <1>2, <1>5
<1>12. \A name \in MetricNames \ {"mrr"} : (a.category = "PASS") <=> (a.metrics[name][1] > 0)
  BY <1>2, <1>6, <1>8
<1>13. a.category = "PASS" => a.metrics.mrr[1] > 0
  BY <1>2, <1>7, <1>8
<1>14. \A r \in 1..(Len(s) - 1) :
         /\ Counts(s, r) /\ Counts(s, r + 1)
         /\ GradeOf(listed, s[r]) <= GradeOf(listed, s[r + 1])
         => \A name \in MetricNames : Leq(a.metrics[name], QueryMetrics(listed, Swapped(s, r), k)[name])
  BY <1>2, <1>9
<1>15. \A r \in DOMAIN s : ~Counts(s, r) =>
         \A name \in MetricNames : Leq(a.metrics[name], QueryMetrics(listed, RemoveAt(s, r), k)[name])
  BY <1>2, <1>10
<1>16. RankedFairly(q, a)
  BY <1>4, <1>11, <1>12, <1>13, <1>14, <1>15, Zenon
<1> QED
  BY <1>16 DEF a

\* Runs whose metrics can be told: grades and lists of the size that the questions have.
SoundRun(ground, predictions) ==
  /\ IsFiniteSet(DOMAIN ground) /\ DOMAIN ground # {}
  /\ \A i \in DOMAIN ground :
       /\ Graded(ground[i])
       /\ Retrieved(predictions, i) \in Seq(Documents) /\ Len(Retrieved(predictions, i)) <= 3
Passing(ground, predictions, k) ==
  {i \in DOMAIN ground : Classify(ground[i], Retrieved(predictions, i), k) = "PASS"}

LEMMA RunTells ==
  ASSUME NEW ground, NEW predictions, NEW k, NEW run, run = RunRetrieval(ground, predictions, k)
  PROVE  /\ run.metrics = EvaluateRetrieval(ground, predictions, k).metrics
         /\ DOMAIN run.metrics = MetricNames
         /\ run.failures = DOMAIN ground \ Passing(ground, predictions, k)
<1> DEFINE result == EvaluateRetrieval(ground, predictions, k)
<1>1. /\ run.metrics = result.metrics
      /\ run.failures = {i \in DOMAIN ground : result.per_query[i].category # "PASS"}
  <2>1. run = [metrics |-> result.metrics, per_query |-> result.per_query,
               failures |-> {i \in DOMAIN ground : result.per_query[i].category # "PASS"},
               predicted |-> Cardinality(DOMAIN predictions)]
    BY Zenon DEF RunRetrieval
  <2> HIDE DEF result
  <2> QED
    BY <2>1
<1>2. \A i \in DOMAIN ground : result.per_query[i].category = Classify(ground[i], Retrieved(predictions, i), k)
  <2>1. result = EvaluateRetrieval(ground, predictions, k)
    OBVIOUS
  <2> HIDE DEF result
  <2> QED
    BY <2>1, PerQueryTells
<1>3. DOMAIN result.metrics = MetricNames
  <2> DEFINE query == [i \in DOMAIN ground |->
                         [metrics  |-> QueryMetrics(ground[i], Retrieved(predictions, i), k),
                          category |-> Classify(ground[i], Retrieved(predictions, i), k)]]
             sum(x) == SumRatios([i \in DOMAIN ground |-> query[i].metrics[x]])
             mean(x) == IF DOMAIN ground = {} THEN <<0, 1>>
                        ELSE <<sum(x)[1], sum(x)[2] * Cardinality(DOMAIN ground)>>
             means == [x \in MetricNames |-> mean(x)]
  <2>1. result = [metrics |-> means, per_query |-> query]
    BY Zenon DEF EvaluateRetrieval
  <2>2. DOMAIN means = MetricNames
    <3> HIDE DEF mean
    <3> QED
      OBVIOUS
  <2> HIDE DEF result, means, query
  <2> QED
    BY <2>1, <2>2
<1> HIDE DEF result
<1>4. run.failures = DOMAIN ground \ Passing(ground, predictions, k)
  BY <1>1, <1>2 DEF Passing
<1> QED
  BY <1>1, <1>3, <1>4 DEF result

LEMMA MeansAreFractions ==
  ASSUME NEW ground, NEW predictions, SoundRun(ground, predictions), NEW k \in 1..3,
         NEW name \in MetricNames,
         NEW result, result = EvaluateRetrieval(ground, predictions, k)
  PROVE  result.metrics[name] \in Fractions
<1> DEFINE f == MetricOf(ground, predictions, k, name)
           n == Cardinality(DOMAIN ground)
<1>1. DOMAIN f = DOMAIN ground
  BY DEF MetricOf
<1>2. ASSUME NEW i \in DOMAIN ground
      PROVE  f[i] \in Fractions
  <2> DEFINE listed == ground[i]
             s == Retrieved(predictions, i)
             m == QueryMetrics(listed, s, k)
             passed == Found(listed, s, k) # {}
  <2>1. Graded(listed) /\ s \in Seq(Documents) /\ Len(s) <= 3
    BY DEF SoundRun
  <2>2. f[i] = m[name]
    BY DEF MetricOf
  <2>3. m = QueryMetrics(listed, s, k) /\ passed = (Found(listed, s, k) # {})
    OBVIOUS
  <2> HIDE DEF listed, s, m, passed
  <2>4. \A x \in MetricNames : m[x] \in Natural /\ Leq(m[x], <<1, 1>>)
    BY <2>1, <2>3, MetricsTell
  <2>5. m[name] \in Fractions
    BY <2>4 DEF Natural, Fractions
  <2> QED
    BY <2>2, <2>5
<1>3. IsFiniteSet(DOMAIN ground) /\ DOMAIN ground # {}
  BY DEF SoundRun
<1>4. result.metrics[name] = MeanOf(SumRatios(f), n)
  BY <1>3, MeanTells
<1>5. n \in Nat \ {0}
  BY <1>3, FS_CardinalityType, FS_EmptySet
<1> HIDE DEF f, n
<1>6. SumRatios(f) \in Fractions
  BY <1>1, <1>2, <1>3, RatioSumIsFraction
<1>7. MeanOf(SumRatios(f), n) \in Fractions
  <2> DEFINE x == SumRatios(f)[1]
             y == SumRatios(f)[2]
  <2>1. x \in Int /\ y \in Nat \ {0}
    BY <1>6 DEF Fractions
  <2>2. MeanOf(SumRatios(f), n) = <<x, y * n>>
    BY DEF MeanOf
  <2> HIDE DEF x, y
  <2>3. y * n \in Nat /\ y * n # 0
    BY <1>5, <2>1
  <2> QED
    BY <2>1, <2>2, <2>3 DEF Fractions
<1> QED
  BY <1>4, <1>7

LEMMA HitMean ==
  ASSUME NEW ground, NEW predictions, SoundRun(ground, predictions), NEW k \in 1..3,
         NEW result, result = EvaluateRetrieval(ground, predictions, k)
  PROVE  result.metrics["hit_rate"]
           = <<Cardinality(Passing(ground, predictions, k)), Cardinality(DOMAIN ground)>>
<1> DEFINE f == MetricOf(ground, predictions, k, "hit_rate")
           n == Cardinality(DOMAIN ground)
           ones == {i \in DOMAIN ground : f[i] = <<1, 1>>}
<1>1. DOMAIN f = DOMAIN ground
  BY DEF MetricOf
<1>2. ASSUME NEW i \in DOMAIN ground
      PROVE  /\ f[i] \in {<<0, 1>>, <<1, 1>>}
             /\ f[i] = <<1, 1>> <=> i \in Passing(ground, predictions, k)
  <2> DEFINE listed == ground[i]
             s == Retrieved(predictions, i)
             m == QueryMetrics(listed, s, k)
             passed == Found(listed, s, k) # {}
  <2>1. Graded(listed) /\ s \in Seq(Documents) /\ Len(s) <= 3
    BY DEF SoundRun
  <2>2. f[i] = HitAt(listed, s, k)
    BY DEF MetricOf, QueryMetrics
  <2>3. m = QueryMetrics(listed, s, k) /\ passed = (Found(listed, s, k) # {})
    OBVIOUS
  <2>4. HitAt(listed, s, k) = IF passed THEN <<1, 1>> ELSE <<0, 1>>
    BY DEF HitAt
  <2>5. i \in Passing(ground, predictions, k) <=> Classify(listed, s, k) = "PASS"
    BY DEF Passing
  <2> HIDE DEF listed, s, m, passed
  <2>6. passed <=> Classify(listed, s, k) = "PASS"
    BY <2>1, <2>3, MetricsTell
  <2>7. passed => f[i] = <<1, 1>>
    BY <2>2, <2>4
  <2>8. ~passed => f[i] = <<0, 1>>
    BY <2>2, <2>4
  <2> HIDE DEF f
  <2>9. <<0, 1>> # <<1, 1>>
    OBVIOUS
  <2> QED
    BY <2>5, <2>6, <2>7, <2>8, <2>9
<1>3. IsFiniteSet(DOMAIN ground) /\ DOMAIN ground # {}
  BY DEF SoundRun
<1>4. result.metrics["hit_rate"] = MeanOf(SumRatios(f), n)
  <2>1. "hit_rate" \in MetricNames
    BY DEF MetricNames
  <2> QED
    BY <1>3, <2>1, MeanTells
<1>5. n \in Nat
  BY <1>3, FS_CardinalityType
<1> HIDE DEF f
<1>6. SumRatios(f) = <<Cardinality(ones), 1>>
  BY <1>1, <1>2, <1>3, RatioSumCounts
<1>7. ones = Passing(ground, predictions, k)
  BY <1>2 DEF Passing
<1> HIDE DEF ones, n
<1>8. MeanOf(SumRatios(f), n) = <<Cardinality(ones), n>>
  BY <1>5, <1>6 DEF MeanOf
<1> QED
  BY <1>4, <1>7, <1>8 DEF n

\* A policy that passes has checked each of its metrics.
LEMMA PassedPolicy ==
  ASSUME NEW new, NEW old, DOMAIN new = MetricNames, DOMAIN old = MetricNames,
         \A name \in MetricNames : new[name] \in Fractions /\ old[name] \in Fractions,
         NEW report, report = CompareMetrics(new, old, WorkspaceRules), report.passed
  PROVE  \A name \in MetricNames : Leq(old[name], new[name])
<1> DEFINE rule(name) == [name |-> name, direction |-> "HIGHER_IS_BETTER", bound |-> <<>>, allowed |-> <<0, 1>>]
           status == [r \in WorkspaceRules |-> CompareOne(new, old, r)]
<1>1. WorkspaceRules = {rule(name) : name \in MetricNames}
  BY DEF WorkspaceRules
<1>2. WorkspaceRules # {} /\ \A r \in WorkspaceRules : r.name \in MetricNames
  <2>1. "hit_rate" \in MetricNames
    BY DEF MetricNames
  <2>2. rule("hit_rate") \in WorkspaceRules
    BY <1>1, <2>1
  <2>3. \A name \in MetricNames : rule(name).name = name
    OBVIOUS
  <2> HIDE DEF rule
  <2>4. \A r \in WorkspaceRules : \E name \in MetricNames : r = rule(name)
    BY <1>1
  <2>5. \A r \in WorkspaceRules : r.name \in MetricNames
    BY <2>3, <2>4
  <2> QED
    BY <2>2, <2>5
<1>3. \A name \in MetricNames : Finite(new[name]) /\ Finite(old[name])
  BY DEF Finite, Fractions
<1>4. ~(\/ WorkspaceRules = {}
        \/ \E r \in WorkspaceRules : \E metrics \in {new, old} :
             Present(metrics, r) /\ ~Finite(metrics[r.name]))
  BY <1>2, <1>3
<1>5. report = [passed |-> \A r \in WorkspaceRules : status[r] = "PASS", status |-> status]
  BY <1>4, Zenon DEF CompareMetrics
<1> HIDE DEF status
<1>6. \A r \in WorkspaceRules : status[r] = "PASS"
  BY <1>5
<1>7. ASSUME NEW name \in MetricNames
      PROVE  Leq(old[name], new[name])
  <2> DEFINE r == rule(name)
  <2>1. r \in WorkspaceRules /\ r.name = name
    BY <1>1
  <2>2. r.direction = "HIGHER_IS_BETTER" /\ r.bound = <<>> /\ r.allowed = <<0, 1>>
    OBVIOUS
  <2> HIDE DEF r, rule
  <2>3. CompareOne(new, old, r) = "PASS"
    BY <1>6, <2>1 DEF status
  <2>4. Present(new, r) /\ Present(old, r)
    BY <2>1 DEF Present
  <2>5. ~OutOfBound(new[r.name], r)
    BY <2>2 DEF OutOfBound, Given
  <2>6. ~Regressed(new[r.name], old[r.name], r)
    BY <2>3, <2>4, <2>5, SMT DEF CompareOne
  <2>7. new[name] \in Int \X Nat /\ old[name] \in Int \X Nat
    BY DEF Fractions
  <2>8. /\ r.direction \in {"HIGHER_IS_BETTER", "LOWER_IS_BETTER"}
        /\ r.allowed \in Nat \X (Nat \ {0}) /\ r.bound \in {<<>>} \cup (Int \X (Nat \ {0}))
        /\ r.allowed[1] = 0
    BY <2>2
  <2>9. ~Regressed(new[name], old[name], r)
    BY <2>1, <2>6
  <2>10. IF r.direction = "HIGHER_IS_BETTER" THEN Leq(old[name], new[name]) ELSE Leq(new[name], old[name])
    BY <2>7, <2>8, <2>9, LossOfRule
  <2> QED
    BY <2>2, <2>10
<1> QED
  BY <1>7

LEMMA PassesAsMuch ==
  ASSUME NEW ids, IsFiniteSet(ids), NEW h \in SUBSET ids, NEW c \in SUBSET ids,
         Cardinality(c) >= Cardinality(h)
  PROVE  Cardinality(c \ h) >= Cardinality(h \ c)
<1> DEFINE both == c \cap h
           more == c \ h
           less == h \ c
<1>1. Halves(c, both, more) /\ Halves(h, both, less)
  BY DEF Halves
<1> HIDE DEF both, more, less
<1>2. IsFiniteSet(c) /\ IsFiniteSet(h)
  BY FS_Subset
<1>3. /\ Cardinality(both) \in Nat /\ Cardinality(more) \in Nat
      /\ Cardinality(c) = Cardinality(both) + Cardinality(more)
  BY <1>1, <1>2, HalvesAddUp
<1>4. /\ Cardinality(less) \in Nat
      /\ Cardinality(h) = Cardinality(both) + Cardinality(less)
  BY <1>1, <1>2, HalvesAddUp
<1>5. Cardinality(more) >= Cardinality(less)
  BY <1>3, <1>4
<1> QED
  BY <1>5 DEF more, less

LEMMA RunsOfQuestions == \A q \in RunQuestions : RunsCompareFairly(q, AnswerRuns(q))
<1> SUFFICES ASSUME NEW q \in RunQuestions
             PROVE  RunsCompareFairly(q, AnswerRuns(q))
  OBVIOUS
<1> DEFINE ground == q.ground
           k == q.k
           a == AnswerRuns(q)
           of(t) == {i \in DOMAIN ground : a.transitions[i] = t}
           h == Passing(ground, q.old, k)
           c == Passing(ground, q.new, k)
<1>1. DOMAIN ground = 1..2 /\ k \in 1..3 /\ SoundRun(ground, q.old) /\ SoundRun(ground, q.new)
  <2>1. /\ ground \in [1..2 -> SomeListings] /\ k \in 1..2
        /\ q.old \in [1..2 -> SomeRetrieved]
        /\ q.new \in [1..2 -> SomeRetrieved] \cup [{1} -> SomeRetrieved]
    BY DEF RunQuestions
  <2>2. \A listed \in SomeListings : Graded(listed)
    <3>1. Graded(<<>>)
      <4>1. DOMAIN <<>> = {}
        OBVIOUS
      <4> QED
        BY <4>1, FS_EmptySet DEF Graded
    <3>2. Graded([d \in {1} |-> 1]) /\ Graded([d \in {1} |-> 0])
      <4>1. IsFiniteSet({1})
        BY FS_Singleton
      <4> QED
        BY <4>1 DEF Graded
    <3>3. Graded([d \in {1, 2} |-> d])
      <4>0. IsFiniteSet(1..2)
        BY UpTo
      <4>1. IsFiniteSet({1, 2})
        <5>1. 1..2 = {1, 2}
          OBVIOUS
        <5> QED
          BY <4>0, <5>1
      <4>2. DOMAIN [d \in {1, 2} |-> d] = {1, 2} /\ {1, 2} \subseteq Int
        OBVIOUS
      <4>3. \A d \in {1, 2} : [e \in {1, 2} |-> e][d] \in 0..2
        OBVIOUS
      <4> QED
        BY <4>1, <4>2, <4>3 DEF Graded
    <3> QED
      BY <3>1, <3>2, <3>3 DEF SomeListings
  <2>3. \A s \in SomeRetrieved : s \in Seq(Documents) /\ Len(s) <= 3
    <3>1. Documents = {1, 2, 3}
      BY DEF Documents
    <3>2. <<>> \in Seq(Documents) /\ Len(<<>>) <= 3
      OBVIOUS
    <3>3. <<1>> \in Seq(Documents) /\ Len(<<1>>) <= 3
      BY <3>1
    <3>4. <<3, 1>> \in Seq(Documents) /\ Len(<<3, 1>>) <= 3
      BY <3>1
    <3>5. <<3, 2>> \in Seq(Documents) /\ Len(<<3, 2>>) <= 3
      BY <3>1
    <3>6. \A s \in SomeRetrieved : s = <<>> \/ s = <<1>> \/ s = <<3, 1>> \/ s = <<3, 2>>
      BY DEF SomeRetrieved
    <3> QED
      BY <3>2, <3>3, <3>4, <3>5, <3>6, Zenon
  <2>4. <<>> \in SomeRetrieved
    BY DEF SomeRetrieved
  <2>5. \A i \in 1..2 : Retrieved(q.old, i) \in SomeRetrieved /\ Retrieved(q.new, i) \in SomeRetrieved
    BY <2>1, <2>4 DEF Retrieved
  <2>6. IsFiniteSet(1..2) /\ 1..2 # {}
    <3>1. IsFiniteSet(1..2)
      BY UpTo
    <3>2. 1 \in 1..2
      OBVIOUS
    <3> QED
      BY <3>1, <3>2
  <2>7. DOMAIN ground = 1..2 /\ \A i \in 1..2 : Graded(ground[i])
    BY <2>1, <2>2
  <2> HIDE DEF ground
  <2> QED
    BY <2>1, <2>3, <2>5, <2>6, <2>7 DEF SoundRun
<1>2. /\ a.old.failures = {i \in DOMAIN ground :
           a.transitions[i] \in {"IMPROVED", "PERSISTENT_FAILURE", "CHANGED_FAILURE"}}
      /\ a.new.failures = {i \in DOMAIN ground :
           a.transitions[i] \in {"REGRESSED", "PERSISTENT_FAILURE", "CHANGED_FAILURE"}}
      /\ \A i \in DOMAIN ground : DOMAIN ground[i] = {} => a.transitions[i] = "PERSISTENT_FAILURE"
  <2>1. DOMAIN q.ground # {}
    BY <1>1
  <2>2. a = AnswerRuns(q)
    OBVIOUS
  <2> HIDE DEF a
  <2> QED
    BY <2>1, <2>2, TransitionsTheorem
<1>3. /\ a.old = RunRetrieval(ground, q.old, k) /\ a.new = RunRetrieval(ground, q.new, k)
      /\ a.report = CompareMetrics(a.new.metrics, a.old.metrics, WorkspaceRules)
  BY DEF AnswerRuns
<1>4. RunsCompareFairly(q, a) <=>
        /\ a.report.passed => Cardinality(of("IMPROVED")) >= Cardinality(of("REGRESSED"))
        /\ a.old.failures = {i \in DOMAIN ground :
             a.transitions[i] \in {"IMPROVED", "PERSISTENT_FAILURE", "CHANGED_FAILURE"}}
        /\ a.new.failures = {i \in DOMAIN ground :
             a.transitions[i] \in {"REGRESSED", "PERSISTENT_FAILURE", "CHANGED_FAILURE"}}
        /\ \A i \in DOMAIN ground : DOMAIN ground[i] = {} => a.transitions[i] = "PERSISTENT_FAILURE"
  BY Zenon DEF RunsCompareFairly
<1> HIDE DEF a, ground, k
<1>5. /\ a.old.metrics = EvaluateRetrieval(ground, q.old, k).metrics
      /\ DOMAIN a.old.metrics = MetricNames
      /\ a.old.failures = DOMAIN ground \ h
  BY <1>3, RunTells
<1>6. /\ a.new.metrics = EvaluateRetrieval(ground, q.new, k).metrics
      /\ DOMAIN a.new.metrics = MetricNames
      /\ a.new.failures = DOMAIN ground \ c
  BY <1>3, RunTells
<1>7. h \in SUBSET DOMAIN ground /\ c \in SUBSET DOMAIN ground
  BY DEF Passing
<1>8. IsFiniteSet(DOMAIN ground) /\ Cardinality(DOMAIN ground) = 2
  <2>1. IsFiniteSet(1..2) /\ Cardinality(1..2) = 2
    BY UpTo
  <2> QED
    BY <1>1, <2>1
<1>9. a.old.metrics["hit_rate"] = <<Cardinality(h), 2>>
  <2>1. EvaluateRetrieval(ground, q.old, k).metrics["hit_rate"]
          = <<Cardinality(Passing(ground, q.old, k)), Cardinality(DOMAIN ground)>>
    BY <1>1, HitMean
  <2> QED
    BY <1>5, <1>8, <2>1
<1>10. a.new.metrics["hit_rate"] = <<Cardinality(c), 2>>
  <2>1. EvaluateRetrieval(ground, q.new, k).metrics["hit_rate"]
          = <<Cardinality(Passing(ground, q.new, k)), Cardinality(DOMAIN ground)>>
    BY <1>1, HitMean
  <2> QED
    BY <1>6, <1>8, <2>1
<1>11. \A name \in MetricNames : a.new.metrics[name] \in Fractions /\ a.old.metrics[name] \in Fractions
  <2> TAKE name \in MetricNames
  <2>1. EvaluateRetrieval(ground, q.new, k).metrics[name] \in Fractions
    BY <1>1, MeansAreFractions
  <2>2. EvaluateRetrieval(ground, q.old, k).metrics[name] \in Fractions
    BY <1>1, MeansAreFractions
  <2> QED
    BY <1>5, <1>6, <2>1, <2>2
<1> HIDE DEF h, c
<1>12. IsFiniteSet(h) /\ IsFiniteSet(c) /\ Cardinality(h) \in Nat /\ Cardinality(c) \in Nat
  <2>1. IsFiniteSet(h) /\ IsFiniteSet(c)
    BY <1>7, <1>8, FS_Subset
  <2> QED
    BY <2>1, FS_CardinalityType
<1>13. of("IMPROVED") = c \ h /\ of("REGRESSED") = h \ c
  BY <1>2, <1>5, <1>6, <1>7
<1>14. ASSUME a.report.passed
       PROVE  Cardinality(of("IMPROVED")) >= Cardinality(of("REGRESSED"))
  <2> DEFINE new == a.new.metrics
             old == a.old.metrics
             report == a.report
  <2>1. /\ DOMAIN new = MetricNames /\ DOMAIN old = MetricNames
        /\ \A name \in MetricNames : new[name] \in Fractions /\ old[name] \in Fractions
        /\ report = CompareMetrics(new, old, WorkspaceRules) /\ report.passed
    BY <1>3, <1>5, <1>6, <1>11, <1>14
  <2>2. new["hit_rate"] = <<Cardinality(c), 2>> /\ old["hit_rate"] = <<Cardinality(h), 2>>
    BY <1>9, <1>10
  <2> HIDE DEF new, old, report
  <2>3. \A name \in MetricNames : Leq(old[name], new[name])
    BY <2>1, PassedPolicy
  <2>4. Leq(<<Cardinality(h), 2>>, <<Cardinality(c), 2>>)
    <3>1. "hit_rate" \in MetricNames
      BY DEF MetricNames
    <3> QED
      BY <2>2, <2>3, <3>1
  <2>5. Cardinality(c) >= Cardinality(h)
    BY <1>12, <2>4 DEF Leq
  <2>6. Cardinality(c \ h) >= Cardinality(h \ c)
    BY <1>7, <1>8, <2>5, PassesAsMuch
  <2> HIDE DEF of
  <2> QED
    BY <1>13, <2>6
<1> HIDE DEF of
<1>15. RunsCompareFairly(q, a)
  BY <1>2, <1>4, <1>14, Zenon
<1> QED
  BY <1>15 DEF a
=============================================================================
