-------------------------- MODULE RetrievalQuestions --------------------------
(***************************************************************************)
(* What is asked of the retrieval and the dataset code, over small inputs, *)
(* and what the answers must have in common with them.                     *)
(***************************************************************************)
EXTENDS DatasetRecords

Documents == 1..3
Listings(S) == UNION {[D -> 0..2] : D \in SUBSET S}

-----------------------------------------------------------------------------
(* One query *)

RankedQuestions == [about : {"ranked"}, listed : Listings(Documents),
                    retrieved : BoundedSeq(Documents, 3), k : 1..3]

AnswerRanked(q) == [metrics  |-> QueryMetrics(q.listed, q.retrieved, q.k),
                    category |-> Classify(q.listed, q.retrieved, q.k)]

Swapped(s, r) == [s EXCEPT ![r] = s[r + 1], ![r + 1] = s[r]]
GradeOf(listed, d) == IF d \in DOMAIN listed THEN listed[d] ELSE 0

\* No metric exceeds one; passing is having a positive value in each of them; a better document
\* that moves up, and a repeated one that goes away, never cost any metric.
RankedFairly(q, a) ==
  LET after(s) == QueryMetrics(q.listed, s, q.k)
  IN  /\ \A name \in MetricNames : Leq(a.metrics[name], <<1, 1>>)
      /\ \A name \in MetricNames \ {"mrr"} : (a.category = "PASS") <=> (a.metrics[name][1] > 0)
      /\ a.category = "PASS" => a.metrics.mrr[1] > 0
      /\ \A r \in 1..(Len(q.retrieved) - 1) :
           /\ Counts(q.retrieved, r) /\ Counts(q.retrieved, r + 1)
           /\ GradeOf(q.listed, q.retrieved[r]) <= GradeOf(q.listed, q.retrieved[r + 1])
           => \A name \in MetricNames : Leq(a.metrics[name], after(Swapped(q.retrieved, r))[name])
      /\ \A r \in DOMAIN q.retrieved : ~Counts(q.retrieved, r) =>
           \A name \in MetricNames : Leq(a.metrics[name], after(RemoveAt(q.retrieved, r))[name])

-----------------------------------------------------------------------------
(* BM25 *)

SearchQuestions == [about : {"search"}, query : SUBSET {"x", "y"},
                    words : [Documents -> SUBSET {"x", "y"}], score : [Documents -> 1..2],
                    topK : 1..3]

AnswerSearch(q) == Retrieve(q.query, q.words, q.score, q.topK)

\* No document comes twice, none without a word of the query comes at all, what is left out is no
\* better than what is listed, and a shorter list begins a longer one.
SearchedFairly(q, a) ==
  /\ \A r, s \in DOMAIN a : r < s => a[r] # a[s] /\ q.score[a[r]] >= q.score[a[s]]
  /\ \A d \in Range(a) : q.words[d] \cap q.query # {}
  /\ \A d \in DOMAIN q.words \ Range(a) : q.words[d] \cap q.query # {} =>
       /\ Len(a) = q.topK
       /\ \A r \in DOMAIN a : q.score[a[r]] >= q.score[d]
  /\ IsPrefix(a, Retrieve(q.query, q.words, q.score, q.topK + 1))

-----------------------------------------------------------------------------
(* Regression *)

Values == {<<0, 1>>, <<1, 1>>, <<1, 0>>}
MetricFiles == UNION {[S -> Values] : S \in SUBSET {"m", "n"}}
RulesFor(name) == [name : {name}, direction : {"HIGHER_IS_BETTER", "LOWER_IS_BETTER"},
                   bound : {<<>>, <<1, 2>>}, allowed : {<<0, 1>>, <<1, 1>>}]
Policies == {{}} \cup {{r} : r \in RulesFor("m")} \cup {{r, s} : r \in RulesFor("m"), s \in
              {s \in RulesFor("n") : s.bound = <<>>}}

RegressionQuestions ==
  [about : {"regression"}, candidate : MetricFiles, baseline : MetricFiles, rules : Policies]

AnswerRegression(q) == RegressionCompare(q.candidate, q.baseline, q.rules)

\* What the new value has lost on the old one, in the direction of the rule.
Loss(new, old, rule) ==
  LET minus(x) == <<-x[1], x[2]>>
  IN  IF rule.direction = "HIGHER_IS_BETTER" THEN Plus(old, minus(new)) ELSE Plus(new, minus(old))

\* The exit code is 0 only where every rule has its two finite values, and neither its bound nor
\* what it allows to be lost is overrun; where rules allow nothing, two files that pass against
\* each other are the same to them.
ComparesClosed(q, a) ==
  a.exit = 0 =>
    /\ q.rules # {}
    /\ \A rule \in q.rules :
         LET new == q.candidate[rule.name]
             old == q.baseline[rule.name]
         IN  /\ rule.name \in DOMAIN q.candidate \cap DOMAIN q.baseline
             /\ new[2] # 0 /\ old[2] # 0
             /\ Leq(Loss(new, old, rule), rule.allowed)
             /\ rule.bound # <<>> => Leq(Loss(new, rule.bound, rule), <<0, 1>>)
             /\ (RegressionCompare(q.baseline, q.candidate, q.rules).exit = 0
                   /\ Equal(rule.allowed, <<0, 1>>)) => Equal(new, old)

-----------------------------------------------------------------------------
(* Two runs of the workspace over the same ground truth *)

SomeListings == {<<>>, [d \in {1} |-> 1], [d \in {1} |-> 0], [d \in {1, 2} |-> d]}
SomeRetrieved == {<<>>, <<1>>, <<3, 1>>, <<3, 2>>}
RunQuestions ==
  [about : {"runs"}, ground : [1..2 -> SomeListings], k : 1..2,
   old : [1..2 -> SomeRetrieved], new : [1..2 -> SomeRetrieved] \cup [{1} -> SomeRetrieved]]

AnswerRuns(q) ==
  LET old == RunRetrieval(q.ground, q.old, q.k)
      new == RunRetrieval(q.ground, q.new, q.k)
  IN  [old |-> old, new |-> new, report |-> CompareMetrics(new.metrics, old.metrics, WorkspaceRules),
       transitions |-> Transitions(old.per_query, new.per_query)]

\* A candidate that the workspace's policy passes has improved as many queries as it has broken;
\* what failed in either run is what the transitions say.
RunsCompareFairly(q, a) ==
  LET count(t) == Cardinality({i \in DOMAIN q.ground : a.transitions[i] = t})
  IN  /\ a.report.passed => count("IMPROVED") >= count("REGRESSED")
      /\ a.old.failures = {i \in DOMAIN q.ground :
           a.transitions[i] \in {"IMPROVED", "PERSISTENT_FAILURE", "CHANGED_FAILURE"}}
      /\ a.new.failures = {i \in DOMAIN q.ground :
           a.transitions[i] \in {"REGRESSED", "PERSISTENT_FAILURE", "CHANGED_FAILURE"}}
      /\ \A i \in DOMAIN q.ground : DOMAIN q.ground[i] = {} => a.transitions[i] = "PERSISTENT_FAILURE"

-----------------------------------------------------------------------------
(* Files *)

QueryFiles(S) == BoundedSeq({Bad, Blank} \cup {<<q, s>> : q \in 1..2, s \in S}, 2)
EvaluateQuestions ==
  [about : {"evaluate"}, truth : QueryFiles({[d \in {1} |-> 1]}), k : {1},
   predictions : QueryFiles({<<1>>, <<2, 1>>})]

AnswerEvaluate(q) == RetrievalEvaluate(q.truth, q.predictions, q.k)

\* What is evaluated is every query of the ground truth, each judged by its own line alone.
EvaluatesFiles(q, a) ==
  a.exit = 0 =>
    /\ Cardinality(DOMAIN a.answer.per_query) = Len(Filled(q.truth))
    /\ \A i \in DOMAIN a.answer.per_query :
         (i \notin a.answer.failures) <=> (<<i, <<1>>>> \in Lines(q.predictions))

CaseQuestions ==
  [about : {"cases"},
   file : BoundedSeq({Bad, Blank} \cup [id : 1..2, question : 1..2, documents : {{}, {1}, {1, 2}}], 2)]
SameQuestion == {<<x, x>> : x \in 1..2}

\* A dataset is as valid in any other order, and valid only if each part of it is.
ValidatesFiles(q, a) ==
  /\ a = DatasetValidate(Reverse(q.file), {1}, SameQuestion)
  /\ a = 0 => \A n \in DOMAIN q.file : DatasetValidate(RemoveAt(q.file, n), {1}, SameQuestion) = 0

-----------------------------------------------------------------------------
(* MIRACL *)

Judgement == [query : 1..2, doc : 1..2, grade : -1..1]
MiraclQuestions ==
  [about : {"miracl"}, topics : {<<1>>, <<1, 2>>, <<1, 1>>, <<1, Bad>>},
   qrels : BoundedSeq(Judgement, 2) \cup {<<Blank>>},
   corpus : {<<1, 2>>, <<1, Blank, 2>>, <<1, 1>>, <<2>>}, best : 1..2, topK : 1..2]

AnswerMiracl(q) ==
  MiraclCommand(q.topics, q.qrels, q.corpus, [d \in 1..2 |-> IF d = 1 THEN {1} ELSE {1, 2}],
                [d \in 1..2 |-> IF d = q.best THEN 2 ELSE 1], q.topK)

\* A benchmark that ends well measured each topic once, over judgements that are all of topics
\* and passages it knows, and found no less at a larger cut.
MiraclIsWhole(q, a) ==
  a.exit = 0 =>
    /\ DOMAIN a.answer.per_query = Lines(q.topics) /\ DOMAIN a.answer.ranked = Lines(q.topics)
    /\ SumFunction(a.answer.counts) = Len(q.topics)
    /\ \A j \in Lines(q.qrels) : j.query \in Lines(q.topics) /\ j.doc \in Lines(q.corpus)
    /\ \A i \in DOMAIN a.answer.ranked : Range(a.answer.ranked[i]) \subseteq Lines(q.corpus)
    /\ \A k, l \in DOMAIN a.answer.metrics : k <= l =>
         Leq(a.answer.metrics[k].recall, a.answer.metrics[l].recall)

-----------------------------------------------------------------------------
(* RAGTruth *)

Span == {[start |-> 0, end |-> 1, matches |-> FALSE, implicit |-> TRUE],
         [start |-> 3, end |-> 1, matches |-> TRUE, implicit |-> FALSE],
         [start |-> -1, end |-> 1, matches |-> TRUE, implicit |-> FALSE]}
Response == [id : 1..2, source : 1..2, split : {"test", "train"}, quality : {"good", "poor"},
             spans : {{}} \cup {{s} : s \in Span}, length : {2}]
RagtruthQuestions ==
  [about : {"ragtruth"}, responses : BoundedSeq(Response, 2), split : {"any", "test"},
   filter : {{}, {"good", "poor"}}]

AnswerRagtruth(q) ==
  LET dataset == LoadRagtruth(<<1>>, q.responses, q.split)
  IN  IF dataset = ValueError THEN [error |-> TRUE]
      ELSE [error |-> FALSE, dataset |-> dataset,
            result |-> RagtruthBenchmark(dataset, q.filter, [id \in 1..2 |-> IF id = 1 THEN "H" ELSE "G"])]

\* The examples that are measured are those of the wanted split and quality, and an annotation
\* with offsets that do not fit is a failure in sight, whether its example is measured or not.
RagtruthIsWhole(q, a) ==
  ~a.error =>
    LET m      == a.result.report.matrix
        wanted == {r \in Lines(q.responses) : q.split \in {"any", r.split}}
        good   == {r \in wanted : r.quality = "good"}
        broken == {r \in wanted : \E s \in r.spans : s.end > 2 \/ s.end < s.start \/ ~s.matches}
    IN  /\ m.tp + m.tn + m.fp + m.fn = a.result.counts.included
        /\ a.result.counts.included + a.result.counts.excluded = Cardinality(wanted)
        /\ a.result.counts.included = Cardinality(IF q.filter = {} THEN good ELSE wanted)
        /\ a.result.failures >= m.fp + m.fn + Cardinality(broken)
=============================================================================
