---------------------------- MODULE DatasetRecords ----------------------------
(***************************************************************************)
(* The loaders and validators of the datasets (datasets/io.py,             *)
(* validation.py, miracl.py, ragtruth.py), the two benchmarks over them    *)
(* (benchmarks/miracl.py, ragtruth.py), and what the command line (cli.py) *)
(* makes of them: a command's exit code is 2 where it could not do its     *)
(* work, 1 where it did and the verdict is against the data.               *)
(*                                                                         *)
(* A file is a sequence of lines.  A line that cannot be read as what the  *)
(* loader expects is Bad, one without text Blank.                          *)
(***************************************************************************)
EXTENDS RetrievalScoring, PilotAnalysis

CONSTANTS Bad, Blank

ASSUME BlankAssumption == Blank \notin Int /\ Blank \notin Int \X Seq(Int)

Lines(file)  == {file[n] : n \in DOMAIN file}
Filled(file) == Picked(file, {n \in DOMAIN file : file[n] # Blank})
Distinct(s, key(_)) == \A m, n \in DOMAIN s : key(s[m]) = key(s[n]) => m = n

-----------------------------------------------------------------------------
(* Ground truth and predictions: one record a query, blank lines are skipped *)

\* _load_unique_query_records
LoadUniqueQueries(file) ==
  LET records == Filled(file)
  IN  IF Bad \in Lines(file) THEN ValueError
      ELSE IF ~Distinct(records, LAMBDA r : r[1]) THEN ValueError
      ELSE [q \in {r[1] : r \in Lines(records)} |-> (CHOOSE r \in Lines(records) : r[1] = q)[2]]

\* validate_rag_cases: a case is Bad or [id, question, documents]; near duplicates are cases
\* whose questions are near, as pairs, which is decided by a threshold on their similarity.
CaseIssues(cases, documents, near) ==
  LET parsed == Picked(cases, {n \in DOMAIN cases : cases[n] # Bad})
  IN  {<<"INVALID_FIELD", n>> : n \in {n \in DOMAIN cases : cases[n] = Bad}}
      \cup {<<"DUPLICATE_ID", n>> : n \in {n \in DOMAIN parsed :
              \E m \in 1..(n - 1) : parsed[m].id = parsed[n].id}}
      \cup {<<"UNKNOWN_DOCUMENT", n>> : n \in {n \in DOMAIN parsed :
              ~(parsed[n].documents \subseteq documents)}}
      \cup {<<"NEAR_DUPLICATE_QUESTION", pair[1], pair[2]>> : pair \in
              {pair \in (DOMAIN parsed) \X (DOMAIN parsed) :
                 pair[1] < pair[2] /\ <<parsed[pair[1]].question, parsed[pair[2]].question>> \in near}}

-----------------------------------------------------------------------------
(* MIRACL *)

\* Topics and judgements may not have blank lines, passages may.
LoadTopics(file) == IF Lines(file) \cap {Bad, Blank} # {} THEN ValueError ELSE file

LoadQrels(file) ==
  IF Lines(file) \cap {Bad, Blank} # {} THEN ValueError
  ELSE IF (\E j \in Lines(file) : j.grade < 0) \/ ~Distinct(file, LAMBDA j : <<j.query, j.doc>>)
    THEN ValueError
  ELSE [q \in {j.query : j \in Lines(file)} |->
          [d \in {j.doc : j \in {j \in Lines(file) : j.query = q}} |->
             (CHOOSE j \in Lines(file) : j.query = q /\ j.doc = d).grade]]

LoadCorpus(file) ==
  LET passages == Filled(file)
  IN  IF Bad \in Lines(file) THEN ValueError
      ELSE IF ~Distinct(passages, LAMBDA d : d) THEN ValueError ELSE Lines(passages)

\* validate_miracl_records; without a corpus the judged documents are not looked for.
SlipUnknown(documents, corpus) == {}
Unknown(documents, corpus) == documents \ corpus

MiraclIssues(topics, qrels, corpora) ==
  {<<"DUPLICATE_QUERY_ID", n>> : n \in {n \in DOMAIN topics :
     \E m \in 1..(n - 1) : topics[m] = topics[n]}}
  \cup {<<"UNKNOWN_QUERY_ID", q>> : q \in DOMAIN qrels \ Lines(topics)}
  \cup {<<"UNKNOWN_CORPUS_DOCUMENT_ID", d>> :
          d \in UNION {UNION {Unknown(DOMAIN qrels[q], corpus) : q \in DOMAIN qrels} :
                         corpus \in corpora}}

MetricKs(topK) == {k \in {1, 5, 10} : k <= topK} \cup {topK}

\* run_miracl_benchmark: a topic that nobody judged passes the validation, and its result is
\* looked for in vain after everything was evaluated.
MiraclBenchmark(topicsFile, qrelsFile, corpusFile, words, score, topK) ==
  LET topics == LoadTopics(topicsFile)
      qrels  == LoadQrels(qrelsFile)
      corpus == LoadCorpus(corpusFile)
  IN  IF topics = ValueError \/ qrels = ValueError \/ corpus = ValueError THEN ValueError
      ELSE IF MiraclIssues(topics, qrels, {corpus}) # {} THEN ValueError
      ELSE IF Lines(topics) \ DOMAIN qrels # {} THEN KeyError
      ELSE LET ranked == [q \in Lines(topics) |->
                            Retrieve({q}, [d \in corpus |-> words[d]], score, topK)]
               at == [k \in MetricKs(topK) |-> EvaluateRetrieval(qrels, ranked, k)]
           IN  [ranked |-> ranked, metrics |-> [k \in MetricKs(topK) |-> at[k].metrics],
                per_query |-> at[topK].per_query,
                counts |-> [c \in {"PASS", "RETRIEVAL_MISS", "SHOULD_ABSTAIN"} |->
                  Cardinality({q \in DOMAIN qrels : at[topK].per_query[q].category = c})]]

-----------------------------------------------------------------------------
(* RAGTruth *)

\* _normalize_span, of a response of some length: offsets that do not fit are kept and noted,
\* negative ones are refused by the record.
SpanIssues(span, length) ==
  {code \in {"END_BEFORE_START", "END_OUT_OF_RANGE", "TEXT_OFFSET_MISMATCH", "START_OUT_OF_RANGE"} :
     CASE code = "END_BEFORE_START"     -> span.end < span.start
       [] code = "END_OUT_OF_RANGE"     -> span.end > length
       [] code = "TEXT_OFFSET_MISMATCH" ->
            span.start <= span.end /\ span.end <= length /\ ~span.matches
       [] code = "START_OUT_OF_RANGE"   -> span.start > length}

\* load_ragtruth_dataset: duplicates are looked for before the split, sources after it.
LoadRagtruth(sources, responses, split) ==
  LET wanted == {r \in Lines(responses) : split \in {"any", r.split}}
  IN  IF ~Distinct(sources, LAMBDA s : s) \/ ~Distinct(responses, LAMBDA r : r.id) THEN ValueError
      ELSE IF \E r \in wanted : \/ r.source \notin Lines(sources)
                                \/ \E span \in r.spans : span.start < 0 \/ span.end < 0
        THEN ValueError
      ELSE [examples |-> wanted,
            issues |-> UNION {UNION {{<<r.id, span, code>> : code \in SpanIssues(span, r.length)} :
                                       span \in r.spans} : r \in wanted}]

\* run_ragtruth_benchmark: a filter that names no quality is the one for good examples; the
\* issues of the whole dataset are failures, those of the excluded examples too.
SlipQualities(filter) == filter
Qualities(filter) == IF filter = {} THEN {"good"} ELSE filter

RagtruthBenchmark(dataset, filter, said) ==
  LET included == {e \in dataset.examples : e.quality \in Qualities(filter)}
      truth    == [id \in {e.id : e \in included} |->
                     HumanLabel({span.implicit : span \in
                                   (CHOOSE e \in included : e.id = id).spans}, "strict")]
      report   == Report(truth, SetToSeq({<<id, said[id]>> : id \in DOMAIN truth}))
  IN  [counts |-> [total |-> Cardinality(dataset.examples), included |-> Cardinality(included),
                   excluded |-> Cardinality(dataset.examples \ included)],
       report |-> report,
       failures |-> Cardinality(report.fp) + Cardinality(report.fn) + Cardinality(dataset.issues)]

-----------------------------------------------------------------------------
(* The commands *)

Exit(code, answer) == [exit |-> code, answer |-> answer]

\* evalops dataset validate: a file that cannot be read is as invalid as one that has issues.
DatasetValidate(file, documents, near) ==
  IF Bad \in Lines(file) THEN 1
  ELSE IF CaseIssues(Filled(file), documents, near) = {} THEN 0 ELSE 1

\* evalops retrieval evaluate
RetrievalEvaluate(truthFile, predictionsFile, k) ==
  LET ground      == LoadUniqueQueries(truthFile)
      predictions == LoadUniqueQueries(predictionsFile)
  IN  IF ground = ValueError \/ predictions = ValueError THEN Exit(2, ValueError)
      ELSE Exit(0, RunRetrieval(ground, predictions, k))

\* evalops benchmark miracl: the error that nobody handles ends the process with 1.
MiraclCommand(topicsFile, qrelsFile, corpusFile, words, score, topK) ==
  LET result == MiraclBenchmark(topicsFile, qrelsFile, corpusFile, words, score, topK)
  IN  CASE result = ValueError -> Exit(2, ValueError)
        [] result = KeyError   -> Exit(1, KeyError)
        [] OTHER               -> Exit(0, result)

\* evalops regression compare
RegressionCompare(candidate, baseline, rules) ==
  LET report == CompareMetrics(candidate, baseline, rules)
  IN  IF report = ValueError THEN Exit(2, ValueError)
      ELSE Exit(IF report.passed THEN 0 ELSE 1, report)
=============================================================================
