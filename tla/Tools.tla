--------------------------------- MODULE Tools ---------------------------------
(***************************************************************************)
(* The command line and the scripts: one tool at work, over files that no  *)
(* other tool touches meanwhile.  A behaviour is a question put to one of  *)
(* the measuring tools and its answer, or the sessions of the preparation  *)
(* of a dataset, of the remote pilot, or of the local experiments.         *)
(***************************************************************************)
EXTENDS JudgeCall, Measurements, RetrievalQuestions, Preparation, PilotLedger, LocalPilots

VARIABLES
  tool,       \* the tool at work
  question,
  answer

vars == <<tool, question, answer, prepVars, ledgerVars, localVars>>

Unasked == [about |-> "nothing"]

Init ==
  /\ tool \in {"questions", "preparation", "pilot", "local"}
  /\ question = Unasked
  /\ answer = Unasked
  /\ PrepInit(IF tool = "preparation" THEN {"miracl", "ragtruth"} ELSE {"miracl"})
  /\ LedgerInit
  /\ LocalInit(IF tool = "local" THEN {"v1", "v2", "v3"} ELSE {"v1"})

Answers(Questions, Answer(_)) ==
  /\ tool = "questions"
  /\ question = Unasked
  /\ question' \in Questions
  /\ answer' = Answer(question')
  /\ UNCHANGED <<tool, prepVars, ledgerVars, localVars>>

AskJudge == \E adapter \in Adapters : Answers(JudgeQuestionsOf(adapter), AnswerJudge)

\* The classifications and what is made of them.
AskMeasures ==
  \/ Answers(PairQuestions, AnswerPair)
  \/ Answers(DiscordantQuestions, LAMBDA q : McNemar(q.b, q.c))
  \/ Answers(ThresholdQuestions, AnswerThresholds)
  \/ Answers(BatchQuestions, AnswerBatches)
  \/ Answers(ProviderQuestions, AnswerProviders)
  \/ Answers(ThreeQuestions, LAMBDA q : ThreeEvaluators(q.truth, q.said))
  \/ Answers(ManyQuestions, LAMBDA q : ManyEvaluators(q.truth, q.said))
  \/ Answers(RepeatQuestions, LAMBDA q : Consistency(q.records))
  \/ Answers(RankQuestions, AnswerRanks)
  \/ Answers(CalibrationQuestions, AnswerCalibration)
  \/ Answers(LatencyQuestions, LAMBDA q : LatencySummary(q.values))
  \/ Answers(BootstrapQuestions, AnswerBootstrap)
  \/ Answers(HeuristicQuestions, LAMBDA q : HeuristicLabel(q.response, q.context, q.threshold))
  \/ Answers(ErrorQuestions, AnswerErrors)
  \/ Answers(ReadinessQuestions, LAMBDA q : Readiness(q.selected, q.results))
  \/ Answers(FailureQuestions, LAMBDA q : FailureBreakdown(q.outcomes, q.length))

\* What a seed selects is a choice.
AskSamples ==
  /\ tool = "questions"
  /\ question = Unasked
  /\ \E examples \in Populations : \E sample \in SampleAnswers(examples) :
       question' = [about |-> "samples", examples |-> examples] /\ answer' = sample
  /\ UNCHANGED <<tool, prepVars, ledgerVars, localVars>>

AskRetrieval ==
  \/ Answers(RankedQuestions, AnswerRanked)
  \/ Answers(SearchQuestions, AnswerSearch)
  \/ Answers(RegressionQuestions, AnswerRegression)
  \/ Answers(RunQuestions, AnswerRuns)
  \/ Answers(EvaluateQuestions, AnswerEvaluate)
  \/ Answers(MiraclQuestions, AnswerMiracl)

AskDatasets ==
  \/ Answers(CaseQuestions, LAMBDA q : DatasetValidate(q.file, {1}, SameQuestion))
  \/ Answers(RagtruthQuestions, AnswerRagtruth)

PrepareData ==
  tool = "preparation" /\ Prepare /\ UNCHANGED <<tool, question, answer, ledgerVars, localVars>>

RunPilot ==
  tool = "pilot" /\ Pilot /\ UNCHANGED <<tool, question, answer, prepVars, localVars>>

RunLocal ==
  tool = "local" /\ LocalNext /\ UNCHANGED <<tool, question, answer, prepVars, ledgerVars>>

Next ==
  \/ AskJudge \/ AskMeasures \/ AskSamples \/ AskRetrieval \/ AskDatasets
  \/ PrepareData \/ RunPilot \/ RunLocal

Spec == Init /\ [][Next]_vars

-----------------------------------------------------------------------------
\* A judge's trace tells a prediction from every kind of failure, and each failure from the
\* others, whatever comes over the wire (evaluators/judge/, and the diagnostics of the scripts).
JudgingIsConclusive == question.about = "judge" => JudgedConclusively(question, answer)

\* Every count, slice, rate and category that the analyses report is of the same examples, and
\* agrees with what the others say of them (evaluators/hallucination/, pilot/).
ClassificationsAddUp ==
  CASE question.about = "pair"        -> PairAddsUp(question, answer)
    [] question.about = "discordant"  -> McNemarHolds(question)
    [] question.about = "thresholds"  -> ThresholdsHold(question, answer)
    [] question.about = "batches"     -> BatchesHold(question, answer)
    [] question.about = "providers"   -> ProvidersHold(question, answer)
    [] question.about = "three"       -> EvaluatorsAddUp(question, answer)
    [] question.about = "many"        -> ManyAddUp(question, answer)
    [] question.about = "repeats"     -> RepeatsAddUp(question, answer)
    [] question.about = "ranks"       -> RanksAddUp(question, answer)
    [] question.about = "calibration" -> CalibrationHolds(question, answer)
    [] question.about = "latencies"   -> LatenciesHold(question, answer)
    [] question.about = "bootstrap"   -> BootstrapHolds(question, answer)
    [] question.about = "heuristic"   -> HeuristicHolds(question, answer)
    [] question.about = "errors"      -> ErrorsAddUp(question, answer)
    [] question.about = "readiness"   -> ReadinessHolds(question, answer)
    [] question.about = "failures"    -> FailuresAddUp(question, answer)
    [] question.about = "samples"     -> SamplesHold(question.examples, answer)
    [] OTHER -> TRUE

\* Retrieval is scored, compared and reported so that a better ranking never looks worse, a
\* missing or infinite number never passes, and each record of a dataset is measured, refused or
\* in sight as an issue (evaluators/retrieval/, regression/, retrieval/, datasets/, benchmarks/).
RetrievalIsScoredFairly ==
  CASE question.about = "ranked"     -> RankedFairly(question, answer)
    [] question.about = "search"     -> SearchedFairly(question, answer)
    [] question.about = "regression" -> ComparesClosed(question, answer)
    [] question.about = "runs"       -> RunsCompareFairly(question, answer)
    [] question.about = "evaluate"   -> EvaluatesFiles(question, answer)
    [] question.about = "miracl"     -> MiraclIsWhole(question, answer)
    [] question.about = "cases"      -> ValidatesFiles(question, answer)
    [] question.about = "ragtruth"   -> RagtruthIsWhole(question, answer)
    [] OTHER -> TRUE
=============================================================================
