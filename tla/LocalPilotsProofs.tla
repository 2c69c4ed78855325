--------------------------- MODULE LocalPilotsProofs ---------------------------
(***************************************************************************)
(* What the local experiments report and authorize is sound, for any       *)
(* number of examples, retries, sessions and changes to the checkout, and  *)
(* wherever a session dies.                                                *)
(***************************************************************************)
EXTENDS LocalPilots, FiniteSetTheorems, WellFoundedInduction, TLAPS

-----------------------------------------------------------------------------
(* The invariant *)

Record == [kind : {"NONE", "SUCCESS", "FAILED"}, digest : Digests, contract : Drafts]
Stores == [StateFiles -> [Population -> Record]]
Worlds == [head : Nat, contract : Drafts, clean : BOOLEAN, intact : BOOLEAN, served : Digests]

ReportRecord ==
  [written : BOOLEAN, complete : BOOLEAN, digest : Digests, contract : Drafts,
   consistency : {"NOT_RUN", "PRIMARY_INCOMPLETE", "INCOMPLETE", "COMPLETE"}, requests : Nat]

LocalTypes ==
  /\ experiment \in {"v1", "v2", "v3"}
  /\ world \in Worlds
  /\ store \in Stores
  /\ judged \in [Population -> 0..3]
  /\ pc \in {"down", "ask", "save", "stopped"}
  /\ mode \in {"NONE", "run", "consistency", "full"}
  /\ failures \in Nat /\ terminal \subseteq FullIds
  /\ requests \in Nat
  /\ preflight.digest \in Digests /\ report \in ReportRecord

\* A session fills the files of its mode; only the full run is stopped.
SessionFits ==
  /\ mode = "NONE" <=> pc = "down"
  /\ file = CASE mode = "full" -> "full" [] mode = "consistency" -> file [] OTHER -> "primary"
  /\ mode = "consistency" => file \in {"first", "second"}
  /\ mode = "full" => experiment = "v3"
  /\ pc = "stopped" => mode = "full"

\* The example at hand has no prediction yet.
CursorIsOpen ==
  /\ pc \in {"ask", "save"} /\ id # Done => id \in IdsOf(file) \ Predicted(file)
  /\ pc = "save" => id # Done

\* A session of the second and third experiment and of the full run works where it was let in.
Admitted ==
  experiment # "v1" /\ pc # "down" =>
    /\ world.clean /\ world.intact /\ world.served = Frozen
    /\ mode \in {"run", "consistency"} => world.head \in vetted

PreflightTells == preflight.status = "PASS" => preflight.commit \in vetted

\* Their predictions are of the frozen weights.
AnswersAreFrozen ==
  experiment # "v1" =>
    /\ report.digest = Frozen
    /\ \A f \in StateFiles, i \in Population :
         store[f][i].kind = "SUCCESS" => store[f][i].digest = Frozen

\* A full session adds to predictions of its own contract.
OneContract ==
  mode = "full" => \A i \in Predicted("full") : store["full"][i].contract = world.contract

\* Each prediction that a file has was once counted.
Times(f, i) == IF store[f][i].kind = "SUCCESS" THEN 1 ELSE 0
SumIsCounted(i) ==
  \/ judged[i] = 3
  \/ judged[i] >= Times("primary", i) + Times("first", i) + Times("second", i) + Times("full", i)
EveryAnswerCounts == \A i \in Population : SumIsCounted(i)

\* What is reported complete stays so.
ReportKnows ==
  /\ report.complete => Predicted("primary") = Ids
  /\ report.consistency = "COMPLETE" => \A i \in Sample : judged[i] = 3
  /\ fullReport = "COMPLETE" =>
       /\ Predicted("full") = FullIds
       /\ \E c \in Drafts : \A i \in FullIds : store["full"][i].contract = c

FullKnows == mode = "full" => report.complete /\ report.consistency = "COMPLETE"

\* A failed answer has its entry before it has its record.
FailureIsDiagnosed ==
  experiment # "v1" /\ mode # "full" /\ pc = "save" /\ verdict # "SUCCESS" => id \in diagnosed

\* A full session that is not stopped has not failed too often.
FullGoesOn ==
  mode = "full" =>
    /\ failures <= FailureLimit
    /\ pc \in {"ask", "save"} => failures < FailureLimit
    /\ pc = "ask" /\ Cardinality(terminal) >= MinAttempted =>
         Cardinality(Predicted("full")) * 100 >= MinValid * Cardinality(terminal)

SessionKnows ==
  /\ SessionFits /\ CursorIsOpen /\ Admitted
  /\ FullKnows /\ OneContract /\ FullGoesOn /\ FailureIsDiagnosed

FilesTell ==
  /\ PreflightTells /\ AnswersAreFrozen /\ EveryAnswerCounts /\ ReportKnows
  /\ DiagnosticsCoverFailures
  /\ experiment # "v1" => trusted

LocalInvariant == LocalTypes /\ SessionKnows /\ FilesTell

-----------------------------------------------------------------------------
(* The next example *)

LEMMA IdsOfFiles ==
  /\ \A f \in StateFiles : IdsOf(f) \subseteq Population /\ IdsOf(f) \subseteq Nat
  /\ IdsOf("primary") = Ids /\ IdsOf("first") = Sample /\ IdsOf("second") = Sample
  /\ IdsOf("full") = FullIds
BY LocalAssumption DEF IdsOf, StateFiles, Population

LEMMA HasSmallest ==
  ASSUME NEW T, T \subseteq Nat, T # {}
  PROVE  \E m \in T : \A n \in T : m <= n
<1>1. PICK m \in T : \A n \in T : ~ (<<n, m>> \in OpToRel(<, Nat))
  BY WFMin, NatLessThanWellFounded, Zenon
<1>2. \A n \in T : ~ (n < m)
  BY <1>1 DEF OpToRel
<1>3. QED
  BY <1>2

\* The examples come in the order of the manifest, and none with a prediction.
LEMMA NextIdTells ==
  ASSUME NEW f \in StateFiles, NEW after \in Nat, NEW predicted,
         NextId(f, after, predicted) # Done
  PROVE  /\ NextId(f, after, predicted) \in IdsOf(f) \ predicted
         /\ NextId(f, after, predicted) > after
<1> DEFINE left == {i \in IdsOf(f) \ predicted : i > after}
<1>1. left \subseteq Nat
  BY IdsOfFiles
<1>2. left # {} /\ NextId(f, after, predicted) = CHOOSE i \in left : \A j \in left : i <= j
  BY DEF NextId
<1>3. (CHOOSE i \in left : \A j \in left : i <= j) \in left
  BY <1>1, <1>2, HasSmallest
<1>4. QED
  BY <1>2, <1>3

-----------------------------------------------------------------------------
(* Sessions begin and end *)

FilesStay == UNCHANGED <<experiment, artifacts, store, diagnosed, history>>

LEMMA FilesStillTell ==
  ASSUME FilesTell, FilesStay
  PROVE  FilesTell'
<1>1. \A f \in StateFiles : Predicted(f)' = Predicted(f)
  BY DEF FilesStay, Predicted, IdsOf
<1>2. PreflightTells' /\ AnswersAreFrozen' /\ ReportKnows'
  BY <1>1 DEF FilesTell, FilesStay, artifacts, history, PreflightTells, AnswersAreFrozen,
              ReportKnows, StateFiles
<1>3. EveryAnswerCounts' /\ DiagnosticsCoverFailures'
  BY DEF FilesTell, FilesStay, history, EveryAnswerCounts, SumIsCounted, Times,
         DiagnosticsCoverFailures
<1>4. QED
  BY <1>2, <1>3 DEF FilesTell, FilesStay, history

\* Nothing is known of no session.
LEMMA EndedKnows ==
  ASSUME Ends
  PROVE  /\ SessionKnows'
         /\ pc' = "down" /\ mode' = "NONE" /\ failures' = 0 /\ terminal' = {} /\ requests' = 0
<1>1. /\ pc' = "down" /\ mode' = "NONE" /\ file' = "primary" /\ id' = Done
      /\ failures' = 0 /\ terminal' = {} /\ requests' = 0
  BY DEF Ends
<1>2. SessionFits' /\ CursorIsOpen'
  BY <1>1 DEF SessionFits, CursorIsOpen
<1>3. Admitted' /\ FullKnows' /\ OneContract' /\ FullGoesOn' /\ FailureIsDiagnosed'
  BY <1>1 DEF Admitted, FullKnows, OneContract, FullGoesOn, FailureIsDiagnosed
<1>4. QED
  BY <1>1, <1>2, <1>3 DEF SessionKnows

\* A file is begun: what is at hand then has no prediction.
LEMMA FilledIsOpen ==
  ASSUME NEW f \in StateFiles, NEW predicted, Fills(f, predicted), Predicted(f)' \subseteq predicted,
         pc' = "ask"
  PROVE  CursorIsOpen' /\ file' = f
<1>1. file' = f /\ id' = NextId(f, 0, predicted)
  BY DEF Fills
<1>2. id' # Done => id' \in IdsOf(f) \ predicted
  BY <1>1, NextIdTells
<1>3. IdsOf(f)' = IdsOf(f)
  BY DEF IdsOf
<1>4. id' # Done => id' \in IdsOf(file)' \ Predicted(file)'
  BY <1>1, <1>2, <1>3
<1>5. QED
  BY <1>1, <1>4 DEF CursorIsOpen

LEMMA NotFull ==
  ASSUME mode' # "full"
  PROVE  FullKnows' /\ OneContract' /\ FullGoesOn'
BY DEF FullKnows, OneContract, FullGoesOn

\* A run or the repeats begin where the experiment lets them in.
LEMMA BegunKnows ==
  ASSUME LocalInvariant, NEW m \in {"run", "consistency"}, NEW f \in StateFiles, NEW predicted,
         f = IF m = "run" THEN "primary" ELSE "first",
         Begins(m), Fills(f, predicted), Predicted(f)' \subseteq predicted, pc' = "ask",
         experiment # "v1" =>
           /\ world.clean /\ world.intact /\ world.served = Frozen
           /\ preflight.status = "PASS" /\ preflight.commit = world.head
  PROVE  /\ SessionKnows'
         /\ pc' = "ask" /\ mode' = m /\ failures' = 0 /\ terminal' = {} /\ requests' = 0
         /\ UNCHANGED <<experiment, world, history>>
<1>1. /\ mode' = m /\ failures' = 0 /\ terminal' = {} /\ requests' = 0
      /\ UNCHANGED <<experiment, world, history>>
  BY DEF Begins
<1>2. CursorIsOpen' /\ file' = f
  BY FilledIsOpen
<1>3. SessionFits'
  BY <1>1, <1>2 DEF SessionFits
<1>4. Admitted'
  BY <1>1 DEF Admitted, history, LocalInvariant, FilesTell, PreflightTells
<1>5. FailureIsDiagnosed' /\ FullKnows' /\ OneContract' /\ FullGoesOn'
  BY <1>1, NotFull DEF FailureIsDiagnosed
<1>6. QED
  BY <1>1, <1>2, <1>3, <1>4, <1>5 DEF SessionKnows

\* The types of what a session keeps in memory, and of the rest.
LEMMA TypesKept ==
  ASSUME LocalInvariant, UNCHANGED <<experiment, world, preflight, report, store, judged>>,
         pc' \in {"down", "ask", "save", "stopped"},
         mode' \in {"NONE", "run", "consistency", "full"},
         failures' \in Nat, terminal' \subseteq FullIds, requests' \in Nat
  PROVE  LocalTypes'
BY DEF LocalInvariant, LocalTypes

\* RunV1, RunV2, RunV3, ConsistencyV1, ConsistencyV2: the files are as they were.
LEMMA BeginKeeps ==
  ASSUME LocalInvariant, RunV1 \/ RunV2 \/ RunV3 \/ ConsistencyV1 \/ ConsistencyV2
  PROVE  LocalInvariant'
<1>1. PICK m \in {"run", "consistency"}, f \in StateFiles :
        /\ f = IF m = "run" THEN "primary" ELSE "first"
        /\ Begins(m) /\ Fills(f, Predicted(f)) /\ pc' = "ask"
        /\ UNCHANGED <<artifacts, store, diagnosed>>
        /\ experiment # "v1" =>
             /\ world.clean /\ world.intact /\ world.served = Frozen
             /\ preflight.status = "PASS" /\ preflight.commit = world.head
  BY DEF RunV1, RunV2, RunV3, ConsistencyV1, ConsistencyV2, StateFiles,
         AdmitsV2, LoadsV2, VerifiesV2, AdmitsV3, LoadsV3, VerifiesV3
<1>2. Predicted(f)' \subseteq Predicted(f)
  BY <1>1 DEF Predicted, IdsOf
<1>3. /\ SessionKnows'
      /\ pc' = "ask" /\ mode' = m /\ failures' = 0 /\ terminal' = {} /\ requests' = 0
      /\ UNCHANGED <<experiment, world, history>>
  BY <1>1, <1>2, BegunKnows
<1>4. LocalTypes'
  BY <1>1, <1>3, TypesKept DEF artifacts, history
<1>5. FilesTell'
  BY <1>1, <1>3, FilesStillTell DEF LocalInvariant, FilesStay
<1>6. QED
  BY <1>3, <1>4, <1>5 DEF LocalInvariant

\* A state file of a repeat is taken away.
LEMMA UnlinkedTell ==
  ASSUME LocalTypes, FilesTell, NEW f \in {"first", "second"}, store' = Unlinked(f),
         UNCHANGED <<experiment, artifacts, diagnosed, history>>
  PROVE  FilesTell' /\ store' \in Stores /\ Predicted(f)' = {}
<1>1. /\ store'[f] = [i \in Population |-> NoRecord]
      /\ \A g \in StateFiles \ {f} : store'[g] = store[g]
      /\ store' \in Stores
  BY DEF LocalTypes, Unlinked, Stores, StateFiles, Record, NoRecord, Digests, Drafts, Frozen
<1>2. \A i \in Population : store'[f][i].kind = "NONE"
  BY <1>1 DEF NoRecord
<1>3. /\ Predicted("primary")' = Predicted("primary") /\ Predicted("full")' = Predicted("full")
      /\ Predicted(f)' = {}
  BY <1>1, <1>2, IdsOfFiles DEF Predicted, IdsOf, StateFiles
<1>4. PreflightTells' /\ AnswersAreFrozen' /\ DiagnosticsCoverFailures'
  BY <1>1, <1>2 DEF FilesTell, artifacts, history, PreflightTells, AnswersAreFrozen,
                    DiagnosticsCoverFailures, StateFiles
<1>5. ReportKnows'
  BY <1>1, <1>3 DEF FilesTell, artifacts, history, ReportKnows, StateFiles
<1>6. EveryAnswerCounts'
  <2> SUFFICES ASSUME NEW i \in Population
               PROVE  SumIsCounted(i)'
    BY DEF EveryAnswerCounts
  <2>1. SumIsCounted(i) /\ judged'[i] = judged[i] /\ judged[i] \in 0..3
    BY DEF FilesTell, EveryAnswerCounts, history, LocalTypes
  <2>2. /\ \A g \in StateFiles \ {f} : Times(g, i)' = Times(g, i)
        /\ Times(f, i)' = 0
        /\ \A g \in StateFiles : Times(g, i) \in {0, 1}
    BY <1>1, <1>2 DEF Times
  <2>3. CASE f = "first"
    BY <2>1, <2>2, <2>3 DEF SumIsCounted, StateFiles
  <2>4. CASE f = "second"
    BY <2>1, <2>2, <2>4 DEF SumIsCounted, StateFiles
  <2>5. QED
    BY <2>3, <2>4
<1>7. QED
  BY <1>1, <1>3, <1>4, <1>5, <1>6 DEF FilesTell, history

LEMMA ConsistencyV3Keeps ==
  ASSUME LocalInvariant, ConsistencyV3
  PROVE  LocalInvariant'
<1>1. /\ Begins("consistency") /\ Fills("first", {}) /\ pc' = "ask"
      /\ store' = Unlinked("first") /\ UNCHANGED <<artifacts, diagnosed>>
      /\ world.clean /\ world.intact /\ world.served = Frozen
      /\ preflight.status = "PASS" /\ preflight.commit = world.head
  BY DEF ConsistencyV3, AdmitsV3, LoadsV3, VerifiesV3
<1>2. UNCHANGED <<experiment, world, history>>
  BY <1>1 DEF Begins
<1>3. FilesTell' /\ store' \in Stores /\ Predicted("first")' = {}
  BY <1>1, <1>2, UnlinkedTell DEF LocalInvariant
<1>4. /\ SessionKnows'
      /\ pc' = "ask" /\ mode' = "consistency" /\ failures' = 0 /\ terminal' = {}
      /\ requests' = 0
  BY <1>1, <1>3, BegunKnows DEF StateFiles
<1>5. LocalTypes'
  BY <1>1, <1>2, <1>3, <1>4 DEF LocalInvariant, LocalTypes, artifacts, history
<1>6. QED
  BY <1>3, <1>4, <1>5 DEF LocalInvariant

LEMMA RunFullKeeps ==
  ASSUME LocalInvariant, RunFull
  PROVE  LocalInvariant'
<1>1. /\ Begins("full") /\ Fills("full", Predicted("full")) /\ pc' = "ask"
      /\ UNCHANGED <<artifacts, store, diagnosed>>
      /\ experiment = "v3" /\ world.clean /\ world.intact /\ world.served = Frozen
      /\ report.complete /\ report.consistency = "COMPLETE"
      /\ \A i \in Predicted("full") : store["full"][i].contract = world.contract
  BY DEF RunFull, IntactFull, Authorized, VerifiesFull, ExistingHolds
<1>2. /\ mode' = "full" /\ failures' = 0 /\ terminal' = {} /\ requests' = 0
      /\ UNCHANGED <<experiment, world, history>>
  BY <1>1 DEF Begins
<1>3. \A f \in StateFiles : Predicted(f)' = Predicted(f)
  BY <1>1 DEF Predicted, IdsOf
<1>4. CursorIsOpen' /\ file' = "full"
  BY <1>1, <1>3, FilledIsOpen DEF StateFiles
<1>5. SessionFits' /\ Admitted' /\ FullKnows' /\ OneContract' /\ FailureIsDiagnosed'
  BY <1>1, <1>2, <1>3, <1>4 DEF SessionFits, Admitted, FullKnows, OneContract,
                                FailureIsDiagnosed, artifacts, StateFiles
<1>6. FullGoesOn'
  <2>1. Cardinality(terminal') = 0
    BY <1>2, FS_EmptySet
  <2>2. Cardinality(Predicted("full")') \in Nat
    <3>1. Predicted("full")' \subseteq FullIds
      BY DEF Predicted, IdsOf
    <3>2. QED
      BY <3>1, FS_Subset, FS_CardinalityType, LocalAssumption
  <2>3. failures' < FailureLimit /\ failures' <= FailureLimit /\ MinValid \in Nat
    BY <1>2, LocalAssumption
  <2>4. QED
    BY <2>1, <2>2, <2>3 DEF FullGoesOn
<1>7. LocalTypes'
  BY <1>1, <1>2, TypesKept DEF artifacts, history
<1>8. FilesTell'
  BY <1>1, <1>2, FilesStillTell DEF LocalInvariant, FilesStay
<1>9. QED
  BY <1>4, <1>5, <1>6, <1>7, <1>8 DEF LocalInvariant, SessionKnows

\* The other repeat is begun.
LEMMA RepeatKeeps ==
  ASSUME LocalInvariant, RepeatV1 \/ RepeatV2 \/ RepeatV3
  PROVE  LocalInvariant'
<1>1. PICK predicted :
        /\ pc = "ask" /\ file = "first" /\ Fills("second", predicted)
        /\ \/ predicted = Predicted("second") /\ store' = store
           \/ predicted = {} /\ store' = Unlinked("second")
        /\ UNCHANGED <<experiment, world, artifacts, diagnosed, pc, mode, verdict, requests,
                       began, terminal, failures, history, bounds>>
  BY DEF RepeatV1, RepeatV2, RepeatV3, FileIsFilled
<1>2. mode = "consistency"
  BY <1>1 DEF LocalInvariant, LocalTypes, SessionKnows, SessionFits
<1>3. FilesTell' /\ store' \in Stores /\ Predicted("second")' \subseteq predicted
  <2>1. CASE predicted = Predicted("second") /\ store' = store
    <3>1. FilesTell' /\ Predicted("second")' = Predicted("second")
      BY <1>1, <2>1, FilesStillTell DEF LocalInvariant, FilesStay, Predicted, IdsOf
    <3>2. QED
      BY <2>1, <3>1 DEF LocalInvariant, LocalTypes
  <2>2. CASE predicted = {} /\ store' = Unlinked("second")
    BY <1>1, <2>2, UnlinkedTell DEF LocalInvariant
  <2>3. QED
    BY <1>1, <2>1, <2>2
<1>4. CursorIsOpen' /\ file' = "second"
  BY <1>1, <1>3, FilledIsOpen DEF StateFiles
<1>5. SessionFits' /\ Admitted' /\ FailureIsDiagnosed'
  BY <1>1, <1>2, <1>4 DEF LocalInvariant, SessionKnows, SessionFits, Admitted,
                          FailureIsDiagnosed, history
<1>6. FullKnows' /\ OneContract' /\ FullGoesOn'
  BY <1>1, <1>2, NotFull
<1>7. LocalTypes'
  BY <1>1, <1>3 DEF LocalInvariant, LocalTypes, artifacts, history
<1>8. QED
  BY <1>3, <1>4, <1>5, <1>6, <1>7 DEF LocalInvariant, SessionKnows

-----------------------------------------------------------------------------
(* The judge's answers *)

\* The scripts of the second and third experiment diagnose every answer without a prediction.
LEMMA AnswersAreDiagnosed ==
  ASSUME LocalInvariant, AskV1 \/ AskV2 \/ AskV3 \/ AskFull
  PROVE  \E kind \in Kinds, diagnoses \in BOOLEAN, allowed \in {0, 1} :
           /\ JudgeAnswers(kind, diagnoses, allowed)
           /\ experiment # "v1" /\ mode # "full" /\ kind # "SUCCESS" => diagnoses
<1>1. CASE AskV1
  <2>1. experiment = "v1"
    BY <1>1 DEF AskV1
  <2>2. PICK strict \in Kinds, plain \in Kinds : JudgeAnswers(EvaluationV1(strict, plain), FALSE, 0)
    BY <1>1 DEF AskV1
  <2>3. EvaluationV1(strict, plain) \in Kinds
    BY DEF EvaluationV1
  <2>4. QED
    BY <2>1, <2>2, <2>3
<1>2. CASE AskV2 \/ AskV3
  <2>1. PICK kind \in Kinds : JudgeAnswers(kind, kind # "SUCCESS", 1)
    BY <1>2 DEF AskV2, AskV3, DiagnosesV2, DiagnosesV3
  <2>2. (kind # "SUCCESS") \in BOOLEAN
    OBVIOUS
  <2>3. QED
    BY <2>1, <2>2
<1>3. CASE AskFull
  BY <1>3 DEF AskFull
<1>4. QED
  BY <1>1, <1>2, <1>3

LEMMA AskKeeps ==
  ASSUME LocalInvariant, AskV1 \/ AskV2 \/ AskV3 \/ AskFull
  PROVE  LocalInvariant'
<1>1. PICK kind \in Kinds, diagnoses \in BOOLEAN, allowed \in {0, 1} :
        /\ JudgeAnswers(kind, diagnoses, allowed)
        /\ experiment # "v1" /\ mode # "full" /\ kind # "SUCCESS" => diagnoses
  BY AnswersAreDiagnosed
<1>2. /\ pc = "ask" /\ id # Done /\ pc' \in {"ask", "save"} /\ verdict' = kind
      /\ diagnosed' = IF diagnoses THEN diagnosed \cup {id} ELSE diagnosed
      /\ requests' = IF mode = "consistency" THEN requests + 1 ELSE requests
      /\ UNCHANGED <<experiment, world, artifacts, store, mode, file, id, terminal, failures,
                     history>>
  BY <1>1 DEF JudgeAnswers, Asking
<1>3. \A f \in StateFiles : Predicted(f)' = Predicted(f)
  BY <1>2 DEF Predicted, IdsOf
<1>4. SessionFits' /\ CursorIsOpen' /\ Admitted' /\ FullKnows' /\ OneContract'
  <2>1. SessionFits' /\ Admitted' /\ FullKnows'
    BY <1>2 DEF LocalInvariant, SessionKnows, SessionFits, Admitted, FullKnows, artifacts, history
  <2>2. CursorIsOpen'
    <3>1. id \in IdsOf(file) \ Predicted(file) /\ file \in StateFiles
      BY <1>2 DEF LocalInvariant, SessionKnows, CursorIsOpen, SessionFits, StateFiles, LocalTypes
    <3>2. id' # Done /\ id' \in IdsOf(file)' \ Predicted(file)'
      BY <1>2, <1>3, <3>1 DEF IdsOf
    <3>3. QED
      BY <3>2 DEF CursorIsOpen
  <2>3. OneContract'
    BY <1>2, <1>3 DEF LocalInvariant, SessionKnows, OneContract, StateFiles
  <2>4. QED
    BY <2>1, <2>2, <2>3
<1>5. FailureIsDiagnosed'
  BY <1>1, <1>2 DEF FailureIsDiagnosed
<1>6. FullGoesOn'
  BY <1>2, <1>3 DEF LocalInvariant, SessionKnows, FullGoesOn, StateFiles
<1>7. LocalTypes'
  BY <1>2, TypesKept DEF LocalInvariant, LocalTypes, artifacts, history
<1>8. FilesTell'
  <2>1. PreflightTells' /\ AnswersAreFrozen' /\ ReportKnows'
    BY <1>2, <1>3 DEF LocalInvariant, FilesTell, PreflightTells, AnswersAreFrozen, ReportKnows,
                      artifacts, history, StateFiles
  <2>2. EveryAnswerCounts' /\ DiagnosticsCoverFailures'
    BY <1>2 DEF LocalInvariant, FilesTell, EveryAnswerCounts, SumIsCounted, Times,
                DiagnosticsCoverFailures, history
  <2>3. QED
    BY <1>2, <2>1, <2>2 DEF LocalInvariant, FilesTell, history
<1>9. QED
  BY <1>4, <1>5, <1>6, <1>7, <1>8 DEF LocalInvariant, SessionKnows

-----------------------------------------------------------------------------
(* Records *)

AnswerRecord == [kind |-> IF verdict = "SUCCESS" THEN "SUCCESS" ELSE "FAILED",
                 digest |-> Answering, contract |-> world.contract]

\* One record is written, and with a prediction its example has one more file that predicts it.
LEMMA RecordedTells ==
  ASSUME LocalInvariant, Recorded
  PROVE  /\ file \in StateFiles /\ id \in IdsOf(file) \ Predicted(file) /\ id \in Population
         /\ (file = "full" <=> mode = "full") /\ pc = "save"
         /\ store' \in Stores
         /\ \A f \in StateFiles, i \in Population :
              store'[f][i] = IF f = file /\ i = id THEN AnswerRecord ELSE store[f][i]
         /\ \A f \in StateFiles :
              Predicted(f)' = Predicted(f) \cup
                                (IF f = file /\ verdict = "SUCCESS" THEN {id} ELSE {})
<1>1. pc = "save" /\ file \in StateFiles /\ id \in IdsOf(file) \ Predicted(file)
      /\ (file = "full" <=> mode = "full")
  BY DEF Recorded, LocalInvariant, LocalTypes, SessionKnows, SessionFits, CursorIsOpen, StateFiles
<1>2. id \in Population /\ store \in Stores
  BY <1>1, IdsOfFiles DEF LocalInvariant, LocalTypes
<1>3. store' = [store EXCEPT ![file][id] = AnswerRecord]
  BY DEF Recorded, AnswerRecord
<1>4. AnswerRecord \in Record
  <2>1. Answering \in Digests /\ world.contract \in Drafts
    BY DEF LocalInvariant, LocalTypes, Worlds, Answering, Digests
  <2>2. QED
    BY <2>1 DEF AnswerRecord, Record
<1>5. \A f \in StateFiles, i \in Population :
        store'[f][i] = IF f = file /\ i = id THEN AnswerRecord ELSE store[f][i]
  BY <1>1, <1>2, <1>3 DEF Stores
<1>6. store' \in Stores
  BY <1>1, <1>2, <1>3, <1>4 DEF Stores
<1>7. AnswerRecord.kind = IF verdict = "SUCCESS" THEN "SUCCESS" ELSE "FAILED"
  BY DEF AnswerRecord
<1>8. ASSUME NEW f \in StateFiles
      PROVE  Predicted(f)' = Predicted(f) \cup
                               (IF f = file /\ verdict = "SUCCESS" THEN {id} ELSE {})
  <2>1. IdsOf(f) \subseteq Population
    BY IdsOfFiles
  <2>2. Predicted(f)' = {i \in IdsOf(f) : store'[f][i].kind = "SUCCESS"}
    BY DEF Predicted, IdsOf
  <2>3. QED
    BY <1>1, <1>5, <1>7, <2>1, <2>2 DEF Predicted
<1>9. QED
  BY <1>1, <1>2, <1>5, <1>6, <1>8

LEMMA RecordedCounts ==
  ASSUME LocalInvariant, Recorded
  PROVE  /\ judged' \in [Population -> 0..3] /\ EveryAnswerCounts'
         /\ \A i \in Population : judged[i] = 3 => judged'[i] = 3
<1>1. judged \in [Population -> 0..3] /\ id \in Population /\ file \in StateFiles
  BY RecordedTells DEF LocalInvariant, LocalTypes
<1>2. judged' = IF verdict = "SUCCESS" /\ judged[id] < 3 THEN [judged EXCEPT ![id] = @ + 1]
                ELSE judged
  BY DEF Recorded
<1>3. \A i \in Population :
        judged'[i] = IF i = id /\ verdict = "SUCCESS" /\ judged[id] < 3 THEN judged[i] + 1
                     ELSE judged[i]
  BY <1>1, <1>2
<1>4. judged' \in [Population -> 0..3]
  BY <1>1, <1>2
<1>5. ASSUME NEW i \in Population
      PROVE  SumIsCounted(i)'
  <2>1. SumIsCounted(i) /\ judged[i] \in 0..3
    BY <1>1 DEF LocalInvariant, FilesTell, EveryAnswerCounts
  <2>2. \A f \in StateFiles : Times(f, i) \in {0, 1}
    BY DEF Times
  <2>3. CASE i # id
    <3>1. \A f \in StateFiles : Times(f, i)' = Times(f, i)
      BY <2>3, RecordedTells DEF Times
    <3>2. judged'[i] = judged[i]
      BY <1>3, <2>3
    <3>3. QED
      BY <2>1, <3>1, <3>2 DEF SumIsCounted, StateFiles
  <2>4. CASE i = id /\ verdict # "SUCCESS"
    <3>1. judged'[i] = judged[i]
      BY <1>3, <2>4
    <3>2. \A f \in StateFiles : Times(f, i)' = IF f = file THEN 0 ELSE Times(f, i)
      BY <2>4, RecordedTells DEF Times, AnswerRecord
    <3>3. Times("primary", i)' + Times("first", i)' + Times("second", i)' + Times("full", i)'
            <= Times("primary", i) + Times("first", i) + Times("second", i) + Times("full", i)
      BY <2>2, <3>2 DEF StateFiles
    <3>4. Times("primary", i)' + Times("first", i)' + Times("second", i)' + Times("full", i)' \in Int
      BY <2>2, <3>2 DEF StateFiles
    <3>5. QED
      BY <2>1, <2>2, <3>1, <3>3, <3>4 DEF SumIsCounted, StateFiles
  <2>5. CASE i = id /\ verdict = "SUCCESS"
    <3>1. judged'[i] = IF judged[i] < 3 THEN judged[i] + 1 ELSE judged[i]
      BY <1>3, <2>5
    <3>2. \A f \in StateFiles : Times(f, i)' = IF f = file THEN 1 ELSE Times(f, i)
      BY <2>5, RecordedTells DEF Times, AnswerRecord
    <3>3. Times("primary", i)' + Times("first", i)' + Times("second", i)' + Times("full", i)'
            <= Times("primary", i) + Times("first", i) + Times("second", i) + Times("full", i) + 1
      BY <1>1, <2>2, <3>2 DEF StateFiles
    <3>4. Times("primary", i)' + Times("first", i)' + Times("second", i)' + Times("full", i)' \in Int
      BY <2>2, <3>2 DEF StateFiles
    <3>5. QED
      BY <2>1, <2>2, <3>1, <3>3, <3>4 DEF SumIsCounted, StateFiles
  <2>6. QED
    BY <2>3, <2>4, <2>5
<1>6. QED
  BY <1>1, <1>3, <1>4, <1>5 DEF EveryAnswerCounts

LEMMA RecordedFilesTell ==
  ASSUME LocalInvariant, Recorded
  PROVE  FilesTell'
<1>1. /\ UNCHANGED <<experiment, world, artifacts, diagnosed, vetted>>
      /\ trusted' = (trusted /\ (verdict = "SUCCESS" => Vetted))
  BY DEF Recorded
<1>2. PreflightTells'
  BY <1>1 DEF LocalInvariant, FilesTell, PreflightTells, artifacts
<1>3. AnswersAreFrozen'
  <2>1. experiment # "v1" => Answering = Frozen
    BY RecordedTells DEF LocalInvariant, SessionKnows, Admitted, Answering
  <2>2. AnswerRecord.digest = Answering
    BY DEF AnswerRecord
  <2>3. QED
    BY <1>1, <2>1, <2>2, RecordedTells DEF LocalInvariant, FilesTell, AnswersAreFrozen, artifacts
<1>4. EveryAnswerCounts'
  BY RecordedCounts
<1>5. ReportKnows'
  <2>1. ReportKnows /\ report' = report /\ fullReport' = fullReport
    BY <1>1 DEF LocalInvariant, FilesTell, artifacts
  <2>2. report.complete => Predicted("primary")' = Ids
    BY <2>1, RecordedTells, IdsOfFiles DEF ReportKnows, StateFiles
  <2>3. report.consistency = "COMPLETE" => \A i \in Sample : judged'[i] = 3
    BY <2>1, RecordedCounts, IdsOfFiles DEF ReportKnows, StateFiles
  <2>4. fullReport = "COMPLETE" =>
          /\ Predicted("full")' = FullIds
          /\ \E c \in Drafts : \A i \in FullIds : store'["full"][i].contract = c
    <3> SUFFICES ASSUME fullReport = "COMPLETE"
                 PROVE  /\ Predicted("full")' = FullIds
                        /\ \E c \in Drafts : \A i \in FullIds : store'["full"][i].contract = c
      OBVIOUS
    <3>1. file # "full"
      BY <2>1, RecordedTells, IdsOfFiles DEF ReportKnows
    <3>2. \A i \in FullIds : store'["full"][i] = store["full"][i]
      BY <3>1, RecordedTells, IdsOfFiles DEF StateFiles
    <3>3. QED
      BY <2>1, <3>1, <3>2, RecordedTells DEF ReportKnows, StateFiles
  <2>5. QED
    BY <2>1, <2>2, <2>3, <2>4 DEF ReportKnows
<1>6. DiagnosticsCoverFailures'
  <2>1. verdict # "SUCCESS" /\ experiment # "v1" /\ file # "full" => id \in diagnosed
    BY RecordedTells DEF LocalInvariant, SessionKnows, FailureIsDiagnosed
  <2>2. AnswerRecord.kind = "FAILED" => verdict # "SUCCESS"
    BY DEF AnswerRecord
  <2>3. QED
    BY <1>1, <2>1, <2>2, RecordedTells
       DEF LocalInvariant, FilesTell, DiagnosticsCoverFailures, StateFiles
<1>7. experiment' # "v1" => trusted'
  <2>1. experiment # "v1" => Vetted /\ trusted
    BY RecordedTells DEF LocalInvariant, SessionKnows, FilesTell, Admitted, Vetted
  <2>2. QED
    BY <1>1, <2>1
<1>8. QED
  BY <1>2, <1>3, <1>4, <1>5, <1>6, <1>7 DEF FilesTell

\* A record leaves the next example, or this one for another try.
LEMMA RecordedSession ==
  ASSUME LocalInvariant, Recorded, pc' \in {"ask", "stopped"}, pc' = "stopped" => mode = "full"
  PROVE  /\ SessionFits' /\ CursorIsOpen' /\ Admitted' /\ FullKnows' /\ OneContract'
         /\ FailureIsDiagnosed'
<1>1. UNCHANGED <<experiment, world, artifacts, mode, file, vetted>>
  BY DEF Recorded
<1>2. SessionFits' /\ Admitted' /\ FullKnows' /\ FailureIsDiagnosed'
  BY <1>1, RecordedTells DEF LocalInvariant, LocalTypes, SessionKnows, SessionFits, Admitted,
                             FullKnows, FailureIsDiagnosed, artifacts
<1>3. CursorIsOpen'
  <2> SUFFICES ASSUME id' # Done
               PROVE  id' \in IdsOf(file)' \ Predicted(file)'
    BY DEF CursorIsOpen
  <2>1. IdsOf(file)' = IdsOf(file)
    BY <1>1 DEF IdsOf
  <2>2. CASE GivesUp
    <3>1. id' = NextId(file, id, Predicted(file)) /\ id \in Nat /\ file \in StateFiles
      BY <2>2, RecordedTells, IdsOfFiles DEF Recorded
    <3>2. id' \in IdsOf(file) \ Predicted(file) /\ id' > id
      BY <3>1, NextIdTells
    <3>3. id' \notin Predicted(file)'
      BY <1>1, <3>1, <3>2, RecordedTells
    <3>4. QED
      BY <2>1, <3>2, <3>3
  <2>3. CASE ~GivesUp
    <3>1. id' = id /\ verdict = "TRANSIENT"
      BY <2>3 DEF Recorded, GivesUp
    <3>2. QED
      BY <1>1, <2>1, <3>1, RecordedTells
  <2>4. QED
    BY <2>2, <2>3
<1>4. OneContract'
  <2>1. AnswerRecord.contract = world.contract
    BY DEF AnswerRecord
  <2>2. ASSUME mode = "full", NEW i \in Predicted("full")'
        PROVE  store'["full"][i].contract = world.contract
    <3>1. i \in Population /\ (i = id \/ i \in Predicted("full"))
      BY <2>2, RecordedTells, IdsOfFiles DEF Predicted, StateFiles
    <3>2. QED
      BY <2>1, <2>2, <3>1, RecordedTells DEF LocalInvariant, SessionKnows, OneContract, StateFiles
  <2>3. QED
    BY <1>1, <2>2 DEF OneContract
<1>5. QED
  BY <1>2, <1>3, <1>4

LEMMA SaveKeeps ==
  ASSUME LocalInvariant, Save
  PROVE  LocalInvariant'
<1>1. /\ Recorded /\ mode # "full" /\ mode' = mode /\ pc' = "ask"
      /\ UNCHANGED <<experiment, world, preflight, report, requests, terminal, failures>>
  BY DEF Save, Recorded, artifacts
<1>2. FullGoesOn'
  BY <1>1 DEF FullGoesOn
<1>3. LocalTypes'
  BY <1>1, RecordedTells, RecordedCounts DEF LocalInvariant, LocalTypes
<1>4. QED
  BY <1>1, <1>2, <1>3, RecordedSession, RecordedFilesTell DEF LocalInvariant, SessionKnows

\* The full run looks at its failures after every record.
LEMMA SaveFullKeeps ==
  ASSUME LocalInvariant, SaveFull
  PROVE  LocalInvariant'
<1>1. /\ Recorded /\ mode = "full" /\ mode' = mode
      /\ UNCHANGED <<experiment, world, preflight, report, requests>>
      /\ terminal' = Attempted /\ failures' = Failed
      /\ pc' = IF Failed >= FailureLimit \/ Unreliable THEN "stopped" ELSE "ask"
  BY DEF SaveFull, Recorded, artifacts
<1>2. /\ id \in FullIds /\ file = "full"
      /\ Predicted("full")' = Predicted("full") \cup (IF verdict = "SUCCESS" THEN {id} ELSE {})
  BY <1>1, RecordedTells, IdsOfFiles DEF StateFiles
<1>3. failures \in Nat /\ failures < FailureLimit /\ terminal \subseteq FullIds
  BY <1>1, RecordedTells DEF LocalInvariant, LocalTypes, SessionKnows, FullGoesOn
<1>4. failures' \in Nat /\ failures' <= FailureLimit /\ terminal' \subseteq FullIds
  BY <1>1, <1>2, <1>3, LocalAssumption DEF Failed, Attempted
<1>5. /\ Cardinality(terminal') \in Nat /\ Cardinality(Predicted("full")') \in Nat
      /\ Valid = Cardinality(Predicted("full")')
  <2>1. Predicted("full")' \subseteq FullIds
    BY DEF Predicted, IdsOf
  <2>2. IsFiniteSet(terminal') /\ IsFiniteSet(Predicted("full")')
    BY <1>4, <2>1, FS_Subset, LocalAssumption
  <2>3. QED
    BY <1>2, <2>2, FS_CardinalityType DEF Valid
<1>6. FullGoesOn'
  <2>1. CASE pc' = "stopped"
    BY <1>1, <1>4, <2>1 DEF FullGoesOn
  <2>2. CASE pc' # "stopped"
    <3>1. pc' = "ask" /\ ~(Failed >= FailureLimit) /\ ~Unreliable
      BY <1>1, <2>2
    <3>2. failures' < FailureLimit
      BY <1>1, <1>4, <3>1, LocalAssumption
    <3>3. Cardinality(terminal') >= MinAttempted => ~(Valid * 100 < MinValid * Cardinality(terminal'))
      BY <1>1, <3>1 DEF Unreliable
    <3>4. \A v, t \in Nat : ~(v * 100 < MinValid * t) => v * 100 >= MinValid * t
      BY LocalAssumption
    <3>5. Cardinality(terminal') >= MinAttempted =>
            Cardinality(Predicted("full")') * 100 >= MinValid * Cardinality(terminal')
      BY <1>5, <3>3, <3>4
    <3>6. QED
      BY <1>4, <3>1, <3>2, <3>5 DEF FullGoesOn
  <2>3. QED
    BY <2>1, <2>2
<1>7. LocalTypes'
  BY <1>1, <1>4, RecordedTells, RecordedCounts DEF LocalInvariant, LocalTypes
<1>8. QED
  BY <1>1, <1>6, <1>7, RecordedSession, RecordedFilesTell DEF LocalInvariant, SessionKnows

-----------------------------------------------------------------------------
(* Reports *)

\* A report that says no more than the files, and the end of the session.
LEMMA ReportedKeeps ==
  ASSUME LocalInvariant, Ends,
         UNCHANGED <<experiment, world, preflight, store, diagnosed, history>>,
         report' \in ReportRecord,
         report'.complete => Predicted("primary") = Ids,
         report'.consistency = "COMPLETE" => \A i \in Sample : judged[i] = 3,
         experiment # "v1" => report'.digest = Frozen,
         fullReport' = "COMPLETE" =>
           /\ Predicted("full") = FullIds
           /\ \E c \in Drafts : \A i \in FullIds : store["full"][i].contract = c
  PROVE  LocalInvariant'
<1>1. /\ SessionKnows'
      /\ pc' = "down" /\ mode' = "NONE" /\ failures' = 0 /\ terminal' = {} /\ requests' = 0
  BY EndedKnows
<1>2. \A f \in StateFiles : Predicted(f)' = Predicted(f)
  BY DEF Predicted, IdsOf
<1>3. LocalTypes'
  BY <1>1 DEF LocalInvariant, LocalTypes, history
<1>4. ReportKnows'
  BY <1>2 DEF ReportKnows, StateFiles, history
<1>5. PreflightTells' /\ AnswersAreFrozen' /\ DiagnosticsCoverFailures' /\ EveryAnswerCounts'
  BY DEF LocalInvariant, FilesTell, PreflightTells, AnswersAreFrozen, DiagnosticsCoverFailures,
         EveryAnswerCounts, SumIsCounted, Times, history
<1>6. QED
  BY <1>1, <1>3, <1>4, <1>5 DEF LocalInvariant, FilesTell, history

LEMMA ReportRunKeeps ==
  ASSUME LocalInvariant, ReportV1 \/ ReportV2 \/ ReportV3
  PROVE  LocalInvariant'
<1>1. /\ Ends /\ UNCHANGED <<experiment, world, preflight, store, diagnosed, history, fullReport>>
  BY DEF ReportV1, ReportV2, ReportV3, Reports
<1>2. report \in ReportRecord /\ preflight.digest \in Digests /\ world.contract \in Drafts
  BY DEF LocalInvariant, LocalTypes, Worlds
<1>3. PICK digest \in Digests, consistency \in {report.consistency, "NOT_RUN"}, sent \in Nat :
        /\ report' = [written |-> TRUE, complete |-> Predicted("primary") = Ids, digest |-> digest,
                      contract |-> world.contract, consistency |-> consistency, requests |-> sent]
        /\ experiment # "v1" => digest = Frozen
  <2>1. CASE ReportV1
    BY <1>2, <2>1 DEF ReportV1, Reports, ReportRecord
  <2>2. CASE ReportV2 \/ ReportV3
    BY <2>2 DEF ReportV2, ReportV3, Reports, Digests
  <2>3. QED
    BY <2>1, <2>2
<1>4. /\ report'.digest = digest /\ report'.consistency = consistency
      /\ report'.complete => Predicted("primary") = Ids
  BY <1>3
<1>5. report' \in ReportRecord
  <2>1. ASSUME NEW whole \in BOOLEAN
        PROVE  [written |-> TRUE, complete |-> whole, digest |-> digest,
                contract |-> world.contract, consistency |-> consistency, requests |-> sent]
                 \in ReportRecord
    BY <1>2 DEF ReportRecord
  <2>2. (Predicted("primary") = Ids) \in BOOLEAN
    OBVIOUS
  <2>3. QED
    BY <1>3, <2>1, <2>2
<1>6. report'.consistency = "COMPLETE" => \A i \in Sample : judged[i] = 3
  BY <1>4 DEF LocalInvariant, FilesTell, ReportKnows
<1>7. fullReport' = "COMPLETE" =>
        /\ Predicted("full") = FullIds
        /\ \E c \in Drafts : \A i \in FullIds : store["full"][i].contract = c
  BY <1>1 DEF LocalInvariant, FilesTell, ReportKnows
<1>8. QED
  BY <1>1, <1>3, <1>4, <1>5, <1>6, <1>7, ReportedKeeps

\* Three files that predict an example were filled at three different times.
LEMMA ThreefoldIsCounted ==
  ASSUME LocalInvariant, NEW i \in Sample,
         \A f \in {"primary", "first", "second"} : store[f][i].kind = "SUCCESS"
  PROVE  judged[i] = 3
<1>1. i \in Population
  BY LocalAssumption DEF Population
<1>2. SumIsCounted(i) /\ judged[i] \in 0..3
  BY <1>1 DEF LocalInvariant, LocalTypes, FilesTell, EveryAnswerCounts
<1>3. /\ Times("primary", i) = 1 /\ Times("first", i) = 1 /\ Times("second", i) = 1
      /\ Times("full", i) \in {0, 1}
  BY DEF Times
<1>4. QED
  BY <1>2, <1>3 DEF SumIsCounted

\* The three scripts measure the same.
LEMMA ConsistencyIsMeasured ==
  ASSUME LocalInvariant, ReportConsistencyV1 \/ ReportConsistencyV2 \/ ReportConsistencyV3
  PROVE  /\ Ends /\ UNCHANGED <<experiment, world, preflight, store, diagnosed, history, fullReport>>
         /\ \E said \in {"COMPLETE", "INCOMPLETE"} :
              /\ report' = [report EXCEPT !.consistency = said, !.requests = requests]
              /\ said = "COMPLETE" =>
                   \A i \in Sample, f \in {"primary", "first", "second"} :
                     store[f][i].kind = "SUCCESS"
<1>1. CASE ReportConsistencyV1
  <2>1. Triple = Sample => \A i \in Sample, f \in {"primary", "first", "second"} :
                             store[f][i].kind = "SUCCESS"
    BY DEF Triple, Predicted
  <2>2. QED
    BY <1>1, <2>1 DEF ReportConsistencyV1, Reports
<1>2. CASE ReportConsistencyV2 \/ ReportConsistencyV3
  <2>1. Sample \subseteq Predicted("primary") \cap Predicted("first") \cap Predicted("second") =>
          \A i \in Sample, f \in {"primary", "first", "second"} : store[f][i].kind = "SUCCESS"
    BY DEF Predicted
  <2>2. QED
    BY <1>2, <2>1 DEF ReportConsistencyV2, ReportConsistencyV3, Reports
<1>3. QED
  BY <1>1, <1>2

LEMMA ReportConsistencyKeeps ==
  ASSUME LocalInvariant, ReportConsistencyV1 \/ ReportConsistencyV2 \/ ReportConsistencyV3
  PROVE  LocalInvariant'
<1>1. PICK said \in {"COMPLETE", "INCOMPLETE"} :
        /\ report' = [report EXCEPT !.consistency = said, !.requests = requests]
        /\ said = "COMPLETE" =>
             \A i \in Sample, f \in {"primary", "first", "second"} : store[f][i].kind = "SUCCESS"
  BY ConsistencyIsMeasured
<1>2. Ends /\ UNCHANGED <<experiment, world, preflight, store, diagnosed, history, fullReport>>
  BY ConsistencyIsMeasured
<1>3. report \in ReportRecord /\ requests \in Nat
  BY DEF LocalInvariant, LocalTypes
<1>4. /\ report' \in ReportRecord /\ report'.consistency = said /\ report'.digest = report.digest
      /\ report'.complete => report.complete
  BY <1>1, <1>3 DEF ReportRecord
<1>5. said = "COMPLETE" => \A i \in Sample : judged[i] = 3
  BY <1>1, ThreefoldIsCounted
<1>6. ReportKnows /\ AnswersAreFrozen
  BY DEF LocalInvariant, FilesTell
<1>7. QED
  BY <1>2, <1>4, <1>5, <1>6, ReportedKeeps DEF ReportKnows, AnswersAreFrozen

\* The full report says COMPLETE of a complete file, all of one contract.
LEMMA ReportFullKeeps ==
  ASSUME LocalInvariant, ReportFull
  PROVE  LocalInvariant'
<1>1. /\ mode = "full" /\ Ends
      /\ fullReport' = IF Predicted("full") = FullIds THEN "COMPLETE"
                       ELSE IF pc = "stopped" THEN "REGRESSION" ELSE "INCOMPLETE"
      /\ UNCHANGED <<experiment, world, preflight, report, store, diagnosed, history>>
  BY DEF ReportFull
<1>2. fullReport' = "COMPLETE" =>
        /\ Predicted("full") = FullIds
        /\ \E c \in Drafts : \A i \in FullIds : store["full"][i].contract = c
  BY <1>1 DEF LocalInvariant, LocalTypes, Worlds, SessionKnows, OneContract
<1>3. report \in ReportRecord /\ ReportKnows /\ AnswersAreFrozen
  BY DEF LocalInvariant, LocalTypes, FilesTell
<1>4. QED
  BY <1>1, <1>2, <1>3, ReportedKeeps DEF ReportKnows, AnswersAreFrozen

-----------------------------------------------------------------------------
(* While no session is at work *)

\* RefuseConsistencyV1, a preflight or a change leaves what the sessions know of none.
LEMMA NothingIsKnown ==
  ASSUME LocalInvariant, pc = "down", UNCHANGED <<pc, mode, file>>
  PROVE  SessionKnows'
<1>1. mode' = "NONE" /\ pc' = "down" /\ file' = "primary"
  BY DEF LocalInvariant, LocalTypes, SessionKnows, SessionFits
<1>2. QED
  BY <1>1 DEF SessionKnows, SessionFits, CursorIsOpen, Admitted, FullKnows, OneContract,
              FullGoesOn, FailureIsDiagnosed

LEMMA RefuseKeeps ==
  ASSUME LocalInvariant, RefuseConsistencyV1
  PROVE  LocalInvariant'
<1>1. /\ pc = "down" /\ experiment = "v1"
      /\ report' = [report EXCEPT !.consistency = "PRIMARY_INCOMPLETE", !.requests = 0]
      /\ UNCHANGED <<experiment, world, preflight, fullReport, store, diagnosed, pc, progress,
                     history>>
  BY DEF RefuseConsistencyV1
<1>2. report \in ReportRecord
  BY DEF LocalInvariant, LocalTypes
<1>3. /\ report' \in ReportRecord /\ report'.consistency = "PRIMARY_INCOMPLETE"
      /\ report'.complete => report.complete
  BY <1>1, <1>2 DEF ReportRecord
<1>4. LocalTypes' /\ SessionKnows'
  BY <1>1, <1>3, NothingIsKnown DEF LocalInvariant, LocalTypes, progress, history
<1>5. \A f \in StateFiles : Predicted(f)' = Predicted(f)
  BY <1>1 DEF Predicted, IdsOf
<1>6. ReportKnows'
  BY <1>1, <1>3, <1>5 DEF LocalInvariant, FilesTell, ReportKnows, StateFiles
<1>7. PreflightTells' /\ AnswersAreFrozen' /\ DiagnosticsCoverFailures' /\ EveryAnswerCounts'
  BY <1>1 DEF LocalInvariant, FilesTell, PreflightTells, AnswersAreFrozen,
              DiagnosticsCoverFailures, EveryAnswerCounts, SumIsCounted, Times, history
<1>8. QED
  BY <1>1, <1>4, <1>6, <1>7 DEF LocalInvariant, FilesTell, history

\* A preflight that passes vets its commit.
LEMMA PreflightKeeps ==
  ASSUME LocalInvariant, PreflightV1 \/ PreflightV2 \/ PreflightV3
  PROVE  LocalInvariant'
<1>1. PICK status \in {"PASS", "BLOCKED"}, digest \in Digests : Preflights(status, digest)
  BY DEF PreflightV1, PreflightV2, PreflightV3, LocalInvariant, LocalTypes, Worlds, Digests
<1>2. /\ pc = "down"
      /\ preflight' = [status |-> status, commit |-> world.head, digest |-> digest]
      /\ vetted' = IF status = "PASS" THEN vetted \cup {world.head} ELSE vetted
      /\ UNCHANGED <<experiment, world, report, fullReport, store, diagnosed, pc, progress,
                     trusted, judged>>
  BY <1>1 DEF Preflights
<1>3. LocalTypes' /\ SessionKnows'
  BY <1>2, NothingIsKnown DEF LocalInvariant, LocalTypes, progress
<1>4. PreflightTells'
  BY <1>2 DEF PreflightTells
<1>5. \A f \in StateFiles : Predicted(f)' = Predicted(f)
  BY <1>2 DEF Predicted, IdsOf
<1>6. AnswersAreFrozen' /\ ReportKnows' /\ DiagnosticsCoverFailures' /\ EveryAnswerCounts'
  BY <1>2, <1>5 DEF LocalInvariant, FilesTell, AnswersAreFrozen, ReportKnows, StateFiles,
                    DiagnosticsCoverFailures, EveryAnswerCounts, SumIsCounted, Times
<1>7. QED
  BY <1>2, <1>3, <1>4, <1>6 DEF LocalInvariant, FilesTell

LEMMA ChangeKeeps ==
  ASSUME LocalInvariant, Change
  PROVE  LocalInvariant'
<1>1. /\ pc = "down"
      /\ UNCHANGED <<experiment, artifacts, store, diagnosed, pc, progress, history>>
  BY DEF Change
<1>2. world' \in Worlds
  <2>1. world \in Worlds
    BY DEF LocalInvariant, LocalTypes
  <2>2. /\ [world EXCEPT !.clean = FALSE] \in Worlds
        /\ \A d \in Digests : [world EXCEPT !.served = d] \in Worlds
    BY <2>1 DEF Worlds
  <2>3. ASSUME NEW c \in Drafts
        PROVE  [world EXCEPT !.head = @ + 1, !.clean = TRUE, !.contract = c] \in Worlds
    <3>1. world.head + 1 \in Nat
      BY <2>1 DEF Worlds
    <3>2. \A h \in Nat : [world EXCEPT !.head = h] \in Worlds
      BY <2>1 DEF Worlds
    <3>3. \A w \in Worlds : [w EXCEPT !.clean = TRUE] \in Worlds
      BY DEF Worlds
    <3>4. \A w \in Worlds : [w EXCEPT !.contract = c] \in Worlds
      BY DEF Worlds
    <3>5. [[[world EXCEPT !.head = world.head + 1] EXCEPT !.clean = TRUE] EXCEPT !.contract = c]
            \in Worlds
      BY <3>1, <3>2, <3>3, <3>4
    <3>6. QED
      BY <2>1, <3>5 DEF Worlds
  <2>4. [world EXCEPT !.intact = ~@] \in Worlds
    <3>1. [world EXCEPT !.intact = ~world.intact] \in Worlds
      <4>1. (~world.intact) \in BOOLEAN
        OBVIOUS
      <4>2. \A b \in BOOLEAN : [world EXCEPT !.intact = b] \in Worlds
        BY <2>1 DEF Worlds
      <4>3. QED
        BY <4>1, <4>2, Zenon
    <3>2. QED
      BY <3>1, Zenon
  <2>5. Frozen \in Digests /\ "drifted" \in Digests
    BY DEF Digests
  <2>6. QED
    BY <2>2, <2>3, <2>4, <2>5 DEF Change
<1>3. LocalTypes' /\ SessionKnows'
  BY <1>1, <1>2, NothingIsKnown DEF LocalInvariant, LocalTypes, progress, artifacts, history
<1>4. FilesTell'
  BY <1>1, FilesStillTell DEF LocalInvariant, FilesStay
<1>5. QED
  BY <1>3, <1>4 DEF LocalInvariant

LEMMA CrashKeeps ==
  ASSUME LocalInvariant, Crash
  PROVE  LocalInvariant'
<1>1. Ends /\ UNCHANGED <<experiment, world, artifacts, store, diagnosed, history>>
  BY DEF Crash
<1>2. LocalTypes' /\ SessionKnows'
  BY <1>1, EndedKnows, TypesKept DEF artifacts, history
<1>3. FilesTell'
  BY <1>1, FilesStillTell DEF LocalInvariant, FilesStay
<1>4. QED
  BY <1>2, <1>3 DEF LocalInvariant

-----------------------------------------------------------------------------
(* The theorems *)

LEMMA LocalInvariantAtStart == LocalInit({"v1", "v2", "v3"}) => LocalInvariant
<1> SUFFICES ASSUME LocalInit({"v1", "v2", "v3"})
             PROVE  LocalInvariant
  OBVIOUS
<1>1. /\ experiment \in {"v1", "v2", "v3"}
      /\ world = [head |-> 1, contract |-> 1, clean |-> TRUE, intact |-> TRUE, served |-> Frozen]
      /\ preflight = NoPreflight /\ report = NoReport /\ fullReport = "NONE"
      /\ store = [f \in StateFiles |-> [i \in Population |-> NoRecord]]
      /\ pc = "down" /\ mode = "NONE" /\ file = "primary" /\ failures = 0 /\ terminal = {}
      /\ requests = 0 /\ trusted /\ judged = [i \in Population |-> 0]
  BY DEF LocalInit
<1>2. /\ Frozen \in Digests /\ 1 \in Drafts /\ 0 \in Nat /\ 1 \in Nat
      /\ NoReport \in ReportRecord /\ NoRecord \in Record
      /\ NoReport.complete = FALSE /\ NoReport.consistency = "NOT_RUN" /\ NoReport.digest = Frozen
      /\ NoPreflight.status = "NONE" /\ NoPreflight.digest = Frozen /\ NoRecord.kind = "NONE"
  BY DEF Digests, Drafts, NoReport, ReportRecord, NoRecord, Record, NoPreflight
<1>3. LocalTypes
  BY <1>1, <1>2 DEF LocalTypes, Worlds, Stores
<1>4. SessionKnows
  BY <1>1 DEF SessionKnows, SessionFits, CursorIsOpen, Admitted, FullKnows, OneContract,
              FullGoesOn, FailureIsDiagnosed
<1>5. \A f \in StateFiles, i \in Population : store[f][i].kind = "NONE"
  BY <1>1, <1>2
<1>6. PreflightTells /\ AnswersAreFrozen /\ ReportKnows /\ DiagnosticsCoverFailures
  BY <1>1, <1>2, <1>5 DEF PreflightTells, AnswersAreFrozen, ReportKnows,
                          DiagnosticsCoverFailures, StateFiles
<1>7. EveryAnswerCounts
  BY <1>1, <1>5 DEF EveryAnswerCounts, SumIsCounted, Times, StateFiles
<1>8. QED
  BY <1>1, <1>3, <1>4, <1>6, <1>7 DEF LocalInvariant, FilesTell

LEMMA LocalInvariantKept ==
  ASSUME LocalInvariant, [LocalNext]_localVars
  PROVE  LocalInvariant'
<1>1. CASE NextV1
  BY <1>1, PreflightKeeps, BeginKeeps, AskKeeps, ReportRunKeeps, RefuseKeeps, RepeatKeeps,
     ReportConsistencyKeeps DEF NextV1
<1>2. CASE NextV2
  BY <1>2, PreflightKeeps, BeginKeeps, AskKeeps, ReportRunKeeps, RepeatKeeps,
     ReportConsistencyKeeps DEF NextV2
<1>3. CASE NextV3
  BY <1>3, PreflightKeeps, BeginKeeps, AskKeeps, ReportRunKeeps, ConsistencyV3Keeps, RepeatKeeps,
     ReportConsistencyKeeps DEF NextV3
<1>4. CASE NextFull
  BY <1>4, RunFullKeeps, AskKeeps, SaveFullKeeps, ReportFullKeeps DEF NextFull
<1>5. CASE Save \/ Change \/ Crash
  BY <1>5, SaveKeeps, ChangeKeeps, CrashKeeps
<1>6. CASE UNCHANGED localVars
  <2>1. \A f \in StateFiles : Predicted(f)' = Predicted(f)
    BY <1>6 DEF localVars, Predicted, IdsOf
  <2>2. LocalTypes' /\ FilesTell'
    BY <1>6, FilesStillTell, TypesKept
       DEF localVars, LocalInvariant, LocalTypes, FilesStay, artifacts, progress, history
  <2>3. CursorIsOpen'
    <3>1. file \in StateFiles
      BY DEF LocalInvariant, LocalTypes, SessionKnows, SessionFits, StateFiles
    <3>2. QED
      BY <1>6, <2>1, <3>1 DEF localVars, progress, LocalInvariant, SessionKnows, CursorIsOpen, IdsOf
  <2>4. SessionFits' /\ Admitted' /\ FullKnows' /\ OneContract' /\ FullGoesOn' /\ FailureIsDiagnosed'
    BY <1>6, <2>1 DEF localVars, progress, artifacts, history, LocalInvariant, SessionKnows,
                      SessionFits, Admitted, FullKnows, OneContract, FullGoesOn,
                      FailureIsDiagnosed, StateFiles
  <2>5. QED
    BY <2>2, <2>3, <2>4 DEF LocalInvariant, SessionKnows
<1>7. QED
  BY <1>1, <1>2, <1>3, <1>4, <1>5, <1>6 DEF LocalNext

\* What files and sessions know of each other, whichever experiment runs and wherever a session
\* dies.
THEOREM LocalInvariantTheorem == LocalSpec => []LocalInvariant
BY LocalInvariantAtStart, LocalInvariantKept, PTL DEF LocalSpec

\* A complete report is over predictions of one model, and those of the second and third
\* experiment and of the full run were made at a clean, vetted commit about the frozen data
\* (run_phase5a_local_pilot_v2.py: _run_pilot, run_phase5b_local_full.py: _run).
THEOREM ReportsTheorem == LocalSpec => []ReportsAreSound
<1>1. LocalInvariant => ReportsAreSound
  <2> SUFFICES ASSUME LocalInvariant
               PROVE  ReportsAreSound
    OBVIOUS
  <2>1. ReportKnows /\ AnswersAreFrozen /\ (experiment # "v1" => trusted) /\ store \in Stores
    BY DEF LocalInvariant, FilesTell, LocalTypes
  <2>2. experiment # "v1" /\ report.complete =>
          \A i \in Ids : store["primary"][i].digest = report.digest
    <3> SUFFICES ASSUME experiment # "v1", report.complete, NEW i \in Ids
                 PROVE  store["primary"][i].digest = report.digest
      OBVIOUS
    <3>1. i \in Population /\ i \in Predicted("primary")
      BY <2>1 DEF ReportKnows, Population
    <3>2. QED
      BY <2>1, <3>1 DEF AnswersAreFrozen, Predicted, StateFiles
  <2>3. experiment # "v1" /\ fullReport = "COMPLETE" =>
          \E c \in Drafts : \A i \in FullIds :
            store["full"][i] = [kind |-> "SUCCESS", digest |-> Frozen, contract |-> c]
    <3> SUFFICES ASSUME experiment # "v1", fullReport = "COMPLETE"
                 PROVE  \E c \in Drafts : \A i \in FullIds :
                          store["full"][i] = [kind |-> "SUCCESS", digest |-> Frozen, contract |-> c]
      OBVIOUS
    <3>1. PICK c \in Drafts : \A i \in FullIds : store["full"][i].contract = c
      BY <2>1 DEF ReportKnows
    <3>2. ASSUME NEW i \in FullIds
          PROVE  store["full"][i] = [kind |-> "SUCCESS", digest |-> Frozen, contract |-> c]
      <4>1. i \in Population /\ i \in Predicted("full")
        BY <2>1 DEF ReportKnows, Population
      <4>2. store["full"][i].kind = "SUCCESS" /\ store["full"][i].digest = Frozen
        BY <2>1, <4>1 DEF AnswersAreFrozen, Predicted, StateFiles
      <4>3. store["full"][i] \in Record
        BY <2>1, <4>1 DEF Stores, StateFiles
      <4>4. QED
        BY <3>1, <4>2, <4>3 DEF Record
    <3>3. QED
      BY <3>2
  <2>4. QED
    BY <2>1, <2>2, <2>3 DEF ReportsAreSound, OneModelAnswers, ReportKnows
<1>2. QED
  BY <1>1, LocalInvariantTheorem, PTL

\* No failed record of the second and third experiment is without its diagnosis
\* (run_phase5a_local_pilot_v2.py: evaluate_local).
THEOREM DiagnosticsTheorem == LocalSpec => []DiagnosticsCoverFailures
<1>1. LocalInvariant => DiagnosticsCoverFailures
  BY DEF LocalInvariant, FilesTell
<1>2. QED
  BY <1>1, LocalInvariantTheorem, PTL

\* The full run begins after a complete pilot with a threefold sample, and stops at its last
\* permitted failure and when its answers go wrong (run_phase5b_local_full.py: _run, observe).
THEOREM FullRunTheorem == LocalSpec => []FullRunIsGuarded
<1>1. LocalInvariant => FullRunIsGuarded
  <2> SUFFICES ASSUME LocalInvariant, mode = "full"
               PROVE  FullRunIsGuarded
    BY DEF FullRunIsGuarded, FullRunIsAuthorized, FullRunStops
  <2>1. Predicted("primary") = Ids /\ \A i \in Sample : judged[i] >= 3
    BY DEF LocalInvariant, SessionKnows, FullKnows, FilesTell, ReportKnows
  <2>2. /\ failures <= FailureLimit
        /\ pc = "ask" => failures < FailureLimit
        /\ pc = "ask" /\ Cardinality(terminal) >= MinAttempted =>
             Cardinality(Predicted("full")) * 100 >= MinValid * Cardinality(terminal)
    BY DEF LocalInvariant, SessionKnows, FullGoesOn
  <2>3. QED
    BY <2>1, <2>2 DEF FullRunIsGuarded, FullRunIsAuthorized, FullRunStops
<1>2. QED
  BY <1>1, LocalInvariantTheorem, PTL

\* A report begins to call the consistency COMPLETE only over three predictions of each example
\* of the sample (run_phase5a_local_pilot_v3.py: _run_consistency).
THEOREM ThreefoldTheorem == LocalSpec => ConsistencyIsThreefold
<1>1. LocalInvariant /\ [LocalNext]_localVars =>
        [report'.consistency = "COMPLETE" /\ report' # report /\ mode = "consistency" =>
           \A i \in Sample, f \in {"primary", "first", "second"} :
             store[f][i].kind = "SUCCESS"]_localVars
  <2> SUFFICES ASSUME LocalInvariant, [LocalNext]_localVars,
                      report'.consistency = "COMPLETE", report' # report, mode = "consistency"
               PROVE  \A i \in Sample, f \in {"primary", "first", "second"} :
                        store[f][i].kind = "SUCCESS"
    OBVIOUS
  <2>1. pc # "down"
    BY DEF LocalInvariant, SessionKnows, SessionFits
  <2>2. CASE ReportConsistencyV1 \/ ReportConsistencyV2 \/ ReportConsistencyV3
    <3>1. PICK said \in {"COMPLETE", "INCOMPLETE"} :
            /\ report' = [report EXCEPT !.consistency = said, !.requests = requests]
            /\ said = "COMPLETE" =>
                 \A i \in Sample, f \in {"primary", "first", "second"} :
                   store[f][i].kind = "SUCCESS"
      BY <2>2, ConsistencyIsMeasured
    <3>2. report'.consistency = said
      BY <3>1 DEF LocalInvariant, LocalTypes, ReportRecord
    <3>3. QED
      BY <3>1, <3>2
  <2>3. CASE PreflightV1 \/ RunV1 \/ RefuseConsistencyV1 \/ ConsistencyV1 \/ PreflightV2 \/ RunV2
             \/ ConsistencyV2 \/ PreflightV3 \/ RunV3 \/ ConsistencyV3 \/ RunFull \/ Change
    BY <2>1, <2>3 DEF PreflightV1, RunV1, RefuseConsistencyV1, ConsistencyV1, PreflightV2, RunV2,
                      ConsistencyV2, PreflightV3, RunV3, ConsistencyV3, RunFull, Change, Begins,
                      Preflights
  <2>4. CASE ReportV1 \/ ReportV2 \/ ReportV3 \/ SaveFull \/ ReportFull
    BY <2>4 DEF ReportV1, ReportV2, ReportV3, SaveFull, ReportFull
  <2>5. CASE AskV1 \/ AskV2 \/ AskV3 \/ AskFull
    BY <2>5, AnswersAreDiagnosed DEF JudgeAnswers, artifacts
  <2>6. CASE Save \/ RepeatV1 \/ RepeatV2 \/ RepeatV3 \/ Crash \/ UNCHANGED localVars
    BY <2>6 DEF Save, Recorded, RepeatV1, RepeatV2, RepeatV3, Crash, localVars, artifacts
  <2>7. QED
    BY <2>2, <2>3, <2>4, <2>5, <2>6 DEF LocalNext, NextV1, NextV2, NextV3, NextFull
<1>2. QED
  BY <1>1, LocalInvariantTheorem, PTL DEF LocalSpec, ConsistencyIsThreefold

=============================================================================
