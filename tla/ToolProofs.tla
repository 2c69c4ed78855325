------------------------------ MODULE ToolProofs ------------------------------
(***************************************************************************)
(* The files of two command-line tools tell what happened, for any number  *)
(* of sessions and wherever one dies: a dataset's manifest what is in its  *)
(* place, and the ledger of the remote pilot how much was sent.  And what  *)
(* the other tools answer keeps what is promised of it, for every question *)
(* that they are asked.                                                    *)
(***************************************************************************)
EXTENDS Tools, LocalPilotsProofs, MeasureProofs, SequenceTheorems

-----------------------------------------------------------------------------
(* What a dataset's manifest tells of what is in its place *)

FileContents == {Absent, "good", "edited", "short", "bad"}
Sums == [Names -> FileContents]

Steps == {"copying", "rejecting", "validating", "writing"}
Sessions == [step : Steps, todo : Seq(Names), from : {"web", "local"}, sums : Sums, expected : Sums]

PrepTypes ==
  /\ kind \in {"miracl", "ragtruth"}
  /\ placed \in Sums
  /\ manifest \in [is : {Absent, "torn", "whole"}, sums : Sums]
  /\ preparing \in {NoPreparation} \cup Sessions

\* What is told is in its place.
Told(sums) == \A f \in Names : sums[f] # Absent => placed[f] = sums[f]

ManifestTells == Told(manifest.sums) /\ Validates(manifest.sums)

\* A session tells what it has copied; it has files to copy while it copies; a file that it
\* takes away again was not there before; what it writes down has validated.
SessionTells ==
  preparing # NoPreparation =>
    /\ Told(preparing.sums)
    /\ preparing.step \in {"copying", "rejecting"} => preparing.todo # <<>>
    /\ preparing.step = "rejecting" => manifest.sums[Head(preparing.todo)] = Absent
    /\ preparing.step = "writing" => Validates(preparing.sums)
    /\ kind = "ragtruth" => \A f \in Names : preparing.expected[f] \in {Absent, "good"}

FetchedAreGood == \A taken \in fetched : taken[2] = "good"

PrepInvariant ==
  /\ PrepTypes
  /\ ManifestTells
  /\ SessionTells
  /\ FetchedAreGood

-----------------------------------------------------------------------------
LEMMA PrepInvariantAtStart == PrepInit({"miracl", "ragtruth"}) => PrepInvariant
<1> SUFFICES ASSUME PrepInit({"miracl", "ragtruth"})
             PROVE  PrepInvariant
  OBVIOUS
<1>1. NoSums \in Sums /\ \A f \in Names : NoSums[f] = Absent
  BY DEF NoSums, Sums, FileContents
<1>2. PrepTypes
  BY <1>1 DEF PrepInit, PrepTypes
<1>3. ManifestTells
  BY <1>1 DEF PrepInit, ManifestTells, Told, Validates, Absent
<1>4. SessionTells /\ FetchedAreGood
  BY DEF PrepInit, SessionTells, FetchedAreGood
<1> QED
  BY <1>2, <1>3, <1>4 DEF PrepInvariant

\* A session that has ended knows nothing.
LEMMA EndedSessions ==
  ASSUME preparing' = NoPreparation
  PROVE  SessionTells'
BY DEF SessionTells

LEMMA SessionIsTyped ==
  ASSUME PrepInvariant
  PROVE  /\ preparing # NoPreparation => preparing \in Sessions
         /\ preparing.step \in Steps => preparing # NoPreparation
         /\ \A f \in Names : placed[f] \in FileContents /\ manifest.sums[f] \in FileContents
BY DEF PrepInvariant, PrepTypes, NoPreparation, Sessions, Steps, Sums

LEMMA FilesToCopy ==
  ASSUME kind \in {"miracl", "ragtruth"}, NEW only \in BOOLEAN, kind = "ragtruth" => ~only
  PROVE  Files(kind, only) \in Seq(Names) /\ Files(kind, only) # <<>>
<1>1. {"response", "source_info", "topics", "qrels", "corpus"} = Names
  BY DEF Names
<1>2. /\ <<"response", "source_info">> \in Seq(Names)
      /\ <<"topics", "qrels", "corpus">> \in Seq(Names)
      /\ <<"topics", "qrels">> \in Seq(Names)
  BY <1>1
<1>3. /\ <<"response", "source_info">> # <<>>
      /\ <<"topics", "qrels", "corpus">> # <<>>
      /\ <<"topics", "qrels">> # <<>>
  OBVIOUS
<1>4. CASE kind = "ragtruth"
  <2>1. Files(kind, only) = <<"response", "source_info">>
    BY <1>4 DEF Files
  <2> QED
    BY <1>2, <1>3, <2>1
<1>5. CASE kind = "miracl" /\ only
  <2>1. Files(kind, only) = <<"topics", "qrels">>
    BY <1>5 DEF Files
  <2> QED
    BY <1>2, <1>3, <2>1
<1>6. CASE kind = "miracl" /\ ~only
  <2>1. Files(kind, only) = <<"topics", "qrels", "corpus">>
    BY <1>6 DEF Files
  <2> QED
    BY <1>2, <1>3, <2>1
<1> QED
  BY <1>4, <1>5, <1>6

\* What is left of the files after the first.
LEMMA FirstAndRest ==
  ASSUME NEW S, NEW todo \in Seq(S), todo # <<>>
  PROVE  /\ Head(todo) \in S /\ Tail(todo) \in Seq(S)
         /\ Len(todo) # 1 => Tail(todo) # <<>>
<1>1. Len(todo) \in Nat /\ Len(todo) # 0
  BY EmptySeq
<1>2. Head(todo) \in S /\ Tail(todo) \in Seq(S) /\ Len(Tail(todo)) = Len(todo) - 1
  BY HeadTailProperties
<1>3. Len(<<>>) = 0
  OBVIOUS
<1>4. ASSUME Len(todo) # 1
      PROVE  Tail(todo) # <<>>
  <2>1. Len(Tail(todo)) # 0
    BY <1>1, <1>2, <1>4
  <2> QED
    BY <1>3, <2>1, Zenon
<1> QED
  BY <1>2, <1>4, Zenon

-----------------------------------------------------------------------------
(* The steps *)

LEMMA BeginStep ==
  ASSUME PrepInvariant, Begin
  PROVE  PrepInvariant'
<1>1. PICK from \in {"web", "local"}, only \in BOOLEAN, said \in {Absent, "good"} :
        /\ kind = "ragtruth" => ~only
        /\ preparing' = [step |-> "copying", todo |-> Files(kind, only), from |-> from,
                         sums |-> NoSums,
                         expected |-> IF kind = "miracl" THEN PreviousSums
                                      ELSE [f \in Names |-> said]]
  BY DEF Begin
<1>2. UNCHANGED <<kind, placed, manifest, fetched>>
  BY DEF Begin
<1> DEFINE expected == IF kind = "miracl" THEN PreviousSums ELSE [f \in Names |-> said]
<1>3. expected \in Sums /\ (kind = "ragtruth" => \A f \in Names : expected[f] \in {Absent, "good"})
  BY DEF PrepInvariant, PrepTypes, PreviousSums, Sums, FileContents
<1>4. Files(kind, only) \in Seq(Names) /\ Files(kind, only) # <<>>
  BY <1>1, FilesToCopy DEF PrepInvariant, PrepTypes
<1>5. NoSums \in Sums /\ \A f \in Names : NoSums[f] = Absent
  BY DEF NoSums, Sums, FileContents
<1> HIDE DEF expected
<1>6. /\ preparing' \in Sessions /\ preparing'.step = "copying" /\ preparing'.sums = NoSums
      /\ preparing'.todo = Files(kind, only) /\ preparing'.expected = expected
  BY <1>1, <1>3, <1>4, <1>5 DEF Sessions, Steps, expected
<1>7. PrepTypes'
  BY <1>2, <1>6 DEF PrepInvariant, PrepTypes
<1>8. SessionTells'
  BY <1>2, <1>3, <1>4, <1>5, <1>6 DEF SessionTells, Told
<1>9. ManifestTells' /\ FetchedAreGood'
  BY <1>2 DEF PrepInvariant, ManifestTells, Told, FetchedAreGood
<1> QED
  BY <1>7, <1>8, <1>9 DEF PrepInvariant

\* A file that is in its place in the end is told next; the others are told as before.
LEMMA CopiedTells ==
  ASSUME PrepInvariant, preparing.step = "copying", NEW content \in FileContents,
         Copied(Head(preparing.todo), content),
         placed' = [placed EXCEPT ![Head(preparing.todo)] = content],
         placed[Head(preparing.todo)] \in {Absent, content},
         UNCHANGED <<kind, manifest>>
  PROVE  PrepTypes' /\ ManifestTells' /\ SessionTells'
<1> DEFINE f == Head(preparing.todo)
<1>1. preparing \in Sessions /\ preparing # NoPreparation /\ preparing.todo # <<>>
  BY SessionIsTyped DEF PrepInvariant, SessionTells, Steps
<1>2. /\ preparing.todo \in Seq(Names) /\ preparing.sums \in Sums /\ preparing.expected \in Sums
      /\ preparing.from \in {"web", "local"}
  BY <1>1 DEF Sessions
<1>3. f \in Names /\ Tail(preparing.todo) \in Seq(Names)
      /\ (Len(preparing.todo) # 1 => Tail(preparing.todo) # <<>>)
  BY <1>1, <1>2, FirstAndRest
<1> HIDE DEF f
<1>4. preparing' = [step |-> IF Len(preparing.todo) = 1 THEN "validating" ELSE "copying",
                    todo |-> Tail(preparing.todo), from |-> preparing.from,
                    sums |-> [preparing.sums EXCEPT ![f] = content],
                    expected |-> preparing.expected]
  BY <1>1 DEF Copied, Sessions, f
<1>5. /\ placed \in Sums /\ placed' = [placed EXCEPT ![f] = content] /\ placed' \in Sums
      /\ placed[f] \in {Absent, content}
  BY <1>3 DEF PrepInvariant, PrepTypes, Sums, f
<1>6. [preparing.sums EXCEPT ![f] = content] \in Sums
  BY <1>2, <1>3 DEF Sums
<1>7. /\ preparing' \in Sessions /\ preparing'.step \in {"copying", "validating"}
      /\ preparing'.step = "copying" => preparing'.todo # <<>>
      /\ preparing'.sums = [preparing.sums EXCEPT ![f] = content]
      /\ preparing'.expected = preparing.expected
  BY <1>2, <1>3, <1>4, <1>6 DEF Sessions, Steps
<1>8. PrepTypes'
  BY <1>5, <1>7 DEF PrepInvariant, PrepTypes
<1>9. \A g \in Names : g # f => placed'[g] = placed[g] /\ preparing'.sums[g] = preparing.sums[g]
  BY <1>2, <1>3, <1>5, <1>7 DEF Sums
<1>10. placed'[f] = content /\ preparing'.sums[f] = content
  BY <1>2, <1>3, <1>5, <1>7 DEF Sums
<1>11. ManifestTells'
  BY <1>5, <1>9, <1>10 DEF PrepInvariant, ManifestTells, Told
<1>12. SessionTells'
  <2>1. /\ Told(preparing.sums)
        /\ kind = "ragtruth" => \A g \in Names : preparing.expected[g] \in {Absent, "good"}
    BY <1>1 DEF PrepInvariant, SessionTells
  <2>2. Told(preparing.sums)'
    BY <1>9, <1>10, <2>1 DEF Told
  <2> QED
    BY <1>7, <2>1, <2>2 DEF SessionTells
<1> QED
  BY <1>8, <1>11, <1>12

\* What is in its place stays there, whether it is taken or the session refuses it.
LEMMA KeepPlacedStep ==
  ASSUME PrepInvariant, preparing.step = "copying", NEW source \in FileContents,
         KeepPlaced(Head(preparing.todo), source), UNCHANGED <<kind, manifest>>
  PROVE  PrepInvariant'
<1> DEFINE f == Head(preparing.todo)
<1>1. UNCHANGED <<placed, fetched>> /\ (Copied(f, placed[f]) \/ Raise)
  BY DEF KeepPlaced
<1>2. f \in Names
  BY SessionIsTyped, FirstAndRest DEF PrepInvariant, SessionTells, Steps, Sessions
<1>3. placed[f] \in FileContents /\ placed' = [placed EXCEPT ![f] = placed[f]]
  BY <1>1, <1>2 DEF PrepInvariant, PrepTypes, Sums
<1>4. FetchedAreGood'
  BY <1>1 DEF PrepInvariant, FetchedAreGood
<1>5. CASE Copied(f, placed[f])
  BY <1>3, <1>4, <1>5, CopiedTells DEF PrepInvariant
<1>6. CASE Raise
  BY <1>1, <1>4, <1>6, EndedSessions DEF PrepInvariant, PrepTypes, ManifestTells, Told, Raise
<1> QED
  BY <1>1, <1>5, <1>6

\* Nothing is told of a file that is not in its place.
LEMMA FetchStep ==
  ASSUME PrepInvariant, preparing.step = "copying", NEW source \in FileContents,
         Fetch(Head(preparing.todo), source), UNCHANGED <<kind, manifest>>
  PROVE  PrepInvariant'
<1> DEFINE f == Head(preparing.todo)
<1>1. placed[f] = Absent /\ placed' = [placed EXCEPT ![f] = source]
  BY DEF Fetch
<1>2. preparing \in Sessions /\ preparing # NoPreparation /\ preparing.todo # <<>> /\ f \in Names
  BY SessionIsTyped, FirstAndRest DEF PrepInvariant, SessionTells, Steps, Sessions
<1>3. /\ manifest.sums[f] = Absent /\ preparing.sums[f] = Absent
      /\ Told(manifest.sums) /\ Told(preparing.sums)
  BY <1>1, <1>2 DEF PrepInvariant, ManifestTells, SessionTells, Told
<1>4. placed \in Sums /\ placed' \in Sums /\ \A g \in Names : g # f => placed'[g] = placed[g]
  BY <1>1, <1>2 DEF PrepInvariant, PrepTypes, Sums
<1>5. CASE Rejected(f, source)
  <2>1. preparing' = [preparing EXCEPT !.step = "rejecting"] /\ UNCHANGED fetched
    BY <1>5 DEF Fetch
  <2>2. preparing' = [step |-> "rejecting", todo |-> preparing.todo, from |-> preparing.from,
                      sums |-> preparing.sums, expected |-> preparing.expected]
    BY <1>2, <2>1 DEF Sessions
  <2>3. preparing' \in Sessions /\ preparing'.step = "rejecting"
        /\ preparing'.todo = preparing.todo /\ preparing'.sums = preparing.sums
        /\ preparing'.expected = preparing.expected
    BY <1>2, <2>2 DEF Sessions, Steps
  <2>4. PrepTypes'
    BY <1>4, <2>3 DEF PrepInvariant, PrepTypes
  <2>5. ManifestTells'
    BY <1>3, <1>4 DEF PrepInvariant, ManifestTells, Told
  <2>6. SessionTells'
    BY <1>2, <1>3, <1>4, <2>3 DEF PrepInvariant, SessionTells, Told
  <2> QED
    BY <2>1, <2>4, <2>5, <2>6 DEF PrepInvariant, FetchedAreGood
<1>6. CASE ~Rejected(f, source)
  <2>1. Copied(f, source)
        /\ fetched' = IF kind = "ragtruth" /\ preparing.expected[f] # Absent
                        THEN fetched \cup {<<f, source>>} ELSE fetched
    BY <1>6 DEF Fetch
  <2>2. PrepTypes' /\ ManifestTells' /\ SessionTells'
    BY <1>1, <2>1, CopiedTells
  <2>3. kind = "ragtruth" /\ preparing.expected[f] # Absent => source = "good"
    BY <1>2, <1>6 DEF PrepInvariant, SessionTells, Rejected
  <2>4. FetchedAreGood'
    BY <2>1, <2>3 DEF PrepInvariant, FetchedAreGood
  <2> QED
    BY <2>2, <2>4 DEF PrepInvariant
<1> QED
  BY <1>5, <1>6

LEMMA CopyStep ==
  ASSUME PrepInvariant, Copy
  PROVE  PrepInvariant'
<1> DEFINE f == Head(preparing.todo)
<1>1. preparing.step = "copying" /\ UNCHANGED <<kind, manifest>>
  BY DEF Copy
<1>2. \/ \E source \in FileContents : KeepPlaced(f, source) \/ Fetch(f, source)
      \/ FetchFails(f)
  BY DEF Copy, FileContents
<1>3. CASE \E source \in FileContents : KeepPlaced(f, source) \/ Fetch(f, source)
  BY <1>1, <1>3, KeepPlacedStep, FetchStep
<1>4. CASE FetchFails(f)
  BY <1>1, <1>4, EndedSessions
     DEF FetchFails, Raise, PrepInvariant, PrepTypes, ManifestTells, Told, FetchedAreGood
<1> QED
  BY <1>2, <1>3, <1>4

LEMMA RejectStep ==
  ASSUME PrepInvariant, Reject
  PROVE  PrepInvariant'
<1> DEFINE f == Head(preparing.todo)
<1>1. /\ preparing.step = "rejecting" /\ placed' = [placed EXCEPT ![f] = Absent]
      /\ preparing' = NoPreparation /\ UNCHANGED <<kind, manifest, fetched>>
  BY DEF Reject, Raise
<1>2. f \in Names /\ manifest.sums[f] = Absent
  BY <1>1, SessionIsTyped, FirstAndRest DEF PrepInvariant, SessionTells, Steps, Sessions
<1>3. placed \in Sums /\ placed' \in Sums /\ \A g \in Names : g # f => placed'[g] = placed[g]
  BY <1>1, <1>2 DEF PrepInvariant, PrepTypes, Sums, FileContents
<1>4. PrepTypes'
  BY <1>1, <1>3 DEF PrepInvariant, PrepTypes
<1>5. ManifestTells'
  BY <1>1, <1>2, <1>3 DEF PrepInvariant, ManifestTells, Told
<1>6. FetchedAreGood'
  BY <1>1 DEF PrepInvariant, FetchedAreGood
<1> QED
  BY <1>1, <1>4, <1>5, <1>6, EndedSessions DEF PrepInvariant

LEMMA ValidateStep ==
  ASSUME PrepInvariant, Validate
  PROVE  PrepInvariant'
<1>1. preparing.step = "validating" /\ UNCHANGED <<kind, placed, fetched>>
  BY DEF Validate
<1>2. FetchedAreGood'
  BY <1>1 DEF PrepInvariant, FetchedAreGood
<1>3. CASE Validates(preparing.sums)
  <2>1. /\ preparing' = [preparing EXCEPT !.step = "writing"]
        /\ manifest' = [is |-> "torn", sums |-> NoSums]
    BY <1>3 DEF Validate
  <2>2. preparing \in Sessions /\ preparing # NoPreparation
    BY <1>1, SessionIsTyped DEF Steps
  <2>3. preparing' = [step |-> "writing", todo |-> preparing.todo, from |-> preparing.from,
                      sums |-> preparing.sums, expected |-> preparing.expected]
    BY <2>1, <2>2 DEF Sessions
  <2>4. preparing' \in Sessions /\ preparing'.step = "writing"
        /\ preparing'.sums = preparing.sums /\ preparing'.expected = preparing.expected
    BY <2>2, <2>3 DEF Sessions, Steps
  <2>5. NoSums \in Sums /\ \A f \in Names : NoSums[f] = Absent
    BY DEF NoSums, Sums, FileContents
  <2>6. PrepTypes'
    BY <1>1, <2>1, <2>4, <2>5 DEF PrepInvariant, PrepTypes
  <2>7. ManifestTells'
    BY <2>1, <2>5 DEF ManifestTells, Told, Validates, Absent
  <2>8. SessionTells'
    BY <1>1, <1>3, <2>2, <2>4 DEF PrepInvariant, SessionTells, Told, Validates
  <2> QED
    BY <1>2, <2>6, <2>7, <2>8 DEF PrepInvariant
<1>4. CASE ~Validates(preparing.sums)
  <2>1. preparing' = NoPreparation /\ UNCHANGED manifest
    BY <1>4 DEF Validate, Raise
  <2> QED
    BY <1>1, <1>2, <2>1, EndedSessions DEF PrepInvariant, PrepTypes, ManifestTells, Told, Validates
<1> QED
  BY <1>3, <1>4

LEMMA WriteManifestStep ==
  ASSUME PrepInvariant, WriteManifest
  PROVE  PrepInvariant'
<1>1. /\ preparing.step = "writing" /\ manifest' = [is |-> "whole", sums |-> preparing.sums]
      /\ preparing' = NoPreparation /\ UNCHANGED <<kind, placed, fetched>>
  BY DEF WriteManifest
<1>2. preparing \in Sessions /\ preparing # NoPreparation
  BY <1>1, SessionIsTyped DEF Steps
<1>3. preparing.sums \in Sums /\ Told(preparing.sums) /\ Validates(preparing.sums)
  BY <1>1, <1>2 DEF PrepInvariant, SessionTells, Sessions
<1>4. PrepTypes'
  BY <1>1, <1>3 DEF PrepInvariant, PrepTypes
<1>5. ManifestTells'
  BY <1>1, <1>3 DEF ManifestTells, Told, Validates
<1>6. FetchedAreGood'
  BY <1>1 DEF PrepInvariant, FetchedAreGood
<1> QED
  BY <1>1, <1>4, <1>5, <1>6, EndedSessions DEF PrepInvariant

LEMMA DieStep ==
  ASSUME PrepInvariant, Die
  PROVE  PrepInvariant'
BY EndedSessions DEF Die, PrepInvariant, PrepTypes, ManifestTells, Told, Validates, FetchedAreGood

LEMMA PrepInvariantKept ==
  ASSUME PrepInvariant, [Prepare]_prepVars
  PROVE  PrepInvariant'
<1>1. CASE Prepare
  BY <1>1, BeginStep, CopyStep, RejectStep, ValidateStep, WriteManifestStep, DieStep, Zenon
     DEF Prepare
<1>2. CASE UNCHANGED prepVars
  BY <1>2 DEF prepVars, PrepInvariant, PrepTypes, ManifestTells, SessionTells, Told, Validates,
       FetchedAreGood
<1> QED
  BY <1>1, <1>2

-----------------------------------------------------------------------------
\* Wherever sessions end, a manifest's checksums are those of files in their place which validated
\* together, and what was fetched under an expected checksum has it (datasets/miracl_prepare.py,
\* ragtruth_prepare.py).
THEOREM PreparationTheorem == PreparationSpec => []PreparedDataAreWhole
<1>1. PrepInvariant => PreparedDataAreWhole
  BY DEF PrepInvariant, ManifestTells, Told, Validates, FetchedAreGood, PreparedDataAreWhole
<1> QED
  BY PrepInvariantAtStart, PrepInvariantKept, <1>1, PTL DEF PreparationSpec

-----------------------------------------------------------------------------
(* What the ledger of the remote pilot tells of what was sent *)

PilotOutcomes == [PilotIds -> {"NONE", "SUCCESS", "FAILED"}]

Statuses == {"NOT_RUN", "NOT_RUN_PRIMARY_INCOMPLETE", "PRIMARY_INCOMPLETE",
             "RATE_LIMIT_PRESSURE", "COMPLETE"}
Written == [written : {TRUE}, complete : BOOLEAN, pressure : BOOLEAN, external : Nat,
            base : Nat, resumed : Nat, repair : Nat, consistency : Statuses]

PreflightSessions == [mode : {"preflight"}, used : Nat]
Runs == [mode : {"run"}, todo : SUBSET PilotIds, used : Nat, limited : BOOLEAN,
         base : Nat, lifetime : Nat, resumed : Nat]
Repeats == [mode : {"repeat"}, round : 1..2, todo : SUBSET PilotIds, used : Nat, limited : BOOLEAN]

LedgerTypes ==
  /\ artifact \in [written : BOOLEAN, ready : BOOLEAN, repair : Nat]
  /\ ledger \in {NoLedger} \cup Written
  /\ outcomes \in PilotOutcomes
  /\ repeats \in [1..2 -> PilotOutcomes]
  /\ asking \in {NoAsking} \cup PreflightSessions \cup Runs \cup Repeats
  /\ sent \in Nat
  /\ unbooked \in Nat

\* What the files say was sent, and what the session at work has sent beyond it.
Booked == IF ledger.written THEN ledger.external ELSE artifact.repair
Using  == IF asking = NoAsking THEN 0 ELSE asking.used

EveryRequestCounts == sent = unbooked + Booked + Using

\* A run starts from what is booked and never asks for a success again.
RunKnows ==
  asking.mode = "run" =>
    /\ asking.lifetime = Booked
    /\ asking.base + asking.resumed <= asking.lifetime
    /\ asking.todo \subseteq Pending(outcomes)

\* A report's parts fit in its whole, and it is complete over a complete state file only.
LedgerIsWhole ==
  ledger.written =>
    /\ ledger.base + ledger.resumed <= ledger.external
    /\ ledger.complete => Pending(outcomes) = {}

\* A consistency session works on a complete report, and what it has not repeated is to do.
RoundKnows ==
  asking.mode = "repeat" =>
    /\ ledger.written
    /\ ledger.complete
    /\ \A i \in PilotIds :
         /\ asking.round = 1 => repeats[1][i] # "NONE" \/ i \in asking.todo
         /\ asking.round = 2 => repeats[1][i] # "NONE"
         /\ asking.round = 2 => repeats[2][i] # "NONE" \/ i \in asking.todo

RepeatsAreMade ==
  ledger.written /\ ledger.consistency = "COMPLETE" =>
    /\ ledger.complete
    /\ \A r \in 1..2, i \in PilotIds : repeats[r][i] # "NONE"

LedgerInvariant ==
  /\ LedgerTypes
  /\ EveryRequestCounts
  /\ RunKnows
  /\ LedgerIsWhole
  /\ RoundKnows
  /\ RepeatsAreMade

-----------------------------------------------------------------------------
\* The kinds of session, told apart by their mode.
LEMMA ModeTells ==
  ASSUME LedgerTypes
  PROVE  /\ asking.mode = "preflight" => asking \in PreflightSessions
         /\ asking.mode = "run" => asking \in Runs
         /\ asking.mode = "repeat" => asking \in Repeats
         /\ asking.mode = "idle" <=> asking = NoAsking
         /\ asking # NoAsking => asking.used \in Nat
BY DEF LedgerTypes, PreflightSessions, Runs, Repeats, NoAsking

LEMMA LedgerTells ==
  ASSUME LedgerTypes
  PROVE  /\ \/ ledger \in Written /\ ledger.written = TRUE
            \/ ledger = NoLedger /\ ledger.written = FALSE
         /\ ledger.written = TRUE => Booked = ledger.external
         /\ ledger.written = FALSE => Booked = artifact.repair
         /\ Booked \in Nat
         /\ artifact.repair \in Nat
<1>1. \/ ledger \in Written /\ ledger.written = TRUE
      \/ ledger = NoLedger /\ ledger.written = FALSE
  <2>1. CASE ledger \in Written
    <3>1. ledger.written \in {TRUE}
      BY <2>1 DEF Written
    <3> QED
      BY <2>1, <3>1
  <2>2. CASE ledger = NoLedger
    BY <2>2, Zenon DEF NoLedger
  <2> QED
    BY <2>1, <2>2, Zenon DEF LedgerTypes
<1>2. artifact.repair \in Nat
  BY DEF LedgerTypes
<1>3. CASE ledger \in Written /\ ledger.written = TRUE
  <2>1. Booked = ledger.external
    BY <1>3 DEF Booked
  <2>2. ledger.external \in Nat
    BY <1>3 DEF Written
  <2> QED
    BY <1>2, <1>3, <2>1, <2>2
<1>4. CASE ledger = NoLedger /\ ledger.written = FALSE
  <2>1. Booked = artifact.repair
    BY <1>4 DEF Booked
  <2> QED
    BY <1>2, <1>4, <2>1
<1> QED
  BY <1>1, <1>3, <1>4

LEMMA LedgerInvariantAtStart == LedgerInit => LedgerInvariant
BY DEF LedgerInit, LedgerInvariant, LedgerTypes, EveryRequestCounts, RunKnows, LedgerIsWhole,
       RoundKnows, RepeatsAreMade, Booked, Using, NoLedger, NoAsking, NoOutcomes, PilotOutcomes

-----------------------------------------------------------------------------
(* PreflightSessions *)

\* What a preflight leaves alone: all but the artifact, the history and the session.
LEMMA BeginPreflightStep ==
  ASSUME LedgerInvariant, BeginPreflight
  PROVE  LedgerInvariant'
<1>1. /\ asking = NoAsking /\ asking' = [mode |-> "preflight", used |-> 2] /\ sent' = sent + 2
      /\ UNCHANGED <<artifact, ledger, outcomes, repeats, unbooked>>
  BY DEF BeginPreflight, Idle
<1>2. asking' \in PreflightSessions /\ asking'.mode = "preflight" /\ asking'.used = 2 /\ asking' # NoAsking
  BY <1>1 DEF PreflightSessions, NoAsking
<1>3. LedgerTypes'
  BY <1>1, <1>2 DEF LedgerInvariant, LedgerTypes
<1>4. EveryRequestCounts'
  <2>1. Booked' = Booked /\ Using = 0 /\ Using' = 2
    BY <1>1, <1>2 DEF Booked, Using
  <2>2. Booked \in Nat /\ sent \in Nat /\ unbooked \in Nat
    BY LedgerTells DEF LedgerInvariant, LedgerTypes
  <2> QED
    BY <1>1, <2>1, <2>2 DEF LedgerInvariant, EveryRequestCounts
<1>5. RunKnows' /\ RoundKnows'
  BY <1>2 DEF RunKnows, RoundKnows
<1>6. LedgerIsWhole' /\ RepeatsAreMade'
  BY <1>1 DEF LedgerInvariant, LedgerIsWhole, RepeatsAreMade, Pending
<1> QED
  BY <1>3, <1>4, <1>5, <1>6 DEF LedgerInvariant

LEMMA EndPreflightStep ==
  ASSUME LedgerInvariant, EndPreflight
  PROVE  LedgerInvariant'
<1>1. PICK ready \in BOOLEAN :
        artifact' = [written |-> TRUE, ready |-> ready, repair |-> Repair(asking.used)]
  BY DEF EndPreflight
<1>2. /\ asking.mode = "preflight" /\ asking' = NoAsking
      /\ unbooked' = IF ledger.written THEN unbooked + asking.used ELSE unbooked
      /\ UNCHANGED <<ledger, outcomes, repeats, sent>>
  BY DEF EndPreflight
<1>3. asking.used \in Nat /\ asking # NoAsking /\ artifact.repair \in Nat /\ unbooked \in Nat
  BY <1>2, ModeTells, LedgerTells DEF LedgerInvariant, LedgerTypes, NoAsking
<1>4. artifact' \in [written : BOOLEAN, ready : BOOLEAN, repair : Nat]
      /\ artifact'.repair = artifact.repair + asking.used
  BY <1>1, <1>3 DEF Repair
<1>5. LedgerTypes'
  BY <1>2, <1>3, <1>4 DEF LedgerInvariant, LedgerTypes
<1>6. EveryRequestCounts'
  <2>1. sent = unbooked + Booked + asking.used
    BY <1>3 DEF LedgerInvariant, EveryRequestCounts, Using
  <2>2. Using' = 0
    BY <1>2 DEF Using
  <2>3. CASE ledger.written = TRUE
    BY <1>2, <1>3, <2>1, <2>2, <2>3, LedgerTells DEF EveryRequestCounts, Booked, LedgerInvariant
  <2>4. CASE ledger.written = FALSE
    BY <1>2, <1>3, <1>4, <2>1, <2>2, <2>4 DEF EveryRequestCounts, Booked
  <2> QED
    BY <2>3, <2>4, LedgerTells DEF LedgerInvariant
<1>7. RunKnows' /\ RoundKnows'
  BY <1>2 DEF RunKnows, RoundKnows, NoAsking
<1>8. LedgerIsWhole' /\ RepeatsAreMade'
  BY <1>2 DEF LedgerInvariant, LedgerIsWhole, RepeatsAreMade, Pending
<1> QED
  BY <1>5, <1>6, <1>7, <1>8 DEF LedgerInvariant

-----------------------------------------------------------------------------
(* Runs *)

LEMMA BeginRunStep ==
  ASSUME LedgerInvariant, BeginRun
  PROVE  LedgerInvariant'
<1> DEFINE base     == IF ledger.written THEN ledger.base ELSE artifact.repair
           lifetime == IF ledger.written THEN ledger.external ELSE base
           resumed  == IF ledger.written THEN ledger.resumed ELSE lifetime - base
<1>1. /\ asking = NoAsking /\ lifetime >= base
      /\ asking' = [mode |-> "run", todo |-> Pending(outcomes), used |-> 0, limited |-> FALSE,
                    base |-> base, lifetime |-> lifetime, resumed |-> resumed]
      /\ UNCHANGED <<artifact, ledger, outcomes, repeats, sent, unbooked>>
  BY DEF BeginRun, Idle
<1>2. base \in Nat /\ lifetime \in Nat /\ resumed \in Nat /\ lifetime = Booked
      /\ base + resumed <= lifetime
  <2>1. CASE ledger.written = TRUE
    <3>1. ledger \in Written /\ base = ledger.base /\ lifetime = ledger.external
          /\ resumed = ledger.resumed /\ Booked = ledger.external
      BY <2>1, LedgerTells DEF LedgerInvariant, NoLedger
    <3>2. ledger.base + ledger.resumed <= ledger.external
      BY <2>1 DEF LedgerInvariant, LedgerIsWhole
    <3> QED
      BY <3>1, <3>2 DEF Written
  <2>2. CASE ledger.written = FALSE
    <3>1. base = artifact.repair /\ lifetime = artifact.repair /\ resumed = base - base
          /\ Booked = artifact.repair /\ artifact.repair \in Nat
      BY <2>2, LedgerTells DEF LedgerInvariant
    <3> QED
      BY <3>1
  <2> QED
    BY <2>1, <2>2, LedgerTells DEF LedgerInvariant
<1> HIDE DEF base, lifetime, resumed
<1>3. /\ asking' \in Runs /\ asking'.mode = "run" /\ asking'.used = 0 /\ asking' # NoAsking
      /\ asking'.todo = Pending(outcomes) /\ asking'.lifetime = lifetime /\ asking'.base = base
      /\ asking'.resumed = resumed
  BY <1>1, <1>2 DEF Runs, Pending, NoAsking
<1>4. LedgerTypes'
  BY <1>1, <1>3 DEF LedgerInvariant, LedgerTypes
<1>5. EveryRequestCounts'
  BY <1>1, <1>3 DEF LedgerInvariant, EveryRequestCounts, Booked, Using
<1>6. RunKnows'
  BY <1>1, <1>2, <1>3 DEF RunKnows, Booked, Pending
<1>7. RoundKnows'
  BY <1>3 DEF RoundKnows
<1>8. LedgerIsWhole' /\ RepeatsAreMade'
  BY <1>1 DEF LedgerInvariant, LedgerIsWhole, RepeatsAreMade, Pending
<1> QED
  BY <1>4, <1>5, <1>6, <1>7, <1>8 DEF LedgerInvariant

\* A request of a run, answered or not: one example less to do, whose outcome is known.
LEMMA RunAsksStep ==
  ASSUME LedgerInvariant, asking.mode = "run",
         NEW todo \in SUBSET asking.todo, NEW cost \in Nat, NEW limited \in BOOLEAN,
         NEW i \in asking.todo \ todo, NEW outcome \in {"SUCCESS", "FAILED"},
         asking' = [asking EXCEPT !.todo = todo, !.used = @ + cost, !.limited = limited],
         sent' = sent + cost, outcomes' = [outcomes EXCEPT ![i] = outcome],
         UNCHANGED <<artifact, ledger, repeats, unbooked>>
  PROVE  LedgerInvariant'
<1>1. asking \in Runs /\ asking # NoAsking
  BY ModeTells DEF LedgerInvariant, NoAsking
<1>2. asking' = [mode |-> "run", todo |-> todo, used |-> asking.used + cost, limited |-> limited,
                 base |-> asking.base, lifetime |-> asking.lifetime, resumed |-> asking.resumed]
  BY <1>1 DEF Runs
<1>3. asking.used \in Nat /\ asking.todo \in SUBSET PilotIds /\ asking.base \in Nat
      /\ asking.lifetime \in Nat /\ asking.resumed \in Nat
  BY <1>1 DEF Runs
<1>4. /\ asking' \in Runs /\ asking'.mode = "run" /\ asking' # NoAsking
      /\ asking'.used = asking.used + cost /\ asking'.todo = todo
      /\ asking'.lifetime = asking.lifetime /\ asking'.base = asking.base
      /\ asking'.resumed = asking.resumed
  BY <1>2, <1>3 DEF Runs, NoAsking
<1>5. i \in PilotIds /\ i \in Pending(outcomes)
  BY <1>3 DEF LedgerInvariant, RunKnows
<1>6. outcomes \in PilotOutcomes /\ outcomes' \in PilotOutcomes /\ sent \in Nat /\ sent' \in Nat
      /\ unbooked \in Nat
  BY <1>5 DEF LedgerInvariant, LedgerTypes, PilotOutcomes
<1>7. LedgerTypes'
  BY <1>4, <1>6 DEF LedgerInvariant, LedgerTypes
<1>8. EveryRequestCounts'
  <2>1. sent = unbooked + Booked + asking.used /\ Booked' = Booked /\ Booked \in Nat
        /\ Using' = asking.used + cost
    BY <1>1, <1>4, LedgerTells DEF LedgerInvariant, EveryRequestCounts, Using, Booked
  <2> QED
    BY <1>3, <1>6, <2>1 DEF EveryRequestCounts
<1>9. RunKnows'
  <2>1. \A j \in PilotIds : j # i => outcomes'[j] = outcomes[j]
    BY <1>5, <1>6 DEF PilotOutcomes
  <2>2. todo \subseteq Pending(outcomes)
    BY DEF LedgerInvariant, RunKnows
  <2>3. \A j \in todo : j \in PilotIds /\ j # i /\ outcomes[j] # "SUCCESS"
    BY <2>2 DEF Pending
  <2>4. todo \subseteq Pending(outcomes')
    BY <2>1, <2>3 DEF Pending
  <2>5. Pending(outcomes)' = Pending(outcomes')
    BY DEF Pending
  <2> QED
    BY <1>4, <2>4, <2>5 DEF LedgerInvariant, RunKnows, Booked
<1>10. RoundKnows'
  BY <1>4 DEF RoundKnows
<1>11. LedgerIsWhole' /\ RepeatsAreMade'
  <2>1. ledger.written => ~ledger.complete
    BY <1>5 DEF LedgerInvariant, LedgerIsWhole
  <2> QED
    BY <2>1 DEF LedgerInvariant, LedgerIsWhole, RepeatsAreMade
<1> QED
  BY <1>7, <1>8, <1>9, <1>10, <1>11 DEF LedgerInvariant

LEMMA AskPrimaryStep ==
  ASSUME LedgerInvariant, AskPrimary
  PROVE  LedgerInvariant'
<1>1. PICK i \in asking.todo, outcome \in {"SUCCESS", "FAILED"}, cost \in 1..2 :
        Ask(i, cost) /\ outcomes' = [outcomes EXCEPT ![i] = outcome]
  BY DEF AskPrimary
<1> DEFINE todo == asking.todo \ {i}
           limited == asking.limited \/ cost > 1
<1>2. asking.mode = "run" /\ asking \in Runs /\ UNCHANGED <<artifact, ledger, repeats, unbooked>>
  BY ModeTells DEF AskPrimary, LedgerInvariant
<1>3. todo \in SUBSET asking.todo /\ i \in asking.todo \ todo /\ limited \in BOOLEAN /\ cost \in Nat
  OBVIOUS
<1>4. asking' = [asking EXCEPT !.todo = todo, !.used = @ + cost, !.limited = limited]
      /\ sent' = sent + cost
  BY <1>1 DEF Ask
<1> HIDE DEF todo, limited
<1> QED
  BY <1>1, <1>2, <1>3, <1>4, RunAsksStep

LEMMA StopRunStep ==
  ASSUME LedgerInvariant, StopRun
  PROVE  LedgerInvariant'
<1>1. PICK i \in asking.todo : outcomes' = [outcomes EXCEPT ![i] = "FAILED"]
  BY DEF StopRun
<1>2. /\ asking.mode = "run" /\ UNCHANGED <<artifact, ledger, repeats, unbooked>>
      /\ asking' = [asking EXCEPT !.todo = {}, !.used = @ + 1, !.limited = TRUE]
      /\ sent' = sent + 1
  BY DEF StopRun
<1>3. {} \in SUBSET asking.todo /\ i \in asking.todo \ {}
  OBVIOUS
<1> QED
  BY <1>1, <1>2, <1>3, RunAsksStep

\* The report books what the session has sent, and calls the file complete when it is.
LEMMA ReportRunStep ==
  ASSUME LedgerInvariant, ReportRun
  PROVE  LedgerInvariant'
<1> DEFINE complete == Pending(outcomes) = {}
           repair == (IF ledger.written THEN ledger.repair ELSE artifact.repair) + asking.used
           consistency == IF complete THEN "NOT_RUN" ELSE "NOT_RUN_PRIMARY_INCOMPLETE"
<1>1. /\ asking.mode = "run" /\ asking' = NoAsking
      /\ ledger' = [written |-> TRUE, complete |-> complete, pressure |-> asking.limited,
                    external |-> asking.lifetime + asking.used, base |-> asking.base,
                    resumed |-> asking.resumed + asking.used, repair |-> repair,
                    consistency |-> consistency]
      /\ UNCHANGED <<artifact, outcomes, repeats, sent, unbooked>>
  BY DEF ReportRun, External
<1>2. asking \in Runs /\ asking # NoAsking
  BY <1>1, ModeTells DEF LedgerInvariant, NoAsking
<1>3. asking.used \in Nat /\ asking.limited \in BOOLEAN /\ asking.base \in Nat
      /\ asking.lifetime \in Nat /\ asking.resumed \in Nat
  BY <1>2 DEF Runs
<1>4. repair \in Nat /\ complete \in BOOLEAN
  <2>1. ledger.written = TRUE => ledger.repair \in Nat
    BY LedgerTells DEF LedgerInvariant, Written, NoLedger
  <2>2. ledger.written = FALSE => artifact.repair \in Nat
    BY LedgerTells DEF LedgerInvariant
  <2>3. ledger.written = TRUE \/ ledger.written = FALSE
    BY LedgerTells DEF LedgerInvariant
  <2>4. CASE ledger.written = TRUE
    BY <1>3, <2>1, <2>4
  <2>5. CASE ledger.written = FALSE
    BY <1>3, <2>2, <2>5
  <2>6. repair \in Nat
    BY <2>3, <2>4, <2>5
  <2>7. complete \in BOOLEAN
    OBVIOUS
  <2> HIDE DEF complete, repair
  <2> QED
    BY <2>6, <2>7, Zenon
<1>5. consistency \in Statuses /\ consistency # "COMPLETE"
  BY DEF Statuses
<1>6. asking.base + asking.resumed <= asking.lifetime /\ asking.lifetime = Booked
  BY <1>1 DEF LedgerInvariant, RunKnows
<1>7. complete => Pending(outcomes) = {}
  OBVIOUS
<1> HIDE DEF complete, repair, consistency
<1>8. /\ ledger' \in Written /\ ledger'.written = TRUE /\ ledger'.complete = complete
      /\ ledger'.external = asking.lifetime + asking.used /\ ledger'.base = asking.base
      /\ ledger'.resumed = asking.resumed + asking.used /\ ledger'.consistency = consistency
  BY <1>1, <1>3, <1>4, <1>5 DEF Written
<1>9. LedgerTypes'
  BY <1>1, <1>8 DEF LedgerInvariant, LedgerTypes
<1>10. EveryRequestCounts'
  <2>1. Booked' = asking.lifetime + asking.used /\ Using' = 0
    BY <1>1, <1>8 DEF Booked, Using
  <2>2. sent = unbooked + asking.lifetime + asking.used /\ unbooked \in Nat
    BY <1>2, <1>6 DEF LedgerInvariant, EveryRequestCounts, Using, LedgerTypes
  <2> QED
    BY <1>1, <1>3, <2>1, <2>2 DEF EveryRequestCounts
<1>11. RunKnows' /\ RoundKnows'
  BY <1>1 DEF RunKnows, RoundKnows, NoAsking
<1>12. LedgerIsWhole'
  <2>1. ledger'.base + ledger'.resumed <= ledger'.external
    BY <1>3, <1>6, <1>8
  <2>2. ledger'.complete => Pending(outcomes)' = {}
    BY <1>1, <1>7, <1>8 DEF Pending
  <2> QED
    BY <2>1, <2>2 DEF LedgerIsWhole
<1>13. RepeatsAreMade'
  BY <1>5, <1>8 DEF RepeatsAreMade
<1> QED
  BY <1>9, <1>10, <1>11, <1>12, <1>13 DEF LedgerInvariant

-----------------------------------------------------------------------------
(* Consistency sessions *)

LEMMA BeginConsistencyStep ==
  ASSUME LedgerInvariant, BeginConsistency
  PROVE  LedgerInvariant'
<1>1. /\ asking = NoAsking /\ ledger.written = TRUE /\ ledger \in Written
      /\ UNCHANGED <<artifact, outcomes, repeats, sent, unbooked>>
  BY LedgerTells DEF BeginConsistency, Idle, LedgerInvariant
<1>2. CASE Deferred # "none"
  <2>1. ledger' = [ledger EXCEPT !.consistency = Deferred] /\ asking' = NoAsking
    BY <1>1, <1>2 DEF BeginConsistency
  <2>2. ledger.complete \in BOOLEAN /\ ledger.pressure \in BOOLEAN
    BY <1>1 DEF Written
  <2>3. Deferred \in Statuses /\ Deferred # "COMPLETE"
    <3>1. Deferred \in {"PRIMARY_INCOMPLETE", "RATE_LIMIT_PRESSURE", "none"}
      BY Zenon DEF Deferred
    <3>2. \A status \in {"PRIMARY_INCOMPLETE", "RATE_LIMIT_PRESSURE", "none"} :
            status \in Statuses \cup {"none"} /\ status # "COMPLETE"
      BY DEF Statuses
    <3>3. Deferred \in Statuses \cup {"none"} /\ Deferred # "COMPLETE"
      BY <3>1, <3>2, Zenon
    <3> QED
      BY <1>2, <3>3, Zenon
  <2>4. /\ ledger' \in Written /\ ledger'.written = TRUE /\ ledger'.complete = ledger.complete
        /\ ledger'.external = ledger.external /\ ledger'.base = ledger.base
        /\ ledger'.resumed = ledger.resumed /\ ledger'.consistency = Deferred
    BY <1>1, <2>1, <2>3 DEF Written
  <2>5. LedgerTypes'
    BY <1>1, <2>1, <2>4 DEF LedgerInvariant, LedgerTypes
  <2>6. EveryRequestCounts'
    <3>1. Booked' = Booked /\ Using' = Using
      BY <1>1, <2>1, <2>4 DEF Booked, Using
    <3> QED
      BY <1>1, <3>1 DEF LedgerInvariant, EveryRequestCounts
  <2>7. RunKnows' /\ RoundKnows'
    BY <2>1 DEF RunKnows, RoundKnows, NoAsking
  <2>8. LedgerIsWhole' /\ RepeatsAreMade'
    BY <1>1, <2>3, <2>4 DEF LedgerInvariant, LedgerIsWhole, RepeatsAreMade, Pending
  <2> QED
    BY <2>5, <2>6, <2>7, <2>8 DEF LedgerInvariant
<1>3. CASE Deferred = "none"
  <2>1. ledger' = ledger
        /\ asking' = [mode |-> "repeat", round |-> 1, todo |-> Pending(repeats[1]), used |-> 0,
                      limited |-> FALSE]
    BY <1>3 DEF BeginConsistency
  <2>2. ledger.complete
    <3>1. ledger.complete \in BOOLEAN /\ ledger.pressure \in BOOLEAN
      BY <1>1 DEF Written
    <3> QED
      BY <1>3, <3>1 DEF Deferred
  <2>3. /\ asking' \in Repeats /\ asking'.mode = "repeat" /\ asking'.used = 0
        /\ asking' # NoAsking /\ asking'.round = 1 /\ asking'.todo = Pending(repeats[1])
    BY <2>1 DEF Repeats, Pending, NoAsking
  <2>4. LedgerTypes'
    BY <1>1, <2>1, <2>3 DEF LedgerInvariant, LedgerTypes
  <2>5. EveryRequestCounts'
    BY <1>1, <2>1, <2>3 DEF LedgerInvariant, EveryRequestCounts, Booked, Using
  <2>6. RunKnows'
    BY <2>3 DEF RunKnows
  <2>7. RoundKnows'
    <3>1. \A i \in PilotIds : repeats[1][i] # "NONE" \/ i \in Pending(repeats[1])
      BY DEF Pending
    <3> QED
      BY <1>1, <2>1, <2>2, <2>3, <3>1 DEF RoundKnows
  <2>8. LedgerIsWhole' /\ RepeatsAreMade'
    BY <1>1, <2>1 DEF LedgerInvariant, LedgerIsWhole, RepeatsAreMade, Pending
  <2> QED
    BY <2>4, <2>5, <2>6, <2>7, <2>8 DEF LedgerInvariant
<1> QED
  BY <1>2, <1>3

\* What a repeat writes down of one example: it is repeated, and nothing else is less so.
LEMMA RepeatIsWritten ==
  ASSUME LedgerInvariant, asking.mode = "repeat", NEW i \in asking.todo,
         NEW outcome \in {"SUCCESS", "FAILED"},
         repeats' = [repeats EXCEPT ![asking.round][i] = outcome]
  PROVE  /\ repeats' \in [1..2 -> PilotOutcomes]
         /\ repeats'[asking.round][i] # "NONE"
         /\ \A r \in 1..2, j \in PilotIds : repeats[r][j] # "NONE" => repeats'[r][j] # "NONE"
         /\ \A r \in 1..2, j \in PilotIds :
              r # asking.round \/ j # i => repeats'[r][j] = repeats[r][j]
<1>1. repeats \in [1..2 -> PilotOutcomes] /\ asking.round \in 1..2 /\ i \in PilotIds
  BY ModeTells DEF LedgerInvariant, LedgerTypes, Repeats
<1>2. \A r \in 1..2 : repeats[r] \in PilotOutcomes
  BY <1>1
<1>3. repeats' = [r \in 1..2 |-> IF r = asking.round THEN [repeats[r] EXCEPT ![i] = outcome]
                                 ELSE repeats[r]]
  BY <1>1
<1>4. \A r \in 1..2 : repeats'[r] = IF r = asking.round THEN [repeats[r] EXCEPT ![i] = outcome]
                                    ELSE repeats[r]
  BY <1>3
<1>5. \A r \in 1..2 : repeats'[r] \in PilotOutcomes
  BY <1>1, <1>2, <1>4 DEF PilotOutcomes
<1>6. repeats' \in [1..2 -> PilotOutcomes]
  BY <1>3, <1>5
<1> QED
  BY <1>1, <1>2, <1>4, <1>6 DEF PilotOutcomes

LEMMA AskAgainStep ==
  ASSUME LedgerInvariant, AskAgain
  PROVE  LedgerInvariant'
<1>1. PICK i \in asking.todo, outcome \in {"SUCCESS", "FAILED"} :
        Ask(i, 1) /\ repeats' = [repeats EXCEPT ![asking.round][i] = outcome]
  BY DEF AskAgain
<1>2. /\ asking.mode = "repeat" /\ asking \in Repeats /\ asking # NoAsking
      /\ UNCHANGED <<artifact, ledger, outcomes, unbooked>>
  BY ModeTells DEF AskAgain, LedgerInvariant, NoAsking
<1>3. asking.used \in Nat /\ asking.todo \in SUBSET PilotIds /\ asking.round \in 1..2
      /\ asking.limited \in BOOLEAN
  BY <1>2 DEF Repeats
<1>4. asking' = [mode |-> "repeat", round |-> asking.round, todo |-> asking.todo \ {i},
                 used |-> asking.used + 1, limited |-> asking.limited \/ 1 > 1]
      /\ sent' = sent + 1
  BY <1>1, <1>2 DEF Ask, Repeats
<1>5. /\ asking' \in Repeats /\ asking'.mode = "repeat" /\ asking' # NoAsking
      /\ asking'.used = asking.used + 1 /\ asking'.todo = asking.todo \ {i}
      /\ asking'.round = asking.round
  BY <1>3, <1>4 DEF Repeats, NoAsking
<1>6. sent \in Nat /\ sent' \in Nat /\ unbooked \in Nat
  BY <1>4 DEF LedgerInvariant, LedgerTypes
<1>7. LedgerTypes'
  BY <1>1, <1>2, <1>5, <1>6, RepeatIsWritten DEF LedgerInvariant, LedgerTypes
<1>8. EveryRequestCounts'
  <2>1. sent = unbooked + Booked + asking.used /\ Booked' = Booked /\ Booked \in Nat
        /\ Using' = asking.used + 1
    BY <1>2, <1>5, LedgerTells DEF LedgerInvariant, EveryRequestCounts, Using, Booked
  <2> QED
    BY <1>2, <1>3, <1>4, <1>6, <2>1 DEF EveryRequestCounts
<1>9. RunKnows'
  BY <1>5 DEF RunKnows
<1>10. RoundKnows'
  <2> SUFFICES ASSUME NEW j \in PilotIds
               PROVE  /\ asking.round = 1 => repeats'[1][j] # "NONE" \/ j \in asking.todo \ {i}
                      /\ asking.round = 2 => repeats'[1][j] # "NONE"
                      /\ asking.round = 2 => repeats'[2][j] # "NONE" \/ j \in asking.todo \ {i}
    BY <1>2, <1>5 DEF LedgerInvariant, RoundKnows
  <2>1. /\ asking.round = 1 => repeats[1][j] # "NONE" \/ j \in asking.todo
        /\ asking.round = 2 => repeats[1][j] # "NONE"
        /\ asking.round = 2 => repeats[2][j] # "NONE" \/ j \in asking.todo
    BY <1>2 DEF LedgerInvariant, RoundKnows
  <2>2. /\ repeats'[asking.round][i] # "NONE"
        /\ \A r \in 1..2 : repeats[r][j] # "NONE" => repeats'[r][j] # "NONE"
    BY <1>1, <1>2, RepeatIsWritten
  <2> QED
    BY <1>3, <2>1, <2>2
<1>11. LedgerIsWhole'
  BY <1>2 DEF LedgerInvariant, LedgerIsWhole, Pending
<1>12. RepeatsAreMade'
  BY <1>1, <1>2, RepeatIsWritten DEF LedgerInvariant, RepeatsAreMade
<1> QED
  BY <1>7, <1>8, <1>9, <1>10, <1>11, <1>12 DEF LedgerInvariant

LEMMA NextRoundStep ==
  ASSUME LedgerInvariant, NextRound
  PROVE  LedgerInvariant'
<1>1. /\ asking.mode = "repeat" /\ asking \in Repeats /\ asking # NoAsking
      /\ asking.todo = {} /\ asking.round = 1
      /\ asking' = [asking EXCEPT !.round = 2, !.todo = Pending(repeats[2])]
      /\ UNCHANGED <<artifact, ledger, outcomes, repeats, sent, unbooked>>
  BY ModeTells DEF NextRound, LedgerInvariant, NoAsking
<1>2. asking' = [mode |-> "repeat", round |-> 2, todo |-> Pending(repeats[2]),
                 used |-> asking.used, limited |-> asking.limited]
  BY <1>1 DEF Repeats
<1>3. /\ asking' \in Repeats /\ asking'.mode = "repeat" /\ asking' # NoAsking
      /\ asking'.used = asking.used /\ asking'.todo = Pending(repeats[2]) /\ asking'.round = 2
  <2>1. asking.used \in Nat /\ asking.limited \in BOOLEAN
    BY <1>1 DEF Repeats
  <2>2. Pending(repeats[2]) \in SUBSET PilotIds
    BY DEF Pending
  <2> HIDE DEF Pending
  <2> QED
    BY <1>2, <2>1, <2>2 DEF Repeats, NoAsking
<1>4. LedgerTypes'
  BY <1>1, <1>3 DEF LedgerInvariant, LedgerTypes
<1>5. EveryRequestCounts'
  BY <1>1, <1>3 DEF LedgerInvariant, EveryRequestCounts, Booked, Using
<1>6. RunKnows'
  BY <1>3 DEF RunKnows
<1>7. RoundKnows'
  <2>1. \A i \in PilotIds : repeats[1][i] # "NONE"
    BY <1>1 DEF LedgerInvariant, RoundKnows
  <2>2. \A i \in PilotIds : repeats[2][i] # "NONE" \/ i \in Pending(repeats[2])
    BY DEF Pending
  <2> QED
    BY <1>1, <1>3, <2>1, <2>2 DEF LedgerInvariant, RoundKnows
<1>8. LedgerIsWhole' /\ RepeatsAreMade'
  BY <1>1 DEF LedgerInvariant, LedgerIsWhole, RepeatsAreMade, Pending
<1> QED
  BY <1>4, <1>5, <1>6, <1>7, <1>8 DEF LedgerInvariant

\* The ledger of a consistency session, whole or stopped, differs in three fields.
LEMMA ConsistencyIsBooked ==
  ASSUME LedgerInvariant, asking.mode = "repeat", NEW cost \in Nat, NEW repair \in Nat,
         NEW status \in Statuses,
         ledger' = [written |-> TRUE, complete |-> ledger.complete, pressure |-> ledger.pressure,
                    external |-> ledger.external + cost, base |-> ledger.base,
                    resumed |-> ledger.resumed, repair |-> ledger.repair + repair,
                    consistency |-> status]
  PROVE  /\ ledger' \in Written /\ ledger'.written = TRUE /\ ledger'.complete = ledger.complete
         /\ ledger'.external = ledger.external + cost /\ ledger'.base = ledger.base
         /\ ledger'.resumed = ledger.resumed /\ ledger'.consistency = status
         /\ ledger.complete /\ Booked' = Booked + cost /\ Booked \in Nat
         /\ ledger.base + ledger.resumed <= ledger.external
         /\ ledger'.base + ledger'.resumed <= ledger'.external
<1>1. ledger \in Written /\ ledger.complete /\ Booked = ledger.external
  BY LedgerTells DEF LedgerInvariant, RoundKnows, NoLedger
<1>2. ledger.external \in Nat /\ ledger.repair \in Nat /\ ledger.base \in Nat
      /\ ledger.resumed \in Nat
  BY <1>1 DEF Written
<1>3. /\ ledger' \in Written /\ ledger'.written = TRUE /\ ledger'.complete = ledger.complete
      /\ ledger'.external = ledger.external + cost /\ ledger'.base = ledger.base
      /\ ledger'.resumed = ledger.resumed /\ ledger'.consistency = status
  <2>1. ledger.pressure \in BOOLEAN /\ ledger.complete \in BOOLEAN
    BY <1>1 DEF Written
  <2>2. ledger.external + cost \in Nat /\ ledger.repair + repair \in Nat
    BY <1>2
  <2>3. ledger' \in Written
    BY <1>2, <2>1, <2>2 DEF Written
  <2> QED
    BY <2>3
<1>4. ledger.base + ledger.resumed <= ledger.external
  BY <1>1 DEF LedgerInvariant, LedgerIsWhole, Written
<1>5. Booked' = ledger'.external
  BY <1>3 DEF Booked
<1>6. Booked' = Booked + cost /\ Booked \in Nat
  BY <1>1, <1>2, <1>3, <1>5
<1>7. ledger'.base + ledger'.resumed <= ledger'.external
  BY <1>2, <1>3, <1>4
<1> QED
  BY <1>1, <1>3, <1>4, <1>6, <1>7

LEMMA ReportConsistencyStep ==
  ASSUME LedgerInvariant, ReportConsistency
  PROVE  LedgerInvariant'
<1>1. /\ asking.mode = "repeat" /\ asking.todo = {} /\ asking.round = 2 /\ asking' = NoAsking
      /\ ledger' = [ledger EXCEPT !.consistency = "COMPLETE", !.external = @ + asking.used,
                                  !.repair = @ + asking.used]
      /\ UNCHANGED <<artifact, outcomes, repeats, sent, unbooked>>
  BY DEF ReportConsistency
<1>2. asking.used \in Nat /\ asking # NoAsking /\ "COMPLETE" \in Statuses
  BY <1>1, ModeTells DEF LedgerInvariant, NoAsking, Statuses
<1>3. /\ ledger' \in Written /\ ledger'.written = TRUE /\ ledger'.complete = ledger.complete
      /\ ledger'.consistency = "COMPLETE" /\ ledger.complete
      /\ Booked' = Booked + asking.used /\ Booked \in Nat
      /\ ledger'.base + ledger'.resumed <= ledger'.external
  <2>1. ledger \in Written /\ ledger.written = TRUE
    BY <1>1, LedgerTells DEF LedgerInvariant, RoundKnows, NoLedger
  <2>2. ledger' = [written |-> TRUE, complete |-> ledger.complete,
                   pressure |-> ledger.pressure, external |-> ledger.external + asking.used,
                   base |-> ledger.base, resumed |-> ledger.resumed,
                   repair |-> ledger.repair + asking.used, consistency |-> "COMPLETE"]
    BY <1>1, <2>1 DEF Written
  <2>3. asking.mode = "repeat"
    BY <1>1
  <2> QED
    BY <1>2, <2>2, <2>3, ConsistencyIsBooked
<1>4. LedgerTypes'
  BY <1>1, <1>3 DEF LedgerInvariant, LedgerTypes
<1>5. EveryRequestCounts'
  <2>1. sent = unbooked + Booked + asking.used /\ unbooked \in Nat /\ Using' = 0
    BY <1>1, <1>2 DEF LedgerInvariant, EveryRequestCounts, Using, LedgerTypes
  <2> QED
    BY <1>1, <1>2, <1>3, <2>1 DEF EveryRequestCounts
<1>6. RunKnows' /\ RoundKnows'
  BY <1>1 DEF RunKnows, RoundKnows, NoAsking
<1>7. LedgerIsWhole'
  <2>1. Pending(outcomes)' = {}
    BY <1>1, <1>3 DEF LedgerInvariant, LedgerIsWhole, RoundKnows, Pending
  <2> QED
    BY <1>3, <2>1 DEF LedgerIsWhole
<1>8. RepeatsAreMade'
  <2>1. \A i \in PilotIds : repeats[1][i] # "NONE" /\ repeats[2][i] # "NONE"
    BY <1>1 DEF LedgerInvariant, RoundKnows
  <2>2. \A r \in 1..2 : r = 1 \/ r = 2
    OBVIOUS
  <2>3. \A r \in 1..2, i \in PilotIds : repeats[r][i] # "NONE"
    BY <2>1, <2>2
  <2> QED
    BY <1>1, <1>3, <2>3 DEF RepeatsAreMade
<1> QED
  BY <1>4, <1>5, <1>6, <1>7, <1>8 DEF LedgerInvariant

LEMMA StopConsistencyStep ==
  ASSUME LedgerInvariant, StopConsistency
  PROVE  LedgerInvariant'
<1>1. PICK i \in asking.todo : repeats' = [repeats EXCEPT ![asking.round][i] = "FAILED"]
  BY DEF StopConsistency
<1>2. /\ asking.mode = "repeat" /\ asking' = NoAsking /\ sent' = sent + 1
      /\ ledger' = [ledger EXCEPT !.consistency = "RATE_LIMIT_PRESSURE",
                                  !.external = @ + asking.used + 1]
      /\ UNCHANGED <<artifact, outcomes, unbooked>>
  BY DEF StopConsistency
<1>3. asking.used \in Nat /\ asking # NoAsking /\ "RATE_LIMIT_PRESSURE" \in Statuses
  BY <1>2, ModeTells DEF LedgerInvariant, NoAsking, Statuses
<1>4. ledger' = [written |-> TRUE, complete |-> ledger.complete, pressure |-> ledger.pressure,
                 external |-> ledger.external + (asking.used + 1), base |-> ledger.base,
                 resumed |-> ledger.resumed, repair |-> ledger.repair + 0,
                 consistency |-> "RATE_LIMIT_PRESSURE"]
  <2>1. ledger \in Written /\ ledger.written = TRUE
    BY <1>2, LedgerTells DEF LedgerInvariant, RoundKnows, NoLedger
  <2>2. ledger.external \in Nat /\ ledger.repair \in Nat
    BY <2>1 DEF Written
  <2>3. /\ ledger.external + asking.used + 1 = ledger.external + (asking.used + 1)
        /\ ledger.repair + 0 = ledger.repair
    BY <1>3, <2>2
  <2>4. ledger' = [written |-> ledger.written, complete |-> ledger.complete,
                   pressure |-> ledger.pressure, external |-> ledger.external + asking.used + 1,
                   base |-> ledger.base, resumed |-> ledger.resumed, repair |-> ledger.repair,
                   consistency |-> "RATE_LIMIT_PRESSURE"]
    BY <1>2, <2>1 DEF Written
  <2> QED
    BY <2>1, <2>3, <2>4
<1>5. /\ ledger' \in Written /\ ledger'.written = TRUE /\ ledger'.complete = ledger.complete
      /\ ledger'.consistency = "RATE_LIMIT_PRESSURE" /\ ledger.complete
      /\ Booked' = Booked + (asking.used + 1) /\ Booked \in Nat
      /\ ledger'.base + ledger'.resumed <= ledger'.external
  <2>1. asking.used + 1 \in Nat /\ 0 \in Nat
    BY <1>3
  <2> QED
    BY <1>2, <1>3, <1>4, <2>1, ConsistencyIsBooked
<1>6. LedgerTypes'
  <2>1. repeats' \in [1..2 -> PilotOutcomes]
    BY <1>1, <1>2, RepeatIsWritten
  <2> QED
    BY <1>2, <1>5, <2>1 DEF LedgerInvariant, LedgerTypes
<1>7. EveryRequestCounts'
  <2>1. sent = unbooked + Booked + asking.used /\ unbooked \in Nat /\ sent \in Nat /\ Using' = 0
    BY <1>2, <1>3 DEF LedgerInvariant, EveryRequestCounts, Using, LedgerTypes
  <2> QED
    BY <1>2, <1>3, <1>5, <2>1 DEF EveryRequestCounts
<1>8. RunKnows' /\ RoundKnows'
  BY <1>2 DEF RunKnows, RoundKnows, NoAsking
<1>9. LedgerIsWhole'
  <2>1. Pending(outcomes)' = {}
    BY <1>2, <1>5 DEF LedgerInvariant, LedgerIsWhole, RoundKnows, Pending
  <2> QED
    BY <1>5, <2>1 DEF LedgerIsWhole
<1>10. RepeatsAreMade'
  BY <1>5 DEF RepeatsAreMade
<1> QED
  BY <1>6, <1>7, <1>8, <1>9, <1>10 DEF LedgerInvariant

-----------------------------------------------------------------------------
LEMMA DieAskingStep ==
  ASSUME LedgerInvariant, DieAsking
  PROVE  LedgerInvariant'
<1>1. /\ asking # NoAsking /\ asking' = NoAsking /\ unbooked' = unbooked + asking.used
      /\ UNCHANGED <<artifact, ledger, outcomes, repeats, sent>>
  BY DEF DieAsking
<1>2. asking.used \in Nat /\ unbooked \in Nat /\ Booked \in Nat
  BY <1>1, ModeTells, LedgerTells DEF LedgerInvariant, LedgerTypes
<1>3. LedgerTypes'
  BY <1>1, <1>2 DEF LedgerInvariant, LedgerTypes
<1>4. EveryRequestCounts'
  BY <1>1, <1>2 DEF LedgerInvariant, EveryRequestCounts, Booked, Using
<1>5. RunKnows' /\ RoundKnows'
  BY <1>1 DEF RunKnows, RoundKnows, NoAsking
<1>6. LedgerIsWhole' /\ RepeatsAreMade'
  BY <1>1 DEF LedgerInvariant, LedgerIsWhole, RepeatsAreMade, Pending
<1> QED
  BY <1>3, <1>4, <1>5, <1>6 DEF LedgerInvariant

LEMMA LedgerInvariantKept ==
  ASSUME LedgerInvariant, [Pilot]_ledgerVars
  PROVE  LedgerInvariant'
<1>1. CASE Pilot
  BY <1>1, BeginPreflightStep, EndPreflightStep, BeginRunStep, AskPrimaryStep, StopRunStep,
     ReportRunStep, BeginConsistencyStep, AskAgainStep, NextRoundStep, ReportConsistencyStep,
     StopConsistencyStep, DieAskingStep, Zenon DEF Pilot
<1>2. CASE UNCHANGED ledgerVars
  BY <1>2 DEF ledgerVars, LedgerInvariant, LedgerTypes, EveryRequestCounts, Booked, Using,
       RunKnows, LedgerIsWhole, RoundKnows, RepeatsAreMade, Pending
<1> QED
  BY <1>1, <1>2

-----------------------------------------------------------------------------
(* The theorems of the ledger *)

\* Whatever sessions ran and died, the counters of the files and of the session at work account
\* for every request (run_phase5a_pilot.py: _run_preflight, _run_base, _run_consistency).
THEOREM LedgerInvariantTheorem == LedgerSpec => []LedgerInvariant
<1> QED
  BY LedgerInvariantAtStart, LedgerInvariantKept, PTL DEF LedgerSpec

\* Between sessions the ledger is what was sent, but for what nobody booked; complete reports and
\* complete consistency are over complete files.
THEOREM LedgerTheorem == LedgerSpec => []LedgerTellsRequests
<1>1. LedgerInvariant => LedgerTellsRequests
  <2> SUFFICES ASSUME LedgerInvariant PROVE LedgerTellsRequests
    OBVIOUS
  <2>1. asking = NoAsking => sent = unbooked + (IF ledger.written THEN ledger.external
                                                ELSE artifact.repair)
    <3>1. unbooked \in Nat /\ Booked \in Nat
      BY LedgerTells DEF LedgerInvariant, LedgerTypes
    <3>2. asking = NoAsking => sent = unbooked + Booked
      BY <3>1 DEF LedgerInvariant, EveryRequestCounts, Using
    <3> QED
      BY <3>2 DEF Booked
  <2> QED
    BY <2>1 DEF LedgerInvariant, LedgerIsWhole, RepeatsAreMade, LedgerTellsRequests
<1> QED
  BY LedgerInvariantTheorem, <1>1, PTL
-----------------------------------------------------------------------------
(* The judge, whatever status and body come over the wire *)

Bodies ==
  [place : {"usual", "empty", "absent"}, content : Contents, model : {"same", "other", None},
   error : {None, "RPD", "TPM", "RPM", "memory", "resources", "other"}, delay : {None, "seconds"}]

Wires ==
  [how : {"answered", "timed_out", "unreachable", "cut_off"}, status : Int,
   json : {"object", "other", "unreadable"}, header : {None, "seconds", "invalid"}, body : Bodies]

ErrorClasses ==
  {"API_AUTH_ERROR", "API_QUOTA_ERROR", "API_RATE_LIMIT", "API_TIMEOUT", "API_SERVER_ERROR",
   "API_ERROR", "API_NETWORK_ERROR", "LOCAL_TIMEOUT", "LOCAL_CONNECTION_ERROR", "LOCAL_OOM",
   "LOCAL_RESOURCE_ERROR", "LOCAL_MODEL_NOT_FOUND", "LOCAL_SERVER_ERROR", "LOCAL_REQUEST_ERROR",
   "LOCAL_MODEL_MISMATCH"}

MayHelp(wire) == wire.how # "answered" \/ wire.status \in {408, 429} \cup (500..599)

\* What a call that returned tells of the exchange.
CallTells(adapter, wire, call) ==
  call.ended = "returned" =>
    /\ call.content \in Contents
    /\ call.api = FALSE \/ call.api = TRUE
    /\ call.api = TRUE => /\ wire.how = "answered" /\ Success(wire.status)
                          /\ adapter[1] = "ollama" => call.model = "same"
    /\ call.api = FALSE => /\ call.error \in ErrorClasses
                           /\ call.error \in Retryable => MayHelp(wire)
    /\ call.enforced = FALSE \/ (call.enforced = TRUE /\ call.carried = "schema")

LEMMA BodyIsTyped ==
  ASSUME NEW wire \in Wires
  PROVE  /\ Body(wire).model \in {"same", "other", None}
         /\ ContentText(Body(wire)) \in Contents
         /\ wire.status \in Int
<1>1. wire.body \in Bodies /\ wire.status \in Int
  BY DEF Wires
<1>2. EmptyBody \in Bodies
  BY DEF EmptyBody, Bodies, Contents, None
<1>3. Body(wire) \in Bodies
  BY <1>1, <1>2 DEF Body
<1> HIDE DEF Body
<1> QED
  BY <1>1, <1>3 DEF Bodies, ContentText, Contents

LEMMA ErrorsAreOf ==
  ASSUME NEW wire \in Wires, wire.how = "answered"
  PROVE  /\ ErrorClass(wire.status) \in ErrorClasses
         /\ ErrorClass(wire.status) \in Retryable => MayHelp(wire)
         /\ \A error : /\ LocalErrorClass(wire.status, error) \in ErrorClasses
                       /\ LocalErrorClass(wire.status, error) \in Retryable => MayHelp(wire)
<1>1. wire.status \in Int
  BY DEF Wires
<1>2. ErrorClass(wire.status) \in ErrorClasses
  BY <1>1 DEF ErrorClass, ErrorClasses
<1>3. ErrorClass(wire.status) \in Retryable => MayHelp(wire)
  BY <1>1 DEF ErrorClass, Retryable, MayHelp
<1>4. \A error : LocalErrorClass(wire.status, error) \in ErrorClasses
  BY <1>1 DEF LocalErrorClass, ErrorClasses
<1>5. \A error : LocalErrorClass(wire.status, error) \in Retryable => MayHelp(wire)
  BY <1>1 DEF LocalErrorClass, Retryable, MayHelp
<1> QED
  BY <1>2, <1>3, <1>4, <1>5

LEMMA FailedCallTells ==
  ASSUME NEW adapter, NEW wire \in Wires, NEW format, NEW carried,
         NEW error \in {"API_TIMEOUT", "API_NETWORK_ERROR", "LOCAL_TIMEOUT",
                        "LOCAL_CONNECTION_ERROR"},
         wire.how # "answered", format = "STRICT" => carried = "schema"
  PROVE  CallTells(adapter, wire, FailedCall(format, error, carried))
<1> DEFINE call == FailedCall(format, error, carried)
<1>1. /\ call.content = "" /\ call.error = error /\ call.carried = carried
  BY DEF FailedCall
<1>2. call.api = FALSE
  BY Zenon DEF FailedCall
<1>3. call.enforced = (format = "STRICT")
  BY Zenon DEF FailedCall
<1>4. call.enforced = FALSE \/ (call.enforced = TRUE /\ format = "STRICT")
  BY <1>3, Zenon
<1> HIDE DEF call
<1>5. call.content \in Contents /\ call.error \in ErrorClasses
  BY <1>1 DEF Contents, ErrorClasses
<1>6. MayHelp(wire)
  BY DEF MayHelp
<1>7. call.enforced = FALSE \/ (call.enforced = TRUE /\ call.carried = "schema")
  BY <1>1, <1>4, Zenon
<1>8. ~(FALSE = TRUE)
  OBVIOUS
<1>9. ~(call.api = TRUE)
  BY <1>2, <1>8, Zenon
<1>10. CallTells(adapter, wire, call)
  BY <1>2, <1>5, <1>6, <1>7, <1>9, Zenon DEF CallTells
<1> QED
  BY <1>10 DEF call

LEMMA CallIsTold ==
  ASSUME NEW adapter, NEW wire \in Wires, wire.how = "answered", NEW api \in BOOLEAN, NEW error,
         NEW content \in Contents, NEW model, NEW carried, NEW enforced \in BOOLEAN,
         api => Success(wire.status) /\ (adapter[1] = "ollama" => model = "same"),
         ~api => error \in ErrorClasses /\ (error \in Retryable => MayHelp(wire)),
         enforced => carried = "schema",
         NEW call, call.api = api, call.error = error, call.content = content, call.model = model,
         call.carried = carried, call.enforced = enforced
  PROVE  CallTells(adapter, wire, call)
<1>1. api = TRUE \/ api = FALSE
  BY Zenon
<1>2. enforced = TRUE \/ enforced = FALSE
  BY Zenon
<1>3. call.api = TRUE \/ call.api = FALSE
  BY <1>1, Zenon
<1>4. call.api = TRUE => wire.how = "answered" /\ Success(wire.status)
                         /\ (adapter[1] = "ollama" => call.model = "same")
  BY Zenon
<1>5. call.api = FALSE => call.error \in ErrorClasses /\ (call.error \in Retryable => MayHelp(wire))
  BY Zenon
<1>6. call.enforced = FALSE \/ (call.enforced = TRUE /\ call.carried = "schema")
  BY <1>2, Zenon
<1> QED
  BY <1>3, <1>4, <1>5, <1>6, Zenon DEF CallTells

LEMMA CommonCallTells ==
  ASSUME NEW adapter, NEW wire \in Wires, wire.how = "answered", adapter[1] # "ollama",
         NEW model, NEW carried, NEW enforced \in BOOLEAN, enforced => carried = "schema"
  PROVE  CallTells(adapter, wire, CommonCall(wire, model, carried, enforced))
<1> DEFINE call == CommonCall(wire, model, carried, enforced)
<1>1. Success(wire.status) \in BOOLEAN
  BY DEF Success
<1>2. call.api = Success(wire.status) /\ call.enforced = enforced
  BY Zenon DEF CommonCall, Call
<1>3. /\ call.error = IF Success(wire.status) THEN None ELSE ErrorClass(wire.status)
      /\ call.content = ContentText(Body(wire)) /\ call.model = model /\ call.carried = carried
  BY DEF CommonCall, Call
<1>4. ~Success(wire.status) =>
        call.error \in ErrorClasses /\ (call.error \in Retryable => MayHelp(wire))
  BY <1>3, ErrorsAreOf
<1> HIDE DEF call
<1>5. ContentText(Body(wire)) \in Contents
  BY BodyIsTyped
<1>6. call.content \in Contents /\ call.carried = carried
  BY <1>3, <1>5
<1>7. CallTells(adapter, wire, call)
  BY <1>1, <1>2, <1>4, <1>6, CallIsTold, Zenon
<1> QED
  BY <1>7 DEF call

LEMMA TransportErrors ==
  ASSUME NEW wire \in Wires, ~Unreadable(wire)
  PROVE  /\ Unanswered(wire) \/ wire.how = "answered"
         /\ TransportError(wire.how) \in {"API_TIMEOUT", "API_NETWORK_ERROR"}
         /\ LocalTransportError(wire.how) \in {"LOCAL_TIMEOUT", "LOCAL_CONNECTION_ERROR"}
         /\ Unanswered(wire) => wire.how # "answered"
BY DEF Wires, Unreadable, Unanswered, TransportError, LocalTransportError

LEMMA RaisedTells == ASSUME NEW adapter, NEW wire PROVE CallTells(adapter, wire, Raised)
BY DEF CallTells, Raised

LEMMA LocalCallTells ==
  ASSUME NEW adapter, NEW wire \in Wires, ~Unreadable(wire),
         NEW format \in {"STRICT", "TEXT"}, NEW frozen
  PROVE  CallTells(adapter, wire, LocalCall(format, frozen, wire))
<1> DEFINE carried == CASE format \in {"STRICT", "BEST_EFFORT"} -> "schema"
                        [] format = "OBJECT" -> "json" [] OTHER -> "nothing"
           error   == IF Success(wire.status) THEN None
                      ELSE LocalErrorClass(wire.status, Body(wire).error)
           reply   == [Call(wire, Success(wire.status), error, ContentText(Body(wire)),
                            Body(wire).model, carried, format = "STRICT")
                         EXCEPT !.delay = None, !.dimension = None]
           other   == [reply EXCEPT !.api = FALSE, !.content = "", !.error = "LOCAL_MODEL_MISMATCH"]
           call    == LocalCall(format, frozen, wire)
<1>1. format = "STRICT" => carried = "schema"
  OBVIOUS
<1>2. call = IF frozen = "differs" THEN Raised
             ELSE IF Unanswered(wire)
               THEN FailedCall(format, LocalTransportError(wire.how), carried)
             ELSE IF Mismatched(wire) THEN other ELSE reply
  BY DEF LocalCall
<1> HIDE DEF carried, call
<1> SUFFICES CallTells(adapter, wire, call)
  BY DEF call
<1>3. CASE frozen = "differs"
  BY <1>2, <1>3, RaisedTells
<1>4. CASE frozen # "differs" /\ Unanswered(wire)
  <2>1. call = FailedCall(format, LocalTransportError(wire.how), carried)
    BY <1>2, <1>4
  <2>2. /\ LocalTransportError(wire.how) \in
              {"API_TIMEOUT", "API_NETWORK_ERROR", "LOCAL_TIMEOUT", "LOCAL_CONNECTION_ERROR"}
        /\ wire.how # "answered"
    BY <1>4, TransportErrors
  <2> HIDE DEF error, reply, other
  <2> QED
    BY <1>1, <2>1, <2>2, FailedCallTells, Zenon
<1>5. CASE frozen # "differs" /\ ~Unanswered(wire)
  <2>1. wire.how = "answered"
    BY <1>5, TransportErrors
  <2>2. Success(wire.status) \in BOOLEAN /\ (format = "STRICT") \in BOOLEAN
    BY DEF Success
  <2>3. reply.api = Success(wire.status) /\ reply.enforced = (format = "STRICT")
    BY Zenon DEF Call
  <2>4. /\ reply.error = error /\ reply.content = ContentText(Body(wire))
        /\ reply.model = Body(wire).model /\ reply.carried = carried
    BY DEF Call
  <2>5. other.api = FALSE /\ other.enforced = (format = "STRICT")
    BY Zenon DEF Call
  <2>6. /\ other.error = "LOCAL_MODEL_MISMATCH" /\ other.content = ""
        /\ other.model = Body(wire).model /\ other.carried = carried
    BY DEF Call
  <2>7. ~Success(wire.status) => error \in ErrorClasses /\ (error \in Retryable => MayHelp(wire))
    BY <2>1, ErrorsAreOf
  <2> HIDE DEF reply, other, error
  <2>8. CASE Mismatched(wire)
    <3>1. call = other
      BY <1>2, <1>5, <2>8
    <3>2. /\ "LOCAL_MODEL_MISMATCH" \in ErrorClasses /\ "LOCAL_MODEL_MISMATCH" \notin Retryable
          /\ "" \in Contents
      BY DEF ErrorClasses, Retryable, Contents
    <3> QED
      BY <1>1, <2>1, <2>2, <2>5, <2>6, <3>1, <3>2, CallIsTold, Zenon
  <2>9. CASE ~Mismatched(wire)
    <3>1. call = reply
      BY <1>2, <1>5, <2>9
    <3>2. Success(wire.status) => Body(wire).model = "same"
      BY <2>9 DEF Mismatched
    <3>3. call.content \in Contents /\ (Success(wire.status) => call.model = "same")
      BY <2>4, <3>1, <3>2, BodyIsTyped
    <3>4. ~Success(wire.status) =>
            call.error \in ErrorClasses /\ (call.error \in Retryable => MayHelp(wire))
      BY <2>4, <2>7, <3>1
    <3>5. call.api = Success(wire.status) /\ call.enforced = (format = "STRICT")
      BY <2>3, <3>1, Zenon
    <3>6. call.carried = carried
      BY <2>4, <3>1
    <3> QED
      BY <1>1, <2>1, <2>2, <3>3, <3>4, <3>5, <3>6, CallIsTold, Zenon
  <2> QED
    BY <2>8, <2>9
<1> QED
  BY <1>3, <1>4, <1>5

LEMMA GeminiTells ==
  ASSUME NEW adapter \in Adapters, NEW wire \in Wires, ~Unreadable(wire), adapter[1] = "gemini"
  PROVE  CallTells(adapter, wire, GeminiCall(adapter[2], wire))
<1> DEFINE format  == adapter[2]
           carried == CASE format \in {"STRICT", "BEST_EFFORT"} -> "schema"
                        [] format = "OBJECT" -> "json" [] OTHER -> "nothing"
           call    == GeminiCall(format, wire)
<1>1. format = "STRICT" => carried = "schema"
  OBVIOUS
<1>2. call = IF Unanswered(wire) THEN FailedCall(format, TransportError(wire.how), carried)
             ELSE IF Body(wire).place = "empty" THEN Raised
             ELSE CommonCall(wire, "same", carried, format = "STRICT")
  BY DEF GeminiCall
<1>3. adapter[1] # "ollama" /\ (format = "STRICT") \in BOOLEAN
  OBVIOUS
<1> HIDE DEF format, carried, call
<1>4. CallTells(adapter, wire, call)
  <2>1. CASE Unanswered(wire)
    <3>1. /\ TransportError(wire.how) \in
               {"API_TIMEOUT", "API_NETWORK_ERROR", "LOCAL_TIMEOUT", "LOCAL_CONNECTION_ERROR"}
          /\ wire.how # "answered"
      BY <2>1, TransportErrors
    <3> QED
      BY <1>1, <1>2, <2>1, <3>1, FailedCallTells, Zenon
  <2>2. CASE ~Unanswered(wire) /\ Body(wire).place = "empty"
    BY <1>2, <2>2, RaisedTells, Zenon
  <2>3. CASE ~Unanswered(wire) /\ Body(wire).place # "empty"
    <3>1. wire.how = "answered"
      BY <2>3, TransportErrors
    <3> QED
      BY <1>1, <1>2, <1>3, <2>3, <3>1, CommonCallTells, Zenon
  <2> QED
    BY <2>1, <2>2, <2>3, Zenon
<1> QED
  BY <1>4 DEF call, format

LEMMA ChatTells ==
  ASSUME NEW adapter, NEW wire \in Wires, ~Unreadable(wire), adapter[1] # "ollama",
         NEW format, NEW carried, NEW model, NEW enforced \in BOOLEAN,
         format = "STRICT" => carried = "schema", enforced => carried = "schema"
  PROVE  CallTells(adapter, wire,
           IF Unanswered(wire) THEN FailedCall(format, TransportError(wire.how), carried)
           ELSE CommonCall(wire, model, carried, enforced))
<1>1. CASE Unanswered(wire)
  <2>1. /\ TransportError(wire.how) \in
             {"API_TIMEOUT", "API_NETWORK_ERROR", "LOCAL_TIMEOUT", "LOCAL_CONNECTION_ERROR"}
        /\ wire.how # "answered"
    BY <1>1, TransportErrors
  <2> QED
    BY <1>1, <2>1, FailedCallTells, Zenon
<1>2. CASE ~Unanswered(wire)
  <2>1. wire.how = "answered"
    BY <1>2, TransportErrors
  <2> QED
    BY <1>2, <2>1, CommonCallTells, Zenon
<1> QED
  BY <1>1, <1>2

LEMMA AdapterTells ==
  ASSUME NEW adapter \in Adapters, NEW wire \in Wires
  PROVE  CallTells(adapter, wire, Judge(adapter, wire))
<1> DEFINE format == adapter[2]
           plain  == CASE format = "STRICT" -> "schema" [] format = "OBJECT" -> "json"
                       [] OTHER -> "nothing"
<1>1. CASE Unreadable(wire)
  BY <1>1, RaisedTells DEF Judge
<1>2. CASE ~Unreadable(wire)
  <2>1. (format = "STRICT" => plain = "schema") /\ (format = "STRICT") \in BOOLEAN
    OBVIOUS
  <2>2. CASE adapter[1] = "gemini"
    BY <1>2, <2>2, GeminiTells DEF Judge
  <2>3. CASE adapter[1] = "groq"
    <3>1. Judge(adapter, wire) = GroqCall(format, wire)
      BY <1>2, <2>3 DEF Judge
    <3>2. GroqCall(format, wire) =
            IF Unanswered(wire) THEN FailedCall(format, TransportError(wire.how), plain)
            ELSE CommonCall(wire, Body(wire).model, plain, format = "STRICT")
      BY DEF GroqCall
    <3>3. adapter[1] # "ollama"
      BY <2>3
    <3> HIDE DEF plain, format
    <3>4. CallTells(adapter, wire,
            IF Unanswered(wire) THEN FailedCall(format, TransportError(wire.how), plain)
            ELSE CommonCall(wire, Body(wire).model, plain, format = "STRICT"))
      BY <1>2, <2>1, <3>3, ChatTells, Zenon
    <3> QED
      BY <3>1, <3>2, <3>4, Zenon
  <2>4. CASE adapter[1] = "openrouter"
    <3>1. Judge(adapter, wire) = OpenRouterCall(format, wire)
      BY <1>2, <2>4 DEF Judge
    <3>2. OpenRouterCall(format, wire) =
            IF Unanswered(wire) THEN FailedCall(format, TransportError(wire.how), plain)
            ELSE CommonCall(wire, Body(wire).model, plain, format = "STRICT")
      BY DEF OpenRouterCall
    <3>3. adapter[1] # "ollama"
      BY <2>4
    <3> HIDE DEF plain, format
    <3>4. CallTells(adapter, wire,
            IF Unanswered(wire) THEN FailedCall(format, TransportError(wire.how), plain)
            ELSE CommonCall(wire, Body(wire).model, plain, format = "STRICT"))
      BY <1>2, <2>1, <3>3, ChatTells, Zenon
    <3> QED
      BY <3>1, <3>2, <3>4, Zenon
  <2>5. CASE adapter[1] = "okmd"
    <3>1. Judge(adapter, wire) = OKMDCall(format, wire)
      BY <1>2, <2>5 DEF Judge
    <3>2. OKMDCall(format, wire) =
            IF Unanswered(wire) THEN FailedCall(format, TransportError(wire.how), "nothing")
            ELSE CommonCall(wire, IF Body(wire).model = None THEN "same" ELSE Body(wire).model,
                            "nothing", FALSE)
      BY DEF OKMDCall
    <3>3. adapter[1] # "ollama" /\ format # "STRICT" /\ FALSE \in BOOLEAN
      BY <2>5 DEF Adapters
    <3> HIDE DEF format
    <3> QED
      BY <1>2, <3>1, <3>2, <3>3, ChatTells, Zenon
  <2>6. CASE adapter[1] = "ollama"
    <3>1. Judge(adapter, wire) = LocalCall(format, adapter[3], wire)
      BY <1>2, <2>6 DEF Judge
    <3>2. format \in {"STRICT", "TEXT"}
      BY <2>6 DEF Adapters
    <3> QED
      BY <1>2, <3>1, <3>2, LocalCallTells, Zenon
  <2>7. adapter[1] \in {"gemini", "groq", "openrouter", "okmd", "ollama"}
    BY DEF Adapters
  <2> QED
    BY <2>2, <2>3, <2>4, <2>5, <2>6, <2>7
<1> QED
  BY <1>1, <1>2
LEMMA ContentErrors ==
  ASSUME NEW call, NEW contract \in Contracts, call.content \in Contents
  PROVE  /\ ParseError(call.content, contract) = None <=> call.content = contract
         /\ ContentError(call, contract) = None <=> call.content = contract
         /\ ContentError(call, contract) \in {None, "PARSE_ERROR", "SCHEMA_VALIDATION_ERROR"}
         /\ contract # ""
BY DEF ContentError, ParseError, Contents, Contracts, None

LEMMA FailuresAreConclusive ==
  ASSUME NEW q, NEW a, ~a.api, ~a.prediction, a.error \in ErrorClasses, a.status # "PASS",
         a.error \in Retryable => MayHelp(q.wire), a.enforced => a.carried = "schema"
  PROVE  JudgedConclusively(q, a)
<1>1. a.error # None
  BY DEF ErrorClasses, None
<1>2. ForensicCategory(a) \notin {"VALID_STRUCTURED_OUTPUT", None}
  BY DEF ForensicCategory, ErrorClasses, None
<1>3. a.error \in Retryable =>
        q.wire.how # "answered" \/ q.wire.status \in {408, 429} \cup (500..599)
  BY DEF MayHelp
<1> QED
  BY <1>1, <1>2, <1>3, ZenonT(60) DEF JudgedConclusively

LEMMA AnswersAreConclusive ==
  ASSUME NEW q, NEW a, a.api, a.content \in Contents, q.contract \in Contracts,
         a.prediction <=> a.content = q.contract, a.prediction <=> a.status = "PASS",
         a.prediction <=> a.error = None, a.error \in {None, "PARSE_ERROR", "SCHEMA_VALIDATION_ERROR"},
         q.wire.how = "answered", Success(q.wire.status), q.adapter[1] = "ollama" => a.model = "same",
         a.enforced => a.carried = "schema"
  PROVE  JudgedConclusively(q, a)
<1>1. a.error \notin Retryable
  BY DEF Retryable, None
<1>2. q.contract = "evidence" =>
        /\ a.content = q.contract <=>
             /\ DiagnosisV2(a).json = "PASS" /\ DiagnosisV2(a).schema = "PASS"
             /\ DiagnosisV2(a).rule = None
        /\ a.content = q.contract <=> Category(a.content) = "VALID_STRUCTURED_OUTPUT"
  BY DEF DiagnosisV2, EvidenceRule, Category, Contents, Contracts, None
<1>3. q.contract # "evidence" =>
        (a.content = q.contract <=>
           /\ DiagnosisV3(a).json = "PASS" /\ DiagnosisV3(a).schema = "PASS"
           /\ DiagnosisV3(a).rule = None)
  BY DEF DiagnosisV3, LabelRule, Contents, Contracts, None
<1>4. a.api =>
        LET said == IF q.contract = "evidence" THEN DiagnosisV2(a) ELSE DiagnosisV3(a)
        IN  a.prediction <=> (said.json = "PASS" /\ said.schema = "PASS" /\ said.rule = None)
  <2>1. CASE q.contract = "evidence"
    BY <1>2, <2>1
  <2>2. CASE q.contract # "evidence"
    BY <1>3, <2>2
  <2> QED
    BY <2>1, <2>2
<1>5. a.api /\ q.contract = "evidence" =>
        (a.prediction <=> Category(a.content) = "VALID_STRUCTURED_OUTPUT")
  BY <1>2
<1> QED
  BY <1>1, <1>4, <1>5, Zenon DEF JudgedConclusively
\* Of every answer of every adapter, whatever its status, body and headers, the trace tells a
\* prediction from every kind of failure, and each failure from the others (evaluators/judge/).
THEOREM TraceTheorem ==
  ASSUME NEW q, q.adapter \in Adapters, q.wire \in Wires, q.contract \in Contracts
  PROVE  JudgedConclusively(q, AnswerJudge(q))
<1> DEFINE call   == Judge(q.adapter, q.wire)
           parsed == call.content # "" /\ ParseError(call.content, q.contract) = None
           a      == AnswerJudge(q)
<1>1. CallTells(q.adapter, q.wire, call)
  BY AdapterTells
<1>2. a = IF call.ended = "raised" THEN Raised
          ELSE [ended |-> "returned", api |-> call.api, model |-> call.model,
                content |-> call.content,
                error |-> IF call.api THEN ContentError(call, q.contract) ELSE call.error,
                prediction |-> call.api /\ parsed,
                status |-> IF ~call.api THEN "STRUCTURED_OUTPUT_RUNTIME_FAILED"
                           ELSE IF parsed THEN "PASS" ELSE "PARSE_FAILED",
                delay |-> call.delay, dimension |-> call.dimension, carried |-> call.carried,
                enforced |-> call.enforced]
  BY Zenon DEF AnswerJudge, Trace
<1>3. call.ended \in {"raised", "returned"}
  BY DEF Judge, GeminiCall, GroqCall, OpenRouterCall, OKMDCall, LocalCall, CommonCall, Call,
         FailedCall, Raised, Adapters
<1>4. CASE call.ended = "raised"
  <2>1. a.ended # "returned"
    BY <1>2, <1>4 DEF Raised
  <2> QED
    BY <2>1, Zenon DEF JudgedConclusively
<1>5. CASE call.ended = "returned"
  <2>1. /\ call.content \in Contents
        /\ call.api = FALSE \/ call.api = TRUE
        /\ call.api = TRUE => /\ q.wire.how = "answered" /\ Success(q.wire.status)
                              /\ q.adapter[1] = "ollama" => call.model = "same"
        /\ call.api = FALSE => /\ call.error \in ErrorClasses
                               /\ call.error \in Retryable => MayHelp(q.wire)
        /\ call.enforced = FALSE \/ (call.enforced = TRUE /\ call.carried = "schema")
    BY <1>1, <1>5, Zenon DEF CallTells
  <2>2. /\ parsed <=> call.content = q.contract
        /\ ContentError(call, q.contract) = None <=> call.content = q.contract
        /\ ContentError(call, q.contract) \in {None, "PARSE_ERROR", "SCHEMA_VALIDATION_ERROR"}
    BY <2>1, ContentErrors
  <2>3. call.ended # "raised"
    BY <1>5
  <2> HIDE DEF call, parsed, a
  <2>4. /\ a.model = call.model /\ a.content = call.content /\ a.carried = call.carried
        /\ a.error = IF call.api THEN ContentError(call, q.contract) ELSE call.error
        /\ a.status = IF ~call.api THEN "STRUCTURED_OUTPUT_RUNTIME_FAILED"
                      ELSE IF parsed THEN "PASS" ELSE "PARSE_FAILED"
    BY <1>2, <2>3, Zenon
  <2>5. a.api = call.api /\ a.enforced = call.enforced
    BY <1>2, <2>3, Zenon
  <2>6. a.prediction = (call.api /\ parsed)
    BY <1>2, <2>3, Zenon
  <2>7. a.enforced => a.carried = "schema"
    BY <2>1, <2>4, <2>5, Zenon
  <2>8. CASE call.api = FALSE
    <3>1. ~a.api /\ ~a.prediction
      BY <2>5, <2>6, <2>8, Zenon
    <3>2. a.error = call.error /\ a.status = "STRUCTURED_OUTPUT_RUNTIME_FAILED"
      BY <2>4, <2>8, Zenon
    <3>3. a.error \in ErrorClasses /\ (a.error \in Retryable => MayHelp(q.wire))
      BY <2>1, <2>8, <3>2, Zenon
    <3>4. a.status # "PASS"
      BY <3>2
    <3>5. JudgedConclusively(q, a)
      BY <2>7, <3>1, <3>3, <3>4, FailuresAreConclusive, Zenon
    <3> QED
      BY <3>5 DEF a
  <2>9. CASE call.api = TRUE
    <3>1. a.api /\ (a.prediction <=> parsed)
      BY <2>5, <2>6, <2>9, Zenon
    <3>2. a.error = ContentError(call, q.contract)
      BY <2>4, <2>9, Zenon
    <3>3. a.status = IF parsed THEN "PASS" ELSE "PARSE_FAILED"
      BY <2>4, <2>9, Zenon
    <3>4. parsed <=> a.status = "PASS"
      BY <3>3
    <3>5. parsed <=> a.error = None
      BY <2>2, <3>2, Zenon
    <3>6. parsed <=> a.content = q.contract
      BY <2>2, <2>4, Zenon
    <3>7. /\ a.error \in {None, "PARSE_ERROR", "SCHEMA_VALIDATION_ERROR"} /\ a.content \in Contents
          /\ q.wire.how = "answered" /\ Success(q.wire.status)
          /\ q.adapter[1] = "ollama" => a.model = "same"
      BY <2>1, <2>2, <2>4, <2>9, <3>2, Zenon
    <3>8. /\ a.prediction <=> a.content = q.contract
          /\ a.prediction <=> a.status = "PASS"
          /\ a.prediction <=> a.error = None
      BY <3>1, <3>4, <3>5, <3>6, Zenon
    <3>9. JudgedConclusively(q, a)
      BY <2>7, <3>1, <3>7, <3>8, AnswersAreConclusive, Zenon
    <3> QED
      BY <3>9 DEF a
  <2> QED
    BY <2>1, <2>8, <2>9, Zenon
<1> QED
  BY <1>3, <1>4, <1>5
\* What is asked of a judge, and the answer.
JudgeAsked ==
  question.about = "judge" =>
    /\ question.adapter \in Adapters /\ question.wire \in Wires /\ question.contract \in Contracts
    /\ answer = AnswerJudge(question)

LEMMA WiresOfQuestions ==
  ASSUME NEW adapter \in Adapters, NEW q \in JudgeQuestionsOf(adapter)
  PROVE  q.adapter \in Adapters /\ q.wire \in Wires /\ q.contract \in Contracts
<1>1. q.adapter = adapter /\ q.contract \in Contracts /\ q.wire \in Successes \cup Refusals \cup Silences
  BY DEF JudgeQuestionsOf
<1>2. EmptyBody \in Bodies
  BY DEF EmptyBody, Bodies, Contents
<1>3. Successes \subseteq Wires
  BY DEF Successes, Exchanges, Wires, Bodies
<1>4. Refusals \subseteq Wires
  <2>1. Complaints \subseteq Bodies
    BY DEF Complaints, Bodies, Contents
  <2>2. {400, 401, 402, 404, 408, 429, 500, 504} \subseteq Int
    OBVIOUS
  <2> QED
    BY <2>1, <2>2 DEF Refusals, Exchanges, Wires
<1>5. Silences \subseteq Wires
  BY <1>2 DEF Silences, Exchanges, Wires
<1> QED
  BY <1>1, <1>3, <1>4, <1>5

LEMMA MeasuresAskNoJudge ==
  ASSUME AskMeasures PROVE question'.about # "judge"
<1>1. \A q \in PairQuestions : q.about # "judge"
  BY DEF PairQuestions
<1>2. \A q \in DiscordantQuestions : q.about # "judge"
  BY DEF DiscordantQuestions
<1>3. \A q \in ThresholdQuestions : q.about # "judge"
  BY DEF ThresholdQuestions
<1>4. \A q \in BatchQuestions : q.about # "judge"
  BY DEF BatchQuestions
<1>5. \A q \in ProviderQuestions : q.about # "judge"
  BY DEF ProviderQuestions
<1>6. \A q \in ThreeQuestions : q.about # "judge"
  BY DEF ThreeQuestions
<1>7. \A q \in ManyQuestions : q.about # "judge"
  BY DEF ManyQuestions
<1>8. \A q \in RepeatQuestions : q.about # "judge"
  BY DEF RepeatQuestions
<1>9. \A q \in RankQuestions : q.about # "judge"
  BY DEF RankQuestions
<1>10. \A q \in CalibrationQuestions : q.about # "judge"
  BY DEF CalibrationQuestions
<1>11. \A q \in LatencyQuestions : q.about # "judge"
  BY DEF LatencyQuestions
<1>12. \A q \in BootstrapQuestions : q.about # "judge"
  BY DEF BootstrapQuestions
<1>13. \A q \in HeuristicQuestions : q.about # "judge"
  BY DEF HeuristicQuestions
<1>14. \A q \in ErrorQuestions : q.about # "judge"
  BY DEF ErrorQuestions
<1>15. \A q \in ReadinessQuestions : q.about # "judge"
  BY DEF ReadinessQuestions
<1>16. \A q \in FailureQuestions : q.about # "judge"
  BY DEF FailureQuestions
<1> QED
  BY <1>1, <1>2, <1>3, <1>4, <1>5, <1>6, <1>7, <1>8, <1>9, <1>10, <1>11, <1>12, <1>13,
     <1>14, <1>15, <1>16, Zenon DEF AskMeasures, Answers

LEMMA RetrievalAsksNoJudge ==
  ASSUME AskRetrieval \/ AskDatasets PROVE question'.about # "judge"
<1>1. \A q \in RankedQuestions : q.about # "judge"
  BY DEF RankedQuestions
<1>2. \A q \in SearchQuestions : q.about # "judge"
  BY DEF SearchQuestions
<1>3. \A q \in RegressionQuestions : q.about # "judge"
  BY DEF RegressionQuestions
<1>4. \A q \in RunQuestions : q.about # "judge"
  BY DEF RunQuestions
<1>5. \A q \in EvaluateQuestions : q.about # "judge"
  BY DEF EvaluateQuestions
<1>6. \A q \in MiraclQuestions : q.about # "judge"
  BY DEF MiraclQuestions
<1>7. \A q \in CaseQuestions : q.about # "judge"
  BY DEF CaseQuestions
<1>8. \A q \in RagtruthQuestions : q.about # "judge"
  BY DEF RagtruthQuestions
<1> QED
  BY <1>1, <1>2, <1>3, <1>4, <1>5, <1>6, <1>7, <1>8, Zenon DEF AskRetrieval, AskDatasets, Answers
LEMMA JudgeAskedKept ==
  ASSUME JudgeAsked, [Next]_vars
  PROVE  JudgeAsked'
<1>1. CASE AskJudge
  <2>1. PICK adapter \in Adapters : /\ question' \in JudgeQuestionsOf(adapter)
                                    /\ answer' = AnswerJudge(question')
    BY <1>1, Zenon DEF AskJudge, Answers
  <2> QED
    BY <2>1, WiresOfQuestions, Zenon DEF JudgeAsked
<1>2. CASE AskMeasures
  BY <1>2, MeasuresAskNoJudge, Zenon DEF JudgeAsked
<1>3. CASE AskRetrieval \/ AskDatasets
  BY <1>3, RetrievalAsksNoJudge, Zenon DEF JudgeAsked
<1>4. CASE AskSamples
  <2>1. PICK examples \in Populations : question' = [about |-> "samples", examples |-> examples]
    BY <1>4, Zenon DEF AskSamples
  <2>2. question'.about # "judge"
    BY <2>1
  <2> QED
    BY <2>2, Zenon DEF JudgeAsked
<1>5. CASE PrepareData \/ RunPilot \/ RunLocal \/ UNCHANGED vars
  <2>1. question' = question /\ answer' = answer
    BY <1>5, Zenon DEF PrepareData, RunPilot, RunLocal, vars
  <2> QED
    BY <2>1, Zenon DEF JudgeAsked
<1> QED
  BY <1>1, <1>2, <1>3, <1>4, <1>5 DEF Next

\* Every question that the tools put to a judge is answered by such a trace.
THEOREM JudgingTheorem == Spec => []JudgingIsConclusive
<1>1. Init => JudgeAsked
  BY DEF Init, Unasked, JudgeAsked
<1>2. JudgeAsked /\ [Next]_vars => JudgeAsked'
  BY JudgeAskedKept
<1>3. JudgeAsked => JudgingIsConclusive
  BY TraceTheorem, Zenon DEF JudgeAsked, JudgingIsConclusive
<1> QED
  BY <1>1, <1>2, <1>3, PTL DEF Spec

-----------------------------------------------------------------------------
(* What is measured adds up *)

MeasureKinds ==
  {"pair", "discordant", "thresholds", "batches", "providers", "three", "many", "repeats",
  "ranks", "calibration", "latencies", "bootstrap", "heuristic", "errors", "readiness",
  "failures", "samples"}

LEMMA NothingToAddUp ==
  ASSUME question'.about \notin MeasureKinds PROVE ClassificationsAddUp'
BY SMT DEF ClassificationsAddUp, MeasureKinds

LEMMA MeasuresAddUp == ASSUME AskMeasures PROVE ClassificationsAddUp'
<1>1. ASSUME question' \in PairQuestions,
             answer' = AnswerPair(question')
      PROVE  ClassificationsAddUp'
  <2>1. question'.about = "pair"
    BY <1>1 DEF PairQuestions
  <2>2. PairAddsUp(question', answer')
    BY <1>1, PairsHold, Zenon
  <2> QED
    BY <2>1, <2>2, SMT DEF ClassificationsAddUp
<1>2. ASSUME question' \in DiscordantQuestions PROVE ClassificationsAddUp'
  <2>1. question'.about = "discordant"
    BY <1>2 DEF DiscordantQuestions
  <2>2. McNemarHolds(question')
    BY <1>2, DiscordantOfQuestions, Zenon
  <2> QED
    BY <2>1, <2>2, SMT DEF ClassificationsAddUp
<1>3. ASSUME question' \in ThresholdQuestions,
             answer' = AnswerThresholds(question')
      PROVE  ClassificationsAddUp'
  <2>1. question'.about = "thresholds"
    BY <1>3 DEF ThresholdQuestions
  <2>2. ThresholdsHold(question', answer')
    BY <1>3, ThresholdsOfQuestions, Zenon
  <2> QED
    BY <2>1, <2>2, SMT DEF ClassificationsAddUp
<1>4. ASSUME question' \in BatchQuestions,
             answer' = AnswerBatches(question')
      PROVE  ClassificationsAddUp'
  <2>1. question'.about = "batches"
    BY <1>4 DEF BatchQuestions
  <2>2. BatchesHold(question', answer')
    BY <1>4, BatchesOfQuestions, Zenon
  <2> QED
    BY <2>1, <2>2, SMT DEF ClassificationsAddUp
<1>5. ASSUME question' \in ProviderQuestions,
             answer' = AnswerProviders(question')
      PROVE  ClassificationsAddUp'
  <2>1. question'.about = "providers"
    BY <1>5 DEF ProviderQuestions
  <2>2. ProvidersHold(question', answer')
    BY <1>5, ProvidersOfQuestions, Zenon
  <2> QED
    BY <2>1, <2>2, SMT DEF ClassificationsAddUp
<1>6. ASSUME question' \in ThreeQuestions,
             answer' = ThreeEvaluators(question'.truth, question'.said)
      PROVE  ClassificationsAddUp'
  <2>1. question'.about = "three"
    BY <1>6 DEF ThreeQuestions
  <2>2. EvaluatorsAddUp(question', answer')
    BY <1>6, ThreeOfQuestions, Zenon
  <2> QED
    BY <2>1, <2>2, SMT DEF ClassificationsAddUp
<1>7. ASSUME question' \in ManyQuestions,
             answer' = ManyEvaluators(question'.truth, question'.said)
      PROVE  ClassificationsAddUp'
  <2>1. question'.about = "many"
    BY <1>7 DEF ManyQuestions
  <2>2. ManyAddUp(question', answer')
    BY <1>7, ManyOfQuestions, Zenon
  <2> QED
    BY <2>1, <2>2, SMT DEF ClassificationsAddUp
<1>8. ASSUME question' \in RepeatQuestions,
             answer' = Consistency(question'.records)
      PROVE  ClassificationsAddUp'
  <2>1. question'.about = "repeats"
    BY <1>8 DEF RepeatQuestions
  <2>2. RepeatsAddUp(question', answer')
    BY <1>8, RepeatsOfQuestions, Zenon
  <2> QED
    BY <2>1, <2>2, SMT DEF ClassificationsAddUp
<1>9. ASSUME question' \in RankQuestions,
             answer' = AnswerRanks(question')
      PROVE  ClassificationsAddUp'
  <2>1. question'.about = "ranks"
    BY <1>9 DEF RankQuestions
  <2>2. RanksAddUp(question', answer')
    BY <1>9, RanksOfQuestions, Zenon
  <2> QED
    BY <2>1, <2>2, SMT DEF ClassificationsAddUp
<1>10. ASSUME question' \in CalibrationQuestions,
             answer' = AnswerCalibration(question')
      PROVE  ClassificationsAddUp'
  <2>1. question'.about = "calibration"
    BY <1>10 DEF CalibrationQuestions
  <2>2. CalibrationHolds(question', answer')
    BY <1>10, CalibrationsOfQuestions, Zenon
  <2> QED
    BY <2>1, <2>2, SMT DEF ClassificationsAddUp
<1>11. ASSUME question' \in LatencyQuestions,
             answer' = LatencySummary(question'.values)
      PROVE  ClassificationsAddUp'
  <2>1. question'.about = "latencies"
    BY <1>11 DEF LatencyQuestions
  <2>2. LatenciesHold(question', answer')
    BY <1>11, LatenciesOfQuestions, Zenon
  <2> QED
    BY <2>1, <2>2, SMT DEF ClassificationsAddUp
<1>12. ASSUME question' \in BootstrapQuestions,
             answer' = AnswerBootstrap(question')
      PROVE  ClassificationsAddUp'
  <2>1. question'.about = "bootstrap"
    BY <1>12 DEF BootstrapQuestions
  <2>2. BootstrapHolds(question', answer')
    BY <1>12, BootstrapsOfQuestions, Zenon
  <2> QED
    BY <2>1, <2>2, SMT DEF ClassificationsAddUp
<1>13. ASSUME question' \in HeuristicQuestions,
             answer' = HeuristicLabel(question'.response, question'.context, question'.threshold)
      PROVE  ClassificationsAddUp'
  <2>1. question'.about = "heuristic"
    BY <1>13 DEF HeuristicQuestions
  <2>2. HeuristicHolds(question', answer')
    BY <1>13, HeuristicOfQuestions, Zenon
  <2> QED
    BY <2>1, <2>2, SMT DEF ClassificationsAddUp
<1>14. ASSUME question' \in ErrorQuestions,
             answer' = AnswerErrors(question')
      PROVE  ClassificationsAddUp'
  <2>1. question'.about = "errors"
    BY <1>14 DEF ErrorQuestions
  <2>2. ErrorsAddUp(question', answer')
    BY <1>14, ErrorsOfQuestions, Zenon
  <2> QED
    BY <2>1, <2>2, SMT DEF ClassificationsAddUp
<1>15. ASSUME question' \in ReadinessQuestions,
             answer' = Readiness(question'.selected, question'.results)
      PROVE  ClassificationsAddUp'
  <2>1. question'.about = "readiness"
    BY <1>15 DEF ReadinessQuestions
  <2>2. ReadinessHolds(question', answer')
    BY <1>15, ReadinessOfQuestions, Zenon
  <2> QED
    BY <2>1, <2>2, SMT DEF ClassificationsAddUp
<1>16. ASSUME question' \in FailureQuestions,
             answer' = FailureBreakdown(question'.outcomes, question'.length)
      PROVE  ClassificationsAddUp'
  <2>1. question'.about = "failures"
    BY <1>16 DEF FailureQuestions
  <2>2. FailuresAddUp(question', answer')
    BY <1>16, FailuresOfQuestions, Zenon
  <2> QED
    BY <2>1, <2>2, SMT DEF ClassificationsAddUp
<1> QED
  BY <1>1, <1>2, <1>3, <1>4, <1>5, <1>6, <1>7, <1>8, <1>9, <1>10, <1>11, <1>12, <1>13,
     <1>14, <1>15, <1>16, Zenon DEF AskMeasures, Answers

LEMMA RetrievalMeasuresNothing == ASSUME AskRetrieval \/ AskDatasets PROVE question'.about \notin MeasureKinds
<1>1. \A q \in RankedQuestions : q.about \notin MeasureKinds
  BY DEF RankedQuestions, MeasureKinds
<1>2. \A q \in SearchQuestions : q.about \notin MeasureKinds
  BY DEF SearchQuestions, MeasureKinds
<1>3. \A q \in RegressionQuestions : q.about \notin MeasureKinds
  BY DEF RegressionQuestions, MeasureKinds
<1>4. \A q \in RunQuestions : q.about \notin MeasureKinds
  BY DEF RunQuestions, MeasureKinds
<1>5. \A q \in EvaluateQuestions : q.about \notin MeasureKinds
  BY DEF EvaluateQuestions, MeasureKinds
<1>6. \A q \in MiraclQuestions : q.about \notin MeasureKinds
  BY DEF MiraclQuestions, MeasureKinds
<1>7. \A q \in CaseQuestions : q.about \notin MeasureKinds
  BY DEF CaseQuestions, MeasureKinds
<1>8. \A q \in RagtruthQuestions : q.about \notin MeasureKinds
  BY DEF RagtruthQuestions, MeasureKinds
<1> QED
  BY <1>1, <1>2, <1>3, <1>4, <1>5, <1>6, <1>7, <1>8, Zenon DEF AskRetrieval, AskDatasets, Answers

LEMMA JudgeMeasuresNothing == ASSUME AskJudge PROVE question'.about \notin MeasureKinds
<1>1. \A adapter \in Adapters : \A q \in JudgeQuestionsOf(adapter) : q.about \notin MeasureKinds
  BY DEF JudgeQuestionsOf, MeasureKinds
<1> QED
  BY <1>1, Zenon DEF AskJudge, Answers

LEMMA SamplesAddUp == ASSUME AskSamples PROVE ClassificationsAddUp'
<1>1. PICK examples \in Populations :
        \E sample \in SampleAnswers(examples) :
          question' = [about |-> "samples", examples |-> examples] /\ answer' = sample
  BY Zenon DEF AskSamples
<1>2. question'.about = "samples" /\ question'.examples = examples
  BY <1>1
<1>3. SamplesHold(question'.examples, answer')
  BY <1>1, <1>2, SamplesOfQuestions
<1> QED
  BY <1>2, <1>3, SMT DEF ClassificationsAddUp

\* Whatever is measured adds up: every count, slice, rate and sample that the tools answer with
\* agrees with the others and with its question (evaluators/hallucination/, pilot/).
THEOREM ClassificationsTheorem == Spec => []ClassificationsAddUp
<1>1. Init => ClassificationsAddUp
  BY SMT DEF Init, Unasked, ClassificationsAddUp
<1>2. ASSUME ClassificationsAddUp, [Next]_vars
      PROVE  ClassificationsAddUp'
  <2>1. CASE AskMeasures
    BY <2>1, MeasuresAddUp
  <2>2. CASE AskSamples
    BY <2>2, SamplesAddUp
  <2>3. CASE AskRetrieval \/ AskDatasets
    BY <2>3, RetrievalMeasuresNothing, NothingToAddUp
  <2>4. CASE AskJudge
    BY <2>4, JudgeMeasuresNothing, NothingToAddUp
  <2>5. CASE PrepareData \/ RunPilot \/ RunLocal \/ UNCHANGED vars
    <3>1. question' = question /\ answer' = answer
      BY <2>5, Zenon DEF PrepareData, RunPilot, RunLocal, vars
    <3> QED
      BY <1>2, <3>1, SMT DEF ClassificationsAddUp
  <2> QED
    BY <1>2, <2>1, <2>2, <2>3, <2>4, <2>5 DEF Next
<1> QED
  BY <1>1, <1>2, PTL DEF Spec

-----------------------------------------------------------------------------
(* What is retrieved is scored fairly *)

RetrievalKinds ==
  {"ranked", "search", "regression", "runs", "evaluate", "miracl", "cases", "ragtruth"}

LEMMA NothingToScore ==
  ASSUME question'.about \notin RetrievalKinds PROVE RetrievalIsScoredFairly'
BY SMT DEF RetrievalIsScoredFairly, RetrievalKinds

LEMMA RetrievalScoresFairly == ASSUME AskRetrieval PROVE RetrievalIsScoredFairly'
<1>1. ASSUME question' \in RankedQuestions,
             answer' = AnswerRanked(question')
      PROVE  RetrievalIsScoredFairly'
  <2>1. question'.about = "ranked"
    BY <1>1 DEF RankedQuestions
  <2>2. RankedFairly(question', answer')
    BY <1>1, RankedOfQuestions, Zenon
  <2> QED
    BY <2>1, <2>2, SMT DEF RetrievalIsScoredFairly
<1>2. ASSUME question' \in SearchQuestions,
             answer' = AnswerSearch(question')
      PROVE  RetrievalIsScoredFairly'
  <2>1. question'.about = "search"
    BY <1>2 DEF SearchQuestions
  <2>2. SearchedFairly(question', answer')
    BY <1>2, SearchesOfQuestions, Zenon
  <2> QED
    BY <2>1, <2>2, SMT DEF RetrievalIsScoredFairly
<1>3. ASSUME question' \in RegressionQuestions,
             answer' = AnswerRegression(question')
      PROVE  RetrievalIsScoredFairly'
  <2>1. question'.about = "regression"
    BY <1>3 DEF RegressionQuestions
  <2>2. ComparesClosed(question', answer')
    BY <1>3, GatesOfQuestions, Zenon
  <2> QED
    BY <2>1, <2>2, SMT DEF RetrievalIsScoredFairly
<1>4. ASSUME question' \in RunQuestions,
             answer' = AnswerRuns(question')
      PROVE  RetrievalIsScoredFairly'
  <2>1. question'.about = "runs"
    BY <1>4 DEF RunQuestions
  <2>2. RunsCompareFairly(question', answer')
    BY <1>4, RunsOfQuestions, Zenon
  <2> QED
    BY <2>1, <2>2, SMT DEF RetrievalIsScoredFairly
<1>5. ASSUME question' \in EvaluateQuestions,
             answer' = AnswerEvaluate(question')
      PROVE  RetrievalIsScoredFairly'
  <2>1. question'.about = "evaluate"
    BY <1>5 DEF EvaluateQuestions
  <2>2. EvaluatesFiles(question', answer')
    BY <1>5, EvaluationsOfQuestions, Zenon
  <2> QED
    BY <2>1, <2>2, SMT DEF RetrievalIsScoredFairly
<1>6. ASSUME question' \in MiraclQuestions,
             answer' = AnswerMiracl(question')
      PROVE  RetrievalIsScoredFairly'
  <2>1. question'.about = "miracl"
    BY <1>6 DEF MiraclQuestions
  <2>2. MiraclIsWhole(question', answer')
    BY <1>6, MiraclOfQuestions, Zenon
  <2> QED
    BY <2>1, <2>2, SMT DEF RetrievalIsScoredFairly
<1> QED
  BY <1>1, <1>2, <1>3, <1>4, <1>5, <1>6, Zenon DEF AskRetrieval, Answers

LEMMA DatasetsScoreFairly == ASSUME AskDatasets PROVE RetrievalIsScoredFairly'
<1>1. ASSUME question' \in CaseQuestions,
             answer' = DatasetValidate(question'.file, {1}, SameQuestion)
      PROVE  RetrievalIsScoredFairly'
  <2>1. question'.about = "cases"
    BY <1>1 DEF CaseQuestions
  <2>2. ValidatesFiles(question', answer')
    BY <1>1, CasesOfQuestions, Zenon
  <2> QED
    BY <2>1, <2>2, SMT DEF RetrievalIsScoredFairly
<1>2. ASSUME question' \in RagtruthQuestions,
             answer' = AnswerRagtruth(question')
      PROVE  RetrievalIsScoredFairly'
  <2>1. question'.about = "ragtruth"
    BY <1>2 DEF RagtruthQuestions
  <2>2. RagtruthIsWhole(question', answer')
    BY <1>2, RagtruthOfQuestions, Zenon
  <2> QED
    BY <2>1, <2>2, SMT DEF RetrievalIsScoredFairly
<1> QED
  BY <1>1, <1>2, Zenon DEF AskDatasets, Answers

LEMMA MeasuresScoreNothing == ASSUME AskMeasures PROVE question'.about \notin RetrievalKinds
<1>1. \A q \in PairQuestions : q.about \notin RetrievalKinds
  BY DEF PairQuestions, RetrievalKinds
<1>2. \A q \in DiscordantQuestions : q.about \notin RetrievalKinds
  BY DEF DiscordantQuestions, RetrievalKinds
<1>3. \A q \in ThresholdQuestions : q.about \notin RetrievalKinds
  BY DEF ThresholdQuestions, RetrievalKinds
<1>4. \A q \in BatchQuestions : q.about \notin RetrievalKinds
  BY DEF BatchQuestions, RetrievalKinds
<1>5. \A q \in ProviderQuestions : q.about \notin RetrievalKinds
  BY DEF ProviderQuestions, RetrievalKinds
<1>6. \A q \in ThreeQuestions : q.about \notin RetrievalKinds
  BY DEF ThreeQuestions, RetrievalKinds
<1>7. \A q \in ManyQuestions : q.about \notin RetrievalKinds
  BY DEF ManyQuestions, RetrievalKinds
<1>8. \A q \in RepeatQuestions : q.about \notin RetrievalKinds
  BY DEF RepeatQuestions, RetrievalKinds
<1>9. \A q \in RankQuestions : q.about \notin RetrievalKinds
  BY DEF RankQuestions, RetrievalKinds
<1>10. \A q \in CalibrationQuestions : q.about \notin RetrievalKinds
  BY DEF CalibrationQuestions, RetrievalKinds
<1>11. \A q \in LatencyQuestions : q.about \notin RetrievalKinds
  BY DEF LatencyQuestions, RetrievalKinds
<1>12. \A q \in BootstrapQuestions : q.about \notin RetrievalKinds
  BY DEF BootstrapQuestions, RetrievalKinds
<1>13. \A q \in HeuristicQuestions : q.about \notin RetrievalKinds
  BY DEF HeuristicQuestions, RetrievalKinds
<1>14. \A q \in ErrorQuestions : q.about \notin RetrievalKinds
  BY DEF ErrorQuestions, RetrievalKinds
<1>15. \A q \in ReadinessQuestions : q.about \notin RetrievalKinds
  BY DEF ReadinessQuestions, RetrievalKinds
<1>16. \A q \in FailureQuestions : q.about \notin RetrievalKinds
  BY DEF FailureQuestions, RetrievalKinds
<1> QED
  BY <1>1, <1>2, <1>3, <1>4, <1>5, <1>6, <1>7, <1>8, <1>9, <1>10, <1>11, <1>12, <1>13, <1>14, <1>15, <1>16, Zenon DEF AskMeasures, Answers

LEMMA JudgeScoresNothing == ASSUME AskJudge PROVE question'.about \notin RetrievalKinds
<1>1. \A adapter \in Adapters : \A q \in JudgeQuestionsOf(adapter) : q.about \notin RetrievalKinds
  BY DEF JudgeQuestionsOf, RetrievalKinds
<1> QED
  BY <1>1, Zenon DEF AskJudge, Answers

LEMMA SamplesScoreNothing == ASSUME AskSamples PROVE question'.about \notin RetrievalKinds
<1>1. PICK examples \in Populations : question' = [about |-> "samples", examples |-> examples]
  BY Zenon DEF AskSamples
<1>2. question'.about = "samples"
  BY <1>1
<1> QED
  BY <1>2 DEF RetrievalKinds

\* Whatever is ranked, searched, compared or read from files is scored fairly: a better ranking
\* never looks worse, no missing or infinite number passes, and no record is lost out of sight
\* (evaluators/retrieval/, regression/, retrieval/, datasets/, benchmarks/).
THEOREM RetrievalTheorem == Spec => []RetrievalIsScoredFairly
<1>1. Init => RetrievalIsScoredFairly
  BY SMT DEF Init, Unasked, RetrievalIsScoredFairly
<1>2. ASSUME RetrievalIsScoredFairly, [Next]_vars
      PROVE  RetrievalIsScoredFairly'
  <2>1. CASE AskRetrieval
    BY <2>1, RetrievalScoresFairly
  <2>2. CASE AskDatasets
    BY <2>2, DatasetsScoreFairly
  <2>3. CASE AskMeasures
    BY <2>3, MeasuresScoreNothing, NothingToScore
  <2>4. CASE AskSamples
    BY <2>4, SamplesScoreNothing, NothingToScore
  <2>5. CASE AskJudge
    BY <2>5, JudgeScoresNothing, NothingToScore
  <2>6. CASE PrepareData \/ RunPilot \/ RunLocal \/ UNCHANGED vars
    <3>1. question' = question /\ answer' = answer
      BY <2>6, Zenon DEF PrepareData, RunPilot, RunLocal, vars
    <3> QED
      BY <1>2, <3>1, SMT DEF RetrievalIsScoredFairly
  <2> QED
    BY <1>2, <2>1, <2>2, <2>3, <2>4, <2>5, <2>6 DEF Next
<1> QED
  BY <1>1, <1>2, PTL DEF Spec

-----------------------------------------------------------------------------
(* The tools at their work are the components *)

LEMMA ToolsArePreparation == Spec => PreparationSpec
<1>1. Init => PrepInit({"miracl", "ragtruth"})
  BY DEF Init, PrepInit
<1>2. [Next]_vars => [Prepare]_prepVars
  BY Zenon DEF Next, vars, AskJudge, AskMeasures, AskSamples, AskRetrieval, AskDatasets, Answers,
       PrepareData, RunPilot, RunLocal
<1> QED
  BY <1>1, <1>2, PTL DEF Spec, PreparationSpec

LEMMA ToolsAreLedger == Spec => LedgerSpec
<1>1. Init => LedgerInit
  BY DEF Init
<1>2. [Next]_vars => [Pilot]_ledgerVars
  BY Zenon DEF Next, vars, AskJudge, AskMeasures, AskSamples, AskRetrieval, AskDatasets, Answers,
       PrepareData, RunPilot, RunLocal
<1> QED
  BY <1>1, <1>2, PTL DEF Spec, LedgerSpec

LEMMA ToolsAreLocal == Spec => LocalSpec
<1>1. Init => LocalInit({"v1", "v2", "v3"})
  BY DEF Init, LocalInit
<1>2. [Next]_vars => [LocalNext]_localVars
  BY Zenon DEF Next, vars, AskJudge, AskMeasures, AskSamples, AskRetrieval, AskDatasets, Answers,
       PrepareData, RunPilot, RunLocal
<1> QED
  BY <1>1, <1>2, PTL DEF Spec, LocalSpec
\* What holds of each component holds of it in the tools: of the data, the ledger, the reports
\* and the diagnostics, whichever tool is at work and however often it dies.
THEOREM ToolsTheorem ==
  Spec => /\ []PreparedDataAreWhole
          /\ []LedgerTellsRequests
          /\ []ReportsAreSound
          /\ []DiagnosticsCoverFailures
          /\ []FullRunIsGuarded
          /\ ConsistencyIsThreefold
<1> QED
  BY ToolsArePreparation, ToolsAreLedger, ToolsAreLocal, PreparationTheorem, LedgerTheorem,
     ReportsTheorem, DiagnosticsTheorem, FullRunTheorem, ThreefoldTheorem, PTL
=============================================================================
