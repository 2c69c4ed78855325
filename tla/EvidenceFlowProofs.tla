-------------------------- MODULE EvidenceFlowProofs --------------------------
(***************************************************************************)
(* What leaves a workspace is true: comparisons tell their operands and    *)
(* are whole and final, exports are of evidence that may leave, as it is,  *)
(* a preview is used once, and nothing at a destination is replaced; for   *)
(* any runs, requests, contents and bounds.                                *)
(***************************************************************************)
EXTENDS EvidenceFlow, SequenceTheorems, TLAPS

-----------------------------------------------------------------------------
(* The invariant *)

\* What a preview, an export or a manifest can be of; of the tasks, the one that is served.
AnySource == ({"run"} \X Runs) \cup ({"comparison"} \X Nat)
SomeReads == Reads \ {<<>>}

PinTasks == [kind : {"pin"}, run : Runs, confirmed : BOOLEAN]
CompareTasks == [kind : {"compare"}, base : Runs, baseSha : Versions,
                 candidate : Runs, began : Nat]
PreviewTasks == [kind : {"preview"}, source : AnySource, now : Nat]
ConfirmTasks == [kind : {"confirm"}, source : AnySource, now : Nat,
                 preview : Nat, began : Nat]
ExportTasks == PreviewTasks \cup ConfirmTasks
Tasks == PinTasks \cup CompareTasks \cup ExportTasks

\* A request at each of its steps.
Readers == [pc : {"read"}, task : Tasks, left : Seq(Runs), read : Reads]
Savers == [pc : {"save"}, task : CompareTasks, read : SomeReads, mode : Modes]
Lefts == {<<"result", "failures", "config">>, <<"failures", "config">>,
          <<"result", "config">>, <<"config">>}
Writers == [pc : {"saving"}, task : CompareTasks, id : Nat, left : Lefts]
Checked == [pc : {"put"}, task : ExportTasks, left : {<<>>}, read : SomeReads]
Committers == [pc : {"commit", "manifest"}, task : ConfirmTasks, read : SomeReads,
               directory : Directories]
Requests == {Idle} \cup Readers \cup Savers \cup Writers \cup Checked \cup Committers

\* What lies in the files and in memory, and what the requests are at.
StoreTypes ==
  /\ evidence \in [Runs -> {None} \cup Contents]
  /\ drifted \subseteq Runs
  /\ baseline \in {None} \cup Pointers
  /\ comparisons \in Seq([record : Records, files : SUBSET FileNames])
  /\ exported \subseteq [directory : Directories, source : AnySource, files : Reads]
  /\ manifests \subseteq [preview : Nat, source : AnySource, directory : Directories,
                          files : SomeReads, created : Nat]
  /\ previews \in Seq([source : AnySource, files : SomeReads, expires : Nat])
  /\ live \subseteq DOMAIN previews
  /\ clock \in 0..MaxClock /\ changes \in 0..MaxChanges
  /\ changedAt \in [Runs -> 0..changes]
  /\ cl \in [Clients -> Requests]

\* The record of a comparison tells its two runs and what was read of them.
RecordTells(rec) ==
  /\ rec.base # rec.candidate
  /\ rec.mode = "CANONICAL" => rec.comparable = TRUE
  /\ rec.comparable = Comparable(rec.base, rec.candidate)
  /\ rec.report = <<rec.baseSha, rec.candidateSha>>

RecordsTell == \A i \in DOMAIN comparisons : RecordTells(comparisons[i].record)

\* A source that may leave stays one: it is a run, or a comparison that can be read.
Sound(s) == s \in Sources /\ Offered(s)
Tells(s, read) == s[1] = "comparison" => read = Record(s[2]).report

\* Each preview, and each export of ours, is of a source that may leave and tells it.
PreviewsTell == \A p \in DOMAIN previews :
  Sound(previews[p].source) /\ Tells(previews[p].source, previews[p].files)

ExportsTell == \A e \in Ours : Sound(e.source) /\ Tells(e.source, e.files)

\* A preview that has a manifest is used up: no request can take it again.
ManifestsTell ==
  /\ \A m \in manifests : m.preview \in DOMAIN previews /\ m.preview \notin live
  /\ ManifestTellsExport
  /\ OneExportPerPreview

\* The runs a request reads, and how far it has come.
OperandsOf(task) ==
  CASE task.kind = "pin" -> <<task.run>>
    [] task.kind = "compare" -> <<task.base, task.candidate>>
    [] OTHER -> Operands(task.source)

ReadSoFar(ops, left, read) ==
  \/ left = ops /\ read = <<>>
  \/ Len(ops) = 1 /\ left = <<>> /\ Len(read) = 1
  \/ Len(ops) = 2 /\ left = <<ops[2]>> /\ Len(read) = 1
  \/ Len(ops) = 2 /\ left = <<>> /\ Len(read) = 2

\* What was read of a run that nobody has edited since the request began is its evidence
\* of now.
Fresh(task, ops, read) ==
  /\ task.began <= changes
  /\ \A n \in DOMAIN read : Untouched(ops[n], task.began)
        => Verified(ops[n]) /\ evidence[ops[n]].result = read[n]

\* What a request knows at its step: while it reads, when it compares, when it exports,
\* and when it confirms.
ReaderKnows(q) ==
  q.pc = "read" =>
    /\ ReadSoFar(OperandsOf(q.task), q.left, q.read)
    /\ q.task.kind \in {"compare", "confirm"} => Fresh(q.task, OperandsOf(q.task), q.read)

ComparerKnows(q) ==
  q.pc # "idle" /\ q.task.kind = "compare" =>
    /\ q.task.base # q.task.candidate
    /\ q.pc = "save" =>
         /\ Len(q.read) = 2 /\ q.read[1] = q.task.baseSha
         /\ q.mode = "CANONICAL" => Comparable(q.task.base, q.task.candidate)
         /\ Fresh(q.task, <<q.task.base, q.task.candidate>>, q.read)

ExporterKnows(q) ==
  q.pc # "idle" /\ q.task.kind \in {"preview", "confirm"} =>
    /\ Sound(q.task.source) /\ q.task.now <= clock
    /\ q.pc # "read" => Tells(q.task.source, q.read)

ConfirmerKnows(q) ==
  q.pc # "idle" /\ q.task.kind = "confirm" =>
    /\ q.task.preview \in DOMAIN previews
    /\ q.task.source = previews[q.task.preview].source
    /\ q.task.now < previews[q.task.preview].expires
    /\ q.pc \in {"put", "commit"} =>
         /\ Len(q.read) = Len(Operands(q.task.source))
         /\ Fresh(q.task, Operands(q.task.source), q.read)
    /\ q.pc \in {"commit", "manifest"} => q.read = previews[q.task.preview].files
    /\ q.pc = "manifest" =>
         [directory |-> q.directory, source |-> q.task.source, files |-> q.read] \in exported

Knows(q) == ReaderKnows(q) /\ ComparerKnows(q) /\ ExporterKnows(q) /\ ConfirmerKnows(q)
RequestsKnow == \A c \in Clients : Knows(cl[c])

\* What a comparison that is being written has, and what is left of it.
WrittenSoFar(written, left, task) ==
  <<written, left>> \in
    IF HasFailures(task) THEN {<<{"directory"}, <<"result", "failures", "config">>>>,
                     <<{"directory", "result"}, <<"failures", "config">>>>,
                     <<{"directory", "result", "failures"}, <<"config">>>>}
    ELSE {<<{"directory"}, <<"result", "config">>>>,
          <<{"directory", "result"}, <<"config">>>>}

\* _job_lock: one comparison is being written, and nobody can read it yet.
OneWriter ==
  /\ \A c, d \in Clients : At(c, "saving") /\ At(d, "saving") => c = d
  /\ \A c \in Clients : At(c, "saving") =>
       /\ cl[c].id \in DOMAIN comparisons
       /\ comparisons[cl[c].id].record.base = cl[c].task.base
       /\ comparisons[cl[c].id].record.candidate = cl[c].task.candidate
       /\ WrittenSoFar(comparisons[cl[c].id].files, cl[c].left, cl[c].task)

\* ExportService._lock: one preview is being confirmed, and nobody has confirmed it before.
OneConfirmer ==
  /\ \A c, d \in Clients : Serves(c, "confirm") /\ Serves(d, "confirm") => c = d
  /\ \A c \in Clients : Serves(c, "confirm") =>
       \A m \in manifests : m.preview # cl[c].task.preview

EvidenceInvariant ==
  /\ StoreTypes
  /\ RecordsTell /\ ComparisonIsWhole
  /\ PreviewsTell /\ ExportsTell /\ ManifestsTell
  /\ RequestsKnow
  /\ OneWriter /\ OneConfirmer
-----------------------------------------------------------------------------
(* Requests by their steps *)

LEMMA RequestIsTyped ==
  ASSUME NEW q \in Requests
  PROVE  /\ q.pc \in {"idle", "read", "save", "saving", "put", "commit", "manifest"}
         /\ q.pc = "idle" => q = Idle
         /\ q.pc = "read" => q \in Readers
         /\ q.pc = "save" => q \in Savers
         /\ q.pc = "saving" => q \in Writers
         /\ q.pc = "put" => q \in Checked
         /\ q.pc \in {"commit", "manifest"} => q \in Committers
BY DEF Requests, Idle, Readers, Savers, Writers, Checked, Committers

LEMMA TaskIsTyped ==
  ASSUME NEW t \in Tasks
  PROVE  /\ t.kind \in {"pin", "compare", "preview", "confirm"}
         /\ t.kind = "pin" => t \in PinTasks
         /\ t.kind = "compare" => t \in CompareTasks
         /\ t.kind = "preview" => t \in PreviewTasks
         /\ t.kind = "confirm" => t \in ConfirmTasks
         /\ t.kind \in {"preview", "confirm"} => t.source \in AnySource /\ t.now \in Nat
BY DEF Tasks, PinTasks, CompareTasks, PreviewTasks, ConfirmTasks, ExportTasks

LEMMA RequestHasTask ==
  ASSUME NEW q \in Requests, q.pc # "idle"
  PROVE  q.task \in Tasks
BY DEF Requests, Idle, Readers, Savers, Writers, Checked, Committers, Tasks, ExportTasks

\* A source is a run or a comparison.
LEMMA SourceIsEither ==
  ASSUME NEW s \in AnySource
  PROVE  \/ s[1] = "run" /\ s[2] \in Runs /\ s = RunSource(s[2])
         \/ s[1] = "comparison" /\ s[2] \in Nat /\ s = ComparisonSource(s[2])
BY DEF AnySource, RunSource, ComparisonSource

LEMMA SoundSource ==
  ASSUME NEW s, Sound(s), StoreTypes
  PROVE  /\ s \in AnySource
         /\ \/ s[1] = "run" /\ s[2] \in Runs /\ s = RunSource(s[2])
            \/ /\ s[1] = "comparison" /\ s[2] \in DOMAIN comparisons
               /\ s = ComparisonSource(s[2])
               /\ Readable(s[2]) /\ Record(s[2]).mode = "CANONICAL" /\ Record(s[2]).comparable
BY DEF Sound, Sources, Offered, RunSource, ComparisonSource, StoreTypes, AnySource

\* The operands of a request are one run or two.
LEMMA ElementIsTyped ==
  ASSUME NEW S, NEW q \in Seq(S), NEW i \in DOMAIN q
  PROVE  q[i] \in S
OBVIOUS

LEMMA ComparisonIsTyped ==
  ASSUME StoreTypes, NEW i \in DOMAIN comparisons
  PROVE  /\ comparisons[i] = [record |-> comparisons[i].record, files |-> comparisons[i].files]
         /\ comparisons[i].record \in Records /\ comparisons[i].files \in SUBSET FileNames
<1>1. comparisons \in Seq([record : Records, files : SUBSET FileNames])
  BY DEF StoreTypes
<1>2. comparisons[i] \in [record : Records, files : SUBSET FileNames]
  BY <1>1, ElementIsTyped
<1> QED
  BY <1>2

LEMMA PreviewIsTyped ==
  ASSUME StoreTypes, NEW p \in DOMAIN previews
  PROVE  /\ previews[p].source \in AnySource /\ previews[p].files \in SomeReads
         /\ previews[p].expires \in Nat
<1>1. previews \in Seq([source : AnySource, files : SomeReads, expires : Nat])
  BY DEF StoreTypes
<1>2. previews[p] \in [source : AnySource, files : SomeReads, expires : Nat]
  BY <1>1, ElementIsTyped
<1> QED
  BY <1>2

LEMMA OperandsAreRuns ==
  ASSUME StoreTypes, NEW s, Sound(s)
  PROVE  \/ \E r \in Runs : Operands(s) = <<r>>
         \/ \E r, t \in Runs : Operands(s) = <<r, t>>
<1>1. \A i \in DOMAIN comparisons : comparisons[i].record \in Records
  BY ComparisonIsTyped
<1>2. \A i \in DOMAIN comparisons : Record(i).base \in Runs /\ Record(i).candidate \in Runs
  BY <1>1 DEF Records, Record
<1> QED
  BY SoundSource, <1>2 DEF Operands

LEMMA OperandsAreSequence ==
  ASSUME StoreTypes, NEW s, Sound(s)
  PROVE  Operands(s) \in Seq(Runs)
<1>1. CASE \E r \in Runs : Operands(s) = <<r>>
  BY <1>1
<1>2. CASE \E r, t \in Runs : Operands(s) = <<r, t>>
  BY <1>2
<1> QED
  BY <1>1, <1>2, OperandsAreRuns

LEMMA TaskOperands ==
  ASSUME StoreTypes, NEW q \in Requests, q.pc # "idle", Knows(q)
  PROVE  \/ \E r \in Runs : OperandsOf(q.task) = <<r>>
         \/ \E r, t \in Runs : OperandsOf(q.task) = <<r, t>>
<1>1. q.task \in Tasks
  BY RequestHasTask
<1>2. CASE q.task.kind = "pin"
  BY <1>1, <1>2, TaskIsTyped DEF OperandsOf, PinTasks
<1>3. CASE q.task.kind = "compare"
  BY <1>1, <1>3, TaskIsTyped DEF OperandsOf, CompareTasks
<1>4. CASE q.task.kind \in {"preview", "confirm"}
  <2>1. OperandsOf(q.task) = Operands(q.task.source)
    BY <1>4 DEF OperandsOf
  <2>2. Sound(q.task.source)
    BY <1>4 DEF Knows, ExporterKnows
  <2> QED
    BY <2>1, <2>2, OperandsAreRuns
<1> QED
  BY <1>1, <1>2, <1>3, <1>4, TaskIsTyped

LEMMA ReadRuns ==
  ASSUME NEW ops, (\E r \in Runs : ops = <<r>>) \/ (\E r, t \in Runs : ops = <<r, t>>),
         NEW read \in Reads, Len(read) <= Len(ops)
  PROVE  \A n \in DOMAIN read : ops[n] \in Runs
<1>1. /\ read = <<>> => DOMAIN read = {}
      /\ Len(read) = 1 => DOMAIN read = {1}
      /\ Len(read) = 2 => DOMAIN read = {1, 2}
      /\ Len(read) \in {0, 1, 2} /\ (Len(read) = 0 => read = <<>>)
  BY DEF Reads
<1>2. CASE \E r \in Runs : ops = <<r>>
  BY <1>1, <1>2
<1>3. CASE \E r, t \in Runs : ops = <<r, t>>
  BY <1>1, <1>3
<1> QED
  BY <1>2, <1>3

LEMMA NoMoreThanOperands ==
  ASSUME NEW ops, (\E r \in Runs : ops = <<r>>) \/ (\E r, t \in Runs : ops = <<r, t>>),
         NEW left, NEW read \in Reads, ReadSoFar(ops, left, read)
  PROVE  Len(read) <= Len(ops)
BY DEF ReadSoFar, Reads

-----------------------------------------------------------------------------
(* What a step may do to the store *)

\* What is recorded, previewed and exported stays; a run that has not been edited
\* since stays what it is.
Grows ==
  /\ \A i \in DOMAIN comparisons :
       /\ i \in DOMAIN comparisons' /\ comparisons'[i].record = comparisons[i].record
       /\ Readable(i) => comparisons'[i] = comparisons[i]
  /\ \A p \in DOMAIN previews : p \in DOMAIN previews' /\ previews'[p] = previews[p]
  /\ exported \subseteq exported'
  /\ clock <= clock' /\ changes <= changes'
  /\ \A r \in Runs :
       \/ changedAt'[r] > changes
       \/ changedAt'[r] = changedAt[r] /\ (Verified(r) => evidence'[r] = evidence[r])

LEMMA SourcesStay ==
  ASSUME StoreTypes, Grows, NEW s, Sound(s)
  PROVE  /\ Sound(s)'
         /\ Operands(s)' = Operands(s)
         /\ \A read : Tells(s, read) => Tells(s, read)'
<1>1. CASE s[1] = "run" /\ s[2] \in Runs /\ s = RunSource(s[2])
  BY <1>1 DEF Sound, Sources, Offered, Operands, Tells, RunSource
<1>2. CASE /\ s[1] = "comparison" /\ s[2] \in DOMAIN comparisons
           /\ s = ComparisonSource(s[2])
           /\ Readable(s[2]) /\ Record(s[2]).mode = "CANONICAL" /\ Record(s[2]).comparable
  <2>1. s[2] \in DOMAIN comparisons' /\ comparisons'[s[2]].record = comparisons[s[2]].record
    BY <1>2 DEF Grows
  <2>2. Readable(s[2])'
    BY <1>2 DEF Grows, Readable
  <2>3. Sound(s)'
    BY <1>2, <2>1, <2>2 DEF Sound, Sources, Offered, Record
  <2> QED
    BY <1>2, <2>1, <2>3 DEF Operands, Tells, Record
<1> QED
  BY <1>1, <1>2, SoundSource

LEMMA FreshStays ==
  ASSUME StoreTypes, StoreTypes', Grows,
         NEW task, task.began \in Nat,
         NEW ops, NEW read, \A n \in DOMAIN read : ops[n] \in Runs,
         Fresh(task, ops, read)
  PROVE  Fresh(task, ops, read)'
<1>1. changes \in Nat /\ changes' \in Nat /\ changes <= changes' /\ task.began <= changes
  BY DEF StoreTypes, Grows, Fresh
<1>2. task.began <= changes'
  BY <1>1
<1>3. ASSUME NEW n \in DOMAIN read, Untouched(ops[n], task.began)'
      PROVE  Verified(ops[n])' /\ evidence'[ops[n]].result = read[n]
  <2>1. changedAt[ops[n]] \in Nat /\ changedAt'[ops[n]] \in Nat
    BY DEF StoreTypes
  <2>2. changedAt'[ops[n]] <= changes
    BY <1>1, <1>3, <2>1 DEF Untouched
  <2>3. /\ changedAt'[ops[n]] = changedAt[ops[n]]
        /\ Verified(ops[n]) => evidence'[ops[n]] = evidence[ops[n]]
    BY <1>1, <2>1, <2>2 DEF Grows
  <2>4. Verified(ops[n]) /\ evidence[ops[n]].result = read[n]
    BY <1>3, <2>3 DEF Fresh, Untouched
  <2> QED
    BY <2>3, <2>4 DEF Verified
<1> QED
  BY <1>2, <1>3 DEF Fresh

\* What a request knows stays true while the store grows.
LEMMA KnowledgeStays ==
  ASSUME StoreTypes, StoreTypes', Grows, NEW q \in Requests, Knows(q)
  PROVE  Knows(q)'
<1>1. CASE q.pc = "idle"
  BY <1>1 DEF Knows, ReaderKnows, ComparerKnows, ExporterKnows, ConfirmerKnows
<1>2. CASE q.pc # "idle"
  <2>1. q.task \in Tasks
    BY <1>2, RequestHasTask
  <2>2. ExporterKnows(q)'
    <3>1. SUFFICES ASSUME q.task.kind \in {"preview", "confirm"}
                   PROVE  /\ Sound(q.task.source)' /\ q.task.now <= clock'
                          /\ q.pc # "read" => Tells(q.task.source, q.read)'
      BY <1>2 DEF ExporterKnows
    <3>2. /\ Sound(q.task.source) /\ q.task.now <= clock
          /\ q.pc # "read" => Tells(q.task.source, q.read)
      BY <1>2, <3>1 DEF Knows, ExporterKnows
    <3>3. q.task.now \in Nat /\ clock \in Nat /\ clock' \in Nat /\ clock <= clock'
      BY <2>1, <3>1, TaskIsTyped DEF StoreTypes, Grows
    <3>4. q.task.now <= clock'
      BY <3>2, <3>3
    <3> QED
      BY <3>2, <3>4, SourcesStay
  <2>3. OperandsOf(q.task)' = OperandsOf(q.task)
    <3>1. CASE q.task.kind \in {"pin", "compare"}
      BY <3>1 DEF OperandsOf
    <3>2. CASE q.task.kind \in {"preview", "confirm"}
      <4>1. Sound(q.task.source)
        BY <1>2, <3>2 DEF Knows, ExporterKnows
      <4>2. OperandsOf(q.task) = Operands(q.task.source)
        BY <3>2 DEF OperandsOf
      <4>3. OperandsOf(q.task)' = Operands(q.task.source)'
        BY <3>2 DEF OperandsOf
      <4> QED
        BY <4>1, <4>2, <4>3, SourcesStay
    <3> QED
      BY <2>1, <3>1, <3>2, TaskIsTyped
  <2>4. ReaderKnows(q)'
    <3>1. SUFFICES ASSUME q.pc = "read"
                   PROVE  /\ ReadSoFar(OperandsOf(q.task), q.left, q.read)'
                          /\ q.task.kind \in {"compare", "confirm"}
                               => Fresh(q.task, OperandsOf(q.task), q.read)'
      BY DEF ReaderKnows
    <3>2. ReadSoFar(OperandsOf(q.task), q.left, q.read)
      BY <3>1 DEF Knows, ReaderKnows
    <3>3. ReadSoFar(OperandsOf(q.task), q.left, q.read)'
      BY <2>3, <3>2 DEF ReadSoFar
    <3>4. ASSUME q.task.kind \in {"compare", "confirm"}
          PROVE  Fresh(q.task, OperandsOf(q.task), q.read)'
      <4>1. Fresh(q.task, OperandsOf(q.task), q.read)
        BY <3>1, <3>4 DEF Knows, ReaderKnows
      <4>2. q.task.began \in Nat
        BY <2>1, <3>4, TaskIsTyped DEF CompareTasks, ConfirmTasks
      <4>3. \A n \in DOMAIN q.read : OperandsOf(q.task)[n] \in Runs
        <5>1. q.read \in Reads
          BY <3>1, RequestIsTyped DEF Readers
        <5> QED
          BY <1>2, <3>2, <5>1, TaskOperands, ReadRuns, NoMoreThanOperands
      <4>4. \A ops : ops = OperandsOf(q.task) => Fresh(q.task, ops, q.read)'
        BY <4>1, <4>2, <4>3, FreshStays
      <4> QED
        BY <2>3, <4>4 DEF Fresh
    <3> QED
      BY <3>3, <3>4
  <2>5. ComparerKnows(q)'
    <3>1. SUFFICES ASSUME q.task.kind = "compare", q.pc = "save"
                   PROVE  Fresh(q.task, <<q.task.base, q.task.candidate>>, q.read)'
      BY <1>2 DEF Knows, ComparerKnows, Comparable
    <3>2. q \in Savers
      BY <3>1, RequestIsTyped
    <3>3. q.read \in Reads /\ Len(q.read) = 2 /\ q.task \in CompareTasks
      BY <1>2, <3>1, <3>2 DEF Savers, SomeReads, Knows, ComparerKnows
    <3>4. q.task.base \in Runs /\ q.task.candidate \in Runs /\ q.task.began \in Nat
      BY <3>3 DEF CompareTasks
    <3>5. \A n \in DOMAIN q.read : <<q.task.base, q.task.candidate>>[n] \in Runs
      BY <3>3, <3>4, ReadRuns
    <3>6. Fresh(q.task, <<q.task.base, q.task.candidate>>, q.read)
      BY <1>2, <3>1 DEF Knows, ComparerKnows
    <3> QED
      BY <3>4, <3>5, <3>6, FreshStays
  <2>6. ConfirmerKnows(q)'
    <3>1. SUFFICES ASSUME q.task.kind = "confirm"
                   PROVE  ConfirmerKnows(q)'
      BY DEF ConfirmerKnows
    <3>2. /\ q.task.preview \in DOMAIN previews
          /\ q.task.source = previews[q.task.preview].source
          /\ q.task.now < previews[q.task.preview].expires
          /\ q.pc \in {"put", "commit"} =>
               /\ Len(q.read) = Len(Operands(q.task.source))
               /\ Fresh(q.task, Operands(q.task.source), q.read)
          /\ q.pc \in {"commit", "manifest"} => q.read = previews[q.task.preview].files
          /\ q.pc = "manifest" =>
               [directory |-> q.directory, source |-> q.task.source, files |-> q.read]
                 \in exported
      BY <1>2, <3>1 DEF Knows, ConfirmerKnows
    <3>3. q.task.preview \in DOMAIN previews'
          /\ previews'[q.task.preview] = previews[q.task.preview]
      BY <3>2 DEF Grows
    <3>4. Sound(q.task.source)
      BY <1>2, <3>1 DEF Knows, ExporterKnows
    <3>5. Operands(q.task.source)' = Operands(q.task.source)
      BY <3>4, SourcesStay
    <3>6. ASSUME q.pc \in {"put", "commit"}
          PROVE  Fresh(q.task, Operands(q.task.source), q.read)'
      <4>1. q.read \in Reads
        BY <3>6, RequestIsTyped DEF Checked, Committers, SomeReads
      <4>2. \A n \in DOMAIN q.read : Operands(q.task.source)[n] \in Runs
        <5>1. Len(q.read) <= Len(Operands(q.task.source))
          BY <3>2, <3>6, <4>1, <3>4, OperandsAreRuns
        <5> QED
          BY <3>4, <4>1, <5>1, OperandsAreRuns, ReadRuns
      <4>3. q.task.began \in Nat
        BY <2>1, <3>1, TaskIsTyped DEF ConfirmTasks
      <4>4. \A ops : ops = Operands(q.task.source) => Fresh(q.task, ops, q.read)'
        BY <3>2, <3>6, <4>2, <4>3, FreshStays
      <4> QED
        BY <3>5, <4>4 DEF Fresh
    <3> QED
      BY <3>2, <3>3, <3>5, <3>6 DEF ConfirmerKnows, Grows
  <2> QED
    BY <2>2, <2>4, <2>5, <2>6 DEF Knows
<1> QED
  BY <1>1, <1>2
-----------------------------------------------------------------------------
(* The parts of the invariant that a step leaves alone *)

LEMMA RequestsStay ==
  ASSUME EvidenceInvariant, StoreTypes', Grows, NEW c \in Clients, cl'[c] = cl[c]
  PROVE  Knows(cl[c])' 
<1>1. cl[c] \in Requests /\ Knows(cl[c])
  BY DEF EvidenceInvariant, StoreTypes, RequestsKnow
<1>2. \A q : q \in Requests /\ Knows(q) => Knows(q)'
  BY KnowledgeStays DEF EvidenceInvariant
<1>3. \A q : q = cl[c] => Knows(q)'
  BY <1>1, <1>2
<1> QED
  BY <1>3 DEF Knows, ReaderKnows, ComparerKnows, ExporterKnows, ConfirmerKnows

LEMMA IdleKnows ==
  ASSUME NEW c \in Clients, cl'[c] = Idle
  PROVE  Knows(cl[c])'
BY DEF Idle, Knows, ReaderKnows, ComparerKnows, ExporterKnows, ConfirmerKnows

LEMMA RecordsStay ==
  ASSUME RecordsTell, ComparisonIsWhole, comparisons' = comparisons
  PROVE  RecordsTell' /\ ComparisonIsWhole'
BY DEF RecordsTell, RecordTells, ComparisonIsWhole, Comparable, SameQueries, Readable

LEMMA PreviewsStay ==
  ASSUME StoreTypes, Grows, PreviewsTell, previews' = previews
  PROVE  PreviewsTell'
<1> SUFFICES ASSUME NEW p \in DOMAIN previews
             PROVE  /\ Sound(previews[p].source)'
                    /\ Tells(previews[p].source, previews[p].files)'
  BY DEF PreviewsTell
<1>1. Sound(previews[p].source) /\ Tells(previews[p].source, previews[p].files)
  BY DEF PreviewsTell
<1>2. \A s : s = previews[p].source =>
        /\ Sound(s)'
        /\ \A read : Tells(s, read) => Tells(s, read)'
  BY <1>1, SourcesStay
<1> QED
  BY <1>1, <1>2 DEF Sound, Tells

LEMMA ExportsStay ==
  ASSUME StoreTypes, Grows, ExportsTell, exported' = exported
  PROVE  ExportsTell'
<1> SUFFICES ASSUME NEW e \in exported, e.files # Foreign
             PROVE  Sound(e.source)' /\ Tells(e.source, e.files)'
  BY DEF ExportsTell, Ours
<1>1. Sound(e.source) /\ Tells(e.source, e.files)
  BY DEF ExportsTell, Ours
<1> QED
  BY <1>1, SourcesStay

LEMMA ManifestsStay ==
  ASSUME StoreTypes, Grows, ManifestsTell, manifests' = manifests, live' \subseteq live
  PROVE  ManifestsTell'
<1>1. \A m \in manifests : m.preview \in DOMAIN previews' /\ m.preview \notin live'
  BY DEF ManifestsTell, Grows
<1>2. ManifestTellsExport'
  BY DEF ManifestsTell, Grows, ManifestTellsExport
<1>3. OneExportPerPreview'
  BY DEF ManifestsTell, OneExportPerPreview
<1> QED
  BY <1>1, <1>2, <1>3 DEF ManifestsTell

-----------------------------------------------------------------------------
(* A step of one request that changes no file *)

\* A request goes on, ends, or begins, with nothing of it in the store yet.
LEMMA OneRequestMoves ==
  ASSUME EvidenceInvariant, NEW d \in Clients, NEW q \in Requests,
         cl' = [cl EXCEPT ![d] = q],
         UNCHANGED <<inputs, files, previews, clock>>, live' \subseteq live,
         Knows(q),
         cl[d].pc # "saving", q.pc # "saving",
         q.pc # "idle" /\ q.task.kind = "confirm" =>
           \/ Serves(d, "confirm") /\ cl[d].task = q.task
           \/ ExportLockFree /\ q.task.preview \in live
  PROVE  EvidenceInvariant' /\ Grows
<1> USE DEF inputs, files
<1>1. StoreTypes /\ StoreTypes'
  BY DEF EvidenceInvariant, StoreTypes
<1>2. Grows
  BY <1>1 DEF Grows, Verified, Readable, StoreTypes
<1>3. /\ cl'[d] = q
      /\ \A c \in Clients \ {d} : cl'[c] = cl[c]
  BY <1>1 DEF StoreTypes
<1>4. RecordsTell' /\ ComparisonIsWhole' /\ PreviewsTell' /\ ExportsTell' /\ ManifestsTell'
  BY <1>1, <1>2, RecordsStay, PreviewsStay, ExportsStay, ManifestsStay DEF EvidenceInvariant
<1>5. RequestsKnow'
  <2>1. Knows(q)'
    BY <1>1, <1>2, KnowledgeStays
  <2>2. Knows(cl[d])'
    BY <1>3, <2>1 DEF Knows, ReaderKnows, ComparerKnows, ExporterKnows, ConfirmerKnows
  <2>3. \A c \in Clients \ {d} : Knows(cl[c])'
    BY <1>1, <1>2, <1>3, RequestsStay
  <2> QED
    BY <2>2, <2>3 DEF RequestsKnow
<1>6. OneWriter'
  <2>1. \A c \in Clients : At(c, "saving")' => c # d /\ At(c, "saving") /\ cl'[c] = cl[c]
    BY <1>3 DEF At
  <2> QED
    BY <2>1 DEF EvidenceInvariant, OneWriter, WrittenSoFar, HasFailures, SameQueries
<1>7. OneConfirmer'
  <2>1. \A c \in Clients \ {d} : Serves(c, "confirm")' =>
          Serves(c, "confirm") /\ cl'[c] = cl[c]
    BY <1>3 DEF Serves
  <2>2. CASE ~Serves(d, "confirm")'
    BY <2>1, <2>2 DEF EvidenceInvariant, OneConfirmer
  <2>3. CASE Serves(d, "confirm")' /\ Serves(d, "confirm") /\ cl[d].task = q.task
    BY <1>3, <2>1, <2>3 DEF EvidenceInvariant, OneConfirmer
  <2>4. CASE Serves(d, "confirm")' /\ ExportLockFree /\ q.task.preview \in live
    BY <1>3, <2>1, <2>4 DEF EvidenceInvariant, OneConfirmer, ExportLockFree, ManifestsTell
  <2> QED
    BY <1>3, <2>2, <2>3, <2>4 DEF Serves
<1> QED
  BY <1>1, <1>2, <1>4, <1>5, <1>6, <1>7 DEF EvidenceInvariant

\* A request returns, done or refused.
LEMMA RequestReturns ==
  ASSUME EvidenceInvariant, NEW c \in Clients, Return(c), cl[c].pc # "saving",
         UNCHANGED <<inputs, files, previews, clock>>, live' \subseteq live
  PROVE  EvidenceInvariant' /\ Grows
<1>1. Idle \in Requests /\ Idle.pc = "idle"
  BY DEF Requests, Idle
<1>2. Knows(Idle)
  BY <1>1 DEF Knows, ReaderKnows, ComparerKnows, ExporterKnows, ConfirmerKnows
<1> QED
  BY <1>1, <1>2, OneRequestMoves DEF Return

-----------------------------------------------------------------------------
(* Requests that read *)

LEMMA AllIsRead ==
  ASSUME EvidenceInvariant, NEW c \in Clients, HasRead(c)
  PROVE  /\ cl[c] \in Readers /\ Knows(cl[c]) /\ cl[c].task \in Tasks
         /\ cl[c].read \in SomeReads
         /\ Len(cl[c].read) = Len(OperandsOf(cl[c].task))
<1>1. cl[c] \in Requests /\ Knows(cl[c]) /\ cl[c].pc = "read" /\ cl[c].left = <<>>
  BY DEF EvidenceInvariant, StoreTypes, RequestsKnow, HasRead
<1>2. cl[c] \in Readers
  BY <1>1, RequestIsTyped
<1>3. \/ \E r \in Runs : OperandsOf(cl[c].task) = <<r>>
      \/ \E r, t \in Runs : OperandsOf(cl[c].task) = <<r, t>>
  BY <1>1, TaskOperands DEF EvidenceInvariant
<1>4. ReadSoFar(OperandsOf(cl[c].task), <<>>, cl[c].read)
  BY <1>1 DEF Knows, ReaderKnows
<1>5. Len(cl[c].read) = Len(OperandsOf(cl[c].task))
  BY <1>3, <1>4 DEF ReadSoFar
<1>6. cl[c].read \in Reads /\ cl[c].task \in Tasks
  BY <1>2 DEF Readers
<1>7. Len(OperandsOf(cl[c].task)) # 0
  <2>1. CASE \E r \in Runs : OperandsOf(cl[c].task) = <<r>>
    BY <2>1
  <2>2. CASE \E r, t \in Runs : OperandsOf(cl[c].task) = <<r, t>>
    BY <2>2
  <2> QED
    BY <1>3, <2>1, <2>2
<1>8. cl[c].read # <<>>
  BY <1>5, <1>7
<1> QED
  BY <1>1, <1>2, <1>5, <1>6, <1>8 DEF SomeReads

LEMMA AppendToOne ==
  ASSUME NEW S, NEW w \in S, NEW v \in S
  PROVE  Append(<<w>>, v) = <<w, v>>
<1>1. /\ <<w>> \in Seq(S) /\ Len(<<w>>) = 1 /\ <<w>>[1] = w
      /\ <<w, v>> \in Seq(S) /\ Len(<<w, v>>) = 2
      /\ <<w, v>>[1] = w /\ <<w, v>>[2] = v
  OBVIOUS
<1>2. /\ Append(<<w>>, v) \in Seq(S) /\ Len(Append(<<w>>, v)) = 2
      /\ Append(<<w>>, v)[1] = w /\ Append(<<w>>, v)[2] = v
  BY <1>1, AppendProperties
<1>3. \A i \in 1..2 : Append(<<w>>, v)[i] = <<w, v>>[i]
  BY <1>1, <1>2
<1> QED
  BY <1>1, <1>2, <1>3, SeqEqual

\* Reading one operand more.
LEMMA ReadsOneMore ==
  ASSUME NEW ops, (\E r \in Runs : ops = <<r>>) \/ (\E r, t \in Runs : ops = <<r, t>>),
         NEW left, left # <<>>, NEW read \in Reads, ReadSoFar(ops, left, read),
         NEW v \in Versions
  PROVE  /\ Head(left) \in Runs /\ Tail(left) \in Seq(Runs)
         /\ Append(read, v) \in Reads
         /\ ReadSoFar(ops, Tail(left), Append(read, v))
         /\ \A n \in DOMAIN Append(read, v) :
              \/ n \in DOMAIN read /\ Append(read, v)[n] = read[n]
              \/ ops[n] = Head(left) /\ Append(read, v)[n] = v
<1>1. CASE \E r \in Runs : ops = <<r>>
  <2>1. PICK r \in Runs : ops = <<r>>
    BY <1>1
  <2>2. left = <<r>> /\ read = <<>>
    BY <2>1 DEF ReadSoFar
  <2>3. Head(left) = r /\ Tail(left) = <<>> /\ Append(read, v) = <<v>>
    BY <2>2
  <2>4. <<v>> \in Reads /\ ReadSoFar(ops, <<>>, <<v>>) /\ DOMAIN <<v>> = {1}
    BY <2>1 DEF Reads, ReadSoFar
  <2>5. <<v>>[1] = v /\ ops[1] = r /\ <<>> \in Seq(Runs)
    BY <2>1
  <2> HIDE DEF Reads
  <2> QED
    BY <2>3, <2>4, <2>5
<1>2. CASE \E r, t \in Runs : ops = <<r, t>>
  <2>1. PICK r \in Runs, t \in Runs : ops = <<r, t>>
    BY <1>2
  <2>2. CASE left = <<r, t>> /\ read = <<>>
    <3>1. Head(left) = r /\ Tail(left) = <<t>> /\ Append(read, v) = <<v>>
      BY <2>2
    <3>2. <<v>> \in Reads /\ ReadSoFar(ops, <<t>>, <<v>>) /\ DOMAIN <<v>> = {1}
      BY <2>1 DEF Reads, ReadSoFar
    <3>3. <<v>>[1] = v /\ ops[1] = r /\ <<t>> \in Seq(Runs)
      BY <2>1
    <3> QED
      BY <3>1, <3>2, <3>3
  <2>3. CASE left = <<t>> /\ Len(read) = 1
    <3>1. PICK w \in Versions : read = <<w>>
      <4>1. \/ read = <<>> \/ \E w \in Versions : read = <<w>>
            \/ \E x, y \in Versions : read = <<x, y>>
        BY DEF Reads
      <4>2. Len(<<>>) = 0 /\ \A x, y : Len(<<x, y>>) = 2
        OBVIOUS
      <4> QED
        BY <2>3, <4>1, <4>2
    <3>2. Head(left) = t /\ Tail(left) = <<>>
      BY <2>3
    <3>5. Append(read, v) = <<w, v>>
      BY <3>1, AppendToOne
    <3>3. /\ <<w, v>> \in Reads /\ ReadSoFar(ops, <<>>, <<w, v>>)
          /\ DOMAIN <<w, v>> = {1, 2} /\ DOMAIN read = {1} /\ read[1] = w
      BY <2>1, <3>1 DEF Reads, ReadSoFar
    <3>4. <<w, v>>[1] = w /\ <<w, v>>[2] = v /\ ops[2] = t /\ <<>> \in Seq(Runs)
      BY <2>1
    <3> QED
      BY <3>2, <3>3, <3>4, <3>5
  <2> QED
    BY <2>1, <2>2, <2>3 DEF ReadSoFar
<1> QED
  BY <1>1, <1>2

LEMMA ReadOperandKeeps ==
  ASSUME EvidenceInvariant, NEW c \in Clients, ReadOperand(c)
  PROVE  EvidenceInvariant' /\ Grows
<1> DEFINE t == cl[c].task
           r == Head(cl[c].left)
           v == evidence[r].result
           q == [pc |-> "read", task |-> t, left |-> Tail(cl[c].left),
                 read |-> Append(cl[c].read, v)]
<1>1. /\ cl[c].pc = "read" /\ cl[c].left # <<>>
      /\ UNCHANGED <<inputs, files, previews, clock>> /\ live' \subseteq live
  BY DEF ReadOperand, At, memory
<1>2. cl[c] \in Requests /\ Knows(cl[c]) /\ StoreTypes
  BY DEF EvidenceInvariant, StoreTypes, RequestsKnow
<1>3. cl[c] \in Readers
  BY <1>1, <1>2, RequestIsTyped
<1>4. CASE Return(c)
  BY <1>1, <1>4, RequestReturns
<1>5. CASE Verified(r) /\ cl' = [cl EXCEPT ![c].left = Tail(@),
                                           ![c].read = Append(@, evidence[r].result)]
  <2>1. cl' = [cl EXCEPT ![c] = q]
    <3>1. cl[c] \in [pc : {"read"}, task : Tasks, left : Seq(Runs), read : Reads]
      BY <1>3 DEF Readers
    <3>2. cl \in [Clients -> Requests]
      BY <1>2 DEF StoreTypes
    <3> QED
      BY <1>5, <3>1, <3>2
  <2>2. \/ \E a \in Runs : OperandsOf(t) = <<a>>
        \/ \E a, b \in Runs : OperandsOf(t) = <<a, b>>
    BY <1>1, <1>2, TaskOperands
  <2>3. ReadSoFar(OperandsOf(t), cl[c].left, cl[c].read) /\ cl[c].read \in Reads
    BY <1>1, <1>2, <1>3 DEF Knows, ReaderKnows, Readers
  <2>4. r \in Runs
    <3>1. Original \in Versions
      BY EvidenceAssumption
    <3> QED
      BY <1>1, <2>2, <2>3, <3>1, ReadsOneMore
  <2>5. v \in Versions
    BY <1>2, <1>5, <2>4 DEF StoreTypes, Verified, Contents
  <2>6. /\ q.left \in Seq(Runs) /\ q.read \in Reads
        /\ ReadSoFar(OperandsOf(t), q.left, q.read)
        /\ \A n \in DOMAIN q.read :
             \/ n \in DOMAIN cl[c].read /\ q.read[n] = cl[c].read[n]
             \/ OperandsOf(t)[n] = r /\ q.read[n] = v
    BY <1>1, <2>2, <2>3, <2>5, ReadsOneMore
  <2>7. q \in Readers
    BY <1>3, <2>6 DEF Readers
  <2>8. q \in Requests /\ q.pc = "read" /\ q.task = t
    BY <2>7 DEF Requests
  <2>9. t.kind \in {"compare", "confirm"} => Fresh(t, OperandsOf(t), q.read)
    <3>1. SUFFICES ASSUME t.kind \in {"compare", "confirm"}
                   PROVE  Fresh(t, OperandsOf(t), q.read)
      OBVIOUS
    <3>2. Fresh(t, OperandsOf(t), cl[c].read)
      BY <1>1, <1>2, <3>1 DEF Knows, ReaderKnows
    <3> QED
      BY <1>5, <2>6, <3>2 DEF Fresh
  <2>10. Knows(q)
    <3> HIDE DEF q, t
    <3>1. ReaderKnows(q)
      BY <2>6, <2>8, <2>9 DEF ReaderKnows
    <3>2. ComparerKnows(q) /\ ExporterKnows(q) /\ ConfirmerKnows(q)
      BY <1>1, <1>2, <2>8 DEF Knows, ComparerKnows, ExporterKnows, ConfirmerKnows, t
    <3> QED
      BY <3>1, <3>2 DEF Knows
  <2>11. cl[c].pc # "saving" /\ q.pc # "saving"
         /\ (q.pc # "idle" /\ q.task.kind = "confirm" =>
               Serves(c, "confirm") /\ cl[c].task = q.task)
    BY <1>1, <2>8 DEF Serves
  <2> HIDE DEF q
  <2> QED
    BY <1>1, <2>1, <2>8, <2>10, <2>11, OneRequestMoves
<1> QED
  BY <1>4, <1>5 DEF ReadOperand

LEMMA StoreRaisesKeeps ==
  ASSUME EvidenceInvariant, NEW c \in Clients, StoreRaises(c)
  PROVE  EvidenceInvariant' /\ Grows
BY RequestReturns DEF StoreRaises, memory

-----------------------------------------------------------------------------
(* Pinning and comparing *)

LEMMA PinBeginKeeps ==
  ASSUME EvidenceInvariant, NEW c \in Clients, NEW r \in Runs, NEW confirmed \in BOOLEAN,
         PinBegin(c, r, confirmed)
  PROVE  EvidenceInvariant' /\ Grows
<1> DEFINE q == Reading(PinTask(r, confirmed), <<r>>)
<1>1. /\ cl[c].pc = "idle" /\ cl' = [cl EXCEPT ![c] = q]
      /\ UNCHANGED <<inputs, files, previews, clock>> /\ live' \subseteq live
  BY DEF PinBegin, At, memory
<1>2. PinTask(r, confirmed) \in PinTasks /\ q.task = PinTask(r, confirmed)
  BY DEF PinTasks, PinTask, Reading
<1>3. q \in Readers
  BY <1>2 DEF Readers, Reading, Tasks, Reads
<1>4. q \in Requests /\ q.pc = "read" /\ q.task.kind = "pin"
  BY <1>2, <1>3 DEF Requests, Readers, PinTasks
<1>5. ReaderKnows(q)
  BY <1>4 DEF ReaderKnows, ReadSoFar, OperandsOf, Reading, PinTask
<1>6. Knows(q)
  BY <1>4, <1>5 DEF Knows, ComparerKnows, ExporterKnows, ConfirmerKnows
<1> HIDE DEF q
<1> QED
  BY <1>1, <1>4, <1>6, OneRequestMoves

LEMMA CompareBeginKeeps ==
  ASSUME EvidenceInvariant, NEW c \in Clients, NEW candidate \in Runs,
         CompareBegin(c, candidate)
  PROVE  EvidenceInvariant' /\ Grows
<1> DEFINE t == CompareTask(candidate)
           q == Reading(t, <<baseline.run, candidate>>)
<1>1. /\ cl[c].pc = "idle" /\ cl' = [cl EXCEPT ![c] = q]
      /\ UNCHANGED <<inputs, files, previews, clock>> /\ live' \subseteq live
      /\ baseline # None /\ baseline.run # candidate
  BY DEF CompareBegin, At, memory, MayCompare
<1>2. baseline \in Pointers /\ changes \in Nat
  BY <1>1 DEF EvidenceInvariant, StoreTypes
<1>3. t \in CompareTasks /\ q.task = t /\ t.base = baseline.run /\ t.candidate = candidate
      /\ t.began = changes
  BY <1>2 DEF CompareTasks, CompareTask, Reading, Pointers
<1>4. q \in Readers
  BY <1>2, <1>3 DEF Readers, Reading, Tasks, Reads, Pointers
<1>5. q \in Requests /\ q.pc = "read" /\ q.task.kind = "compare" /\ q.read = <<>>
      /\ q.left = <<baseline.run, candidate>>
  BY <1>3, <1>4 DEF Requests, Readers, CompareTasks, Reading
<1>6. OperandsOf(q.task) = q.left
  BY <1>3, <1>5 DEF OperandsOf
<1>7. Fresh(q.task, OperandsOf(q.task), q.read)
  BY <1>2, <1>3, <1>5 DEF Fresh
<1>8. ReaderKnows(q)
  BY <1>5, <1>6, <1>7 DEF ReaderKnows, ReadSoFar
<1>9. Knows(q)
  BY <1>1, <1>3, <1>5, <1>8 DEF Knows, ComparerKnows, ExporterKnows, ConfirmerKnows
<1> HIDE DEF q, t
<1> QED
  BY <1>1, <1>5, <1>9, OneRequestMoves

LEMMA AssessKeeps ==
  ASSUME EvidenceInvariant, NEW c \in Clients, Assess(c)
  PROVE  EvidenceInvariant' /\ Grows
<1> DEFINE t == cl[c].task
<1>1. /\ HasRead(c) /\ cl[c].pc = "read" /\ t.kind = "compare"
      /\ UNCHANGED <<inputs, files, previews, clock>> /\ live' \subseteq live
  BY DEF Assess, HasRead, Serves, memory
<1>2. CASE Return(c)
  BY <1>1, <1>2, RequestReturns
<1>3. ASSUME NEW mode \in Modes, Accepts(t, cl[c].read, mode),
             cl' = [cl EXCEPT ![c] = Assessed(t, cl[c].read, mode)]
      PROVE  EvidenceInvariant' /\ Grows
  <2> DEFINE q == Assessed(t, cl[c].read, mode)
  <2>1. /\ Knows(cl[c]) /\ t \in Tasks /\ cl[c].read \in SomeReads
        /\ Len(cl[c].read) = Len(OperandsOf(t))
    BY <1>1, AllIsRead
  <2>2. t \in CompareTasks /\ OperandsOf(t) = <<t.base, t.candidate>>
    BY <1>1, <2>1, TaskIsTyped DEF OperandsOf
  <2>3. q \in Savers
    BY <2>1, <2>2 DEF Savers, Assessed
  <2>4. q \in Requests /\ q.pc = "save" /\ q.task = t /\ q.read = cl[c].read /\ q.mode = mode
    BY <2>3 DEF Requests, Assessed
  <2>5. t.base # t.candidate /\ Fresh(t, <<t.base, t.candidate>>, cl[c].read)
        /\ Len(cl[c].read) = 2
    BY <1>1, <2>1, <2>2 DEF Knows, ComparerKnows, ReaderKnows
  <2>6. ComparerKnows(q)
    BY <1>3, <2>4, <2>5 DEF ComparerKnows, Accepts
  <2>7. Knows(q)
    BY <1>1, <2>4, <2>6 DEF Knows, ReaderKnows, ExporterKnows, ConfirmerKnows
  <2> HIDE DEF q
  <2> QED
    BY <1>1, <1>3, <2>4, <2>7, OneRequestMoves DEF q
<1> QED
  BY <1>2, <1>3 DEF Assess

-----------------------------------------------------------------------------
(* Previewing and confirming *)

LEMMA PreviewBeginKeeps ==
  ASSUME EvidenceInvariant, NEW c \in Clients, NEW s \in Sources, PreviewBegin(c, s)
  PROVE  EvidenceInvariant' /\ Grows
<1> DEFINE t == PreviewTask(s)
           q == Reading(t, Operands(s))
<1>1. /\ cl[c].pc = "idle" /\ cl' = [cl EXCEPT ![c] = q]
      /\ UNCHANGED <<inputs, files, previews, clock>> /\ live' \subseteq live
      /\ Sound(s)
  BY DEF PreviewBegin, At, memory, Sound
<1>2. StoreTypes /\ clock \in Nat
  BY DEF EvidenceInvariant, StoreTypes
<1>3. t \in PreviewTasks /\ t.kind = "preview" /\ t.source = s /\ t.now = clock
  BY <1>1, <1>2, SoundSource DEF PreviewTasks, PreviewTask
<1>4. Operands(s) \in Seq(Runs)
  BY <1>1, <1>2, OperandsAreSequence
<1>5. q.pc = "read" /\ q.task = t /\ q.left = Operands(s) /\ q.read = <<>>
  BY DEF Reading
<1>6. q \in Readers
  BY <1>3, <1>4 DEF Readers, Reading, Tasks, ExportTasks, Reads
<1>7. q \in Requests
  BY <1>6 DEF Requests
<1> HIDE DEF q, t
<1>8. ReaderKnows(q)
  BY <1>3, <1>5 DEF ReaderKnows, ReadSoFar, OperandsOf
<1>9. ExporterKnows(q)
  BY <1>1, <1>2, <1>3, <1>5 DEF ExporterKnows
<1>10. Knows(q)
  BY <1>3, <1>5, <1>8, <1>9 DEF Knows, ComparerKnows, ConfirmerKnows
<1> QED
  BY <1>1, <1>3, <1>5, <1>7, <1>10, OneRequestMoves

\* What was read of a source that is still what it was is what an export tells.
LEMMA StillTrueTells ==
  ASSUME NEW s, NEW read, StillTrue(s, read)
  PROVE  Tells(s, read)
BY DEF StillTrue, Tells

LEMMA CheckSourceKeeps ==
  ASSUME EvidenceInvariant, NEW c \in Clients, CheckSource(c)
  PROVE  EvidenceInvariant' /\ Grows
<1> DEFINE t == cl[c].task
           q == [pc |-> "put", task |-> t, left |-> <<>>, read |-> cl[c].read]
<1>1. /\ HasRead(c) /\ cl[c].pc = "read" /\ cl[c].left = <<>>
      /\ t.kind \in {"preview", "confirm"}
      /\ UNCHANGED <<inputs, files, previews, clock>> /\ live' \subseteq live
  BY DEF CheckSource, HasRead, memory
<1>2. CASE Return(c)
  BY <1>1, <1>2, RequestReturns
<1>3. CASE StillTrue(t.source, cl[c].read) /\ Step(c, "put")
  <2>1. /\ cl[c] \in Readers /\ Knows(cl[c]) /\ t \in Tasks
        /\ cl[c].read \in SomeReads
        /\ Len(cl[c].read) = Len(OperandsOf(t))
    BY <1>1, AllIsRead
  <2>2. cl' = [cl EXCEPT ![c] = q]
    <3>1. cl[c] \in [pc : {"read"}, task : Tasks, left : Seq(Runs), read : Reads]
      BY <2>1 DEF Readers
    <3>2. cl \in [Clients -> Requests]
      BY DEF EvidenceInvariant, StoreTypes
    <3>3. cl' = [cl EXCEPT ![c] = [cl[c] EXCEPT !.pc = "put"]]
      BY <1>3, <3>1, <3>2 DEF Step
    <3>4. [cl[c] EXCEPT !.pc = "put"] = [pc |-> "put", task |-> cl[c].task,
                                         left |-> cl[c].left, read |-> cl[c].read]
      BY <3>1
    <3> QED
      BY <1>1, <3>3, <3>4
  <2>3. t \in ExportTasks
    BY <1>1, <2>1, TaskIsTyped DEF ExportTasks
  <2>4. q \in Requests
    BY <2>1, <2>3 DEF Requests, Checked
  <2>5. q.pc = "put" /\ q.task = t /\ q.read = cl[c].read
    OBVIOUS
  <2>6. OperandsOf(t) = Operands(t.source)
    BY <1>1 DEF OperandsOf
  <2> HIDE DEF q, t
  <2>7. ExporterKnows(q)
    BY <1>1, <1>3, <2>1, <2>5, StillTrueTells DEF Knows, ExporterKnows, t
  <2>8. ConfirmerKnows(q)
    BY <1>1, <2>1, <2>5, <2>6 DEF Knows, ConfirmerKnows, ReaderKnows, t
  <2>9. Knows(q)
    BY <1>1, <2>5, <2>7, <2>8 DEF Knows, ReaderKnows, ComparerKnows
  <2> QED
    BY <1>1, <2>2, <2>4, <2>5, <2>9, OneRequestMoves DEF Serves, t
<1> QED
  BY <1>2, <1>3 DEF CheckSource

LEMMA PolicyRejectsKeeps ==
  ASSUME EvidenceInvariant, NEW c \in Clients, PolicyRejects(c)
  PROVE  EvidenceInvariant' /\ Grows
BY RequestReturns DEF PolicyRejects, At, memory

LEMMA ConfirmBeginKeeps ==
  ASSUME EvidenceInvariant, NEW c \in Clients, NEW p \in DOMAIN previews, ConfirmBegin(c, p)
  PROVE  EvidenceInvariant' /\ Grows
<1> DEFINE s == previews[p].source
           t == ConfirmTask(p)
           q == Reading(t, Operands(s))
<1>1. /\ cl[c].pc = "idle" /\ ExportLockFree
      /\ UNCHANGED <<inputs, files, previews, clock>> /\ live' \subseteq live
      /\ \A u \in live' : previews[u].expires > clock
  BY DEF ConfirmBegin, At, Unexpired
<1>2. StoreTypes /\ clock \in Nat /\ changes \in Nat /\ p \in Nat
  BY DEF EvidenceInvariant, StoreTypes
<1>3. CASE p \in live' /\ Offered(s) /\ cl' = [cl EXCEPT ![c] = q]
  <2>1. Sound(s) /\ previews[p].expires \in Nat
    BY <1>2, PreviewIsTyped DEF EvidenceInvariant, PreviewsTell
  <2>2. /\ t \in ConfirmTasks /\ t.kind = "confirm" /\ t.source = s /\ t.now = clock
        /\ t.preview = p /\ t.began = changes
    BY <1>2, <2>1, SoundSource DEF ConfirmTasks, ConfirmTask
  <2>3. Operands(s) \in Seq(Runs)
    BY <1>2, <2>1, OperandsAreSequence
  <2>4. q.pc = "read" /\ q.task = t /\ q.left = Operands(s) /\ q.read = <<>>
    BY DEF Reading
  <2>5. q \in Readers
    BY <2>2, <2>3 DEF Readers, Reading, Tasks, ExportTasks, Reads
  <2>6. q \in Requests
    BY <2>5 DEF Requests
  <2> HIDE DEF q, t
  <2>7. ReaderKnows(q)
    <3>1. OperandsOf(q.task) = Operands(s)
      BY <2>2, <2>4 DEF OperandsOf
    <3> QED
      BY <1>2, <2>2, <2>4, <3>1 DEF ReaderKnows, ReadSoFar, Fresh
  <2>8. ExporterKnows(q)
    BY <1>2, <2>1, <2>2, <2>4 DEF ExporterKnows
  <2>9. clock < previews[p].expires
    BY <1>1, <1>2, <1>3, <2>1
  <2>10. ConfirmerKnows(q)
    BY <1>2, <2>2, <2>4, <2>9 DEF ConfirmerKnows
  <2>11. Knows(q)
    BY <2>2, <2>4, <2>7, <2>8, <2>10 DEF Knows, ComparerKnows
  <2>12. p \in live
    BY <1>1, <1>3
  <2> QED
    BY <1>1, <1>3, <2>2, <2>4, <2>6, <2>11, <2>12, OneRequestMoves
<1>4. CASE UNCHANGED cl
  <2>1. cl[c] = Idle /\ cl \in [Clients -> Requests]
    BY <1>1, RequestIsTyped DEF EvidenceInvariant, StoreTypes
  <2>2. Return(c)
    BY <1>4, <2>1 DEF Return
  <2> QED
    BY <1>1, <2>2, RequestReturns
<1> QED
  BY <1>3, <1>4 DEF ConfirmBegin

LEMMA RecheckKeeps ==
  ASSUME EvidenceInvariant, NEW c \in Clients, Recheck(c)
  PROVE  EvidenceInvariant' /\ Grows
<1> DEFINE t == cl[c].task
<1>1. /\ cl[c].pc = "put" /\ t.kind = "confirm"
      /\ UNCHANGED <<inputs, files, previews, clock>> /\ live' \subseteq live
  BY DEF Recheck, At, Serves, Unexpired
<1>2. CASE Return(c)
  BY <1>1, <1>2, RequestReturns
<1>3. ASSUME NEW d \in Directories, Unchanged(c),
             cl' = [cl EXCEPT ![c] = Committing(t, cl[c].read, d)]
      PROVE  EvidenceInvariant' /\ Grows
  <2> DEFINE q == Committing(t, cl[c].read, d)
  <2>1. cl[c] \in Requests /\ Knows(cl[c])
    BY DEF EvidenceInvariant, StoreTypes, RequestsKnow
  <2>2. cl[c] \in Checked
    BY <1>1, <2>1, RequestIsTyped
  <2>3. t \in ExportTasks /\ cl[c].read \in SomeReads
    BY <2>2 DEF Checked
  <2>4. t \in ConfirmTasks
    BY <1>1, <2>3 DEF ExportTasks, PreviewTasks
  <2>5. q.pc = "commit" /\ q.task = t /\ q.read = cl[c].read /\ q.directory = d
    BY DEF Committing
  <2>6. q \in Requests
    BY <2>3, <2>4 DEF Requests, Committers, Committing
  <2> HIDE DEF q, t
  <2>7. ExporterKnows(q)
    BY <1>1, <2>1, <2>5 DEF Knows, ExporterKnows, t
  <2>8. ConfirmerKnows(q)
    BY <1>1, <1>3, <2>1, <2>5 DEF Knows, ConfirmerKnows, Unchanged, t
  <2>9. Knows(q)
    BY <1>1, <2>5, <2>7, <2>8 DEF Knows, ReaderKnows, ComparerKnows
  <2> QED
    BY <1>1, <1>3, <2>5, <2>6, <2>9, OneRequestMoves DEF Serves, t, q
<1> QED
  BY <1>2, <1>3 DEF Recheck

-----------------------------------------------------------------------------
(* Requests that write *)

LEMMA OthersStay ==
  ASSUME EvidenceInvariant, StoreTypes', Grows, NEW d \in Clients, NEW q,
         cl' = [cl EXCEPT ![d] = q], Knows(q)'
  PROVE  /\ RequestsKnow'
         /\ cl'[d] = q /\ \A c \in Clients \ {d} : cl'[c] = cl[c]
<1>1. cl'[d] = q /\ \A c \in Clients \ {d} : cl'[c] = cl[c]
  BY DEF EvidenceInvariant, StoreTypes
<1>2. Knows(cl[d])'
  BY <1>1 DEF Knows, ReaderKnows, ComparerKnows, ExporterKnows, ConfirmerKnows
<1>3. \A c \in Clients \ {d} : Knows(cl[c])'
  BY <1>1, RequestsStay
<1> QED
  BY <1>1, <1>2, <1>3 DEF RequestsKnow

LEMMA IdleKnowsAll == Idle \in Requests /\ Idle.pc = "idle" /\ Knows(Idle)'
BY DEF Requests, Idle, Knows, ReaderKnows, ComparerKnows, ExporterKnows, ConfirmerKnows

LEMMA WriterStays ==
  ASSUME EvidenceInvariant, NEW d \in Clients, NEW q, cl[d].pc # "saving", q.pc # "saving",
         cl' = [cl EXCEPT ![d] = q], comparisons' = comparisons
  PROVE  OneWriter'
<1>1. \A c \in Clients : At(c, "saving")' => c # d /\ At(c, "saving") /\ cl'[c] = cl[c]
  BY DEF At, EvidenceInvariant, StoreTypes
<1> QED
  BY <1>1 DEF EvidenceInvariant, OneWriter, WrittenSoFar, HasFailures, SameQueries

LEMMA ConfirmerStays ==
  ASSUME EvidenceInvariant, NEW d \in Clients, NEW q,
         q.pc # "idle" /\ q.task.kind = "confirm" =>
           Serves(d, "confirm") /\ cl[d].task = q.task,
         cl' = [cl EXCEPT ![d] = q], manifests' = manifests
  PROVE  OneConfirmer'
<1>1. /\ \A c \in Clients \ {d} : cl'[c] = cl[c]
      /\ cl'[d] = q
  BY DEF EvidenceInvariant, StoreTypes
<1>2. \A c \in Clients : Serves(c, "confirm")' =>
          Serves(c, "confirm") /\ cl'[c].task = cl[c].task
  BY <1>1 DEF Serves
<1> QED
  BY <1>2 DEF EvidenceInvariant, OneConfirmer

LEMMA PinSaveKeeps ==
  ASSUME EvidenceInvariant, NEW c \in Clients, PinSave(c)
  PROVE  EvidenceInvariant' /\ Grows
<1>1. /\ HasRead(c) /\ cl[c].pc = "read" /\ cl[c].task.kind = "pin"
      /\ cl' = [cl EXCEPT ![c] = Idle]
      /\ baseline' = [run |-> cl[c].task.run, sha |-> cl[c].read[1]]
      /\ UNCHANGED <<inputs, comparisons, exported, manifests, memory, clock>>
  BY DEF PinSave, HasRead, Serves, Return
<1>2. cl[c].task \in Tasks /\ cl[c].read \in SomeReads
  BY <1>1, AllIsRead
<1>3. cl[c].task.run \in Runs
  BY <1>1, <1>2, TaskIsTyped DEF PinTasks
<1>4. cl[c].read[1] \in Versions
  BY <1>2 DEF SomeReads, Reads
<1>5. baseline' \in Pointers
  BY <1>1, <1>3, <1>4 DEF Pointers
<1>6. StoreTypes'
  BY <1>1, <1>5, IdleKnowsAll DEF EvidenceInvariant, StoreTypes, inputs, memory
<1>7. Grows
  BY <1>1 DEF EvidenceInvariant, StoreTypes, Grows, Verified, Readable, inputs, memory
<1>8. RequestsKnow'
  BY <1>1, <1>6, <1>7, OthersStay, IdleKnowsAll
<1>9. OneWriter' /\ OneConfirmer'
  BY <1>1, WriterStays, ConfirmerStays, IdleKnowsAll
<1>10. RecordsTell' /\ ComparisonIsWhole' /\ PreviewsTell' /\ ExportsTell' /\ ManifestsTell'
  BY <1>1, <1>7, RecordsStay, PreviewsStay, ExportsStay, ManifestsStay
     DEF EvidenceInvariant, memory
<1> QED
  BY <1>6, <1>7, <1>8, <1>9, <1>10 DEF EvidenceInvariant

LEMMA StorePreviewKeeps ==
  ASSUME EvidenceInvariant, NEW c \in Clients, StorePreview(c)
  PROVE  EvidenceInvariant' /\ Grows
<1> SUFFICES ASSUME NEW t, t = cl[c].task, NEW read, read = cl[c].read
             PROVE  EvidenceInvariant' /\ Grows
  OBVIOUS
<1> DEFINE new == [source |-> t.source, files |-> read, expires |-> t.now + Lifetime]
<1>1. /\ cl[c].pc = "put" /\ t.kind = "preview" /\ ExportLockFree
      /\ previews' = Append(previews, new)
      /\ live' \subseteq live \cup {Len(previews) + 1}
      /\ cl' = [cl EXCEPT ![c] = Idle]
      /\ UNCHANGED <<inputs, files, clock>>
  BY DEF StorePreview, At, Serves, Return, Unexpired, PreviewId
<1>2. cl[c] \in Requests /\ Knows(cl[c]) /\ StoreTypes
  BY DEF EvidenceInvariant, StoreTypes, RequestsKnow
<1>3. t \in ExportTasks /\ read \in SomeReads
  BY <1>1, <1>2, RequestIsTyped DEF Checked
<1>4. t.source \in AnySource /\ t.now \in Nat
  BY <1>1, <1>3 DEF ExportTasks, PreviewTasks, ConfirmTasks
<1>5. Sound(t.source) /\ Tells(t.source, read)
  BY <1>1, <1>2 DEF Knows, ExporterKnows
<1>6. new \in [source : AnySource, files : SomeReads, expires : Nat]
  BY <1>3, <1>4, EvidenceAssumption
<1> HIDE DEF new
<1>7. /\ previews' \in Seq([source : AnySource, files : SomeReads, expires : Nat])
      /\ DOMAIN previews' = DOMAIN previews \cup {Len(previews) + 1}
      /\ \A p \in DOMAIN previews : previews'[p] = previews[p]
      /\ previews'[Len(previews) + 1] = new
      /\ Len(previews) + 1 \notin DOMAIN previews
  BY <1>1, <1>2, <1>6 DEF StoreTypes
<1>8. live' \subseteq DOMAIN previews'
  BY <1>1, <1>2, <1>7 DEF StoreTypes
<1>9. StoreTypes'
  BY <1>1, <1>2, <1>7, <1>8, IdleKnowsAll DEF StoreTypes, inputs, files
<1>10. Grows
  BY <1>1, <1>2, <1>7 DEF StoreTypes, Grows, Verified, Readable, inputs, files
<1>11. RequestsKnow'
  BY <1>1, <1>9, <1>10, OthersStay, IdleKnowsAll
<1>12. OneWriter' /\ OneConfirmer'
  BY <1>1, WriterStays, ConfirmerStays, IdleKnowsAll DEF files
<1>13. RecordsTell' /\ ComparisonIsWhole' /\ ExportsTell'
  BY <1>1, <1>10, RecordsStay, ExportsStay DEF EvidenceInvariant, files
<1>14. PreviewsTell'
  <2>1. ASSUME NEW p \in DOMAIN previews
        PROVE  Sound(previews[p].source)' /\ Tells(previews[p].source, previews[p].files)'
    <3>1. Sound(previews[p].source) /\ Tells(previews[p].source, previews[p].files)
      BY DEF EvidenceInvariant, PreviewsTell
    <3>2. \A s : s = previews[p].source =>
            Sound(s)' /\ \A f : Tells(s, f) => Tells(s, f)'
      BY <1>2, <1>10, <3>1, SourcesStay
    <3> QED
      BY <1>7, <3>1, <3>2
  <2>2. \A s : s = t.source => Sound(s)' /\ Tells(s, read)'
    BY <1>2, <1>5, <1>10, SourcesStay
  <2>3. previews'[Len(previews) + 1].source = t.source
        /\ previews'[Len(previews) + 1].files = read
    BY <1>7 DEF new
  <2>4. \A p \in DOMAIN previews' :
          Sound(previews[p].source)' /\ Tells(previews[p].source, previews[p].files)'
    BY <1>7, <2>1, <2>2, <2>3
  <2> QED
    BY <2>4 DEF PreviewsTell
<1>15. ManifestsTell'
  <2>1. \A m \in manifests : m.preview \in DOMAIN previews' /\ m.preview \notin live'
    BY <1>1, <1>7 DEF EvidenceInvariant, ManifestsTell
  <2>2. ManifestTellsExport'
    BY <1>1, <1>7 DEF EvidenceInvariant, ManifestsTell, ManifestTellsExport, files
  <2>3. OneExportPerPreview'
    BY <1>1 DEF EvidenceInvariant, ManifestsTell, OneExportPerPreview, files
  <2> QED
    BY <1>1, <2>1, <2>2, <2>3 DEF ManifestsTell, files
<1> QED
  BY <1>9, <1>10, <1>11, <1>12, <1>13, <1>14, <1>15 DEF EvidenceInvariant

LEMMA CommitKeeps ==
  ASSUME EvidenceInvariant, NEW c \in Clients, Commit(c)
  PROVE  EvidenceInvariant' /\ Grows
<1> SUFFICES ASSUME NEW t, t = cl[c].task, NEW read, read = cl[c].read,
                    NEW d, d = cl[c].directory
             PROVE  EvidenceInvariant' /\ Grows
  OBVIOUS
<1> DEFINE q == [pc |-> "manifest", task |-> t, read |-> read, directory |-> d]
           put == [directory |-> d, source |-> t.source, files |-> read]
<1>1. cl[c] \in Requests /\ Knows(cl[c]) /\ StoreTypes /\ cl[c].pc = "commit"
  BY DEF EvidenceInvariant, StoreTypes, RequestsKnow, Commit, At
<1>2. CASE Return(c) /\ UNCHANGED exported
  BY <1>1, <1>2, RequestReturns DEF Commit, files, memory
<1>3. CASE /\ Links(c)
           /\ exported' = {e \in exported : \/ e.directory # cl[c].directory
                                           \/ e.source # cl[c].task.source}
                            \cup {Target(c)}
           /\ Step(c, "manifest")
  <2>1. cl[c] \in Committers /\ t \in ConfirmTasks
    BY <1>1, RequestIsTyped DEF Committers
  <2>2. t.kind = "confirm" /\ t.source \in AnySource
    BY <2>1 DEF ConfirmTasks
  <2>3. read = previews[t.preview].files /\ Tells(t.source, read)
        /\ Sound(t.source)
    BY <1>1, <2>2 DEF Knows, ConfirmerKnows, ExporterKnows
  <2>4. cl' = [cl EXCEPT ![c] = q]
    <3>1. cl[c] \in [pc : {"commit", "manifest"}, task : ConfirmTasks, read : SomeReads,
                     directory : Directories]
      BY <2>1 DEF Committers
    <3>2. cl \in [Clients -> Requests]
      BY <1>1 DEF StoreTypes
    <3>3. cl' = [cl EXCEPT ![c] = [cl[c] EXCEPT !.pc = "manifest"]]
      BY <1>3, <3>1, <3>2 DEF Step
    <3>4. [cl[c] EXCEPT !.pc = "manifest"] =
             [pc |-> "manifest", task |-> cl[c].task, read |-> cl[c].read,
              directory |-> cl[c].directory]
      BY <3>1
    <3> QED
      BY <3>3, <3>4
  <2>5. q \in Committers
    BY <2>1 DEF Committers
  <2>6. q \in Requests
    BY <2>5 DEF Requests
  <2>7. q.pc = "manifest" /\ q.task = t /\ q.read = read /\ q.directory = d
    OBVIOUS
  <2>8. exported' = exported \cup {put}
    <3>1. \A e \in exported : e.directory # cl[c].directory \/ e.source # t.source
      BY <1>3 DEF Links, Taken
    <3>2. Target(c) = put
      BY <2>3 DEF Target
    <3> HIDE DEF put
    <3>3. {e \in exported : e.directory # cl[c].directory \/ e.source # t.source} = exported
      BY <3>1
    <3> QED
      BY <1>3, <3>2, <3>3
  <2>9. put \in [directory : Directories, source : AnySource, files : Reads]
        /\ put.source = t.source /\ put.files = read
    BY <2>1, <2>2 DEF Committers, SomeReads
  <2> HIDE DEF put
  <2>10. UNCHANGED <<inputs, baseline, comparisons, manifests, memory, clock>>
    BY DEF Commit
  <2>11. StoreTypes'
    BY <1>1, <2>4, <2>6, <2>8, <2>9, <2>10 DEF StoreTypes, inputs, memory
  <2>12. Grows
    BY <1>1, <2>8, <2>10 DEF StoreTypes, Grows, Verified, Readable, inputs, memory
  <2> HIDE DEF q
  <2>13. Knows(q)'
    <3>1. ExporterKnows(q)
      BY <1>1, <2>2, <2>3, <2>7 DEF Knows, ExporterKnows
    <3>2. ExporterKnows(q)'
      <4>1. q.task.now \in Nat /\ q.task.now <= clock
        BY <1>1, <2>1, <2>2, <2>7 DEF Knows, ExporterKnows, ConfirmTasks
      <4>2. Sound(q.task.source)' /\ Tells(q.task.source, q.read)'
        BY <1>1, <2>3, <2>7, <2>12, SourcesStay
      <4> QED
        BY <2>10, <4>1, <4>2 DEF ExporterKnows
    <3>3. ConfirmerKnows(q)'
      <4>1. put \in exported' /\ put = [directory |-> q.directory, source |-> q.task.source,
                                        files |-> q.read]
        BY <2>7, <2>8 DEF put
      <4> QED
        BY <1>1, <2>2, <2>3, <2>7, <2>10, <4>1 DEF Knows, ConfirmerKnows, memory
    <3> QED
      BY <2>2, <2>7, <3>2, <3>3 DEF Knows, ReaderKnows, ComparerKnows
  <2>14. RequestsKnow'
    BY <2>4, <2>11, <2>12, <2>13, OthersStay
  <2>15. OneWriter' /\ OneConfirmer'
    <3>1. Serves(c, "confirm") /\ cl[c].task = q.task
      BY <1>1, <2>2, <2>7 DEF Serves
    <3> QED
      BY <1>1, <2>4, <2>7, <2>10, <3>1, WriterStays, ConfirmerStays
  <2>16. RecordsTell' /\ ComparisonIsWhole' /\ PreviewsTell' /\ ManifestsTell'
    BY <1>1, <2>10, <2>12, RecordsStay, PreviewsStay, ManifestsStay
       DEF EvidenceInvariant, memory
  <2>17. ExportsTell'
    <3>1. ASSUME NEW e \in exported, e.files # Foreign
          PROVE  Sound(e.source)' /\ Tells(e.source, e.files)'
      <4>1. Sound(e.source) /\ Tells(e.source, e.files)
        BY <3>1 DEF EvidenceInvariant, ExportsTell, Ours
      <4> QED
        BY <1>1, <2>12, <4>1, SourcesStay
    <3>2. Sound(put.source)' /\ Tells(put.source, put.files)'
      <4>1. Sound(t.source)' /\ Tells(t.source, read)'
        BY <1>1, <2>3, <2>12, SourcesStay
      <4> QED
        BY <2>9, <4>1
    <3> QED
      BY <2>8, <3>1, <3>2 DEF ExportsTell, Ours
  <2> QED
    BY <2>11, <2>12, <2>14, <2>15, <2>16, <2>17 DEF EvidenceInvariant
<1> QED
  BY <1>2, <1>3 DEF Commit

LEMMA SaveManifestKeeps ==
  ASSUME EvidenceInvariant, NEW c \in Clients, SaveManifest(c)
  PROVE  EvidenceInvariant' /\ Grows
<1> SUFFICES ASSUME NEW t, t = cl[c].task, NEW read, read = cl[c].read,
                    NEW d, d = cl[c].directory
             PROVE  EvidenceInvariant' /\ Grows
  OBVIOUS
<1> DEFINE told == [preview |-> t.preview, source |-> t.source, directory |-> d,
                    files |-> read, created |-> t.now]
<1>1. /\ cl[c] \in Requests /\ Knows(cl[c]) /\ StoreTypes /\ cl[c].pc = "manifest"
      /\ cl' = [cl EXCEPT ![c] = Idle]
      /\ live' = live \ {t.preview}
      /\ UNCHANGED <<inputs, baseline, comparisons, exported, previews, clock>>
  BY DEF EvidenceInvariant, StoreTypes, RequestsKnow, SaveManifest, At, Return, UsedUp
<1>2. cl[c] \in Committers
  BY <1>1, RequestIsTyped
<1>3. t \in ConfirmTasks /\ read \in SomeReads /\ d \in Directories
  BY <1>2 DEF Committers
<1>4. /\ t.kind = "confirm" /\ t.source \in AnySource /\ t.preview \in Nat /\ t.now \in Nat
  BY <1>3 DEF ConfirmTasks
<1>5. /\ t.preview \in DOMAIN previews
      /\ t.source = previews[t.preview].source
      /\ t.now < previews[t.preview].expires
      /\ read = previews[t.preview].files
      /\ [directory |-> d, source |-> t.source, files |-> read] \in exported
  BY <1>1, <1>4 DEF Knows, ConfirmerKnows
<1>6. manifests' = manifests \cup {told}
  BY <1>5 DEF SaveManifest, Manifest
<1>7. told \in [preview : Nat, source : AnySource, directory : Directories,
                files : SomeReads, created : Nat]
  BY <1>3, <1>4
<1>8. /\ told.preview = t.preview /\ told.source = t.source /\ told.directory = d
      /\ told.files = read /\ told.created = t.now
  OBVIOUS
<1>9. Serves(c, "confirm") /\ \A m \in manifests : m.preview # t.preview
  BY <1>1, <1>4 DEF Serves, EvidenceInvariant, OneConfirmer
<1> HIDE DEF told
<1>10. StoreTypes'
  BY <1>1, <1>6, <1>7, IdleKnowsAll DEF StoreTypes, inputs
<1>11. Grows
  BY <1>1 DEF StoreTypes, Grows, Verified, Readable, inputs
<1>12. RequestsKnow'
  BY <1>1, <1>10, <1>11, OthersStay, IdleKnowsAll
<1>13. OneWriter'
  BY <1>1, WriterStays, IdleKnowsAll
<1>14. OneConfirmer'
  <2>1. cl'[c] = Idle /\ \A b \in Clients \ {c} : cl'[b] = cl[b]
    BY <1>1 DEF StoreTypes
  <2>2. \A b \in Clients : ~Serves(b, "confirm")'
    BY <1>9, <2>1, IdleKnowsAll DEF Serves, EvidenceInvariant, OneConfirmer
  <2> QED
    BY <2>2 DEF OneConfirmer
<1>15. RecordsTell' /\ ComparisonIsWhole' /\ PreviewsTell' /\ ExportsTell'
  BY <1>1, <1>11, RecordsStay, PreviewsStay, ExportsStay DEF EvidenceInvariant
<1>16. ManifestsTell'
  <2>1. \A m \in manifests' : m.preview \in DOMAIN previews' /\ m.preview \notin live'
    BY <1>1, <1>5, <1>6, <1>8 DEF EvidenceInvariant, ManifestsTell
  <2>2. ManifestTellsExport'
    <3>1. SUFFICES ASSUME NEW m \in manifests'
                   PROVE  /\ m.files = previews'[m.preview].files
                          /\ m.created < previews'[m.preview].expires
                          /\ \E e \in exported' : /\ e.directory = m.directory
                                                  /\ e.source = m.source
                                                  /\ e.files = m.files
      BY DEF ManifestTellsExport
    <3>2. CASE m \in manifests
      BY <1>1, <3>2 DEF EvidenceInvariant, ManifestsTell, ManifestTellsExport
    <3>3. CASE m = told
      <4>1. \E e \in exported : e.directory = d /\ e.source = t.source /\ e.files = read
        BY <1>5
      <4> QED
        BY <1>1, <1>5, <1>8, <3>3, <4>1
    <3> QED
      BY <1>6, <3>2, <3>3
  <2>3. OneExportPerPreview'
    BY <1>6, <1>8, <1>9 DEF EvidenceInvariant, ManifestsTell, OneExportPerPreview
  <2> QED
    BY <2>1, <2>2, <2>3 DEF ManifestsTell
<1> QED
  BY <1>10, <1>11, <1>12, <1>13, <1>14, <1>15, <1>16 DEF EvidenceInvariant

LEMMA NotWholeYet ==
  ASSUME NEW written, NEW left, NEW t, WrittenSoFar(written, left, t)
  PROVE  /\ "config" \notin written
         /\ Tail(left) # <<>> => WrittenSoFar(written \cup {Head(left)}, Tail(left), t)
         /\ Tail(left) = <<>> =>
              ("failures" \in written \cup {Head(left)} <=> HasFailures(t))
         /\ Head(left) \in FileNames
         /\ Tail(left) # <<>> => Tail(left) \in Lefts
<1>1. CASE written = {"directory"} /\ left = <<"result", "failures", "config">> /\ HasFailures(t)
  <2>1. Head(left) = "result" /\ Tail(left) = <<"failures", "config">>
    BY <1>1
  <2>2. written \cup {"result"} = {"directory", "result"} /\ <<"failures", "config">> # <<>>
    BY <1>1
  <2> QED
    BY <1>1, <2>1, <2>2 DEF WrittenSoFar, FileNames, Lefts
<1>2. CASE written = {"directory", "result"} /\ left = <<"failures", "config">> /\ HasFailures(t)
  <2>1. Head(left) = "failures" /\ Tail(left) = <<"config">>
    BY <1>2
  <2>2. /\ written \cup {"failures"} = {"directory", "result", "failures"}
        /\ <<"config">> # <<>>
    BY <1>2
  <2> QED
    BY <1>2, <2>1, <2>2 DEF WrittenSoFar, FileNames, Lefts
<1>3. CASE /\ written = {"directory", "result", "failures"} /\ left = <<"config">> /\ HasFailures(t)
  <2>1. Head(left) = "config" /\ Tail(left) = <<>>
    BY <1>3
  <2> QED
    BY <1>3, <2>1 DEF FileNames
<1>4. CASE written = {"directory"} /\ left = <<"result", "config">> /\ ~HasFailures(t)
  <2>1. Head(left) = "result" /\ Tail(left) = <<"config">>
    BY <1>4
  <2>2. written \cup {"result"} = {"directory", "result"} /\ <<"config">> # <<>>
    BY <1>4
  <2> QED
    BY <1>4, <2>1, <2>2 DEF WrittenSoFar, FileNames, Lefts
<1>5. CASE written = {"directory", "result"} /\ left = <<"config">> /\ ~HasFailures(t)
  <2>1. Head(left) = "config" /\ Tail(left) = <<>>
    BY <1>5
  <2> QED
    BY <1>5, <2>1 DEF FileNames
<1> QED
  BY <1>1, <1>2, <1>3, <1>4, <1>5 DEF WrittenSoFar

LEMMA WriterHas ==
  ASSUME EvidenceInvariant, NEW c \in Clients, At(c, "saving")
  PROVE  /\ cl[c] \in Writers
         /\ cl[c].id \in DOMAIN comparisons
         /\ comparisons[cl[c].id].record.base = cl[c].task.base
         /\ comparisons[cl[c].id].record.candidate = cl[c].task.candidate
         /\ WrittenSoFar(comparisons[cl[c].id].files, cl[c].left, cl[c].task)
         /\ ~Readable(cl[c].id)
<1>1. cl[c] \in Writers
  BY RequestIsTyped DEF EvidenceInvariant, StoreTypes, At
<1>2. /\ cl[c].id \in DOMAIN comparisons
      /\ comparisons[cl[c].id].record.base = cl[c].task.base
      /\ comparisons[cl[c].id].record.candidate = cl[c].task.candidate
      /\ WrittenSoFar(comparisons[cl[c].id].files, cl[c].left, cl[c].task)
  BY DEF EvidenceInvariant, OneWriter
<1> QED
  BY <1>1, <1>2, NotWholeYet DEF Readable

LEMMA SaveBeginKeeps ==
  ASSUME EvidenceInvariant, NEW c \in Clients, SaveBegin(c)
  PROVE  EvidenceInvariant' /\ Grows
<1> SUFFICES ASSUME NEW t, t = cl[c].task, NEW read, read = cl[c].read,
                    NEW mode, mode = cl[c].mode, NEW i, i = Len(comparisons) + 1
             PROVE  EvidenceInvariant' /\ Grows
  OBVIOUS
<1> DEFINE rec == ComparisonRecord(t, read, mode)
           new == [record |-> rec, files |-> {"directory"}]
           q == [pc |-> "saving", task |-> t, id |-> i, left |-> Order(t)]
<1>1. /\ cl[c] \in Requests /\ Knows(cl[c]) /\ StoreTypes /\ cl[c].pc = "save"
      /\ JobLockFree
      /\ comparisons' = Append(comparisons, new)
      /\ cl' = [cl EXCEPT ![c] = q]
      /\ UNCHANGED <<inputs, baseline, exported, manifests, memory, clock>>
  BY DEF EvidenceInvariant, StoreTypes, RequestsKnow, SaveBegin, At
<1>2. cl[c] \in Savers
  BY <1>1, RequestIsTyped
<1>3. t \in CompareTasks /\ read \in SomeReads /\ mode \in Modes
  BY <1>2 DEF Savers
<1>4. /\ t.kind = "compare" /\ t.base \in Runs /\ t.candidate \in Runs /\ t.baseSha \in Versions
      /\ t.began \in Nat
  BY <1>3 DEF CompareTasks
<1>5. /\ t.base # t.candidate /\ Len(read) = 2 /\ read[1] = t.baseSha
      /\ mode = "CANONICAL" => Comparable(t.base, t.candidate)
  BY <1>1, <1>4 DEF Knows, ComparerKnows
<1>6. read[2] \in Versions /\ read = <<t.baseSha, read[2]>> /\ read \in Reads
  <2>1. \/ read = <<>> \/ \E v \in Versions : read = <<v>>
        \/ \E v, w \in Versions : read = <<v, w>>
    BY <1>3 DEF SomeReads, Reads
  <2>2. \E v, w \in Versions : read = <<v, w>>
    <3>1. Len(<<>>) = 0
      OBVIOUS
    <3>2. CASE \E v \in Versions : read = <<v>>
      BY <1>5, <3>2
    <3> QED
      BY <1>5, <2>1, <3>1, <3>2
  <2> QED
    BY <1>3, <1>5, <2>2 DEF SomeReads
<1>7. Comparable(t.base, t.candidate) \in BOOLEAN
  BY DEF Comparable, SameQueries
<1>8. rec \in Records
  BY <1>3, <1>4, <1>6, <1>7 DEF ComparisonRecord, Records
<1>9. RecordTells(rec)
  <2>1. /\ rec.base = t.base /\ rec.candidate = t.candidate /\ rec.mode = mode
        /\ rec.comparable = Comparable(t.base, t.candidate)
        /\ rec.baseSha = t.baseSha /\ rec.candidateSha = read[2] /\ rec.report = read
    BY DEF ComparisonRecord
  <2> HIDE DEF rec
  <2>2. mode = "CANONICAL" => rec.comparable = TRUE
    BY <1>5, <2>1
  <2> QED
    BY <1>5, <1>6, <2>1, <2>2 DEF RecordTells
<1>10. rec.base = t.base /\ rec.candidate = t.candidate
  BY DEF ComparisonRecord
<1> HIDE DEF rec
<1>11. new \in [record : Records, files : SUBSET FileNames]
       /\ new.record = rec /\ new.files = {"directory"}
  BY <1>8 DEF FileNames
<1> HIDE DEF new
<1>12. /\ comparisons' \in Seq([record : Records, files : SUBSET FileNames])
       /\ DOMAIN comparisons' = DOMAIN comparisons \cup {i}
       /\ \A j \in DOMAIN comparisons : comparisons'[j] = comparisons[j]
       /\ comparisons'[i] = new /\ i \in Nat
       /\ i \notin DOMAIN comparisons
  BY <1>1, <1>11 DEF StoreTypes
<1>13. Order(t) \in Lefts
  BY DEF Order, Lefts
<1>14. q \in Writers
  BY <1>3, <1>12, <1>13 DEF Writers
<1>15. q \in Requests
  BY <1>14 DEF Requests
<1>16. q.pc = "saving" /\ q.task = t /\ q.id = i /\ q.left = Order(t)
  OBVIOUS
<1> HIDE DEF q
<1>17. StoreTypes'
  BY <1>1, <1>12, <1>15 DEF StoreTypes, inputs, memory
<1>18. Grows
  BY <1>1, <1>12 DEF StoreTypes, Grows, Verified, Readable, inputs, memory
<1>19. Knows(q)'
  BY <1>4, <1>5, <1>16 DEF Knows, ReaderKnows, ComparerKnows, ExporterKnows, ConfirmerKnows
<1>20. /\ RequestsKnow'
       /\ cl'[c] = q /\ \A b \in Clients \ {c} : cl'[b] = cl[b]
  BY <1>1, <1>17, <1>18, <1>19, OthersStay
<1>21. OneConfirmer'
  BY <1>1, <1>4, <1>16, ConfirmerStays
<1>22. PreviewsTell' /\ ExportsTell' /\ ManifestsTell'
  BY <1>1, <1>18, PreviewsStay, ExportsStay, ManifestsStay DEF EvidenceInvariant, memory
<1>23. RecordsTell'
  <2>1. \A j \in DOMAIN comparisons' : RecordTells(comparisons'[j].record)
    BY <1>9, <1>11, <1>12 DEF EvidenceInvariant, RecordsTell
  <2> QED
    BY <2>1 DEF RecordsTell, RecordTells, Comparable, SameQueries
<1>24. ComparisonIsWhole'
  BY <1>11, <1>12 DEF EvidenceInvariant, ComparisonIsWhole, Readable, SameQueries
<1>25. OneWriter'
  <2>1. \A b \in Clients : At(b, "saving")' => b = c
    BY <1>1, <1>20 DEF At, JobLockFree
  <2>2. WrittenSoFar({"directory"}, Order(t), t)
    BY DEF WrittenSoFar, Order
  <2>3. /\ cl'[c].id \in DOMAIN comparisons'
        /\ comparisons'[cl'[c].id].record.base = cl'[c].task.base
        /\ comparisons'[cl'[c].id].record.candidate = cl'[c].task.candidate
        /\ WrittenSoFar(comparisons'[cl'[c].id].files, cl'[c].left, cl'[c].task)
    BY <1>10, <1>11, <1>12, <1>16, <1>20, <2>2
  <2> QED
    BY <2>1, <2>3 DEF OneWriter, WrittenSoFar, HasFailures, SameQueries
<1> QED
  BY <1>17, <1>18, <1>20, <1>21, <1>22, <1>23, <1>24, <1>25 DEF EvidenceInvariant

\* The files of a comparison that nobody can read yet change.
LEMMA FilesChange ==
  ASSUME EvidenceInvariant, NEW i \in DOMAIN comparisons, ~Readable(i),
         NEW F \in SUBSET FileNames,
         comparisons' = [comparisons EXCEPT ![i].files = F],
         UNCHANGED <<inputs, baseline, exported, manifests, memory, clock>>
  PROVE  /\ comparisons' \in Seq([record : Records, files : SUBSET FileNames])
         /\ DOMAIN comparisons' = DOMAIN comparisons
         /\ \A j \in DOMAIN comparisons \ {i} : comparisons'[j] = comparisons[j]
         /\ comparisons'[i].record = comparisons[i].record /\ comparisons'[i].files = F
         /\ RecordsTell' /\ Grows
<1> DEFINE C == [record : Records, files : SUBSET FileNames]
           new == [record |-> comparisons[i].record, files |-> F]
<1>1. StoreTypes /\ comparisons \in Seq(C)
  BY DEF EvidenceInvariant, StoreTypes
<1>2. comparisons[i] \in C
  BY <1>1, ElementIsTyped
<1>3. [comparisons[i] EXCEPT !.files = F] = new
  BY <1>2
<1>4. comparisons' = [comparisons EXCEPT ![i] = new]
  <2>1. comparisons' = [comparisons EXCEPT ![i] = [comparisons[i] EXCEPT !.files = F]]
    BY <1>1, <1>2
  <2> QED
    BY <1>3, <2>1
<1>5. new \in C /\ new.record = comparisons[i].record /\ new.files = F
  BY <1>2
<1> HIDE DEF C, new
<1>6. /\ comparisons' \in Seq(C) /\ DOMAIN comparisons' = DOMAIN comparisons
      /\ comparisons'[i] = new
      /\ \A j \in DOMAIN comparisons \ {i} : comparisons'[j] = comparisons[j]
  BY <1>1, <1>4, <1>5
<1>7. Grows
  BY <1>1, <1>5, <1>6 DEF StoreTypes, Grows, Verified, Readable, inputs, memory
<1>8. RecordsTell'
  <2>1. \A j \in DOMAIN comparisons' : RecordTells(comparisons'[j].record)
    BY <1>5, <1>6 DEF EvidenceInvariant, RecordsTell
  <2> QED
    BY <2>1 DEF RecordsTell, RecordTells, Comparable, SameQueries
<1> QED
  BY <1>5, <1>6, <1>7, <1>8 DEF C

\* The one writer goes on with q, or ends.
LEMMA WriterMoves ==
  ASSUME EvidenceInvariant, NEW c \in Clients, At(c, "saving"),
         NEW F \in SUBSET FileNames,
         comparisons' = [comparisons EXCEPT ![cl[c].id].files = F],
         UNCHANGED <<inputs, baseline, exported, manifests, memory, clock>>,
         NEW q \in Requests, cl' = [cl EXCEPT ![c] = q],
         \/ /\ q = Idle
            /\ {"config", "result"} \subseteq F =>
                 ("failures" \in F <=> HasFailures(cl[c].task))
         \/ /\ q.pc = "saving" /\ q.task = cl[c].task /\ q.id = cl[c].id
            /\ "config" \notin F /\ WrittenSoFar(F, q.left, cl[c].task)
  PROVE  EvidenceInvariant' /\ Grows
<1> SUFFICES ASSUME NEW i, i = cl[c].id, NEW t, t = cl[c].task
             PROVE  EvidenceInvariant' /\ Grows
  OBVIOUS
<1>1. /\ i \in DOMAIN comparisons /\ ~Readable(i) /\ t \in CompareTasks
      /\ comparisons[i].record.base = t.base /\ comparisons[i].record.candidate = t.candidate
      /\ cl[c].pc = "saving" /\ Knows(cl[c])
  BY WriterHas DEF Writers, At, EvidenceInvariant, RequestsKnow
<1>2. /\ comparisons' \in Seq([record : Records, files : SUBSET FileNames])
      /\ DOMAIN comparisons' = DOMAIN comparisons
      /\ \A j \in DOMAIN comparisons \ {i} : comparisons'[j] = comparisons[j]
      /\ comparisons'[i].record = comparisons[i].record /\ comparisons'[i].files = F
      /\ RecordsTell' /\ Grows
  BY <1>1, FilesChange
<1>3. StoreTypes'
  BY <1>2 DEF EvidenceInvariant, StoreTypes, inputs, memory
<1>4. t.kind = "compare" /\ t.base # t.candidate
  BY <1>1 DEF CompareTasks, Knows, ComparerKnows
<1>5. Knows(q)'
  <2>1. CASE q = Idle
    BY <2>1, IdleKnowsAll
  <2>2. CASE q.pc = "saving" /\ q.task = t
    BY <1>4, <2>2 DEF Knows, ReaderKnows, ComparerKnows, ExporterKnows, ConfirmerKnows
  <2> QED
    BY <2>1, <2>2
<1>6. /\ RequestsKnow'
      /\ cl'[c] = q /\ \A b \in Clients \ {c} : cl'[b] = cl[b]
  BY <1>2, <1>3, <1>5, OthersStay
<1>7. OneConfirmer'
  BY <1>4, IdleKnowsAll, ConfirmerStays
<1>8. PreviewsTell' /\ ExportsTell' /\ ManifestsTell'
  BY <1>2, PreviewsStay, ExportsStay, ManifestsStay DEF EvidenceInvariant, memory
<1>9. ComparisonIsWhole'
  <2>1. ASSUME NEW j \in DOMAIN comparisons', Readable(j)'
        PROVE  "failures" \in comparisons'[j].files <=>
                 SameQueries(comparisons'[j].record.base, comparisons'[j].record.candidate)
    <3>1. CASE j # i
      <4>1. comparisons'[j] = comparisons[j] /\ j \in DOMAIN comparisons
        BY <1>2, <3>1
      <4>2. Readable(j)
        BY <2>1, <4>1 DEF Readable
      <4> QED
        BY <4>1, <4>2 DEF EvidenceInvariant, ComparisonIsWhole, SameQueries
    <3>2. CASE j = i
      <4>1. {"config", "result"} \subseteq F
        BY <1>2, <2>1, <3>2 DEF Readable
      <4> QED
        BY <1>1, <1>2, <3>2, <4>1 DEF HasFailures, SameQueries
    <3> QED
      BY <3>1, <3>2
  <2> QED
    BY <2>1 DEF ComparisonIsWhole, SameQueries
<1>10. OneWriter'
  <2>1. \A b \in Clients : At(b, "saving")' => b = c /\ q.pc = "saving"
    BY <1>6 DEF At, EvidenceInvariant, OneWriter
  <2>2. q.pc = "saving" =>
          /\ q.task = t /\ q.id = i /\ WrittenSoFar(F, q.left, t)
    BY IdleKnowsAll
  <2>3. q.pc = "saving" =>
          /\ cl'[c].id \in DOMAIN comparisons'
          /\ comparisons'[cl'[c].id].record.base = cl'[c].task.base
          /\ comparisons'[cl'[c].id].record.candidate = cl'[c].task.candidate
          /\ WrittenSoFar(comparisons'[cl'[c].id].files, cl'[c].left, cl'[c].task)
    BY <1>1, <1>2, <1>6, <2>2
  <2> QED
    BY <2>1, <2>3 DEF OneWriter, WrittenSoFar, HasFailures, SameQueries
<1> QED
  BY <1>2, <1>3, <1>6, <1>7, <1>8, <1>9, <1>10 DEF EvidenceInvariant

LEMMA SaveFailsKeeps ==
  ASSUME EvidenceInvariant, NEW c \in Clients, SaveFails(c)
  PROVE  EvidenceInvariant' /\ Grows
<1>1. /\ At(c, "saving") /\ comparisons' = [comparisons EXCEPT ![cl[c].id].files = {}]
      /\ cl' = [cl EXCEPT ![c] = Idle]
      /\ UNCHANGED <<inputs, baseline, exported, manifests, memory, clock>>
  BY DEF SaveFails, Return
<1>2. ~({"config", "result"} \subseteq {}) /\ {} \in SUBSET FileNames
  OBVIOUS
<1> QED
  BY <1>1, <1>2, WriterMoves, IdleKnowsAll

LEMMA WriterGoesOn ==
  ASSUME NEW u \in Writers, NEW left
  PROVE  [u EXCEPT !.left = left] =
           [pc |-> "saving", task |-> u.task, id |-> u.id, left |-> left]
<1>1. u \in [pc : {"saving"}, task : CompareTasks, id : Nat, left : Lefts]
  BY DEF Writers
<1> QED
  BY <1>1

LEMMA WriteNextKeeps ==
  ASSUME EvidenceInvariant, NEW c \in Clients, WriteNext(c)
  PROVE  EvidenceInvariant' /\ Grows
<1> DEFINE i == cl[c].id
           t == cl[c].task
           left == cl[c].left
           F == comparisons[i].files \cup {Head(left)}
           q == [pc |-> "saving", task |-> t, id |-> i, left |-> Tail(left)]
<1>1. /\ At(c, "saving")
      /\ UNCHANGED <<inputs, baseline, exported, manifests, memory, clock>>
      /\ comparisons' = [comparisons EXCEPT ![i].files = @ \cup {Head(left)}]
      /\ Tail(left) = <<>> => cl' = [cl EXCEPT ![c] = Idle]
      /\ Tail(left) # <<>> => cl' = [cl EXCEPT ![c].left = Tail(@)]
  BY DEF WriteNext, Return
<1>2. /\ cl[c] \in Writers /\ i \in DOMAIN comparisons
      /\ WrittenSoFar(comparisons[i].files, left, t) /\ ~Readable(i)
  BY <1>1, WriterHas
<1>3. comparisons[i].files \in SUBSET FileNames
      /\ comparisons[i] \in [record : Records, files : SUBSET FileNames]
  BY <1>2, ComparisonIsTyped, ElementIsTyped DEF EvidenceInvariant, StoreTypes
<1>4. comparisons' = [comparisons EXCEPT ![i].files = F]
  BY <1>1
<1>6. /\ Tail(left) # <<>> => WrittenSoFar(F, Tail(left), t)
      /\ Tail(left) = <<>> => ("failures" \in F <=> HasFailures(t))
      /\ Head(left) \in FileNames
      /\ Tail(left) # <<>> => Tail(left) \in Lefts
  BY <1>2, NotWholeYet
<1>7. F \in SUBSET FileNames
  BY <1>3, <1>6
<1>8. CASE Tail(left) = <<>>
  <2> HIDE DEF F
  <2> QED
    BY <1>1, <1>4, <1>6, <1>7, <1>8, WriterMoves, IdleKnowsAll
<1>9. CASE Tail(left) # <<>>
  <2>1. cl' = [cl EXCEPT ![c] = q]
    <3>1. cl[c] \in [pc : {"saving"}, task : CompareTasks, id : Nat, left : Lefts]
      BY <1>2 DEF Writers
    <3>2. cl \in [Clients -> Requests]
      BY DEF EvidenceInvariant, StoreTypes
    <3>3. cl' = [cl EXCEPT ![c] = [cl[c] EXCEPT !.left = Tail(left)]]
      BY <1>1, <1>9, <3>1, <3>2
    <3>4. [cl[c] EXCEPT !.left = Tail(left)] = q
      BY <1>2, WriterGoesOn
    <3> QED
      BY <3>3, <3>4
  <2>2. q \in Writers
    BY <1>2, <1>6, <1>9 DEF Writers
  <2>3. q \in Requests
    BY <2>2 DEF Requests
  <2>4. q.pc = "saving" /\ q.task = t /\ q.id = i /\ q.left = Tail(left)
    OBVIOUS
  <2>5. "config" \notin F
    BY <1>6, <1>9, NotWholeYet
  <2> HIDE DEF F, q
  <2> QED
    BY <1>1, <1>4, <1>6, <1>7, <1>9, <2>1, <2>3, <2>4, <2>5, WriterMoves
<1> QED
  BY <1>8, <1>9

-----------------------------------------------------------------------------
(* The surroundings *)

\* Nothing that a request is at changes.
LEMMA SurroundingsStay ==
  ASSUME EvidenceInvariant, StoreTypes', Grows,
         UNCHANGED <<comparisons, manifests, memory, cl>>, ExportsTell'
  PROVE  EvidenceInvariant'
<1>1. RecordsTell' /\ ComparisonIsWhole' /\ PreviewsTell' /\ ManifestsTell'
  BY RecordsStay, PreviewsStay, ManifestsStay DEF EvidenceInvariant, memory
<1>2. RequestsKnow'
  BY RequestsStay DEF RequestsKnow
<1>3. OneWriter'
  BY DEF EvidenceInvariant, OneWriter, At, WrittenSoFar, HasFailures, SameQueries
<1>4. OneConfirmer'
  BY DEF EvidenceInvariant, OneConfirmer, Serves
<1> QED
  BY <1>1, <1>2, <1>3, <1>4 DEF EvidenceInvariant

LEMMA CompleteRunKeeps ==
  ASSUME EvidenceInvariant, NEW r \in Runs, CompleteRun(r)
  PROVE  EvidenceInvariant' /\ Grows
<1> DEFINE first == [result |-> Original, sha |-> Original]
<1>1. first \in Contents
  BY EvidenceAssumption DEF Contents
<1> HIDE DEF first
<1>2. /\ evidence[r] = None /\ evidence' = [evidence EXCEPT ![r] = first]
      /\ UNCHANGED <<drifted, changes, changedAt, files, memory, clock, cl>>
  BY DEF CompleteRun, first
<1>3. StoreTypes'
  BY <1>1, <1>2 DEF EvidenceInvariant, StoreTypes, files, memory
<1>4. Grows
  BY <1>2 DEF EvidenceInvariant, StoreTypes, Grows, Verified, Readable, files, memory
<1>5. ExportsTell'
  BY <1>2, <1>4, ExportsStay DEF EvidenceInvariant, files
<1> QED
  BY <1>2, <1>3, <1>4, <1>5, SurroundingsStay DEF files

LEMMA EditEvidenceKeeps ==
  ASSUME EvidenceInvariant, NEW r \in Runs, EditEvidence(r)
  PROVE  EvidenceInvariant' /\ Grows
<1>1. /\ changes < MaxChanges /\ evidence[r] # None
      /\ changes' = changes + 1 /\ changedAt' = [changedAt EXCEPT ![r] = changes + 1]
      /\ UNCHANGED <<drifted, files, memory, clock, cl>>
  BY DEF EditEvidence
<1>2. StoreTypes
  BY DEF EvidenceInvariant
<1>3. evidence[r] \in Contents /\ changes \in Nat
  BY <1>1, <1>2 DEF StoreTypes
<1>4. PICK v \in Versions, s \in Versions :
        evidence' = [evidence EXCEPT ![r] = [result |-> v, sha |-> s]]
  BY <1>3 DEF EditEvidence, Contents
<1>5. evidence' \in [Runs -> {None} \cup Contents]
  BY <1>2, <1>4 DEF StoreTypes, Contents
<1>6. changes' \in 0..MaxChanges
  BY <1>1, <1>2, EvidenceAssumption DEF StoreTypes
<1>7. changedAt' \in [Runs -> 0..changes']
  BY <1>1, <1>2, <1>3 DEF StoreTypes
<1>8. StoreTypes'
  BY <1>1, <1>2, <1>5, <1>6, <1>7 DEF StoreTypes, files, memory
<1>9. Grows
  <2>1. \A u \in Runs : \/ changedAt'[u] > changes
                        \/ /\ changedAt'[u] = changedAt[u]
                           /\ evidence'[u] = evidence[u]
    <3>1. ASSUME NEW u \in Runs, u # r
          PROVE  changedAt'[u] = changedAt[u] /\ evidence'[u] = evidence[u]
      BY <1>1, <1>2, <1>4, <3>1 DEF StoreTypes
    <3>2. changedAt'[r] = changes + 1
      BY <1>1, <1>2 DEF StoreTypes
    <3>3. changes + 1 > changes
      BY <1>3
    <3>4. changedAt'[r] > changes
      BY <3>2, <3>3
    <3> QED
      BY <3>1, <3>4
  <2>2. changes <= changes' /\ clock <= clock'
    BY <1>1, <1>2, <1>3 DEF StoreTypes
  <2> QED
    BY <1>1, <2>1, <2>2 DEF Grows, Readable, files, memory
<1>10. ExportsTell'
  BY <1>1, <1>2, <1>9, ExportsStay DEF EvidenceInvariant, files
<1> QED
  BY <1>1, <1>8, <1>9, <1>10, SurroundingsStay DEF files

LEMMA EditInputsKeeps ==
  ASSUME EvidenceInvariant, NEW r \in Runs, EditInputs(r)
  PROVE  EvidenceInvariant' /\ Grows
<1>1. /\ changes < MaxChanges /\ changes' = changes + 1 /\ drifted' = drifted \cup {r}
      /\ UNCHANGED <<evidence, changedAt, files, memory, clock, cl>>
  BY DEF EditInputs
<1>2. StoreTypes /\ changes \in Nat
  BY DEF EvidenceInvariant, StoreTypes
<1>3. changes' \in 0..MaxChanges /\ changedAt' \in [Runs -> 0..changes']
  BY <1>1, <1>2, EvidenceAssumption DEF StoreTypes
<1>4. StoreTypes'
  BY <1>1, <1>2, <1>3 DEF StoreTypes, files, memory
<1>5. Grows
  BY <1>1, <1>2 DEF StoreTypes, Grows, Verified, Readable, files, memory
<1>6. ExportsTell'
  BY <1>1, <1>2, <1>5, ExportsStay DEF EvidenceInvariant, files
<1> QED
  BY <1>1, <1>4, <1>5, <1>6, SurroundingsStay DEF files

LEMMA OccupyKeeps ==
  ASSUME EvidenceInvariant, NEW d \in Directories, NEW s \in AnySource, Occupy(d, s)
  PROVE  EvidenceInvariant' /\ Grows
<1> DEFINE e0 == [directory |-> d, source |-> s, files |-> Foreign]
<1>1. /\ changes < MaxChanges /\ changes' = changes + 1 /\ exported' = exported \cup {e0}
      /\ UNCHANGED <<evidence, drifted, changedAt, baseline, comparisons, manifests,
                     memory, clock, cl>>
  BY DEF Occupy
<1>2. StoreTypes /\ changes \in Nat
  BY DEF EvidenceInvariant, StoreTypes
<1>3. changes' \in 0..MaxChanges /\ changedAt' \in [Runs -> 0..changes']
  BY <1>1, <1>2, EvidenceAssumption DEF StoreTypes
<1>4. e0 \in [directory : Directories, source : AnySource, files : Reads]
      /\ e0.files = Foreign
  BY DEF Foreign, Reads
<1> HIDE DEF e0
<1>5. StoreTypes'
  BY <1>1, <1>2, <1>3, <1>4 DEF StoreTypes, memory
<1>6. Grows
  BY <1>1, <1>2 DEF StoreTypes, Grows, Verified, Readable, memory
<1>7. ExportsTell'
  <2>1. ASSUME NEW e \in exported, e.files # Foreign
        PROVE  Sound(e.source)' /\ Tells(e.source, e.files)'
    <3>1. Sound(e.source) /\ Tells(e.source, e.files)
      BY <2>1 DEF EvidenceInvariant, ExportsTell, Ours
    <3> QED
      BY <1>2, <1>6, <3>1, SourcesStay
  <2> QED
    BY <1>1, <1>4, <2>1 DEF ExportsTell, Ours
<1> QED
  BY <1>1, <1>5, <1>6, <1>7, SurroundingsStay

LEMMA TickKeeps ==
  ASSUME EvidenceInvariant, Tick
  PROVE  EvidenceInvariant' /\ Grows
<1>1. /\ clock < MaxClock /\ clock' = clock + 1
      /\ UNCHANGED <<inputs, files, memory, cl>>
  BY DEF Tick
<1>2. StoreTypes /\ clock \in Nat
  BY DEF EvidenceInvariant, StoreTypes
<1>3. clock' \in 0..MaxClock
  BY <1>1, <1>2, EvidenceAssumption DEF StoreTypes
<1>4. StoreTypes'
  BY <1>1, <1>2, <1>3 DEF StoreTypes, inputs, files, memory
<1>5. Grows
  BY <1>1, <1>2 DEF StoreTypes, Grows, Verified, Readable, inputs, files, memory
<1>6. ExportsTell'
  BY <1>1, <1>2, <1>5, ExportsStay DEF EvidenceInvariant, files
<1> QED
  BY <1>1, <1>4, <1>5, <1>6, SurroundingsStay DEF files

LEMMA CrashKeeps ==
  ASSUME EvidenceInvariant, Crash
  PROVE  EvidenceInvariant' /\ Grows
<1>1. /\ cl' = [c \in Clients |-> Idle] /\ live' = {}
      /\ UNCHANGED <<inputs, files, previews, clock>>
  BY DEF Crash
<1>2. StoreTypes
  BY DEF EvidenceInvariant
<1>3. StoreTypes'
  BY <1>1, <1>2, IdleKnowsAll DEF StoreTypes, inputs, files
<1>4. Grows
  BY <1>1, <1>2 DEF StoreTypes, Grows, Verified, Readable, inputs, files
<1>5. RecordsTell' /\ ComparisonIsWhole' /\ PreviewsTell' /\ ExportsTell' /\ ManifestsTell'
  BY <1>1, <1>2, <1>4, RecordsStay, PreviewsStay, ExportsStay, ManifestsStay
     DEF EvidenceInvariant, files
<1>6. \A c \in Clients : cl'[c] = Idle
  BY <1>1
<1>7. RequestsKnow'
  BY <1>6, IdleKnows DEF RequestsKnow
<1>8. OneWriter' /\ OneConfirmer'
  BY <1>6, IdleKnowsAll DEF OneWriter, OneConfirmer, At, Serves
<1> QED
  BY <1>3, <1>4, <1>5, <1>7, <1>8 DEF EvidenceInvariant

-----------------------------------------------------------------------------
(* The theorems *)

LEMMA InvariantAtStart == Init => EvidenceInvariant
<1> SUFFICES ASSUME Init PROVE EvidenceInvariant
  OBVIOUS
<1>1. Idle \in Requests /\ Idle.pc = "idle"
  BY DEF Requests, Idle
<1>2. /\ comparisons \in Seq([record : Records, files : SUBSET FileNames])
      /\ previews \in Seq([source : AnySource, files : SomeReads, expires : Nat])
      /\ DOMAIN comparisons = {} /\ DOMAIN previews = {}
  BY DEF Init
<1>3. StoreTypes
  BY <1>1, <1>2, EvidenceAssumption DEF Init, StoreTypes
<1>4. RecordsTell /\ ComparisonIsWhole /\ PreviewsTell
  BY <1>2 DEF RecordsTell, ComparisonIsWhole, PreviewsTell
<1>5. ExportsTell /\ ManifestsTell
  BY DEF Init, ExportsTell, Ours, ManifestsTell, ManifestTellsExport, OneExportPerPreview
<1>6. \A c \in Clients : cl[c] = Idle
  BY DEF Init
<1>7. RequestsKnow
  BY <1>1, <1>6 DEF RequestsKnow, Knows, ReaderKnows, ComparerKnows, ExporterKnows,
                    ConfirmerKnows
<1>8. OneWriter /\ OneConfirmer
  BY <1>1, <1>6 DEF OneWriter, OneConfirmer, At, Serves
<1> QED
  BY <1>3, <1>4, <1>5, <1>7, <1>8 DEF EvidenceInvariant

LEMMA StutteringKeeps ==
  ASSUME EvidenceInvariant, UNCHANGED vars
  PROVE  EvidenceInvariant' /\ Grows
<1> USE DEF vars, inputs, files, memory
<1>1. StoreTypes /\ StoreTypes'
  BY DEF EvidenceInvariant, StoreTypes
<1>2. Grows
  BY <1>1 DEF StoreTypes, Grows, Verified, Readable
<1>3. ExportsTell'
  BY <1>1, <1>2, ExportsStay DEF EvidenceInvariant
<1> QED
  BY <1>1, <1>2, <1>3, SurroundingsStay

\* Every step keeps the invariant and lets the store grow only.
LEMMA StepKeeps ==
  ASSUME EvidenceInvariant, [Next]_vars
  PROVE  EvidenceInvariant' /\ Grows
<1>1. ASSUME NEW c \in Clients, ComparisonStep(c)
      PROVE  EvidenceInvariant' /\ Grows
  BY <1>1, PinBeginKeeps, CompareBeginKeeps, PinSaveKeeps, AssessKeeps, SaveBeginKeeps,
     WriteNextKeeps, SaveFailsKeeps DEF ComparisonStep
<1>2. ASSUME NEW c \in Clients, ExportStep(c)
      PROVE  EvidenceInvariant' /\ Grows
  BY <1>2, PreviewBeginKeeps, ConfirmBeginKeeps, CheckSourceKeeps, StorePreviewKeeps,
     PolicyRejectsKeeps, RecheckKeeps, CommitKeeps, SaveManifestKeeps DEF ExportStep
<1>3. ASSUME Surroundings
      PROVE  EvidenceInvariant' /\ Grows
  <2>1. /\ \A r \in Runs : RunSource(r) \in AnySource
        /\ \A i \in DOMAIN comparisons : ComparisonSource(i) \in AnySource
    BY DEF AnySource, RunSource, ComparisonSource, EvidenceInvariant, StoreTypes
  <2> QED
    BY <1>3, <2>1, CompleteRunKeeps, EditEvidenceKeeps, EditInputsKeeps, OccupyKeeps,
       TickKeeps, CrashKeeps DEF Surroundings
<1> QED
  BY <1>1, <1>2, <1>3, ReadOperandKeeps, StoreRaisesKeeps, StutteringKeeps
     DEF Next, Waiting

LEMMA InvariantTells ==
  ASSUME EvidenceInvariant
  PROVE  /\ TypeOK /\ ReportTellsOperands /\ ComparisonIsWhole
         /\ ExportsAreTrue /\ OneExportPerPreview
<1>1. StoreTypes
  BY DEF EvidenceInvariant
<1>2. TypeOK
  <2>1. \A m \in manifests : m.preview \in DOMAIN previews /\ m.files \in Reads
    BY <1>1 DEF EvidenceInvariant, ManifestsTell, StoreTypes, SomeReads
  <2>2. \A i \in DOMAIN comparisons :
          comparisons[i].record \in Records /\ comparisons[i].files \subseteq FileNames
    BY <1>1, ComparisonIsTyped
  <2>3. \A e \in exported : e.directory \in Directories /\ e.files \in Reads
    BY <1>1 DEF StoreTypes
  <2> QED
    BY <1>1, <2>1, <2>2, <2>3 DEF StoreTypes, TypeOK
<1>3. ReportTellsOperands
  <2>1. ASSUME NEW i \in DOMAIN comparisons
        PROVE  LET rec == comparisons[i].record
               IN  /\ rec.base # rec.candidate
                   /\ rec.mode = "CANONICAL" => rec.comparable
                   /\ rec.comparable <=> Comparable(rec.base, rec.candidate)
                   /\ rec.report = <<rec.baseSha, rec.candidateSha>>
    <3>1. RecordTells(comparisons[i].record)
      BY DEF EvidenceInvariant, RecordsTell
    <3> QED
      BY <3>1 DEF RecordTells
  <2>2. ASSUME NEW c \in Clients, At(c, "save")
        PROVE  Current(c, <<cl[c].task.base, cl[c].task.candidate>>)
    <3>1. cl[c] \in Savers /\ Knows(cl[c])
      BY <1>1, <2>2, RequestIsTyped DEF StoreTypes, At, EvidenceInvariant, RequestsKnow
    <3>2. cl[c].task.kind = "compare" /\ cl[c].read \in SomeReads
      BY <3>1 DEF Savers, CompareTasks
    <3>3. Fresh(cl[c].task, <<cl[c].task.base, cl[c].task.candidate>>, cl[c].read)
          /\ Len(cl[c].read) = 2
      BY <2>2, <3>1, <3>2 DEF At, Knows, ComparerKnows
    <3>4. 1 \in DOMAIN cl[c].read /\ 2 \in DOMAIN cl[c].read
      BY <3>2, <3>3 DEF SomeReads, Reads
    <3>5. DOMAIN <<cl[c].task.base, cl[c].task.candidate>> = {1, 2}
      OBVIOUS
    <3> QED
      BY <3>3, <3>4, <3>5 DEF Current, Fresh
  <2> QED
    BY <2>1, <2>2 DEF ReportTellsOperands
<1>4. OnlyCanonicalIsExported
  <2>1. ASSUME NEW e \in Ours, e.source[1] = "comparison"
        PROVE  /\ Readable(e.source[2]) /\ Record(e.source[2]).mode = "CANONICAL"
               /\ Record(e.source[2]).comparable
               /\ e.files = Record(e.source[2]).report
    BY <2>1 DEF EvidenceInvariant, ExportsTell, Sound, Offered, Tells
  <2> QED
    BY <2>1 DEF OnlyCanonicalIsExported
<1>5. ExportIsCurrent
  <2>1. SUFFICES ASSUME NEW c \in Clients, At(c, "commit")
                 PROVE  /\ Current(c, Operands(cl[c].task.source))
                        /\ cl[c].read = previews[cl[c].task.preview].files
    BY DEF ExportIsCurrent
  <2>2. cl[c] \in Committers /\ Knows(cl[c])
    BY <1>1, <2>1, RequestIsTyped DEF StoreTypes, At, EvidenceInvariant, RequestsKnow
  <2>3. cl[c].task.kind = "confirm" /\ cl[c].read \in SomeReads
    BY <2>2 DEF Committers, ConfirmTasks
  <2>4. /\ Len(cl[c].read) = Len(Operands(cl[c].task.source))
        /\ Fresh(cl[c].task, Operands(cl[c].task.source), cl[c].read)
        /\ cl[c].read = previews[cl[c].task.preview].files
        /\ Sound(cl[c].task.source)
    BY <2>1, <2>2, <2>3 DEF At, Knows, ConfirmerKnows, ExporterKnows
  <2>5. DOMAIN cl[c].read = 1..Len(cl[c].read)
    BY <2>3 DEF SomeReads, Reads
  <2>6. DOMAIN Operands(cl[c].task.source) = 1..Len(Operands(cl[c].task.source))
    BY <1>1, <2>4, OperandsAreSequence
  <2> QED
    BY <2>4, <2>5, <2>6 DEF Current, Fresh
<1> QED
  BY <1>2, <1>3, <1>4, <1>5 DEF EvidenceInvariant, ManifestsTell, ExportsAreTrue

\* Everything the store holds, every request knows and the two locks protect, at any
\* time: the inductive invariant of comparisons and exports.
THEOREM EvidenceFlowTheorem == Spec => []EvidenceInvariant
<1>1. Init => EvidenceInvariant
  BY InvariantAtStart
<1>2. EvidenceInvariant /\ [Next]_vars => EvidenceInvariant'
  BY StepKeeps
<1> QED
  BY <1>1, <1>2, PTL DEF Spec

\* Types.
THEOREM EvidenceTypes == Spec => []TypeOK
<1>1. EvidenceInvariant => TypeOK
  BY InvariantTells
<1> QED
  BY <1>1, EvidenceFlowTheorem, PTL

\* A comparison that can be read tells the truth about its operands, and one that is
\* about to be saved is the evidence of now (ComparisonService.compare).
THEOREM ReportTheorem == Spec => []ReportTellsOperands
<1>1. EvidenceInvariant => ReportTellsOperands
  BY InvariantTells
<1> QED
  BY <1>1, EvidenceFlowTheorem, PTL

\* A comparison that can be read is whole, over crashes and failing writes
\* (save_comparison_record).
THEOREM WholeComparisonTheorem == Spec => []ComparisonIsWhole
<1>1. EvidenceInvariant => ComparisonIsWhole
  BY InvariantTells
<1> QED
  BY <1>1, EvidenceFlowTheorem, PTL

\* Each export is of evidence that may leave, as it is now, and told as it was
\* (ExportService.confirm).
THEOREM ExportTheorem == Spec => []ExportsAreTrue
<1>1. EvidenceInvariant => ExportsAreTrue
  BY InvariantTells
<1> QED
  BY <1>1, EvidenceFlowTheorem, PTL

\* A preview is confirmed at most once, by however many requests, retries and restarts.
THEOREM OnceTheorem == Spec => []OneExportPerPreview
<1>1. EvidenceInvariant => OneExportPerPreview
  BY InvariantTells
<1> QED
  BY <1>1, EvidenceFlowTheorem, PTL

\* What lies at a destination is never replaced, whoever has put it there.
THEOREM DestinationTheorem == Spec => NoOverwrite
<1>1. EvidenceInvariant /\ [Next]_vars => [exported \subseteq exported']_vars
  BY StepKeeps DEF Grows
<1> QED
  BY <1>1, EvidenceFlowTheorem, PTL DEF Spec, NoOverwrite

\* What can be read never changes again, and is never taken back.
THEOREM FinalComparisonTheorem == Spec => ComparisonIsFinal
<1>1. EvidenceInvariant /\ [Next]_vars =>
        [\A i \in DOMAIN comparisons : Readable(i) =>
           i \in DOMAIN comparisons' /\ comparisons'[i] = comparisons[i]]_vars
  BY StepKeeps DEF Grows
<1> QED
  BY <1>1, EvidenceFlowTheorem, PTL DEF Spec, ComparisonIsFinal
=============================================================================
