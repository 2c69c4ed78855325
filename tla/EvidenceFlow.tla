---------------------------- MODULE EvidenceFlow ----------------------------
(***************************************************************************)
(* Comparisons and exports together, on one store: what a workspace        *)
(* promises about the evidence that leaves it.                             *)
(***************************************************************************)
EXTENDS ComparisonService, ExportService

Init ==
  /\ evidence = [r \in Runs |-> None] /\ drifted = {}
  /\ baseline = None /\ comparisons = <<>>
  /\ exported = {} /\ manifests = {}
  /\ previews = <<>> /\ live = {}
  /\ clock = 0
  /\ cl = [c \in Clients |-> Idle]
  /\ changes = 0 /\ changedAt = [r \in Runs |-> 0]

\* Nobody is obliged to ask for anything.
Waiting == (\A c \in Clients : At(c, "idle")) /\ UNCHANGED vars

Next ==
  \/ \E c \in Clients : ReadOperand(c) \/ StoreRaises(c) \/ ComparisonStep(c) \/ ExportStep(c)
  \/ Surroundings
  \/ Waiting

Spec == Init /\ [][Next]_vars

-----------------------------------------------------------------------------
(* Types.                                                                  *)

Contents == [result : Versions, sha : Versions]
Reads == {<<>>} \cup {<<v>> : v \in Versions} \cup {<<v, w>> : v \in Versions, w \in Versions}
Pointers == [run : Runs, sha : Versions]
Records == [mode : Modes, comparable : BOOLEAN, base : Runs, baseSha : Versions,
            candidate : Runs, candidateSha : Versions, report : Reads]
FileNames == {"directory", "result", "failures", "config"}

\* Types: what is in the files, in memory and in the counters.
TypeOK ==
  /\ evidence \in [Runs -> {None} \cup Contents] /\ drifted \subseteq Runs
  /\ baseline \in {None} \cup Pointers
  /\ \A i \in DOMAIN comparisons :
       comparisons[i].record \in Records /\ comparisons[i].files \subseteq FileNames
  /\ \A e \in exported : e.directory \in Directories /\ e.files \in Reads
  /\ \A m \in manifests : m.preview \in DOMAIN previews /\ m.files \in Reads
  /\ live \subseteq DOMAIN previews
  /\ clock \in 0..MaxClock /\ changes \in 0..MaxChanges
  /\ changedAt \in [Runs -> 0..changes]

-----------------------------------------------------------------------------
(* Comparisons.                                                            *)

\* A run that nobody has edited since a request began.
Untouched(r, began) == changedAt[r] <= began

\* The operands of a request that were read are the evidence as it is now,
\* unless they were edited after the request began.
Current(c, runs) ==
  \A n \in DOMAIN runs : Untouched(runs[n], cl[c].task.began)
    => Verified(runs[n]) /\ evidence[runs[n]].result = cl[c].read[n]

\* A comparison tells the truth about its operands: they are two runs, comparable
\* if it is canonical, and the report was made of the very results whose checksums
\* it records, whatever is pinned or edited between the steps that read them.  What
\* is about to be saved is the evidence of now.
ReportTellsOperands ==
  /\ \A i \in DOMAIN comparisons : Readable(i) =>
       LET rec == comparisons[i].record
       IN  /\ rec.base # rec.candidate
           /\ rec.mode = "CANONICAL" => rec.comparable
           /\ rec.comparable <=> Comparable(rec.base, rec.candidate)
           /\ rec.report = <<rec.baseSha, rec.candidateSha>>
  /\ \A c \in Clients : At(c, "save") =>
       Current(c, <<cl[c].task.base, cl[c].task.candidate>>)

\* A comparison that can be read is whole: its failure transitions are there if
\* and only if the two runs were asked the same queries.  Crashes and failing
\* writes leave no readable part of one.
ComparisonIsWhole ==
  \A i \in DOMAIN comparisons : Readable(i) =>
    ("failures" \in comparisons[i].files <=>
       SameQueries(comparisons[i].record.base, comparisons[i].record.candidate))

\* What can be read never changes again, and is never taken back.
ComparisonIsFinal ==
  [][\A i \in DOMAIN comparisons : Readable(i) =>
       i \in DOMAIN comparisons' /\ comparisons'[i] = comparisons[i]]_vars

-----------------------------------------------------------------------------
(* Exports.                                                                *)

Ours == {e \in exported : e.files # Foreign}

\* Only a run or a canonical comparison leaves the workspace; the results in
\* the bundle of a comparison are those its record names.
OnlyCanonicalIsExported ==
  \A e \in Ours : e.source[1] = "comparison" =>
    LET i == e.source[2]
    IN  /\ Readable(i) /\ Record(i).mode = "CANONICAL" /\ Record(i).comparable
        /\ e.files = Record(i).report

\* A manifest tells what was done: its destination holds exactly the files that
\* were previewed, and the preview had not expired when it was confirmed.
ManifestTellsExport ==
  \A m \in manifests :
    /\ m.files = previews[m.preview].files /\ m.created < previews[m.preview].expires
    /\ \E e \in exported : /\ e.directory = m.directory /\ e.source = m.source
                           /\ e.files = m.files

\* A preview is confirmed at most once, by however many requests, retries and
\* restarts.
OneExportPerPreview ==
  \A m, n \in manifests : m.preview = n.preview => m = n

\* A preview is no permission to export changed evidence: what is about to be
\* written is the evidence as it is now, unless it was edited after confirm began.
ExportIsCurrent ==
  \A c \in Clients : At(c, "commit") =>
    Current(c, Operands(cl[c].task.source)) /\ cl[c].read = previews[cl[c].task.preview].files

\* Each export is of evidence that may leave, as it is now, and told as it was.
ExportsAreTrue == OnlyCanonicalIsExported /\ ManifestTellsExport /\ ExportIsCurrent

\* What lies at a destination is never replaced, whoever has put it there.
NoOverwrite == [][exported \subseteq exported']_vars

-----------------------------------------------------------------------------
(* What does not hold.                                                     *)

\* A baseline is replaced by another run only when that was confirmed.
ReplacementIsConfirmed ==
  [][\A c \in Clients : PinSave(c) /\ Replaces(cl[c].task.run) => cl[c].task.confirmed]_vars
=============================================================================
