------------------------------ MODULE Preparation ------------------------------
(***************************************************************************)
(* The preparation of a dataset's directory: datasets/miracl_prepare.py    *)
(* and ragtruth_prepare.py.  A session copies one file after the other to  *)
(* its place, loads and validates them all, and writes a manifest of their *)
(* checksums last.  It can die between any two of these steps; nothing     *)
(* cleans up after it.                                                     *)
(*                                                                         *)
(* A checksum is the content it is of.  "good" and "edited" are contents   *)
(* that validate, "short" is a download that broke off where the rest      *)
(* still validates, "bad" one that does not.                               *)
(***************************************************************************)
EXTENDS Naturals, Sequences

Absent == "absent"

\* The copies of a session in their order; a session for the topics and the judgements only
\* leaves the corpus out.
Files(kind, only) ==
  CASE kind = "ragtruth" -> <<"response", "source_info">>
    [] kind = "miracl" /\ ~only -> <<"topics", "qrels", "corpus">>
    [] kind = "miracl" /\ only  -> <<"topics", "qrels">>

Names == {"response", "source_info", "topics", "qrels", "corpus"}
NoSums == [f \in Names |-> Absent]

\* from: where the files come from; expected: the checksums that they are expected to have;
\* sums: those of the files copied so far.
NoPreparation == [step |-> "idle"]

VARIABLES
  kind,       \* which dataset the directory is for
  placed,     \* the content of each file in its place
  manifest,   \* whether it is absent, torn or whole, and the checksums it tells
  preparing,  \* the session
  fetched     \* what the sessions under an expected checksum took from elsewhere (history)

prepVars == <<kind, placed, manifest, preparing, fetched>>

PrepInit(kinds) ==
  /\ kind \in kinds
  /\ placed = NoSums
  /\ manifest = [is |-> Absent, sums |-> NoSums]
  /\ preparing = NoPreparation
  /\ fetched = {}

\* _previous_checksums: a manifest that cannot be read tells none.
PreviousSums == manifest.sums

\* MIRACL expects of a file what the last manifest told of it; RAGTruth what the caller says.
Begin ==
  /\ preparing = NoPreparation
  /\ \E from \in {"web", "local"}, only \in BOOLEAN, said \in {Absent, "good"} :
       /\ kind = "ragtruth" => ~only
       /\ kind = "miracl" => said = Absent
       /\ preparing' = [step |-> "copying", todo |-> Files(kind, only), from |-> from,
                        sums |-> NoSums,
                        expected |-> IF kind = "miracl" THEN PreviousSums
                                     ELSE [f \in Names |-> said]]
  /\ UNCHANGED <<kind, placed, manifest, fetched>>

Copied(f, content) ==
  preparing' = [preparing EXCEPT !.todo = Tail(@), !.sums[f] = content,
                                 !.step = IF Len(preparing.todo) = 1 THEN "validating" ELSE @]
Raise == preparing' = NoPreparation

\* A file in its place stays there: it is taken for what is wanted when it is as expected, or
\* the same as the local source, and refused otherwise.
Kept(f, source) ==
  \/ preparing.expected[f] # Absent /\ placed[f] = preparing.expected[f]
  \/ preparing.from = "local" /\ placed[f] = source

KeepPlaced(f, source) ==
  /\ placed[f] # Absent
  /\ IF Kept(f, source) THEN Copied(f, placed[f]) ELSE Raise
  /\ UNCHANGED <<placed, fetched>>

\* RAGTruth takes a file that is not as expected away again, after it was put in its place.
SlipRejected(f, source) == FALSE
Rejected(f, source) ==
  kind = "ragtruth" /\ preparing.expected[f] \notin {Absent, source}

Fetch(f, source) ==
  /\ placed[f] = Absent
  /\ placed' = [placed EXCEPT ![f] = source]
  /\ IF Rejected(f, source)
       THEN /\ preparing' = [preparing EXCEPT !.step = "rejecting"]
            /\ UNCHANGED fetched
       ELSE /\ Copied(f, source)
            /\ fetched' = IF kind = "ragtruth" /\ preparing.expected[f] # Absent
                            THEN fetched \cup {<<f, source>>} ELSE fetched

\* A copy that fails leaves its place as it was.
FetchFails(f) == placed[f] = Absent /\ Raise /\ UNCHANGED <<placed, fetched>>

Copy ==
  /\ preparing.step = "copying"
  /\ LET f == Head(preparing.todo)
     IN  \/ \E source \in {"good", "edited", "bad"} :
              preparing.from = "local" /\ (KeepPlaced(f, source) \/ Fetch(f, source))
         \/ \E source \in {"good", "short"} :
              preparing.from = "web" /\ (KeepPlaced(f, source) \/ Fetch(f, source))
         \/ FetchFails(f)
  /\ UNCHANGED <<kind, manifest>>

Reject ==
  /\ preparing.step = "rejecting"
  /\ placed' = [placed EXCEPT ![Head(preparing.todo)] = Absent]
  /\ Raise
  /\ UNCHANGED <<kind, manifest, fetched>>

\* The copies are loaded and validated; the manifest is opened for writing, which empties it,
\* and then written.
SlipValidates(sums) == TRUE
Validates(sums) == \A f \in Names : sums[f] # "bad"

Validate ==
  /\ preparing.step = "validating"
  /\ IF Validates(preparing.sums)
       THEN /\ preparing' = [preparing EXCEPT !.step = "writing"]
            /\ manifest' = [is |-> "torn", sums |-> NoSums]
       ELSE Raise /\ UNCHANGED manifest
  /\ UNCHANGED <<kind, placed, fetched>>

WriteManifest ==
  /\ preparing.step = "writing"
  /\ manifest' = [is |-> "whole", sums |-> preparing.sums]
  /\ preparing' = NoPreparation
  /\ UNCHANGED <<kind, placed, fetched>>

Die ==
  /\ preparing # NoPreparation
  /\ preparing' = NoPreparation
  /\ UNCHANGED <<kind, placed, manifest, fetched>>

Prepare == Begin \/ Copy \/ Reject \/ Validate \/ WriteManifest \/ Die

PreparationSpec == PrepInit({"miracl", "ragtruth"}) /\ [][Prepare]_prepVars

-----------------------------------------------------------------------------
\* A manifest tells the checksums of files in their place, all of which validated together; and
\* a file that was fetched under an expected checksum has it.
PreparedDataAreWhole ==
  /\ \A f \in Names : manifest.sums[f] # Absent =>
       placed[f] = manifest.sums[f] /\ manifest.sums[f] # "bad"
  /\ \A taken \in fetched : taken[2] = "good"
=============================================================================
