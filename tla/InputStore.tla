------------------------------ MODULE InputStore ------------------------------
(***************************************************************************)
(* The inputs of a workspace (workspace/ingestion/service.py, storage.py)  *)
(* and what a run makes of them (application/runs.py): an input is         *)
(* imported, or refers to a file of the owner's that changes when it       *)
(* likes; a run names two inputs, and reads them before it is saved and    *)
(* again when it is executed.                                              *)
(*                                                                         *)
(* A checksum is the content it is of.  "a" and "b" are valid contents,    *)
(* "bad" does not validate, "big" exceeds MAX_INPUT_BYTES.                 *)
(***************************************************************************)
EXTENDS OwnerSessions

CONSTANTS
  Inputs,       \* identifiers
  MaxEdits      \* bound: times the owner's file changes

VARIABLES
  source,       \* the owner's file
  imported,     \* [Inputs -> content or Absent]
  manifest,     \* [Inputs -> manifest or NoManifest]
  registering,  \* [Tabs -> the request that registers an input]
  submitting,   \* the request that creates the run
  snapshot,     \* the run: its inputs and their checksums
  executing,    \* the worker at that run
  accepted,     \* inputs that a client was told are registered (history)
  edits

inputVars == <<source, imported, manifest, registering, submitting, snapshot, executing,
               accepted, edits>>

Absent == "absent"
Contents == {"a", "b", "bad", "big"}
Kinds == {"truth", "predictions"}
NoManifest == [mode |-> Absent]
Nothing == [pc |-> "idle"]
NoRunYet == [saved |-> FALSE]

InputsInit ==
  /\ source = "a"
  /\ imported = [i \in Inputs |-> Absent]
  /\ manifest = [i \in Inputs |-> NoManifest]
  /\ registering = [t \in Tabs |-> Nothing]
  /\ submitting = Nothing
  /\ snapshot = NoRunYet
  /\ executing = Nothing
  /\ accepted = {}
  /\ edits = 0

Used == {i \in Inputs : imported[i] # Absent \/ manifest[i] # NoManifest}
          \cup {registering[t].id : t \in {u \in Tabs : registering[u].pc \notin {"idle", "read"}}}
NewId(i) == i \notin Used /\ \A j \in Inputs \ Used : i <= j

Valid(content) == content \notin {"bad", "big"}

-----------------------------------------------------------------------------
(* Registration *)

\* An import is written on the event loop, before any other is.
Importing(t) == registering[t].pc = "content" \/ (registering[t].pc = "manifest" /\ registering[t].mode = "imported")

\* An upload, or what a CSV file is normalised to, which may be too big although the file was
\* not: it is validated before anything is written.
Upload(t) ==
  /\ Authenticated(t) /\ registering[t] = Nothing
  /\ \A u \in Tabs : ~Importing(u)
  /\ \E i \in Inputs, kind \in Kinds, content \in Contents :
       /\ NewId(i) /\ Valid(content)
       /\ registering' = [registering EXCEPT ![t] =
            [pc |-> "content", id |-> i, kind |-> kind, content |-> content]]
  /\ UNCHANGED <<source, imported, manifest, submitting, snapshot, executing, accepted, edits>>

SaveContent(t) ==
  /\ registering[t].pc = "content"
  /\ imported' = [imported EXCEPT ![registering[t].id] = registering[t].content]
  /\ registering' = [registering EXCEPT ![t] =
       [pc |-> "manifest", mode |-> "imported", id |-> registering[t].id,
        kind |-> registering[t].kind, content |-> registering[t].content]]
  /\ UNCHANGED <<source, manifest, submitting, snapshot, executing, accepted, edits>>

\* A referenced file is looked at, then read, at most up to one byte too many; what counts is
\* what was read.
Refer(t) ==
  /\ Authenticated(t) /\ registering[t] = Nothing
  /\ source # "big"
  /\ \E kind \in Kinds : registering' = [registering EXCEPT ![t] = [pc |-> "read", kind |-> kind]]
  /\ UNCHANGED <<source, imported, manifest, submitting, snapshot, executing, accepted, edits>>

ReadSource(t) ==
  /\ registering[t].pc = "read"
  /\ IF Valid(source)
       THEN \E i \in Inputs :
              /\ NewId(i)
              /\ registering' = [registering EXCEPT ![t] =
                   [pc |-> "manifest", mode |-> "referenced", id |-> i, kind |-> registering[t].kind,
                    content |-> source]]
       ELSE registering' = [registering EXCEPT ![t] = Nothing]
  /\ UNCHANGED <<source, imported, manifest, submitting, snapshot, executing, accepted, edits>>

SaveManifest(t) ==
  /\ registering[t].pc = "manifest"
  /\ manifest' = [manifest EXCEPT ![registering[t].id] =
       [mode |-> registering[t].mode, kind |-> registering[t].kind, sha |-> registering[t].content]]
  /\ accepted' = accepted \cup {registering[t].id}
  /\ registering' = [registering EXCEPT ![t] = Nothing]
  /\ UNCHANGED <<source, imported, submitting, snapshot, executing, edits>>

\* The manifest cannot be written, or it is and something fails after that: the content of an
\* import is taken away in both cases, and the client is told of an error.
ManifestFails(t) ==
  /\ registering[t].pc = "manifest"
  /\ \E late \in BOOLEAN :
       manifest' = IF late THEN [manifest EXCEPT ![registering[t].id] =
                          [mode |-> registering[t].mode, kind |-> registering[t].kind,
                           sha |-> registering[t].content]]
                   ELSE manifest
  /\ imported' = IF registering[t].mode = "imported"
                   THEN [imported EXCEPT ![registering[t].id] = Absent] ELSE imported
  /\ registering' = [registering EXCEPT ![t] = Nothing]
  /\ UNCHANGED <<source, submitting, snapshot, executing, accepted, edits>>

\* The owner's file is written by anything but the workspace.
EditSource ==
  /\ edits < MaxEdits
  /\ source' \in Contents \ {source}
  /\ edits' = edits + 1
  /\ UNCHANGED <<imported, manifest, registering, submitting, snapshot, executing, accepted>>

-----------------------------------------------------------------------------
(* Reading: read_input_bytes *)

Content(i) == IF manifest[i].mode = "imported" THEN imported[i] ELSE source

SlipReadable(i) == manifest[i].mode # Absent /\ Content(i) \notin {Absent, "big"}   \* no checksum
Readable(i) ==
  /\ manifest[i].mode # Absent
  /\ Content(i) \notin {Absent, "big"}
  /\ Content(i) = manifest[i].sha

\* create_retrieval_run reads both inputs with their kinds, reads both again, and saves the run.
Submit ==
  /\ submitting = Nothing /\ ~snapshot.saved
  /\ \E t \in Tabs : Authenticated(t)
  /\ \E truth, predictions \in {i \in Inputs : manifest[i] # NoManifest} :
       submitting' = [pc |-> "checking", truth |-> truth, predictions |-> predictions, done |-> 0]
  /\ UNCHANGED <<source, imported, manifest, registering, snapshot, executing, accepted, edits>>

SlipOfKind(i, kind) == TRUE         \* any input will do
OfKind(i, kind) == manifest[i].kind = kind

Check ==
  /\ submitting.pc = "checking" /\ submitting.done < 4
  /\ LET kind == IF submitting.done \in {0, 2} THEN "truth" ELSE "predictions"
         i    == IF submitting.done \in {0, 2} THEN submitting.truth ELSE submitting.predictions
     IN  submitting' = IF Readable(i) /\ OfKind(i, kind)
                         THEN [submitting EXCEPT !.done = @ + 1] ELSE Nothing
  /\ UNCHANGED <<source, imported, manifest, registering, snapshot, executing, accepted, edits>>

SaveSnapshot ==
  /\ submitting.pc = "checking" /\ submitting.done = 4
  /\ snapshot' = [saved |-> TRUE, truth |-> submitting.truth, predictions |-> submitting.predictions,
                  truthSha |-> manifest[submitting.truth].sha,
                  predictionsSha |-> manifest[submitting.predictions].sha]
  /\ submitting' = Nothing
  /\ UNCHANGED <<source, imported, manifest, registering, executing, accepted, edits>>

\* execute_job reads the one input, then the other; any of them may fail the job.
Execute ==
  /\ snapshot.saved /\ executing = Nothing
  /\ executing' = IF Readable(snapshot.truth)
                    THEN [pc |-> "truth", truth |-> Content(snapshot.truth)] ELSE [pc |-> "failed"]
  /\ UNCHANGED <<source, imported, manifest, registering, submitting, snapshot, accepted, edits>>

Evaluate ==
  /\ executing.pc = "truth"
  /\ executing' = IF Readable(snapshot.predictions)
                    THEN [pc |-> "evaluated", truth |-> executing.truth,
                          predictions |-> Content(snapshot.predictions)]
                    ELSE [pc |-> "failed"]
  /\ UNCHANGED <<source, imported, manifest, registering, submitting, snapshot, accepted, edits>>

\* The process dies: what was written stays; a later job of the run begins from nothing.
InputsDie ==
  /\ NextStart
  /\ registering' = [t \in Tabs |-> Nothing]
  /\ submitting' = Nothing
  /\ executing' = IF executing.pc = "truth" THEN Nothing ELSE executing
  /\ UNCHANGED <<source, imported, manifest, snapshot, accepted, edits>>

Retry ==
  /\ executing.pc = "failed"
  /\ executing' = Nothing
  /\ UNCHANGED <<source, imported, manifest, registering, submitting, snapshot, accepted, edits>>

UseInputs ==
  /\ \/ \E t \in Tabs : Upload(t) \/ SaveContent(t) \/ Refer(t) \/ ReadSource(t)
                          \/ SaveManifest(t) \/ ManifestFails(t)
     \/ EditSource
     \/ Submit \/ Check \/ SaveSnapshot
     \/ Execute \/ Evaluate \/ Retry
  /\ UNCHANGED sessionVars

-----------------------------------------------------------------------------
\* What a run evaluates is valid, of the right kinds, and what its snapshot has the checksums of,
\* whatever became of the owner's file; an import that a client was told of keeps its content,
\* and one whose content is gone was never told of.
InputsKeepTheirContent ==
  /\ executing.pc = "evaluated" =>
       /\ executing.truth = snapshot.truthSha /\ executing.predictions = snapshot.predictionsSha
       /\ Valid(executing.truth) /\ Valid(executing.predictions)
       /\ manifest[snapshot.truth].kind = "truth"
       /\ manifest[snapshot.predictions].kind = "predictions"
  /\ \A i \in accepted : manifest[i].mode = "imported" => imported[i] = manifest[i].sha
  /\ \A i \in Inputs : manifest[i].mode = "imported" /\ imported[i] = Absent => i \notin accepted
=============================================================================
