---------------------------- MODULE ExportService ----------------------------
(***************************************************************************)
(* The two requests of workspace/application/exports.py.  A preview reads  *)
(* its source without the service's lock and puts what would be written    *)
(* into _prepared for Lifetime; confirm takes the lock, makes a second     *)
(* preview of the same source, compares the two, writes the destination    *)
(* and then the manifest.                                                  *)
(*                                                                         *)
(* What a source turns into is a function of the results it is made of, so *)
(* the files of a preview are the versions of these results.               *)
(***************************************************************************)
EXTENDS EvidenceStore

Record(i) == comparisons[i].record

\* What a preview is made of at all: a run, or a readable canonical comparison.
Offered(s) ==
  \/ s[1] = "run"
  \/ s[1] = "comparison" /\ Readable(s[2])
     /\ Record(s[2]).mode = "CANONICAL" /\ Record(s[2]).comparable

Operands(s) ==
  IF s[1] = "run" THEN <<s[2]>> ELSE <<Record(s[2]).base, Record(s[2]).candidate>>

Sources == {RunSource(r) : r \in Runs} \cup {ComparisonSource(i) : i \in DOMAIN comparisons}

SlipUnexpired(now) == live
\* _purge_expired.
Unexpired(now) == {p \in live : previews[p].expires > now}

-----------------------------------------------------------------------------
(* Preview.  now is read before the source is, and used after.             *)

PreviewTask(s) == [kind |-> "preview", source |-> s, now |-> clock]

Previewing == {c \in Clients : Serves(c, "preview")}

PreviewBegin(c, s) ==
  /\ At(c, "idle") /\ Offered(s)
  /\ Len(previews) + Cardinality(Previewing) < MaxPreviews
  /\ cl' = [cl EXCEPT ![c] = Reading(PreviewTask(s), Operands(s))]
  /\ UNCHANGED <<inputs, files, memory, clock>>

SlipStillTrue(s, read) == TRUE
\* The operands of a comparison are those it was made of, their inputs still
\* verify and are comparable, and the stored report is the report of the two.
StillTrue(s, read) ==
  \/ s[1] = "run"
  \/ s[1] = "comparison" /\
     LET rec == Record(s[2])
     IN  /\ read = <<rec.baseSha, rec.candidateSha>> /\ rec.base # rec.candidate
         /\ {rec.base, rec.candidate} \cap drifted = {}
         /\ Comparable(rec.base, rec.candidate)
         /\ read = rec.report

CheckSource(c) ==
  /\ HasRead(c) /\ cl[c].task.kind \in {"preview", "confirm"}
  /\ \/ StillTrue(cl[c].task.source, cl[c].read) /\ Step(c, "put")
     \/ ~StillTrue(cl[c].task.source, cl[c].read) /\ Return(c)
  /\ UNCHANGED <<inputs, files, memory, clock>>

SlipPreviewId == Len(previews)          \* an earlier one is named
PreviewId == Len(previews) + 1

StorePreview(c) ==
  /\ At(c, "put") /\ Serves(c, "preview") /\ ExportLockFree
  /\ previews' = Append(previews, [source |-> cl[c].task.source, files |-> cl[c].read,
                                   expires |-> cl[c].task.now + Lifetime])
  /\ live' = Unexpired(cl[c].task.now) \cup {PreviewId}
  /\ Return(c)
  /\ UNCHANGED <<inputs, files, clock>>

-----------------------------------------------------------------------------
(* Confirm.                                                                *)

ConfirmTask(p) ==
  [kind |-> "confirm", source |-> previews[p].source, now |-> clock,
   preview |-> p, began |-> changes]

ConfirmBegin(c, p) ==
  /\ At(c, "idle") /\ ExportLockFree
  /\ live' = Unexpired(clock)
  /\ \/ /\ p \in live' /\ Offered(previews[p].source)
        /\ cl' = [cl EXCEPT ![c] = Reading(ConfirmTask(p), Operands(previews[p].source))]
     \/ /\ ~(p \in live' /\ Offered(previews[p].source))
        /\ UNCHANGED cl
  /\ UNCHANGED <<inputs, files, previews, clock>>

Committing(task, read, d) ==
  [pc |-> "commit", task |-> task, read |-> read, directory |-> d]

SlipUnchanged(c) == TRUE
\* fresh.files = prepared.files
Unchanged(c) == cl[c].read = previews[cl[c].task.preview].files

\* The public adapters refuse what is not fit to be published.  They look at the
\* content only: what they accepted once they accept again.
PolicyRejects(c) ==
  /\ At(c, "put")
  /\ Serves(c, "confirm") => ~Unchanged(c)
  /\ Return(c)
  /\ UNCHANGED <<inputs, files, memory, clock>>

\* The fresh preview, with a clock reading of its own, is put and popped under the
\* lock; its put purges.  The directory of the request is looked at only here: the
\* target must not exist in it, and the output is staged beside the target.  A
\* source that has changed is refused, and so is a directory that cannot be used.
Recheck(c) ==
  /\ At(c, "put") /\ Serves(c, "confirm")
  /\ \E now \in cl[c].task.now..clock : live' = Unexpired(now)
  /\ \/ /\ Unchanged(c)
        /\ \E d \in Directories :
             /\ ~Taken(d, cl[c].task.source)
             /\ cl' = [cl EXCEPT ![c] = Committing(cl[c].task, cl[c].read, d)]
     \/ Return(c)
  /\ UNCHANGED <<inputs, files, previews, clock>>

Target(c) ==
  [directory |-> cl[c].directory, source |-> cl[c].task.source,
   files |-> previews[cl[c].task.preview].files]

SlipLinks(c) == TRUE                    \* what appeared since is replaced
\* os.link, or a rename that does not replace.
Links(c) == ~Taken(cl[c].directory, cl[c].task.source)

\* What was staged appears there whole, unless something else has.
Commit(c) ==
  /\ At(c, "commit")
  /\ \/ /\ Links(c)
        /\ exported' = {e \in exported : \/ e.directory # cl[c].directory
                                        \/ e.source # cl[c].task.source}
                         \cup {Target(c)}
        /\ Step(c, "manifest")
     \/ /\ ~Links(c)
        /\ Return(c) /\ UNCHANGED exported
  /\ UNCHANGED <<inputs, baseline, comparisons, manifests, memory, clock>>

Manifest(c) ==
  LET task == cl[c].task
  IN  [preview |-> task.preview, source |-> task.source, directory |-> cl[c].directory,
       files |-> previews[task.preview].files, created |-> task.now]

SlipUsedUp(p) == {}
UsedUp(p) == {p}

\* save_export_manifest; the preview is used up.  When it raises instead, the
\* destination is kept and the preview stays (StoreRaises).
SaveManifest(c) ==
  /\ At(c, "manifest")
  /\ manifests' = manifests \cup {Manifest(c)}
  /\ live' = live \ UsedUp(cl[c].task.preview)
  /\ Return(c)
  /\ UNCHANGED <<inputs, baseline, comparisons, exported, previews, clock>>

ExportStep(c) ==
  \/ \E s \in Sources : PreviewBegin(c, s)
  \/ \E p \in DOMAIN previews : ConfirmBegin(c, p)
  \/ CheckSource(c) \/ StorePreview(c) \/ PolicyRejects(c) \/ Recheck(c)
  \/ Commit(c) \/ SaveManifest(c)
=============================================================================
