------------------------------ MODULE HomeProofs ------------------------------
(***************************************************************************)
(* What holds of the home for any tabs, inputs, starts and edits: a start  *)
(* lets one owner in, and a run evaluates what its snapshot has the        *)
(* checksums of.                                                           *)
(***************************************************************************)
EXTENDS Home, FiniteSetTheorems, TLAPS

-----------------------------------------------------------------------------
(* The invariant *)

\* A link that is still good was not used, so that its process has no session yet.
SessionsKnow ==
  /\ start \in Nat \ {0}
  /\ nonce \in {start, Secret}
  /\ nonce = start => sessions = {}
  /\ sessions = {} \/ \E b \in Browsers : sessions = {<<start, b>>}

Manifests == [mode : {"imported", "referenced"}, kind : Kinds, sha : Contents]

Registrations ==
  {Nothing} \cup [pc : {"read"}, kind : Kinds]
    \cup [pc : {"content"}, id : Inputs, kind : Kinds, content : Contents]
    \cup [pc : {"manifest"}, mode : {"imported", "referenced"}, id : Inputs, kind : Kinds,
          content : Contents]

Submissions == {Nothing} \cup [pc : {"checking"}, truth : Inputs, predictions : Inputs, done : 0..4]

InputTypes ==
  /\ source \in Contents
  /\ imported \in [Inputs -> {Absent} \cup Contents]
  /\ manifest \in [Inputs -> {NoManifest} \cup Manifests]
  /\ registering \in [Tabs -> Registrations]
  /\ submitting \in Submissions
  /\ accepted \in SUBSET Inputs


Listed(i) == manifest[i] # NoManifest

\* A request that has taken an identifier has it alone, and holds valid content.
Claims(t) == registering[t].pc \in {"content", "manifest"}
ClaimsKnow ==
  \A t \in Tabs : Claims(t) =>
    /\ ~Listed(registering[t].id)
    /\ Valid(registering[t].content)
    /\ registering[t].pc = "manifest" /\ registering[t].mode = "imported" =>
         imported[registering[t].id] = registering[t].content
    /\ \A u \in Tabs \ {t} : Claims(u) => registering[u].id # registering[t].id

ManifestsAreValid == \A i \in Inputs : Listed(i) => Valid(manifest[i].sha)

AcceptedAreKept ==
  \A i \in accepted : Listed(i) /\ (manifest[i].mode = "imported" => imported[i] = manifest[i].sha)

\* A submission has found the kinds of the inputs that it has checked.
SubmissionKnows ==
  submitting.pc = "checking" =>
    /\ ~snapshot.saved
    /\ Listed(submitting.truth) /\ Listed(submitting.predictions)
    /\ submitting.done >= 1 => manifest[submitting.truth].kind = "truth"
    /\ submitting.done >= 2 => manifest[submitting.predictions].kind = "predictions"

SnapshotKnows ==
  snapshot.saved =>
    /\ snapshot.truth \in Inputs /\ snapshot.predictions \in Inputs
    /\ Listed(snapshot.truth) /\ Listed(snapshot.predictions)
    /\ manifest[snapshot.truth].kind = "truth"
    /\ manifest[snapshot.predictions].kind = "predictions"
    /\ snapshot.truthSha = manifest[snapshot.truth].sha
    /\ snapshot.predictionsSha = manifest[snapshot.predictions].sha

ExecutionKnows ==
  /\ executing.pc \in {"truth", "evaluated"} => snapshot.saved /\ executing.truth = snapshot.truthSha
  /\ executing.pc = "evaluated" => executing.predictions = snapshot.predictionsSha

InputInvariant ==
  /\ InputTypes
  /\ ClaimsKnow
  /\ ManifestsAreValid
  /\ AcceptedAreKept
  /\ SubmissionKnows
  /\ SnapshotKnows
  /\ ExecutionKnows


-----------------------------------------------------------------------------
(* Sessions *)

LEMMA InitSessions == Init => SessionsKnow
BY DEF Init, SessionsInit, SessionsKnow

LEMMA OpenLinkStep ==
  ASSUME SessionsKnow, NEW t \in Tabs, NEW link \in 1..start, OpenLink(t, link)
  PROVE  SessionsKnow'
<1>1. /\ link = nonce /\ sessions' = sessions \cup {<<start, browser[t]>>} /\ nonce' = Secret
      /\ UNCHANGED <<browser, start>>
  BY DEF OpenLink, Rotated
<1>2. start \in Nat \ {0} /\ nonce = start
  BY <1>1 DEF SessionsKnow, Secret
<1>3. sessions' = {<<start, browser[t]>>}
  BY <1>1, <1>2 DEF SessionsKnow
<1>4. browser[t] \in Browsers'
  BY <1>1 DEF Browsers
<1> QED
  BY <1>1, <1>2, <1>3, <1>4 DEF SessionsKnow, Secret

LEMMA NextStartStep ==
  ASSUME SessionsKnow, NextStart
  PROVE  SessionsKnow'
BY DEF SessionsKnow, NextStart

LEMMA SessionsKept ==
  ASSUME SessionsKnow, [Next]_vars
  PROVE  SessionsKnow'
<1>1. CASE UNCHANGED sessionVars
  BY <1>1 DEF sessionVars, SessionsKnow, Browsers
<1>2. CASE SignIn
  BY <1>2, OpenLinkStep DEF SignIn
<1>3. CASE Overview
  <2>1. UNCHANGED sessionVars
    BY <1>3 DEF Overview, ManageWorkspaces, OpenPage, ServeList, ListArrives, BeginCreate,
         WriteRecord, WriteRegistry, WriteFails, CreateArrives, Rename
  <2> QED
    BY <1>1, <2>1
<1>4. CASE UseOfInputs \/ Progress
  BY <1>1, <1>4 DEF UseOfInputs, UseInputs, Progress, WatchJob
<1>5. CASE Dies
  BY <1>5, NextStartStep DEF Dies, RegistryDies, InputsDie, PageDies
<1>6. CASE UNCHANGED vars
  BY <1>1, <1>6 DEF vars
<1> QED
  BY <1>2, <1>3, <1>4, <1>5, <1>6 DEF Next

\* However often the process starts and links are opened, one browser at most is let in, and none
\* by a session of an earlier process (security.py: OwnerSessions; api/app.py: bootstrap).
THEOREM OwnerTheorem == Spec => []OneOwner
<1>1. SessionsKnow => OneOwner
  <2> SUFFICES ASSUME SessionsKnow PROVE OneOwner
    OBVIOUS
  <2>1. CASE sessions = {}
    <3>1. Cardinality(sessions) = 0
      BY <2>1, FS_EmptySet
    <3> QED
      BY <2>1, <3>1 DEF OneOwner
  <2>2. CASE \E b \in Browsers : sessions = {<<start, b>>}
    <3>1. PICK b \in Browsers : sessions = {<<start, b>>}
      BY <2>2
    <3>2. Cardinality(sessions) = 1
      BY <3>1, FS_Singleton
    <3> QED
      BY <3>1, <3>2 DEF OneOwner
  <2> QED
    BY <2>1, <2>2 DEF SessionsKnow
<1> QED
  BY InitSessions, SessionsKept, <1>1, PTL DEF Spec

-----------------------------------------------------------------------------
(* Inputs: the records that the requests are made of *)

LEMMA InitInputs == Init => InputInvariant
<1> SUFFICES ASSUME Init PROVE InputInvariant
  OBVIOUS
<1>1. InputsInit
  BY DEF Init
<1>2. InputTypes
  BY <1>1 DEF InputsInit, InputTypes, Contents, Registrations, Submissions
<1>3. ClaimsKnow
  BY <1>1 DEF InputsInit, ClaimsKnow, Claims, Nothing
<1>4. ManifestsAreValid /\ AcceptedAreKept
  BY <1>1 DEF InputsInit, ManifestsAreValid, AcceptedAreKept, Listed
<1>5. SubmissionKnows /\ SnapshotKnows /\ ExecutionKnows
  BY <1>1 DEF InputsInit, SubmissionKnows, SnapshotKnows, ExecutionKnows, Nothing, NoRunYet
<1> QED
  BY <1>2, <1>3, <1>4, <1>5 DEF InputInvariant

LEMMA RegistrationIsTyped ==
  ASSUME InputTypes, NEW t \in Tabs
  PROVE  /\ registering[t].pc = "read" => registering[t].kind \in Kinds
         /\ registering[t].pc = "content" =>
              /\ registering[t].id \in Inputs /\ registering[t].kind \in Kinds
              /\ registering[t].content \in Contents
         /\ registering[t].pc = "manifest" =>
              /\ registering[t].mode \in {"imported", "referenced"} /\ registering[t].id \in Inputs
              /\ registering[t].kind \in Kinds /\ registering[t].content \in Contents
BY DEF InputTypes, Registrations, Nothing

\* Manifests that are there stay as they are, and what was found out about them holds on.
ManifestsStay ==
  /\ manifest' \in [Inputs -> {NoManifest} \cup Manifests]
  /\ \A i \in Inputs : Listed(i) => manifest'[i] = manifest[i]

LEMMA KnowledgeStays ==
  ASSUME InputInvariant, ManifestsStay, UNCHANGED <<submitting, snapshot, executing>>
  PROVE  SubmissionKnows' /\ SnapshotKnows' /\ ExecutionKnows'
<1>1. SubmissionKnows'
  <2> SUFFICES ASSUME submitting.pc = "checking" PROVE SubmissionKnows'
    BY DEF SubmissionKnows
  <2>1. submitting.truth \in Inputs /\ submitting.predictions \in Inputs
    BY DEF InputInvariant, InputTypes, Submissions, Nothing
  <2> QED
    BY <2>1 DEF InputInvariant, SubmissionKnows, ManifestsStay, Listed
<1>2. SnapshotKnows'
  BY DEF InputInvariant, SnapshotKnows, ManifestsStay, Listed
<1>3. ExecutionKnows'
  BY DEF InputInvariant, ExecutionKnows
<1> QED
  BY <1>1, <1>2, <1>3

\* A request that takes an identifier which is not in use has it alone.
LEMMA ClaimStep ==
  ASSUME InputInvariant, NEW t \in Tabs, NEW request \in Registrations, ~Claims(t),
         registering' = [registering EXCEPT ![t] = request],
         request.pc \in {"content", "manifest"} =>
           /\ NewId(request.id) /\ request.id \in Inputs /\ Valid(request.content)
           /\ request.pc = "manifest" => request.mode # "imported",
         UNCHANGED <<source, imported, manifest, submitting, snapshot, executing, accepted>>
  PROVE  InputInvariant'
<1>1. registering \in [Tabs -> Registrations]
  BY DEF InputInvariant, InputTypes
<1>2. registering' \in [Tabs -> Registrations] /\ registering'[t] = request
      /\ \A u \in Tabs \ {t} : registering'[u] = registering[u]
  BY <1>1
<1>3. InputTypes'
  BY <1>2 DEF InputInvariant, InputTypes
<1>4. ClaimsKnow'
  <2> SUFFICES ASSUME NEW u \in Tabs, registering'[u].pc \in {"content", "manifest"}
               PROVE  /\ ~Listed(registering'[u].id)
                      /\ Valid(registering'[u].content)
                      /\ registering'[u].pc = "manifest" /\ registering'[u].mode = "imported" =>
                           imported[registering'[u].id] = registering'[u].content
                      /\ \A v \in Tabs \ {u} : registering'[v].pc \in {"content", "manifest"} =>
                           registering'[v].id # registering'[u].id
    BY DEF ClaimsKnow, Claims, Listed
  <2>1. \A i \in Inputs : NewId(i) =>
          ~Listed(i) /\ \A v \in Tabs : Claims(v) => registering[v].id # i
    BY DEF NewId, Used, Listed, Claims
  <2>2. CASE u = t
    <3>1. /\ request.id \in Inputs /\ NewId(request.id) /\ Valid(request.content)
          /\ request.pc = "manifest" => request.mode # "imported"
      BY <1>2, <2>2
    <3> QED
      BY <1>2, <2>1, <2>2, <3>1 DEF Claims
  <2>3. CASE u # t
    <3>1. registering'[u] = registering[u] /\ Claims(u)
      BY <1>2, <2>3 DEF Claims
    <3>2. \A v \in Tabs \ {u, t} : Claims(v) => registering[v].id # registering[u].id
      BY <3>1 DEF InputInvariant, ClaimsKnow
    <3>3. request.pc \in {"content", "manifest"} => request.id # registering[u].id
      BY <2>1, <3>1
    <3> QED
      BY <1>2, <3>1, <3>2, <3>3 DEF InputInvariant, ClaimsKnow, Claims
  <2> QED
    BY <2>2, <2>3
<1>5. ManifestsAreValid' /\ AcceptedAreKept'
  BY DEF InputInvariant, ManifestsAreValid, AcceptedAreKept, Listed
<1>6. ManifestsStay
  BY DEF InputInvariant, InputTypes, ManifestsStay
<1> QED
  BY <1>3, <1>4, <1>5, <1>6, KnowledgeStays DEF InputInvariant

LEMMA UploadStep ==
  ASSUME InputInvariant, NEW t \in Tabs, Upload(t)
  PROVE  InputInvariant'
<1>1. PICK i \in Inputs, kind \in Kinds, content \in Contents :
        /\ NewId(i) /\ Valid(content)
        /\ registering' = [registering EXCEPT ![t] =
             [pc |-> "content", id |-> i, kind |-> kind, content |-> content]]
  BY DEF Upload
<1> DEFINE request == [pc |-> "content", id |-> i, kind |-> kind, content |-> content]
<1>2. request \in Registrations /\ request.pc = "content" /\ request.id = i
      /\ request.content = content
  BY DEF Registrations
<1>3. ~Claims(t)
  BY DEF Upload, Claims, Nothing
<1>4. UNCHANGED <<source, imported, manifest, submitting, snapshot, executing, accepted>>
  BY DEF Upload
<1> HIDE DEF request
<1> QED
  BY <1>1, <1>2, <1>3, <1>4, ClaimStep DEF request

LEMMA ReferStep ==
  ASSUME InputInvariant, NEW t \in Tabs, Refer(t)
  PROVE  InputInvariant'
<1>1. PICK kind \in Kinds : registering' = [registering EXCEPT ![t] = [pc |-> "read", kind |-> kind]]
  BY DEF Refer
<1>2. [pc |-> "read", kind |-> kind] \in Registrations
  BY DEF Registrations
<1>3. ~Claims(t)
  BY DEF Refer, Claims, Nothing
<1>4. UNCHANGED <<source, imported, manifest, submitting, snapshot, executing, accepted>>
  BY DEF Refer
<1> QED
  BY <1>1, <1>2, <1>3, <1>4, ClaimStep

LEMMA ReadSourceStep ==
  ASSUME InputInvariant, NEW t \in Tabs, ReadSource(t)
  PROVE  InputInvariant'
<1>1. registering[t].pc = "read" /\ registering[t].kind \in Kinds /\ source \in Contents
      /\ UNCHANGED <<source, imported, manifest, submitting, snapshot, executing, accepted>>
  BY RegistrationIsTyped DEF ReadSource, InputInvariant, InputTypes
<1>2. ~Claims(t)
  BY <1>1 DEF Claims
<1>3. CASE Valid(source)
  <2>1. PICK i \in Inputs :
          /\ NewId(i)
          /\ registering' = [registering EXCEPT ![t] =
               [pc |-> "manifest", mode |-> "referenced", id |-> i, kind |-> registering[t].kind,
                content |-> source]]
    BY <1>3 DEF ReadSource
  <2> DEFINE request == [pc |-> "manifest", mode |-> "referenced", id |-> i,
                         kind |-> registering[t].kind, content |-> source]
  <2>2. request \in Registrations /\ request.mode = "referenced" /\ request.id = i
        /\ request.content = source
    BY <1>1 DEF Registrations
  <2> HIDE DEF request
  <2> QED
    BY <1>1, <1>2, <1>3, <2>1, <2>2, ClaimStep DEF request
<1>4. CASE ~Valid(source)
  <2>1. registering' = [registering EXCEPT ![t] = Nothing]
    BY <1>4 DEF ReadSource
  <2>2. Nothing \in Registrations /\ Nothing.pc = "idle"
    BY DEF Registrations, Nothing
  <2> QED
    BY <1>1, <1>2, <2>1, <2>2, ClaimStep
<1> QED
  BY <1>3, <1>4

LEMMA SaveContentStep ==
  ASSUME InputInvariant, NEW t \in Tabs, SaveContent(t)
  PROVE  InputInvariant'
<1> DEFINE r == registering[t]
           request == [pc |-> "manifest", mode |-> "imported", id |-> r.id, kind |-> r.kind,
                       content |-> r.content]
<1>1. /\ r.pc = "content" /\ imported' = [imported EXCEPT ![r.id] = r.content]
      /\ registering' = [registering EXCEPT ![t] = request]
      /\ UNCHANGED <<source, manifest, submitting, snapshot, executing, accepted>>
  BY DEF SaveContent
<1>2. r.id \in Inputs /\ r.kind \in Kinds /\ r.content \in Contents
  BY <1>1, RegistrationIsTyped DEF InputInvariant
<1>3. request \in Registrations /\ request.pc = "manifest" /\ request.id = r.id
      /\ request.content = r.content /\ request.mode = "imported"
  BY <1>2 DEF Registrations
<1>4. Claims(t) /\ ~Listed(r.id) /\ Valid(r.content)
      /\ \A u \in Tabs \ {t} : Claims(u) => registering[u].id # r.id
  BY <1>1 DEF InputInvariant, ClaimsKnow, Claims
<1> HIDE DEF request
<1>5. registering \in [Tabs -> Registrations] /\ registering' \in [Tabs -> Registrations]
      /\ registering'[t] = request /\ \A u \in Tabs \ {t} : registering'[u] = registering[u]
  BY <1>1, <1>3 DEF InputInvariant, InputTypes
<1>6. imported' \in [Inputs -> {Absent} \cup Contents] /\ imported'[r.id] = r.content
      /\ \A i \in Inputs \ {r.id} : imported'[i] = imported[i]
  BY <1>1, <1>2 DEF InputInvariant, InputTypes
<1>7. InputTypes'
  BY <1>1, <1>5, <1>6 DEF InputInvariant, InputTypes
<1>8. ClaimsKnow'
  <2> SUFFICES ASSUME NEW u \in Tabs, registering'[u].pc \in {"content", "manifest"}
               PROVE  /\ ~Listed(registering'[u].id)
                      /\ Valid(registering'[u].content)
                      /\ registering'[u].pc = "manifest" /\ registering'[u].mode = "imported" =>
                           imported'[registering'[u].id] = registering'[u].content
                      /\ \A v \in Tabs \ {u} : registering'[v].pc \in {"content", "manifest"} =>
                           registering'[v].id # registering'[u].id
    BY <1>1 DEF ClaimsKnow, Claims, Listed
  <2>1. CASE u = t
    BY <1>3, <1>4, <1>5, <1>6, <2>1 DEF Claims
  <2>2. CASE u # t
    <3>1. registering'[u] = registering[u] /\ Claims(u) /\ registering[u].id # r.id
      BY <1>4, <1>5, <2>2 DEF Claims
    <3>2. registering[u].id \in Inputs
      BY <3>1, RegistrationIsTyped DEF Claims, InputInvariant
    <3>3. imported'[registering[u].id] = imported[registering[u].id]
      BY <1>6, <3>1, <3>2
    <3> QED
      BY <1>3, <1>5, <3>1, <3>3 DEF InputInvariant, ClaimsKnow, Claims
  <2> QED
    BY <2>1, <2>2
<1>9. AcceptedAreKept'
  <2> SUFFICES ASSUME NEW i \in accepted
               PROVE  Listed(i) /\ (manifest[i].mode = "imported" => imported'[i] = manifest[i].sha)
    BY <1>1 DEF AcceptedAreKept, Listed
  <2>1. Listed(i) /\ i \in Inputs
    BY DEF InputInvariant, AcceptedAreKept, InputTypes
  <2> QED
    BY <1>4, <1>6, <2>1 DEF InputInvariant, AcceptedAreKept
<1>10. ManifestsAreValid'
  BY <1>1 DEF InputInvariant, ManifestsAreValid, Listed
<1>11. ManifestsStay
  BY <1>1 DEF InputInvariant, InputTypes, ManifestsStay
<1> QED
  BY <1>1, <1>7, <1>8, <1>9, <1>10, <1>11, KnowledgeStays DEF InputInvariant

\* A registration that ends, with or without its manifest, with or without its content.
LEMMA RegistrationEnds ==
  ASSUME InputInvariant, NEW t \in Tabs, registering[t].pc = "manifest",
         NEW id, id = registering[t].id,
         registering' = [registering EXCEPT ![t] = Nothing],
         \/ manifest' = manifest
         \/ manifest' = [manifest EXCEPT ![id] =
              [mode |-> registering[t].mode, kind |-> registering[t].kind,
               sha |-> registering[t].content]],
         imported' = imported \/ imported' = [imported EXCEPT ![id] = Absent],
         accepted' = accepted
           \/ /\ accepted' = accepted \cup {id}
              /\ manifest' # manifest
              /\ imported' = imported,
         UNCHANGED <<source, submitting, snapshot, executing>>
  PROVE  InputInvariant'
<1> DEFINE entry == [mode |-> registering[t].mode, kind |-> registering[t].kind,
                     sha |-> registering[t].content]
<1>1. /\ id \in Inputs /\ ~Listed(id) /\ Valid(registering[t].content)
      /\ registering[t].mode \in {"imported", "referenced"} /\ registering[t].kind \in Kinds
      /\ registering[t].content \in Contents /\ Claims(t)
      /\ registering[t].mode = "imported" => imported[id] = registering[t].content
      /\ \A u \in Tabs \ {t} : Claims(u) => registering[u].id # id
  BY RegistrationIsTyped DEF InputInvariant, ClaimsKnow, Claims
<1>2. /\ entry \in Manifests /\ Valid(entry.sha) /\ entry # NoManifest
      /\ entry.mode = "imported" => imported[id] = entry.sha
  BY <1>1 DEF Manifests, NoManifest, Absent
<1> HIDE DEF entry
<1>3. manifest \in [Inputs -> {NoManifest} \cup Manifests]
  BY DEF InputInvariant, InputTypes
<1>4. /\ manifest' \in [Inputs -> {NoManifest} \cup Manifests]
      /\ \A i \in Inputs \ {id} : manifest'[i] = manifest[i]
      /\ manifest'[id] = manifest[id] \/ manifest'[id] = entry
      /\ manifest' # manifest => manifest'[id] = entry
  BY <1>1, <1>2, <1>3 DEF entry
<1>5. /\ imported' \in [Inputs -> {Absent} \cup Contents]
      /\ \A i \in Inputs \ {id} : imported'[i] = imported[i]
  BY <1>1 DEF InputInvariant, InputTypes
<1>6. /\ registering \in [Tabs -> Registrations] /\ registering' \in [Tabs -> Registrations]
      /\ registering'[t] = Nothing /\ \A u \in Tabs \ {t} : registering'[u] = registering[u]
  BY DEF InputInvariant, InputTypes, Registrations
<1>7. InputTypes'
  BY <1>1, <1>4, <1>5, <1>6 DEF InputInvariant, InputTypes
<1>8. ClaimsKnow'
  <2> SUFFICES ASSUME NEW u \in Tabs, registering'[u].pc \in {"content", "manifest"}
               PROVE  /\ manifest'[registering'[u].id] = NoManifest
                      /\ Valid(registering'[u].content)
                      /\ registering'[u].pc = "manifest" /\ registering'[u].mode = "imported" =>
                           imported'[registering'[u].id] = registering'[u].content
                      /\ \A v \in Tabs \ {u} : registering'[v].pc \in {"content", "manifest"} =>
                           registering'[v].id # registering'[u].id
    BY DEF ClaimsKnow, Claims, Listed
  <2>1. u # t
    BY <1>6 DEF Nothing
  <2>2. registering'[u] = registering[u] /\ Claims(u)
    BY <1>6, <2>1 DEF Claims
  <2>3. registering[u].id \in Inputs /\ registering[u].id # id
    BY <1>1, <2>1, <2>2, RegistrationIsTyped DEF Claims, InputInvariant
  <2>4. manifest'[registering[u].id] = manifest[registering[u].id]
        /\ imported'[registering[u].id] = imported[registering[u].id]
    BY <1>4, <1>5, <2>3
  <2>5. \A v \in Tabs \ {u} : registering'[v].pc \in {"content", "manifest"} =>
          Claims(v) /\ registering'[v] = registering[v]
    BY <1>6 DEF Nothing, Claims
  <2> QED
    BY <2>2, <2>4, <2>5 DEF InputInvariant, ClaimsKnow, Claims, Listed
<1>9. ManifestsAreValid'
  BY <1>2, <1>4 DEF InputInvariant, ManifestsAreValid, Listed
<1>10. AcceptedAreKept'
  <2>1. id \notin accepted
    BY <1>1 DEF InputInvariant, AcceptedAreKept
  <2>2. \A i \in accepted : manifest'[i] = manifest[i] /\ imported'[i] = imported[i]
    BY <1>4, <1>5, <2>1 DEF InputInvariant, InputTypes
  <2>3. CASE accepted' = accepted
    BY <2>2, <2>3 DEF InputInvariant, AcceptedAreKept, Listed
  <2>4. CASE accepted' = accepted \cup {id} /\ manifest' # manifest /\ imported' = imported
    <3>1. manifest'[id] = entry /\ (entry.mode = "imported" => imported'[id] = entry.sha)
      BY <1>2, <1>4, <2>4
    <3> QED
      BY <1>2, <2>2, <2>4, <3>1 DEF InputInvariant, AcceptedAreKept, Listed
  <2> QED
    BY <2>3, <2>4
<1>11. ManifestsStay
  BY <1>1, <1>4 DEF ManifestsStay
<1> QED
  BY <1>7, <1>8, <1>9, <1>10, <1>11, KnowledgeStays DEF InputInvariant

LEMMA SaveManifestStep ==
  ASSUME InputInvariant, NEW t \in Tabs, SaveManifest(t)
  PROVE  InputInvariant'
<1> DEFINE entry == [mode |-> registering[t].mode, kind |-> registering[t].kind,
                     sha |-> registering[t].content]
<1>1. /\ registering[t].pc = "manifest" /\ manifest' = [manifest EXCEPT ![registering[t].id] = entry]
      /\ accepted' = accepted \cup {registering[t].id}
      /\ registering' = [registering EXCEPT ![t] = Nothing]
      /\ UNCHANGED <<source, imported, submitting, snapshot, executing>>
  BY DEF SaveManifest
<1>2. manifest[registering[t].id] = NoManifest /\ registering[t].id \in Inputs
  BY <1>1, RegistrationIsTyped DEF InputInvariant, ClaimsKnow, Claims, Listed
<1>3. entry # NoManifest /\ manifest'[registering[t].id] = entry
  BY <1>1, <1>2 DEF NoManifest, InputInvariant, InputTypes
<1>4. manifest' # manifest
  BY <1>2, <1>3
<1> QED
  BY <1>1, <1>4, RegistrationEnds

LEMMA ManifestFailsStep ==
  ASSUME InputInvariant, NEW t \in Tabs, ManifestFails(t)
  PROVE  InputInvariant'
<1>1. /\ registering[t].pc = "manifest"
      /\ \/ manifest' = manifest
         \/ manifest' = [manifest EXCEPT ![registering[t].id] =
              [mode |-> registering[t].mode, kind |-> registering[t].kind,
               sha |-> registering[t].content]]
      /\ imported' = imported \/ imported' = [imported EXCEPT ![registering[t].id] = Absent]
      /\ registering' = [registering EXCEPT ![t] = Nothing]
      /\ UNCHANGED <<source, submitting, snapshot, executing, accepted>>
  BY DEF ManifestFails
<1> QED
  BY <1>1, RegistrationEnds

-----------------------------------------------------------------------------
(* The run: what is on disk stays, and what was found out is written down *)

\* Registrations, files and manifests as they are, but for the owner's.
LEMMA FilesKept ==
  ASSUME InputInvariant, UNCHANGED <<imported, manifest, registering, accepted>>,
         source' \in Contents, submitting' \in Submissions
  PROVE  InputTypes' /\ ClaimsKnow' /\ ManifestsAreValid' /\ AcceptedAreKept' /\ ManifestsStay
<1>1. InputTypes' /\ ManifestsStay
  BY DEF InputInvariant, InputTypes, ManifestsStay
<1>2. ClaimsKnow'
  BY DEF InputInvariant, ClaimsKnow, Claims, Listed
<1>3. ManifestsAreValid' /\ AcceptedAreKept'
  BY DEF InputInvariant, ManifestsAreValid, AcceptedAreKept, Listed
<1> QED
  BY <1>1, <1>2, <1>3

LEMMA EditSourceStep ==
  ASSUME InputInvariant, EditSource
  PROVE  InputInvariant'
BY FilesKept, KnowledgeStays DEF EditSource, InputInvariant, InputTypes

LEMMA SubmitStep ==
  ASSUME InputInvariant, Submit
  PROVE  InputInvariant'
<1>1. PICK truth \in Inputs, predictions \in Inputs :
        /\ Listed(truth) /\ Listed(predictions)
        /\ submitting' = [pc |-> "checking", truth |-> truth, predictions |-> predictions,
                          done |-> 0]
  BY DEF Submit, Listed
<1>2. UNCHANGED <<source, imported, manifest, registering, snapshot, executing, accepted>>
  BY DEF Submit
<1>7. ~snapshot.saved
  BY DEF Submit
<1>3. /\ submitting' \in Submissions /\ submitting'.truth = truth
      /\ submitting'.predictions = predictions /\ submitting'.done = 0
  BY <1>1 DEF Submissions
<1>4. source' \in Contents
  BY <1>2 DEF InputInvariant, InputTypes
<1>5. SubmissionKnows'
  BY <1>1, <1>2, <1>3, <1>7 DEF SubmissionKnows, Listed
<1>6. SnapshotKnows' /\ ExecutionKnows'
  BY <1>2 DEF InputInvariant, SnapshotKnows, ExecutionKnows, Listed
<1> QED
  BY <1>2, <1>3, <1>4, <1>5, <1>6, FilesKept DEF InputInvariant

LEMMA CheckStep ==
  ASSUME InputInvariant, Check
  PROVE  InputInvariant'
<1> DEFINE kind == IF submitting.done \in {0, 2} THEN "truth" ELSE "predictions"
           i == IF submitting.done \in {0, 2} THEN submitting.truth ELSE submitting.predictions
<1>1. /\ submitting.pc = "checking" /\ submitting.done < 4
      /\ submitting' = IF Readable(i) /\ OfKind(i, kind) THEN [submitting EXCEPT !.done = @ + 1]
                       ELSE Nothing
      /\ UNCHANGED <<source, imported, manifest, registering, snapshot, executing, accepted>>
  BY DEF Check
<1>2. /\ submitting.truth \in Inputs /\ submitting.predictions \in Inputs
      /\ submitting.done \in 0..4
      /\ submitting = [pc |-> "checking", truth |-> submitting.truth,
                       predictions |-> submitting.predictions, done |-> submitting.done]
  BY <1>1 DEF InputInvariant, InputTypes, Submissions, Nothing
<1>3. SnapshotKnows' /\ ExecutionKnows'
  BY <1>1 DEF InputInvariant, SnapshotKnows, ExecutionKnows, Listed
<1>4. source' \in Contents
  BY <1>1 DEF InputInvariant, InputTypes
<1>5. CASE Readable(i) /\ OfKind(i, kind)
  <2>1. submitting' = [pc |-> "checking", truth |-> submitting.truth,
                       predictions |-> submitting.predictions, done |-> submitting.done + 1]
    BY <1>1, <1>2, <1>5
  <2>2. /\ submitting' \in Submissions /\ submitting'.truth = submitting.truth
        /\ submitting'.predictions = submitting.predictions
        /\ submitting'.done = submitting.done + 1
    BY <1>1, <1>2, <2>1 DEF Submissions
  <2>3. manifest[i].kind = kind
    BY <1>5 DEF OfKind
  <2>4. submitting.done = 0 => manifest[submitting.truth].kind = "truth"
    BY <2>3
  <2>5. submitting.done = 1 => manifest[submitting.predictions].kind = "predictions"
    BY <2>3
  <2>6. SubmissionKnows'
    BY <1>1, <1>2, <2>2, <2>4, <2>5 DEF InputInvariant, SubmissionKnows, Listed
  <2> QED
    BY <1>1, <1>3, <1>4, <2>2, <2>6, FilesKept DEF InputInvariant
<1>6. CASE ~(Readable(i) /\ OfKind(i, kind))
  <2>1. submitting' = Nothing
    BY <1>1, <1>6
  <2>2. submitting' \in Submissions /\ SubmissionKnows'
    BY <2>1 DEF Submissions, SubmissionKnows, Nothing
  <2> QED
    BY <1>1, <1>3, <1>4, <2>2, FilesKept DEF InputInvariant
<1> QED
  BY <1>5, <1>6

\* Nothing is executed of a run before it is saved.
LEMMA SaveSnapshotStep ==
  ASSUME InputInvariant, SaveSnapshot
  PROVE  InputInvariant'
<1>1. /\ submitting.pc = "checking" /\ submitting.done = 4
      /\ snapshot' = [saved |-> TRUE, truth |-> submitting.truth,
                      predictions |-> submitting.predictions,
                      truthSha |-> manifest[submitting.truth].sha,
                      predictionsSha |-> manifest[submitting.predictions].sha]
      /\ submitting' = Nothing
      /\ UNCHANGED <<source, imported, manifest, registering, executing, accepted>>
  BY DEF SaveSnapshot
<1>2. /\ submitting.truth \in Inputs /\ submitting.predictions \in Inputs
      /\ ~snapshot.saved
      /\ Listed(submitting.truth) /\ Listed(submitting.predictions)
      /\ manifest[submitting.truth].kind = "truth"
      /\ manifest[submitting.predictions].kind = "predictions"
  BY <1>1 DEF InputInvariant, SubmissionKnows, InputTypes, Submissions, Nothing
<1>3. submitting' \in Submissions /\ SubmissionKnows'
  BY <1>1 DEF Submissions, SubmissionKnows, Nothing
<1>4. /\ snapshot'.truth = submitting.truth /\ snapshot'.predictions = submitting.predictions
      /\ snapshot'.truthSha = manifest[submitting.truth].sha
      /\ snapshot'.predictionsSha = manifest[submitting.predictions].sha
  BY <1>1
<1>5. SnapshotKnows'
  BY <1>1, <1>2, <1>4 DEF SnapshotKnows, Listed
<1>6. ExecutionKnows'
  BY <1>1, <1>2 DEF InputInvariant, ExecutionKnows
<1>7. source' \in Contents
  BY <1>1 DEF InputInvariant, InputTypes
<1> QED
  BY <1>1, <1>3, <1>5, <1>6, <1>7, FilesKept DEF InputInvariant

\* What is readable is what the manifest has the checksum of.
LEMMA ExecuteStep ==
  ASSUME InputInvariant, Execute \/ Evaluate \/ Retry
  PROVE  InputInvariant'
<1>1. UNCHANGED <<source, imported, manifest, registering, submitting, snapshot, accepted>>
  BY DEF Execute, Evaluate, Retry
<1>2. source' \in Contents /\ submitting' \in Submissions
  BY <1>1 DEF InputInvariant, InputTypes
<1>3. SubmissionKnows' /\ SnapshotKnows'
  BY <1>1 DEF InputInvariant, SubmissionKnows, SnapshotKnows, Listed
<1>4. CASE Execute
  <2>1. /\ snapshot.saved
        /\ executing' = IF Readable(snapshot.truth)
                          THEN [pc |-> "truth", truth |-> Content(snapshot.truth)]
                          ELSE [pc |-> "failed"]
    BY <1>4 DEF Execute
  <2>2. Readable(snapshot.truth) => Content(snapshot.truth) = snapshot.truthSha
    BY <2>1 DEF InputInvariant, SnapshotKnows, Readable
  <2>3. ExecutionKnows'
    BY <1>1, <2>1, <2>2 DEF ExecutionKnows
  <2> QED
    BY <1>1, <1>2, <1>3, <2>3, FilesKept DEF InputInvariant
<1>5. CASE Evaluate
  <2>1. /\ executing.pc = "truth"
        /\ executing' = IF Readable(snapshot.predictions)
                          THEN [pc |-> "evaluated", truth |-> executing.truth,
                                predictions |-> Content(snapshot.predictions)]
                          ELSE [pc |-> "failed"]
    BY <1>5 DEF Evaluate
  <2>2. snapshot.saved /\ executing.truth = snapshot.truthSha
    BY <2>1 DEF InputInvariant, ExecutionKnows
  <2>3. Readable(snapshot.predictions) => Content(snapshot.predictions) = snapshot.predictionsSha
    BY <2>2 DEF InputInvariant, SnapshotKnows, Readable
  <2>4. ExecutionKnows'
    BY <1>1, <2>1, <2>2, <2>3 DEF ExecutionKnows
  <2> QED
    BY <1>1, <1>2, <1>3, <2>4, FilesKept DEF InputInvariant
<1>6. CASE Retry
  <2>1. ExecutionKnows'
    BY <1>6 DEF Retry, ExecutionKnows, Nothing
  <2> QED
    BY <1>1, <1>2, <1>3, <2>1, FilesKept DEF InputInvariant
<1> QED
  BY <1>4, <1>5, <1>6

LEMMA InputsDieStep ==
  ASSUME InputInvariant, InputsDie
  PROVE  InputInvariant'
<1>1. /\ registering' = [t \in Tabs |-> Nothing] /\ submitting' = Nothing
      /\ executing' = IF executing.pc = "truth" THEN Nothing ELSE executing
      /\ UNCHANGED <<source, imported, manifest, snapshot, accepted>>
  BY DEF InputsDie
<1>2. InputTypes'
  BY <1>1 DEF InputInvariant, InputTypes, Registrations, Submissions
<1>3. ClaimsKnow'
  BY <1>1 DEF ClaimsKnow, Claims, Nothing
<1>4. ManifestsAreValid' /\ AcceptedAreKept'
  BY <1>1 DEF InputInvariant, ManifestsAreValid, AcceptedAreKept, Listed
<1>5. SubmissionKnows' /\ SnapshotKnows'
  BY <1>1 DEF InputInvariant, SubmissionKnows, SnapshotKnows, Listed, Nothing
<1>6. ExecutionKnows'
  BY <1>1 DEF InputInvariant, ExecutionKnows, Nothing
<1> QED
  BY <1>2, <1>3, <1>4, <1>5, <1>6 DEF InputInvariant

LEMMA InputsKept ==
  ASSUME InputInvariant, [Next]_vars
  PROVE  InputInvariant'
<1>1. CASE UNCHANGED inputVars
  BY <1>1 DEF inputVars, InputInvariant, InputTypes, ClaimsKnow, Claims, ManifestsAreValid,
       AcceptedAreKept, SubmissionKnows, SnapshotKnows, ExecutionKnows, Listed
<1>2. CASE SignIn \/ Overview \/ Progress \/ UNCHANGED vars
  BY <1>1, <1>2 DEF SignIn, Overview, Progress, vars
<1>3. CASE UseOfInputs
  BY <1>3, UploadStep, SaveContentStep, ReferStep, ReadSourceStep, SaveManifestStep,
     ManifestFailsStep, EditSourceStep, SubmitStep, CheckStep, SaveSnapshotStep, ExecuteStep
     DEF UseOfInputs, UseInputs
<1>4. CASE Dies
  BY <1>1, <1>4, InputsDieStep DEF Dies
<1> QED
  BY <1>2, <1>3, <1>4 DEF Next

-----------------------------------------------------------------------------
\* Whatever becomes of the owner's file, and wherever requests fail or the process dies, a run
\* evaluates valid inputs of the right kinds with the checksums of its snapshot, and an import that
\* a client was told of keeps its content (ingestion/service.py, storage.py: read_input_bytes,
\* application/runs.py).
THEOREM InputsTheorem == Spec => []InputsKeepTheirContent
<1>1. InputInvariant => InputsKeepTheirContent
  <2> SUFFICES ASSUME InputInvariant PROVE InputsKeepTheirContent
    OBVIOUS
  <2>1. executing.pc = "evaluated" =>
          /\ executing.truth = snapshot.truthSha /\ executing.predictions = snapshot.predictionsSha
          /\ Valid(executing.truth) /\ Valid(executing.predictions)
          /\ manifest[snapshot.truth].kind = "truth"
          /\ manifest[snapshot.predictions].kind = "predictions"
    BY DEF InputInvariant, ExecutionKnows, SnapshotKnows, ManifestsAreValid
  <2>2. \A i \in accepted : manifest[i].mode = "imported" => imported[i] = manifest[i].sha
    BY DEF InputInvariant, AcceptedAreKept
  <2>3. \A i \in accepted : manifest[i].mode = "imported" => imported[i] # Absent
    <3> SUFFICES ASSUME NEW i \in accepted, manifest[i].mode = "imported" PROVE imported[i] # Absent
      OBVIOUS
    <3>1. Listed(i) /\ i \in Inputs
      BY DEF InputInvariant, AcceptedAreKept, InputTypes
    <3>2. manifest[i] \in Manifests
      BY <3>1 DEF InputInvariant, InputTypes, Listed
    <3>3. manifest[i].sha \in Contents
      BY <3>2 DEF Manifests
    <3> QED
      BY <2>2, <3>3 DEF Contents, Absent
  <2> QED
    BY <2>1, <2>2, <2>3 DEF InputsKeepTheirContent
<1> QED
  BY InitInputs, InputsKept, <1>1, PTL DEF Spec
-----------------------------------------------------------------------------
(* The registry and the overview *)

CreateRequests ==
  {NoRequest} \cup [pc : {"record", "registry"}, id : Workspaces, known : SUBSET Workspaces]
    \cup [pc : {"answered"}, ok : {FALSE}]
    \cup [pc : {"answered"}, ok : {TRUE}, id : Workspaces]

ListRequests ==
  {NoRequest} \cup [pc : {"sent"}] \cup [pc : {"answered"}, list : SUBSET Workspaces, ok : BOOLEAN]

PageLists == SUBSET (Workspaces \X {"listed", "created"})
Pages ==
  [status : {"closed", "loading", "loaded", "error"}, list : PageLists, made : SUBSET Workspaces]

RegistryTypes ==
  /\ registry \in SUBSET Workspaces
  /\ record \in [Workspaces -> {NoName, "first", "second"}]
  /\ creating \in [Tabs -> CreateRequests]
  /\ listing \in [Tabs -> ListRequests]
  /\ overview \in [Tabs -> Pages]
  /\ told \in SUBSET Workspaces

\* The event loop runs one creation at a time, so that the registry it has read is the one it adds
\* to; and the record is there when the registry is written.
Creates(t) == creating[t].pc \in {"record", "registry"}
CreationKnows ==
  \A t \in Tabs : Creates(t) =>
    /\ creating[t].known = registry
    /\ creating[t].pc = "registry" => record[creating[t].id] # NoName
    /\ \A u \in Tabs \ {t} : ~Creates(u)

RegisteredAreThere == told \subseteq registry /\ \A w \in registry : record[w] # NoName

Shown(list) == {entry[1] : entry \in list}
ShowsMade(seen) == IF seen.status = "loaded" THEN seen.made \subseteq Shown(seen.list) ELSE seen.made = {}
PagesShow == \A t \in Tabs : ShowsMade(overview[t])

RegistryInvariant ==
  /\ RegistryTypes
  /\ CreationKnows
  /\ RegisteredAreThere
  /\ PagesShow

LEMMA InitRegistry == Init => RegistryInvariant
<1> SUFFICES ASSUME Init PROVE RegistryInvariant
  OBVIOUS
<1>1. RegistryInit
  BY DEF Init
<1>2. NoPage \in Pages /\ ShowsMade(NoPage)
  BY DEF NoPage, Pages, PageLists, ShowsMade
<1>3. RegistryTypes
  BY <1>1, <1>2 DEF RegistryInit, RegistryTypes, CreateRequests, ListRequests
<1>4. CreationKnows
  BY <1>1 DEF RegistryInit, CreationKnows, Creates, NoRequest
<1>5. RegisteredAreThere /\ PagesShow
  BY <1>1, <1>2 DEF RegistryInit, RegisteredAreThere, PagesShow
<1> QED
  BY <1>3, <1>4, <1>5 DEF RegistryInvariant

LEMMA RequestsAreOf ==
  ASSUME NEW r \in CreateRequests
  PROVE  \/ r = [pc |-> "idle"]
         \/ r \in [pc : {"record", "registry"}, id : Workspaces, known : SUBSET Workspaces]
         \/ r \in [pc : {"answered"}, ok : {FALSE}]
         \/ r \in [pc : {"answered"}, ok : {TRUE}, id : Workspaces]
BY Zenon DEF CreateRequests, NoRequest

LEMMA CreationIsTyped ==
  ASSUME RegistryTypes, NEW t \in Tabs
  PROVE  /\ Creates(t) => creating[t].id \in Workspaces /\ creating[t].known \subseteq Workspaces
         /\ creating[t].pc = "answered" => \/ creating[t].ok = FALSE
                                           \/ creating[t].ok = TRUE /\ creating[t].id \in Workspaces
         /\ creating[t].pc \in {"idle", "record", "registry", "answered"}
<1>1. \/ creating[t] = [pc |-> "idle"]
      \/ creating[t] \in [pc : {"record", "registry"}, id : Workspaces, known : SUBSET Workspaces]
      \/ creating[t] \in [pc : {"answered"}, ok : {FALSE}]
      \/ creating[t] \in [pc : {"answered"}, ok : {TRUE}, id : Workspaces]
  <2>1. creating[t] \in CreateRequests
    BY DEF RegistryTypes
  <2> QED
    BY <2>1, RequestsAreOf
<1>2. CASE creating[t] = [pc |-> "idle"]
  BY <1>2 DEF Creates
<1>3. CASE creating[t] \in [pc : {"record", "registry"}, id : Workspaces, known : SUBSET Workspaces]
  BY <1>3 DEF Creates
<1>4. CASE creating[t] \in [pc : {"answered"}, ok : {FALSE}]
  <2>1. creating[t].pc = "answered"
    BY <1>4
  <2>2. creating[t].ok = FALSE
    BY <1>4, Zenon
  <2> QED
    BY <2>1, <2>2 DEF Creates
<1>5. CASE creating[t] \in [pc : {"answered"}, ok : {TRUE}, id : Workspaces]
  <2>1. creating[t].pc = "answered" /\ creating[t].id \in Workspaces
    BY <1>5
  <2>2. creating[t].ok = TRUE
    BY <1>5, Zenon
  <2> QED
    BY <2>1, <2>2 DEF Creates
<1> QED
  BY <1>1, <1>2, <1>3, <1>4, <1>5

\* A step that changes nothing of the registry but a page and the request of a tab.
LEMMA PageStep ==
  ASSUME RegistryInvariant, NEW t \in Tabs, NEW seen \in Pages, ShowsMade(seen),
         overview' = [overview EXCEPT ![t] = seen],
         NEW request \in CreateRequests, creating' = [creating EXCEPT ![t] = request],
         request = creating[t] \/ request.pc \in {"idle", "answered"},
         listing' \in [Tabs -> ListRequests], UNCHANGED <<registry, record, told>>
  PROVE  RegistryInvariant'
<1>1. /\ creating' \in [Tabs -> CreateRequests] /\ creating'[t] = request
      /\ \A u \in Tabs \ {t} : creating'[u] = creating[u]
  BY DEF RegistryInvariant, RegistryTypes
<1>2. /\ overview' \in [Tabs -> Pages] /\ overview'[t] = seen
      /\ \A u \in Tabs \ {t} : overview'[u] = overview[u]
  BY DEF RegistryInvariant, RegistryTypes
<1>3. RegistryTypes'
  BY <1>1, <1>2 DEF RegistryInvariant, RegistryTypes
<1>4. \A u \in Tabs : creating'[u].pc \in {"record", "registry"} =>
                        Creates(u) /\ creating'[u] = creating[u]
  BY <1>1 DEF Creates
<1>5. CreationKnows'
  BY <1>4 DEF RegistryInvariant, CreationKnows, Creates
<1>6. RegisteredAreThere'
  BY DEF RegistryInvariant, RegisteredAreThere
<1>7. PagesShow'
  <2>1. \A u \in Tabs : ShowsMade(overview'[u])
    BY <1>2 DEF RegistryInvariant, PagesShow
  <2> QED
    BY <2>1 DEF PagesShow, ShowsMade
<1> QED
  BY <1>3, <1>5, <1>6, <1>7 DEF RegistryInvariant

LEMMA TabIsTyped ==
  ASSUME RegistryInvariant, NEW t \in Tabs
  PROVE  /\ overview[t] \in Pages /\ ShowsMade(overview[t]) /\ creating[t] \in CreateRequests
         /\ listing[t] \in ListRequests
         /\ [overview EXCEPT ![t] = overview[t]] = overview
         /\ [creating EXCEPT ![t] = creating[t]] = creating
BY DEF RegistryInvariant, RegistryTypes, PagesShow

LEMMA OpenPageStep ==
  ASSUME RegistryInvariant, NEW t \in Tabs, OpenPage(t)
  PROVE  RegistryInvariant'
<1> DEFINE seen == [status |-> "loading", list |-> {}, made |-> {}]
<1>1. seen \in Pages /\ ShowsMade(seen)
  BY DEF Pages, PageLists, ShowsMade
<1>2. overview' = [overview EXCEPT ![t] = seen] /\ creating' = [creating EXCEPT ![t] = NoRequest]
      /\ UNCHANGED <<registry, record, told>>
  BY DEF OpenPage
<1>3. listing' \in [Tabs -> ListRequests]
  BY DEF OpenPage, RegistryInvariant, RegistryTypes, ListRequests
<1>4. NoRequest \in CreateRequests /\ NoRequest.pc = "idle"
  BY DEF CreateRequests, NoRequest
<1> HIDE DEF seen
<1> QED
  BY <1>1, <1>2, <1>3, <1>4, PageStep

LEMMA ServeListStep ==
  ASSUME RegistryInvariant, NEW t \in Tabs, ServeList(t)
  PROVE  RegistryInvariant'
<1>1. [pc |-> "answered", list |-> registry,
       ok |-> Authenticated(t) /\ \A w \in registry : record[w] # NoName] \in ListRequests
  <2>1. (Authenticated(t) /\ \A w \in registry : record[w] # NoName) \in BOOLEAN
    BY Zenon
  <2> QED
    BY <2>1 DEF ListRequests, RegistryInvariant, RegistryTypes
<1>2. listing' \in [Tabs -> ListRequests]
  BY <1>1 DEF ServeList, RegistryInvariant, RegistryTypes
<1>3. UNCHANGED <<registry, record, told, creating, overview>>
  BY DEF ServeList
<1> QED
  BY <1>2, <1>3, TabIsTyped, PageStep

\* A list that arrives takes the place of what the page shows of the workspaces in it alone.
LEMMA ListArrivesStep ==
  ASSUME RegistryInvariant, NEW t \in Tabs, ListArrives(t)
  PROVE  RegistryInvariant'
<1> DEFINE loaded == listing[t].list
           merged == [status |-> "loaded", list |-> Merged(overview[t].list, loaded),
                      made |-> overview[t].made]
           failed == [status |-> "error", list |-> {}, made |-> {}]
<1>1. listing[t].pc = "answered" /\ UNCHANGED <<registry, record, told, creating>>
  BY DEF ListArrives
<1>2. loaded \subseteq Workspaces
  BY <1>1, TabIsTyped DEF ListRequests, NoRequest
<1>3. /\ overview[t].list \subseteq Workspaces \X {"listed", "created"}
      /\ overview[t].made \subseteq Workspaces
  BY TabIsTyped DEF Pages, PageLists
<1>4. merged \in Pages
  <2>1. Merged(overview[t].list, loaded) \subseteq Workspaces \X {"listed", "created"}
    BY <1>2, <1>3 DEF Merged, Entries
  <2> QED
    BY <1>3, <2>1 DEF Pages, PageLists
<1>5. overview[t].made \subseteq Shown(Merged(overview[t].list, loaded))
  <2> SUFFICES ASSUME NEW w \in overview[t].made
               PROVE  w \in Shown(Merged(overview[t].list, loaded))
    OBVIOUS
  <2>1. CASE w \in loaded
    <3>1. <<w, "listed">> \in Merged(overview[t].list, loaded)
      BY <2>1 DEF Merged, Entries
    <3> QED
      BY <3>1 DEF Shown
  <2>2. CASE w \notin loaded
    <3>1. PICK entry \in overview[t].list : entry[1] = w
      BY TabIsTyped DEF ShowsMade, Shown
    <3>2. entry \in Merged(overview[t].list, loaded)
      BY <2>2, <3>1 DEF Merged
    <3> QED
      BY <3>1, <3>2 DEF Shown
  <2> QED
    BY <2>1, <2>2
<1>6. ShowsMade(merged)
  BY <1>5 DEF ShowsMade
<1>7. failed \in Pages /\ ShowsMade(failed)
  BY DEF Pages, PageLists, ShowsMade
<1>8. \/ overview' = [overview EXCEPT ![t] = merged]
      \/ overview' = [overview EXCEPT ![t] = failed]
  BY DEF ListArrives
<1>9. listing' \in [Tabs -> ListRequests]
  BY DEF ListArrives, RegistryInvariant, RegistryTypes, ListRequests
<1> HIDE DEF merged, failed
<1> QED
  BY <1>1, <1>4, <1>6, <1>7, <1>8, <1>9, TabIsTyped, PageStep

LEMMA BeginCreateStep ==
  ASSUME RegistryInvariant, NEW t \in Tabs, BeginCreate(t)
  PROVE  RegistryInvariant'
<1>1. LoopFree /\ UNCHANGED <<registry, record, told, listing, overview>>
  BY DEF BeginCreate
<1>2. \A u \in Tabs : ~Creates(u)
  BY <1>1 DEF LoopFree, Creates
<1>3. \/ \E w \in Workspaces :
           creating' = [creating EXCEPT ![t] = [pc |-> "record", id |-> w, known |-> registry]]
      \/ creating' = [creating EXCEPT ![t] = [pc |-> "answered", ok |-> FALSE]]
  BY DEF BeginCreate, Fresh
<1>4. CASE creating' = [creating EXCEPT ![t] = [pc |-> "answered", ok |-> FALSE]]
  <2>1. [pc |-> "answered", ok |-> FALSE] \in CreateRequests
    BY DEF CreateRequests
  <2> QED
    BY <1>1, <1>4, <2>1, TabIsTyped, PageStep DEF RegistryInvariant, RegistryTypes
<1>5. ASSUME NEW w \in Workspaces,
             creating' = [creating EXCEPT ![t] = [pc |-> "record", id |-> w, known |-> registry]]
      PROVE  RegistryInvariant'
  <2> DEFINE request == [pc |-> "record", id |-> w, known |-> registry]
  <2>1. request \in CreateRequests /\ request.pc = "record" /\ request.known = registry
    BY DEF CreateRequests, RegistryInvariant, RegistryTypes
  <2> HIDE DEF request
  <2>2. /\ creating' \in [Tabs -> CreateRequests] /\ creating'[t] = request
        /\ \A u \in Tabs \ {t} : creating'[u] = creating[u]
    BY <1>5, <2>1 DEF RegistryInvariant, RegistryTypes, request
  <2>3. CreationKnows'
    BY <1>1, <1>2, <2>1, <2>2 DEF CreationKnows, Creates
  <2> QED
    BY <1>1, <2>2, <2>3 DEF RegistryInvariant, RegistryTypes, RegisteredAreThere, PagesShow, ShowsMade
<1> QED
  BY <1>3, <1>4, <1>5

LEMMA WriteRecordStep ==
  ASSUME RegistryInvariant, NEW t \in Tabs, WriteRecord(t)
  PROVE  RegistryInvariant'
<1> DEFINE id == creating[t].id
           request == [pc |-> "registry", id |-> id, known |-> creating[t].known]
<1>1. /\ creating[t].pc = "record" /\ record' = [record EXCEPT ![id] = "first"]
      /\ UNCHANGED <<registry, told, listing, overview>>
  BY DEF WriteRecord
<1>2. id \in Workspaces /\ creating[t].known = registry /\ \A u \in Tabs \ {t} : ~Creates(u)
  BY <1>1, CreationIsTyped DEF RegistryInvariant, CreationKnows, Creates
<1>3. creating' = [creating EXCEPT ![t] = request]
  <2>1. creating[t] \in CreateRequests /\ creating[t].pc = "record"
    BY <1>1, TabIsTyped
  <2>2. creating[t] \in [pc : {"record", "registry"}, id : Workspaces, known : SUBSET Workspaces]
    <3>1. creating[t] \in [pc : {"answered"}, ok : {FALSE}] => creating[t].pc = "answered"
      OBVIOUS
    <3>2. creating[t] \in [pc : {"answered"}, ok : {TRUE}, id : Workspaces] => creating[t].pc = "answered"
      OBVIOUS
    <3>3. creating[t] = [pc |-> "idle"] => creating[t].pc = "idle"
      OBVIOUS
    <3> QED
      BY <2>1, <3>1, <3>2, <3>3, RequestsAreOf, Zenon
  <2>3. [creating[t] EXCEPT !.pc = "registry"] = request
    BY <2>2
  <2> QED
    BY <2>3 DEF WriteRecord
<1>4. request \in CreateRequests /\ request.pc = "registry" /\ request.known = registry /\ request.id = id
  BY <1>2 DEF CreateRequests, RegistryInvariant, RegistryTypes
<1> HIDE DEF request
<1>5. /\ creating' \in [Tabs -> CreateRequests] /\ creating'[t] = request
      /\ \A u \in Tabs \ {t} : creating'[u] = creating[u]
  BY <1>3, <1>4 DEF RegistryInvariant, RegistryTypes
<1>6. /\ record' \in [Workspaces -> {NoName, "first", "second"}] /\ record'[id] = "first"
      /\ \A w \in Workspaces \ {id} : record'[w] = record[w]
  BY <1>1, <1>2 DEF RegistryInvariant, RegistryTypes
<1>7. RegistryTypes'
  BY <1>1, <1>5, <1>6 DEF RegistryInvariant, RegistryTypes
<1>8. CreationKnows'
  BY <1>1, <1>2, <1>4, <1>5, <1>6 DEF CreationKnows, Creates, NoName
<1>9. RegisteredAreThere'
  BY <1>1, <1>6 DEF RegistryInvariant, RegistryTypes, RegisteredAreThere, NoName
<1>10. PagesShow'
  BY <1>1 DEF RegistryInvariant, PagesShow, ShowsMade
<1> QED
  BY <1>7, <1>8, <1>9, <1>10 DEF RegistryInvariant

\* What is written is what the registry holds, and one workspace more.
LEMMA WriteRegistryStep ==
  ASSUME RegistryInvariant, NEW t \in Tabs, WriteRegistry(t)
  PROVE  RegistryInvariant'
<1> DEFINE id == creating[t].id
           request == [pc |-> "answered", ok |-> TRUE, id |-> id]
<1>1. /\ creating[t].pc = "registry" /\ told' = told \cup {id}
      /\ registry' = creating[t].known \cup {id}
      /\ creating' = [creating EXCEPT ![t] = request]
      /\ UNCHANGED <<record, listing, overview>>
  BY DEF WriteRegistry, Registered
<1>2. /\ id \in Workspaces /\ registry' = registry \cup {id} /\ record[id] # NoName
      /\ \A u \in Tabs \ {t} : ~Creates(u)
  BY <1>1, CreationIsTyped DEF RegistryInvariant, CreationKnows, Creates
<1>3. request \in CreateRequests /\ request.pc = "answered"
  BY <1>2 DEF CreateRequests
<1> HIDE DEF request
<1>4. /\ creating' \in [Tabs -> CreateRequests] /\ creating'[t] = request
      /\ \A u \in Tabs \ {t} : creating'[u] = creating[u]
  BY <1>1, <1>3 DEF RegistryInvariant, RegistryTypes
<1>5. RegistryTypes'
  BY <1>1, <1>2, <1>4 DEF RegistryInvariant, RegistryTypes
<1>6. CreationKnows'
  BY <1>2, <1>3, <1>4 DEF CreationKnows, Creates
<1>7. RegisteredAreThere'
  BY <1>1, <1>2 DEF RegistryInvariant, RegisteredAreThere
<1>8. PagesShow'
  BY <1>1 DEF RegistryInvariant, PagesShow, ShowsMade
<1> QED
  BY <1>5, <1>6, <1>7, <1>8 DEF RegistryInvariant

LEMMA WriteFailsStep ==
  ASSUME RegistryInvariant, NEW t \in Tabs, WriteFails(t)
  PROVE  RegistryInvariant'
<1>1. [pc |-> "answered", ok |-> FALSE] \in CreateRequests
  BY DEF CreateRequests
<1>2. /\ creating' = [creating EXCEPT ![t] = [pc |-> "answered", ok |-> FALSE]]
      /\ UNCHANGED <<registry, record, listing, overview, told>>
  BY DEF WriteFails
<1> QED
  BY <1>1, <1>2, TabIsTyped, PageStep DEF RegistryInvariant, RegistryTypes

LEMMA CreateArrivesStep ==
  ASSUME RegistryInvariant, NEW t \in Tabs, CreateArrives(t)
  PROVE  RegistryInvariant'
<1> DEFINE id == creating[t].id
           before == IF overview[t].status = "loaded" THEN overview[t].list ELSE {}
           seen == [status |-> "loaded", made |-> overview[t].made \cup {id},
                    list |-> before \cup Entries({id}, "created")]
<1>1. creating[t].pc = "answered" /\ creating' = [creating EXCEPT ![t] = NoRequest]
      /\ UNCHANGED <<registry, record, told, listing>>
  BY DEF CreateArrives
<1>2. listing' \in [Tabs -> ListRequests] /\ NoRequest \in CreateRequests /\ NoRequest.pc = "idle"
  BY <1>1 DEF RegistryInvariant, RegistryTypes, CreateRequests, NoRequest
<1>3. CASE creating[t].ok = FALSE
  <2>1. overview' = overview
    BY <1>3 DEF CreateArrives
  <2> QED
    BY <1>1, <1>2, <2>1, TabIsTyped, PageStep
<1>4. CASE creating[t].ok = TRUE /\ id \in Workspaces
  <2>1. overview' = [overview EXCEPT ![t] = seen]
    BY <1>4 DEF CreateArrives
  <2>2. overview[t].list \subseteq Workspaces \X {"listed", "created"}
        /\ overview[t].made \subseteq Workspaces
    BY TabIsTyped DEF Pages, PageLists
  <2>3. Entries({id}, "created") = {<<id, "created">>}
    BY DEF Entries
  <2>4. seen \in Pages
    BY <1>4, <2>2, <2>3 DEF Pages, PageLists
  <2>5. seen.made \subseteq Shown(seen.list)
    <3>1. id \in Shown(seen.list)
      <4>1. <<id, "created">> \in seen.list
        BY <2>3
      <4>2. <<id, "created">>[1] = id
        OBVIOUS
      <4> HIDE DEF seen, id
      <4> QED
        BY <4>1, <4>2 DEF Shown
    <3>2. overview[t].made \subseteq Shown(before)
      BY TabIsTyped DEF ShowsMade, Shown
    <3>3. Shown(before) \subseteq Shown(seen.list)
      BY DEF Shown
    <3> QED
      BY <3>1, <3>2, <3>3
  <2>6. ShowsMade(seen)
    BY <2>5 DEF ShowsMade
  <2> HIDE DEF seen
  <2> QED
    BY <1>1, <1>2, <2>1, <2>4, <2>6, PageStep
<1> QED
  BY <1>1, <1>3, <1>4, CreationIsTyped DEF RegistryInvariant

LEMMA RenameStep ==
  ASSUME RegistryInvariant, NEW t \in Tabs, Rename(t)
  PROVE  RegistryInvariant'
<1>1. PICK w \in registry : record' = [record EXCEPT ![w] = "second"]
  BY DEF Rename
<1>2. UNCHANGED <<registry, creating, listing, overview, told>>
  BY DEF Rename
<1>3. record' \in [Workspaces -> {NoName, "first", "second"}]
      /\ \A v \in Workspaces : record[v] # NoName => record'[v] # NoName
  BY <1>1 DEF RegistryInvariant, RegistryTypes, NoName
<1>4. CreationKnows'
  BY <1>2, <1>3, CreationIsTyped DEF RegistryInvariant, CreationKnows, Creates
<1> QED
  BY <1>2, <1>3, <1>4 DEF RegistryInvariant, RegistryTypes, RegisteredAreThere, PagesShow, ShowsMade

\* What was written before a process dies stays: a workspace without a place in the registry.
LEMMA RegistryDiesStep ==
  ASSUME RegistryInvariant, RegistryDies
  PROVE  RegistryInvariant'
<1>1. UNCHANGED <<registry, record, overview, told>>
  BY DEF RegistryDies
<1>2. creating' \in [Tabs -> CreateRequests] /\ \A t \in Tabs : creating'[t].pc \notin {"record", "registry"}
  BY DEF RegistryDies, RegistryInvariant, RegistryTypes, CreateRequests
<1>3. listing' \in [Tabs -> ListRequests]
  BY DEF RegistryDies, RegistryInvariant, RegistryTypes, ListRequests
<1>4. CreationKnows'
  BY <1>2 DEF CreationKnows, Creates
<1> QED
  BY <1>1, <1>2, <1>3, <1>4
     DEF RegistryInvariant, RegistryTypes, RegisteredAreThere, PagesShow, ShowsMade

LEMMA RegistryKept ==
  ASSUME RegistryInvariant, [Next]_vars
  PROVE  RegistryInvariant'
<1>1. CASE UNCHANGED registryVars
  BY <1>1 DEF registryVars, RegistryInvariant, RegistryTypes, CreationKnows, Creates,
       RegisteredAreThere, PagesShow, ShowsMade
<1>2. CASE SignIn \/ UseOfInputs \/ Progress \/ UNCHANGED vars
  BY <1>1, <1>2 DEF SignIn, UseOfInputs, Progress, vars
<1>3. CASE Overview
  BY <1>3, OpenPageStep, ServeListStep, ListArrivesStep, BeginCreateStep, WriteRecordStep,
     WriteRegistryStep, WriteFailsStep, CreateArrivesStep, RenameStep
     DEF Overview, ManageWorkspaces
<1>4. CASE Dies
  BY <1>1, <1>4, RegistryDiesStep DEF Dies
<1> QED
  BY <1>2, <1>3, <1>4 DEF Next

\* However creations, lists and pages of any number of tabs interleave, writes fail and processes
\* die: one owner a start, what a client was told exists stays registered and can be loaded, and a
\* loaded overview shows what it has created (security.py, storage.py, api/app.py, app.tsx).
THEOREM WorkspacesTheorem == Spec => []OwnersKeepWorkspaces
<1>1. RegistryInvariant => WorkspacesStay
  <2> SUFFICES ASSUME RegistryInvariant PROVE WorkspacesStay
    OBVIOUS
  <2>1. \A t \in Tabs : overview[t].status = "loaded" =>
          overview[t].made \subseteq {entry[1] : entry \in overview[t].list}
    BY DEF RegistryInvariant, PagesShow, ShowsMade, Shown
  <2> QED
    BY <2>1 DEF RegistryInvariant, RegisteredAreThere, WorkspacesStay
<1>2. Spec => []WorkspacesStay
  BY InitRegistry, RegistryKept, <1>1, PTL DEF Spec
<1> QED
  BY <1>2, OwnerTheorem, PTL DEF OwnersKeepWorkspaces
-----------------------------------------------------------------------------
(* The progress page *)

Jobs == [run : {"r"}, state : JobStates \cup NoRecord, revision : Nat, cancel_requested : BOOLEAN,
         safe_error : {NoError}]
Summaries == [job : 0..2, revision : Int, state : JobStates \cup NoRecord, cancel_requested : BOOLEAN]
Requests == [what : {"get", "cancel", "retry"}, job : 1..2, is : {"sent", "answered", "refused"},
             reply : Summaries]

PageTypes ==
  /\ job \in [1..2 -> Jobs]
  /\ page = [url |-> page.url, shown |-> page.shown, busy |-> page.busy, mixed |-> page.mixed]
  /\ page.url \in 0..2 /\ page.shown \in Summaries
  /\ events \in [at : {"closed", "connecting", "open", "failed"}, last : Int]
  /\ stream.current \in Int
  /\ wire \in Seq(Summaries)
  /\ replies \in SUBSET Requests

PageIsBlank == page.url = 0 => replies = {} /\ events.at = "closed" /\ page.shown.job = 0

\* What is on its way is newer than what came, in order, and not newer than what the server has
\* noted as sent: a reconnected stream goes on from there, and the page's last stream has ended.
StreamKnows ==
  /\ events.at # "open" => wire = <<>> /\ ~stream.open
  /\ \A k \in 1..Len(wire) : wire[k].revision > events.last
  /\ \A k, l \in 1..Len(wire) : k < l => wire[k].revision < wire[l].revision
  /\ stream.open => /\ stream.current >= events.last
                    /\ \A k \in 1..Len(wire) : wire[k].revision <= stream.current

\* A retry is granted once, so that the page goes on to another job once.
Granted(r) == r.what = "retry" /\ r.is = "answered"
RetryKnows ==
  /\ \A r \in replies : /\ r.what = "retry" => r.reply = Blank
                        /\ Granted(r) => r.job = 1 /\ job[2].state # "NONE" /\ page.url # 2
  /\ page.url = 2 => job[2].state # "NONE"

PageInvariant ==
  /\ PageTypes
  /\ PageIsBlank
  /\ StreamKnows
  /\ RetryKnows

LEMMA BlankIsTyped == Blank \in Summaries
BY DEF Blank, Summaries, NoRecord

LEMMA InitPage == Init => PageInvariant
<1> SUFFICES ASSUME Init PROVE PageInvariant
  OBVIOUS
<1>1. PageInit
  BY DEF Init
<1>2. job \in [1..2 -> Jobs]
  <2>1. [QueuedRecord("r") EXCEPT !.state = "WRITING_ARTIFACT", !.revision = 4] \in Jobs
    BY DEF QueuedRecord, Jobs, JobStates, TransientStates
  <2>2. NoJob \in Jobs
    BY DEF NoJob, QueuedRecord, Jobs, NoRecord
  <2> QED
    BY <1>1, <2>1, <2>2 DEF PageInit
<1>3. PageTypes
  BY <1>1, <1>2, BlankIsTyped DEF PageInit, PageTypes, Ended
<1>4. PageIsBlank /\ StreamKnows /\ RetryKnows
  BY <1>1 DEF PageInit, PageIsBlank, StreamKnows, RetryKnows, Ended, Blank
<1> QED
  BY <1>3, <1>4 DEF PageInvariant

LEMMA UpdatedIsTyped ==
  ASSUME NEW r \in Jobs, NEW next \in JobStates \cup {Same}, NEW cancel \in BOOLEAN
  PROVE  /\ Updated(r, next, cancel, NoError) \in Jobs
         /\ r.state # "NONE" => Updated(r, next, cancel, NoError).state # "NONE"
<1>1. r.run = "r" /\ r.state \in JobStates \cup NoRecord /\ r.revision \in Nat
      /\ r.cancel_requested \in BOOLEAN
  BY DEF Jobs
<1>2. (r.cancel_requested \/ cancel) \in BOOLEAN
  BY Zenon
<1>3. Target(r, next) \in JobStates \cup NoRecord
  BY <1>1 DEF Target
<1>4. "NONE" \notin JobStates
  BY DEF JobStates, TransientStates, TerminalStates
<1>5. r.revision + 1 \in Nat
  BY <1>1
<1> QED
  BY <1>1, <1>2, <1>3, <1>4, <1>5 DEF Updated, Jobs, Target, Same

LEMMA SummaryIsTyped ==
  ASSUME PageTypes, NEW j \in 1..2
  PROVE  Summary(j) \in Summaries /\ Summary(j).revision = job[j].revision
<1>1. job[j] \in Jobs /\ j \in 0..2
  BY DEF PageTypes
<1>2. /\ job[j].revision \in Int /\ job[j].state \in JobStates \cup NoRecord
      /\ job[j].cancel_requested \in BOOLEAN
  BY <1>1 DEF Jobs
<1> QED
  BY <1>1, <1>2 DEF Summary, Summaries

\* What is shown never goes back, whatever arrives.
LEMMA ShowGoesForward ==
  ASSUME PageTypes, NEW summary \in Summaries
  PROVE  /\ Show(summary) \in Summaries
         /\ Show(summary).job = page.shown.job => Show(summary).revision >= page.shown.revision
<1>1. page.shown.revision \in Int /\ summary.revision \in Int
  BY DEF PageTypes, Summaries
<1> QED
  BY <1>1 DEF Show, Newer, PageTypes

LEMMA AskingIsTyped ==
  ASSUME NEW requests \in SUBSET Requests, NEW j \in 1..2
  PROVE  /\ Asking(requests, j) \in SUBSET Requests
         /\ \A r \in Asking(requests, j) : r \in requests \/ r.what = "get"
<1>1. [what |-> "get", job |-> j, is |-> "sent", reply |-> Blank] \in Requests
  BY BlankIsTyped DEF Requests
<1> QED
  BY <1>1 DEF Asking

JobsGoOn == job' \in [1..2 -> Jobs] /\ (job[2].state # "NONE" => job'[2].state # "NONE")

LEMMA JobChanges ==
  ASSUME PageInvariant, NEW j \in 1..2, NEW r \in Jobs, job' = [job EXCEPT ![j] = r],
         job[j].state # "NONE" => r.state # "NONE"
  PROVE  JobsGoOn
<1>1. job \in [1..2 -> Jobs]
  BY DEF PageInvariant, PageTypes
<1>2. job' \in [1..2 -> Jobs]
  BY <1>1
<1>3. job'[j] = r /\ \A i \in 1..2 : i # j => job'[i] = job[i]
  BY <1>1
<1> QED
  BY <1>2, <1>3 DEF JobsGoOn

\* Steps of the jobs and of the requests, beside the stream.
LEMMA RequestStep ==
  ASSUME PageInvariant, JobsGoOn, UNCHANGED <<events, stream, wire>>,
         page' = [url |-> page.url, shown |-> page'.shown, busy |-> page'.busy, mixed |-> page'.mixed],
         page'.shown \in Summaries,
         page'.shown.job = page.shown.job => page'.shown.revision >= page.shown.revision,
         replies' \in SUBSET Requests, page.url = 0 => replies' = {} /\ page'.shown.job = 0,
         \A r \in replies' \ replies :
           r.what = "retry" => r.reply = Blank /\ (Granted(r) =>
                                 r.job = 1 /\ job'[2].state # "NONE" /\ page.url # 2)
  PROVE  PageInvariant' /\ StepsForward
<1>1. page'.url = page.url
  OBVIOUS
<1>2. PageTypes'
  BY <1>1 DEF PageInvariant, PageTypes, JobsGoOn
<1>3. PageIsBlank'
  BY <1>1 DEF PageInvariant, PageIsBlank
<1>4. StreamKnows'
  BY DEF PageInvariant, StreamKnows
<1>5. RetryKnows'
  <2>1. page'.url = 2 => job'[2].state # "NONE"
    BY <1>1 DEF PageInvariant, RetryKnows, JobsGoOn
  <2>2. ASSUME NEW r \in replies', r \in replies
        PROVE  /\ r.what = "retry" => r.reply = Blank
               /\ Granted(r) => r.job = 1 /\ job'[2].state # "NONE" /\ page'.url # 2
    BY <1>1, <2>2 DEF PageInvariant, RetryKnows, JobsGoOn
  <2>3. ASSUME NEW r \in replies', r \notin replies
        PROVE  /\ r.what = "retry" => r.reply = Blank
               /\ Granted(r) => r.job = 1 /\ job'[2].state # "NONE" /\ page'.url # 2
    BY <1>1, <2>3 DEF Granted
  <2> QED
    BY <2>1, <2>2, <2>3 DEF RetryKnows, Granted
<1>6. StepsForward
  <2>1. DOMAIN wire = 1..Len(wire) /\ events.last \in Int
    BY DEF PageInvariant, PageTypes
  <2> QED
    BY <2>1 DEF StepsForward, PageInvariant, StreamKnows
<1> QED
  BY <1>2, <1>3, <1>4, <1>5, <1>6 DEF PageInvariant

LEMMA WorkStep ==
  ASSUME PageInvariant, Work \/ LinkRecord
  PROVE  PageInvariant' /\ StepsForward
<1>1. UNCHANGED <<page, events, stream, wire, replies>>
  BY DEF Work, LinkRecord
<1>2. job \in [1..2 -> Jobs]
  BY DEF PageInvariant, PageTypes
<1>3. ASSUME Work PROVE JobsGoOn
  <2>1. PICK j \in 1..2, next \in JobStates : job' = [job EXCEPT ![j] = Updated(job[j], next, FALSE, NoError)]
    BY <1>3 DEF Work
  <2>2. /\ Updated(job[j], next, FALSE, NoError) \in Jobs
        /\ job[j].state # "NONE" => Updated(job[j], next, FALSE, NoError).state # "NONE"
    BY <1>2, UpdatedIsTyped
  <2> QED
    BY <2>1, <2>2, JobChanges
<1>4. ASSUME LinkRecord PROVE JobsGoOn
  <2>1. QueuedRecord("r") \in Jobs /\ QueuedRecord("r").state # "NONE"
    BY DEF QueuedRecord, Jobs, JobStates
  <2> QED
    BY <1>2, <1>4, <2>1 DEF LinkRecord, JobsGoOn
<1>5. JobsGoOn
  BY <1>3, <1>4
<1> QED
  BY <1>1, <1>5, RequestStep DEF PageInvariant, PageTypes, PageIsBlank, Summaries
LEMMA ServeStep ==
  ASSUME PageInvariant, NEW r \in replies, NEW kept \in BOOLEAN, NEW reply,
         replies' = Answered(r, kept, reply), kept => reply \in Summaries,
         r.what = "retry" /\ kept =>
           reply = Blank /\ r.job = 1 /\ job'[2].state # "NONE" /\ page.url # 2,
         JobsGoOn, UNCHANGED <<page, events, stream, wire>>
  PROVE  PageInvariant' /\ StepsForward
<1> DEFINE is == IF kept THEN "answered" ELSE "refused"
           body == IF kept THEN reply ELSE Blank
           served == [what |-> r.what, job |-> r.job, is |-> is, reply |-> body]
<1>1. r \in Requests
  BY DEF PageInvariant, PageTypes
<1>2. replies' = (replies \ {r}) \cup {served}
  BY DEF Answered
<1>3. is \in {"answered", "refused"} /\ body \in Summaries /\ (is = "answered" => kept)
      /\ (r.what = "retry" => body = Blank)
  BY BlankIsTyped
<1> HIDE DEF is, body
<1>4. served \in Requests
  BY <1>1, <1>3 DEF Requests
<1>5. served.what = "retry" => served.reply = Blank /\ (Granted(served) =>
         served.job = 1 /\ job'[2].state # "NONE" /\ page.url # 2)
  BY <1>3 DEF Granted
<1> HIDE DEF served
<1>6. replies' \in SUBSET Requests
  BY <1>2, <1>4 DEF PageInvariant, PageTypes
<1>7. page.url = 0 => replies' = {} /\ page'.shown.job = 0
  BY DEF PageInvariant, PageIsBlank
<1>8. page' = [url |-> page.url, shown |-> page'.shown, busy |-> page'.busy, mixed |-> page'.mixed]
      /\ page'.shown \in Summaries /\ page'.shown.revision >= page.shown.revision
  BY DEF PageInvariant, PageTypes, Summaries
<1> QED
  BY <1>2, <1>5, <1>6, <1>7, <1>8, RequestStep

LEMMA ServeGetStep ==
  ASSUME PageInvariant, ServeGet, UNCHANGED sessionVars
  PROVE  PageInvariant' /\ StepsForward
<1>1. PICK r \in replies : /\ r.what = "get" /\ Serve(r, sessions # {} /\ Found(r.job))
                           /\ UNCHANGED job
  BY DEF ServeGet
<1>2. r \in Requests
  BY DEF PageInvariant, PageTypes
<1>3. r.job \in 1..2 /\ r.reply \in Summaries
  BY <1>2 DEF Requests
<1>4. JobsGoOn
  BY <1>1 DEF JobsGoOn, PageInvariant, PageTypes
<1>5. UNCHANGED <<page, events, stream, wire>>
  BY <1>1 DEF Serve
<1>6. replies' = Answered(r, sessions # {} /\ Found(r.job), Summary(r.job))
      /\ (sessions # {} /\ Found(r.job)) \in BOOLEAN
  BY <1>1, Zenon DEF Serve
<1>7. Summary(r.job) \in Summaries
  BY <1>3, SummaryIsTyped DEF PageInvariant
<1> QED
  BY <1>1, <1>4, <1>5, <1>6, <1>7, ServeStep

\* A job that is asked to stop is answered as it is then.
LEMMA ServeCancelStep ==
  ASSUME PageInvariant, ServeCancel
  PROVE  PageInvariant' /\ StepsForward
<1> DEFINE after(r, next) == Updated(job[r.job], next, TRUE, NoError)
           asked(r, next) == [job |-> r.job, revision |-> after(r, next).revision,
                              state |-> after(r, next).state,
                              cancel_requested |-> after(r, next).cancel_requested]
<1>0. \E r \in replies, next \in {"CANCELLED", Same}, kept \in BOOLEAN :
        \E reply \in {Summary(r.job), asked(r, next)} :
          /\ r.what = "cancel"
          /\ job' = job \/ job' = [job EXCEPT ![r.job] = after(r, next)]
          /\ replies' = Answered(r, kept, reply)
  BY DEF ServeCancel
<1>a. PICK r \in replies, next \in {"CANCELLED", Same}, kept \in BOOLEAN :
        \E reply \in {Summary(r.job), asked(r, next)} :
          /\ r.what = "cancel"
          /\ job' = job \/ job' = [job EXCEPT ![r.job] = after(r, next)]
          /\ replies' = Answered(r, kept, reply)
  BY <1>0
<1>1. PICK reply \in {Summary(r.job), asked(r, next)} :
        /\ r.what = "cancel"
        /\ job' = job \/ job' = [job EXCEPT ![r.job] = after(r, next)]
        /\ replies' = Answered(r, kept, reply)
  BY <1>a
<1>2. r \in Requests
  BY DEF PageInvariant, PageTypes
<1>3. r.job \in 1..2 /\ r.job \in 0..2 /\ r.reply \in Summaries /\ next \in JobStates \cup {Same}
  BY <1>2 DEF Requests, JobStates, TerminalStates
<1>4. job \in [1..2 -> Jobs] /\ job[r.job] \in Jobs
  BY <1>3 DEF PageInvariant, PageTypes
<1>5. after(r, next) \in Jobs /\ (job[r.job].state # "NONE" => after(r, next).state # "NONE")
  BY <1>3, <1>4, UpdatedIsTyped
<1> HIDE DEF after
<1>6. JobsGoOn
  <2>1. CASE job' = job
    BY <1>4, <2>1 DEF JobsGoOn
  <2>2. CASE job' = [job EXCEPT ![r.job] = after(r, next)]
    BY <1>3, <1>5, <2>2, JobChanges
  <2> QED
    BY <1>1, <2>1, <2>2
<1>7. reply \in Summaries
  <2>1. Summary(r.job) \in Summaries
    BY <1>3, SummaryIsTyped DEF PageInvariant
  <2>2. asked(r, next) \in Summaries
    <3>1. /\ after(r, next).revision \in Int /\ after(r, next).state \in JobStates \cup NoRecord
          /\ after(r, next).cancel_requested \in BOOLEAN
      BY <1>5 DEF Jobs
    <3> QED
      BY <1>3, <3>1 DEF Summaries
  <2> QED
    BY <1>1, <1>3, <2>1, <2>2
<1>8. UNCHANGED <<page, events, stream, wire>>
  BY DEF ServeCancel
<1> QED
  BY <1>1, <1>6, <1>7, <1>8, ServeStep

\* A second retry of the job is refused.
LEMMA ServeRetryStep ==
  ASSUME PageInvariant, ServeRetry
  PROVE  PageInvariant' /\ StepsForward
<1>1. PICK r \in replies, kept \in BOOLEAN :
        /\ r.what = "retry"
        /\ replies' = Answered(r, kept, Blank)
        /\ ~kept => job' = job
        /\ kept => /\ r.job = 1 /\ job[2].state = "NONE"
                   /\ job' = [job EXCEPT ![2].state = "TORN"]
  BY DEF ServeRetry
<1>2. job \in [1..2 -> Jobs] /\ job[2] \in Jobs
  BY DEF PageInvariant, PageTypes
<1>3. [job[2] EXCEPT !.state = "TORN"] \in Jobs /\ [job[2] EXCEPT !.state = "TORN"].state # "NONE"
  BY <1>2 DEF Jobs, NoRecord
<1>4. ASSUME ~kept PROVE JobsGoOn
  BY <1>1, <1>2, <1>4 DEF JobsGoOn
<1>5. ASSUME kept PROVE JobsGoOn /\ job'[2].state # "NONE"
  <2>1. job' = [job EXCEPT ![2].state = "TORN"]
    BY <1>1, <1>5
  <2>2. job'[2] = [job[2] EXCEPT !.state = "TORN"] /\ job'[1] = job[1]
    BY <1>2, <2>1
  <2>3. job' = [i \in 1..2 |-> job'[i]]
    BY <1>2, <2>1
  <2>4. JobsGoOn
    BY <1>2, <1>3, <2>2, <2>3 DEF JobsGoOn
  <2> QED
    BY <1>3, <2>2, <2>4
<1>6. kept => page.url # 2
  BY <1>1 DEF PageInvariant, RetryKnows
<1>7. UNCHANGED <<page, events, stream, wire>>
  BY DEF ServeRetry
<1> QED
  BY <1>1, <1>4, <1>5, <1>6, <1>7, BlankIsTyped, ServeStep

LEMMA ReplyArrivesStep ==
  ASSUME PageInvariant, ReplyArrives
  PROVE  PageInvariant' /\ StepsForward
<1>1. PICK r \in replies :
        /\ r.what \in {"get", "cancel"} /\ replies' = replies \ {r}
        /\ page' = [page EXCEPT !.shown = IF r.is = "answered" THEN Show(r.reply) ELSE @,
                                !.busy = IF r.what = "cancel" THEN FALSE ELSE @,
                                !.mixed = @ \/ (r.is = "answered" /\ r.job # page.url)]
        /\ UNCHANGED <<job, events, stream, wire>>
  BY DEF ReplyArrives
<1>2. r.reply \in Summaries
  BY DEF PageInvariant, PageTypes, Requests
<1>3. /\ page'.shown = IF r.is = "answered" THEN Show(r.reply) ELSE page.shown
      /\ page' = [url |-> page.url, shown |-> page'.shown, busy |-> page'.busy, mixed |-> page'.mixed]
  BY <1>1 DEF PageInvariant, PageTypes
<1>4. /\ page'.shown \in Summaries
      /\ page'.shown.job = page.shown.job => page'.shown.revision >= page.shown.revision
  BY <1>2, <1>3, ShowGoesForward DEF PageInvariant, PageTypes, Summaries
<1>5. replies' \in SUBSET Requests /\ page.url # 0
  BY <1>1 DEF PageInvariant, PageTypes, PageIsBlank
<1>6. JobsGoOn
  BY <1>1 DEF JobsGoOn, PageInvariant, PageTypes
<1> QED
  BY <1>1, <1>3, <1>4, <1>5, <1>6, RequestStep
LEMMA ClickStep ==
  ASSUME PageInvariant, Refresh \/ PressCancel \/ PressRetry
  PROVE  PageInvariant' /\ StepsForward
<1> DEFINE press(what) == [what |-> what, job |-> page.url, is |-> "sent", reply |-> Blank]
<1>1. page.url \in 1..2
  BY DEF Refresh, PressCancel, PressRetry, Press, PageInvariant, PageTypes, PageIsBlank
<1>2. UNCHANGED <<job, events, stream, wire>>
  BY DEF Refresh, PressCancel, PressRetry, Press
<1>3. /\ page'.shown = page.shown
      /\ page' = [url |-> page.url, shown |-> page'.shown, busy |-> page'.busy, mixed |-> page'.mixed]
  BY DEF Refresh, PressCancel, PressRetry, Press, PageInvariant, PageTypes
<1>4. \/ replies' = Asking(replies, page.url)
      \/ \E what \in {"cancel", "retry"} : replies' = replies \cup {press(what)}
  BY DEF Refresh, PressCancel, PressRetry, Press
<1>5. \A what \in {"cancel", "retry"} :
        press(what) \in Requests /\ press(what).reply = Blank /\ ~Granted(press(what))
  BY <1>1, BlankIsTyped DEF Requests, Granted
<1> HIDE DEF press
<1>6. replies' \in SUBSET Requests
      /\ \A r \in replies' \ replies : r.what = "retry" => r.reply = Blank /\ ~Granted(r)
  BY <1>1, <1>4, <1>5, AskingIsTyped DEF PageInvariant, PageTypes
<1>7. JobsGoOn
  BY <1>2 DEF JobsGoOn, PageInvariant, PageTypes
<1>8. page'.shown \in Summaries /\ page'.shown.revision >= page.shown.revision
  BY <1>3 DEF PageInvariant, PageTypes, Summaries
<1> QED
  BY <1>1, <1>2, <1>3, <1>6, <1>7, <1>8, RequestStep

\* An opened stream starts anew, and the page with it; nobody is granted a retry of the second job.
LEMMA OpenStep ==
  ASSUME PageInvariant, OpenJob \/ RetryArrives
  PROVE  PageInvariant' /\ StepsForward
<1>1. CASE \E r \in replies : /\ r.what = "retry" /\ r.is = "refused" /\ replies' = replies \ {r}
                              /\ page' = [page EXCEPT !.busy = FALSE]
                              /\ UNCHANGED <<job, events, stream, wire>>
  <2>1. PICK r \in replies : /\ replies' = replies \ {r} /\ page' = [page EXCEPT !.busy = FALSE]
                             /\ UNCHANGED <<job, events, stream, wire>>
    BY <1>1
  <2>2. /\ page'.shown = page.shown
        /\ page' = [url |-> page.url, shown |-> page'.shown, busy |-> page'.busy, mixed |-> page'.mixed]
    BY <2>1 DEF PageInvariant, PageTypes
  <2>3. replies' \in SUBSET Requests /\ page.url # 0
    BY <2>1 DEF PageInvariant, PageTypes, PageIsBlank
  <2>4. JobsGoOn
    BY <2>1 DEF JobsGoOn, PageInvariant, PageTypes
  <2>5. page'.shown \in Summaries /\ page'.shown.revision >= page.shown.revision
    BY <2>2 DEF PageInvariant, PageTypes, Summaries
  <2> QED
    BY <2>1, <2>2, <2>3, <2>4, <2>5, RequestStep
<1>2. ASSUME NEW url \in 1..2, Open(url), UNCHANGED job, url # page.url,
             url = 2 => job[2].state # "NONE",
             NEW left \in SUBSET replies, \A r \in left : ~Granted(r) \/ url # 2,
             replies' = Asking(left, url)
      PROVE  PageInvariant' /\ StepsForward
  <2>1. /\ page' = [page EXCEPT !.url = url] /\ events' = [at |-> "connecting", last |-> -1]
        /\ stream' = Ended /\ wire' = <<>> /\ job' = job
    BY <1>2 DEF Open
  <2>2. /\ page'.url = url /\ page'.shown = page.shown
        /\ page' = [url |-> page'.url, shown |-> page'.shown, busy |-> page'.busy, mixed |-> page'.mixed]
    BY <2>1 DEF PageInvariant, PageTypes
  <2>3. replies' \in SUBSET Requests /\ \A r \in replies' : r \in left \/ r.what = "get"
    BY <1>2, AskingIsTyped DEF PageInvariant, PageTypes
  <2>4. PageTypes'
    BY <2>1, <2>2, <2>3 DEF PageInvariant, PageTypes, Ended
  <2>5. PageIsBlank'
    BY <2>2 DEF PageIsBlank
  <2>6. StreamKnows'
    BY <2>1 DEF StreamKnows, Ended
  <2>7. RetryKnows'
    BY <1>2, <2>1, <2>2, <2>3 DEF PageInvariant, RetryKnows, Granted
  <2>8. StepsForward
    BY <1>2, <2>1, <2>2 DEF StepsForward, PageInvariant, PageTypes, Summaries
  <2> QED
    BY <2>4, <2>5, <2>6, <2>7, <2>8 DEF PageInvariant
<1>3. CASE OpenJob
  <2>1. page.url = 0 /\ replies' = Asking(replies, 1) /\ Open(1) /\ UNCHANGED job
    BY <1>3 DEF OpenJob
  <2> QED
    BY <1>2, <2>1
<1>4. CASE \E r \in replies : /\ Granted(r) /\ Exists(2) /\ replies' = Asking(replies \ {r}, 2)
                              /\ Open(2) /\ UNCHANGED job
  <2>1. PICK r \in replies : /\ Granted(r) /\ Exists(2) /\ replies' = Asking(replies \ {r}, 2)
                             /\ Open(2) /\ UNCHANGED job
    BY <1>4
  <2>2. page.url # 2 /\ job[2].state # "NONE"
    BY <2>1 DEF PageInvariant, RetryKnows
  <2>3. ASSUME NEW s \in replies \ {r}, Granted(s) PROVE FALSE
    <3>1. r \in Requests /\ s \in Requests
      BY DEF PageInvariant, PageTypes
    <3>2. /\ r.what = s.what /\ r.job = s.job /\ r.is = s.is /\ r.reply = s.reply
      BY <2>1, <2>3 DEF PageInvariant, RetryKnows, Granted
    <3>3. r = s
      BY <3>1, <3>2 DEF Requests
    <3> QED
      BY <3>3
  <2> QED
    BY <1>2, <2>1, <2>2, <2>3
<1> QED
  BY <1>1, <1>3, <1>4 DEF RetryArrives, Granted

LEMMA ConnectStep ==
  ASSUME PageInvariant, Connect
  PROVE  PageInvariant' /\ StepsForward
<1>1. events.at = "connecting" /\ UNCHANGED <<job, page, wire>>
  BY DEF Connect
<1>2. page.url \in 1..2 /\ wire = <<>> /\ events.last \in Int
  BY <1>1 DEF PageInvariant, PageTypes, PageIsBlank, StreamKnows
<1>3. /\ events' \in [at : {"open", "failed"}, last : {events.last}]
      /\ \/ /\ events'.at = "open" /\ replies' = replies
            /\ stream' = [open |-> TRUE, current |-> events.last, polls |-> 0]
         \/ events'.at = "failed" /\ replies' = Asking(replies, page.url) /\ stream' = stream
  <2>1. events = [at |-> events.at, last |-> events.last]
    BY DEF PageInvariant, PageTypes
  <2> QED
    BY <2>1 DEF Connect
<1>4. replies' \in SUBSET Requests /\ \A r \in replies' : r \in replies \/ r.what = "get"
  BY <1>2, <1>3, AskingIsTyped DEF PageInvariant, PageTypes
<1>5. PageTypes'
  BY <1>1, <1>2, <1>3, <1>4 DEF PageInvariant, PageTypes
<1>6. PageIsBlank'
  BY <1>1, <1>2 DEF PageIsBlank
<1>7. StreamKnows'
  BY <1>1, <1>2, <1>3 DEF PageInvariant, StreamKnows
<1>8. RetryKnows'
  BY <1>1, <1>4 DEF PageInvariant, RetryKnows, Granted
<1>9. StepsForward
  BY <1>1, <1>2, <1>3 DEF StepsForward, PageInvariant, PageTypes, Summaries
<1> QED
  BY <1>5, <1>6, <1>7, <1>8, <1>9 DEF PageInvariant

\* What a stream sends is newer than all that it has sent.
LEMMA PollStep ==
  ASSUME PageInvariant, Poll
  PROVE  PageInvariant' /\ StepsForward
<1> DEFINE now == Summary(page.url)
<1>1. stream.open /\ UNCHANGED <<job, page, events, replies>>
  BY DEF Poll
<1>2. page.url \in 1..2 /\ events.at = "open"
  BY <1>1 DEF PageInvariant, PageTypes, PageIsBlank, StreamKnows
<1>3. now \in Summaries /\ now.revision \in Int
  BY <1>2, SummaryIsTyped DEF PageInvariant, Summaries
<1>4. \/ wire' = wire /\ stream'.current = stream.current
      \/ wire' = Append(wire, now) /\ now.revision > stream.current /\ stream'.current = now.revision
  BY DEF Poll, PollSends
<1> HIDE DEF now
<1>5. wire \in Seq(Summaries) /\ stream.current \in Int /\ events.last \in Int
      /\ \A k \in 1..Len(wire) : wire[k].revision \in Int
  <2>1. wire \in Seq(Summaries) /\ stream.current \in Int /\ events.last \in Int
    BY DEF PageInvariant, PageTypes
  <2>2. \A k \in 1..Len(wire) : wire[k] \in Summaries
    BY <2>1
  <2> QED
    BY <2>1, <2>2 DEF Summaries
<1>6. wire' \in Seq(Summaries) /\ stream'.current \in Int
  <2>1. Append(wire, now) \in Seq(Summaries)
    BY <1>3, <1>5
  <2> QED
    BY <1>3, <1>4, <1>5, <2>1
<1>7. /\ stream'.current >= events.last
      /\ \A k \in 1..Len(wire') : /\ wire'[k].revision > events.last
                                  /\ wire'[k].revision <= stream'.current
      /\ \A k, l \in 1..Len(wire') : k < l => wire'[k].revision < wire'[l].revision
  <2>1. /\ stream.current >= events.last
        /\ \A k \in 1..Len(wire) : wire[k].revision > events.last /\ wire[k].revision <= stream.current
        /\ \A k, l \in 1..Len(wire) : k < l => wire[k].revision < wire[l].revision
    BY <1>1 DEF PageInvariant, StreamKnows
  <2>2. CASE wire' = wire /\ stream'.current = stream.current
    BY <2>1, <2>2
  <2>3. CASE wire' = Append(wire, now) /\ now.revision > stream.current /\ stream'.current = now.revision
    <3>1. /\ Len(wire') = Len(wire) + 1 /\ wire'[Len(wire) + 1] = now
          /\ \A k \in 1..Len(wire) : wire'[k] = wire[k]
          /\ Len(wire) \in Nat
      BY <1>3, <1>5, <2>3
    <3>2. \A k \in 1..Len(wire') : k \in 1..Len(wire) \/ (k = Len(wire) + 1 /\ wire'[k] = now)
      BY <3>1
    <3>3. stream'.current >= events.last /\ now.revision > events.last
      BY <1>3, <1>5, <2>1, <2>3
    <3>4. \A k \in 1..Len(wire) : wire'[k].revision > events.last
                                   /\ wire'[k].revision < now.revision
      BY <1>3, <1>5, <2>1, <2>3, <3>1
    <3>5. \A k \in 1..Len(wire') : wire'[k].revision > events.last
                                    /\ wire'[k].revision <= stream'.current
      BY <1>3, <1>5, <2>3, <3>1, <3>2, <3>3, <3>4
    <3>6. ASSUME NEW k \in 1..Len(wire'), NEW l \in 1..Len(wire'), k < l
          PROVE  wire'[k].revision < wire'[l].revision
      <4>1. k \in 1..Len(wire)
        BY <3>1, <3>6
      <4>2. CASE l \in 1..Len(wire)
        BY <2>1, <3>1, <3>6, <4>1, <4>2
      <4>3. CASE l = Len(wire) + 1
        BY <3>1, <3>4, <4>1, <4>3
      <4> QED
        BY <3>2, <4>2, <4>3
    <3> QED
      BY <3>3, <3>5, <3>6
  <2> QED
    BY <1>4, <2>2, <2>3
<1>8. PageTypes'
  BY <1>1, <1>6 DEF PageInvariant, PageTypes
<1>9. StreamKnows'
  BY <1>1, <1>2, <1>7 DEF StreamKnows
<1>10. PageIsBlank' /\ RetryKnows'
  BY <1>1 DEF PageInvariant, PageIsBlank, RetryKnows
<1>11. StepsForward
  <2>1. DOMAIN wire' = 1..Len(wire')
    BY <1>6
  <2> QED
    BY <1>1, <1>5, <1>7, <2>1 DEF StepsForward, PageInvariant, PageTypes, Summaries
<1> QED
  BY <1>8, <1>9, <1>10, <1>11 DEF PageInvariant

LEMMA DeliverStep ==
  ASSUME PageInvariant, Deliver
  PROVE  PageInvariant' /\ StepsForward
<1> DEFINE event == Head(wire)
<1>1. /\ events.at = "open" /\ wire # <<>> /\ UNCHANGED <<job, replies>>
      /\ page' = [page EXCEPT !.shown = Show(event)]
      /\ \/ /\ events' = [at |-> "closed", last |-> event.revision]
            /\ wire' = <<>> /\ stream' = Ended
         \/ /\ events' = [at |-> "open", last |-> event.revision]
            /\ wire' = Tail(wire) /\ stream' = stream
  BY DEF Deliver
<1>2. wire \in Seq(Summaries) /\ Len(wire) \in Nat \ {0} /\ event = wire[1] /\ event \in Summaries
  BY <1>1 DEF PageInvariant, PageTypes
<1>3. event.revision \in Int /\ events.last \in Int /\ event.revision > events.last
  BY <1>2 DEF PageInvariant, PageTypes, StreamKnows, Summaries
<1>4. page.url \in 1..2
  BY <1>1 DEF PageInvariant, PageTypes, PageIsBlank
<1>5. /\ page'.url = page.url /\ page'.shown = Show(event)
      /\ page' = [url |-> page'.url, shown |-> page'.shown, busy |-> page'.busy, mixed |-> page'.mixed]
  BY <1>1 DEF PageInvariant, PageTypes
<1>6. /\ Show(event) \in Summaries
      /\ Show(event).job = page.shown.job => Show(event).revision >= page.shown.revision
  BY <1>2, ShowGoesForward DEF PageInvariant
<1> HIDE DEF event
<1>7. events'.last = event.revision
  BY <1>1
<1>8. /\ wire' \in Seq(Summaries) /\ Len(wire') \in Nat
      /\ \A k \in 1..Len(wire') : k + 1 \in 1..Len(wire) /\ wire'[k] = wire[k + 1]
  <2>1. CASE wire' = <<>>
    BY <2>1
  <2>2. CASE wire' = Tail(wire)
    <3>1. /\ Tail(wire) \in Seq(Summaries) /\ Len(Tail(wire)) = Len(wire) - 1
          /\ \A k \in 1..(Len(wire) - 1) : Tail(wire)[k] = wire[k + 1]
      BY <1>1, <1>2
    <3> QED
      BY <1>2, <2>2, <3>1
  <2> QED
    BY <1>1, <2>1, <2>2
<1>9. PageTypes'
  BY <1>1, <1>3, <1>4, <1>5, <1>6, <1>8 DEF PageInvariant, PageTypes, Ended
<1>10. \A k \in 1..Len(wire') : wire'[k].revision > events'.last
  <2>1. \A k \in 1..Len(wire') : wire[1].revision < wire[k + 1].revision
    BY <1>2, <1>8 DEF PageInvariant, StreamKnows
  <2> QED
    BY <1>2, <1>3, <1>7, <1>8, <2>1
<1>11. StreamKnows'
  <2>1. events'.at # "open" => wire' = <<>> /\ ~stream'.open
    BY <1>1 DEF Ended
  <2>2. \A k, l \in 1..Len(wire') : k < l => wire'[k].revision < wire'[l].revision
    BY <1>8 DEF PageInvariant, StreamKnows
  <2>3. stream'.open => stream.open /\ stream' = stream
    BY <1>1 DEF Ended
  <2>4. stream'.open => /\ stream'.current >= events'.last
                        /\ \A k \in 1..Len(wire') : wire'[k].revision <= stream'.current
    <3>1. stream'.open => \A k \in 1..Len(wire) : wire[k].revision <= stream.current
      BY <2>3 DEF PageInvariant, StreamKnows
    <3>2. stream.current \in Int
      BY DEF PageInvariant, PageTypes
    <3>3. 1 \in 1..Len(wire) /\ wire[1].revision = event.revision
      BY <1>2
    <3>4. stream'.open => event.revision <= stream.current
      BY <3>1, <3>3
    <3> QED
      BY <1>3, <1>7, <1>8, <2>3, <3>1, <3>2, <3>4
  <2> QED
    BY <1>10, <2>1, <2>2, <2>4 DEF StreamKnows
<1>12. PageIsBlank' /\ RetryKnows'
  BY <1>1, <1>4, <1>5 DEF PageInvariant, PageIsBlank, RetryKnows
<1>13. StepsForward
  <2>1. DOMAIN wire' = 1..Len(wire')
    BY <1>8
  <2> QED
    BY <1>3, <1>5, <1>6, <1>7, <1>10, <2>1 DEF StepsForward
<1> QED
  BY <1>9, <1>11, <1>12, <1>13 DEF PageInvariant

\* A stream that ends or breaks off takes with it what was on its way; the page has its last id.
LEMMA LoseStep ==
  ASSUME PageInvariant, NEW requests \in SUBSET Requests, JobsGoOn, UNCHANGED page,
         \/ events.at = "open" /\ Lose(requests)
         \/ replies' = requests /\ UNCHANGED <<events, stream, wire>>,
         page.url # 0,
         \A r \in requests : /\ r.what = "retry" => r.reply = Blank
                             /\ Granted(r) => r \in replies
  PROVE  PageInvariant' /\ StepsForward
<1>1. page.url \in 1..2
  BY DEF PageInvariant, PageTypes
<1>2. replies' \in SUBSET Requests /\ \A r \in replies' : r \in requests \/ r.what = "get"
  BY <1>1, AskingIsTyped DEF Lose
<1>3. RetryKnows'
  BY <1>2 DEF PageInvariant, RetryKnows, JobsGoOn, Granted
<1>4. CASE events.at = "open" /\ Lose(requests)
  <2>1. /\ events' = [events EXCEPT !.at = "connecting"] /\ stream' = Ended /\ wire' = <<>>
    BY <1>4 DEF Lose
  <2>2. events' \in [at : {"closed", "connecting", "open", "failed"}, last : Int]
        /\ events'.last = events.last /\ events.last \in Int
    BY <2>1 DEF PageInvariant, PageTypes
  <2>3. PageTypes'
    BY <1>2, <2>1, <2>2 DEF PageInvariant, PageTypes, JobsGoOn, Ended
  <2>4. PageIsBlank' /\ StreamKnows'
    BY <1>1, <2>1 DEF PageIsBlank, StreamKnows, Ended
  <2>5. StepsForward
    BY <2>1, <2>2 DEF StepsForward, PageInvariant, PageTypes, Summaries
  <2> QED
    BY <1>3, <2>3, <2>4, <2>5 DEF PageInvariant
<1>5. CASE replies' = requests /\ UNCHANGED <<events, stream, wire>>
  <2>1. PageTypes'
    BY <1>2, <1>5 DEF PageInvariant, PageTypes, JobsGoOn
  <2>2. PageIsBlank' /\ StreamKnows'
    BY <1>1, <1>5 DEF PageInvariant, PageIsBlank, StreamKnows
  <2>3. DOMAIN wire = 1..Len(wire) /\ events.last \in Int /\ page.shown.revision \in Int
    BY DEF PageInvariant, PageTypes, Summaries
  <2>4. StepsForward
    BY <1>5, <2>3 DEF PageInvariant, StepsForward, StreamKnows
  <2> QED
    BY <1>3, <2>1, <2>2, <2>4 DEF PageInvariant
<1> QED
  BY <1>4, <1>5

LEMMA StreamEndsStep ==
  ASSUME PageInvariant, StreamEnds \/ Break
  PROVE  PageInvariant' /\ StepsForward
<1>1. events.at = "open" /\ Lose(replies) /\ UNCHANGED <<job, page>>
  BY DEF StreamEnds, Break
<1>2. page.url # 0 /\ replies \in SUBSET Requests
  BY <1>1 DEF PageInvariant, PageTypes, PageIsBlank
<1>3. JobsGoOn
  BY <1>1 DEF JobsGoOn, PageInvariant, PageTypes
<1>4. \A r \in replies : r.what = "retry" => r.reply = Blank
  BY DEF PageInvariant, RetryKnows
<1> QED
  BY <1>1, <1>2, <1>3, <1>4, LoseStep

LEMMA PageDiesStep ==
  ASSUME PageInvariant, PageDies
  PROVE  PageInvariant' /\ StepsForward
<1> DEFINE refused(r) == [r EXCEPT !.is = IF @ = "sent" THEN "refused" ELSE @]
           unanswered == {refused(r) : r \in replies}
<1>1. /\ page.url # 0 /\ UNCHANGED page
      /\ \/ events.at = "open" /\ Lose(unanswered)
         \/ replies' = unanswered /\ UNCHANGED <<events, stream, wire>>
  BY DEF PageDies
<1>2. JobsGoOn
  <2>1. job' = [j \in 1..2 |-> IF job[j].state \in TransientStates
                                 THEN Updated(job[j], "INTERRUPTED", FALSE, NoError) ELSE job[j]]
    BY DEF PageDies
  <2>2. \A j \in 1..2 : job[j] \in Jobs
    BY DEF PageInvariant, PageTypes
  <2>3. "INTERRUPTED" \in JobStates \cup {Same}
    BY DEF JobStates, TerminalStates
  <2>4. \A j \in 1..2 : /\ Updated(job[j], "INTERRUPTED", FALSE, NoError) \in Jobs
                        /\ job[j].state # "NONE" =>
                             Updated(job[j], "INTERRUPTED", FALSE, NoError).state # "NONE"
    BY <2>2, <2>3, UpdatedIsTyped
  <2>5. \A j \in 1..2 : job'[j] \in Jobs /\ (job[j].state # "NONE" => job'[j].state # "NONE")
    BY <2>1, <2>2, <2>4
  <2>6. job' = [j \in 1..2 |-> job'[j]]
    BY <2>1
  <2> QED
    BY <2>5, <2>6 DEF JobsGoOn
<1>3. ASSUME NEW r \in replies
      PROVE  /\ refused(r) \in Requests
             /\ refused(r).what = "retry" => refused(r).reply = Blank
             /\ Granted(refused(r)) => refused(r) = r
  <2>1. r \in Requests /\ (r.what = "retry" => r.reply = Blank)
    BY DEF PageInvariant, PageTypes, RetryKnows
  <2>2. CASE r.is = "sent"
    <3>1. refused(r) = [what |-> r.what, job |-> r.job, is |-> "refused", reply |-> r.reply]
      BY <2>1, <2>2 DEF Requests
    <3> QED
      BY <2>1, <3>1 DEF Requests, Granted
  <2>3. CASE r.is # "sent"
    <3>1. refused(r) = r
      BY <2>1, <2>3 DEF Requests
    <3> QED
      BY <2>1, <3>1
  <2> QED
    BY <2>2, <2>3
<1>4. unanswered \in SUBSET Requests
      /\ \A r \in unanswered : /\ r.what = "retry" => r.reply = Blank
                               /\ Granted(r) => r \in replies
  BY <1>3
<1> HIDE DEF unanswered
<1> QED
  BY <1>1, <1>2, <1>4, LoseStep

LEMMA PageKept ==
  ASSUME PageInvariant, [Next]_vars
  PROVE  PageInvariant' /\ [StepsForward]_pageVars
<1>1. CASE UNCHANGED pageVars
  BY <1>1 DEF pageVars, PageInvariant, PageTypes, PageIsBlank, StreamKnows, RetryKnows
<1>2. CASE SignIn \/ Overview \/ UseOfInputs \/ UNCHANGED vars
  BY <1>1, <1>2 DEF SignIn, Overview, UseOfInputs, vars
<1>3. CASE Progress
  BY <1>3, WorkStep, ClickStep, OpenStep, ServeGetStep, ServeCancelStep, ServeRetryStep, PollStep,
     ReplyArrivesStep, ConnectStep, DeliverStep, StreamEndsStep
     DEF Progress, WatchJob, Click, Server, Browser
<1>4. CASE Dies
  BY <1>1, <1>4, PageDiesStep DEF Dies
<1> QED
  BY <1>2, <1>3, <1>4 DEF Next

\* Whatever is late, lost or asked for again, through any number of retries of the stream and
\* starts of the process: a page never goes back to an older revision of the job it shows, and a
\* stream taken up again repeats nothing (routes_jobs.py, JobProgress.tsx).
THEOREM PageTheorem == Spec => PageNeverGoesBack
<1>1. Spec => []PageInvariant
  BY InitPage, PageKept, PTL DEF Spec
<1>2. PageInvariant /\ [Next]_vars => [StepsForward]_pageVars
  BY PageKept
<1> QED
  BY <1>1, <1>2, PTL DEF Spec, PageNeverGoesBack
=============================================================================
