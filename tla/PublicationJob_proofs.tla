------------------------ MODULE PublicationJob_proofs ------------------------
(***************************************************************************)
(* Proofs about PublicationJob, for any number of chunks, sessions,        *)
(* foreign commits, failed calls, deaths and retries.                      *)
(***************************************************************************)
EXTENDS PublicationJob, SequenceTheorems, TLAPS

USE ServicesAssumption, PublicationBoundsAssumption

(* The services: main grows, an empty commit is only the first of a         *)
(* repository, tags name commits.                                           *)
NoRelease == \A i \in DOMAIN main : main[i] # "release"
OneRelease == \A i, j \in DOMAIN main : main[i] = "release" /\ main[j] = "release" => i = j
EmptyFirst == \A i \in DOMAIN main : main[i] = "empty" => i = 1
ParentIsOther == parent = 1 => main # <<>> /\ main[1] = "other"
TagsName == \A t \in Tags : tags[t] \in {0} \cup DOMAIN main
ServicesInv == ServicesTypeOK /\ OneRelease /\ EmptyFirst /\ ParentIsOther /\ TagsName

(* What no step takes back.                                                 *)
Kept ==
    /\ Videos \subseteq Videos'
    /\ DOMAIN main \subseteq DOMAIN main'
    /\ \A i \in DOMAIN main : main'[i] = main[i]
    /\ \A t \in Tags : tags[t] # 0 => tags'[t] = tags[t]

(* A document: has it a session, is its commit on main, is what it says     *)
(* succeeded there?                                                         *)
Releases(c) == c \in DOMAIN main /\ main[c] = "release" /\ \A t \in Tags : tags[t] = c
Early == {"admitted", "validated"}
Committed == {"huggingface_committed", "huggingface_tagged", "huggingface_verified",
              "containers_complete", "succeeded"}
Fits(d) ==
    /\ d.phase \in Early => d.session = NoSession
    /\ d.phase \notin Early \cup {"canceled"} => d.session # NoSession
    /\ d.phase \in Committed => d.commit \in DOMAIN main
    /\ d.phase = "succeeded" => d.video \in Videos /\ Releases(d.commit)

(* All copies of the document have one session, and only it has chunks.     *)
FileOK == Fits(file)
StateOK == pc # "off" => state.session = file.session /\ Fits(state)
EditOK ==
    edit # Unread =>
        edit.session = file.session /\ Fits(edit) /\ edit.phase = "youtube_uncertain"
SentOK == \A s \in Sessions : sent[s] > 0 => file.session = s

(* Where the worker stands inside a phase.                                  *)
Uploads == {"youtube_session", "youtube_uncertain"}
Before == {"create", "created", "validated", "commit", "commit_created"}
OnMain == Before \cup {"changed", "recover", "committed"}
PlacedOpened == pc = "opened" => state.phase = "validated" /\ hand \in Sessions
PlacedChunks ==
    /\ pc \in {"chunks", "uploaded"} => state.phase \in Uploads
    /\ pc = "chunks" => hand = sent[state.session] /\ hand < Chunks
    /\ pc = "uploaded" => hand = state.session
PlacedOnMain ==
    /\ pc \in OnMain => state.phase = "release_built"
    /\ pc \in Before => NoRelease
    /\ pc = "commit" => hand = parent \/ (main # <<>> /\ hand = 1 /\ main[1] = "empty")
    /\ pc \in {"changed", "committed"} => hand \in DOMAIN main
Placed == PlacedOpened /\ PlacedChunks /\ PlacedOnMain

AllDone == Videos # {} /\ \E c \in DOMAIN main : Releases(c)
ResultOK ==
    /\ result = "succeeded" => AllDone
    /\ pc = "finish" => result # "none"
JobOK == job = "succeeded" => AllDone

IInv ==
    /\ PublicationTypeOK /\ ServicesInv
    /\ FileOK /\ StateOK /\ EditOK /\ SentOK
    /\ Placed /\ ResultOK /\ JobOK

-----------------------------------------------------------------------------
(* What stays                                                              *)

LEMMA ReleasesStay ==
  ASSUME ServicesTypeOK, Kept, NEW c \in Nat, Releases(c)
  PROVE  Releases(c)'
<1>1. c # 0
  BY DEF Releases, ServicesTypeOK
<1> QED
  BY <1>1 DEF Releases, Kept

LEMMA FitsStays ==
  ASSUME ServicesTypeOK, Kept, NEW d \in Files, Fits(d)
  PROVE  Fits(d)'
<1>1. d.commit \in Nat
  BY DEF Files
<1>2. Releases(d.commit) => Releases(d.commit)'
  BY <1>1, ReleasesStay
<1> QED
  BY <1>2 DEF Fits, Kept

LEMMA DoneStays ==
  ASSUME Kept, ServicesTypeOK, AllDone
  PROVE  AllDone'
<1>1. PICK c \in DOMAIN main : Releases(c)
  BY DEF AllDone
<1>2. c \in Nat
  BY DEF ServicesTypeOK
<1>3. Releases(c)'
  BY <1>1, <1>2, ReleasesStay
<1> QED
  BY <1>1, <1>3 DEF AllDone, Kept

LEMMA QuietServices ==
  ASSUME ServicesInv, UNCHANGED <<youtube, huggingface, parent>>
  PROVE  ServicesInv' /\ Kept
BY DEF ServicesInv, ServicesTypeOK, OneRelease, EmptyFirst, ParentIsOther, TagsName, Kept,
       Videos, youtube, huggingface

-----------------------------------------------------------------------------
(* A step of the worker, by what it does to the document                   *)

Places == {"next", "opened", "chunks", "uploaded", "finish"} \cup OnMain
Outcomes == {"none", "retry_wait", "blocked", "failed", "canceled", "succeeded"}

LEMMA PlacesTyped ==
  Places \cup {"off"} = {"off", "next", "opened", "chunks", "uploaded", "commit",
                          "commit_created", "committed", "finish"} \cup Calls
BY DEF Places, OnMain, Before, Calls

Jobs == {"queued", "running", "blocked", "failed", "canceled", "succeeded"}

\* A step that leaves the copies of the document with one session and fitting keeps the
\* invariant.
LEMMA StepKeeps ==
  ASSUME IInv, Kept, ServicesInv',
         NEW doc \in Files, doc.session = file.session, Fits(doc)',
         file' = file \/ file' = doc,
         state' \in Files,
         pc' # "off" => state' = doc \/ (state' = state /\ pc # "off"),
         edit' = edit \/ edit' = Unread \/ (edit' = doc /\ doc.phase = "youtube_uncertain"),
         pc' \in Places \cup {"off"}, hand' \in Nat, result' \in Outcomes, job' \in Jobs,
         cancel' \in BOOLEAN, parent' = parent, faults' \in 0..MaxFaults,
         deaths' \in 0..MaxDeaths, retries' \in 0..MaxRetries,
         ResultOK', JobOK', Placed', SentOK'
  PROVE  IInv'
<1>1. PublicationTypeOK'
  <2>1. Unread \in Files
    BY DEF Unread, Admitted, Files, Phases, NoSession, NoVideo, VideoIds, OtherVideo
  <2> QED
    BY <2>1, PlacesTyped DEF IInv, PublicationTypeOK, ServicesInv, Outcomes, Jobs
<1>2. file'.session = file.session
  OBVIOUS
<1>3. ASSUME NEW d \in Files, Fits(d) PROVE Fits(d)'
  BY <1>3, FitsStays DEF IInv, ServicesInv
<1>4. FileOK'
  <2>1. CASE file' = file
    <3>1. file \in Files /\ Fits(file)
      BY DEF IInv, PublicationTypeOK, FileOK
    <3>2. PICK d \in Files : d = file
      BY <3>1
    <3>3. Fits(d)'
      BY <1>3, <3>1, <3>2
    <3> QED
      BY <2>1, <3>2, <3>3 DEF FileOK, Fits, Releases
  <2>2. CASE file' = doc
    BY <2>2 DEF FileOK, Fits, Releases
  <2> QED
    BY <2>1, <2>2
<1>5. StateOK'
  <2>1. CASE pc' # "off" /\ state' = doc
    BY <1>2, <2>1 DEF StateOK, Fits, Releases
  <2>2. CASE pc # "off" /\ state' = state
    <3>1. state \in Files /\ Fits(state) /\ state.session = file.session
      BY <2>2 DEF IInv, PublicationTypeOK, StateOK
    <3>2. PICK d \in Files : d = state
      BY <3>1
    <3>3. Fits(d)'
      BY <1>3, <3>1, <3>2
    <3> QED
      BY <1>2, <2>2, <3>1, <3>2, <3>3 DEF StateOK, Fits, Releases
  <2>3. CASE pc' = "off"
    BY <2>3 DEF StateOK
  <2> QED
    BY <2>1, <2>2, <2>3
<1>6. EditOK'
  <2>1. CASE edit' = edit /\ edit # Unread
    <3>1. edit.session = file.session /\ Fits(edit) /\ edit.phase = "youtube_uncertain"
      BY <2>1 DEF IInv, EditOK
    <3> QED
      BY <1>2, <2>1, <3>1 DEF EditOK, Fits, Early, Committed
  <2>2. CASE edit' = Unread
    BY <2>2 DEF EditOK, Unread, Admitted
  <2>3. CASE edit' = doc /\ doc.phase = "youtube_uncertain"
    BY <1>2, <2>3 DEF EditOK, Fits, Early, Committed
  <2>4. CASE edit' = edit /\ edit = Unread
    BY <2>2, <2>4
  <2> QED
    BY <2>1, <2>2, <2>3, <2>4
<1> QED
  BY <1>1, <1>4, <1>5, <1>6 DEF IInv

\* A worker that has a document of its session, which fits, keeps the invariant.
LEMMA WorkerKeeps ==
  ASSUME IInv, Kept, ServicesInv',
         NEW doc \in Files, doc.session = file.session, Fits(doc)',
         file' = file \/ file' = doc, state' = doc,
         pc' \in Places, hand' \in Nat, result' \in Outcomes, ResultOK', Placed', SentOK',
         UNCHANGED rest, faults' \in 0..MaxFaults
  PROVE  IInv'
<1>1. JobOK'
  BY DoneStays DEF IInv, JobOK, ServicesInv, rest
<1>2. /\ edit' = edit /\ parent' = parent /\ job' \in Jobs /\ cancel' \in BOOLEAN
      /\ deaths' \in 0..MaxDeaths /\ retries' \in 0..MaxRetries
  BY DEF IInv, PublicationTypeOK, rest, Jobs
<1> QED
  BY <1>1, <1>2, StepKeeps

\* It saves a document, told of a cancel request or not.
LEMMA SavedKeeps ==
  ASSUME IInv, Kept, ServicesInv', pc # "off",
         \A s \in Sessions : sent'[s] > 0 => file.session = s,
         NEW doc \in Files, doc.session = file.session, Fits(doc),
         Saved(doc) \/ Checked(doc) \/ Ends("blocked", doc) \/ Ends("retry_wait", doc),
         UNCHANGED rest, faults' \in 0..MaxFaults
  PROVE  IInv'
<1>2. PICK saved \in Files :
        /\ saved.session = file.session /\ Fits(saved)
        /\ Save(saved) /\ pc' \in {"next", "finish"} /\ hand' = 0
        /\ \/ pc' = "next" /\ result' = result
           \/ result' \in {"retry_wait", "blocked", "canceled"}
  <2>1. CASE Saved(doc) \/ Ends("blocked", doc) \/ Ends("retry_wait", doc)
    BY <2>1 DEF Saved, Ends, Go
  <2>2. CASE Checked(doc)
    <3>1. CASE cancel
      <4> DEFINE saved == [doc EXCEPT !.phase = "canceled"]
      <4>1. saved \in Files /\ saved.session = file.session
        BY DEF Files, Phases
      <4>2. Fits(saved)
        BY DEF Fits, Files, Early, Committed
      <4>3. Ends("canceled", saved)
        BY <2>2, <3>1 DEF Checked
      <4> QED
        BY <4>1, <4>2, <4>3 DEF Ends
    <3>2. CASE ~cancel
      BY <2>2, <3>2 DEF Checked, Saved, Go
    <3> QED
      BY <3>1, <3>2
  <2> QED
    BY <2>1, <2>2
<1>3. Fits(saved)'
  BY <1>2, FitsStays DEF IInv, ServicesInv
<1>4. file' = saved /\ state' = saved
  BY <1>2 DEF Save
<1>5. pc' \in Places /\ hand' \in Nat /\ result' \in Outcomes
  BY <1>2 DEF Places, Outcomes, IInv, PublicationTypeOK
<1>6. ResultOK'
  BY <1>2, DoneStays DEF IInv, ResultOK, ServicesInv
<1>7. Placed'
  BY <1>2 DEF Placed, PlacedOpened, PlacedChunks, PlacedOnMain, OnMain, Before
<1>8. SentOK'
  BY <1>2, <1>4 DEF SentOK
<1> QED
  BY <1>2, <1>3, <1>4, <1>5, <1>6, <1>7, <1>8, WorkerKeeps

\* It goes on inside a phase.
LEMMA GoKeeps ==
  ASSUME IInv, Kept, ServicesInv', pc # "off", UNCHANGED document,
         NEW place \in Places, place # "finish",
         NEW value \in Nat, Go(place, value), Placed', SentOK',
         UNCHANGED rest, faults' \in 0..MaxFaults
  PROVE  IInv'
<1>1. state \in Files /\ state.session = file.session /\ Fits(state)
  BY DEF IInv, PublicationTypeOK, StateOK
<1>2. PICK doc \in Files : doc = state
  BY <1>1
<1>3. Fits(doc)
  BY <1>1, <1>2
<1>4. Fits(doc)'
  BY <1>3, FitsStays DEF IInv, ServicesInv
<1>5. /\ file' = file /\ state' = doc /\ pc' = place /\ hand' = value /\ result' = result
      /\ doc.session = file.session
  BY <1>1, <1>2 DEF document, Go
<1>6. ResultOK' /\ result' \in Outcomes
  BY <1>5, DoneStays DEF IInv, ResultOK, ServicesInv, PublicationTypeOK, Outcomes
<1> QED
  BY <1>4, <1>5, <1>6, WorkerKeeps

\* The same, with services that stand still.
LEMMA QuietlySaved ==
  ASSUME IInv, UNCHANGED <<youtube, huggingface>>, pc # "off",
         NEW doc \in Files, doc.session = file.session, Fits(doc),
         Saved(doc) \/ Checked(doc) \/ Ends("blocked", doc) \/ Ends("retry_wait", doc),
         UNCHANGED rest, faults' \in 0..MaxFaults
  PROVE  IInv'
<1>1. ServicesInv' /\ Kept
  BY QuietServices DEF IInv, rest
<1>2. \A s \in Sessions : sent'[s] > 0 => file.session = s
  BY DEF IInv, SentOK, youtube
<1> QED
  BY <1>1, <1>2, SavedKeeps

\* A worker has the document of its session.
LEMMA Copied ==
  ASSUME IInv, pc # "off"
  PROVE  state \in Files /\ state.session = file.session /\ Fits(state)
BY DEF IInv, PublicationTypeOK, StateOK

\* The next phase, its commit there if there must be one.
LEMMA NextPhase ==
  ASSUME IInv, pc # "off", NEW phase \in Phases \ {"succeeded"},
         phase \in Early => state.phase \in Early,
         phase \notin Early \cup {"canceled"} => state.phase \notin Early \cup {"canceled"},
         phase \in Committed => state.phase \in Committed
  PROVE  /\ At(phase) \in Files /\ At(phase).session = file.session /\ Fits(At(phase))
         /\ At(phase).phase = phase
BY Copied DEF At, Files, Fits

\* The steps that check something and save the next phase.
LEMMA CheckKeeps ==
  ASSUME IInv, UNCHANGED <<faults, rest>>,
         \/ Validate \/ CheckVideo \/ UploadThumbnail \/ BuildRelease \/ SaveTags
         \/ VerifyRelease \/ AdvanceContainers
  PROVE  IInv'
<1> USE DEF In
<1>0. faults' \in 0..MaxFaults
  BY DEF IInv, PublicationTypeOK
<1>1. PICK phase \in Phases \ {"succeeded"} :
        /\ phase \in Early => state.phase \in Early
        /\ phase \notin Early \cup {"canceled"} => state.phase \notin Early \cup {"canceled"}
        /\ phase \in Committed => state.phase \in Committed
        /\ \/ Checked(At(phase)) \/ Ends("retry_wait", At(phase))
           \/ Blocked(state) /\ state.phase # "succeeded"
  BY DEF Validate, CheckVideo, UploadThumbnail, BuildRelease, SaveTags, VerifyRelease,
         AdvanceContainers, Phases, Early, Committed
<1>2. pc # "off" /\ UNCHANGED <<youtube, huggingface>>
  BY DEF Validate, CheckVideo, UploadThumbnail, BuildRelease, SaveTags, VerifyRelease,
         AdvanceContainers
<1>3. PICK doc \in Files :
        /\ doc.session = file.session /\ Fits(doc)
        /\ Checked(doc) \/ Ends("retry_wait", doc) \/ Ends("blocked", doc)
  BY <1>1, <1>2, NextPhase, Copied DEF Blocked
<1> QED
  BY <1>0, <1>2, <1>3, QuietlySaved

-----------------------------------------------------------------------------
(* YouTube                                                                 *)

\* A document with a session fits early, and then with any video.
LEMMA Uploaded ==
  ASSUME IInv, pc # "off", state.phase \notin Early \cup {"canceled"}, NEW v \in VideoIds
  PROVE  /\ [At("youtube_uploaded") EXCEPT !.video = v] \in Files
         /\ [At("youtube_uploaded") EXCEPT !.video = v].session = file.session
         /\ Fits([At("youtube_uploaded") EXCEPT !.video = v])
BY Copied DEF At, Files, Fits, Phases, Early, Committed

\* The chunks of a session that takes one more.
LEMMA SendStays ==
  ASSUME IInv, pc = "chunks", Send(state.session), UNCHANGED <<huggingface, parent>>
  PROVE  /\ ServicesInv' /\ Kept
         /\ \A s \in Sessions : sent'[s] > 0 => file.session = s
         /\ state.session \in Sessions
         /\ sent'[state.session] = hand + 1 /\ hand + 1 \in Nat /\ hand + 1 <= Chunks
<1>1. state.session = file.session /\ state.session \in Sessions
  <2>1. state.session \in 0..MaxSessions /\ state.session # 0
    BY Copied DEF IInv, Placed, PlacedChunks, Uploads, Fits, Early, Files, NoSession
  <2> QED
    BY <2>1, Copied DEF Sessions
<1>2. /\ sent \in [Sessions -> 0..Chunks] /\ hand = sent[state.session] /\ hand < Chunks
      /\ sent' = [sent EXCEPT ![state.session] = @ + 1]
  BY DEF IInv, ServicesInv, ServicesTypeOK, Placed, PlacedChunks, Send
<1>3. hand \in Nat /\ sent'[state.session] = hand + 1 /\ sent' \in [Sessions -> 0..Chunks]
  BY <1>1, <1>2
<1>4. Videos \subseteq Videos'
  BY <1>1, <1>2 DEF Videos
<1>5. Kept
  BY <1>4 DEF Kept, huggingface
<1>6. ServicesInv'
  BY <1>3 DEF IInv, ServicesInv, ServicesTypeOK, OneRelease, EmptyFirst, ParentIsOther,
     TagsName, Send, huggingface
<1>7. \A s \in Sessions : sent'[s] > 0 => file.session = s
  <2> SUFFICES ASSUME NEW s \in Sessions, sent'[s] > 0, s # state.session PROVE file.session = s
    BY <1>1
  <2>1. sent'[s] = sent[s]
    BY <1>2
  <2> QED
    BY <2>1 DEF IInv, SentOK
<1> QED
  BY <1>1, <1>2, <1>3, <1>5, <1>6, <1>7

LEMMA OpenStays ==
  ASSUME IInv, Open, UNCHANGED <<huggingface, parent>>
  PROVE  /\ ServicesInv' /\ Kept /\ opened + 1 \in Sessions
         /\ \A s \in Sessions : sent'[s] > 0 => file.session = s
<1>1. Kept
  BY DEF Kept, Open, Videos, huggingface
<1>2. ServicesInv'
  BY DEF IInv, ServicesInv, ServicesTypeOK, OneRelease, EmptyFirst, ParentIsOther, TagsName,
     Open, huggingface
<1> QED
  BY <1>1, <1>2 DEF Open, IInv, ServicesInv, ServicesTypeOK, Sessions, SentOK

LEMMA SessionKeeps ==
  ASSUME IInv, UNCHANGED <<faults, rest>>, OpenSession \/ SaveSession
  PROVE  IInv'
<1>0. faults' \in 0..MaxFaults
  BY DEF IInv, PublicationTypeOK
<1>1. CASE OpenSession /\ cancel
  <2>1. Checked(state) /\ UNCHANGED <<youtube, huggingface>> /\ pc # "off"
    BY <1>1 DEF OpenSession, In
  <2> QED
    BY <1>0, <2>1, Copied, QuietlySaved
<1>2. CASE OpenSession /\ ~cancel
  <2>1. /\ Open /\ Go("opened", opened + 1) /\ UNCHANGED <<document, huggingface>>
        /\ pc # "off" /\ state.phase = "validated" /\ parent' = parent
    BY <1>2 DEF OpenSession, In, rest
  <2>2. ServicesInv' /\ Kept /\ opened + 1 \in Sessions
        /\ \A s \in Sessions : sent'[s] > 0 => file.session = s
    BY <2>1, OpenStays
  <2>3. Placed' /\ SentOK'
    BY <2>1, <2>2 DEF Go, Placed, PlacedOpened, PlacedChunks, PlacedOnMain, OnMain, Before,
       SentOK, document
  <2>4. "opened" \in Places /\ opened + 1 \in Nat
    BY <2>2 DEF Places, Sessions
  <2> QED
    BY <1>0, <2>1, <2>2, <2>3, <2>4, GoKeeps
<1>3. CASE SaveSession
  <2>1. /\ pc = "opened" /\ state.phase = "validated" /\ hand \in Sessions
        /\ Checked([At("youtube_session") EXCEPT !.session = hand])
        /\ UNCHANGED <<youtube, huggingface, rest>>
    BY <1>3 DEF SaveSession, IInv, Placed, PlacedOpened
  <2>2. state.session = NoSession /\ file.session = NoSession
    BY <2>1, Copied DEF Fits, Early
  <2>3. \A s \in Sessions : ~(sent[s] > 0)
    BY <2>2 DEF IInv, SentOK, Sessions, NoSession
  <2>4. edit = Unread
    BY <2>2 DEF IInv, EditOK, Fits, Early
  <2>5. PICK doc \in Files, place \in {"next", "finish"} :
          /\ Save(doc) /\ pc' = place /\ hand' = 0
          /\ (place = "next" /\ result' = result) \/ result' = "canceled"
          /\ doc.session = hand /\ doc.phase \in {"youtube_session", "canceled"}
    <3> DEFINE opening == [At("youtube_session") EXCEPT !.session = hand]
               given == [opening EXCEPT !.phase = "canceled"]
    <3>1. /\ opening \in Files /\ given \in Files /\ opening.session = hand
          /\ given.session = hand /\ opening.phase = "youtube_session"
          /\ given.phase = "canceled"
      <4>1. At("youtube_session") \in Files /\ At("youtube_session").phase = "youtube_session"
        BY <2>1, Copied DEF At, Files, Phases
      <4>2. hand \in 0..MaxSessions
        BY <2>1 DEF Sessions
      <4>3. opening \in Files /\ opening.session = hand /\ opening.phase = "youtube_session"
        BY <4>1, <4>2 DEF Files
      <4> HIDE DEF opening
      <4>4. given \in Files /\ given.session = hand /\ given.phase = "canceled"
        BY <4>3 DEF Files, Phases
      <4> QED
        BY <4>3, <4>4
    <3>2. Saved(opening) \/ Ends("canceled", given)
      BY <2>1 DEF Checked, Saved, Ends, Save, Go
    <3> HIDE DEF opening, given
    <3>3. CASE Saved(opening)
      <4>1. Save(opening) /\ pc' = "next" /\ hand' = 0 /\ result' = result
        BY <3>3 DEF Saved, Go
      <4> QED
        BY <3>1, <4>1
    <3>4. CASE Ends("canceled", given)
      <4>1. Save(given) /\ pc' = "finish" /\ hand' = 0 /\ result' = "canceled"
        BY <3>4 DEF Ends
      <4> QED
        BY <3>1, <4>1
    <3> QED
      BY <3>2, <3>3, <3>4
  <2>6. Fits(doc)
    BY <2>1, <2>5 DEF Fits, Early, Committed, Sessions, NoSession
  <2>7. ServicesInv' /\ Kept
    BY <2>1, QuietServices DEF IInv, rest
  <2>8. Fits(doc)'
    BY <2>6, <2>7, FitsStays DEF IInv, ServicesInv
  <2>9. file' = doc /\ state' = doc
    BY <2>5 DEF Save
  <2>10. PublicationTypeOK'
    BY <1>0, <2>1, <2>5, <2>7, <2>9, PlacesTyped DEF IInv, PublicationTypeOK, ServicesInv,
       Places, rest
  <2>11. FileOK' /\ StateOK'
    BY <2>8, <2>9 DEF FileOK, StateOK, Fits, Releases
  <2>12. EditOK' /\ SentOK' /\ JobOK' /\ ResultOK'
    <3>1. EditOK'
      BY <2>1, <2>4 DEF EditOK, rest
    <3>2. SentOK'
      BY <2>1, <2>3 DEF SentOK, youtube
    <3>3. JobOK' /\ ResultOK'
      BY <2>1, <2>5, <2>7, DoneStays DEF IInv, JobOK, ResultOK, ServicesInv, rest
    <3> QED
      BY <3>1, <3>2, <3>3
  <2>13. Placed'
    BY <2>5 DEF Placed, PlacedOpened, PlacedChunks, PlacedOnMain, OnMain, Before
  <2> QED
    BY <2>7, <2>10, <2>11, <2>12, <2>13 DEF IInv
<1> QED
  BY <1>1, <1>2, <1>3

LEMMA QueryKeeps ==
  ASSUME IInv, UNCHANGED <<faults, rest>>,
         UseResolved \/ Query \/ SessionRefuses \/ SaveVideo
  PROVE  IInv'
<1> USE DEF In
<1>0. faults' \in 0..MaxFaults
  BY DEF IInv, PublicationTypeOK
<1>1. pc # "off" /\ UNCHANGED <<youtube, huggingface>> /\ state.phase \in Uploads
  BY DEF UseResolved, Query, SessionRefuses, SaveVideo, Uploading, Uploads, IInv, Placed,
     PlacedChunks
<1>2. state.phase \notin Early \cup {"canceled"}
  BY <1>1 DEF Uploads, Early
<1>3. CASE Blocked(state)
  <2>1. Ends("blocked", state)
    BY <1>3 DEF Blocked
  <2> QED
    BY <1>0, <1>1, <2>1, Copied, QuietlySaved
<1>4. ASSUME NEW v \in VideoIds, Saved([At("youtube_uploaded") EXCEPT !.video = v])
      PROVE  IInv'
  BY <1>0, <1>1, <1>2, <1>4, Uploaded, QuietlySaved
<1>5. CASE /\ Go("chunks", Offset) /\ UNCHANGED document
           /\ state.session \notin Videos /\ pc = "next"
  <2>1. state.session \in Sessions
    <3>1. state.session \in 0..MaxSessions /\ state.session # 0
      BY <1>1, <1>2, Copied DEF Fits, Files, NoSession
    <3> QED
      BY <3>1 DEF Sessions
  <2>2. Offset = sent[state.session] /\ Offset \in Nat /\ Offset < Chunks
    BY <1>5, <2>1 DEF Offset, Videos, IInv, ServicesInv, ServicesTypeOK
  <2>3. ServicesInv' /\ Kept /\ SentOK'
    BY <1>1, <1>5, QuietServices DEF IInv, rest, SentOK, youtube, document
  <2>4. Placed'
    BY <1>1, <1>5, <2>2 DEF Go, Placed, PlacedOpened, PlacedChunks, PlacedOnMain, OnMain, Before,
       document, youtube
  <2>5. "chunks" \in Places
    BY DEF Places
  <2> QED
    BY <1>0, <1>1, <1>5, <2>2, <2>3, <2>4, <2>5, GoKeeps
<1>6. state.resolved \in VideoIds /\ hand \in Nat
  BY <1>1, Copied DEF Files, IInv, PublicationTypeOK
<1>7. CASE UseResolved
  BY <1>4, <1>6, <1>7 DEF UseResolved
<1>8. CASE Query
  <2>1. CASE state.session \in expired
    BY <1>3, <1>8, <2>1 DEF Query
  <2>2. CASE state.session \notin expired /\ state.session \in Videos
    <3>1. state.session \in VideoIds
      BY <1>1, Copied DEF Files, VideoIds, OtherVideo
    <3> QED
      BY <1>4, <1>8, <2>2, <3>1 DEF Query
  <2>3. CASE state.session \notin expired /\ state.session \notin Videos
    BY <1>5, <1>8, <2>3 DEF Query, Uploading
  <2> QED
    BY <2>1, <2>2, <2>3
<1>9. CASE SessionRefuses
  BY <1>3, <1>9 DEF SessionRefuses
<1>10. CASE SaveVideo
  <2>1. hand = state.session
    BY <1>10 DEF SaveVideo, IInv, Placed, PlacedChunks
  <2>2. hand \in VideoIds
    BY <1>1, <2>1, Copied DEF Files, VideoIds, OtherVideo
  <2> QED
    BY <1>4, <1>10, <2>2 DEF SaveVideo
<1> QED
  BY <1>7, <1>8, <1>9, <1>10

LEMMA QueryUnidentifiedKeeps ==
  ASSUME IInv, UNCHANGED rest, faults' \in 0..MaxFaults, QueryUnidentified
  PROVE  IInv'
<1> USE DEF In
<1> DEFINE doc == At("youtube_uncertain")
<1>1. pc # "off" /\ UNCHANGED <<youtube, huggingface>> /\ state.phase \in Uploads
  BY DEF QueryUnidentified, Uploading, Uploads
<1>2. state.phase \notin Early \cup {"canceled"}
  BY <1>1 DEF Uploads, Early
<1>3. doc \in Files /\ doc.session = file.session /\ Fits(doc)
  BY <1>1, <1>2, Copied, NextPhase DEF Phases, Early, Committed
<1>4. Ends("blocked", doc)
  BY DEF QueryUnidentified, Blocked
<1> HIDE DEF doc
<1> QED
  BY <1>1, <1>3, <1>4, QuietlySaved

LEMMA ChunkKeeps ==
  ASSUME IInv, UNCHANGED rest, faults' \in 0..MaxFaults, SendChunk \/ ChunkUnanswered
  PROVE  IInv'
<1>1. /\ pc = "chunks" /\ state.phase \in Uploads /\ UNCHANGED <<huggingface, parent>>
      /\ Send(state.session) \/ UNCHANGED youtube
  BY DEF SendChunk, ChunkUnanswered, IInv, Placed, PlacedChunks, rest
<1>2. state.phase \notin Early \cup {"canceled"}
  BY <1>1 DEF Uploads, Early
<1>3. ServicesInv' /\ Kept /\ \A s \in Sessions : sent'[s] > 0 => file.session = s
  BY <1>1, SendStays, QuietServices DEF IInv, SentOK, youtube
<1>4. CASE Checked(state) \/ Ends("blocked", state) \/ Ends("retry_wait", state)
  BY <1>1, <1>3, <1>4, Copied, SavedKeeps
<1>5. CASE Blocked(At("youtube_uncertain"))
  <2> DEFINE doc == At("youtube_uncertain")
  <2>1. doc \in Files /\ doc.session = file.session /\ Fits(doc)
    BY <1>1, <1>2, NextPhase DEF Phases, Early, Committed
  <2>2. Ends("blocked", doc)
    BY <1>5 DEF Blocked
  <2> HIDE DEF doc
  <2> QED
    BY <1>1, <1>3, <2>1, <2>2, SavedKeeps
<1>6. CASE SendChunk /\ ~cancel
  <2>1. /\ Send(state.session) /\ Save(state)
        /\ IF hand + 1 = Chunks THEN Go("uploaded", state.session) ELSE Go("chunks", hand + 1)
    BY <1>6 DEF SendChunk
  <2>2. /\ state.session \in Sessions /\ sent'[state.session] = hand + 1
        /\ hand + 1 \in Nat /\ hand + 1 <= Chunks
    BY <1>1, <2>1, SendStays
  <2>3. PICK doc \in Files : doc = state /\ doc.session = file.session /\ Fits(doc)
    BY <1>1, Copied
  <2>4. Fits(doc)'
    BY <1>3, <2>3, FitsStays DEF IInv, ServicesInv
  <2>5. file' = doc /\ state' = doc
    BY <2>1, <2>3 DEF Save
  <2>6. pc' \in Places /\ pc' # "finish" /\ hand' \in Nat /\ result' = result
    BY <2>1, <2>2 DEF Go, Places, Sessions
  <2>7. ResultOK' /\ result' \in Outcomes
    BY <1>3, <2>6, DoneStays DEF IInv, ResultOK, ServicesInv, PublicationTypeOK, Outcomes
  <2>8. Placed'
    BY <1>1, <2>1, <2>2, <2>3, <2>5 DEF Go, Placed, PlacedOpened, PlacedChunks, PlacedOnMain,
       OnMain, Before
  <2>9. SentOK'
    BY <1>3, <2>3, <2>5 DEF SentOK
  <2> QED
    BY <1>1, <1>3, <2>3, <2>4, <2>5, <2>6, <2>7, <2>8, <2>9, WorkerKeeps
<1> QED
  BY <1>4, <1>5, <1>6 DEF SendChunk, ChunkUnanswered, Fails

-----------------------------------------------------------------------------
(* Hugging Face                                                            *)

\* A commit on main: an empty one founds it, a release is the first of its kind.
LEMMA CommitStays ==
  ASSUME IInv, NEW content \in Contents, main' = Append(main, content),
         UNCHANGED <<tags, youtube, parent>>, foreign' \in 0..MaxForeign,
         content = "empty" => main = <<>>,
         content = "release" => NoRelease
  PROVE  /\ ServicesInv' /\ Kept
         /\ NoRelease /\ content # "release" => NoRelease'
         /\ Tip + 1 \in DOMAIN main' /\ main'[Tip + 1] = content
         /\ main # <<>> => main' # <<>> /\ main'[1] = main[1]
         /\ \A s \in Sessions : sent'[s] > 0 => file.session = s
<1>1. main \in Seq(Contents) /\ Len(main) \in Nat /\ Tip = Len(main)
  BY DEF IInv, ServicesInv, ServicesTypeOK, Tip
<1>2. /\ main' \in Seq(Contents) /\ Len(main') = Len(main) + 1
      /\ DOMAIN main = 1..Len(main) /\ DOMAIN main' = 1..(Len(main) + 1)
      /\ \A i \in 1..Len(main) : main'[i] = main[i]
      /\ main'[Len(main) + 1] = content
  BY <1>1
<1>3. main # <<>> => 1 \in 1..Len(main)
  BY <1>1
<1>4. Kept
  BY <1>2 DEF Kept, Videos, youtube
<1>5. ServicesTypeOK'
  BY <1>2 DEF IInv, ServicesInv, ServicesTypeOK, youtube
<1>6. NoRelease /\ content # "release" => NoRelease'
  BY <1>2 DEF NoRelease
<1>7. OneRelease'
  <2>1. CASE content = "release"
    BY <1>2, <2>1 DEF OneRelease, NoRelease
  <2>2. CASE content # "release"
    BY <1>1, <1>2, <2>2 DEF OneRelease, IInv, ServicesInv
  <2> QED
    BY <2>1, <2>2
<1>8. EmptyFirst'
  <2>1. CASE content = "empty"
    BY <1>2, <2>1 DEF EmptyFirst
  <2>2. CASE content # "empty"
    BY <1>1, <1>2, <2>2 DEF EmptyFirst, IInv, ServicesInv
  <2> QED
    BY <2>1, <2>2
<1>9. main # <<>> => main' # <<>> /\ main'[1] = main[1]
  BY <1>1, <1>2, <1>3
<1>10. ParentIsOther'
  BY <1>9 DEF ParentIsOther, IInv, ServicesInv
<1>11. TagsName'
  BY <1>2 DEF TagsName, IInv, ServicesInv
<1> QED
  BY <1>1, <1>2, <1>4, <1>5, <1>6, <1>7, <1>8, <1>9, <1>10, <1>11
     DEF ServicesInv, IInv, SentOK, youtube

LEMMA TagStays ==
  ASSUME IInv, tags[NextTag] = 0, SetTag(NextTag, state.commit),
         state.commit \in DOMAIN main, UNCHANGED <<youtube, parent>>
  PROVE  /\ ServicesInv' /\ Kept
         /\ \A s \in Sessions : sent'[s] > 0 => file.session = s
<1>1. NextTag \in Tags /\ state.commit \in Nat
  BY DEF NextTag, Tags, IInv, ServicesInv, ServicesTypeOK
<1>2. /\ tags \in [Tags -> Nat] /\ tags' = [tags EXCEPT ![NextTag] = state.commit]
      /\ UNCHANGED <<main, foreign>>
  BY DEF SetTag, IInv, ServicesInv, ServicesTypeOK
<1>3. Kept
  BY <1>1, <1>2 DEF Kept, Videos, youtube
<1>4. ServicesInv'
  BY <1>1, <1>2 DEF IInv, ServicesInv, ServicesTypeOK, OneRelease, EmptyFirst, ParentIsOther,
     TagsName, youtube
<1> QED
  BY <1>3, <1>4 DEF IInv, SentOK, youtube

\* While the head of main is empty, or what the request was admitted with, there is no
\* release.
LEMMA NothingYet ==
  ASSUME IInv, main = <<>> \/ TipHas({"empty"}) \/ (main # <<>> /\ Tip = parent)
  PROVE  /\ NoRelease
         /\ main # <<>> => Tip = 1 /\ 1 \in DOMAIN main
         /\ TipHas({"empty"}) => main[1] = "empty"
<1>1. main \in Seq(Contents)
  BY DEF IInv, ServicesInv, ServicesTypeOK
<1>2. Len(main) \in Nat /\ DOMAIN main = 1..Len(main)
  BY <1>1
<1>3. main # <<>> => Len(main) # 0
  BY <1>1, EmptySeq
<1>4. main # <<>> => Tip = 1 /\ Len(main) = 1
  <2>1. CASE TipHas({"empty"})
    <3>1. main # <<>> /\ main[Len(main)] = "empty"
      BY <2>1 DEF TipHas, Tip
    <3>2. Len(main) \in DOMAIN main
      BY <1>2, <1>3, <3>1
    <3>3. Len(main) = 1
      BY <3>1, <3>2 DEF IInv, ServicesInv, EmptyFirst
    <3> QED
      BY <3>3 DEF Tip
  <2>2. CASE main # <<>> /\ Tip = parent
    BY <1>2, <1>3, <2>2 DEF Tip, IInv, PublicationTypeOK
  <2> QED
    BY <2>1, <2>2
<1>5. TipHas({"empty"}) => main[1] = "empty"
  BY <1>4 DEF TipHas
<1>6. main # <<>> => main[1] # "release"
  BY <1>4, <1>5 DEF IInv, ServicesInv, ParentIsOther
<1>7. NoRelease
  <2>1. CASE main = <<>>
    BY <2>1 DEF NoRelease
  <2>2. CASE main # <<>>
    <3>1. ASSUME NEW i \in DOMAIN main PROVE i = 1
      <4>1. Len(main) = 1 /\ i \in 1..Len(main)
        BY <1>2, <1>4, <2>2
      <4> QED
        BY <4>1
    <3> QED
      BY <1>6, <2>2, <3>1 DEF NoRelease
  <2> QED
    BY <2>1, <2>2
<1>8. main # <<>> => 1 \in DOMAIN main
  BY <1>2, <1>4
<1> QED
  BY <1>4, <1>5, <1>7, <1>8

\* The worker goes on inside the phase of the release, the services still.
LEMMA OnMainKeeps ==
  ASSUME IInv, UNCHANGED <<youtube, huggingface, document, rest, faults>>,
         pc # "off", state.phase = "release_built",
         NEW place \in OnMain, NEW value \in Nat, Go(place, value),
         place \in Before => NoRelease,
         place = "commit" => value = parent \/ (main # <<>> /\ value = 1 /\ main[1] = "empty"),
         place \in {"changed", "committed"} => value \in DOMAIN main
  PROVE  IInv'
<1>1. ServicesInv' /\ Kept /\ faults' \in 0..MaxFaults
  BY QuietServices DEF IInv, PublicationTypeOK, rest
<1>2. Placed'
  BY DEF Go, Placed, PlacedOpened, PlacedChunks, PlacedOnMain, OnMain, Before, document, rest,
     huggingface, NoRelease
<1>3. SentOK'
  BY DEF IInv, SentOK, youtube, document
<1>4. place \in Places /\ place # "finish"
  BY DEF Places, OnMain, Before
<1> QED
  BY <1>1, <1>2, <1>3, <1>4, GoKeeps

\* The services stand still.
LEMMA ReleaseKeeps ==
  ASSUME IInv, UNCHANGED <<faults, rest>>,
         ReadMain \/ ValidateCreated \/ ReadCreated \/ Compare \/ RecoverCommit \/ SaveCommit
  PROVE  IInv'
<1> USE DEF In
<1>0. faults' \in 0..MaxFaults
  BY DEF IInv, PublicationTypeOK
<1>1. /\ pc # "off" /\ UNCHANGED <<youtube, huggingface>>
      /\ state.phase = "release_built"
  BY DEF ReadMain, ValidateCreated, ReadCreated, Compare, RecoverCommit, SaveCommit, IInv,
     Placed, PlacedOnMain, OnMain, Before
<1>2. CASE Checked(state) \/ Blocked(state) \/ Ends("retry_wait", state)
  BY <1>0, <1>1, <1>2, Copied, QuietlySaved DEF Blocked
<1>3. ASSUME NEW c \in DOMAIN main,
             LET doc == [At("huggingface_committed") EXCEPT !.commit = c]
             IN  Saved(doc) \/ Checked(doc)
      PROVE  IInv'
  <2> DEFINE doc == [At("huggingface_committed") EXCEPT !.commit = c]
  <2>1. c \in Nat
    BY DEF IInv, ServicesInv, ServicesTypeOK
  <2>2. At("huggingface_committed") \in Files
        /\ At("huggingface_committed").session = file.session
        /\ At("huggingface_committed").phase = "huggingface_committed"
    BY <1>1, Copied DEF At, Files, Phases
  <2>3. /\ doc \in Files /\ doc.session = file.session /\ doc.commit = c
        /\ doc.phase = "huggingface_committed"
    BY <2>1, <2>2 DEF Files
  <2>4. file.session # NoSession
    BY <1>1, Copied DEF Fits, Early
  <2>5. Saved(doc) \/ Checked(doc)
    BY <1>3
  <2> HIDE DEF doc
  <2>6. Fits(doc)
    BY <2>3, <2>4 DEF Fits, Early, Committed
  <2> QED
    BY <1>0, <1>1, <2>3, <2>5, <2>6, QuietlySaved
<1>4. main \in Seq(Contents) /\ (main # <<>> => Tip \in DOMAIN main) /\ Tip \in Nat
  <2>1. main \in Seq(Contents)
    BY DEF IInv, ServicesInv, ServicesTypeOK
  <2> QED
    BY <2>1, EmptySeq DEF Tip
<1>5. CASE ReadMain
  <2>1. CASE cancel
    BY <1>2, <1>5, <2>1 DEF ReadMain
  <2>2. CASE ~cancel /\ main = <<>>
    <3>1. Go("create", 0) /\ UNCHANGED document
      BY <1>5, <2>2 DEF ReadMain
    <3>2. /\ NoRelease /\ "create" \in OnMain /\ "create" # "commit"
          /\ "create" \notin {"changed", "committed"}
      BY <2>2, NothingYet DEF OnMain, Before
    <3> QED
      BY <1>1, <3>1, <3>2, OnMainKeeps
  <2>3. CASE ~cancel /\ main # <<>> /\ Tip = parent
    <3>1. Go("commit", Tip) /\ UNCHANGED document
      BY <1>5, <2>3 DEF ReadMain
    <3>2. NoRelease /\ "commit" \in OnMain /\ "commit" \notin {"changed", "committed"}
      BY <2>3, NothingYet DEF OnMain, Before
    <3> QED
      BY <1>1, <1>4, <2>3, <3>1, <3>2, OnMainKeeps
  <2>4. CASE ~cancel /\ main # <<>> /\ Tip # parent
    <3>1. Go("changed", Tip) /\ UNCHANGED document
      BY <1>5, <2>4 DEF ReadMain
    <3>2. "changed" \in OnMain /\ "changed" \notin Before /\ "changed" # "commit"
      BY DEF OnMain, Before
    <3> QED
      BY <1>1, <1>4, <2>4, <3>1, <3>2, OnMainKeeps
  <2> QED
    BY <2>1, <2>2, <2>3, <2>4
<1>6. CASE ValidateCreated
  <2>1. CASE TipHas({"empty"})
    <3>1. Go("validated", 0) /\ UNCHANGED document
      BY <1>6, <2>1 DEF ValidateCreated
    <3>2. NoRelease /\ "validated" \in OnMain /\ "validated" # "commit"
          /\ "validated" \notin {"changed", "committed"}
      BY <2>1, NothingYet DEF OnMain, Before
    <3> QED
      BY <1>1, <3>1, <3>2, OnMainKeeps
  <2>2. CASE ~TipHas({"empty"})
    BY <1>2, <1>6, <2>2 DEF ValidateCreated
  <2> QED
    BY <2>1, <2>2
<1>7. CASE ReadCreated
  <2>1. Go("commit_created", Tip) /\ UNCHANGED document
    BY <1>7 DEF ReadCreated
  <2>2. NoRelease /\ "commit_created" \in OnMain /\ "commit_created" # "commit"
        /\ "commit_created" \notin {"changed", "committed"}
    BY <1>7 DEF ReadCreated, IInv, Placed, PlacedOnMain, OnMain, Before
  <2> QED
    BY <1>1, <1>4, <2>1, <2>2, OnMainKeeps
<1>8. CASE Compare
  <2>1. hand \in DOMAIN main /\ hand \in Nat
    BY <1>8 DEF Compare, IInv, Placed, PlacedOnMain, PublicationTypeOK
  <2>2. CASE TipHas({"release", "edited"})
    <3>1. ~TipHas({"empty"})
      BY <2>2 DEF TipHas
    <3>2. Saved([At("huggingface_committed") EXCEPT !.commit = hand])
      BY <1>8, <2>2, <3>1 DEF Compare
    <3> QED
      BY <1>3, <2>1, <3>2
  <2>3. CASE parent = 0 /\ TipHas({"empty"})
    <3>1. ~TipHas({"release", "edited"})
      BY <2>3 DEF TipHas
    <3>2. Go("commit", hand) /\ UNCHANGED document
      BY <1>8, <2>3, <3>1 DEF Compare
    <3>3. NoRelease /\ main # <<>> /\ Tip = 1 /\ main[1] = "empty"
      BY <2>3, NothingYet DEF TipHas
    <3>4. hand = 1
      BY <1>4, <2>1, <3>3 DEF Tip
    <3>5. "commit" \in OnMain /\ "commit" \notin {"changed", "committed"}
      BY DEF OnMain, Before
    <3> QED
      BY <1>1, <2>1, <3>2, <3>3, <3>4, <3>5, OnMainKeeps
  <2>4. CASE ~TipHas({"release", "edited"}) /\ ~(parent = 0 /\ TipHas({"empty"}))
    BY <1>2, <1>8, <2>4 DEF Compare
  <2> QED
    BY <2>2, <2>3, <2>4
<1>9. CASE RecoverCommit
  <2>1. CASE TipHas({"release", "edited"})
    <3>1. Go("committed", Tip) /\ UNCHANGED document /\ main # <<>>
      BY <1>9, <2>1 DEF RecoverCommit, TipHas
    <3>2. "committed" \in OnMain /\ "committed" \notin Before /\ "committed" # "commit"
      BY DEF OnMain, Before
    <3> QED
      BY <1>1, <1>4, <3>1, <3>2, OnMainKeeps
  <2>2. CASE ~TipHas({"release", "edited"})
    BY <1>2, <1>9, <2>2 DEF RecoverCommit, Fails, Blocked
  <2> QED
    BY <2>1, <2>2
<1>10. CASE SaveCommit
  <2>1. hand \in DOMAIN main
    BY <1>10 DEF SaveCommit, IInv, Placed, PlacedOnMain
  <2> QED
    BY <1>3, <1>10, <2>1 DEF SaveCommit
<1> QED
  BY <1>5, <1>6, <1>7, <1>8, <1>9, <1>10

\* The worker commits, or finds that it cannot.
LEMMA CommitKeeps ==
  ASSUME IInv, UNCHANGED rest, faults' \in 0..MaxFaults,
         CreateRepo \/ CreateCommit \/ CommitUnanswered
  PROVE  IInv'
<1>1. /\ pc \in {"create", "commit", "commit_created"} /\ NoRelease
      /\ state.phase = "release_built" /\ UNCHANGED <<document, youtube, parent>>
  BY DEF CreateRepo, CreateCommit, CommitUnanswered, Committing, IInv, Placed, PlacedOnMain,
     OnMain, Before, rest
<1>2. PICK place \in {"created", "committed", "recover"}, value \in Nat :
        /\ Go(place, value)
        /\ place = "created" => pc = "create"
        /\ place = "committed" => Commit("release") /\ value = Tip + 1
  <2>1. Tip \in Nat
    BY DEF Tip, IInv, ServicesInv, ServicesTypeOK
  <2>2. CASE CreateRepo
    BY <2>2 DEF CreateRepo
  <2>3. CASE CreateCommit /\ ParentStands
    <3>1. Go("committed", Tip + 1) /\ Commit("release") /\ Tip + 1 \in Nat
      BY <2>1, <2>3 DEF CreateCommit
    <3> QED
      BY <3>1
  <2>4. CASE CreateCommit /\ ~ParentStands
    BY <2>4 DEF CreateCommit
  <2>5. CASE CommitUnanswered
    BY <2>5 DEF CommitUnanswered
  <2> QED
    BY <2>2, <2>3, <2>4, <2>5
<1>3. \/ UNCHANGED huggingface
      \/ Commit("release") /\ place # "created"
      \/ Commit("empty") /\ main = <<>> /\ place = "created"
  <2>1. CASE CreateRepo
    <3>1. Go("created", 0)
      BY <2>1 DEF CreateRepo
    <3>2. place = "created"
      BY <1>2, <3>1 DEF Go
    <3> QED
      BY <2>1, <3>2 DEF CreateRepo
  <2>2. CASE CreateCommit \/ CommitUnanswered
    <3>1. place # "created"
      BY <1>2, <2>2 DEF CreateCommit, CommitUnanswered, Committing
    <3> QED
      BY <2>2, <3>1 DEF CreateCommit, CommitUnanswered
  <2> QED
    BY <2>1, <2>2
<1>4. /\ ServicesInv' /\ Kept
      /\ place = "created" => NoRelease'
      /\ place = "committed" => value \in DOMAIN main'
      /\ \A s \in Sessions : sent'[s] > 0 => file.session = s
  <2>1. CASE UNCHANGED huggingface /\ place # "committed"
    BY <1>1, <2>1, QuietServices DEF IInv, SentOK, youtube, huggingface, NoRelease
  <2>2. ASSUME NEW content \in {"release", "empty"}, Commit(content),
               content = "empty" => main = <<>> /\ place = "created",
               content = "release" => place # "created"
        PROVE  /\ ServicesInv' /\ Kept
               /\ place = "created" => NoRelease'
               /\ place = "committed" => value \in DOMAIN main'
               /\ \A s \in Sessions : sent'[s] > 0 => file.session = s
    <3>1. main' = Append(main, content) /\ UNCHANGED <<tags, foreign>> /\ content \in Contents
      BY <2>2 DEF Commit, Contents
    <3>2. foreign' \in 0..MaxForeign
      BY <3>1 DEF IInv, ServicesInv, ServicesTypeOK
    <3>3. /\ ServicesInv' /\ Kept
          /\ NoRelease /\ content # "release" => NoRelease'
          /\ Tip + 1 \in DOMAIN main'
          /\ \A s \in Sessions : sent'[s] > 0 => file.session = s
      BY <1>1, <2>2, <3>1, <3>2, CommitStays
    <3> QED
      BY <1>1, <1>2, <2>2, <3>3
  <2> QED
    BY <1>2, <1>3, <2>1, <2>2
<1>5. Placed'
  BY <1>1, <1>2, <1>4 DEF Go, Placed, PlacedOpened, PlacedChunks, PlacedOnMain, OnMain, Before,
     document
<1>6. SentOK'
  BY <1>1, <1>4 DEF SentOK, document
<1>7. place \in Places /\ pc # "off"
  BY <1>1, <1>2 DEF Places, OnMain, Before
<1> QED
  BY <1>1, <1>2, <1>4, <1>5, <1>6, <1>7, GoKeeps

LEMMA TagKeeps ==
  ASSUME IInv, UNCHANGED <<faults, rest>>, CreateTag \/ TagConflicts
  PROVE  IInv'
<1> USE DEF In
<1>0. faults' \in 0..MaxFaults
  BY DEF IInv, PublicationTypeOK
<1>1. pc = "next" /\ state.phase = "huggingface_committed"
  BY DEF CreateTag, TagConflicts
<1>2. CASE CreateTag
  <2>1. state.commit \in DOMAIN main
    BY <1>1, Copied DEF Fits, Committed
  <2>2. ServicesInv' /\ Kept /\ \A s \in Sessions : sent'[s] > 0 => file.session = s
    BY <1>2, <2>1, TagStays DEF CreateTag, rest
  <2>3. Go("next", hand) /\ UNCHANGED document
    BY <1>1, <1>2 DEF CreateTag, worker, Go, document
  <2>4. Placed' /\ SentOK'
    BY <2>2, <2>3 DEF Go, Placed, PlacedOpened, PlacedChunks, PlacedOnMain, OnMain, Before,
       SentOK, document
  <2>5. "next" \in Places /\ hand \in Nat
    BY DEF Places, IInv, PublicationTypeOK
  <2> QED
    BY <1>0, <1>1, <2>2, <2>3, <2>4, <2>5, GoKeeps
<1>3. CASE TagConflicts
  <2>1. Ends("blocked", state) /\ UNCHANGED <<youtube, huggingface>>
    BY <1>3 DEF TagConflicts, Blocked
  <2> QED
    BY <1>0, <1>1, <2>1, Copied, QuietlySaved
<1> QED
  BY <1>2, <1>3

LEMMA AuditKeeps ==
  ASSUME IInv, UNCHANGED <<faults, rest>>, Audit \/ NothingToDo
  PROVE  IInv'
<1> USE DEF In
<1>0. faults' \in 0..MaxFaults
  BY DEF IInv, PublicationTypeOK
<1>1. pc = "next" /\ UNCHANGED <<youtube, huggingface, rest>>
  BY DEF Audit, NothingToDo
<1>2. ServicesInv' /\ Kept
  BY <1>1, QuietServices DEF IInv, rest
<1>3. CASE Audit /\ ~Audited
  <2>1. Ends("blocked", state)
    BY <1>3 DEF Audit, Blocked
  <2> QED
    BY <1>0, <1>1, <2>1, Copied, QuietlySaved
<1>4. ASSUME NEW doc \in Files, doc.session = file.session, Fits(doc), state' = doc,
             file' = file \/ file' = doc, pc' = "finish", hand' \in Nat,
             result' \in {"succeeded", "failed"},
             result' = "succeeded" => doc.phase = "succeeded"
      PROVE  IInv'
  <2>1. Fits(doc)'
    BY <1>2, <1>4, FitsStays DEF IInv, ServicesInv
  <2>2. ResultOK'
    <3>1. doc.phase = "succeeded" => AllDone'
      BY <2>1 DEF Fits, AllDone, Releases, VideoIds
    <3> QED
      BY <1>4, <3>1 DEF ResultOK
  <2>3. Placed'
    BY <1>4 DEF Placed, PlacedOpened, PlacedChunks, PlacedOnMain, OnMain, Before
  <2>4. SentOK'
    BY <1>1, <1>4 DEF IInv, SentOK, youtube
  <2>5. pc' \in Places /\ result' \in Outcomes
    BY <1>4 DEF Places, Outcomes
  <2> QED
    BY <1>0, <1>1, <1>2, <1>4, <2>1, <2>2, <2>3, <2>4, <2>5, WorkerKeeps
<1>5. CASE Audit /\ Audited
  <2> DEFINE doc == At("succeeded")
  <2>1. state.phase = "containers_complete" /\ Ends("succeeded", doc)
    BY <1>5 DEF Audit
  <2>2. state.commit \in DOMAIN main
    BY <1>1, <2>1, Copied DEF Fits, Committed
  <2>3. state.video \in Videos /\ Releases(state.commit)
    BY <1>5, <2>2 DEF Audited, IsOurs, Tagged, IsRelease, Releases, Tags
  <2>4. state.session # NoSession
    BY <1>1, <2>1, Copied DEF Fits, Early
  <2>5. /\ doc \in Files /\ doc.session = file.session /\ doc.commit = state.commit
        /\ doc.video = state.video /\ doc.phase = "succeeded"
    BY <1>1, Copied DEF At, Files, Phases
  <2>6. doc.session # NoSession
    BY <1>1, <2>4, <2>5, Copied
  <2> HIDE DEF doc
  <2>7. Fits(doc)
    BY <2>2, <2>3, <2>5, <2>6 DEF Fits, Early
  <2>8. state' = doc /\ file' = doc /\ pc' = "finish" /\ hand' = 0 /\ result' = "succeeded"
    BY <2>1 DEF Ends, Save
  <2> QED
    BY <1>4, <2>5, <2>7, <2>8
<1>6. CASE NothingToDo
  <2>1. PICK doc \in Files : doc = state /\ doc.session = file.session /\ Fits(doc)
    BY <1>1, Copied
  <2>2. /\ state' = doc /\ file' = file /\ pc' = "finish" /\ hand' = hand
        /\ result' \in {"succeeded", "failed"}
        /\ result' = "succeeded" => doc.phase = "succeeded"
    BY <1>6, <2>1 DEF NothingToDo, document
  <2>3. hand' \in Nat
    BY <2>2 DEF IInv, PublicationTypeOK
  <2> QED
    BY <1>4, <2>1, <2>2, <2>3
<1> QED
  BY <1>3, <1>5, <1>6

LEMMA FailKeeps ==
  ASSUME IInv, UNCHANGED rest, faults' \in 0..MaxFaults, CallFails
  PROVE  IInv'
<1> USE DEF In
<1>1. pc # "off" /\ (Ends("blocked", state) \/ Ends("retry_wait", state)) /\ parent' = parent
  BY DEF CallFails, Calls, Fails, rest
<1>2. ServicesInv' /\ Kept /\ \A s \in Sessions : sent'[s] > 0 => file.session = s
  <2>1. CASE UNCHANGED <<youtube, huggingface>>
    BY <1>1, <2>1, QuietServices DEF IInv, SentOK, youtube
  <2>2. CASE Open /\ UNCHANGED huggingface
    BY <1>1, <2>2, OpenStays
  <2>3. CASE main = <<>> /\ Commit("empty") /\ UNCHANGED youtube
    <3>1. /\ main' = Append(main, "empty") /\ UNCHANGED <<tags, foreign>>
          /\ "empty" \in Contents /\ "empty" # "release"
      BY <2>3 DEF Commit, Contents
    <3>2. foreign' \in 0..MaxForeign
      BY <3>1 DEF IInv, ServicesInv, ServicesTypeOK
    <3> QED
      BY <1>1, <2>3, <3>1, <3>2, CommitStays
  <2>4. CASE /\ state.phase = "huggingface_committed" /\ tags[NextTag] = 0
             /\ SetTag(NextTag, state.commit) /\ UNCHANGED youtube
    <3>1. state.commit \in DOMAIN main
      BY <1>1, <2>4, Copied DEF Fits, Committed
    <3> QED
      BY <1>1, <2>4, <3>1, TagStays
  <2> QED
    BY <2>1, <2>2, <2>3, <2>4 DEF CallFails
<1> QED
  BY <1>1, <1>2, Copied, SavedKeeps

-----------------------------------------------------------------------------
(* The queue, the operator, the others                                     *)

LEMMA FiledFits ==
  ASSUME IInv
  PROVE  /\ file \in Files /\ Fits(file)
         /\ edit # Unread => /\ edit \in Files /\ edit.session = file.session /\ Fits(edit)
                             /\ edit.phase = "youtube_uncertain"
BY DEF IInv, PublicationTypeOK, FileOK, EditOK

\* A worker appears with the document, or is gone; the services stand still.
LEMMA TurnKeeps ==
  ASSUME IInv, UNCHANGED <<youtube, huggingface, edit, parent, faults, retries, cancel>>,
         NEW doc \in Files, doc.session = file.session, Fits(doc),
         file' = file \/ file' = doc, state' \in Files,
         pc' \in {"off", "next", "finish"}, pc' # "off" => state' = doc,
         hand' = 0, result' = "none" \/ result' = result \/ result' = "canceled",
         pc' = "finish" => result' = "canceled",
         job' \in Jobs, job' = "succeeded" => job = "succeeded" \/ result = "succeeded",
         deaths' \in 0..MaxDeaths
  PROVE  IInv'
<1>1. ServicesInv' /\ Kept
  BY QuietServices DEF IInv
<1>2. Fits(doc)'
  BY <1>1, FitsStays DEF IInv, ServicesInv
<1>3. ResultOK' /\ JobOK'
  BY <1>1, DoneStays DEF IInv, ResultOK, JobOK, ServicesInv
<1>4. Placed'
  BY DEF Placed, PlacedOpened, PlacedChunks, PlacedOnMain, OnMain, Before
<1>5. SentOK'
  BY DEF IInv, SentOK, youtube
<1>6. /\ pc' \in Places \cup {"off"} /\ hand' \in Nat /\ result' \in Outcomes
      /\ cancel' \in BOOLEAN /\ faults' \in 0..MaxFaults /\ retries' \in 0..MaxRetries
  BY DEF Places, Outcomes, IInv, PublicationTypeOK
<1> QED
  BY <1>1, <1>2, <1>3, <1>4, <1>5, <1>6, StepKeeps

LEMMA QueueKeeps ==
  ASSUME IInv, Claim \/ Finish \/ Die
  PROVE  IInv'
<1>0. /\ job \in Jobs /\ deaths \in 0..MaxDeaths /\ result \in Outcomes
  BY DEF IInv, PublicationTypeOK, Jobs, Outcomes
<1>1. Admitted \in Files
  BY DEF Admitted, Files, Phases, NoSession, NoVideo, VideoIds, OtherVideo
<1>2. CASE Claim
  <2> DEFINE given == [file EXCEPT !.phase = "canceled"]
  <2>1. given \in Files /\ given.session = file.session /\ Fits(given)
    BY FiledFits DEF Files, Phases, Fits, Early, Committed
  <2>2. UNCHANGED <<youtube, huggingface, edit, parent, faults, retries, deaths, cancel>>
        /\ job' = "running"
    BY <1>2 DEF Claim, counts
  <2>3. CASE cancel
    <3>1. Ends("canceled", given)
      BY <1>2, <2>3 DEF Claim
    <3> HIDE DEF given
    <3>2. file' = given /\ state' = given /\ pc' = "finish" /\ hand' = 0 /\ result' = "canceled"
      BY <3>1 DEF Ends, Save
    <3> QED
      BY <1>0, <2>1, <2>2, <3>2, TurnKeeps DEF Jobs
  <2>4. CASE ~cancel
    <3>1. /\ file' = file /\ state' = file /\ pc' = "next" /\ hand' = 0 /\ result' = result
      BY <1>2, <2>4 DEF Claim, Go
    <3>2. PICK doc \in Files : doc = file /\ Fits(doc)
      BY FiledFits
    <3> QED
      BY <1>0, <2>2, <3>1, <3>2, TurnKeeps DEF Jobs
  <2> QED
    BY <2>3, <2>4
<1>3. CASE Finish \/ Die
  <2>1. Off /\ UNCHANGED <<file, youtube, huggingface, edit, parent, faults, retries, cancel>>
    BY <1>3 DEF Finish, Die, counts
  <2>2. pc' = "off" /\ hand' = 0 /\ result' = "none" /\ state' = Admitted
    BY <2>1 DEF Off
  <2>3. deaths' \in 0..MaxDeaths
    BY <1>0, <1>3 DEF Finish, Die, counts
  <2>4. job' \in Jobs /\ (job' = "succeeded" => job = "succeeded" \/ result = "succeeded")
    <3>1. CASE Die
      BY <1>0, <3>1 DEF Die
    <3>2. CASE Finish
      <4>1. result # "none"
        BY <3>2 DEF Finish, IInv, ResultOK
      <4> QED
        BY <1>0, <3>2, <4>1 DEF Finish, Jobs, Outcomes
    <3> QED
      BY <1>3, <3>1, <3>2
  <2>5. PICK doc \in Files : doc = file /\ Fits(doc)
    BY FiledFits
  <2> QED
    BY <1>1, <2>1, <2>2, <2>3, <2>4, <2>5, TurnKeeps
<1> QED
  BY <1>2, <1>3

\* The worker stands where it stood.
LEMMA OperatorKeeps ==
  ASSUME IInv,
         \/ Recover \/ RequestCancel \/ Retry \/ ResolveReads
         \/ \E v \in VideoIds : ResolveWrites(v)
  PROVE  IInv'
<1>0. job \in Jobs /\ cancel \in BOOLEAN /\ retries \in 0..MaxRetries
  BY DEF IInv, PublicationTypeOK, Jobs
<1>1. /\ UNCHANGED <<state, pc, hand, result, parent, faults, deaths, youtube, huggingface>>
      /\ job' \in Jobs /\ (job' = "succeeded" => job = "succeeded")
      /\ cancel' \in BOOLEAN /\ retries' \in 0..MaxRetries
  <2>1. CASE Recover \/ RequestCancel \/ ResolveReads
    BY <1>0, <2>1 DEF Recover, RequestCancel, ResolveReads, worker, document, counts, Jobs
  <2>2. ASSUME Requeue, retries < MaxRetries
        PROVE  /\ job' = "queued" /\ cancel' \in BOOLEAN /\ retries' \in 0..MaxRetries
    <3>1. retries' = retries + 1
      BY <2>2 DEF Requeue
    <3>2. retries' \in 0..MaxRetries
      BY <1>0, <2>2, <3>1
    <3> QED
      BY <2>2, <3>2 DEF Requeue
  <2>3. CASE Retry
    BY <1>0, <2>2, <2>3 DEF Retry, worker, document, Jobs
  <2>4. ASSUME NEW v \in VideoIds, ResolveWrites(v)
        PROVE  /\ UNCHANGED <<state, pc, hand, result, parent, faults, deaths>>
               /\ UNCHANGED <<youtube, huggingface>>
               /\ job' \in Jobs /\ (job' = "succeeded" => job = "succeeded")
               /\ cancel' \in BOOLEAN /\ retries' \in 0..MaxRetries
    BY <1>0, <2>2, <2>4 DEF ResolveWrites, Jobs
  <2> QED
    BY <2>1, <2>3, <2>4
<1>2. PICK doc \in Files :
        /\ doc.session = file.session /\ Fits(doc)
        /\ file' = file \/ file' = doc
        /\ edit' = edit \/ edit' = Unread \/ (edit' = doc /\ doc.phase = "youtube_uncertain")
  <2>1. CASE Recover \/ RequestCancel \/ Retry \/ ResolveReads
    <3>1. PICK doc \in Files : doc = file /\ Fits(doc)
      BY FiledFits
    <3>2. file' = file /\ (edit' = edit \/ (edit' = file /\ file.phase = "youtube_uncertain"))
      BY <2>1 DEF Recover, RequestCancel, Retry, ResolveReads, worker, document
    <3> QED
      BY <3>1, <3>2
  <2>2. ASSUME NEW v \in VideoIds, ResolveWrites(v)
        PROVE  \E doc \in Files :
                 /\ doc.session = file.session /\ Fits(doc)
                 /\ file' = file \/ file' = doc
                 /\ edit' = edit \/ edit' = Unread
    <3> DEFINE named == [edit EXCEPT !.resolved = v]
    <3>1. edit # Unread /\ file' = named /\ edit' = Unread
      BY <2>2 DEF ResolveWrites
    <3>2. named \in Files /\ named.session = file.session /\ Fits(named)
      BY <3>1, FiledFits DEF Files, Fits, Early, Committed
    <3> HIDE DEF named
    <3> QED
      BY <3>1, <3>2
  <2> QED
    BY <2>1, <2>2
<1>3. ServicesInv' /\ Kept
  BY <1>1, QuietServices DEF IInv
<1>4. Fits(doc)'
  BY <1>2, <1>3, FitsStays DEF IInv, ServicesInv
<1>5. ResultOK' /\ JobOK'
  BY <1>1, <1>3, DoneStays DEF IInv, ResultOK, JobOK, ServicesInv
<1>6. Placed'
  BY <1>1 DEF IInv, Placed, PlacedOpened, PlacedChunks, PlacedOnMain, OnMain, Before, youtube,
     huggingface, NoRelease
<1>7. SentOK'
  BY <1>1, <1>2 DEF IInv, SentOK, youtube
<1>8. /\ state' \in Files /\ pc' \in Places \cup {"off"} /\ hand' \in Nat /\ result' \in Outcomes
      /\ faults' \in 0..MaxFaults /\ deaths' \in 0..MaxDeaths /\ parent' = parent
      /\ pc' # "off" => state' = state /\ pc # "off"
  BY <1>1, PlacesTyped DEF IInv, PublicationTypeOK, Outcomes
<1> QED
  BY <1>1, <1>2, <1>3, <1>4, <1>5, <1>6, <1>7, <1>8, StepKeeps

LEMMA OutsideKeeps ==
  ASSUME IInv, (Outside /\ UNCHANGED <<worker, faults, rest>>) \/ UNCHANGED vars
  PROVE  IInv'
<1>1. UNCHANGED <<worker, faults, rest>>
  BY DEF vars, counts, rest
<1>2. /\ UNCHANGED <<file, state, pc, hand, result, job, cancel, edit, parent, faults, deaths,
                     retries>>
  BY <1>1 DEF worker, document, rest
<1>3. /\ ServicesInv' /\ Kept
      /\ \A s \in Sessions : sent'[s] > 0 => file.session = s
      /\ sent' = sent /\ (NoRelease => NoRelease')
      /\ main # <<>> => main' # <<>> /\ main'[1] = main[1]
  <2>1. CASE UNCHANGED <<youtube, huggingface>>
    BY <1>2, <2>1, QuietServices DEF IInv, SentOK, youtube, huggingface, NoRelease
  <2>2. ASSUME NEW s \in Sessions, SessionExpires(s)
        PROVE  /\ ServicesInv' /\ Kept /\ UNCHANGED <<sent, main>>
    <3>1. /\ expired' \subseteq Sessions /\ UNCHANGED <<opened, sent, main, tags, foreign>>
      BY <2>2 DEF SessionExpires, huggingface, IInv, ServicesInv, ServicesTypeOK
    <3> QED
      BY <1>2, <3>1 DEF IInv, ServicesInv, ServicesTypeOK, OneRelease, EmptyFirst,
         ParentIsOther, TagsName, Kept, Videos
  <2>3. ASSUME NEW content \in {"other", "edited"}, ForeignCommit(content)
        PROVE  /\ ServicesInv' /\ Kept /\ sent' = sent /\ (NoRelease => NoRelease')
               /\ main # <<>> => main' # <<>> /\ main'[1] = main[1]
               /\ \A s \in Sessions : sent'[s] > 0 => file.session = s
    <3>1. /\ main' = Append(main, content) /\ UNCHANGED <<tags, youtube>>
          /\ foreign' \in 0..MaxForeign
      BY <2>3 DEF ForeignCommit, IInv, ServicesInv, ServicesTypeOK
    <3>2. content \in Contents /\ content # "release" /\ content # "empty"
      BY DEF Contents
    <3> QED
      BY <1>2, <3>1, <3>2, CommitStays DEF youtube
  <2>4. CASE \E s \in Sessions : SessionExpires(s)
    BY <2>2, <2>4 DEF IInv, SentOK, NoRelease
  <2>5. CASE \E content \in {"other", "edited"} : ForeignCommit(content)
    BY <2>3, <2>5
  <2> QED
    BY <2>1, <2>4, <2>5 DEF Outside, vars
<1>4. PICK doc \in Files : doc = file /\ Fits(doc)
  BY FiledFits
<1>5. Fits(doc)'
  BY <1>3, <1>4, FitsStays DEF IInv, ServicesInv
<1>6. ResultOK' /\ JobOK'
  BY <1>2, <1>3, DoneStays DEF IInv, ResultOK, JobOK, ServicesInv
<1>7. Placed'
  <2>1. pc \in {"changed", "committed"} => hand \in DOMAIN main'
    BY <1>3 DEF IInv, Placed, PlacedOnMain, Kept
  <2> QED
    BY <1>2, <1>3, <2>1 DEF IInv, Placed, PlacedOpened, PlacedChunks, PlacedOnMain
<1>8. SentOK'
  BY <1>2, <1>3 DEF SentOK
<1>9. /\ state' \in Files /\ pc' \in Places \cup {"off"} /\ hand' \in Nat /\ result' \in Outcomes
      /\ faults' \in 0..MaxFaults /\ deaths' \in 0..MaxDeaths /\ retries' \in 0..MaxRetries
      /\ job' \in Jobs /\ cancel' \in BOOLEAN
      /\ pc' # "off" => state' = state /\ pc # "off"
  BY <1>2, PlacesTyped DEF IInv, PublicationTypeOK, Outcomes, Jobs
<1> QED
  BY <1>2, <1>3, <1>4, <1>5, <1>6, <1>7, <1>8, <1>9, StepKeeps

LEMMA NextKeeps == IInv /\ [Next]_vars => IInv'
<1> SUFFICES ASSUME IInv, [Next]_vars PROVE IInv'
  OBVIOUS
<1>1. CASE Claim \/ Finish \/ Die
  BY <1>1, QueueKeeps
<1>2. CASE \/ Recover \/ RequestCancel \/ Retry \/ ResolveReads
           \/ \E v \in VideoIds : ResolveWrites(v)
  BY <1>2, OperatorKeeps
<1>3. CASE Advance /\ UNCHANGED <<faults, rest>>
  <2>1. faults' \in 0..MaxFaults /\ UNCHANGED rest
    BY <1>3 DEF IInv, PublicationTypeOK
  <2> QED
    BY <1>3, <2>1, CheckKeeps, SessionKeeps, QueryKeeps, ChunkKeeps, ReleaseKeeps, CommitKeeps,
       TagKeeps, AuditKeeps DEF Advance
<1>4. CASE Fault /\ Faulty /\ UNCHANGED rest
  <2>1. faults' \in 0..MaxFaults
    BY <1>4 DEF Fault, IInv, PublicationTypeOK
  <2> QED
    BY <1>4, <2>1, QueryUnidentifiedKeeps, ChunkKeeps, CommitKeeps, FailKeeps DEF Faulty
<1>5. CASE (Outside /\ UNCHANGED <<worker, faults, rest>>) \/ UNCHANGED vars
  BY <1>5, OutsideKeeps
<1> QED
  BY <1>1, <1>2, <1>3, <1>4, <1>5 DEF Next

LEMMA InitKeeps == Init => IInv
<1> SUFFICES ASSUME Init PROVE IInv
  OBVIOUS
<1>1. Admitted \in Files /\ Unread \in Files /\ Admitted # Unread /\ Fits(Admitted)
  BY DEF Admitted, Unread, Files, Phases, NoSession, NoVideo, VideoIds, OtherVideo, Fits, Early,
     Committed
<1>2. /\ main = IF parent = 0 THEN <<>> ELSE <<"other">>
      /\ opened = 0 /\ expired = {} /\ foreign = 0 /\ parent \in {0, 1}
      /\ sent = [s \in Sessions |-> 0] /\ tags = [t \in Tags |-> 0]
  BY DEF Init, ServicesInit
<1>3. /\ main \in Seq(Contents)
      /\ parent = 1 => main # <<>> /\ main[1] = "other"
      /\ \A i \in DOMAIN main : main[i] # "release" /\ main[i] # "empty"
  <2>1. CASE parent = 0
    BY <1>2, <2>1
  <2>2. CASE parent = 1
    <3>1. main = <<"other">> /\ "other" \in Contents
      BY <1>2, <2>2 DEF Contents
    <3>2. DOMAIN main = {1} /\ main[1] = "other"
      BY <3>1
    <3> QED
      BY <3>1, <3>2
  <2> QED
    BY <1>2, <2>1, <2>2
<1>4. ServicesTypeOK
  BY <1>2, <1>3 DEF ServicesTypeOK
<1>5. ServicesInv
  <2>1. ASSUME NEW t \in Tags PROVE tags[t] = 0
    BY <1>2
  <2> QED
    BY <1>2, <1>3, <1>4, <2>1 DEF ServicesInv, OneRelease, EmptyFirst, ParentIsOther, TagsName
<1>6. PublicationTypeOK
  <2>1. faults \in 0..MaxFaults /\ deaths \in 0..MaxDeaths /\ retries \in 0..MaxRetries
    BY DEF Init
  <2>2. file \in Files /\ state \in Files /\ edit \in Files
    BY <1>1 DEF Init
  <2>3. pc = "off" /\ hand \in Nat /\ result = "none" /\ job = "queued" /\ cancel \in BOOLEAN
    BY DEF Init
  <2> QED
    BY <1>2, <1>4, <2>1, <2>2, <2>3 DEF PublicationTypeOK
<1>7. FileOK /\ StateOK /\ EditOK
  BY <1>1 DEF Init, FileOK, StateOK, EditOK
<1>8. SentOK /\ Placed /\ ResultOK /\ JobOK
  BY <1>2 DEF Init, SentOK, Placed, PlacedOpened, PlacedChunks, PlacedOnMain, OnMain, Before,
     ResultOK, JobOK
<1> QED
  BY <1>5, <1>6, <1>7, <1>8 DEF IInv

LEMMA Inductive == Spec => []IInv
BY InitKeeps, NextKeeps, PTL DEF Spec

-----------------------------------------------------------------------------
(* The theorems                                                            *)

\* The job, its document and the services keep their types, however often the job is claimed,
\* dies, is canceled, resolved or retried.
THEOREM TypeCorrect == Spec => []PublicationTypeOK
<1>1. IInv => PublicationTypeOK
  BY DEF IInv
<1> QED
  BY <1>1, Inductive, PTL

\* One video at most, which the document can find, and one release commit at most: an upload
\* continues the session it saved (_advance_youtube), a commit is found again before another is
\* made (_advance_huggingface).
THEOREM PublishedAtMostOnce == Spec => []PublishedOnce
<1>1. IInv => PublishedOnce
  <2> SUFFICES ASSUME IInv PROVE PublishedOnce
    OBVIOUS
  <2>1. \A v \in Videos : file.session = v
    <3> SUFFICES ASSUME NEW v \in Videos PROVE file.session = v
      OBVIOUS
    <3>1. v \in Sessions /\ sent[v] > 0
      BY DEF Videos
    <3> QED
      BY <3>1 DEF IInv, SentOK
  <2> QED
    BY <2>1 DEF IInv, ServicesInv, OneRelease, PublishedOnce
<1> QED
  BY <1>1, Inductive, PTL

\* A document, and a job, that succeeded left a video and a release with its two tags (_audit):
\* no step takes any of them back.
THEOREM SuccessIsPublished == Spec => []SucceededIsPublished
<1>1. IInv => SucceededIsPublished
  <2> SUFFICES ASSUME IInv PROVE SucceededIsPublished
    OBVIOUS
  <2>1. file.phase = "succeeded" => file.video \in Videos /\ Releases(file.commit)
    BY DEF IInv, FileOK, Fits
  <2>2. job = "succeeded" => Videos # {} /\ \E c \in DOMAIN main : Releases(c)
    BY DEF IInv, JobOK, AllDone
  <2> QED
    BY <2>1, <2>2 DEF Releases, SucceededIsPublished
<1> QED
  BY <1>1, Inductive, PTL

\* A sequence that grew by one element grew by that one only.
LEMMA GrownBy ==
  ASSUME NEW S, NEW s \in Seq(S), NEW a \in S, NEW b \in S
  PROVE  /\ Append(s, a) # s
         /\ Append(s, a) = Append(s, b) => a = b
<1>1. Len(Append(s, a)) = Len(s) + 1 /\ Len(s) \in Nat
  OBVIOUS
<1>2. Append(s, a)[Len(s) + 1] = a /\ Append(s, b)[Len(s) + 1] = b
  OBVIOUS
<1>3. Append(s, a) # s
  BY <1>1
<1> QED
  BY <1>2, <1>3

\* Only the two steps of create_commit put a release on main, onto the parent they name.
LEMMA WhoCommits ==
  ASSUME IInv, Next, main' = Append(main, "release")
  PROVE  Committing /\ ParentStands
<1> USE DEF huggingface
<1>0. main \in Seq(Contents) /\ "release" \in Contents
  BY DEF IInv, ServicesInv, ServicesTypeOK, Contents
<1>1. main' # main
  BY <1>0, GrownBy
<1>2. ASSUME NEW content \in Contents, main' = Append(main, content)
      PROVE  content = "release"
  BY <1>0, <1>2, GrownBy
<1>3. ~(Claim \/ Finish \/ Die \/ Recover \/ RequestCancel \/ Retry \/ ResolveReads)
  BY <1>1 DEF Claim, Finish, Die, Recover, RequestCancel, Retry, ResolveReads
<1>4. ~ \E v \in VideoIds : ResolveWrites(v)
  BY <1>1 DEF ResolveWrites
<1>5. ~Outside
  <2>1. ASSUME NEW s \in Sessions, SessionExpires(s) PROVE FALSE
    BY <1>1, <2>1 DEF SessionExpires
  <2>2. ASSUME NEW content \in {"other", "edited"}, ForeignCommit(content) PROVE FALSE
    BY <1>2, <2>2 DEF ForeignCommit, Contents
  <2> QED
    BY <2>1, <2>2 DEF Outside
<1>6. CASE Advance
  <2>1. ~(Validate \/ OpenSession \/ SaveSession \/ UseResolved \/ Query)
    BY <1>1 DEF Validate, OpenSession, SaveSession, UseResolved, Query
  <2>2. ~(SessionRefuses \/ SendChunk \/ SaveVideo \/ CheckVideo \/ UploadThumbnail)
    BY <1>1 DEF SessionRefuses, SendChunk, SaveVideo, CheckVideo, UploadThumbnail
  <2>3. ~(BuildRelease \/ ReadMain \/ ValidateCreated \/ ReadCreated \/ Compare)
    BY <1>1 DEF BuildRelease, ReadMain, ValidateCreated, ReadCreated, Compare
  <2>4. ~CreateRepo
    BY <1>1, <1>2 DEF CreateRepo, Commit, Contents
  <2>5. ~(RecoverCommit \/ SaveCommit \/ CreateTag \/ TagConflicts \/ SaveTags)
    BY <1>1 DEF RecoverCommit, SaveCommit, CreateTag, SetTag, TagConflicts, SaveTags
  <2>6. ~(VerifyRelease \/ AdvanceContainers \/ Audit \/ NothingToDo)
    BY <1>1 DEF VerifyRelease, AdvanceContainers, Audit, NothingToDo
  <2>7. CreateCommit
    BY <1>6, <2>1, <2>2, <2>3, <2>4, <2>5, <2>6 DEF Advance
  <2> QED
    BY <1>1, <2>7 DEF CreateCommit
<1>7. CASE Faulty
  <2>1. ~QueryUnidentified /\ ~ChunkUnanswered
    BY <1>1 DEF QueryUnidentified, ChunkUnanswered
  <2>2. ~CallFails
    BY <1>1, <1>2 DEF CallFails, Commit, SetTag, Contents
  <2>3. CommitUnanswered
    BY <1>7, <2>1, <2>2 DEF Faulty
  <2> QED
    BY <1>1, <2>3 DEF CommitUnanswered
<1> QED
  BY <1>3, <1>4, <1>5, <1>6, <1>7 DEF Next

\* A release goes onto the commit the request was admitted with or onto an empty repository,
\* except in the window after the request created the repository itself (the guard of
\* _advance_huggingface and the parent_commit of create_commit).
THEOREM ReleaseOverwritesNothing == Spec => NothingOverwritten
<1>1. ASSUME IInv, Next, main' = Append(main, "release")
      PROVE  Tip = parent \/ TipHas({"empty"}) \/ pc = "commit_created"
  <2>1. pc \in {"commit", "commit_created"} /\ hand = Tip
    BY <1>1, WhoCommits DEF Committing, ParentStands
  <2>2. CASE pc = "commit"
    BY <2>1, <2>2, <1>1 DEF IInv, Placed, PlacedOnMain, TipHas
  <2> QED
    BY <2>1, <2>2
<1>2. IInv /\ [Next]_vars =>
        [main' = Append(main, "release") =>
           Tip = parent \/ TipHas({"empty"}) \/ pc = "commit_created"]_vars
  BY <1>1
<1> QED
  BY <1>2, Inductive, PTL DEF Spec, NothingOverwritten
=============================================================================
