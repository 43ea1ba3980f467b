--------------------------- MODULE PublicationJob ---------------------------
(***************************************************************************)
(* The publication of a captured episode (PlayerPublicationJobHandler): a  *)
(* video on YouTube, a release on Hugging Face, two tags, an audit.        *)
(*                                                                         *)
(* advance() runs the phases one after the other and saves its state file  *)
(* after each; a worker that dies leaves the file, and the next one goes   *)
(* on from it.  The operator cancels, retries and names the video of an    *)
(* upload whose outcome is uncertain.  A step is one call of a service     *)
(* with the save that follows, or one save where a death in between        *)
(* matters.                                                                *)
(***************************************************************************)
EXTENDS PublicationServices

CONSTANTS MaxFaults,    \* bound: calls that fail or whose answer is lost
          MaxDeaths,    \* bound: deaths of the worker
          MaxRetries    \* bound: retries of the operator

ASSUME PublicationBoundsAssumption ==
    MaxFaults \in Nat /\ MaxDeaths \in Nat /\ MaxRetries \in Nat

Phases == {"admitted", "validated", "youtube_session", "youtube_uncertain",
           "youtube_uploaded", "youtube_processing", "youtube_verified",
           "youtube_complete", "release_built", "huggingface_committed",
           "huggingface_tagged", "huggingface_verified", "containers_complete",
           "succeeded", "canceled"}

VARIABLES
    file,      \* publication_state.json
    state,     \* the worker's copy of it
    pc,        \* "off", "next" (by phase), inside a phase, or "finish"
    hand,      \* an answer the worker has not saved: a session, an offset, a video, a commit
    result,    \* the state of the job that advance returns
    job,       \* the job in the queue; "queued" stands for retry_wait too
    cancel,    \* cancel_requested
    edit,      \* the file as resolve_youtube has read it, or Unread
    parent,    \* the commit of main when the request was admitted, 0 without a repository
    faults, deaths, retries

document == <<file, state>>
worker == <<document, pc, hand, result>>
counts == <<faults, deaths, retries>>
rest == <<job, cancel, edit, parent, deaths, retries>>
vars == <<worker, job, cancel, edit, parent, counts, youtube, huggingface>>

Admitted ==
    [phase |-> "admitted", session |-> NoSession, video |-> NoVideo,
     resolved |-> NoVideo, commit |-> 0]
Unread == [Admitted EXCEPT !.phase = "canceled"]

In(phases) == pc = "next" /\ state.phase \in phases
At(phase) == [state EXCEPT !.phase = phase]

Save(doc) == file' = doc /\ state' = doc
Go(place, value) == pc' = place /\ hand' = value /\ UNCHANGED result
Ends(outcome, doc) == Save(doc) /\ pc' = "finish" /\ hand' = 0 /\ result' = outcome

Saved(doc) == Save(doc) /\ Go("next", 0)

\* _checkpoint tells of a cancel request.
Checked(doc) ==
    IF cancel THEN Ends("canceled", [doc EXCEPT !.phase = "canceled"]) ELSE Saved(doc)
Blocked(doc) == Ends("blocked", doc)

\* A call fails: for a while, or for good.
Fault == faults < MaxFaults /\ faults' = faults + 1
Fails == \E outcome \in {"retry_wait", "blocked"} : Ends(outcome, state)
-----------------------------------------------------------------------------
(* The queue and the operator                                              *)

Claim ==
    /\ job = "queued" /\ pc = "off"
    /\ job' = "running"
    /\ IF cancel
       THEN Ends("canceled", [file EXCEPT !.phase = "canceled"])
       ELSE state' = file /\ Go("next", 0) /\ UNCHANGED file
    /\ UNCHANGED <<cancel, edit, parent, counts, youtube, huggingface>>

Off == pc' = "off" /\ hand' = 0 /\ result' = "none" /\ state' = Admitted

Finish ==
    /\ pc = "finish"
    /\ job' = IF result = "retry_wait" THEN "queued" ELSE result
    /\ Off
    /\ UNCHANGED <<file, cancel, edit, parent, counts, youtube, huggingface>>

Die ==
    /\ pc # "off" /\ deaths < MaxDeaths
    /\ deaths' = deaths + 1
    /\ Off
    /\ UNCHANGED <<file, job, cancel, edit, parent, faults, retries, youtube, huggingface>>

Recover ==
    /\ job = "running" /\ pc = "off"
    /\ job' = "queued"
    /\ UNCHANGED <<worker, cancel, edit, parent, counts, youtube, huggingface>>

RequestCancel ==
    /\ job \in {"queued", "running"} /\ ~cancel
    /\ cancel' = TRUE
    /\ job' = IF job = "queued" THEN "canceled" ELSE job
    /\ UNCHANGED <<worker, edit, parent, counts, youtube, huggingface>>

Retriable == job \in {"blocked", "failed", "canceled"}
Requeue == job' = "queued" /\ cancel' = FALSE /\ retries' = retries + 1

Retry ==
    /\ Retriable /\ retries < MaxRetries
    /\ Requeue
    /\ UNCHANGED <<worker, edit, parent, faults, deaths, youtube, huggingface>>

\* resolve_youtube looks at the job, reads the file, writes it with the video the operator
\* names and retries the job; another retry may come in between.
ResolveReads ==
    /\ job = "blocked" /\ edit = Unread /\ retries < MaxRetries
    /\ file.phase = "youtube_uncertain"
    /\ edit' = file
    /\ UNCHANGED <<worker, job, cancel, parent, counts, youtube, huggingface>>

ResolveWrites(v) ==
    /\ edit # Unread /\ v \in VideoIds \ {NoVideo}
    /\ file' = [edit EXCEPT !.resolved = v]
    /\ edit' = Unread
    /\ IF Retriable /\ retries < MaxRetries THEN Requeue ELSE UNCHANGED <<job, cancel, retries>>
    /\ UNCHANGED <<state, pc, hand, result, parent, faults, deaths, youtube, huggingface>>
-----------------------------------------------------------------------------
(* YouTube (_advance_youtube)                                              *)

Validate ==
    /\ In({"admitted"})
    /\ Checked(At("validated"))
    /\ UNCHANGED <<youtube, huggingface>>

OpenSession ==
    /\ In({"validated"})
    /\ IF cancel THEN Checked(state) /\ UNCHANGED youtube
       ELSE Open /\ Go("opened", opened + 1) /\ UNCHANGED document
    /\ UNCHANGED huggingface

SaveSession ==
    /\ pc = "opened"
    /\ Checked([At("youtube_session") EXCEPT !.session = hand])
    /\ UNCHANGED <<youtube, huggingface>>

Uploading == In({"youtube_session", "youtube_uncertain"})
Named == state.phase = "youtube_uncertain" /\ state.resolved # NoVideo

UseResolved ==
    /\ Uploading /\ Named
    /\ Saved([At("youtube_uploaded") EXCEPT !.video = state.resolved])
    /\ UNCHANGED <<youtube, huggingface>>

\* An upload goes on after the chunks YouTube has.
Offset == sent[state.session]

\* YouTube tells what it has: nothing, the video, or so many chunks.  An expired session
\* blocks the job for good.  (The mutant opens another one.)
BuggyQuery ==
    /\ Uploading /\ ~Named
    /\ IF state.session \in expired THEN Saved(At("validated"))
       ELSE IF state.session \in Videos
            THEN Saved([At("youtube_uploaded") EXCEPT !.video = state.session])
            ELSE Go("chunks", Offset) /\ UNCHANGED document
    /\ UNCHANGED <<youtube, huggingface>>
Query ==
    /\ Uploading /\ ~Named
    /\ IF state.session \in expired THEN Blocked(state)
       ELSE IF state.session \in Videos
            THEN Saved([At("youtube_uploaded") EXCEPT !.video = state.session])
            ELSE Go("chunks", Offset) /\ UNCHANGED document
    /\ UNCHANGED <<youtube, huggingface>>

SessionRefuses ==
    /\ pc = "chunks" /\ state.session \in expired
    /\ Blocked(state)
    /\ UNCHANGED <<youtube, huggingface>>

\* The progress callback saves and checks for a cancel request, after the last chunk too,
\* whose answer has the id of the video.
SendChunk ==
    /\ pc = "chunks" /\ state.session \notin expired
    /\ Send(state.session)
    /\ IF cancel THEN Checked(state)
       ELSE /\ IF hand + 1 = Chunks THEN Go("uploaded", state.session) ELSE Go("chunks", hand + 1)
            /\ Save(state)
    /\ UNCHANGED huggingface

\* The answer to the last chunk is lost, or has no id: the outcome is uncertain.
ChunkUnanswered ==
    /\ pc = "chunks" /\ state.session \notin expired
    /\ Send(state.session) \/ UNCHANGED youtube
    /\ IF hand + 1 = Chunks THEN Blocked(At("youtube_uncertain")) ELSE Fails
    /\ UNCHANGED huggingface

\* YouTube has all of the chunks, and its answer has no id.
QueryUnidentified ==
    /\ Uploading /\ ~Named
    /\ state.session \notin expired /\ state.session \in Videos
    /\ Blocked(At("youtube_uncertain"))
    /\ UNCHANGED <<youtube, huggingface>>

SaveVideo ==
    /\ pc = "uploaded"
    /\ Saved([At("youtube_uploaded") EXCEPT !.video = hand])
    /\ UNCHANGED <<youtube, huggingface>>

\* validate_processed_video: the marker, the channel, the title.
IsOurs(v) == v \in Videos

\* The video is ready, or still processed: the job waits, at most a day.
CheckVideo ==
    /\ In({"youtube_uploaded", "youtube_processing"})
    /\ IF IsOurs(state.video)
       THEN \/ Checked(At("youtube_verified"))
            \/ Ends("retry_wait", At("youtube_processing"))
            \/ Blocked(state)
       ELSE Blocked(state)
    /\ UNCHANGED <<youtube, huggingface>>

UploadThumbnail ==
    /\ In({"youtube_verified"})
    /\ Checked(At("youtube_complete"))
    /\ UNCHANGED <<youtube, huggingface>>
-----------------------------------------------------------------------------
(* Hugging Face (_build_release, _advance_huggingface)                     *)

BuildRelease ==
    /\ In({"youtube_complete"})
    /\ Checked(At("release_built"))
    /\ UNCHANGED <<youtube, huggingface>>

\* model_info: is there a repository, and at which commit?
ReadMain ==
    /\ In({"release_built"})
    /\ IF cancel THEN Checked(state)
       ELSE /\ CASE main = <<>>                   -> Go("create", 0)
                 [] main # <<>> /\ Tip = parent  -> Go("commit", Tip)
                 [] OTHER                         -> Go("changed", Tip)
            /\ UNCHANGED document
    /\ UNCHANGED <<youtube, huggingface>>

\* Somebody else's create_repo, or a lost answer, is seen by a second model_info.
CreateRepo ==
    /\ pc = "create"
    /\ IF main = <<>> THEN Commit("empty") ELSE UNCHANGED huggingface
    /\ Go("created", 0)
    /\ UNCHANGED <<document, youtube>>

\* _validate_new_repository_files, then model_info for the parent of the commit.
ValidateCreated ==
    /\ pc = "created"
    /\ IF TipHas({"empty"}) THEN Go("validated", 0) /\ UNCHANGED document ELSE Blocked(state)
    /\ UNCHANGED <<youtube, huggingface>>

ReadCreated ==
    /\ pc = "validated"
    /\ Go("commit_created", Tip)
    /\ UNCHANGED <<document, youtube, huggingface>>

\* Main is not where it was: the request's own release, a repository without files, or a
\* change of somebody else's.
Compare ==
    /\ pc = "changed"
    /\ CASE TipHas({"release", "edited"}) ->
                Saved([At("huggingface_committed") EXCEPT !.commit = hand])
         [] parent = 0 /\ TipHas({"empty"}) -> Go("commit", hand) /\ UNCHANGED document
         [] OTHER -> Blocked(state)
    /\ UNCHANGED <<youtube, huggingface>>

Committing == pc \in {"commit", "commit_created"}

\* Main takes a commit whose parent it is at.  (The mutant names no parent.)
BuggyParentStands == TRUE
ParentStands == hand = Tip

CreateCommit ==
    /\ Committing
    /\ IF ParentStands THEN Commit("release") /\ Go("committed", Tip + 1)
       ELSE Go("recover", 0) /\ UNCHANGED huggingface
    /\ UNCHANGED <<document, youtube>>

CommitUnanswered ==
    /\ Committing
    /\ IF ParentStands THEN Commit("release") \/ UNCHANGED huggingface ELSE UNCHANGED huggingface
    /\ Go("recover", 0)
    /\ UNCHANGED <<document, youtube>>

\* After any exception the head of main may be the commit all the same.
RecoverCommit ==
    /\ pc = "recover"
    /\ IF TipHas({"release", "edited"}) THEN Go("committed", Tip) /\ UNCHANGED document
       ELSE Fails
    /\ UNCHANGED <<youtube, huggingface>>

SaveCommit ==
    /\ pc = "committed"
    /\ Checked([At("huggingface_committed") EXCEPT !.commit = hand])
    /\ UNCHANGED <<youtube, huggingface>>

Tagged(t) == tags[t] = state.commit
NextTag == IF tags["version"] = state.commit THEN "checkpoint" ELSE "version"

CreateTag ==
    /\ In({"huggingface_committed"})
    /\ tags[NextTag] = 0
    /\ SetTag(NextTag, state.commit)
    /\ UNCHANGED <<worker, youtube>>

TagConflicts ==
    /\ In({"huggingface_committed"})
    /\ tags[NextTag] \notin {0, state.commit}
    /\ Blocked(state)
    /\ UNCHANGED <<youtube, huggingface>>

SaveTags ==
    /\ In({"huggingface_committed"})
    /\ \A t \in Tags : Tagged(t)
    /\ Checked(At("huggingface_tagged"))
    /\ UNCHANGED <<youtube, huggingface>>

\* A release that was downloaded is checked file by file.  (The mutant trusts its manifest.)
BuggyIsRelease(commit) == main[commit] \in {"release", "edited"}
IsRelease(commit) == main[commit] = "release"

VerifyRelease ==
    /\ In({"huggingface_tagged"})
    /\ IF IsRelease(tags["version"]) THEN Checked(At("huggingface_verified")) ELSE Blocked(state)
    /\ UNCHANGED <<youtube, huggingface>>

\* The collection, the playlist and the final metadata.
AdvanceContainers ==
    /\ In({"huggingface_verified"})
    /\ Checked(At("containers_complete"))
    /\ UNCHANGED <<youtube, huggingface>>

Audited ==
    /\ IsOurs(state.video)
    /\ \A t \in Tags : Tagged(t)
    /\ IsRelease(tags["version"])

Audit ==
    /\ In({"containers_complete"})
    /\ IF Audited THEN Ends("succeeded", At("succeeded")) ELSE Blocked(state)
    /\ UNCHANGED <<youtube, huggingface>>

\* The file says it all: a job that succeeded and died before its row was written, or the
\* retry of a canceled one, which advance does not support.
NothingToDo ==
    /\ In({"succeeded", "canceled"})
    /\ pc' = "finish"
    /\ result' = IF state.phase = "succeeded" THEN "succeeded" ELSE "failed"
    /\ UNCHANGED <<document, hand, youtube, huggingface>>
-----------------------------------------------------------------------------
Calls == {"create", "created", "validated", "changed", "recover"}

\* A call raises; those that create something may have created it.
CallFails ==
    /\ In(Phases \ {"admitted", "succeeded", "canceled"}) \/ pc \in Calls
    /\ \/ UNCHANGED <<youtube, huggingface>>
       \/ In({"validated"}) /\ ~cancel /\ Open /\ UNCHANGED huggingface
       \/ pc = "create" /\ main = <<>> /\ Commit("empty") /\ UNCHANGED youtube
       \/ In({"huggingface_committed"}) /\ tags[NextTag] = 0 /\ SetTag(NextTag, state.commit)
             /\ UNCHANGED youtube
    /\ Fails

Advance ==
    \/ Validate \/ OpenSession \/ SaveSession \/ UseResolved \/ Query
    \/ SessionRefuses \/ SendChunk \/ SaveVideo \/ CheckVideo \/ UploadThumbnail
    \/ BuildRelease \/ ReadMain \/ CreateRepo \/ ValidateCreated \/ ReadCreated \/ Compare
    \/ CreateCommit \/ RecoverCommit \/ SaveCommit
    \/ CreateTag \/ TagConflicts \/ SaveTags \/ VerifyRelease
    \/ AdvanceContainers \/ Audit \/ NothingToDo

Faulty == QueryUnidentified \/ ChunkUnanswered \/ CommitUnanswered \/ CallFails

Init ==
    /\ file = Admitted /\ state = Admitted
    /\ pc = "off" /\ hand = 0 /\ result = "none"
    /\ job = "queued" /\ cancel = FALSE /\ edit = Unread
    /\ parent \in {0, 1}
    /\ ServicesInit(IF parent = 0 THEN <<>> ELSE <<"other">>)
    /\ faults = 0 /\ deaths = 0 /\ retries = 0

Outside ==
    \/ \E s \in Sessions : SessionExpires(s)
    \/ \E content \in {"other", "edited"} : ForeignCommit(content)

Next ==
    \/ Claim \/ Finish \/ Die \/ Recover \/ RequestCancel \/ Retry \/ ResolveReads
    \/ \E v \in VideoIds : ResolveWrites(v)
    \/ Advance /\ UNCHANGED <<faults, rest>>
    \/ Fault /\ Faulty /\ UNCHANGED rest
    \/ Outside /\ UNCHANGED <<worker, faults, rest>>

Spec == Init /\ [][Next]_vars
-----------------------------------------------------------------------------
(* Properties                                                              *)

Files ==
    [phase : Phases, session : 0..MaxSessions, video : VideoIds,
     resolved : VideoIds, commit : Nat]

PublicationTypeOK ==
    /\ ServicesTypeOK
    /\ file \in Files /\ state \in Files /\ edit \in Files
    /\ pc \in {"off", "next", "opened", "chunks", "uploaded", "commit", "commit_created",
               "committed", "finish"} \cup Calls
    /\ hand \in Nat
    /\ result \in {"none", "retry_wait", "blocked", "failed", "canceled", "succeeded"}
    /\ job \in {"queued", "running", "blocked", "failed", "canceled", "succeeded"}
    /\ cancel \in BOOLEAN /\ parent \in {0, 1}
    /\ faults \in 0..MaxFaults /\ deaths \in 0..MaxDeaths /\ retries \in 0..MaxRetries

\* A video that YouTube has is the one of the session in the state file: a request never
\* uploads twice, and never a video it cannot find again, whatever was lost, expired,
\* canceled or retried.  And it has at most one commit on main, whatever answers were lost.
PublishedOnce ==
    /\ \A v \in Videos : file.session = v
    /\ \A i, j \in DOMAIN main : main[i] = "release" /\ main[j] = "release" => i = j

\* What a state file that succeeded names is there as admitted: its video, its commit with
\* both tags.  A job that succeeded leaves a video and a tagged release, even if a late
\* resolve_youtube has put the file of an earlier phase back.
SucceededIsPublished ==
    /\ file.phase = "succeeded" =>
          /\ file.video \in Videos
          /\ main[file.commit] = "release"
          /\ \A t \in Tags : tags[t] = file.commit
    /\ job = "succeeded" =>
          /\ Videos # {}
          /\ \E c \in DOMAIN main : main[c] = "release" /\ \A t \in Tags : tags[t] = c

\* The release is committed on what the request was admitted with, or on a repository
\* without files, except when somebody fills a repository this very step has created
\* between the look at its files and the look at its commit.
NothingOverwritten ==
    [][main' = Append(main, "release") =>
          \/ Tip = parent
          \/ TipHas({"empty"})
          \/ pc = "commit_created"]_vars
=============================================================================
