------------------------ MODULE PublicationServices ------------------------
(***************************************************************************)
(* The services a publication writes to, as publication_jobs.py and        *)
(* youtube_publication.py use them.                                        *)
(*                                                                         *)
(* YouTube: an upload session takes the chunks of a video in order; the    *)
(* last one completes the video, which has the number of its session.  A   *)
(* session expires at some time.                                           *)
(*                                                                         *)
(* Hugging Face: the commits on main of the repository, numbered from 1,   *)
(* each with what it holds, and the two tags of the release.  A commit     *)
(* takes its parent and is refused if main has moved on.                   *)
(***************************************************************************)
EXTENDS Naturals, Sequences

CONSTANTS MaxSessions,  \* bound: sessions that can be opened
          Chunks,       \* chunks of the video
          MaxForeign    \* bound: commits of others

ASSUME ServicesAssumption ==
    MaxSessions \in Nat /\ Chunks \in Nat \ {0} /\ MaxForeign \in Nat

\* What a commit holds: nothing yet, somebody's files, this request's release, or that
\* release with a file changed by somebody, its manifest kept.
Contents == {"empty", "other", "release", "edited"}
Tags == {"version", "checkpoint"}
Sessions == 1..MaxSessions
NoSession == 0
NoVideo == 0
OtherVideo == MaxSessions + 1
VideoIds == 0..OtherVideo

VARIABLES
    opened,    \* sessions opened so far
    sent,      \* chunks each session has
    expired,   \* sessions YouTube has forgotten
    main,      \* the contents of the commits on main, oldest first
    tags,      \* the commit each tag names, 0 for none
    foreign    \* commits of others so far

youtube == <<opened, sent, expired>>
huggingface == <<main, tags, foreign>>

Videos == {s \in Sessions : sent[s] = Chunks}
Tip == Len(main)
TipHas(contents) == main # <<>> /\ main[Tip] \in contents

Open ==
    /\ opened < MaxSessions
    /\ opened' = opened + 1
    /\ UNCHANGED <<sent, expired>>

Send(s) ==
    /\ sent' = [sent EXCEPT ![s] = @ + 1]
    /\ UNCHANGED <<opened, expired>>

SessionExpires(s) ==
    /\ s \in 1..opened \ expired
    /\ expired' = expired \cup {s}
    /\ UNCHANGED <<opened, sent, huggingface>>

Commit(content) ==
    /\ main' = Append(main, content)
    /\ UNCHANGED <<tags, foreign>>

\* Somebody creates the repository, replaces its files, or edits the release.
ForeignCommit(content) ==
    /\ foreign < MaxForeign
    /\ content = "edited" => TipHas({"release", "edited"})
    /\ foreign' = foreign + 1
    /\ main' = Append(main, content)
    /\ UNCHANGED <<tags, youtube>>

SetTag(t, commit) ==
    /\ tags' = [tags EXCEPT ![t] = commit]
    /\ UNCHANGED <<main, foreign>>

ServicesInit(start) ==
    /\ opened = 0 /\ expired = {} /\ foreign = 0
    /\ sent = [s \in Sessions |-> 0]
    /\ main = start
    /\ tags = [t \in Tags |-> 0]

ServicesTypeOK ==
    /\ opened \in 0..MaxSessions
    /\ sent \in [Sessions -> 0..Chunks]
    /\ expired \subseteq Sessions
    /\ main \in Seq(Contents)
    /\ tags \in [Tags -> Nat]
    /\ foreign \in 0..MaxForeign
=============================================================================
