-------------------------------- MODULE Details --------------------------------
(***************************************************************************)
(* GetVideoDetail beside the write model: one read-only transaction with   *)
(* four SELECTs, of the published view, the metadata, the caller's user    *)
(* state and the counters.  At read committed, the default isolation, each *)
(* of them sees what was committed before it.  GetVideoMetadata is the     *)
(* second and the last of them alone.                                      *)
(*                                                                         *)
(* The caller is whoever the gateway's user info header names: nobody, a   *)
(* viewer, or a header that is refused.                                    *)
(*                                                                         *)
(* Of the engagement projection there are the likes: who has set the flag,  *)
(* the counter, and the consumer's workers, who read a flag, decide from it *)
(* by how much to move the counter and commit both later (the statements   *)
(* and locks of that transaction are in module Engagement).  The times of  *)
(* the messages are left out: any message may be the newer one.  The       *)
(* answer keeps the columns two of the SELECTs return, and the version.    *)
(***************************************************************************)
EXTENDS Lifecycle, FiniteSets

CONSTANTS
    Viewers,    \* users who like videos and look at them
    Likers      \* goroutines of the engagement runner that handle a like

VARIABLES
    read,       \* what the call has read
    liked,      \* the viewers with has_liked set, per video
    likes,      \* like_count, per video
    liking,     \* the like message every worker is handling
    moved,      \* history: the like was taken back since the call read it
    crossed     \* history: a like was counted by a flag that had changed

likeVars == <<liked, likes, liking, crossed>>
readerVars == <<read, moved, likeVars>>
detailVars == <<vars, readerVars>>

(* A message to set or clear a flag, and the flag as it was read. *)
LikeMessages == [video : Videos, viewer : Viewers, on : BOOLEAN, had : BOOLEAN]

ASSUME ViewersAssumption ==
    /\ IsFiniteSet(Viewers)
    /\ "anonymous" \notin Viewers /\ "refused" \notin Viewers
    /\ Null \notin LikeMessages

NotRead ==
    [phase |-> "idle", caller |-> "anonymous", video |-> Null, view |-> Null,
     viewVersion |-> Null, metadata |-> Null, hasLiked |-> Null, likeCount |-> Null]

DetailsInit ==
    /\ Init
    /\ read = NotRead
    /\ liked = [v \in Videos |-> {}]
    /\ likes = [v \in Videos |-> 0]
    /\ liking = [w \in Likers |-> Null]
    /\ moved = FALSE
    /\ crossed = [v \in Videos |-> FALSE]

(* A claim of the header is a UUID, other text, or missing or blank. *)
Claims == {"uuid", "text", "none"}

(* x-apigateway-api-userinfo: absent, or base64 of JSON, or neither. *)
Headers == {Null} \cup
    [decodes : BOOLEAN, sub : Claims, userId : Claims, uid : Claims]

(* ExtractUserIDFromUserInfo: the first of three claims that is there. *)
UserInfo(h) ==
    IF h.sub # "none" THEN h.sub
    ELSE IF h.userId # "none" THEN h.userId
    ELSE h.uid

(* A header that is there but names nobody is invalid, not anonymous. *)
ExtractMetadata(h) ==
    IF h = Null THEN "none"
    ELSE IF ~h.decodes \/ UserInfo(h) = "none" THEN "invalid"
    ELSE UserInfo(h)

(* The caller when the UUID, if it comes to one, is that of viewer u;       *)
(* GetVideoDetail refuses a user id that is not a UUID, too.               *)
Caller(h, u) ==
    CASE ExtractMetadata(h) = "none" -> "anonymous"
      [] ExtractMetadata(h) = "uuid" -> u
      [] OTHER -> "refused"

(* Callers for whom the transaction is opened. *)
Callers == {Caller(h, u) : h \in Headers, u \in Viewers} \ {"refused"}

(* Mutant of ReadyView: one stage's column is mapped twice. *)
ReadyView_MediaTwice(row) ==
    [status |-> row.status, stage |-> [s \in Stages |-> row.stage["media"]]]

(* The columns of VideoReadyView that the metadata has, too. *)
ReadyView(row) == [status |-> row.status, stage |-> row.stage]

(* VideoMetadata. *)
Metadata(row) ==
    [status |-> row.status, stage |-> row.stage, version |-> row.version]

(* FindPublishedVideo: visibility_status is selected, but no condition. *)
Served(row) == row.status \in {"ready", "published"}

(* The call begins.  When the video is not served it ends at once, with     *)
(* ErrVideoNotFound.                                                       *)
FindPublished(v, caller) ==
    /\ read.phase = "idle"
    /\ video[v] # Null
    /\ Served(video[v])
    /\ read' = [NotRead EXCEPT !.phase = "viewed", !.caller = caller,
                               !.video = v,
                               !.view = ReadyView(video[v]),
                               !.viewVersion = video[v].version]
    /\ UNCHANGED <<vars, moved, likeVars>>

(* The metadata of the video, in whatever status it is by now. *)
GetMetadata ==
    /\ read.phase = "viewed"
    /\ read' = [read EXCEPT !.phase = "described",
                            !.metadata = Metadata(video[read.video])]
    /\ UNCHANGED <<vars, moved, likeVars>>

(* Nothing is asked about an anonymous caller. *)
GetUserState ==
    /\ read.phase = "described"
    /\ read' = [read EXCEPT !.phase = "personal",
                            !.hasLiked = /\ read.caller # "anonymous"
                                         /\ read.caller \in liked[read.video]]
    /\ UNCHANGED <<vars, moved, likeVars>>

GetStats ==
    /\ read.phase = "personal"
    /\ read' = [read EXCEPT !.phase = "answered", !.likeCount = likes[read.video]]
    /\ UNCHANGED <<vars, moved, likeVars>>

(* The answer is returned, or the query timeout ends the call before. *)
Return ==
    /\ read.phase # "idle"
    /\ read' = NotRead
    /\ moved' = FALSE
    /\ UNCHANGED <<vars, likeVars>>

(* A worker reads the flag a message is about, locking nothing.            *)
(* Bound: only videos that are served are liked.                           *)
ReadFlag(w, v, u, on) ==
    /\ liking[w] = Null
    /\ video[v] # Null
    /\ Served(video[v])
    /\ liking' = [liking EXCEPT ![w] =
                    [video |-> v, viewer |-> u, on |-> on, had |-> u \in liked[v]]]
    /\ UNCHANGED <<vars, read, moved, liked, likes, crossed>>

(* Mutant of LikeDelta: it does not look at the flag it changes. *)
LikeDelta_Unconditional(m) == IF m.on THEN 1 ELSE -1

(* One more or one less when the flag that was read changes. *)
LikeDelta(m) == IF m.had = m.on THEN 0 ELSE IF m.on THEN 1 ELSE -1

(* The flag is written as the message says, whatever it is by now, the     *)
(* counter moves by what was decided, never below zero.                    *)
CommitLike(w) ==
    LET m == liking[w]
    IN  /\ m # Null
        /\ liked' = [liked EXCEPT ![m.video] =
                        IF m.on THEN @ \cup {m.viewer} ELSE @ \ {m.viewer}]
        /\ likes' = [likes EXCEPT ![m.video] =
                        IF @ + LikeDelta(m) < 0 THEN 0 ELSE @ + LikeDelta(m)]
        /\ liking' = [liking EXCEPT ![w] = Null]
        /\ moved' = (\/ moved
                     \/ /\ read.phase = "personal"
                        /\ <<read.video, read.caller>> = <<m.video, m.viewer>>
                        /\ ~m.on)
        /\ crossed' = [crossed EXCEPT ![m.video] =
                          @ \/ m.had # (m.viewer \in liked[m.video])]
        /\ UNCHANGED <<vars, read>>

(* The worker's transaction rolls back. *)
ForgetLike(w) ==
    /\ liking[w] # Null
    /\ liking' = [liking EXCEPT ![w] = Null]
    /\ UNCHANGED <<vars, read, moved, liked, likes, crossed>>

(* The call, and the consumer's workers. *)
ReadersOnly ==
    \/ \E v \in Videos, caller \in Callers : FindPublished(v, caller)
    \/ \E w \in Likers, v \in Videos, u \in Viewers, on \in BOOLEAN :
            ReadFlag(w, v, u, on)
    \/ \E w \in Likers : CommitLike(w) \/ ForgetLike(w)
    \/ GetMetadata \/ GetUserState \/ GetStats \/ Return

DetailsNext == (Next /\ UNCHANGED readerVars) \/ ReadersOnly

DetailsSpec == DetailsInit /\ [][DetailsNext]_detailVars

-----------------------------------------------------------------------------
(* Properties.                                                             *)

(* The two halves of an answer never contradict each other: the metadata is *)
(* not older than the view, and when both carry one version they show one  *)
(* row, although a commit may fall between the two SELECTs.                *)
AnswerMovesForward ==
    read.metadata # Null =>
        /\ read.metadata.version >= read.viewVersion
        /\ read.metadata.version = read.viewVersion =>
              /\ read.metadata.status = read.view.status
              /\ read.metadata.stage = read.view.stage

(* A like the answer shows its caller is among those it counts, unless it  *)
(* was taken back between the two SELECTs, or a message about a like of    *)
(* the video was decided from a flag that another has changed since: the   *)
(* other viewers' messages, duplicates and the floor at zero do not hide   *)
(* it.                                                                     *)
LikeIsCountedUnlessMoved ==
    read.phase = "answered" /\ read.hasLiked /\ ~moved /\ ~crossed[read.video] =>
        read.likeCount > 0

(* A published video stays available: it stops being served only when it   *)
(* is taken down or a stage is reported failed, never by a late report of  *)
(* a stage that is pending or in progress again.                           *)
PublishedStaysServed ==
    [][\A v \in Videos :
          video[v] # Null /\ video[v].status = "published" =>
              \/ Served(video'[v])
              \/ video'[v].status \in {"archived", "rejected"}
              \/ \E s \in Stages : video'[v].stage[s] = "failed"]_video

(* Request r commits in this step what it decided from an outdated row of v. *)
StaleDecision(r, v) ==
    /\ req[r].phase = "open" /\ req[r].video = v
    /\ req'[r].phase = "idle"
    /\ Stale(r) /\ DecidesStatus(req[r].changes)

(* The same with any number of callers, in any row, one that was raced for  *)
(* before included: only a decision taken from an outdated row takes a     *)
(* published video from the readers in any other way.                      *)
PublishedStaysServedUnlessRaced ==
    [][\A v \in Videos :
          video[v] # Null /\ video[v].status = "published" =>
              \/ Served(video'[v])
              \/ video'[v].status \in {"archived", "rejected"}
              \/ \E s \in Stages : video'[v].stage[s] = "failed"
              \/ \E r \in Requests : StaleDecision(r, v)]_video
================================================================================
