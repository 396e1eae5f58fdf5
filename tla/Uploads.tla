------------------------------- MODULE Uploads -------------------------------
(***************************************************************************)
(* Upload sessions (catalog.uploads) and the task that turns finalized     *)
(* objects into videos.                                                    *)
(*                                                                         *)
(* InitResumableUpload reads the session of a user and a content MD5,      *)
(* decides video id and object name from it, signs a URL and upserts the   *)
(* session, with no transaction around the two statements.  The finalize   *)
(* handler runs inside the transaction of the inbox runner, but the        *)
(* lifecycle writer it calls opens transactions of its own: what these     *)
(* have committed stays when the outer one rolls back and the message is   *)
(* delivered again.                                                        *)
(*                                                                         *)
(* An object name contains the video id it was generated from, so it is    *)
(* named by that id here, and so is the generation of the one object ever  *)
(* written under that name (the URL is signed with if-generation-match:0). *)
(* Titles, sizes expected, MIME types and the URL itself are left out;     *)
(* whether a stored URL is reused or signed again changes nothing else.    *)
(***************************************************************************)
EXTENDS Naturals, Sequences, FiniteSets

CONSTANTS
    Keys,           \* (user_id, content_md5) pairs
    Videos,         \* video ids, each also naming an object
    Inits,          \* InitResumableUpload calls that may be in flight
    Workers,        \* goroutines of the uploads runner
    Notices,        \* OBJECT_FINALIZE messages, by inbox event id
    Sizes,          \* sizes of finalized objects
    Null,           \* SQL NULL, no row
    Connections,    \* size of the connection pool
    MaxFailures,    \* bound on handler failures
    MaxVersion      \* bound on the version of a row, as in Lifecycle

VARIABLES
    uploads,        \* catalog.uploads: the committed row of every key
    inits,          \* what every InitResumableUpload call holds in memory
    named,          \* history: object names the row of a key has ever had
    issued,         \* objects for which clients of a key hold a signed URL
    store,          \* the bucket: the object written under every name
    notices,        \* the object every message is about, Null if unsent
    processed,      \* catalog.inbox_events with processed_at set
    worker,         \* the transaction every worker has open
    failures,       \* handler failures so far
    interrupted,    \* history: videos a handler created and failed to move on
    video, outbox, req, clock, raced      \* as in Lifecycle

(* The catalog of videos: the workers are its requests. *)
Catalog == INSTANCE Lifecycle WITH
    Requests <- Workers, Originals <- Sizes, Jobs <- {}, EmittedTimes <- {},
    Outputs <- {}, Encodings <- {}, Tags <- {}, ExpectVersion <- {FALSE},
    MaxClock <- 0

catalogVars == <<video, outbox, req, clock, raced>>
sessionVars == <<uploads, named, inits, issued>>
gcsVars == <<store, notices>>
troubleVars == <<failures, interrupted>>
vars == <<uploads, named, inits, issued, store, notices, processed, worker,
          failures, interrupted, catalogVars>>

Opt(S) == S \cup {Null}

(* What a call of InitResumableUpload has decided. *)
Calls == [key : Keys, video : Videos, object : Videos]

UploadStatuses == {"uploading", "completed", "failed"}

Sessions == [video : Videos, object : Videos, status : UploadStatuses,
             generation : Opt(Videos)]

(* What the bucket tells of a finalized object: an MD5 that is that of the *)
(* session or another one, or none (the decoder does not ask for md5Hash), *)
(* and the size, Null for zero.  Messages without an object name and MD5s  *)
(* that are no base64 are refused, and the bucket does not send them.      *)
Finalized == [md5 : {"same", "other", "none"}, size : Opt(Sizes)]

ASSUME ConstantsAssumption ==
    /\ Null \notin Keys \cup Videos \cup Notices \cup Sizes \cup UploadStatuses
    /\ Null \notin Calls \cup Sessions \cup Finalized
    /\ Null \notin Catalog!VideoStatuses \cup Catalog!StageStatuses
    /\ Null \notin Catalog!Visibilities
    /\ Null \notin Nat
    /\ Null \notin Catalog!Rows
    /\ Connections \in Nat /\ MaxFailures \in Nat /\ MaxVersion \in Nat

(* Phases of a worker: `matched` and `mismatched` are about to write the   *)
(* session, `marked` to create the video, `updating` is inside UpdateVideo *)
(* and `done` about to commit.  row is the session as GetByObject read it, *)
(* mark the uncommitted status write.                                      *)
Idle == [phase |-> "idle", notice |-> Null, key |-> Null, row |-> Null,
         mark |-> Null]

WorkerStates ==
    [phase : {"idle", "matched", "mismatched", "marked", "updating", "done"},
     notice : Opt(Notices), key : Opt(Keys), row : Opt(Sessions),
     mark : {"completed", "failed", Null}]

Init ==
    /\ uploads = [k \in Keys |-> Null]
    /\ named = [k \in Keys |-> {}]
    /\ inits = [i \in Inits |-> Null]
    /\ issued = [k \in Keys |-> {}]
    /\ store = [o \in Videos |-> Null]
    /\ notices = [n \in Notices |-> Null]
    /\ processed = {}
    /\ worker = [w \in Workers |-> Idle]
    /\ failures = 0
    /\ interrupted = {}
    /\ Catalog!Init

(* An UPDATE of a session that is not committed holds its row lock. *)
Locked(k) == \E w \in Workers : worker[w].key = k /\ worker[w].mark # Null

(* Mutant of FreeConnection: CreateVideo's connection is not returned. *)
FreeConnection_Leaked ==
    Cardinality({w \in Workers : worker[w].phase # "idle"})
      + Cardinality({w \in Workers : req[w].phase # "idle"}) < Connections

(* A worker holds a connection for the inbox transaction and takes another *)
(* one for each transaction of the lifecycle writer.                       *)
FreeConnection ==
    Cardinality({w \in Workers : worker[w].phase # "idle"})
      + Cardinality({w \in Workers : req[w].phase = "open"}) < Connections

-----------------------------------------------------------------------------
(* InitResumableUpload.                                                    *)

(* Ids that uuid.New may return: none that was seen before. *)
NewIds ==
    {v \in Videos :
        /\ \A k \in Keys : v \notin named[k]
        /\ \A i \in Inits : inits[i] # Null => v \notin {inits[i].video, inits[i].object}}

(* Mutant of LookupSession: the session is looked up by content alone. *)
LookupSession_AnyUser(i, k) ==
    /\ inits[i] = Null
    /\ \/ /\ \A j \in Keys : uploads[j] = Null
          /\ \E v \in NewIds :
                inits' = [inits EXCEPT ![i] = [key |-> k, video |-> v, object |-> v]]
       \/ \E j \in Keys :
             /\ uploads[j] # Null
             /\ uploads[j].status # "completed"
             /\ inits' = [inits EXCEPT ![i] = [key |-> k, video |-> uploads[j].video,
                                               object |-> uploads[j].object]]
    /\ UNCHANGED <<uploads, named, issued, gcsVars, processed, worker, troubleVars,
                   catalogVars>>

(* GetByUserMD5 and the choice of video id and object name; a completed    *)
(* session is refused.                                                     *)
LookupSession(i, k) ==
    /\ inits[i] = Null
    /\ \/ /\ uploads[k] = Null
          /\ \E v \in NewIds :
                inits' = [inits EXCEPT ![i] = [key |-> k, video |-> v, object |-> v]]
       \/ /\ uploads[k] # Null
          /\ uploads[k].status # "completed"
          /\ inits' = [inits EXCEPT ![i] = [key |-> k, video |-> uploads[k].video,
                                            object |-> uploads[k].object]]
    /\ UNCHANGED <<uploads, named, issued, gcsVars, processed, worker, troubleVars,
                   catalogVars>>

(* Mutant of UpsertUpload: the video id is overwritten too. *)
UpsertUpload_NewVideo(row, call) ==
    [video |-> call.video, object |-> call.object,
     status |-> IF row # Null /\ row.status = "completed" THEN "completed"
                ELSE "uploading",
     generation |-> IF row = Null THEN Null ELSE row.generation]

(* Mutant of UpsertUpload: a completed session is opened again. *)
UpsertUpload_Reopens(row, call) ==
    [video |-> IF row = Null THEN call.video ELSE row.video,
     object |-> call.object, status |-> "uploading",
     generation |-> IF row = Null THEN Null ELSE row.generation]

(* INSERT ... ON CONFLICT (user_id, content_md5) DO UPDATE: the video id   *)
(* stays, the object name is overwritten, completed stays completed.       *)
UpsertUpload(row, call) ==
    IF row = Null
    THEN [video |-> call.video, object |-> call.object, status |-> "uploading",
          generation |-> Null]
    ELSE [row EXCEPT !.object = call.object,
                     !.status = IF @ = "completed" THEN @ ELSE "uploading"]

(* The upsert of call i commits. *)
UpsertCommits(i) ==
    /\ inits[i] # Null
    /\ ~Locked(inits[i].key)
    /\ uploads' = [uploads EXCEPT ![inits[i].key] = UpsertUpload(@, inits[i])]
    /\ named' = [named EXCEPT ![inits[i].key] = @ \cup {inits[i].object}]
    /\ inits' = [inits EXCEPT ![i] = Null]
    /\ UNCHANGED <<gcsVars, processed, worker, troubleVars, catalogVars>>

(* The URL handed out is for the object the call decided on. *)
UpsertSession(i) ==
    /\ UpsertCommits(i)
    /\ issued' = [issued EXCEPT ![inits[i].key] = @ \cup {inits[i].object}]

(* The upsert has committed and the call ends in an error: a lost          *)
(* connection or a timeout keeps its URL from the client.                  *)
UpsertAnswerLost(i) ==
    /\ UpsertCommits(i)
    /\ UNCHANGED issued

(* The signer or the upsert fails, or the call times out before it. *)
InitFails(i) ==
    /\ inits[i] # Null
    /\ inits' = [inits EXCEPT ![i] = Null]
    /\ UNCHANGED <<uploads, named, issued, gcsVars, processed, worker, troubleVars,
                   catalogVars>>

-----------------------------------------------------------------------------
(* The bucket and its notifications.                                       *)

(* A client completes an upload: the signed x-goog-if-generation-match:0   *)
(* makes the bucket refuse it when the object exists.                      *)
PutObject(k, o, n, md5, size) ==
    /\ o \in issued[k]
    /\ store[o] = Null
    /\ notices[n] = Null
    /\ store' = [store EXCEPT ![o] = [md5 |-> md5, size |-> size]]
    /\ notices' = [notices EXCEPT ![n] = o]
    /\ UNCHANGED <<sessionVars, processed, worker, troubleVars, catalogVars>>

(* The notification is published at least once.  ensureUploadAttributes    *)
(* derives the event id from the generation, and then another message is   *)
(* a redelivery of the first one; when the attributes lack the bucket, the *)
(* object or the generation, the id is the message's own: a new notice.    *)
NotifyAgain(o, n) ==
    /\ store[o] # Null
    /\ notices[n] = Null
    /\ notices' = [notices EXCEPT ![n] = o]
    /\ UNCHANGED <<sessionVars, store, processed, worker, troubleVars, catalogVars>>

-----------------------------------------------------------------------------
(* The finalize handler.                                                   *)

(* Mutant of Verdict: the MD5 of the object is not compared. *)
Verdict_NoMD5(row, o) ==
    IF row.status = "completed" /\ row.generation = o THEN "done" ELSE "matched"

(* What Handle does with the session it has read: skip the generation      *)
(* already completed, fail on another MD5, complete on the same or on none. *)
Verdict(row, o) ==
    IF row.status = "completed" /\ row.generation = o THEN "done"
    ELSE IF store[o].md5 = "other" THEN "mismatched"
    ELSE "matched"

(* Take message n on, record it in the inbox and read its session.  The    *)
(* primary key of the inbox keeps two workers off one message.             *)
TakeNotice(w, n) ==
    /\ worker[w].phase = "idle"
    /\ notices[n] # Null
    /\ n \notin processed
    /\ \A x \in Workers : worker[x].notice # n
    /\ FreeConnection

(* Mutant of HandleUnknown: an unknown object is reported as an error. *)
HandleUnknown_Error(w, n) ==
    /\ TakeNotice(w, n)
    /\ \A k \in Keys : uploads[k] # Null => uploads[k].object # notices[n]
    /\ UNCHANGED vars

(* GetByObject finds no session: the message is accepted with a warning. *)
HandleUnknown(w, n) ==
    /\ TakeNotice(w, n)
    /\ \A k \in Keys : uploads[k] # Null => uploads[k].object # notices[n]
    /\ worker' = [worker EXCEPT ![w] = [Idle EXCEPT !.phase = "done", !.notice = n]]
    /\ UNCHANGED <<sessionVars, gcsVars, processed, troubleVars, catalogVars>>

HandleFinalize(w, n) ==
    /\ TakeNotice(w, n)
    /\ \E k \in Keys :
          /\ uploads[k] # Null
          /\ uploads[k].object = notices[n]
          /\ worker' = [worker EXCEPT ![w] =
                [phase |-> Verdict(uploads[k], notices[n]), notice |-> n,
                 key |-> k, row |-> uploads[k], mark |-> Null]]
    /\ UNCHANGED <<sessionVars, gcsVars, processed, troubleVars, catalogVars>>

(* UPDATE ... WHERE video_id: waits for the row lock and keeps it. *)
MarkFailed(w) ==
    /\ worker[w].phase = "mismatched"
    /\ ~Locked(worker[w].key)
    /\ worker' = [worker EXCEPT ![w].phase = "done", ![w].mark = "failed"]
    /\ UNCHANGED <<sessionVars, gcsVars, processed, troubleVars, catalogVars>>

(* A session that was read as completed already has its video. *)
MarkCompleted(w) ==
    /\ worker[w].phase = "matched"
    /\ ~Locked(worker[w].key)
    /\ worker' = [worker EXCEPT
                    ![w].phase = IF worker[w].row.status = "completed" THEN "done"
                                 ELSE "marked",
                    ![w].mark = "completed"]
    /\ UNCHANGED <<sessionVars, gcsVars, processed, troubleVars, catalogVars>>

(* Mutant of CreateVideo: the created event is enqueued on every retry. *)
CreateVideo_EventRepeated(w) ==
    LET v == worker[w].row.video
    IN  /\ worker[w].phase = "marked"
        /\ FreeConnection
        /\ video' = [video EXCEPT ![v] = IF @ = Null THEN Catalog!NewVideoRow(clock)
                                         ELSE @]
        /\ outbox' = [outbox EXCEPT ![v] =
                         Append(@, Catalog!NewVideoCreatedEvent(video'[v]))]
        /\ worker' = [worker EXCEPT ![w].phase = "done"]
        /\ UNCHANGED <<sessionVars, gcsVars, processed, troubleVars, req, clock, raced>>

(* Mutant of CreateVideo: processing is not asked for. *)
CreateVideo_LeftPending(w) ==
    /\ worker[w].phase = "marked"
    /\ FreeConnection
    /\ Catalog!RegisterUpload(worker[w].row.video)
    /\ worker' = [worker EXCEPT ![w].phase = "done"]
    /\ UNCHANGED <<sessionVars, gcsVars, processed, troubleVars>>

(* CreateVideo commits in a transaction of its own, and the update that    *)
(* follows is decided: none when the video exists and the size is zero.    *)
CreateVideo(w) ==
    LET v == worker[w].row.video
        size == store[notices[worker[w].notice]].size
    IN  /\ worker[w].phase = "marked"
        /\ FreeConnection
        /\ \/ /\ video[v] = Null \/ size # Null
              /\ Catalog!FinalizeUpload(w, v, size)
              /\ worker' = [worker EXCEPT ![w].phase = "updating"]
           \/ /\ video[v] # Null /\ size = Null
              /\ worker' = [worker EXCEPT ![w].phase = "done"]
              /\ UNCHANGED catalogVars
        /\ UNCHANGED <<sessionVars, gcsVars, processed, troubleVars>>

(* UpdateVideo opens its transaction. *)
UpdateBegins(w) ==
    /\ worker[w].phase = "updating"
    /\ FreeConnection
    /\ Catalog!Begin(w)
    /\ UNCHANGED <<sessionVars, gcsVars, processed, worker, troubleVars>>

UpdateCommits(w) ==
    /\ worker[w].phase = "updating"
    /\ Catalog!Commit(w)
    /\ worker' = [worker EXCEPT ![w].phase = "done"]
    /\ UNCHANGED <<sessionVars, gcsVars, processed, troubleVars>>

(* Mutant of MarkedRow: a failure is recorded as a status of its own. *)
MarkedRow_MismatchStatus(w) ==
    LET row == uploads[worker[w].key]
    IN  IF worker[w].mark = "completed"
        THEN [row EXCEPT !.status = "completed",
                         !.generation = notices[worker[w].notice]]
        ELSE [row EXCEPT !.status = "mismatch"]

(* The session as the transaction of worker w has written it. *)
MarkedRow(w) ==
    LET row == uploads[worker[w].key]
    IN  IF worker[w].mark = "completed"
        THEN [row EXCEPT !.status = "completed",
                         !.generation = notices[worker[w].notice]]
        ELSE [row EXCEPT !.status = "failed"]

(* The inbox runner marks the message processed and commits. *)
CommitNotice(w) ==
    /\ worker[w].phase = "done"
    /\ uploads' = IF worker[w].mark = Null THEN uploads
                  ELSE [uploads EXCEPT ![worker[w].key] = MarkedRow(w)]
    /\ processed' = processed \cup {worker[w].notice}
    /\ worker' = [worker EXCEPT ![w] = Idle]
    /\ UNCHANGED <<named, inits, issued, gcsVars, troubleVars, catalogVars>>

(* The handler returns an error: both open transactions roll back, and the *)
(* message is delivered again.  A video the handler created stays, and no  *)
(* other delivery asks for its processing.                                 *)
Rollback(w) ==
    /\ worker' = [worker EXCEPT ![w] = Idle]
    /\ IF req[w].phase = "idle" THEN UNCHANGED catalogVars ELSE Catalog!Abort(w)
    /\ interrupted' = IF req[w].changes.status = Null THEN interrupted
                      ELSE interrupted \cup {req[w].video}
    /\ UNCHANGED <<sessionVars, gcsVars, processed>>

(* A statement or a commit fails, or the process stops. *)
HandlerFails(w) ==
    /\ worker[w].phase # "idle"
    /\ failures < MaxFailures
    /\ failures' = failures + 1
    /\ Rollback(w)

(* The worker is about to open a transaction inside that of the inbox. *)
WantsConnection(w) == worker[w].phase = "marked" \/ req[w].phase = "prepared"

(* The worker waits for a row lock or for a connection. *)
Waiting(w) ==
    \/ worker[w].phase \in {"matched", "mismatched"} /\ Locked(worker[w].key)
    \/ WantsConnection(w) /\ ~FreeConnection

(* lock_timeout, or the timeout of the transaction. *)
WaitTimesOut(w) ==
    /\ Waiting(w)
    /\ Rollback(w)
    /\ UNCHANGED failures

(* What a goroutine does once it has taken a message on. *)
HandlerStep(w) ==
    \/ MarkFailed(w) \/ MarkCompleted(w)
    \/ CreateVideo(w) \/ UpdateBegins(w) \/ UpdateCommits(w)
    \/ CommitNotice(w) \/ WaitTimesOut(w)

Next ==
    \/ \E i \in Inits, k \in Keys : LookupSession(i, k)
    \/ \E i \in Inits : UpsertSession(i) \/ UpsertAnswerLost(i) \/ InitFails(i)
    \/ \E k \in Keys, o \in Videos, n \in Notices, object \in Finalized :
          PutObject(k, o, n, object.md5, object.size)
    \/ \E o \in Videos, n \in Notices : NotifyAgain(o, n)
    \/ \E w \in Workers, n \in Notices : HandleUnknown(w, n) \/ HandleFinalize(w, n)
    \/ \E w \in Workers : HandlerStep(w) \/ HandlerFails(w)

Spec == Init /\ [][Next]_vars

(* Pub/Sub delivers a message until it is acknowledged, and a goroutine    *)
(* that has taken one on runs to the end of the handler.                   *)
Fairness ==
    /\ \A n \in Notices :
          WF_vars(\E w \in Workers : HandleUnknown(w, n) \/ HandleFinalize(w, n))
    /\ \A w \in Workers : WF_vars(HandlerStep(w))

FairSpec == Spec /\ Fairness

-----------------------------------------------------------------------------
(* Properties.                                                             *)

(* Type invariant. *)
TypeOK ==
    /\ uploads \in [Keys -> Opt(Sessions)]
    /\ named \in [Keys -> SUBSET Videos]
    /\ inits \in [Inits -> Opt(Calls)]
    /\ issued \in [Keys -> SUBSET Videos]
    /\ store \in [Videos -> Opt(Finalized)]
    /\ notices \in [Notices -> Opt(Videos)]
    /\ processed \subseteq Notices
    /\ worker \in [Workers -> WorkerStates]
    /\ failures \in 0 .. MaxFailures
    /\ interrupted \subseteq Videos
    /\ Catalog!TypeOK

(* A session is committed as completed only when its video has been        *)
(* committed by the other transaction.                                     *)
CompletedHasVideo ==
    \A k \in Keys : uploads[k] # Null /\ uploads[k].status = "completed" =>
        video[uploads[k].video] # Null

(* A completed session has its video, whatever fails or is repeated between *)
(* the two transactions, and that video has left pending_upload: whichever *)
(* delivery completes the session, its own handler or an earlier one has   *)
(* moved the video on, unless the handler that created it failed.          *)
CompletedIsProcessedUnlessInterrupted ==
    /\ CompletedHasVideo
    /\ \A k \in Keys : uploads[k] # Null /\ uploads[k].status = "completed" =>
          \/ video[uploads[k].video].status # "pending_upload"
          \/ uploads[k].video \in interrupted

(* A session keeps the video id it was created with: retries, other calls  *)
(* and late finalizations all refer to one video.                          *)
SessionKeepsItsVideo ==
    [][\A k \in Keys : uploads[k] # Null =>
          uploads'[k] # Null /\ uploads'[k].video = uploads[k].video]_uploads

(* A video exists only for a session one of whose own clients uploaded an  *)
(* object whose MD5 is not another one than the session was opened for.    *)
VideoHasMatchingUpload ==
    \A v \in Videos : video[v] # Null =>
        \E k \in Keys :
            /\ uploads[k] # Null
            /\ uploads[k].video = v
            /\ \E o \in issued[k] : store[o] # Null /\ store[o].md5 # "other"

(* No client is ever handed an object or a video id of another session: a   *)
(* session is found by user and content together.                          *)
SessionsAreDistinct ==
    \A j, k \in Keys : j # k =>
        /\ issued[j] \cap issued[k] = {}
        /\ uploads[j] # Null /\ uploads[k] # Null =>
              uploads[j].video # uploads[k].video

(* However often a finalization is delivered, consumers are told once that *)
(* its video was created.                                                  *)
CreatedOnce ==
    \A v \in Videos :
        Cardinality({i \in DOMAIN outbox[v] : outbox[v][i].kind = "created"}) <= 1

(* As long as the row of a session has named one object only, an upload    *)
(* that does not mismatch and whose message was acknowledged leaves it     *)
(* completed: no acknowledged upload is lost, and no later call or message *)
(* opens the session again.                                                *)
AcknowledgedUploadCompletes ==
    \A n \in processed : store[notices[n]].md5 # "other" =>
        \A k \in Keys : named[k] = {notices[n]} =>
            uploads[k].status = "completed"

(* The handlers hold the whole pool and one of them wants a connection more. *)
PoolExhausted ==
    /\ Cardinality({w \in Workers : worker[w].phase # "idle"}) >= Connections
    /\ \E w \in Workers : WantsConnection(w)

(* Row locks never close a circle: when no worker in a handler can go on   *)
(* without a timeout, that is because the handlers hold the whole pool.    *)
NoCircularWait ==
    (\E w \in Workers : worker[w].phase # "idle") =>
        \/ \E w \in Workers : worker[w].phase # "idle" /\ ~Waiting(w)
        \/ PoolExhausted

(* Every finalization is eventually processed, when failures are finitely  *)
(* many, unless the handlers exhaust the pool over and over.               *)
EveryNoticeIsProcessed ==
    \/ []<>PoolExhausted
    \/ \A n \in Notices : notices[n] # Null ~> n \in processed

-----------------------------------------------------------------------------
(* What upload-system.md says, and the code breaks.                        *)

(* Concurrent calls of one user and content converge to one object name. *)
OneObjectPerKey == \A k \in Keys : Cardinality(issued[k]) <= 1
=============================================================================
