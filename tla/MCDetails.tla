------------------------------- MODULE MCDetails -------------------------------
(* Details for TLC, with the view of MCLifecycle on the outbox. *)
EXTENDS Details, MCLifecycle

MCSymmetry == JobSymmetry \cup Permutations(Viewers) \cup Permutations(Likers)

(* Commits a young row has had, the INSERT among them. *)
MaxYoung == 2

(* Nothing happens to the likes before the row has had all its commits. *)
Settled(v) ==
    /\ video[v] # Null
    /\ video[v].version >= MaxVersion
    /\ clock = MaxClock
    /\ \A r \in Requests : req[r].phase = "idle"

LikesBegun ==
    \/ liking # [w \in Likers |-> Null]
    \/ liked # [v \in Videos |-> {}]
    \/ read.phase \in {"personal", "answered"}

(* Nothing reads updated_at of a row, and of the version a request has seen *)
(* only matters whether it is the row's.                                   *)
UndatedView ==
    <<[v \in Videos |-> IF video[v] = Null THEN Null
                        ELSE [video[v] EXCEPT !.updatedAt = 0]],
      [v \in Videos |-> Told(outbox[v])], clock, raced,
      [r \in Requests |->
          IF req[r].phase = "idle" THEN Null
          ELSE <<[req[r] EXCEPT !.base = 0], Stale(r)>>]>>

(* The likes do not depend on what led to the row, and a call that has     *)
(* compared view and metadata not on these.                                *)
DetailsView ==
    IF LikesBegun
    THEN <<[v \in Videos |-> Served(video[v])], likeVars, moved,
           [read EXCEPT !.view = Null, !.viewVersion = Null, !.metadata = Null]>>
    ELSE <<UndatedView, read>>

(* The bounds of that run: messages about likes are handled, and likes     *)
(* read, when the row is settled, and none after one has crossed another.  *)
LikesLast ==
    /\ liking' # liking \/ (read'.phase = "personal" /\ read.phase = "described") =>
          (\A v \in Videos : Settled(v)) /\ read.phase # "viewed"
    /\ liking' # liking => \A v \in Videos : ~crossed[v]

(* A report that the media stage is in progress, by any job at any time, on *)
(* a row that has seen nothing else.                                       *)
MediaReport(r, v) ==
    /\ video[v].stage["analysis"] = "pending"
    /\ video[v].status \in {"pending_upload", "processing"}
    /\ {video[v].original, video[v].output["media"]} = {Null}
    /\ \E job \in Opt(Jobs), emitted \in EmittedTimes :
          UpdateProcessingStatus(r, v, "media", "processing", job, emitted, Null, Null)

(* All other requests name no job and only one time. *)
OneTime == INSTANCE Lifecycle WITH Jobs <- {}, EmittedTimes <- {1}

Plain(row) ==
    /\ row.job = NoStage
    /\ \A s \in Stages : row.emitted[s] \in {Null, 1}

Alone(r) == \A q \in Requests \ {r} : req[q].phase = "idle"

(* Two requests overlap when one reports on a young row. *)
Start(r, v) ==
    /\ video[v] # Null
    /\ \/ Alone(r) /\ MediaReport(r, v)
       \/ Alone(r) /\ Plain(video[v]) /\ OneTime!StartRequest(r, v)
       \/ video[v].version <= MaxYoung /\ MediaReport(r, v)

(* Details with these requests. *)
ReadersNext ==
    \/ /\ \/ \E v \in Videos : RegisterUpload(v)
          \/ \E r \in Requests, v \in Videos :
                \/ \E size \in Opt(Originals) : FinalizeUpload(r, v, size)
                \/ Start(r, v)
          \/ \E r \in Requests : Begin(r) \/ Commit(r) \/ Abort(r)
          \/ Tick
       /\ UNCHANGED readerVars
    \/ ReadersOnly

ReadersSpec == DetailsInit /\ [][ReadersNext]_detailVars

(* The writers of Details alone, two at a time, until a video is published  *)
(* and taken back.                                                          *)
WritersSpec == DetailsInit /\ [][Next /\ UNCHANGED readerVars]_detailVars

(* The bound of that run: requests start on a row at most one commit older  *)
(* than MaxYoung, and on one with both stages ready that no decision from  *)
(* an outdated row was committed on.                                       *)
YoungOrReady ==
    \A r \in Requests : req[r].phase = "idle" /\ req'[r].phase # "idle" =>
        LET v == req'[r].video
        IN  \/ video'[v].version <= MaxYoung + 1
            \/ ~raced[v] /\ \A s \in Stages : video[v].stage[s] = "ready"

(* Without the readers nothing looks at the outbox, nor at the times; and   *)
(* of the version a request has seen only matters whether it is the row's. *)
WritersView ==
    <<[v \in Videos |-> IF video[v] = Null THEN Null
                        ELSE [video[v] EXCEPT !.updatedAt = 0]],
      raced,
      [r \in Requests |->
          [phase |-> req[r].phase, video |-> req[r].video,
           changes |-> req[r].changes,
           stale |-> req[r].phase # "idle" /\ Stale(r)]]>>
================================================================================
