--------------------------- MODULE LifecycleProofs ---------------------------
(* Theorems about Lifecycle, for every value of its constants. *)
EXTENDS Lifecycle, TLAPS

USE ConstantsAssumption

-----------------------------------------------------------------------------
(* Types.                                                                  *)

LEMMA NoChangeType == NoChange \in Updates
  BY DEF NoChange, Updates, NoStage, Opt

LEMMA NewVideoRowType ==
    ASSUME NEW now \in Nat
    PROVE  NewVideoRow(now) \in Rows
  BY DEF NewVideoRow, Rows, NoStage, Opt, VideoStatuses, StageStatuses,
         Visibilities, Stages

(* COALESCE keeps every column in its type. *)
LEMMA UpdateVideoRowType ==
    ASSUME NEW row \in Rows, NEW u \in Updates, NEW now \in Nat
    PROVE  UpdateVideoRow(row, u, now) \in Rows
  BY DEF UpdateVideoRow, Rows, Updates, Coalesce, Opt

LEMMA PublishDefaultsType ==
    ASSUME NEW u \in Updates, NEW cur \in Rows, clock \in Nat
    PROVE  PublishDefaults(u, cur) \in Updates
  <1> DEFINE at == IF u.publishAt = Null /\ cur.publishAt = Null THEN clock
                   ELSE u.publishAt
             vis == IF u.visibility = Null /\ cur.visibility # "public"
                    THEN "public" ELSE u.visibility
  <1>1. at \in Opt(Nat)
    BY DEF Updates, Opt
  <1>2. vis \in Opt(Visibilities)
    BY DEF Updates, Opt, Visibilities
  <1>3. PublishDefaults(u, cur) =
           IF u.status # "published" THEN u
           ELSE [u EXCEPT !.publishAt = at, !.visibility = vis]
    BY Zenon DEF PublishDefaults
  <1> HIDE DEF at, vis
  <1>4. [u EXCEPT !.publishAt = at, !.visibility = vis] \in Updates
    BY <1>1, <1>2 DEF Updates
  <1> QED
    BY <1>3, <1>4

LEMMA CreatedEventType ==
    ASSUME NEW row \in Rows
    PROVE  NewVideoCreatedEvent(row) \in Events
  BY DEF NewVideoCreatedEvent, NoPayload, Events, Payloads, Rows, NoStage, Opt

LEMMA UpdatedEventType ==
    ASSUME NEW u \in Updates, NEW now \in Nat
    PROVE  NewVideoUpdatedEvent(u, now) \in Events
  BY DEF NewVideoUpdatedEvent, UpdatePayload, Events, Payloads, Updates, Opt

LEMMA StatusChangeType ==
    ASSUME NEW cur \in Rows, NEW stage, NEW latest
    PROVE  StatusChange(cur, stage, latest) \in Opt(VideoStatuses)
  BY DEF StatusChange, ComputeOverallStatus, Opt, VideoStatuses, Rows

(* Preparing a request keeps the requests in their type. *)
LEMMA PrepareType ==
    ASSUME TypeOK, NEW r \in Requests, NEW op \in Operations, NEW v \in Videos,
           NEW cur \in Rows, NEW expected, NEW u \in Updates,
           Prepare(r, op, v, cur, expected, u)
    PROVE  req' \in [Requests -> RequestStates]
  <1>1. PublishDefaults(u, cur) \in Updates
    BY PublishDefaultsType DEF TypeOK
  <1>2. cur.version \in Nat
    BY DEF Rows
  <1> QED
    BY <1>1, <1>2 DEF Prepare, TypeOK, RequestStates, Opt

(* A video row together with its created event. *)
LEMMA CreateVideoType ==
    ASSUME TypeOK, NEW v \in Videos, CreateVideo(v)
    PROVE  /\ video' \in [Videos -> Opt(Rows)]
           /\ outbox' \in [Videos -> Seq(Events)]
  <1>1. NewVideoRow(clock) \in Rows
    BY NewVideoRowType DEF TypeOK
  <1>2. NewVideoCreatedEvent(NewVideoRow(clock)) \in Events
    BY <1>1, CreatedEventType
  <1> QED
    BY <1>1, <1>2 DEF CreateVideo, TypeOK, Opt

LEMMA StartRequestType ==
    ASSUME TypeOK, NEW r \in Requests, NEW v \in Videos, video[v] # Null,
           StartRequest(r, v)
    PROVE  /\ req' \in [Requests -> RequestStates]
           /\ UNCHANGED <<video, outbox, clock, raced>>
  <1> DEFINE cur == video[v]
  <1>1. cur \in Rows
    BY DEF TypeOK, Opt
  <1>2. NoChange \in Updates
    BY NoChangeType
  <1>3. ASSUME NEW expected, NEW original \in Originals,
               UpdateOriginalMedia(r, v, original, expected)
        PROVE  req' \in [Requests -> RequestStates]
    <2>1. [NoChange EXCEPT !.original = original] \in Updates
      BY <1>2 DEF Updates, Opt
    <2> QED
      BY <1>1, <1>3, <2>1, PrepareType DEF UpdateOriginalMedia, Operations
  <1>4. ASSUME NEW expected, NEW s \in Stages, NEW new \in StageStatuses,
               NEW job \in Opt(Jobs), NEW emitted \in EmittedTimes,
               NEW expectedStatus,
               UpdateProcessingStatus(r, v, s, new, job, emitted,
                                      expectedStatus, expected)
        PROVE  req' \in [Requests -> RequestStates]
    <2> DEFINE st == StatusChange(cur, [cur.stage EXCEPT ![s] = new], new)
               u == [NoChange EXCEPT !.status = st, !.stage[s] = new,
                                     !.job[s] = job, !.emitted[s] = emitted]
    <2>1. st \in Opt(VideoStatuses)
      BY <1>1, StatusChangeType
    <2>2. u \in Updates
      <3> HIDE DEF st
      <3> QED
        BY <1>2, <2>1 DEF Updates, Opt
    <2>3. Prepare(r, "report", v, cur, expected, u)
      BY <1>4 DEF UpdateProcessingStatus
    <2> HIDE DEF u
    <2> QED
      BY <1>1, <2>2, <2>3, PrepareType DEF Operations
  <1>5. ASSUME NEW expected, NEW op \in Operations, NEW s \in Stages,
               NEW new \in Opt(StageStatuses), NEW job \in Opt(Jobs),
               NEW emitted \in EmittedTimes, NEW u \in Updates,
               StageProduct(r, op, v, s, new, job, emitted, expected, u)
        PROVE  req' \in [Requests -> RequestStates]
    <2> DEFINE stage == [cur.stage EXCEPT ![s] = Coalesce(new, @)]
               st == StatusChange(cur, stage, stage[s])
               when == IF emitted = ZeroTime THEN Null ELSE emitted
               w == [u EXCEPT !.status = st, !.stage[s] = new,
                              !.job[s] = job, !.emitted[s] = when]
    <2>1. st \in Opt(VideoStatuses)
      BY <1>1, StatusChangeType
    <2>2. w \in Updates
      <3>1. when \in Opt(EmittedTimes)
        BY DEF Opt
      <3> HIDE DEF st, when
      <3> QED
        BY <1>5, <2>1, <3>1 DEF Updates, Opt
    <2>3. Prepare(r, op, v, cur, expected, w)
      BY <1>5 DEF StageProduct
    <2> HIDE DEF w
    <2> QED
      BY <1>1, <1>5, <2>2, <2>3, PrepareType
  <1>6. ASSUME NEW expected, NEW new \in Opt(StageStatuses), NEW job \in Opt(Jobs),
               NEW emitted \in EmittedTimes, NEW output \in Opt(Outputs),
               NEW encoded \in Opt(Encodings),
               UpdateMediaInfo(r, v, new, job, emitted, output, encoded, expected)
        PROVE  req' \in [Requests -> RequestStates]
    <2>1. [NoChange EXCEPT !.output["media"] = output, !.encoded = encoded]
             \in Updates
      BY <1>2 DEF Updates, Opt, Stages
    <2> QED
      BY <1>5, <1>6, <2>1 DEF UpdateMediaInfo, Operations, Stages
  <1>7. ASSUME NEW expected, NEW new \in Opt(StageStatuses), NEW job \in Opt(Jobs),
               NEW emitted \in EmittedTimes, NEW output \in Opt(Outputs),
               NEW tags \in Opt(Tags),
               UpdateAIAttributes(r, v, new, job, emitted, output, tags, expected)
        PROVE  req' \in [Requests -> RequestStates]
    <2>1. [NoChange EXCEPT !.output["analysis"] = output, !.tags = tags]
             \in Updates
      BY <1>2 DEF Updates, Opt, Stages
    <2> QED
      BY <1>5, <1>7, <2>1 DEF UpdateAIAttributes, Operations, Stages
  <1>8. ASSUME NEW expected, NEW target \in {"published", "rejected", "archived"},
               UpdateVisibility(r, v, target, expected)
        PROVE  req' \in [Requests -> RequestStates]
    <2> DEFINE wanted == IF target = "published" THEN "public" ELSE "private"
               vis == IF cur.visibility # wanted THEN wanted ELSE Null
               u == [NoChange EXCEPT !.status = target, !.visibility = vis]
    <2>1. target \in Opt(VideoStatuses) /\ vis \in Opt(Visibilities)
      BY DEF Opt, VideoStatuses, Visibilities
    <2> HIDE DEF vis
    <2>2. u \in Updates
      BY <1>2, <2>1 DEF Updates
    <2>3. Prepare(r, "visibility", v, cur, expected, u)
      BY <1>8 DEF UpdateVisibility, vis
    <2> HIDE DEF u
    <2> QED
      BY <1>1, <2>2, <2>3, PrepareType DEF Operations
  <1>9. UNCHANGED <<video, outbox, clock, raced>>
    <2> DEFINE Rest == UNCHANGED <<video, outbox, clock, raced>>
    <2>1. \A e, o : UpdateOriginalMedia(r, v, o, e) => Rest
      BY DEF UpdateOriginalMedia
    <2>2. \A e, s, n, j, t, x :
              UpdateProcessingStatus(r, v, s, n, j, t, x, e) => Rest
      BY DEF UpdateProcessingStatus
    <2>3. \A op, s, n, j, t, e, u : StageProduct(r, op, v, s, n, j, t, e, u) => Rest
      BY DEF StageProduct
    <2>4. \A n, j, t, o, x, e : UpdateMediaInfo(r, v, n, j, t, o, x, e) => Rest
      BY <2>3 DEF UpdateMediaInfo
    <2>5. \A n, j, t, o, x, e : UpdateAIAttributes(r, v, n, j, t, o, x, e) => Rest
      BY <2>3 DEF UpdateAIAttributes
    <2>6. \A g, e : UpdateVisibility(r, v, g, e) => Rest
      BY DEF UpdateVisibility
    <2> HIDE DEF Rest
    <2>7. Rest
      BY <2>1, <2>2, <2>4, <2>5, <2>6 DEF StartRequest
    <2> QED
      BY <2>7 DEF Rest
  <1> QED
    BY <1>3, <1>4, <1>6, <1>7, <1>8, <1>9 DEF StartRequest

LEMMA FinalizeUploadType ==
    ASSUME TypeOK, NEW r \in Requests, NEW v \in Videos,
           NEW size \in Opt(Originals), FinalizeUpload(r, v, size)
    PROVE  TypeOK'
  <1> DEFINE u1 == [NoChange EXCEPT !.status = "processing", !.original = size]
             u2 == [NoChange EXCEPT !.original = size]
  <1>1. u1 \in Updates /\ u2 \in Updates
    BY NoChangeType DEF Updates, Opt, VideoStatuses
  <1>2. CASE video[v] = Null
    <2>1. CreateVideo(v) /\ Prepare(r, "upload", v, NewVideoRow(clock), Null, u1)
      BY <1>2 DEF FinalizeUpload
    <2>2. NewVideoRow(clock) \in Rows
      BY NewVideoRowType DEF TypeOK
    <2> HIDE DEF u1, u2
    <2>3. req' \in [Requests -> RequestStates]
      BY <1>1, <2>1, <2>2, PrepareType DEF Operations
    <2> QED
      BY <2>1, <2>3, CreateVideoType DEF FinalizeUpload, TypeOK
  <1>3. CASE video[v] # Null
    <2>1. Prepare(r, "upload", v, video[v], Null, u2)
      BY <1>3 DEF FinalizeUpload
    <2>2. video[v] \in Rows
      BY <1>3 DEF TypeOK, Opt
    <2> HIDE DEF u1, u2
    <2>3. req' \in [Requests -> RequestStates]
      BY <1>1, <2>1, <2>2, PrepareType DEF Operations
    <2> QED
      BY <1>3, <2>3 DEF FinalizeUpload, TypeOK
  <1> QED
    BY <1>2, <1>3

LEMMA IdleRequestType == IdleRequest \in RequestStates
  BY NoChangeType DEF IdleRequest, RequestStates, Opt

LEMMA CommitType ==
    ASSUME TypeOK, RequestsInFlight, NEW r \in Requests, Commit(r)
    PROVE  TypeOK'
  <1> DEFINE v == req[r].video
             u == req[r].changes
             now == req[r].startedAt
  <1>1. /\ v \in Videos
        /\ video[v] \in Rows
        /\ u \in Updates
        /\ now \in Nat
    BY DEF Commit, RequestsInFlight, InFlight, TypeOK, RequestStates, Opt
  <1>2. UpdateVideoRow(video[v], u, now) \in Rows
    BY <1>1, UpdateVideoRowType
  <1>3. video' \in [Videos -> Opt(Rows)]
    BY <1>1, <1>2 DEF Commit, TypeOK, Opt
  <1>4. outbox' \in [Videos -> Seq(Events)]
    <2>1. NewVideoUpdatedEvent(u, now) \in Events
      BY <1>1, UpdatedEventType
    <2>2. EnqueueUpdated(v, u, now)
      BY DEF Commit
    <2> HIDE DEF v, u, now
    <2>3. outbox[v] \in Seq(Events)
      BY <1>1 DEF TypeOK
    <2>4. Append(outbox[v], NewVideoUpdatedEvent(u, now)) \in Seq(Events)
      BY <2>1, <2>3
    <2> QED
      BY <1>1, <2>2, <2>4 DEF EnqueueUpdated, TypeOK
  <1>5. req' \in [Requests -> RequestStates]
    BY IdleRequestType DEF Commit, TypeOK
  <1>6. raced' \in [Videos -> BOOLEAN]
    BY <1>1 DEF Commit, TypeOK, Stale, DecidesStatus
  <1>7. clock' \in Nat
    BY DEF Commit, TypeOK
  <1> QED
    BY <1>3, <1>4, <1>5, <1>6, <1>7 DEF TypeOK

LEMMA OpenRequestType ==
    ASSUME NEW q \in RequestStates, NEW now \in Nat
    PROVE  [q EXCEPT !.phase = "open", !.startedAt = now] \in RequestStates
  <1>1. now \in Opt(Nat)
    BY DEF Opt
  <1> QED
    BY <1>1 DEF RequestStates

LEMMA BeginType ==
    ASSUME TypeOK, NEW r \in Requests, Begin(r)
    PROVE  TypeOK'
  <1>1. req' \in [Requests -> RequestStates]
    <2>1. [req[r] EXCEPT !.phase = "open", !.startedAt = clock] \in RequestStates
      BY OpenRequestType DEF TypeOK
    <2>2. req' = [req EXCEPT ![r] = [req[r] EXCEPT !.phase = "open",
                                                  !.startedAt = clock]]
      BY DEF Begin
    <2> QED
      BY <2>1, <2>2 DEF TypeOK
  <1> QED
    BY <1>1 DEF Begin, TypeOK
(* A step that changes no request but r, no row and not the clock leaves    *)
(* every other request as it was.                                          *)
LEMMA OtherRequestsInFlight ==
    ASSUME TypeOK, RequestsInFlight, UNCHANGED <<video, clock>>,
           NEW r \in Requests,
           \A q \in Requests \ {r} : req'[q] = req[q],
           req'[r].phase # "idle" => InFlight(r)'
    PROVE  RequestsInFlight'
  BY DEF RequestsInFlight, InFlight

(* A prepared request holds its snapshot's version and no start time. *)
LEMMA PrepareInFlight ==
    ASSUME TypeOK, NEW r \in Requests, NEW op, NEW v \in Videos,
           NEW cur, NEW expected, NEW u, Prepare(r, op, v, cur, expected, u),
           video'[v] # Null, cur.version \in Nat, cur.version <= video'[v].version
    PROVE  /\ InFlight(r)'
           /\ req'[r].base = cur.version
           /\ req'[r].video = v
           /\ req'[r].phase = "prepared"
           /\ \A q \in Requests \ {r} : req'[q] = req[q]
  BY DEF Prepare, InFlight, TypeOK

(* Every request of StartRequest ends in Prepare, on the current row. *)
LEMMA StartRequestPrepares ==
    ASSUME NEW r \in Requests, NEW v \in Videos, StartRequest(r, v)
    PROVE  \E op, expected, u : Prepare(r, op, v, video[v], expected, u)
  <1> DEFINE Done == \E op, expected, u : Prepare(r, op, v, video[v], expected, u)
  <1>1. \A e, o : UpdateOriginalMedia(r, v, o, e) => Done
    BY DEF UpdateOriginalMedia
  <1>2. \A e, s, n, j, t, x :
            UpdateProcessingStatus(r, v, s, n, j, t, x, e) => Done
    BY DEF UpdateProcessingStatus
  <1>3. \A op, s, n, j, t, e, u : StageProduct(r, op, v, s, n, j, t, e, u) => Done
    BY DEF StageProduct
  <1>4. \A n, j, t, o, x, e : UpdateMediaInfo(r, v, n, j, t, o, x, e) => Done
    BY <1>3 DEF UpdateMediaInfo
  <1>5. \A n, j, t, o, x, e : UpdateAIAttributes(r, v, n, j, t, o, x, e) => Done
    BY <1>3 DEF UpdateAIAttributes
  <1>6. \A g, e : UpdateVisibility(r, v, g, e) => Done
    BY DEF UpdateVisibility
  <1> HIDE DEF Done
  <1>7. Done
    BY <1>1, <1>2, <1>4, <1>5, <1>6 DEF StartRequest
  <1> QED
    BY <1>7 DEF Done

LEMMA FinalizeUploadInFlight ==
    ASSUME TypeOK, RequestsInFlight, NEW r \in Requests, NEW v \in Videos,
           NEW size \in Opt(Originals), FinalizeUpload(r, v, size)
    PROVE  RequestsInFlight'
  <1>1. UNCHANGED clock
    BY DEF FinalizeUpload
  <1>2. CASE video[v] = Null
    <2> DEFINE new == NewVideoRow(clock)
    <2>1. PICK u : Prepare(r, "upload", v, new, Null, u)
      BY <1>2 DEF FinalizeUpload
    <2>2. video' = [video EXCEPT ![v] = new] /\ new \in Rows
      BY <1>2, NewVideoRowType DEF FinalizeUpload, CreateVideo, TypeOK
    <2> HIDE DEF new
    <2>3. video'[v] = new /\ new # Null /\ new.version \in Nat
      BY <2>2 DEF TypeOK, Rows
    <2>4. /\ InFlight(r)'
          /\ \A q \in Requests \ {r} : req'[q] = req[q]
      BY <2>1, <2>3, PrepareInFlight
    <2>5. ASSUME NEW q \in Requests \ {r}, req'[q].phase # "idle"
          PROVE  InFlight(q)'
      <3>1. InFlight(q) /\ req'[q] = req[q]
        BY <2>4, <2>5 DEF RequestsInFlight
      <3>2. req[q].video # v
        BY <1>2, <3>1 DEF InFlight
      <3> QED
        BY <1>1, <2>2, <3>1, <3>2 DEF InFlight, TypeOK
    <2> QED
      BY <2>4, <2>5 DEF RequestsInFlight
  <1>3. CASE video[v] # Null
    <2>1. PICK u : Prepare(r, "upload", v, video[v], Null, u)
      BY <1>3 DEF FinalizeUpload
    <2>2. UNCHANGED video
      BY <1>3 DEF FinalizeUpload
    <2>3. video[v] \in Rows /\ video[v].version \in Nat
      BY <1>3 DEF TypeOK, Opt, Rows
    <2>4. /\ InFlight(r)'
          /\ \A q \in Requests \ {r} : req'[q] = req[q]
      BY <1>3, <2>1, <2>2, <2>3, PrepareInFlight
    <2> QED
      BY <1>1, <2>2, <2>4, OtherRequestsInFlight
  <1> QED
    BY <1>2, <1>3

LEMMA StartRequestInFlight ==
    ASSUME TypeOK, RequestsInFlight, NEW r \in Requests, NEW v \in Videos,
           video[v] # Null, StartRequest(r, v)
    PROVE  RequestsInFlight'
  <1>1. PICK op, expected, u : Prepare(r, op, v, video[v], expected, u)
    BY StartRequestPrepares
  <1>2. UNCHANGED <<video, clock>>
    BY StartRequestType
  <1>3. video[v] \in Rows /\ video[v].version \in Nat
    BY DEF TypeOK, Opt, Rows
  <1>4. /\ InFlight(r)'
        /\ \A q \in Requests \ {r} : req'[q] = req[q]
    BY <1>1, <1>2, <1>3, PrepareInFlight
  <1> QED
    BY <1>2, <1>4, OtherRequestsInFlight

(* The commit of r: the row it leaves, and the requests it does not touch. *)
LEMMA CommitEffect ==
    ASSUME TypeOK, RequestsInFlight, NEW r \in Requests, Commit(r)
    PROVE  /\ req[r].video \in Videos
           /\ video[req[r].video] \in Rows
           /\ video' = [video EXCEPT ![req[r].video] = NextRow(r)]
           /\ NextRow(r) \in Rows
           /\ NextRow(r).version = video[req[r].video].version + 1
           /\ req' = [req EXCEPT ![r] = IdleRequest]
  <1>1. /\ req[r].video \in Videos
        /\ video[req[r].video] \in Rows
        /\ req[r].changes \in Updates
        /\ req[r].startedAt \in Nat
    BY DEF Commit, RequestsInFlight, InFlight, TypeOK, RequestStates, Opt
  <1>2. NextRow(r) \in Rows
    BY <1>1, UpdateVideoRowType DEF NextRow
  <1>3. NextRow(r).version = video[req[r].video].version + 1
    BY DEF NextRow, UpdateVideoRow
  <1>4. video' = [video EXCEPT ![req[r].video] = NextRow(r)]
    BY DEF Commit, NextRow
  <1> QED
    BY <1>1, <1>2, <1>3, <1>4 DEF Commit

LEMMA CommitInFlight ==
    ASSUME TypeOK, RequestsInFlight, NEW r \in Requests, Commit(r)
    PROVE  RequestsInFlight'
  <1> DEFINE v == req[r].video
             new == NextRow(r)
  <1>1. /\ v \in Videos
        /\ video[v] \in Rows
        /\ video' = [video EXCEPT ![v] = new]
        /\ new \in Rows
        /\ new.version = video[v].version + 1
        /\ req' = [req EXCEPT ![r] = IdleRequest]
    BY CommitEffect
  <1>2. UNCHANGED clock
    BY DEF Commit
  <1> HIDE DEF v, new
  <1> SUFFICES ASSUME NEW q \in Requests, req'[q].phase # "idle"
               PROVE  InFlight(q)'
    BY DEF RequestsInFlight
  <1>3. q # r /\ req'[q] = req[q]
    BY <1>1 DEF TypeOK, IdleRequest
  <1>4. InFlight(q)
    BY <1>3 DEF RequestsInFlight
  <1>5. video'[req[q].video] # Null
    BY <1>1, <1>4 DEF InFlight, TypeOK
  <1>6. req[q].base <= video'[req[q].video].version
    <2>1. CASE req[q].video = v
      <3>1. video'[v] = new
        BY <1>1 DEF TypeOK
      <3> QED
        BY <1>1, <1>4, <2>1, <3>1 DEF InFlight, Rows
    <2>2. CASE req[q].video # v
      BY <1>1, <1>4, <2>2 DEF InFlight, TypeOK
    <2> QED
      BY <2>1, <2>2
  <1> QED
    BY <1>2, <1>3, <1>4, <1>5, <1>6 DEF InFlight

LEMMA RegisterUploadInFlight ==
    ASSUME TypeOK, RequestsInFlight, NEW v \in Videos, RegisterUpload(v)
    PROVE  RequestsInFlight'
  <1> SUFFICES ASSUME NEW q \in Requests, req'[q].phase # "idle"
               PROVE  InFlight(q)'
    BY DEF RequestsInFlight
  <1>1. req'[q] = req[q] /\ UNCHANGED clock /\ InFlight(q)
    BY DEF RegisterUpload, RequestsInFlight
  <1>2. req[q].video # v
    BY <1>1 DEF RegisterUpload, InFlight
  <1>3. video'[req[q].video] = video[req[q].video]
    BY <1>1, <1>2 DEF RegisterUpload, CreateVideo, InFlight, TypeOK
  <1> QED
    BY <1>1, <1>3 DEF InFlight

(* Types and requests in flight hold initially and through every step. *)
LEMMA InitTypes == Init => TypeOK /\ RequestsInFlight
  BY IdleRequestType DEF Init, TypeOK, RequestsInFlight, IdleRequest, Opt

LEMMA NextTypes ==
    ASSUME TypeOK, RequestsInFlight, [Next]_vars
    PROVE  TypeOK' /\ RequestsInFlight'
  <1>1. CASE UNCHANGED vars
    BY <1>1 DEF vars, TypeOK, RequestsInFlight, InFlight
  <1>2. ASSUME NEW v \in Videos, RegisterUpload(v)
        PROVE  TypeOK' /\ RequestsInFlight'
    BY <1>2, CreateVideoType, RegisterUploadInFlight DEF RegisterUpload, TypeOK
  <1>3. ASSUME NEW r \in Requests, NEW v \in Videos, NEW size \in Opt(Originals),
               FinalizeUpload(r, v, size)
        PROVE  TypeOK' /\ RequestsInFlight'
    BY <1>3, FinalizeUploadType, FinalizeUploadInFlight
  <1>4. ASSUME NEW r \in Requests, NEW v \in Videos, video[v] # Null,
               StartRequest(r, v)
        PROVE  TypeOK' /\ RequestsInFlight'
    BY <1>4, StartRequestType, StartRequestInFlight DEF TypeOK
  <1>5. ASSUME NEW r \in Requests, Begin(r)
        PROVE  TypeOK' /\ RequestsInFlight'
    <2>1. TypeOK'
      BY <1>5, BeginType
    <2>2. InFlight(r)
      BY <1>5 DEF Begin, RequestsInFlight
    <2>3. InFlight(r)' /\ \A q \in Requests \ {r} : req'[q] = req[q]
      BY <1>5, <2>2 DEF Begin, InFlight, TypeOK, RequestStates
    <2>4. UNCHANGED <<video, clock>>
      BY <1>5 DEF Begin
    <2> QED
      BY <2>1, <2>3, <2>4, OtherRequestsInFlight
  <1>6. ASSUME NEW r \in Requests, Commit(r)
        PROVE  TypeOK' /\ RequestsInFlight'
    BY <1>6, CommitType, CommitInFlight
  <1>7. ASSUME NEW r \in Requests, Abort(r)
        PROVE  TypeOK' /\ RequestsInFlight'
    <2>1. TypeOK'
      BY <1>7, IdleRequestType DEF Abort, TypeOK
    <2>2. /\ req'[r].phase = "idle"
          /\ \A q \in Requests \ {r} : req'[q] = req[q]
          /\ UNCHANGED <<video, clock>>
      BY <1>7 DEF Abort, TypeOK, IdleRequest
    <2> QED
      BY <2>1, <2>2, OtherRequestsInFlight
  <1>8. CASE Tick
    BY <1>8 DEF Tick, TypeOK, RequestsInFlight, InFlight
  <1> QED
    BY <1>1, <1>2, <1>3, <1>4, <1>5, <1>6, <1>7, <1>8 DEF Next

(* Type correctness, and what every request in flight holds: its video     *)
(* exists, its snapshot's version is one the row has had, and its          *)
(* transaction started at a time the clock has shown.                      *)
THEOREM TypeCorrect == Spec => [](TypeOK /\ RequestsInFlight)
  <1>1. Init => TypeOK /\ RequestsInFlight
    BY InitTypes
  <1>2. TypeOK /\ RequestsInFlight /\ [Next]_vars => (TypeOK /\ RequestsInFlight)'
    BY NextTypes
  <1> QED
    BY <1>1, <1>2, PTL DEF Spec
=============================================================================
