------------------------ MODULE LifecycleStatusProofs ------------------------
(* The inductive invariant of Lifecycle and what follows from it: status    *)
(* agreement, versions, stage reports and event versions.                   *)
EXTENDS LifecycleProofs

USE ConstantsAssumption

-----------------------------------------------------------------------------
(* What an update does to the agreement of status, stages and visibility.  *)

KeepsAgreement(row, u) ==
    StatusAgrees(row) => \A now : StatusAgrees(UpdateVideoRow(row, u, now))

(* COALESCE: the columns of the updated row that agreement is about. *)
LEMMA UpdatedColumns ==
    ASSUME NEW row, NEW u, NEW now
    PROVE  LET new == UpdateVideoRow(row, u, now)
           IN  /\ new.status = IF u.status = Null THEN row.status ELSE u.status
               /\ new.visibility = IF u.visibility = Null THEN row.visibility
                                   ELSE u.visibility
               /\ \A s \in Stages :
                     new.stage[s] = IF u.stage[s] = Null THEN row.stage[s]
                                    ELSE u.stage[s]
  BY DEF UpdateVideoRow, Coalesce

LEMMA AgreementOfColumns ==
    ASSUME NEW a, NEW b, a.status = b.status, a.visibility = b.visibility,
           \A s \in Stages : a.stage[s] = b.stage[s], StatusAgrees(a)
    PROVE  StatusAgrees(b)
  BY DEF StatusAgrees

(* An update that decides nothing about the status keeps agreement. *)
LEMMA NoDecisionKeepsAgreement ==
    ASSUME NEW row, NEW u, ~DecidesStatus(u)
    PROVE  KeepsAgreement(row, u)
  <1> SUFFICES ASSUME StatusAgrees(row), NEW now
               PROVE  StatusAgrees(UpdateVideoRow(row, u, now))
    BY DEF KeepsAgreement
  <1> DEFINE new == UpdateVideoRow(row, u, now)
  <1>1. /\ row.status = new.status
        /\ row.visibility = new.visibility
        /\ \A s \in Stages : row.stage[s] = new.stage[s]
    BY UpdatedColumns DEF DecidesStatus
  <1> HIDE DEF new
  <1>2. StatusAgrees(new)
    BY <1>1, AgreementOfColumns
  <1> QED
    BY <1>2 DEF new

(* A recomputation never publishes. *)
LEMMA RecomputeNeverPublishes ==
    ASSUME NEW cur, NEW stage, NEW latest
    PROVE  StatusChange(cur, stage, latest) # "published"
  <1>1. Null # "published"
    BY DEF VideoStatuses
  <1> QED
    BY <1>1 DEF StatusChange, ComputeOverallStatus

(* The computed status agrees with the stages it is computed from. *)
LEMMA ComputedStatusAgrees ==
    ASSUME NEW row \in Rows, StatusAgrees(row), NEW s \in Stages,
           NEW w \in StageStatuses, NEW new, new.visibility = row.visibility,
           \A t \in Stages : new.stage[t] = IF t = s THEN w ELSE row.stage[t],
           new.status = ComputeOverallStatus(row.status, new.stage["media"],
                                             new.stage["analysis"], w)
    PROVE  StatusAgrees(new)
  <1>1. /\ row.status \in VideoStatuses
        /\ row.stage["media"] \in StageStatuses
        /\ row.stage["analysis"] \in StageStatuses
    BY DEF Rows, Stages
  <1>2. CASE s = "media"
    <2>1. new.stage["media"] = w /\ new.stage["analysis"] = row.stage["analysis"]
      BY <1>2 DEF Stages
    <2> QED
      BY <1>1, <2>1 DEF StatusAgrees, ComputeOverallStatus, Stages,
                         StageStatuses, VideoStatuses
  <1>3. CASE s = "analysis"
    <2>1. new.stage["analysis"] = w /\ new.stage["media"] = row.stage["media"]
      BY <1>3 DEF Stages
    <2> QED
      BY <1>1, <2>1 DEF StatusAgrees, ComputeOverallStatus, Stages,
                         StageStatuses, VideoStatuses
  <1> QED
    BY <1>2, <1>3 DEF Stages

(* An update of one stage whose status is the recomputed one. *)
LEMMA StageUpdateKeepsAgreement ==
    ASSUME NEW row \in Rows, NEW u, NEW s \in Stages,
           NEW new \in Opt(StageStatuses), NEW stage,
           stage = [row.stage EXCEPT ![s] = Coalesce(new, @)],
           u.status = StatusChange(row, stage, stage[s]),
           \A t \in Stages : u.stage[t] = IF t = s THEN new ELSE Null,
           u.visibility = Null
    PROVE  KeepsAgreement(row, u)
  <1> SUFFICES ASSUME StatusAgrees(row), NEW now
               PROVE  StatusAgrees(UpdateVideoRow(row, u, now))
    BY DEF KeepsAgreement
  <1> DEFINE next == UpdateVideoRow(row, u, now)
  <1>1. /\ next.status = IF u.status = Null THEN row.status ELSE u.status
        /\ next.visibility = row.visibility
        /\ \A t \in Stages :
              next.stage[t] = IF u.stage[t] = Null THEN row.stage[t] ELSE u.stage[t]
    BY UpdatedColumns
  <1> HIDE DEF next
  <1>2. /\ stage[s] \in StageStatuses
        /\ \A t \in Stages : stage[t] = IF t = s THEN stage[s] ELSE row.stage[t]
        /\ stage[s] = IF new = Null THEN row.stage[s] ELSE new
    BY DEF Rows, Coalesce, Opt
  <1>3. \A t \in Stages : next.stage[t] = stage[t]
    BY <1>1, <1>2 DEF Opt
  <1>4. "media" \in Stages /\ "analysis" \in Stages
    BY DEF Stages
  <1>5. next.status = ComputeOverallStatus(row.status, next.stage["media"],
                                           next.stage["analysis"], stage[s])
    <2> DEFINE computed == ComputeOverallStatus(row.status, stage["media"],
                                                stage["analysis"], stage[s])
    <2>1. u.status = IF computed # row.status THEN computed ELSE Null
      BY DEF StatusChange
    <2>2. computed \in VideoStatuses
      BY DEF ComputeOverallStatus, VideoStatuses, Rows
    <2> HIDE DEF computed
    <2>3. next.status = computed
      BY <1>1, <2>1, <2>2 DEF VideoStatuses
    <2> QED
      BY <1>3, <1>4, <2>3 DEF computed
  <1>6. StatusAgrees(next)
    BY <1>1, <1>2, <1>3, <1>5, ComputedStatusAgrees
  <1> QED
    BY <1>6 DEF next

(* Publish, reject and archive, with the defaults of publishing. *)
LEMMA VisibilityKeepsAgreement ==
    ASSUME NEW row \in Rows, NEW u, NEW target \in {"published", "rejected", "archived"},
           target = "published" => \A s \in Stages : row.stage[s] = "ready",
           u.status = target,
           \A s \in Stages : u.stage[s] = Null,
           LET wanted == IF target = "published" THEN "public" ELSE "private"
           IN  /\ u.visibility = Null => row.visibility = wanted
               /\ u.visibility # Null => u.visibility = wanted
    PROVE  KeepsAgreement(row, u)
  <1> SUFFICES ASSUME StatusAgrees(row), NEW now
               PROVE  StatusAgrees(UpdateVideoRow(row, u, now))
    BY DEF KeepsAgreement
  <1> DEFINE next == UpdateVideoRow(row, u, now)
  <1>1. /\ next.status = IF u.status = Null THEN row.status ELSE u.status
        /\ next.visibility = IF u.visibility = Null THEN row.visibility
                             ELSE u.visibility
        /\ \A t \in Stages : next.stage[t] = row.stage[t]
    BY UpdatedColumns
  <1> HIDE DEF next
  <1>2. next.status = target
    BY <1>1 DEF VideoStatuses
  <1>3. next.visibility = IF target = "published" THEN "public" ELSE "private"
    BY <1>1
  <1>4. StatusAgrees(next)
    BY <1>1, <1>2, <1>3 DEF StatusAgrees
  <1> QED
    BY <1>4 DEF next

(* The first update of an uploaded video. *)
LEMMA UploadKeepsAgreement ==
    ASSUME NEW row, NEW u, \A s \in Stages : row.stage[s] = "pending",
           u.status = "processing", u.visibility = Null,
           \A s \in Stages : u.stage[s] = Null
    PROVE  KeepsAgreement(row, u)
  <1> SUFFICES ASSUME NEW now PROVE StatusAgrees(UpdateVideoRow(row, u, now))
    BY DEF KeepsAgreement
  <1> DEFINE next == UpdateVideoRow(row, u, now)
  <1>1. /\ next.status = IF u.status = Null THEN row.status ELSE u.status
        /\ \A t \in Stages : next.stage[t] = "pending"
    BY UpdatedColumns
  <1> HIDE DEF next
  <1>2. next.status = "processing"
    BY <1>1 DEF VideoStatuses
  <1>3. StatusAgrees(next)
    BY <1>1, <1>2 DEF StatusAgrees, Stages
  <1> QED
    BY <1>3 DEF next

LEMMA NewVideoAgrees ==
    ASSUME NEW now PROVE StatusAgrees(NewVideoRow(now))
  BY DEF StatusAgrees, NewVideoRow, Stages

(* A validated report that says when it was emitted moves its stage forward. *)
LEMMA ReportMovesForward ==
    ASSUME NEW row \in Rows, NEW u, NEW s \in Stages, NEW job \in Opt(Jobs),
           NEW emitted \in EmittedTimes \ {ZeroTime}, NEW expectedStatus, NEW now,
           ValidateExpectations(row, s, job, emitted, expectedStatus),
           \A t \in Stages : u.emitted[t] = IF t = s THEN emitted ELSE Null,
           \A t \in Stages : u.job[t] = IF t = s THEN job ELSE Null
    PROVE  MovesForward(row, UpdateVideoRow(row, u, now))
  <1> DEFINE next == UpdateVideoRow(row, u, now)
  <1>1. \A t \in Stages :
          /\ next.emitted[t] = IF u.emitted[t] = Null THEN row.emitted[t]
                               ELSE u.emitted[t]
          /\ next.job[t] = IF u.job[t] = Null THEN row.job[t] ELSE u.job[t]
    BY DEF UpdateVideoRow, Coalesce
  <1> HIDE DEF next
  <1> SUFFICES ASSUME NEW t \in Stages, row.emitted[t] # Null
               PROVE  /\ next.emitted[t] # Null
                      /\ next.emitted[t] >= row.emitted[t]
                      /\ row.job[t] \notin {Null, next.job[t]} =>
                            next.emitted[t] > row.emitted[t]
    BY DEF MovesForward, next
  <1>2. row.emitted[t] \in Nat /\ emitted \in Nat /\ emitted # Null
    BY DEF Rows, Opt
  <1>3. CASE t = s
    <2>1. next.emitted[t] = emitted
      BY <1>1, <1>2, <1>3
    <2>2. next.job[t] = IF job = Null THEN row.job[t] ELSE job
      BY <1>1, <1>3
    <2> QED
      BY <1>2, <1>3, <2>1, <2>2 DEF ValidateExpectations
  <1>4. CASE t # s
    BY <1>1, <1>2, <1>4
  <1> QED
    BY <1>3, <1>4

-----------------------------------------------------------------------------
(* What every operation decides from its snapshot.                         *)

LEMMA PreparedDecision ==
    ASSUME TypeOK, NEW r \in Requests, NEW op, NEW v \in Videos, NEW cur,
           NEW expected, NEW u, Prepare(r, op, v, cur, expected, u),
           video'[v] = cur,
           KeepsAgreement(cur, PublishDefaults(u, cur)),
           op = "report" /\ (\A s \in Stages : u.emitted[s] # ZeroTime) => \A now :
               MovesForward(cur, UpdateVideoRow(cur, PublishDefaults(u, cur), now))
    PROVE  FreshDecision(r)'
  <1> DEFINE w == PublishDefaults(u, cur)
  <1>1. /\ req'[r].video = v
        /\ req'[r].changes = w
        /\ req'[r].op = op
        /\ req'[r].phase = "prepared"
    BY DEF Prepare, TypeOK
  <1> HIDE DEF w
  <1>2. NextRow(r)' = UpdateVideoRow(cur, w, req'[r].startedAt)
    BY <1>1 DEF NextRow
  <1>3. KeepsAgreement(cur, w)
    BY DEF w
  <1>4. w.emitted = u.emitted
    BY DEF w, PublishDefaults, Prepare
  <1>5. DatedReport(r)' => \A now : MovesForward(cur, UpdateVideoRow(cur, w, now))
    <2>1. op = "report" /\ (\A s \in Stages : u.emitted[s] # ZeroTime) =>
             \A now : MovesForward(cur, UpdateVideoRow(cur, w, now))
      BY DEF w
    <2> QED
      BY <1>1, <1>4, <2>1 DEF DatedReport
  <1> QED
    BY <1>1, <1>2, <1>3, <1>5 DEF FreshDecision, KeepsAgreement

LEMMA NoDefaultsUnpublished ==
    ASSUME NEW u, NEW cur, u.status # "published"
    PROVE  PublishDefaults(u, cur) = u
  BY DEF PublishDefaults

LEMMA StartRequestDecides ==
    ASSUME TypeOK, NEW r \in Requests, NEW v \in Videos, video[v] # Null,
           StartRequest(r, v)
    PROVE  FreshDecision(r)'
  <1> DEFINE cur == video[v]
  <1>1. cur \in Rows /\ video'[v] = cur
    BY StartRequestType DEF TypeOK, Opt
  <1>2. Null # "published"
    BY DEF VideoStatuses
  <1>3. /\ NoChange.status = Null
        /\ NoChange.visibility = Null
        /\ \A s \in Stages : /\ NoChange.stage[s] = Null
                             /\ NoChange.job[s] = Null
                             /\ NoChange.emitted[s] = Null
    BY DEF NoChange, NoStage
  <1>4. NoChange \in Updates
    BY NoChangeType
  <1>5. ASSUME NEW expected, NEW original \in Originals,
               UpdateOriginalMedia(r, v, original, expected)
        PROVE  FreshDecision(r)'
    <2> DEFINE u == [NoChange EXCEPT !.original = original]
    <2>1. Prepare(r, "original", v, cur, expected, u)
      BY <1>5 DEF UpdateOriginalMedia
    <2>2. /\ u.status = Null
          /\ u.visibility = Null
          /\ \A s \in Stages : u.stage[s] = Null
      BY <1>3, <1>4 DEF Updates
    <2> HIDE DEF u
    <2>3. KeepsAgreement(cur, u) /\ PublishDefaults(u, cur) = u
      BY <1>2, <2>2, NoDecisionKeepsAgreement, NoDefaultsUnpublished DEF DecidesStatus
    <2> QED
      BY <1>1, <2>1, <2>3, PreparedDecision
  <1>6. ASSUME NEW expected, NEW s \in Stages, NEW new \in StageStatuses,
               NEW job \in Opt(Jobs), NEW emitted \in EmittedTimes,
               NEW expectedStatus,
               UpdateProcessingStatus(r, v, s, new, job, emitted,
                                      expectedStatus, expected)
        PROVE  FreshDecision(r)'
    <2> DEFINE stage == [cur.stage EXCEPT ![s] = new]
               st == StatusChange(cur, stage, new)
               u == [NoChange EXCEPT !.status = st, !.stage[s] = new,
                                     !.job[s] = job, !.emitted[s] = emitted]
    <2>1. Prepare(r, "report", v, cur, expected, u)
      BY <1>6 DEF UpdateProcessingStatus
    <2>2. ValidateExpectations(cur, s, job, emitted, expectedStatus)
      BY <1>6 DEF UpdateProcessingStatus
    <2>3. stage = [cur.stage EXCEPT ![s] = Coalesce(new, @)] /\ stage[s] = new
      BY <1>1 DEF Coalesce, Rows, StageStatuses
    <2>4. st # "published"
      BY RecomputeNeverPublishes
    <2>5. /\ u.status = st
          /\ u.visibility = Null
          /\ \A t \in Stages : u.stage[t] = IF t = s THEN new ELSE Null
          /\ \A t \in Stages : u.job[t] = IF t = s THEN job ELSE Null
          /\ \A t \in Stages : u.emitted[t] = IF t = s THEN emitted ELSE Null
      <3> HIDE DEF st
      <3> QED
        BY <1>3, <1>4 DEF Updates
    <2>6. u.status = StatusChange(cur, stage, stage[s])
      BY <2>3, <2>5
    <2> HIDE DEF u, st
    <2>7. PublishDefaults(u, cur) = u
      BY <2>4, <2>5, NoDefaultsUnpublished
    <2>8. KeepsAgreement(cur, u)
      <3> HIDE DEF stage
      <3>1. new \in Opt(StageStatuses)
        BY DEF Opt
      <3>2. stage = [cur.stage EXCEPT ![s] = Coalesce(new, @)]
        BY <2>3
      <3>3. /\ u.visibility = Null
            /\ \A t \in Stages : u.stage[t] = IF t = s THEN new ELSE Null
        BY <2>5
      <3> QED
        BY ZenonT(40), <1>1, <2>6, <3>1, <3>2, <3>3, StageUpdateKeepsAgreement
    <2>9. (\A t \in Stages : u.emitted[t] # ZeroTime) =>
             \A now : MovesForward(cur, UpdateVideoRow(cur, u, now))
      <3> SUFFICES ASSUME \A t \in Stages : u.emitted[t] # ZeroTime
                   PROVE  \A now : MovesForward(cur, UpdateVideoRow(cur, u, now))
        OBVIOUS
      <3>1. emitted \in EmittedTimes \ {ZeroTime}
        BY <2>5
      <3> QED
        BY <1>1, <2>2, <2>5, <3>1, ReportMovesForward
    <2> QED
      BY <1>1, <2>1, <2>7, <2>8, <2>9, PreparedDecision
  <1>7. ASSUME NEW expected, NEW op \in {"media_info", "ai"}, NEW s \in Stages,
               NEW new \in Opt(StageStatuses), NEW job, NEW emitted,
               NEW u \in Updates, u.visibility = Null,
               \A t \in Stages : u.stage[t] = Null,
               StageProduct(r, op, v, s, new, job, emitted, expected, u)
        PROVE  FreshDecision(r)'
    <2> DEFINE stage == [cur.stage EXCEPT ![s] = Coalesce(new, @)]
               st == StatusChange(cur, stage, stage[s])
               when == IF emitted = ZeroTime THEN Null ELSE emitted
               w == [u EXCEPT !.status = st, !.stage[s] = new,
                              !.job[s] = job, !.emitted[s] = when]
    <2>1. Prepare(r, op, v, cur, expected, w)
      BY <1>7 DEF StageProduct
    <2>2. st # "published"
      BY RecomputeNeverPublishes
    <2>3. /\ w.status = st
          /\ w.visibility = Null
          /\ \A t \in Stages : w.stage[t] = IF t = s THEN new ELSE Null
      <3> HIDE DEF st
      <3> QED
        BY <1>7 DEF Updates
    <2> HIDE DEF w
    <2>4. w.status = StatusChange(cur, stage, stage[s])
      BY <2>3
    <2>5. stage = [cur.stage EXCEPT ![s] = Coalesce(new, @)]
      OBVIOUS
    <2> HIDE DEF st, stage
    <2>6. PublishDefaults(w, cur) = w
      BY <2>2, <2>3, NoDefaultsUnpublished
    <2>7. KeepsAgreement(cur, w)
      BY ZenonT(40), <1>1, <2>3, <2>4, <2>5, StageUpdateKeepsAgreement
    <2> QED
      BY ZenonT(40), <1>1, <1>7, <2>1, <2>6, <2>7, PreparedDecision
  <1>8. ASSUME NEW expected, NEW new \in Opt(StageStatuses), NEW job, NEW emitted,
               NEW output \in Opt(Outputs), NEW encoded \in Opt(Encodings),
               UpdateMediaInfo(r, v, new, job, emitted, output, encoded, expected)
        PROVE  FreshDecision(r)'
    <2> DEFINE u == [NoChange EXCEPT !.output["media"] = output, !.encoded = encoded]
    <2>1. u \in Updates /\ u.visibility = Null /\ \A t \in Stages : u.stage[t] = Null
      BY <1>3, <1>4 DEF Updates, Opt, Stages
    <2>2. StageProduct(r, "media_info", v, "media", new, job, emitted, expected, u)
      BY <1>8 DEF UpdateMediaInfo
    <2> HIDE DEF u
    <2> QED
      BY <1>7, <2>1, <2>2 DEF Stages
  <1>9. ASSUME NEW expected, NEW new \in Opt(StageStatuses), NEW job, NEW emitted,
               NEW output \in Opt(Outputs), NEW tags \in Opt(Tags),
               UpdateAIAttributes(r, v, new, job, emitted, output, tags, expected)
        PROVE  FreshDecision(r)'
    <2> DEFINE u == [NoChange EXCEPT !.output["analysis"] = output, !.tags = tags]
    <2>1. u \in Updates /\ u.visibility = Null /\ \A t \in Stages : u.stage[t] = Null
      BY <1>3, <1>4 DEF Updates, Opt, Stages
    <2>2. StageProduct(r, "ai", v, "analysis", new, job, emitted, expected, u)
      BY <1>9 DEF UpdateAIAttributes
    <2> HIDE DEF u
    <2> QED
      BY <1>7, <2>1, <2>2 DEF Stages
  <1>10. ASSUME NEW expected, NEW target \in {"published", "rejected", "archived"},
                UpdateVisibility(r, v, target, expected)
         PROVE  FreshDecision(r)'
    <2> DEFINE wanted == IF target = "published" THEN "public" ELSE "private"
               vis == IF cur.visibility # wanted THEN wanted ELSE Null
               u == [NoChange EXCEPT !.status = target, !.visibility = vis]
               w == PublishDefaults(u, cur)
    <2>1. /\ Prepare(r, "visibility", v, cur, expected, u)
          /\ target = "published" => \A s \in Stages : cur.stage[s] = "ready"
      BY <1>10 DEF UpdateVisibility
    <2>2. /\ u \in Updates
          /\ u.status = target
          /\ u.visibility = vis
          /\ \A s \in Stages : u.stage[s] = Null
      <3>1. target \in Opt(VideoStatuses) /\ vis \in Opt(Visibilities)
        BY DEF Opt, VideoStatuses, Visibilities
      <3> HIDE DEF vis
      <3> QED
        BY <1>3, <1>4, <3>1 DEF Updates
    <2>3. wanted # Null
      BY DEF Visibilities
    <2> HIDE DEF u
    <2>4. /\ w.status = target
          /\ w.visibility = vis
          /\ \A s \in Stages : w.stage[s] = Null
      BY <2>2, <2>3 DEF PublishDefaults, Updates
    <2> HIDE DEF w
    <2>5. KeepsAgreement(cur, w)
      BY <1>1, <2>1, <2>3, <2>4, VisibilityKeepsAgreement
    <2> QED
      BY <1>1, <2>1, <2>5, PreparedDecision DEF w
  <1> QED
    BY <1>5, <1>6, <1>8, <1>9, <1>10 DEF StartRequest

LEMMA FinalizeUploadDecides ==
    ASSUME TypeOK, NEW r \in Requests, NEW v \in Videos,
           NEW size \in Opt(Originals), FinalizeUpload(r, v, size)
    PROVE  FreshDecision(r)'
  <1>1. /\ NoChange \in Updates
        /\ NoChange.status = Null
        /\ NoChange.visibility = Null
        /\ \A s \in Stages : NoChange.stage[s] = Null
    BY NoChangeType DEF NoChange, NoStage
  <1>2. CASE video[v] = Null
    <2> DEFINE cur == NewVideoRow(clock)
               u == [NoChange EXCEPT !.status = "processing", !.original = size]
    <2>1. Prepare(r, "upload", v, cur, Null, u)
      BY <1>2 DEF FinalizeUpload
    <2>2. video'[v] = cur
      BY <1>2 DEF FinalizeUpload, CreateVideo, TypeOK
    <2>3. u.status = "processing" /\ u.visibility = Null
          /\ \A s \in Stages : u.stage[s] = Null
      BY <1>1 DEF Updates
    <2>4. \A s \in Stages : cur.stage[s] = "pending"
      BY DEF NewVideoRow
    <2> HIDE DEF u, cur
    <2>5. KeepsAgreement(cur, u) /\ PublishDefaults(u, cur) = u
      BY <2>3, <2>4, UploadKeepsAgreement, NoDefaultsUnpublished
    <2> QED
      BY <2>1, <2>2, <2>5, PreparedDecision
  <1>3. CASE video[v] # Null
    <2> DEFINE u == [NoChange EXCEPT !.original = size]
    <2>1. Prepare(r, "upload", v, video[v], Null, u) /\ video'[v] = video[v]
      BY <1>3 DEF FinalizeUpload
    <2>2. u.status = Null /\ u.visibility = Null
          /\ \A s \in Stages : u.stage[s] = Null
      BY <1>1 DEF Updates
    <2> HIDE DEF u
    <2>3. u.status # "published"
      BY <2>2 DEF VideoStatuses
    <2>4. KeepsAgreement(video[v], u) /\ PublishDefaults(u, video[v]) = u
      BY <2>2, <2>3, NoDecisionKeepsAgreement, NoDefaultsUnpublished
         DEF DecidesStatus
    <2> QED
      BY <2>1, <2>4, PreparedDecision
  <1> QED
    BY <1>2, <1>3

-----------------------------------------------------------------------------
(* The inductive invariant.                                                *)

(* A decision is not touched by steps of others on other videos. *)
LEMMA UntouchedDecision ==
    ASSUME NEW q, UNCHANGED req[q], UNCHANGED video[req[q].video],
           UNCHANGED outbox[req[q].video], ~Stale(q) => FreshDecision(q)
    PROVE  (~Stale(q) => FreshDecision(q))'
  <1>1. UNCHANGED NextRow(q)
    BY DEF NextRow
  <1>2. UNCHANGED Stale(q)
    BY DEF Stale
  <1> QED
    BY <1>1, <1>2 DEF FreshDecision, DatedReport

(* Creating a video leaves the requests on other videos alone. *)
LEMMA CreateVideoKeepsDecisions ==
    ASSUME LifecycleInv, NEW v \in Videos, video[v] = Null, CreateVideo(v),
           NEW q \in Requests, req[q].phase # "idle", UNCHANGED req[q]
    PROVE  (~Stale(q) => FreshDecision(q))'
  <1>1. InFlight(q) /\ (~Stale(q) => FreshDecision(q))
    BY DEF LifecycleInv, RequestsInFlight, FreshDecisionsHold
  <1>2. req[q].video # v
    BY <1>1 DEF InFlight
  <1>3. UNCHANGED video[req[q].video] /\ UNCHANGED outbox[req[q].video]
    BY <1>1, <1>2 DEF CreateVideo, InFlight, LifecycleInv, TypeOK
  <1> QED
    BY <1>1, <1>3, UntouchedDecision

(* A commit makes every other decision about its video stale. *)
LEMMA CommitKeepsDecisions ==
    ASSUME LifecycleInv, NEW r \in Requests, Commit(r),
           NEW q \in Requests, req'[q].phase # "idle"
    PROVE  (~Stale(q) => FreshDecision(q))'
  <1> DEFINE v == req[r].video
             new == NextRow(r)
  <1>1. /\ v \in Videos
        /\ video[v] \in Rows
        /\ video' = [video EXCEPT ![v] = new]
        /\ new.version = video[v].version + 1
        /\ req' = [req EXCEPT ![r] = IdleRequest]
    BY CommitEffect DEF LifecycleInv
  <1>2. EnqueueUpdated(v, req[r].changes, req[r].startedAt)
    BY DEF Commit
  <1> HIDE DEF v, new
  <1>3. q # r /\ req'[q] = req[q] /\ req[q].phase # "idle"
    BY <1>1 DEF LifecycleInv, TypeOK, IdleRequest
  <1>4. InFlight(q) /\ (~Stale(q) => FreshDecision(q))
    BY <1>3 DEF LifecycleInv, RequestsInFlight, FreshDecisionsHold
  <1>5. CASE req[q].video = v
    <2>1. req'[q].base \in Nat /\ video'[v] = new
      BY <1>1, <1>3, <1>4 DEF InFlight, LifecycleInv, TypeOK
    <2>2. req[q].base <= video[v].version /\ video[v].version \in Nat
      BY <1>1, <1>4, <1>5 DEF InFlight, Rows
    <2>3. Stale(q)'
      BY <1>1, <1>3, <1>5, <2>1, <2>2 DEF Stale
    <2> QED
      BY <2>3
  <1>6. CASE req[q].video # v
    <2>1. UNCHANGED video[req[q].video] /\ UNCHANGED outbox[req[q].video]
      BY <1>1, <1>2, <1>3, <1>4, <1>6 DEF InFlight, LifecycleInv, TypeOK, EnqueueUpdated
    <2> QED
      BY <1>3, <1>4, <2>1, UntouchedDecision
  <1> QED
    BY <1>5, <1>6

(* Opening the transaction: every event so far is in the past. *)
LEMMA BeginKeepsDecision ==
    ASSUME LifecycleInv, NEW r \in Requests, Begin(r)
    PROVE  (~Stale(r) => FreshDecision(r))'
  <1> DEFINE v == req[r].video
             u == req[r].changes
  <1>1. /\ req'[r].video = v
        /\ req'[r].base = req[r].base
        /\ req'[r].op = req[r].op
        /\ req'[r].changes = u
        /\ req'[r].startedAt = clock
        /\ UNCHANGED <<video, outbox, clock>>
    BY DEF Begin, LifecycleInv, TypeOK, RequestStates
  <1>2. InFlight(r) /\ (~Stale(r) => FreshDecision(r))
    BY DEF Begin, LifecycleInv, RequestsInFlight, FreshDecisionsHold
  <1>3. v \in Videos
    BY <1>2 DEF InFlight
  <1> HIDE DEF v, u
  <1> SUFFICES ASSUME ~Stale(r)' PROVE FreshDecision(r)'
    OBVIOUS
  <1>4. FreshDecision(r)
    BY <1>1, <1>2 DEF Stale, v
  <1>5. /\ NextRow(r)' = UpdateVideoRow(video[v], u, clock)
        /\ NextRow(r) = UpdateVideoRow(video[v], u, req[r].startedAt)
    BY <1>1 DEF NextRow, v, u
  <1>6. \A i \in DOMAIN outbox[v] : outbox[v][i].version <= clock
    BY <1>3 DEF LifecycleInv, VersionsAreInThePast
  <1>7. StatusAgrees(NextRow(r)) => StatusAgrees(NextRow(r)')
    BY <1>5, AgreementOfColumns DEF UpdateVideoRow
  <1>8. MovesForward(video[v], NextRow(r)) => MovesForward(video[v], NextRow(r)')
    BY <1>5 DEF UpdateVideoRow, MovesForward
  <1>9. DatedReport(r)' = DatedReport(r)
    BY <1>1 DEF DatedReport, u
  <1> QED
    BY <1>1, <1>4, <1>6, <1>7, <1>8, <1>9 DEF FreshDecision, v

LEMMA InitLifecycleInv == Init => LifecycleInv
  <1> SUFFICES ASSUME Init PROVE LifecycleInv
    OBVIOUS
  <1>1. TypeOK /\ RequestsInFlight
    BY InitTypes
  <1>2. FreshDecisionsHold
    BY DEF Init, FreshDecisionsHold, IdleRequest
  <1>3. VersionsAreInThePast
    BY DEF Init, VersionsAreInThePast
  <1>4. StatusAgreesUnlessRaced
    BY DEF Init, StatusAgreesUnlessRaced
  <1> QED
    BY <1>1, <1>2, <1>3, <1>4 DEF LifecycleInv

LEMMA NextDecisions ==
    ASSUME LifecycleInv, [Next]_vars
    PROVE  FreshDecisionsHold'
  <1> SUFFICES ASSUME NEW q \in Requests, req'[q].phase # "idle"
               PROVE  (~Stale(q) => FreshDecision(q))'
    BY DEF FreshDecisionsHold
  <1> USE DEF LifecycleInv
  <1>0. ASSUME UNCHANGED req[q], UNCHANGED <<video, outbox>>
        PROVE  (~Stale(q) => FreshDecision(q))'
    <2>1. ~Stale(q) => FreshDecision(q)
      BY <1>0 DEF FreshDecisionsHold
    <2> QED
      BY <1>0, <2>1, UntouchedDecision
  <1>1. CASE UNCHANGED vars
    BY <1>0, <1>1 DEF vars
  <1>2. ASSUME NEW v \in Videos, RegisterUpload(v)
        PROVE  (~Stale(q) => FreshDecision(q))'
    BY <1>2, CreateVideoKeepsDecisions DEF RegisterUpload
  <1>3. ASSUME NEW r \in Requests, NEW v \in Videos, NEW size \in Opt(Originals),
               FinalizeUpload(r, v, size)
        PROVE  (~Stale(q) => FreshDecision(q))'
    <2>1. CASE q = r
      BY <1>3, <2>1, FinalizeUploadDecides
    <2>2. CASE q # r
      <3>1. req'[q] = req[q]
        BY <1>3, <2>2 DEF FinalizeUpload, Prepare, TypeOK
      <3>2. CASE video[v] = Null
        BY <1>3, <3>1, <3>2, CreateVideoKeepsDecisions DEF FinalizeUpload
      <3>3. CASE video[v] # Null
        BY <1>0, <1>3, <3>1, <3>3 DEF FinalizeUpload
      <3> QED
        BY <3>2, <3>3
    <2> QED
      BY <2>1, <2>2
  <1>4. ASSUME NEW r \in Requests, NEW v \in Videos, video[v] # Null,
               StartRequest(r, v)
        PROVE  (~Stale(q) => FreshDecision(q))'
    <2>1. CASE q = r
      BY <1>4, <2>1, StartRequestDecides
    <2>2. CASE q # r
      <3>1. PICK op, expected, u : Prepare(r, op, v, video[v], expected, u)
        BY <1>4, StartRequestPrepares
      <3>2. req'[q] = req[q]
        BY <2>2, <3>1 DEF Prepare, TypeOK
      <3> QED
        BY <1>0, <1>4, <3>2, StartRequestType
    <2> QED
      BY <2>1, <2>2
  <1>5. ASSUME NEW r \in Requests, Begin(r)
        PROVE  (~Stale(q) => FreshDecision(q))'
    <2>1. CASE q = r
      BY <1>5, <2>1, BeginKeepsDecision
    <2>2. CASE q # r
      BY <1>0, <1>5, <2>2 DEF Begin, TypeOK
    <2> QED
      BY <2>1, <2>2
  <1>6. ASSUME NEW r \in Requests, Commit(r)
        PROVE  (~Stale(q) => FreshDecision(q))'
    BY <1>6, CommitKeepsDecisions
  <1>7. ASSUME NEW r \in Requests, Abort(r)
        PROVE  (~Stale(q) => FreshDecision(q))'
    BY <1>0, <1>7 DEF Abort, TypeOK, IdleRequest
  <1>8. CASE Tick
    BY <1>0, <1>8 DEF Tick
  <1> QED
    BY <1>1, <1>2, <1>3, <1>4, <1>5, <1>6, <1>7, <1>8 DEF Next

(* The event version is the start of a transaction that has begun. *)
LEMMA NextVersions ==
    ASSUME LifecycleInv, [Next]_vars
    PROVE  VersionsAreInThePast'
  <1> USE DEF LifecycleInv
  <1>1. ASSUME UNCHANGED outbox, clock' >= clock
        PROVE  VersionsAreInThePast'
    <2> SUFFICES ASSUME NEW v \in Videos, NEW i \in DOMAIN outbox[v]
                 PROVE  outbox[v][i].version <= clock'
      BY <1>1 DEF VersionsAreInThePast
    <2>1. outbox[v][i].version <= clock
      BY DEF VersionsAreInThePast
    <2>2. outbox[v][i] \in Events
      BY DEF TypeOK
    <2>3. outbox[v][i].version \in Nat /\ clock \in Nat /\ clock' \in Nat
      BY <2>2, NextTypes DEF TypeOK, Events
    <2> QED
      BY <1>1, <2>1, <2>3
  <1>2. ASSUME NEW v \in Videos, NEW e, e \in Events, e.version <= clock,
               outbox' = [outbox EXCEPT ![v] = Append(@, e)], UNCHANGED clock
        PROVE  VersionsAreInThePast'
    <2> SUFFICES ASSUME NEW w \in Videos, NEW i \in DOMAIN outbox'[w]
                 PROVE  outbox'[w][i].version <= clock
      BY <1>2 DEF VersionsAreInThePast
    <2>1. outbox[w] \in Seq(Events)
      BY DEF TypeOK
    <2>2. CASE w = v
      <3>1. outbox'[w] = Append(outbox[w], e)
        BY <1>2, <2>2 DEF TypeOK
      <3>2. i \in 1 .. Len(outbox[w]) + 1
        BY <1>2, <2>1, <3>1
      <3>3. CASE i = Len(outbox[w]) + 1
        BY <1>2, <2>1, <3>1, <3>3
      <3>4. CASE i \in 1 .. Len(outbox[w])
        <4>1. outbox'[w][i] = outbox[w][i]
          BY <1>2, <2>1, <3>1, <3>4
        <4> QED
          BY <2>1, <3>4, <4>1 DEF VersionsAreInThePast
      <3> QED
        BY <2>1, <3>2, <3>3, <3>4
    <2>3. CASE w # v
      BY <1>2, <2>3 DEF TypeOK, VersionsAreInThePast
    <2> QED
      BY <2>2, <2>3
  <1>3. ASSUME NEW v \in Videos, CreateVideo(v), UNCHANGED clock
        PROVE  VersionsAreInThePast'
    <2> DEFINE e == NewVideoCreatedEvent(NewVideoRow(clock))
    <2>1. e \in Events
      BY NewVideoRowType, CreatedEventType DEF TypeOK
    <2>2. e.version <= clock
      BY DEF NewVideoCreatedEvent, NewVideoRow, TypeOK
    <2>3. outbox' = [outbox EXCEPT ![v] = Append(@, e)]
      BY <1>3 DEF CreateVideo
    <2> HIDE DEF e
    <2> QED
      BY <1>2, <1>3, <2>1, <2>2, <2>3
  <1>4. CASE UNCHANGED vars
    BY <1>1, <1>4 DEF vars, TypeOK
  <1>5. ASSUME NEW v \in Videos, RegisterUpload(v)
        PROVE  VersionsAreInThePast'
    BY <1>3, <1>5 DEF RegisterUpload
  <1>6. ASSUME NEW r \in Requests, NEW v \in Videos, NEW size \in Opt(Originals),
               FinalizeUpload(r, v, size)
        PROVE  VersionsAreInThePast'
    BY <1>1, <1>3, <1>6 DEF FinalizeUpload, TypeOK
  <1>7. ASSUME NEW r \in Requests, NEW v \in Videos, video[v] # Null,
               StartRequest(r, v)
        PROVE  VersionsAreInThePast'
    BY <1>1, <1>7, StartRequestType DEF TypeOK
  <1>8. ASSUME NEW r \in Requests, Commit(r)
        PROVE  VersionsAreInThePast'
    <2> DEFINE v == req[r].video
               u == req[r].changes
               now == req[r].startedAt
               e == NewVideoUpdatedEvent(u, now)
    <2>1. v \in Videos /\ u \in Updates /\ now \in Nat /\ now <= clock
      BY <1>8 DEF Commit, RequestsInFlight, InFlight, TypeOK, RequestStates
    <2>2. e \in Events /\ e.version <= clock
      BY <2>1, UpdatedEventType DEF NewVideoUpdatedEvent
    <2>3. UNCHANGED outbox \/ outbox' = [outbox EXCEPT ![v] = Append(@, e)]
      BY <1>8 DEF Commit, EnqueueUpdated
    <2>4. UNCHANGED clock /\ clock \in Nat
      BY <1>8 DEF Commit, TypeOK
    <2> HIDE DEF v, e
    <2> QED
      BY <1>1, <1>2, <2>1, <2>2, <2>3, <2>4
  <1>9. CASE \E r \in Requests : Begin(r) \/ Abort(r)
    BY <1>1, <1>9 DEF Begin, Abort, TypeOK
  <1>10. CASE Tick
    BY <1>1, <1>10 DEF Tick, TypeOK
  <1> QED
    BY <1>4, <1>5, <1>6, <1>7, <1>8, <1>9, <1>10 DEF Next

(* A row that changes without a race keeps, or begins with, agreement. *)
LEMMA NextAgreement ==
    ASSUME LifecycleInv, [Next]_vars
    PROVE  StatusAgreesUnlessRaced'
  <1> USE DEF LifecycleInv
  <1> SUFFICES ASSUME NEW w \in Videos, video'[w] # Null, ~raced'[w]
               PROVE  StatusAgrees(video'[w])
    BY DEF StatusAgreesUnlessRaced
  <1>1. ASSUME UNCHANGED <<video[w], raced[w]>> PROVE StatusAgrees(video'[w])
    BY <1>1 DEF StatusAgreesUnlessRaced
  <1>2. ASSUME NEW v \in Videos, CreateVideo(v), UNCHANGED raced
        PROVE  StatusAgrees(video'[w])
    <2>1. CASE w = v
      BY <1>2, <2>1, NewVideoAgrees DEF CreateVideo, TypeOK
    <2>2. CASE w # v
      BY <1>1, <1>2, <2>2 DEF CreateVideo, TypeOK
    <2> QED
      BY <2>1, <2>2
  <1>3. CASE UNCHANGED vars
    BY <1>1, <1>3 DEF vars
  <1>4. ASSUME NEW v \in Videos, RegisterUpload(v) PROVE StatusAgrees(video'[w])
    BY <1>2, <1>4 DEF RegisterUpload
  <1>5. ASSUME NEW r \in Requests, NEW v \in Videos, NEW size \in Opt(Originals),
               FinalizeUpload(r, v, size)
        PROVE  StatusAgrees(video'[w])
    BY <1>1, <1>2, <1>5 DEF FinalizeUpload
  <1>6. ASSUME NEW r \in Requests, NEW v \in Videos, video[v] # Null,
               StartRequest(r, v)
        PROVE  StatusAgrees(video'[w])
    BY <1>1, <1>6, StartRequestType
  <1>7. ASSUME NEW r \in Requests, Commit(r) PROVE StatusAgrees(video'[w])
    <2> DEFINE v == req[r].video
               u == req[r].changes
    <2>1. /\ v \in Videos
          /\ video[v] \in Rows
          /\ video' = [video EXCEPT ![v] = NextRow(r)]
      BY <1>7, CommitEffect
    <2>2. /\ raced' = [raced EXCEPT ![v] = @ \/ (Stale(r) /\ DecidesStatus(u))]
          /\ req[r].phase = "open"
      BY <1>7 DEF Commit
    <2>3. NextRow(r) = UpdateVideoRow(video[v], u, req[r].startedAt)
      BY DEF NextRow
    <2> HIDE DEF v, u
    <2>4. CASE w # v
      BY <1>1, <2>1, <2>2, <2>4 DEF TypeOK
    <2>5. CASE w = v
      <3>1. raced'[v] = (raced[v] \/ (Stale(r) /\ DecidesStatus(u)))
        BY <2>1, <2>2 DEF TypeOK
      <3>2. ~raced[v] /\ (~Stale(r) \/ ~DecidesStatus(u))
        BY <2>5, <3>1
      <3>3. StatusAgrees(video[v])
        BY <2>1, <3>2 DEF StatusAgreesUnlessRaced
      <3>4. video'[v] = NextRow(r)
        BY <2>1 DEF TypeOK
      <3>5. CASE ~Stale(r)
        <4>1. FreshDecision(r)
          BY <2>2, <3>5 DEF FreshDecisionsHold
        <4> QED
          BY <2>5, <3>3, <3>4, <4>1 DEF FreshDecision, v
      <3>6. CASE ~DecidesStatus(u)
        <4>1. KeepsAgreement(video[v], u)
          BY <3>6, NoDecisionKeepsAgreement
        <4> QED
          BY <2>3, <2>5, <3>3, <3>4, <4>1 DEF KeepsAgreement
      <3> QED
        BY <3>2, <3>5, <3>6
    <2> QED
      BY <2>4, <2>5
  <1>8. CASE \E r \in Requests : Begin(r) \/ Abort(r)
    BY <1>1, <1>8 DEF Begin, Abort
  <1>9. CASE Tick
    BY <1>1, <1>9 DEF Tick
  <1> QED
    BY <1>3, <1>4, <1>5, <1>6, <1>7, <1>8, <1>9 DEF Next

(* LifecycleInv is inductive. *)
THEOREM LifecycleInvariant == Spec => []LifecycleInv
  <1>1. Init => LifecycleInv
    BY InitLifecycleInv
  <1>2. LifecycleInv /\ [Next]_vars => LifecycleInv'
    <2> SUFFICES ASSUME LifecycleInv, [Next]_vars PROVE LifecycleInv'
      OBVIOUS
    <2>1. TypeOK' /\ RequestsInFlight'
      BY NextTypes DEF LifecycleInv
    <2> QED
      BY <2>1, NextDecisions, NextVersions, NextAgreement DEF LifecycleInv
  <1> QED
    BY <1>1, <1>2, PTL DEF Spec

-----------------------------------------------------------------------------
(* The theorems.                                                           *)

(* Whatever requests interleave, status, stages and visibility of a video  *)
(* agree until a decision from an outdated snapshot is committed on it.    *)
THEOREM StatusAgreement == Spec => []StatusAgreesUnlessRaced
  <1>1. LifecycleInv => StatusAgreesUnlessRaced
    BY DEF LifecycleInv
  <1> QED
    BY <1>1, LifecycleInvariant, PTL

(* What a step does to one row. *)
LEMMA RowStep ==
    ASSUME LifecycleInv, [Next]_vars, NEW v \in Videos
    PROVE  \/ UNCHANGED <<video[v], outbox[v]>>
           \/ video[v] = Null /\ CreateVideo(v) /\ video'[v] # Null
           \/ \E r \in Requests :
                 /\ Commit(r)
                 /\ req[r].video = v
                 /\ video[v] \in Rows
                 /\ video'[v] = NextRow(r)
                 /\ video'[v] \in Rows
                 /\ video'[v].version = video[v].version + 1
  <1> USE DEF LifecycleInv
  <1> DEFINE Same == UNCHANGED <<video[v], outbox[v]>>
             New == video[v] = Null /\ CreateVideo(v) /\ video'[v] # Null
  <1>1. ASSUME NEW w \in Videos, video[w] = Null, CreateVideo(w)
        PROVE  Same \/ New
    <2>1. NewVideoRow(clock) # Null
      BY NewVideoRowType DEF TypeOK
    <2> QED
      BY <1>1, <2>1 DEF CreateVideo, TypeOK
  <1>2. ASSUME UNCHANGED vars PROVE Same
    BY <1>2 DEF vars
  <1>3. ASSUME NEW w \in Videos, RegisterUpload(w) PROVE Same \/ New
    BY <1>1, <1>3 DEF RegisterUpload
  <1>4. ASSUME NEW r \in Requests, NEW w \in Videos, NEW size \in Opt(Originals),
               FinalizeUpload(r, w, size)
        PROVE  Same \/ New
    BY <1>1, <1>4 DEF FinalizeUpload
  <1>5. ASSUME NEW r \in Requests, NEW w \in Videos, video[w] # Null,
               StartRequest(r, w)
        PROVE  Same
    BY <1>5, StartRequestType
  <1>6. ASSUME NEW r \in Requests, Commit(r), req[r].video # v PROVE Same
    <2> DEFINE w == req[r].video
    <2>1. w \in Videos /\ video' = [video EXCEPT ![w] = NextRow(r)]
      BY <1>6, CommitEffect
    <2>2. EnqueueUpdated(w, req[r].changes, req[r].startedAt)
      BY <1>6 DEF Commit
    <2>3. w # v
      BY <1>6
    <2> HIDE DEF w
    <2> QED
      BY <2>1, <2>2, <2>3 DEF EnqueueUpdated, TypeOK
  <1>7. ASSUME NEW r \in Requests, Commit(r), req[r].video = v
        PROVE  /\ video[v] \in Rows
               /\ video'[v] = NextRow(r)
               /\ video'[v] \in Rows
               /\ video'[v].version = video[v].version + 1
    BY <1>7, CommitEffect DEF TypeOK
  <1>8. ASSUME NEW r \in Requests, Begin(r) \/ Abort(r) PROVE Same
    BY <1>8 DEF Begin, Abort
  <1>9. ASSUME Tick PROVE Same
    BY <1>9 DEF Tick
  <1> HIDE DEF Same, New
  <1>10. Same \/ New \/ \E r \in Requests : Commit(r) /\ req[r].video = v
    BY <1>2, <1>3, <1>4, <1>5, <1>6, <1>8, <1>9 DEF Next, Same
  <1> QED
    BY <1>7, <1>10 DEF Same, New

(* Two commits on a row never leave it at the same version, and nothing    *)
(* but a commit or the row's creation writes its outbox.                   *)
THEOREM VersionsTheorem == Spec => EveryCommitTakesOneVersion
  <1>1. LifecycleInv /\ [Next]_vars =>
          [\A v \in Videos :
              /\ video[v] # Null /\ video'[v] # video[v] =>
                    video'[v] # Null /\ video'[v].version = video[v].version + 1
              /\ outbox'[v] # outbox[v] => video'[v] # video[v]]_<<video, outbox>>
    <2> SUFFICES ASSUME LifecycleInv, [Next]_vars, NEW v \in Videos
                 PROVE  /\ video[v] # Null /\ video'[v] # video[v] =>
                             /\ video'[v] # Null
                             /\ video'[v].version = video[v].version + 1
                        /\ outbox'[v] # outbox[v] => video'[v] # video[v]
      OBVIOUS
    <2>1. CASE UNCHANGED <<video[v], outbox[v]>>
      BY <2>1
    <2>2. CASE video[v] = Null /\ CreateVideo(v) /\ video'[v] # Null
      BY <2>2
    <2>3. ASSUME video[v] \in Rows, video'[v] \in Rows,
                 video'[v].version = video[v].version + 1
          PROVE  video'[v] # Null /\ video'[v] # video[v]
      BY <2>3 DEF Rows
    <2> QED
      BY <2>1, <2>2, <2>3, RowStep
  <1> QED
    BY <1>1, LifecycleInvariant, PTL DEF Spec, EveryCommitTakesOneVersion

(* A step in which r commits on the row of its snapshot is Commit(r). *)
LEMMA FreshCommitIsCommit ==
    ASSUME LifecycleInv, [Next]_vars, NEW r \in Requests, FreshCommit(r)
    PROVE  /\ Commit(r)
           /\ FreshDecision(r)
           /\ video'[req[r].video] = NextRow(r)
           /\ InFlight(r)
  <1> DEFINE v == req[r].video
  <1>1. /\ req[r].phase = "open"
        /\ req'[r].phase = "idle"
        /\ video'[v] # video[v]
        /\ ~Stale(r)
    BY DEF FreshCommit
  <1>2. InFlight(r) /\ FreshDecision(r)
    BY <1>1 DEF LifecycleInv, RequestsInFlight, FreshDecisionsHold
  <1>3. v \in Videos /\ video[v] # Null
    BY <1>2 DEF InFlight
  <1> HIDE DEF v
  <1>4. PICK q \in Requests : Commit(q) /\ req[q].video = v /\ video'[v] = NextRow(q)
    BY <1>1, <1>3, RowStep
  <1>5. q = r
    BY <1>1, <1>4 DEF Commit, LifecycleInv, TypeOK
  <1> QED
    BY <1>2, <1>4, <1>5 DEF v

(* A report that says when it was emitted and raced with nobody moves its  *)
(* stage forward.                                                          *)
THEOREM ReportsTheorem == Spec => FreshReportsMoveForward
  <1>1. LifecycleInv /\ [Next]_vars =>
          [\A r \in Requests : FreshCommit(r) /\ DatedReport(r) =>
              MovesForward(video[req[r].video], video'[req[r].video])]_vars
    <2> SUFFICES ASSUME LifecycleInv, [Next]_vars, NEW r \in Requests,
                        FreshCommit(r), DatedReport(r)
                 PROVE  MovesForward(video[req[r].video], video'[req[r].video])
      OBVIOUS
    <2> QED
      BY FreshCommitIsCommit DEF FreshDecision
  <1> QED
    BY <1>1, LifecycleInvariant, PTL DEF Spec, FreshReportsMoveForward

(* The event of a request that raced with nobody has the highest version   *)
(* of its video so far.                                                    *)
THEOREM EventsTheorem == Spec => FreshEventsAreOrdered
  <1> DEFINE Ordered(r) ==
        LET old == outbox[req[r].video]
            new == outbox'[req[r].video]
        IN  \A i \in DOMAIN old, j \in DOMAIN new :
               j \notin DOMAIN old => old[i].version <= new[j].version
  <1>1. LifecycleInv /\ [Next]_vars =>
          [\A r \in Requests : FreshCommit(r) => Ordered(r)]_vars
    <2> SUFFICES ASSUME LifecycleInv, [Next]_vars, NEW r \in Requests,
                        FreshCommit(r)
                 PROVE  Ordered(r)
      OBVIOUS
    <2> DEFINE v == req[r].video
               u == req[r].changes
               now == req[r].startedAt
               e == NewVideoUpdatedEvent(u, now)
    <2>1. /\ Commit(r)
          /\ FreshDecision(r)
          /\ v \in Videos
      BY FreshCommitIsCommit DEF InFlight
    <2>2. \A i \in DOMAIN outbox[v] : outbox[v][i].version <= now
      BY <2>1 DEF FreshDecision, Commit
    <2>3. e.version = now
      BY DEF NewVideoUpdatedEvent
    <2>4. UNCHANGED outbox \/ outbox' = [outbox EXCEPT ![v] = Append(@, e)]
      BY <2>1 DEF Commit, EnqueueUpdated
    <2>5. outbox \in [Videos -> Seq(Events)]
      BY DEF LifecycleInv, TypeOK
    <2> HIDE DEF v, e, now
    <2>6. outbox'[v] = outbox[v] \/ outbox'[v] = Append(outbox[v], e)
      BY <2>1, <2>4, <2>5
    <2>7. outbox[v] \in Seq(Events)
      BY <2>1, <2>5
    <2>8. ASSUME NEW i \in DOMAIN outbox[v], NEW j \in DOMAIN outbox'[v],
                 j \notin DOMAIN outbox[v]
          PROVE  outbox[v][i].version <= outbox'[v][j].version
      <3>1. outbox'[v] = Append(outbox[v], e)
        BY <2>6, <2>8
      <3>2. j = Len(outbox[v]) + 1
        BY <2>7, <2>8, <3>1
      <3>3. outbox'[v][j] = e
        BY <2>7, <3>1, <3>2
      <3> QED
        BY <2>2, <2>3, <2>8, <3>3
    <2>9. \A i \in DOMAIN outbox[v], j \in DOMAIN outbox'[v] :
             j \notin DOMAIN outbox[v] => outbox[v][i].version <= outbox'[v][j].version
      BY <2>8
    <2> QED
      BY <2>9 DEF v
  <1> QED
    BY <1>1, LifecycleInvariant, PTL DEF Spec, FreshEventsAreOrdered

(* With one request at a time, no decision is ever outdated. *)
NothingRaces ==
    /\ \A v \in Videos : ~raced[v]
    /\ \A r \in Requests : req[r].phase # "idle" => ~Stale(r)

LEMMA PreparedIsFresh ==
    ASSUME TypeOK, NEW r \in Requests, NEW op, NEW v, NEW cur, NEW expected, NEW u,
           Prepare(r, op, v, cur, expected, u), video'[v] = cur
    PROVE  ~Stale(r)'
  <1>1. req'[r].base = cur.version /\ req'[r].video = v
    BY DEF Prepare, TypeOK
  <1> QED
    BY <1>1 DEF Stale

LEMMA SerialStep ==
    ASSUME \A p, q \in Requests : p = q,
           LifecycleInv, NothingRaces, [Next]_vars
    PROVE  NothingRaces'
  <1> USE DEF LifecycleInv
  <1>1. CASE UNCHANGED vars
    BY <1>1 DEF vars, NothingRaces, Stale
  <1>2. ASSUME NEW v \in Videos, RegisterUpload(v)
        PROVE  NothingRaces'
    <2>1. UNCHANGED <<req, raced>>
      BY <1>2 DEF RegisterUpload
    <2>2. ASSUME NEW r \in Requests, req[r].phase # "idle"
          PROVE  ~Stale(r)'
      <3>1. InFlight(r) /\ ~Stale(r)
        BY <2>2 DEF RequestsInFlight, NothingRaces
      <3>2. req[r].video # v
        BY <1>2, <3>1 DEF RegisterUpload, InFlight
      <3>3. video'[req[r].video] = video[req[r].video]
        BY <1>2, <3>1, <3>2 DEF RegisterUpload, CreateVideo, InFlight, TypeOK
      <3> QED
        BY <2>1, <3>1, <3>3 DEF Stale
    <2> QED
      BY <2>1, <2>2 DEF NothingRaces
  <1>3. ASSUME NEW r \in Requests, NEW v \in Videos, NEW size \in Opt(Originals),
               FinalizeUpload(r, v, size)
        PROVE  NothingRaces'
    <2>1. UNCHANGED raced
      BY <1>3 DEF FinalizeUpload
    <2>2. CASE video[v] = Null
      <3>1. PICK u : Prepare(r, "upload", v, NewVideoRow(clock), Null, u)
        BY <1>3, <2>2 DEF FinalizeUpload
      <3>2. video'[v] = NewVideoRow(clock)
        BY <1>3, <2>2 DEF FinalizeUpload, CreateVideo, TypeOK
      <3> QED
        BY <2>1, <3>1, <3>2, PreparedIsFresh DEF NothingRaces
    <2>3. CASE video[v] # Null
      <3>1. PICK u : Prepare(r, "upload", v, video[v], Null, u)
        BY <1>3, <2>3 DEF FinalizeUpload
      <3>2. video'[v] = video[v]
        BY <1>3, <2>3 DEF FinalizeUpload
      <3> QED
        BY <2>1, <3>1, <3>2, PreparedIsFresh DEF NothingRaces
    <2> QED
      BY <2>2, <2>3
  <1>4. ASSUME NEW r \in Requests, NEW v \in Videos, video[v] # Null,
               StartRequest(r, v)
        PROVE  NothingRaces'
    <2>1. UNCHANGED <<video, raced>>
      BY <1>4, StartRequestType
    <2>2. PICK op, expected, u : Prepare(r, op, v, video[v], expected, u)
      BY <1>4, StartRequestPrepares
    <2>3. ~Stale(r)'
      BY <2>1, <2>2, PreparedIsFresh
    <2> QED
      BY <2>1, <2>3 DEF NothingRaces
  <1>5. ASSUME NEW r \in Requests, Begin(r)
        PROVE  NothingRaces'
    <2>1. /\ req'[r].video = req[r].video
          /\ req'[r].base = req[r].base
          /\ UNCHANGED <<video, raced>>
          /\ req[r].phase # "idle"
      BY <1>5 DEF Begin, TypeOK, RequestStates
    <2>2. ~Stale(r)'
      BY <2>1 DEF NothingRaces, Stale
    <2> QED
      BY <2>1, <2>2 DEF NothingRaces
  <1>6. ASSUME NEW r \in Requests, Commit(r) PROVE NothingRaces'
    <2> DEFINE v == req[r].video
               d == DecidesStatus(req[r].changes)
    <2>1. /\ raced' = [raced EXCEPT ![v] = @ \/ (Stale(r) /\ d)]
          /\ req[r].phase # "idle"
      BY <1>6 DEF Commit
    <2>2. req'[r].phase = "idle"
      BY <1>6 DEF Commit, TypeOK, IdleRequest
    <2>3. ~Stale(r)
      BY <2>1 DEF NothingRaces
    <2> HIDE DEF v, d
    <2>4. \A w \in Videos : ~raced'[w]
      BY <2>1, <2>3 DEF NothingRaces, TypeOK
    <2> QED
      BY <2>2, <2>4 DEF NothingRaces
  <1>7. ASSUME NEW r \in Requests, Abort(r) PROVE NothingRaces'
    BY <1>7 DEF Abort, NothingRaces, TypeOK, IdleRequest
  <1>8. CASE Tick
    BY <1>8 DEF Tick, NothingRaces, Stale
  <1> QED
    BY <1>1, <1>2, <1>3, <1>4, <1>5, <1>6, <1>7, <1>8 DEF Next

(* No decision of requests that do not overlap is outdated.                *)
THEOREM NothingRacesTheorem ==
    ASSUME \A p, q \in Requests : p = q
    PROVE  Spec => []NothingRaces
  <1>1. Init => NothingRaces
    BY DEF Init, NothingRaces, IdleRequest
  <1>2. LifecycleInv /\ NothingRaces /\ [Next]_vars => NothingRaces'
    BY SerialStep
  <1> QED
    BY <1>1, <1>2, LifecycleInvariant, PTL DEF Spec

(* When requests do not overlap, status, stages and visibility of every    *)
(* video always agree.                                                     *)
THEOREM SerialAgreement ==
    ASSUME \A p, q \in Requests : p = q
    PROVE  Spec => []StatusAlwaysAgrees
  <1>1. LifecycleInv /\ NothingRaces => StatusAlwaysAgrees
    BY DEF LifecycleInv, NothingRaces, StatusAgreesUnlessRaced, StatusAlwaysAgrees
  <1> QED
    BY <1>1, LifecycleInvariant, NothingRacesTheorem, PTL
=============================================================================
