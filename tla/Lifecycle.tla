------------------------------ MODULE Lifecycle ------------------------------
(***************************************************************************)
(* The write model of catalog.videos: the LifecycleWriter and the services *)
(* built on it, used concurrently by gRPC requests and by the upload task. *)
(*                                                                         *)
(* Every service has the same shape.  It reads the row outside of any      *)
(* transaction (GetLifecycleSnapshot with a nil session), validates the    *)
(* input and decides the update from that snapshot, and only then opens    *)
(* the transaction that runs one UPDATE and inserts the outbox event.  The *)
(* three steps of a request are Prepare, Begin and Commit; whatever        *)
(* commits in between is not seen by the decision already taken.           *)
(*                                                                         *)
(* Left out, as no control reads them: title, description, raw file        *)
(* reference, error_message and the idempotency key.  The media and AI     *)
(* products are one token each in `output`, the columns that update events *)
(* never carry are `encoded`, `tags` and `original`.                       *)
(***************************************************************************)
EXTENDS Integers, Sequences

CONSTANTS
    Videos,         \* video ids
    Requests,       \* requests (or upload deliveries) that may be in flight
    Null,           \* SQL NULL, a nil pointer, an absent field
    Jobs,           \* pipeline job ids
    EmittedTimes,   \* emitted_at values of pipeline callbacks, ZeroTime for none
    Outputs,        \* published media / AI products
    Encodings,      \* encoded_resolution and encoded_bitrate
    Tags,           \* AI tag lists
    Originals,      \* raw_file_size, raw_resolution, raw_bitrate
    ExpectVersion,  \* whether callers give expected_version: a set of BOOLEANs
    MaxVersion,     \* bound: no request starts on a row at this version
    MaxClock        \* bound on the database clock

Stages == {"media", "analysis"}
StageStatuses == {"pending", "processing", "ready", "failed"}
VideoStatuses == {"pending_upload", "processing", "ready", "published",
                  "failed", "rejected", "archived"}
Visibilities == {"public", "private"}
Operations == {"upload", "original", "report", "media_info", "ai", "visibility"}

Opt(S) == S \cup {Null}

(* The zero time.Time: what the timestamp 0001-01-01T00:00:00Z is parsed to. *)
ZeroTime == 0

(* The columns an UPDATE may set, Null meaning "leave as it is". *)
Updates ==
    [status : Opt(VideoStatuses), stage : [Stages -> Opt(StageStatuses)],
     job : [Stages -> Opt(Jobs)], emitted : [Stages -> Opt(EmittedTimes)],
     output : [Stages -> Opt(Outputs)], encoded : Opt(Encodings),
     tags : Opt(Tags), original : Opt(Originals),
     visibility : Opt(Visibilities), publishAt : Opt(Nat)]

Rows ==
    [status : VideoStatuses, stage : [Stages -> StageStatuses],
     job : [Stages -> Opt(Jobs)], emitted : [Stages -> Opt(EmittedTimes)],
     output : [Stages -> Opt(Outputs)], encoded : Opt(Encodings),
     tags : Opt(Tags), original : Opt(Originals),
     visibility : Visibilities, publishAt : Opt(Nat),
     version : Nat, updatedAt : Nat]

(* The payload of a video event: the columns consumers are told about. *)
Payloads ==
    [status : Opt(VideoStatuses), stage : [Stages -> Opt(StageStatuses)],
     output : [Stages -> Opt(Outputs)], tags : Opt(Tags),
     visibility : Opt(Visibilities), publishAt : Opt(Nat)]

Events == [kind : {"created", "updated"}, version : Nat, payload : Payloads]

ASSUME ConstantsAssumption ==
    /\ EmittedTimes \subseteq Nat
    /\ ExpectVersion \subseteq BOOLEAN
    /\ MaxVersion \in Nat
    /\ MaxClock \in Nat
    /\ Null \notin VideoStatuses \cup StageStatuses \cup Visibilities
    /\ Null \notin Jobs \cup Outputs \cup Encodings \cup Tags \cup Originals
    /\ Null \notin Nat
    /\ Null \notin Rows
    /\ Null \notin Videos

VARIABLES
    video,      \* catalog.videos: the row of every id, Null before the INSERT
    outbox,     \* catalog.outbox_events of every video, in commit order
    req,        \* what every request holds in memory
    clock,      \* the database clock, in microseconds
    raced       \* history: a decision was committed on a row that had moved on

vars == <<video, outbox, req, clock, raced>>

NoStage == [s \in Stages |-> Null]

NoChange ==
    [status |-> Null, stage |-> NoStage, job |-> NoStage, emitted |-> NoStage,
     output |-> NoStage, encoded |-> Null, tags |-> Null, original |-> Null,
     visibility |-> Null, publishAt |-> Null]

IdleRequest ==
    [phase |-> "idle", op |-> Null, video |-> Null, base |-> Null,
     expected |-> Null, startedAt |-> Null, changes |-> NoChange]

RequestStates ==
    [phase : {"idle", "prepared", "open"}, op : Opt(Operations),
     video : Opt(Videos), base : Opt(Nat), expected : Opt(Nat),
     startedAt : Opt(Nat), changes : Updates]

Init ==
    /\ video = [v \in Videos |-> Null]
    /\ outbox = [v \in Videos |-> <<>>]
    /\ req = [r \in Requests |-> IdleRequest]
    /\ clock = 0
    /\ raced = [v \in Videos |-> FALSE]

-----------------------------------------------------------------------------
(* Pure decisions of the services.                                         *)

(* Mutant of ComputeOverallStatus: a pending stage is not "in progress". *)
ComputeOverallStatus_PendingForgotten(current, media, analysis, latest) ==
    IF latest = "failed" THEN "failed"
    ELSE IF "processing" \in {media, analysis} /\ current # "published"
         THEN "processing"
    ELSE IF media = "ready" /\ analysis = "ready"
         THEN IF current = "published" THEN current ELSE "ready"
    ELSE IF current = "failed" THEN "processing"
    ELSE current

(* Mutant of ComputeOverallStatus: a published video is processed again. *)
ComputeOverallStatus_PublishedReopens(current, media, analysis, latest) ==
    IF latest = "failed" THEN "failed"
    ELSE IF {media, analysis} \cap {"processing", "pending"} # {} THEN "processing"
    ELSE IF media = "ready" /\ analysis = "ready"
         THEN IF current = "published" THEN current ELSE "ready"
    ELSE IF current = "failed" THEN "processing"
    ELSE current

(* computeOverallStatus: the order of the tests is the order of the code. *)
ComputeOverallStatus(current, media, analysis, latest) ==
    IF latest = "failed" THEN "failed"
    ELSE IF /\ {media, analysis} \cap {"processing", "pending"} # {}
            /\ current # "published" THEN "processing"
    ELSE IF media = "ready" /\ analysis = "ready"
         THEN IF current = "published" THEN current ELSE "ready"
    ELSE IF current = "failed" THEN "processing"
    ELSE current

(* The status column of an update whose stages become `stage`: set only    *)
(* when it differs from the snapshot's.                                    *)
StatusChange(cur, stage, latest) ==
    LET computed == ComputeOverallStatus(cur.status, stage["media"],
                                         stage["analysis"], latest)
    IN  IF computed # cur.status THEN computed ELSE Null

(* Mutant of ValidateExpectations: a job conflict needs a strictly older time. *)
ValidateExpectations_SameTimeTakeover(cur, s, job, emitted, expectedStatus) ==
    /\ expectedStatus # Null => cur.stage[s] = expectedStatus
    /\ emitted # ZeroTime /\ cur.emitted[s] # Null => emitted >= cur.emitted[s]

(* validateExpectations: expected_status, emitted_at and job_id checks.  The *)
(* last two are skipped when emitted_at is the zero time.                  *)
ValidateExpectations(cur, s, job, emitted, expectedStatus) ==
    /\ expectedStatus # Null => cur.stage[s] = expectedStatus
    /\ emitted # ZeroTime /\ cur.emitted[s] # Null =>
          /\ emitted >= cur.emitted[s]
          /\ job # Null /\ cur.job[s] \notin {Null, job} => emitted > cur.emitted[s]

(* The defaults UpdateVideo fills in when a request publishes. *)
PublishDefaults(u, cur) ==
    IF u.status # "published" THEN u
    ELSE [u EXCEPT
            !.publishAt  = IF @ = Null /\ cur.publishAt = Null THEN clock ELSE @,
            !.visibility = IF @ = Null /\ cur.visibility # "public"
                           THEN "public" ELSE @]

-----------------------------------------------------------------------------
(* The database statements.                                                *)

Coalesce(new, old) == IF new = Null THEN old ELSE new

(* Mutant of UpdateVideoRow: the version only moves with the status. *)
UpdateVideoRow_StatusVersion(row, u, now) ==
    [status     |-> Coalesce(u.status, row.status),
     stage      |-> [s \in Stages |-> Coalesce(u.stage[s], row.stage[s])],
     job        |-> [s \in Stages |-> Coalesce(u.job[s], row.job[s])],
     emitted    |-> [s \in Stages |-> Coalesce(u.emitted[s], row.emitted[s])],
     output     |-> [s \in Stages |-> Coalesce(u.output[s], row.output[s])],
     encoded    |-> Coalesce(u.encoded, row.encoded),
     tags       |-> Coalesce(u.tags, row.tags),
     original   |-> Coalesce(u.original, row.original),
     visibility |-> Coalesce(u.visibility, row.visibility),
     publishAt  |-> Coalesce(u.publishAt, row.publishAt),
     version    |-> IF u.status = Null THEN row.version ELSE row.version + 1,
     updatedAt  |-> now]

(* UPDATE catalog.videos: COALESCE on every column, version + 1, and the   *)
(* trigger's updated_at = now(), the start of the transaction.             *)
UpdateVideoRow(row, u, now) ==
    [status     |-> Coalesce(u.status, row.status),
     stage      |-> [s \in Stages |-> Coalesce(u.stage[s], row.stage[s])],
     job        |-> [s \in Stages |-> Coalesce(u.job[s], row.job[s])],
     emitted    |-> [s \in Stages |-> Coalesce(u.emitted[s], row.emitted[s])],
     output     |-> [s \in Stages |-> Coalesce(u.output[s], row.output[s])],
     encoded    |-> Coalesce(u.encoded, row.encoded),
     tags       |-> Coalesce(u.tags, row.tags),
     original   |-> Coalesce(u.original, row.original),
     visibility |-> Coalesce(u.visibility, row.visibility),
     publishAt  |-> Coalesce(u.publishAt, row.publishAt),
     version    |-> row.version + 1,
     updatedAt  |-> now]

(* Mutant of NewVideoRow: the stage columns have no default. *)
NewVideoRow_NoStageDefault(now) ==
    [status |-> "pending_upload", stage |-> NoStage,
     job |-> NoStage, emitted |-> NoStage, output |-> NoStage,
     encoded |-> Null, tags |-> Null, original |-> Null,
     visibility |-> "public", publishAt |-> Null,
     version |-> 1, updatedAt |-> now]

(* The column defaults an INSERT leaves in place. *)
NewVideoRow(now) ==
    [status |-> "pending_upload", stage |-> [s \in Stages |-> "pending"],
     job |-> NoStage, emitted |-> NoStage, output |-> NoStage,
     encoded |-> Null, tags |-> Null, original |-> Null,
     visibility |-> "public", publishAt |-> Null,
     version |-> 1, updatedAt |-> now]

NoPayload ==
    [status |-> Null, stage |-> NoStage, output |-> NoStage, tags |-> Null,
     visibility |-> Null, publishAt |-> Null]

(* Mutant of UpdatePayload: the visibility is not passed either. *)
UpdatePayload_NoVisibility(u) ==
    [status |-> u.status, stage |-> u.stage, output |-> u.output, tags |-> Null,
     visibility |-> Null, publishAt |-> u.publishAt]

(* VideoUpdateChanges as UpdateVideo fills it in: Tags is never passed. *)
UpdatePayload(u) ==
    [status |-> u.status, stage |-> u.stage, output |-> u.output, tags |-> Null,
     visibility |-> u.visibility, publishAt |-> u.publishAt]

NewVideoCreatedEvent(row) ==
    [kind |-> "created", version |-> row.updatedAt,
     payload |-> [NoPayload EXCEPT !.status = row.status, !.stage = row.stage]]

(* Mutant of NewVideoUpdatedEvent: versioned by the callback's own time. *)
NewVideoUpdatedEvent_EmittedVersion(u, occurredAt) ==
    [kind |-> "updated",
     version |-> Coalesce(u.emitted["media"], occurredAt),
     payload |-> UpdatePayload(u)]

NewVideoUpdatedEvent(u, occurredAt) ==
    [kind |-> "updated", version |-> occurredAt, payload |-> UpdatePayload(u)]

(* Enqueue the event of update u, none when its payload is empty. *)
EnqueueUpdated(v, u, occurredAt) ==
    IF UpdatePayload(u) = NoPayload THEN UNCHANGED outbox
    ELSE outbox' = [outbox EXCEPT ![v] =
                        Append(@, NewVideoUpdatedEvent(u, occurredAt))]

(* LifecycleWriter.CreateVideo: row and created event in one transaction. *)
CreateVideo(v) ==
    /\ video' = [video EXCEPT ![v] = NewVideoRow(clock)]
    /\ outbox' = [outbox EXCEPT ![v] =
                      Append(@, NewVideoCreatedEvent(NewVideoRow(clock)))]

-----------------------------------------------------------------------------
(* Requests.                                                               *)

(* Hold update u, decided from snapshot cur.  An expected_version that     *)
(* does not match the snapshot is refused here, so a request that goes on  *)
(* carries none or the snapshot's own.                                     *)
Prepare(r, op, v, cur, expected, u) ==
    /\ u # NoChange
    /\ expected \in {Null, cur.version}
    /\ req' = [req EXCEPT ![r] =
                  [phase |-> "prepared", op |-> op, video |-> v,
                   base |-> cur.version, expected |-> expected,
                   startedAt |-> Null, changes |-> PublishDefaults(u, cur)]]

(* A request that can start on a video: it exists, below the bound. *)
CanStart(r, v) ==
    /\ req[r].phase = "idle"
    /\ video[v] # Null
    /\ video[v].version < MaxVersion

(* CatalogLifecycleService/RegisterUpload. *)
RegisterUpload(v) ==
    /\ video[v] = Null
    /\ CreateVideo(v)
    /\ UNCHANGED <<req, clock, raced>>

(* The upload task's finalize handler: CreateVideo commits on its own, then *)
(* UpdateVideo runs without a previous snapshot.  Only the call that        *)
(* inserted the row asks for status processing.                             *)
FinalizeUpload(r, v, size) ==
    /\ req[r].phase = "idle"
    /\ IF video[v] = Null
       THEN /\ CreateVideo(v)
            /\ Prepare(r, "upload", v, NewVideoRow(clock), Null,
                       [NoChange EXCEPT !.status = "processing",
                                        !.original = size])
       ELSE /\ CanStart(r, v)
            /\ Prepare(r, "upload", v, video[v], Null,
                       [NoChange EXCEPT !.original = size])
            /\ UNCHANGED <<video, outbox>>
    /\ UNCHANGED <<clock, raced>>

UpdateOriginalMedia(r, v, original, expected) ==
    /\ CanStart(r, v)
    /\ Prepare(r, "original", v, video[v], expected,
               [NoChange EXCEPT !.original = original])
    /\ UNCHANGED <<video, outbox, clock, raced>>

(* A stage report: refused when the snapshot fails the expectations. *)
UpdateProcessingStatus(r, v, s, newStatus, job, emitted, expectedStatus, expected) ==
    LET cur == video[v]
        stage == [cur.stage EXCEPT ![s] = newStatus]
    IN  /\ CanStart(r, v)
        /\ ValidateExpectations(cur, s, job, emitted, expectedStatus)
        /\ Prepare(r, "report", v, cur, expected,
                   [NoChange EXCEPT !.status = StatusChange(cur, stage, newStatus),
                                    !.stage[s] = newStatus,
                                    !.job[s] = job,
                                    !.emitted[s] = emitted])
        /\ UNCHANGED <<video, outbox, clock, raced>>

(* What UpdateMediaInfo and UpdateAIAttributes share: products, job and    *)
(* emitted_at are written unchecked, the zero time not at all, the stage   *)
(* only when one is given, and the overall status is recomputed in any     *)
(* case.                                                                   *)
StageProduct(r, op, v, s, newStatus, job, emitted, expected, u) ==
    LET cur == video[v]
        stage == [cur.stage EXCEPT ![s] = Coalesce(newStatus, @)]
    IN  /\ CanStart(r, v)
        /\ Prepare(r, op, v, cur, expected,
                   [u EXCEPT !.status = StatusChange(cur, stage, stage[s]),
                             !.stage[s] = newStatus,
                             !.job[s] = job,
                             !.emitted[s] = IF emitted = ZeroTime THEN Null
                                            ELSE emitted])
        /\ UNCHANGED <<video, outbox, clock, raced>>

UpdateMediaInfo(r, v, newStatus, job, emitted, output, encoded, expected) ==
    StageProduct(r, "media_info", v, "media", newStatus, job, emitted, expected,
                 [NoChange EXCEPT !.output["media"] = output,
                                  !.encoded = encoded])

UpdateAIAttributes(r, v, newStatus, job, emitted, output, tags, expected) ==
    StageProduct(r, "ai", v, "analysis", newStatus, job, emitted, expected,
                 [NoChange EXCEPT !.output["analysis"] = output,
                                  !.tags = tags])

(* UpdateVisibility: publish, reject or archive. *)
UpdateVisibility(r, v, target, expected) ==
    LET cur == video[v]
        wanted == IF target = "published" THEN "public" ELSE "private"
    IN  /\ CanStart(r, v)
        /\ target = "published" => \A s \in Stages : cur.stage[s] = "ready"
        /\ cur.status # target
        /\ Prepare(r, "visibility", v, cur, expected,
                   [NoChange EXCEPT
                      !.status = target,
                      !.visibility = IF cur.visibility # wanted THEN wanted
                                     ELSE Null])
        /\ UNCHANGED <<video, outbox, clock, raced>>

(* WithinTx opens the transaction: now() is fixed from here on. *)
Begin(r) ==
    /\ req[r].phase = "prepared"
    /\ req' = [req EXCEPT ![r].phase = "open", ![r].startedAt = clock]
    /\ UNCHANGED <<video, outbox, clock, raced>>

(* The request acts on a row that was updated since its snapshot. *)
Stale(r) == req[r].base # video[req[r].video].version

(* The update writes the columns the status rules are about. *)
DecidesStatus(u) ==
    \/ u.status # Null
    \/ u.visibility # Null
    \/ \E s \in Stages : u.stage[s] # Null

(* UPDATE, INSERT of the outbox event and COMMIT.  The row lock taken by   *)
(* the UPDATE is held to the COMMIT, so the three are one step for others. *)
Commit(r) ==
    LET v == req[r].video
        u == req[r].changes
        now == req[r].startedAt
    IN  /\ req[r].phase = "open"
        /\ video' = [video EXCEPT ![v] = UpdateVideoRow(@, u, now)]
        /\ EnqueueUpdated(v, u, now)
        /\ raced' = [raced EXCEPT ![v] = @ \/ (Stale(r) /\ DecidesStatus(u))]
        /\ req' = [req EXCEPT ![r] = IdleRequest]
        /\ UNCHANGED clock

(* Command timeout, lock timeout, lost connection or a failed enqueue: the *)
(* transaction rolls back and nothing of the request remains.              *)
Abort(r) ==
    /\ req[r].phase # "idle"
    /\ req' = [req EXCEPT ![r] = IdleRequest]
    /\ UNCHANGED <<video, outbox, clock, raced>>

Tick ==
    /\ clock < MaxClock
    /\ clock' = clock + 1
    /\ UNCHANGED <<video, outbox, req, raced>>

(* The requests a caller may make of a video, expected_version given or not. *)
StartRequest(r, v) ==
    \E expected \in {IF given THEN video[v].version ELSE Null :
                        given \in ExpectVersion} :
        \/ \E original \in Originals : UpdateOriginalMedia(r, v, original, expected)
        \/ \E s \in Stages, new \in StageStatuses, job \in Opt(Jobs),
              emitted \in EmittedTimes, expectedStatus \in Opt(StageStatuses) :
                UpdateProcessingStatus(r, v, s, new, job, emitted,
                                       expectedStatus, expected)
        \/ \E new \in Opt(StageStatuses), job \in Opt(Jobs),
              emitted \in EmittedTimes, output \in Opt(Outputs),
              encoded \in Opt(Encodings) :
                UpdateMediaInfo(r, v, new, job, emitted, output, encoded, expected)
        \/ \E new \in Opt(StageStatuses), job \in Opt(Jobs),
              emitted \in EmittedTimes, output \in Opt(Outputs),
              tags \in Opt(Tags) :
                UpdateAIAttributes(r, v, new, job, emitted, output, tags, expected)
        \/ \E target \in {"published", "rejected", "archived"} :
                UpdateVisibility(r, v, target, expected)

Next ==
    \/ \E v \in Videos : RegisterUpload(v)
    \/ \E r \in Requests, v \in Videos, size \in Opt(Originals) :
            FinalizeUpload(r, v, size)
    \/ \E r \in Requests, v \in Videos : video[v] # Null /\ StartRequest(r, v)
    \/ \E r \in Requests : Begin(r) \/ Commit(r) \/ Abort(r)
    \/ Tick

Spec == Init /\ [][Next]_vars

-----------------------------------------------------------------------------
(* Properties.                                                             *)

(* Type invariant. *)
TypeOK ==
    /\ video \in [Videos -> Opt(Rows)]
    /\ outbox \in [Videos -> Seq(Events)]
    /\ req \in [Requests -> RequestStates]
    /\ clock \in Nat
    /\ raced \in [Videos -> BOOLEAN]

(* The relation between the overall status and the stages that the         *)
(* services are meant to keep (RecomputeOverallStatus in ARCHITECTURE.md). *)
StatusAgrees(row) ==
    LET all(st) == \A s \in Stages : row.stage[s] = st
        some(st) == \E s \in Stages : row.stage[s] = st
    IN  /\ row.status = "pending_upload" => all("pending")
        /\ row.status = "processing" => ~all("ready")
        /\ row.status = "ready" => all("ready")
        /\ row.status = "published" => ~some("failed")
        /\ row.status = "failed" => some("failed")
        /\ row.status = "published" => row.visibility = "public"
        /\ row.status \in {"rejected", "archived"} => row.visibility = "private"

(* Status, stages and visibility of a row agree as long as no decision     *)
(* taken from an outdated snapshot was committed on it: the read outside   *)
(* of the transaction is the only way to break the documented rules.       *)
StatusAgreesUnlessRaced ==
    \A v \in Videos : video[v] # Null /\ ~raced[v] => StatusAgrees(video[v])

(* The same without the proviso: what a single caller at a time gets. *)
StatusAlwaysAgrees ==
    \A v \in Videos : video[v] # Null => StatusAgrees(video[v])

(* x is what the last entry of vals that is not Null says, or dflt when    *)
(* all are Null.                                                           *)
Latest(vals, x, dflt) ==
    \/ \E i \in DOMAIN vals :
          /\ vals[i] # Null
          /\ vals[i] = x
          /\ \A j \in DOMAIN vals : j > i => vals[j] = Null
    \/ /\ x = dflt
       /\ \A i \in DOMAIN vals : vals[i] = Null

(* A consumer that applies the committed events of a video in order has    *)
(* the row's status, stages, products, visibility and publish time: no     *)
(* published column is ever changed without telling the outbox, whatever   *)
(* requests interleave.                                                    *)
OutboxTellsRow ==
    \A v \in Videos :
        LET ev == outbox[v]
            row == video[v]
        IN  IF row = Null THEN ev = <<>>
            ELSE /\ Latest([i \in DOMAIN ev |-> ev[i].payload.status],
                           row.status, Null)
                 /\ Latest([i \in DOMAIN ev |-> ev[i].payload.visibility],
                           row.visibility, "public")
                 /\ Latest([i \in DOMAIN ev |-> ev[i].payload.publishAt],
                           row.publishAt, Null)
                 /\ \A s \in Stages :
                      /\ Latest([i \in DOMAIN ev |-> ev[i].payload.stage[s]],
                                row.stage[s], Null)
                      /\ Latest([i \in DOMAIN ev |-> ev[i].payload.output[s]],
                                row.output[s], Null)

(* Every commit moves the row's version by exactly one, whatever version   *)
(* the request read, and nothing else touches a row: two commits never     *)
(* return the same version to their callers.                               *)
EveryCommitTakesOneVersion ==
    [][\A v \in Videos :
          /\ video[v] # Null /\ video'[v] # video[v] =>
                video'[v] # Null /\ video'[v].version = video[v].version + 1
          /\ outbox'[v] # outbox[v] => video'[v] # video[v]]_<<video, outbox>>

(* Request r commits in this step, on the row its snapshot showed. *)
FreshCommit(r) ==
    /\ req[r].phase = "open"
    /\ video'[req[r].video] # video[req[r].video]
    /\ req'[r].phase = "idle"
    /\ ~Stale(r)

(* From row old to row new, emitted_at of a stage does not go back, and     *)
(* another job takes the stage over only with a later one.                 *)
MovesForward(old, new) ==
    \A s \in Stages : old.emitted[s] # Null =>
        /\ new.emitted[s] # Null
        /\ new.emitted[s] >= old.emitted[s]
        /\ old.job[s] \notin {Null, new.job[s]} => new.emitted[s] > old.emitted[s]

(* A stage report that says when it was emitted. *)
DatedReport(r) ==
    /\ req[r].op = "report"
    /\ \A s \in Stages : req[r].changes.emitted[s] # ZeroTime

(* A stage report that says when it was emitted and raced with nobody never *)
(* moves emitted_at back, and takes the stage over from another job only   *)
(* with a later emitted_at.                                                *)
FreshReportsMoveForward ==
    [][\A r \in Requests :
          FreshCommit(r) /\ DatedReport(r) =>
              MovesForward(video[req[r].video], video'[req[r].video])]_vars

(* The event of a request that raced with nobody carries a version no      *)
(* smaller than that of any event committed before it: consumers that drop *)
(* older versions keep it.                                                 *)
FreshEventsAreOrdered ==
    [][\A r \in Requests : FreshCommit(r) =>
          LET old == outbox[req[r].video]
              new == outbox'[req[r].video]
          IN  \A i \in DOMAIN old, j \in DOMAIN new :
                 j \notin DOMAIN old => old[i].version <= new[j].version]_vars

-----------------------------------------------------------------------------
(* The inductive invariant behind these properties.                        *)

(* The row request r would commit if it committed now. *)
NextRow(r) ==
    UpdateVideoRow(video[req[r].video], req[r].changes, req[r].startedAt)

(* What a request in flight holds: a video that exists, a version the row  *)
(* has had and, in its transaction, a start time the clock has shown.      *)
InFlight(r) ==
    /\ req[r].video \in Videos
    /\ video[req[r].video] # Null
    /\ req[r].base \in Nat
    /\ req[r].base <= video[req[r].video].version
    /\ req[r].phase = "open" => req[r].startedAt \in Nat /\ req[r].startedAt <= clock

(* What was decided from the snapshot holds of the row while it is still   *)
(* the row of the snapshot.                                                *)
FreshDecision(r) ==
    LET row == video[req[r].video]
    IN  /\ StatusAgrees(row) => StatusAgrees(NextRow(r))
        /\ DatedReport(r) => MovesForward(row, NextRow(r))
        /\ req[r].phase = "open" =>
              \A i \in DOMAIN outbox[req[r].video] :
                  outbox[req[r].video][i].version <= req[r].startedAt

RequestsInFlight == \A r \in Requests : req[r].phase # "idle" => InFlight(r)

FreshDecisionsHold ==
    \A r \in Requests : req[r].phase # "idle" /\ ~Stale(r) => FreshDecision(r)

VersionsAreInThePast ==
    \A v \in Videos : \A i \in DOMAIN outbox[v] : outbox[v][i].version <= clock

LifecycleInv ==
    /\ TypeOK
    /\ RequestsInFlight
    /\ FreshDecisionsHold
    /\ VersionsAreInThePast
    /\ StatusAgreesUnlessRaced

-----------------------------------------------------------------------------
(* What the repository's documents and comments say, and the code breaks.  *)

(* MVP.md and the comment on videos.version: a write that gives            *)
(* expected_version takes effect on that version of the row only.          *)
ExpectedVersionIsHonoured ==
    [][\A r \in Requests :
          LET v == req[r].video
          IN  /\ req[r].phase = "open"
              /\ req[r].expected # Null
              /\ video'[v] # video[v]
              /\ req'[r].phase = "idle"
              => video[v].version = req[r].expected]_vars
=============================================================================
