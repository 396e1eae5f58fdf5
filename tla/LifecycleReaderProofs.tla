------------------------ MODULE LifecycleReaderProofs ------------------------
(* What readers of the write model may rely on, for every instance: the     *)
(* consumers of its events (OutboxTellsRow) and the callers of             *)
(* GetVideoDetail (the properties of Details).                             *)
EXTENDS LifecycleStatusProofs, Details, FiniteSetTheorems

USE ConstantsAssumption

(* One more entry: a value replaces the latest, Null leaves it. *)
LEMMA LatestAppend ==
    ASSUME NEW n \in Nat, NEW old, NEW new, NEW x, NEW dflt,
           DOMAIN old = 1 .. n, DOMAIN new = 1 .. n + 1,
           \A i \in 1 .. n : new[i] = old[i],
           Latest(old, x, dflt)
    PROVE  Latest(new, Coalesce(new[n + 1], x), dflt)
  <1>1. CASE new[n + 1] # Null
    <2>1. \A j \in DOMAIN new : ~(j > n + 1)
      OBVIOUS
    <2> QED
      BY <1>1, <2>1 DEF Latest, Coalesce
  <1>2. CASE new[n + 1] = Null
    <2>1. Coalesce(new[n + 1], x) = x
      BY <1>2 DEF Coalesce
    <2>2. \A j \in DOMAIN new : j \in DOMAIN old \/ j = n + 1
      OBVIOUS
    <2>3. CASE /\ x = dflt
               /\ \A i \in DOMAIN old : old[i] = Null
      BY <1>2, <2>1, <2>2, <2>3 DEF Latest
    <2>4. ASSUME NEW i \in DOMAIN old, old[i] # Null, old[i] = x,
                 \A j \in DOMAIN old : j > i => old[j] = Null
          PROVE  Latest(new, x, dflt)
      <3>1. i \in DOMAIN new /\ new[i] # Null /\ new[i] = x
        BY <2>4
      <3>2. \A j \in DOMAIN new : j > i => new[j] = Null
        BY <1>2, <2>2, <2>4
      <3> QED
        BY <3>1, <3>2 DEF Latest
    <2> QED
      BY <2>1, <2>3, <2>4 DEF Latest
  <1> QED
    BY <1>1, <1>2

(* What OutboxTellsRow says of one video. *)
Tells(ev, row) ==
    /\ Latest([i \in DOMAIN ev |-> ev[i].payload.status], row.status, Null)
    /\ Latest([i \in DOMAIN ev |-> ev[i].payload.visibility],
              row.visibility, "public")
    /\ Latest([i \in DOMAIN ev |-> ev[i].payload.publishAt], row.publishAt, Null)
    /\ \A s \in Stages :
          /\ Latest([i \in DOMAIN ev |-> ev[i].payload.stage[s]],
                    row.stage[s], Null)
          /\ Latest([i \in DOMAIN ev |-> ev[i].payload.output[s]],
                    row.output[s], Null)

(* Row new is row with the columns of payload p changed. *)
Follows(row, p, new) ==
    /\ new.status = Coalesce(p.status, row.status)
    /\ new.visibility = Coalesce(p.visibility, row.visibility)
    /\ new.publishAt = Coalesce(p.publishAt, row.publishAt)
    /\ \A s \in Stages :
          /\ new.stage[s] = Coalesce(p.stage[s], row.stage[s])
          /\ new.output[s] = Coalesce(p.output[s], row.output[s])

(* Appending the event of a change to the row keeps the stream telling it. *)
LEMMA TellsAppend ==
    ASSUME NEW ev \in Seq(Events), NEW e \in Events, NEW row, NEW new,
           Tells(ev, row), Follows(row, e.payload, new)
    PROVE  Tells(Append(ev, e), new)
  <1> DEFINE n == Len(ev)
             after == Append(ev, e)
  <1>1. /\ n \in Nat
        /\ DOMAIN ev = 1 .. n
        /\ DOMAIN after = 1 .. n + 1
        /\ \A i \in 1 .. n : after[i] = ev[i]
        /\ after[n + 1] = e
    OBVIOUS
  <1> HIDE DEF n, after
  <1>2. n + 1 \in 1 .. n + 1 /\ \A i \in 1 .. n : i \in 1 .. n + 1
    BY <1>1
  <1> USE DEF Follows
  <1>3. Latest([i \in DOMAIN after |-> after[i].payload.status], new.status, Null)
    <2> DEFINE old == [i \in DOMAIN ev |-> ev[i].payload.status]
               all == [i \in DOMAIN after |-> after[i].payload.status]
    <2>1. Latest(old, row.status, Null)
      BY DEF Tells
    <2>2. /\ DOMAIN old = 1 .. n
          /\ DOMAIN all = 1 .. n + 1
          /\ \A i \in 1 .. n : all[i] = old[i]
          /\ all[n + 1] = e.payload.status
      BY <1>1, <1>2
    <2> HIDE DEF old, all
    <2>3. Latest(all, Coalesce(all[n + 1], row.status), Null)
      BY <1>1, <2>1, <2>2, LatestAppend
    <2> QED
      BY <2>2, <2>3 DEF all
  <1>4. Latest([i \in DOMAIN after |-> after[i].payload.visibility],
               new.visibility, "public")
    <2> DEFINE old == [i \in DOMAIN ev |-> ev[i].payload.visibility]
               all == [i \in DOMAIN after |-> after[i].payload.visibility]
    <2>1. Latest(old, row.visibility, "public")
      BY DEF Tells
    <2>2. /\ DOMAIN old = 1 .. n
          /\ DOMAIN all = 1 .. n + 1
          /\ \A i \in 1 .. n : all[i] = old[i]
          /\ all[n + 1] = e.payload.visibility
      BY <1>1, <1>2
    <2> HIDE DEF old, all
    <2>3. Latest(all, Coalesce(all[n + 1], row.visibility), "public")
      BY <1>1, <2>1, <2>2, LatestAppend
    <2> QED
      BY <2>2, <2>3 DEF all
  <1>5. Latest([i \in DOMAIN after |-> after[i].payload.publishAt],
               new.publishAt, Null)
    <2> DEFINE old == [i \in DOMAIN ev |-> ev[i].payload.publishAt]
               all == [i \in DOMAIN after |-> after[i].payload.publishAt]
    <2>1. Latest(old, row.publishAt, Null)
      BY DEF Tells
    <2>2. /\ DOMAIN old = 1 .. n
          /\ DOMAIN all = 1 .. n + 1
          /\ \A i \in 1 .. n : all[i] = old[i]
          /\ all[n + 1] = e.payload.publishAt
      BY <1>1, <1>2
    <2> HIDE DEF old, all
    <2>3. Latest(all, Coalesce(all[n + 1], row.publishAt), Null)
      BY <1>1, <2>1, <2>2, LatestAppend
    <2> QED
      BY <2>2, <2>3 DEF all
  <1>6. ASSUME NEW s \in Stages
        PROVE  Latest([i \in DOMAIN after |-> after[i].payload.stage[s]],
                      new.stage[s], Null)
    <2> DEFINE old == [i \in DOMAIN ev |-> ev[i].payload.stage[s]]
               all == [i \in DOMAIN after |-> after[i].payload.stage[s]]
    <2>1. Latest(old, row.stage[s], Null)
      BY DEF Tells
    <2>2. /\ DOMAIN old = 1 .. n
          /\ DOMAIN all = 1 .. n + 1
          /\ \A i \in 1 .. n : all[i] = old[i]
          /\ all[n + 1] = e.payload.stage[s]
      BY <1>1, <1>2
    <2> HIDE DEF old, all
    <2>3. Latest(all, Coalesce(all[n + 1], row.stage[s]), Null)
      BY <1>1, <2>1, <2>2, LatestAppend
    <2> QED
      BY <2>2, <2>3 DEF all
  <1>7. ASSUME NEW s \in Stages
        PROVE  Latest([i \in DOMAIN after |-> after[i].payload.output[s]],
                      new.output[s], Null)
    <2> DEFINE old == [i \in DOMAIN ev |-> ev[i].payload.output[s]]
               all == [i \in DOMAIN after |-> after[i].payload.output[s]]
    <2>1. Latest(old, row.output[s], Null)
      BY DEF Tells
    <2>2. /\ DOMAIN old = 1 .. n
          /\ DOMAIN all = 1 .. n + 1
          /\ \A i \in 1 .. n : all[i] = old[i]
          /\ all[n + 1] = e.payload.output[s]
      BY <1>1, <1>2
    <2> HIDE DEF old, all
    <2>3. Latest(all, Coalesce(all[n + 1], row.output[s]), Null)
      BY <1>1, <2>1, <2>2, LatestAppend
    <2> QED
      BY <2>2, <2>3 DEF all
  <1> QED
    BY <1>3, <1>4, <1>5, <1>6, <1>7 DEF Tells, after

(* A video that is created: its created event carries the row's defaults. *)
LEMMA CreatedTells ==
    ASSUME NEW now \in Nat
    PROVE  Tells(Append(<<>>, NewVideoCreatedEvent(NewVideoRow(now))),
                 NewVideoRow(now))
  <1> DEFINE row == NewVideoRow(now)
             e == NewVideoCreatedEvent(row)
             blank == [row EXCEPT !.status = Null, !.stage = NoStage]
  <1>1. row \in Rows /\ e \in Events
    BY NewVideoRowType, CreatedEventType
  <1>2. /\ e.payload.status = row.status
        /\ e.payload.visibility = Null
        /\ e.payload.publishAt = Null
        /\ \A s \in Stages :
              /\ e.payload.stage[s] = row.stage[s]
              /\ e.payload.output[s] = Null
    BY DEF NewVideoCreatedEvent, NewVideoRow, NoPayload, NoStage
  <1>3. /\ row.visibility = "public"
        /\ row.publishAt = Null
        /\ row.status # Null
        /\ \A s \in Stages : row.output[s] = Null /\ row.stage[s] # Null
    BY DEF NewVideoRow, NoStage, VideoStatuses, StageStatuses
  <1>4. /\ blank.status = Null
        /\ blank.visibility = "public"
        /\ blank.publishAt = Null
        /\ \A s \in Stages : blank.stage[s] = Null /\ blank.output[s] = Null
    BY <1>1, <1>3 DEF Rows, NoStage
  <1> HIDE DEF row, e, blank
  <1>5. Tells(<<>>, blank)
    BY <1>4 DEF Tells, Latest
  <1>6. <<>> \in Seq(Events)
    OBVIOUS
  <1>7. Tells(Append(<<>>, e), row)
    <2>1. Follows(blank, e.payload, row)
      BY <1>2, <1>3, <1>4 DEF Coalesce, Follows
    <2> QED
      BY <1>1, <1>5, <1>6, <2>1, TellsAppend
  <1> QED
    BY <1>7 DEF row, e

(* An update: its event carries every published column it sets, and an     *)
(* update without an event sets none.                                      *)
LEMMA UpdateTells ==
    ASSUME TypeOK, NEW v \in Videos, NEW row \in Rows, NEW u \in Updates,
           NEW now \in Nat, Tells(outbox[v], row), EnqueueUpdated(v, u, now)
    PROVE  Tells(outbox'[v], UpdateVideoRow(row, u, now))
  <1> DEFINE e == NewVideoUpdatedEvent(u, now)
             new == UpdateVideoRow(row, u, now)
  <1>1. e \in Events
    BY UpdatedEventType
  <1>2. /\ new.status = Coalesce(u.status, row.status)
        /\ new.visibility = Coalesce(u.visibility, row.visibility)
        /\ new.publishAt = Coalesce(u.publishAt, row.publishAt)
        /\ \A s \in Stages :
              /\ new.stage[s] = Coalesce(u.stage[s], row.stage[s])
              /\ new.output[s] = Coalesce(u.output[s], row.output[s])
    BY DEF UpdateVideoRow
  <1>3. /\ e.payload.status = u.status
        /\ e.payload.visibility = u.visibility
        /\ e.payload.publishAt = u.publishAt
        /\ e.payload.stage = u.stage
        /\ e.payload.output = u.output
    BY DEF NewVideoUpdatedEvent, UpdatePayload
  <1> HIDE DEF e, new
  <1>4. CASE UpdatePayload(u) = NoPayload
    <2>1. /\ u.status = Null
          /\ u.visibility = Null
          /\ u.publishAt = Null
          /\ u.stage = NoStage
          /\ u.output = NoStage
      BY <1>4 DEF UpdatePayload, NoPayload
    <2>2. /\ new.status = row.status
          /\ new.visibility = row.visibility
          /\ new.publishAt = row.publishAt
          /\ \A s \in Stages :
                new.stage[s] = row.stage[s] /\ new.output[s] = row.output[s]
      BY <1>2, <2>1 DEF Coalesce, NoStage
    <2>3. outbox'[v] = outbox[v]
      BY <1>4 DEF EnqueueUpdated
    <2>4. Tells(outbox[v], new)
      BY <2>2 DEF Tells
    <2> QED
      BY <2>3, <2>4 DEF new
  <1>5. CASE UpdatePayload(u) # NoPayload
    <2>1. outbox'[v] = Append(outbox[v], e) /\ outbox[v] \in Seq(Events)
      BY <1>5 DEF EnqueueUpdated, TypeOK, e
    <2>2. Follows(row, e.payload, new)
      BY <1>2, <1>3 DEF Follows
    <2>3. Tells(Append(outbox[v], e), new)
      BY <1>1, <2>1, <2>2, TellsAppend
    <2> QED
      BY <2>1, <2>3 DEF new
  <1> QED
    BY <1>4, <1>5

LEMMA OutboxStep ==
    ASSUME LifecycleInv, OutboxTellsRow, [Next]_vars
    PROVE  OutboxTellsRow'
  <1> USE DEF LifecycleInv
  <1> SUFFICES ASSUME NEW v \in Videos
               PROVE  IF video'[v] = Null THEN outbox'[v] = <<>>
                      ELSE Tells(outbox'[v], video'[v])
    BY DEF OutboxTellsRow, Tells
  <1>1. IF video[v] = Null THEN outbox[v] = <<>> ELSE Tells(outbox[v], video[v])
    BY DEF OutboxTellsRow, Tells
  <1>2. CASE UNCHANGED <<video[v], outbox[v]>>
    BY <1>1, <1>2
  <1>3. CASE video[v] = Null /\ CreateVideo(v) /\ video'[v] # Null
    <2>1. video'[v] = NewVideoRow(clock)
      BY <1>3 DEF CreateVideo, TypeOK
    <2>2. outbox'[v] = Append(outbox[v], NewVideoCreatedEvent(NewVideoRow(clock)))
      BY <1>3 DEF CreateVideo, TypeOK
    <2>3. clock \in Nat
      BY DEF TypeOK
    <2> QED
      BY <1>1, <1>3, <2>1, <2>2, <2>3, CreatedTells
  <1>4. ASSUME NEW r \in Requests, Commit(r), req[r].video = v,
               video[v] \in Rows, video'[v] = NextRow(r), video'[v] \in Rows
        PROVE  Tells(outbox'[v], video'[v])
    <2> DEFINE u == req[r].changes
               now == req[r].startedAt
    <2>1. u \in Updates /\ now \in Nat
      BY <1>4 DEF Commit, RequestsInFlight, InFlight, TypeOK, RequestStates
    <2>2. EnqueueUpdated(v, u, now) /\ NextRow(r) = UpdateVideoRow(video[v], u, now)
      BY <1>4 DEF Commit, NextRow
    <2> HIDE DEF u, now
    <2>3. Tells(outbox[v], video[v])
      BY <1>1, <1>4
    <2> QED
      BY <1>4, <2>1, <2>2, <2>3, UpdateTells
  <1> QED
    BY <1>2, <1>3, <1>4, RowStep

(* Whatever requests interleave, the committed events of a video tell      *)
(* every published column of its row.                                      *)
THEOREM OutboxTheorem == Spec => []OutboxTellsRow
  <1>1. Init => OutboxTellsRow
    BY DEF Init, OutboxTellsRow
  <1>2. LifecycleInv /\ OutboxTellsRow /\ [Next]_vars => OutboxTellsRow'
    BY OutboxStep
  <1> QED
    BY <1>1, <1>2, LifecycleInvariant, PTL DEF Spec

-----------------------------------------------------------------------------
(* The answers of GetVideoDetail.                                          *)

Reads ==
    [phase : {"idle", "viewed", "described", "personal", "answered"},
     caller : Callers \cup {"anonymous"}, video : Opt(Videos),
     view : Opt([status : VideoStatuses, stage : [Stages -> StageStatuses]]),
     viewVersion : Opt(Nat),
     metadata : Opt([status : VideoStatuses, stage : [Stages -> StageStatuses],
                     version : Nat]),
     hasLiked : Opt(BOOLEAN), likeCount : Opt(Nat)]

(* A call in flight holds a view of a video that exists: of the row as it  *)
(* is, while the version is the same.                                      *)
ViewHolds ==
    read.phase # "idle" =>
        /\ read.video \in Videos
        /\ video[read.video] # Null
        /\ read.viewVersion \in Nat
        /\ read.viewVersion <= video[read.video].version
        /\ read.viewVersion = video[read.video].version =>
              read.view = ReadyView(video[read.video])

(* As long as no like message was decided from a flag that had changed,    *)
(* the counter counts the flags.                                           *)
LikesAreCounted ==
    /\ liked \in [Videos -> SUBSET Viewers]
    /\ likes \in [Videos -> Nat]
    /\ liking \in [Likers -> Opt(LikeMessages)]
    /\ crossed \in [Videos -> BOOLEAN]
    /\ \A v \in Videos : ~crossed[v] => likes[v] = Cardinality(liked[v])

(* What the call read of the flag holds until the flag is cleared, what it *)
(* read of the counter goes with it.                                       *)
LikeHolds ==
    /\ moved \in BOOLEAN
    /\ read.phase \in {"personal", "answered"} => read.hasLiked \in BOOLEAN
    /\ read.phase = "personal" /\ ~moved /\ read.hasLiked = TRUE =>
          read.caller \in liked[read.video]
    /\ /\ read.phase = "answered" /\ ~moved /\ read.hasLiked = TRUE
       /\ ~crossed[read.video]
       => read.likeCount > 0

ReaderInv ==
    /\ LifecycleInv
    /\ read \in Reads
    /\ ViewHolds
    /\ AnswerMovesForward
    /\ LikesAreCounted
    /\ LikeHolds

(* The rows GetVideoDetail reads are those of the write model. *)
LEMMA DetailsIsLifecycle == DetailsSpec => Spec
  <1>1. DetailsInit => Init
    BY DEF DetailsInit
  <1>2. [DetailsNext]_detailVars => [Next]_vars
    BY DEF DetailsNext, ReadersOnly, detailVars, FindPublished, GetMetadata,
           GetUserState, GetStats, Return, ReadFlag, CommitLike, ForgetLike
  <1> QED
    BY <1>1, <1>2, PTL DEF DetailsSpec, Spec

(* A row that was there stays there, and changes only with its version. *)
LEMMA RowsMoveForward ==
    ASSUME LifecycleInv, [Next]_vars, NEW v \in Videos, video[v] # Null
    PROVE  /\ video[v] \in Rows /\ video'[v] \in Rows
           /\ video'[v] = video[v] \/ video'[v].version = video[v].version + 1
  BY RowStep DEF LifecycleInv, TypeOK, Opt

(* A step of the write model leaves what was read true. *)
LEMMA WriteKeepsViews ==
    ASSUME ReaderInv, [Next]_vars, LifecycleInv', UNCHANGED readerVars
    PROVE  ReaderInv'
  <1> USE DEF ReaderInv, readerVars, likeVars
  <1>1. ViewHolds'
    <2> SUFFICES ASSUME read.phase # "idle"
                 PROVE  ViewHolds'
      BY DEF ViewHolds
    <2> DEFINE v == read.video
    <2>1. v \in Videos /\ video[v] # Null
      BY DEF ViewHolds
    <2>2. /\ video[v] \in Rows /\ video'[v] \in Rows
          /\ video'[v] = video[v] \/ video'[v].version = video[v].version + 1
      BY <2>1, RowsMoveForward
    <2>3. video[v].version \in Nat /\ video'[v] # Null
      BY <2>2 DEF Rows
    <2> QED
      BY <2>1, <2>2, <2>3 DEF ViewHolds
  <1>2. AnswerMovesForward' /\ LikeHolds' /\ read' \in Reads
    BY DEF AnswerMovesForward, LikeHolds
  <1>3. LikesAreCounted'
    BY DEF LikesAreCounted
  <1> QED
    BY <1>1, <1>2, <1>3

(* A worker that commits counts its like when it read the flag as it is. *)
LEMMA CommitKeepsCount ==
    ASSUME LikesAreCounted, NEW w \in Likers, CommitLike(w)
    PROVE  /\ LikesAreCounted'
           /\ \A v \in Videos : crossed[v] => crossed'[v]
  <1> USE DEF LikesAreCounted
  <1> DEFINE m == liking[w]
             v == m.video
             d == LikeDelta(m)
  <1>1. m \in LikeMessages
    BY DEF CommitLike, Opt
  <1>2. v \in Videos /\ m.viewer \in Viewers /\ m.on \in BOOLEAN /\ m.had \in BOOLEAN
    BY <1>1 DEF LikeMessages
  <1>3. d \in {-1, 0, 1}
    BY <1>2 DEF LikeDelta
  <1>4. /\ liked' = [liked EXCEPT ![v] = IF m.on THEN @ \cup {m.viewer} ELSE @ \ {m.viewer}]
        /\ likes' = [likes EXCEPT ![v] = IF @ + d < 0 THEN 0 ELSE @ + d]
        /\ liking' = [liking EXCEPT ![w] = Null]
        /\ crossed' = [crossed EXCEPT ![v] = @ \/ m.had # (m.viewer \in liked[v])]
    BY DEF CommitLike
  <1>5. ASSUME ~crossed[v], m.had = (m.viewer \in liked[v])
        PROVE  likes'[v] = Cardinality(liked'[v])
    <2>1. /\ liked[v] \in SUBSET Viewers
          /\ likes[v] = Cardinality(liked[v])
      BY <1>2, <1>5
    <2>2. IsFiniteSet(liked[v])
      BY <2>1, ViewersAssumption, FS_Subset
    <2>3. /\ Cardinality(liked[v]) \in Nat
          /\ Cardinality(liked[v] \cup {m.viewer}) =
                IF m.viewer \in liked[v] THEN Cardinality(liked[v])
                ELSE Cardinality(liked[v]) + 1
          /\ Cardinality(liked[v] \ {m.viewer}) =
                IF m.viewer \in liked[v] THEN Cardinality(liked[v]) - 1
                ELSE Cardinality(liked[v])
          /\ Cardinality(liked[v] \ {m.viewer}) \in Nat
      <3> DEFINE S == liked[v]
                 u == m.viewer
      <3>1. IsFiniteSet(S)
        BY <2>2
      <3> HIDE DEF S, u
      <3>2. Cardinality(S) \in Nat
        BY <3>1, FS_CardinalityType
      <3>3. Cardinality(S \cup {u}) =
              IF u \in S THEN Cardinality(S) ELSE Cardinality(S) + 1
        BY <3>1, FS_AddElement
      <3>4. /\ IsFiniteSet(S \ {u})
            /\ Cardinality(S \ {u}) =
                 IF u \in S THEN Cardinality(S) - 1 ELSE Cardinality(S)
        BY <3>1, FS_RemoveElement
      <3>5. Cardinality(S \ {u}) \in Nat
        BY <3>4, FS_CardinalityType
      <3> QED
        BY <3>2, <3>3, <3>4, <3>5 DEF S, u
    <2>4. /\ liked'[v] = IF m.on THEN liked[v] \cup {m.viewer} ELSE liked[v] \ {m.viewer}
          /\ likes'[v] = IF likes[v] + d < 0 THEN 0 ELSE likes[v] + d
      BY <1>2, <1>4
    <2>5. d = IF m.had = m.on THEN 0 ELSE IF m.on THEN 1 ELSE -1
      BY DEF LikeDelta
    <2> HIDE DEF m, v, d
    <2>6. CASE m.on
      <3>1. CASE m.viewer \in liked[v]
        <4>1. d = 0
          BY <1>2, <1>5, <2>5, <2>6, <3>1
        <4> QED
          BY <2>1, <2>3, <2>4, <2>6, <3>1, <4>1
      <3>2. CASE m.viewer \notin liked[v]
        <4>1. d = 1
          BY <1>2, <1>5, <2>5, <2>6, <3>2
        <4> QED
          BY <2>1, <2>3, <2>4, <2>6, <3>2, <4>1
      <3> QED
        BY <3>1, <3>2
    <2>7. CASE ~m.on
      <3>1. CASE m.viewer \in liked[v]
        <4>1. d = -1
          BY <1>2, <1>5, <2>5, <2>7, <3>1
        <4> QED
          BY <2>1, <2>3, <2>4, <2>7, <3>1, <4>1
      <3>2. CASE m.viewer \notin liked[v]
        <4>1. d = 0
          BY <1>2, <1>5, <2>5, <2>7, <3>2
        <4> QED
          BY <2>1, <2>3, <2>4, <2>7, <3>2, <4>1
      <3> QED
        BY <3>1, <3>2
    <2> QED
      BY <2>6, <2>7
  <1> HIDE DEF m, v, d
  <1>6. /\ liked' \in [Videos -> SUBSET Viewers]
        /\ likes' \in [Videos -> Nat]
    BY <1>2, <1>3, <1>4
  <1>7. liking' \in [Likers -> Opt(LikeMessages)]
    BY <1>4 DEF Opt
  <1>8. crossed' \in [Videos -> BOOLEAN] /\ \A x \in Videos : crossed[x] => crossed'[x]
    BY <1>2, <1>4
  <1>9. ASSUME NEW x \in Videos, ~crossed'[x]
        PROVE  likes'[x] = Cardinality(liked'[x])
    <2>1. CASE x = v
      <3>1. ~crossed[v] /\ m.had = (m.viewer \in liked[v])
        BY <1>2, <1>4, <1>9, <2>1
      <3> QED
        BY <1>5, <2>1, <3>1
    <2>2. CASE x # v
      BY <1>2, <1>4, <1>9, <2>2
    <2> QED
      BY <2>1, <2>2
  <1> QED
    BY <1>6, <1>7, <1>8, <1>9

LEMMA ReadStep ==
    ASSUME ReaderInv, [DetailsNext]_detailVars, LifecycleInv'
    PROVE  ReaderInv'
  <1> USE DEF ReaderInv
  <1>1. CASE [Next]_vars /\ UNCHANGED readerVars
    BY <1>1, WriteKeepsViews
  <1>2. ASSUME NEW v \in Videos, NEW caller \in Callers, FindPublished(v, caller)
        PROVE  ReaderInv'
    <2>1. video[v] \in Rows /\ video[v] # Null
      BY <1>2 DEF FindPublished, LifecycleInv, TypeOK, Opt
    <2> DEFINE new == [phase |-> "viewed", caller |-> caller, video |-> v,
                       view |-> ReadyView(video[v]),
                       viewVersion |-> video[v].version, metadata |-> Null,
                       hasLiked |-> Null, likeCount |-> Null]
    <2>2. read' = new /\ read.phase = "idle"
      BY <1>2 DEF FindPublished, NotRead
    <2>3. UNCHANGED <<video, moved, likeVars>>
      BY <1>2 DEF FindPublished, vars
    <2>4. ReadyView(video[v]) \in [status : VideoStatuses, stage : [Stages -> StageStatuses]]
      BY <2>1 DEF ReadyView, Rows
    <2>6. read' \in Reads
      BY <2>1, <2>2, <2>4 DEF Reads, Opt, Rows
    <2>7. ViewHolds'
      BY <2>1, <2>2, <2>3 DEF ViewHolds, Rows
    <2>8. AnswerMovesForward' /\ LikesAreCounted' /\ LikeHolds'
      BY <2>2, <2>3 DEF AnswerMovesForward, LikesAreCounted, LikeHolds, likeVars
    <2> QED
      BY <2>6, <2>7, <2>8
  <1>3. CASE GetMetadata
    <2> DEFINE v == read.video
    <2>1. v \in Videos /\ video[v] \in Rows
      BY <1>3 DEF GetMetadata, ViewHolds, LifecycleInv, TypeOK, Opt
    <2>2. /\ read' = [read EXCEPT !.phase = "described",
                                  !.metadata = Metadata(video[v])]
          /\ UNCHANGED <<video, moved, likeVars>>
      BY <1>3 DEF GetMetadata, vars
    <2>3. Metadata(video[v]) \in [status : VideoStatuses,
                                  stage : [Stages -> StageStatuses], version : Nat]
      BY <2>1 DEF Metadata, Rows
    <2>4. read' \in Reads
      BY <2>2, <2>3 DEF Reads, Opt
    <2>5. /\ read'.phase = "described" /\ read'.video = v
          /\ read'.view = read.view /\ read'.viewVersion = read.viewVersion
          /\ read'.metadata = Metadata(video[v])
      BY <2>2 DEF Reads
    <2>6. ViewHolds'
      BY <1>3, <2>2, <2>5 DEF ViewHolds, GetMetadata
    <2>7. AnswerMovesForward'
      BY <1>3, <2>1, <2>5 DEF ViewHolds, GetMetadata, AnswerMovesForward,
         Metadata, ReadyView, Rows
    <2>8. LikesAreCounted' /\ LikeHolds'
      BY <1>3, <2>2, <2>5 DEF LikesAreCounted, LikeHolds, GetMetadata, likeVars
    <2> QED
      BY <2>4, <2>6, <2>7, <2>8
  <1>4. CASE GetUserState
    <2> DEFINE v == read.video
               has == read.caller # "anonymous" /\ read.caller \in liked[v]
    <2>1. v \in Videos /\ has \in BOOLEAN
      BY <1>4 DEF GetUserState, ViewHolds
    <2>2. /\ read' = [read EXCEPT !.phase = "personal", !.hasLiked = has]
          /\ UNCHANGED <<video, moved, likeVars>>
      BY <1>4 DEF GetUserState, vars
    <2>3. has = TRUE => read.caller \in liked[v]
      OBVIOUS
    <2> HIDE DEF has
    <2>4. read' \in Reads
      BY <2>1, <2>2 DEF Reads, Opt
    <2>5. /\ read'.phase = "personal" /\ read'.video = v
          /\ read'.view = read.view /\ read'.viewVersion = read.viewVersion
          /\ read'.metadata = read.metadata /\ read'.hasLiked = has
          /\ read'.caller = read.caller
      BY <2>2 DEF Reads
    <2>6. ViewHolds' /\ AnswerMovesForward'
      BY <1>4, <2>2, <2>5 DEF ViewHolds, GetUserState, AnswerMovesForward
    <2>7. LikesAreCounted' /\ LikeHolds'
      BY <1>4, <2>1, <2>2, <2>3, <2>5 DEF LikesAreCounted, LikeHolds, likeVars
    <2> QED
      BY <2>4, <2>6, <2>7
  <1>5. CASE GetStats
    <2> DEFINE v == read.video
    <2>1. v \in Videos
      BY <1>5 DEF GetStats, ViewHolds
    <2>2. /\ read' = [read EXCEPT !.phase = "answered", !.likeCount = likes[v]]
          /\ UNCHANGED <<video, moved, likeVars>>
      BY <1>5 DEF GetStats, vars
    <2>3. likes[v] \in Nat /\ (~crossed[v] /\ liked[v] # {} => likes[v] > 0)
      <3>1. liked[v] \in SUBSET Viewers /\ likes[v] \in Nat
        BY <2>1 DEF LikesAreCounted
      <3>2. IsFiniteSet(liked[v])
        BY <3>1, ViewersAssumption, FS_Subset
      <3>3. Cardinality(liked[v]) = 0 <=> liked[v] = {}
        BY <3>2, FS_EmptySet
      <3> QED
        BY <2>1, <3>1, <3>3 DEF LikesAreCounted
    <2>4. read' \in Reads
      BY <2>2, <2>3 DEF Reads, Opt
    <2>5. /\ read'.phase = "answered" /\ read'.video = v
          /\ read'.view = read.view /\ read'.viewVersion = read.viewVersion
          /\ read'.metadata = read.metadata /\ read'.hasLiked = read.hasLiked
          /\ read'.likeCount = likes[v]
      BY <2>2 DEF Reads
    <2>6. ViewHolds' /\ AnswerMovesForward'
      BY <1>5, <2>2, <2>5 DEF ViewHolds, GetStats, AnswerMovesForward
    <2>7. LikesAreCounted' /\ LikeHolds'
      BY <1>5, <2>1, <2>2, <2>3, <2>5 DEF LikesAreCounted, LikeHolds, GetStats, likeVars
    <2> QED
      BY <2>4, <2>6, <2>7
  <1>6. CASE Return
    <2>1. read' = NotRead /\ moved' = FALSE /\ UNCHANGED likeVars
      BY <1>6 DEF Return
    <2>2. read' \in Reads
      BY <2>1 DEF Reads, NotRead, Opt
    <2>3. ViewHolds' /\ AnswerMovesForward' /\ LikesAreCounted' /\ LikeHolds'
      BY <2>1 DEF ViewHolds, AnswerMovesForward, LikesAreCounted, LikeHolds,
         NotRead, likeVars
    <2> QED
      BY <2>2, <2>3
  <1>7. ASSUME NEW w \in Likers, CommitLike(w) PROVE ReaderInv'
    <2> DEFINE m == liking[w]
    <2>1. UNCHANGED <<video, read>>
      BY <1>7 DEF CommitLike, vars
    <2>2. ViewHolds' /\ AnswerMovesForward' /\ read' \in Reads
      BY <2>1 DEF ViewHolds, AnswerMovesForward
    <2>3. LikesAreCounted' /\ \A v \in Videos : crossed[v] => crossed'[v]
      BY <1>7, CommitKeepsCount
    <2>4. /\ liked' = [liked EXCEPT ![m.video] =
                          IF m.on THEN @ \cup {m.viewer} ELSE @ \ {m.viewer}]
          /\ moved' = (\/ moved
                       \/ /\ read.phase = "personal"
                          /\ <<read.video, read.caller>> = <<m.video, m.viewer>>
                          /\ ~m.on)
      BY <1>7 DEF CommitLike
    <2> HIDE DEF m
    <2>5. moved' \in BOOLEAN /\ (~moved' => ~moved)
      BY <2>4 DEF LikeHolds
    <2>6. ASSUME read.phase = "personal", ~moved', read.hasLiked = TRUE
          PROVE  read.caller \in liked'[read.video]
      <3>1. read.caller \in liked[read.video] /\ read.video \in Videos
        BY <2>5, <2>6 DEF LikeHolds, ViewHolds
      <3>2. CASE read.video = m.video
        <4>1. m.on \/ m.viewer # read.caller
          BY <2>4, <2>6, <3>2
        <4> QED
          BY <2>4, <3>1, <3>2, <4>1 DEF LikesAreCounted
      <3>3. CASE read.video # m.video
        BY <2>4, <3>1, <3>3 DEF LikesAreCounted
      <3> QED
        BY <3>2, <3>3
    <2>7. LikeHolds'
      BY <2>1, <2>3, <2>5, <2>6 DEF LikeHolds, ViewHolds
    <2> QED
      BY <2>2, <2>3, <2>7
  <1>8. ASSUME NEW w \in Likers,
               \/ ForgetLike(w)
               \/ \E v \in Videos, u \in Viewers, on \in BOOLEAN : ReadFlag(w, v, u, on)
        PROVE  ReaderInv'
    <2>1. UNCHANGED <<video, read, moved, liked, likes, crossed>>
      BY <1>8 DEF ForgetLike, ReadFlag, vars
    <2>2. PICK m \in Opt(LikeMessages) : liking' = [liking EXCEPT ![w] = m]
      <3>1. CASE ForgetLike(w)
        BY <3>1 DEF ForgetLike, Opt
      <3>2. CASE \E v \in Videos, u \in Viewers, on \in BOOLEAN : ReadFlag(w, v, u, on)
        <4> PICK v \in Videos, u \in Viewers, on \in BOOLEAN : ReadFlag(w, v, u, on)
          BY <3>2
        <4> DEFINE n == [video |-> v, viewer |-> u, on |-> on, had |-> u \in liked[v]]
        <4>1. liking' = [liking EXCEPT ![w] = n]
          BY DEF ReadFlag
        <4>2. n \in Opt(LikeMessages)
          BY DEF LikeMessages, Opt
        <4> HIDE DEF n
        <4> QED
          BY <4>1, <4>2
      <3> QED
        BY <1>8, <3>1, <3>2
    <2>3. liking' \in [Likers -> Opt(LikeMessages)]
      BY <2>2 DEF LikesAreCounted
    <2> QED
      BY <2>1, <2>3 DEF ViewHolds, AnswerMovesForward, LikesAreCounted, LikeHolds
  <1> HIDE DEF ReaderInv
  <1>9. CASE UNCHANGED detailVars
    BY <1>1, <1>9 DEF detailVars
  <1>10. CASE DetailsNext
    BY <1>1, <1>2, <1>3, <1>4, <1>5, <1>6, <1>7, <1>8, <1>10 DEF DetailsNext, ReadersOnly
  <1> QED
    BY <1>9, <1>10

(* The inductive invariant of a call beside any number of writers. *)
THEOREM ReaderInvariant == DetailsSpec => []ReaderInv
  <1> DEFINE Rest == /\ read \in Reads /\ ViewHolds /\ AnswerMovesForward
                     /\ LikesAreCounted /\ LikeHolds
  <1>1. DetailsInit => Rest
    <2> SUFFICES ASSUME DetailsInit PROVE Rest
      OBVIOUS
    <2>1. read \in Reads
      BY DEF DetailsInit, NotRead, Reads, Opt
    <2>2. read.phase = "idle" /\ read.metadata = Null /\ moved = FALSE
      BY DEF DetailsInit, NotRead
    <2>3. LikesAreCounted
      BY FS_EmptySet DEF DetailsInit, LikesAreCounted, Opt
    <2> QED
      BY <2>1, <2>2, <2>3 DEF ViewHolds, AnswerMovesForward, LikeHolds
  <1>2. ReaderInv /\ [DetailsNext]_detailVars /\ LifecycleInv' => ReaderInv'
    BY ReadStep
  <1>3. DetailsSpec => []LifecycleInv
    BY DetailsIsLifecycle, LifecycleInvariant, PTL
  <1>4. LifecycleInv /\ Rest => ReaderInv
    BY DEF ReaderInv
  <1> HIDE DEF Rest
  <1> QED
    BY <1>1, <1>2, <1>3, <1>4, PTL DEF DetailsSpec

(* However many writers commit between its SELECTs, the metadata of an     *)
(* answer of GetVideoDetail is not older than its view, and the two agree  *)
(* when they carry one version.                                            *)
THEOREM AnswerTheorem == DetailsSpec => []AnswerMovesForward
  <1>1. ReaderInv => AnswerMovesForward
    BY DEF ReaderInv
  <1> QED
    BY <1>1, ReaderInvariant, PTL

(* The like an answer shows is among those it counts, unless it was taken  *)
(* back between the two SELECTs or a message crossed another.              *)
THEOREM LikeTheorem == DetailsSpec => []LikeIsCountedUnlessMoved
  <1>1. ReaderInv => LikeIsCountedUnlessMoved
    <2> SUFFICES ASSUME ReaderInv, read.phase = "answered", read.hasLiked, ~moved,
                        ~crossed[read.video]
                 PROVE  read.likeCount > 0
      BY DEF LikeIsCountedUnlessMoved
    <2>1. read.hasLiked \in BOOLEAN
      BY DEF ReaderInv, LikeHolds
    <2>2. read.hasLiked = TRUE
      BY <2>1
    <2> QED
      BY <2>2 DEF ReaderInv, LikeHolds
  <1> QED
    BY <1>1, ReaderInvariant, PTL

-----------------------------------------------------------------------------
(* A published video stays served.                                         *)

(* Update u, decided from cur, does not take a published video back. *)
StaysServed(cur, u) ==
    cur.status = "published" =>
        \/ u.status \in {Null, "published", "archived", "rejected"}
        \/ \E s \in Stages : Coalesce(u.stage[s], cur.stage[s]) = "failed"

(* Recomputed, a published video fails or stays as it is. *)
LEMMA RecomputeKeepsPublished ==
    ASSUME NEW cur, NEW stage, NEW latest,
           cur.status = "published", latest # "failed"
    PROVE  StatusChange(cur, stage, latest) = Null
  BY DEF StatusChange, ComputeOverallStatus

(* A stage update whose status was recomputed from the stage it reports. *)
LEMMA StageUpdateKeepsServed ==
    ASSUME NEW cur, NEW s \in Stages, NEW u, NEW latest,
           u.status = StatusChange(cur, [cur.stage EXCEPT ![s] = latest], latest),
           latest = Coalesce(u.stage[s], cur.stage[s])
    PROVE  StaysServed(cur, u)
  BY RecomputeKeepsPublished DEF StaysServed

(* What every operation decides leaves a published video served. *)
LEMMA StartRequestKeepsServed ==
    ASSUME TypeOK, NEW r \in Requests, NEW v \in Videos, video[v] # Null,
           StartRequest(r, v)
    PROVE  \E op, expected, u :
              /\ Prepare(r, op, v, video[v], expected, u)
              /\ StaysServed(video[v], PublishDefaults(u, video[v]))
  <1> DEFINE cur == video[v]
             Done == \E op, expected, u :
                        /\ Prepare(r, op, v, cur, expected, u)
                        /\ StaysServed(cur, PublishDefaults(u, cur))
  <1>1. cur \in Rows
    BY DEF TypeOK, Opt
  <1>2. /\ NoChange \in Updates
        /\ NoChange.status = Null
        /\ \A s \in Stages : NoChange.stage[s] = Null
    BY NoChangeType DEF NoChange, NoStage
  <1>3. Null # "published"
    BY DEF VideoStatuses
  <1>4. ASSUME NEW expected, NEW original \in Originals,
               UpdateOriginalMedia(r, v, original, expected)
        PROVE  Done
    <2> DEFINE u == [NoChange EXCEPT !.original = original]
    <2>1. Prepare(r, "original", v, cur, expected, u)
      BY <1>4 DEF UpdateOriginalMedia
    <2>2. u.status = Null
      BY <1>2 DEF Updates
    <2> HIDE DEF u
    <2>3. PublishDefaults(u, cur) = u /\ StaysServed(cur, u)
      BY <1>3, <2>2, NoDefaultsUnpublished DEF StaysServed
    <2> QED
      BY <2>1, <2>3
  <1>5. ASSUME NEW expected, NEW op, NEW s \in Stages, NEW new, NEW latest,
               NEW job, NEW emitted, NEW stage, NEW st, NEW u \in Updates,
               latest = Coalesce(new, cur.stage[s]),
               stage = [cur.stage EXCEPT ![s] = latest],
               st = StatusChange(cur, stage, latest),
               Prepare(r, op, v, cur, expected,
                       [u EXCEPT !.status = st, !.stage[s] = new,
                                 !.job[s] = job, !.emitted[s] = emitted])
        PROVE  Done
    <2> DEFINE w == [u EXCEPT !.status = st, !.stage[s] = new,
                              !.job[s] = job, !.emitted[s] = emitted]
    <2>1. w.status = st /\ w.stage[s] = new
      BY DEF Updates
    <2>2. Prepare(r, op, v, cur, expected, w)
      BY <1>5
    <2> HIDE DEF w
    <2>3. st # "published"
      BY <1>5, RecomputeNeverPublishes
    <2>4. PublishDefaults(w, cur) = w
      BY <2>1, <2>3, NoDefaultsUnpublished
    <2>5. /\ w.status = StatusChange(cur, [cur.stage EXCEPT ![s] = latest], latest)
          /\ latest = Coalesce(w.stage[s], cur.stage[s])
      BY <1>5, <2>1
    <2>6. StaysServed(cur, w)
      BY <2>5, StageUpdateKeepsServed
    <2> QED
      BY <2>2, <2>4, <2>6
  <1>6. ASSUME NEW expected, NEW s \in Stages, NEW new \in StageStatuses,
               NEW job, NEW emitted, NEW expectedStatus,
               UpdateProcessingStatus(r, v, s, new, job, emitted,
                                      expectedStatus, expected)
        PROVE  Done
    <2> DEFINE stage == [cur.stage EXCEPT ![s] = new]
               st == StatusChange(cur, stage, new)
    <2>1. Prepare(r, "report", v, cur, expected,
                  [NoChange EXCEPT !.status = st, !.stage[s] = new,
                                   !.job[s] = job, !.emitted[s] = emitted])
      BY <1>6 DEF UpdateProcessingStatus
    <2>2. new = Coalesce(new, cur.stage[s])
      BY DEF Coalesce
    <2>3. stage = [cur.stage EXCEPT ![s] = new] /\ st = StatusChange(cur, stage, new)
      OBVIOUS
    <2> HIDE DEF stage, st, cur, Done
    <2> QED
      BY <1>2, <1>5, <2>1, <2>2, <2>3
  <1>7. ASSUME NEW expected, NEW op, NEW s \in Stages,
               NEW new \in Opt(StageStatuses), NEW job, NEW emitted,
               NEW u \in Updates,
               StageProduct(r, op, v, s, new, job, emitted, expected, u)
        PROVE  Done
    <2> DEFINE latest == Coalesce(new, cur.stage[s])
               stage == [cur.stage EXCEPT ![s] = latest]
               st == StatusChange(cur, stage, latest)
               when == IF emitted = ZeroTime THEN Null ELSE emitted
    <2>1. [cur.stage EXCEPT ![s] = Coalesce(new, @)] = stage /\ stage[s] = latest
      BY <1>1 DEF Rows
    <2>2. Prepare(r, op, v, cur, expected,
                  [u EXCEPT !.status = st, !.stage[s] = new,
                            !.job[s] = job, !.emitted[s] = when])
      BY <1>7, <2>1 DEF StageProduct
    <2>3. /\ latest = Coalesce(new, cur.stage[s])
          /\ stage = [cur.stage EXCEPT ![s] = latest]
          /\ st = StatusChange(cur, stage, latest)
      OBVIOUS
    <2> HIDE DEF latest, stage, st, when, cur, Done
    <2> QED
      BY <1>5, <2>2, <2>3
  <1>8. ASSUME NEW expected, NEW new \in Opt(StageStatuses), NEW job, NEW emitted,
               NEW output \in Opt(Outputs), NEW encoded \in Opt(Encodings),
               UpdateMediaInfo(r, v, new, job, emitted, output, encoded, expected)
        PROVE  Done
    <2> DEFINE u == [NoChange EXCEPT !.output["media"] = output, !.encoded = encoded]
    <2>1. u \in Updates /\ \A t \in Stages : u.stage[t] = Null
      BY ZenonT(40), <1>2 DEF Updates, Opt, Stages
    <2>2. StageProduct(r, "media_info", v, "media", new, job, emitted, expected, u)
      BY <1>8 DEF UpdateMediaInfo
    <2> HIDE DEF u, Done
    <2> QED
      BY <1>7, <2>1, <2>2 DEF Stages
  <1>9. ASSUME NEW expected, NEW new \in Opt(StageStatuses), NEW job, NEW emitted,
               NEW output \in Opt(Outputs), NEW tags \in Opt(Tags),
               UpdateAIAttributes(r, v, new, job, emitted, output, tags, expected)
        PROVE  Done
    <2> DEFINE u == [NoChange EXCEPT !.output["analysis"] = output, !.tags = tags]
    <2>1. u \in Updates /\ \A t \in Stages : u.stage[t] = Null
      BY ZenonT(40), <1>2 DEF Updates, Opt, Stages
    <2>2. StageProduct(r, "ai", v, "analysis", new, job, emitted, expected, u)
      BY <1>9 DEF UpdateAIAttributes
    <2> HIDE DEF u, Done
    <2> QED
      BY <1>7, <2>1, <2>2 DEF Stages
  <1>10. ASSUME NEW expected, NEW target \in {"published", "rejected", "archived"},
                UpdateVisibility(r, v, target, expected)
         PROVE  Done
    <2> DEFINE vis == IF cur.visibility # (IF target = "published" THEN "public"
                                           ELSE "private")
                      THEN IF target = "published" THEN "public" ELSE "private"
                      ELSE Null
               u == [NoChange EXCEPT !.status = target, !.visibility = vis]
    <2>1. Prepare(r, "visibility", v, cur, expected, u)
      BY <1>10 DEF UpdateVisibility
    <2>2. u \in Updates /\ u.status = target
      <3>1. target \in Opt(VideoStatuses) /\ vis \in Opt(Visibilities)
        BY DEF Opt, VideoStatuses, Visibilities
      <3> HIDE DEF vis
      <3> QED
        BY <1>2, <3>1 DEF Updates
    <2> HIDE DEF u
    <2>3. PublishDefaults(u, cur).status = target
      BY <2>2 DEF PublishDefaults, Updates
    <2>4. StaysServed(cur, PublishDefaults(u, cur))
      BY <2>3 DEF StaysServed
    <2> QED
      BY <2>1, <2>4
  <1> HIDE DEF Done
  <1>11. Done
    BY <1>4, <1>6, <1>8, <1>9, <1>10 DEF StartRequest
  <1> QED
    BY <1>11 DEF Done

(* What request r holds leaves its video served, while it is still the row  *)
(* of the snapshot.                                                        *)
KeepsServed(r) == ~Stale(r) => StaysServed(video[req[r].video], req[r].changes)

FreshDecisionsKeepServed ==
    \A r \in Requests : req[r].phase # "idle" => KeepsServed(r)

LEMMA PreparedKeepsServed ==
    ASSUME TypeOK, NEW r \in Requests, NEW op, NEW v, NEW cur, NEW expected, NEW u,
           Prepare(r, op, v, cur, expected, u), video'[v] = cur,
           StaysServed(cur, PublishDefaults(u, cur))
    PROVE  KeepsServed(r)'
  <1>1. req'[r].video = v /\ req'[r].changes = PublishDefaults(u, cur)
    BY DEF Prepare, TypeOK
  <1> QED
    BY <1>1 DEF KeepsServed

(* A step that leaves the request alone leaves its row alone, too, or makes *)
(* the request stale.                                                      *)
LEMMA HeldKeepsServed ==
    ASSUME LifecycleInv, [Next]_vars, NEW r \in Requests, req[r].phase # "idle",
           req'[r].video = req[r].video, req'[r].base = req[r].base,
           req'[r].changes = req[r].changes, KeepsServed(r)
    PROVE  KeepsServed(r)'
  <1> DEFINE v == req[r].video
  <1>1. InFlight(r)
    BY DEF LifecycleInv, RequestsInFlight
  <1>2. v \in Videos /\ video[v] # Null /\ req[r].base <= video[v].version
    BY <1>1 DEF InFlight
  <1>3. CASE video'[v] = video[v]
    BY <1>3 DEF KeepsServed, Stale
  <1>4. CASE video[v] \in Rows /\ video'[v].version = video[v].version + 1
    <2>1. video[v].version \in Nat /\ req[r].base \in Nat
      BY <1>1, <1>4 DEF Rows, InFlight
    <2>2. req'[r].base # video'[v].version
      BY <1>2, <1>4, <2>1
    <2> QED
      BY <2>2 DEF KeepsServed, Stale
  <1> QED
    BY <1>2, <1>3, <1>4, RowStep

LEMMA ServedStep ==
    ASSUME LifecycleInv, FreshDecisionsKeepServed, [Next]_vars
    PROVE  FreshDecisionsKeepServed'
  <1> USE DEF LifecycleInv
  <1> SUFFICES ASSUME NEW q \in Requests, req'[q].phase # "idle"
               PROVE  KeepsServed(q)'
    BY DEF FreshDecisionsKeepServed
  <1>1. ASSUME req'[q] = req[q] PROVE KeepsServed(q)'
    BY <1>1, HeldKeepsServed DEF FreshDecisionsKeepServed
  <1>2. ASSUME NEW r \in Requests, NEW op, NEW v, NEW cur, NEW expected, NEW u,
               Prepare(r, op, v, cur, expected, u), video'[v] = cur,
               StaysServed(cur, PublishDefaults(u, cur))
        PROVE  KeepsServed(q)'
    <2>1. CASE q = r
      BY <1>2, <2>1, PreparedKeepsServed
    <2>2. CASE q # r
      BY <1>1, <1>2, <2>2 DEF Prepare, TypeOK
    <2> QED
      BY <2>1, <2>2
  <1>3. ASSUME NEW r \in Requests, NEW v \in Videos, NEW size \in Opt(Originals),
               FinalizeUpload(r, v, size)
        PROVE  KeepsServed(q)'
    <2>1. CASE video[v] = Null
      <3> DEFINE cur == NewVideoRow(clock)
      <3>1. PICK u : Prepare(r, "upload", v, cur, Null, u)
        BY <1>3, <2>1 DEF FinalizeUpload
      <3>2. video'[v] = cur
        BY <1>3, <2>1 DEF FinalizeUpload, CreateVideo, TypeOK
      <3>3. StaysServed(cur, PublishDefaults(u, cur))
        BY DEF StaysServed, NewVideoRow
      <3> QED
        BY <1>2, <3>1, <3>2, <3>3
    <2>2. CASE video[v] # Null
      <3> DEFINE cur == video[v]
                 u == [NoChange EXCEPT !.original = size]
      <3>1. Prepare(r, "upload", v, cur, Null, u) /\ video'[v] = cur
        BY <1>3, <2>2 DEF FinalizeUpload
      <3>2. u.status = Null
        BY DEF NoChange
      <3> HIDE DEF u
      <3>3. u.status # "published"
        BY <3>2 DEF VideoStatuses
      <3>4. StaysServed(cur, PublishDefaults(u, cur))
        BY <3>2, <3>3, NoDefaultsUnpublished DEF StaysServed
      <3> QED
        BY <1>2, <3>1, <3>4
    <2> QED
      BY <2>1, <2>2
  <1>4. ASSUME NEW r \in Requests, NEW v \in Videos, video[v] # Null,
               StartRequest(r, v)
        PROVE  KeepsServed(q)'
    <2>1. PICK op, expected, u :
             /\ Prepare(r, op, v, video[v], expected, u)
             /\ StaysServed(video[v], PublishDefaults(u, video[v]))
      BY <1>4, StartRequestKeepsServed
    <2>2. video'[v] = video[v]
      BY <1>4, StartRequestType
    <2> QED
      BY <1>2, <2>1, <2>2
  <1>5. ASSUME NEW r \in Requests, Begin(r)
        PROVE  KeepsServed(q)'
    <2>1. CASE q = r
      <3>1. /\ req[q].phase # "idle"
            /\ req'[q].video = req[q].video /\ req'[q].base = req[q].base
            /\ req'[q].changes = req[q].changes
        BY <1>5, <2>1 DEF Begin, TypeOK, RequestStates
      <3> QED
        BY <3>1, HeldKeepsServed DEF FreshDecisionsKeepServed
    <2>2. CASE q # r
      BY <1>1, <1>5, <2>2 DEF Begin, TypeOK
    <2> QED
      BY <2>1, <2>2
  <1>6. ASSUME NEW r \in Requests, Commit(r) \/ Abort(r)
        PROVE  KeepsServed(q)'
    <2>1. req' = [req EXCEPT ![r] = IdleRequest]
      BY <1>6 DEF Commit, Abort
    <2>2. q # r
      BY <2>1 DEF TypeOK, IdleRequest
    <2> QED
      BY <1>1, <2>1, <2>2 DEF TypeOK
  <1>7. ASSUME UNCHANGED req PROVE KeepsServed(q)'
    BY <1>1, <1>7
  <1> QED
    BY <1>3, <1>4, <1>5, <1>6, <1>7 DEF Next, RegisterUpload, Tick, vars

(* A step that takes a published video from the readers: it was taken down, *)
(* a stage failed, or the step commits what was decided from an outdated   *)
(* row.                                                                    *)
LEMMA PublishedStep ==
    ASSUME LifecycleInv, FreshDecisionsKeepServed, [Next]_vars,
           NEW v \in Videos, video[v] # Null, video[v].status = "published"
    PROVE  \/ Served(video'[v])
           \/ video'[v].status \in {"archived", "rejected"}
           \/ \E s \in Stages : video'[v].stage[s] = "failed"
           \/ \E r \in Requests : StaleDecision(r, v)
  <1>1. CASE video'[v] = video[v]
    BY <1>1 DEF Served
  <1>2. ASSUME NEW r \in Requests, Commit(r), req[r].video = v,
               video'[v] = NextRow(r), ~StaleDecision(r, v)
        PROVE  \/ Served(video'[v])
               \/ video'[v].status \in {"archived", "rejected"}
               \/ \E s \in Stages : video'[v].stage[s] = "failed"
    <2> DEFINE u == req[r].changes
    <2>1. req[r].phase = "open" /\ req'[r].phase = "idle"
      BY <1>2 DEF Commit, IdleRequest, LifecycleInv, TypeOK
    <2>2. ~Stale(r) \/ ~DecidesStatus(u)
      BY <1>2, <2>1 DEF StaleDecision
    <2>3. ~Stale(r) => StaysServed(video[v], u)
      BY <1>2, <2>1 DEF FreshDecisionsKeepServed, KeepsServed
    <2>4. /\ video'[v].status = Coalesce(u.status, "published")
          /\ \A s \in Stages :
                video'[v].stage[s] = Coalesce(u.stage[s], video[v].stage[s])
      BY <1>2 DEF NextRow, UpdateVideoRow
    <2> HIDE DEF u
    <2>5. CASE ~DecidesStatus(u)
      BY <2>4, <2>5 DEF DecidesStatus, Coalesce, Served
    <2>6. CASE StaysServed(video[v], u)
      BY <2>4, <2>6 DEF StaysServed, Served, Coalesce
    <2> QED
      BY <2>2, <2>3, <2>5, <2>6
  <1> QED
    BY <1>1, <1>2, RowStep

(* The decisions in flight keep published videos served while fresh.       *)
THEOREM DecisionsTheorem == Spec => []FreshDecisionsKeepServed
  <1>1. Init => FreshDecisionsKeepServed
    BY DEF Init, FreshDecisionsKeepServed, IdleRequest
  <1>2. LifecycleInv /\ FreshDecisionsKeepServed /\ [Next]_vars => FreshDecisionsKeepServed'
    BY ServedStep
  <1> QED
    BY <1>1, <1>2, LifecycleInvariant, PTL DEF Spec

(* With any number of callers, a published video stays available to        *)
(* GetVideoDetail until it is taken down, a stage of it fails, or a        *)
(* decision taken from an outdated row is committed on it.                 *)
THEOREM ServedUnlessRacedTheorem == DetailsSpec => PublishedStaysServedUnlessRaced
  <1>1. LifecycleInv /\ FreshDecisionsKeepServed /\ [Next]_vars =>
          [\A v \in Videos :
              video[v] # Null /\ video[v].status = "published" =>
                  \/ Served(video'[v])
                  \/ video'[v].status \in {"archived", "rejected"}
                  \/ \E s \in Stages : video'[v].stage[s] = "failed"
                  \/ \E r \in Requests : StaleDecision(r, v)]_video
    BY PublishedStep
  <1> QED
    BY <1>1, DetailsIsLifecycle, LifecycleInvariant, DecisionsTheorem, PTL
       DEF Spec, PublishedStaysServedUnlessRaced

(* When requests do not overlap, only the first two are left.              *)
THEOREM ServedTheorem ==
    ASSUME \A p, q \in Requests : p = q
    PROVE  DetailsSpec => PublishedStaysServed
  <1>1. LifecycleInv /\ NothingRaces /\ FreshDecisionsKeepServed /\ [Next]_vars =>
          [\A v \in Videos :
              video[v] # Null /\ video[v].status = "published" =>
                  \/ Served(video'[v])
                  \/ video'[v].status \in {"archived", "rejected"}
                  \/ \E s \in Stages : video'[v].stage[s] = "failed"]_video
    <2>1. NothingRaces => \A r \in Requests, v \in Videos : ~StaleDecision(r, v)
      BY DEF NothingRaces, StaleDecision
    <2> QED
      BY <2>1, PublishedStep
  <1> QED
    BY <1>1, DetailsIsLifecycle, LifecycleInvariant, NothingRacesTheorem,
       DecisionsTheorem, PTL DEF Spec, PublishedStaysServed
=============================================================================
