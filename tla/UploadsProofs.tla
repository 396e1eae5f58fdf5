---------------------------- MODULE UploadsProofs ----------------------------
(* Theorems about Uploads, for any number of sessions, calls, workers and  *)
(* messages, however they are interleaved and whatever fails.              *)
EXTENDS Uploads, FiniteSetTheorems, TLAPS

USE ConstantsAssumption

-----------------------------------------------------------------------------
(* The inductive invariant.                                                *)

SessionTypes ==
    /\ uploads \in [Keys -> Opt(Sessions)]
    /\ inits \in [Inits -> Opt(Calls)]
    /\ named \in [Keys -> SUBSET Videos]
    /\ issued \in [Keys -> SUBSET Videos]
    /\ \A k \in Keys : issued[k] \subseteq named[k]
    /\ store \in [Videos -> Opt(Finalized)]
    /\ notices \in [Notices -> Opt(Videos)]
    /\ processed \subseteq Notices
    /\ worker \in [Workers -> WorkerStates]

(* What a session says was handed out to its clients, and whoever holds a  *)
(* URL has a session.                                                      *)
Owned ==
    \A k \in Keys :
        /\ uploads[k] # Null =>
              uploads[k].video \in named[k] /\ uploads[k].object \in named[k]
        /\ named[k] # {} => uploads[k] # Null

(* Objects and videos of one session are not those of another. *)
Apart == \A j, k \in Keys : j # k => named[j] \cap named[k] = {}

(* A call in flight holds ids of its own session, or fresh ones, and a     *)
(* session to come is opened under the id its object is named by.          *)
Decided ==
    \A i \in Inits : inits[i] # Null =>
        /\ \A k \in Keys \ {inits[i].key} :
              inits[i].video \notin named[k] /\ inits[i].object \notin named[k]
        /\ inits[i].video = inits[i].object \/ uploads[inits[i].key] # Null

DecidedApart ==
    \A i, j \in Inits :
        inits[i] # Null /\ inits[j] # Null /\ inits[i].key # inits[j].key =>
            {inits[i].video, inits[i].object} \cap {inits[j].video, inits[j].object} = {}

(* A client was given what is in the bucket, and a message is about that. *)
Told ==
    /\ \A o \in Videos : store[o] # Null => \E k \in Keys : o \in issued[k]
    /\ \A n \in Notices : notices[n] # Null => store[notices[n]] # Null
    /\ \A n \in processed : notices[n] # Null

(* What a worker in state x has in hand. *)
InHand(x) ==
    x.phase # "idle" =>
        /\ x.notice \in Notices
        /\ notices[x.notice] # Null
        /\ x.key # Null =>
              /\ uploads[x.key] # Null
              /\ x.row \in Sessions
              /\ notices[x.notice] \in named[x.key]
        /\ x.mark # Null \/ x.phase # "done" => x.key # Null

(* The only object of session k is the one message n is about, and it has  *)
(* the content the session is for.                                         *)
OnlyMatch(n, k) == named[k] = {notices[n]} /\ store[notices[n]].md5 # "other"

(* A worker that handles such a message is on its way to complete the      *)
(* session, or has found it completed.                                     *)
OnItsWay(x) ==
    \A k \in Keys : x.phase # "idle" /\ OnlyMatch(x.notice, k) =>
        /\ x.key = k
        /\ x.phase # "mismatched"
        /\ x.mark # "failed"
        /\ \/ x.phase = "matched"
           \/ x.mark = "completed"
           \/ uploads[k].status = "completed"

AtWork == \A w \in Workers : InHand(worker[w]) /\ OnItsWay(worker[w])

Acknowledged ==
    \A n \in processed, k \in Keys :
        OnlyMatch(n, k) => uploads[k].status = "completed"

UploadsInv ==
    /\ SessionTypes
    /\ Owned /\ Apart /\ Decided /\ DecidedApart
    /\ Told /\ AtWork /\ Acknowledged

-----------------------------------------------------------------------------
(* InitResumableUpload.                                                    *)

LEMMA LookupKeepsInv ==
    ASSUME UploadsInv, NEW i \in Inits, NEW k \in Keys, LookupSession(i, k)
    PROVE  UploadsInv'
  <1>1. /\ UNCHANGED <<uploads, named, issued, store, notices, processed, worker>>
        /\ inits[i] = Null
        /\ SessionTypes
    BY DEF LookupSession, UploadsInv, gcsVars
  <1>2. PICK v \in Videos, o \in Videos :
           /\ inits' = [inits EXCEPT ![i] = [key |-> k, video |-> v, object |-> o]]
           /\ \/ uploads[k] = Null /\ v = o /\ v \in NewIds
              \/ uploads[k] # Null /\ v = uploads[k].video /\ o = uploads[k].object
    <2>1. CASE uploads[k] = Null
      BY <2>1 DEF LookupSession, NewIds
    <2>2. CASE uploads[k] # Null
      <3>1. uploads[k].video \in Videos /\ uploads[k].object \in Videos
        BY <1>1, <2>2 DEF SessionTypes, Opt, Sessions
      <3> QED
        BY <2>2, <3>1 DEF LookupSession
    <2> QED
      BY <2>1, <2>2
  <1> DEFINE call == [key |-> k, video |-> v, object |-> o]
  <1>3. /\ call \in Calls /\ call # Null
        /\ call.key = k /\ call.video = v /\ call.object = o
    BY DEF Calls
  <1> HIDE DEF call
  <1>4. /\ inits'[i] = call
        /\ \A j \in Inits : j # i => inits'[j] = inits[j]
        /\ inits' \in [Inits -> Opt(Calls)]
    BY <1>1, <1>2, <1>3 DEF SessionTypes, Opt, call
  <1>5. SessionTypes'
    BY <1>1, <1>4 DEF SessionTypes
  <1>6. Owned' /\ Apart' /\ Told'
    BY <1>1 DEF UploadsInv, Owned, Apart, Told
  <1>7. AtWork' /\ Acknowledged'
    BY <1>1 DEF UploadsInv, AtWork, InHand, OnItsWay, Acknowledged, OnlyMatch
  (* The ids are those of the session, or in nobody's hands.                *)
  <1>8. ASSUME NEW j \in Keys, j # k PROVE v \notin named[j] /\ o \notin named[j]
    <2>1. CASE uploads[k] = Null
      BY <1>2, <2>1 DEF NewIds
    <2>2. CASE uploads[k] # Null
      BY <1>2, <1>8, <2>2 DEF UploadsInv, Owned, Apart
    <2> QED
      BY <2>1, <2>2
  <1>9. Decided'
    <2> SUFFICES ASSUME NEW j \in Inits, inits'[j] # Null
                 PROVE  /\ \A l \in Keys \ {inits'[j].key} :
                              /\ inits'[j].video \notin named[l]
                              /\ inits'[j].object \notin named[l]
                        /\ \/ inits'[j].video = inits'[j].object
                           \/ uploads[inits'[j].key] # Null
      BY <1>1 DEF Decided
    <2>1. CASE j = i
      BY <1>2, <1>3, <1>4, <1>8, <2>1
    <2>2. CASE j # i
      BY <1>4, <2>2 DEF UploadsInv, Decided
    <2> QED
      BY <2>1, <2>2
  <1>10. ASSUME NEW j \in Inits, inits[j] # Null, inits[j].key # k
         PROVE  {v, o} \cap {inits[j].video, inits[j].object} = {}
    <2>1. CASE uploads[k] = Null
      BY <1>2, <1>10, <2>1 DEF NewIds
    <2>2. CASE uploads[k] # Null
      <3>1. v \in named[k] /\ o \in named[k]
        BY <1>2, <2>2 DEF UploadsInv, Owned
      <3>2. inits[j].video \notin named[k] /\ inits[j].object \notin named[k]
        BY <1>10 DEF UploadsInv, Decided
      <3> QED
        BY <3>1, <3>2
    <2> QED
      BY <2>1, <2>2
  <1>11. DecidedApart'
    <2> SUFFICES ASSUME NEW a \in Inits, NEW b \in Inits,
                        inits'[a] # Null, inits'[b] # Null,
                        inits'[a].key # inits'[b].key
                 PROVE  {inits'[a].video, inits'[a].object}
                          \cap {inits'[b].video, inits'[b].object} = {}
      BY DEF DecidedApart
    <2>1. CASE a = i /\ b # i
      BY <1>3, <1>4, <1>10, <2>1
    <2>2. CASE a # i /\ b = i
      BY <1>3, <1>4, <1>10, <2>2
    <2>3. CASE a # i /\ b # i
      BY <1>4, <2>3 DEF UploadsInv, DecidedApart
    <2> QED
      BY <2>1, <2>2, <2>3
  <1> QED
    BY <1>5, <1>6, <1>7, <1>9, <1>11 DEF UploadsInv

(* What the upsert makes of a row. *)
LEMMA UpsertedRow ==
    ASSUME NEW row \in Opt(Sessions), NEW call \in Calls
    PROVE  /\ UpsertUpload(row, call) \in Sessions
           /\ UpsertUpload(row, call).object = call.object
           /\ UpsertUpload(row, call).video =
                 IF row = Null THEN call.video ELSE row.video
           /\ row # Null /\ row.status = "completed" =>
                 UpsertUpload(row, call).status = "completed"
  <1>1. CASE row = Null
    BY <1>1 DEF UpsertUpload, Opt, Sessions, Calls, UploadStatuses
  <1>2. CASE row # Null
    <2>1. row \in Sessions /\ call.object \in Videos
      BY <1>2 DEF Opt, Calls
    <2> DEFINE status == IF row.status = "completed" THEN row.status ELSE "uploading"
    <2>2. status \in UploadStatuses /\ (row.status = "completed" => status = "completed")
      BY <2>1 DEF Sessions, UploadStatuses
    <2>3. UpsertUpload(row, call) =
              [row EXCEPT !.object = call.object, !.status = status]
      BY <1>2 DEF UpsertUpload
    <2> HIDE DEF status
    <2> QED
      BY <1>2, <2>1, <2>2, <2>3 DEF Sessions
  <1> QED
    BY <1>1, <1>2

LEMMA UpsertKeepsInv ==
    ASSUME UploadsInv, NEW i \in Inits, UpsertSession(i) \/ UpsertAnswerLost(i)
    PROVE  UploadsInv'
  <1> DEFINE call == inits[i]
             k == inits[i].key
             o == inits[i].object
  <1>1. /\ UNCHANGED <<store, notices, processed, worker>>
        /\ inits[i] # Null
        /\ SessionTypes
        /\ uploads' = [uploads EXCEPT ![k] = UpsertUpload(@, call)]
        /\ named' = [named EXCEPT ![k] = @ \cup {o}]
        /\ issued' = issued \/ issued' = [issued EXCEPT ![k] = @ \cup {o}]
        /\ inits' = [inits EXCEPT ![i] = Null]
    BY DEF UpsertSession, UpsertAnswerLost, UpsertCommits, UploadsInv, gcsVars
  <1>2. /\ call \in Calls /\ k \in Keys /\ o \in Videos /\ call.video \in Videos
        /\ call.object = o /\ call.key = k
    BY <1>1 DEF SessionTypes, Opt, Calls
  <1>3. /\ \A l \in Keys \ {k} : call.video \notin named[l] /\ o \notin named[l]
        /\ call.video = o \/ uploads[k] # Null
    BY <1>1 DEF UploadsInv, Decided
  <1>4. ASSUME NEW j \in Inits, inits[j] # Null, inits[j].key # k
        PROVE  o # inits[j].video /\ o # inits[j].object
    BY <1>1, <1>4 DEF UploadsInv, DecidedApart
  <1> HIDE DEF call, k, o
  <1>5. /\ inits'[i] = Null
        /\ \A j \in Inits : j # i => inits'[j] = inits[j]
        /\ inits' \in [Inits -> Opt(Calls)]
    BY <1>1 DEF SessionTypes, Opt
  <1>6. /\ named'[k] = named[k] \cup {o}
        /\ \A l \in Keys : l # k => named'[l] = named[l]
        /\ named' \in [Keys -> SUBSET Videos]
        /\ issued' \in [Keys -> SUBSET Videos]
        /\ \A l \in Keys : issued[l] \subseteq issued'[l] /\ issued'[l] \subseteq named'[l]
    <2>1. CASE issued' = issued
      BY <1>1, <1>2, <2>1 DEF SessionTypes
    <2>2. CASE issued' = [issued EXCEPT ![k] = @ \cup {o}]
      BY <1>1, <1>2, <2>2 DEF SessionTypes
    <2> QED
      BY <1>1, <2>1, <2>2
  <1>7. /\ UpsertUpload(uploads[k], call) \in Sessions
        /\ UpsertUpload(uploads[k], call).object = o
        /\ UpsertUpload(uploads[k], call).video =
              IF uploads[k] = Null THEN call.video ELSE uploads[k].video
        /\ uploads[k] # Null /\ uploads[k].status = "completed" =>
              UpsertUpload(uploads[k], call).status = "completed"
    <2>1. uploads[k] \in Opt(Sessions)
      BY <1>1, <1>2 DEF SessionTypes
    <2> QED
      BY <1>2, <2>1, UpsertedRow
  <1>8. /\ uploads'[k] \in Sessions
        /\ uploads'[k].object = o
        /\ uploads'[k].video = IF uploads[k] = Null THEN call.video ELSE uploads[k].video
        /\ uploads[k] # Null /\ uploads[k].status = "completed" =>
              uploads'[k].status = "completed"
        /\ \A l \in Keys : l # k => uploads'[l] = uploads[l]
        /\ uploads' \in [Keys -> Opt(Sessions)]
    <2>1. /\ uploads'[k] = UpsertUpload(uploads[k], call)
          /\ \A l \in Keys : l # k => uploads'[l] = uploads[l]
      BY <1>1, <1>2 DEF SessionTypes
    <2>2. uploads' \in [Keys -> Opt(Sessions)]
      BY <1>1, <1>2, <1>7 DEF SessionTypes, Opt
    <2> QED
      BY <1>7, <2>1, <2>2
  <1>9. uploads'[k] # Null
    BY <1>8
  <1>10. SessionTypes'
    BY <1>1, <1>5, <1>6, <1>8 DEF SessionTypes
  <1>11. Owned'
    <2> SUFFICES ASSUME NEW l \in Keys
                 PROVE  /\ uploads'[l] # Null =>
                              /\ uploads'[l].video \in named'[l]
                              /\ uploads'[l].object \in named'[l]
                        /\ named'[l] # {} => uploads'[l] # Null
      BY DEF Owned
    <2>1. CASE l = k
      BY <1>2, <1>3, <1>6, <1>8, <1>9, <2>1 DEF UploadsInv, Owned
    <2>2. CASE l # k
      BY <1>6, <1>8, <2>2 DEF UploadsInv, Owned
    <2> QED
      BY <2>1, <2>2
  <1>12. Apart'
    BY <1>2, <1>3, <1>6 DEF UploadsInv, Apart
  <1>13. Decided'
    <2> SUFFICES ASSUME NEW j \in Inits, inits'[j] # Null
                 PROVE  /\ \A l \in Keys \ {inits'[j].key} :
                              /\ inits'[j].video \notin named'[l]
                              /\ inits'[j].object \notin named'[l]
                        /\ \/ inits'[j].video = inits'[j].object
                           \/ uploads'[inits'[j].key] # Null
      BY DEF Decided
    <2>1. inits'[j] = inits[j] /\ inits[j] # Null /\ inits[j].key \in Keys
      BY <1>1, <1>5 DEF SessionTypes, Opt, Calls
    <2>2. /\ \A l \in Keys \ {inits[j].key} :
                inits[j].video \notin named[l] /\ inits[j].object \notin named[l]
          /\ inits[j].video = inits[j].object \/ uploads[inits[j].key] # Null
      BY <2>1 DEF UploadsInv, Decided
    <2>3. uploads[inits[j].key] # Null => uploads'[inits[j].key] # Null
      BY <1>8, <1>9, <2>1
    <2> QED
      BY <1>4, <1>6, <2>1, <2>2, <2>3
  <1>14. DecidedApart'
    BY <1>5 DEF UploadsInv, DecidedApart
  <1>15. Told'
    BY <1>1, <1>2, <1>6 DEF UploadsInv, Told
  <1>16. \A w \in Workers : InHand(worker[w])'
    <2> SUFFICES ASSUME NEW w \in Workers, worker[w].phase # "idle",
                        worker[w].key # Null
                 PROVE  /\ uploads'[worker[w].key] # Null
                        /\ notices[worker[w].notice] \in named'[worker[w].key]
      BY <1>1 DEF UploadsInv, AtWork, InHand
    <2>1. /\ uploads[worker[w].key] # Null
          /\ notices[worker[w].notice] \in named[worker[w].key]
          /\ worker[w].key \in Keys
      BY <1>1 DEF UploadsInv, AtWork, InHand, SessionTypes, WorkerStates, Opt
    <2> QED
      BY <1>6, <1>8, <1>9, <2>1
  (* A message about the object a session hands out first does not exist.  *)
  <1>17. ASSUME NEW n \in Notices, notices[n] # Null, NEW l \in Keys, OnlyMatch(n, l)'
         PROVE  /\ OnlyMatch(n, l) /\ uploads[l] # Null
                /\ uploads[l].status = "completed" => uploads'[l].status = "completed"
    <2>1. PICK j \in Keys : notices[n] \in named[j]
      <3>1. PICK j \in Keys : notices[n] \in issued[j]
        BY <1>1, <1>17 DEF UploadsInv, Told, SessionTypes, Opt
      <3> QED
        BY <1>1, <3>1 DEF SessionTypes
    <2>2. CASE l = k
      <3>1. named[k] \cup {o} = {notices[n]} /\ store[notices[n]].md5 # "other"
        BY <1>1, <1>6, <1>17, <2>2 DEF OnlyMatch
      <3>2. o = notices[n]
        BY <3>1
      <3>3. j = k
        BY <1>3, <2>1, <3>2
      <3>4. named[k] = {notices[n]}
        BY <2>1, <3>1, <3>3
      <3>5. uploads[k] # Null
        BY <1>2, <3>4 DEF UploadsInv, Owned
      <3> QED
        BY <1>8, <2>2, <3>1, <3>4, <3>5 DEF OnlyMatch
    <2>3. CASE l # k
      <3>1. OnlyMatch(n, l) /\ uploads'[l] = uploads[l]
        BY <1>1, <1>6, <1>8, <1>17, <2>3 DEF OnlyMatch
      <3>2. uploads[l] # Null
        BY <3>1 DEF OnlyMatch, UploadsInv, Owned
      <3> QED
        BY <3>1, <3>2
    <2> QED
      BY <2>2, <2>3
  <1>18. \A w \in Workers : OnItsWay(worker[w])'
    <2> SUFFICES ASSUME NEW w \in Workers, NEW l \in Keys,
                        worker[w].phase # "idle", OnlyMatch(worker[w].notice, l)'
                 PROVE  /\ worker[w].key = l
                        /\ worker[w].phase # "mismatched"
                        /\ worker[w].mark # "failed"
                        /\ \/ worker[w].phase = "matched"
                           \/ worker[w].mark = "completed"
                           \/ uploads'[l].status = "completed"
      BY <1>1 DEF OnItsWay, OnlyMatch
    <2>1. worker[w].notice \in Notices /\ notices[worker[w].notice] # Null
      BY DEF UploadsInv, AtWork, InHand
    <2>2. /\ OnlyMatch(worker[w].notice, l)
          /\ uploads[l].status = "completed" => uploads'[l].status = "completed"
      BY <1>1, <1>17, <2>1 DEF OnlyMatch
    <2> QED
      BY <2>2 DEF UploadsInv, AtWork, OnItsWay
  <1>19. Acknowledged'
    <2> SUFFICES ASSUME NEW n \in processed, NEW l \in Keys, OnlyMatch(n, l)'
                 PROVE  uploads'[l].status = "completed"
      BY <1>1 DEF Acknowledged
    <2>1. n \in Notices /\ notices[n] # Null
      BY <1>1 DEF UploadsInv, Told, SessionTypes
    <2> QED
      BY <1>17, <2>1 DEF UploadsInv, Acknowledged
  <1> QED
    BY <1>10, <1>11, <1>12, <1>13, <1>14, <1>15, <1>16, <1>18, <1>19
       DEF UploadsInv, AtWork

LEMMA InitFailsKeepsInv ==
    ASSUME UploadsInv, NEW i \in Inits, InitFails(i)
    PROVE  UploadsInv'
  <1>1. /\ UNCHANGED <<uploads, named, issued, store, notices, processed, worker>>
        /\ inits' = [inits EXCEPT ![i] = Null]
        /\ SessionTypes
    BY DEF InitFails, UploadsInv, gcsVars
  <1>2. /\ inits'[i] = Null
        /\ \A j \in Inits : j # i => inits'[j] = inits[j]
        /\ inits' \in [Inits -> Opt(Calls)]
    BY <1>1 DEF SessionTypes, Opt
  <1>3. SessionTypes' /\ Owned' /\ Apart' /\ Told'
    BY <1>1, <1>2 DEF UploadsInv, SessionTypes, Owned, Apart, Told
  <1>4. AtWork' /\ Acknowledged'
    BY <1>1 DEF UploadsInv, AtWork, InHand, OnItsWay, Acknowledged, OnlyMatch
  <1>5. Decided' /\ DecidedApart'
    BY <1>1, <1>2 DEF UploadsInv, Decided, DecidedApart
  <1> QED
    BY <1>3, <1>4, <1>5 DEF UploadsInv

-----------------------------------------------------------------------------
(* The bucket and its notifications.                                       *)

(* A message appears, about an object that is there and was handed out;    *)
(* an object appears that no message was about.                            *)
LEMMA NoticeKeepsInv ==
    ASSUME UploadsInv,
           \/ \E k \in Keys, o \in Videos, n \in Notices, object \in Finalized :
                 PutObject(k, o, n, object.md5, object.size)
           \/ \E o \in Videos, n \in Notices : NotifyAgain(o, n)
    PROVE  UploadsInv'
  <1>1. /\ UNCHANGED <<uploads, inits, named, issued, processed, worker>>
        /\ SessionTypes
    BY DEF PutObject, NotifyAgain, sessionVars, UploadsInv
  <1>2. PICK o \in Videos, n \in Notices :
           /\ notices[n] = Null
           /\ notices' = [notices EXCEPT ![n] = o]
           /\ store'[o] # Null
           /\ \E k \in Keys : o \in issued[k]
           /\ store' \in [Videos -> Opt(Finalized)]
           /\ \A x \in Videos : x # o \/ store[x] # Null => store'[x] = store[x]
    <2>1. ASSUME NEW k \in Keys, NEW o \in Videos, NEW n \in Notices,
                 NEW object \in Finalized,
                 PutObject(k, o, n, object.md5, object.size)
          PROVE  /\ notices[n] = Null
                 /\ notices' = [notices EXCEPT ![n] = o]
                 /\ store'[o] # Null
                 /\ \E j \in Keys : o \in issued[j]
                 /\ store' \in [Videos -> Opt(Finalized)]
                 /\ \A x \in Videos : x # o \/ store[x] # Null => store'[x] = store[x]
      <3>1. object # Null /\ object = [md5 |-> object.md5, size |-> object.size]
        BY DEF Finalized
      <3>2. store' = [store EXCEPT ![o] = object] /\ store[o] = Null
        BY <2>1, <3>1 DEF PutObject
      <3>3. /\ store'[o] # Null
            /\ store' \in [Videos -> Opt(Finalized)]
            /\ \A x \in Videos : x # o \/ store[x] # Null => store'[x] = store[x]
        BY <1>1, <3>1, <3>2 DEF SessionTypes, Opt
      <3> QED
        BY <2>1, <3>3 DEF PutObject
    <2>2. ASSUME NEW o \in Videos, NEW n \in Notices, NotifyAgain(o, n)
          PROVE  /\ notices[n] = Null
                 /\ notices' = [notices EXCEPT ![n] = o]
                 /\ store'[o] # Null
                 /\ \E j \in Keys : o \in issued[j]
                 /\ store' \in [Videos -> Opt(Finalized)]
                 /\ \A x \in Videos : x # o \/ store[x] # Null => store'[x] = store[x]
      <3>1. /\ notices[n] = Null /\ store[o] # Null
            /\ notices' = [notices EXCEPT ![n] = o]
            /\ store' = store
        BY <2>2 DEF NotifyAgain
      <3>2. \E j \in Keys : o \in issued[j]
        BY <3>1 DEF UploadsInv, Told
      <3> QED
        BY <1>1, <3>1, <3>2 DEF SessionTypes
    <2>3. CASE \E k \in Keys, o \in Videos, n \in Notices, object \in Finalized :
                  PutObject(k, o, n, object.md5, object.size)
      BY <2>1, <2>3, Zenon
    <2>4. CASE \E o \in Videos, n \in Notices : NotifyAgain(o, n)
      BY <2>2, <2>4, Zenon
    <2> QED
      BY <2>3, <2>4
  <1>3. /\ notices'[n] = o
        /\ \A m \in Notices : m # n => notices'[m] = notices[m]
        /\ notices' \in [Notices -> Opt(Videos)]
    BY <1>1, <1>2 DEF SessionTypes, Opt
  <1>4. SessionTypes'
    BY <1>1, <1>2, <1>3 DEF SessionTypes
  <1>5. Owned' /\ Apart' /\ Decided' /\ DecidedApart'
    BY <1>1 DEF UploadsInv, Owned, Apart, Decided, DecidedApart
  <1>6. ASSUME NEW m \in Notices, notices[m] # Null
        PROVE  /\ notices'[m] = notices[m] /\ m # n
               /\ notices[m] \in Videos
               /\ store[notices[m]] # Null
               /\ store'[notices[m]] = store[notices[m]]
    <2>1. notices[m] \in Videos /\ store[notices[m]] # Null
      BY <1>1, <1>6 DEF UploadsInv, Told, SessionTypes, Opt
    <2> QED
      BY <1>2, <1>3, <1>6, <2>1
  <1>7. Told'
    <2>1. ASSUME NEW m \in Notices, notices'[m] # Null
          PROVE  store'[notices'[m]] # Null
      <3>1. CASE m = n
        BY <1>2, <1>3, <3>1
      <3>2. CASE m # n
        BY <1>3, <1>6, <2>1, <3>2 DEF UploadsInv, Told
      <3> QED
        BY <3>1, <3>2
    <2>3. ASSUME NEW x \in Videos, store'[x] # Null
          PROVE  \E k \in Keys : x \in issued[k]
      BY <1>2, <2>3 DEF UploadsInv, Told
    <2>2. \A m \in processed : notices'[m] # Null
      BY <1>1, <1>6 DEF UploadsInv, Told, SessionTypes
    <2> QED
      BY <1>1, <2>1, <2>2, <2>3 DEF Told
  <1>8. \A w \in Workers : InHand(worker[w])'
    BY <1>1, <1>6 DEF UploadsInv, AtWork, InHand
  <1>9. ASSUME NEW m \in Notices, notices[m] # Null, NEW k \in Keys, OnlyMatch(m, k)'
        PROVE  OnlyMatch(m, k)
    BY <1>1, <1>6, <1>9 DEF OnlyMatch
  <1>10. \A w \in Workers : OnItsWay(worker[w])'
    <2> SUFFICES ASSUME NEW w \in Workers, NEW k \in Keys,
                        worker[w].phase # "idle", OnlyMatch(worker[w].notice, k)'
                 PROVE  OnlyMatch(worker[w].notice, k)
      BY <1>1 DEF UploadsInv, AtWork, OnItsWay, OnlyMatch
    <2>1. worker[w].notice \in Notices /\ notices[worker[w].notice] # Null
      BY DEF UploadsInv, AtWork, InHand
    <2> QED
      BY <1>1, <1>9, <2>1 DEF OnlyMatch
  <1>11. Acknowledged'
    <2> SUFFICES ASSUME NEW m \in processed, NEW k \in Keys, OnlyMatch(m, k)'
                 PROVE  uploads[k].status = "completed"
      BY <1>1 DEF Acknowledged
    <2>1. m \in Notices /\ notices[m] # Null
      BY <1>1 DEF UploadsInv, Told, SessionTypes
    <2> QED
      BY <1>9, <2>1 DEF UploadsInv, Acknowledged
  <1> QED
    BY <1>4, <1>5, <1>7, <1>8, <1>10, <1>11 DEF UploadsInv, AtWork

-----------------------------------------------------------------------------
(* The finalize handler.                                                   *)

(* A step that only moves worker w on, to a state that is in order.        *)
LEMMA WorkerMoves ==
    ASSUME UploadsInv, NEW w \in Workers, NEW x \in WorkerStates,
           UNCHANGED <<uploads, inits, named, issued, store, notices, processed>>,
           worker' = [worker EXCEPT ![w] = x],
           InHand(x), OnItsWay(x)
    PROVE  UploadsInv'
  <1>1. /\ worker'[w] = x
        /\ \A y \in Workers : y # w => worker'[y] = worker[y]
        /\ worker' \in [Workers -> WorkerStates]
    BY DEF UploadsInv, SessionTypes
  <1>2. SessionTypes'
    BY <1>1 DEF UploadsInv, SessionTypes
  <1>3. Owned' /\ Apart' /\ Decided' /\ DecidedApart' /\ Told'
    BY DEF UploadsInv, Owned, Apart, Decided, DecidedApart, Told
  <1>4. Acknowledged'
    BY DEF UploadsInv, Acknowledged, OnlyMatch
  <1>5. AtWork'
    <2> SUFFICES ASSUME NEW y \in Workers
                 PROVE  InHand(worker[y])' /\ OnItsWay(worker[y])'
      BY DEF AtWork
    <2>1. InHand(worker'[y]) /\ OnItsWay(worker'[y])
      BY <1>1 DEF UploadsInv, AtWork
    <2> QED
      BY <2>1 DEF InHand, OnItsWay, OnlyMatch
  <1> QED
    BY <1>2, <1>3, <1>4, <1>5 DEF UploadsInv

LEMMA HandleUnknownKeepsInv ==
    ASSUME UploadsInv, NEW w \in Workers, NEW n \in Notices, HandleUnknown(w, n)
    PROVE  UploadsInv'
  <1>1. PICK x : x = [Idle EXCEPT !.phase = "done", !.notice = n]
    OBVIOUS
  <1>2. /\ x \in WorkerStates
        /\ x.phase = "done" /\ x.notice = n /\ x.key = Null /\ x.mark = Null
    BY <1>1 DEF Idle, WorkerStates, Opt
  <1>3. /\ UNCHANGED <<uploads, inits, named, issued, store, notices, processed>>
        /\ worker' = [worker EXCEPT ![w] = x]
        /\ notices[n] # Null
        /\ \A k \in Keys : uploads[k] # Null => uploads[k].object # notices[n]
    BY <1>1 DEF HandleUnknown, TakeNotice, sessionVars, gcsVars
  <1>4. InHand(x)
    BY <1>2, <1>3 DEF InHand
  <1>5. OnItsWay(x)
    BY <1>2, <1>3 DEF OnItsWay, OnlyMatch, UploadsInv, Owned
  <1> QED
    BY <1>2, <1>3, <1>4, <1>5, WorkerMoves

LEMMA HandleFinalizeKeepsInv ==
    ASSUME UploadsInv, NEW w \in Workers, NEW n \in Notices, HandleFinalize(w, n)
    PROVE  UploadsInv'
  <1>1. PICK k \in Keys :
           /\ uploads[k] # Null
           /\ uploads[k].object = notices[n]
           /\ worker' = [worker EXCEPT ![w] =
                 [phase |-> Verdict(uploads[k], notices[n]), notice |-> n,
                  key |-> k, row |-> uploads[k], mark |-> Null]]
    BY DEF HandleFinalize
  <1>2. /\ UNCHANGED <<uploads, inits, named, issued, store, notices, processed>>
        /\ notices[n] # Null
        /\ SessionTypes
    BY DEF HandleFinalize, TakeNotice, sessionVars, gcsVars, UploadsInv
  <1>3. PICK verdict : verdict = Verdict(uploads[k], notices[n])
    OBVIOUS
  <1>4. /\ verdict \in {"done", "mismatched", "matched"}
        /\ store[notices[n]].md5 # "other" => verdict # "mismatched"
        /\ verdict = "done" => uploads[k].status = "completed"
    BY <1>3 DEF Verdict
  <1>5. PICK x : x = [phase |-> verdict, notice |-> n, key |-> k,
                      row |-> uploads[k], mark |-> Null]
    OBVIOUS
  <1>6. uploads[k] \in Sessions
    BY <1>1, <1>2 DEF SessionTypes, Opt
  <1>7. /\ x \in WorkerStates
        /\ x.phase = verdict /\ x.notice = n /\ x.key = k
        /\ x.row = uploads[k] /\ x.mark = Null
    BY <1>4, <1>5, <1>6 DEF WorkerStates, Opt
  <1>8. notices[n] \in named[k]
    BY <1>1 DEF UploadsInv, Owned
  <1>9. InHand(x)
    BY <1>1, <1>2, <1>6, <1>7, <1>8 DEF InHand
  <1>10. OnItsWay(x)
    <2> SUFFICES ASSUME NEW l \in Keys, OnlyMatch(n, l)
                 PROVE  /\ k = l /\ verdict # "mismatched"
                        /\ verdict = "matched" \/ uploads[l].status = "completed"
      BY <1>7 DEF OnItsWay, UploadStatuses
    <2>1. l = k
      BY <1>8 DEF OnlyMatch, UploadsInv, Apart
    <2> QED
      BY <1>4, <2>1 DEF OnlyMatch
  <1>11. worker' = [worker EXCEPT ![w] = x]
    BY <1>1, <1>3, <1>5
  <1> QED
    BY <1>2, <1>7, <1>9, <1>10, <1>11, WorkerMoves

LEMMA MarkKeepsInv ==
    ASSUME UploadsInv, NEW w \in Workers, MarkFailed(w) \/ MarkCompleted(w)
    PROVE  UploadsInv'
  <1>1. /\ UNCHANGED <<uploads, inits, named, issued, store, notices, processed>>
        /\ worker \in [Workers -> WorkerStates]
    BY DEF MarkFailed, MarkCompleted, sessionVars, gcsVars, UploadsInv, SessionTypes
  <1>2. PICK phase \in {"marked", "done"}, mark \in {"completed", "failed"} :
           /\ worker' = [worker EXCEPT ![w].phase = phase, ![w].mark = mark]
           /\ worker[w].phase = IF mark = "failed" THEN "mismatched" ELSE "matched"
    BY DEF MarkFailed, MarkCompleted
  <1>3. PICK x : x = [worker[w] EXCEPT !.phase = phase, !.mark = mark]
    OBVIOUS
  <1>4. /\ x \in WorkerStates
        /\ x.phase = phase /\ x.mark = mark
        /\ x.notice = worker[w].notice /\ x.key = worker[w].key
        /\ x.row = worker[w].row
    BY <1>1, <1>3 DEF WorkerStates
  <1>5. worker' = [worker EXCEPT ![w] = x]
    BY <1>1, <1>2, <1>3
  <1>6. InHand(worker[w]) /\ OnItsWay(worker[w])
        /\ worker[w].phase \in {"mismatched", "matched"}
    BY <1>2 DEF UploadsInv, AtWork
  <1>7. InHand(x)
    BY <1>4, <1>6 DEF InHand
  <1>8. OnItsWay(x)
    BY <1>2, <1>4, <1>6 DEF OnItsWay
  <1> QED
    BY <1>1, <1>4, <1>5, <1>7, <1>8, WorkerMoves

(* What the lifecycle writer does for a worker moves the worker on at most. *)
LEMMA CatalogKeepsInv ==
    ASSUME UploadsInv, NEW w \in Workers,
           CreateVideo(w) \/ UpdateBegins(w) \/ UpdateCommits(w)
    PROVE  UploadsInv'
  <1>1. /\ UNCHANGED <<uploads, inits, named, issued, store, notices, processed>>
        /\ worker \in [Workers -> WorkerStates]
        /\ worker[w].phase \in {"marked", "updating"}
        /\ \/ worker' = worker
           \/ \E phase \in {"updating", "done"} :
                 worker' = [worker EXCEPT ![w].phase = phase]
    BY DEF CreateVideo, UpdateBegins, UpdateCommits, sessionVars, gcsVars,
           UploadsInv, SessionTypes
  <1>2. InHand(worker[w]) /\ OnItsWay(worker[w])
    BY DEF UploadsInv, AtWork
  <1>3. ASSUME worker' = worker PROVE UploadsInv'
    <2>1. worker' = [worker EXCEPT ![w] = worker[w]] /\ worker[w] \in WorkerStates
      BY <1>1, <1>3
    <2>2. PICK x : x = worker[w]
      OBVIOUS
    <2> QED
      BY <1>1, <1>2, <2>1, <2>2, WorkerMoves
  <1>4. ASSUME NEW phase \in {"updating", "done"},
               worker' = [worker EXCEPT ![w].phase = phase]
        PROVE  UploadsInv'
    <2>1. PICK x : x = [worker[w] EXCEPT !.phase = phase]
      OBVIOUS
    <2>2. /\ x \in WorkerStates
          /\ x.phase = phase /\ x.mark = worker[w].mark
          /\ x.notice = worker[w].notice /\ x.key = worker[w].key
          /\ x.row = worker[w].row
      BY <1>1, <2>1 DEF WorkerStates
    <2>3. worker' = [worker EXCEPT ![w] = x]
      BY <1>1, <1>4, <2>1
    <2>4. InHand(x)
      BY <1>1, <1>2, <2>2 DEF InHand
    <2>5. OnItsWay(x)
      BY <1>1, <1>2, <2>2 DEF OnItsWay
    <2> QED
      BY <1>1, <2>2, <2>3, <2>4, <2>5, WorkerMoves
  <1> QED
    BY <1>1, <1>3, <1>4

LEMMA RollbackKeepsInv ==
    ASSUME UploadsInv, NEW w \in Workers, Rollback(w)
    PROVE  UploadsInv'
  <1>1. PICK x : x = Idle
    OBVIOUS
  <1>2. x \in WorkerStates /\ x.phase = "idle"
    BY <1>1 DEF Idle, WorkerStates, Opt
  <1>3. InHand(x) /\ OnItsWay(x)
    BY <1>2 DEF InHand, OnItsWay
  <1>4. /\ UNCHANGED <<uploads, inits, named, issued, store, notices, processed>>
        /\ worker' = [worker EXCEPT ![w] = x]
    BY <1>1 DEF Rollback, sessionVars, gcsVars
  <1> QED
    BY <1>2, <1>3, <1>4, WorkerMoves

(* The session as the worker has marked it. *)
LEMMA Marked ==
    ASSUME SessionTypes, NEW w \in Workers,
           worker[w].key \in Keys, uploads[worker[w].key] \in Sessions,
           worker[w].notice \in Notices
    PROVE  /\ MarkedRow(w) \in Sessions
           /\ MarkedRow(w).object = uploads[worker[w].key].object
           /\ MarkedRow(w).video = uploads[worker[w].key].video
           /\ MarkedRow(w).status =
                 IF worker[w].mark = "completed" THEN "completed" ELSE "failed"
  <1> DEFINE row == uploads[worker[w].key]
  <1>1. notices[worker[w].notice] \in Opt(Videos)
    BY DEF SessionTypes
  <1>2. CASE worker[w].mark = "completed"
    BY <1>1, <1>2 DEF MarkedRow, Sessions, UploadStatuses
  <1>3. CASE worker[w].mark # "completed"
    BY <1>3 DEF MarkedRow, Sessions, UploadStatuses
  <1> QED
    BY <1>2, <1>3

LEMMA CommitKeepsInv ==
    ASSUME UploadsInv, NEW w \in Workers, CommitNotice(w)
    PROVE  UploadsInv'
  <1> DEFINE k == worker[w].key
             n == worker[w].notice
  <1>1. /\ UNCHANGED <<inits, named, issued, store, notices>>
        /\ processed' = processed \cup {n}
        /\ worker' = [worker EXCEPT ![w] = Idle]
        /\ uploads' = IF worker[w].mark = Null THEN uploads
                      ELSE [uploads EXCEPT ![k] = MarkedRow(w)]
        /\ worker[w].phase = "done"
        /\ SessionTypes
    BY DEF CommitNotice, gcsVars, UploadsInv
  <1>2. /\ n \in Notices /\ notices[n] # Null
        /\ worker[w].mark \in {"completed", "failed", Null}
        /\ k \in Opt(Keys)
        /\ worker[w].mark # Null => k # Null
        /\ k # Null => uploads[k] # Null /\ notices[n] \in named[k]
        /\ OnItsWay(worker[w])
    BY <1>1 DEF UploadsInv, AtWork, InHand, SessionTypes, WorkerStates
  (* The marked session, if there is one, is the only thing to change.     *)
  <1>3. \/ worker[w].mark = Null /\ uploads' = uploads
        \/ /\ worker[w].mark \in {"completed", "failed"}
           /\ k \in Keys /\ uploads[k] # Null /\ notices[n] \in named[k]
           /\ uploads' \in [Keys -> Opt(Sessions)]
           /\ uploads'[k] # Null
           /\ uploads'[k].object = uploads[k].object
           /\ uploads'[k].video = uploads[k].video
           /\ uploads'[k].status =
                 IF worker[w].mark = "completed" THEN "completed" ELSE "failed"
           /\ \A l \in Keys : l # k => uploads'[l] = uploads[l]
    <2>1. CASE worker[w].mark = Null
      BY <1>1, <2>1
    <2>2. CASE worker[w].mark # Null
      <3>1. k \in Keys /\ uploads[k] \in Sessions /\ uploads[k] # Null
        BY <1>1, <1>2, <2>2 DEF SessionTypes, Opt
      <3>2. /\ MarkedRow(w) \in Sessions
            /\ MarkedRow(w).object = uploads[k].object
            /\ MarkedRow(w).video = uploads[k].video
            /\ MarkedRow(w).status =
                  IF worker[w].mark = "completed" THEN "completed" ELSE "failed"
        BY <1>1, <1>2, <3>1, Marked
      <3>3. uploads' = [uploads EXCEPT ![k] = MarkedRow(w)]
        BY <1>1, <2>2
      <3>4. /\ uploads'[k] = MarkedRow(w)
            /\ \A l \in Keys : l # k => uploads'[l] = uploads[l]
        BY <1>1, <3>1, <3>3 DEF SessionTypes
      <3>5. uploads' \in [Keys -> Opt(Sessions)]
        BY <1>1, <3>1, <3>2, <3>3 DEF SessionTypes, Opt
      <3> QED
        BY <1>2, <2>2, <3>1, <3>2, <3>4, <3>5
    <2> QED
      BY <2>1, <2>2
  <1> HIDE DEF k, n
  <1>4. /\ uploads' \in [Keys -> Opt(Sessions)]
        /\ \A l \in Keys :
              /\ uploads[l] # Null <=> uploads'[l] # Null
              /\ uploads[l] # Null => /\ uploads'[l].object = uploads[l].object
                                      /\ uploads'[l].video = uploads[l].video
    BY <1>1, <1>3 DEF SessionTypes
  <1>5. /\ worker'[w] = Idle /\ Idle.phase = "idle"
        /\ \A y \in Workers : y # w => worker'[y] = worker[y]
        /\ worker' \in [Workers -> WorkerStates]
    <2>1. Idle \in WorkerStates /\ Idle.phase = "idle"
      BY DEF Idle, WorkerStates, Opt
    <2> QED
      BY <1>1, <2>1 DEF SessionTypes
  <1>6. SessionTypes'
    BY <1>1, <1>2, <1>4, <1>5 DEF SessionTypes
  <1>7. Owned'
    BY <1>1, <1>4 DEF UploadsInv, Owned
  <1>8. Apart' /\ DecidedApart'
    BY <1>1 DEF UploadsInv, Apart, DecidedApart
  <1>9. Decided'
    <2>1. \A i \in Inits : inits[i] # Null => inits[i].key \in Keys
      BY <1>1 DEF SessionTypes, Opt, Calls
    <2> QED
      BY <1>1, <1>4, <2>1 DEF UploadsInv, Decided
  <1>10. Told'
    BY <1>1, <1>2 DEF UploadsInv, Told
  (* A session that handed out one matching object is not marked failed.   *)
  <1>11. ASSUME NEW m \in Notices, NEW l \in Keys, OnlyMatch(m, l),
                uploads[l].status = "completed"
         PROVE  uploads'[l].status = "completed"
    <2>1. CASE worker[w].mark # "failed" \/ l # k
      BY <1>3, <1>11, <2>1
    <2>2. CASE worker[w].mark = "failed" /\ l = k
      <3>1. notices[n] \in named[l]
        BY <1>3, <2>2, <1>2 DEF UploadStatuses
      <3>2. OnlyMatch(n, l)
        BY <1>11, <3>1 DEF OnlyMatch
      <3> QED
        BY <1>1, <1>2, <2>2, <3>2 DEF OnItsWay, n
    <2> QED
      BY <2>1, <2>2
  <1>12. AtWork'
    <2> SUFFICES ASSUME NEW y \in Workers
                 PROVE  InHand(worker[y])' /\ OnItsWay(worker[y])'
      BY DEF AtWork
    <2>1. CASE y = w
      BY <1>5, <2>1 DEF InHand, OnItsWay
    <2>2. CASE y # w
      <3>1. /\ InHand(worker[y]) /\ OnItsWay(worker[y]) /\ worker'[y] = worker[y]
            /\ worker[y].key \in Opt(Keys)
        BY <1>1, <1>5, <2>2 DEF UploadsInv, AtWork, SessionTypes, WorkerStates
      <3>2. InHand(worker[y])'
        BY <1>1, <1>4, <3>1 DEF InHand, Opt
      <3>3. OnItsWay(worker[y])'
        <4> SUFFICES ASSUME NEW l \in Keys, worker[y].phase # "idle",
                            OnlyMatch(worker[y].notice, l)
                     PROVE  /\ worker[y].key = l
                            /\ worker[y].phase # "mismatched"
                            /\ worker[y].mark # "failed"
                            /\ \/ worker[y].phase = "matched"
                               \/ worker[y].mark = "completed"
                               \/ uploads'[l].status = "completed"
          BY <1>1, <3>1 DEF OnItsWay, OnlyMatch
        <4>1. worker[y].notice \in Notices
          BY <3>1 DEF InHand
        <4> QED
          BY <1>11, <3>1, <4>1 DEF OnItsWay
      <3> QED
        BY <3>2, <3>3
    <2> QED
      BY <2>1, <2>2
  <1>13. Acknowledged'
    <2> SUFFICES ASSUME NEW m \in processed \cup {n}, NEW l \in Keys, OnlyMatch(m, l)
                 PROVE  uploads'[l].status = "completed"
      BY <1>1 DEF Acknowledged, OnlyMatch
    <2>1. CASE m \in processed
      BY <1>1, <1>11, <2>1 DEF UploadsInv, Acknowledged, SessionTypes
    <2>2. CASE m = n
      <3>1. /\ k = l /\ worker[w].mark # "failed"
            /\ worker[w].mark = "completed" \/ uploads[l].status = "completed"
        BY <1>1, <1>2, <2>2 DEF OnItsWay, n, k
      <3>2. CASE worker[w].mark = "completed"
        BY <1>3, <3>1, <3>2 DEF UploadStatuses
      <3>3. CASE uploads[l].status = "completed"
        BY <1>2, <1>11, <2>2, <3>3
      <3> QED
        BY <3>1, <3>2, <3>3
    <2> QED
      BY <2>1, <2>2
  <1> QED
    BY <1>6, <1>7, <1>8, <1>9, <1>10, <1>12, <1>13 DEF UploadsInv

-----------------------------------------------------------------------------
(* Theorems.                                                               *)

LEMMA InitInv == Init => UploadsInv
  <1> SUFFICES ASSUME Init PROVE UploadsInv
    OBVIOUS
  <1>1. Idle \in WorkerStates /\ Idle.phase = "idle"
    BY DEF Idle, WorkerStates, Opt
  <1>2. SessionTypes
    BY <1>1 DEF Init, SessionTypes, Opt
  <1>3. Owned /\ Apart /\ Decided /\ DecidedApart /\ Told
    BY DEF Init, Owned, Apart, Decided, DecidedApart, Told
  <1>4. AtWork /\ Acknowledged
    BY <1>1 DEF Init, AtWork, InHand, OnItsWay, Acknowledged
  <1> QED
    BY <1>2, <1>3, <1>4 DEF UploadsInv

LEMMA NextKeepsInv == UploadsInv /\ [Next]_vars => UploadsInv'
  <1> SUFFICES ASSUME UploadsInv, [Next]_vars PROVE UploadsInv'
    OBVIOUS
  <1>1. ASSUME NEW i \in Inits, NEW k \in Keys, LookupSession(i, k)
        PROVE  UploadsInv'
    BY <1>1, LookupKeepsInv
  <1>2. ASSUME NEW i \in Inits, UpsertSession(i) \/ UpsertAnswerLost(i) \/ InitFails(i)
        PROVE  UploadsInv'
    BY <1>2, UpsertKeepsInv, InitFailsKeepsInv
  <1>3. CASE \/ \E k \in Keys, o \in Videos, n \in Notices, object \in Finalized :
                   PutObject(k, o, n, object.md5, object.size)
             \/ \E o \in Videos, n \in Notices : NotifyAgain(o, n)
    BY <1>3, NoticeKeepsInv
  <1>4. ASSUME NEW w \in Workers, NEW n \in Notices,
               HandleUnknown(w, n) \/ HandleFinalize(w, n)
        PROVE  UploadsInv'
    BY <1>4, HandleUnknownKeepsInv, HandleFinalizeKeepsInv
  <1>5. ASSUME NEW w \in Workers, HandlerStep(w) \/ HandlerFails(w)
        PROVE  UploadsInv'
    <2>1. CASE MarkFailed(w) \/ MarkCompleted(w)
      BY <2>1, MarkKeepsInv
    <2>2. CASE CreateVideo(w) \/ UpdateBegins(w) \/ UpdateCommits(w)
      BY <2>2, CatalogKeepsInv
    <2>3. CASE CommitNotice(w)
      BY <2>3, CommitKeepsInv
    <2>4. CASE WaitTimesOut(w) \/ HandlerFails(w)
      <3>1. Rollback(w)
        BY <2>4 DEF WaitTimesOut, HandlerFails
      <3> QED
        BY <3>1, RollbackKeepsInv
    <2> QED
      BY <1>5, <2>1, <2>2, <2>3, <2>4 DEF HandlerStep
  <1>6. CASE UNCHANGED vars
    BY <1>6 DEF vars, UploadsInv, SessionTypes, Owned, Apart, Decided, DecidedApart,
                Told, AtWork, InHand, OnItsWay, OnlyMatch, Acknowledged
  <1> QED
    BY <1>1, <1>2, <1>3, <1>4, <1>5, <1>6 DEF Next

(* The invariant of this module holds of every behaviour of Uploads.       *)
THEOREM UploadsInvariant == Spec => []UploadsInv
  <1> QED
    BY InitInv, NextKeepsInv, PTL DEF Spec

(* Objects and videos of one session are never handed to another one.      *)
THEOREM SessionsTheorem == Spec => []SessionsAreDistinct
  <1>1. UploadsInv => SessionsAreDistinct
    BY DEF UploadsInv, SessionTypes, Owned, Apart, SessionsAreDistinct
  <1> QED
    BY <1>1, UploadsInvariant, PTL

(* A matching upload whose message was acknowledged leaves the session     *)
(* completed, as long as the session has handed out one object.            *)
THEOREM AcknowledgedTheorem == Spec => []AcknowledgedUploadCompletes
  <1>1. UploadsInv => AcknowledgedUploadCompletes
    BY DEF UploadsInv, Acknowledged, OnlyMatch, AcknowledgedUploadCompletes
  <1> QED
    BY <1>1, UploadsInvariant, PTL

LEMMA VideosAreKept ==
    ASSUME UploadsInv, [Next]_vars, NEW k \in Keys, uploads[k] # Null
    PROVE  uploads'[k] # Null /\ uploads'[k].video = uploads[k].video
  <1>1. SessionTypes
    BY DEF UploadsInv
  <1>2. ASSUME NEW i \in Inits, UpsertCommits(i)
        PROVE  uploads'[k] # Null /\ uploads'[k].video = uploads[k].video
    <2>1. /\ uploads' = [uploads EXCEPT ![inits[i].key] = UpsertUpload(@, inits[i])]
          /\ inits[i] \in Calls
      BY <1>1, <1>2 DEF UpsertCommits, SessionTypes, Opt
    <2>2. uploads'[k] = uploads[k] \/ uploads'[k] = UpsertUpload(uploads[k], inits[i])
      BY <1>1, <2>1 DEF SessionTypes
    <2>3. /\ UpsertUpload(uploads[k], inits[i]) \in Sessions
          /\ UpsertUpload(uploads[k], inits[i]).video = uploads[k].video
      <3>1. uploads[k] \in Opt(Sessions)
        BY <1>1 DEF SessionTypes
      <3> QED
        BY <2>1, <3>1, UpsertedRow
    <2> QED
      BY <2>2, <2>3
  <1>3. ASSUME NEW w \in Workers, CommitNotice(w)
        PROVE  uploads'[k] # Null /\ uploads'[k].video = uploads[k].video
    <2>1. CASE worker[w].mark = Null \/ worker[w].key # k
      <3>1. uploads'[k] = uploads[k]
        BY <1>1, <1>3, <2>1 DEF CommitNotice, SessionTypes
      <3> QED
        BY <3>1
    <2>2. CASE worker[w].mark # Null /\ worker[w].key = k
      <3>1. uploads'[k] = MarkedRow(w)
        BY <1>1, <1>3, <2>2 DEF CommitNotice, SessionTypes
      <3>2. worker[w].notice \in Notices /\ uploads[k] \in Sessions
        BY <1>1, <1>3 DEF CommitNotice, UploadsInv, AtWork, InHand, SessionTypes, Opt
      <3>3. MarkedRow(w) \in Sessions /\ MarkedRow(w).video = uploads[k].video
        BY <1>1, <2>2, <3>2, Marked
      <3> QED
        BY <3>1, <3>3
    <2> QED
      BY <2>1, <2>2
  <1>4. ASSUME UNCHANGED uploads
        PROVE  uploads'[k] # Null /\ uploads'[k].video = uploads[k].video
    BY <1>4
  <1>5. \/ \E i \in Inits : UpsertCommits(i)
        \/ \E w \in Workers : CommitNotice(w)
        \/ UNCHANGED uploads
    BY DEF Next, vars, UpsertSession, UpsertAnswerLost, LookupSession, InitFails, PutObject, NotifyAgain, HandleUnknown,
           HandleFinalize, HandlerStep, HandlerFails, MarkFailed, MarkCompleted,
           CreateVideo, UpdateBegins, UpdateCommits, WaitTimesOut, Rollback, sessionVars
  <1> QED
    BY <1>2, <1>3, <1>4, <1>5

(* A session keeps its row and the video id it was opened with for good.   *)
THEOREM VideoTheorem == Spec => SessionKeepsItsVideo
  <1>1. UploadsInv /\ [Next]_vars =>
            [\A k \in Keys : uploads[k] # Null =>
                uploads'[k] # Null /\ uploads'[k].video = uploads[k].video]_uploads
    BY VideosAreKept
  <1> QED
    BY <1>1, UploadsInvariant, PTL DEF Spec, SessionKeepsItsVideo

-----------------------------------------------------------------------------
(* Types of the catalog.                                                   *)

(* The defaults of the columns are proper values.                          *)
LEMMA NewVideoRowType ==
    ASSUME NEW now \in Nat
    PROVE  Catalog!NewVideoRow(now) \in Catalog!Rows
  BY DEF Catalog!NewVideoRow, Catalog!Rows, Catalog!NoStage, Catalog!Opt,
         Catalog!VideoStatuses, Catalog!StageStatuses, Catalog!Visibilities, Catalog!Stages

LEMMA UpdateVideoRowType ==
    ASSUME NEW row \in Catalog!Rows, NEW u \in Catalog!Updates, NEW now \in Nat
    PROVE  Catalog!UpdateVideoRow(row, u, now) \in Catalog!Rows
  BY DEF Catalog!UpdateVideoRow, Catalog!Rows, Catalog!Updates, Catalog!Coalesce,
         Catalog!Opt

LEMMA FinalizeUpdateType ==
    ASSUME NEW size \in Catalog!Opt(Sizes), NEW cur,
           NEW status \in {Null, "processing"}
    PROVE  LET u == [Catalog!NoChange EXCEPT !.status = status, !.original = size]
           IN  Catalog!PublishDefaults(u, cur) = u /\ u \in Catalog!Updates
  <1> DEFINE u == [Catalog!NoChange EXCEPT !.status = status, !.original = size]
  <1>1. Catalog!NoChange \in Catalog!Updates
    BY DEF Catalog!NoChange, Catalog!NoStage, Catalog!Updates, Catalog!Opt
  <1>2. status \in Catalog!Opt(Catalog!VideoStatuses) /\ status # "published"
    BY DEF Catalog!VideoStatuses, Catalog!Opt
  <1>3. u \in Catalog!Updates /\ u.status = status
    BY <1>1, <1>2 DEF Catalog!Updates
  <1> HIDE DEF u
  <1>4. Catalog!PublishDefaults(u, cur) = u
    BY <1>2, <1>3 DEF Catalog!PublishDefaults
  <1> QED
    BY <1>3, <1>4 DEF u

LEMMA CreatedEventType ==
    ASSUME NEW row \in Catalog!Rows
    PROVE  /\ Catalog!NewVideoCreatedEvent(row) \in Catalog!Events
  BY DEF Catalog!NewVideoCreatedEvent, Catalog!NoPayload, Catalog!Events,
         Catalog!Payloads, Catalog!Rows, Catalog!NoStage, Catalog!Opt

LEMMA UpdatedEventType ==
    ASSUME NEW u \in Catalog!Updates, NEW now \in Nat
    PROVE  /\ Catalog!NewVideoUpdatedEvent(u, now) \in Catalog!Events
           /\ Catalog!NewVideoUpdatedEvent(u, now).kind = "updated"
  BY DEF Catalog!NewVideoUpdatedEvent, Catalog!UpdatePayload, Catalog!Events,
         Catalog!Payloads, Catalog!Updates, Catalog!Opt

LEMMA IdleRequestType ==
    Catalog!IdleRequest \in Catalog!RequestStates /\ Catalog!IdleRequest.phase = "idle"
  BY DEF Catalog!IdleRequest, Catalog!RequestStates, Catalog!Opt, Catalog!NoChange,
         Catalog!NoStage, Catalog!Updates

-----------------------------------------------------------------------------
(* The second invariant.                                                   *)

(* A request of the catalog is the update its worker is in.                *)
InTheCatalog(w) ==
    req[w].phase # "idle" =>
        /\ worker[w].phase = "updating"
        /\ req[w].video = worker[w].row.video
        /\ req[w].video \in Videos
        /\ video[req[w].video] # Null
        /\ req[w].phase = "open" => req[w].startedAt \in Nat

(* What a worker in state x knows of the upload and of the video.          *)
Knows(x) ==
    /\ x.phase = "idle" => x.key = Null
    /\ x.key # Null => x.row.video = uploads[x.key].video
    /\ x.phase \in {"matched", "marked", "updating"} =>
          store[notices[x.notice]].md5 # "other"
    /\ x.phase \in {"idle", "matched", "mismatched"} => x.mark = Null
    /\ x.phase \in {"marked", "updating"} => x.mark = "completed"
    /\ x.phase = "matched" /\ x.row.status = "completed" => video[x.row.video] # Null
    /\ x.mark = "completed" /\ x.phase \in {"updating", "done"} =>
          video[x.row.video] # Null

(* The created event is the first of its video. *)
ToldFirst ==
    \A v \in Videos :
        /\ video[v] = Null => outbox[v] = <<>>
        /\ \A i \in DOMAIN outbox[v] : outbox[v][i].kind = "created" => i = 1

CatalogInv ==
    /\ failures \in 0 .. MaxFailures
    /\ Catalog!TypeOK
    /\ \A w \in Workers : InTheCatalog(w) /\ Knows(worker[w])
    /\ ToldFirst
    /\ CompletedHasVideo
    /\ VideoHasMatchingUpload

LEMMA InitCatalogInv == Init => CatalogInv
  <1> SUFFICES ASSUME Init PROVE CatalogInv
    OBVIOUS
  <1>1. Catalog!TypeOK
    BY IdleRequestType DEF Init, Catalog!Init, Catalog!TypeOK, Catalog!Opt
  <1>2. ASSUME NEW w \in Workers PROVE InTheCatalog(w) /\ Knows(worker[w])
    BY IdleRequestType DEF Init, Catalog!Init, InTheCatalog, Knows, Idle
  <1>3. ToldFirst /\ VideoHasMatchingUpload
    BY DEF Init, Catalog!Init, ToldFirst, VideoHasMatchingUpload
  <1>4. CompletedHasVideo /\ failures \in 0 .. MaxFailures
    BY DEF Init, CompletedHasVideo
  <1> QED
    BY <1>1, <1>2, <1>3, <1>4 DEF CatalogInv

(* Sessions, objects and messages that are there stay there.               *)
LEMMA UploadsAreKept ==
    ASSUME UploadsInv, [Next]_vars
    PROVE  /\ \A k \in Keys : issued[k] \subseteq issued'[k]
           /\ \A o \in Videos : store[o] # Null => store'[o] = store[o]
           /\ \A n \in Notices : notices[n] # Null => notices'[n] = notices[n]
  <1>1. SessionTypes
    BY DEF UploadsInv
  <1>2. ASSUME NEW i \in Inits, UpsertSession(i) \/ UpsertAnswerLost(i)
        PROVE  /\ \A k \in Keys : issued[k] \subseteq issued'[k]
               /\ UNCHANGED <<store, notices>>
    BY <1>1, <1>2 DEF UpsertSession, UpsertAnswerLost, UpsertCommits, SessionTypes, gcsVars
  <1>3. ASSUME NEW k \in Keys, NEW o \in Videos, NEW n \in Notices,
               NEW md5, NEW size, PutObject(k, o, n, md5, size)
        PROVE  /\ UNCHANGED issued
               /\ \A p \in Videos : store[p] # Null => store'[p] = store[p]
               /\ \A m \in Notices : notices[m] # Null => notices'[m] = notices[m]
    BY <1>1, <1>3 DEF PutObject, SessionTypes, sessionVars
  <1>4. ASSUME NEW o \in Videos, NEW n \in Notices, NotifyAgain(o, n)
        PROVE  /\ UNCHANGED <<issued, store>>
               /\ \A m \in Notices : notices[m] # Null => notices'[m] = notices[m]
    BY <1>1, <1>4 DEF NotifyAgain, SessionTypes, sessionVars
  <1>5. \/ \E i \in Inits : UpsertSession(i) \/ UpsertAnswerLost(i)
        \/ \E k \in Keys, o \in Videos, n \in Notices, object \in Finalized :
              PutObject(k, o, n, object.md5, object.size)
        \/ \E o \in Videos, n \in Notices : NotifyAgain(o, n)
        \/ UNCHANGED <<issued, store, notices>>
    BY DEF Next, vars, LookupSession, InitFails, HandleUnknown, HandleFinalize,
           HandlerStep, HandlerFails, MarkFailed, MarkCompleted, CreateVideo,
           UpdateBegins, UpdateCommits, CommitNotice, WaitTimesOut, Rollback,
           sessionVars, gcsVars
  <1> QED
    BY <1>2, <1>3, <1>4, <1>5

-----------------------------------------------------------------------------
(* The rows, events and requests of the catalog.                           *)

(* What a step does to the catalog, in a form that keeps its invariant.    *)
CatalogKept ==
    /\ Catalog!TypeOK'
    /\ ToldFirst'
    /\ \A v \in Videos : video[v] # Null => video'[v] # Null

LEMMA UnchangedCatalog ==
    ASSUME Catalog!TypeOK, ToldFirst, UNCHANGED <<video, outbox, clock, raced>>,
           req' \in [Workers -> Catalog!RequestStates]
    PROVE  CatalogKept
  BY DEF CatalogKept, Catalog!TypeOK, ToldFirst

(* The first half of the task's writes: the row with its created event, if *)
(* it is new, and the update to come.                                      *)
LEMMA FinalizeKeepsCatalog ==
    ASSUME Catalog!TypeOK, ToldFirst, NEW w \in Workers, NEW v \in Videos,
           NEW size \in Catalog!Opt(Sizes), Catalog!FinalizeUpload(w, v, size)
    PROVE  /\ CatalogKept
           /\ \A p \in Videos \ {v} : video'[p] = video[p]
           /\ video'[v] # Null
           /\ \A x \in Workers \ {w} : req'[x] = req[x]
           /\ req'[w].phase = "prepared" /\ req'[w].video = v
  <1> DEFINE new == Catalog!NewVideoRow(clock)
             event == Catalog!NewVideoCreatedEvent(new)
             status == IF video[v] = Null THEN "processing" ELSE Null
             cur == IF video[v] = Null THEN new ELSE video[v]
             u == [Catalog!NoChange EXCEPT !.status = status, !.original = size]
  <1>1. /\ new \in Catalog!Rows /\ new # Null
        /\ event \in Catalog!Events
    BY NewVideoRowType, CreatedEventType DEF Catalog!TypeOK
  <1>2. cur \in Catalog!Rows /\ cur.version \in Nat
    BY <1>1 DEF Catalog!TypeOK, Catalog!Opt, Catalog!Rows
  <1>3. PICK r : r = [phase |-> "prepared", op |-> "upload", video |-> v,
                      base |-> cur.version, expected |-> Null,
                      startedAt |-> Null, changes |-> u]
    OBVIOUS
  <1>4. u \in Catalog!Updates /\ Catalog!PublishDefaults(u, cur) = u
    <2> HIDE DEF cur
    <2> QED
      BY FinalizeUpdateType
  <1>5. r \in Catalog!RequestStates /\ r.phase = "prepared" /\ r.video = v
    <2> HIDE DEF u, cur
    <2> QED
      BY <1>2, <1>3, <1>4 DEF Catalog!RequestStates, Catalog!Opt, Catalog!Operations
  <1>6. req' = [req EXCEPT ![w] = r]
    <2>1. CASE video[v] = Null
      BY <1>3, <1>4, <2>1 DEF Catalog!FinalizeUpload, Catalog!Prepare
    <2>2. CASE video[v] # Null
      <3>1. status = Null /\ cur = video[v]
        BY <2>2
      <3>2. [Catalog!NoChange EXCEPT !.original = size] = u
        <4> HIDE DEF status
        <4>1. [Catalog!NoChange EXCEPT !.status = Null, !.original = size]
                 = [Catalog!NoChange EXCEPT !.original = size]
          <5>1. Catalog!NoChange \in Catalog!Updates /\ Catalog!NoChange.status = Null
            BY DEF Catalog!NoChange, Catalog!NoStage, Catalog!Updates, Catalog!Opt
          <5> QED
            BY <5>1 DEF Catalog!Updates
        <4> QED
          BY <3>1, <4>1
      <3>3. Catalog!Prepare(w, "upload", v, video[v], Null, u)
        BY <2>2, <3>2 DEF Catalog!FinalizeUpload
      <3> HIDE DEF u, cur
      <3> QED
        BY <1>3, <1>4, <3>1, <3>3 DEF Catalog!Prepare
    <2> QED
      BY <2>1, <2>2
  <1> HIDE DEF u, cur, status
  <1>7. /\ req' \in [Workers -> Catalog!RequestStates]
        /\ req'[w] = r
        /\ \A x \in Workers \ {w} : req'[x] = req[x]
    BY <1>5, <1>6 DEF Catalog!TypeOK
  <1>8. CASE video[v] = Null
    <2>1. /\ video' = [video EXCEPT ![v] = new]
          /\ outbox' = [outbox EXCEPT ![v] = Append(@, event)]
          /\ UNCHANGED <<clock, raced>>
      BY <1>8 DEF Catalog!FinalizeUpload, Catalog!CreateVideo
    <2> HIDE DEF new, event
    <2>2. outbox[v] = <<>> /\ Append(outbox[v], event) = <<event>>
      <3>1. outbox[v] = <<>>
        BY <1>8 DEF ToldFirst
      <3>2. Append(<<>>, event) = <<event>>
        OBVIOUS
      <3> QED
        BY <3>1, <3>2
    <2>3. Append(outbox[v], event) \in Seq(Catalog!Events)
      BY <1>1, <2>2
    <2>4. Catalog!TypeOK'
      BY <1>1, <1>7, <2>1, <2>3 DEF Catalog!TypeOK, Catalog!Opt
    <2>5. /\ video'[v] = new /\ outbox'[v] = <<event>>
          /\ \A p \in Videos \ {v} : video'[p] = video[p] /\ outbox'[p] = outbox[p]
      BY <2>1, <2>2 DEF Catalog!TypeOK
    <2>6. ToldFirst'
      BY <1>1, <2>5 DEF ToldFirst
    <2> QED
      BY <1>1, <1>5, <1>7, <2>4, <2>5, <2>6 DEF CatalogKept
  <1>9. CASE video[v] # Null
    <2>1. UNCHANGED <<video, outbox, clock, raced>>
      BY <1>9 DEF Catalog!FinalizeUpload
    <2> QED
      BY <1>5, <1>7, <1>9, <2>1, UnchangedCatalog
  <1> QED
    BY <1>8, <1>9

LEMMA BeginKeepsCatalog ==
    ASSUME Catalog!TypeOK, ToldFirst, NEW w \in Workers, Catalog!Begin(w)
    PROVE  /\ CatalogKept
           /\ UNCHANGED video
           /\ \A x \in Workers \ {w} : req'[x] = req[x]
           /\ req'[w].video = req[w].video
           /\ req'[w].startedAt \in Nat
  <1>1. PICK r : r = [req[w] EXCEPT !.phase = "open", !.startedAt = clock]
    OBVIOUS
  <1>2. clock \in Catalog!Opt(Nat) /\ req[w] \in Catalog!RequestStates /\ clock \in Nat
    BY DEF Catalog!TypeOK, Catalog!Opt
  <1>3. /\ r \in Catalog!RequestStates
        /\ r.video = req[w].video /\ r.startedAt = clock
    BY <1>1, <1>2 DEF Catalog!RequestStates
  <1>4. req' = [req EXCEPT ![w] = r]
    BY <1>1 DEF Catalog!Begin
  <1>5. /\ req' \in [Workers -> Catalog!RequestStates]
        /\ req'[w] = r
        /\ \A x \in Workers \ {w} : req'[x] = req[x]
    BY <1>3, <1>4 DEF Catalog!TypeOK
  <1>6. UNCHANGED <<video, outbox, clock, raced>>
    BY DEF Catalog!Begin
  <1> QED
    BY <1>2, <1>3, <1>5, <1>6, UnchangedCatalog

LEMMA AbortKeepsCatalog ==
    ASSUME Catalog!TypeOK, ToldFirst, NEW w \in Workers, Catalog!Abort(w)
    PROVE  /\ CatalogKept
           /\ UNCHANGED video
           /\ \A x \in Workers \ {w} : req'[x] = req[x]
           /\ req'[w].phase = "idle"
  <1>1. req' = [req EXCEPT ![w] = Catalog!IdleRequest]
    BY DEF Catalog!Abort
  <1>2. /\ req' \in [Workers -> Catalog!RequestStates]
        /\ req'[w] = Catalog!IdleRequest
        /\ \A x \in Workers \ {w} : req'[x] = req[x]
    BY <1>1, IdleRequestType DEF Catalog!TypeOK
  <1>3. UNCHANGED <<video, outbox, clock, raced>>
    BY DEF Catalog!Abort
  <1> QED
    BY <1>2, <1>3, IdleRequestType, UnchangedCatalog

LEMMA CommitKeepsCatalog ==
    ASSUME Catalog!TypeOK, ToldFirst, NEW w \in Workers, Catalog!Commit(w),
           req[w].video \in Videos, video[req[w].video] # Null,
           req[w].startedAt \in Nat
    PROVE  /\ CatalogKept
           /\ \A v \in Videos : video'[v] # Null => video[v] # Null
           /\ \A x \in Workers \ {w} : req'[x] = req[x]
           /\ req'[w].phase = "idle"
  <1> DEFINE v == req[w].video
             u == req[w].changes
             now == req[w].startedAt
             row == Catalog!UpdateVideoRow(video[v], u, now)
             event == Catalog!NewVideoUpdatedEvent(u, now)
  <1>1. u \in Catalog!Updates /\ video[v] \in Catalog!Rows
    BY DEF Catalog!TypeOK, Catalog!RequestStates, Catalog!Opt
  <1>2. row \in Catalog!Rows /\ row # Null
    BY <1>1, UpdateVideoRowType
  <1>3. event \in Catalog!Events /\ event.kind = "updated"
    BY <1>1, UpdatedEventType
  <1>4. video' = [video EXCEPT ![v] = row] /\ clock' = clock
    BY DEF Catalog!Commit
  <1>5. outbox' = outbox \/ outbox' = [outbox EXCEPT ![v] = Append(@, event)]
    BY DEF Catalog!Commit, Catalog!EnqueueUpdated
  <1>6. req' = [req EXCEPT ![w] = Catalog!IdleRequest]
    BY DEF Catalog!Commit
  <1>7. raced' \in [Videos -> BOOLEAN]
    BY DEF Catalog!Commit, Catalog!TypeOK, Catalog!Stale, Catalog!DecidesStatus
  <1>8. outbox[v] \in Seq(Catalog!Events) /\ v \in Videos
    BY DEF Catalog!TypeOK
  <1> HIDE DEF v, u, now, row, event
  <1>9. /\ Append(outbox[v], event) \in Seq(Catalog!Events)
        /\ \A i \in DOMAIN Append(outbox[v], event) :
              Append(outbox[v], event)[i].kind = "created" =>
                 i \in DOMAIN outbox[v] /\ outbox[v][i].kind = "created"
    BY <1>3, <1>8
  <1>10. /\ req' \in [Workers -> Catalog!RequestStates]
         /\ req'[w] = Catalog!IdleRequest
         /\ \A x \in Workers \ {w} : req'[x] = req[x]
    BY <1>6, IdleRequestType DEF Catalog!TypeOK
  <1>11. /\ video'[v] = row
         /\ video' \in [Videos -> Catalog!Opt(Catalog!Rows)]
         /\ \A p \in Videos \ {v} : video'[p] = video[p]
    BY <1>2, <1>4, <1>8 DEF Catalog!TypeOK, Catalog!Opt
  <1>12. /\ outbox' \in [Videos -> Seq(Catalog!Events)]
         /\ outbox'[v] \in {outbox[v], Append(outbox[v], event)}
         /\ \A p \in Videos \ {v} : outbox'[p] = outbox[p]
    <2>1. outbox \in [Videos -> Seq(Catalog!Events)]
      BY DEF Catalog!TypeOK
    <2>2. CASE outbox' = outbox
      BY <1>8, <2>1, <2>2
    <2>3. CASE outbox' = [outbox EXCEPT ![v] = Append(outbox[v], event)]
      BY <1>8, <1>9, <2>1, <2>3
    <2> QED
      BY <1>5, <2>2, <2>3
  <1>13. Catalog!TypeOK'
    BY <1>4, <1>7, <1>10, <1>11, <1>12 DEF Catalog!TypeOK
  <1>14. ToldFirst'
    <2> SUFFICES ASSUME NEW p \in Videos
                 PROVE  /\ video'[p] = Null => outbox'[p] = <<>>
                        /\ \A i \in DOMAIN outbox'[p] :
                              outbox'[p][i].kind = "created" => i = 1
      BY DEF ToldFirst
    <2>1. CASE p # v
      BY <1>11, <1>12, <2>1 DEF ToldFirst
    <2>2. CASE p = v
      BY <1>2, <1>8, <1>9, <1>11, <1>12, <2>2 DEF ToldFirst
    <2> QED
      BY <2>1, <2>2
  <1>15. \A p \in Videos : (video[p] # Null <=> video'[p] # Null)
    BY <1>1, <1>2, <1>11 DEF v
  <1> QED
    BY <1>10, <1>13, <1>14, <1>15, IdleRequestType DEF CatalogKept

-----------------------------------------------------------------------------
(* Workers.                                                                *)

(* Video v has an upload that does not contradict its session. *)
Matched(v) ==
    \E k \in Keys :
        /\ uploads[k] # Null
        /\ uploads[k].video = v
        /\ \E o \in issued[k] : store[o] # Null /\ store[o].md5 # "other"

(* A step of worker w that leaves everything in order. *)
GoodStep(w) ==
    /\ CatalogKept
    /\ \A y \in Workers \ {w} : worker'[y] = worker[y] /\ req'[y] = req[y]
    /\ InTheCatalog(w)'
    /\ Knows(worker[w])'
    /\ \A v \in Videos : video'[v] # Null => video[v] # Null \/ Matched(v)

(* What nobody touches stays in order. *)
LEMMA OthersAreKept ==
    ASSUME UploadsInv, CatalogInv, [Next]_vars, NEW y \in Workers,
           worker'[y] = worker[y], req'[y] = req[y],
           \A v \in Videos : video[v] # Null => video'[v] # Null
    PROVE  InTheCatalog(y)' /\ Knows(worker[y])'
  <1> DEFINE x == worker[y]
  <1>1. InTheCatalog(y) /\ Knows(x) /\ InHand(x) /\ x \in WorkerStates
    BY DEF CatalogInv, UploadsInv, AtWork, SessionTypes
  <1>2. InTheCatalog(y)'
    BY <1>1 DEF InTheCatalog
  <1>3. CASE x.phase = "idle"
    <2>1. x.mark = Null /\ x.key = Null /\ Null # "completed"
      BY <1>1, <1>3 DEF Knows, UploadStatuses
    <2> QED
      BY <1>2, <1>3, <2>1 DEF Knows
  <1>4. CASE x.phase # "idle"
    <2>1. /\ x.notice \in Notices
          /\ notices'[x.notice] = notices[x.notice]
          /\ notices[x.notice] \in Videos
          /\ store'[notices[x.notice]] = store[notices[x.notice]]
      BY <1>1, <1>4, UploadsAreKept DEF InHand, UploadsInv, Told, SessionTypes, Opt
    <2>2. ASSUME x.key # Null
          PROVE  /\ x.row.video \in Videos
                 /\ x.row.video = uploads'[x.key].video
      BY <1>1, <1>4, <2>2, VideosAreKept
         DEF Knows, InHand, WorkerStates, Opt, Sessions
    <2>3. x.mark # Null \/ x.phase # "done" => x.key # Null
      BY <1>1, <1>4 DEF InHand
    <2>4. Null # "completed"
      BY DEF UploadStatuses
    <2> QED
      BY <1>1, <1>2, <1>4, <2>1, <2>2, <2>3, <2>4 DEF Knows
  <1> QED
    BY <1>3, <1>4

(* A worker that is not in UpdateVideo has no request under way. *)
LEMMA NoRequest ==
    ASSUME CatalogInv, NEW w \in Workers, worker[w].phase # "updating"
    PROVE  req[w].phase = "idle"
  BY DEF CatalogInv, InTheCatalog

(* A step of a worker that is in no transaction of the lifecycle writer. *)
LEMMA SessionStep ==
    ASSUME UploadsInv, CatalogInv, NEW w \in Workers, NEW x,
           worker' = [worker EXCEPT ![w] = x], UNCHANGED catalogVars,
           worker[w].phase # "updating", Knows(x)'
    PROVE  GoodStep(w)
  <1>1. /\ worker'[w] = x
        /\ \A y \in Workers \ {w} : worker'[y] = worker[y]
    BY DEF UploadsInv, SessionTypes
  <1>2. UNCHANGED <<video, outbox, clock, raced, req>>
    BY DEF catalogVars
  <1>3. CatalogKept
    BY <1>2, UnchangedCatalog DEF CatalogInv, Catalog!TypeOK
  <1>4. InTheCatalog(w)'
    BY <1>2, NoRequest DEF InTheCatalog
  <1>5. Knows(worker[w])'
    BY <1>1
  <1> QED
    BY <1>1, <1>2, <1>3, <1>4, <1>5 DEF GoodStep

LEMMA TakeStep ==
    ASSUME UploadsInv, CatalogInv, NEW w \in Workers, NEW n \in Notices,
           HandleUnknown(w, n) \/ HandleFinalize(w, n)
    PROVE  GoodStep(w)
  <1>1. /\ UNCHANGED catalogVars /\ UNCHANGED <<uploads, store, notices>>
        /\ worker[w].phase = "idle"
    BY DEF HandleUnknown, HandleFinalize, TakeNotice, sessionVars, gcsVars
  <1>2. UNCHANGED video
    BY <1>1 DEF catalogVars
  <1>3. CASE HandleUnknown(w, n)
    <2>1. PICK x : x = [Idle EXCEPT !.phase = "done", !.notice = n]
      OBVIOUS
    <2>2. x.key = Null /\ x.mark = Null /\ x.phase = "done" /\ Null # "completed"
      BY <2>1 DEF Idle, UploadStatuses
    <2>3. Knows(x)'
      BY <2>2 DEF Knows
    <2>4. worker' = [worker EXCEPT ![w] = x]
      BY <1>3, <2>1 DEF HandleUnknown
    <2> QED
      BY <1>1, <2>3, <2>4, SessionStep
  <1>4. CASE HandleFinalize(w, n)
    <2>1. PICK k \in Keys :
             /\ uploads[k] # Null
             /\ worker' = [worker EXCEPT ![w] =
                   [phase |-> Verdict(uploads[k], notices[n]), notice |-> n,
                    key |-> k, row |-> uploads[k], mark |-> Null]]
      BY <1>4 DEF HandleFinalize
    <2>2. PICK verdict : verdict = Verdict(uploads[k], notices[n])
      OBVIOUS
    <2>3. /\ verdict \in {"done", "mismatched", "matched"}
          /\ verdict = "matched" => store[notices[n]].md5 # "other"
      BY <2>2 DEF Verdict
    <2>4. PICK x : x = [phase |-> verdict, notice |-> n, key |-> k,
                        row |-> uploads[k], mark |-> Null]
      OBVIOUS
    <2>5. /\ x.phase = verdict /\ x.notice = n /\ x.key = k
          /\ x.row = uploads[k] /\ x.mark = Null /\ Null # "completed"
      BY <2>4 DEF UploadStatuses
    <2>6. uploads[k].status = "completed" => video[uploads[k].video] # Null
      BY <2>1 DEF CatalogInv, CompletedHasVideo
    <2>7. Knows(x)'
      BY <1>1, <1>2, <2>3, <2>5, <2>6 DEF Knows
    <2>8. worker' = [worker EXCEPT ![w] = x]
      BY <2>1, <2>2, <2>4
    <2> QED
      BY <1>1, <2>7, <2>8, SessionStep
  <1> QED
    BY <1>3, <1>4

LEMMA MarkStep ==
    ASSUME UploadsInv, CatalogInv, NEW w \in Workers, MarkFailed(w) \/ MarkCompleted(w)
    PROVE  GoodStep(w)
  <1>1. /\ UNCHANGED catalogVars /\ UNCHANGED <<uploads, store, notices>>
        /\ worker[w].phase \in {"mismatched", "matched"}
    BY DEF MarkFailed, MarkCompleted, sessionVars, gcsVars
  <1>2. UNCHANGED video
    BY <1>1 DEF catalogVars
  <1>3. PICK phase \in {"marked", "done"}, mark \in {"completed", "failed"} :
           /\ worker' = [worker EXCEPT ![w].phase = phase, ![w].mark = mark]
           /\ worker[w].phase = IF mark = "failed" THEN "mismatched" ELSE "matched"
           /\ phase = "done" /\ mark = "completed" =>
                 worker[w].row.status = "completed"
           /\ mark = "failed" => phase = "done"
    BY DEF MarkFailed, MarkCompleted
  <1>4. PICK x : x = [worker[w] EXCEPT !.phase = phase, !.mark = mark]
    OBVIOUS
  <1>5. /\ x.phase = phase /\ x.mark = mark
        /\ x.notice = worker[w].notice /\ x.key = worker[w].key
        /\ x.row = worker[w].row
        /\ worker' = [worker EXCEPT ![w] = x]
    BY ZenonT(40), <1>3, <1>4 DEF UploadsInv, SessionTypes, WorkerStates
  <1>6. Knows(worker[w])
    BY DEF CatalogInv
  <1>7. Knows(x)'
    BY <1>1, <1>2, <1>3, <1>5, <1>6 DEF Knows
  <1> QED
    BY <1>1, <1>5, <1>7, SessionStep

LEMMA CreateStep ==
    ASSUME UploadsInv, CatalogInv, NEW w \in Workers, CreateVideo(w)
    PROVE  GoodStep(w)
  <1> DEFINE v == worker[w].row.video
             n == worker[w].notice
             k == worker[w].key
             size == store[notices[n]].size
  <1>1. /\ UNCHANGED <<uploads, issued, store, notices>>
        /\ worker[w].phase = "marked"
    BY DEF CreateVideo, sessionVars, gcsVars
  <1>2. /\ InHand(worker[w]) /\ Knows(worker[w])
        /\ worker[w] \in WorkerStates
        /\ worker \in [Workers -> WorkerStates]
    BY DEF UploadsInv, AtWork, CatalogInv, SessionTypes
  <1>3. /\ n \in Notices /\ k \in Keys /\ worker[w].row \in Sessions
        /\ uploads[k] # Null /\ uploads[k].video = v
        /\ notices[n] \in Videos /\ notices[n] \in named[k]
        /\ store[notices[n]] # Null /\ store[notices[n]].md5 # "other"
        /\ worker[w].mark = "completed"
    BY <1>1, <1>2 DEF InHand, Knows, UploadsInv, SessionTypes, Told, WorkerStates, Opt
  <1>4. /\ v \in Videos
        /\ store[notices[n]] \in Finalized
    BY <1>2, <1>3 DEF Sessions, InHand, UploadsInv, SessionTypes, Opt
  <1>5. size \in Catalog!Opt(Sizes)
    BY <1>4 DEF Finalized, Opt, Catalog!Opt
  (* Who uploaded the object had its URL from this very session.            *)
  <1>6. Matched(v)
    <2>1. PICK j \in Keys : notices[n] \in issued[j]
      BY <1>3 DEF UploadsInv, Told
    <2>2. j = k
      BY <1>3, <2>1 DEF UploadsInv, SessionTypes, Apart
    <2> QED
      BY <1>3, <2>1, <2>2 DEF Matched
  <1>7. CASE /\ Catalog!FinalizeUpload(w, v, size)
             /\ worker' = [worker EXCEPT ![w].phase = "updating"]
    <2>1. PICK x : x = [worker[w] EXCEPT !.phase = "updating"]
      OBVIOUS
    <2>2. /\ x.phase = "updating" /\ x.mark = worker[w].mark
          /\ x.notice = n /\ x.key = k /\ x.row = worker[w].row
          /\ worker' = [worker EXCEPT ![w] = x]
          /\ worker'[w] = x
          /\ \A y \in Workers \ {w} : worker'[y] = worker[y]
      BY <1>2, <1>7, <2>1 DEF WorkerStates
    <2>3. Catalog!TypeOK /\ ToldFirst
      BY DEF CatalogInv
    <2> HIDE DEF v, size, n, k
    <2>4. /\ CatalogKept
          /\ \A p \in Videos \ {v} : video'[p] = video[p]
          /\ video'[v] # Null
          /\ \A y \in Workers \ {w} : req'[y] = req[y]
          /\ req'[w].phase = "prepared" /\ req'[w].video = v
      BY <1>4, <1>5, <1>7, <2>3, FinalizeKeepsCatalog
    <2>5. InTheCatalog(w)'
      BY <1>4, <2>2, <2>4 DEF InTheCatalog, v
    <2>6. Knows(worker[w])'
      BY <1>1, <1>3, <2>2, <2>4 DEF Knows, v, n, k
    <2> QED
      BY <1>6, <2>2, <2>4, <2>5, <2>6 DEF GoodStep
  <1>8. CASE /\ video[v] # Null /\ worker' = [worker EXCEPT ![w].phase = "done"]
             /\ UNCHANGED catalogVars
    <2>1. PICK x : x = [worker[w] EXCEPT !.phase = "done"]
      OBVIOUS
    <2>2. /\ x.phase = "done" /\ x.mark = worker[w].mark
          /\ x.notice = n /\ x.key = k /\ x.row = worker[w].row
          /\ worker' = [worker EXCEPT ![w] = x]
      BY <1>2, <1>8, <2>1 DEF WorkerStates
    <2>3. UNCHANGED video
      BY <1>8 DEF catalogVars
    <2>4. Knows(x)'
      BY <1>1, <1>3, <1>8, <2>2, <2>3 DEF Knows
    <2> QED
      BY <1>1, <1>8, <2>2, <2>4, SessionStep
  <1> QED
    BY <1>7, <1>8 DEF CreateVideo

LEMMA UpdateStep ==
    ASSUME UploadsInv, CatalogInv, NEW w \in Workers, UpdateBegins(w) \/ UpdateCommits(w)
    PROVE  GoodStep(w)
  <1>1. /\ UNCHANGED <<uploads, issued, store, notices>>
        /\ worker[w].phase = "updating"
    BY DEF UpdateBegins, UpdateCommits, sessionVars, gcsVars
  <1>2. /\ InTheCatalog(w) /\ Knows(worker[w]) /\ worker[w] \in WorkerStates
        /\ worker \in [Workers -> WorkerStates]
        /\ InHand(worker[w])
        /\ Catalog!TypeOK /\ ToldFirst
    BY DEF UploadsInv, AtWork, CatalogInv, SessionTypes
  <1>3. /\ worker[w].row.video \in Videos /\ worker[w].mark = "completed"
        /\ video[worker[w].row.video] # Null
    BY <1>1, <1>2 DEF Knows, InHand, Sessions
  <1>4. CASE UpdateBegins(w)
    <2>1. Catalog!Begin(w) /\ worker' = worker
      BY <1>4 DEF UpdateBegins
    <2>2. /\ CatalogKept
          /\ UNCHANGED video
          /\ \A x \in Workers \ {w} : req'[x] = req[x]
          /\ req'[w].video = req[w].video
          /\ req'[w].startedAt \in Nat
      BY <1>2, <2>1, BeginKeepsCatalog
    <2>3. req[w].phase # "idle"
      BY <2>1 DEF Catalog!Begin
    <2>4. InTheCatalog(w)'
      BY <1>2, <2>1, <2>2, <2>3 DEF InTheCatalog
    <2>5. Knows(worker[w])'
      BY <1>1, <1>2, <2>1, <2>2 DEF Knows
    <2> QED
      BY <2>1, <2>2, <2>4, <2>5 DEF GoodStep
  <1>5. CASE UpdateCommits(w)
    <2>1. Catalog!Commit(w) /\ worker' = [worker EXCEPT ![w].phase = "done"]
      BY <1>5 DEF UpdateCommits
    <2>2. req[w].phase = "open"
      BY <2>1 DEF Catalog!Commit
    <2>3. /\ CatalogKept
          /\ \A v \in Videos : video'[v] # Null => video[v] # Null
          /\ \A x \in Workers \ {w} : req'[x] = req[x]
          /\ req'[w].phase = "idle"
      BY <1>2, <2>1, <2>2, CommitKeepsCatalog DEF InTheCatalog
    <2>4. PICK x : x = [worker[w] EXCEPT !.phase = "done"]
      OBVIOUS
    <2>5. /\ x.phase = "done" /\ x.mark = worker[w].mark
          /\ x.notice = worker[w].notice /\ x.key = worker[w].key
          /\ x.row = worker[w].row
          /\ worker'[w] = x
          /\ \A y \in Workers \ {w} : worker'[y] = worker[y]
      BY <1>2, <2>1, <2>4 DEF WorkerStates
    <2>6. InTheCatalog(w)'
      BY <2>3 DEF InTheCatalog
    <2>7. Knows(worker[w])'
      BY <1>1, <1>2, <1>3, <2>3, <2>5 DEF Knows, CatalogKept
    <2> QED
      BY <2>3, <2>5, <2>6, <2>7 DEF GoodStep
  <1> QED
    BY <1>4, <1>5

(* The worker has finished, or given up, and is idle again. *)
LEMMA KnowsNothing == Knows(Idle)'
  <1>1. Idle.key = Null /\ Idle.mark = Null /\ Idle.phase = "idle" /\ Null # "completed"
    BY DEF Idle, UploadStatuses
  <1> HIDE DEF Idle
  <1> QED
    BY <1>1 DEF Knows

LEMMA EndStep ==
    ASSUME UploadsInv, CatalogInv, NEW w \in Workers, CommitNotice(w) \/ Rollback(w)
    PROVE  GoodStep(w)
  <1>1. worker' = [worker EXCEPT ![w] = Idle]
    BY DEF CommitNotice, Rollback
  <1>2. CASE req[w].phase = "idle"
    <2>1. UNCHANGED catalogVars
      BY <1>2 DEF CommitNotice, Rollback
    <2>2. UNCHANGED <<video, outbox, clock, raced, req>>
      BY <2>1 DEF catalogVars
    <2>3. /\ worker'[w] = Idle
          /\ \A y \in Workers \ {w} : worker'[y] = worker[y]
      BY <1>1 DEF UploadsInv, SessionTypes
    <2>4. CatalogKept
      BY <2>2, UnchangedCatalog DEF CatalogInv, Catalog!TypeOK
    <2>5. InTheCatalog(w)'
      BY <1>2, <2>2 DEF InTheCatalog
    <2>6. Knows(worker[w])'
      BY <2>3, KnowsNothing
    <2> QED
      BY <2>2, <2>3, <2>4, <2>5, <2>6 DEF GoodStep
  <1>3. CASE req[w].phase # "idle"
    <2>1. Catalog!Abort(w)
      BY <1>3, NoRequest DEF CommitNotice, Rollback
    <2>2. /\ CatalogKept
          /\ UNCHANGED video
          /\ \A x \in Workers \ {w} : req'[x] = req[x]
          /\ req'[w].phase = "idle"
      BY <2>1, AbortKeepsCatalog DEF CatalogInv
    <2>3. /\ worker'[w] = Idle
          /\ \A y \in Workers \ {w} : worker'[y] = worker[y]
      BY <1>1 DEF UploadsInv, SessionTypes
    <2>4. InTheCatalog(w)' /\ Knows(worker[w])'
      BY <2>2, <2>3, KnowsNothing DEF InTheCatalog
    <2> QED
      BY <2>2, <2>3, <2>4 DEF GoodStep
  <1> QED
    BY <1>2, <1>3

-----------------------------------------------------------------------------
(* The step.                                                               *)

(* Matching uploads stay. *)
LEMMA MatchedIsKept ==
    ASSUME UploadsInv, [Next]_vars, NEW v, Matched(v)
    PROVE  \E k \in Keys :
              /\ uploads'[k] # Null
              /\ uploads'[k].video = v
              /\ \E o \in issued'[k] : store'[o] # Null /\ store'[o].md5 # "other"
  <1>1. PICK k \in Keys :
           /\ uploads[k] # Null /\ uploads[k].video = v
           /\ \E o \in issued[k] : store[o] # Null /\ store[o].md5 # "other"
    BY DEF Matched
  <1>2. PICK o \in issued[k] : store[o] # Null /\ store[o].md5 # "other"
    BY <1>1
  <1>3. uploads'[k] # Null /\ uploads'[k].video = v
    BY <1>1, VideosAreKept
  <1>4. o \in issued'[k] /\ store'[o] # Null /\ store'[o].md5 # "other"
    BY <1>2, UploadsAreKept DEF UploadsInv, SessionTypes
  <1> QED
    BY <1>3, <1>4

(* A session becomes completed only when a worker commits that mark.       *)
LEMMA CompletedBy ==
    ASSUME UploadsInv, [Next]_vars, NEW k \in Keys,
           uploads'[k] # Null, uploads'[k].status = "completed"
    PROVE  /\ uploads[k] # Null
           /\ uploads'[k].video = uploads[k].video
           /\ \/ uploads[k].status = "completed"
              \/ \E w \in Workers : /\ worker[w].phase = "done"
                                    /\ worker[w].mark = "completed"
                                    /\ worker[w].key = k
  <1>1. SessionTypes
    BY DEF UploadsInv
  <1>2. CASE UNCHANGED uploads
    BY <1>2
  <1>3. ASSUME NEW i \in Inits, UpsertCommits(i)
        PROVE  /\ uploads[k] # Null /\ uploads[k].status = "completed"
               /\ uploads'[k].video = uploads[k].video
    <2>1. \/ uploads'[k] = uploads[k]
          \/ uploads'[k] = UpsertUpload(uploads[k], inits[i])
      BY <1>1, <1>3 DEF UpsertCommits, SessionTypes
    <2>2. /\ uploads[k] # Null => uploads[k] \in Sessions
          /\ "uploading" # "completed"
      BY <1>1 DEF SessionTypes, Opt
    <2>3. CASE uploads'[k] = UpsertUpload(uploads[k], inits[i])
      <3>1. CASE uploads[k] = Null
        BY <2>3, <3>1 DEF UpsertUpload
      <3>2. CASE uploads[k] # Null
        BY <2>2, <2>3, <3>2 DEF UpsertUpload, Sessions
      <3> QED
        BY <3>1, <3>2
    <2> QED
      BY <2>1, <2>3
  <1>4. ASSUME NEW w \in Workers, CommitNotice(w)
        PROVE  /\ uploads[k] # Null
               /\ uploads'[k].video = uploads[k].video
               /\ \/ uploads[k].status = "completed"
                  \/ /\ worker[w].phase = "done" /\ worker[w].mark = "completed"
                     /\ worker[w].key = k
    <2>1. InHand(worker[w]) /\ worker[w].phase = "done"
      BY <1>4 DEF CommitNotice, UploadsInv, AtWork
    <2>2. CASE worker[w].mark = Null \/ worker[w].key # k
      <3>1. uploads'[k] = uploads[k]
        BY <1>1, <1>4, <2>2 DEF CommitNotice, SessionTypes
      <3> QED
        BY <3>1
    <2>3. CASE worker[w].mark # Null /\ worker[w].key = k
      <3>1. uploads'[k] = MarkedRow(w)
        BY <1>1, <1>4, <2>3 DEF CommitNotice, SessionTypes
      <3>2. worker[w].notice \in Notices /\ uploads[k] # Null /\ uploads[k] \in Sessions
        BY <1>1, <2>1, <2>3 DEF InHand, SessionTypes, Opt
      <3>3. /\ MarkedRow(w).video = uploads[k].video
            /\ MarkedRow(w).status =
                  IF worker[w].mark = "completed" THEN "completed" ELSE "failed"
        BY <1>1, <2>3, <3>2, Marked
      <3> QED
        BY <2>1, <2>3, <3>1, <3>2, <3>3
    <2> QED
      BY <2>2, <2>3
  <1>5. \/ \E i \in Inits : UpsertCommits(i)
        \/ \E w \in Workers : CommitNotice(w)
        \/ UNCHANGED uploads
    BY DEF Next, vars, UpsertSession, UpsertAnswerLost, LookupSession, InitFails, PutObject, NotifyAgain, HandleUnknown,
           HandleFinalize, HandlerStep, HandlerFails, MarkFailed, MarkCompleted,
           CreateVideo, UpdateBegins, UpdateCommits, WaitTimesOut, Rollback, sessionVars
  <1> QED
    BY <1>2, <1>3, <1>4, <1>5

LEMMA CompletedBefore ==
    ASSUME UploadsInv, CatalogInv, [Next]_vars, NEW k \in Keys,
           uploads'[k] # Null, uploads'[k].status = "completed"
    PROVE  video[uploads'[k].video] # Null
  <1>1. CASE uploads[k].status = "completed"
    BY <1>1, CompletedBy DEF CatalogInv, CompletedHasVideo
  <1>2. ASSUME NEW w \in Workers, worker[w].phase = "done",
               worker[w].mark = "completed", worker[w].key = k
        PROVE  video[uploads'[k].video] # Null
    <2>1. k # Null
      OBVIOUS
    <2> QED
      BY <1>2, <2>1, CompletedBy DEF CatalogInv, Knows
  <1> QED
    BY <1>1, <1>2, CompletedBy

LEMMA FailuresAreBounded ==
    ASSUME CatalogInv, [Next]_vars
    PROVE  failures' \in 0 .. MaxFailures
  <1>1. ASSUME NEW w \in Workers, HandlerFails(w)
        PROVE  failures' \in 0 .. MaxFailures
    BY <1>1 DEF HandlerFails, CatalogInv
  <1>2. (\E w \in Workers : HandlerFails(w)) \/ UNCHANGED failures
    BY DEF Next, vars, LookupSession, UpsertSession, UpsertAnswerLost, UpsertCommits, InitFails, PutObject, NotifyAgain,
           HandleUnknown, HandleFinalize, HandlerStep, MarkFailed, MarkCompleted,
           CreateVideo, UpdateBegins, UpdateCommits, CommitNotice, WaitTimesOut, troubleVars
  <1> QED
    BY <1>1, <1>2 DEF CatalogInv

LEMMA NextKeepsCatalogInv == UploadsInv /\ CatalogInv /\ [Next]_vars => CatalogInv'
  <1> SUFFICES ASSUME UploadsInv, CatalogInv, [Next]_vars
               PROVE  CatalogInv'
    OBVIOUS
  <1>1. \/ \E w \in Workers : GoodStep(w)
        \/ UNCHANGED <<worker, catalogVars>>
    <2>1. ASSUME NEW w \in Workers, HandlerStep(w) \/ HandlerFails(w)
          PROVE  GoodStep(w)
      <3>1. \/ MarkFailed(w) \/ MarkCompleted(w) \/ CreateVideo(w)
            \/ UpdateBegins(w) \/ UpdateCommits(w) \/ CommitNotice(w) \/ Rollback(w)
        BY <2>1 DEF HandlerStep, HandlerFails, WaitTimesOut
      <3> QED
        BY <3>1, MarkStep, CreateStep, UpdateStep, EndStep
    <2>2. \/ \E w \in Workers, n \in Notices : HandleUnknown(w, n) \/ HandleFinalize(w, n)
          \/ \E w \in Workers : HandlerStep(w) \/ HandlerFails(w)
          \/ UNCHANGED <<worker, catalogVars>>
      BY DEF Next, vars, LookupSession, UpsertSession, UpsertAnswerLost, UpsertCommits, InitFails, PutObject, NotifyAgain,
             catalogVars
    <2> QED
      BY <2>1, <2>2, TakeStep
  <1>2. CatalogKept /\ \A v \in Videos : video'[v] # Null => video[v] # Null \/ Matched(v)
    <2>1. ASSUME UNCHANGED <<worker, catalogVars>>
          PROVE  CatalogKept /\ UNCHANGED video
      <3>1. UNCHANGED <<video, outbox, clock, raced, req>>
        BY <2>1 DEF catalogVars
      <3> QED
        BY <3>1, UnchangedCatalog DEF CatalogInv, Catalog!TypeOK
    <2> QED
      BY <1>1, <2>1 DEF GoodStep
  <1>3. ASSUME NEW y \in Workers PROVE InTheCatalog(y)' /\ Knows(worker[y])'
    <2>1. \A v \in Videos : video[v] # Null => video'[v] # Null
      BY <1>2 DEF CatalogKept
    <2>2. CASE worker'[y] = worker[y] /\ req'[y] = req[y]
      BY <2>1, <2>2, OthersAreKept
    <2>3. CASE GoodStep(y)
      BY <2>3 DEF GoodStep
    <2> QED
      BY <1>1, <2>2, <2>3 DEF GoodStep, catalogVars
  <1>4. CompletedHasVideo'
    <2> SUFFICES ASSUME NEW k \in Keys, uploads'[k] # Null, uploads'[k].status = "completed"
                 PROVE  video'[uploads'[k].video] # Null
      BY DEF CompletedHasVideo
    <2>1. video[uploads'[k].video] # Null
      BY CompletedBefore
    <2>2. uploads'[k].video \in Videos
      <3>1. UploadsInv'
        BY NextKeepsInv
      <3> QED
        BY <3>1 DEF UploadsInv, SessionTypes, Opt, Sessions
    <2> QED
      BY <1>2, <2>1, <2>2 DEF CatalogKept
  <1>5. VideoHasMatchingUpload'
    <2> SUFFICES ASSUME NEW v \in Videos, video'[v] # Null
                 PROVE  \E k \in Keys :
                           /\ uploads'[k] # Null
                           /\ uploads'[k].video = v
                           /\ \E o \in issued'[k] : store'[o] # Null /\ store'[o].md5 # "other"
      BY DEF VideoHasMatchingUpload
    <2>1. Matched(v)
      BY <1>2 DEF CatalogInv, VideoHasMatchingUpload, Matched
    <2> QED
      BY <2>1, MatchedIsKept
  <1> QED
    BY <1>2, <1>3, <1>4, <1>5, FailuresAreBounded DEF CatalogInv, CatalogKept

(* The second invariant, on top of the first one.                          *)
THEOREM CatalogInvariant == Spec => []CatalogInv
  <1> QED
    BY InitCatalogInv, NextKeepsCatalogInv, UploadsInvariant, PTL DEF Spec

-----------------------------------------------------------------------------
(* The third invariant: videos are moved on to processing.                 *)

(* A session is locked by one transaction at a time. *)
LocksAreExclusive ==
    \A w, x \in Workers :
        /\ worker[w].mark # Null /\ worker[x].mark # Null
        /\ worker[w].key = worker[x].key
        => w = x

(* Worker w is about to move video v on. *)
MovesOn(w, v) ==
    /\ req[w].phase # "idle"
    /\ req[w].video = v
    /\ req[w].changes.status = "processing"

(* The task asks for no other status, and for none outside of a request.   *)
Asks(w) ==
    /\ req[w].changes.status \in {Null, "processing"}
    /\ req[w].phase = "idle" => req[w].changes.status = Null

AsksForProcessing == \A w \in Workers : Asks(w)

Pending(v) == video[v] # Null /\ video[v].status = "pending_upload"

(* A video in pending_upload is on its way, or was interrupted. *)
PendingIsMovedOn ==
    \A v \in Videos : Pending(v) =>
        v \in interrupted \/ \E w \in Workers : MovesOn(w, v)

ProcessingInv ==
    /\ interrupted \subseteq Videos
    /\ LocksAreExclusive
    /\ AsksForProcessing
    /\ PendingIsMovedOn
    /\ CompletedIsProcessedUnlessInterrupted

LEMMA InitProcessingInv == Init => ProcessingInv
  <1> SUFFICES ASSUME Init PROVE ProcessingInv
    OBVIOUS
  <1>1. interrupted \subseteq Videos /\ LocksAreExclusive
    BY DEF Init, LocksAreExclusive, Idle
  <1>2. AsksForProcessing /\ PendingIsMovedOn
    <2>1. Catalog!IdleRequest.changes.status = Null
      BY DEF Catalog!IdleRequest, Catalog!NoChange
    <2> QED
      BY <2>1 DEF Init, Catalog!Init, AsksForProcessing, Asks, PendingIsMovedOn, Pending
  <1>3. CompletedIsProcessedUnlessInterrupted
    BY DEF Init, CompletedIsProcessedUnlessInterrupted, CompletedHasVideo
  <1> QED
    BY <1>1, <1>2, <1>3 DEF ProcessingInv

(* A mark is set under the lock, and kept or dropped by all other steps.   *)
LEMMA LocksStep ==
    ASSUME UploadsInv, LocksAreExclusive, [Next]_vars
    PROVE  LocksAreExclusive'
  <1>1. worker \in [Workers -> WorkerStates]
    BY DEF UploadsInv, SessionTypes
  <1> DEFINE Kept(x) ==
        worker'[x].mark # Null =>
            worker[x].mark # Null /\ worker'[x].key = worker[x].key
  <1>2. ASSUME NEW w \in Workers, MarkFailed(w) \/ MarkCompleted(w)
        PROVE  LocksAreExclusive'
    <2>1. /\ ~Locked(worker[w].key)
          /\ worker'[w].key = worker[w].key
          /\ \A x \in Workers \ {w} : worker'[x] = worker[x]
      BY <1>1, <1>2 DEF MarkFailed, MarkCompleted, WorkerStates
    <2> QED
      BY <2>1 DEF Locked, LocksAreExclusive
  <1>3. ASSUME \A x \in Workers : Kept(x)
        PROVE  LocksAreExclusive'
    BY <1>3 DEF LocksAreExclusive
  <1>4. ASSUME NEW w \in Workers, NEW n \in Notices,
               HandleUnknown(w, n) \/ HandleFinalize(w, n)
        PROVE  \A x \in Workers : Kept(x)
    <2>1. PICK x : x.mark = Null /\ worker' = [worker EXCEPT ![w] = x]
      <3>1. [Idle EXCEPT !.phase = "done", !.notice = n].mark = Null
        BY DEF Idle
      <3> QED
        BY <1>4, <3>1 DEF HandleUnknown, HandleFinalize
    <2>2. /\ worker'[w].mark = Null
          /\ \A y \in Workers \ {w} : worker'[y] = worker[y]
      BY <1>1, <2>1
    <2> QED
      BY <2>2
  <1>5. ASSUME NEW w \in Workers, CommitNotice(w) \/ Rollback(w)
        PROVE  \A x \in Workers : Kept(x)
    <2>1. /\ worker'[w].mark = Null
          /\ \A x \in Workers \ {w} : worker'[x] = worker[x]
      BY <1>1, <1>5 DEF CommitNotice, Rollback, Idle
    <2> QED
      BY <2>1
  <1>6. ASSUME NEW w \in Workers, CreateVideo(w) \/ UpdateCommits(w)
        PROVE  \A x \in Workers : Kept(x)
    <2>1. /\ worker'[w].mark = worker[w].mark /\ worker'[w].key = worker[w].key
          /\ \A x \in Workers \ {w} : worker'[x] = worker[x]
      BY <1>1, <1>6 DEF CreateVideo, UpdateCommits, WorkerStates
    <2> QED
      BY <2>1
  <1>7. ASSUME UNCHANGED worker PROVE \A x \in Workers : Kept(x)
    BY <1>7
  <1>8. \/ \E w \in Workers : MarkFailed(w) \/ MarkCompleted(w)
        \/ \E w \in Workers, n \in Notices : HandleUnknown(w, n) \/ HandleFinalize(w, n)
        \/ \E w \in Workers : CommitNotice(w) \/ Rollback(w)
        \/ \E w \in Workers : CreateVideo(w) \/ UpdateCommits(w)
        \/ UNCHANGED worker
    BY DEF Next, vars, LookupSession, UpsertSession, UpsertAnswerLost, UpsertCommits, InitFails, PutObject, NotifyAgain,
           HandlerStep, HandlerFails, UpdateBegins, WaitTimesOut
  <1> HIDE DEF Kept
  <1> QED
    BY <1>2, <1>3, <1>4, <1>5, <1>6, <1>7, <1>8

(* The update that follows CreateVideo asks for processing when the video  *)
(* is new, and leaves the status alone when it is not.                     *)
LEMMA FinalizeAsks ==
    ASSUME Catalog!TypeOK, NEW w \in Workers, NEW v \in Videos, NEW size,
           Catalog!FinalizeUpload(w, v, size)
    PROVE  /\ req[w].phase = "idle"
           /\ req'[w].phase = "prepared" /\ req'[w].video = v
           /\ \A x \in Workers \ {w} : req'[x] = req[x]
           /\ \A p \in Videos \ {v} : video'[p] = video[p]
           /\ \/ video[v] = Null /\ req'[w].changes.status = "processing"
              \/ video'[v] = video[v] /\ req'[w].changes.status = Null
  <1>1. req \in [Workers -> Catalog!RequestStates] /\ req[w].phase = "idle"
    BY DEF Catalog!TypeOK, Catalog!FinalizeUpload
  <1>2. ASSUME NEW cur, NEW u, u.status # "published",
               Catalog!Prepare(w, "upload", v, cur, Null, u)
        PROVE  /\ req'[w].phase = "prepared" /\ req'[w].video = v
               /\ req'[w].changes.status = u.status
               /\ \A x \in Workers \ {w} : req'[x] = req[x]
    BY <1>1, <1>2 DEF Catalog!Prepare, Catalog!PublishDefaults
  <1>3. CASE video[v] = Null
    <2> DEFINE u == [Catalog!NoChange EXCEPT !.status = "processing", !.original = size]
    <2>1. /\ Catalog!CreateVideo(v)
          /\ Catalog!Prepare(w, "upload", v, Catalog!NewVideoRow(clock), Null, u)
      BY <1>3 DEF Catalog!FinalizeUpload
    <2>2. u.status = "processing"
      BY DEF Catalog!NoChange
    <2> HIDE DEF u
    <2>3. \A p \in Videos \ {v} : video'[p] = video[p]
      BY <2>1 DEF Catalog!CreateVideo, Catalog!TypeOK
    <2> QED
      BY <1>1, <1>2, <1>3, <2>1, <2>2, <2>3
  <1>4. CASE video[v] # Null
    <2> DEFINE u == [Catalog!NoChange EXCEPT !.original = size]
    <2>1. UNCHANGED video /\ Catalog!Prepare(w, "upload", v, video[v], Null, u)
      BY <1>4 DEF Catalog!FinalizeUpload
    <2>2. u.status = Null /\ Null # "published"
      BY DEF Catalog!NoChange, Catalog!VideoStatuses
    <2> HIDE DEF u
    <2> QED
      BY <1>1, <1>2, <2>1, <2>2
  <1> QED
    BY <1>3, <1>4

(* What a step of worker w does to the videos that are not moved on yet. *)
MovingStep(w) ==
    /\ \A y \in Workers \ {w} : req'[y] = req[y]
    /\ Asks(w)'
    /\ interrupted \subseteq interrupted' /\ interrupted' \subseteq Videos
    /\ \A v \in Videos : Pending(v)' =>
          \/ v \in interrupted'
          \/ MovesOn(w, v)'
          \/ Pending(v) /\ ~MovesOn(w, v)
    /\ \A v \in Videos : video[v] # Null /\ Pending(v)' => Pending(v)

(* Whoever leaves the catalog alone moves nothing. *)
LEMMA StillStep ==
    ASSUME interrupted \subseteq Videos, AsksForProcessing, NEW w \in Workers,
           UNCHANGED <<video, req, interrupted>>
    PROVE  MovingStep(w)
  BY DEF MovingStep, MovesOn, Pending, AsksForProcessing, Asks

LEMMA CreateMoves ==
    ASSUME UploadsInv, CatalogInv, interrupted \subseteq Videos, AsksForProcessing,
           NEW w \in Workers, CreateVideo(w)
    PROVE  MovingStep(w)
  <1> DEFINE v == worker[w].row.video
             size == store[notices[worker[w].notice]].size
  <1>1. v \in Videos /\ UNCHANGED interrupted
    BY DEF CreateVideo, troubleVars, UploadsInv, AtWork, InHand, Sessions
  <1>2. CASE Catalog!FinalizeUpload(w, v, size)
    <2> HIDE DEF v, size
    <2>1. /\ req[w].phase = "idle"
          /\ req'[w].phase = "prepared" /\ req'[w].video = v
          /\ \A x \in Workers \ {w} : req'[x] = req[x]
          /\ \A p \in Videos \ {v} : video'[p] = video[p]
          /\ \/ video[v] = Null /\ req'[w].changes.status = "processing"
             \/ video'[v] = video[v] /\ req'[w].changes.status = Null
      BY <1>1, <1>2, FinalizeAsks DEF CatalogInv
    <2>2. Asks(w)'
      BY <2>1 DEF Asks
    <2>3. \A p \in Videos : ~MovesOn(w, p)
      BY <2>1 DEF MovesOn
    <2>4. ASSUME NEW p \in Videos, Pending(p)'
          PROVE  /\ MovesOn(w, p)' \/ Pending(p)
                 /\ video[p] # Null => Pending(p)
      BY <2>1, <2>4 DEF Pending, MovesOn
    <2> QED
      BY <1>1, <2>1, <2>2, <2>3, <2>4 DEF MovingStep
  <1>3. CASE UNCHANGED catalogVars
    BY <1>1, <1>3, StillStep DEF catalogVars
  <1> QED
    BY <1>2, <1>3 DEF CreateVideo

LEMMA UpdateMoves ==
    ASSUME UploadsInv, CatalogInv, interrupted \subseteq Videos, AsksForProcessing,
           NEW w \in Workers, UpdateBegins(w) \/ UpdateCommits(w)
    PROVE  MovingStep(w)
  <1>1. /\ UNCHANGED interrupted
        /\ req \in [Workers -> Catalog!RequestStates]
        /\ video \in [Videos -> Catalog!Opt(Catalog!Rows)]
        /\ Asks(w)
    BY DEF UpdateBegins, UpdateCommits, troubleVars, CatalogInv, Catalog!TypeOK,
           AsksForProcessing
  <1>2. CASE Catalog!Begin(w)
    <2>1. /\ UNCHANGED video
          /\ \A y \in Workers \ {w} : req'[y] = req[y]
          /\ req[w].phase # "idle" /\ req'[w].phase = "open"
          /\ req'[w].video = req[w].video /\ req'[w].changes = req[w].changes
      BY <1>1, <1>2 DEF Catalog!Begin, Catalog!RequestStates
    <2>2. Asks(w)' /\ \A v \in Videos : MovesOn(w, v) => MovesOn(w, v)'
      BY <1>1, <2>1 DEF Asks, MovesOn
    <2> QED
      BY <1>1, <2>1, <2>2 DEF MovingStep, Pending
  <1>3. CASE Catalog!Commit(w)
    <2> DEFINE v == req[w].video
               row == Catalog!UpdateVideoRow(video[v], req[w].changes, req[w].startedAt)
    <2>1. /\ video' = [video EXCEPT ![v] = row]
          /\ req' = [req EXCEPT ![w] = Catalog!IdleRequest]
          /\ req[w].phase = "open"
      BY <1>3 DEF Catalog!Commit
    <2>2. v \in Videos /\ video[v] # Null
      BY <2>1 DEF CatalogInv, InTheCatalog
    <2>3. row.status = IF req[w].changes.status = Null THEN video[v].status
                       ELSE req[w].changes.status
      BY DEF Catalog!UpdateVideoRow, Catalog!Coalesce
    <2> HIDE DEF row, v
    <2>4. /\ video'[v] = row
          /\ \A p \in Videos \ {v} : video'[p] = video[p]
          /\ req'[w] = Catalog!IdleRequest
          /\ \A y \in Workers \ {w} : req'[y] = req[y]
      BY <1>1, <2>1, <2>2
    <2>5. Asks(w)'
      BY <2>4 DEF Asks, Catalog!IdleRequest, Catalog!NoChange
    <2>6. req[w].changes.status = Null \/ req[w].changes.status = "processing"
      BY <1>1 DEF Asks
    <2>7. ASSUME NEW p \in Videos, Pending(p)'
          PROVE  Pending(p) /\ ~MovesOn(w, p)
      <3>1. CASE p # v
        BY <2>4, <2>7, <3>1 DEF Pending, MovesOn, v
      <3>2. CASE p = v
        <4>1. row.status = "pending_upload"
          BY <2>4, <2>7, <3>2 DEF Pending
        <4>2. req[w].changes.status = Null /\ Null # "processing"
          BY <2>3, <2>6, <4>1 DEF Catalog!VideoStatuses
        <4> QED
          BY <2>2, <2>3, <3>2, <4>1, <4>2 DEF Pending, MovesOn
      <3> QED
        BY <3>1, <3>2
    <2> QED
      BY <1>1, <2>4, <2>5, <2>7 DEF MovingStep
  <1> QED
    BY <1>2, <1>3 DEF UpdateBegins, UpdateCommits

LEMMA RollbackMoves ==
    ASSUME UploadsInv, CatalogInv, interrupted \subseteq Videos, AsksForProcessing,
           NEW w \in Workers, Rollback(w)
    PROVE  MovingStep(w)
  <1>1. Asks(w)
    BY DEF AsksForProcessing
  <1>2. CASE req[w].phase = "idle"
    BY <1>1, <1>2, StillStep DEF Rollback, catalogVars, Asks
  <1>3. CASE req[w].phase # "idle"
    <2>1. /\ UNCHANGED video
          /\ req' = [req EXCEPT ![w] = Catalog!IdleRequest]
      BY <1>3 DEF Rollback, Catalog!Abort
    <2>2. /\ req'[w] = Catalog!IdleRequest
          /\ \A y \in Workers \ {w} : req'[y] = req[y]
      BY <2>1 DEF CatalogInv, Catalog!TypeOK
    <2>3. Asks(w)'
      BY <2>2 DEF Asks, Catalog!IdleRequest, Catalog!NoChange
    <2>4. req[w].video \in Videos
      BY <1>3 DEF CatalogInv, InTheCatalog
    <2>5. interrupted \subseteq interrupted' /\ interrupted' \subseteq Videos
      BY <2>4 DEF Rollback
    <2>6. ASSUME NEW v \in Videos PROVE MovesOn(w, v) => v \in interrupted'
      BY DEF MovesOn, Rollback, Catalog!VideoStatuses
    <2> QED
      BY <2>1, <2>2, <2>3, <2>5, <2>6 DEF MovingStep, Pending
  <1> QED
    BY <1>2, <1>3

LEMMA VideosMove ==
    ASSUME UploadsInv, CatalogInv, interrupted \subseteq Videos, AsksForProcessing,
           [Next]_vars
    PROVE  \/ \E w \in Workers : MovingStep(w)
           \/ UNCHANGED <<video, req, interrupted>>
  <1>1. \/ \E w \in Workers : CreateVideo(w) \/ UpdateBegins(w) \/ UpdateCommits(w)
        \/ \E w \in Workers : Rollback(w)
        \/ UNCHANGED <<catalogVars, interrupted>>
    BY DEF Next, vars, LookupSession, UpsertSession, UpsertAnswerLost, UpsertCommits, InitFails, PutObject, NotifyAgain,
           HandleUnknown, HandleFinalize, HandlerStep, HandlerFails, MarkFailed,
           MarkCompleted, CommitNotice, WaitTimesOut, troubleVars
  <1> QED
    BY <1>1, CreateMoves, UpdateMoves, RollbackMoves DEF catalogVars

LEMMA PendingStep ==
    ASSUME UploadsInv, CatalogInv, ProcessingInv, [Next]_vars
    PROVE  /\ interrupted \subseteq interrupted' /\ interrupted' \subseteq Videos
           /\ AsksForProcessing'
           /\ PendingIsMovedOn'
           /\ \A v \in Videos : video[v] # Null /\ Pending(v)' => Pending(v)
  <1>1. interrupted \subseteq Videos /\ AsksForProcessing /\ PendingIsMovedOn
    BY DEF ProcessingInv
  <1>2. CASE UNCHANGED <<video, req, interrupted>>
    BY <1>1, <1>2 DEF AsksForProcessing, Asks, PendingIsMovedOn, Pending, MovesOn
  <1>3. ASSUME NEW w \in Workers, MovingStep(w)
        PROVE  AsksForProcessing' /\ PendingIsMovedOn'
    <2>1. AsksForProcessing'
      BY <1>1, <1>3 DEF MovingStep, AsksForProcessing, Asks
    <2>2. ASSUME NEW v \in Videos, Pending(v)'
          PROVE  v \in interrupted' \/ \E x \in Workers : MovesOn(x, v)'
      <3>1. CASE Pending(v) /\ ~MovesOn(w, v)
        <4>1. ASSUME NEW x \in Workers, MovesOn(x, v) PROVE MovesOn(x, v)'
          BY <1>3, <3>1, <4>1 DEF MovingStep, MovesOn
        <4> QED
          BY <1>1, <1>3, <3>1, <4>1 DEF PendingIsMovedOn, MovingStep
      <3> QED
        BY <1>3, <2>2, <3>1 DEF MovingStep
    <2> QED
      BY <2>1, <2>2 DEF PendingIsMovedOn
  <1> QED
    BY <1>1, <1>2, <1>3, VideosMove DEF MovingStep, Pending

(* The session whose worker is about to commit: its video is nobody's to   *)
(* move on any more, as the lock keeps all others out of its update.       *)
LEMMA CommitIsProcessed ==
    ASSUME UploadsInv, CatalogInv, ProcessingInv, NEW w \in Workers,
           worker[w].phase = "done", worker[w].mark = "completed"
    PROVE  LET v == uploads[worker[w].key].video
           IN  ~Pending(v) \/ v \in interrupted
  <1> DEFINE v == uploads[worker[w].key].video
  <1>1. /\ worker[w].key \in Keys /\ uploads[worker[w].key] # Null
        /\ worker[w].mark # Null
    BY DEF UploadsInv, AtWork, InHand, SessionTypes, WorkerStates, Opt, UploadStatuses
  <1>2. v \in Videos /\ v \in named[worker[w].key]
    BY <1>1 DEF UploadsInv, Owned, SessionTypes, Opt, Sessions
  <1>3. ASSUME NEW x \in Workers, MovesOn(x, v) PROVE FALSE
    <2>1. worker[x].phase = "updating" /\ v = worker[x].row.video
      BY <1>3 DEF MovesOn, CatalogInv, InTheCatalog
    <2>2. /\ worker[x].key \in Keys /\ uploads[worker[x].key] # Null
          /\ worker[x].mark = "completed" /\ worker[x].mark # Null
          /\ v = uploads[worker[x].key].video
      BY <2>1 DEF UploadsInv, AtWork, InHand, SessionTypes, WorkerStates, Opt,
                  CatalogInv, Knows, UploadStatuses
    <2>3. v \in named[worker[x].key]
      BY <2>2 DEF UploadsInv, Owned
    <2>4. worker[x].key = worker[w].key
      BY <1>1, <1>2, <2>2, <2>3 DEF UploadsInv, Apart
    <2>5. x = w
      BY <1>1, <2>2, <2>4 DEF ProcessingInv, LocksAreExclusive
    <2> QED
      BY <2>1, <2>5
  <1> QED
    BY <1>2, <1>3 DEF ProcessingInv, PendingIsMovedOn

LEMMA NextKeepsProcessingInv ==
    UploadsInv /\ CatalogInv /\ ProcessingInv /\ [Next]_vars => ProcessingInv'
  <1> SUFFICES ASSUME UploadsInv, CatalogInv, ProcessingInv, [Next]_vars
               PROVE  ProcessingInv'
    OBVIOUS
  <1>1. LocksAreExclusive'
    BY LocksStep DEF ProcessingInv
  <1>2. ASSUME NEW k \in Keys, uploads'[k] # Null, uploads'[k].status = "completed"
        PROVE  \/ video'[uploads'[k].video].status # "pending_upload"
               \/ uploads'[k].video \in interrupted'
    <2>1. PICK v : v = uploads[k].video
      OBVIOUS
    <2>2. /\ uploads[k] # Null /\ uploads'[k].video = v
          /\ v \in Videos /\ video[v] # Null
      BY <1>2, <2>1, CompletedBy, CompletedBefore
         DEF UploadsInv, SessionTypes, Opt, Sessions
    <2>3. ~Pending(v) \/ v \in interrupted
      <3>1. CASE uploads[k].status = "completed"
        BY <2>1, <2>2, <3>1 DEF ProcessingInv, CompletedIsProcessedUnlessInterrupted, Pending
      <3>2. ASSUME NEW w \in Workers, worker[w].phase = "done",
                   worker[w].mark = "completed", worker[w].key = k
            PROVE  ~Pending(v) \/ v \in interrupted
        BY <2>1, <3>2, CommitIsProcessed
      <3> QED
        BY <1>2, <3>1, <3>2, CompletedBy
    <2>4. video'[v] # Null
      BY <1>2, <2>2, NextKeepsCatalogInv DEF CatalogInv, CompletedHasVideo
    <2>5. ~Pending(v)' \/ v \in interrupted'
      BY <2>2, <2>3, PendingStep
    <2> QED
      BY <2>2, <2>4, <2>5 DEF Pending
  <1>3. CompletedIsProcessedUnlessInterrupted'
    <2>1. CompletedHasVideo'
      BY NextKeepsCatalogInv DEF CatalogInv
    <2> QED
      BY <1>2, <2>1 DEF CompletedIsProcessedUnlessInterrupted
  <1> QED
    BY <1>1, <1>3, PendingStep DEF ProcessingInv

(* The third invariant, on top of the other two.                           *)
THEOREM ProcessingInvariant == Spec => []ProcessingInv
  <1> QED
    BY InitProcessingInv, NextKeepsProcessingInv, UploadsInvariant, CatalogInvariant, PTL
       DEF Spec

(* A completed session has its video, which never waits for processing     *)
(* unless the handler that created the video was interrupted.              *)
THEOREM ProcessedTheorem == Spec => []CompletedIsProcessedUnlessInterrupted
  <1>1. ProcessingInv => CompletedIsProcessedUnlessInterrupted
    BY DEF ProcessingInv
  <1> QED
    BY <1>1, ProcessingInvariant, PTL

(* Every variable of the task, of its sessions and of the catalog keeps    *)
(* its type.                                                               *)
THEOREM UploadsTypes == Spec => []TypeOK
  <1>1. UploadsInv /\ CatalogInv /\ ProcessingInv => TypeOK
    BY DEF UploadsInv, CatalogInv, ProcessingInv, SessionTypes, TypeOK
  <1> QED
    BY <1>1, UploadsInvariant, CatalogInvariant, ProcessingInvariant, PTL

(* A session that is completed has its video, whatever failed between the  *)
(* two transactions.                                                       *)
THEOREM CompletedTheorem == Spec => []CompletedHasVideo
  <1>1. CatalogInv => CompletedHasVideo
    BY DEF CatalogInv
  <1> QED
    BY <1>1, CatalogInvariant, PTL

(* Videos are created for uploads of the right content only.               *)
THEOREM ContentTheorem == Spec => []VideoHasMatchingUpload
  <1>1. CatalogInv => VideoHasMatchingUpload
    BY DEF CatalogInv
  <1> QED
    BY <1>1, CatalogInvariant, PTL

(* The created event of a video is its first event, so there is one.       *)
THEOREM CreatedTheorem == Spec => []CreatedOnce
  <1>1. CatalogInv => CreatedOnce
    <2> SUFFICES ASSUME CatalogInv, NEW v \in Videos
                 PROVE  Cardinality({i \in DOMAIN outbox[v] :
                                        outbox[v][i].kind = "created"}) <= 1
      BY DEF CreatedOnce
    <2> DEFINE S == {i \in DOMAIN outbox[v] : outbox[v][i].kind = "created"}
    <2>1. S \subseteq {1}
      BY DEF CatalogInv, ToldFirst
    <2> HIDE DEF S
    <2>2. IsFiniteSet({1}) /\ Cardinality({1}) = 1
      BY FS_Singleton
    <2>3. Cardinality(S) <= 1
      BY <2>1, <2>2, FS_Subset, FS_CardinalityType
    <2> QED
      BY <2>3 DEF S
  <1> QED
    BY <1>1, CatalogInvariant, PTL

(* Whoever holds a session or a second connection waits for connections    *)
(* only: when all wait, the handlers hold the whole pool.                  *)
THEOREM NoCircleTheorem ==
    ASSUME IsFiniteSet(Workers)
    PROVE  Spec => []NoCircularWait
  <1>1. CatalogInv => NoCircularWait
    <2> SUFFICES ASSUME CatalogInv,
                        NEW w \in Workers, worker[w].phase # "idle",
                        \A x \in Workers : worker[x].phase # "idle" => Waiting(x)
                 PROVE  PoolExhausted
      BY DEF NoCircularWait
    <2>1. ASSUME NEW x \in Workers PROVE req[x].phase # "open"
      <3>1. req[x].phase = "open" => worker[x].phase = "updating"
        BY DEF CatalogInv, InTheCatalog
      <3> QED
        BY <3>1 DEF Waiting, WantsConnection
    <2>2. {x \in Workers : req[x].phase = "open"} = {}
      BY <2>1
    (* A worker that waits for a row waits for one that wants a connection. *)
    <2>3. PICK x \in Workers : WantsConnection(x) /\ ~FreeConnection
      <3>1. CASE WantsConnection(w) /\ ~FreeConnection
        BY <3>1
      <3>2. CASE Locked(worker[w].key)
        <4>1. PICK x \in Workers : worker[x].mark # Null
          BY <3>2 DEF Locked
        <4>2. worker[x].phase \notin {"idle", "matched", "mismatched"}
          BY <4>1 DEF CatalogInv, Knows
        <4> QED
          BY <4>2 DEF Waiting
      <3> QED
        BY <3>1, <3>2 DEF Waiting
    <2> DEFINE busy == {y \in Workers : worker[y].phase # "idle"}
               none == {y \in Workers : req[y].phase = "open"}
    <2>4. Cardinality(none) = 0
      BY <2>2, FS_EmptySet
    <2>5. busy \subseteq Workers
      OBVIOUS
    <2>6. FreeConnection <=> Cardinality(busy) + Cardinality(none) < Connections
      BY DEF FreeConnection
    <2>7. PoolExhausted <=> Cardinality(busy) >= Connections
      BY <2>3 DEF PoolExhausted
    <2> HIDE DEF busy, none
    <2>8. Cardinality(busy) \in Nat
      BY <2>5, FS_Subset, FS_CardinalityType
    <2> QED
      BY <2>3, <2>4, <2>6, <2>7, <2>8
  <1> QED
    BY <1>1, CatalogInvariant, PTL
=============================================================================
