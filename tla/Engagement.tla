----------------------------- MODULE Engagement ------------------------------
(***************************************************************************)
(* The projection of Profile's engagement events onto one video: the flags *)
(* every user has set on it and the counters shown with it.                *)
(*                                                                         *)
(* Workers handle messages concurrently, each inside the transaction of    *)
(* the inbox runner.  For a like or a bookmark a worker reads the user's   *)
(* row without locking it, decides the whole new row in memory and writes  *)
(* it back; a statement takes the lock of the row it writes and keeps it   *)
(* until the commit.  What a transaction has written becomes visible to    *)
(* the others in Commit; the locks make that indistinguishable.            *)
(*                                                                         *)
(* Videos do not share rows, so there is one.  An event whose timestamp is *)
(* missing is an event at the time of its handling.                        *)
(***************************************************************************)
EXTENDS Integers, FiniteSets

CONSTANTS
    Users,
    Messages,       \* inbox event ids
    Times,          \* occurred_at and watch times
    Happened,       \* events that may be published
    Workers,        \* goroutines of the engagement runner
    Null,           \* SQL NULL, no row
    MaxFailures     \* bound on handler failures

Kinds == {"like", "bookmark"}

(* `unsupported` is an event of another type than the handler knows.       *)
(* `malformed` is one it can make nothing of: a payload that does not      *)
(* decode, another favourite type, an id that is none.                     *)
Events == [kind : Kinds \cup {"watch", "unsupported", "malformed"},
           user : Users, at : Times, on : BOOLEAN]

VARIABLES
    state,          \* catalog.video_user_engagements_projection, per user
    stats,          \* catalog.video_engagement_stats_projection
    watchers,       \* catalog.video_engagement_watchers, per user
    sent,           \* the event every message carries
    processed,      \* catalog.inbox_events with processed_at set
    worker,         \* the transaction every worker has open
    failures,       \* handler failures so far
    raced           \* history: the user's row was overwritten unseen

tables == <<state, stats, watchers>>
vars == <<state, stats, watchers, sent, processed, worker, failures, raced>>

Opt(S) == S \cup {Null}

UserStates == [has : [Kinds -> BOOLEAN], at : [Kinds -> Opt(Times)]]

Watchers == [first : Times, last : Times]

(* The counters; a video without a row reads as all zero. *)
Stats == [count : [Kinds -> Nat], watches : Nat, watchers : Nat,
          first : Opt(Times), last : Opt(Times)]

NoState == [has |-> [k \in Kinds |-> FALSE], at |-> [k \in Kinds |-> Null]]

NoStats == [count |-> [k \in Kinds |-> 0], watches |-> 0, watchers |-> 0,
            first |-> Null, last |-> Null]

StatsDeltas == [count : [Kinds -> -1 .. 1], watches : 0 .. 1, watchers : 0 .. 1,
                first : Opt(Times), last : Opt(Times)]

Locks == {"state", "watcher"}

(* Phases: about to upsert the user's row, to mark the watcher, to add     *)
(* delta to the counters, to commit, or to return an error.  row is the    *)
(* user's row as read, wrote the per-user row the transaction has written  *)
(* and locked.                                                             *)
Idle == [phase |-> "idle", message |-> Null, row |-> Null, wrote |-> Null,
         delta |-> NoStats, counted |-> FALSE]

WorkerStates ==
    [phase : {"idle", "upsert", "watch", "count", "done", "refused"},
     message : Opt(Messages), row : Opt(UserStates), wrote : Opt(Locks),
     delta : StatsDeltas, counted : BOOLEAN]

ASSUME ConstantsAssumption ==
    /\ IsFiniteSet(Users)
    /\ Times \subseteq Nat
    /\ Happened \subseteq Events
    /\ MaxFailures \in Nat
    /\ Null \notin Nat /\ Null \notin Messages /\ Null \notin Locks
    /\ Null \notin UserStates /\ Null \notin Watchers

Event(w) == sent[worker[w].message]

Init ==
    /\ state = [u \in Users |-> Null]
    /\ stats = NoStats
    /\ watchers = [u \in Users |-> Null]
    /\ sent \in [Messages -> Happened]
    /\ processed = {}
    /\ worker = [w \in Workers |-> Idle]
    /\ failures = 0
    /\ raced = [u \in Users |-> FALSE]

(* A per-user row of table t, or the row of counters, is locked by a       *)
(* transaction that has written it.                                        *)
RowLocked(t, u) ==
    \E w \in Workers : worker[w].wrote = t /\ Event(w).user = u

StatsLocked == \E w \in Workers : worker[w].counted

-----------------------------------------------------------------------------
(* What the handler computes in memory.                                    *)

(* Mutant of IsStale: compared with the newest event of any kind. *)
IsStale_AnyKind(row, e) ==
    /\ row # Null
    /\ \E k \in Kinds : row.at[k] # Null /\ e.at <= row.at[k]

(* The user's row knows of an event of this kind that is not older. *)
IsStale(row, e) ==
    /\ row # Null
    /\ row.at[e.kind] # Null
    /\ e.at <= row.at[e.kind]

(* The row as the upsert will write it: one kind changes, the other is     *)
(* written back as it was read.                                            *)
NewState(row, e) ==
    LET old == IF row = Null THEN NoState ELSE row
    IN  [has |-> [old.has EXCEPT ![e.kind] = e.on],
         at |-> [old.at EXCEPT ![e.kind] = e.at]]

(* Mutant of FlagDelta: it does not look at the flag it changes. *)
FlagDelta_Unconditional(row, e) ==
    [NoStats EXCEPT !.count[e.kind] = IF e.on THEN 1 ELSE -1]

(* One more or one less when the flag changes. *)
FlagDelta(row, e) ==
    LET was == row # Null /\ row.has[e.kind]
    IN  [NoStats EXCEPT !.count[e.kind] =
            IF was = e.on THEN 0 ELSE IF e.on THEN 1 ELSE -1]

(* Mutant of WatchDelta: every message counts as a new watcher. *)
WatchDelta_EveryWatch(inserted, t) ==
    [NoStats EXCEPT !.watches = 1, !.watchers = 1, !.last = t,
                    !.first = IF inserted THEN t ELSE Null]

(* A watch message counts its watcher, and may move first_watch_at, only   *)
(* when it inserted the watcher's row.                                     *)
WatchDelta(inserted, t) ==
    [NoStats EXCEPT !.watches = 1, !.last = t,
                    !.watchers = IF inserted THEN 1 ELSE 0,
                    !.first = IF inserted THEN t ELSE Null]

Least(x, y) == IF x = Null \/ (y # Null /\ y < x) THEN y ELSE x
Greatest(x, y) == IF x = Null \/ (y # Null /\ y > x) THEN y ELSE x

(* Mutant of AddStats: no clamp at zero. *)
AddStats_NoClamp(s, d) ==
    [count |-> [k \in Kinds |-> s.count[k] + d.count[k]],
     watches |-> s.watches + d.watches,
     watchers |-> s.watchers + d.watchers,
     first |-> Least(s.first, d.first),
     last |-> Greatest(s.last, d.last)]

(* IncrementVideoEngagementStats. *)
AddStats(s, d) ==
    [count |-> [k \in Kinds |-> Greatest(0, s.count[k] + d.count[k])],
     watches |-> s.watches + d.watches,
     watchers |-> s.watchers + d.watchers,
     first |-> Least(s.first, d.first),
     last |-> Greatest(s.last, d.last)]

-----------------------------------------------------------------------------
(* The handler.                                                            *)

(* Take message m on and record it in the inbox; its primary key keeps two *)
(* workers off one message.                                                *)
TakeMessage(w, m) ==
    /\ worker[w].phase = "idle"
    /\ m \notin processed
    /\ \A x \in Workers : worker[x].message # m

(* Mutant of ApplyEngagement: a stale event is reported as an error. *)
ApplyEngagement_StaleIsError(w, m) ==
    LET e == sent[m]
        row == state[e.user]
    IN  /\ TakeMessage(w, m)
        /\ e.kind \in Kinds
        /\ ~IsStale(row, e)
        /\ worker' = [worker EXCEPT ![w] = [Idle EXCEPT
                        !.phase = "upsert", !.message = m, !.row = row,
                        !.delta = FlagDelta(row, e)]]
        /\ UNCHANGED <<tables, sent, processed, failures, raced>>

(* applyEngagement reads the row and decides; a stale event is accepted    *)
(* without a write.                                                        *)
ApplyEngagement(w, m) ==
    LET e == sent[m]
        row == state[e.user]
    IN  /\ TakeMessage(w, m)
        /\ e.kind \in Kinds
        /\ worker' = [worker EXCEPT ![w] =
             IF IsStale(row, e)
             THEN [Idle EXCEPT !.phase = "done", !.message = m, !.row = row]
             ELSE [Idle EXCEPT !.phase = "upsert", !.message = m, !.row = row,
                               !.delta = FlagDelta(row, e)]]
        /\ UNCHANGED <<tables, sent, processed, failures, raced>>

HandleWatchProgress(w, m) ==
    /\ TakeMessage(w, m)
    /\ sent[m].kind = "watch"
    /\ worker' = [worker EXCEPT ![w] =
                    [Idle EXCEPT !.phase = "watch", !.message = m]]
    /\ UNCHANGED <<tables, sent, processed, failures, raced>>

(* An event of another type is accepted without a write. *)
SkipUnsupported(w, m) ==
    /\ TakeMessage(w, m)
    /\ sent[m].kind = "unsupported"
    /\ worker' = [worker EXCEPT ![w] = [Idle EXCEPT !.phase = "done", !.message = m]]
    /\ UNCHANGED <<tables, sent, processed, failures, raced>>

(* A malformed event is an error, on this delivery and on every other. *)
RefuseMalformed(w, m) ==
    /\ TakeMessage(w, m)
    /\ sent[m].kind = "malformed"
    /\ worker' = [worker EXCEPT ![w] = [Idle EXCEPT !.phase = "refused", !.message = m]]
    /\ UNCHANGED <<tables, sent, processed, failures, raced>>

(* Mutant of UpsertUserState: a removal is counted before the row is written. *)
UpsertUserState_RemovalFirst(w) ==
    /\ worker[w].phase = "upsert"
    /\ \/ /\ ~Event(w).on
          /\ ~worker[w].counted
          /\ ~StatsLocked
          /\ worker' = [worker EXCEPT ![w].counted = TRUE]
       \/ /\ Event(w).on \/ worker[w].counted
          /\ ~RowLocked("state", Event(w).user)
          /\ worker' = [worker EXCEPT
                          ![w].phase = IF Event(w).on THEN "count" ELSE "done",
                          ![w].wrote = "state"]
    /\ UNCHANGED <<tables, sent, processed, failures, raced>>

(* UpsertVideoUserState waits for the row, but the row it writes was       *)
(* decided before.  The counters are left alone when no flag changes.      *)
UpsertUserState(w) ==
    /\ worker[w].phase = "upsert"
    /\ ~RowLocked("state", Event(w).user)
    /\ worker' = [worker EXCEPT
                    ![w].phase = IF worker[w].delta = NoStats THEN "done" ELSE "count",
                    ![w].wrote = "state"]
    /\ UNCHANGED <<tables, sent, processed, failures, raced>>

(* UpsertVideoWatcher waits for the row and tells whether it inserted it. *)
MarkWatcher(w) ==
    /\ worker[w].phase = "watch"
    /\ ~RowLocked("watcher", Event(w).user)
    /\ worker' = [worker EXCEPT
                    ![w].phase = "count",
                    ![w].wrote = "watcher",
                    ![w].delta = WatchDelta(watchers[Event(w).user] = Null, Event(w).at)]
    /\ UNCHANGED <<tables, sent, processed, failures, raced>>

(* The row of counters is locked by the increment. *)
IncrementStats(w) ==
    /\ worker[w].phase = "count"
    /\ ~StatsLocked
    /\ worker' = [worker EXCEPT ![w].phase = "done", ![w].counted = TRUE]
    /\ UNCHANGED <<tables, sent, processed, failures, raced>>

WatcherRow(row, t) ==
    IF row = Null THEN [first |-> t, last |-> t]
    ELSE [row EXCEPT !.last = Greatest(@, t)]

(* The transaction commits: its writes appear, its locks go, the message   *)
(* is processed.                                                           *)
Commit(w) ==
    LET e == Event(w)
        u == e.user
    IN  /\ worker[w].phase = "done"
        /\ state' = IF worker[w].wrote = "state"
                    THEN [state EXCEPT ![u] = NewState(worker[w].row, e)] ELSE state
        /\ watchers' = IF worker[w].wrote = "watcher"
                       THEN [watchers EXCEPT ![u] = WatcherRow(@, e.at)] ELSE watchers
        /\ stats' = IF worker[w].counted THEN AddStats(stats, worker[w].delta)
                    ELSE stats
        /\ raced' = [raced EXCEPT ![u] =
                        @ \/ (worker[w].wrote = "state" /\ state[u] # worker[w].row)]
        /\ processed' = processed \cup {worker[w].message}
        /\ worker' = [worker EXCEPT ![w] = Idle]
        /\ UNCHANGED <<sent, failures>>

(* The handler returns an error: nothing it wrote stays, and the message   *)
(* is delivered again.                                                     *)
Rollback(w) ==
    /\ worker' = [worker EXCEPT ![w] = Idle]
    /\ UNCHANGED <<tables, sent, processed, raced>>

(* A statement or the commit fails, or the process stops. *)
HandlerFails(w) ==
    /\ worker[w].phase # "idle"
    /\ failures < MaxFailures
    /\ failures' = failures + 1
    /\ Rollback(w)

Waiting(w) ==
    \/ worker[w].phase = "upsert" /\ RowLocked("state", Event(w).user)
    \/ worker[w].phase = "watch" /\ RowLocked("watcher", Event(w).user)
    \/ worker[w].phase = "count" /\ StatsLocked

(* lock_timeout. *)
WaitTimesOut(w) ==
    /\ Waiting(w)
    /\ Rollback(w)
    /\ UNCHANGED failures

(* The error of a malformed event reaches the inbox runner. *)
ReturnError(w) ==
    /\ worker[w].phase = "refused"
    /\ Rollback(w)
    /\ UNCHANGED failures

(* What a goroutine does once it has taken a message on. *)
HandlerStep(w) ==
    \/ UpsertUserState(w) \/ MarkWatcher(w) \/ IncrementStats(w)
    \/ Commit(w) \/ WaitTimesOut(w) \/ ReturnError(w)

Take(w, m) ==
    \/ ApplyEngagement(w, m) \/ HandleWatchProgress(w, m)
    \/ SkipUnsupported(w, m) \/ RefuseMalformed(w, m)

Next ==
    \/ \E w \in Workers, m \in Messages : Take(w, m)
    \/ \E w \in Workers : HandlerStep(w) \/ HandlerFails(w)

Spec == Init /\ [][Next]_vars

(* Pub/Sub delivers a message until it is acknowledged, and a goroutine    *)
(* that has taken one on runs to the end of the handler.                   *)
Fairness ==
    /\ \A m \in Messages : WF_vars(\E w \in Workers : Take(w, m))
    /\ \A w \in Workers : WF_vars(HandlerStep(w))

FairSpec == Spec /\ Fairness

-----------------------------------------------------------------------------
(* Properties.                                                             *)

(* Type invariant. *)
TypeOK ==
    /\ state \in [Users -> Opt(UserStates)]
    /\ stats \in Stats
    /\ watchers \in [Users -> Opt(Watchers)]
    /\ sent \in [Messages -> Happened]
    /\ processed \subseteq Messages
    /\ worker \in [Workers -> WorkerStates]
    /\ failures \in 0 .. MaxFailures
    /\ raced \in [Users -> BOOLEAN]

(* Messages of one user and kind that have been processed. *)
Applied(u, k) == {m \in processed : sent[m].user = u /\ sent[m].kind = k}

(* The flag of kind k is what the newest processed event says, in whatever *)
(* order the events were delivered; unset when there is none.              *)
NewestWins(u, k) ==
    \/ /\ Applied(u, k) = {}
       /\ state[u] = Null \/ (~state[u].has[k] /\ state[u].at[k] = Null)
    \/ /\ state[u] # Null
       /\ \E m \in Applied(u, k) :
             /\ state[u].has[k] = sent[m].on
             /\ state[u].at[k] = sent[m].at
             /\ \A n \in Applied(u, k) : sent[n].at <= sent[m].at

(* The projection keeps the newest event of every user and kind as long as *)
(* no message of the user was decided from a row that another one has      *)
(* replaced since: duplicates, reordering, rollbacks and redeliveries      *)
(* cannot break it.                                                        *)
NewestWinsUnlessRaced ==
    \A u \in Users : ~raced[u] => \A k \in Kinds : NewestWins(u, k)

(* Under the same proviso the counters are the numbers of flags that are   *)
(* set; the clamp at zero never hides a difference.                        *)
CountsAgreeUnlessRaced ==
    (\A u \in Users : ~raced[u]) =>
        \A k \in Kinds :
            stats.count[k] = Cardinality({u \in Users : state[u] # Null /\ state[u].has[k]})

(* The watch statistics count every message once and every viewer once,    *)
(* races included.                                                         *)
Ledger == INSTANCE WatchLedger WITH
    counted <- {m \in processed : sent[m].kind = "watch"},
    viewers <- {u \in Users : watchers[u] # Null},
    total <- stats.watches, unique <- stats.watchers,
    first <- stats.first, last <- stats.last

ImplementsLedger == Ledger!Spec

(* So the statistics of a video add up, whatever was redelivered, rolled   *)
(* back or done by two workers at a time.                                  *)
WatchStatsAddUp == Ledger!LedgerAddsUp

(* Row locks never close a circle: whatever users, watchers and counters   *)
(* the open transactions have locked, one of them can go on without a      *)
(* timeout, because the counters they all share are locked last.           *)
NoCircularWait ==
    (\E w \in Workers : worker[w].phase # "idle") =>
        \E w \in Workers : worker[w].phase # "idle" /\ ~Waiting(w)

(* Messages that are refused on every delivery. *)
Malformed == {m \in Messages : sent[m].kind = "malformed"}

(* Every message the handler can make something of is eventually processed, *)
(* stale ones included: malformed ones, which come back for ever, do not   *)
(* keep the others out as long as there are fewer of them than goroutines. *)
EveryMessageIsProcessed ==
    Cardinality(Malformed) < Cardinality(Workers) =>
        \A m \in Messages : sent[m].kind # "malformed" => <>(m \in processed)

-----------------------------------------------------------------------------
(* What MVP.md says, and the code breaks.                                  *)

(* Only the newest event by occurred_at is kept, whatever the order. *)
OnlyNewestIsKept == \A u \in Users, k \in Kinds : NewestWins(u, k)
=============================================================================
