-------------------------- MODULE EngagementProofs ---------------------------
(* Theorems about Engagement, for any users, messages, events and workers, *)
(* however messages are delivered, interleaved and rolled back.            *)
EXTENDS Engagement, FiniteSetTheorems, TLAPS

USE ConstantsAssumption

-----------------------------------------------------------------------------
(* What the handler computes.                                              *)

Flag(row, k) == row # Null /\ row.has[k]

LEMMA NewStateFacts ==
    ASSUME NEW row \in Opt(UserStates), NEW e \in Events, e.kind \in Kinds
    PROVE  /\ NewState(row, e) \in UserStates /\ NewState(row, e) # Null
           /\ NewState(row, e).has[e.kind] = e.on
           /\ NewState(row, e).at[e.kind] = e.at
           /\ \A k \in Kinds \ {e.kind} :
                 /\ NewState(row, e).has[k] = (row # Null /\ row.has[k])
                 /\ NewState(row, e).at[k] = IF row = Null THEN Null ELSE row.at[k]
<1> DEFINE old == IF row = Null THEN NoState ELSE row
<1>1. old \in UserStates
  BY DEF Opt, UserStates, NoState
<1>2. /\ old.has \in [Kinds -> BOOLEAN] /\ old.at \in [Kinds -> Opt(Times)]
      /\ e.on \in BOOLEAN /\ e.at \in Times
  BY <1>1 DEF UserStates, Events
<1>3. \A k \in Kinds : /\ old.has[k] = (row # Null /\ row.has[k])
                       /\ old.at[k] = IF row = Null THEN Null ELSE row.at[k]
  BY DEF NoState, Opt, UserStates
<1>4. NewState(row, e) = [has |-> [old.has EXCEPT ![e.kind] = e.on],
                          at |-> [old.at EXCEPT ![e.kind] = e.at]]
  BY DEF NewState
<1> HIDE DEF old
<1>5. NewState(row, e) \in UserStates
  BY <1>2, <1>4 DEF UserStates, Opt
<1> QED
  BY <1>2, <1>3, <1>4, <1>5

LEMMA NoStatsFacts ==
    /\ NoStats \in StatsDeltas /\ NoStats \in Stats
    /\ \A k \in Kinds : NoStats.count[k] = 0
    /\ NoStats.watches = 0 /\ NoStats.watchers = 0
    /\ NoStats.first = Null /\ NoStats.last = Null
  BY DEF NoStats, StatsDeltas, Stats, Opt

LEMMA FlagDeltaFacts ==
    ASSUME NEW row \in Opt(UserStates), NEW e \in Events, e.kind \in Kinds
    PROVE  /\ FlagDelta(row, e) \in StatsDeltas
           /\ FlagDelta(row, e).watches = 0 /\ FlagDelta(row, e).watchers = 0
           /\ FlagDelta(row, e).first = Null /\ FlagDelta(row, e).last = Null
           /\ \A k \in Kinds \ {e.kind} : FlagDelta(row, e).count[k] = 0
           /\ FlagDelta(row, e).count[e.kind] =
                 IF Flag(row, e.kind) = e.on THEN 0 ELSE IF e.on THEN 1 ELSE -1
           /\ FlagDelta(row, e) = NoStats => Flag(row, e.kind) = e.on
<1> DEFINE was == row # Null /\ row.has[e.kind]
           step == IF was = e.on THEN 0 ELSE IF e.on THEN 1 ELSE -1
           count == [[k \in Kinds |-> 0] EXCEPT ![e.kind] = step]
<1>1. FlagDelta(row, e) = [NoStats EXCEPT !.count[e.kind] = step]
  BY DEF FlagDelta
<1>2. FlagDelta(row, e) = [count |-> count, watches |-> 0, watchers |-> 0,
                           first |-> Null, last |-> Null]
  BY <1>1 DEF NoStats
<1>3. step \in -1 .. 1 /\ (step = 0 => was = e.on)
  OBVIOUS
<1>4. was = Flag(row, e.kind)
  BY DEF Flag
<1> HIDE DEF step
<1>5. /\ count \in [Kinds -> -1 .. 1] /\ count[e.kind] = step
      /\ \A k \in Kinds \ {e.kind} : count[k] = 0
  BY <1>3
<1> HIDE DEF count
<1>6. FlagDelta(row, e) \in StatsDeltas
  BY <1>2, <1>5 DEF StatsDeltas, Opt
<1>7. FlagDelta(row, e).count = count
  BY <1>2
<1>8. FlagDelta(row, e) = NoStats => step = 0
  BY <1>5, <1>7, NoStatsFacts
<1> HIDE DEF was
<1> QED
  BY <1>2, <1>3, <1>4, <1>5, <1>6, <1>7, <1>8 DEF step

LEMMA WatchDeltaFacts ==
    ASSUME NEW inserted \in BOOLEAN, NEW t \in Times
    PROVE  /\ WatchDelta(inserted, t) \in StatsDeltas
           /\ \A k \in Kinds : WatchDelta(inserted, t).count[k] = 0
           /\ WatchDelta(inserted, t).watches = 1
           /\ WatchDelta(inserted, t).watchers = IF inserted THEN 1 ELSE 0
           /\ WatchDelta(inserted, t).first = IF inserted THEN t ELSE Null
           /\ WatchDelta(inserted, t).last = t
<1>1. WatchDelta(inserted, t) =
        [count |-> [k \in Kinds |-> 0], watches |-> 1,
         watchers |-> IF inserted THEN 1 ELSE 0,
         first |-> IF inserted THEN t ELSE Null, last |-> t]
  <2>1. PICK n, f : n = (IF inserted THEN 1 ELSE 0) /\ f = (IF inserted THEN t ELSE Null)
    OBVIOUS
  <2>2. WatchDelta(inserted, t) =
          [NoStats EXCEPT !.watches = 1, !.last = t, !.watchers = n, !.first = f]
    BY <2>1, Zenon DEF WatchDelta
  <2>3. WatchDelta(inserted, t) =
          [count |-> [k \in Kinds |-> 0], watches |-> 1, watchers |-> n, first |-> f,
           last |-> t]
    BY <2>2 DEF NoStats
  <2> QED
    BY <2>1, <2>3, Zenon
<1> QED
  BY <1>1 DEF StatsDeltas, Opt

LEMMA AddStatsFacts ==
    ASSUME NEW s \in Stats, NEW d \in StatsDeltas
    PROVE  /\ AddStats(s, d) \in Stats
           /\ \A k \in Kinds : AddStats(s, d).count[k] =
                 IF s.count[k] + d.count[k] > 0 THEN s.count[k] + d.count[k] ELSE 0
           /\ AddStats(s, d).watches = s.watches + d.watches
           /\ AddStats(s, d).watchers = s.watchers + d.watchers
           /\ AddStats(s, d).first = Least(s.first, d.first)
           /\ AddStats(s, d).last = Greatest(s.last, d.last)
<1> DEFINE count == [k \in Kinds |-> Greatest(0, s.count[k] + d.count[k])]
<1>1. AddStats(s, d) = [count |-> count,
                        watches |-> s.watches + d.watches,
                        watchers |-> s.watchers + d.watchers,
                        first |-> Least(s.first, d.first),
                        last |-> Greatest(s.last, d.last)]
  BY DEF AddStats
<1>2. /\ s.count \in [Kinds -> Nat] /\ s.watches \in Nat /\ s.watchers \in Nat
      /\ s.first \in Opt(Times) /\ s.last \in Opt(Times)
      /\ d.count \in [Kinds -> -1 .. 1] /\ d.watches \in 0 .. 1 /\ d.watchers \in 0 .. 1
      /\ d.first \in Opt(Times) /\ d.last \in Opt(Times)
  BY DEF Stats, StatsDeltas
<1>3. \A k \in Kinds : count[k] =
        IF s.count[k] + d.count[k] > 0 THEN s.count[k] + d.count[k] ELSE 0
  BY <1>2 DEF Greatest
<1>4. count \in [Kinds -> Nat]
  <2>1. \A k \in Kinds : count[k] \in Nat
    BY <1>2, <1>3
  <2> QED
    BY <2>1
<1>5. Least(s.first, d.first) \in Opt(Times) /\ Greatest(s.last, d.last) \in Opt(Times)
  BY <1>2 DEF Least, Greatest
<1> HIDE DEF count
<1>6. AddStats(s, d) \in Stats
  BY <1>1, <1>2, <1>4, <1>5 DEF Stats
<1> QED
  BY <1>1, <1>3, <1>6

LEMMA WatcherRowFacts ==
    ASSUME NEW row \in Opt(Watchers), NEW t \in Times
    PROVE  WatcherRow(row, t) \in Watchers
  BY DEF WatcherRow, Watchers, Opt, Greatest

-----------------------------------------------------------------------------
(* The inductive invariant.                                                *)

(* What a row of the user says of a kind, a processed message has said. *)
Known(row, u) ==
    row # Null => \A k \in Kinds :
        row.at[k] # Null => \E n \in Applied(u, k) : sent[n].at = row.at[k]

(* The transaction of a worker follows from its message, the row it has    *)
(* read and, for a watcher, the table it has locked.                       *)
Busy(r) ==
    /\ r.message \in Messages \ processed
    /\ Known(r.row, sent[r.message].user)
    /\ r.phase = "watch" => sent[r.message].kind = "watch"
    /\ r.phase \in {"watch", "upsert"} => r.wrote = Null
    /\ r.phase = "count" => r.wrote # Null

Decided(r) ==
    r.phase = "upsert" \/ r.wrote = "state" =>
        /\ sent[r.message].kind \in Kinds
        /\ ~IsStale(r.row, sent[r.message])
        /\ r.delta = FlagDelta(r.row, sent[r.message])

Marked(r) ==
    r.wrote = "watcher" =>
        /\ sent[r.message].kind = "watch"
        /\ r.delta = WatchDelta(watchers[sent[r.message].user] = Null, sent[r.message].at)

Complete(r) ==
    r.phase = "done" =>
        /\ r.wrote = Null =>
              /\ ~r.counted
              /\ \/ sent[r.message].kind = "unsupported"
                 \/ sent[r.message].kind \in Kinds /\ IsStale(r.row, sent[r.message])
        /\ r.wrote = "state" => r.counted \/ r.delta = NoStats
        /\ r.wrote = "watcher" => r.counted

Sound(r) ==
    /\ r.phase = "idle" => r.message = Null /\ r.wrote = Null
    /\ r.phase # "idle" => Busy(r)
    /\ Decided(r) /\ Marked(r) /\ Complete(r)

(* Two transactions have neither a message nor a written row in common. *)
Apart(q, r) ==
    /\ q.message # Null => q.message # r.message
    /\ q.wrote # Null /\ q.wrote = r.wrote =>
          sent[q.message].user # sent[r.message].user

ViewersCounted == stats.watchers = Cardinality({u \in Users : watchers[u] # Null})

(* A video that has viewers has been watched at some time. *)
PeriodBegun == \A u \in Users : watchers[u] # Null => stats.first # Null

IInv ==
    /\ TypeOK
    /\ \A w \in Workers : Sound(worker[w])
    /\ \A w, x \in Workers : w # x => Apart(worker[w], worker[x])
    /\ \A u \in Users : Known(state[u], u)
    /\ NewestWinsUnlessRaced
    /\ CountsAgreeUnlessRaced
    /\ ViewersCounted
    /\ PeriodBegun

LEMMA IdleFacts ==
    /\ Idle \in WorkerStates
    /\ Idle.phase = "idle" /\ Idle.message = Null /\ Idle.wrote = Null
    /\ Idle.counted = FALSE /\ Idle.delta \in StatsDeltas /\ Idle.row = Null
    /\ Sound(Idle)
<1>1. Idle \in WorkerStates
  BY NoStatsFacts DEF Idle, WorkerStates, Opt
<1>2. /\ Idle.phase = "idle" /\ Idle.message = Null /\ Idle.wrote = Null
      /\ Idle.counted = FALSE /\ Idle.delta = NoStats /\ Idle.row = Null
  BY DEF Idle
<1>3. Null # "state" /\ Null # "watcher"
  BY DEF Locks
<1> QED
  BY <1>1, <1>2, <1>3, NoStatsFacts DEF Sound, Decided, Marked, Complete

LEMMA Beginning == Init => IInv
<1> SUFFICES ASSUME Init PROVE IInv
  OBVIOUS
<1>1. TypeOK
  BY IdleFacts, NoStatsFacts DEF Init, TypeOK, Opt
<1>2. \A w \in Workers : worker[w] = Idle
  BY DEF Init
<1>3. \A w \in Workers : Sound(worker[w])
  BY <1>2, IdleFacts
<1>4. \A w, x \in Workers : w # x => Apart(worker[w], worker[x])
  BY <1>2, IdleFacts DEF Apart
<1>5. \A u \in Users : state[u] = Null /\ watchers[u] = Null
  BY DEF Init
<1>6. \A u \in Users : Known(state[u], u)
  BY <1>5 DEF Known
<1>7. NewestWinsUnlessRaced
  <2>1. \A u \in Users, k \in Kinds : Applied(u, k) = {}
    BY DEF Init, Applied
  <2> QED
    BY <1>5, <2>1 DEF NewestWinsUnlessRaced, NewestWins
<1>8. CountsAgreeUnlessRaced
  <2>1. \A k \in Kinds : {u \in Users : state[u] # Null /\ state[u].has[k]} = {}
    BY <1>5
  <2>2. \A k \in Kinds : stats.count[k] = 0
    BY NoStatsFacts DEF Init
  <2> QED
    BY <2>1, <2>2, FS_EmptySet DEF CountsAgreeUnlessRaced
<1>9. ViewersCounted
  <2>1. {u \in Users : watchers[u] # Null} = {}
    BY <1>5
  <2> QED
    BY <2>1, FS_EmptySet, NoStatsFacts DEF ViewersCounted, Init
<1>10. PeriodBegun
  BY <1>5 DEF PeriodBegun
<1> QED
  BY <1>1, <1>3, <1>4, <1>6, <1>7, <1>8, <1>9, <1>10 DEF IInv

-----------------------------------------------------------------------------
(* Every step before the commit keeps it: such a step is one of a worker   *)
(* and leaves the tables alone.                                            *)

LEMMA WorkerStep ==
    ASSUME IInv, NEW w \in Workers, NEW r \in WorkerStates,
           worker' = [worker EXCEPT ![w] = r],
           UNCHANGED <<tables, sent, processed, raced>>,
           failures' \in 0 .. MaxFailures,
           Sound(r), \A x \in Workers \ {w} : Apart(r, worker[x]) /\ Apart(worker[x], r)
    PROVE  IInv'
<1>1. /\ state' = state /\ stats' = stats /\ watchers' = watchers
      /\ sent' = sent /\ processed' = processed /\ raced' = raced
  BY DEF tables
<1>2. TypeOK'
  BY <1>1 DEF IInv, TypeOK
<1>3. worker \in [Workers -> WorkerStates]
  BY DEF IInv, TypeOK
<1>4. worker'[w] = r /\ \A x \in Workers \ {w} : worker'[x] = worker[x]
  BY <1>3
<1>5. \A x \in Workers : Sound(worker'[x])
  BY <1>4 DEF IInv
<1>6. ASSUME NEW x \in Workers PROVE Sound(worker[x])'
  <2>1. Sound(worker'[x]) = Sound(worker[x])'
    BY <1>1 DEF Sound, Busy, Decided, Marked, Complete, Known, Applied
  <2> QED
    BY <1>5, <2>1
<1>7. ASSUME NEW x \in Workers, NEW y \in Workers, x # y
      PROVE  Apart(worker[x], worker[y])'
  BY <1>1, <1>4, <1>7 DEF Apart, IInv
<1>8. /\ (\A u \in Users : Known(state[u], u))'
      /\ NewestWinsUnlessRaced' /\ CountsAgreeUnlessRaced' /\ ViewersCounted'
      /\ PeriodBegun'
  BY <1>1 DEF IInv, Known, Applied, NewestWinsUnlessRaced, NewestWins,
              CountsAgreeUnlessRaced, ViewersCounted, PeriodBegun
<1> QED
  BY <1>2, <1>6, <1>7, <1>8 DEF IInv

(* A transaction that has just begun. *)
Begun(q, p, m, row, d) == [q EXCEPT !.phase = p, !.message = m, !.row = row, !.delta = d]

LEMMA BegunFacts ==
    ASSUME NEW q \in WorkerStates, NEW p \in {"upsert", "watch", "done", "refused"},
           NEW m \in Messages, NEW row \in Opt(UserStates), NEW d \in StatsDeltas
    PROVE  /\ Begun(q, p, m, row, d) \in WorkerStates
           /\ Begun(q, p, m, row, d).phase = p /\ Begun(q, p, m, row, d).message = m
           /\ Begun(q, p, m, row, d).row = row /\ Begun(q, p, m, row, d).delta = d
           /\ Begun(q, p, m, row, d).wrote = q.wrote
           /\ Begun(q, p, m, row, d).counted = q.counted
<1>1. m \in Opt(Messages)
  BY DEF Opt
<1> QED
  BY <1>1 DEF WorkerStates, Begun

(* It is apart from all others, for it has a message nobody has and has    *)
(* written nothing.                                                        *)
LEMMA BegunApart ==
    ASSUME IInv, NEW w \in Workers, NEW m \in Messages, TakeMessage(w, m),
           NEW r, r.message = m, r.wrote = Null,
           NEW x \in Workers
    PROVE  Apart(r, worker[x]) /\ Apart(worker[x], r)
<1>1. worker[x].message # m
  BY DEF TakeMessage
<1> QED
  BY <1>1 DEF Apart

LEMMA EventType ==
    ASSUME IInv, NEW m \in Messages
    PROVE  sent[m] \in Events /\ sent[m].user \in Users /\ sent[m].at \in Times
<1>1. sent[m] \in Events
  BY DEF IInv, TypeOK
<1> QED
  BY <1>1 DEF Events

LEMMA ApplyEngagementKeeps ==
    ASSUME IInv, NEW w \in Workers, NEW m \in Messages, ApplyEngagement(w, m)
    PROVE  IInv'
<1>0. /\ Idle \in WorkerStates /\ Idle.wrote = Null /\ Idle.counted = FALSE
      /\ Idle.delta \in StatsDeltas
  BY IdleFacts
<1>1. PICK e : e = sent[m]
  OBVIOUS
<1>2. PICK row : row = state[e.user]
  OBVIOUS
<1>3. e \in Events /\ e.user \in Users /\ row \in Opt(UserStates)
  BY <1>1, <1>2, EventType DEF IInv, TypeOK
<1>4. TakeMessage(w, m) /\ e.kind \in Kinds
  BY <1>1 DEF ApplyEngagement
<1>5. Known(row, e.user)
  BY <1>2, <1>3 DEF IInv
<1>6. failures' \in 0 .. MaxFailures /\ UNCHANGED <<tables, sent, processed, raced>>
  BY DEF ApplyEngagement, IInv, TypeOK
<1>7. m \notin processed /\ Null # "state" /\ Null # "watcher"
  BY <1>4 DEF TakeMessage, Locks
<1>8. CASE IsStale(row, e)
  <2>1. PICK r : r = Begun(Idle, "done", m, row, Idle.delta)
    OBVIOUS
  <2>2. /\ r \in WorkerStates
        /\ r.phase = "done" /\ r.message = m /\ r.row = row
        /\ r.wrote = Null /\ r.counted = FALSE
    BY <1>0, <1>3, <2>1, BegunFacts
  <2>3. r = [Idle EXCEPT !.phase = "done", !.message = m, !.row = row]
    BY <1>0, <2>1 DEF WorkerStates, Begun
  <2>4. worker' = [worker EXCEPT ![w] = r]
    BY <1>1, <1>2, <1>8, <2>3 DEF ApplyEngagement
  <2>5. Sound(r)
    <3>1. Busy(r)
      BY <1>1, <1>4, <1>5, <1>7, <1>8, <2>2 DEF Sound, Busy
    <3>2. Decided(r)
      BY <1>1, <1>4, <1>5, <1>7, <1>8, <2>2 DEF Sound, Decided
    <3>3. Marked(r)
      BY <1>1, <1>4, <1>5, <1>7, <1>8, <2>2 DEF Sound, Marked
    <3>4. Complete(r)
      BY <1>1, <1>4, <1>5, <1>7, <1>8, <2>2 DEF Sound, Complete, Decided
    <3> QED
      BY <1>1, <1>4, <1>5, <1>7, <1>8, <2>2, <3>1, <3>2, <3>3, <3>4 DEF Sound
  <2>6. \A x \in Workers : Apart(r, worker[x]) /\ Apart(worker[x], r)
    BY <1>4, <2>2, BegunApart
  <2> QED
    BY <1>6, <2>2, <2>4, <2>5, <2>6, WorkerStep
<1>9. CASE ~IsStale(row, e)
  <2>1. PICK r : r = Begun(Idle, "upsert", m, row, FlagDelta(row, e))
    OBVIOUS
  <2>2. FlagDelta(row, e) \in StatsDeltas
    BY <1>3, <1>4, FlagDeltaFacts
  <2>3. /\ r \in WorkerStates
        /\ r.phase = "upsert" /\ r.message = m /\ r.row = row
        /\ r.delta = FlagDelta(row, e) /\ r.wrote = Null /\ r.counted = FALSE
    BY <1>0, <1>3, <2>1, <2>2, BegunFacts
  <2>4. worker' = [worker EXCEPT ![w] = r]
    BY <1>1, <1>2, <1>9, <2>1 DEF ApplyEngagement, Begun
  <2>5. Sound(r)
    <3>1. Busy(r)
      BY <1>1, <1>4, <1>5, <1>7, <1>9, <2>3 DEF Sound, Busy
    <3>2. Decided(r)
      BY <1>1, <1>4, <1>5, <1>7, <1>9, <2>3 DEF Sound, Decided
    <3>3. Marked(r)
      BY <1>1, <1>4, <1>5, <1>7, <1>9, <2>3 DEF Sound, Marked
    <3>4. Complete(r)
      BY <1>1, <1>4, <1>5, <1>7, <1>9, <2>3 DEF Sound, Complete, Decided
    <3> QED
      BY <1>1, <1>4, <1>5, <1>7, <1>9, <2>3, <3>1, <3>2, <3>3, <3>4 DEF Sound
  <2>6. \A x \in Workers : Apart(r, worker[x]) /\ Apart(worker[x], r)
    BY <1>4, <2>3, BegunApart
  <2> QED
    BY <1>6, <2>3, <2>4, <2>5, <2>6, WorkerStep
<1> QED
  BY <1>8, <1>9

LEMMA HandleWatchProgressKeeps ==
    ASSUME IInv, NEW w \in Workers, NEW m \in Messages, HandleWatchProgress(w, m)
    PROVE  IInv'
<1>0. /\ Idle \in WorkerStates /\ Idle.wrote = Null /\ Idle.counted = FALSE
      /\ Idle.delta \in StatsDeltas /\ Idle.row = Null
  BY IdleFacts
<1>1. PICK r : r = Begun(Idle, "watch", m, Null, Idle.delta)
  OBVIOUS
<1>2. /\ r \in WorkerStates
      /\ r.phase = "watch" /\ r.message = m /\ r.row = Null
      /\ r.wrote = Null /\ r.counted = FALSE
  BY <1>0, <1>1, BegunFacts DEF Opt
<1>3. r = [Idle EXCEPT !.phase = "watch", !.message = m]
  BY <1>0, <1>1 DEF WorkerStates, Begun
<1>4. worker' = [worker EXCEPT ![w] = r]
  BY <1>3 DEF HandleWatchProgress
<1>5. TakeMessage(w, m) /\ sent[m].kind = "watch" /\ m \notin processed
  BY DEF HandleWatchProgress, TakeMessage
<1>6. Null # "state" /\ Null # "watcher"
  BY DEF Locks
<1>7. Sound(r)
  <2>1. Busy(r)
    BY <1>2, <1>5, <1>6 DEF Sound, Busy, Known
  <2>2. Decided(r)
    BY <1>2, <1>5, <1>6 DEF Sound, Decided
  <2>3. Marked(r)
    BY <1>2, <1>5, <1>6 DEF Sound, Marked
  <2>4. Complete(r)
    BY <1>2, <1>5, <1>6 DEF Sound, Busy, Complete, Decided
  <2> QED
    BY <1>2, <1>5, <1>6, <2>1, <2>2, <2>3, <2>4 DEF Sound
<1>8. \A x \in Workers : Apart(r, worker[x]) /\ Apart(worker[x], r)
  BY <1>2, <1>5, BegunApart
<1>9. failures' \in 0 .. MaxFailures /\ UNCHANGED <<tables, sent, processed, raced>>
  BY DEF HandleWatchProgress, IInv, TypeOK
<1> QED
  BY <1>2, <1>4, <1>7, <1>8, <1>9, WorkerStep

(* An event the handler does not know, and one it refuses. *)
LEMMA NothingToDoKeeps ==
    ASSUME IInv, NEW w \in Workers, NEW m \in Messages,
           SkipUnsupported(w, m) \/ RefuseMalformed(w, m)
    PROVE  IInv'
<1>0. /\ Idle \in WorkerStates /\ Idle.wrote = Null /\ Idle.counted = FALSE
      /\ Idle.delta \in StatsDeltas /\ Idle.row = Null
  BY IdleFacts
<1>1. PICK p \in {"done", "refused"} :
        /\ worker' = [worker EXCEPT ![w] = [Idle EXCEPT !.phase = p, !.message = m]]
        /\ p = "done" => sent[m].kind = "unsupported"
  BY DEF SkipUnsupported, RefuseMalformed
<1>2. PICK r : r = Begun(Idle, p, m, Null, Idle.delta)
  OBVIOUS
<1>3. /\ r \in WorkerStates
      /\ r.phase = p /\ r.message = m /\ r.row = Null
      /\ r.wrote = Null /\ r.counted = FALSE
  BY <1>0, <1>2, BegunFacts DEF Opt
<1>4. r = [Idle EXCEPT !.phase = p, !.message = m]
  BY <1>0, <1>2 DEF WorkerStates, Begun
<1>5. worker' = [worker EXCEPT ![w] = r]
  BY <1>1, <1>4, Zenon
<1>6. TakeMessage(w, m) /\ m \notin processed
  BY DEF SkipUnsupported, RefuseMalformed, TakeMessage
<1>7. Null # "state" /\ Null # "watcher"
  BY DEF Locks
<1>8. Sound(r)
  <2>1. Busy(r)
    BY <1>3, <1>6, <1>7 DEF Busy, Known
  <2>2. Decided(r) /\ Marked(r) /\ Complete(r)
    BY <1>1, <1>3, <1>7 DEF Decided, Marked, Complete
  <2> QED
    BY <1>3, <2>1, <2>2 DEF Sound
<1>9. \A x \in Workers : Apart(r, worker[x]) /\ Apart(worker[x], r)
  BY <1>3, <1>6, BegunApart
<1>10. failures' \in 0 .. MaxFailures /\ UNCHANGED <<tables, sent, processed, raced>>
  BY DEF SkipUnsupported, RefuseMalformed, IInv, TypeOK
<1> QED
  BY <1>3, <1>5, <1>8, <1>9, <1>10, WorkerStep

(* A worker that is not idle, and what its message is. *)
LEMMA BusyFacts ==
    ASSUME IInv, NEW w \in Workers, worker[w].phase # "idle"
    PROVE  /\ worker[w] \in WorkerStates /\ worker[w].message \in Messages
           /\ worker[w].row \in Opt(UserStates) /\ worker[w].delta \in StatsDeltas
           /\ worker[w].wrote \in Opt(Locks) /\ worker[w].counted \in BOOLEAN
           /\ Event(w) = sent[worker[w].message] /\ Event(w) \in Events
           /\ Event(w).user \in Users /\ Event(w).at \in Times
           /\ Sound(worker[w])
<1>1. Sound(worker[w]) /\ worker[w] \in WorkerStates
  BY DEF IInv, TypeOK
<1>2. worker[w].message \in Messages
  BY <1>1 DEF Sound, Busy
<1> QED
  BY <1>1, <1>2, EventType DEF Event, WorkerStates

(* A worker that goes on keeps its message; the row it takes the lock of   *)
(* is nobody else's.                                                       *)
LEMMA GoesOn ==
    ASSUME IInv, NEW w \in Workers, NEW r, worker[w].phase # "idle",
           r.message = worker[w].message,
           r.wrote = worker[w].wrote \/ ~RowLocked(r.wrote, Event(w).user),
           NEW x \in Workers \ {w}
    PROVE  Apart(r, worker[x]) /\ Apart(worker[x], r)
<1>1. Apart(worker[w], worker[x]) /\ Apart(worker[x], worker[w])
  BY DEF IInv
<1> QED
  BY <1>1 DEF Apart, RowLocked, Event

(* A transaction after a statement of the worker. *)
Changed(q, p, l, d, c) ==
    [q EXCEPT !.phase = p, !.wrote = l, !.delta = d, !.counted = c]

LEMMA ChangedFacts ==
    ASSUME NEW q \in WorkerStates, NEW p \in {"count", "done"}, NEW l \in Opt(Locks),
           NEW d \in StatsDeltas, NEW c \in BOOLEAN
    PROVE  /\ Changed(q, p, l, d, c) \in WorkerStates
           /\ Changed(q, p, l, d, c).phase = p
           /\ Changed(q, p, l, d, c).message = q.message
           /\ Changed(q, p, l, d, c).row = q.row /\ Changed(q, p, l, d, c).wrote = l
           /\ Changed(q, p, l, d, c).delta = d /\ Changed(q, p, l, d, c).counted = c
  BY DEF WorkerStates, Changed

LEMMA UpsertUserStateKeeps ==
    ASSUME IInv, NEW w \in Workers, UpsertUserState(w)
    PROVE  IInv'
<1>1. PICK q : q = worker[w]
  OBVIOUS
<1>2. /\ q.phase = "upsert" /\ ~RowLocked("state", Event(w).user)
      /\ UNCHANGED <<tables, sent, processed, raced>>
  BY <1>1 DEF UpsertUserState
<1>3. PICK p : p = IF q.delta = NoStats THEN "done" ELSE "count"
  OBVIOUS
<1>4. PICK r : r = Changed(q, p, "state", q.delta, q.counted)
  OBVIOUS
<1>5. worker \in [Workers -> WorkerStates] /\ failures' \in 0 .. MaxFailures
  BY DEF IInv, TypeOK, UpsertUserState
<1>6. q \in WorkerStates /\ Sound(q) /\ q.delta \in StatsDeltas /\ q.counted \in BOOLEAN
  BY <1>1, <1>2, BusyFacts
<1>7. p \in {"count", "done"} /\ "state" \in Opt(Locks)
  BY <1>3 DEF Opt, Locks
<1>8. /\ r \in WorkerStates
      /\ r.phase = p /\ r.message = q.message /\ r.row = q.row /\ r.wrote = "state"
      /\ r.delta = q.delta
  BY <1>4, <1>6, <1>7, ChangedFacts
<1>9. r = [q EXCEPT !.phase = p, !.wrote = "state"]
  BY <1>4, <1>6 DEF WorkerStates, Changed
<1>10. worker' = [worker EXCEPT ![w] = r]
  <2>1. worker' = [worker EXCEPT ![w].phase = p, ![w].wrote = "state"]
    BY <1>1, <1>3 DEF UpsertUserState
  <2> QED
    BY <1>1, <1>5, <1>9, <2>1
<1>11. Sound(r)
  <2>1. Busy(r)
    BY <1>2, <1>3, <1>6, <1>7, <1>8 DEF Sound, Busy, Locks
  <2>2. Decided(r)
    BY <1>2, <1>3, <1>6, <1>7, <1>8 DEF Sound, Decided, Locks
  <2>3. Marked(r)
    BY <1>2, <1>3, <1>6, <1>7, <1>8 DEF Sound, Marked, Locks
  <2>4. Complete(r)
    BY <1>2, <1>3, <1>6, <1>7, <1>8 DEF Sound, Complete, Decided, Locks
  <2> QED
    BY <1>2, <1>3, <1>6, <1>7, <1>8, <2>1, <2>2, <2>3, <2>4 DEF Sound
<1>12. \A x \in Workers \ {w} : Apart(r, worker[x]) /\ Apart(worker[x], r)
  BY <1>1, <1>2, <1>8, GoesOn
<1> QED
  BY <1>2, <1>5, <1>8, <1>10, <1>11, <1>12, WorkerStep

LEMMA MarkWatcherKeeps ==
    ASSUME IInv, NEW w \in Workers, MarkWatcher(w)
    PROVE  IInv'
<1>1. PICK q : q = worker[w]
  OBVIOUS
<1>2. PICK d : d = WatchDelta(watchers[Event(w).user] = Null, Event(w).at)
  OBVIOUS
<1>3. /\ q.phase = "watch" /\ ~RowLocked("watcher", Event(w).user)
      /\ UNCHANGED <<tables, sent, processed, raced>>
  BY <1>1 DEF MarkWatcher
<1>4. PICK r : r = Changed(q, "count", "watcher", d, q.counted)
  OBVIOUS
<1>5. worker \in [Workers -> WorkerStates] /\ failures' \in 0 .. MaxFailures
  BY DEF IInv, TypeOK, MarkWatcher
<1>6. /\ q \in WorkerStates /\ Sound(q) /\ q.counted \in BOOLEAN
      /\ Event(w) = sent[q.message] /\ Event(w).at \in Times
  BY <1>1, <1>3, BusyFacts
<1>7. d \in StatsDeltas /\ "watcher" \in Opt(Locks)
  BY <1>2, <1>6, WatchDeltaFacts DEF Opt, Locks
<1>8. /\ r \in WorkerStates
      /\ r.phase = "count" /\ r.message = q.message /\ r.row = q.row
      /\ r.wrote = "watcher" /\ r.delta = d
  BY <1>4, <1>6, <1>7, ChangedFacts
<1>9. r = [q EXCEPT !.phase = "count", !.wrote = "watcher", !.delta = d]
  BY <1>4, <1>6 DEF WorkerStates, Changed
<1>10. worker' = [worker EXCEPT ![w] = r]
  <2>1. worker' = [worker EXCEPT ![w].phase = "count", ![w].wrote = "watcher",
                                 ![w].delta = d]
    BY <1>2, Zenon DEF MarkWatcher
  <2> QED
    BY <1>1, <1>5, <1>9, <2>1
<1>11. Sound(r)
  <2>1. Busy(r)
    BY <1>2, <1>3, <1>6, <1>8 DEF Sound, Busy, Locks
  <2>2. Decided(r)
    BY <1>2, <1>3, <1>6, <1>8 DEF Sound, Decided, Locks
  <2>3. Marked(r)
    <3>1. r.delta = WatchDelta(watchers[sent[r.message].user] = Null, sent[r.message].at)
      BY <1>2, <1>6, <1>8, Zenon
    <3>2. sent[r.message].kind = "watch"
      BY <1>3, <1>6, <1>8 DEF Sound, Busy
    <3> QED
      BY <3>1, <3>2, Zenon DEF Marked
  <2>4. Complete(r)
    BY <1>2, <1>3, <1>6, <1>8 DEF Sound, Complete, Decided, Locks
  <2> QED
    BY <1>2, <1>3, <1>6, <1>8, <2>1, <2>2, <2>3, <2>4 DEF Sound
<1>12. \A x \in Workers \ {w} : Apart(r, worker[x]) /\ Apart(worker[x], r)
  BY <1>1, <1>3, <1>8, GoesOn
<1> QED
  BY <1>3, <1>5, <1>8, <1>10, <1>11, <1>12, WorkerStep

LEMMA IncrementStatsKeeps ==
    ASSUME IInv, NEW w \in Workers, IncrementStats(w)
    PROVE  IInv'
<1>1. PICK q : q = worker[w]
  OBVIOUS
<1>2. q.phase = "count" /\ UNCHANGED <<tables, sent, processed, raced>>
  BY <1>1 DEF IncrementStats
<1>3. PICK r : r = Changed(q, "done", q.wrote, q.delta, TRUE)
  OBVIOUS
<1>4. worker \in [Workers -> WorkerStates] /\ failures' \in 0 .. MaxFailures
  BY DEF IInv, TypeOK, IncrementStats
<1>5. /\ q \in WorkerStates /\ Sound(q)
      /\ q.wrote \in Opt(Locks) /\ q.delta \in StatsDeltas
  BY <1>1, <1>2, BusyFacts
<1>6. /\ r \in WorkerStates
      /\ r.phase = "done" /\ r.message = q.message /\ r.row = q.row /\ r.wrote = q.wrote
      /\ r.delta = q.delta /\ r.counted = TRUE
  <2>1. TRUE \in BOOLEAN
    OBVIOUS
  <2> QED
    BY <1>3, <1>5, <2>1 DEF Changed, WorkerStates
<1>7. r = [q EXCEPT !.phase = "done", !.counted = TRUE]
  BY <1>3, <1>5 DEF WorkerStates, Changed
<1>8. worker' = [worker EXCEPT ![w] = r]
  BY <1>1, <1>4, <1>7 DEF IncrementStats
<1>9. Sound(r)
  <2>1. Busy(r)
    BY <1>2, <1>5, <1>6 DEF Sound, Busy
  <2>2. Decided(r)
    BY <1>2, <1>5, <1>6 DEF Sound, Decided
  <2>3. Marked(r)
    BY <1>2, <1>5, <1>6 DEF Sound, Marked
  <2>4. Complete(r)
    BY <1>2, <1>5, <1>6 DEF Sound, Busy, Complete, Decided
  <2> QED
    BY <1>2, <1>5, <1>6, <2>1, <2>2, <2>3, <2>4 DEF Sound
<1>10. \A x \in Workers \ {w} : Apart(r, worker[x]) /\ Apart(worker[x], r)
  BY <1>1, <1>2, <1>6, GoesOn
<1> QED
  BY <1>2, <1>4, <1>6, <1>8, <1>9, <1>10, WorkerStep

LEMMA RollbackKeeps ==
    ASSUME IInv, NEW w \in Workers, Rollback(w), failures' \in 0 .. MaxFailures
    PROVE  IInv'
<1>1. worker' = [worker EXCEPT ![w] = Idle] /\ UNCHANGED <<tables, sent, processed, raced>>
  BY DEF Rollback
<1>2. ASSUME NEW x \in Workers
      PROVE  Apart(Idle, worker[x]) /\ Apart(worker[x], Idle)
  BY IdleFacts DEF Apart
<1> QED
  BY <1>1, <1>2, IdleFacts, WorkerStep

-----------------------------------------------------------------------------
(* The commit.                                                             *)

(* The transaction q of event e is about to commit. *)
Ready(q, e) ==
    /\ q \in WorkerStates /\ q.phase = "done" /\ Sound(q)
    /\ q.message \in Messages \ processed /\ e = sent[q.message]
    /\ e \in Events /\ e.user \in Users /\ e.at \in Times
    /\ q.row \in Opt(UserStates) /\ q.delta \in StatsDeltas
    /\ q.wrote \in Opt(Locks) /\ q.counted \in BOOLEAN
    /\ Known(q.row, e.user)

LEMMA CommitIsReady ==
    ASSUME IInv, NEW w \in Workers, Commit(w)
    PROVE  Ready(worker[w], Event(w))
<1>1. worker[w].phase = "done"
  BY DEF Commit
<1>2. /\ worker[w] \in WorkerStates /\ worker[w].row \in Opt(UserStates)
      /\ worker[w].delta \in StatsDeltas /\ worker[w].wrote \in Opt(Locks)
      /\ worker[w].counted \in BOOLEAN /\ Event(w) = sent[worker[w].message]
      /\ Event(w) \in Events /\ Event(w).user \in Users /\ Event(w).at \in Times
      /\ Sound(worker[w])
  BY <1>1, BusyFacts
<1>3. Busy(worker[w])
  BY <1>1, <1>2 DEF Sound
<1> QED
  BY <1>1, <1>2, <1>3 DEF Ready, Busy

(* What it does to every table. *)
Committed(w, q, e) ==
    /\ state' = IF q.wrote = "state"
                THEN [state EXCEPT ![e.user] = NewState(q.row, e)] ELSE state
    /\ watchers' = IF q.wrote = "watcher"
                   THEN [watchers EXCEPT ![e.user] = WatcherRow(watchers[e.user], e.at)]
                   ELSE watchers
    /\ stats' = IF q.counted THEN AddStats(stats, q.delta) ELSE stats
    /\ raced' = [raced EXCEPT ![e.user] =
                    raced[e.user] \/ (q.wrote = "state" /\ state[e.user] # q.row)]
    /\ processed' = processed \cup {q.message}
    /\ worker' = [worker EXCEPT ![w] = Idle]
    /\ sent' = sent /\ failures' = failures

LEMMA CommitCommits ==
    ASSUME NEW w \in Workers, Commit(w)
    PROVE  Committed(w, worker[w], Event(w))
  BY Zenon DEF Commit, Committed

(* The three kinds of transactions that commit. *)
LEMMA ThreeKinds ==
    ASSUME NEW q, NEW e, Ready(q, e)
    PROVE  \/ /\ q.wrote = Null /\ ~q.counted
              /\ e.kind = "unsupported" \/ (e.kind \in Kinds /\ IsStale(q.row, e))
           \/ /\ q.wrote = "state" /\ e.kind \in Kinds /\ ~IsStale(q.row, e)
              /\ q.delta = FlagDelta(q.row, e)
              /\ q.counted \/ q.delta = NoStats
           \/ /\ q.wrote = "watcher" /\ e.kind = "watch" /\ q.counted
              /\ q.delta = WatchDelta(watchers[e.user] = Null, e.at)
<1>1. Decided(q) /\ Marked(q) /\ Complete(q) /\ e = sent[q.message] /\ q.phase = "done"
  BY DEF Ready, Sound
<1>2. q.wrote \in {Null, "state", "watcher"}
  BY DEF Ready, Opt, Locks
<1>3. CASE q.wrote = Null
  BY <1>1, <1>3 DEF Complete
<1>4. CASE q.wrote = "state"
  BY <1>1, <1>4 DEF Complete, Decided
<1>5. CASE q.wrote = "watcher"
  <2>1. q.counted /\ e.kind = "watch"
    BY <1>1, <1>5 DEF Complete, Marked
  <2>2. q.delta = WatchDelta(watchers[e.user] = Null, e.at)
    BY <1>1, <1>5, Zenon DEF Marked
  <2> QED
    BY <1>5, <2>1, <2>2, Zenon
<1> QED
  BY <1>2, <1>3, <1>4, <1>5

(* What they add to the counters. *)
LEMMA WatchAdds ==
    ASSUME NEW q, NEW e, Ready(q, e), q.wrote = "watcher"
    PROVE  /\ q.counted /\ e.kind = "watch"
           /\ \A k \in Kinds : q.delta.count[k] = 0
           /\ q.delta.watches = 1 /\ q.delta.last = e.at
           /\ q.delta.watchers = IF watchers[e.user] = Null THEN 1 ELSE 0
           /\ q.delta.first = IF watchers[e.user] = Null THEN e.at ELSE Null
<1>1. /\ q.counted /\ e.kind = "watch"
      /\ q.delta = WatchDelta(watchers[e.user] = Null, e.at)
  BY ThreeKinds DEF Locks
<1>2. PICK inserted \in BOOLEAN : inserted = (watchers[e.user] = Null)
  OBVIOUS
<1>3. q.delta = WatchDelta(inserted, e.at) /\ e.at \in Times
  BY <1>1, <1>2, Zenon DEF Ready
<1>4. /\ \A k \in Kinds : q.delta.count[k] = 0
      /\ q.delta.watches = 1 /\ q.delta.last = e.at
      /\ q.delta.watchers = IF inserted THEN 1 ELSE 0
      /\ q.delta.first = IF inserted THEN e.at ELSE Null
  <2>1. PICK t \in Times : t = e.at
    BY <1>3
  <2>2. /\ \A k \in Kinds : WatchDelta(inserted, t).count[k] = 0
        /\ WatchDelta(inserted, t).watches = 1 /\ WatchDelta(inserted, t).last = t
        /\ WatchDelta(inserted, t).watchers = IF inserted THEN 1 ELSE 0
        /\ WatchDelta(inserted, t).first = IF inserted THEN t ELSE Null
    BY WatchDeltaFacts
  <2>3. q.delta = WatchDelta(inserted, t)
    BY <1>3, <2>1, Zenon
  <2> QED
    BY <2>1, <2>2, <2>3, Zenon
<1> QED
  BY <1>1, <1>2, <1>4

LEMMA FlagAdds ==
    ASSUME NEW q, NEW e, Ready(q, e), q.wrote # "watcher"
    PROVE  /\ e.kind # "watch"
           /\ q.counted => /\ q.delta.watches = 0 /\ q.delta.watchers = 0
                           /\ q.delta.first = Null /\ q.delta.last = Null
<1>1. /\ e.kind # "watch"
      /\ q.counted => e.kind \in Kinds /\ q.delta = FlagDelta(q.row, e)
  BY ThreeKinds DEF Kinds
<1>2. q.row \in Opt(UserStates) /\ e \in Events
  BY DEF Ready
<1>3. e.kind \in Kinds =>
        /\ FlagDelta(q.row, e).watches = 0 /\ FlagDelta(q.row, e).watchers = 0
        /\ FlagDelta(q.row, e).first = Null /\ FlagDelta(q.row, e).last = Null
  BY <1>2, FlagDeltaFacts
<1> QED
  BY <1>1, <1>3

(* The message joins those of its user and kind. *)
LEMMA AppliedGrows ==
    ASSUME NEW w \in Workers, NEW q, NEW e, Ready(q, e), Committed(w, q, e),
           NEW u, NEW k
    PROVE  Applied(u, k)' = IF u = e.user /\ k = e.kind
                            THEN Applied(u, k) \cup {q.message} ELSE Applied(u, k)
  BY DEF Applied, Committed, Ready

(* A row of the table after the commit. *)
LEMMA StateAfter ==
    ASSUME IInv, NEW w \in Workers, NEW q, NEW e, Ready(q, e), Committed(w, q, e),
           NEW u \in Users
    PROVE  /\ state' \in [Users -> Opt(UserStates)]
           /\ state'[u] = IF q.wrote = "state" /\ u = e.user
                          THEN NewState(q.row, e) ELSE state[u]
<1>1. state \in [Users -> Opt(UserStates)]
  BY DEF IInv, TypeOK
<1>2. CASE q.wrote = "state"
  <2>1. e \in Events /\ e.kind \in Kinds /\ q.row \in Opt(UserStates)
    BY <1>2, ThreeKinds DEF Ready, Locks
  <2>2. NewState(q.row, e) \in Opt(UserStates)
    BY <2>1, NewStateFacts DEF Opt
  <2>3. state' = [state EXCEPT ![e.user] = NewState(q.row, e)]
    BY <1>2 DEF Committed
  <2> QED
    BY <1>1, <1>2, <2>2, <2>3
<1>3. CASE q.wrote # "state"
  BY <1>1, <1>3 DEF Committed
<1> QED
  BY <1>2, <1>3

LEMMA WatchersAfter ==
    ASSUME IInv, NEW w \in Workers, NEW q, NEW e, Ready(q, e), Committed(w, q, e),
           NEW u \in Users
    PROVE  /\ watchers' \in [Users -> Opt(Watchers)]
           /\ watchers'[u] = Null <=>
                 watchers[u] = Null /\ ~(q.wrote = "watcher" /\ u = e.user)
<1>1. watchers \in [Users -> Opt(Watchers)] /\ e.user \in Users /\ e.at \in Times
  BY DEF IInv, TypeOK, Ready
<1>2. CASE q.wrote = "watcher"
  <2>1. WatcherRow(watchers[e.user], e.at) \in Watchers
    BY <1>1, WatcherRowFacts
  <2>2. watchers' = [watchers EXCEPT ![e.user] = WatcherRow(watchers[e.user], e.at)]
    BY <1>2 DEF Committed
  <2> QED
    BY <1>1, <1>2, <2>1, <2>2 DEF Opt
<1>3. CASE q.wrote # "watcher"
  BY <1>1, <1>3 DEF Committed
<1> QED
  BY <1>2, <1>3

LEMMA CommitTypes ==
    ASSUME IInv, NEW w \in Workers, NEW q, NEW e, Ready(q, e), Committed(w, q, e)
    PROVE  TypeOK'
<1>1. stats' \in Stats
  BY AddStatsFacts DEF IInv, TypeOK, Committed, Ready
<1>2. e.user \in Users
  BY DEF Ready
<1>3. state' \in [Users -> Opt(UserStates)] /\ watchers' \in [Users -> Opt(Watchers)]
  BY <1>2, StateAfter, WatchersAfter
<1>4. sent' \in [Messages -> Happened] /\ failures' \in 0 .. MaxFailures
  BY DEF IInv, TypeOK, Committed
<1>5. processed' \subseteq Messages
  BY DEF IInv, TypeOK, Committed, Ready
<1>6. worker' \in [Workers -> WorkerStates]
  BY IdleFacts DEF IInv, TypeOK, Committed
<1>7. raced' \in [Users -> BOOLEAN]
  BY DEF IInv, TypeOK, Committed
<1> QED
  BY <1>1, <1>3, <1>4, <1>5, <1>6, <1>7 DEF TypeOK

(* Rows are written from events that are processed from now on. *)
LEMMA KnownGrows ==
    ASSUME NEW w \in Workers, NEW q, NEW e, Ready(q, e), Committed(w, q, e),
           NEW row, NEW u, Known(row, u)
    PROVE  Known(row, u)'
<1>1. \A k : Applied(u, k) \subseteq Applied(u, k)'
  BY AppliedGrows
<1>2. sent' = sent
  BY DEF Committed
<1> QED
  BY <1>1, <1>2 DEF Known

LEMMA CommitKnown ==
    ASSUME IInv, NEW w \in Workers, NEW q, NEW e, Ready(q, e), Committed(w, q, e),
           NEW u \in Users
    PROVE  Known(state[u], u)'
<1>1. CASE ~(q.wrote = "state" /\ u = e.user)
  <2>1. PICK row : row = state[u]
    OBVIOUS
  <2>2. Known(row, u) /\ state'[u] = row
    BY <1>1, <2>1, StateAfter DEF IInv
  <2>3. Known(row, u)'
    BY <2>2, KnownGrows
  <2> QED
    BY <2>2, <2>3 DEF Known
<1>2. CASE q.wrote = "state" /\ u = e.user
  <2>1. /\ e \in Events /\ e.kind \in Kinds /\ q.row \in Opt(UserStates)
        /\ Known(q.row, u) /\ e = sent[q.message] /\ sent' = sent
    BY <1>2, ThreeKinds DEF Ready, Locks, Committed
  <2>2. Known(q.row, u)'
    BY <2>1, KnownGrows
  <2>3. state'[u] = NewState(q.row, e)
    BY <1>2, StateAfter
  <2>4. ASSUME NEW k \in Kinds, NewState(q.row, e).at[k] # Null
        PROVE  \E n \in Applied(u, k)' : sent'[n].at = NewState(q.row, e).at[k]
    <3>1. CASE k = e.kind
      <4>1. q.message \in Applied(u, k)'
        BY <1>2, <3>1, AppliedGrows
      <4>2. NewState(q.row, e).at[k] = e.at
        BY <2>1, <3>1, NewStateFacts
      <4> QED
        BY <2>1, <4>1, <4>2
    <3>2. CASE k # e.kind
      <4>1. NewState(q.row, e).at[k] = IF q.row = Null THEN Null ELSE q.row.at[k]
        BY <2>1, <3>2, NewStateFacts
      <4> QED
        BY <2>2, <2>4, <4>1 DEF Known
    <3> QED
      BY <3>1, <3>2
  <2> QED
    BY <2>3, <2>4 DEF Known
<1> QED
  BY <1>1, <1>2

(* The transactions of the others stay as sound as they were. *)
LEMMA CommitSound ==
    ASSUME IInv, NEW w \in Workers, NEW q, NEW e, q = worker[w],
           Ready(q, e), Committed(w, q, e)
    PROVE  /\ \A x \in Workers : Sound(worker[x])'
           /\ \A x, y \in Workers : x # y => Apart(worker[x], worker[y])'
<1>1. /\ worker \in [Workers -> WorkerStates] /\ sent' = sent
      /\ processed' = processed \cup {q.message}
      /\ q.message \in Messages /\ q.message # Null /\ e = sent[q.message]
  BY DEF IInv, TypeOK, Committed, Ready
<1>2. worker'[w] = Idle /\ \A x \in Workers \ {w} : worker'[x] = worker[x]
  BY <1>1 DEF Committed
<1>3. Sound(worker[w])'
  <2>1. Null # "state" /\ Null # "watcher"
    BY DEF Locks
  <2> QED
    BY <1>2, <2>1, IdleFacts DEF Sound, Decided, Marked, Complete
<1>4. ASSUME NEW x \in Workers \ {w}
      PROVE  Sound(worker[x])'
  <2>1. PICK r : r = worker[x]
    OBVIOUS
  <2>2. Sound(r) /\ worker'[x] = r /\ Apart(q, r)
    BY <1>2, <2>1 DEF IInv
  <2>3. (r.phase = "idle" => r.message = Null /\ r.wrote = Null)
    BY <2>2 DEF Sound
  <2>4. r.phase # "idle" => Busy(r)'
    <3> SUFFICES ASSUME r.phase # "idle" PROVE Busy(r)'
      OBVIOUS
    <3>1. Busy(r) /\ r.message # q.message
      BY <1>1, <2>2 DEF Sound, Apart
    <3>2. Known(r.row, sent[r.message].user)'
      <4>1. PICK row, u : row = r.row /\ u = sent[r.message].user
        OBVIOUS
      <4>2. Known(row, u)'
        BY <3>1, <4>1, KnownGrows DEF Busy
      <4> QED
        BY <1>1, <4>1, <4>2
    <3> QED
      BY <1>1, <3>1, <3>2 DEF Busy
  <2>5. Decided(r)'
    BY <1>1, <2>2 DEF Sound, Decided
  <2>6. Marked(r)'
    <3> SUFFICES ASSUME r.wrote = "watcher" PROVE Marked(r)'
      BY DEF Marked
    <3>1. PICK u : u = sent[r.message].user
      OBVIOUS
    <3>2. Marked(r) /\ u \in Users
      <4>1. r.phase # "idle"
        BY <2>2 DEF Sound, Locks
      <4>2. r.message \in Messages
        BY <2>2, <4>1 DEF Sound, Busy
      <4> QED
        BY <2>2, <3>1, <4>2, EventType DEF Sound
    <3>3. ~(q.wrote = "watcher" /\ u = e.user)
      BY <1>1, <2>2, <3>1 DEF Apart, Locks
    <3>4. (watchers'[u] = Null) = (watchers[u] = Null)
      BY <3>2, <3>3, WatchersAfter
    <3>5. /\ sent[r.message].kind = "watch"
          /\ r.delta = WatchDelta(watchers[u] = Null, sent[r.message].at)
      BY <3>1, <3>2, Zenon DEF Marked
    <3>6. r.delta = WatchDelta(watchers'[u] = Null, sent[r.message].at)
      BY <3>4, <3>5, Zenon
    <3> QED
      BY <1>1, <3>1, <3>5, <3>6, Zenon DEF Marked
  <2>7. Complete(r)'
    BY <1>1, <2>2 DEF Sound, Complete
  <2> QED
    BY <2>2, <2>3, <2>4, <2>5, <2>6, <2>7 DEF Sound
<1>5. ASSUME NEW x \in Workers, NEW y \in Workers, x # y
      PROVE  Apart(worker[x], worker[y])'
  <2>1. CASE x = w \/ y = w
    BY <1>2, <1>5, <2>1, IdleFacts DEF Apart
  <2>2. CASE x # w /\ y # w
    BY <1>1, <1>2, <1>5, <2>2 DEF Apart, IInv
  <2> QED
    BY <2>1, <2>2
<1> QED
  BY <1>3, <1>4, <1>5

(* The newest event wins again, if the row was the one the transaction had *)
(* read.                                                                   *)
LEMMA CommitNewest ==
    ASSUME IInv, NEW w \in Workers, NEW q, NEW e, Ready(q, e), Committed(w, q, e)
    PROVE  NewestWinsUnlessRaced'
<1> SUFFICES ASSUME NEW u \in Users, ~raced'[u], NEW k \in Kinds
             PROVE  NewestWins(u, k)'
  BY DEF NewestWinsUnlessRaced
<1>1. /\ raced \in [Users -> BOOLEAN] /\ e.user \in Users /\ sent' = sent
      /\ raced' = [raced EXCEPT ![e.user] =
                      raced[e.user] \/ (q.wrote = "state" /\ state[e.user] # q.row)]
  BY DEF IInv, TypeOK, Ready, Committed
<1>2. ~raced[u] /\ (u = e.user /\ q.wrote = "state" => state[u] = q.row)
  BY <1>1
<1>3. NewestWins(u, k)
  BY <1>2 DEF IInv, NewestWinsUnlessRaced
<1>4. \A n \in Applied(u, k) \cup {q.message} : sent[n] \in Events /\ sent[n].at \in Nat
  <2>1. Applied(u, k) \cup {q.message} \subseteq Messages
    BY DEF Applied, IInv, TypeOK, Ready
  <2> QED
    BY <2>1, EventType
<1>5. state'[u] = IF q.wrote = "state" /\ u = e.user THEN NewState(q.row, e) ELSE state[u]
  BY StateAfter
<1>6. Applied(u, k)' = IF u = e.user /\ k = e.kind
                       THEN Applied(u, k) \cup {q.message} ELSE Applied(u, k)
  BY AppliedGrows
<1>7. e = sent[q.message] /\ e \in Events /\ Known(q.row, e.user)
      /\ q.row \in Opt(UserStates)
  BY DEF Ready
<1>8. CASE ~(u = e.user /\ k = e.kind) /\ ~(u = e.user /\ q.wrote = "state")
  BY <1>1, <1>3, <1>5, <1>6, <1>8 DEF NewestWins
<1>9. CASE u = e.user /\ k # e.kind /\ q.wrote = "state"
  <2>1. e.kind \in Kinds
    BY <1>9, ThreeKinds DEF Locks
  <2>2. /\ state'[u] # Null
        /\ state'[u].has[k] = (q.row # Null /\ q.row.has[k])
        /\ state'[u].at[k] = IF q.row = Null THEN Null ELSE q.row.at[k]
    BY <1>5, <1>7, <1>9, <2>1, NewStateFacts
  <2>3. Applied(u, k)' = Applied(u, k) /\ state[u] = q.row
    BY <1>2, <1>6, <1>9
  <2>4. CASE q.row = Null
    BY <1>3, <2>2, <2>3, <2>4 DEF NewestWins
  <2>5. CASE q.row # Null
    <3>1. q.row.has[k] \in BOOLEAN
      BY <1>7, <2>5 DEF Opt, UserStates
    <3>2. state'[u].has[k] = state[u].has[k] /\ state'[u].at[k] = state[u].at[k]
      BY <2>2, <2>3, <2>5, <3>1
    <3> QED
      BY <1>1, <1>3, <2>2, <2>3, <2>5, <3>2 DEF NewestWins
  <2> QED
    BY <2>4, <2>5
<1>10. CASE u = e.user /\ k = e.kind /\ q.wrote = "state"
  <2>1. ~IsStale(q.row, e)
    BY <1>10, ThreeKinds DEF Locks
  <2>2. /\ state'[u] # Null
        /\ state'[u].has[k] = e.on /\ state'[u].at[k] = e.at
    BY <1>5, <1>7, <1>10, NewStateFacts
  <2>3. ASSUME NEW n \in Applied(u, k) PROVE sent[n].at <= e.at
    <3>1. PICK m \in Applied(u, k) :
            /\ state[u] # Null /\ state[u].at[k] = sent[m].at
            /\ \A x \in Applied(u, k) : sent[x].at <= sent[m].at
      BY <1>3, <2>3 DEF NewestWins
    <3>2. sent[m].at \in Nat /\ sent[n].at \in Nat /\ e.at \in Nat /\ sent[m].at # Null
      BY <1>4, <1>7
    <3>3. ~(e.at <= sent[m].at)
      BY <1>2, <1>10, <2>1, <3>1, <3>2 DEF IsStale
    <3> QED
      BY <3>1, <3>2, <3>3
  <2>4. e.at <= e.at
    BY <1>4, <1>7
  <2>5. \A n \in Applied(u, k)' : sent[n].at <= e.at
    BY <1>6, <1>7, <1>10, <2>3, <2>4
  <2>6. q.message \in Applied(u, k)'
    BY <1>6, <1>10
  <2> QED
    BY <1>1, <1>7, <2>2, <2>5, <2>6 DEF NewestWins
<1>11. CASE u = e.user /\ k = e.kind /\ q.wrote # "state"
  <2>1. q.wrote = Null /\ IsStale(q.row, e)
    <3>1. e.kind # "watch" /\ e.kind # "unsupported"
      BY <1>11 DEF Kinds
    <3> QED
      BY <1>11, <3>1, ThreeKinds
  <2>2. PICK n \in Applied(u, k) : sent[n].at = q.row.at[k]
    BY <1>7, <1>11, <2>1 DEF IsStale, Known
  <2>3. e.at <= sent[n].at
    BY <1>11, <2>1, <2>2 DEF IsStale
  <2>4. PICK m \in Applied(u, k) :
          /\ state[u] # Null /\ state[u].at[k] = sent[m].at
          /\ state[u].has[k] = sent[m].on
          /\ \A x \in Applied(u, k) : sent[x].at <= sent[m].at
    BY <1>3, <2>2 DEF NewestWins
  <2>5. e.at <= sent[m].at
    BY <1>4, <1>7, <2>2, <2>3, <2>4
  <2>6. \A x \in Applied(u, k)' : sent[x].at <= sent[m].at
    BY <1>6, <1>7, <2>4, <2>5
  <2>7. state'[u] = state[u] /\ m \in Applied(u, k)'
    BY <1>5, <1>6, <1>11, <2>4
  <2> QED
    BY <1>1, <2>4, <2>6, <2>7 DEF NewestWins
<1> QED
  BY <1>8, <1>9, <1>10, <1>11

(* The counters follow the flags, if every row was the one read: a step    *)
(* down finds a flag that was set, so that the clamp at zero is idle.      *)
LEMMA CommitCounts ==
    ASSUME IInv, NEW w \in Workers, NEW q, NEW e, Ready(q, e), Committed(w, q, e)
    PROVE  CountsAgreeUnlessRaced'
<1> SUFFICES ASSUME \A u \in Users : ~raced'[u], NEW k \in Kinds
             PROVE  stats'.count[k] =
                      Cardinality({u \in Users : state'[u] # Null /\ state'[u].has[k]})
  BY DEF CountsAgreeUnlessRaced
<1> DEFINE flagged == {u \in Users : state[u] # Null /\ state[u].has[k]}
           after == {u \in Users : state'[u] # Null /\ state'[u].has[k]}
<1>1. /\ raced \in [Users -> BOOLEAN] /\ e.user \in Users
      /\ raced' = [raced EXCEPT ![e.user] =
                      raced[e.user] \/ (q.wrote = "state" /\ state[e.user] # q.row)]
      /\ stats' = IF q.counted THEN AddStats(stats, q.delta) ELSE stats
      /\ stats \in Stats /\ q.delta \in StatsDeltas /\ q.row \in Opt(UserStates)
      /\ e \in Events
  BY DEF IInv, TypeOK, Ready, Committed
<1>2. (\A u \in Users : ~raced[u]) /\ (q.wrote = "state" => state[e.user] = q.row)
  BY <1>1
<1>3. stats.count[k] = Cardinality(flagged)
  BY <1>2 DEF IInv, CountsAgreeUnlessRaced
<1>4. IsFiniteSet(flagged) /\ Cardinality(flagged) \in Nat
  BY FS_Subset, FS_CardinalityType
<1>5. q.counted => stats'.count[k] = IF stats.count[k] + q.delta.count[k] > 0
                                     THEN stats.count[k] + q.delta.count[k] ELSE 0
  BY <1>1, AddStatsFacts
<1>6. ~q.counted => stats' = stats
  BY <1>1
<1>7. \A u \in Users \ {e.user} : state'[u] = state[u]
  BY StateAfter
<1>8. CASE q.wrote # "state"
  <2>1. after = flagged
    <3>1. \A u \in Users : state'[u] = state[u]
      BY <1>8, StateAfter
    <3> QED
      BY <3>1
  <2>2. q.counted => q.delta.count[k] = 0
    <3>1. CASE q.wrote = "watcher"
      BY <3>1, WatchAdds
    <3>2. CASE q.wrote # "watcher"
      BY <1>8, <3>2, ThreeKinds
    <3> QED
      BY <3>1, <3>2
  <2> HIDE DEF after, flagged
  <2>3. stats'.count[k] = Cardinality(flagged)
    BY <1>3, <1>4, <1>5, <1>6, <2>2
  <2> QED
    BY <2>1, <2>3 DEF after
<1>9. CASE q.wrote = "state"
  <2>1. /\ e.kind \in Kinds /\ q.delta = FlagDelta(q.row, e)
        /\ q.counted \/ q.delta = NoStats
    BY <1>9, ThreeKinds DEF Locks
  <2>2. /\ state'[e.user] # Null
        /\ state'[e.user].has[e.kind] = e.on
        /\ k # e.kind => state'[e.user].has[k] = (q.row # Null /\ q.row.has[k])
    BY <1>1, <1>9, <2>1, StateAfter, NewStateFacts
  <2>3. e.user \in flagged <=> Flag(q.row, k)
    BY <1>1, <1>2, <1>9 DEF Flag
  <2>4. CASE k # e.kind
    <3>1. after = flagged
      BY <1>1, <1>2, <1>7, <1>9, <2>2, <2>4
    <3>2. q.delta.count[k] = 0
      BY <1>1, <2>1, <2>4, FlagDeltaFacts
    <3> HIDE DEF after, flagged
    <3>3. stats'.count[k] = Cardinality(flagged)
      BY <1>3, <1>4, <1>5, <1>6, <3>2
    <3> QED
      BY <3>1, <3>3 DEF after
  <2>5. CASE k = e.kind
    <3>1. e.on \in BOOLEAN /\ Flag(q.row, k) \in BOOLEAN
      <4>1. e.on \in BOOLEAN
        BY <1>1 DEF Events
      <4>2. Flag(q.row, k) \in BOOLEAN
        BY <1>1 DEF Flag, Opt, UserStates
      <4> QED
        BY <4>1, <4>2
    <3>2. q.delta.count[k] = IF Flag(q.row, k) = e.on THEN 0 ELSE IF e.on THEN 1 ELSE -1
      BY <1>1, <2>1, <2>5, FlagDeltaFacts
    <3>3. q.delta = NoStats => Flag(q.row, k) = e.on
      BY <1>1, <2>1, <2>5, FlagDeltaFacts
    <3>4. CASE Flag(q.row, k) = e.on
      <4>1. after = flagged
        BY <1>1, <1>7, <2>2, <2>3, <2>5, <3>1, <3>4
      <4>2. q.delta.count[k] = 0
        BY <3>2, <3>4
      <4> HIDE DEF after, flagged
      <4>3. stats'.count[k] = Cardinality(flagged)
        BY <1>3, <1>4, <1>5, <1>6, <4>2
      <4> QED
        BY <4>1, <4>3 DEF after
    <3>5. CASE e.on /\ ~Flag(q.row, k)
      <4>1. after = flagged \cup {e.user} /\ e.user \notin flagged
        BY <1>1, <1>7, <2>2, <2>3, <2>5, <3>5
      <4>2. q.delta.count[k] = 1 /\ q.counted
        BY <2>1, <3>2, <3>3, <3>5
      <4> HIDE DEF after, flagged
      <4>3. Cardinality(after) = Cardinality(flagged) + 1
        BY <1>4, <4>1, FS_AddElement
      <4>4. stats'.count[k] = Cardinality(flagged) + 1
        BY <1>3, <1>4, <1>5, <4>2
      <4> QED
        BY <4>3, <4>4 DEF after
    <3>6. CASE ~e.on /\ Flag(q.row, k)
      <4>1. after = flagged \ {e.user} /\ e.user \in flagged
        BY <1>1, <1>7, <2>2, <2>3, <2>5, <3>6
      <4>2. q.delta.count[k] = -1 /\ q.counted
        BY <2>1, <3>2, <3>3, <3>6
      <4> HIDE DEF after, flagged
      <4>3. Cardinality(after) = Cardinality(flagged) - 1 /\ Cardinality(after) \in Nat
        BY <1>4, <4>1, FS_RemoveElement, FS_CardinalityType
      <4>4. stats'.count[k] = Cardinality(flagged) - 1
        BY <1>3, <1>4, <1>5, <4>2, <4>3
      <4> QED
        BY <4>3, <4>4 DEF after
    <3> QED
      BY <3>1, <3>4, <3>5, <3>6
  <2> QED
    BY <2>4, <2>5
<1> QED
  BY <1>8, <1>9

LEMMA CommitViewers ==
    ASSUME IInv, NEW w \in Workers, NEW q, NEW e, Ready(q, e), Committed(w, q, e)
    PROVE  ViewersCounted'
<1> DEFINE viewers == {u \in Users : watchers[u] # Null}
           after == {u \in Users : watchers'[u] # Null}
<1>1. /\ stats' = IF q.counted THEN AddStats(stats, q.delta) ELSE stats
      /\ stats \in Stats /\ q.delta \in StatsDeltas /\ e.user \in Users
      /\ stats.watchers = Cardinality(viewers)
  BY DEF IInv, TypeOK, Ready, Committed, ViewersCounted
<1>2. IsFiniteSet(viewers) /\ Cardinality(viewers) \in Nat
  BY FS_Subset, FS_CardinalityType
<1>3. q.counted => stats'.watchers = stats.watchers + q.delta.watchers
  BY <1>1, AddStatsFacts
<1>4. SUFFICES stats'.watchers = Cardinality(after)
  BY DEF ViewersCounted
<1>5. CASE q.wrote = "watcher"
  <2>1. q.counted
    BY <1>5, WatchAdds
  <2>2. q.delta.watchers = IF watchers[e.user] = Null THEN 1 ELSE 0
    BY <1>5, WatchAdds
  <2>3. after = viewers \cup {e.user}
    BY <1>1, <1>5, WatchersAfter
  <2>4. e.user \in viewers <=> watchers[e.user] # Null
    BY <1>1
  <2> HIDE DEF after, viewers
  <2>5. Cardinality(after) = IF e.user \in viewers THEN Cardinality(viewers)
                             ELSE Cardinality(viewers) + 1
    BY <1>2, <2>3, FS_AddElement
  <2> QED
    BY <1>1, <1>2, <1>3, <2>1, <2>2, <2>4, <2>5
<1>6. CASE q.wrote # "watcher"
  <2>1. after = viewers
    BY <1>6, WatchersAfter
  <2>2. q.counted => q.delta.watchers = 0
    BY <1>6, FlagAdds
  <2> HIDE DEF after, viewers
  <2> QED
    BY <1>1, <1>2, <1>3, <2>1, <2>2
<1> QED
  BY <1>5, <1>6

LEMMA CommitPeriod ==
    ASSUME IInv, NEW w \in Workers, NEW q, NEW e, Ready(q, e), Committed(w, q, e)
    PROVE  PeriodBegun'
<1> SUFFICES ASSUME NEW u \in Users, watchers'[u] # Null PROVE stats'.first # Null
  BY DEF PeriodBegun
<1>1. /\ stats' = IF q.counted THEN AddStats(stats, q.delta) ELSE stats
      /\ stats \in Stats /\ q.delta \in StatsDeltas /\ e.user \in Users
      /\ e.at \in Times /\ e.at # Null
  BY DEF IInv, TypeOK, Ready, Committed
<1>2. q.counted => stats'.first = Least(stats.first, q.delta.first)
  BY <1>1, AddStatsFacts
<1>3. CASE q.wrote = "watcher" /\ watchers[e.user] = Null
  <2>1. q.counted /\ q.delta.first = e.at
    BY <1>3, WatchAdds
  <2> QED
    BY <1>1, <1>2, <2>1 DEF Least
<1>4. CASE ~(q.wrote = "watcher" /\ watchers[e.user] = Null)
  <2>1. watchers[u] # Null
    BY <1>4, WatchersAfter
  <2>2. stats.first # Null
    BY <2>1 DEF IInv, PeriodBegun
  <2>3. q.counted => q.delta.first = Null
    <3>1. CASE q.wrote = "watcher"
      BY <1>4, <3>1, WatchAdds
    <3>2. CASE q.wrote # "watcher"
      BY <3>2, FlagAdds
    <3> QED
      BY <3>1, <3>2
  <2> QED
    BY <1>1, <1>2, <2>2, <2>3 DEF Least
<1> QED
  BY <1>3, <1>4

LEMMA CommitKeeps ==
    ASSUME IInv, NEW w \in Workers, Commit(w)
    PROVE  IInv'
<1>1. PICK q, e : q = worker[w] /\ e = Event(w)
  OBVIOUS
<1>2. Ready(q, e) /\ Committed(w, q, e)
  BY <1>1, CommitIsReady, CommitCommits
<1>3. TypeOK'
  BY <1>2, CommitTypes
<1>4. /\ \A x \in Workers : Sound(worker[x])'
      /\ \A x, y \in Workers : x # y => Apart(worker[x], worker[y])'
  BY <1>1, <1>2, CommitSound
<1>5. \A u \in Users : Known(state[u], u)'
  BY <1>2, CommitKnown
<1>6. NewestWinsUnlessRaced' /\ CountsAgreeUnlessRaced' /\ ViewersCounted'
  BY <1>2, CommitNewest, CommitCounts, CommitViewers
<1>7. PeriodBegun'
  BY <1>2, CommitPeriod
<1> QED
  BY <1>3, <1>4, <1>5, <1>6, <1>7 DEF IInv

LEMMA Step == IInv /\ [Next]_vars => IInv'
<1> SUFFICES ASSUME IInv, [Next]_vars PROVE IInv'
  OBVIOUS
<1>1. ASSUME NEW w \in Workers, NEW m \in Messages, Take(w, m) PROVE IInv'
  BY <1>1, ApplyEngagementKeeps, HandleWatchProgressKeeps, NothingToDoKeeps DEF Take
<1>2. failures \in 0 .. MaxFailures
  BY DEF IInv, TypeOK
<1>3. ASSUME NEW w \in Workers, HandlerStep(w) PROVE IInv'
  BY <1>2, <1>3, UpsertUserStateKeeps, MarkWatcherKeeps, IncrementStatsKeeps,
     CommitKeeps, RollbackKeeps DEF HandlerStep, WaitTimesOut, ReturnError
<1>4. ASSUME NEW w \in Workers, HandlerFails(w) PROVE IInv'
  BY <1>2, <1>4, RollbackKeeps DEF HandlerFails
<1>5. CASE UNCHANGED vars
  <2>1. /\ state' = state /\ stats' = stats /\ watchers' = watchers /\ sent' = sent
        /\ processed' = processed /\ worker' = worker /\ failures' = failures
        /\ raced' = raced
    BY <1>5 DEF vars, tables
  <2>2. /\ TypeOK' /\ NewestWinsUnlessRaced' /\ CountsAgreeUnlessRaced' /\ ViewersCounted'
        /\ PeriodBegun'
    BY <2>1 DEF IInv, TypeOK, NewestWinsUnlessRaced, NewestWins, Applied,
                CountsAgreeUnlessRaced, ViewersCounted, PeriodBegun
  <2>3. /\ (\A w \in Workers : Sound(worker[w]))'
        /\ (\A w, x \in Workers : w # x => Apart(worker[w], worker[x]))'
        /\ (\A u \in Users : Known(state[u], u))'
    BY <2>1 DEF IInv, Sound, Busy, Decided, Marked, Complete, Apart, Known, Applied
  <2> QED
    BY <2>2, <2>3 DEF IInv
<1> QED
  BY <1>1, <1>3, <1>4, <1>5 DEF Next

-----------------------------------------------------------------------------
(* The watch statistics implement the ledger.                              *)

Counted == {m \in processed : sent[m].kind = "watch"}

LEMMA LedgerBegins == Init => Ledger!Init
<1> SUFFICES ASSUME Init PROVE Ledger!Init
  OBVIOUS
<1>1. /\ {m \in processed : sent[m].kind = "watch"} = {}
      /\ {u \in Users : watchers[u] # Null} = {}
  BY DEF Init
<1> QED
  BY <1>1, NoStatsFacts DEF Init, Ledger!Init

(* Whatever is not a commit leaves the ledger alone. *)
LEMMA LedgerStands ==
    ASSUME UNCHANGED <<stats, watchers, sent, processed>>
    PROVE  UNCHANGED Ledger!ledger
  BY DEF Ledger!ledger

LEMMA LedgerCounts ==
    ASSUME IInv, NEW w \in Workers, NEW q, NEW e, Ready(q, e), Committed(w, q, e)
    PROVE  [Ledger!Next]_(Ledger!ledger)
<1> DEFINE viewers == {u \in Users : watchers[u] # Null}
<1>1. /\ stats' = IF q.counted THEN AddStats(stats, q.delta) ELSE stats
      /\ stats \in Stats /\ q.delta \in StatsDeltas /\ e.user \in Users
      /\ e.at \in Times /\ e \in Events /\ q.message \in Messages \ processed
      /\ e = sent[q.message] /\ sent' = sent /\ processed' = processed \cup {q.message}
      /\ q.row \in Opt(UserStates)
  BY DEF IInv, TypeOK, Ready, Committed
<1>2. q.counted => /\ stats'.watches = stats.watches + q.delta.watches
                   /\ stats'.watchers = stats.watchers + q.delta.watchers
                   /\ stats'.first = Least(stats.first, q.delta.first)
                   /\ stats'.last = Greatest(stats.last, q.delta.last)
  BY <1>1, AddStatsFacts
<1>3. /\ stats.watches \in Nat /\ stats.watchers \in Nat
      /\ stats.first \in Opt(Times) /\ stats.last \in Opt(Times)
  BY <1>1 DEF Stats
<1>4. CASE q.wrote = "watcher"
  <2>1. q.counted /\ e.kind = "watch"
    BY <1>4, WatchAdds
  <2>2. /\ q.delta.watches = 1 /\ q.delta.last = e.at
        /\ q.delta.first = IF watchers[e.user] = Null THEN e.at ELSE Null
    BY <1>4, WatchAdds
  <2>3. /\ q.message \notin Counted
        /\ Counted' = Counted \cup {q.message}
    BY <1>1, <2>1 DEF Counted
  <2>4. viewers' = viewers \cup {e.user}
    BY <1>1, <1>4, WatchersAfter
  <2>5. stats'.watchers = Cardinality(viewers')
    BY <1>1, CommitViewers DEF ViewersCounted
  <2>6. stats'.watches = stats.watches + 1
    BY <1>2, <2>1, <2>2
  <2>7. /\ stats'.first \in {stats.first, e.at} \ {Null}
        /\ stats.first # Null => stats'.first <= stats.first
    <3>1. stats'.first # Null
      <4>1. watchers'[e.user] # Null
        BY <1>1, <1>4, WatchersAfter
      <4> QED
        BY <1>1, <4>1, CommitPeriod DEF PeriodBegun
    <3>2. stats'.first = Least(stats.first, q.delta.first)
      BY <1>2, <2>1
    <3>3. PICK x, y, t : x = stats.first /\ y = q.delta.first /\ t = e.at
      OBVIOUS
    <3>4. /\ x = Null \/ x \in Nat
          /\ y = Null \/ y = t
          /\ t \in Nat
      BY <1>1, <1>3, <2>2, <3>3 DEF Opt
    <3>5. Least(x, y) # Null =>
            /\ Least(x, y) \in {x, t} \ {Null}
            /\ x # Null => Least(x, y) <= x
      BY <3>4 DEF Least
    <3> QED
      BY <3>1, <3>2, <3>3, <3>5
  <2>8. stats'.last = IF stats.last = Null \/ e.at > stats.last THEN e.at ELSE stats.last
    BY <1>1, <1>2, <1>3, <2>1, <2>2 DEF Greatest, Opt
  <2>9. Ledger!Count(q.message, e.user, e.at)
    <3> DEFINE t == e.at
               m == q.message
    <3>1. m \notin Counted /\ Counted' = Counted \cup {m}
      BY <2>3
    <3> HIDE DEF t, m
    <3>2. /\ stats'.first \in {stats.first, t} \ {Null}
          /\ stats.first # Null => stats'.first <= stats.first
      BY <2>7 DEF t
    <3>3. stats'.last = IF stats.last = Null \/ t > stats.last THEN t ELSE stats.last
      BY <2>8 DEF t
    <3>4. Ledger!Count(m, e.user, t)
      <4>1. Ledger!Cardinality(viewers') = Cardinality(viewers')
        BY Zenon DEF Ledger!Cardinality, Cardinality
      <4> QED
        BY <2>4, <2>5, <2>6, <3>1, <3>2, <3>3, <4>1 DEF Ledger!Count, Counted
    <3> QED
      BY <3>4 DEF m, t
  <2> QED
    BY <1>1, <2>9 DEF Ledger!Next
<1>5. CASE q.wrote # "watcher"
  <2>1. e.kind # "watch"
    BY <1>5, FlagAdds
  <2>2. Counted' = Counted
    BY <1>1, <2>1 DEF Counted
  <2>3. viewers' = viewers
    BY <1>5, WatchersAfter
  <2>4. /\ stats'.watches = stats.watches /\ stats'.watchers = stats.watchers
        /\ stats'.first = stats.first /\ stats'.last = stats.last
    <3>1. CASE q.counted
      <4>1. /\ q.delta.watches = 0 /\ q.delta.watchers = 0
            /\ q.delta.first = Null /\ q.delta.last = Null
        BY <1>5, <3>1, FlagAdds
      <4> QED
        BY <1>2, <1>3, <3>1, <4>1 DEF Least, Greatest
    <3>2. CASE ~q.counted
      BY <1>1, <3>2
    <3> QED
      BY <3>1, <3>2
  <2> QED
    BY <2>2, <2>3, <2>4 DEF Ledger!ledger, Counted
<1> QED
  BY <1>4, <1>5

LEMMA LedgerSteps == IInv /\ [Next]_vars => [Ledger!Next]_(Ledger!ledger)
<1> SUFFICES ASSUME IInv, [Next]_vars PROVE [Ledger!Next]_(Ledger!ledger)
  OBVIOUS
<1>1. ASSUME NEW w \in Workers, NEW m \in Messages, Take(w, m)
      PROVE  [Ledger!Next]_(Ledger!ledger)
  BY <1>1, LedgerStands
  DEF Take, ApplyEngagement, HandleWatchProgress, SkipUnsupported, RefuseMalformed, tables
<1>2. ASSUME NEW w \in Workers, HandlerStep(w)
      PROVE  [Ledger!Next]_(Ledger!ledger)
  <2>1. CASE Commit(w)
    <3>1. PICK q, e : q = worker[w] /\ e = Event(w)
      OBVIOUS
    <3>2. Ready(q, e) /\ Committed(w, q, e)
      BY <2>1, <3>1, CommitIsReady, CommitCommits
    <3> QED
      BY <3>2, LedgerCounts
  <2>2. CASE ~Commit(w)
    BY <1>2, <2>2, LedgerStands
    DEF HandlerStep, UpsertUserState, MarkWatcher, IncrementStats, WaitTimesOut,
        ReturnError, Rollback, tables
  <2> QED
    BY <2>1, <2>2
<1>3. ASSUME NEW w \in Workers, HandlerFails(w)
      PROVE  [Ledger!Next]_(Ledger!ledger)
  BY <1>3, LedgerStands DEF HandlerFails, Rollback, tables
<1>4. CASE UNCHANGED vars
  BY <1>4, LedgerStands DEF vars, tables
<1> QED
  BY <1>1, <1>2, <1>3, <1>4 DEF Next

-----------------------------------------------------------------------------
(* What the ledger promises adds up.                                       *)

Viewers == {u \in Users : watchers[u] # Null}

AddsUp ==
    /\ IsFiniteSet(Counted)
    /\ stats.watches = Cardinality(Counted)
    /\ Cardinality(Viewers) <= Cardinality(Counted)
    /\ stats.first = Null <=> Counted = {}
    /\ stats.last = Null <=> Counted = {}
    /\ stats.first # Null => stats.first <= stats.last

LEMMA AddsUpBegins == Init => AddsUp
<1> SUFFICES ASSUME Init PROVE AddsUp
  OBVIOUS
<1>1. Counted = {} /\ Viewers = {}
  BY DEF Init, Counted, Viewers
<1>2. stats = NoStats /\ stats.watches = 0 /\ stats.first = Null /\ stats.last = Null
  BY DEF Init, NoStats
<1> QED
  BY <1>1, <1>2, FS_EmptySet DEF AddsUp

LEMMA AddsUpStep ==
    ASSUME IInv, IInv', AddsUp, [Ledger!Next]_(Ledger!ledger)
    PROVE  AddsUp'
<1>1. CASE UNCHANGED Ledger!ledger
  <2>1. /\ Counted' = Counted /\ Viewers' = Viewers
        /\ stats'.watches = stats.watches
        /\ stats'.first = stats.first /\ stats'.last = stats.last
    BY <1>1 DEF Ledger!ledger, Counted, Viewers
  <2> QED
    BY <2>1 DEF AddsUp
<1>2. ASSUME NEW m \in Messages, NEW u \in Users, NEW t \in Times, Ledger!Count(m, u, t)
      PROVE  AddsUp'
  <2>1. /\ m \notin Counted
        /\ Counted' = Counted \cup {m}
        /\ Viewers' = Viewers \cup {u}
        /\ stats'.watches = stats.watches + 1
        /\ stats'.first \in {stats.first, t} \ {Null}
        /\ stats.first # Null => stats'.first <= stats.first
        /\ stats'.last = IF stats.last = Null \/ t > stats.last THEN t ELSE stats.last
    BY <1>2 DEF Ledger!Count, Counted, Viewers
  <2>2. /\ stats.first \in Opt(Times) /\ stats.last \in Opt(Times)
        /\ t \in Nat /\ t # Null
    BY DEF IInv, TypeOK, Stats
  <2>3. /\ IsFiniteSet(Viewers) /\ Cardinality(Viewers) \in Nat
        /\ Cardinality(Counted) \in Nat
    BY FS_Subset, FS_CardinalityType DEF Viewers, AddsUp
  <2>4. /\ IsFiniteSet(Counted')
        /\ Cardinality(Counted') = Cardinality(Counted) + 1
    BY <2>1, FS_AddElement DEF AddsUp
  <2>5. Cardinality(Viewers') <= Cardinality(Viewers) + 1
    <3>1. Cardinality(Viewers \cup {u}) = IF u \in Viewers THEN Cardinality(Viewers)
                                          ELSE Cardinality(Viewers) + 1
      BY <2>3, FS_AddElement
    <3> HIDE DEF Viewers
    <3> QED
      BY <2>1, <2>3, <3>1
  <2>6. stats'.watches = Cardinality(Counted')
    BY <2>1, <2>4 DEF AddsUp
  <2>7. Cardinality(Viewers') <= Cardinality(Counted')
    <3>1. Cardinality(Viewers') \in Nat
      BY <2>1, <2>3, FS_AddElement, FS_CardinalityType
    <3> QED
      BY <2>3, <2>4, <2>5, <3>1 DEF AddsUp
  <2>8. CASE Counted = {}
    <3>1. stats'.first = t /\ stats'.last = t
      BY <2>1, <2>8 DEF AddsUp
    <3> QED
      BY <2>1, <2>2, <2>4, <2>6, <2>7, <3>1 DEF AddsUp
  <2>9. CASE Counted # {}
    <3>1. stats.first \in Nat /\ stats.last \in Nat /\ stats.first <= stats.last
      BY <2>2, <2>9 DEF AddsUp, Opt
    <3>2. /\ stats'.first \in {t, stats.first} /\ stats'.last \in {t, stats.last}
          /\ t <= stats'.last /\ stats.last <= stats'.last
      BY <2>1, <2>2, <2>9, <3>1 DEF AddsUp
    <3>3. stats'.first # Null /\ stats'.last # Null /\ stats'.first <= stats'.last
      BY <2>2, <3>1, <3>2
    <3> QED
      BY <2>1, <2>4, <2>6, <2>7, <3>3 DEF AddsUp
  <2> QED
    BY <2>8, <2>9
<1> QED
  BY <1>1, <1>2 DEF Ledger!Next

LEMMA AddsUpIsLedger == IInv /\ AddsUp => WatchStatsAddUp
<1> SUFFICES ASSUME IInv, AddsUp PROVE WatchStatsAddUp
  OBVIOUS
<1>1. stats.watchers = Cardinality(Viewers)
  BY DEF IInv, ViewersCounted, Viewers
<1>2. \A S : Ledger!Cardinality(S) = Cardinality(S)
  BY Zenon DEF Ledger!Cardinality, Cardinality
<1>3. Ledger!LedgerAddsUp <=>
        /\ stats.watches = Cardinality(Counted)
        /\ stats.watchers = Cardinality(Viewers)
        /\ stats.watchers <= stats.watches
        /\ stats.first = Null <=> Counted = {}
        /\ stats.last = Null <=> Counted = {}
        /\ stats.first # Null => stats.first <= stats.last
  BY <1>2 DEF Ledger!LedgerAddsUp, Counted, Viewers
<1> QED
  BY <1>1, <1>3 DEF AddsUp, WatchStatsAddUp

-----------------------------------------------------------------------------
(* Row locks.                                                              *)

(* The counters are locked last. *)
CountedLast == \A w \in Workers : worker[w].counted => worker[w].phase = "done"

LEMMA CountedLastBegins == Init => CountedLast
  BY IdleFacts DEF Init, CountedLast

LEMMA CountedLastStep == TypeOK /\ CountedLast /\ [Next]_vars => CountedLast'
<1> SUFFICES ASSUME TypeOK, CountedLast, [Next]_vars PROVE CountedLast'
  OBVIOUS
<1>1. /\ worker \in [Workers -> WorkerStates]
      /\ Idle.counted = FALSE
  BY IdleFacts DEF TypeOK
<1>2. ASSUME NEW w \in Workers, NEW m \in Messages, Take(w, m)
      PROVE  CountedLast'
  <2>1. \A x \in Workers : worker'[x] = worker[x] \/ worker'[x].counted = FALSE
    BY <1>1, <1>2
    DEF Take, ApplyEngagement, HandleWatchProgress, SkipUnsupported, RefuseMalformed, Idle
  <2> QED
    BY <2>1 DEF CountedLast
<1>3. ASSUME NEW w \in Workers, UpsertUserState(w) PROVE CountedLast'
  <2>1. worker'[w].counted = worker[w].counted /\ worker[w].phase = "upsert"
    BY <1>1, <1>3 DEF UpsertUserState, WorkerStates
  <2>2. \A x \in Workers : x # w => worker'[x] = worker[x]
    BY <1>1, <1>3 DEF UpsertUserState
  <2> QED
    BY <2>1, <2>2 DEF CountedLast
<1>4. ASSUME NEW w \in Workers, MarkWatcher(w) PROVE CountedLast'
  <2>1. worker'[w].counted = worker[w].counted /\ worker[w].phase = "watch"
    BY <1>1, <1>4 DEF MarkWatcher, WorkerStates
  <2>2. \A x \in Workers : x # w => worker'[x] = worker[x]
    BY <1>1, <1>4 DEF MarkWatcher
  <2> QED
    BY <2>1, <2>2 DEF CountedLast
<1>5. ASSUME NEW w \in Workers, IncrementStats(w) PROVE CountedLast'
  <2>1. worker'[w].phase = "done"
    BY <1>1, <1>5 DEF IncrementStats, WorkerStates
  <2>2. \A x \in Workers : x # w => worker'[x] = worker[x]
    BY <1>1, <1>5 DEF IncrementStats
  <2> QED
    BY <2>1, <2>2 DEF CountedLast
<1>6. ASSUME NEW w \in Workers, worker' = [worker EXCEPT ![w] = Idle]
      PROVE  CountedLast'
  BY <1>1, <1>6 DEF CountedLast
<1>7. CASE UNCHANGED vars
  BY <1>7 DEF vars, CountedLast
<1> QED
  BY <1>2, <1>3, <1>4, <1>5, <1>6, <1>7
  DEF Next, HandlerStep, HandlerFails, WaitTimesOut, ReturnError, Commit, Rollback

(* Whoever has locked the counters is about to commit.  While nobody has,  *)
(* a worker that has locked a row of a user waits for nothing, and a worker *)
(* that waits waits for one of those.                                      *)
LEMMA LocksAreOrdered == IInv /\ CountedLast => NoCircularWait
<1> SUFFICES ASSUME IInv, CountedLast, NEW w \in Workers, worker[w].phase # "idle"
             PROVE  \E x \in Workers : worker[x].phase # "idle" /\ ~Waiting(x)
  BY DEF NoCircularWait
<1>1. CASE StatsLocked
  <2>1. PICK x \in Workers : worker[x].counted
    BY <1>1 DEF StatsLocked
  <2> QED
    BY <2>1 DEF CountedLast, Waiting
<1>2. CASE ~StatsLocked /\ \E x \in Workers : worker[x].wrote # Null
  <2>1. PICK x \in Workers : worker[x].wrote # Null
    BY <1>2
  <2>2. worker[x].phase \notin {"idle", "upsert", "watch"}
    BY <2>1 DEF IInv, Sound, Busy
  <2> QED
    BY <1>2, <2>2 DEF Waiting
<1>3. CASE ~StatsLocked /\ \A x \in Workers : worker[x].wrote = Null
  <2>1. \A t \in Locks : \A u : ~RowLocked(t, u)
    BY <1>3 DEF RowLocked
  <2>2. ~Waiting(w)
    BY <1>3, <2>1 DEF Waiting, Locks
  <2> QED
    BY <2>2
<1> QED
  BY <1>1, <1>2, <1>3

-----------------------------------------------------------------------------
(* Theorems.                                                               *)

(* The inductive invariant holds.                                          *)
THEOREM EngagementInvariant == Spec => []IInv
  BY Beginning, Step, PTL DEF Spec

(* Tables, messages and transactions keep their types; in particular no    *)
(* counter goes below zero.                                                *)
THEOREM EngagementTypes == Spec => []TypeOK
<1>1. IInv => TypeOK
  BY DEF IInv
<1> QED
  BY <1>1, EngagementInvariant, PTL

(* The newest event of every user and kind wins, however messages are      *)
(* delivered, unless one was decided from a row replaced since.            *)
THEOREM NewestTheorem == Spec => []NewestWinsUnlessRaced
<1>1. IInv => NewestWinsUnlessRaced
  BY DEF IInv
<1> QED
  BY <1>1, EngagementInvariant, PTL

(* Under that proviso the counters are the numbers of flags.               *)
THEOREM CountsTheorem == Spec => []CountsAgreeUnlessRaced
<1>1. IInv => CountsAgreeUnlessRaced
  BY DEF IInv
<1> QED
  BY <1>1, EngagementInvariant, PTL

(* The watch statistics implement the ledger, races included.              *)
THEOREM LedgerTheorem == Spec => ImplementsLedger
  BY EngagementInvariant, LedgerBegins, LedgerSteps, PTL
  DEF Spec, ImplementsLedger, Ledger!Spec

(* Among any number of workers and users, one that is busy can go on.      *)
THEOREM NoCircleTheorem == Spec => []NoCircularWait
<1>1. IInv => TypeOK
  BY DEF IInv
<1>2. Spec => []CountedLast
  BY <1>1, CountedLastBegins, CountedLastStep, EngagementInvariant, PTL DEF Spec
<1> QED
  BY <1>2, EngagementInvariant, LocksAreOrdered, PTL

(* The statistics add up: every message and every viewer is counted once,  *)
(* and the period has its ends in order.                                   *)
THEOREM AddsUpTheorem == Spec => []WatchStatsAddUp
<1>1. Spec => []AddsUp
  <2>1. IInv /\ IInv' /\ AddsUp /\ [Ledger!Next]_(Ledger!ledger) => AddsUp'
    BY AddsUpStep
  <2> QED
    BY <2>1, AddsUpBegins, EngagementInvariant, LedgerSteps, PTL DEF Spec
<1> QED
  BY <1>1, EngagementInvariant, AddsUpIsLedger, PTL
=============================================================================
