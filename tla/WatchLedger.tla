----------------------------- MODULE WatchLedger -----------------------------
(***************************************************************************)
(* What the watch statistics of a video promise: every message is counted  *)
(* once and as a whole, a viewer is counted once however many workers      *)
(* count at the same time, and the two ends of the watched period follow   *)
(* from the messages counted.  Engagement implements it in several         *)
(* statements per message, under row locks, with rollbacks and             *)
(* redeliveries in between.                                                *)
(***************************************************************************)
EXTENDS Naturals, FiniteSets

CONSTANTS
    Users,
    Messages,       \* inbox event ids
    Times,          \* times at which videos are watched
    Null

VARIABLES
    counted,        \* messages that have been counted
    viewers,        \* the users of these messages
    total,          \* watch_count
    unique,         \* unique_watchers
    first,          \* first_watch_at
    last            \* last_watch_at

ledger == <<counted, viewers, total, unique, first, last>>

Init ==
    /\ counted = {}
    /\ viewers = {}
    /\ total = 0
    /\ unique = 0
    /\ first = Null
    /\ last = Null

(* The end of the period is the latest message.  Its start is the time of  *)
(* one of them and never moves on; which one is not promised, so that it   *)
(* need not be the earliest.                                               *)
Count(m, u, t) ==
    /\ m \notin counted
    /\ counted' = counted \cup {m}
    /\ viewers' = viewers \cup {u}
    /\ total' = total + 1
    /\ unique' = Cardinality(viewers')
    /\ first' \in {first, t} \ {Null}
    /\ first # Null => first' <= first
    /\ last' = IF last = Null \/ t > last THEN t ELSE last

Next == \E m \in Messages, u \in Users, t \in Times : Count(m, u, t)

Spec == Init /\ [][Next]_ledger

-----------------------------------------------------------------------------
(* What follows from the promise: the statistics add up.  Every message and *)
(* every viewer is in the counters once, there are no more viewers than     *)
(* messages, and the period has both its ends, in order, or neither.        *)
LedgerAddsUp ==
    /\ total = Cardinality(counted)
    /\ unique = Cardinality(viewers)
    /\ unique <= total
    /\ first = Null <=> counted = {}
    /\ last = Null <=> counted = {}
    /\ first # Null => first <= last
=============================================================================
