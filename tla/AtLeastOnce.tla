------------------------------ MODULE AtLeastOnce ------------------------------
(***************************************************************************)
(* What the outbox promises: an event accepted by a committed transaction  *)
(* is delivered, possibly again and again, and is set aside only after it  *)
(* has been delivered.                                                     *)
(***************************************************************************)
CONSTANT Events

VARIABLES
    accepted,   \* events whose transaction committed
    delivered,  \* events the topic has taken at least once
    settled     \* events the relay will not send again

vars == <<accepted, delivered, settled>>

Init ==
    /\ accepted = {}
    /\ delivered = {}
    /\ settled = {}

Accept(e) ==
    /\ accepted' = accepted \cup {e}
    /\ UNCHANGED <<delivered, settled>>

Deliver(e) ==
    /\ e \in accepted
    /\ delivered' = delivered \cup {e}
    /\ UNCHANGED <<accepted, settled>>

Settle(e) ==
    /\ e \in delivered
    /\ settled' = settled \cup {e}
    /\ UNCHANGED <<accepted, delivered>>

Next == \E e \in Events : Accept(e) \/ Deliver(e) \/ Settle(e)

(* Whatever was accepted is delivered in the end. *)
Spec == Init /\ [][Next]_vars /\ \A e \in Events : WF_vars(Deliver(e))
================================================================================
