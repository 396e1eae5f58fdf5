------------------------------- MODULE Publisher -------------------------------
(***************************************************************************)
(* The outbox relay.  Writers insert events in the transaction of the row  *)
(* they change (LifecycleWriter.enqueueOutbox); workers claim due events   *)
(* under a lease, publish them and mark them published or reschedule them. *)
(*                                                                         *)
(* The statements and the loop that calls them belong to lingo-utils and   *)
(* are external: they are modelled from the parameters OutboxRepository    *)
(* hands over (cut-off times, a limit, a lock token), the columns of the   *)
(* table and messaging.outbox.  Nothing is assumed of what these leave     *)
(* open: which of the due events a claim returns, in which order and how   *)
(* many at a time a batch is published, or who shares a batch.             *)
(*                                                                         *)
(* available_at and locked_at are kept as what is left of them: `wait`     *)
(* until the row is due, `lease` until its lock is stale.  A lock token is *)
(* a fresh UUID per claim; here it is the worker, which tells the same     *)
(* cases apart because a worker settles only what its own claim returned.  *)
(* delivery_attempts and last_error are only monitored and left out.       *)
(***************************************************************************)
EXTENDS Naturals, FiniteSets

CONSTANTS
    Events,     \* domain events
    Workers,    \* who claims: runners, or goroutines of them, of any instance
    Null,
    BatchSize,  \* messaging.outbox.batch_size
    LockTTL,    \* messaging.outbox.lock_ttl, in ticks
    MaxBackoff, \* messaging.outbox.max_backoff, in ticks
    MaxFaults   \* bound on publish errors, crashes and overrun leases

ASSUME ConstantsAssumption ==
    /\ BatchSize \in Nat \ {0}
    /\ LockTTL \in Nat \ {0}
    /\ MaxBackoff \in Nat \ {0}
    /\ MaxFaults \in Nat
    /\ Null \notin Workers

VARIABLES
    tx,         \* the transaction that inserts every event
    row,        \* catalog.outbox_events
    batch,      \* what every worker has claimed and not yet settled
    sent,       \* of that, what the topic has acknowledged
    failed,     \* of that, what could not be published
    copies,     \* how often the topic took an event, counted up to 2
    faults,     \* publish errors, crashes and overrun leases so far
    troubled    \* history: sending an event failed, or its lease was lost

vars == <<tx, row, batch, sent, failed, copies, faults, troubled>>

TxStates == {"open", "committed", "aborted"}

(* A row of outbox_events: lease columns and delivery columns. *)
Rows ==
    [token : Workers \cup {Null}, lease : 0..LockTTL,
     wait : 0..MaxBackoff, published : BOOLEAN]

(* A row as enqueueOutbox inserts it: due at once, available_at = occurred_at. *)
NewRow == [token |-> Null, lease |-> 0, wait |-> 0, published |-> FALSE]

Init ==
    /\ tx = [e \in Events |-> "open"]
    /\ row = [e \in Events |-> NewRow]
    /\ batch = [w \in Workers |-> {}]
    /\ sent = [w \in Workers |-> {}]
    /\ failed = [w \in Workers |-> {}]
    /\ copies = [e \in Events |-> 0]
    /\ faults = 0
    /\ troubled = {}

Committed == {e \in Events : tx[e] = "committed"}
Topic == {e \in Events : copies[e] > 0}

-----------------------------------------------------------------------------
(* Writers.                                                                *)

(* Row and event become visible together. *)
CommitTx(e) ==
    /\ tx[e] = "open"
    /\ tx' = [tx EXCEPT ![e] = "committed"]
    /\ UNCHANGED <<row, batch, sent, failed, copies, faults, troubled>>

(* ToProto, Marshal or Enqueue fails, or the transaction times out. *)
AbortTx(e) ==
    /\ tx[e] = "open"
    /\ tx' = [tx EXCEPT ![e] = "aborted"]
    /\ UNCHANGED <<row, batch, sent, failed, copies, faults, troubled>>

-----------------------------------------------------------------------------
(* The statements on the table.                                            *)

(* What ClaimPending(availableBefore, staleBefore, ...) may return. *)
Claimable(e) ==
    /\ tx[e] = "committed"
    /\ ~row[e].published
    /\ row[e].wait = 0
    /\ row[e].token = Null \/ row[e].lease = 0

(* Mutant of MarkPublishedRow: the lease is released and nothing is marked. *)
MarkPublishedRow_Unmarked(r) == [r EXCEPT !.token = Null, !.lease = 0]

(* MarkPublished: published_at is set and the lease given back. *)
MarkPublishedRow(r) ==
    [r EXCEPT !.published = TRUE, !.token = Null, !.lease = 0]

(* Mutant of RescheduledRow: a failed event is set aside like a sent one. *)
RescheduledRow_Published(r, backoff) ==
    [r EXCEPT !.published = TRUE, !.token = Null, !.lease = 0]

(* Mutant of RescheduledRow: the backoff grows past its maximum. *)
RescheduledRow_Uncapped(r, backoff) ==
    [r EXCEPT !.wait = backoff + 1, !.token = Null, !.lease = 0]

(* Reschedule: available_at moves by the backoff, the lease is given back. *)
RescheduledRow(r, backoff) ==
    [r EXCEPT !.wait = backoff, !.token = Null, !.lease = 0]

(* Mutant of HoldsLease: the lock token is not compared. *)
HoldsLease_AnyToken(w, e) == TRUE

(* Both statements name the lock token: after a takeover they find no row. *)
HoldsLease(w, e) == row[e].token = w

-----------------------------------------------------------------------------
(* Workers.                                                                *)

(* ClaimPending: some due events, at most a batch, get the worker's token. *)
Claim(w) ==
    /\ batch[w] = {}
    /\ \E b \in SUBSET {e \in Events : Claimable(e)} :
          /\ b # {}
          /\ Cardinality(b) <= BatchSize
          /\ batch' = [batch EXCEPT ![w] = b]
          /\ row' = [e \in Events |->
                        IF e \in b THEN [row[e] EXCEPT !.token = w, !.lease = LockTTL]
                        ELSE row[e]]
          /\ troubled' = troubled \cup {e \in b : row[e].token # Null}
    /\ UNCHANGED <<tx, sent, failed, copies, faults>>

(* The topic takes event e. *)
Deliver(e) == copies' = [copies EXCEPT ![e] = IF @ < 2 THEN @ + 1 ELSE @]

(* An event of the batch is published and the topic acknowledges it. *)
Publish(w, e) ==
    /\ e \in batch[w] \ (sent[w] \cup failed[w])
    /\ Deliver(e)
    /\ sent' = [sent EXCEPT ![w] = @ \cup {e}]
    /\ UNCHANGED <<tx, row, batch, failed, faults, troubled>>

(* Publishing reports an error, a publish_timeout for one; the topic may   *)
(* have taken the event all the same.                                      *)
PublishFails(w, e) ==
    /\ e \in batch[w] \ (sent[w] \cup failed[w])
    /\ faults < MaxFaults
    /\ Deliver(e) \/ UNCHANGED copies
    /\ failed' = [failed EXCEPT ![w] = @ \cup {e}]
    /\ faults' = faults + 1
    /\ troubled' = troubled \cup {e}
    /\ UNCHANGED <<tx, row, batch, sent>>

(* The answer is written down: MarkPublished after a success, Reschedule   *)
(* after an error, neither when the lease has gone to somebody else.       *)
Settle(w, e) ==
    /\ e \in sent[w] \cup failed[w]
    /\ \/ /\ HoldsLease(w, e)
          /\ e \in sent[w]
          /\ row' = [row EXCEPT ![e] = MarkPublishedRow(@)]
       \/ /\ HoldsLease(w, e)
          /\ e \in failed[w]
          /\ \E backoff \in 1..MaxBackoff :
                row' = [row EXCEPT ![e] = RescheduledRow(@, backoff)]
       \/ /\ ~HoldsLease(w, e)
          /\ UNCHANGED row
    /\ batch' = [batch EXCEPT ![w] = @ \ {e}]
    /\ sent' = [sent EXCEPT ![w] = @ \ {e}]
    /\ failed' = [failed EXCEPT ![w] = @ \ {e}]
    /\ UNCHANGED <<tx, copies, faults, troubled>>

(* The process stops or loses the database: the batch is forgotten, its    *)
(* rows stay locked until the lease is stale.                              *)
Crash(w) ==
    /\ faults < MaxFaults
    /\ batch[w] # {}
    /\ faults' = faults + 1
    /\ troubled' = troubled \cup batch[w]
    /\ batch' = [batch EXCEPT ![w] = {}]
    /\ sent' = [sent EXCEPT ![w] = {}]
    /\ failed' = [failed EXCEPT ![w] = {}]
    /\ UNCHANGED <<tx, row, copies>>

(* The lease of an event runs out under a worker that is not done with it. *)
Overrun ==
    \E w \in Workers, e \in Events :
        e \in batch[w] /\ row[e].token = w /\ row[e].lease = 1

(* Time passes.  Nothing holds the clock back while a worker is busy: a    *)
(* batch of slow publishes outlives its lease, which counts as a fault.    *)
Tick ==
    /\ \E e \in Events : row[e].wait > 0 \/ row[e].lease > 0
    /\ Overrun => faults < MaxFaults
    /\ faults' = IF Overrun THEN faults + 1 ELSE faults
    /\ row' = [e \in Events |->
                  [row[e] EXCEPT !.wait  = IF @ > 0 THEN @ - 1 ELSE 0,
                                 !.lease = IF @ > 0 THEN @ - 1 ELSE 0]]
    /\ UNCHANGED <<tx, batch, sent, failed, copies, troubled>>

Writer(e) == CommitTx(e) \/ AbortTx(e)

Worker(w) ==
    \/ Claim(w)
    \/ \E e \in Events : Publish(w, e) \/ PublishFails(w, e) \/ Settle(w, e)

Next ==
    \/ \E e \in Events : Writer(e)
    \/ \E w \in Workers : Worker(w) \/ Crash(w)
    \/ Tick

(* Workers keep running and time passes.  Nothing is assumed of writers,   *)
(* and crashes are possible, never due.                                    *)
Fairness == WF_vars(Tick) /\ \A w \in Workers : WF_vars(Worker(w))

Spec == Init /\ [][Next]_vars /\ Fairness

-----------------------------------------------------------------------------
(* Properties.                                                             *)

(* The relay's types, with the bound on copies. *)
TypeOK ==
    /\ tx \in [Events -> TxStates]
    /\ row \in [Events -> Rows]
    /\ batch \in [Workers -> SUBSET Events]
    /\ sent \in [Workers -> SUBSET Events]
    /\ failed \in [Workers -> SUBSET Events]
    /\ copies \in [Events -> 0..2]
    /\ faults \in 0..MaxFaults
    /\ troubled \subseteq Events

(* A published row is final: no worker that lost its lease while it was    *)
(* publishing locks it or postpones it again.                              *)
PublishedIsFinal ==
    \A e \in Events :
        row[e].published =>
            row[e].token = Null /\ row[e].wait = 0 /\ e \in Topic

(* Consumers see an event twice only after a publish error, a crash or a   *)
(* lease that ran out while its worker was still busy.                     *)
NoDuplicateUnlessTroubled ==
    \A e \in Events : copies[e] > 1 => e \in troubled

(* The outbox keeps the promise of AtLeastOnce. *)
Promise == INSTANCE AtLeastOnce WITH
    accepted  <- Committed,
    delivered <- Topic,
    settled   <- {e \in Events : row[e].published}

ImplementsAtLeastOnce == Promise!Spec
================================================================================
