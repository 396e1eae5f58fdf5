---------------------------- MODULE PublisherProofs ----------------------------
(* Theorems about Publisher, for any number of events and workers. *)
EXTENDS Publisher, TLAPS

USE ConstantsAssumption

-----------------------------------------------------------------------------
(* The inductive invariant.                                                *)

(* A claimed event was committed, and its worker holds the lease unless it *)
(* was troubled.                                                           *)
Claimed ==
    \A w \in Workers : \A e \in batch[w] :
        /\ tx[e] = "committed"
        /\ e \notin troubled => row[e].token = w

(* Answers are about events of the worker's batch: what was acknowledged   *)
(* is in the topic, what failed is troubled.                               *)
Answered ==
    \A w \in Workers :
        /\ sent[w] \subseteq batch[w] \cap Topic
        /\ failed[w] \subseteq batch[w] \cap troubled

(* What the columns of a row say together. *)
Settled ==
    \A e \in Events :
        /\ row[e].published =>
              row[e].token = Null /\ row[e].wait = 0 /\ e \in Topic
        /\ row[e].token # Null => row[e].wait = 0
        /\ row[e].wait # 0 => e \in troubled

(* The topic takes what was committed only. *)
Delivered == \A e \in Topic : tx[e] = "committed"

(* An untroubled event was sent once at most, and if it was, either its    *)
(* row says so or its worker is about to write it down.                    *)
Counted ==
    \A e \in Events \ troubled :
        /\ copies[e] <= 1
        /\ copies[e] = 1 => row[e].published \/ \E w \in Workers : e \in sent[w]

IInv == TypeOK /\ Claimed /\ Answered /\ Settled /\ Delivered /\ Counted

(* What the statements write is a row again. *)
LEMMA RecordTypes ==
    ASSUME NEW A, NEW B, NEW C, NEW D,
           NEW r \in [token : A, lease : B, wait : C, published : D],
           NEW t \in A, NEW l \in B, NEW x \in C, NEW p \in D
    PROVE  /\ [r EXCEPT !.token = t, !.lease = l]
                \in [token : A, lease : B, wait : C, published : D]
           /\ [r EXCEPT !.wait = x, !.lease = l]
                \in [token : A, lease : B, wait : C, published : D]
           /\ [r EXCEPT !.published = p, !.token = t, !.lease = l]
                \in [token : A, lease : B, wait : C, published : D]
           /\ [r EXCEPT !.wait = x, !.token = t, !.lease = l]
                \in [token : A, lease : B, wait : C, published : D]
  OBVIOUS

LEMMA RowTypes ==
    ASSUME NEW r \in Rows, NEW t \in Workers \cup {Null}, NEW l \in 0..LockTTL,
           NEW x \in 0..MaxBackoff, NEW p \in BOOLEAN
    PROVE  /\ [r EXCEPT !.token = t, !.lease = l] \in Rows
           /\ [r EXCEPT !.wait = x, !.lease = l] \in Rows
           /\ [r EXCEPT !.published = p, !.token = t, !.lease = l] \in Rows
           /\ [r EXCEPT !.wait = x, !.token = t, !.lease = l] \in Rows
  BY RecordTypes DEF Rows

(* The row of a claimed event. *)
LEMMA ClaimedRow ==
    ASSUME NEW r \in Rows, NEW w \in Workers
    PROVE  /\ [r EXCEPT !.token = w, !.lease = LockTTL] \in Rows
           /\ [r EXCEPT !.token = w, !.lease = LockTTL].token = w
           /\ [r EXCEPT !.token = w, !.lease = LockTTL].wait = r.wait
           /\ [r EXCEPT !.token = w, !.lease = LockTTL].published = r.published
  <1>1. /\ LockTTL \in 0..LockTTL /\ w \in Workers \cup {Null}
        /\ 0 \in 0..MaxBackoff /\ TRUE \in BOOLEAN
    OBVIOUS
  <1>2. [r EXCEPT !.token = w, !.lease = LockTTL] \in Rows
    BY <1>1, RowTypes, Zenon
  <1>3. /\ [r EXCEPT !.token = w, !.lease = LockTTL].token = w
        /\ [r EXCEPT !.token = w, !.lease = LockTTL].wait = r.wait
        /\ [r EXCEPT !.token = w, !.lease = LockTTL].published = r.published
    BY DEF Rows
  <1> QED
    BY <1>2, <1>3

(* The row of an event a tick later. *)
LEMMA TickedRow ==
    ASSUME NEW r \in Rows
    PROVE  LET r2 == [r EXCEPT !.wait  = IF @ > 0 THEN @ - 1 ELSE 0,
                               !.lease = IF @ > 0 THEN @ - 1 ELSE 0]
           IN  /\ r2 \in Rows
               /\ r2.token = r.token
               /\ r2.published = r.published
               /\ r.wait = 0 => r2.wait = 0
  <1> DEFINE x == IF r.wait > 0 THEN r.wait - 1 ELSE 0
             l == IF r.lease > 0 THEN r.lease - 1 ELSE 0
  <1>1. r.wait \in 0..MaxBackoff /\ r.lease \in 0..LockTTL
    BY DEF Rows
  <1>2. /\ l \in 0..LockTTL /\ x \in 0..MaxBackoff
        /\ Null \in Workers \cup {Null} /\ TRUE \in BOOLEAN
    BY <1>1
  <1>3. r.wait = 0 => x = 0
    OBVIOUS
  <1> HIDE DEF x, l
  <1>4. [r EXCEPT !.wait = x, !.lease = l] \in Rows
    BY <1>2, RowTypes, Zenon
  <1>5. /\ [r EXCEPT !.wait = x, !.lease = l].token = r.token
        /\ [r EXCEPT !.wait = x, !.lease = l].published = r.published
        /\ r.wait = 0 => [r EXCEPT !.wait = x, !.lease = l].wait = 0
    BY <1>3 DEF Rows
  <1> QED
    BY <1>4, <1>5 DEF x, l

(* The topic takes one event more. *)
LEMMA TopicAfter ==
    ASSUME TypeOK, NEW e \in Events, Deliver(e)
    PROVE  /\ copies' \in [Events -> 0..2]
           /\ Topic' = Topic \cup {e}
           /\ copies[e] = 0 => copies'[e] = 1
           /\ \A d \in Events \ {e} : copies'[d] = copies[d]
  BY DEF Deliver, TypeOK, Topic

-----------------------------------------------------------------------------
(* Writers.                                                                *)

LEMMA WriterKeepsInv ==
    ASSUME IInv, NEW e \in Events, Writer(e)
    PROVE  IInv'
  <1>1. /\ UNCHANGED <<row, batch, sent, failed, copies, faults, troubled>>
        /\ \A d \in Events : tx[d] = "committed" => tx'[d] = "committed"
        /\ TypeOK
    BY DEF Writer, CommitTx, AbortTx, IInv, TypeOK
  <1>2. TypeOK'
    <2>1. tx' \in [Events -> TxStates]
      BY DEF Writer, CommitTx, AbortTx, IInv, TypeOK, TxStates
    <2> QED
      BY <1>1, <2>1 DEF TypeOK
  <1>3. Claimed'
    BY <1>1 DEF IInv, Claimed, TypeOK
  <1>4. Answered' /\ Settled' /\ Counted'
    BY <1>1 DEF IInv, Answered, Settled, Counted, Topic
  <1>5. Delivered'
    BY <1>1 DEF IInv, Delivered, Topic
  <1> QED
    BY <1>2, <1>3, <1>4, <1>5 DEF IInv

-----------------------------------------------------------------------------
(* Workers.                                                                *)

LEMMA ClaimKeepsInv ==
    ASSUME IInv, NEW w \in Workers, Claim(w)
    PROVE  IInv'
  <1>1. PICK b \in SUBSET {e \in Events : Claimable(e)} :
           /\ batch' = [batch EXCEPT ![w] = b]
           /\ row' = [e \in Events |->
                         IF e \in b
                         THEN [row[e] EXCEPT !.token = w, !.lease = LockTTL]
                         ELSE row[e]]
           /\ troubled' = troubled \cup {e \in b : row[e].token # Null}
    BY DEF Claim
  <1>2. UNCHANGED <<tx, sent, failed, copies, faults>> /\ batch[w] = {} /\ TypeOK
    BY DEF Claim, IInv
  <1>3. \A e \in b : e \in Events /\ Claimable(e)
    OBVIOUS
  <1>4. /\ batch'[w] = b
        /\ \A w2 \in Workers : w2 # w => batch'[w2] = batch[w2]
        /\ batch' \in [Workers -> SUBSET Events]
    BY <1>1, <1>2, <1>3 DEF TypeOK
  <1>5. troubled \subseteq troubled' /\ troubled' \subseteq Events
    BY <1>1, <1>2, <1>3 DEF TypeOK
  <1>6. ASSUME NEW e \in Events
        PROVE  /\ row[e] \in Rows /\ row'[e] \in Rows
               /\ row'[e].published = row[e].published
               /\ row'[e].wait = row[e].wait
               /\ e \in b => row'[e].token = w
               /\ e \notin b => row'[e] = row[e]
    <2>1. row[e] \in Rows
      BY <1>2 DEF TypeOK
    <2>2. row'[e] = IF e \in b THEN [row[e] EXCEPT !.token = w, !.lease = LockTTL]
                    ELSE row[e]
      BY <1>1
    <2>3. CASE e \in b
      <3>1. /\ [row[e] EXCEPT !.token = w, !.lease = LockTTL] \in Rows
            /\ [row[e] EXCEPT !.token = w, !.lease = LockTTL].token = w
            /\ [row[e] EXCEPT !.token = w, !.lease = LockTTL].wait = row[e].wait
            /\ [row[e] EXCEPT !.token = w, !.lease = LockTTL].published
                  = row[e].published
        BY <2>1, ClaimedRow
      <3>2. row'[e] = [row[e] EXCEPT !.token = w, !.lease = LockTTL]
        BY <2>2, <2>3
      <3> QED
        BY <2>1, <2>3, <3>1, <3>2, Zenon
    <2>4. CASE e \notin b
      BY <2>1, <2>2, <2>4
    <2> QED
      BY <2>3, <2>4
  <1>7. TypeOK'
    <2>1. row' = [e \in Events |-> row'[e]]
      BY <1>1
    <2>2. row' \in [Events -> Rows]
      BY <1>6, <2>1
    <2> QED
      BY <1>2, <1>4, <1>5, <2>2 DEF TypeOK
  <1>8. Claimed'
    <2> SUFFICES ASSUME NEW w2 \in Workers, NEW e \in batch'[w2]
                 PROVE  /\ tx[e] = "committed"
                        /\ e \notin troubled' => row'[e].token = w2
      BY <1>2 DEF Claimed
    <2>1. e \in Events
      BY <1>4
    <2>2. CASE w2 = w
      BY <1>3, <1>4, <1>6, <2>1, <2>2 DEF Claimable
    <2>3. CASE w2 # w
      <3>1. e \in batch[w2]
        BY <1>4, <2>3
      <3>2. tx[e] = "committed" /\ (e \notin troubled => row[e].token = w2)
        BY <3>1 DEF IInv, Claimed
      <3>3. e \notin troubled' => e \notin b /\ e \notin troubled
        BY <1>1, <1>5, <3>2
      <3> QED
        BY <1>6, <2>1, <3>2, <3>3
    <2> QED
      BY <2>2, <2>3
  <1>9. Answered'
    <2> SUFFICES ASSUME NEW w2 \in Workers
                 PROVE  /\ sent[w2] \subseteq batch'[w2] \cap Topic
                        /\ failed[w2] \subseteq batch'[w2] \cap troubled'
      BY <1>2 DEF Answered, Topic
    <2>1. /\ sent[w2] \subseteq batch[w2] \cap Topic
          /\ failed[w2] \subseteq batch[w2] \cap troubled
      BY DEF IInv, Answered
    <2> QED
      BY <1>2, <1>4, <1>5, <2>1
  <1>10. Settled'
    <2> SUFFICES ASSUME NEW e \in Events
                 PROVE  /\ row'[e].published =>
                              /\ row'[e].token = Null /\ row'[e].wait = 0
                              /\ e \in Topic
                        /\ row'[e].token # Null => row'[e].wait = 0
                        /\ row'[e].wait # 0 => e \in troubled'
      BY <1>2 DEF Settled, Topic
    <2>1. CASE e \in b
      BY <1>3, <1>6, <2>1 DEF Claimable
    <2>2. CASE e \notin b
      BY <1>5, <1>6, <2>2 DEF IInv, Settled
    <2> QED
      BY <2>1, <2>2
  <1>11. Delivered'
    BY <1>2 DEF IInv, Delivered, Topic
  <1>12. Counted'
    BY <1>2, <1>5, <1>6 DEF IInv, Counted
  <1> QED
    BY <1>7, <1>8, <1>9, <1>10, <1>11, <1>12 DEF IInv

(* An untroubled event that is about to be sent was never sent before.     *)
LEMMA FirstCopy ==
    ASSUME IInv, NEW w \in Workers, NEW e \in batch[w] \ sent[w], e \notin troubled
    PROVE  copies[e] = 0
  <1>1. e \in Events /\ copies[e] \in 0..2
    BY DEF IInv, TypeOK
  <1>2. row[e].token = w
    BY DEF IInv, Claimed
  <1>3. ~row[e].published
    BY <1>1, <1>2 DEF IInv, Settled
  <1>4. ASSUME NEW w2 \in Workers, e \in sent[w2]
        PROVE  FALSE
    <2>1. e \in batch[w2]
      BY <1>4 DEF IInv, Answered
    <2>2. row[e].token = w2
      BY <2>1 DEF IInv, Claimed
    <2> QED
      BY <1>2, <1>4, <2>2
  <1> QED
    BY <1>1, <1>3, <1>4 DEF IInv, Counted

LEMMA PublishKeepsInv ==
    ASSUME IInv, NEW w \in Workers, NEW e \in Events, Publish(w, e)
    PROVE  IInv'
  <1>1. /\ e \in batch[w] \ sent[w]
        /\ Deliver(e)
        /\ sent' = [sent EXCEPT ![w] = @ \cup {e}]
        /\ UNCHANGED <<tx, row, batch, failed, faults, troubled>>
        /\ TypeOK
    BY DEF Publish, IInv
  <1>2. /\ copies' \in [Events -> 0..2]
        /\ Topic' = Topic \cup {e}
        /\ copies[e] = 0 => copies'[e] = 1
        /\ \A d \in Events \ {e} : copies'[d] = copies[d]
    BY <1>1, TopicAfter
  <1>3. /\ sent'[w] = sent[w] \cup {e}
        /\ \A w2 \in Workers : w2 # w => sent'[w2] = sent[w2]
        /\ sent' \in [Workers -> SUBSET Events]
    BY <1>1 DEF TypeOK
  <1>4. TypeOK'
    BY <1>1, <1>2, <1>3 DEF TypeOK
  <1>5. Claimed'
    BY <1>1 DEF IInv, Claimed
  <1>6. Answered'
    BY <1>1, <1>2, <1>3 DEF IInv, Answered
  <1>7. Settled'
    BY <1>1, <1>2 DEF IInv, Settled
  <1>8. Delivered'
    BY <1>1, <1>2 DEF IInv, Claimed, Delivered
  <1>9. Counted'
    <2> SUFFICES ASSUME NEW d \in Events \ troubled
                 PROVE  /\ copies'[d] <= 1
                        /\ copies'[d] = 1 =>
                              row[d].published \/ \E w2 \in Workers : d \in sent'[w2]
      BY <1>1 DEF Counted
    <2>1. CASE d = e
      BY <1>1, <1>2, <1>3, <2>1, FirstCopy
    <2>2. CASE d # e
      BY <1>2, <1>3, <2>2 DEF IInv, Counted
    <2> QED
      BY <2>1, <2>2
  <1> QED
    BY <1>4, <1>5, <1>6, <1>7, <1>8, <1>9 DEF IInv

LEMMA PublishFailsKeepsInv ==
    ASSUME IInv, NEW w \in Workers, NEW e \in Events, PublishFails(w, e)
    PROVE  IInv'
  <1>1. /\ e \in batch[w]
        /\ Deliver(e) \/ UNCHANGED copies
        /\ failed' = [failed EXCEPT ![w] = @ \cup {e}]
        /\ troubled' = troubled \cup {e}
        /\ UNCHANGED <<tx, row, batch, sent>>
        /\ TypeOK
    BY DEF PublishFails, IInv
  <1>2. /\ copies' \in [Events -> 0..2]
        /\ Topic \subseteq Topic' /\ Topic' \subseteq Topic \cup {e}
        /\ \A d \in Events \ {e} : copies'[d] = copies[d]
    <2>1. CASE Deliver(e)
      BY <1>1, <2>1, TopicAfter
    <2>2. CASE UNCHANGED copies
      BY <1>1, <2>2 DEF TypeOK, Topic
    <2> QED
      BY <1>1, <2>1, <2>2
  <1>3. /\ failed'[w] = failed[w] \cup {e}
        /\ \A w2 \in Workers : w2 # w => failed'[w2] = failed[w2]
        /\ failed' \in [Workers -> SUBSET Events]
    BY <1>1 DEF TypeOK
  <1>4. TypeOK'
    <2>1. faults' \in 0..MaxFaults
      BY <1>1 DEF TypeOK, PublishFails
    <2> QED
      BY <1>1, <1>2, <1>3, <2>1 DEF TypeOK
  <1>5. Claimed'
    BY <1>1 DEF IInv, Claimed
  <1>6. Answered'
    BY <1>1, <1>2, <1>3 DEF IInv, Answered
  <1>7. Settled'
    BY <1>1, <1>2 DEF IInv, Settled
  <1>8. Delivered'
    BY <1>1, <1>2 DEF IInv, Claimed, Delivered
  <1>9. Counted'
    BY <1>1, <1>2 DEF IInv, Counted
  <1> QED
    BY <1>4, <1>5, <1>6, <1>7, <1>8, <1>9 DEF IInv

(* What an answer may do to the row it is about.                           *)
LEMMA SettledRow ==
    ASSUME NEW r \in Rows, NEW backoff \in 1..MaxBackoff
    PROVE  /\ MarkPublishedRow(r) \in Rows
           /\ MarkPublishedRow(r).published
           /\ MarkPublishedRow(r).token = Null
           /\ MarkPublishedRow(r).wait = r.wait
           /\ RescheduledRow(r, backoff) \in Rows
           /\ RescheduledRow(r, backoff).published = r.published
           /\ RescheduledRow(r, backoff).token = Null
           /\ RescheduledRow(r, backoff).wait = backoff
  <1>1. /\ 0 \in 0..LockTTL /\ Null \in Workers \cup {Null} /\ TRUE \in BOOLEAN
        /\ backoff \in 0..MaxBackoff
    OBVIOUS
  <1>2. MarkPublishedRow(r) \in Rows /\ RescheduledRow(r, backoff) \in Rows
    BY <1>1, RowTypes, Zenon DEF MarkPublishedRow, RescheduledRow
  <1>3. /\ MarkPublishedRow(r).published
        /\ MarkPublishedRow(r).token = Null
        /\ MarkPublishedRow(r).wait = r.wait
    BY DEF Rows, MarkPublishedRow
  <1>4. /\ RescheduledRow(r, backoff).published = r.published
        /\ RescheduledRow(r, backoff).token = Null
        /\ RescheduledRow(r, backoff).wait = backoff
    BY DEF Rows, RescheduledRow
  <1> QED
    BY <1>2, <1>3, <1>4

LEMMA SettleKeepsInv ==
    ASSUME IInv, NEW w \in Workers, NEW e \in Events, Settle(w, e)
    PROVE  IInv'
  <1>1. /\ UNCHANGED <<tx, copies, faults, troubled>>
        /\ TypeOK
        /\ batch' = [batch EXCEPT ![w] = @ \ {e}]
        /\ sent' = [sent EXCEPT ![w] = @ \ {e}]
        /\ failed' = [failed EXCEPT ![w] = @ \ {e}]
    BY DEF Settle, IInv
  <1>2. /\ e \in batch[w]
        /\ e \in sent[w] => e \in Topic
        /\ e \in failed[w] => e \in troubled
        /\ e \notin troubled => row[e].token = w
    BY DEF IInv, Answered, Claimed, Settle
  <1>3. /\ batch'[w] = batch[w] \ {e}
        /\ sent'[w] = sent[w] \ {e}
        /\ failed'[w] = failed[w] \ {e}
        /\ \A w2 \in Workers : w2 # w => /\ batch'[w2] = batch[w2]
                                         /\ sent'[w2] = sent[w2]
                                         /\ failed'[w2] = failed[w2]
        /\ batch' \in [Workers -> SUBSET Events]
        /\ sent' \in [Workers -> SUBSET Events]
        /\ failed' \in [Workers -> SUBSET Events]
    BY <1>1 DEF TypeOK
  <1>4. row \in [Events -> Rows] /\ row[e] \in Rows
    BY <1>1 DEF TypeOK
  <1>5. PICK r \in Rows :
           /\ row' = [row EXCEPT ![e] = r]
           /\ \/ r = row[e] /\ row[e].token # w
              \/ /\ row[e].token = w /\ e \in sent[w]
                 /\ r.published /\ r.token = Null /\ r.wait = row[e].wait
              \/ /\ row[e].token = w /\ e \in failed[w]
                 /\ r.published = row[e].published /\ r.token = Null
    <2>1. CASE /\ HoldsLease(w, e) /\ e \in sent[w]
               /\ row' = [row EXCEPT ![e] = MarkPublishedRow(@)]
      <3>1. 1 \in 1..MaxBackoff
        OBVIOUS
      <3>2. /\ MarkPublishedRow(row[e]) \in Rows
            /\ MarkPublishedRow(row[e]).published
            /\ MarkPublishedRow(row[e]).token = Null
            /\ MarkPublishedRow(row[e]).wait = row[e].wait
        BY <1>4, <3>1, SettledRow
      <3>3. row' = [row EXCEPT ![e] = MarkPublishedRow(row[e])]
        BY <2>1
      <3> QED
        BY <2>1, <3>2, <3>3, Zenon DEF HoldsLease
    <2>2. CASE /\ HoldsLease(w, e) /\ e \in failed[w]
               /\ \E backoff \in 1..MaxBackoff :
                     row' = [row EXCEPT ![e] = RescheduledRow(@, backoff)]
      <3>1. PICK backoff \in 1..MaxBackoff :
               row' = [row EXCEPT ![e] = RescheduledRow(row[e], backoff)]
        BY <2>2
      <3>2. /\ RescheduledRow(row[e], backoff) \in Rows
            /\ RescheduledRow(row[e], backoff).published = row[e].published
            /\ RescheduledRow(row[e], backoff).token = Null
        BY <1>4, SettledRow
      <3> QED
        BY <2>2, <3>1, <3>2, Zenon DEF HoldsLease
    <2>3. CASE ~HoldsLease(w, e) /\ UNCHANGED row
      <3>1. row' = [row EXCEPT ![e] = row[e]]
        BY <1>4, <2>3
      <3> QED
        BY <1>4, <2>3, <3>1 DEF HoldsLease
    <2> QED
      BY <2>1, <2>2, <2>3, Zenon DEF Settle
  <1>6. /\ row'[e] = r
        /\ \A d \in Events \ {e} : row'[d] = row[d]
        /\ row' \in [Events -> Rows]
    BY <1>4, <1>5
  <1>7. TypeOK'
    BY <1>1, <1>3, <1>6 DEF TypeOK
  <1>8. Claimed'
    <2> SUFFICES ASSUME NEW w2 \in Workers, NEW d \in batch'[w2]
                 PROVE  /\ tx[d] = "committed"
                        /\ d \notin troubled => row'[d].token = w2
      BY <1>1 DEF Claimed
    <2>1. /\ d \in batch[w2] /\ d \in Events
          /\ tx[d] = "committed"
          /\ d \notin troubled => row[d].token = w2
      BY <1>1, <1>3 DEF IInv, Claimed, TypeOK
    <2>2. CASE d # e
      BY <1>6, <2>1, <2>2
    <2>3. CASE d = e
      BY <1>2, <1>3, <2>1, <2>3
    <2> QED
      BY <2>2, <2>3
  <1>9. Answered'
    <2> SUFFICES ASSUME NEW w2 \in Workers
                 PROVE  /\ sent'[w2] \subseteq batch'[w2] \cap Topic
                        /\ failed'[w2] \subseteq batch'[w2] \cap troubled
      BY <1>1 DEF Answered, Topic
    <2>1. /\ sent[w2] \subseteq batch[w2] \cap Topic
          /\ failed[w2] \subseteq batch[w2] \cap troubled
      BY DEF IInv, Answered
    <2> QED
      BY <1>3, <2>1
  <1>10. Settled'
    <2> SUFFICES ASSUME NEW d \in Events
                 PROVE  /\ row'[d].published =>
                              /\ row'[d].token = Null /\ row'[d].wait = 0
                              /\ d \in Topic
                        /\ row'[d].token # Null => row'[d].wait = 0
                        /\ row'[d].wait # 0 => d \in troubled
      BY <1>1 DEF Settled, Topic
    <2>1. /\ row[d].published =>
                /\ row[d].token = Null /\ row[d].wait = 0 /\ d \in Topic
          /\ row[d].token # Null => row[d].wait = 0
          /\ row[d].wait # 0 => d \in troubled
      BY DEF IInv, Settled
    <2>2. CASE d # e
      BY <1>6, <2>1, <2>2
    <2>3. CASE d = e
      BY <1>2, <1>5, <1>6, <2>1, <2>3
    <2> QED
      BY <2>2, <2>3
  <1>11. Delivered'
    BY <1>1 DEF IInv, Delivered, Topic
  <1>12. Counted'
    <2> SUFFICES ASSUME NEW d \in Events \ troubled
                 PROVE  /\ copies[d] <= 1
                        /\ copies[d] = 1 =>
                              row'[d].published \/ \E w2 \in Workers : d \in sent'[w2]
      BY <1>1 DEF Counted
    <2>1. /\ copies[d] <= 1
          /\ copies[d] = 1 => row[d].published \/ \E w2 \in Workers : d \in sent[w2]
      BY DEF IInv, Counted
    <2>2. CASE d = e
      BY <1>2, <1>5, <1>6, <2>1, <2>2
    <2>3. CASE d # e
      BY <1>3, <1>6, <2>1, <2>3
    <2> QED
      BY <2>2, <2>3
  <1> QED
    BY <1>7, <1>8, <1>9, <1>10, <1>11, <1>12 DEF IInv

LEMMA CrashKeepsInv ==
    ASSUME IInv, NEW w \in Workers, Crash(w)
    PROVE  IInv'
  <1>1. /\ UNCHANGED <<tx, row, copies>>
        /\ TypeOK
        /\ faults < MaxFaults /\ faults' = faults + 1
        /\ troubled' = troubled \cup batch[w]
    BY DEF Crash, IInv
  <1>2. /\ batch'[w] = {} /\ sent'[w] = {} /\ failed'[w] = {}
        /\ \A w2 \in Workers : w2 # w => /\ batch'[w2] = batch[w2]
                                         /\ sent'[w2] = sent[w2]
                                         /\ failed'[w2] = failed[w2]
        /\ batch' \in [Workers -> SUBSET Events]
        /\ sent' \in [Workers -> SUBSET Events]
        /\ failed' \in [Workers -> SUBSET Events]
    BY <1>1 DEF Crash, TypeOK
  <1>3. troubled \subseteq troubled' /\ troubled' \subseteq Events
    BY <1>1 DEF TypeOK
  <1>4. TypeOK'
    BY <1>1, <1>2, <1>3 DEF TypeOK
  <1>5. Claimed'
    BY <1>1, <1>2, <1>3 DEF IInv, Claimed
  <1>6. Answered'
    BY <1>1, <1>2, <1>3 DEF IInv, Answered, Topic
  <1>7. Settled' /\ Delivered'
    BY <1>1, <1>3 DEF IInv, Settled, Delivered, Topic
  <1>8. Counted'
    <2> SUFFICES ASSUME NEW d \in Events \ troubled'
                 PROVE  /\ copies[d] <= 1
                        /\ copies[d] = 1 =>
                              row[d].published \/ \E w2 \in Workers : d \in sent'[w2]
      BY <1>1 DEF Counted
    <2>1. d \notin sent[w]
      BY <1>1 DEF IInv, Answered
    <2> QED
      BY <1>2, <1>3, <2>1 DEF IInv, Counted
  <1> QED
    BY <1>4, <1>5, <1>6, <1>7, <1>8 DEF IInv

(* Time touches nothing but what is left of backoffs and leases.           *)
LEMMA TickKeepsInv == ASSUME IInv, Tick PROVE IInv'
  <1>1. /\ UNCHANGED <<tx, batch, sent, failed, copies, troubled>>
        /\ TypeOK
    BY DEF Tick, IInv
  <1>0. faults' \in 0..MaxFaults
    <2>1. faults \in 0..MaxFaults
      BY DEF IInv, TypeOK
    <2>2. CASE Overrun
      <3>1. faults < MaxFaults /\ faults' = faults + 1
        BY <2>2, Zenon DEF Tick
      <3> QED
        BY <2>1, <3>1
    <2>3. CASE ~Overrun
      BY <2>1, <2>3 DEF Tick
    <2> QED
      BY <2>2, <2>3
  <1>2. ASSUME NEW e \in Events
        PROVE  /\ row'[e] \in Rows
               /\ row'[e].token = row[e].token
               /\ row'[e].published = row[e].published
               /\ row[e].wait = 0 => row'[e].wait = 0
    <2>1. row[e] \in Rows
      BY <1>1 DEF TypeOK
    <2>2. row'[e] = [row[e] EXCEPT !.wait  = IF @ > 0 THEN @ - 1 ELSE 0,
                                   !.lease = IF @ > 0 THEN @ - 1 ELSE 0]
      BY DEF Tick
    <2> QED
      BY <2>1, <2>2, TickedRow
  <1>3. row' \in [Events -> Rows]
    <2>1. row' = [e \in Events |-> row'[e]]
      BY DEF Tick
    <2> QED
      BY <1>2, <2>1
  <1>4. TypeOK'
    BY <1>0, <1>1, <1>3 DEF TypeOK
  <1>5. Claimed'
    BY <1>1, <1>2 DEF IInv, Claimed, TypeOK
  <1>6. Answered' /\ Delivered'
    BY <1>1 DEF IInv, Answered, Delivered, Topic
  <1>7. Settled'
    BY <1>1, <1>2 DEF IInv, Settled, Topic
  <1>8. Counted'
    BY <1>1, <1>2 DEF IInv, Counted
  <1> QED
    BY <1>4, <1>5, <1>6, <1>7, <1>8 DEF IInv

-----------------------------------------------------------------------------
(* Theorems.                                                               *)

LEMMA InitInv == Init => IInv
  <1> SUFFICES ASSUME Init PROVE IInv
    OBVIOUS
  <1>1. NewRow \in Rows
    BY DEF NewRow, Rows
  <1>2. TypeOK
    BY <1>1 DEF Init, TypeOK, TxStates
  <1>3. Claimed /\ Answered /\ Delivered
    BY DEF Init, Claimed, Answered, Delivered, Topic
  <1>4. Settled /\ Counted
    BY DEF Init, Settled, Counted, NewRow
  <1> QED
    BY <1>2, <1>3, <1>4 DEF IInv

LEMMA NextKeepsInv == IInv /\ [Next]_vars => IInv'
  <1> SUFFICES ASSUME IInv, [Next]_vars PROVE IInv'
    OBVIOUS
  <1>1. ASSUME NEW e \in Events, Writer(e) PROVE IInv'
    BY <1>1, WriterKeepsInv
  <1>2. ASSUME NEW w \in Workers, Worker(w) PROVE IInv'
    BY <1>2, ClaimKeepsInv, PublishKeepsInv, PublishFailsKeepsInv, SettleKeepsInv
    DEF Worker
  <1>3. ASSUME NEW w \in Workers, Crash(w) PROVE IInv'
    BY <1>3, CrashKeepsInv
  <1>4. CASE Tick
    BY <1>4, TickKeepsInv
  <1>5. CASE UNCHANGED vars
    BY <1>5 DEF vars, IInv, TypeOK, Claimed, Answered, Settled, Delivered, Counted,
                Topic
  <1> QED
    BY <1>1, <1>2, <1>3, <1>4, <1>5 DEF Next

(* The relay keeps the invariant of this module, with any number of        *)
(* events, workers, instances and faults.                                  *)
THEOREM PublisherInvariant == Spec => []IInv
  <1> QED
    BY InitInv, NextKeepsInv, PTL DEF Spec

(* Its variables have their types: in particular leases and backoffs stay  *)
(* within LockTTL and MaxBackoff.                                          *)
THEOREM PublisherTypes == Spec => []TypeOK
  <1>1. IInv => TypeOK
    BY DEF IInv
  <1> QED
    BY <1>1, PublisherInvariant, PTL

(* MarkPublished is final: no worker that lost its lease locks the row     *)
(* again or puts it off, and what is marked was delivered.                 *)
THEOREM PublishedTheorem == Spec => []PublishedIsFinal
  <1>1. IInv => PublishedIsFinal
    BY DEF IInv, Settled, PublishedIsFinal
  <1> QED
    BY <1>1, PublisherInvariant, PTL

(* An event is sent twice only after a publish error, a crash or a lease   *)
(* that was lost.                                                          *)
THEOREM DuplicatesTheorem == Spec => []NoDuplicateUnlessTroubled
  <1>1. IInv => NoDuplicateUnlessTroubled
    <2> SUFFICES ASSUME IInv, NEW e \in Events, e \notin troubled
                 PROVE  ~(copies[e] > 1)
      BY DEF NoDuplicateUnlessTroubled
    <2>1. copies[e] <= 1 /\ copies[e] \in 0..2
      BY DEF IInv, Counted, TypeOK
    <2> QED
      BY <2>1
  <1> QED
    BY <1>1, PublisherInvariant, PTL

-----------------------------------------------------------------------------
(* The promise of AtLeastOnce, but for its fairness.                       *)

LEMMA PromiseStep == IInv /\ [Next]_vars => [Promise!Next]_(Promise!vars)
  <1> SUFFICES ASSUME IInv, [Next]_vars
               PROVE  Promise!Next \/ UNCHANGED Promise!vars
    OBVIOUS
  <1> DEFINE settled == {e \in Events : row[e].published}
  <1>1. TypeOK
    BY DEF IInv
  <1>2. ASSUME NEW e \in Events, CommitTx(e)
        PROVE  Promise!Accept(e)
    <2>1. Committed' = Committed \cup {e} /\ UNCHANGED <<copies, row>>
      BY <1>1, <1>2 DEF CommitTx, Committed, TypeOK
    <2> QED
      BY <2>1 DEF Promise!Accept, Topic
  <1>3. ASSUME NEW e \in Events, AbortTx(e)
        PROVE  UNCHANGED Promise!vars
    <2>1. Committed' = Committed /\ UNCHANGED <<copies, row>>
      BY <1>1, <1>3 DEF AbortTx, Committed, TypeOK
    <2> QED
      BY <2>1 DEF Promise!vars, Topic
  <1>4. ASSUME NEW w \in Workers, Claim(w)
        PROVE  UNCHANGED Promise!vars
    <2>1. UNCHANGED <<tx, copies>>
      BY <1>4 DEF Claim
    <2>2. ASSUME NEW e \in Events PROVE row'[e].published = row[e].published
      <3>1. row[e] \in Rows
        BY <1>1 DEF TypeOK
      <3>2. \/ row'[e] = row[e]
            \/ row'[e] = [row[e] EXCEPT !.token = w, !.lease = LockTTL]
        BY <1>4 DEF Claim
      <3> QED
        <4>1. [row[e] EXCEPT !.token = w, !.lease = LockTTL].published
                  = row[e].published
          BY <3>1, ClaimedRow
        <4> QED
          BY <3>2, <4>1, Zenon
    <2> QED
      BY <2>1, <2>2 DEF Promise!vars, Committed, Topic
  <1>5. ASSUME NEW w \in Workers, NEW e \in Events, Publish(w, e) \/ PublishFails(w, e)
        PROVE  Promise!Next \/ UNCHANGED Promise!vars
    <2>1. UNCHANGED <<tx, row>> /\ (Deliver(e) \/ UNCHANGED copies) /\ e \in batch[w]
      BY <1>5 DEF Publish, PublishFails
    <2>2. e \in Committed
      BY <1>1, <2>1 DEF IInv, Claimed, Committed
    <2>3. CASE Deliver(e)
      <3>1. Topic' = Topic \cup {e}
        BY <1>1, <2>3, TopicAfter
      <3>2. Promise!Deliver(e)
        BY <2>1, <2>2, <3>1 DEF Promise!Deliver, Committed
      <3> QED
        BY <3>2 DEF Promise!Next
    <2>4. CASE UNCHANGED copies
      BY <2>1, <2>4 DEF Promise!vars, Committed, Topic
    <2> QED
      BY <2>1, <2>3, <2>4
  <1>6. ASSUME NEW w \in Workers, NEW e \in Events, Settle(w, e)
        PROVE  Promise!Next \/ UNCHANGED Promise!vars
    <2>1. UNCHANGED <<tx, copies>> /\ (e \in sent[w] => e \in Topic)
      BY <1>6 DEF Settle, IInv, Answered
    <2>2. \/ e \in sent[w] /\ row' = [row EXCEPT ![e] = MarkPublishedRow(@)]
          \/ \E backoff \in 1..MaxBackoff :
                row' = [row EXCEPT ![e] = RescheduledRow(@, backoff)]
          \/ UNCHANGED row
      BY <1>6 DEF Settle
    <2>3. CASE e \in sent[w] /\ row' = [row EXCEPT ![e] = MarkPublishedRow(@)]
      <3>1. \A d \in Events : row'[d].published <=> (row[d].published \/ d = e)
        BY <1>1, <2>3 DEF TypeOK, Rows, MarkPublishedRow
      <3>2. {d \in Events : row'[d].published} = settled \cup {e}
        BY <3>1
      <3>3. Promise!Settle(e)
        BY <2>1, <2>3, <3>2 DEF Promise!Settle, Committed, Topic
      <3> QED
        BY <3>3 DEF Promise!Next
    <2>4. CASE \E backoff \in 1..MaxBackoff :
                  row' = [row EXCEPT ![e] = RescheduledRow(@, backoff)]
      <3>1. \A d \in Events : row'[d].published = row[d].published
        BY <1>1, <2>4 DEF TypeOK, Rows, RescheduledRow
      <3> QED
        BY <2>1, <3>1 DEF Promise!vars, Committed, Topic
    <2>5. CASE UNCHANGED row
      BY <2>1, <2>5 DEF Promise!vars, Committed, Topic
    <2> QED
      BY <2>2, <2>3, <2>4, <2>5
  <1>7. ASSUME NEW w \in Workers, Crash(w)
        PROVE  UNCHANGED Promise!vars
    BY <1>7 DEF Crash, Promise!vars, Committed, Topic
  <1>8. CASE Tick
    <2>1. UNCHANGED <<tx, copies>>
      BY <1>8 DEF Tick
    <2>2. ASSUME NEW e \in Events PROVE row'[e].published = row[e].published
      <3>1. row[e] \in Rows
        BY <1>1 DEF TypeOK
      <3>2. row'[e] = [row[e] EXCEPT !.wait  = IF @ > 0 THEN @ - 1 ELSE 0,
                                     !.lease = IF @ > 0 THEN @ - 1 ELSE 0]
        BY <1>8 DEF Tick
      <3> QED
        BY <3>1, <3>2, TickedRow
    <2> QED
      BY <2>1, <2>2 DEF Promise!vars, Committed, Topic
  <1>9. CASE UNCHANGED vars
    BY <1>9 DEF vars, Promise!vars, Committed, Topic
  <1> QED
    BY <1>2, <1>3, <1>4, <1>5, <1>6, <1>7, <1>8, <1>9
       DEF Next, Writer, Worker, Promise!Next

(* Every step of the relay is a step of the promise or none: an event is   *)
(* delivered only after its transaction committed and set aside only after *)
(* it was delivered.  That it is delivered at last is liveness, and TLC's. *)
THEOREM PromiseSafety == Spec => Promise!Init /\ [][Promise!Next]_(Promise!vars)
  <1>1. Init => Promise!Init
    BY DEF Init, Promise!Init, Committed, NewRow, Topic
  <1> QED
    BY <1>1, PromiseStep, PublisherInvariant, PTL DEF Spec
=============================================================================
