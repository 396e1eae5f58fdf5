--------------------------- MODULE ListingsProofs ----------------------------
(* Theorems about Listings, for any finite set of videos, any page sizes   *)
(* and any limits, whatever appears and disappears during a walk.          *)
EXTENDS Listings, FiniteSetTheorems, TLAPS

USE ConstantsAssumption

-----------------------------------------------------------------------------
(* One answer.                                                             *)

(* A row that matches and does not come is older than all that come.       *)
LEMMA NewestRowsCome ==
    ASSUME listed \subseteq Videos, NEW cursor, NEW limit \in Nat,
           NEW v \in Matching(cursor) \ Query(cursor, limit),
           NEW x \in Query(cursor, limit)
    PROVE  v < x
<1> DEFINE Above(w) == {y \in Matching(cursor) : y > w}
<1>1. v \in Nat /\ x \in Nat /\ Matching(cursor) \subseteq Nat
  BY DEF Matching, Query
<1>2. \A w : Above(w) \in SUBSET Videos
  BY DEF Matching
<1>3. \A w : IsFiniteSet(Above(w)) /\ Cardinality(Above(w)) \in Nat
  BY <1>2, FS_Subset, FS_CardinalityType
<1>4. Cardinality(Above(x)) < limit /\ ~(Cardinality(Above(v)) < limit) /\ v # x
  BY DEF Query
<1>5. SUFFICES ASSUME x < v PROVE FALSE
  BY <1>1, <1>4
<1>6. Above(v) \in SUBSET Above(x)
  BY <1>1, <1>5
<1>7. Cardinality(Above(v)) <= Cardinality(Above(x))
  BY <1>3, <1>6, FS_Subset
<1> HIDE DEF Above
<1> QED
  BY <1>3, <1>4, <1>7

(* A set of numbers has a least one.                                       *)
LEMMA LeastNumber ==
    ASSUME NEW numbers \in SUBSET Nat, numbers # {}
    PROVE  \E n \in numbers : \A k \in numbers : n <= k
<1>1. PICK n \in numbers : \A k \in numbers : <<k, n>> \notin OpToRel(<, Nat)
  BY NatLessThanWellFounded, WFMin
<1>2. \A k \in numbers : ~(k < n)
  BY <1>1 DEF OpToRel
<1> QED
  BY <1>2

(* A query returns no more rows than its limit.                            *)
LEMMA QueryIsBounded ==
    ASSUME listed \subseteq Videos, NEW cursor, NEW limit \in Nat
    PROVE  Cardinality(Query(cursor, limit)) <= limit
<1> DEFINE Above(w) == {y \in Matching(cursor) : y > w}
           rows == Query(cursor, limit)
<1>1. rows \subseteq Matching(cursor) /\ Matching(cursor) \subseteq Videos
  BY DEF Query, Matching
<1>2. IsFiniteSet(rows) /\ Cardinality(rows) \in Nat
  BY <1>1, FS_Subset, FS_CardinalityType
<1>3. CASE rows = {}
  BY <1>3, FS_EmptySet
<1>4. CASE rows # {}
  <2>1. PICK n \in rows : \A k \in rows : n <= k
    <3>1. rows \in SUBSET Nat
      BY <1>1
    <3> QED
      BY <1>4, <3>1, LeastNumber
  <2>2. /\ IsFiniteSet(Above(n)) /\ Cardinality(Above(n)) \in Nat
        /\ Cardinality(Above(n)) < limit
    <3>1. Above(n) \in SUBSET Videos
      BY <1>1
    <3>2. Cardinality(Above(n)) < limit
      BY <2>1 DEF Query
    <3> QED
      BY <3>1, <3>2, FS_Subset, FS_CardinalityType
  <2>3. rows \ {n} \in SUBSET Above(n)
    <3>1. ASSUME NEW k \in rows, k # n PROVE k \in Matching(cursor) /\ k > n
      <4>1. k \in Nat /\ n \in Nat /\ n <= k
        BY <1>1, <2>1
      <4> QED
        BY <1>1, <3>1, <4>1
    <3> QED
      BY <3>1
  <2>4. Cardinality(rows \ {n}) = Cardinality(rows) - 1
    BY <1>2, <2>1, FS_RemoveElement
  <2>5. Cardinality(rows \ {n}) <= Cardinality(Above(n))
    BY <2>2, <2>3, FS_Subset
  <2> QED
    BY <1>2, <2>2, <2>4, <2>5
<1> QED
  BY <1>3, <1>4

(* A query that leaves out a row has as many as its limit.                 *)
LEMMA QueryIsFull ==
    ASSUME listed \subseteq Videos, NEW cursor, NEW limit \in Nat,
           Matching(cursor) \ Query(cursor, limit) # {}
    PROVE  Cardinality(Query(cursor, limit)) >= limit
<1> DEFINE Above(w) == {y \in Matching(cursor) : y > w}
           rows == Query(cursor, limit)
           left == Matching(cursor) \ rows
           counts == {Cardinality(Above(w)) : w \in left}
<1>1. rows \subseteq Matching(cursor) /\ Matching(cursor) \subseteq Videos
  BY DEF Query, Matching
<1>2. \A w : IsFiniteSet(Above(w)) /\ Cardinality(Above(w)) \in Nat
  <2>1. \A w : Above(w) \in SUBSET Videos
    BY <1>1
  <2> QED
    BY <2>1, FS_Subset, FS_CardinalityType
<1>3. PICK v \in left : \A w \in left : Cardinality(Above(v)) <= Cardinality(Above(w))
  <2>1. counts \in SUBSET Nat /\ counts # {}
    BY <1>2
  <2>2. PICK n \in counts : \A k \in counts : n <= k
    BY <2>1, LeastNumber
  <2>3. PICK v \in left : n = Cardinality(Above(v))
    BY <2>2
  <2>4. \A w \in left : Cardinality(Above(w)) \in counts
    OBVIOUS
  <2> HIDE DEF Above, left, counts
  <2> QED
    BY <2>2, <2>3, <2>4
<1>4. Above(v) \in SUBSET rows
  <2> SUFFICES ASSUME NEW y \in Above(v), y \notin rows PROVE FALSE
    OBVIOUS
  <2>1. y \in left /\ y > v /\ y \in Nat /\ v \in Nat
    BY <1>1, <1>3
  <2>2. Above(y) \in SUBSET Above(v) /\ y \in Above(v) /\ y \notin Above(y)
    <3>1. \A x \in Matching(cursor) : x \in Nat
      BY <1>1
    <3>2. \A x \in Matching(cursor) : x > y => x > v
      BY <2>1, <3>1
    <3>3. Above(y) \in SUBSET Above(v)
      BY <3>2
    <3>4. y \notin Above(y)
      BY <2>1
    <3> QED
      BY <3>3, <3>4
  <2>3. Cardinality(Above(y)) <= Cardinality(Above(v)) /\ Above(y) # Above(v)
    BY <1>2, <2>2, FS_Subset
  <2>4. Cardinality(Above(y)) # Cardinality(Above(v))
    BY <1>2, <2>2, <2>3, FS_Subset
  <2> QED
    BY <1>2, <1>3, <2>1, <2>3, <2>4
<1>5. ~(Cardinality(Above(v)) < limit)
  BY <1>3 DEF Query
<1>6. IsFiniteSet(rows) /\ Cardinality(rows) \in Nat
  BY <1>1, FS_Subset, FS_CardinalityType
<1>7. Cardinality(Above(v)) <= Cardinality(rows)
  BY <1>4, <1>6, FS_Subset
<1> QED
  BY <1>2, <1>5, <1>6, <1>7

(* The limit of a page is a positive number, and so is that of its query.  *)
LEMMA Limits ==
    ASSUME NEW size \in Int
    PROVE  /\ ClampPageSize(size) \in Nat /\ 1 <= ClampPageSize(size)
           /\ QueryLimit(ClampPageSize(size) + 1) \in Nat
  BY DEF ClampPageSize, QueryLimit

(* An answer: its items match; the next cursor is a match below them, of a *)
(* page with items; and what matches and is left is below both.            *)
LEMMA Answer ==
    ASSUME listed \subseteq Videos, NEW cursor, NEW size \in PageSizes, NEW next,
           IsNext(Rows(cursor, size), size, next)
    PROVE  LET items == Items(Rows(cursor, size), next)
           IN  /\ items \subseteq Matching(cursor)
               /\ next # Null =>
                     /\ next \in Matching(cursor)
                     /\ items # {}
                     /\ \A x \in items : next < x
               /\ \A v \in Matching(cursor) \ (items \cup {next}) :
                     /\ \A x \in items : v < x
                     /\ next # Null => v < next
<1> DEFINE limit == ClampPageSize(size)
           rows == Rows(cursor, size)
           items == Items(rows, next)
<1>1. limit \in Nat /\ 1 <= limit /\ QueryLimit(limit + 1) \in Nat
  BY Limits
<1>2. rows = Query(cursor, QueryLimit(limit + 1))
  BY DEF Rows
<1>3. rows \subseteq Matching(cursor) /\ Matching(cursor) \subseteq Videos
  BY <1>2 DEF Query, Matching
<1>4. items = rows \ {next}
  BY DEF Items
<1>5. IsFiniteSet(rows) /\ Cardinality(rows) \in Nat
  BY <1>3, FS_Subset, FS_CardinalityType
<1>6. next # Null =>
        /\ next \in rows
        /\ \A v \in rows : next <= v
        /\ Cardinality(rows) > limit
  BY DEF IsNext
<1>7. \A v \in Matching(cursor) \ rows, x \in rows : v < x
  BY <1>1, <1>2, NewestRowsCome
<1>8. next # Null => items # {}
  <2> SUFFICES ASSUME next # Null, items = {} PROVE FALSE
    OBVIOUS
  <2>1. rows = {next}
    BY <1>4, <1>6
  <2>2. Cardinality(rows) = 1
    BY <2>1, FS_Singleton
  <2> QED
    BY <1>1, <1>6, <2>2
<1>9. next # Null => next \in Matching(cursor) /\ \A x \in items : next < x
  <2>1. \A x \in items : x \in rows /\ x # next /\ x \in Nat
    BY <1>3, <1>4
  <2>2. next \in rows => next \in Nat /\ next \in Matching(cursor)
    BY <1>3
  <2> HIDE DEF items, rows
  <2> QED
    BY <1>6, <2>1, <2>2
<1>10. ASSUME NEW v \in Matching(cursor) \ (items \cup {next})
       PROVE  (\A x \in items : v < x) /\ (next # Null => v < next)
  <2>1. v \in Matching(cursor) \ rows
    BY <1>4
  <2> QED
    BY <1>4, <1>6, <1>7, <2>1
<1>11. items \subseteq Matching(cursor)
  BY <1>3, <1>4
<1> QED
  BY <1>8, <1>9, <1>10, <1>11

(* A page that is not cut short and has no next cursor has all that match. *)
LEMMA LastAnswer ==
    ASSUME listed \subseteq Videos, NEW cursor, NEW size \in PageSizes,
           IsNext(Rows(cursor, size), size, Null),
           ~(ClampPageSize(size) = MaxSize /\ Cardinality(Rows(cursor, size)) = DefaultSize)
    PROVE  Items(Rows(cursor, size), Null) = Matching(cursor)
<1> DEFINE rows == Rows(cursor, size)
           limit == QueryLimit(ClampPageSize(size) + 1)
<1>1. rows = Query(cursor, limit)
  BY DEF Rows
<1>2. rows \subseteq Matching(cursor) /\ Matching(cursor) \subseteq Videos /\ Null \notin rows
  BY <1>1 DEF Query, Matching
<1>3. ClampPageSize(size) \in Nat /\ limit \in Nat /\ Cardinality(rows) \in Nat
  BY <1>2, Limits, FS_Subset, FS_CardinalityType
<1>4. Cardinality(rows) <= ClampPageSize(size)
  BY <1>2, <1>3 DEF IsNext
<1>5. ASSUME Matching(cursor) \ rows # {} PROVE FALSE
  <2>1. Cardinality(rows) = limit
    BY <1>1, <1>3, <1>5, QueryIsBounded, QueryIsFull
  <2>2. CASE ClampPageSize(size) = MaxSize
    <3>1. limit = DefaultSize
      BY <2>2 DEF QueryLimit
    <3> QED
      BY <2>1, <2>2, <3>1
  <2>3. CASE ClampPageSize(size) # MaxSize
    <3>1. ClampPageSize(size) < MaxSize
      BY <2>3 DEF ClampPageSize
    <3>2. limit = ClampPageSize(size) + 1
      BY <1>3, <3>1 DEF QueryLimit
    <3> QED
      BY <1>3, <1>4, <2>1, <3>2
  <2> QED
    BY <2>2, <2>3
<1>6. rows = Matching(cursor)
  BY <1>2, <1>5
<1> QED
  BY <1>2, <1>6 DEF Items

-----------------------------------------------------------------------------
(* The inductive invariant.                                                *)

(* The cursor is one that was made, and what is above it was returned: the *)
(* walk has nothing left up there.                                         *)
NothingLeftAbove ==
    token # Null =>
        /\ token \in cuts
        /\ \A v \in steady \ cuts : v > token => v \in Seen

IInv == TypeOK /\ WalkGoesDown /\ PassedVideosAreReturned /\ NothingLeftAbove

LEMMA Beginning == Init => IInv
<1> SUFFICES ASSUME Init PROVE IInv
  OBVIOUS
<1>1. returned = <<>> /\ returned \in Seq(SUBSET Videos) /\ DOMAIN returned = {}
  BY DEF Init
<1>2. Seen = {}
  BY <1>1 DEF Seen, Range
<1> QED
  BY <1>1, <1>2 DEF Init, IInv, TypeOK, WalkGoesDown, PassedVideosAreReturned, NothingLeftAbove

(* What was seen after a page is what was seen before and its items.       *)
LEMMA SeenOfAppend ==
    ASSUME NEW s \in Seq(SUBSET Videos), NEW items \in SUBSET Videos
    PROVE  /\ Append(s, items) \in Seq(SUBSET Videos)
           /\ DOMAIN Append(s, items) = DOMAIN s \cup {Len(s) + 1}
           /\ Append(s, items)[Len(s) + 1] = items
           /\ \A i \in DOMAIN s : Append(s, items)[i] = s[i]
           /\ UNION Range(Append(s, items)) = (UNION Range(s)) \cup items
<1>1. /\ Append(s, items) \in Seq(SUBSET Videos)
      /\ DOMAIN Append(s, items) = DOMAIN s \cup {Len(s) + 1}
      /\ Append(s, items)[Len(s) + 1] = items
      /\ \A i \in DOMAIN s : Append(s, items)[i] = s[i]
  OBVIOUS
<1>2. Range(Append(s, items)) = Range(s) \cup {items}
  BY <1>1, Zenon DEF Range
<1>3. UNION (Range(s) \cup {items}) = (UNION Range(s)) \cup items
  OBVIOUS
<1>4. UNION Range(Append(s, items)) = (UNION Range(s)) \cup items
  BY <1>2, <1>3, Zenon
<1> QED
  BY <1>1, <1>4, Zenon

LEMMA FirstPageKeeps ==
    ASSUME IInv, NEW size \in PageSizes, FirstPage(size)
    PROVE  IInv'
<1>1. PICK next \in listed \cup {Null} :
        /\ IsNext(Rows(Null, size), size, next)
        /\ returned' = <<Items(Rows(Null, size), next)>>
        /\ token' = next
        /\ cuts' = {next} \ {Null}
  BY Zenon DEF FirstPage
<1>2. steady' = listed /\ listed' = listed /\ changes' = changes
  BY DEF FirstPage
<1>3. listed \subseteq Videos /\ changes \in 0 .. MaxChanges
  BY DEF IInv, TypeOK
<1>4. PICK items : items = Items(Rows(Null, size), next)
  OBVIOUS
<1>5. Matching(Null) = listed
  BY DEF Matching
<1>6. /\ items \subseteq listed
      /\ next # Null => items # {} /\ \A x \in items : next < x
      /\ \A v \in listed \ (items \cup {next}) :
            /\ \A x \in items : v < x
            /\ next # Null => v < next
  BY <1>1, <1>3, <1>4, <1>5, Answer
<1>7. /\ returned' = <<items>> /\ returned' \in Seq(SUBSET Videos)
      /\ DOMAIN returned' = {1} /\ returned'[Len(returned')] = items
      /\ returned' # <<>> /\ returned'[1] = items
  <2>1. items \in SUBSET Videos
    BY <1>3, <1>6
  <2>2. PICK pages : pages = <<items>>
    OBVIOUS
  <2>3. /\ pages \in Seq(SUBSET Videos) /\ Len(pages) = 1
        /\ DOMAIN pages = {1} /\ pages # <<>> /\ pages[1] = items
    BY <2>1, <2>2
  <2>4. returned' = pages
    BY <1>1, <1>4, <2>2, Zenon
  <2> QED
    BY <2>2, <2>3, <2>4
<1>8. Seen' = items
  BY <1>7 DEF Seen, Range
<1>9. TypeOK'
  BY <1>1, <1>2, <1>3, <1>6, <1>7 DEF TypeOK
<1>10. WalkGoesDown'
  BY <1>1, <1>3, <1>6, <1>7, <1>8 DEF WalkGoesDown
<1>11. \A v \in (steady \ cuts)' : v \in items \/ v \in listed \ (items \cup {next})
  BY <1>1, <1>2, <1>3
<1>12. PassedVideosAreReturned'
  <2> SUFFICES ASSUME NEW v \in (steady \ cuts)', NEW x \in Seen', v > x,
                      v \in listed \ (items \cup {next})
               PROVE  FALSE
    BY <1>8, <1>11 DEF PassedVideosAreReturned
  <2>1. x \in items /\ x \in Nat /\ v \in Nat
    BY <1>3, <1>6, <1>8
  <2> QED
    BY <1>6, <2>1
<1>13. NothingLeftAbove'
  <2>1. next # Null => next \in cuts'
    BY <1>1
  <2>2. ASSUME next # Null, NEW v \in (steady \ cuts)', v > next
        PROVE  v \in Seen'
    <3>1. v \in Nat /\ next \in Nat
      BY <1>1, <1>2, <1>3, <2>2
    <3> QED
      BY <1>6, <1>8, <1>11, <2>2, <3>1
  <2> QED
    BY <1>1, <2>1, <2>2 DEF NothingLeftAbove
<1> QED
  BY <1>9, <1>10, <1>12, <1>13 DEF IInv

LEMMA NextPageKeeps ==
    ASSUME IInv, NEW size \in PageSizes, NextPage(size)
    PROVE  IInv'
<1>1. PICK next \in listed \cup {Null} :
        /\ IsNext(Rows(token, size), size, next)
        /\ returned' = Append(returned, Items(Rows(token, size), next))
        /\ token' = next
        /\ cuts' = cuts \cup ({next} \ {Null})
  BY Zenon DEF NextPage
<1>2. token # Null /\ steady' = steady /\ listed' = listed /\ changes' = changes
  BY DEF NextPage
<1>3. /\ listed \subseteq Videos /\ steady \subseteq listed /\ cuts \subseteq Videos
      /\ returned \in Seq(SUBSET Videos)
      /\ changes \in 0 .. MaxChanges /\ token \in Videos
  BY <1>2 DEF IInv, TypeOK
<1>4. PICK items : items = Items(Rows(token, size), next)
  OBVIOUS
<1>5. Matching(token) = {v \in listed : v < token}
  BY <1>2 DEF Matching
<1>6. /\ items \subseteq Matching(token)
      /\ next # Null => /\ next \in Matching(token)
                        /\ items # {}
                        /\ \A x \in items : next < x
      /\ \A v \in Matching(token) \ (items \cup {next}) :
            /\ \A x \in items : v < x
            /\ next # Null => v < next
  BY <1>1, <1>3, <1>4, Answer
<1>7. /\ items \in SUBSET Videos
      /\ \A x \in items : x < token
      /\ next # Null => next < token
  BY <1>3, <1>5, <1>6
<1>8. /\ returned' \in Seq(SUBSET Videos)
      /\ DOMAIN returned' = DOMAIN returned \cup {Len(returned) + 1}
      /\ returned'[Len(returned) + 1] = items
      /\ \A i \in DOMAIN returned : returned'[i] = returned[i]
      /\ UNION Range(returned') = (UNION Range(returned)) \cup items
  <2>1. /\ Append(returned, items) \in Seq(SUBSET Videos)
        /\ DOMAIN Append(returned, items) = DOMAIN returned \cup {Len(returned) + 1}
        /\ Append(returned, items)[Len(returned) + 1] = items
        /\ \A i \in DOMAIN returned : Append(returned, items)[i] = returned[i]
        /\ UNION Range(Append(returned, items)) = (UNION Range(returned)) \cup items
    BY <1>3, <1>7, SeenOfAppend
  <2>2. returned' = Append(returned, items)
    BY <1>1, <1>4, Zenon
  <2> QED
    BY <2>1, <2>2, Zenon
<1>9. Seen' = Seen \cup items
  BY <1>8, Zenon DEF Seen
<1>10. /\ Len(returned) \in Nat /\ DOMAIN returned = 1 .. Len(returned)
       /\ Seen \subseteq Videos
       /\ \A i \in DOMAIN returned : returned[i] \subseteq Seen
  BY <1>3 DEF Seen, Range
<1>11. returned' # <<>> /\ returned'[Len(returned')] = items
  BY <1>1, <1>3, <1>4, <1>7
<1>12. TypeOK'
  BY <1>1, <1>2, <1>3, <1>6, <1>8, <1>11 DEF TypeOK
<1>13. \A v \in Seen : v > token
  BY <1>2 DEF IInv, WalkGoesDown
<1>14. WalkGoesDown'
  <2>1. ASSUME NEW i \in DOMAIN returned', NEW j \in DOMAIN returned', i < j,
               NEW v \in returned'[i], NEW x \in returned'[j]
        PROVE  v > x
    <3>1. i \in DOMAIN returned /\ v \in returned[i] /\ v \in Seen
      BY <1>8, <1>10, <2>1
    <3>2. CASE j \in DOMAIN returned
      BY <1>8, <2>1, <3>1, <3>2 DEF IInv, WalkGoesDown
    <3>3. CASE j = Len(returned) + 1
      <4>1. x \in items
        BY <1>8, <3>3
      <4> QED
        <5>1. v \in Nat /\ x \in Nat /\ token \in Nat
          BY <1>3, <1>7, <1>10, <3>1, <4>1
        <5>2. v > token /\ x < token
          BY <1>7, <1>13, <3>1, <4>1
        <5> QED
          BY <5>1, <5>2
    <3> QED
      BY <1>8, <3>2, <3>3
  <2>2. next # Null => \A v \in Seen \cup items : v > next
    BY <1>3, <1>6, <1>7, <1>10, <1>13
  <2> QED
    BY <1>1, <1>9, <2>1, <2>2 DEF WalkGoesDown
<1>15. ASSUME NEW v \in (steady \ cuts)'
       PROVE  \/ v \in Seen'
              \/ v \in Matching(token) \ (items \cup {next})
  <2>1. v \in steady \ cuts /\ v # next /\ v \in Nat /\ v \in listed
    BY <1>1, <1>2, <1>3, <1>15
  <2>2. v # token
    BY <1>2, <2>1 DEF IInv, NothingLeftAbove
  <2>3. CASE v > token
    BY <1>2, <1>9, <2>1, <2>3 DEF IInv, NothingLeftAbove
  <2>4. CASE v < token
    BY <1>5, <1>9, <2>1, <2>4
  <2> QED
    BY <1>3, <2>1, <2>2, <2>3, <2>4
<1>16. PassedVideosAreReturned'
  <2> SUFFICES ASSUME NEW v \in (steady \ cuts)', NEW x \in Seen', v > x,
                      v \in Matching(token) \ (items \cup {next})
               PROVE  FALSE
    BY <1>15 DEF PassedVideosAreReturned
  <2>1. v \in Nat /\ v < token
    BY <1>3, <1>5
  <2>2. CASE x \in items
    BY <1>3, <1>6, <1>7, <2>1, <2>2
  <2>3. CASE x \in Seen
    BY <1>3, <1>10, <1>13, <2>1, <2>3
  <2> QED
    BY <1>9, <2>2, <2>3
<1>17. NothingLeftAbove'
  <2>1. next # Null => next \in cuts'
    BY <1>1
  <2>2. ASSUME next # Null, NEW v \in (steady \ cuts)', v > next
        PROVE  v \in Seen'
    <3>1. v \in Nat /\ next \in Nat
      BY <1>1, <1>2, <1>3, <2>2
    <3> QED
      BY <1>6, <1>15, <2>2, <3>1
  <2> QED
    BY <1>1, <2>1, <2>2 DEF NothingLeftAbove
<1> QED
  BY <1>12, <1>14, <1>16, <1>17 DEF IInv

(* Changes of the videos leave the walk alone, and nothing that appears    *)
(* during a walk is steady.                                                *)
LEMMA ChangeKeeps ==
    ASSUME IInv, steady' \subseteq steady, steady' \subseteq listed',
           listed' \subseteq Videos, changes' \in 0 .. MaxChanges,
           UNCHANGED <<returned, token, cuts>>
    PROVE  IInv'
<1>1. returned' = returned /\ token' = token /\ cuts' = cuts /\ Seen' = Seen
  BY DEF Seen
<1>2. TypeOK'
  BY <1>1 DEF IInv, TypeOK
<1>3. WalkGoesDown'
  BY <1>1 DEF IInv, WalkGoesDown
<1>4. PassedVideosAreReturned'
  BY <1>1 DEF IInv, PassedVideosAreReturned
<1>5. NothingLeftAbove'
  BY <1>1 DEF IInv, NothingLeftAbove
<1> QED
  BY <1>2, <1>3, <1>4, <1>5 DEF IInv

LEMMA Step == IInv /\ [Next]_vars => IInv'
<1> SUFFICES ASSUME IInv, [Next]_vars PROVE IInv'
  OBVIOUS
<1>1. ASSUME NEW size \in PageSizes, FirstPage(size) PROVE IInv'
  BY <1>1, FirstPageKeeps
<1>2. ASSUME NEW size \in PageSizes, NextPage(size) PROVE IInv'
  BY <1>2, NextPageKeeps
<1>3. ASSUME NEW v \in Videos, Appears(v) PROVE IInv'
  BY <1>3, ChangeKeeps DEF Appears, IInv, TypeOK
<1>4. ASSUME NEW v \in Videos, Disappears(v) PROVE IInv'
  BY <1>4, ChangeKeeps DEF Disappears, IInv, TypeOK
<1>5. CASE UNCHANGED vars
  BY <1>5, ChangeKeeps DEF vars, IInv, TypeOK
<1> QED
  BY <1>1, <1>2, <1>3, <1>4, <1>5 DEF Next

(* What a page without a next token leaves out was never steady, or a      *)
(* cursor was made from it.                                                *)
LEMMA EndStep ==
    ASSUME IInv, NEW size \in PageSizes, FirstPage(size) \/ NextPage(size),
           token' = Null, ~CutShort(size)
    PROVE  (steady \ cuts)' \subseteq Seen'
<1>1. /\ listed \subseteq Videos /\ steady \subseteq listed /\ cuts \subseteq Videos
      /\ returned \in Seq(SUBSET Videos) /\ token \in Videos \cup {Null}
  BY DEF IInv, TypeOK
<1>2. CASE FirstPage(size)
  <2>1. PICK items : items = Items(Rows(Null, size), Null)
    OBVIOUS
  <2>2. /\ IsNext(Rows(Null, size), size, Null)
        /\ returned' = <<items>> /\ steady' = listed
    BY <1>2, <2>1 DEF FirstPage
  <2>3. Rows(Null, size) = items
    BY <1>1, <2>1 DEF Items, Rows, Query, Matching
  <2>4. DOMAIN returned' = {1} /\ returned'[1] = items /\ returned'[Len(returned')] = items
    BY <2>2
  <2>5. items = Matching(Null)
    BY <1>1, <2>1, <2>2, <2>3, <2>4, LastAnswer DEF CutShort
  <2>6. Seen' = items
    BY <2>4 DEF Seen, Range
  <2> QED
    BY <2>2, <2>5, <2>6 DEF Matching
<1>3. CASE NextPage(size)
  <2>1. PICK items : items = Items(Rows(token, size), Null)
    OBVIOUS
  <2>2. /\ IsNext(Rows(token, size), size, Null)
        /\ returned' = Append(returned, items)
        /\ token # Null /\ steady' = steady /\ cuts \subseteq cuts'
    BY <1>3, <2>1, Zenon DEF NextPage
  <2>3. Rows(token, size) = items /\ items \in SUBSET Videos
    BY <1>1, <2>1 DEF Items, Rows, Query, Matching
  <2>4. returned'[Len(returned')] = items
    BY <1>1, <2>2, <2>3
  <2>5. items = Matching(token)
    BY <1>1, <2>1, <2>2, <2>3, <2>4, LastAnswer DEF CutShort
  <2>6. Seen' = Seen \cup items
    BY <1>1, <2>2, <2>3, SeenOfAppend, Zenon DEF Seen
  <2>7. ASSUME NEW v \in (steady \ cuts)' PROVE v \in Seen'
    <3>1. v \in steady \ cuts /\ v \in listed /\ v \in Nat /\ token \in Nat
      BY <1>1, <2>2, <2>7
    <3>2. v # token /\ (v > token => v \in Seen)
      BY <2>2, <3>1 DEF IInv, NothingLeftAbove
    <3>3. v < token => v \in items
      BY <2>5, <3>1 DEF Matching
    <3> QED
      BY <2>6, <3>1, <3>2, <3>3
  <2> QED
    BY <2>7
<1> QED
  BY <1>2, <1>3

-----------------------------------------------------------------------------
(* Theorems.                                                               *)

(* The inductive invariant holds.                                          *)
THEOREM ListingsInvariant == Spec => []IInv
  BY Beginning, Step, PTL DEF Spec

(* Pages, cursors and histories keep their types, and a page that is not   *)
(* the last has items.                                                     *)
THEOREM ListingsTypes == Spec => []TypeOK
<1>1. IInv => TypeOK
  BY DEF IInv
<1> QED
  BY <1>1, ListingsInvariant, PTL

(* No walk returns a video twice or goes up again.                         *)
THEOREM WalkTheorem == Spec => []WalkGoesDown
<1>1. IInv => WalkGoesDown
  BY DEF IInv
<1> QED
  BY <1>1, ListingsInvariant, PTL

(* A walk passes over nothing but the videos its cursors are made from.    *)
THEOREM PassedTheorem == Spec => []PassedVideosAreReturned
<1>1. IInv => PassedVideosAreReturned
  BY DEF IInv
<1> QED
  BY <1>1, ListingsInvariant, PTL

(* A walk that ends has returned all that was listed the whole time but    *)
(* the videos its cursors were made from, unless its last page was cut     *)
(* short.                                                                  *)
THEOREM EndsTheorem == Spec => EndsWhenNothingIsLeft
<1>1. IInv /\ [Next]_vars =>
        [\A size \in PageSizes :
            (FirstPage(size) \/ NextPage(size)) /\ token' = Null /\ ~CutShort(size) =>
                (steady \ cuts)' \subseteq Seen']_vars
  BY EndStep, Zenon
<1> QED
  BY <1>1, ListingsInvariant, PTL DEF Spec, EndsWhenNothingIsLeft
=============================================================================
