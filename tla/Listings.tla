------------------------------ MODULE Listings -------------------------------
(***************************************************************************)
(* The listings of VideoQueryService, ListUserPublicVideos and             *)
(* ListMyUploads: a client walks through pages by handing back the cursor  *)
(* of the page before, while videos begin and cease to match the listing.  *)
(* Every page is one query, so the two differ in their filters only, that  *)
(* is in what belongs to `listed`.                                         *)
(*                                                                         *)
(* A video is named by its place in the order by created_at and video_id,  *)
(* larger for newer, and a page is a set: its items go by that order.  A   *)
(* cursor is the place it was made from; its coding in base64 and JSON is  *)
(* left out.                                                               *)
(***************************************************************************)
EXTENDS Integers, Sequences, FiniteSets, Functions

CONSTANTS
    Videos,         \* places in the order of the listing
    PageSizes,      \* values of page_size that clients send
    DefaultSize,    \* 20 in the code
    MaxSize,        \* 100 in the code
    Null,           \* no page token
    MaxChanges      \* bound on changes of the listed videos

ASSUME ConstantsAssumption ==
    /\ Videos \subseteq Nat /\ IsFiniteSet(Videos)
    /\ PageSizes \subseteq Int
    /\ DefaultSize \in Nat /\ MaxSize \in Nat
    /\ 0 < DefaultSize /\ DefaultSize <= MaxSize
    /\ Null \notin Nat
    /\ MaxChanges \in Nat

VARIABLES
    listed,         \* videos that match the filters of the listing
    returned,       \* the pages the client has seen on this walk
    token,          \* next_page_token of the last page, Null when there is none
    steady,         \* history: videos listed ever since the walk began
    cuts,           \* history: videos that a cursor was made from
    changes         \* changes so far

vars == <<listed, returned, token, steady, cuts, changes>>

Init ==
    /\ listed \in SUBSET Videos
    /\ returned = <<>>
    /\ token = Null
    /\ steady = listed
    /\ cuts = {}
    /\ changes = 0

(* Mutant of ClampPageSize: zero is taken for a size. *)
ClampPageSize_ZeroIsASize(size) ==
    IF size < 0 THEN DefaultSize ELSE IF size > MaxSize THEN MaxSize ELSE size

(* clampPageSize of the service. *)
ClampPageSize(size) ==
    IF size <= 0 THEN DefaultSize ELSE IF size > MaxSize THEN MaxSize ELSE size

(* What the repository makes of a limit out of range. *)
QueryLimit(limit) == IF limit <= 0 \/ limit > MaxSize THEN DefaultSize ELSE limit

(* Mutant of Matching: the condition on the cursor is lost. *)
Matching_NoCursor(cursor) == listed

(* The WHERE clause: strictly older than the cursor. *)
Matching(cursor) == {v \in listed : cursor = Null \/ v < cursor}

(* Mutant of Query: ORDER BY lost its DESC. *)
Query_Ascending(cursor, limit) ==
    {v \in Matching(cursor) : Cardinality({x \in Matching(cursor) : x < v}) < limit}

(* ORDER BY ... DESC LIMIT: the newest of the rows that match. *)
Query(cursor, limit) ==
    {v \in Matching(cursor) : Cardinality({x \in Matching(cursor) : x > v}) < limit}

(* Mutant of Rows: no row is read beyond the page. *)
Rows_NoneBeyond(cursor, size) == Query(cursor, QueryLimit(ClampPageSize(size)))

(* What a request reads: one row more than the page shall have. *)
Rows(cursor, size) == Query(cursor, QueryLimit(ClampPageSize(size) + 1))

(* When that row comes the page is not the last, and the next cursor is    *)
(* made from it: the oldest row.                                           *)
IsNext(rows, size, next) ==
    IF Cardinality(rows) > ClampPageSize(size)
    THEN next \in rows /\ \A v \in rows : next <= v
    ELSE next = Null

(* The items are the rows but that one. *)
Items(rows, next) == rows \ {next}

(* A request without a page token begins a walk. *)
FirstPage(size) ==
    /\ \E next \in listed \cup {Null} :
          /\ IsNext(Rows(Null, size), size, next)
          /\ returned' = <<Items(Rows(Null, size), next)>>
          /\ token' = next
          /\ cuts' = {next} \ {Null}
    /\ steady' = listed
    /\ UNCHANGED <<listed, changes>>

NextPage(size) ==
    /\ token # Null
    /\ \E next \in listed \cup {Null} :
          /\ IsNext(Rows(token, size), size, next)
          /\ returned' = Append(returned, Items(Rows(token, size), next))
          /\ token' = next
          /\ cuts' = cuts \cup ({next} \ {Null})
    /\ UNCHANGED <<listed, steady, changes>>

(* A video begins to match: it was created or an update changed its status. *)
Appears(v) ==
    /\ v \notin listed
    /\ changes < MaxChanges
    /\ listed' = listed \cup {v}
    /\ changes' = changes + 1
    /\ UNCHANGED <<returned, token, steady, cuts>>

Disappears(v) ==
    /\ v \in listed
    /\ changes < MaxChanges
    /\ listed' = listed \ {v}
    /\ steady' = steady \ {v}
    /\ changes' = changes + 1
    /\ UNCHANGED <<returned, token, cuts>>

Next ==
    \/ \E size \in PageSizes : FirstPage(size) \/ NextPage(size)
    \/ \E v \in Videos : Appears(v) \/ Disappears(v)

Spec == Init /\ [][Next]_vars

-----------------------------------------------------------------------------
(* Properties.                                                             *)

(* Type invariant: every item and cursor is a video, and a page that is not *)
(* the last has items.                                                     *)
TypeOK ==
    /\ listed \subseteq Videos
    /\ returned \in Seq(SUBSET Videos)
    /\ token \in Videos \cup {Null}
    /\ token # Null => returned # <<>> /\ returned[Len(returned)] # {}
    /\ steady \subseteq listed
    /\ cuts \subseteq Videos
    /\ changes \in 0 .. MaxChanges

(* What the client has seen on any page. *)
Seen == UNION Range(returned)

(* A walk goes strictly down, whatever appears or disappears meanwhile and *)
(* whatever page sizes it asks for: no video is returned twice, and every  *)
(* cursor is below all that was returned.                                  *)
WalkGoesDown ==
    /\ \A i, j \in DOMAIN returned : i < j =>
          \A v \in returned[i], x \in returned[j] : v > x
    /\ token # Null => \A v \in Seen : v > token

(* A video that was listed all the time is not passed over, unless it is   *)
(* one that a cursor was made from.                                        *)
PassedVideosAreReturned ==
    \A v \in steady \ cuts, x \in Seen : v > x => v \in Seen

(* A page of the largest size has no room in the query for the row beyond  *)
(* it: the repository falls back to the default limit, and the page is     *)
(* taken for the last although more may match.                             *)
CutShort(size) ==
    /\ ClampPageSize(size) = MaxSize
    /\ Cardinality(returned'[Len(returned')]) = DefaultSize

(* A page without a next token ends the walk only when the client has seen *)
(* every video that was listed all the time, on this page or an earlier    *)
(* one: but those that cursors were made from, and unless it was cut short. *)
EndsWhenNothingIsLeft ==
    [][\A size \in PageSizes :
          (FirstPage(size) \/ NextPage(size)) /\ token' = Null /\ ~CutShort(size) =>
              (steady \ cuts)' \subseteq Seen']_vars

-----------------------------------------------------------------------------
(* What ARCHITECTURE.md says, and the code breaks.                         *)

(* ListMyUploads lists all videos of the user: a walk that has come to its *)
(* end has returned every video that was listed all the time.              *)
WalkIsComplete ==
    token = Null /\ returned # <<>> =>
        steady \subseteq Seen
=============================================================================
