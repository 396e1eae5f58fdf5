---------------------------- MODULE MCEngagement ----------------------------
(* Engagement for TLC: one user likes, unlikes, bookmarks and watches, the  *)
(* other likes and watches, at times that cross; some messages are not for  *)
(* the handler.                                                             *)
EXTENDS Engagement

CONSTANTS u1, u2

E(kind, user, at, on) == [kind |-> kind, user |-> user, at |-> at, on |-> on]

MCHappened ==
    {E("like", u1, 1, TRUE), E("like", u1, 2, FALSE), E("like", u1, 2, TRUE),
     E("bookmark", u1, 1, TRUE), E("watch", u1, 2, TRUE), E("watch", u1, 1, TRUE),
     E("like", u2, 1, TRUE), E("watch", u2, 1, TRUE),
     E("unsupported", u1, 1, TRUE), E("malformed", u1, 1, TRUE)}
=============================================================================
