----------------------------- MODULE MCProjection -----------------------------
(***************************************************************************)
(* Instance of Projection for TLC.                                         *)
(***************************************************************************)
EXTENDS Projection

CONSTANTS g1, e1, e2, e3

Message(event, version) ==
    [event |-> event, gig |-> g1, version |-> version, readable |-> TRUE]

Unreadable(event, version) ==
    [Message(event, version) EXCEPT !.readable = FALSE]

\* A producer's retry has put an event twice in the log; an envelope is broken.
MCLogs == {<<Message(e1, 1), Message(e2, 2), Message(e1, 1)>>,
           <<Message(e1, 1), Unreadable(e3, 2), Message(e2, 3)>>}

\* Three versions of one gig, in order.
MCOrderedLogs == {<<Message(e1, 1), Message(e2, 2), Message(e3, 3)>>}
=============================================================================
