---------------------------- MODULE MCOrderCounts ----------------------------
(***************************************************************************)
(* Instance of OrderCounts for TLC.                                        *)
(***************************************************************************)
EXTENDS OrderCounts, TLC

CONSTANTS o1, o2

Msg1(event, kind) == [event |-> event, kind |-> kind, attempt |-> 1]

\* Two orders; a message nobody can read and then an order; an event that is not a
\* funded order.
MCLogs == {<<Msg1(o1, "order"), Msg1(o2, "order")>>,
           <<Msg1(o1, "broken"), Msg1(o2, "order")>>,
           <<Msg1(o1, "other")>>}
=============================================================================
