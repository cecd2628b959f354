--------------------------- MODULE MCRecoveryBatch ---------------------------
(***************************************************************************)
(* Instances of RecoveryBatch for TLC.                                     *)
(***************************************************************************)
EXTENDS RecoveryBatch, TLC

CONSTANTS p1, p2, g1, g2, e1, e2, e3

Cmd(event, op, gig) == [event |-> event, op |-> op, gig |-> gig]

\* In one partition: a gig is created and edited but lacks the basic info when it is
\* published; a gig that was there gets all and is published, by a command that was
\* produced twice; commands come for a gig that does not exist, or that the service
\* does not know.
MCLogs ==
    {p1 :> log1 : log1 \in
        {<<Cmd(e1, "create", g1), Cmd(e2, "packages", g1), Cmd(e3, "publish", g1)>>,
         <<Cmd(e1, "basicInfo", g2), Cmd(e2, "packages", g2), Cmd(e3, "publish", g2),
           Cmd(e3, "publish", g2)>>,
         <<Cmd(e2, "packages", g1), Cmd(e3, "unsupported", g2)>>}}

\* Two commands in one partition and none in the other.
MCTwoPartitions == {p1 :> <<Cmd(e1, "create", g1), Cmd(e2, "packages", g1)>> @@ p2 :> <<>>}
=============================================================================
