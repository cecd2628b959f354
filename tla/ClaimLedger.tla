------------------------------ MODULE ClaimLedger ------------------------------
(***************************************************************************)
(* What table processed_events promises to the consumers that share it: an *)
(* event is held by at most one of them at a time, and an event that was   *)
(* processed is neither given back nor processed again.                    *)
(*                                                                         *)
(* Abstract: who holds an event, and what processing it means, is not said.*)
(***************************************************************************)
EXTENDS Naturals

CONSTANT Events

VARIABLES held,  \* events with a row in processed_events
          runs   \* runs[e]: how often a handler of e has returned no error

ledgerVars == <<held, runs>>

LedgerInit == held = {} /\ runs = [e \in Events |-> 0]

Claim(e) ==
    /\ e \notin held
    /\ held' = held \cup {e}
    /\ UNCHANGED runs

Finish(e) ==
    /\ e \in held /\ runs[e] = 0
    /\ runs' = [runs EXCEPT ![e] = 1]
    /\ UNCHANGED held

GiveBack(e) ==
    /\ e \in held /\ runs[e] = 0
    /\ held' = held \ {e}
    /\ UNCHANGED runs

LedgerNext == \E e \in Events : Claim(e) \/ Finish(e) \/ GiveBack(e)

LedgerSpec == LedgerInit /\ [][LedgerNext]_ledgerVars
=============================================================================
