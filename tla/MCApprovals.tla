---------------------------- MODULE MCApprovals -----------------------------
(***************************************************************************)
(* Instances of ApprovalQueue for TLC: a1 and a2 are over the threshold,   *)
(* a3 is exactly at it.                                                    *)
(***************************************************************************)
EXTENDS ApprovalQueue, TLC

CONSTANTS a1, a2, a3, p, q

MCAmount == a1 :> 3 @@ a2 :> 3 @@ a3 :> 2
MCRequestedBy == a1 :> p @@ a2 :> q @@ a3 :> p
=============================================================================
