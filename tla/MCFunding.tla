----------------------------- MODULE MCFunding ------------------------------
(***************************************************************************)
(* Instances of FundingRequests for TLC: one deposit and two withdrawals   *)
(* that the opening credit covers one at a time, but not both.             *)
(***************************************************************************)
EXTENDS FundingRequests, TLC

CONSTANTS d1, w1, w2

MCAmount == [r \in Requests |-> IF r = d1 THEN 1 ELSE 4]

Symmetric == Permutations(Calls) \cup Permutations(Fills)
=============================================================================
