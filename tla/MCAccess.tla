------------------------------ MODULE MCAccess ------------------------------
(***************************************************************************)
(* An instance of BrokerAccess for TLC: two founders, who are alike, and   *)
(* a third admin they may add.                                             *)
(***************************************************************************)
EXTENDS BrokerAccess, TLC

Symmetric == Permutations(Calls) \cup Permutations(Founders)
=============================================================================
