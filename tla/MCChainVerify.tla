---------------------------- MODULE MCChainVerify ---------------------------
(* An instance of ChainVerify for TLC. *)
EXTENDS ChainVerify, TLC

CONSTANTS T1, T2, T3, B1, B2, Worker, Script

MCTrades == {T1, T2, T3}
MCBrokers == {B1, B2}
MCVerifiers == {Worker, Script}
MCScripts == {Script}

(* 1 and 1.1234, in units of numeric(20,4). *)
MCAmounts == {10000, 11234}

(* Two edits while one broker has all the trades, one edit otherwise; one  *)
(* trade that Money and the database print differently.                    *)
Bound ==
  /\ edits > 1 => Cardinality({w.broker : w \in written}) = 1
  /\ Cardinality({w \in written : Places(w.amount) < SCALE}) <= 1

Symmetry == Permutations(MCTrades) \cup Permutations(MCBrokers)
=============================================================================
