------------------------------ MODULE MCPortal ------------------------------
(***************************************************************************)
(* An instance of Portal for TLC: a deal of broker b1 with both its legs   *)
(* and an open leg of b2, whose trades leave gaps among the ids of b1's.   *)
(* The lists are limited to two rows, which three legs exceed.             *)
(***************************************************************************)
EXTENDS Portal, TLC

CONSTANTS b1, b2, p1, p2, EURUSD, XAUUSD

MCAccounts == <<b1, b2>>

Leg(b, user, deal, symbol, leg, side, price, fee) ==
  [broker |-> b, user |-> user, deal |-> deal, leg |-> leg, symbol |-> symbol, side |-> side,
   qty |-> 2, price |-> price, fee |-> fee]

MCLegs == {Leg(b1, "u1", EURUSD, EURUSD, "OPEN", "BUY", 10, 4),
           Leg(b1, "u1", EURUSD, EURUSD, "CLOSE", "SELL", 13, 0),
           Leg(b1, "u2", XAUUSD, XAUUSD, "OPEN", "SELL", 7, 4),
           Leg(b2, "u3", EURUSD, EURUSD, "OPEN", "BUY", 11, 4)}

(* A leg that is closed under its clientOrderId or under the LP's tradeId. *)
MCNetLegs == {Leg(b1, "u1", EURUSD, EURUSD, "OPEN", "BUY", 10, 4),
              Leg(b1, "u1", EURUSD, EURUSD, "CLOSE", "SELL", 13, 0),
              Leg(b1, "u1", 1, EURUSD, "CLOSE", "SELL", 13, 0)}

MCUsers == {[role |-> "broker_user", broker |-> b1], [role |-> "lp_admin", broker |-> None]}

MCLimit == [trades |-> 2, commissions |-> 1, transactions |-> 3, wallet |-> 2, requests |-> 2,
            abook |-> 3, deposits |-> 2, audit |-> 2, recent |-> 2,
            dashboard |-> 3, recentTrades |-> 1]

MCAmount == [deposit |-> 5, withdrawal |-> 6]

MCFilters == {[from |-> f[1], to |-> f[2], pick |-> f[3]] :
                f \in {<<None, None, {}>>, <<2, None, {}>>, <<None, 2, {}>>,
                       <<None, None, {"BUY", "OPEN"}>>, <<2, 3, {"CLOSE"}>>,
                       <<None, 3, {"debit"}>>, <<None, None, {"u1"}>>,
                       <<None, None, {"PENDING"}>>, <<None, 2, {"deposit.approve"}>>}}

MCPositions == p1 :> 2 @@ p2 :> 1

MCFloating == p1 :> -3 @@ p2 :> 5

MCMaxWrites == [calls |-> 4, tables |-> 3, wallet |-> 3, feed |-> 2]

MCMaxRequests == [calls |-> 1, tables |-> 2, wallet |-> 3, feed |-> 0]
=============================================================================
