------------------------------ MODULE MCOrders ------------------------------
(***************************************************************************)
(* Instances of OrderPipeline for TLC: two orders, of which o2 closes a    *)
(* position where the configuration says so.                               *)
(***************************************************************************)
EXTENDS OrderPipeline, TLC

CONSTANTS o1, o2, b1, b2

\* Both orders of one broker, so that their fills compete for its chain.
SameBroker == o1 :> b1 @@ o2 :> b1

DistinctIds == o1 :> "A" @@ o2 :> "B"
\* The second order repeats the clientOrderId of the first.
RepeatedId == o1 :> "A" @@ o2 :> "A"

MCLots == o1 :> 1 @@ o2 :> 2
=============================================================================
