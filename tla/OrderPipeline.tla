--------------------------- MODULE OrderPipeline ---------------------------
(***************************************************************************)
(* The path of an order: POST /orders in the API inserts the row and adds  *)
(* a job to the BullMQ queue "orders"; a worker slot takes the job, loads  *)
(* the order, records the trade, its commission and the ledger debit in    *)
(* one SERIALIZABLE transaction, marks the order FILLED and publishes      *)
(* trade.executed.  API instances and worker slots may die or fail at any  *)
(* await; a job whose lock lapses is delivered again while its first       *)
(* worker may still be running.                                            *)
(*                                                                         *)
(* An order of the model is one accepted request body: its broker, its     *)
(* clientOrderId, its lots and whether it closes a position are constants. *)
(* A delivery <<o, k>> is the k-th time the job of order o is handed out;  *)
(* it records at most one trade, so it also serves as that trade's ULID    *)
(* and, SHA-256 being taken as collision free over contents that hold the  *)
(* ULID, as its hash.                                                      *)
(***************************************************************************)
EXTENDS Naturals, FiniteSets

CONSTANTS
  Orders,            \* request bodies that pass the schema
  Brokers,
  FundedBrokers,     \* brokers that have a wallet from the start
  Workers,           \* concurrently running slots of the orders workers
  BrokerOf,          \* dto.brokerId of each order
  ClientOrderId,     \* dto.clientOrderId of each order
  CloseOrders,       \* orders whose clientOrderId ends in "-C"
  Lots,              \* dto.quantity of each order
  CommissionPerLot,  \* COMMISSION_PER_LOT
  MaxStalled,        \* maxStalledCount of the queue (BullMQ's default is 1)
  MaxFaults,         \* bound: errors, crashes and lapsed locks in a behaviour
  GENESIS,           \* GENESIS_HASH
  NoWorker, NoDelivery

Deliveries == Orders \X (0 .. MaxStalled)

ASSUME OrdersAssumption ==
  /\ BrokerOf \in [Orders -> Brokers]
  /\ CloseOrders \subseteq Orders
  /\ FundedBrokers \subseteq Brokers
  /\ Lots \in [Orders -> Nat]
  /\ CommissionPerLot \in Nat
  /\ MaxStalled \in Nat
  /\ MaxFaults \in Nat

ASSUME DistinctAssumption ==
  /\ GENESIS \notin Deliveries
  /\ NoDelivery \notin Deliveries
  /\ NoWorker \notin Workers

VARIABLES
  api,       \* where OrdersController.place is for each order
  placed,    \* orders with an audit row order.placed
  status,    \* trading.orders.status ("none": no row)
  trades,    \* committed rows of trading.trades
  lastId,    \* the sequence behind trading.trades.id
  charges,   \* committed rows of trading.charges
  wallets,   \* committed rows of ledger.wallets
  debits,    \* committed CHARGE debits of ledger.ledger_entries
  job,       \* BullMQ's state of the order's job
  stalls,    \* how often the job was found stalled
  owner,     \* who holds the job's lock
  pc,        \* where OrderProcessor.process is in each slot
  cur,       \* the delivery the slot is processing
  snap,      \* what the slot's transaction read at its start
  rowId,     \* the id the slot's inserted but uncommitted trade got
  events,    \* deliveries whose trade.executed was published
  faults     \* how many errors, crashes and lapsed locks there were

apiVars == <<api, placed>>
dbVars == <<status, trades, lastId, charges, wallets, debits>>
queueVars == <<job, stalls, owner>>
slotVars == <<pc, cur, snap, rowId>>
vars == <<apiVars, dbVars, queueVars, slotVars, events, faults>>

-----------------------------------------------------------------------------
(* Rows. *)

OrderOf(d) == d[1]

TradeRows == [id : Nat, order : Orders, hash : Deliveries,
              prev : Deliveries \cup {GENESIS}]

WalletRows == [broker : Brokers, by : Deliveries \cup {GENESIS}]

Fees == [trade : Deliveries, amount : Nat]

Debits == [wallet : WalletRows, trade : Deliveries, amount : Nat]

(* SELECT ... FROM trading.trades WHERE broker_id = b *)
RowsOf(b) == {r \in trades : BrokerOf[r.order] = b}

WalletsOf(b) == {x \in wallets : x.broker = b}

(* SELECT hash ... ORDER BY id DESC LIMIT 1, over the rows in S, or else   *)
(* GENESIS_HASH.                                                           *)
MutTailHash(S) ==
  IF S = {} THEN GENESIS ELSE (CHOOSE r \in S : \A q \in S : r.id <= q.id).hash

TailHash(S) ==
  IF S = {} THEN GENESIS ELSE (CHOOSE r \in S : \A q \in S : q.id <= r.id).hash

EmptySnap == [rows |-> {}, wallets |-> {}]

(* commission.isPositive() of an order that opens a position *)
Chargeable(o) == o \notin CloseOrders /\ CommissionPerLot * Lots[o] > 0

-----------------------------------------------------------------------------
(* Every table and the queue are empty, except that the brokers created    *)
(* through the admin console have a wallet.                                *)
Init ==
  /\ api = [o \in Orders |-> "idle"]
  /\ placed = {}
  /\ status = [o \in Orders |-> "none"]
  /\ trades = {}
  /\ lastId = 0
  /\ charges = {}
  /\ wallets = {[broker |-> b, by |-> GENESIS] : b \in FundedBrokers}
  /\ debits = {}
  /\ job = [o \in Orders |-> "none"]
  /\ stalls = [o \in Orders |-> 0]
  /\ owner = [o \in Orders |-> NoWorker]
  /\ pc = [w \in Workers |-> "idle"]
  /\ cur = [w \in Workers |-> NoDelivery]
  /\ snap = [w \in Workers |-> EmptySnap]
  /\ rowId = [w \in Workers |-> 0]
  /\ events = {}
  /\ faults = 0

(* Something that the code does not do by itself goes wrong. *)
Fault ==
  /\ faults < MaxFaults
  /\ faults' = faults + 1

-----------------------------------------------------------------------------
(* OrdersController.place, one action per await. *)

(* The HMAC key of the request belongs to broker auth: a body that names   *)
(* another broker is refused (403) before anything is written; otherwise   *)
(* repo.insert commits a PENDING row.                                      *)
Place(o, auth) ==
  /\ api[o] = "idle"
  /\ \/ /\ auth # BrokerOf[o]
        /\ api' = [api EXCEPT ![o] = "refused"]
        /\ UNCHANGED status
     \/ /\ auth = BrokerOf[o]
        /\ api' = [api EXCEPT ![o] = "inserted"]
        /\ status' = [status EXCEPT ![o] = "PENDING"]
  /\ UNCHANGED <<placed, trades, lastId, charges, wallets, debits,
                 queueVars, slotVars, events, faults>>

(* queue.add: no jobId, no attempts. *)
Enqueue(o) ==
  /\ api[o] = "inserted"
  /\ api' = [api EXCEPT ![o] = "enqueued"]
  /\ job' = [job EXCEPT ![o] = "waiting"]
  /\ UNCHANGED <<placed, dbVars, stalls, owner, slotVars, events, faults>>

(* audit.record, which swallows its errors, and the 202 answer. *)
MutReply(o) ==
  /\ api[o] \in {"inserted", "enqueued"}
  /\ api' = [api EXCEPT ![o] = "accepted"]
  /\ placed' \in {placed, placed \cup {o}}
  /\ UNCHANGED <<dbVars, queueVars, slotVars, events, faults>>

Reply(o) ==
  /\ api[o] = "enqueued"
  /\ api' = [api EXCEPT ![o] = "accepted"]
  /\ placed' \in {placed, placed \cup {o}}
  /\ UNCHANGED <<dbVars, queueVars, slotVars, events, faults>>

(* An await throws (500) or the API process dies: nothing is undone. *)
ApiError(o) ==
  /\ Fault
  /\ api[o] \in {"idle", "inserted", "enqueued"}
  /\ api' = [api EXCEPT ![o] = "error"]
  /\ UNCHANGED <<placed, dbVars, queueVars, slotVars, events>>

-----------------------------------------------------------------------------
(* BullMQ, as the worker uses it. *)

(* A free slot takes a waiting job and locks it. *)
Take(w, o) ==
  /\ pc[w] = "idle"
  /\ job[o] = "waiting"
  /\ job' = [job EXCEPT ![o] = "active"]
  /\ owner' = [owner EXCEPT ![o] = w]
  /\ pc' = [pc EXCEPT ![w] = "loading"]
  /\ cur' = [cur EXCEPT ![w] = <<o, stalls[o]>>]
  /\ UNCHANGED <<apiVars, dbVars, stalls, snap, rowId, events, faults>>

(* The lock of an active job has lapsed: it is handed out again, or given  *)
(* up once it has stalled maxStalledCount times.                           *)
Stalled(o) ==
  /\ owner' = [owner EXCEPT ![o] = NoWorker]
  /\ \/ /\ stalls[o] < MaxStalled
        /\ job' = [job EXCEPT ![o] = "waiting"]
        /\ stalls' = [stalls EXCEPT ![o] = @ + 1]
     \/ /\ stalls[o] = MaxStalled
        /\ job' = [job EXCEPT ![o] = "failed"]
        /\ UNCHANGED stalls

(* The stalled-jobs checker finds a job whose worker died ... *)
RecoverOrphan(o) ==
  /\ job[o] = "active"
  /\ owner[o] = NoWorker
  /\ Stalled(o)
  /\ UNCHANGED <<apiVars, dbVars, slotVars, events, faults>>

(* ... or a job whose worker lives, but could not renew its lock in time   *)
(* (a blocked event loop, a Redis partition) and goes on processing.       *)
LoseLock(o) ==
  /\ Fault
  /\ job[o] = "active"
  /\ owner[o] # NoWorker
  /\ Stalled(o)
  /\ UNCHANGED <<apiVars, dbVars, slotVars, events>>

(* The slot is done with its delivery; BullMQ records the job's outcome    *)
(* only from the holder of its lock.                                       *)
Release(w, outcome) ==
  /\ pc' = [pc EXCEPT ![w] = "idle"]
  /\ cur' = [cur EXCEPT ![w] = NoDelivery]
  /\ snap' = [snap EXCEPT ![w] = EmptySnap]
  /\ rowId' = [rowId EXCEPT ![w] = 0]
  /\ LET o == OrderOf(cur[w]) IN
       \/ /\ owner[o] = w
          /\ job' = [job EXCEPT ![o] = outcome]
          /\ owner' = [owner EXCEPT ![o] = NoWorker]
       \/ /\ owner[o] # w
          /\ UNCHANGED <<job, owner>>
  /\ UNCHANGED stalls

-----------------------------------------------------------------------------
(* OrderProcessor.process, one action per await. *)

(* loadOrder and the test of the status: only a PENDING order goes on. *)
LoadOrder(w) ==
  /\ pc[w] = "loading"
  /\ \/ /\ status[OrderOf(cur[w])] = "PENDING"
        /\ pc' = [pc EXCEPT ![w] = "loaded"]
     \/ /\ status[OrderOf(cur[w])] # "PENDING"
        /\ pc' = [pc EXCEPT ![w] = "returning"]
  /\ UNCHANGED <<apiVars, dbVars, queueVars, cur, snap, rowId, events, faults>>

(* recordFill: BEGIN ISOLATION LEVEL SERIALIZABLE and the read of the tail *)
(* fix the snapshot the whole transaction works on.                        *)
BeginFill(w) ==
  LET b == BrokerOf[OrderOf(cur[w])] IN
  /\ pc[w] = "loaded"
  /\ pc' = [pc EXCEPT ![w] = "read"]
  /\ snap' = [snap EXCEPT ![w] = [rows |-> RowsOf(b), wallets |-> WalletsOf(b)]]
  /\ UNCHANGED <<apiVars, dbVars, queueVars, cur, rowId, events, faults>>

(* INSERT INTO trading.trades: the row gets its id now, from a sequence    *)
(* that no rollback takes back, and is visible to nobody else.             *)
InsertTrade(w) ==
  /\ pc[w] = "read"
  /\ pc' = [pc EXCEPT ![w] = "inserted"]
  /\ lastId' = lastId + 1
  /\ rowId' = [rowId EXCEPT ![w] = lastId + 1]
  /\ UNCHANGED <<apiVars, status, trades, charges, wallets, debits, queueVars,
                 cur, snap, events, faults>>

(* Two overlapping SERIALIZABLE transactions that both read the rows of a  *)
(* broker and both add one cannot both commit: the second to commit would  *)
(* have missed a row of the first.                                         *)
MutSerializable(w) == TRUE

Serializable(w) == snap[w].rows = RowsOf(BrokerOf[OrderOf(cur[w])])

(* The wallet recordFill debits: the broker's first one, or a new one. *)
MutFillWallet(w) == [broker |-> BrokerOf[OrderOf(cur[w])], by |-> cur[w]]

MutNoWallet(w) ==
  IF snap[w].wallets = {}
  THEN [broker |-> BrokerOf[OrderOf(cur[w])], by |-> NoDelivery]
  ELSE CHOOSE x \in snap[w].wallets : TRUE

FillWallet(w) ==
  IF snap[w].wallets = {}
  THEN [broker |-> BrokerOf[OrderOf(cur[w])], by |-> cur[w]]
  ELSE CHOOSE x \in snap[w].wallets : TRUE

(* The charge, the wallet and the ledger entry follow on the insert of the *)
(* trade; COMMIT makes all of them visible at once.                        *)
CommitFill(w) ==
  LET d == cur[w]
      o == OrderOf(d)
      fee == CommissionPerLot * Lots[o]
  IN
  /\ pc[w] = "inserted"
  /\ Serializable(w)
  /\ pc' = [pc EXCEPT ![w] = "recorded"]
  /\ trades' = trades \cup {[id |-> rowId[w], order |-> o, hash |-> d,
                             prev |-> TailHash(snap[w].rows)]}
  /\ \/ /\ Chargeable(o)
        /\ charges' = charges \cup {[trade |-> d, amount |-> fee]}
        /\ wallets' = wallets \cup {FillWallet(w)}
        /\ debits' = debits \cup {[wallet |-> FillWallet(w), trade |-> d,
                                   amount |-> fee]}
     \/ /\ ~Chargeable(o)
        /\ UNCHANGED <<charges, wallets, debits>>
  /\ UNCHANGED <<apiVars, status, lastId, queueVars, cur, snap, rowId, events, faults>>

(* A serialization failure: ROLLBACK, and the error leaves process(). *)
RefuseCommit(w) ==
  /\ pc[w] = "inserted"
  /\ ~Serializable(w)
  /\ Release(w, "failed")
  /\ UNCHANGED <<apiVars, dbVars, events, faults>>

(* UPDATE trading.orders SET status = 'FILLED' WHERE order_id = ... *)
MutMarkFilled(w) ==
  /\ pc[w] \in {"loaded", "recorded"}
  /\ pc' = [pc EXCEPT ![w] = IF pc[w] = "loaded" THEN "loaded" ELSE "marked"]
  /\ status' = [status EXCEPT ![OrderOf(cur[w])] = "FILLED"]
  /\ UNCHANGED <<apiVars, trades, lastId, charges, wallets, debits, queueVars,
                 cur, snap, rowId, events, faults>>

MarkFilled(w) ==
  /\ pc[w] = "recorded"
  /\ pc' = [pc EXCEPT ![w] = "marked"]
  /\ status' = [status EXCEPT ![OrderOf(cur[w])] = "FILLED"]
  /\ UNCHANGED <<apiVars, trades, lastId, charges, wallets, debits, queueVars,
                 cur, snap, rowId, events, faults>>

(* redis.publish('lp.events', trade.executed) *)
MutPublish(w) ==
  /\ pc[w] \in {"recorded", "marked"}
  /\ pc' = [pc EXCEPT ![w] = IF pc[w] = "recorded" THEN "recorded" ELSE "returning"]
  /\ events' = events \cup {cur[w]}
  /\ UNCHANGED <<apiVars, dbVars, queueVars, cur, snap, rowId, faults>>

Publish(w) ==
  /\ pc[w] = "marked"
  /\ pc' = [pc EXCEPT ![w] = "returning"]
  /\ events' = events \cup {cur[w]}
  /\ UNCHANGED <<apiVars, dbVars, queueVars, cur, snap, rowId, faults>>

(* process() returns. *)
Complete(w) ==
  /\ pc[w] = "returning"
  /\ Release(w, "completed")
  /\ UNCHANGED <<apiVars, dbVars, events, faults>>

(* Any await of process() may throw, and a commit may fail for reasons of  *)
(* its own; a COMMIT whose answer is lost is a CommitFill followed by this *)
(* step.  An open transaction is rolled back.  With no attempts set the    *)
(* job is failed for good.                                                 *)
MutThrow(w) ==
  /\ Fault
  /\ pc[w] \in {"loading", "loaded", "read", "inserted", "recorded", "marked"}
  /\ Release(w, "waiting")
  /\ UNCHANGED <<apiVars, dbVars, events>>

MutThrowSwallowed(w) ==
  /\ Fault
  /\ pc[w] \in {"loading", "loaded", "read", "inserted", "recorded", "marked"}
  /\ Release(w, "completed")
  /\ UNCHANGED <<apiVars, dbVars, events>>

Throw(w) ==
  /\ Fault
  /\ pc[w] \in {"loading", "loaded", "read", "inserted", "recorded", "marked"}
  /\ Release(w, "failed")
  /\ UNCHANGED <<apiVars, dbVars, events>>

(* The worker process dies: its locals and its open transaction are gone,  *)
(* its job stays active with nobody left to renew the lock.                *)
Crash(w) ==
  /\ Fault
  /\ pc[w] # "idle"
  /\ pc' = [pc EXCEPT ![w] = "idle"]
  /\ cur' = [cur EXCEPT ![w] = NoDelivery]
  /\ snap' = [snap EXCEPT ![w] = EmptySnap]
  /\ rowId' = [rowId EXCEPT ![w] = 0]
  /\ owner' = [o \in Orders |-> IF owner[o] = w THEN NoWorker ELSE owner[o]]
  /\ UNCHANGED <<apiVars, dbVars, job, stalls, events>>

-----------------------------------------------------------------------------
(* What the code does on its own ... *)
Process(w) ==
  \/ LoadOrder(w) \/ BeginFill(w) \/ InsertTrade(w) \/ CommitFill(w)
  \/ RefuseCommit(w) \/ MarkFilled(w) \/ Publish(w) \/ Complete(w)

(* ... and everything that can happen to it. *)
Next ==
  \/ \E o \in Orders : \/ \E b \in Brokers : Place(o, b)
                       \/ Enqueue(o) \/ Reply(o) \/ ApiError(o)
                       \/ RecoverOrphan(o) \/ LoseLock(o)
                       \/ \E w \in Workers : Take(w, o)
  \/ \E w \in Workers : Process(w) \/ Throw(w) \/ Crash(w)

Spec == Init /\ [][Next]_vars

(* Running slots make progress, the stalled-jobs checker runs              *)
(* periodically and a free slot polls the queue.  Nobody has to place an   *)
(* order, and errors, crashes and lapses are never forced.                 *)
Fairness ==
  /\ \A w \in Workers : WF_vars(Process(w))
  /\ \A o \in Orders : WF_vars(RecoverOrphan(o))
  /\ \A o \in Orders : WF_vars(\E w \in Workers : Take(w, o))

FairSpec == Spec /\ Fairness

-----------------------------------------------------------------------------
(* Properties. *)

TypeOK ==
  /\ api \in [Orders -> {"idle", "refused", "inserted", "enqueued", "accepted",
                         "error"}]
  /\ placed \subseteq Orders
  /\ status \in [Orders -> {"none", "PENDING", "FILLED"}]
  /\ trades \subseteq TradeRows
  /\ lastId \in Nat
  /\ charges \subseteq Fees
  /\ wallets \subseteq WalletRows
  /\ debits \subseteq Debits
  /\ job \in [Orders -> {"none", "waiting", "active", "completed", "failed"}]
  /\ stalls \in [Orders -> 0 .. MaxStalled]
  /\ owner \in [Orders -> Workers \cup {NoWorker}]
  /\ pc \in [Workers -> {"idle", "loading", "loaded", "read", "inserted",
                         "recorded", "marked", "returning"}]
  /\ cur \in [Workers -> Deliveries \cup {NoDelivery}]
  /\ \A w \in Workers : (cur[w] = NoDelivery) <=> (pc[w] = "idle")
  /\ snap \in [Workers -> [rows : SUBSET TradeRows, wallets : SUBSET WalletRows]]
  /\ rowId \in [Workers -> Nat]
  /\ events \subseteq Deliveries
  /\ faults \in 0 .. MaxFaults

(* The chain a verifier walks, in the order of the ids, is unbroken: each  *)
(* row names the hash of the row of its broker with the next lower id.     *)
(* Ids are drawn at the INSERT and rows appear at the COMMIT, so this      *)
(* rests on what SERIALIZABLE refuses (docs/adr/0004: "concurrent inserts  *)
(* for the same broker can't race the chain").                             *)
ChainLinear ==
  \A r \in trades :
    r.prev = TailHash({q \in RowsOf(BrokerOf[r.order]) : q.id < r.id})

(* No row of a broker appears below one that is already there: the         *)
(* verifier and the trade list, which page by id, never miss a late row of *)
(* a broker they have read past.                                           *)
IdsGrow ==
  [][\A r \in trades' \ trades :
       \A q \in RowsOf(BrokerOf[r.order]) : q.id < r.id]_trades

(* recordFill adds trades as the chain of each broker demands, one at its  *)
(* end at a time.                                                          *)
Chain == INSTANCE TradeChain WITH
  Hashes <- Deliveries,
  blocks <- {[broker |-> BrokerOf[r.order], hash |-> r.hash, prev |-> r.prev] :
               r \in trades},
  head <- [b \in Brokers |-> TailHash(RowsOf(b))]

ImplementsTradeChain == Chain!Spec

(* process() is not idempotent, but each delivery of a job records at most *)
(* one trade, and a job is delivered once more only for each stall.        *)
TradesPerDelivery ==
  \A o \in Orders :
    Cardinality({r \in trades : r.order = o}) <= stalls[o] + 1

Commission(o) == IF o \in CloseOrders THEN 0 ELSE CommissionPerLot * Lots[o]

(* Every trade that opens a position, and no other, has one BROKERAGE      *)
(* charge and one CHARGE debit of the same amount, taken from a wallet of  *)
(* the trade's own broker; and fills that overlap or are rolled back never *)
(* give a broker a second wallet.                                          *)
CommissionBooked ==
  /\ \A r \in trades :
       LET fee == Commission(r.order) IN
       fee > 0 =>
         /\ {c \in charges : c.trade = r.hash} = {[trade |-> r.hash, amount |-> fee]}
         /\ \E x \in WalletsOf(BrokerOf[r.order]) :
              {e \in debits : e.trade = r.hash} =
                {[wallet |-> x, trade |-> r.hash, amount |-> fee]}
  /\ \A e \in debits \cup charges :
       \E r \in trades : r.hash = e.trade /\ Commission(r.order) > 0
  /\ \A x, y \in wallets : x.broker = y.broker => x = y

(* An order is FILLED only once a trade of it is committed, whatever died  *)
(* between the two statements.                                             *)
FilledHasTrade ==
  \A o \in Orders : status[o] = "FILLED" => \E r \in trades : r.order = o

(* The queue reports a job completed only when its order is FILLED: no     *)
(* order is left PENDING by a job that nobody would look at again.         *)
CompletedIsFilled ==
  \A o \in Orders : job[o] = "completed" => status[o] = "FILLED"

(* A dashboard that is told of a trade finds it, and the order FILLED.     *)
PublishedIsFilled ==
  \A d \in events :
    /\ \E r \in trades : r.hash = d
    /\ status[OrderOf(d)] = "FILLED"

(* What the queue or the event bus says of an order is true of the tables, *)
(* whichever delivery said it and whichever died in between.               *)
ToldIsFilled == CompletedIsFilled /\ PublishedIsFilled

(* An order answered ACCEPTED or audited as placed has its row and has     *)
(* been handed to the queue.                                               *)
AcceptedIsQueued ==
  \A o \in Orders :
    api[o] = "accepted" \/ o \in placed => status[o] # "none" /\ job[o] # "none"

(* An order answered ACCEPTED does not hang: it is FILLED, or its job ends *)
(* in the failed set (removeOnFail: 5000) where an operator finds it.      *)
AcceptedSettles ==
  \A o \in Orders :
    (api[o] = "accepted") ~> (status[o] = "FILLED" \/ job[o] = "failed")

-----------------------------------------------------------------------------
(* What the documents say and the code does not keep. *)

(* docs/security.md:8: a replayed order is stopped by "idempotency via     *)
(* clientOrderId per broker", so no clientOrderId of a broker is executed  *)
(* twice.  Neither repo.insert nor the table refuses a second order with   *)
(* the same clientOrderId.                                                 *)
ClientOrderFilledOnce ==
  \A q, r \in trades :
    /\ BrokerOf[q.order] = BrokerOf[r.order]
    /\ ClientOrderId[q.order] = ClientOrderId[r.order]
    => q = r

=============================================================================
