------------------------ MODULE OrderPipelineProofs ------------------------
(***************************************************************************)
(* Proofs about the order pipeline, for any orders, brokers, worker slots, *)
(* stall limit and number of faults: its types, the chain and what it      *)
(* implements; then how the order's row, its job, its trades and its       *)
(* events keep step with each other, although no transaction and no        *)
(* message covers any two of them, and the books that the fill keeps.      *)
(***************************************************************************)
EXTENDS OrderPipeline, FiniteSetTheorems, TLAPS

-----------------------------------------------------------------------------
(* Types. *)

(* A slot that is at work has a delivery of some order of some broker. *)
LEMMA AtWork ==
  ASSUME TypeOK, NEW w \in Workers, pc[w] # "idle"
  PROVE  /\ cur[w] \in Deliveries
         /\ OrderOf(cur[w]) \in Orders
         /\ BrokerOf[OrderOf(cur[w])] \in Brokers
  BY OrdersAssumption DEF TypeOK, Deliveries, OrderOf

(* What one slot leaves behind when it is done. *)
LEMMA ReleaseType ==
  ASSUME TypeOK, NEW w \in Workers, pc[w] # "idle",
         NEW outcome \in {"completed", "failed"}, Release(w, outcome)
  PROVE  /\ job' \in [Orders -> {"none", "waiting", "active", "completed", "failed"}]
         /\ stalls' = stalls
         /\ owner' \in [Orders -> Workers \cup {NoWorker}]
<1> DEFINE o == OrderOf(cur[w])
<1>1. o \in Orders
  BY AtWork
<1>2. \/ job' = [job EXCEPT ![o] = outcome] /\ owner' = [owner EXCEPT ![o] = NoWorker]
      \/ UNCHANGED <<job, owner>>
  BY DEF Release
<1>3. stalls' = stalls
  BY DEF Release
<1> HIDE DEF o
<1>4. CASE UNCHANGED <<job, owner>>
  BY <1>3, <1>4 DEF TypeOK
<1>5. CASE job' = [job EXCEPT ![o] = outcome] /\ owner' = [owner EXCEPT ![o] = NoWorker]
  BY <1>1, <1>3, <1>5 DEF TypeOK
<1> QED
  BY <1>2, <1>4, <1>5

SlotTypes ==
  /\ pc \in [Workers -> {"idle", "loading", "loaded", "read", "inserted",
                         "recorded", "marked", "returning"}]
  /\ cur \in [Workers -> Deliveries \cup {NoDelivery}]
  /\ \A w \in Workers : (cur[w] = NoDelivery) <=> (pc[w] = "idle")
  /\ snap \in [Workers -> [rows : SUBSET TradeRows, wallets : SUBSET WalletRows]]
  /\ rowId \in [Workers -> Nat]

LEMMA IdleSlotType ==
  ASSUME TypeOK, NEW w \in Workers,
         pc' = [pc EXCEPT ![w] = "idle"],
         cur' = [cur EXCEPT ![w] = NoDelivery],
         snap' = [snap EXCEPT ![w] = EmptySnap],
         rowId' = [rowId EXCEPT ![w] = 0]
  PROVE  SlotTypes'
  BY DEF TypeOK, SlotTypes, EmptySnap

LEMMA FillWalletType ==
  ASSUME TypeOK, NEW w \in Workers, pc[w] # "idle"
  PROVE  FillWallet(w) \in WalletRows
<1>1. snap[w].wallets \subseteq WalletRows
  BY DEF TypeOK
<1>2. [broker |-> BrokerOf[OrderOf(cur[w])], by |-> cur[w]] \in WalletRows
  BY AtWork DEF WalletRows
<1> QED
  BY <1>1, <1>2 DEF FillWallet

-----------------------------------------------------------------------------
(* The chain. *)

(* A set of rows that is empty or has a row with the highest id, as every  *)
(* finite set has: this way ORDER BY id DESC LIMIT 1 has a result.         *)
HasTail(S) == S = {} \/ \E r \in S : \A q \in S : q.id <= r.id

(* Ids are drawn in the order of the sequence, and a transaction draws its *)
(* own after it has read the rows of its broker.                           *)
Numbered ==
  /\ \A r \in trades : r.id <= lastId
  /\ \A b \in Brokers : HasTail(RowsOf(b))
  /\ \A w \in Workers : HasTail(snap[w].rows)
  /\ \A w \in Workers :
       pc[w] \in {"read", "inserted"} => snap[w].rows \subseteq trades
  /\ \A w \in Workers :
       pc[w] = "inserted" => /\ rowId[w] <= lastId
                             /\ \A r \in snap[w].rows : r.id < rowId[w]

FillInv == TypeOK /\ Numbered /\ ChainLinear

(* The hash ORDER BY id DESC LIMIT 1 returns is a hash. *)
LEMMA TailHashType ==
  ASSUME NEW S \in SUBSET TradeRows, HasTail(S)
  PROVE  TailHash(S) \in Deliveries \cup {GENESIS}
<1>1. CASE S = {}
  BY <1>1 DEF TailHash
<1>2. CASE S # {}
  <2> DEFINE t == CHOOSE r \in S : \A q \in S : q.id <= r.id
  <2>1. t \in S
    BY <1>2 DEF HasTail
  <2>2. TailHash(S) = t.hash
    BY <1>2 DEF TailHash
  <2> HIDE DEF t
  <2> QED
    BY <2>1, <2>2 DEF TradeRows
<1> QED
  BY <1>1, <1>2

(* A row above all others is the tail. *)
LEMMA TailHashOfTop ==
  ASSUME NEW S \in SUBSET TradeRows, NEW t \in TradeRows,
         \A q \in S : q.id < t.id
  PROVE  /\ TailHash(S \cup {t}) = t.hash
         /\ HasTail(S \cup {t})
<1> DEFINE T == S \cup {t}
<1>1. \A q \in T : q.id \in Nat
  BY DEF TradeRows
<1>2. \A q \in T : q.id <= t.id
  BY <1>1
<1>3. \A r \in T : (\A q \in T : q.id <= r.id) => r = t
  BY <1>1
<1>4. (CHOOSE r \in T : \A q \in T : q.id <= r.id) = t
  BY <1>2, <1>3
<1> QED
  BY <1>2, <1>4 DEF TailHash, HasTail

(* What a commit does to the trades: the new row is above every row of its *)
(* broker and names the last of them; other brokers see nothing.           *)
LEMMA CommitAppends ==
  ASSUME FillInv, NEW w \in Workers, CommitFill(w),
         NEW d, d = cur[w], NEW b, b = BrokerOf[OrderOf(d)],
         NEW new, new = [id |-> rowId[w], order |-> OrderOf(d), hash |-> d,
                         prev |-> TailHash(RowsOf(b))]
  PROVE  /\ d \in Deliveries
         /\ b \in Brokers
         /\ new \in TradeRows
         /\ trades' = trades \cup {new}
         /\ new.id <= lastId
         /\ \A q \in RowsOf(b) : q.id < new.id
         /\ RowsOf(b)' = RowsOf(b) \cup {new}
         /\ \A c \in Brokers \ {b} : RowsOf(c)' = RowsOf(c)
         /\ TailHash(RowsOf(b)') = d
         /\ HasTail(RowsOf(b)')
<1>1. pc[w] = "inserted" /\ snap[w].rows = RowsOf(b)
  BY DEF CommitFill, Serializable
<1>2. trades' = trades \cup {new}
  BY <1>1 DEF CommitFill
<1>3. b \in Brokers /\ OrderOf(d) \in Orders /\ d \in Deliveries
  BY <1>1, AtWork DEF FillInv
<1>4. RowsOf(b) \in SUBSET TradeRows /\ HasTail(RowsOf(b))
  BY <1>3 DEF RowsOf, FillInv, TypeOK, Numbered
<1>5. new \in TradeRows
  BY <1>3, <1>4, TailHashType DEF TradeRows, FillInv, TypeOK
<1>6. new.id <= lastId /\ \A q \in RowsOf(b) : q.id < new.id
  BY <1>1 DEF FillInv, Numbered
<1>7. BrokerOf[new.order] = b /\ new.hash = d
  OBVIOUS
<1>8. RowsOf(b)' = RowsOf(b) \cup {new}
  BY <1>2, <1>7 DEF RowsOf
<1>9. \A c \in Brokers \ {b} : RowsOf(c)' = RowsOf(c)
  BY <1>2, <1>7 DEF RowsOf
<1>10. TailHash(RowsOf(b) \cup {new}) = new.hash /\ HasTail(RowsOf(b) \cup {new})
  BY <1>4, <1>5, <1>6, TailHashOfTop
<1> QED
  BY <1>2, <1>3, <1>5, <1>6, <1>7, <1>8, <1>9, <1>10

(* Steps that leave the trades and their ids alone and do not move a slot  *)
(* into or along its transaction.                                          *)
LEMMA NumberedFrame ==
  ASSUME FillInv, UNCHANGED <<trades, lastId>>,
         \A v \in Workers : \/ snap'[v] = snap[v] /\ rowId'[v] = rowId[v]
                            \/ snap'[v] = EmptySnap,
         \A v \in Workers : pc'[v] \in {"read", "inserted"}
                              => /\ pc'[v] = pc[v]
                                 /\ snap'[v] = snap[v] /\ rowId'[v] = rowId[v]
  PROVE  Numbered' /\ ChainLinear'
<1>1. \A b \in Brokers : RowsOf(b)' = RowsOf(b)
  BY DEF RowsOf
<1>2. ChainLinear'
  BY DEF ChainLinear, FillInv, RowsOf
<1>3. HasTail({})
  BY DEF HasTail
<1>4. \A v \in Workers : HasTail(snap[v].rows)'
  <2> TAKE v \in Workers
  <2>1. snap'[v].rows = snap[v].rows \/ snap'[v].rows = {}
    BY DEF EmptySnap
  <2> QED
    BY <1>3, <2>1 DEF FillInv, Numbered, HasTail
<1>5. \A b \in Brokers : HasTail(RowsOf(b))'
  BY <1>1 DEF FillInv, Numbered, HasTail
<1> QED
  BY <1>2, <1>4, <1>5 DEF FillInv, Numbered

LEMMA ReleaseFill ==
  ASSUME FillInv, NEW w \in Workers, pc[w] # "idle",
         NEW outcome \in {"completed", "failed"}, Release(w, outcome),
         UNCHANGED <<api, placed, dbVars, events>>, faults' \in 0 .. MaxFaults
  PROVE  FillInv'
<1>1. /\ pc' = [pc EXCEPT ![w] = "idle"]
      /\ cur' = [cur EXCEPT ![w] = NoDelivery]
      /\ snap' = [snap EXCEPT ![w] = EmptySnap]
      /\ rowId' = [rowId EXCEPT ![w] = 0]
  BY DEF Release
<1>2. SlotTypes'
  BY <1>1, IdleSlotType DEF FillInv
<1>3. TypeOK'
  BY <1>2, ReleaseType DEF FillInv, TypeOK, SlotTypes, dbVars
<1>4. Numbered' /\ ChainLinear'
  <2>1. UNCHANGED <<trades, lastId>>
    BY DEF dbVars
  <2>2. \A v \in Workers :
          IF v = w THEN snap'[v] = EmptySnap /\ pc'[v] = "idle"
          ELSE snap'[v] = snap[v] /\ rowId'[v] = rowId[v] /\ pc'[v] = pc[v]
    BY <1>1 DEF FillInv, TypeOK
  <2>3. \A v \in Workers : \/ snap'[v] = snap[v] /\ rowId'[v] = rowId[v]
                           \/ snap'[v] = EmptySnap
    BY <2>2
  <2>4. \A v \in Workers : pc'[v] \in {"read", "inserted"}
                           => /\ pc'[v] = pc[v]
                              /\ snap'[v] = snap[v] /\ rowId'[v] = rowId[v]
    BY <2>2
  <2> QED
    BY <2>1, <2>3, <2>4, NumberedFrame
<1> QED
  BY <1>3, <1>4 DEF FillInv

LEMMA FaultType ==
  ASSUME TypeOK, Fault
  PROVE  faults' \in 0 .. MaxFaults
  BY OrdersAssumption DEF TypeOK, Fault

(* The API and the queue do not touch the slots' transactions. *)
LEMMA ApiFill ==
  ASSUME FillInv, NEW o \in Orders,
         \/ \E b \in Brokers : Place(o, b)
         \/ Enqueue(o) \/ Reply(o) \/ ApiError(o)
         \/ RecoverOrphan(o) \/ LoseLock(o)
  PROVE  FillInv'
<1>1. UNCHANGED <<slotVars, trades, lastId>>
  BY DEF Place, Enqueue, Reply, ApiError, RecoverOrphan, LoseLock, dbVars
<1>2. Numbered' /\ ChainLinear'
  BY <1>1, NumberedFrame DEF slotVars
<1>3. TypeOK'
  <2> USE DEF FillInv, TypeOK, apiVars, dbVars, queueVars, slotVars
  <2>1. ASSUME NEW b \in Brokers, Place(o, b) PROVE TypeOK'
    BY <2>1 DEF Place
  <2>2. CASE Enqueue(o)
    BY <2>2 DEF Enqueue
  <2>3. CASE Reply(o)
    BY <2>3 DEF Reply
  <2>4. CASE ApiError(o)
    BY <2>4, FaultType DEF ApiError
  <2>5. ASSUME Stalled(o)
        PROVE  /\ job' \in [Orders -> {"none", "waiting", "active", "completed",
                                       "failed"}]
               /\ stalls' \in [Orders -> 0 .. MaxStalled]
               /\ owner' \in [Orders -> Workers \cup {NoWorker}]
    <3>1. owner' = [owner EXCEPT ![o] = NoWorker]
      BY <2>5 DEF Stalled
    <3>2. PICK j \in {"waiting", "failed"} : job' = [job EXCEPT ![o] = j]
      BY <2>5 DEF Stalled
    <3>3. PICK n \in 0 .. MaxStalled : stalls' = [stalls EXCEPT ![o] = n]
      <4>1. stalls[o] \in 0 .. MaxStalled /\ stalls = [stalls EXCEPT ![o] = stalls[o]]
        OBVIOUS
      <4>2. stalls[o] < MaxStalled => stalls[o] + 1 \in 0 .. MaxStalled
        BY <4>1, OrdersAssumption
      <4>3. \/ stalls[o] < MaxStalled /\ stalls' = [stalls EXCEPT ![o] = stalls[o] + 1]
            \/ stalls' = stalls
        BY <2>5 DEF Stalled
      <4> QED
        BY <4>1, <4>2, <4>3
    <3> QED
      BY <3>1, <3>2, <3>3
  <2>6. CASE RecoverOrphan(o)
    BY <2>5, <2>6 DEF RecoverOrphan
  <2>7. CASE LoseLock(o)
    BY <2>5, <2>7, FaultType DEF LoseLock
  <2> QED
    BY <2>1, <2>2, <2>3, <2>4, <2>6, <2>7
<1> QED
  BY <1>2, <1>3 DEF FillInv

(* A step of a slot that moves it past or before its transaction and       *)
(* leaves its transaction's state alone.                                   *)
LEMMA MoveFill ==
  ASSUME FillInv, NEW w \in Workers, UNCHANGED <<trades, lastId, snap, rowId>>,
         NEW p, p \notin {"read", "inserted"}, pc' = [pc EXCEPT ![w] = p]
  PROVE  Numbered' /\ ChainLinear'
<1>1. \A v \in Workers : pc'[v] \in {"read", "inserted"} => pc'[v] = pc[v]
  BY DEF FillInv, TypeOK
<1> QED
  BY <1>1, NumberedFrame

LEMMA BeginFillFill ==
  ASSUME FillInv, NEW w \in Workers, BeginFill(w)
  PROVE  FillInv'
<1> DEFINE b == BrokerOf[OrderOf(cur[w])]
           s == [rows |-> RowsOf(b), wallets |-> WalletsOf(b)]
<1>1. b \in Brokers
  BY AtWork DEF BeginFill, FillInv
<1>2. /\ pc' = [pc EXCEPT ![w] = "read"]
      /\ snap' = [snap EXCEPT ![w] = s]
      /\ UNCHANGED <<trades, lastId, cur, rowId>>
  BY DEF BeginFill, dbVars
<1>3. s.rows \subseteq trades /\ s.wallets \subseteq wallets
  BY DEF RowsOf, WalletsOf
<1>4. s \in [rows : SUBSET TradeRows, wallets : SUBSET WalletRows]
  BY <1>3 DEF FillInv, TypeOK
<1>5. HasTail(s.rows)
  BY <1>1 DEF FillInv, Numbered
<1> HIDE DEF s, b
<1>6. TypeOK'
  BY <1>2, <1>4 DEF BeginFill, FillInv, TypeOK, apiVars, dbVars, queueVars
<1>7. \A v \in Workers : /\ v = w => pc'[v] = "read" /\ snap'[v] = s
                         /\ v # w => pc'[v] = pc[v] /\ snap'[v] = snap[v]
  BY <1>2 DEF FillInv, TypeOK
<1>8. Numbered'
  <2>1. \A c \in Brokers : RowsOf(c)' = RowsOf(c)
    BY <1>2 DEF RowsOf
  <2>2. \A c \in Brokers : HasTail(RowsOf(c))'
    BY <2>1 DEF FillInv, Numbered, HasTail
  <2>3. \A v \in Workers : HasTail(snap[v].rows)'
    BY <1>5, <1>7 DEF FillInv, Numbered, HasTail
  <2> QED
    BY <1>2, <1>3, <1>7, <2>2, <2>3 DEF FillInv, Numbered
<1>9. ChainLinear'
  BY <1>2 DEF ChainLinear, FillInv, RowsOf
<1> QED
  BY <1>6, <1>8, <1>9 DEF FillInv

(* The id drawn is above every row the transaction has read. *)
LEMMA InsertTradeFill ==
  ASSUME FillInv, NEW w \in Workers, InsertTrade(w)
  PROVE  FillInv'
<1>1. /\ pc[w] = "read"
      /\ pc' = [pc EXCEPT ![w] = "inserted"]
      /\ lastId' = lastId + 1
      /\ rowId' = [rowId EXCEPT ![w] = lastId + 1]
      /\ UNCHANGED <<trades, snap, cur>>
  BY DEF InsertTrade
<1>2. TypeOK'
  BY <1>1 DEF InsertTrade, FillInv, TypeOK, apiVars, queueVars
<1>3. \A v \in Workers : /\ v = w => pc'[v] = "inserted" /\ rowId'[v] = lastId + 1
                         /\ v # w => pc'[v] = pc[v] /\ rowId'[v] = rowId[v]
  BY <1>1 DEF FillInv, TypeOK
<1>4. \A r \in TradeRows : r.id \in Nat
  BY DEF TradeRows
<1>5. lastId \in Nat /\ \A r \in trades : r.id \in Nat /\ r.id <= lastId
  BY <1>4 DEF FillInv, TypeOK, Numbered
<1>6. Numbered'
  <2>1. \A c \in Brokers : RowsOf(c)' = RowsOf(c)
    BY <1>1 DEF RowsOf
  <2>2. /\ \A c \in Brokers : HasTail(RowsOf(c))'
        /\ \A v \in Workers : HasTail(snap[v].rows)'
    BY <1>1, <2>1 DEF FillInv, Numbered, HasTail
  <2>3. (\A r \in trades : r.id <= lastId)'
    BY <1>1, <1>5
  <2>4. ASSUME NEW v \in Workers, pc'[v] \in {"read", "inserted"}
        PROVE  snap'[v].rows \subseteq trades'
    BY <1>1, <1>3, <2>4 DEF FillInv, Numbered
  <2>5. ASSUME NEW v \in Workers, pc'[v] = "inserted"
        PROVE  rowId'[v] <= lastId' /\ \A r \in snap'[v].rows : r.id < rowId'[v]
    <3>1. CASE v = w
      <4>1. snap[v].rows \subseteq trades
        BY <1>1, <3>1 DEF FillInv, Numbered
      <4> QED
        BY <1>1, <1>3, <1>5, <3>1, <4>1
    <3>2. CASE v # w
      <4>1. rowId[v] <= lastId /\ rowId[v] \in Nat
        BY <1>3, <2>5, <3>2 DEF FillInv, Numbered, TypeOK
      <4> QED
        BY <1>1, <1>3, <1>5, <2>5, <3>2, <4>1 DEF FillInv, Numbered
    <3> QED
      BY <3>1, <3>2
  <2> QED
    BY <2>2, <2>3, <2>4, <2>5 DEF Numbered
<1>7. ChainLinear'
  BY <1>1 DEF ChainLinear, FillInv, RowsOf
<1> QED
  BY <1>2, <1>6, <1>7 DEF FillInv

(* The commit of a fill extends the chain of its broker at its end: this   *)
(* is the step SERIALIZABLE is there for.                                  *)
LEMMA CommitFillFill ==
  ASSUME FillInv, NEW w \in Workers, CommitFill(w)
  PROVE  FillInv'
<1>1. PICK d, b, new :
        /\ d = cur[w]
        /\ b = BrokerOf[OrderOf(d)]
        /\ new = [id |-> rowId[w], order |-> OrderOf(d), hash |-> d,
                  prev |-> TailHash(RowsOf(b))]
  OBVIOUS
<1>2. /\ d \in Deliveries /\ b \in Brokers
      /\ new \in TradeRows
      /\ trades' = trades \cup {new}
      /\ new.id <= lastId
      /\ \A q \in RowsOf(b) : q.id < new.id
      /\ RowsOf(b)' = RowsOf(b) \cup {new}
      /\ \A c \in Brokers \ {b} : RowsOf(c)' = RowsOf(c)
      /\ HasTail(RowsOf(b)')
  BY <1>1, CommitAppends
<1>3. /\ pc[w] = "inserted"
      /\ pc' = [pc EXCEPT ![w] = "recorded"]
      /\ UNCHANGED <<lastId, cur, snap, rowId>>
  BY DEF CommitFill
<1>4. TypeOK'
  <2>1. FillWallet(w) \in WalletRows
    BY <1>3, FillWalletType DEF FillInv
  <2>2. CommissionPerLot * Lots[OrderOf(d)] \in Nat
    BY <1>1, <1>3, AtWork, OrdersAssumption DEF FillInv
  <2>3. charges' \subseteq Fees /\ wallets' \subseteq WalletRows /\ debits' \subseteq Debits
    <3>1. /\ charges' \subseteq charges \cup
               {[trade |-> d, amount |-> CommissionPerLot * Lots[OrderOf(d)]]}
          /\ wallets' \subseteq wallets \cup {FillWallet(w)}
          /\ debits' \subseteq debits \cup
               {[wallet |-> FillWallet(w), trade |-> d,
                 amount |-> CommissionPerLot * Lots[OrderOf(d)]]}
      BY <1>1 DEF CommitFill
    <3> QED
      BY <1>2, <2>1, <2>2, <3>1 DEF FillInv, TypeOK, Fees, Debits
  <2> QED
    BY <1>2, <1>3, <2>3 DEF CommitFill, FillInv, TypeOK, apiVars, queueVars
<1>5. \A v \in Workers : pc'[v] \in {"read", "inserted"} => pc'[v] = pc[v]
  BY <1>3 DEF FillInv, TypeOK
<1>6. Numbered'
  <2>1. (\A r \in trades : r.id <= lastId)'
    BY <1>2, <1>3 DEF FillInv, Numbered
  <2>2. ASSUME NEW c \in Brokers PROVE HasTail(RowsOf(c))'
    <3>1. CASE c = b
      BY <1>2, <3>1 DEF HasTail
    <3>2. CASE c # b
      BY <1>2, <3>2 DEF HasTail, FillInv, Numbered
    <3> QED
      BY <3>1, <3>2
  <2>3. \A v \in Workers : HasTail(snap[v].rows)'
    BY <1>3 DEF FillInv, Numbered, HasTail
  <2>4. \A v \in Workers :
          pc'[v] \in {"read", "inserted"} => snap'[v].rows \subseteq trades'
    BY <1>2, <1>3, <1>5 DEF FillInv, Numbered
  <2>5. \A v \in Workers :
          pc'[v] = "inserted" => /\ rowId'[v] <= lastId'
                                 /\ \A r \in snap'[v].rows : r.id < rowId'[v]
    BY <1>3, <1>5 DEF FillInv, Numbered
  <2> QED
    BY <2>1, <2>2, <2>3, <2>4, <2>5 DEF Numbered
<1>7. ChainLinear'
  <2> SUFFICES ASSUME NEW r \in trades', NEW c, c = BrokerOf[r.order]
               PROVE  r.prev = TailHash({q \in RowsOf(c)' : q.id < r.id})
    BY DEF ChainLinear, TailHash
  <2>1. c \in Brokers /\ r.id \in Nat
    BY <1>2, OrdersAssumption DEF FillInv, TypeOK, TradeRows
  <2>2. CASE r = new
    <3>1. c = b /\ r.prev = TailHash(RowsOf(b)) /\ r.id = new.id
      BY <1>1, <2>2
    <3>2. {q \in RowsOf(b)' : q.id < new.id} = RowsOf(b)
      BY <1>2, <2>1, <3>1
    <3> QED
      BY <3>1, <3>2
  <2>3. CASE r # new
    <3>1. r \in trades
      BY <1>2, <2>3
    <3>2. r.prev = TailHash({q \in RowsOf(c) : q.id < r.id})
      BY <3>1 DEF FillInv, ChainLinear
    <3>3. CASE c # b
      BY <1>2, <2>1, <3>2, <3>3
    <3>4. CASE c = b
      <4>1. r \in RowsOf(b)
        BY <3>1, <3>4 DEF RowsOf
      <4>2. new.id \in Nat /\ r.id < new.id
        BY <1>2, <4>1 DEF TradeRows
      <4>3. {q \in RowsOf(b)' : q.id < r.id} = {q \in RowsOf(b) : q.id < r.id}
        BY <1>2, <2>1, <4>2
      <4> QED
        BY <3>2, <3>4, <4>3
    <3> QED
      BY <3>3, <3>4
  <2> QED
    BY <2>2, <2>3
<1> QED
  BY <1>4, <1>6, <1>7 DEF FillInv

LEMMA CrashFill ==
  ASSUME FillInv, NEW w \in Workers, Crash(w)
  PROVE  FillInv'
<1>1. /\ pc' = [pc EXCEPT ![w] = "idle"]
      /\ cur' = [cur EXCEPT ![w] = NoDelivery]
      /\ snap' = [snap EXCEPT ![w] = EmptySnap]
      /\ rowId' = [rowId EXCEPT ![w] = 0]
      /\ UNCHANGED <<trades, lastId>>
  BY DEF Crash, dbVars
<1>2. SlotTypes'
  BY <1>1, IdleSlotType DEF FillInv
<1>3. TypeOK'
  BY <1>2, FaultType DEF Crash, FillInv, TypeOK, SlotTypes, apiVars, dbVars
<1>4. \A v \in Workers :
        IF v = w THEN snap'[v] = EmptySnap /\ pc'[v] = "idle"
        ELSE snap'[v] = snap[v] /\ rowId'[v] = rowId[v] /\ pc'[v] = pc[v]
  BY <1>1 DEF FillInv, TypeOK
<1>5. Numbered' /\ ChainLinear'
  <2>1. \A v \in Workers : \/ snap'[v] = snap[v] /\ rowId'[v] = rowId[v]
                           \/ snap'[v] = EmptySnap
    BY <1>4
  <2>2. \A v \in Workers : pc'[v] \in {"read", "inserted"}
                           => /\ pc'[v] = pc[v]
                              /\ snap'[v] = snap[v] /\ rowId'[v] = rowId[v]
    BY <1>4
  <2> QED
    BY <1>1, <2>1, <2>2, NumberedFrame
<1> QED
  BY <1>3, <1>5 DEF FillInv

LEMMA TakeFill ==
  ASSUME FillInv, NEW w \in Workers, NEW o \in Orders, Take(w, o)
  PROVE  FillInv'
<1>1. TypeOK'
  <2>1. <<o, stalls[o]>> \in Deliveries
    BY DEF FillInv, TypeOK, Deliveries
  <2> QED
    BY <2>1, DistinctAssumption DEF Take, FillInv, TypeOK, apiVars, dbVars
<1>2. Numbered' /\ ChainLinear'
  BY MoveFill DEF Take, dbVars
<1> QED
  BY <1>1, <1>2 DEF FillInv

LEMMA ProcessFill ==
  ASSUME FillInv, NEW w \in Workers, Process(w)
  PROVE  FillInv'
<1>1. CASE LoadOrder(w)
  <2>1. TypeOK'
    BY <1>1 DEF LoadOrder, FillInv, TypeOK, apiVars, dbVars, queueVars
  <2>2. Numbered' /\ ChainLinear'
    BY <1>1, MoveFill DEF LoadOrder, dbVars
  <2> QED
    BY <2>1, <2>2 DEF FillInv
<1>2. CASE MarkFilled(w)
  <2>1. TypeOK'
    BY <1>2, AtWork DEF MarkFilled, FillInv, TypeOK, apiVars, queueVars
  <2>2. Numbered' /\ ChainLinear'
    BY <1>2, MoveFill DEF MarkFilled
  <2> QED
    BY <2>1, <2>2 DEF FillInv
<1>3. CASE Publish(w)
  <2>1. TypeOK'
    BY <1>3, AtWork DEF Publish, FillInv, TypeOK, apiVars, dbVars, queueVars
  <2>2. Numbered' /\ ChainLinear'
    BY <1>3, MoveFill DEF Publish, dbVars
  <2> QED
    BY <2>1, <2>2 DEF FillInv
<1>4. faults \in 0 .. MaxFaults
  BY DEF FillInv, TypeOK
<1>5. CASE RefuseCommit(w)
  BY <1>4, <1>5, ReleaseFill DEF RefuseCommit, apiVars
<1>6. CASE Complete(w)
  BY <1>4, <1>6, ReleaseFill DEF Complete, apiVars
<1> QED
  BY <1>1, <1>2, <1>3, <1>5, <1>6, BeginFillFill, InsertTradeFill, CommitFillFill
     DEF Process

LEMMA InitFill == Init => FillInv
<1> SUFFICES ASSUME Init PROVE FillInv
  OBVIOUS
<1>1. TypeOK
  BY OrdersAssumption DEF Init, TypeOK, EmptySnap, WalletRows
<1>2. Numbered
  BY DEF Init, Numbered, HasTail, RowsOf, EmptySnap
<1>3. ChainLinear
  BY DEF Init, ChainLinear
<1> QED
  BY <1>1, <1>2, <1>3 DEF FillInv

LEMMA NextFill == FillInv /\ [Next]_vars => FillInv'
<1> SUFFICES ASSUME FillInv, [Next]_vars PROVE FillInv'
  OBVIOUS
<1>1. CASE UNCHANGED vars
  BY <1>1 DEF vars, apiVars, dbVars, queueVars, slotVars, FillInv, TypeOK, Numbered,
              ChainLinear, HasTail, RowsOf
<1>2. ASSUME NEW w \in Workers, Throw(w) PROVE FillInv'
  BY <1>2, FaultType, ReleaseFill DEF Throw, apiVars, FillInv
<1> QED
  BY <1>1, <1>2, ApiFill, TakeFill, ProcessFill, CrashFill DEF Next

(* Every variable keeps its type, ids and hashes included, in every        *)
(* interleaving of API calls, worker slots, stalls and crashes.            *)
THEOREM OrdersTypeCorrect == Spec => []TypeOK
  BY InitFill, NextFill, PTL DEF Spec, FillInv

(* The chain of every broker is unbroken in the order of the ids: what     *)
(* recordFill reads, hashes and inserts at SERIALIZABLE cannot be raced by *)
(* another worker, a redelivery of the same job or a crash.                *)
THEOREM ChainStaysLinear == Spec => []ChainLinear
  BY InitFill, NextFill, PTL DEF Spec, FillInv

(* Only a commit touches the trades. *)
LEMMA TradesChange ==
  ASSUME [Next]_vars
  PROVE  UNCHANGED trades \/ \E w \in Workers : CommitFill(w)
  BY DEF Next, vars, Process, Place, Enqueue, Reply, ApiError, RecoverOrphan,
         LoseLock, Take, LoadOrder, BeginFill, InsertTrade, RefuseCommit,
         MarkFilled, Publish, Complete, Throw, Crash, dbVars

(* A row of a broker never appears below one that is already there, so     *)
(* that paging through a broker's trades by id misses none.                *)
THEOREM IdsOnlyGrow == Spec => IdsGrow
<1> DEFINE Above == \A r \in trades' \ trades :
                      \A q \in RowsOf(BrokerOf[r.order]) : q.id < r.id
<1>1. FillInv /\ [Next]_vars => [Above]_trades
  <2> SUFFICES ASSUME FillInv, [Next]_vars, NEW w \in Workers, CommitFill(w)
               PROVE  Above
    BY TradesChange
  <2>1. PICK d, b, new :
          /\ d = cur[w]
          /\ b = BrokerOf[OrderOf(d)]
          /\ new = [id |-> rowId[w], order |-> OrderOf(d), hash |-> d,
                    prev |-> TailHash(RowsOf(b))]
    OBVIOUS
  <2>2. trades' = trades \cup {new} /\ \A q \in RowsOf(b) : q.id < new.id
    BY <2>1, CommitAppends
  <2> QED
    BY <2>1, <2>2
<1> QED
  BY <1>1, InitFill, NextFill, PTL DEF Spec, IdsGrow

-----------------------------------------------------------------------------
(* Deliveries: each is made once, and records at most one trade. *)

(* The delivery has been made: the job has stalled since, or is not        *)
(* waiting for it.                                                         *)
Handed(d) ==
  \/ d[2] < stalls[d[1]]
  \/ d[2] = stalls[d[1]] /\ job[d[1]] \in {"active", "completed", "failed"}

QueueInv ==
  /\ \A o \in Orders : api[o] \in {"idle", "inserted"} => job[o] = "none"
  /\ \A o \in Orders : owner[o] # NoWorker => job[o] = "active"

DeliveryInv ==
  /\ \A w \in Workers : pc[w] # "idle" => Handed(cur[w])
  /\ \A r \in trades : Handed(r.hash) /\ OrderOf(r.hash) = r.order
  /\ \A v, w \in Workers : pc[v] # "idle" /\ cur[v] = cur[w] => v = w
  /\ \A w \in Workers : pc[w] \in {"loading", "loaded", "read", "inserted"}
                         => \A r \in trades : r.hash # cur[w]
  /\ \A q, r \in trades : q.hash = r.hash => q = r

OnceInv == FillInv /\ QueueInv /\ DeliveryInv

(* Deliveries stay made when the queue only moves forward. *)
LEMMA HandedStays ==
  ASSUME TypeOK, NEW o \in Orders,
         \A p \in Orders \ {o} : job'[p] = job[p] /\ stalls'[p] = stalls[p],
         \/ stalls'[o] = stalls[o] /\ job'[o] = job[o]
         \/ stalls'[o] = stalls[o] /\ job'[o] \in {"active", "completed", "failed"}
         \/ stalls'[o] = stalls[o] + 1
         \/ stalls'[o] = stalls[o] /\ job[o] \notin {"active", "completed", "failed"}
  PROVE  \A d \in Deliveries : Handed(d) => Handed(d)'
<1> SUFFICES ASSUME NEW d \in Deliveries, Handed(d) PROVE Handed(d)'
  OBVIOUS
<1>1. d[1] \in Orders /\ d[2] \in Nat /\ stalls[d[1]] \in Nat
  BY OrdersAssumption DEF Deliveries, TypeOK
<1> QED
  BY <1>1 DEF Handed

(* A step of the queue that leaves the slots and the trades alone. *)
LEMMA DeliveryFrame ==
  ASSUME OnceInv, \A d \in Deliveries : Handed(d) => Handed(d)',
         UNCHANGED <<trades, cur>>,
         NEW w \in Workers, pc[w] # "idle",
         NEW p \in {"loading", "loaded", "read", "inserted", "recorded", "marked",
                    "returning"},
         p \in {"loading", "loaded", "read", "inserted"}
           => pc[w] \in {"loading", "loaded", "read", "inserted"},
         pc' = [pc EXCEPT ![w] = p]
  PROVE  DeliveryInv'
<1>1. \A v \in Workers : /\ pc'[v] # "idle" => pc[v] # "idle" /\ cur[v] \in Deliveries
                         /\ pc'[v] \in {"loading", "loaded", "read", "inserted"}
                            => pc[v] \in {"loading", "loaded", "read", "inserted"}
  BY AtWork DEF OnceInv, FillInv, TypeOK
<1>2. \A r \in trades : r.hash \in Deliveries
  BY DEF OnceInv, FillInv, TypeOK, TradeRows
<1> QED
  BY <1>1, <1>2 DEF OnceInv, DeliveryInv

LEMMA DeliveryKept ==
  ASSUME OnceInv, \A d \in Deliveries : Handed(d) => Handed(d)',
         UNCHANGED <<trades, cur, pc>>
  PROVE  DeliveryInv'
<1>1. \A v \in Workers : pc[v] # "idle" => cur[v] \in Deliveries
  BY AtWork DEF OnceInv, FillInv
<1>2. \A r \in trades : r.hash \in Deliveries
  BY DEF OnceInv, FillInv, TypeOK, TradeRows
<1> QED
  BY <1>1, <1>2 DEF OnceInv, DeliveryInv

(* A slot that becomes idle takes nothing with it. *)
LEMMA DeliveryIdle ==
  ASSUME OnceInv, \A d \in Deliveries : Handed(d) => Handed(d)',
         UNCHANGED trades, NEW w \in Workers,
         pc' = [pc EXCEPT ![w] = "idle"], cur' = [cur EXCEPT ![w] = NoDelivery]
  PROVE  DeliveryInv'
<1>1. \A v \in Workers :
        IF v = w THEN pc'[v] = "idle" /\ cur'[v] = NoDelivery
        ELSE pc'[v] = pc[v] /\ cur'[v] = cur[v]
  BY DEF OnceInv, FillInv, TypeOK
<1>2. \A v \in Workers : pc[v] # "idle" => cur[v] \in Deliveries
  BY AtWork DEF OnceInv, FillInv
<1>3. \A r \in trades : r.hash \in Deliveries
  BY DEF OnceInv, FillInv, TypeOK, TradeRows
<1> QED
  BY <1>1, <1>2, <1>3, DistinctAssumption DEF OnceInv, DeliveryInv

LEMMA ReleaseOnce ==
  ASSUME OnceInv, NEW w \in Workers, pc[w] # "idle",
         NEW outcome \in {"completed", "failed"}, Release(w, outcome),
         UNCHANGED <<api, trades>>
  PROVE  QueueInv' /\ DeliveryInv'
<1> DEFINE o == OrderOf(cur[w])
<1>1. o \in Orders
  BY AtWork DEF OnceInv, FillInv
<1>2. /\ pc' = [pc EXCEPT ![w] = "idle"]
      /\ cur' = [cur EXCEPT ![w] = NoDelivery]
      /\ stalls' = stalls
  BY DEF Release
<1>3. \/ /\ owner[o] = w
         /\ job' = [job EXCEPT ![o] = outcome]
         /\ owner' = [owner EXCEPT ![o] = NoWorker]
      \/ UNCHANGED <<job, owner>>
  BY DEF Release
<1>4. QueueInv'
  <2>1. CASE UNCHANGED <<job, owner>>
    BY <2>1 DEF OnceInv, QueueInv
  <2>2. CASE /\ owner[o] = w
             /\ job' = [job EXCEPT ![o] = outcome]
             /\ owner' = [owner EXCEPT ![o] = NoWorker]
    <3>1. owner[o] # NoWorker
      BY <2>2, DistinctAssumption
    <3>2. job[o] = "active" /\ api[o] \notin {"idle", "inserted"}
      BY <1>1, <3>1 DEF OnceInv, QueueInv
    <3> HIDE DEF o
    <3>3. \A p \in Orders : IF p = o THEN job'[p] = outcome /\ owner'[p] = NoWorker
                             ELSE job'[p] = job[p] /\ owner'[p] = owner[p]
      BY <1>1, <2>2 DEF OnceInv, FillInv, TypeOK
    <3> QED
      BY <3>2, <3>3 DEF OnceInv, QueueInv
  <2> QED
    BY <1>3, <2>1, <2>2
<1>5. \A d \in Deliveries : Handed(d) => Handed(d)'
  <2> HIDE DEF o
  <2>1. \A p \in Orders \ {o} : job'[p] = job[p] /\ stalls'[p] = stalls[p]
    BY <1>1, <1>2, <1>3 DEF OnceInv, FillInv, TypeOK
  <2>2. \/ stalls'[o] = stalls[o] /\ job'[o] = job[o]
        \/ stalls'[o] = stalls[o] /\ job'[o] \in {"active", "completed", "failed"}
    BY <1>1, <1>2, <1>3 DEF OnceInv, FillInv, TypeOK
  <2> QED
    BY <1>1, <2>1, <2>2, HandedStays DEF OnceInv, FillInv
<1> QED
  BY <1>2, <1>4, <1>5, DeliveryIdle

LEMMA CrashOnce ==
  ASSUME OnceInv, NEW w \in Workers, Crash(w)
  PROVE  QueueInv' /\ DeliveryInv'
<1>1. /\ pc' = [pc EXCEPT ![w] = "idle"]
      /\ cur' = [cur EXCEPT ![w] = NoDelivery]
      /\ owner' = [o \in Orders |-> IF owner[o] = w THEN NoWorker ELSE owner[o]]
      /\ UNCHANGED <<api, trades, job, stalls>>
  BY DEF Crash, apiVars, dbVars
<1>2. \A d \in Deliveries : Handed(d) => Handed(d)'
  BY <1>1 DEF Handed
<1>3. QueueInv'
  BY <1>1 DEF OnceInv, QueueInv
<1> QED
  BY <1>1, <1>2, <1>3, DeliveryIdle

(* A waiting job's next delivery has not been made: whoever takes it is    *)
(* the only one to have it.                                                *)
LEMMA TakeOnce ==
  ASSUME OnceInv, NEW w \in Workers, NEW o \in Orders, Take(w, o)
  PROVE  QueueInv' /\ DeliveryInv'
<1>1. PICK d : d = <<o, stalls[o]>>
  OBVIOUS
<1>2. d \in Deliveries /\ ~Handed(d)
  BY <1>1 DEF Take, Handed, Deliveries, OnceInv, FillInv, TypeOK
<1>3. /\ pc[w] = "idle"
      /\ pc' = [pc EXCEPT ![w] = "loading"]
      /\ cur' = [cur EXCEPT ![w] = d]
      /\ job' = [job EXCEPT ![o] = "active"]
      /\ owner' = [owner EXCEPT ![o] = w]
      /\ UNCHANGED <<stalls, trades, api>>
  BY <1>1 DEF Take, apiVars, dbVars
<1>4. job[o] = "waiting"
  BY DEF Take
<1>5. \A p \in Orders : IF p = o THEN job'[p] = "active" /\ owner'[p] = w
                         ELSE job'[p] = job[p] /\ owner'[p] = owner[p]
  BY <1>3 DEF OnceInv, FillInv, TypeOK
<1>6. QueueInv'
  BY <1>3, <1>4, <1>5 DEF OnceInv, QueueInv
<1>7. \A c \in Deliveries : Handed(c) => Handed(c)'
  <2>1. \A p \in Orders \ {o} : job'[p] = job[p] /\ stalls'[p] = stalls[p]
    BY <1>3, <1>5
  <2>2. stalls'[o] = stalls[o] /\ job'[o] \in {"active", "completed", "failed"}
    BY <1>3, <1>5
  <2> QED
    BY <2>1, <2>2, HandedStays DEF OnceInv, FillInv
<1>8. Handed(d)'
  BY <1>1, <1>3, <1>5 DEF Handed
<1>9. \A v \in Workers : IF v = w THEN pc'[v] = "loading" /\ cur'[v] = d
                          ELSE pc'[v] = pc[v] /\ cur'[v] = cur[v]
  BY <1>3 DEF OnceInv, FillInv, TypeOK
<1>10. \A v \in Workers : pc[v] # "idle" => cur[v] \in Deliveries /\ cur[v] # d
  BY <1>2, AtWork DEF OnceInv, FillInv, DeliveryInv
<1>11. \A r \in trades : r.hash \in Deliveries /\ r.hash # d
  BY <1>2 DEF OnceInv, FillInv, TypeOK, TradeRows, DeliveryInv
<1>12. \A v \in Workers : cur[v] = NoDelivery => pc[v] = "idle"
  BY DEF OnceInv, FillInv, TypeOK
<1>13. DeliveryInv'
  <2>1. \A v \in Workers : pc'[v] # "idle" => Handed(cur[v])'
    BY <1>7, <1>8, <1>9, <1>10 DEF OnceInv, DeliveryInv
  <2>2. \A v, u \in Workers : pc'[v] # "idle" /\ cur'[v] = cur'[u] => v = u
    BY <1>2, <1>9, <1>10, <1>12, DistinctAssumption DEF OnceInv, DeliveryInv, FillInv, TypeOK
  <2>3. \A r \in trades' : Handed(r.hash)' /\ OrderOf(r.hash) = r.order
    BY <1>3, <1>7, <1>11 DEF OnceInv, DeliveryInv
  <2>4. \A v \in Workers : pc'[v] \in {"loading", "loaded", "read", "inserted"}
                            => \A r \in trades' : r.hash # cur'[v]
    BY <1>3, <1>9, <1>11 DEF OnceInv, DeliveryInv
  <2> QED
    BY <1>3, <2>1, <2>2, <2>3, <2>4 DEF OnceInv, DeliveryInv
<1> QED
  BY <1>6, <1>13

LEMMA ApiOnce ==
  ASSUME OnceInv, NEW o \in Orders,
         \/ \E b \in Brokers : Place(o, b)
         \/ Enqueue(o) \/ Reply(o) \/ ApiError(o)
         \/ RecoverOrphan(o) \/ LoseLock(o)
  PROVE  QueueInv' /\ DeliveryInv'
<1>1. UNCHANGED <<trades, pc, cur>>
  BY DEF Place, Enqueue, Reply, ApiError, RecoverOrphan, LoseLock, dbVars, slotVars
<1>2. QueueInv' /\ \A d \in Deliveries : Handed(d) => Handed(d)'
  <2>1. CASE (\E b \in Brokers : Place(o, b)) \/ Reply(o) \/ ApiError(o)
    <3>1. UNCHANGED <<job, stalls, owner>>
      BY <2>1 DEF Place, Reply, ApiError, queueVars
    <3>2. \A p \in Orders : api'[p] \in {"idle", "inserted"} => api[p] \in {"idle", "inserted"}
      BY <2>1 DEF Place, Reply, ApiError, OnceInv, FillInv, TypeOK
    <3> QED
      BY <3>1, <3>2 DEF OnceInv, QueueInv, Handed
  <2>2. CASE Enqueue(o)
    <3>1. job[o] = "none" /\ UNCHANGED <<stalls, owner>>
      BY <2>2 DEF Enqueue, OnceInv, QueueInv
    <3>2. \A p \in Orders : IF p = o THEN job'[p] = "waiting" /\ api'[p] = "enqueued"
                             ELSE job'[p] = job[p] /\ api'[p] = api[p]
      BY <2>2 DEF Enqueue, OnceInv, FillInv, TypeOK
    <3>3. QueueInv'
      BY <3>1, <3>2 DEF OnceInv, QueueInv
    <3>4. \A p \in Orders \ {o} : job'[p] = job[p] /\ stalls'[p] = stalls[p]
      BY <3>1, <3>2
    <3>5. stalls'[o] = stalls[o] /\ job[o] \notin {"active", "completed", "failed"}
      BY <3>1
    <3> QED
      BY <3>3, <3>4, <3>5, HandedStays DEF OnceInv, FillInv
  <2>3. CASE RecoverOrphan(o) \/ LoseLock(o)
    <3>1. job[o] = "active" /\ Stalled(o) /\ api' = api
      BY <2>3 DEF RecoverOrphan, LoseLock, apiVars
    <3>2. \/ stalls' = [stalls EXCEPT ![o] = @ + 1] /\ job' = [job EXCEPT ![o] = "waiting"]
          \/ stalls' = stalls /\ job' = [job EXCEPT ![o] = "failed"]
      BY <3>1 DEF Stalled
    <3>3. \A p \in Orders : IF p = o THEN job'[p] # "none" /\ owner'[p] = NoWorker
                             ELSE job'[p] = job[p] /\ owner'[p] = owner[p]
      BY <3>1, <3>2 DEF Stalled, OnceInv, FillInv, TypeOK
    <3>4. api[o] \notin {"idle", "inserted"}
      BY <3>1 DEF OnceInv, QueueInv
    <3>5. QueueInv'
      BY <3>1, <3>3, <3>4 DEF OnceInv, QueueInv
    <3>6. \A p \in Orders \ {o} : job'[p] = job[p] /\ stalls'[p] = stalls[p]
      BY <3>2 DEF OnceInv, FillInv, TypeOK
    <3>7. \/ stalls'[o] = stalls[o] + 1
          \/ stalls'[o] = stalls[o] /\ job'[o] \in {"active", "completed", "failed"}
      BY <3>2 DEF OnceInv, FillInv, TypeOK
    <3> QED
      BY <3>5, <3>6, <3>7, HandedStays DEF OnceInv, FillInv
  <2> QED
    BY <2>1, <2>2, <2>3
<1> QED
  BY <1>1, <1>2, DeliveryKept

(* The hash of a committed trade is the delivery of its slot, which no     *)
(* trade had before and no other slot has.                                 *)
LEMMA CommitOnce ==
  ASSUME OnceInv, NEW w \in Workers, CommitFill(w)
  PROVE  /\ QueueInv' /\ DeliveryInv'
         /\ \A r \in trades : r.hash # cur[w]
<1>1. PICK d, b, new :
        /\ d = cur[w]
        /\ b = BrokerOf[OrderOf(d)]
        /\ new = [id |-> rowId[w], order |-> OrderOf(d), hash |-> d,
                  prev |-> TailHash(RowsOf(b))]
  OBVIOUS
<1>2. trades' = trades \cup {new} /\ d \in Deliveries
  BY <1>1, CommitAppends DEF OnceInv
<1>3. /\ pc[w] = "inserted"
      /\ pc' = [pc EXCEPT ![w] = "recorded"]
      /\ UNCHANGED <<api, job, stalls, owner, cur>>
  BY DEF CommitFill, apiVars, queueVars
<1>4. QueueInv'
  BY <1>3 DEF OnceInv, QueueInv
<1>5. \A c : Handed(c)' <=> Handed(c)
  BY <1>3 DEF Handed
<1>6. \A r \in trades : r.hash # d
  BY <1>1, <1>3 DEF OnceInv, DeliveryInv
<1>7. Handed(d)
  BY <1>1, <1>3 DEF OnceInv, DeliveryInv
<1>8. \A v \in Workers : IF v = w THEN pc'[v] = "recorded" ELSE pc'[v] = pc[v]
  BY <1>3 DEF OnceInv, FillInv, TypeOK
<1>9. \A v \in Workers : v # w => cur[v] # d
  BY <1>1, <1>3 DEF OnceInv, DeliveryInv
<1>10. new.hash = d /\ new.order = OrderOf(d)
  BY <1>1
<1>11. DeliveryInv'
  <2>1. \A v \in Workers : pc'[v] # "idle" => Handed(cur[v])'
    BY <1>1, <1>3, <1>5, <1>7, <1>8 DEF OnceInv, DeliveryInv
  <2>2. \A v, u \in Workers : pc'[v] # "idle" /\ cur'[v] = cur'[u] => v = u
    BY <1>3, <1>8 DEF OnceInv, DeliveryInv
  <2>3. \A r \in trades' : Handed(r.hash)' /\ OrderOf(r.hash) = r.order
    BY <1>2, <1>5, <1>7, <1>10 DEF OnceInv, DeliveryInv
  <2>4. \A v \in Workers : pc'[v] \in {"loading", "loaded", "read", "inserted"}
                            => \A r \in trades' : r.hash # cur'[v]
    BY <1>2, <1>3, <1>8, <1>9, <1>10 DEF OnceInv, DeliveryInv
  <2>5. \A q, r \in trades' : q.hash = r.hash => q = r
    BY <1>2, <1>6, <1>10 DEF OnceInv, DeliveryInv
  <2> QED
    BY <2>1, <2>2, <2>3, <2>4, <2>5 DEF DeliveryInv
<1> QED
  BY <1>1, <1>4, <1>6, <1>11

LEMMA MoveOnce ==
  ASSUME OnceInv, NEW w \in Workers, pc[w] # "idle",
         NEW p \in {"loading", "loaded", "read", "inserted", "recorded", "marked",
                    "returning"},
         p \in {"loading", "loaded", "read", "inserted"}
           => pc[w] \in {"loading", "loaded", "read", "inserted"},
         pc' = [pc EXCEPT ![w] = p],
         UNCHANGED <<api, trades, job, stalls, owner, cur>>
  PROVE  QueueInv' /\ DeliveryInv'
<1>1. QueueInv'
  BY DEF OnceInv, QueueInv
<1>2. \A d \in Deliveries : Handed(d) => Handed(d)'
  BY DEF Handed
<1> QED
  BY <1>1, <1>2, DeliveryFrame

LEMMA ProcessOnce ==
  ASSUME OnceInv, NEW w \in Workers, Process(w)
  PROVE  QueueInv' /\ DeliveryInv'
<1> USE DEF apiVars, dbVars, queueVars
<1>1. CASE LoadOrder(w)
  <2>1. PICK p \in {"loaded", "returning"} : pc' = [pc EXCEPT ![w] = p]
    BY <1>1 DEF LoadOrder
  <2> QED
    BY <1>1, <2>1, MoveOnce DEF LoadOrder
<1>2. CASE BeginFill(w)
  BY <1>2, MoveOnce DEF BeginFill
<1>3. CASE InsertTrade(w)
  BY <1>3, MoveOnce DEF InsertTrade
<1>4. CASE MarkFilled(w)
  BY <1>4, MoveOnce DEF MarkFilled
<1>5. CASE Publish(w)
  BY <1>5, MoveOnce DEF Publish
<1>6. CASE RefuseCommit(w)
  BY <1>6, ReleaseOnce DEF RefuseCommit
<1>7. CASE Complete(w)
  BY <1>7, ReleaseOnce DEF Complete
<1> QED
  BY <1>1, <1>2, <1>3, <1>4, <1>5, <1>6, <1>7, CommitOnce DEF Process

LEMMA InitOnce == Init => OnceInv
<1> SUFFICES ASSUME Init PROVE OnceInv
  OBVIOUS
<1>1. QueueInv /\ DeliveryInv
  BY DEF Init, QueueInv, DeliveryInv
<1> QED
  BY <1>1, InitFill DEF OnceInv

LEMMA NextOnce == OnceInv /\ [Next]_vars => OnceInv'
<1> SUFFICES ASSUME OnceInv, [Next]_vars PROVE QueueInv' /\ DeliveryInv'
  BY NextFill DEF OnceInv
<1>1. CASE UNCHANGED vars
  BY <1>1, DeliveryKept DEF vars, apiVars, dbVars, queueVars, slotVars, OnceInv, QueueInv,
                            Handed
<1>2. ASSUME NEW w \in Workers, Throw(w) PROVE QueueInv' /\ DeliveryInv'
  BY <1>2, ReleaseOnce DEF Throw, apiVars, dbVars
<1> QED
  BY <1>1, <1>2, ApiOnce, TakeOnce, ProcessOnce, CrashOnce DEF Next

-----------------------------------------------------------------------------
(* The pipeline implements the abstract chain. *)

(* The blocks the rows in S stand for. *)
Blocks(S) ==
  {[broker |-> BrokerOf[r.order], hash |-> r.hash, prev |-> r.prev] : r \in S}

Heads == [b \in Brokers |-> TailHash(RowsOf(b))]

(* A commit is one Append to the chain of the order's broker, of a hash no *)
(* trade had before.                                                       *)
LEMMA CommitIsAppend ==
  ASSUME OnceInv, NEW w \in Workers, CommitFill(w)
  PROVE  \E b \in Brokers, h \in Deliveries : Chain!Append(b, h)
<1>1. PICK d, b, new :
        /\ d = cur[w]
        /\ b = BrokerOf[OrderOf(d)]
        /\ new = [id |-> rowId[w], order |-> OrderOf(d), hash |-> d,
                  prev |-> TailHash(RowsOf(b))]
  OBVIOUS
<1>2. /\ d \in Deliveries /\ b \in Brokers
      /\ trades' = trades \cup {new}
      /\ \A c \in Brokers \ {b} : RowsOf(c)' = RowsOf(c)
      /\ TailHash(RowsOf(b)') = d
  BY <1>1, CommitAppends DEF OnceInv
<1>3. \A r \in trades : r.hash # d
  BY <1>1, CommitOnce
<1>4. Blocks(trades') = Blocks(trades) \cup {[broker |-> b, hash |-> d, prev |-> Heads[b]]}
  BY <1>1, <1>2 DEF Blocks, Heads
<1>5. \A x \in Blocks(trades) : x.hash # d
  BY <1>3 DEF Blocks
<1>6. Heads' = [Heads EXCEPT ![b] = d]
  <2>1. ASSUME NEW c \in Brokers
        PROVE  TailHash(RowsOf(c))' = IF c = b THEN d ELSE TailHash(RowsOf(c))
    <3>1. TailHash(RowsOf(c))' = TailHash(RowsOf(c)')
      BY DEF TailHash
    <3>2. CASE c = b
      BY <1>2, <3>1, <3>2
    <3>3. CASE c # b
      BY <1>2, <3>1, <3>3
    <3> QED
      BY <3>2, <3>3
  <2> QED
    BY <1>2, <2>1 DEF Heads
<1>7. Blocks(trades)' = Blocks(trades')
  BY DEF Blocks
<1>8. Chain!Append(b, d)
  BY <1>4, <1>5, <1>6, <1>7 DEF Chain!Append, Blocks, Heads
<1> QED
  BY <1>2, <1>8

(* Whatever the orders, workers, stalls and faults, recordFill builds the  *)
(* chains TradeChain describes, and so, by ChainNeverForks, chains that    *)
(* never fork.                                                             *)
THEOREM PipelineBuildsChain == Spec => ImplementsTradeChain
<1>1. Init => Chain!Init
  BY DEF Init, Chain!Init, RowsOf, TailHash
<1>2. OnceInv /\ [Next]_vars => [Chain!Next]_(Chain!vars)
  <2> SUFFICES ASSUME OnceInv, [Next]_vars PROVE [Chain!Next]_(Chain!vars)
    OBVIOUS
  <2>1. ASSUME NEW w \in Workers, CommitFill(w) PROVE Chain!Next
    BY <2>1, CommitIsAppend DEF Chain!Next
  <2>2. CASE UNCHANGED trades
    BY <2>2 DEF Chain!vars, RowsOf, TailHash
  <2> QED
    BY <2>1, <2>2, TradesChange
<1> QED
  BY <1>1, <1>2, InitOnce, NextOnce, PTL DEF Spec, ImplementsTradeChain, Chain!Spec

-----------------------------------------------------------------------------
(* The invariant. *)

(* The row comes before the job, and both before the answer. *)
OrderLife ==
  /\ \A o \in Orders : api[o] = "idle" => status[o] = "none"
  /\ \A o \in Orders : api[o] = "inserted" => status[o] # "none"
  /\ \A o \in Orders : api[o] = "enqueued" => job[o] # "none"
  /\ \A o \in Orders : job[o] # "none" => status[o] # "none"
  /\ AcceptedIsQueued

(* What a slot has made sure of by the time it is where it is. *)
SlotLife ==
  /\ \A w \in Workers : pc[w] # "idle" => status[OrderOf(cur[w])] # "none"
  /\ \A w \in Workers : pc[w] \in {"recorded", "marked"}
       => \E r \in trades : r.hash = cur[w] /\ r.order = OrderOf(cur[w])
  /\ \A w \in Workers : pc[w] \in {"marked", "returning"}
       => status[OrderOf(cur[w])] = "FILLED"

Outcomes == FilledHasTrade /\ CompletedIsFilled /\ PublishedIsFilled

LifeInv == TypeOK /\ OrderLife /\ SlotLife /\ Outcomes

(* Nothing is taken back: rows stay, FILLED stays, a job that was added    *)
(* stays known to the queue.                                               *)
Grows ==
  /\ \A o \in Orders : status[o] # "none" => status'[o] # "none"
  /\ \A o \in Orders : status[o] = "FILLED" => status'[o] = "FILLED"
  /\ \A o \in Orders : job[o] # "none" => job'[o] # "none"
  /\ trades \subseteq trades'

-----------------------------------------------------------------------------
(* Frames: parts of the invariant that a step does not concern. *)

LEMMA OrderFrame ==
  ASSUME LifeInv, Grows, UNCHANGED <<api, placed>>,
         \A o \in Orders : job'[o] # "none" => job[o] # "none",
         \A o \in Orders : status[o] = "none" => status'[o] = "none"
  PROVE  OrderLife'
  BY DEF LifeInv, OrderLife, AcceptedIsQueued, Grows, TypeOK

LEMMA SlotFrame ==
  ASSUME LifeInv, Grows,
         \A v \in Workers : pc'[v] = "idle" \/ (pc'[v] = pc[v] /\ cur'[v] = cur[v])
  PROVE  SlotLife'
<1>1. \A v \in Workers : pc'[v] # "idle"
        => pc'[v] = pc[v] /\ cur'[v] = cur[v] /\ OrderOf(cur[v]) \in Orders
  BY AtWork DEF LifeInv
<1> QED
  BY <1>1 DEF LifeInv, SlotLife, Grows

LEMMA SlotMoves ==
  ASSUME LifeInv, Grows, NEW w \in Workers, pc[w] # "idle", cur' = cur, NEW p,
         pc' = [pc EXCEPT ![w] = p],
         p \in {"recorded", "marked"}
           => \E r \in trades' : r.hash = cur[w] /\ r.order = OrderOf(cur[w]),
         p \in {"marked", "returning"} => status'[OrderOf(cur[w])] = "FILLED"
  PROVE  SlotLife'
<1>1. \A v \in Workers : IF v = w THEN pc'[v] = p ELSE pc'[v] = pc[v]
  BY DEF LifeInv, TypeOK
<1>2. \A v \in Workers : pc[v] # "idle" => OrderOf(cur[v]) \in Orders
  BY AtWork DEF LifeInv
<1>3. \A v \in Workers : pc'[v] # "idle" => status'[OrderOf(cur'[v])] # "none"
  BY <1>1, <1>2 DEF LifeInv, SlotLife, Grows
<1>4. \A v \in Workers : pc'[v] \in {"recorded", "marked"}
       => \E r \in trades' : r.hash = cur'[v] /\ r.order = OrderOf(cur'[v])
  BY <1>1 DEF LifeInv, SlotLife, Grows
<1>5. \A v \in Workers : pc'[v] \in {"marked", "returning"}
       => status'[OrderOf(cur'[v])] = "FILLED"
  BY <1>1, <1>2 DEF LifeInv, SlotLife, Grows
<1> QED
  BY <1>3, <1>4, <1>5 DEF SlotLife

LEMMA OutcomesFrame ==
  ASSUME LifeInv, Grows, events' = events,
         \A o \in Orders : status'[o] = "FILLED" => status[o] = "FILLED",
         \A o \in Orders : job'[o] = "completed" => job[o] = "completed"
  PROVE  Outcomes'
<1>1. \A d \in events : OrderOf(d) \in Orders
  BY DEF LifeInv, TypeOK, Deliveries, OrderOf
<1> QED
  BY <1>1 DEF LifeInv, Outcomes, FilledHasTrade, CompletedIsFilled, PublishedIsFilled,
              Grows

-----------------------------------------------------------------------------
(* The steps. *)

(* The API writes the row, then adds the job, then answers. *)
LEMMA ApiLife ==
  ASSUME LifeInv, OnceInv, NEW o \in Orders,
         (\E b \in Brokers : Place(o, b)) \/ Enqueue(o) \/ Reply(o) \/ ApiError(o)
  PROVE  OrderLife' /\ SlotLife' /\ Outcomes'
<1>1. UNCHANGED <<pc, cur, trades, events>>
  BY DEF Place, Enqueue, Reply, ApiError, dbVars, slotVars
<1>2. \/ status' = status
      \/ api[o] = "idle" /\ status' = [status EXCEPT ![o] = "PENDING"]
  BY DEF Place, Enqueue, Reply, ApiError, dbVars
<1>3. \/ job' = job
      \/ api[o] = "inserted" /\ job' = [job EXCEPT ![o] = "waiting"]
  BY DEF Place, Enqueue, Reply, ApiError, queueVars
<1>4. \A p \in Orders : \/ status'[p] = status[p]
                        \/ status[p] = "none" /\ status'[p] = "PENDING"
  BY <1>2 DEF LifeInv, OrderLife, TypeOK
<1>5. \A p \in Orders : \/ job'[p] = job[p]
                        \/ job[p] = "none" /\ job'[p] = "waiting"
  BY <1>3 DEF LifeInv, OnceInv, QueueInv, TypeOK
<1>6. Grows
  BY <1>1, <1>4, <1>5 DEF Grows
<1>7. OrderLife'
  <2> USE DEF LifeInv, OrderLife, AcceptedIsQueued, TypeOK
  <2>1. ASSUME NEW b \in Brokers, Place(o, b) PROVE OrderLife'
    BY <2>1 DEF Place, queueVars, OnceInv, QueueInv
  <2>2. CASE Enqueue(o)
    BY <2>2 DEF Enqueue, dbVars
  <2>3. CASE Reply(o)
    BY <2>3 DEF Reply, dbVars, queueVars
  <2>4. CASE ApiError(o)
    BY <2>4 DEF ApiError, dbVars, queueVars
  <2> QED
    BY <2>1, <2>2, <2>3, <2>4
<1>8. SlotLife'
  BY <1>1, <1>6, SlotFrame
<1>9. Outcomes'
  BY <1>1, <1>4, <1>5, <1>6, OutcomesFrame
<1> QED
  BY <1>7, <1>8, <1>9

LEMMA StalledLife ==
  ASSUME LifeInv, NEW o \in Orders, RecoverOrphan(o) \/ LoseLock(o)
  PROVE  OrderLife' /\ SlotLife' /\ Outcomes'
<1>1. job[o] = "active" /\ UNCHANGED <<api, placed, status, pc, cur, trades, events>>
  BY DEF RecoverOrphan, LoseLock, apiVars, dbVars, slotVars
<1>2. job' = [job EXCEPT ![o] = "waiting"] \/ job' = [job EXCEPT ![o] = "failed"]
  BY DEF RecoverOrphan, LoseLock, Stalled
<1>3. \A p \in Orders : job'[p] = job[p] \/ (job[p] = "active" /\ job'[p] \in {"waiting", "failed"})
  BY <1>1, <1>2 DEF LifeInv, TypeOK
<1>4. Grows
  BY <1>1, <1>3 DEF Grows
<1>5. OrderLife'
  BY <1>1, <1>3, <1>4, OrderFrame
<1>6. SlotLife' /\ Outcomes'
  BY <1>1, <1>3, <1>4, SlotFrame, OutcomesFrame
<1> QED
  BY <1>5, <1>6

LEMMA TakeLife ==
  ASSUME LifeInv, NEW w \in Workers, NEW o \in Orders, Take(w, o)
  PROVE  OrderLife' /\ SlotLife' /\ Outcomes'
<1>1. /\ job[o] = "waiting" /\ job' = [job EXCEPT ![o] = "active"]
      /\ pc' = [pc EXCEPT ![w] = "loading"]
      /\ cur' = [cur EXCEPT ![w] = <<o, stalls[o]>>]
      /\ UNCHANGED <<api, placed, status, trades, events>>
  BY DEF Take, apiVars, dbVars
<1>2. \A p \in Orders : job'[p] = job[p] \/ (job[p] = "waiting" /\ job'[p] = "active")
  BY <1>1 DEF LifeInv, TypeOK
<1>3. Grows
  BY <1>1, <1>2 DEF Grows
<1>4. status[o] # "none"
  BY <1>1 DEF LifeInv, OrderLife
<1>5. \A v \in Workers : IF v = w THEN pc'[v] = "loading" /\ OrderOf(cur'[v]) = o
                         ELSE pc'[v] = pc[v] /\ cur'[v] = cur[v]
  BY <1>1 DEF LifeInv, TypeOK, OrderOf
<1>6. SlotLife'
  BY <1>1, <1>4, <1>5 DEF LifeInv, SlotLife
<1>7. OrderLife' /\ Outcomes'
  BY <1>1, <1>2, <1>3, OrderFrame, OutcomesFrame
<1> QED
  BY <1>6, <1>7

(* A job that is released is released by its holder, so it was active. *)
LEMMA ReleaseLife ==
  ASSUME LifeInv, OnceInv, NEW w \in Workers, pc[w] # "idle",
         NEW outcome \in {"completed", "failed"}, Release(w, outcome),
         UNCHANGED <<api, placed, status, trades, events>>,
         outcome = "completed" => pc[w] = "returning"
  PROVE  OrderLife' /\ SlotLife' /\ Outcomes'
<1>1. PICK o \in Orders : o = OrderOf(cur[w])
  BY AtWork DEF LifeInv
<1>2. \A p \in Orders : job'[p] = job[p]
                        \/ (p = o /\ job[p] = "active" /\ job'[p] = outcome)
  <2>1. CASE owner[o] = w /\ job' = [job EXCEPT ![o] = outcome]
    <3>1. job[o] = "active"
      BY <2>1, DistinctAssumption DEF OnceInv, QueueInv
    <3> QED
      BY <2>1, <3>1 DEF LifeInv, TypeOK
  <2>2. CASE job' = job
    BY <2>2
  <2> QED
    BY <1>1, <2>1, <2>2 DEF Release
<1>3. Grows
  BY <1>2 DEF Grows
<1>4. OrderLife'
  BY <1>2, <1>3, OrderFrame
<1>5. SlotLife'
  <2>1. \A v \in Workers : IF v = w THEN pc'[v] = "idle"
                           ELSE pc'[v] = pc[v] /\ cur'[v] = cur[v]
    BY DEF Release, LifeInv, TypeOK
  <2> QED
    BY <1>3, <2>1, SlotFrame
<1>6. Outcomes'
  <2>1. outcome = "completed" => status[o] = "FILLED"
    BY <1>1 DEF LifeInv, SlotLife
  <2>2. CompletedIsFilled'
    BY <1>2, <2>1 DEF LifeInv, Outcomes, CompletedIsFilled
  <2>3. FilledHasTrade' /\ PublishedIsFilled'
    BY DEF LifeInv, Outcomes, FilledHasTrade, PublishedIsFilled
  <2> QED
    BY <2>2, <2>3 DEF Outcomes
<1> QED
  BY <1>4, <1>5, <1>6

LEMMA CrashLife ==
  ASSUME LifeInv, NEW w \in Workers, Crash(w)
  PROVE  OrderLife' /\ SlotLife' /\ Outcomes'
<1>1. UNCHANGED <<api, placed, status, trades, job, events>>
  BY DEF Crash, apiVars, dbVars
<1>2. Grows
  BY <1>1 DEF Grows
<1>3. \A v \in Workers : IF v = w THEN pc'[v] = "idle"
                         ELSE pc'[v] = pc[v] /\ cur'[v] = cur[v]
  BY DEF Crash, LifeInv, TypeOK
<1> QED
  BY <1>1, <1>2, <1>3, OrderFrame, SlotFrame, OutcomesFrame

(* The steps of process() that leave the job alone. *)
LEMMA ProcessLife ==
  ASSUME LifeInv, OnceInv, NEW w \in Workers, Process(w)
  PROVE  OrderLife' /\ SlotLife' /\ Outcomes'
<1> USE DEF apiVars, dbVars, queueVars
<1>1. pc[w] # "idle" => OrderOf(cur[w]) \in Orders /\ status[OrderOf(cur[w])] # "none"
  BY AtWork DEF LifeInv, SlotLife
<1>2. CASE LoadOrder(w) \/ BeginFill(w) \/ InsertTrade(w)
  <2>1. UNCHANGED <<api, placed, status, trades, job, cur, events>>
    BY <1>2 DEF LoadOrder, BeginFill, InsertTrade
  <2>2. Grows
    BY <2>1 DEF Grows
  <2>3. PICK p \in {"loaded", "returning", "read", "inserted"} :
          /\ pc' = [pc EXCEPT ![w] = p]
          /\ p = "returning" => /\ pc[w] = "loading"
                                /\ status[OrderOf(cur[w])] # "PENDING"
    BY <1>2 DEF LoadOrder, BeginFill, InsertTrade
  <2>4. pc[w] # "idle"
    BY <1>2 DEF LoadOrder, BeginFill, InsertTrade
  <2>5. p = "returning" => status'[OrderOf(cur[w])] = "FILLED"
    BY <1>1, <2>1, <2>3, <2>4 DEF LifeInv, TypeOK
  <2>6. SlotLife'
    BY <2>1, <2>2, <2>3, <2>4, <2>5, SlotMoves
  <2> QED
    BY <2>1, <2>2, <2>6, OrderFrame, OutcomesFrame
<1>3. CASE CommitFill(w)
  <2>1. UNCHANGED <<api, placed, status, job, cur, events>>
    BY <1>3 DEF CommitFill
  <2>2. /\ pc[w] # "idle"
        /\ pc' = [pc EXCEPT ![w] = "recorded"]
        /\ trades \subseteq trades'
    BY <1>3 DEF CommitFill
  <2>3. \E r \in trades' : r.hash = cur[w] /\ r.order = OrderOf(cur[w])
    <3> DEFINE new == [id |-> rowId[w], order |-> OrderOf(cur[w]), hash |-> cur[w],
                       prev |-> TailHash(snap[w].rows)]
    <3>1. new \in trades'
      BY <1>3 DEF CommitFill
    <3>2. new.hash = cur[w] /\ new.order = OrderOf(cur[w])
      OBVIOUS
    <3> QED
      BY <3>1, <3>2
  <2>4. Grows
    BY <2>1, <2>2 DEF Grows
  <2>5. SlotLife'
    BY <2>1, <2>2, <2>3, <2>4, SlotMoves
  <2> QED
    BY <2>1, <2>4, <2>5, OrderFrame, OutcomesFrame
<1>4. CASE MarkFilled(w)
  <2>1. UNCHANGED <<api, placed, trades, job, cur, events>>
    BY <1>4 DEF MarkFilled
  <2>2. /\ pc[w] = "recorded"
        /\ pc' = [pc EXCEPT ![w] = "marked"]
        /\ status' = [status EXCEPT ![OrderOf(cur[w])] = "FILLED"]
    BY <1>4 DEF MarkFilled
  <2>3. \A o \in Orders : status'[o] = IF o = OrderOf(cur[w]) THEN "FILLED" ELSE status[o]
    BY <2>2 DEF LifeInv, TypeOK
  <2>4. Grows
    BY <2>1, <2>3 DEF Grows
  <2>5. \E r \in trades : r.hash = cur[w] /\ r.order = OrderOf(cur[w])
    BY <2>2 DEF LifeInv, SlotLife
  <2>6. SlotLife'
    BY <1>1, <2>1, <2>2, <2>3, <2>4, <2>5, SlotMoves
  <2>7. OrderLife'
    BY <1>1, <2>1, <2>2, <2>3, <2>4, OrderFrame
  <2>8. FilledHasTrade'
    BY <2>1, <2>3, <2>5 DEF LifeInv, Outcomes, FilledHasTrade
  <2>9. CompletedIsFilled'
    BY <2>1, <2>4 DEF LifeInv, Outcomes, CompletedIsFilled, Grows
  <2>10. PublishedIsFilled'
    <3>1. \A d \in events : OrderOf(d) \in Orders
      BY DEF LifeInv, TypeOK, Deliveries, OrderOf
    <3> QED
      BY <2>1, <2>4, <3>1 DEF LifeInv, Outcomes, PublishedIsFilled, Grows
  <2> QED
    BY <2>6, <2>7, <2>8, <2>9, <2>10 DEF Outcomes
<1>5. CASE Publish(w)
  <2>1. UNCHANGED <<api, placed, status, trades, job, cur>>
    BY <1>5 DEF Publish
  <2>2. /\ pc[w] = "marked"
        /\ pc' = [pc EXCEPT ![w] = "returning"]
        /\ events' = events \cup {cur[w]}
    BY <1>5 DEF Publish
  <2>3. Grows
    BY <2>1 DEF Grows
  <2>4. /\ \E r \in trades : r.hash = cur[w]
        /\ status[OrderOf(cur[w])] = "FILLED"
    BY <2>2 DEF LifeInv, SlotLife
  <2>5. SlotLife'
    BY <2>1, <2>2, <2>3, <2>4, SlotMoves
  <2>6. Outcomes'
    BY <2>1, <2>2, <2>4 DEF LifeInv, Outcomes, FilledHasTrade, CompletedIsFilled,
                            PublishedIsFilled
  <2> QED
    BY <2>1, <2>3, <2>5, <2>6, OrderFrame
<1>6. CASE RefuseCommit(w)
  BY <1>6, ReleaseLife DEF RefuseCommit
<1>7. CASE Complete(w)
  BY <1>7, ReleaseLife DEF Complete
<1> QED
  BY <1>2, <1>3, <1>4, <1>5, <1>6, <1>7 DEF Process

LEMMA InitLife == Init => LifeInv
<1> SUFFICES ASSUME Init PROVE LifeInv
  OBVIOUS
<1>1. OrderLife /\ SlotLife /\ Outcomes
  BY DEF Init, OrderLife, AcceptedIsQueued, SlotLife, Outcomes, FilledHasTrade,
         CompletedIsFilled, PublishedIsFilled
<1> QED
  BY <1>1, InitFill DEF LifeInv, FillInv

LEMMA NextLife == LifeInv /\ OnceInv /\ [Next]_vars => LifeInv'
<1> SUFFICES ASSUME LifeInv, OnceInv, [Next]_vars
             PROVE  OrderLife' /\ SlotLife' /\ Outcomes'
  BY NextFill DEF LifeInv, OnceInv, FillInv
<1>1. CASE UNCHANGED vars
  BY <1>1 DEF vars, apiVars, dbVars, queueVars, slotVars, LifeInv, OrderLife,
              AcceptedIsQueued, SlotLife, Outcomes, FilledHasTrade, CompletedIsFilled,
              PublishedIsFilled
<1>2. ASSUME NEW w \in Workers, Throw(w) PROVE OrderLife' /\ SlotLife' /\ Outcomes'
  BY <1>2, ReleaseLife DEF Throw, apiVars, dbVars
<1> QED
  BY <1>1, <1>2, ApiLife, StalledLife, TakeLife, ProcessLife, CrashLife DEF Next

LEMMA LifeAlways == Spec => [](LifeInv /\ OnceInv)
  BY InitLife, InitOnce, NextLife, NextOnce, PTL DEF Spec

(* No order is FILLED without a trade, although markFilled is a statement  *)
(* of its own outside the transaction of recordFill.                       *)
THEOREM FilledOrdersTraded == Spec => []FilledHasTrade
<1>1. LifeInv => FilledHasTrade
  BY DEF LifeInv, Outcomes
<1> QED
  BY <1>1, LifeAlways, PTL

(* A job BullMQ reports completed has filled its order, whichever of its   *)
(* deliveries completed it, and trade.executed is never ahead of what the  *)
(* database shows.                                                         *)
THEOREM OutcomesFilled == Spec => []ToldIsFilled
<1>1. LifeInv => ToldIsFilled
  BY DEF LifeInv, Outcomes, ToldIsFilled
<1> QED
  BY <1>1, LifeAlways, PTL

(* An answer ACCEPTED or an audit row order.placed stands for a row and a  *)
(* job.                                                                    *)
THEOREM AcceptedOrdersQueued == Spec => []AcceptedIsQueued
<1>1. LifeInv => AcceptedIsQueued
  BY DEF LifeInv, OrderLife
<1> QED
  BY <1>1, LifeAlways, PTL

-----------------------------------------------------------------------------
(* How many trades an order can get. *)

(* The trades of an order are numbered by the deliveries that recorded     *)
(* them, and only deliveries up to the last stall were made.               *)
LEMMA TradesOfDeliveries ==
  ASSUME OnceInv, NEW o \in Orders
  PROVE  Cardinality({r \in trades : r.order = o}) <= stalls[o] + 1
<1> DEFINE T == {r \in trades : r.order = o}
           f == [r \in T |-> r.hash[2]]
<1>1. stalls[o] \in Nat
  BY OrdersAssumption DEF OnceInv, FillInv, TypeOK
<1>2. ASSUME NEW r \in T
      PROVE  r.hash = <<o, r.hash[2]>> /\ r.hash[2] \in 0 .. stalls[o]
  <2>1. r.hash \in Deliveries /\ r.hash[1] = o /\ Handed(r.hash)
    BY DEF OnceInv, FillInv, TypeOK, TradeRows, DeliveryInv, OrderOf
  <2>2. r.hash[2] \in Nat /\ r.hash = <<r.hash[1], r.hash[2]>>
    BY <2>1, OrdersAssumption DEF Deliveries
  <2>3. r.hash[2] <= stalls[o]
    BY <1>1, <2>1, <2>2 DEF Handed
  <2> QED
    BY <1>1, <2>1, <2>2, <2>3
<1>3. \A q, r \in T : q.hash = r.hash => q = r
  BY DEF OnceInv, DeliveryInv
<1>4. f \in Injection(T, 0 .. stalls[o])
  <2>1. f \in [T -> 0 .. stalls[o]]
    BY <1>2
  <2>2. ASSUME NEW q \in T, NEW r \in T, f[q] = f[r]
        PROVE  q = r
    BY <1>2, <1>3, <2>2
  <2> HIDE DEF f, T
  <2> QED
    BY <2>1, <2>2 DEF Injection, IsInjective
<1>5. IsFiniteSet(0 .. stalls[o]) /\ Cardinality(0 .. stalls[o]) = stalls[o] + 1
  BY <1>1, FS_Interval
<1>6. Cardinality(T) <= Cardinality(0 .. stalls[o])
  BY <1>4, <1>5, FS_Injection, FS_CardinalityType
<1> QED
  BY <1>5, <1>6

(* recordFill has no idempotency key; what bounds the trades of an order   *)
(* is only how often its job is delivered, and that an ended job never is  *)
(* again.                                                                  *)
THEOREM TradesBounded == Spec => []TradesPerDelivery
<1>1. OnceInv => TradesPerDelivery
  BY TradesOfDeliveries DEF TradesPerDelivery
<1> QED
  BY <1>1, LifeAlways, PTL

-----------------------------------------------------------------------------
(***************************************************************************)
(* The books: the charge, the debit and a new wallet come and go with the  *)
(* trade, whatever fills overlap.                                          *)
(***************************************************************************)
(* A transaction that has missed no trade of its broker has missed no      *)
(* wallet either, because recordFill makes wallets only with trades.       *)
SnapCurrent(w) ==
  LET b == BrokerOf[OrderOf(cur[w])] IN
  snap[w].rows = RowsOf(b) => snap[w].wallets = WalletsOf(b)

SnapInv ==
  \A w \in Workers : pc[w] \in {"read", "inserted"} => SnapCurrent(w)

BooksInv == SnapInv /\ CommissionBooked

(* Steps that commit nothing, nor begin a transaction. *)
LEMMA BooksFrame ==
  ASSUME BooksInv, UNCHANGED <<trades, charges, wallets, debits>>,
         \A v \in Workers :
           pc'[v] \in {"read", "inserted"} =>
             /\ pc[v] \in {"read", "inserted"}
             /\ cur'[v] = cur[v]
             /\ snap'[v] = snap[v]
  PROVE  BooksInv'
<1>1. SnapInv'
  BY DEF BooksInv, SnapInv, SnapCurrent, RowsOf, WalletsOf
<1>2. CommissionBooked'
  BY DEF BooksInv, CommissionBooked, Commission, WalletsOf
<1> QED
  BY <1>1, <1>2 DEF BooksInv

LEMMA BeginFillBooks ==
  ASSUME OnceInv, BooksInv, NEW w \in Workers, BeginFill(w)
  PROVE  BooksInv'
<1>1. PICK b : b = BrokerOf[OrderOf(cur[w])]
  OBVIOUS
<1>2. /\ pc' = [pc EXCEPT ![w] = "read"]
      /\ snap' = [snap EXCEPT ![w] = [rows |-> RowsOf(b), wallets |-> WalletsOf(b)]]
      /\ UNCHANGED <<trades, charges, wallets, debits, cur>>
  BY <1>1 DEF BeginFill, dbVars
<1>3. \A v \in Workers :
        IF v = w THEN snap'[v].wallets = WalletsOf(b)
        ELSE pc'[v] = pc[v] /\ snap'[v] = snap[v]
  BY <1>2 DEF OnceInv, FillInv, TypeOK
<1>4. SnapInv'
  BY <1>1, <1>2, <1>3 DEF BooksInv, SnapInv, SnapCurrent, RowsOf, WalletsOf
<1>5. CommissionBooked'
  BY <1>2 DEF BooksInv, CommissionBooked, Commission, WalletsOf
<1> QED
  BY <1>4, <1>5 DEF BooksInv

(* The wallet that a fill which may commit debits is the broker's only     *)
(* one, or will be.                                                        *)
LEMMA FillWalletIsOnly ==
  ASSUME OnceInv, BooksInv, NEW w \in Workers, CommitFill(w),
         NEW b \in Brokers, b = BrokerOf[OrderOf(cur[w])]
  PROVE  /\ FillWallet(w).broker = b
         /\ \A x \in WalletsOf(b) : x = FillWallet(w)
<1>1. snap[w].wallets = WalletsOf(b)
  BY DEF CommitFill, Serializable, BooksInv, SnapInv, SnapCurrent
<1>2. CASE WalletsOf(b) = {}
  BY <1>1, <1>2 DEF FillWallet
<1>3. CASE WalletsOf(b) # {}
  <2>1. FillWallet(w) \in WalletsOf(b)
    BY <1>1, <1>3 DEF FillWallet
  <2> QED
    BY <2>1 DEF BooksInv, CommissionBooked, WalletsOf
<1> QED
  BY <1>2, <1>3

LEMMA CommitFillBooks ==
  ASSUME OnceInv, BooksInv, NEW w \in Workers, CommitFill(w)
  PROVE  BooksInv'
<1>1. PICK d, b, new, fee :
        /\ d = cur[w]
        /\ b = BrokerOf[OrderOf(d)]
        /\ new = [id |-> rowId[w], order |-> OrderOf(d), hash |-> d,
                  prev |-> TailHash(RowsOf(b))]
        /\ fee = CommissionPerLot * Lots[OrderOf(d)]
  OBVIOUS
<1>2. /\ b \in Brokers
      /\ trades' = trades \cup {new}
      /\ new.order = OrderOf(d) /\ new.hash = d
      /\ RowsOf(b)' = RowsOf(b) \cup {new}
      /\ \A c \in Brokers \ {b} : RowsOf(c)' = RowsOf(c)
  BY <1>1, CommitAppends DEF OnceInv
<1>3. \A r \in trades : r.hash # d
  BY <1>1, CommitOnce
<1>4. PICK x : x = FillWallet(w)
  OBVIOUS
<1>5. x.broker = b /\ \A y \in WalletsOf(b) : y = x
  BY <1>1, <1>2, <1>4, FillWalletIsOnly
<1>6. /\ pc' = [pc EXCEPT ![w] = "recorded"]
      /\ UNCHANGED <<cur, snap>>
      /\ \/ UNCHANGED wallets
         \/ wallets' = wallets \cup {x}
  BY <1>4 DEF CommitFill, slotVars
<1>7. SnapInv'
  <2> SUFFICES ASSUME NEW v \in Workers, pc'[v] \in {"read", "inserted"}
               PROVE  SnapCurrent(v)'
    BY DEF SnapInv
  <2>1. v # w /\ pc[v] \in {"read", "inserted"} /\ SnapCurrent(v)
    BY <1>6 DEF OnceInv, FillInv, TypeOK, BooksInv, SnapInv
  <2>2. PICK c \in Brokers : c = BrokerOf[OrderOf(cur[v])]
    BY <2>1, AtWork DEF OnceInv, FillInv
  <2>3. CASE c = b
    <3>1. new \notin snap[v].rows
      BY <1>2, <1>3, <2>1 DEF OnceInv, FillInv, Numbered
    <3> QED
      BY <1>2, <1>6, <2>2, <2>3, <3>1 DEF SnapCurrent
  <2>4. CASE c # b
    <3>1. RowsOf(c)' = RowsOf(c)
      BY <1>2, <2>4
    <3>2. WalletsOf(c)' = WalletsOf(c)
      BY <1>5, <1>6, <2>4 DEF WalletsOf
    <3> QED
      BY <1>6, <2>1, <2>2, <3>1, <3>2 DEF SnapCurrent
  <2> QED
    BY <2>3, <2>4
<1>8. \A y, z \in wallets' : y.broker = z.broker => y = z
  BY <1>5, <1>6 DEF BooksInv, CommissionBooked, WalletsOf
<1>9. wallets \subseteq wallets'
  BY <1>6
<1>10. \A e \in debits \cup charges : e.trade # d
  BY <1>3 DEF BooksInv, CommissionBooked
<1>11. CASE Chargeable(OrderOf(d))
  <2>1. Commission(OrderOf(d)) = fee /\ fee > 0
    BY <1>1, <1>11 DEF Chargeable, Commission
  <2>2. PICK c : c = [trade |-> d, amount |-> fee]
    OBVIOUS
  <2>3. PICK e : e = [wallet |-> x, trade |-> d, amount |-> fee]
    OBVIOUS
  <2>4. /\ charges' = charges \cup {c}
        /\ wallets' = wallets \cup {x}
        /\ debits' = debits \cup {e}
    BY <1>1, <1>4, <1>11, <2>2, <2>3 DEF CommitFill
  <2>5. c.trade = d /\ e.trade = d
    BY <2>2, <2>3
  <2>6. \A r \in trades : /\ {k \in charges' : k.trade = r.hash} =
                               {k \in charges : k.trade = r.hash}
                          /\ {k \in debits' : k.trade = r.hash} =
                               {k \in debits : k.trade = r.hash}
    BY <1>3, <2>4, <2>5
  <2>7. /\ {k \in charges' : k.trade = d} = {c}
        /\ {k \in debits' : k.trade = d} = {e}
    BY <1>10, <2>4, <2>5
  <2>8. \A r \in trades' :
          Commission(r.order) > 0 =>
            /\ {k \in charges' : k.trade = r.hash} =
                 {[trade |-> r.hash, amount |-> Commission(r.order)]}
            /\ \E y \in WalletsOf(BrokerOf[r.order])' :
                 {k \in debits' : k.trade = r.hash} =
                   {[wallet |-> y, trade |-> r.hash, amount |-> Commission(r.order)]}
    <3>1. ASSUME NEW r \in trades, Commission(r.order) > 0
          PROVE  /\ {k \in charges : k.trade = r.hash} =
                      {[trade |-> r.hash, amount |-> Commission(r.order)]}
                 /\ \E y \in WalletsOf(BrokerOf[r.order])' :
                      {k \in debits : k.trade = r.hash} =
                        {[wallet |-> y, trade |-> r.hash, amount |-> Commission(r.order)]}
      BY <1>9, <3>1 DEF BooksInv, CommissionBooked, WalletsOf
    <3>2. x \in WalletsOf(BrokerOf[new.order])'
      BY <1>1, <1>2, <1>5, <2>4 DEF WalletsOf
    <3> QED
      BY <1>2, <2>1, <2>2, <2>3, <2>6, <2>7, <3>1, <3>2
  <2>9. \A k \in debits' \cup charges' :
          \E r \in trades' : r.hash = k.trade /\ Commission(r.order) > 0
    BY <1>2, <2>1, <2>4, <2>5 DEF BooksInv, CommissionBooked
  <2>10. CommissionBooked'
    BY <1>8, <2>8, <2>9 DEF CommissionBooked, Commission
  <2> QED
    BY <1>7, <2>10 DEF BooksInv
<1>12. CASE ~Chargeable(OrderOf(d))
  <2>1. UNCHANGED <<charges, wallets, debits>>
    BY <1>1, <1>12 DEF CommitFill
  <2>2. ~(Commission(OrderOf(d)) > 0)
    BY <1>1, <1>12 DEF Chargeable, Commission
  <2>3. CommissionBooked'
    BY <1>2, <2>1, <2>2 DEF BooksInv, CommissionBooked, Commission, WalletsOf
  <2> QED
    BY <1>7, <2>3 DEF BooksInv
<1> QED
  BY <1>11, <1>12

-----------------------------------------------------------------------------
(* The other steps, and the invariant. *)

LEMMA SlotBooks ==
  ASSUME OnceInv, BooksInv, NEW w \in Workers, Process(w) \/ Throw(w) \/ Crash(w)
  PROVE  BooksInv'
<1>1. CASE BeginFill(w) \/ CommitFill(w)
  BY <1>1, BeginFillBooks, CommitFillBooks
<1>2. CASE InsertTrade(w)
  BY <1>2, BooksFrame DEF InsertTrade, OnceInv, FillInv, TypeOK
<1>3. CASE LoadOrder(w) \/ MarkFilled(w) \/ Publish(w)
  BY <1>3, BooksFrame DEF LoadOrder, MarkFilled, Publish, dbVars, OnceInv, FillInv, TypeOK
<1>4. CASE RefuseCommit(w) \/ Complete(w) \/ Throw(w) \/ Crash(w)
  <2>1. UNCHANGED <<trades, charges, wallets, debits>>
    BY <1>4 DEF RefuseCommit, Complete, Throw, Crash, dbVars
  <2>2. /\ pc' = [pc EXCEPT ![w] = "idle"]
        /\ cur' = [cur EXCEPT ![w] = NoDelivery]
        /\ snap' = [snap EXCEPT ![w] = EmptySnap]
    BY <1>4 DEF RefuseCommit, Complete, Throw, Crash, Release
  <2> QED
    BY <2>1, <2>2, BooksFrame DEF OnceInv, FillInv, TypeOK
<1> QED
  BY <1>1, <1>2, <1>3, <1>4 DEF Process

LEMMA QueueBooks ==
  ASSUME OnceInv, BooksInv, NEW o \in Orders,
         \/ (\E b \in Brokers : Place(o, b)) \/ Enqueue(o) \/ Reply(o) \/ ApiError(o)
         \/ RecoverOrphan(o) \/ LoseLock(o) \/ \E w \in Workers : Take(w, o)
  PROVE  BooksInv'
<1>1. UNCHANGED <<trades, charges, wallets, debits>>
  BY DEF Place, Enqueue, Reply, ApiError, RecoverOrphan, LoseLock, Take, dbVars
<1>2. CASE UNCHANGED slotVars
  BY <1>1, <1>2, BooksFrame DEF slotVars
<1>3. ASSUME NEW w \in Workers, Take(w, o) PROVE BooksInv'
  BY <1>1, <1>3, BooksFrame DEF Take, OnceInv, FillInv, TypeOK
<1>4. UNCHANGED slotVars \/ \E w \in Workers : Take(w, o)
  BY DEF Place, Enqueue, Reply, ApiError, RecoverOrphan, LoseLock
<1> QED
  BY <1>2, <1>3, <1>4

LEMMA InitBooks == Init => BooksInv
BY DEF Init, BooksInv, SnapInv, CommissionBooked

LEMMA NextBooks == OnceInv /\ BooksInv /\ [Next]_vars => BooksInv'
<1> SUFFICES ASSUME OnceInv, BooksInv, [Next]_vars PROVE BooksInv'
  OBVIOUS
<1>1. CASE UNCHANGED vars
  BY <1>1, BooksFrame DEF vars, dbVars, slotVars
<1> QED
  BY <1>1, SlotBooks, QueueBooks DEF Next

(* What SERIALIZABLE refuses keeps the books as well as the chain: no fill *)
(* commits without its commission, and none on a snapshot in which the     *)
(* broker's wallet was missing although a peer had just made it.           *)
THEOREM CommissionAlwaysBooked == Spec => []CommissionBooked
<1>1. BooksInv => CommissionBooked
  BY DEF BooksInv
<1> QED
  BY <1>1, InitOnce, NextOnce, InitBooks, NextBooks, PTL DEF Spec

=============================================================================
