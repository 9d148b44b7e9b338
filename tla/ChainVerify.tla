---------------------------- MODULE ChainVerify -----------------------------
(***************************************************************************)
(* The two programs that verify the hash chains of trading.trades: the     *)
(* chain verifier of the workers, which a timer starts, and the script     *)
(* infra/scripts/verify-chain.ts.  Each reads the brokers, then the trades *)
(* of one broker after the other in a SELECT of its own, and walks over    *)
(* what it has read, while the order processor goes on recording trades.   *)
(*                                                                         *)
(* Trades are recorded in one step here: OrderPipeline has the transaction *)
(* and implements TradeChain.  What the chains are for is modelled as well:*)
(* rows that somebody changes or removes by SQL, past the trigger and the  *)
(* grants that forbid it.  Who also recomputes the hash of the row and of  *)
(* all rows after it goes unnoticed by construction, and is left out.      *)
(***************************************************************************)
EXTENDS Naturals, FiniteSets

CONSTANTS
  Trades,     \* ULIDs of trades
  Brokers,
  Amounts,    \* quantities and prices, in units of 1/10^SCALE
  SCALE,      \* decimal places of numeric(20,4)
  Verifiers,  \* programs that walk the chains ...
  Scripts,    \* ... those of them that are verify-chain.ts
  MaxEdits,   \* bound: changes by SQL
  NoHash      \* a text that is no hash

ASSUME ChainVerifyAssumption ==
  /\ IsFiniteSet(Trades)
  /\ Amounts \subseteq Nat
  /\ SCALE \in Nat
  /\ Scripts \subseteq Verifiers
  /\ MaxEdits \in Nat

VARIABLES
  rows,      \* trading.trades
  lastId,    \* the sequence behind its id
  written,   \* every row as it was inserted
  edits,     \* how many changes by SQL there were
  pc,        \* where each verifier is
  todo,      \* the brokers it has still to read
  seen,      \* the rows it has read
  left,      \* those of them it has still to check
  expected,  \* expectedPrev
  breaks     \* what it has found

tableVars == <<rows, lastId, written, edits>>
walkVars == <<pc, todo, seen, left, expected, breaks>>
vars == <<tableVars, walkVars>>

-----------------------------------------------------------------------------
(* Hashes. *)

(* A decimal as text: its value and how many places are printed. *)
Text(a, n) == [units |-> a, places |-> n]

(* Money.toString prints no trailing zeros ... *)
Places(a) ==
  CHOOSE n \in 0 .. SCALE :
    /\ a % (10 ^ (SCALE - n)) = 0
    /\ \A m \in 0 .. n : m < n => a % (10 ^ (SCALE - m)) # 0

MoneyText(a) == Text(a, Places(a))

(* ... and numeric(20,4)::text always four places. *)
DatabaseText(a) == Text(a, SCALE)

(* SHA-256 of the canonical record, which holds the ULID, the broker, the  *)
(* decimals and prevHash; taken as collision free.  The columns that       *)
(* nobody changes here are left out: the ULID stands for them.             *)
computeHash(t, text, prev) == <<t, text, prev>>

(* GENESIS_HASH: 64 zeros, which are the hash of no record. *)
GENESIS == <<>>

Recomputed(r) == computeHash(r.trade, DatabaseText(r.amount), r.prev)

-----------------------------------------------------------------------------
Init ==
  /\ rows = {}
  /\ lastId = 0
  /\ written = {}
  /\ edits = 0
  /\ pc = [v \in Verifiers |-> "idle"]
  /\ todo = [v \in Verifiers |-> {}]
  /\ seen = [v \in Verifiers |-> {}]
  /\ left = [v \in Verifiers |-> {}]
  /\ expected = [v \in Verifiers |-> GENESIS]
  /\ breaks = [v \in Verifiers |-> {}]

(* recordFill *)
RowsOf(b) == {r \in rows : r.broker = b}

MutPrevHash(b) ==
  IF RowsOf(b) = {} THEN NoHash
  ELSE (CHOOSE r \in RowsOf(b) : \A q \in RowsOf(b) : q.id <= r.id).hash

PrevHash(b) ==
  IF RowsOf(b) = {} THEN GENESIS
  ELSE (CHOOSE r \in RowsOf(b) : \A q \in RowsOf(b) : q.id <= r.id).hash

RecordFill(t, b, a) ==
  LET new == [id |-> lastId + 1, trade |-> t, broker |-> b, amount |-> a,
              prev |-> PrevHash(b),
              hash |-> computeHash(t, MoneyText(a), PrevHash(b))]
  IN
  /\ \A r \in written : r.trade # t
  /\ rows' = rows \cup {new}
  /\ written' = written \cup {new}
  /\ lastId' = lastId + 1
  /\ UNCHANGED <<edits, walkVars>>

(* Changes by SQL: a row gets another amount or another text for its       *)
(* predecessor, a hash or none, or is removed.                             *)
Edit(r, S) ==
  /\ r \in rows
  /\ edits < MaxEdits
  /\ edits' = edits + 1
  /\ rows' = (rows \ {r}) \cup S
  /\ UNCHANGED <<lastId, written, walkVars>>

ChangeAmount(r, a) == Edit(r, {[r EXCEPT !.amount = a]})

ChangePrev(r, h) == Edit(r, {[r EXCEPT !.prev = h]})

Remove(r) == Edit(r, {})

-----------------------------------------------------------------------------
(* A verifier. *)

(* SELECT DISTINCT broker_id; the script may be given one broker instead.  *)
ReadBrokers(v) ==
  /\ pc[v] \in {"idle", "reported"}
  /\ pc' = [pc EXCEPT ![v] = "walking"]
  /\ \/ todo' = [todo EXCEPT ![v] = {r.broker : r \in rows}]
     \/ v \in Scripts /\ \E b \in Brokers : todo' = [todo EXCEPT ![v] = {b}]
  /\ seen' = [seen EXCEPT ![v] = {}]
  /\ left' = [left EXCEPT ![v] = {}]
  /\ breaks' = [breaks EXCEPT ![v] = {}]
  /\ UNCHANGED <<tableVars, expected>>

(* SELECT ... WHERE broker_id = b ORDER BY id ASC, when the walk over the  *)
(* broker before is done.                                                  *)
MutReadRows(v, b) ==
  /\ b \in todo[v]
  /\ left[v] = {}
  /\ todo' = [todo EXCEPT ![v] = @ \ {b}]
  /\ seen' = [seen EXCEPT ![v] = @ \cup RowsOf(b)]
  /\ left' = [left EXCEPT ![v] = RowsOf(b)]
  /\ UNCHANGED <<tableVars, pc, expected, breaks>>

ReadRows(v, b) ==
  /\ b \in todo[v]
  /\ left[v] = {}
  /\ todo' = [todo EXCEPT ![v] = @ \ {b}]
  /\ seen' = [seen EXCEPT ![v] = @ \cup RowsOf(b)]
  /\ left' = [left EXCEPT ![v] = RowsOf(b)]
  /\ expected' = [expected EXCEPT ![v] = GENESIS]
  /\ UNCHANGED <<tableVars, pc, breaks>>

(* What a row gives: the worker does not recompute the hash of a row that  *)
(* does not follow on the one before it, the script does.                  *)
Unlinked(v, r) == r.prev # expected[v]

MutFindings(v, r) == {x \in {"PREV_HASH_MISMATCH"} : Unlinked(v, r)}

Findings(v, r) ==
  {x \in {"PREV_HASH_MISMATCH", "HASH_MISMATCH"} :
     \/ x = "PREV_HASH_MISMATCH" /\ Unlinked(v, r)
     \/ /\ x = "HASH_MISMATCH"
        /\ Recomputed(r) # r.hash
        /\ v \in Scripts \/ ~Unlinked(v, r)}

(* One turn of the loop; whatever it finds, it goes on from the row's own  *)
(* hash.  computeHash throws on a prevHash that is none, which only the    *)
(* script gives it.                                                        *)
MutCheckRow(v, r) ==
  /\ r \in left[v]
  /\ v \in Scripts => r.prev # NoHash
  /\ \A q \in left[v] : r.id <= q.id
  /\ left' = [left EXCEPT ![v] = @ \ {r}]
  /\ breaks' = [breaks EXCEPT ![v] = @ \cup ({r} \X Findings(v, r))]
  /\ expected' = [expected EXCEPT ![v] =
                    IF Unlinked(v, r) /\ v \notin Scripts THEN @ ELSE r.hash]
  /\ UNCHANGED <<tableVars, pc, todo, seen>>

CheckRow(v, r) ==
  /\ r \in left[v]
  /\ v \in Scripts => r.prev # NoHash
  /\ \A q \in left[v] : r.id <= q.id
  /\ left' = [left EXCEPT ![v] = @ \ {r}]
  /\ breaks' = [breaks EXCEPT ![v] = @ \cup ({r} \X Findings(v, r))]
  /\ expected' = [expected EXCEPT ![v] = r.hash]
  /\ UNCHANGED <<tableVars, pc, todo, seen>>

(* The report of the worker, the exit code of the script. *)
Report(v) ==
  /\ pc[v] = "walking"
  /\ todo[v] = {}
  /\ left[v] = {}
  /\ pc' = [pc EXCEPT ![v] = "reported"]
  /\ UNCHANGED <<tableVars, todo, seen, left, expected, breaks>>

(* A query fails, computeHash throws or the process dies: no report. *)
Abort(v) ==
  /\ pc[v] = "walking"
  /\ pc' = [pc EXCEPT ![v] = "idle"]
  /\ todo' = [todo EXCEPT ![v] = {}]
  /\ seen' = [seen EXCEPT ![v] = {}]
  /\ left' = [left EXCEPT ![v] = {}]
  /\ expected' = [expected EXCEPT ![v] = GENESIS]
  /\ breaks' = [breaks EXCEPT ![v] = {}]
  /\ UNCHANGED tableVars

-----------------------------------------------------------------------------
Next ==
  \/ \E t \in Trades, b \in Brokers, a \in Amounts : RecordFill(t, b, a)
  \/ \E r \in rows : \/ \E a \in Amounts : ChangeAmount(r, a)
                     \/ \E h \in {q.hash : q \in written} \cup {NoHash} : ChangePrev(r, h)
                     \/ Remove(r)
  \/ \E v \in Verifiers : \/ ReadBrokers(v)
                          \/ \E b \in Brokers : ReadRows(v, b)
                          \/ \E r \in left[v] : CheckRow(v, r)
                          \/ Report(v)
                          \/ Abort(v)

Spec == Init /\ [][Next]_vars

-----------------------------------------------------------------------------
(* The types; and every row, however it was changed since, still has the   *)
(* hash, the place and the broker of a row that recordFill wrote, whose    *)
(* predecessor is GENESIS or a row written before it.                      *)
TypeOK ==
  /\ lastId \in 0 .. Cardinality(Trades)
  /\ edits \in 0 .. MaxEdits
  /\ \A w \in written :
       \/ w.prev = GENESIS
       \/ \E q \in written :
            q.hash = w.prev /\ q.broker = w.broker /\ q.id < w.id
  /\ \A r \in rows : \E w \in written :
       r = [w EXCEPT !.amount = r.amount, !.prev = r.prev]
  /\ pc \in [Verifiers -> {"idle", "walking", "reported"}]
  /\ \A v \in Verifiers :
       /\ left[v] \subseteq seen[v]
       /\ \A x \in breaks[v] : x[1] \in seen[v] \ left[v]

BrokenRows(v) == {x[1] : x \in breaks[v]}

HasPredecessor(r, S) ==
  \/ r.prev = GENESIS
  \/ \E q \in S : q.hash = r.prev /\ q.broker = r.broker

(* What a report is silent about is as it was written: a row that a        *)
(* verifier read and found no break at is a row recordFill wrote, in every *)
(* column, and the row it follows on was read as well.  The walk over      *)
(* tables that fills extend and SQL changes meanwhile, in brokers read one *)
(* after the other (chain-verifier.ts:47-51, 69-108).                      *)
SilentIsFaithful ==
  \A v \in Verifiers : pc[v] = "reported" =>
    \A r \in seen[v] \ BrokenRows(v) :
      r \in written /\ HasPredecessor(r, seen[v])

(* No false alarm but one: a row is reported as out of the chain only when *)
(* it was changed or its predecessor is gone, never because fills went on  *)
(* while the verifier walked; and as having another hash only when it was  *)
(* changed or has a decimal that Money and numeric(20,4) print differently *)
(* (chain-verifier.ts:71-106).                                             *)
BreaksHaveCause ==
  \A v \in Verifiers : pc[v] = "reported" =>
    \A x \in breaks[v] :
      x[1] \in written =>
        IF x[2] = "PREV_HASH_MISMATCH"
        THEN ~HasPredecessor(x[1], seen[v])
        ELSE Places(x[1].amount) < SCALE

(* The worker and the script accuse the same trades when they have read    *)
(* the same rows, although the worker does not recompute the hash of a row *)
(* out of the chain (chain-verifier.ts:82, verify-chain.ts:52-79).         *)
WalkersAgree ==
  \A u, v \in Verifiers :
    pc[u] = "reported" /\ pc[v] = "reported" /\ seen[u] = seen[v] =>
      BrokenRows(u) = BrokenRows(v)

(* A table nobody changed by SQL is reported as intact                     *)
(* (docs/adr/0004-hash-chained-trades.md).                                 *)
UntouchedIsClean ==
  edits = 0 => \A v \in Verifiers : pc[v] = "reported" => breaks[v] = {}

=============================================================================
