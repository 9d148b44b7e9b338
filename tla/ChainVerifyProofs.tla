------------------------- MODULE ChainVerifyProofs --------------------------
(***************************************************************************)
(* Silence of the chain verifiers is faithful, for all tables, brokers,    *)
(* verifiers, fills and changes by SQL.                                    *)
(*                                                                         *)
(* SilentIsFaithful speaks of reports; the invariant speaks of walks.  A   *)
(* changed row keeps the hash that recordFill computed, so a row whose     *)
(* recomputed hash is the stored one has the columns that were written;    *)
(* and a row that follows on expectedPrev follows on a row that was read   *)
(* before it, or starts the chain of its broker.                           *)
(***************************************************************************)
EXTENDS ChainVerify, FiniteSetTheorems, WellFoundedInduction, TLAPS

Row(i, t, b, a, p, h) ==
  [id |-> i, trade |-> t, broker |-> b, amount |-> a, prev |-> p, hash |-> h]

WrittenByCode ==
  \A w \in written :
    /\ w = Row(w.id, w.trade, w.broker, w.amount, w.prev, w.hash)
    /\ w.hash = computeHash(w.trade, MoneyText(w.amount), w.prev)

(* Whoever changes a row leaves its hash. *)
FromWritten(r) ==
  \E w \in written : r = Row(w.id, w.trade, w.broker, r.amount, r.prev, w.hash)

Domains ==
  /\ DOMAIN pc = Verifiers
  /\ DOMAIN todo = Verifiers
  /\ DOMAIN seen = Verifiers
  /\ DOMAIN left = Verifiers
  /\ DOMAIN expected = Verifiers
  /\ DOMAIN breaks = Verifiers

(* Nothing is left to do outside a walk. *)
AtRest(v) == pc[v] # "walking" => todo[v] = {} /\ left[v] = {}

(* The rows left are of one broker, and expectedPrev is of its chain. *)
OneChain(v) ==
  \A r \in left[v] :
    /\ r \in seen[v]
    /\ \A q \in left[v] : q.broker = r.broker
    /\ \/ expected[v] = GENESIS
       \/ \E q \in seen[v] : q.hash = expected[v] /\ q.broker = r.broker

Faithful(v, r) == r \in written /\ HasPredecessor(r, seen[v])

Checked(v) ==
  \A r \in seen[v] \ left[v] :
    (\E x \in breaks[v] : x[1] = r) \/ Faithful(v, r)

WalkInv(v) ==
  /\ \A r \in seen[v] : FromWritten(r)
  /\ AtRest(v)
  /\ OneChain(v)
  /\ Checked(v)

Inv ==
  /\ Domains
  /\ WrittenByCode
  /\ \A r \in rows : FromWritten(r)
  /\ \A v \in Verifiers : WalkInv(v)

-----------------------------------------------------------------------------
(* A hash tells a row from every other: who recomputes the stored hash has *)
(* the row as it was written.                                              *)
LEMMA HashTellsRow ==
  ASSUME WrittenByCode,
         NEW r, FromWritten(r), Recomputed(r) = r.hash
  PROVE  r \in written
<1>1. PICK w \in written :
        r = Row(w.id, w.trade, w.broker, r.amount, r.prev, w.hash)
  BY DEF FromWritten
<1>2. /\ r.trade = w.trade
      /\ r.hash = w.hash
  BY <1>1 DEF Row
<1>3. <<r.trade, DatabaseText(r.amount), r.prev>>
        = <<w.trade, MoneyText(w.amount), w.prev>>
  BY <1>2 DEF Recomputed, computeHash, WrittenByCode
<1>4. DatabaseText(r.amount) = MoneyText(w.amount) /\ r.prev = w.prev
  BY <1>3
<1>5. r.amount = w.amount
  <2> DEFINE n == Places(w.amount)
  <2>1. [units |-> r.amount, places |-> SCALE] = [units |-> w.amount, places |-> n]
    BY <1>4 DEF DatabaseText, MoneyText, Text
  <2> HIDE DEF n
  <2> QED BY <2>1
<1>6. r = w
  BY <1>1, <1>4, <1>5 DEF WrittenByCode
<1> QED BY <1>6

(* Fills and changes by SQL do not touch the walks, and what was written   *)
(* stays written.                                                          *)
LEMMA WalksKeep ==
  ASSUME Inv, UNCHANGED walkVars, written \subseteq written'
  PROVE  Domains' /\ \A v \in Verifiers : WalkInv(v)'
<1>1. Domains'
  BY DEF Inv, Domains, walkVars
<1>2. ASSUME NEW v \in Verifiers PROVE WalkInv(v)'
  <2>1. WalkInv(v) BY DEF Inv
  <2>2. (\A r \in seen[v] : FromWritten(r))'
    BY <2>1 DEF WalkInv, FromWritten, walkVars
  <2>3. AtRest(v)' /\ OneChain(v)'
    BY <2>1 DEF WalkInv, AtRest, OneChain, walkVars
  <2>4. Checked(v)'
    BY <2>1 DEF WalkInv, Checked, Faithful, HasPredecessor, walkVars
  <2> QED BY <2>2, <2>3, <2>4 DEF WalkInv
<1> QED BY <1>1, <1>2

LEMMA FillKeepsInv ==
  ASSUME Inv, NEW t \in Trades, NEW b \in Brokers, NEW a \in Amounts,
         RecordFill(t, b, a)
  PROVE  Inv'
<1> DEFINE h == computeHash(t, MoneyText(a), PrevHash(b))
           new == Row(lastId + 1, t, b, a, PrevHash(b), h)
<1>1. /\ rows' = rows \cup {new}
      /\ written' = written \cup {new}
      /\ UNCHANGED walkVars
  BY DEF RecordFill, Row
<1>2. PICK i, p, n : /\ n = Row(i, t, b, a, p, computeHash(t, MoneyText(a), p))
                     /\ n = new
  OBVIOUS
<1> HIDE DEF h, new
<1>3. /\ n = Row(n.id, n.trade, n.broker, n.amount, n.prev, n.hash)
      /\ n.hash = computeHash(n.trade, MoneyText(n.amount), n.prev)
  BY <1>2 DEF Row
<1>4. WrittenByCode'
  BY <1>1, <1>2, <1>3 DEF Inv, WrittenByCode
<1>5. (\A r \in rows : FromWritten(r))'
  BY <1>1, <1>2, <1>3 DEF Inv, FromWritten
<1>6. Domains' /\ \A v \in Verifiers : WalkInv(v)'
  BY <1>1, WalksKeep
<1> QED BY <1>4, <1>5, <1>6 DEF Inv

LEMMA EditKeepsInv ==
  ASSUME Inv, NEW r \in rows, NEW S, Edit(r, S),
         \A q \in S : \E w \in written :
           q = Row(w.id, w.trade, w.broker, q.amount, q.prev, w.hash)
  PROVE  Inv'
<1>1. /\ rows' = (rows \ {r}) \cup S
      /\ written' = written
      /\ UNCHANGED walkVars
  BY DEF Edit
<1>2. WrittenByCode'
  BY <1>1 DEF Inv, WrittenByCode
<1>3. (\A q \in rows : FromWritten(q))'
  BY <1>1 DEF Inv, FromWritten
<1>4. Domains' /\ \A v \in Verifiers : WalkInv(v)'
  BY <1>1, WalksKeep
<1> QED BY <1>2, <1>3, <1>4 DEF Inv

LEMMA ChangesKeepInv ==
  ASSUME Inv, NEW r \in rows,
         \/ \E a \in Amounts : ChangeAmount(r, a)
         \/ \E h \in {q.hash : q \in written} \cup {NoHash} : ChangePrev(r, h)
         \/ Remove(r)
  PROVE  Inv'
<1>1. PICK w \in written :
        r = Row(w.id, w.trade, w.broker, r.amount, r.prev, w.hash)
  BY DEF Inv, FromWritten
<1>2. CASE \E a \in Amounts : ChangeAmount(r, a)
  <2>1. PICK a \in Amounts : ChangeAmount(r, a)
    BY <1>2
  <2>2. [r EXCEPT !.amount = a] = Row(w.id, w.trade, w.broker, a, r.prev, w.hash)
    BY <1>1 DEF Row
  <2>3. PICK q : /\ q = [r EXCEPT !.amount = a]
                 /\ q = Row(w.id, w.trade, w.broker, q.amount, q.prev, w.hash)
    BY <2>2 DEF Row
  <2>4. Edit(r, {q})
    BY <2>1, <2>3 DEF ChangeAmount
  <2>5. \A z \in {q} : \E w0 \in written :
          z = Row(w0.id, w0.trade, w0.broker, z.amount, z.prev, w0.hash)
    BY <2>3
  <2> QED BY <2>4, <2>5, EditKeepsInv
<1>3. CASE \E h \in {q.hash : q \in written} \cup {NoHash} : ChangePrev(r, h)
  <2>1. PICK h : ChangePrev(r, h)
    BY <1>3
  <2>2. [r EXCEPT !.prev = h] = Row(w.id, w.trade, w.broker, r.amount, h, w.hash)
    BY <1>1 DEF Row
  <2>3. PICK q : /\ q = [r EXCEPT !.prev = h]
                 /\ q = Row(w.id, w.trade, w.broker, q.amount, q.prev, w.hash)
    BY <2>2 DEF Row
  <2>4. Edit(r, {q})
    BY <2>1, <2>3 DEF ChangePrev
  <2>5. \A z \in {q} : \E w0 \in written :
          z = Row(w0.id, w0.trade, w0.broker, z.amount, z.prev, w0.hash)
    BY <2>3
  <2> QED BY <2>4, <2>5, EditKeepsInv
<1>4. CASE Remove(r)
  BY <1>4, EditKeepsInv DEF Remove
<1> QED BY <1>2, <1>3, <1>4

-----------------------------------------------------------------------------
(* A verifier moves: the table stays, and so do the walks of the others.   *)
LEMMA WalkStep ==
  ASSUME Inv, NEW v \in Verifiers, UNCHANGED tableVars, Domains', WalkInv(v)',
         \A u \in Verifiers : u # v =>
           /\ pc'[u] = pc[u] /\ todo'[u] = todo[u] /\ seen'[u] = seen[u]
           /\ left'[u] = left[u] /\ expected'[u] = expected[u]
           /\ breaks'[u] = breaks[u]
  PROVE  Inv'
<1>1. WrittenByCode' /\ (\A r \in rows : FromWritten(r))'
  BY DEF Inv, WrittenByCode, FromWritten, tableVars
<1>2. ASSUME NEW u \in Verifiers, u # v PROVE WalkInv(u)'
  <2>1. WalkInv(u) BY DEF Inv
  <2>2. (\A r \in seen[u] : FromWritten(r))'
    BY <2>1, <1>2 DEF WalkInv, FromWritten, tableVars
  <2>3. AtRest(u)' /\ OneChain(u)'
    BY <2>1, <1>2 DEF WalkInv, AtRest, OneChain
  <2>4. Checked(u)'
    BY <2>1, <1>2 DEF WalkInv, Checked, Faithful, HasPredecessor, tableVars
  <2> QED BY <2>2, <2>3, <2>4 DEF WalkInv
<1> QED BY <1>1, <1>2 DEF Inv

LEMMA ReadBrokersKeepsInv ==
  ASSUME Inv, NEW v \in Verifiers, ReadBrokers(v)
  PROVE  Inv'
<1>1. PICK B : todo' = [todo EXCEPT ![v] = B]
  BY DEF ReadBrokers
<1>2. Domains'
  BY <1>1 DEF Inv, Domains, ReadBrokers
<1>3. pc'[v] = "walking" /\ seen'[v] = {} /\ left'[v] = {}
  BY DEF ReadBrokers, Inv, Domains
<1>4. WalkInv(v)'
  BY <1>3 DEF WalkInv, AtRest, OneChain, Checked
<1> QED BY <1>1, <1>2, <1>4, WalkStep DEF ReadBrokers, Inv, Domains

LEMMA ReadRowsKeepsInv ==
  ASSUME Inv, NEW v \in Verifiers, NEW b \in Brokers, ReadRows(v, b)
  PROVE  Inv'
<1>1. WalkInv(v) BY DEF Inv
<1>2. Domains'
  BY DEF Inv, Domains, ReadRows
<1>3. /\ seen'[v] = seen[v] \cup RowsOf(b)
      /\ left'[v] = RowsOf(b)
      /\ expected'[v] = GENESIS
      /\ left[v] = {}
      /\ pc[v] = "walking" /\ pc' = pc
      /\ UNCHANGED <<tableVars, breaks>>
  BY <1>1 DEF ReadRows, Inv, Domains, WalkInv, AtRest
<1>4. \A r \in RowsOf(b) : r \in rows /\ r.broker = b
  BY DEF RowsOf
<1>5. (\A r \in seen[v] : FromWritten(r))'
  BY <1>1, <1>3, <1>4 DEF Inv, WalkInv, FromWritten, tableVars
<1>6. AtRest(v)' /\ OneChain(v)'
  BY <1>3, <1>4 DEF AtRest, OneChain
<1>7. Checked(v)'
  <2> SUFFICES ASSUME NEW r \in (seen[v] \ left[v])',
                      ~(\E x \in breaks[v] : x[1] = r)
               PROVE  r \in written /\ HasPredecessor(r, seen'[v])
    BY <1>3 DEF Checked, Faithful, HasPredecessor, tableVars
  <2>1. r \in written /\ HasPredecessor(r, seen[v])
    BY <1>1, <1>3 DEF WalkInv, Checked, Faithful
  <2> QED BY <2>1, <1>3 DEF HasPredecessor
<1>8. WalkInv(v)'
  BY <1>5, <1>6, <1>7 DEF WalkInv
<1> QED BY <1>2, <1>8, WalkStep DEF ReadRows, Inv, Domains

LEMMA CheckRowKeepsInv ==
  ASSUME Inv, NEW v \in Verifiers, NEW r \in left[v], CheckRow(v, r)
  PROVE  Inv'
<1>1. WalkInv(v) BY DEF Inv
<1>2. Domains'
  BY DEF Inv, Domains, CheckRow
<1>3. /\ left'[v] = left[v] \ {r}
      /\ expected'[v] = r.hash
      /\ breaks'[v] = breaks[v] \cup ({r} \X Findings(v, r))
      /\ UNCHANGED <<tableVars, pc, todo, seen>>
  BY DEF CheckRow, Inv, Domains
<1>4. r \in seen[v] /\ FromWritten(r)
  BY <1>1 DEF WalkInv, OneChain
<1>5. (\A q \in seen[v] : FromWritten(q))'
  BY <1>1, <1>3 DEF WalkInv, FromWritten, tableVars
<1>6. AtRest(v)'
  BY <1>1, <1>3 DEF WalkInv, AtRest
<1>7. OneChain(v)'
  BY <1>1, <1>3, <1>4 DEF WalkInv, OneChain
<1>8. (\E x \in breaks'[v] : x[1] = r) \/ Faithful(v, r)
  <2>1. CASE Findings(v, r) = {}
    <3>1. r.prev = expected[v] /\ Recomputed(r) = r.hash
      BY <2>1 DEF Findings, Unlinked
    <3>2. r \in written
      BY <3>1, <1>4, HashTellsRow DEF Inv
    <3>3. HasPredecessor(r, seen[v])
      BY <3>1, <1>1 DEF WalkInv, OneChain, HasPredecessor
    <3> QED BY <3>2, <3>3 DEF Faithful
  <2>2. CASE Findings(v, r) # {}
    <3>1. PICK f \in Findings(v, r) : TRUE
      BY <2>2
    <3>2. <<r, f>> \in breaks'[v] /\ <<r, f>>[1] = r
      BY <3>1, <1>3
    <3> QED BY <3>2
  <2> QED BY <2>1, <2>2
<1>9. \A q \in seen[v] \ left[v] :
        (\E x \in breaks'[v] : x[1] = q) \/ Faithful(v, q)
  BY <1>1, <1>3 DEF WalkInv, Checked
<1>10. Checked(v)'
  BY <1>3, <1>8, <1>9 DEF Checked, Faithful, HasPredecessor, tableVars
<1>11. WalkInv(v)'
  BY <1>5, <1>6, <1>7, <1>10 DEF WalkInv
<1> QED BY <1>2, <1>11, WalkStep DEF CheckRow, Inv, Domains

LEMMA ReportKeepsInv ==
  ASSUME Inv, NEW v \in Verifiers, Report(v)
  PROVE  Inv'
<1>1. WalkInv(v) BY DEF Inv
<1>2. Domains'
  BY DEF Inv, Domains, Report
<1>3. /\ todo[v] = {} /\ left[v] = {}
      /\ UNCHANGED <<tableVars, todo, seen, left, expected, breaks>>
  BY DEF Report
<1>4. (\A r \in seen[v] : FromWritten(r))'
  BY <1>1, <1>3 DEF WalkInv, FromWritten, tableVars
<1>5. AtRest(v)' /\ OneChain(v)'
  BY <1>3 DEF AtRest, OneChain
<1>6. Checked(v)'
  BY <1>1, <1>3 DEF WalkInv, Checked, Faithful, HasPredecessor, tableVars
<1>7. WalkInv(v)'
  BY <1>4, <1>5, <1>6 DEF WalkInv
<1> QED BY <1>2, <1>7, WalkStep DEF Report, Inv, Domains

LEMMA AbortKeepsInv ==
  ASSUME Inv, NEW v \in Verifiers, Abort(v)
  PROVE  Inv'
<1>1. Domains'
  BY DEF Inv, Domains, Abort
<1>2. todo'[v] = {} /\ seen'[v] = {} /\ left'[v] = {}
  BY DEF Abort, Inv, Domains
<1>3. WalkInv(v)'
  BY <1>2 DEF WalkInv, AtRest, OneChain, Checked
<1> QED BY <1>1, <1>3, WalkStep DEF Abort, Inv, Domains

-----------------------------------------------------------------------------
LEMMA StepKeepsInv == Inv /\ [Next]_vars => Inv'
<1> SUFFICES ASSUME Inv, [Next]_vars PROVE Inv'
  OBVIOUS
<1>1. ASSUME NEW t \in Trades, NEW b \in Brokers, NEW a \in Amounts,
             RecordFill(t, b, a)
      PROVE  Inv'
  BY <1>1, FillKeepsInv
<1>2. ASSUME NEW r \in rows,
             \/ \E a \in Amounts : ChangeAmount(r, a)
             \/ \E h \in {q.hash : q \in written} \cup {NoHash} : ChangePrev(r, h)
             \/ Remove(r)
      PROVE  Inv'
  BY <1>2, ChangesKeepInv
<1>3. ASSUME NEW v \in Verifiers, ReadBrokers(v) PROVE Inv'
  BY <1>3, ReadBrokersKeepsInv
<1>4. ASSUME NEW v \in Verifiers, NEW b \in Brokers, ReadRows(v, b) PROVE Inv'
  BY <1>4, ReadRowsKeepsInv
<1>5. ASSUME NEW v \in Verifiers, NEW r \in left[v], CheckRow(v, r) PROVE Inv'
  BY <1>5, CheckRowKeepsInv
<1>6. ASSUME NEW v \in Verifiers, Report(v) PROVE Inv'
  BY <1>6, ReportKeepsInv
<1>7. ASSUME NEW v \in Verifiers, Abort(v) PROVE Inv'
  BY <1>7, AbortKeepsInv
<1>8. CASE UNCHANGED vars
  <2>1. UNCHANGED walkVars /\ UNCHANGED tableVars
    BY <1>8 DEF vars
  <2>2. WrittenByCode' /\ (\A r \in rows : FromWritten(r))'
    BY <2>1 DEF Inv, WrittenByCode, FromWritten, tableVars
  <2>3. Domains' /\ \A v \in Verifiers : WalkInv(v)'
    BY <2>1, WalksKeep DEF tableVars
  <2> QED BY <2>2, <2>3 DEF Inv
<1> QED BY <1>1, <1>2, <1>3, <1>4, <1>5, <1>6, <1>7, <1>8 DEF Next

(* What a report of the chain verifier or of the script is silent about is *)
(* as recordFill wrote it, and follows on a row that was read as well      *)
(* (chain-verifier.ts:47-51, 69-108, verify-chain.ts:49-80).               *)
THEOREM SilenceIsFaithful == Spec => []SilentIsFaithful
<1>1. Init => Inv
  BY DEF Init, Inv, Domains, WrittenByCode, WalkInv, AtRest, OneChain, Checked
<1>2. Inv => SilentIsFaithful
  <2> SUFFICES ASSUME Inv, NEW v \in Verifiers, pc[v] = "reported",
                      NEW r \in seen[v] \ BrokenRows(v)
               PROVE  r \in written /\ HasPredecessor(r, seen[v])
    BY DEF SilentIsFaithful
  <2>1. left[v] = {} /\ Checked(v)
    BY DEF Inv, WalkInv, AtRest
  <2>2. ~(\E x \in breaks[v] : x[1] = r)
    BY DEF BrokenRows
  <2> QED BY <2>1, <2>2 DEF Checked, Faithful
<1> QED BY <1>1, <1>2, StepKeepsInv, PTL DEF Spec


-----------------------------------------------------------------------------
(***************************************************************************)
(* The order of a chain.                                                   *)
(*                                                                         *)
(* What a walk reports is decided by the rows it has read: a row follows   *)
(* on the greatest row of its broker below it among these, and on GENESIS  *)
(* when there is none.  A row as it was written either follows on the row  *)
(* it was written behind or that row is gone, in every table SQL may leave *)
(* behind: fills only add rows above all others, and a change by SQL moves *)
(* no row.                                                                 *)
(***************************************************************************)
Before(S, r) == {q \in S : q.broker = r.broker /\ q.id < r.id}

Follows(h, S, r) ==
  \/ h = GENESIS /\ Before(S, r) = {}
  \/ \E q \in Before(S, r) : h = q.hash /\ \A z \in Before(S, r) : z.id <= q.id

OneRowPerId(S) == \A q, r \in S : q.id = r.id /\ q.broker = r.broker => q = r

Linked(S, R) == \A r \in S : HasPredecessor(r, R) => Follows(r.prev, R, r)

(* The sequence numbers the rows as they are written. *)
Numbered ==
  /\ lastId \in Nat
  /\ edits \in 0 .. MaxEdits
  /\ lastId = Cardinality({w.trade : w \in written})
  /\ IsFiniteSet({w.trade : w \in written})
  /\ \A w \in written : /\ w.trade \in Trades /\ w.amount \in Amounts
                         /\ w.id \in Nat /\ 1 <= w.id /\ w.id <= lastId

Identified == \A w, x \in written : w.id = x.id \/ w.trade = x.trade => w = x

Chained ==
  \A w \in written :
    \/ w.prev = GENESIS
    \/ \E q \in written : q.hash = w.prev /\ q.broker = w.broker /\ q.id < w.id

Table ==
  /\ Numbered
  /\ Identified
  /\ Chained
  /\ OneRowPerId(rows)
  /\ Linked(written, rows)

-----------------------------------------------------------------------------
LEMMA LeastNumber ==
  ASSUME NEW T, T \subseteq Nat, T # {}
  PROVE  \E m \in T : \A k \in T : m <= k
<1>1. PICK m \in T : \A k \in T : <<k, m>> \notin OpToRel(<, Nat)
  BY NatLessThanWellFounded, WFMin
<1>2. \A k \in T : m <= k
  <2> SUFFICES ASSUME NEW k \in T PROVE m <= k
    OBVIOUS
  <2>1. k \in Nat /\ m \in Nat /\ ~(k < m)
    BY <1>1 DEF OpToRel
  <2>. QED BY <2>1
<1>. QED BY <1>1, <1>2

(* ORDER BY id DESC LIMIT 1 finds a row. *)
LEMMA GreatestRow ==
  ASSUME NEW S, S # {}, NEW n \in Nat, \A q \in S : q.id \in Nat /\ q.id <= n
  PROVE  \E r \in S : \A q \in S : q.id <= r.id
<1> DEFINE T == {m \in Nat : \A q \in S : q.id <= m}
<1>1. PICK m \in T : \A k \in T : m <= k
  <2>1. n \in T /\ T \subseteq Nat
    OBVIOUS
  <2> HIDE DEF T
  <2>. QED BY <2>1, LeastNumber
<1>2. PICK q \in S : TRUE
  OBVIOUS
<1>3. ASSUME \A r \in S : r.id # m
      PROVE  FALSE
  <2>1. \A r \in S : r.id <= m - 1
    BY <1>1, <1>3
  <2>2. m - 1 \in Nat
    BY <1>1, <1>2, <2>1
  <2>. QED BY <1>1, <2>1, <2>2
<1>4. PICK r \in S : r.id = m
  BY <1>3
<1>. QED BY <1>1, <1>4

(* Money prints no more places than the column has. *)
LEMMA PlacesFit ==
  ASSUME NEW a \in Nat
  PROVE  Places(a) \in 0 .. SCALE
<1>0. SCALE \in Nat
  BY ChainVerifyAssumption
<1> DEFINE Exact(n) == a % (10 ^ (SCALE - n)) = 0
           T == {n \in 0 .. SCALE : Exact(n)}
<1>1. Exact(SCALE)
  <2>1. SCALE - SCALE = 0
    BY <1>0
  <2>2. a % (10 ^ 0) = 0
    OBVIOUS
  <2>. QED BY <2>1, <2>2
<1> HIDE DEF Exact
<1>2. SCALE \in T /\ T \subseteq Nat
  BY <1>0, <1>1
<1>3. PICK m \in T : \A k \in T : m <= k
  <2> HIDE DEF T
  <2>. QED BY <1>2, LeastNumber
<1>4. m \in 0 .. SCALE /\ Exact(m) /\ \A k \in 0 .. m : k < m => ~Exact(k)
  BY <1>0, <1>3
<1>. QED BY <1>4 DEF Places, Exact


-----------------------------------------------------------------------------
(* A row follows on one hash. *)
LEMMA FollowsOne ==
  ASSUME NEW S, NEW r, NEW g, NEW h, OneRowPerId(S), \A q \in S : q.id \in Nat,
         Follows(g, S, r), Follows(h, S, r)
  PROVE  g = h
<1>1. CASE Before(S, r) = {}
  BY <1>1 DEF Follows
<1>2. CASE Before(S, r) # {}
  <2>1. PICK q \in Before(S, r) : g = q.hash /\ \A z \in Before(S, r) : z.id <= q.id
    BY <1>2 DEF Follows
  <2>2. PICK p \in Before(S, r) : h = p.hash /\ \A z \in Before(S, r) : z.id <= p.id
    BY <1>2 DEF Follows
  <2>3. q \in S /\ p \in S /\ q.broker = p.broker
    BY DEF Before
  <2>4. q.id = p.id
    BY <2>1, <2>2, <2>3
  <2>. QED BY <2>1, <2>2, <2>3, <2>4 DEF OneRowPerId
<1>. QED BY <1>1, <1>2

(* Only the rows of its broker decide what a row follows on. *)
LEMMA OwnChain ==
  ASSUME NEW S, NEW R, NEW r,
         \A q : q.broker = r.broker => (q \in S <=> q \in R)
  PROVE  /\ \A h : Follows(h, S, r) <=> Follows(h, R, r)
         /\ HasPredecessor(r, S) <=> HasPredecessor(r, R)
<1>1. Before(S, r) = Before(R, r)
  BY DEF Before
<1>2. HasPredecessor(r, S) <=> HasPredecessor(r, R)
  BY DEF HasPredecessor
<1>. QED BY <1>1, <1>2 DEF Follows

(* No record hashes to GENESIS. *)
LEMMA HashNotGenesis ==
  ASSUME NEW t, NEW x, NEW p
  PROVE  computeHash(t, x, p) # GENESIS
<1>1. <<t, x, p>> # <<>>
  OBVIOUS
<1>. QED BY <1>1 DEF computeHash, GENESIS

LEMMA RowFacts ==
  ASSUME WrittenByCode, Numbered, NEW r, FromWritten(r)
  PROVE  /\ r.id \in Nat /\ 1 <= r.id /\ r.id <= lastId
         /\ r.hash # GENESIS
         /\ \E w \in written : /\ r.id = w.id /\ r.trade = w.trade
                               /\ r.broker = w.broker /\ r.hash = w.hash
<1>1. PICK w \in written :
        r = Row(w.id, w.trade, w.broker, r.amount, r.prev, w.hash)
  BY DEF FromWritten
<1>2. r.id = w.id /\ r.trade = w.trade /\ r.broker = w.broker /\ r.hash = w.hash
  BY <1>1 DEF Row
<1>3. w.hash # GENESIS
  BY HashNotGenesis DEF WrittenByCode
<1>4. w.id \in Nat /\ 1 <= w.id /\ w.id <= lastId
  BY DEF Numbered
<1>. QED BY <1>2, <1>3, <1>4

(* A hash names a place in the chain. *)
LEMMA HashTellsPlace ==
  ASSUME WrittenByCode, Numbered, Identified,
         NEW q, NEW r, FromWritten(q), FromWritten(r), q.hash = r.hash
  PROVE  q.id = r.id /\ q.broker = r.broker /\ q.trade = r.trade
<1>1. PICK w \in written : /\ q.id = w.id /\ q.trade = w.trade
                           /\ q.broker = w.broker /\ q.hash = w.hash
  BY RowFacts
<1>2. PICK x \in written : /\ r.id = x.id /\ r.trade = x.trade
                           /\ r.broker = x.broker /\ r.hash = x.hash
  BY RowFacts
<1>3. computeHash(w.trade, MoneyText(w.amount), w.prev)
        = computeHash(x.trade, MoneyText(x.amount), x.prev)
  BY <1>1, <1>2 DEF WrittenByCode
<1>4. w.trade = x.trade
  BY <1>3 DEF computeHash
<1>5. w = x
  BY <1>4 DEF Identified
<1>. QED BY <1>1, <1>2, <1>5

LEMMA WrittenFrom ==
  ASSUME WrittenByCode, NEW w \in written
  PROVE  FromWritten(w)
BY DEF WrittenByCode, FromWritten

(* What recordFill chains a trade to: the greatest row of the broker. *)
LEMMA PrevHashFound ==
  ASSUME Inv, Table, NEW b
  PROVE  \/ RowsOf(b) = {} /\ PrevHash(b) = GENESIS
         \/ \E q \in RowsOf(b) : PrevHash(b) = q.hash /\ \A z \in RowsOf(b) : z.id <= q.id
<1>1. CASE RowsOf(b) = {}
  BY <1>1 DEF PrevHash
<1>2. CASE RowsOf(b) # {}
  <2>1. \A q \in RowsOf(b) : q.id \in Nat /\ q.id <= lastId
    BY RowFacts DEF RowsOf, Inv, Table
  <2>2. \E r \in RowsOf(b) : \A q \in RowsOf(b) : q.id <= r.id
    BY <1>2, <2>1, GreatestRow DEF Table, Numbered
  <2>. QED BY <1>2, <2>2 DEF PrevHash
<1>. QED BY <1>1, <1>2


-----------------------------------------------------------------------------
LEMMA FillKeepsTable ==
  ASSUME Inv, Table, NEW t \in Trades, NEW b \in Brokers, NEW a \in Amounts,
         RecordFill(t, b, a)
  PROVE  Table'
<1>1. PICK n : /\ rows' = rows \cup {n} /\ written' = written \cup {n}
               /\ lastId' = lastId + 1 /\ edits' = edits
               /\ n.id = lastId + 1 /\ n.trade = t /\ n.broker = b /\ n.amount = a
               /\ n.prev = PrevHash(b)
               /\ n.hash = computeHash(t, MoneyText(a), PrevHash(b))
  <2> DEFINE p == PrevHash(b)
             h == computeHash(t, MoneyText(a), p)
             n == Row(lastId + 1, t, b, a, p, h)
  <2>1. /\ rows' = rows \cup {n} /\ written' = written \cup {n}
        /\ lastId' = lastId + 1 /\ edits' = edits
    BY DEF RecordFill, Row
  <2>2. /\ n.id = lastId + 1 /\ n.trade = t /\ n.broker = b
        /\ n.amount = a /\ n.prev = p /\ n.hash = h
    <3> HIDE DEF p, h
    <3>. QED BY DEF Row
  <2> HIDE DEF n
  <2>. QED BY <2>1, <2>2
<1>2. \A w \in written : w.trade # t
  BY DEF RecordFill
<1>3. /\ WrittenByCode /\ Numbered /\ Identified /\ Chained
      /\ OneRowPerId(rows) /\ Linked(written, rows)
      /\ \A r \in rows : FromWritten(r)
  BY DEF Inv, Table
<1>4. lastId \in Nat /\ \A w \in written : w.id \in Nat /\ w.id <= lastId
  BY <1>3 DEF Numbered
<1>5. \A r \in rows : r.id \in Nat /\ r.id <= lastId
  BY <1>3, RowFacts
<1>6. Numbered'
  <2> DEFINE T == {w.trade : w \in written}
  <2>1. {w.trade : w \in written'} = T \cup {t} /\ t \notin T
    BY <1>1, <1>2
  <2>2. IsFiniteSet(T) /\ lastId = Cardinality(T)
    BY <1>3 DEF Numbered
  <2>3. IsFiniteSet(T \cup {t}) /\ Cardinality(T \cup {t}) = lastId + 1
    <3> HIDE DEF T
    <3>. QED BY <2>1, <2>2, FS_AddElement
  <2>4. \A w \in written' : /\ w.trade \in Trades /\ w.amount \in Amounts
                            /\ w.id \in Nat /\ 1 <= w.id /\ w.id <= lastId'
    BY <1>1, <1>3, <1>4 DEF Numbered
  <2>. QED BY <1>1, <1>3, <1>4, <2>1, <2>3, <2>4 DEF Numbered
<1>7. Identified'
  BY <1>1, <1>2, <1>3, <1>4 DEF Identified
<1>8. Chained'
  <2>1. ASSUME n.prev # GENESIS
        PROVE  \E q \in written : q.hash = n.prev /\ q.broker = n.broker /\ q.id < n.id
    <3>1. PICK q \in RowsOf(b) : PrevHash(b) = q.hash
      BY <1>1, <2>1, PrevHashFound
    <3>2. q \in rows /\ q.broker = b
      BY DEF RowsOf
    <3>3. PICK w \in written : w.id = q.id /\ w.broker = q.broker /\ w.hash = q.hash
      BY <1>3, <3>2, RowFacts
    <3>. QED BY <1>1, <1>4, <3>1, <3>2, <3>3
  <2>. QED BY <1>1, <1>3, <2>1 DEF Chained
<1>9. OneRowPerId(rows')
  BY <1>1, <1>3, <1>4, <1>5 DEF OneRowPerId
<1>10. Follows(n.prev, rows', n)
  <2>1. Before(rows', n) = RowsOf(b)
    BY <1>1, <1>4, <1>5 DEF Before, RowsOf
  <2>. QED BY <1>1, <2>1, PrevHashFound DEF Follows
<1>11. ASSUME NEW w \in written, HasPredecessor(w, rows')
       PROVE  Follows(w.prev, rows', w)
  <2>1. Before(rows', w) = Before(rows, w)
    BY <1>1, <1>4 DEF Before
  <2>2. w.prev # GENESIS => n.hash # w.prev
    <3> SUFFICES ASSUME NEW q \in written, q.hash = w.prev PROVE n.hash # w.prev
      BY <1>3 DEF Chained
    <3>1. q.hash = computeHash(q.trade, MoneyText(q.amount), q.prev) /\ q.trade # t
      BY <1>2, <1>3 DEF WrittenByCode
    <3>. QED BY <1>1, <3>1 DEF computeHash
  <2>3. HasPredecessor(w, rows)
    BY <1>1, <1>11, <2>2 DEF HasPredecessor
  <2>4. Follows(w.prev, rows, w)
    BY <1>3, <2>3 DEF Linked
  <2>. QED BY <2>1, <2>4 DEF Follows
<1>12. Linked(written', rows')
  BY <1>1, <1>10, <1>11 DEF Linked
<1>. QED BY <1>6, <1>7, <1>8, <1>9, <1>12 DEF Table, OneRowPerId, Linked, HasPredecessor, Follows, Before

(* A change by SQL leaves the place of a row and its hash. *)
LEMMA EditKeepsTable ==
  ASSUME Inv, Table, NEW r \in rows, NEW S, Edit(r, S),
         \A q, p \in S : q = p,
         \A q \in S : q.id = r.id /\ q.broker = r.broker /\ q.hash = r.hash
  PROVE  Table'
<1>1. /\ rows' = (rows \ {r}) \cup S /\ edits' = edits + 1 /\ edits < MaxEdits
      /\ UNCHANGED <<lastId, written>>
  BY DEF Edit
<1>2. /\ WrittenByCode /\ Numbered /\ Identified /\ Chained
      /\ OneRowPerId(rows) /\ Linked(written, rows)
      /\ \A q \in rows : FromWritten(q)
  BY DEF Inv, Table
<1>3. Numbered' /\ Identified' /\ Chained'
  <2>1. edits' \in 0 .. MaxEdits
    BY <1>1, <1>2, ChainVerifyAssumption DEF Numbered
  <2>. QED BY <1>1, <1>2, <2>1 DEF Numbered, Identified, Chained
<1>4. OneRowPerId(rows')
  BY <1>1, <1>2 DEF OneRowPerId
<1>5. ASSUME NEW w \in written, HasPredecessor(w, rows')
      PROVE  Follows(w.prev, rows', w)
  <2>1. \A q \in rows' : \E p \in rows : p.id = q.id /\ p.broker = q.broker /\ p.hash = q.hash
    BY <1>1
  <2>2. HasPredecessor(w, rows)
    BY <1>5, <2>1 DEF HasPredecessor
  <2>3. Follows(w.prev, rows, w)
    BY <1>2, <2>2 DEF Linked
  <2>4. CASE w.prev = GENESIS
    <3>1. Before(rows, w) = {}
      BY <1>2, <2>3, <2>4, RowFacts DEF Follows, Before
    <3>2. Before(rows', w) = {}
      BY <2>1, <3>1 DEF Before
    <3>. QED BY <2>4, <3>2 DEF Follows
  <2>5. CASE w.prev # GENESIS
    <3>1. PICK q \in Before(rows, w) :
            w.prev = q.hash /\ \A z \in Before(rows, w) : z.id <= q.id
      BY <2>3, <2>5 DEF Follows
    <3>2. PICK p \in rows' : p.hash = w.prev /\ p.broker = w.broker
      BY <1>5, <2>5 DEF HasPredecessor
    <3>3. PICK x \in rows : x.id = p.id /\ x.broker = p.broker /\ x.hash = p.hash
      BY <2>1
    <3>4. p.id = q.id
      BY <1>2, <3>1, <3>2, <3>3, HashTellsPlace DEF Before
    <3>5. p \in Before(rows', w)
      BY <3>1, <3>2, <3>4 DEF Before
    <3>6. \A z \in Before(rows', w) : z.id <= p.id
      BY <2>1, <3>1, <3>4 DEF Before
    <3>. QED BY <3>2, <3>5, <3>6 DEF Follows
  <2>. QED BY <2>4, <2>5
<1>6. Linked(written', rows')
  BY <1>1, <1>5 DEF Linked
<1>. QED BY <1>3, <1>4, <1>6 DEF Table, OneRowPerId, Linked, HasPredecessor, Follows, Before

LEMMA ChangesKeepTable ==
  ASSUME Inv, Table, NEW r \in rows,
         \/ \E a \in Amounts : ChangeAmount(r, a)
         \/ \E h \in {q.hash : q \in written} \cup {NoHash} : ChangePrev(r, h)
         \/ Remove(r)
  PROVE  Table'
<1>0. PICK w \in written :
        r = Row(w.id, w.trade, w.broker, r.amount, r.prev, w.hash)
  BY DEF Inv, FromWritten
<1>1. ASSUME NEW a, ChangeAmount(r, a) PROVE Table'
  <2>1. [r EXCEPT !.amount = a] = Row(w.id, w.trade, w.broker, a, r.prev, w.hash)
    BY <1>0 DEF Row
  <2>2. PICK q : /\ q = [r EXCEPT !.amount = a]
                 /\ q.id = w.id /\ q.broker = w.broker /\ q.hash = w.hash
    BY <2>1 DEF Row
  <2>3. r.id = w.id /\ r.broker = w.broker /\ r.hash = w.hash
    BY <1>0 DEF Row
  <2>4. Edit(r, {q})
    BY <1>1, <2>2 DEF ChangeAmount
  <2>5. /\ \A x, y \in {q} : x = y
        /\ \A x \in {q} : x.id = r.id /\ x.broker = r.broker /\ x.hash = r.hash
    BY <2>2, <2>3
  <2>. QED BY <2>4, <2>5, EditKeepsTable
<1>2. ASSUME NEW h, ChangePrev(r, h) PROVE Table'
  <2>1. [r EXCEPT !.prev = h] = Row(w.id, w.trade, w.broker, r.amount, h, w.hash)
    BY <1>0 DEF Row
  <2>2. PICK q : /\ q = [r EXCEPT !.prev = h]
                 /\ q.id = w.id /\ q.broker = w.broker /\ q.hash = w.hash
    BY <2>1 DEF Row
  <2>3. r.id = w.id /\ r.broker = w.broker /\ r.hash = w.hash
    BY <1>0 DEF Row
  <2>4. Edit(r, {q})
    BY <1>2, <2>2 DEF ChangePrev
  <2>5. /\ \A x, y \in {q} : x = y
        /\ \A x \in {q} : x.id = r.id /\ x.broker = r.broker /\ x.hash = r.hash
    BY <2>2, <2>3
  <2>. QED BY <2>4, <2>5, EditKeepsTable
<1>3. CASE Remove(r)
  BY <1>3, EditKeepsTable DEF Remove
<1>. QED BY <1>1, <1>2, <1>3


-----------------------------------------------------------------------------
(* The rows of one broker come from one SELECT, so the rows read of it are *)
(* what the table held then; the walk goes up their ids.                   *)
ReadOnce(v) ==
  /\ left[v] \subseteq seen[v]
  /\ OneRowPerId(seen[v])
  /\ \A r \in seen[v] : r.broker \notin todo[v]
  /\ Linked(seen[v] \cap written, seen[v])

Upwards(v) ==
  \A z \in seen[v] \ left[v], r \in left[v] : z.broker = r.broker => z.id < r.id

(* expectedPrev is what the next row should follow on. *)
Positioned(v) ==
  \A r \in left[v] :
    (\A q \in left[v] : r.id <= q.id) => Follows(expected[v], seen[v], r)

(* What was found is what the rows read say, whoever walks. *)
Judged(v) ==
  /\ \A r \in seen[v] \ left[v] :
       ~Follows(r.prev, seen[v], r) \/ Recomputed(r) # r.hash =>
         \E x \in breaks[v] : x[1] = r
  /\ \A x \in breaks[v] :
       /\ x[1] \in seen[v] \ left[v]
       /\ x[2] = "PREV_HASH_MISMATCH" => ~Follows(x[1].prev, seen[v], x[1])
       /\ x[2] # "PREV_HASH_MISMATCH" => Recomputed(x[1]) # x[1].hash

Walk(v) == ReadOnce(v) /\ Upwards(v) /\ Positioned(v) /\ Judged(v)

OrderInv ==
  /\ pc \in [Verifiers -> {"idle", "walking", "reported"}]
  /\ Table
  /\ \A v \in Verifiers : Walk(v)

-----------------------------------------------------------------------------
(* The walk of a verifier that does not move: what is written meanwhile it *)
(* has not read.                                                           *)
LEMMA WalkStays ==
  ASSUME NEW v \in Verifiers, Walk(v),
         todo'[v] = todo[v], seen'[v] = seen[v], left'[v] = left[v],
         expected'[v] = expected[v], breaks'[v] = breaks[v],
         seen[v] \cap written' = seen[v] \cap written
  PROVE  Walk(v)'
<1>1. ReadOnce(v)'
  BY DEF Walk, ReadOnce, Linked, OneRowPerId, HasPredecessor, Follows, Before
<1>2. Upwards(v)'
  BY DEF Walk, Upwards
<1>3. Positioned(v)'
  BY DEF Walk, Positioned, Follows, Before
<1>4. Judged(v)'
  BY DEF Walk, Judged, Follows, Before, Recomputed
<1>. QED BY <1>1, <1>2, <1>3, <1>4 DEF Walk

LEMMA FillKeepsWalks ==
  ASSUME Inv, OrderInv, NEW t \in Trades, NEW b \in Brokers, NEW a \in Amounts,
         RecordFill(t, b, a)
  PROVE  \A v \in Verifiers : Walk(v)'
<1> SUFFICES ASSUME NEW v \in Verifiers PROVE Walk(v)'
  OBVIOUS
<1>1. Walk(v) /\ WrittenByCode /\ Numbered /\ \A r \in seen[v] : FromWritten(r)
  BY DEF Inv, OrderInv, Table, WalkInv
<1>2. PICK n : written' = written \cup {n} /\ n.id = lastId + 1
  <2> DEFINE p == PrevHash(b)
             h == computeHash(t, MoneyText(a), p)
             n == Row(lastId + 1, t, b, a, p, h)
  <2>1. written' = written \cup {n}
    BY DEF RecordFill, Row
  <2>2. n.id = lastId + 1
    <3> HIDE DEF p, h
    <3>. QED BY DEF Row
  <2> HIDE DEF n
  <2>. QED BY <2>1, <2>2
<1>3. n \notin seen[v]
  BY <1>1, <1>2, RowFacts DEF Numbered
<1>4. seen[v] \cap written' = seen[v] \cap written
  BY <1>2, <1>3
<1>. QED BY <1>1, <1>4, WalkStays DEF RecordFill, walkVars

LEMMA ChangesKeepWalks ==
  ASSUME OrderInv, UNCHANGED <<written, walkVars>>
  PROVE  \A v \in Verifiers : Walk(v)'
<1> SUFFICES ASSUME NEW v \in Verifiers PROVE Walk(v)'
  OBVIOUS
<1>1. Walk(v)
  BY DEF OrderInv
<1>. QED BY <1>1, WalkStays DEF walkVars

LEMMA OthersStay ==
  ASSUME OrderInv, UNCHANGED tableVars, NEW v \in Verifiers, Walk(v)',
         pc' \in [Verifiers -> {"idle", "walking", "reported"}],
         \A u \in Verifiers : u # v =>
           /\ todo'[u] = todo[u] /\ seen'[u] = seen[u] /\ left'[u] = left[u]
           /\ expected'[u] = expected[u] /\ breaks'[u] = breaks[u]
  PROVE  OrderInv'
<1>1. Table'
  BY DEF OrderInv, Table, Numbered, Identified, Chained, OneRowPerId, Linked,
         HasPredecessor, Follows, Before, tableVars
<1>2. ASSUME NEW u \in Verifiers, u # v PROVE Walk(u)'
  <2>1. Walk(u) /\ written' = written
    BY DEF OrderInv, tableVars
  <2>. QED BY <1>2, <2>1, WalkStays
<1>. QED BY <1>1, <1>2 DEF OrderInv


LEMMA WalkStarts ==
  ASSUME NEW v \in Verifiers, seen'[v] = {}, left'[v] = {}, breaks'[v] = {}
  PROVE  Walk(v)'
<1>1. ReadOnce(v)'
  BY DEF ReadOnce, OneRowPerId, Linked
<1>2. Upwards(v)' /\ Positioned(v)' /\ Judged(v)'
  BY DEF Upwards, Positioned, Judged
<1>. QED BY <1>1, <1>2 DEF Walk

LEMMA ReadRowsKeepsOrder ==
  ASSUME Inv, OrderInv, NEW v \in Verifiers, NEW b \in Brokers, ReadRows(v, b)
  PROVE  OrderInv'
<1>1. /\ seen'[v] = seen[v] \cup RowsOf(b) /\ left'[v] = RowsOf(b)
      /\ expected'[v] = GENESIS /\ left[v] = {}
      /\ b \in todo[v] /\ todo'[v] = todo[v] \ {b}
      /\ breaks' = breaks /\ pc' = pc /\ UNCHANGED tableVars /\ written' = written
  BY DEF ReadRows, Inv, Domains, tableVars
<1>2. Walk(v) /\ Table
  BY DEF OrderInv
<1>3. \A r \in RowsOf(b) : r \in rows /\ r.broker = b /\ r.id \in Nat
  BY <1>2, RowFacts DEF RowsOf, Inv, Table
<1>4. \A r \in seen[v] : r.broker # b
  BY <1>1, <1>2 DEF Walk, ReadOnce
<1>5. OneRowPerId(seen'[v])
  BY <1>1, <1>2, <1>3, <1>4 DEF Walk, ReadOnce, Table, OneRowPerId
<1>6. \A r \in seen'[v] : r.broker \notin todo'[v]
  BY <1>1, <1>2, <1>3 DEF Walk, ReadOnce
<1>7. ASSUME NEW r \in seen[v]
      PROVE  /\ \A h : Follows(h, seen'[v], r) <=> Follows(h, seen[v], r)
             /\ HasPredecessor(r, seen'[v]) <=> HasPredecessor(r, seen[v])
  <2>1. \A q : q.broker = r.broker => (q \in seen'[v] <=> q \in seen[v])
    BY <1>1, <1>3, <1>4
  <2>. QED BY <2>1, OwnChain
<1>8. ASSUME NEW r \in RowsOf(b)
      PROVE  /\ \A h : Follows(h, seen'[v], r) <=> Follows(h, rows, r)
             /\ HasPredecessor(r, seen'[v]) <=> HasPredecessor(r, rows)
  <2>1. \A q : q.broker = r.broker => (q \in seen'[v] <=> q \in rows)
    BY <1>1, <1>3, <1>4 DEF RowsOf
  <2>. QED BY <2>1, OwnChain
<1>9. Linked(seen'[v] \cap written, seen'[v])
  <2> SUFFICES ASSUME NEW r \in seen'[v] \cap written, HasPredecessor(r, seen'[v])
               PROVE  Follows(r.prev, seen'[v], r)
    BY DEF Linked
  <2>1. CASE r \in seen[v]
    BY <1>2, <1>7, <2>1 DEF Walk, ReadOnce, Linked
  <2>2. CASE r \in RowsOf(b)
    BY <1>2, <1>8, <2>2 DEF Table, Linked
  <2>. QED BY <1>1, <2>1, <2>2
<1>10. ReadOnce(v)'
  BY <1>1, <1>5, <1>6, <1>9 DEF ReadOnce, OneRowPerId, Linked, HasPredecessor, Follows, Before
<1>11. Upwards(v)'
  BY <1>1, <1>3, <1>4 DEF Upwards
<1>12. Positioned(v)'
  <2> SUFFICES ASSUME NEW r \in RowsOf(b), \A q \in RowsOf(b) : r.id <= q.id
               PROVE  Before(seen'[v], r) = {}
    BY <1>1 DEF Positioned, Follows, Before
  <2>. QED BY <1>1, <1>3, <1>4 DEF Before
<1>13. Judged(v)'
  <2>1. seen'[v] \ left'[v] = seen[v] \ left[v]
    BY <1>1, <1>3, <1>4
  <2>2. \A r \in seen'[v] \ left'[v] :
          ~Follows(r.prev, seen'[v], r) \/ Recomputed(r) # r.hash =>
            \E x \in breaks'[v] : x[1] = r
    BY <1>1, <1>2, <1>7, <2>1 DEF Walk, Judged
  <2>3. \A x \in breaks'[v] :
          /\ x[1] \in seen'[v] \ left'[v]
          /\ x[2] = "PREV_HASH_MISMATCH" => ~Follows(x[1].prev, seen'[v], x[1])
          /\ x[2] # "PREV_HASH_MISMATCH" => Recomputed(x[1]) # x[1].hash
    BY <1>1, <1>2, <1>7, <2>1 DEF Walk, Judged
  <2>. QED BY <2>2, <2>3 DEF Judged, Follows, Before, Recomputed
<1>14. Walk(v)'
  BY <1>10, <1>11, <1>12, <1>13 DEF Walk
<1>. QED BY <1>1, <1>14, OthersStay DEF ReadRows, OrderInv, Inv, Domains

LEMMA CheckRowKeepsOrder ==
  ASSUME Inv, OrderInv, NEW v \in Verifiers, NEW r \in left[v], CheckRow(v, r)
  PROVE  OrderInv'
<1>1. /\ left'[v] = left[v] \ {r} /\ expected'[v] = r.hash /\ seen' = seen /\ todo' = todo
      /\ breaks'[v] = breaks[v] \cup ({r} \X Findings(v, r))
      /\ pc' = pc /\ UNCHANGED tableVars /\ written' = written
      /\ \A q \in left[v] : r.id <= q.id
  BY DEF CheckRow, Inv, Domains, tableVars
<1>2. Walk(v) /\ Table
  BY DEF OrderInv
<1>3. \A q \in seen[v] : q.id \in Nat
  BY <1>2, RowFacts DEF Inv, WalkInv, Table
<1>4. r \in seen[v] /\ left[v] \subseteq seen[v] /\ OneRowPerId(seen[v])
  BY <1>2 DEF Walk, ReadOnce
<1>5. \A q \in left[v] : q.broker = r.broker
  BY DEF Inv, WalkInv, OneChain
<1>6. \A q \in left[v] \ {r} : r.id < q.id
  BY <1>1, <1>3, <1>4, <1>5 DEF OneRowPerId
<1>7. ReadOnce(v)'
  BY <1>1, <1>2 DEF Walk, ReadOnce, OneRowPerId, Linked, HasPredecessor, Follows, Before
<1>8. Upwards(v)'
  BY <1>1, <1>2, <1>6 DEF Walk, Upwards
<1>9. Positioned(v)'
  <2> SUFFICES ASSUME NEW s \in left[v] \ {r}, \A q \in left[v] \ {r} : s.id <= q.id
               PROVE  /\ r \in Before(seen[v], s)
                      /\ \A z \in Before(seen[v], s) : z.id <= r.id
    BY <1>1 DEF Positioned, Follows, Before
  <2>1. r \in Before(seen[v], s)
    BY <1>4, <1>5, <1>6 DEF Before
  <2>2. ASSUME NEW z \in Before(seen[v], s) PROVE z.id <= r.id
    <3>1. z \in seen[v] /\ z.broker = r.broker /\ z.id < s.id
      BY <1>5 DEF Before
    <3>2. z \notin left[v] \ {r}
      BY <1>3, <1>4, <3>1
    <3>3. z = r \/ z.id < r.id
      BY <1>2, <3>1, <3>2 DEF Walk, Upwards
    <3>. QED BY <1>3, <1>4, <3>1, <3>3
  <2>. QED BY <2>1, <2>2
<1>10. Unlinked(v, r) <=> ~Follows(r.prev, seen[v], r)
  <2>1. Follows(expected[v], seen[v], r)
    BY <1>1, <1>2 DEF Walk, Positioned
  <2>2. r.prev = expected[v] => Follows(r.prev, seen[v], r)
    BY <2>1
  <2>3. Follows(r.prev, seen[v], r) => r.prev = expected[v]
    BY <1>3, <1>4, <2>1, FollowsOne
  <2>. QED BY <2>2, <2>3 DEF Unlinked
<1>11. Judged(v)'
  <2>1. \A x \in breaks'[v] : x \in breaks[v] \/ (x[1] = r /\ x[2] \in Findings(v, r))
    BY <1>1
  <2>2. ASSUME NEW f \in Findings(v, r)
        PROVE  <<r, f>> \in breaks'[v] /\ <<r, f>>[1] = r
    BY <1>1
  <2>3. ASSUME ~Follows(r.prev, seen[v], r) \/ Recomputed(r) # r.hash
        PROVE  \E x \in breaks'[v] : x[1] = r
    <3>1. \E f : f \in Findings(v, r)
      BY <1>10, <2>3 DEF Findings
    <3>. QED BY <2>2, <3>1
  <2>4. \A f \in Findings(v, r) :
          /\ f = "PREV_HASH_MISMATCH" => ~Follows(r.prev, seen[v], r)
          /\ f # "PREV_HASH_MISMATCH" => Recomputed(r) # r.hash
    BY <1>10 DEF Findings
  <2>5. \A q \in seen[v] \ left'[v] :
          ~Follows(q.prev, seen[v], q) \/ Recomputed(q) # q.hash =>
            \E x \in breaks'[v] : x[1] = q
    BY <1>1, <1>2, <2>3 DEF Walk, Judged
  <2>6. \A x \in breaks'[v] :
          /\ x[1] \in seen[v] \ left'[v]
          /\ x[2] = "PREV_HASH_MISMATCH" => ~Follows(x[1].prev, seen[v], x[1])
          /\ x[2] # "PREV_HASH_MISMATCH" => Recomputed(x[1]) # x[1].hash
    BY <1>1, <1>2, <1>4, <2>1, <2>4 DEF Walk, Judged
  <2>. QED BY <1>1, <2>5, <2>6 DEF Judged, Follows, Before, Recomputed
<1>12. Walk(v)'
  BY <1>7, <1>8, <1>9, <1>11 DEF Walk
<1>. QED BY <1>1, <1>12, OthersStay DEF CheckRow, OrderInv, Inv, Domains


LEMMA StepKeepsOrder ==
  ASSUME Inv, OrderInv, [Next]_vars
  PROVE  OrderInv'
<1>1. ASSUME NEW t \in Trades, NEW b \in Brokers, NEW a \in Amounts, RecordFill(t, b, a)
      PROVE  OrderInv'
  <2>1. pc' = pc
    BY <1>1 DEF RecordFill, walkVars
  <2>2. Table'
    BY <1>1, FillKeepsTable DEF OrderInv
  <2>3. \A v \in Verifiers : Walk(v)'
    BY <1>1, FillKeepsWalks
  <2>. QED BY <2>1, <2>2, <2>3 DEF OrderInv
<1>2. ASSUME NEW r \in rows,
             \/ \E a \in Amounts : ChangeAmount(r, a)
             \/ \E h \in {q.hash : q \in written} \cup {NoHash} : ChangePrev(r, h)
             \/ Remove(r)
      PROVE  OrderInv'
  <2>1. UNCHANGED <<written, walkVars>>
    BY <1>2 DEF ChangeAmount, ChangePrev, Remove, Edit
  <2>2. Table'
    BY <1>2, ChangesKeepTable DEF OrderInv
  <2>3. \A v \in Verifiers : Walk(v)'
    BY <2>1, ChangesKeepWalks
  <2>. QED BY <2>1, <2>2, <2>3 DEF OrderInv, walkVars
<1>3. ASSUME NEW v \in Verifiers, ReadBrokers(v) PROVE OrderInv'
  <2>1. PICK B : todo' = [todo EXCEPT ![v] = B]
    BY <1>3 DEF ReadBrokers
  <2>2. seen'[v] = {} /\ left'[v] = {} /\ breaks'[v] = {}
    BY <1>3 DEF ReadBrokers, Inv, Domains
  <2>3. Walk(v)'
    BY <2>2, WalkStarts
  <2>. QED BY <1>3, <2>1, <2>3, OthersStay DEF ReadBrokers, OrderInv, Inv, Domains
<1>4. ASSUME NEW v \in Verifiers, NEW b \in Brokers, ReadRows(v, b) PROVE OrderInv'
  BY <1>4, ReadRowsKeepsOrder
<1>5. ASSUME NEW v \in Verifiers, NEW r \in left[v], CheckRow(v, r) PROVE OrderInv'
  BY <1>5, CheckRowKeepsOrder
<1>6. ASSUME NEW v \in Verifiers, Report(v) PROVE OrderInv'
  <2>1. Walk(v) /\ written' = written
    BY <1>6 DEF OrderInv, Report, tableVars
  <2>2. Walk(v)'
    BY <1>6, <2>1, WalkStays DEF Report
  <2>. QED BY <1>6, <2>2, OthersStay DEF Report, OrderInv, Inv, Domains
<1>7. ASSUME NEW v \in Verifiers, Abort(v) PROVE OrderInv'
  <2>1. seen'[v] = {} /\ left'[v] = {} /\ breaks'[v] = {}
    BY <1>7 DEF Abort, Inv, Domains
  <2>2. Walk(v)'
    BY <2>1, WalkStarts
  <2>. QED BY <1>7, <2>2, OthersStay DEF Abort, OrderInv, Inv, Domains
<1>8. CASE UNCHANGED vars
  <2>1. UNCHANGED tableVars /\ UNCHANGED walkVars
    BY <1>8 DEF vars
  <2>2. Table'
    BY <2>1 DEF OrderInv, Table, Numbered, Identified, Chained, OneRowPerId, Linked,
                HasPredecessor, Follows, Before, tableVars
  <2>3. \A v \in Verifiers : Walk(v)'
    BY <2>1, ChangesKeepWalks DEF tableVars
  <2>. QED BY <2>1, <2>2, <2>3 DEF OrderInv, walkVars
<1>. QED BY <1>1, <1>2, <1>3, <1>4, <1>5, <1>6, <1>7, <1>8 DEF Next

LEMMA InitOrder == Init => Inv /\ OrderInv
<1> SUFFICES ASSUME Init PROVE Inv /\ OrderInv
  OBVIOUS
<1>1. Inv
  BY DEF Init, Inv, Domains, WrittenByCode, WalkInv, AtRest, OneChain, Checked
<1>2. Table
  <2>1. {w.trade : w \in written} = {}
    BY DEF Init
  <2>2. Numbered
    BY <2>1, FS_EmptySet, ChainVerifyAssumption DEF Init, Numbered
  <2>. QED BY <2>2 DEF Init, Table, Identified, Chained, OneRowPerId, Linked
<1>3. ASSUME NEW v \in Verifiers PROVE Walk(v)
  <2>1. seen[v] = {} /\ left[v] = {} /\ breaks[v] = {}
    BY DEF Init
  <2>. QED BY <2>1 DEF Walk, ReadOnce, OneRowPerId, Linked, Upwards, Positioned, Judged
<1>. QED BY <1>1, <1>2, <1>3 DEF OrderInv, Init

LEMMA OrderHolds == Spec => [](Inv /\ OrderInv)
BY InitOrder, StepKeepsInv, StepKeepsOrder, PTL DEF Spec

-----------------------------------------------------------------------------
LEMMA ChangedRow ==
  ASSUME NEW w, w = Row(w.id, w.trade, w.broker, w.amount, w.prev, w.hash),
         NEW a, NEW p
  PROVE  [w EXCEPT !.amount = a, !.prev = p] = Row(w.id, w.trade, w.broker, a, p, w.hash)
<1>1. [w EXCEPT !.amount = a] = Row(w.id, w.trade, w.broker, a, w.prev, w.hash)
  BY DEF Row
<1>2. ASSUME NEW x, x = Row(w.id, w.trade, w.broker, a, w.prev, w.hash)
      PROVE  [x EXCEPT !.prev = p] = Row(w.id, w.trade, w.broker, a, p, w.hash)
  BY <1>2 DEF Row
<1>3. [w EXCEPT !.amount = a, !.prev = p] = [[w EXCEPT !.amount = a] EXCEPT !.prev = p]
  BY Zenon
<1>. QED BY <1>1, <1>2, <1>3

(* The sequence gives one id per trade, a change by SQL leaves hash, place *)
(* and broker of a row, a row follows on one written before it, and a      *)
(* verifier reports rows it has read and checked                           *)
(* (order-processor.ts:82-124, chain-verifier.ts:55-108).                  *)
THEOREM ChainTypes == Spec => []TypeOK
<1>1. Inv /\ OrderInv => TypeOK
  <2> SUFFICES ASSUME Inv, OrderInv PROVE TypeOK
    OBVIOUS
  <2>1. lastId \in 0 .. Cardinality(Trades) /\ edits \in 0 .. MaxEdits
    <3> DEFINE T == {w.trade : w \in written}
    <3>1. T \subseteq Trades /\ lastId \in Nat /\ lastId = Cardinality(T) /\ edits \in 0 .. MaxEdits
      BY DEF OrderInv, Table, Numbered
    <3> HIDE DEF T
    <3>2. lastId <= Cardinality(Trades) /\ Cardinality(Trades) \in Nat
      BY <3>1, ChainVerifyAssumption, FS_Subset, FS_CardinalityType
    <3>. QED BY <3>1, <3>2
  <2>2. ASSUME NEW r \in rows
        PROVE  \E w \in written : r = [w EXCEPT !.amount = r.amount, !.prev = r.prev]
    <3>1. PICK w \in written :
            r = Row(w.id, w.trade, w.broker, r.amount, r.prev, w.hash)
      BY DEF Inv, FromWritten
    <3>2. w = Row(w.id, w.trade, w.broker, w.amount, w.prev, w.hash)
      BY DEF Inv, WrittenByCode
    <3>3. [w EXCEPT !.amount = r.amount, !.prev = r.prev]
            = Row(w.id, w.trade, w.broker, r.amount, r.prev, w.hash)
      BY <3>2, ChangedRow
    <3>. QED BY <3>1, <3>3
  <2>3. \A v \in Verifiers :
          /\ left[v] \subseteq seen[v]
          /\ \A x \in breaks[v] : x[1] \in seen[v] \ left[v]
    BY DEF OrderInv, Walk, ReadOnce, Judged
  <2>. QED BY <2>1, <2>2, <2>3 DEF TypeOK, OrderInv, Table, Chained
<1>. QED BY <1>1, OrderHolds, PTL

(* Two walks over the same rows accuse the same trades, be they of the     *)
(* worker, which does not recompute the hash of a row out of the chain, or *)
(* of the script (chain-verifier.ts:71-82, verify-chain.ts:51-77).         *)
THEOREM WalkersAlwaysAgree == Spec => []WalkersAgree
<1>1. Inv /\ OrderInv => WalkersAgree
  <2>1. ASSUME Inv, OrderInv, NEW u \in Verifiers, NEW v \in Verifiers,
               pc[u] = "reported", pc[v] = "reported", seen[u] = seen[v],
               NEW x \in breaks[u]
        PROVE  \E y \in breaks[v] : y[1] = x[1]
    <3>0. Judged(u) /\ Judged(v)
      BY <2>1 DEF OrderInv, Walk
    <3>1. left[u] = {} /\ left[v] = {}
      BY <2>1 DEF Inv, WalkInv, AtRest
    <3>2. /\ x[1] \in seen[v]
          /\ ~Follows(x[1].prev, seen[v], x[1]) \/ Recomputed(x[1]) # x[1].hash
      BY <2>1, <3>0, <3>1 DEF Judged
    <3>. QED BY <3>0, <3>1, <3>2 DEF Judged
  <2>2. ASSUME Inv, OrderInv, NEW u \in Verifiers, NEW v \in Verifiers,
               pc[u] = "reported", pc[v] = "reported", seen[u] = seen[v]
        PROVE  BrokenRows(u) \subseteq BrokenRows(v)
    BY <2>1, <2>2 DEF BrokenRows
  <2>3. ASSUME Inv, OrderInv, NEW u \in Verifiers, NEW v \in Verifiers,
               pc[u] = "reported", pc[v] = "reported", seen[u] = seen[v]
        PROVE  BrokenRows(u) = BrokenRows(v)
    <3>1. BrokenRows(u) \subseteq BrokenRows(v)
      BY <2>2, <2>3
    <3>2. BrokenRows(v) \subseteq BrokenRows(u)
      BY <2>2, <2>3
    <3>. QED BY <3>1, <3>2
  <2>. QED BY <2>3 DEF WalkersAgree
<1>. QED BY <1>1, OrderHolds, PTL

(* No false alarm: a row that is as it was written is reported as out of   *)
(* the chain only when its predecessor is gone, however fills and changes  *)
(* by SQL went on during the walk, and as having another hash only when    *)
(* Money and numeric(20,4) print its decimals differently                  *)
(* (chain-verifier.ts:71-106).                                             *)
THEOREM BreaksAreCaused == Spec => []BreaksHaveCause
<1>1. Inv /\ OrderInv => BreaksHaveCause
  <2> SUFFICES ASSUME Inv, OrderInv, NEW v \in Verifiers, pc[v] = "reported",
                      NEW x \in breaks[v], x[1] \in written
               PROVE  IF x[2] = "PREV_HASH_MISMATCH"
                      THEN ~HasPredecessor(x[1], seen[v])
                      ELSE Places(x[1].amount) < SCALE
    BY DEF BreaksHaveCause
  <2>1. /\ x[1] \in seen[v]
        /\ x[2] = "PREV_HASH_MISMATCH" => ~Follows(x[1].prev, seen[v], x[1])
        /\ x[2] # "PREV_HASH_MISMATCH" => Recomputed(x[1]) # x[1].hash
    BY DEF OrderInv, Walk, Judged
  <2>2. CASE x[2] = "PREV_HASH_MISMATCH"
    BY <2>1, <2>2 DEF OrderInv, Walk, ReadOnce, Linked
  <2>3. CASE x[2] # "PREV_HASH_MISMATCH"
    <3>1. x[1].hash = computeHash(x[1].trade, MoneyText(x[1].amount), x[1].prev)
      BY DEF Inv, WrittenByCode
    <3>2. Places(x[1].amount) # SCALE
      BY <2>1, <2>3, <3>1 DEF Recomputed, DatabaseText, MoneyText
    <3>3. x[1].amount \in Nat
      BY ChainVerifyAssumption DEF OrderInv, Table, Numbered
    <3>4. Places(x[1].amount) \in 0 .. SCALE
      BY <3>3, PlacesFit
    <3>. QED BY <2>3, <3>2, <3>4, ChainVerifyAssumption
  <2>. QED BY <2>2, <2>3
<1>. QED BY <1>1, OrderHolds, PTL

=============================================================================
