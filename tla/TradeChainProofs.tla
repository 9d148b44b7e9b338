-------------------------- MODULE TradeChainProofs --------------------------
(***************************************************************************)
(* Proofs about the abstract chain: it never forks, whatever the brokers   *)
(* and the hashes are, as long as no trade hashes to GENESIS_HASH.         *)
(***************************************************************************)
EXTENDS TradeChain, TLAPS

(* A hash the chain has already seen. *)
Seen(h) == h = GENESIS \/ \E x \in blocks : x.hash = h

(* NoFork alone is not inductive: the next trade may name the head only    *)
(* because no trade names it yet, and a fresh hash is unnamed only because *)
(* whatever is named has been seen.                                        *)
HeadUnnamed == \A x \in blocks : x.prev # head[x.broker]

NamesSeen ==
  /\ \A x \in blocks : Seen(x.prev)
  /\ \A b \in Brokers : Seen(head[b])

ChainInv == TypeOK /\ NoFork /\ HeadUnnamed /\ NamesSeen

(* One recorded trade preserves the invariant. *)
LEMMA AppendPreserves ==
  ASSUME GENESIS \notin Hashes,
         NEW b \in Brokers, NEW h \in Hashes,
         ChainInv, Append(b, h)
  PROVE  ChainInv'
<1> DEFINE new == [broker |-> b, hash |-> h, prev |-> head[b]]
<1>1. /\ blocks' = blocks \cup {new}
      /\ head' = [head EXCEPT ![b] = h]
      /\ \A x \in blocks : x.hash # h
  BY DEF Append
<1>2. TypeOK'
  BY <1>1 DEF ChainInv, TypeOK, Block
<1>3. \A g : Seen(g) => Seen(g)' /\ g # h
  BY <1>1 DEF Seen
<1>4. Seen(h)'
  <2>1. new \in blocks' /\ new.hash = h
    BY <1>1
  <2> QED
    BY <2>1 DEF Seen
<1>5. \A c \in Brokers : head'[c] = IF c = b THEN h ELSE head[c]
  BY <1>1 DEF ChainInv, TypeOK
<1>6. NamesSeen'
  BY <1>1, <1>3, <1>4, <1>5 DEF ChainInv, NamesSeen
<1>7. HeadUnnamed'
  <2> SUFFICES ASSUME NEW x \in blocks' PROVE x.prev # head'[x.broker]
    BY DEF HeadUnnamed
  <2>1. Seen(x.prev) /\ x.broker \in Brokers
    BY <1>1 DEF ChainInv, NamesSeen, TypeOK, Block
  <2>2. CASE x.broker = b
    BY <1>3, <1>5, <2>1, <2>2
  <2>3. CASE x.broker # b
    BY <1>1, <1>5, <2>1, <2>3 DEF ChainInv, HeadUnnamed
  <2> QED
    BY <2>2, <2>3
<1>8. NoFork'
  BY <1>1 DEF ChainInv, NoFork, HeadUnnamed
<1> QED
  BY <1>2, <1>6, <1>7, <1>8 DEF ChainInv

(* The chain of a broker never forks: two trades that name the same        *)
(* predecessor are the same trade.  (GENESIS_HASH is 64 zeros, which no    *)
(* SHA-256 of a trade is taken to be.)                                     *)
THEOREM ChainNeverForks ==
  ASSUME GENESIS \notin Hashes
  PROVE  Spec => []NoFork
<1>1. Init => ChainInv
  BY DEF Init, ChainInv, TypeOK, NoFork, HeadUnnamed, NamesSeen, Seen
<1>2. ChainInv /\ [Next]_vars => ChainInv'
  <2> SUFFICES ASSUME ChainInv, [Next]_vars PROVE ChainInv'
    OBVIOUS
  <2>1. ASSUME NEW b \in Brokers, NEW h \in Hashes, Append(b, h)
        PROVE  ChainInv'
    BY <2>1, AppendPreserves
  <2>2. CASE UNCHANGED vars
    BY <2>2 DEF vars, ChainInv, TypeOK, NoFork, HeadUnnamed, NamesSeen, Seen
  <2> QED
    BY <2>1, <2>2 DEF Next
<1>3. ChainInv => NoFork
  BY DEF ChainInv
<1> QED
  BY <1>1, <1>2, <1>3, PTL DEF Spec

=============================================================================
