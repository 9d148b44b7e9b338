----------------------------- MODULE TradeChain -----------------------------
(***************************************************************************)
(* What the trades table promises its readers (docs/adr/0004): for each    *)
(* broker, one append-only chain in which every new trade names the hash   *)
(* of the trade that was last before it.  The order pipeline is shown to   *)
(* implement this specification; nothing here knows of queues, workers,    *)
(* transactions or row ids.                                                *)
(***************************************************************************)
CONSTANTS Brokers,   \* the brokers, each with a chain of its own
          Hashes,    \* the hashes trades can have
          GENESIS    \* GENESIS_HASH, the prev_hash of a broker's first trade

VARIABLES blocks,    \* the trades: their broker, hash and prev_hash
          head       \* per broker, the hash the next trade has to name

vars == <<blocks, head>>

Block == [broker : Brokers, hash : Hashes, prev : Hashes \cup {GENESIS}]

Init ==
  /\ blocks = {}
  /\ head = [b \in Brokers |-> GENESIS]

(* Record a trade of broker b with a hash no trade had before. *)
Append(b, h) ==
  /\ \A x \in blocks : x.hash # h
  /\ blocks' = blocks \cup {[broker |-> b, hash |-> h, prev |-> head[b]]}
  /\ head' = [head EXCEPT ![b] = h]

Next == \E b \in Brokers, h \in Hashes : Append(b, h)

Spec == Init /\ [][Next]_vars

TypeOK ==
  /\ blocks \subseteq Block
  /\ head \in [Brokers -> Hashes \cup {GENESIS}]

(* No two trades of a broker name the same predecessor: the chain of a     *)
(* broker never forks ("a duplicate prev_hash for the same broker", the    *)
(* symptom docs/runbooks/incident-hash-chain-broken.md tells to look for). *)
NoFork ==
  \A x, y \in blocks : x.broker = y.broker /\ x.prev = y.prev => x = y

=============================================================================
