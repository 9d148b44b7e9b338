---------------------------- MODULE PortalProofs ----------------------------
(***************************************************************************)
(* Proofs about the dashboards, for all books, brokers, readers, limits    *)
(* and pushes: the blotter never goes back, a submitted request is there   *)
(* once and is shown, a client that pages through the trades sees all of   *)
(* them, a report of several queries differs from one state of the books   *)
(* only by what came in between, the figures and lists of the pages agree  *)
(* with each other, and a table that is filtered, paged and exported keeps *)
(* its rows.                                                               *)
(***************************************************************************)
EXTENDS Portal, Sums, SequenceTheorems, TLAPS

-----------------------------------------------------------------------------
(* Which part of the state a step may move. *)

(* Reading moves the reader alone, a page with a table its view. *)
LEMMA ReadingSteps ==
  ASSUME Reading
  PROVE  UNCHANGED books /\ UNCHANGED <<view, pageVars, feedVars>>
<1>1. ASSUME NEW op, NEW user, NEW b, NEW n, Ask(op, user, b, n)
      PROVE  UNCHANGED books /\ UNCHANGED <<view, pageVars, feedVars>>
  BY <1>1 DEF Ask
<1>2. CASE RunQuery
  BY <1>2, Zenon DEF RunQuery
<1>3. CASE ReadPage
  BY <1>3, Zenon DEF ReadPage
<1>4. CASE Leave
  BY <1>4, Zenon DEF Leave
<1>. QED BY <1>1, <1>2, <1>3, <1>4 DEF Reading

LEMMA TablesSteps ==
  ASSUME Tables
  PROVE  UNCHANGED books /\ UNCHANGED <<reader, pageVars, feedVars>>
<1>1. ASSUME NEW screen, Open(screen)
      PROVE  UNCHANGED books /\ UNCHANGED <<reader, pageVars, feedVars>>
  BY <1>1, Zenon DEF Open
<1>2. ASSUME NEW f, SetFilter(f) \/ Requery(f)
      PROVE  UNCHANGED books /\ UNCHANGED <<reader, pageVars, feedVars>>
  BY <1>2, Zenon DEF SetFilter, Requery
<1>3. ASSUME Refetch \/ ClearDates \/ NextPage \/ PrevPage \/ Close
      PROVE  UNCHANGED books /\ UNCHANGED <<reader, pageVars, feedVars>>
  BY <1>3, Zenon DEF Refetch, ClearDates, NextPage, PrevPage, Close
<1>. QED BY <1>1, <1>2, <1>3 DEF Tables

LEMMA FeedSteps ==
  ASSUME [PortalNext]_portalVars
  PROVE  Feed \/ UNCHANGED <<snapshot, feedVars>>
<1>1. CASE Fills
  BY <1>1 DEF Fills, Fill
<1>2. CASE Requesting
  BY <1>2 DEF Requesting, PostRequest, Approve, Reject
<1>3. CASE Reading
  BY <1>3, ReadingSteps DEF books
<1>4. CASE Tables
  BY <1>4, TablesSteps DEF books
<1>5. CASE WalletPage
  BY <1>5 DEF WalletPage, Toggle, Submit, CreateRequest, RefuseRequest, Succeed, Fail,
              FetchRead, FetchReceive, FetchFail, FetchAgain, books
<1>6. CASE UNCHANGED portalVars
  BY <1>6 DEF portalVars, books
<1>. QED BY <1>1, <1>2, <1>3, <1>4, <1>5, <1>6 DEF PortalNext

-----------------------------------------------------------------------------
(* The newest rows of a table.  The position of a row in an answer is one  *)
(* more than the number of rows above it.                                  *)

Above(S, i) == {j \in S : j > i}

LEMMA AboveFinite ==
  ASSUME NEW S, IsFiniteSet(S), NEW i
  PROVE  /\ IsFiniteSet(Above(S, i))
         /\ Cardinality(Above(S, i)) \in Nat
         /\ Cardinality(Above(S, i)) <= Cardinality(S)
<1>1. Above(S, i) \in SUBSET S
  BY DEF Above
<1>. QED BY <1>1, FS_Subset, FS_CardinalityType

LEMMA AboveLess ==
  ASSUME NEW S, IsFiniteSet(S), S \subseteq Int, NEW i \in S, NEW j \in S, i < j
  PROVE  Cardinality(Above(S, j)) < Cardinality(Above(S, i))
<1>1. Above(S, j) \in SUBSET Above(S, i)
  <2> SUFFICES ASSUME NEW x \in Above(S, j) PROVE x \in Above(S, i)
    OBVIOUS
  <2>1. x \in S /\ x \in Int /\ i \in Int /\ j \in Int /\ x > j
    BY DEF Above
  <2>. QED BY <2>1 DEF Above
<1>2. j \in Above(S, i) /\ j \notin Above(S, j)
  BY DEF Above
<1>3. Cardinality(Above(S, j)) # Cardinality(Above(S, i))
  BY <1>1, <1>2, AboveFinite, FS_Subset
<1>4. Cardinality(Above(S, j)) <= Cardinality(Above(S, i))
  BY <1>1, AboveFinite, FS_Subset
<1>5. Cardinality(Above(S, j)) \in Nat /\ Cardinality(Above(S, i)) \in Nat
  BY AboveFinite
<1>. QED BY <1>3, <1>4, <1>5

(* ... so every position is taken, ... *)
LEMMA PlaceTaken ==
  ASSUME NEW S, IsFiniteSet(S), S \subseteq Int, NEW k \in 1 .. Cardinality(S)
  PROVE  \E i \in S : Cardinality(Above(S, i)) = k - 1
<1>0. Cardinality(S) \in Nat
  BY FS_CardinalityType
<1> DEFINE f == [i \in S |-> Cardinality(Above(S, i))]
           T == 0 .. (Cardinality(S) - 1)
<1>1. ASSUME NEW i \in S PROVE Cardinality(Above(S, i)) \in T
  <2>1. Above(S, i) \in SUBSET S /\ i \notin Above(S, i)
    BY DEF Above
  <2>2. Cardinality(Above(S, i)) # Cardinality(S)
    BY <2>1, FS_Subset
  <2>. QED BY <1>0, <2>2, AboveFinite
<1>2. ASSUME NEW i \in S, NEW j \in S, f[i] = f[j] PROVE i = j
  <2>1. Cardinality(Above(S, i)) = Cardinality(Above(S, j))
    BY <1>2
  <2>2. i \in Int /\ j \in Int
    OBVIOUS
  <2>3. Cardinality(Above(S, i)) \in Nat
    BY AboveFinite
  <2>4. ASSUME i < j PROVE FALSE
    <3>1. Cardinality(Above(S, j)) < Cardinality(Above(S, i))
      BY <2>4, AboveLess
    <3>. QED BY <2>1, <2>3, <3>1
  <2>5. ASSUME j < i PROVE FALSE
    <3>1. Cardinality(Above(S, i)) < Cardinality(Above(S, j))
      BY <2>5, AboveLess
    <3>. QED BY <2>1, <2>3, <3>1
  <2>. QED BY <2>2, <2>4, <2>5
<1>3. f \in Injection(S, T)
  <2>1. f \in [S -> T]
    BY <1>1
  <2> HIDE DEF f, T
  <2>. QED BY <1>2, <2>1 DEF Injection, IsInjective
<1>4. IsFiniteSet(T) /\ Cardinality(T) = Cardinality(S)
  <2>1. ASSUME NEW c \in Nat
        PROVE  IsFiniteSet(0 .. (c - 1)) /\ Cardinality(0 .. (c - 1)) = c
    <3>1. 0 \in Int /\ c - 1 \in Int
      OBVIOUS
    <3>2. /\ IsFiniteSet(0 .. (c - 1))
          /\ Cardinality(0 .. (c - 1)) = IF 0 > c - 1 THEN 0 ELSE (c - 1) - 0 + 1
      BY <3>1, FS_Interval
    <3>. QED BY <3>2
  <2>. QED BY <1>0, <2>1
<1>5. f \in Surjection(S, T)
  <2> HIDE DEF f, T
  <2>. QED BY <1>3, <1>4, FS_Injection
<1>6. k - 1 \in T
  BY <1>0
<1>7. \E i \in S : f[i] = k - 1
  <2> HIDE DEF f, T
  <2>. QED BY <1>5, <1>6 DEF Surjection
<1>. QED BY <1>7

(* ... by the row with as many rows above it as the position says. *)
LEMMA NewestPlaces ==
  ASSUME NEW S, IsFiniteSet(S), S \subseteq Int, NEW n \in Nat
  PROVE  /\ Newest(S, n) \in Seq(S)
         /\ Len(Newest(S, n)) \in Nat
         /\ Len(Newest(S, n)) <= n /\ Len(Newest(S, n)) <= Cardinality(S)
         /\ Len(Newest(S, n)) < n => Len(Newest(S, n)) = Cardinality(S)
         /\ \A k \in 1 .. Len(Newest(S, n)) :
              /\ Newest(S, n)[k] \in S
              /\ Cardinality(Above(S, Newest(S, n)[k])) = k - 1
<1> DEFINE m == Min({n, Cardinality(S)})
           f == [k \in 1 .. m |-> CHOOSE i \in S : Cardinality({j \in S : j > i}) = k - 1]
<1>0. Cardinality(S) \in Nat
  BY FS_CardinalityType
<1>1. m \in Nat /\ m <= n /\ m <= Cardinality(S) /\ (m < n => m = Cardinality(S))
  <2>1. \E x \in {n, Cardinality(S)} : \A y \in {n, Cardinality(S)} : x <= y
    BY <1>0
  <2>2. m \in {n, Cardinality(S)} /\ \A y \in {n, Cardinality(S)} : m <= y
    BY <2>1 DEF Min
  <2> HIDE DEF m
  <2>. QED BY <1>0, <2>2
<1>2. Newest(S, n) = f
  BY DEF Newest
<1> HIDE DEF m
<1>3. ASSUME NEW k \in 1 .. m
      PROVE  f[k] \in S /\ Cardinality(Above(S, f[k])) = k - 1
  <2>1. k \in 1 .. Cardinality(S)
    BY <1>0, <1>1
  <2>2. \E i \in S : Cardinality({j \in S : j > i}) = k - 1
    BY <2>1, PlaceTaken DEF Above
  <2>3. f[k] = CHOOSE i \in S : Cardinality({j \in S : j > i}) = k - 1
    OBVIOUS
  <2>. QED BY <2>2, <2>3 DEF Above
<1>4. DOMAIN f = 1 .. m
  OBVIOUS
<1>5. f \in [1 .. m -> S]
  BY <1>3, <1>4
<1> HIDE DEF f
<1>6. f \in Seq(S) /\ Len(f) = m
  BY <1>1, <1>5
<1>. QED BY <1>1, <1>2, <1>3, <1>6

LEMMA PlaceTells ==
  ASSUME NEW S, IsFiniteSet(S), S \subseteq Int, NEW i \in S, NEW j \in S
  PROVE  /\ Cardinality(Above(S, i)) = Cardinality(Above(S, j)) => i = j
         /\ Cardinality(Above(S, i)) < Cardinality(Above(S, j)) => j < i
<1>0. /\ i \in Int /\ j \in Int
      /\ Cardinality(Above(S, i)) \in Nat /\ Cardinality(Above(S, j)) \in Nat
  BY AboveFinite
<1>1. i < j => Cardinality(Above(S, j)) < Cardinality(Above(S, i))
  BY AboveLess
<1>2. j < i => Cardinality(Above(S, i)) < Cardinality(Above(S, j))
  BY AboveLess
<1>3. i = j => Cardinality(Above(S, i)) = Cardinality(Above(S, j))
  OBVIOUS
<1>4. i < j \/ j < i \/ i = j
  BY <1>0
<1>. QED BY <1>0, <1>1, <1>2, <1>3, <1>4

LEMMA NewestDescends ==
  ASSUME NEW S, IsFiniteSet(S), S \subseteq Int, NEW n \in Nat,
         NEW j \in 1 .. Len(Newest(S, n)), NEW k \in 1 .. Len(Newest(S, n)), j < k
  PROVE  Newest(S, n)[j] > Newest(S, n)[k]
<1> DEFINE a == Newest(S, n)[j]
           b == Newest(S, n)[k]
<1>1. /\ a \in S /\ Cardinality(Above(S, a)) = j - 1
      /\ b \in S /\ Cardinality(Above(S, b)) = k - 1
      /\ Len(Newest(S, n)) \in Nat
  <2>1. \A m \in 1 .. Len(Newest(S, n)) :
          /\ Newest(S, n)[m] \in S
          /\ Cardinality(Above(S, Newest(S, n)[m])) = m - 1
    BY NewestPlaces
  <2>2. Len(Newest(S, n)) \in Nat
    BY NewestPlaces
  <2>. QED BY <2>1, <2>2
<1>2. a \in Int /\ b \in Int
  BY <1>1
<1> HIDE DEF a, b
<1>3. Cardinality(Above(S, a)) < Cardinality(Above(S, b))
  BY <1>1
<1>4. b < a
  BY <1>1, <1>3, PlaceTells
<1>. QED BY <1>2, <1>4 DEF a, b

(* A row with less than LIMIT rows above it is in the answer. *)
LEMMA NewestShows ==
  ASSUME NEW S, IsFiniteSet(S), S \subseteq Int, NEW n \in Nat,
         NEW i \in S, Cardinality(Above(S, i)) < n
  PROVE  i \in RowsIn(Newest(S, n))
<1> DEFINE c == Cardinality(Above(S, i))
           size == Cardinality(S)
           len == Len(Newest(S, n))
<1>1. c \in Nat /\ size \in Nat /\ c < size
  <2>1. Above(S, i) \in SUBSET S /\ i \notin Above(S, i)
    BY DEF Above
  <2>2. c # size
    BY <2>1, FS_Subset
  <2>. QED BY <2>2, AboveFinite, FS_CardinalityType
<1>2. len \in Nat /\ len <= n /\ (len < n => len = size)
  BY NewestPlaces
<1>3. c < n
  OBVIOUS
<1>4. Newest(S, n) \in Seq(S)
  BY NewestPlaces
<1>5. DOMAIN Newest(S, n) = 1 .. len
  BY <1>4
<1>6. c + 1 \in 1 .. len
  <2> HIDE DEF c, size, len
  <2>. QED BY <1>1, <1>2, <1>3
<1>7. /\ Newest(S, n)[c + 1] \in S
      /\ Cardinality(Above(S, Newest(S, n)[c + 1])) = (c + 1) - 1
  <2>1. \A k \in 1 .. len :
          /\ Newest(S, n)[k] \in S
          /\ Cardinality(Above(S, Newest(S, n)[k])) = k - 1
    BY NewestPlaces
  <2>. QED BY <1>6, <2>1
<1>8. Newest(S, n)[c + 1] = i
  <2>1. Cardinality(Above(S, Newest(S, n)[c + 1])) = Cardinality(Above(S, i))
    <3>1. (c + 1) - 1 = c
      <4> HIDE DEF c
      <4>. QED BY <1>1
    <3>. QED BY <1>7, <3>1
  <2>. QED BY <1>7, <2>1, PlaceTells
<1>. QED BY <1>5, <1>6, <1>8 DEF RowsIn

LEMMA NewestRows ==
  ASSUME NEW S, IsFiniteSet(S), S \subseteq Int, NEW n \in Nat
  PROVE  /\ RowsIn(Newest(S, n)) \subseteq S
         /\ Len(Newest(S, n)) < n => RowsIn(Newest(S, n)) = S
         /\ Len(Newest(S, n)) = n /\ n > 0 =>
              RowsIn(Newest(S, n)) = {i \in S : i >= Newest(S, n)[n]}
<1> DEFINE N == Newest(S, n)
<1>0. /\ N \in Seq(S) /\ Len(N) \in Nat /\ Cardinality(S) \in Nat
      /\ \A k \in 1 .. Len(N) : N[k] \in S /\ Cardinality(Above(S, N[k])) = k - 1
      /\ Len(N) < n => Len(N) = Cardinality(S)
  BY NewestPlaces, FS_CardinalityType
<1>1. DOMAIN N = 1 .. Len(N)
  BY <1>0
<1>2. RowsIn(N) \subseteq S
  BY <1>0, <1>1 DEF RowsIn
<1>3. ASSUME Len(N) < n PROVE RowsIn(N) = S
  <2>1. ASSUME NEW i \in S PROVE i \in RowsIn(N)
    <3>1. Cardinality(Above(S, i)) \in Nat /\ Cardinality(Above(S, i)) <= Cardinality(S)
      BY AboveFinite
    <3>2. Cardinality(Above(S, i)) < n
      BY <1>0, <1>3, <3>1
    <3>. QED BY <3>2, NewestShows
  <2>. QED BY <1>2, <2>1
<1>4. ASSUME Len(N) = n, n > 0 PROVE RowsIn(N) = {i \in S : i >= N[n]}
  <2>0. n \in 1 .. Len(N) /\ N[n] \in S /\ N[n] \in Int
    <3>1. n \in 1 .. Len(N)
      BY <1>4
    <3>. QED BY <1>0, <3>1
  <2>1. ASSUME NEW i \in RowsIn(N) PROVE i \in S /\ i >= N[n]
    <3>1. PICK k \in 1 .. Len(N) : i = N[k]
      BY <1>1 DEF RowsIn
    <3>2. k < n => i > N[n]
      BY <2>0, <3>1, NewestDescends
    <3>3. k = n \/ k < n
      BY <1>4, <3>1
    <3>4. i \in S /\ i \in Int
      BY <1>2
    <3>. QED BY <2>0, <3>1, <3>2, <3>3, <3>4
  <2>2. ASSUME NEW i \in S, i >= N[n] PROVE i \in RowsIn(N)
    <3>1. /\ Cardinality(Above(S, i)) \in Nat
          /\ Cardinality(Above(S, N[n])) = n - 1
      BY <1>0, <2>0, AboveFinite
    <3>2. i \in Int
      OBVIOUS
    <3>3. i = N[n] \/ N[n] < i
      BY <2>0, <2>2, <3>2
    <3>4. N[n] < i => Cardinality(Above(S, i)) < Cardinality(Above(S, N[n]))
      BY <2>0, AboveLess
    <3>5. Cardinality(Above(S, i)) < n
      BY <3>1, <3>3, <3>4
    <3>. QED BY <3>5, NewestShows
  <2>. QED BY <2>1, <2>2
<1>. QED BY <1>2, <1>3, <1>4

-----------------------------------------------------------------------------
(* The positions feed. *)

FeedTyped ==
  /\ push \in [Pushes -> {"idle", "received", "stored", "done", "failed"}]
  /\ before \in [Pushes -> SUBSET Pushes]
  /\ snapshot \in Pushes \cup {None}
  /\ event \in Pushes \cup {None}

(* A push stays answered: what is behind another push was answered. *)
Answered ==
  /\ \A p \in Pushes : \A q \in before[p] : push[q] = "done"
  /\ event # None => push[event] = "done"

FeedInv == FeedTyped /\ Answered /\ BlotterOrdered

LEMMA FeedStep ==
  ASSUME FeedInv, [PortalNext]_portalVars
  PROVE  FeedInv'
<1> USE ReportsAssumption
<1>1. ASSUME NEW p \in Pushes, ReceivePush(p) PROVE FeedInv'
  <2>1. /\ push[p] = "idle" /\ push' = [push EXCEPT ![p] = "received"]
        /\ before' = [before EXCEPT ![p] = {q \in Pushes : push[q] = "done"}]
        /\ UNCHANGED <<snapshot, event>>
    BY <1>1 DEF ReceivePush, books
  <2>2. FeedTyped'
    BY <2>1 DEF FeedInv, FeedTyped
  <2>3. Answered'
    BY <2>1 DEF FeedInv, FeedTyped, Answered
  <2>4. BlotterOrdered'
    BY <2>1 DEF FeedInv, FeedTyped, Answered, BlotterOrdered
  <2>. QED BY <2>2, <2>3, <2>4 DEF FeedInv
<1>2. ASSUME NEW p \in Pushes, StoreSnapshot(p) PROVE FeedInv'
  <2>1. /\ push[p] = "received" /\ push' = [push EXCEPT ![p] = "stored"]
        /\ snapshot' = p /\ UNCHANGED <<before, event>>
    BY <1>2 DEF StoreSnapshot
  <2>2. FeedTyped'
    BY <2>1 DEF FeedInv, FeedTyped
  <2>3. Answered'
    BY <2>1 DEF FeedInv, FeedTyped, Answered
  <2>4. BlotterOrdered'
    BY <2>1 DEF FeedInv, FeedTyped, Answered, BlotterOrdered
  <2>. QED BY <2>2, <2>3, <2>4 DEF FeedInv
<1>3. ASSUME NEW p \in Pushes, PublishSnapshot(p) PROVE FeedInv'
  <2>1. /\ push[p] = "stored" /\ push' = [push EXCEPT ![p] = "done"]
        /\ event' = p /\ UNCHANGED <<before, snapshot>>
    BY <1>3 DEF PublishSnapshot, books
  <2>2. FeedTyped'
    BY <2>1 DEF FeedInv, FeedTyped
  <2>3. Answered'
    BY <2>1 DEF FeedInv, FeedTyped, Answered
  <2>4. BlotterOrdered'
    BY <2>1 DEF FeedInv, FeedTyped, Answered, BlotterOrdered
  <2>. QED BY <2>2, <2>3, <2>4 DEF FeedInv
<1>4. ASSUME NEW p \in Pushes, FailPush(p) PROVE FeedInv'
  <2>1. /\ push[p] \in {"received", "stored"} /\ push' = [push EXCEPT ![p] = "failed"]
        /\ UNCHANGED <<before, snapshot, event>>
    BY <1>4 DEF FailPush, books
  <2>2. FeedTyped'
    BY <2>1 DEF FeedInv, FeedTyped
  <2>3. Answered'
    BY <2>1 DEF FeedInv, FeedTyped, Answered
  <2>4. BlotterOrdered'
    BY <2>1 DEF FeedInv, FeedTyped, Answered, BlotterOrdered
  <2>. QED BY <2>2, <2>3, <2>4 DEF FeedInv
<1>5. CASE ExpireSnapshot
  BY <1>5 DEF ExpireSnapshot, feedVars, FeedInv, FeedTyped, Answered, BlotterOrdered
<1>6. CASE UNCHANGED <<snapshot, feedVars>>
  BY <1>6 DEF feedVars, FeedInv, FeedTyped, Answered, BlotterOrdered
<1>. QED BY <1>1, <1>2, <1>3, <1>4, <1>5, <1>6, FeedSteps DEF Feed

(* Neither what the blotter polls nor what the websocket sends goes back   *)
(* behind a push, however the handlers of the pushes overlap, fail between *)
(* storing and publishing, or the snapshot expires                         *)
(* (positions.controller.ts:69-102).                                       *)
THEOREM BlotterNeverGoesBack == PortalSpec => []BlotterOrdered
<1>1. PortalInit => FeedInv
  BY ReportsAssumption DEF PortalInit, FeedInv, FeedTyped, Answered, BlotterOrdered
<1>2. FeedInv => BlotterOrdered
  BY DEF FeedInv
<1>. QED BY <1>1, <1>2, FeedStep, PTL DEF PortalSpec

-----------------------------------------------------------------------------
(* The wallet page. *)

RequestRows ==
  [broker : {Home}, kind : Kinds, amount : Nat, status : {"PENDING", "APPROVED", "REJECTED"}]

PostRows ==
  [kind : Kinds, intent : Nat, stage : {"sent", "inserted", "refused"},
   row : Nat \cup {None}, lost : BOOLEAN, told : BOOLEAN]

FormRows == [open : BOOLEAN, pending : Nat \cup {None}, intent : Nat]

ListRows ==
  [rows : Seq(Nat), fetch : {"none", "sent", "read"}, got : Seq(Nat),
   data : BOOLEAN, invalid : BOOLEAN, early : BOOLEAN]

PageTyped ==
  /\ requests \in Seq(RequestRows)
  /\ form \in [Kinds -> FormRows]
  /\ posts \in Seq(PostRows)
  /\ list \in ListRows

(* What the page keeps are rows of the books, and it reports a submission  *)
(* that the server has inserted.                                           *)
PageRefers ==
  /\ \A k \in Kinds : form[k].pending \in DOMAIN posts \cup {None}
  /\ \A p \in DOMAIN posts :
       /\ posts[p].row \in DOMAIN requests \cup {None}
       /\ posts[p].stage = "inserted" => posts[p].row # None
       /\ posts[p].told => posts[p].stage = "inserted"
  /\ RowsIn(list.rows) \subseteq DOMAIN requests
  /\ RowsIn(list.got) \subseteq DOMAIN requests

(* Of the submissions of what is in the form now, one is under way at      *)
(* most; the others were refused or given up.                              *)
Intents ==
  \A p \in DOMAIN posts :
    /\ posts[p].intent <= form[posts[p].kind].intent
    /\ posts[p].intent = form[posts[p].kind].intent =>
         \/ form[posts[p].kind].pending = p
         \/ posts[p].stage = "refused"
         \/ posts[p].lost

SubmittedOnce ==
  \A p, q \in DOMAIN posts :
    /\ p < q
    /\ posts[p].kind = posts[q].kind /\ posts[p].intent = posts[q].intent
    /\ posts[p].stage # "refused"
    => posts[p].lost

(* A list that was read after the page had reported a submission. *)
Shows(rows, p) ==
  \/ posts[p].row \in RowsIn(rows)
  \/ Cardinality({i \in Ids(requests, Home) : i > posts[p].row}) >= Limit.requests

Fresh ==
  /\ list.fetch = "read" /\ (list.data \/ ~list.early) =>
       \A p \in DOMAIN posts : posts[p].told => Shows(list.got, p)
  /\ ~list.invalid /\ ~list.early =>
       \A p \in DOMAIN posts : posts[p].told => Shows(list.rows, p)
  /\ list.early /\ ~list.data => list.invalid

WalletInv == PageTyped /\ PageRefers /\ Intents /\ SubmittedOnce /\ Fresh

LEMMA WalletSteps ==
  ASSUME [PortalNext]_portalVars
  PROVE  \/ WalletPage
         \/ Requesting /\ UNCHANGED pageVars
         \/ UNCHANGED <<requests, pageVars>>
<1>1. CASE Fills
  BY <1>1 DEF Fills, Fill
<1>2. CASE Requesting
  BY <1>2 DEF Requesting, PostRequest, Approve, Reject
<1>3. CASE Reading
  BY <1>3, ReadingSteps DEF books
<1>4. CASE Tables
  BY <1>4, TablesSteps DEF books
<1>5. CASE Feed
  BY <1>5 DEF Feed, ReceivePush, StoreSnapshot, PublishSnapshot, FailPush, ExpireSnapshot, books
<1>6. CASE UNCHANGED portalVars
  BY <1>6 DEF portalVars, books
<1>. QED BY <1>1, <1>2, <1>3, <1>4, <1>5, <1>6 DEF PortalNext

(* Requests are added and decided, never removed. *)
LEMMA RequestsGrow ==
  ASSUME PageTyped, Requesting
  PROVE  /\ requests' \in Seq(RequestRows)
         /\ DOMAIN requests \subseteq DOMAIN requests'
<1>0. requests \in Seq(RequestRows)
  BY DEF PageTyped
<1>1. ASSUME NEW k \in Kinds, PostRequest(k)
      PROVE  /\ requests' \in Seq(RequestRows)
             /\ DOMAIN requests \subseteq DOMAIN requests'
  <2> DEFINE r == [broker |-> Home, kind |-> k, amount |-> Amount[k], status |-> "PENDING"]
  <2>1. r \in RequestRows
    BY PortalAssumption DEF RequestRows
  <2>2. requests' = Append(requests, r)
    BY <1>1 DEF PostRequest
  <2> HIDE DEF r
  <2>. QED BY <1>0, <2>1, <2>2
<1>2. ASSUME NEW i \in DOMAIN requests, Approve(i) \/ Reject(i)
      PROVE  /\ requests' \in Seq(RequestRows)
             /\ DOMAIN requests \subseteq DOMAIN requests'
  <2>1. PICK s \in {"APPROVED", "REJECTED"} : requests' = [requests EXCEPT ![i].status = s]
    BY <1>2 DEF Approve, Reject
  <2>2. requests[i] \in RequestRows
    BY <1>0
  <2>3. [requests[i] EXCEPT !.status = s] \in RequestRows
    BY <2>2 DEF RequestRows
  <2>. QED BY <1>0, <2>1, <2>3
<1>. QED BY <1>1, <1>2 DEF Requesting

LEMMA DomainFinite ==
  ASSUME NEW R, NEW s \in Seq(R)
  PROVE  IsFiniteSet(DOMAIN s) /\ DOMAIN s \subseteq Int
<1>1. DOMAIN s = 1 .. Len(s) /\ Len(s) \in Nat
  OBVIOUS
<1>2. ASSUME NEW n \in Nat PROVE IsFiniteSet(1 .. n)
  BY FS_Interval
<1>. QED BY <1>1, <1>2

(* A list that shows a request goes on showing it, or newer ones fill it.  *)
LEMMA ShowsStays ==
  ASSUME PageTyped, requests' \in Seq(RequestRows), DOMAIN requests \subseteq DOMAIN requests',
         NEW rows, NEW p, NEW q, posts'[q].row = posts[p].row, Shows(rows, p)
  PROVE  \/ posts'[q].row \in RowsIn(rows)
         \/ Cardinality({i \in Ids(requests', Home) : i > posts'[q].row}) >= Limit.requests
<1> DEFINE x == posts[p].row
           S == {i \in Ids(requests, Home) : i > x}
           T == {i \in Ids(requests', Home) : i > x}
<1>0. requests \in Seq(RequestRows)
  BY DEF PageTyped
<1>1. S \subseteq T
  <2>1. \A i \in DOMAIN requests' : requests'[i] \in RequestRows
    OBVIOUS
  <2>2. \A i \in DOMAIN requests' : requests'[i].broker = Home
    BY <2>1 DEF RequestRows
  <2>. QED BY <2>2 DEF Ids
<1>2. IsFiniteSet(T)
  <2>1. T \in SUBSET DOMAIN requests'
    BY DEF Ids
  <2>. QED BY <2>1, DomainFinite, FS_Subset
<1>3. IsFiniteSet(S) /\ Cardinality(S) \in Nat /\ Cardinality(T) \in Nat
      /\ Cardinality(S) <= Cardinality(T)
  <2> HIDE DEF S, T
  <2>. QED BY <1>1, <1>2, FS_Subset, FS_CardinalityType
<1>4. x \in RowsIn(rows) \/ Cardinality(S) >= Limit.requests
  BY DEF Shows
<1>5. Limit.requests \in Nat
  BY ReportsAssumption
<1>6. x \in RowsIn(rows) \/ Cardinality(T) >= Limit.requests
  <2> HIDE DEF S, T, x
  <2>. QED BY <1>3, <1>4, <1>5
<1>. QED BY <1>6

LEMMA FreshStays ==
  ASSUME PageTyped, Fresh, requests' \in Seq(RequestRows),
         DOMAIN requests \subseteq DOMAIN requests', list' = list,
         \A p \in DOMAIN posts' : posts'[p].told =>
           p \in DOMAIN posts /\ posts[p].told /\ posts'[p].row = posts[p].row
  PROVE  Fresh'
<1>1. ASSUME NEW p \in DOMAIN posts', posts'[p].told, NEW rows, Shows(rows, p)
      PROVE  \/ posts'[p].row \in RowsIn(rows)
             \/ Cardinality({i \in Ids(requests', Home) : i > posts'[p].row}) >= Limit.requests
  BY <1>1, ShowsStays
<1>2. ASSUME list.fetch = "read", list.data \/ ~list.early,
             NEW p \in DOMAIN posts', posts'[p].told
      PROVE  \/ posts'[p].row \in RowsIn(list'.got)
             \/ Cardinality({i \in Ids(requests', Home) : i > posts'[p].row}) >= Limit.requests
  <2>1. Shows(list.got, p)
    BY <1>2 DEF Fresh
  <2>. QED BY <1>1, <1>2, <2>1
<1>3. ASSUME ~list.invalid, ~list.early, NEW p \in DOMAIN posts', posts'[p].told
      PROVE  \/ posts'[p].row \in RowsIn(list'.rows)
             \/ Cardinality({i \in Ids(requests', Home) : i > posts'[p].row}) >= Limit.requests
  <2>1. Shows(list.rows, p)
    BY <1>3 DEF Fresh
  <2>. QED BY <1>1, <1>3, <2>1
<1>. QED BY <1>2, <1>3 DEF Fresh, Shows, RowsIn, Ids

(* The page and the table of requests move apart from each other. *)
LEMMA RequestsStep ==
  ASSUME WalletInv, requests' \in Seq(RequestRows), DOMAIN requests \subseteq DOMAIN requests',
         UNCHANGED pageVars
  PROVE  WalletInv'
<1>1. form' = form /\ posts' = posts /\ list' = list
  BY DEF pageVars
<1>2. PageTyped'
  BY <1>1 DEF WalletInv, PageTyped
<1>3. PageRefers'
  BY <1>1 DEF WalletInv, PageRefers, RowsIn
<1>4. Intents' /\ SubmittedOnce'
  BY <1>1 DEF WalletInv, Intents, SubmittedOnce
<1>5. Fresh'
  BY <1>1, FreshStays DEF WalletInv
<1>. QED BY <1>2, <1>3, <1>4, <1>5 DEF WalletInv

LEMMA PostFields ==
  ASSUME PageTyped, NEW p \in DOMAIN posts
  PROVE  /\ posts[p] \in PostRows
         /\ posts[p].kind \in Kinds /\ posts[p].intent \in Nat
         /\ form[posts[p].kind] \in FormRows
<1>1. posts[p] \in PostRows
  BY DEF PageTyped
<1>2. posts[p].kind \in Kinds /\ posts[p].intent \in Nat
  BY <1>1 DEF PostRows
<1>. QED BY <1>1, <1>2 DEF PageTyped

LEMMA PostSet ==
  ASSUME PageTyped, NEW p \in DOMAIN posts, NEW r \in PostRows,
         posts' = [posts EXCEPT ![p] = r]
  PROVE  /\ posts' \in Seq(PostRows)
         /\ DOMAIN posts' = DOMAIN posts
         /\ posts'[p] = r
         /\ \A q \in DOMAIN posts : q # p => posts'[q] = posts[q]
BY DEF PageTyped

LEMMA FormSet ==
  ASSUME PageTyped, NEW k \in Kinds, NEW f \in FormRows, form' = [form EXCEPT ![k] = f]
  PROVE  /\ form' \in [Kinds -> FormRows]
         /\ form'[k] = f
         /\ \A j \in Kinds : j # k => form'[j] = form[j]
BY DEF PageTyped

LEMMA ToggleStep ==
  ASSUME WalletInv, NEW k \in Kinds, Toggle(k)
  PROVE  WalletInv'
<1>1. /\ form' = [x \in Kinds |-> [form[x] EXCEPT !.open = (x = k) /\ ~form[x].open]]
      /\ posts' = posts /\ list' = list /\ requests' = requests
  BY DEF Toggle, books
<1>2. ASSUME NEW x \in Kinds
      PROVE  /\ form'[x] \in FormRows
             /\ form'[x].pending = form[x].pending /\ form'[x].intent = form[x].intent
  <2>1. form[x] \in FormRows
    BY DEF WalletInv, PageTyped
  <2>2. form'[x] = [form[x] EXCEPT !.open = (x = k) /\ ~form[x].open]
    BY <1>1
  <2>. QED BY <2>1, <2>2 DEF FormRows
<1>3. PageTyped'
  BY <1>1, <1>2 DEF WalletInv, PageTyped
<1>4. PageRefers'
  BY <1>1, <1>2 DEF WalletInv, PageRefers, RowsIn
<1>5. \A p \in DOMAIN posts : posts[p].kind \in Kinds
  BY PostFields DEF WalletInv
<1>6. Intents'
  BY <1>1, <1>2, <1>5 DEF WalletInv, Intents
<1>7. SubmittedOnce'
  BY <1>1 DEF WalletInv, SubmittedOnce
<1>8. Fresh'
  BY <1>1, FreshStays DEF WalletInv, PageTyped
<1>. QED BY <1>3, <1>4, <1>6, <1>7, <1>8 DEF WalletInv

LEMMA SubmitStep ==
  ASSUME WalletInv, NEW k \in Kinds, Submit(k)
  PROVE  WalletInv'
<1> DEFINE n == Len(posts) + 1
           r == [kind |-> k, intent |-> form[k].intent, stage |-> "sent",
                 row |-> None, lost |-> FALSE, told |-> FALSE]
           f == [form[k] EXCEPT !.pending = n]
<1>1. /\ posts' = Append(posts, r) /\ form' = [form EXCEPT ![k].pending = n]
      /\ form[k].pending = None /\ list' = list /\ requests' = requests
  BY DEF Submit, CanSubmit, books
<1>2. form[k] \in FormRows /\ posts \in Seq(PostRows) /\ Len(posts) \in Nat
  BY DEF WalletInv, PageTyped
<1>3. f \in FormRows /\ f.pending = n /\ f.intent = form[k].intent
  BY <1>2 DEF FormRows
<1>4. r \in PostRows
  BY <1>2 DEF PostRows, FormRows
<1>5. /\ form' \in [Kinds -> FormRows]
      /\ form'[k].pending = n /\ form'[k].intent = form[k].intent
      /\ \A j \in Kinds : j # k => form'[j] = form[j]
  <2>1. form' = [form EXCEPT ![k] = f]
    BY <1>1 DEF WalletInv, PageTyped
  <2> HIDE DEF f, n
  <2>. QED BY <1>3, <2>1, FormSet DEF WalletInv
<1>6. /\ posts' \in Seq(PostRows) /\ DOMAIN posts' = DOMAIN posts \cup {n}
      /\ n \notin DOMAIN posts /\ posts'[n] = r
      /\ \A p \in DOMAIN posts : posts'[p] = posts[p] /\ p < n
  <2> HIDE DEF r
  <2>. QED BY <1>1, <1>2, <1>4
<1>7. /\ posts'[n].kind = k /\ posts'[n].intent = form[k].intent /\ posts'[n].stage = "sent"
      /\ posts'[n].row = None /\ ~posts'[n].told
  BY <1>6
<1>8. n \in Nat
  BY <1>2
<1> HIDE DEF n, r, f
<1>9. \A p \in DOMAIN posts : posts[p].kind \in Kinds
  BY PostFields DEF WalletInv
<1>10. PageTyped'
  BY <1>1, <1>5, <1>6 DEF WalletInv, PageTyped
<1>11. PageRefers'
  BY <1>1, <1>5, <1>6, <1>7 DEF WalletInv, PageRefers, RowsIn
<1>12. ASSUME NEW p \in DOMAIN posts, posts[p].kind = k, posts[p].intent = form[k].intent
       PROVE  posts[p].stage = "refused" \/ posts[p].lost
  <2>1. p # None
    BY <1>2, ReportsAssumption
  <2>. QED BY <1>1, <1>12, <2>1 DEF WalletInv, Intents
<1>13. Intents'
  <2>1. ASSUME NEW p \in DOMAIN posts
        PROVE  /\ posts'[p].intent <= form'[posts'[p].kind].intent
               /\ posts'[p].intent = form'[posts'[p].kind].intent =>
                    \/ form'[posts'[p].kind].pending = p
                    \/ posts'[p].stage = "refused"
                    \/ posts'[p].lost
    <3>1. CASE posts[p].kind = k
      BY <1>5, <1>6, <1>12, <3>1 DEF WalletInv, Intents
    <3>2. CASE posts[p].kind # k
      BY <1>5, <1>6, <1>9, <3>2 DEF WalletInv, Intents
    <3>. QED BY <3>1, <3>2
  <2>2. form[k].intent <= form[k].intent
    BY <1>2 DEF FormRows
  <2>. QED BY <1>5, <1>6, <1>7, <2>1, <2>2 DEF Intents
<1>14. SubmittedOnce'
  <2> SUFFICES ASSUME NEW p \in DOMAIN posts', NEW q \in DOMAIN posts', p < q,
                      posts'[p].kind = posts'[q].kind, posts'[p].intent = posts'[q].intent,
                      posts'[p].stage # "refused"
               PROVE  posts'[p].lost
    BY DEF SubmittedOnce
  <2>1. p \in DOMAIN posts
    <3>1. \A x \in DOMAIN posts : x \in Nat
      BY <1>2
    <3>. QED BY <1>6, <1>8, <3>1
  <2>2. CASE q = n
    BY <1>6, <1>7, <1>12, <2>1, <2>2
  <2>3. CASE q \in DOMAIN posts
    BY <1>6, <2>1, <2>3 DEF WalletInv, SubmittedOnce
  <2>. QED BY <1>6, <2>2, <2>3
<1>15. Fresh'
  BY <1>1, <1>6, <1>7, FreshStays DEF WalletInv, PageTyped
<1>. QED BY <1>10, <1>11, <1>13, <1>14, <1>15 DEF WalletInv

(* The server decides about a submission. *)
LEMMA CreateStep ==
  ASSUME WalletInv, NEW p \in DOMAIN posts, CreateRequest(p)
  PROVE  WalletInv'
<1> DEFINE x == Len(requests) + 1
           r == [broker |-> Home, kind |-> posts[p].kind, amount |-> Amount[posts[p].kind],
                 status |-> "PENDING"]
           s == [posts[p] EXCEPT !.stage = "inserted", !.row = x]
<1>0. PageTyped /\ posts[p] \in PostRows /\ posts[p].kind \in Kinds /\ requests \in Seq(RequestRows)
  BY PostFields DEF WalletInv, PageTyped
<1>1. /\ posts[p].stage = "sent" /\ requests' = Append(requests, r)
      /\ posts' = [posts EXCEPT ![p].stage = "inserted", ![p].row = x]
      /\ form' = form /\ list' = list
  BY DEF CreateRequest
<1>2. r \in RequestRows
  BY <1>0, PortalAssumption DEF RequestRows
<1>3. /\ requests' \in Seq(RequestRows) /\ DOMAIN requests \subseteq DOMAIN requests'
      /\ x \in DOMAIN requests' /\ x \in Nat
  <2> HIDE DEF r
  <2>. QED BY <1>0, <1>1, <1>2
<1>4. /\ s \in PostRows /\ s.stage = "inserted" /\ s.row = x /\ s.kind = posts[p].kind
      /\ s.intent = posts[p].intent /\ s.lost = posts[p].lost /\ s.told = posts[p].told
  <2> HIDE DEF x
  <2>1. [posts[p] EXCEPT !.stage = "inserted"] \in PostRows
    BY <1>0 DEF PostRows
  <2>. QED BY <1>0, <1>3, <2>1 DEF PostRows
<1>5. posts' = [posts EXCEPT ![p] = s]
  BY <1>0, <1>1 DEF PageTyped
<1> HIDE DEF s, r, x
<1>6. /\ posts' \in Seq(PostRows) /\ DOMAIN posts' = DOMAIN posts /\ posts'[p] = s
      /\ \A q \in DOMAIN posts : q # p => posts'[q] = posts[q]
  BY <1>0, <1>4, <1>5, PostSet
<1>7. x # None
  BY <1>3, ReportsAssumption
<1>8. PageTyped'
  BY <1>0, <1>1, <1>3, <1>6 DEF PageTyped
<1>9. PageRefers'
  BY <1>1, <1>3, <1>4, <1>6, <1>7 DEF WalletInv, PageRefers, RowsIn
<1>10. Intents'
  BY <1>1, <1>4, <1>6 DEF WalletInv, Intents
<1>11. SubmittedOnce'
  BY <1>1, <1>4, <1>6 DEF WalletInv, SubmittedOnce
<1>12. ~posts[p].told
  BY <1>1 DEF WalletInv, PageRefers
<1>13. Fresh'
  BY <1>1, <1>3, <1>4, <1>6, <1>12, FreshStays DEF WalletInv
<1>. QED BY <1>8, <1>9, <1>10, <1>11, <1>13 DEF WalletInv

LEMMA RefuseStep ==
  ASSUME WalletInv, NEW p \in DOMAIN posts, RefuseRequest(p)
  PROVE  WalletInv'
<1> DEFINE s == [posts[p] EXCEPT !.stage = "refused"]
<1>0. PageTyped /\ posts[p] \in PostRows
  BY PostFields DEF WalletInv
<1>1. /\ posts[p].stage = "sent" /\ posts' = [posts EXCEPT ![p].stage = "refused"]
      /\ form' = form /\ list' = list /\ requests' = requests
  BY DEF RefuseRequest, books
<1>2. /\ s \in PostRows /\ s.stage = "refused" /\ s.row = posts[p].row
      /\ s.kind = posts[p].kind /\ s.intent = posts[p].intent
      /\ s.lost = posts[p].lost /\ s.told = posts[p].told
  BY <1>0 DEF PostRows
<1>3. posts' = [posts EXCEPT ![p] = s]
  BY <1>0, <1>1 DEF PageTyped
<1> HIDE DEF s
<1>4. /\ posts' \in Seq(PostRows) /\ DOMAIN posts' = DOMAIN posts /\ posts'[p] = s
      /\ \A q \in DOMAIN posts : q # p => posts'[q] = posts[q]
  BY <1>0, <1>2, <1>3, PostSet
<1>5. PageTyped'
  BY <1>0, <1>1, <1>4 DEF PageTyped
<1>6. PageRefers'
  BY <1>1, <1>2, <1>4 DEF WalletInv, PageRefers, RowsIn
<1>7. Intents'
  BY <1>1, <1>2, <1>4 DEF WalletInv, Intents
<1>8. SubmittedOnce'
  BY <1>1, <1>2, <1>4 DEF WalletInv, SubmittedOnce
<1>9. Fresh'
  BY <1>0, <1>1, <1>2, <1>4, FreshStays DEF WalletInv, PageTyped
<1>. QED BY <1>5, <1>6, <1>7, <1>8, <1>9 DEF WalletInv

(* The answer reaches the page, or does not. *)
LEMMA SucceedStep ==
  ASSUME WalletInv, NEW p \in DOMAIN posts, Succeed(p)
  PROVE  WalletInv'
<1> DEFINE k == posts[p].kind
           s == [posts[p] EXCEPT !.told = TRUE]
           f == [open |-> FALSE, pending |-> None, intent |-> form[k].intent + 1]
<1>0. PageTyped /\ posts[p] \in PostRows /\ k \in Kinds /\ form[k] \in FormRows
  BY PostFields DEF WalletInv
<1>1. /\ posts[p].stage = "inserted" /\ posts' = [posts EXCEPT ![p].told = TRUE]
      /\ form' = [form EXCEPT ![k] = f] /\ requests' = requests
      /\ list' = IF ~list.data /\ list.fetch # "none"
                 THEN [list EXCEPT !.invalid = TRUE, !.early = @ \/ list.fetch = "read"]
                 ELSE [list EXCEPT !.invalid = TRUE, !.fetch = "sent", !.got = <<>>]
  BY <1>0 DEF Succeed, books, PageTyped
<1>2. /\ s \in PostRows /\ s.stage = posts[p].stage /\ s.row = posts[p].row
      /\ s.kind = posts[p].kind /\ s.intent = posts[p].intent /\ s.lost = posts[p].lost
  BY <1>0 DEF PostRows
<1>3. f \in FormRows /\ f.pending = None /\ f.intent = form[k].intent + 1
      /\ form[k].intent \in Nat
  BY <1>0 DEF FormRows
<1>4. posts' = [posts EXCEPT ![p] = s]
  BY <1>0, <1>1 DEF PageTyped
<1>5. /\ list' \in ListRows /\ list'.rows = list.rows /\ list'.invalid
      /\ list'.got \in {list.got, <<>>} /\ list'.data = list.data
      /\ list'.fetch = "read" => ~list'.data /\ list'.early
  <2>1. list \in ListRows
    BY <1>0 DEF PageTyped
  <2>2. /\ list.rows \in Seq(Nat) /\ list.got \in Seq(Nat) /\ <<>> \in Seq(Nat)
        /\ list.fetch \in {"none", "sent", "read"}
        /\ list.data \in BOOLEAN /\ list.early \in BOOLEAN
    BY <2>1 DEF ListRows
  <2>3. CASE ~list.data /\ list.fetch # "none"
    <3> DEFINE e == list.early \/ list.fetch = "read"
    <3>1. list' = [rows |-> list.rows, fetch |-> list.fetch, got |-> list.got,
                   data |-> list.data, invalid |-> TRUE, early |-> e]
      BY <1>1, <2>1, <2>3 DEF ListRows
    <3>2. e \in BOOLEAN /\ (list.fetch = "read" => e)
      BY <2>2
    <3> HIDE DEF e
    <3>. QED BY <2>2, <2>3, <3>1, <3>2 DEF ListRows
  <2>4. CASE ~(~list.data /\ list.fetch # "none")
    <3>1. list' = [rows |-> list.rows, fetch |-> "sent", got |-> <<>>,
                   data |-> list.data, invalid |-> TRUE, early |-> list.early]
      BY <1>1, <2>1, <2>4 DEF ListRows
    <3>. QED BY <2>2, <3>1 DEF ListRows
  <2>. QED BY <2>3, <2>4
<1> HIDE DEF s, f, k
<1>6. /\ posts' \in Seq(PostRows) /\ DOMAIN posts' = DOMAIN posts /\ posts'[p] = s
      /\ \A q \in DOMAIN posts : q # p => posts'[q] = posts[q]
  BY <1>0, <1>2, <1>4, PostSet
<1>7. /\ form' \in [Kinds -> FormRows] /\ form'[k] = f
      /\ \A j \in Kinds : j # k => form'[j] = form[j]
  BY <1>0, <1>1, <1>3, FormSet
<1>8. PageTyped'
  BY <1>0, <1>1, <1>5, <1>6, <1>7 DEF PageTyped
<1>9. PageRefers'
  <2>1. RowsIn(list'.got) \subseteq DOMAIN requests
    <3>1. RowsIn(<<>>) = {} /\ RowsIn(list.got) \subseteq DOMAIN requests
      BY DEF WalletInv, PageRefers, RowsIn
    <3>. QED BY <1>5, <3>1
  <2>. QED BY <1>1, <1>2, <1>3, <1>5, <1>6, <1>7, <2>1 DEF WalletInv, PageRefers, RowsIn
<1>10. Intents'
  <2> SUFFICES ASSUME NEW q \in DOMAIN posts
               PROVE  /\ posts[q].intent <= form'[posts[q].kind].intent
                      /\ posts[q].intent = form'[posts[q].kind].intent =>
                           \/ form'[posts[q].kind].pending = q
                           \/ posts[q].stage = "refused"
                           \/ posts[q].lost
    BY <1>2, <1>6 DEF Intents
  <2>1. /\ posts[q].kind \in Kinds /\ posts[q].intent \in Nat
        /\ posts[q].intent <= form[posts[q].kind].intent
    BY <1>0, PostFields DEF WalletInv, Intents
  <2>2. CASE posts[q].kind = k
    BY <1>3, <1>7, <2>1, <2>2
  <2>3. CASE posts[q].kind # k
    BY <1>7, <2>1, <2>3 DEF WalletInv, Intents
  <2>. QED BY <2>2, <2>3
<1>11. SubmittedOnce'
  BY <1>2, <1>6 DEF WalletInv, SubmittedOnce
<1>12. Fresh'
  BY <1>5 DEF Fresh
<1>. QED BY <1>8, <1>9, <1>10, <1>11, <1>12 DEF WalletInv

LEMMA FailStep ==
  ASSUME WalletInv, NEW p \in DOMAIN posts, Fail(p)
  PROVE  WalletInv'
<1> DEFINE k == posts[p].kind
           s == [posts[p] EXCEPT !.lost = posts[p].stage # "refused"]
           f == [form[k] EXCEPT !.pending = None]
<1>0. PageTyped /\ posts[p] \in PostRows /\ k \in Kinds /\ form[k] \in FormRows
  BY PostFields DEF WalletInv
<1>1. /\ posts' = [posts EXCEPT ![p].lost = posts[p].stage # "refused"]
      /\ form' = [form EXCEPT ![k].pending = None]
      /\ form[k].pending = p /\ requests' = requests /\ list' = list
  BY DEF Fail, books
<1>2. /\ s \in PostRows /\ s.stage = posts[p].stage /\ s.row = posts[p].row
      /\ s.kind = posts[p].kind /\ s.intent = posts[p].intent /\ s.told = posts[p].told
      /\ s.lost = (posts[p].stage # "refused")
  BY <1>0 DEF PostRows
<1>3. f \in FormRows /\ f.pending = None /\ f.intent = form[k].intent
  BY <1>0 DEF FormRows
<1>4. posts' = [posts EXCEPT ![p] = s] /\ form' = [form EXCEPT ![k] = f]
  BY <1>0, <1>1 DEF PageTyped
<1> HIDE DEF s, f, k
<1>5. /\ posts' \in Seq(PostRows) /\ DOMAIN posts' = DOMAIN posts /\ posts'[p] = s
      /\ \A q \in DOMAIN posts : q # p => posts'[q] = posts[q]
  BY <1>0, <1>2, <1>4, PostSet
<1>6. /\ form' \in [Kinds -> FormRows] /\ form'[k] = f
      /\ \A j \in Kinds : j # k => form'[j] = form[j]
  BY <1>0, <1>3, <1>4, FormSet
<1>7. PageTyped'
  BY <1>0, <1>1, <1>5, <1>6 DEF PageTyped
<1>8. PageRefers'
  <2>1. \A j \in Kinds : form'[j].pending \in DOMAIN posts \cup {None}
    BY <1>3, <1>6 DEF WalletInv, PageRefers
  <2>2. \A q \in DOMAIN posts : /\ posts'[q].row = posts[q].row
                                /\ posts'[q].stage = posts[q].stage
                                /\ posts'[q].told = posts[q].told
    BY <1>2, <1>5
  <2>. QED BY <1>1, <1>5, <2>1, <2>2 DEF WalletInv, PageRefers, RowsIn
<1>9. Intents'
  <2> SUFFICES ASSUME NEW q \in DOMAIN posts
               PROVE  /\ posts[q].intent <= form'[posts[q].kind].intent
                      /\ posts[q].intent = form'[posts[q].kind].intent =>
                           \/ form'[posts[q].kind].pending = q
                           \/ posts[q].stage = "refused"
                           \/ posts'[q].lost
    BY <1>2, <1>5 DEF Intents
  <2>1. posts[q].kind \in Kinds /\ form'[posts[q].kind].intent = form[posts[q].kind].intent
    BY <1>0, <1>3, <1>6, PostFields
  <2>2. CASE q = p
    BY <1>2, <1>5, <2>1, <2>2 DEF WalletInv, Intents
  <2>3. CASE q # p
    BY <1>1, <1>5, <1>6, <2>1, <2>3 DEF WalletInv, Intents
  <2>. QED BY <2>2, <2>3
<1>10. SubmittedOnce'
  <2> SUFFICES ASSUME NEW q \in DOMAIN posts, NEW z \in DOMAIN posts, q < z,
                      posts'[q].kind = posts'[z].kind, posts'[q].intent = posts'[z].intent,
                      posts'[q].stage # "refused"
               PROVE  posts'[q].lost
    BY <1>5 DEF SubmittedOnce
  <2>1. /\ posts[q].kind = posts[z].kind /\ posts[q].intent = posts[z].intent
        /\ posts[q].stage # "refused"
    BY <1>2, <1>5
  <2>2. CASE q = p
    BY <1>2, <1>5, <2>1, <2>2
  <2>3. CASE q # p
    BY <1>5, <2>1, <2>3 DEF WalletInv, SubmittedOnce
  <2>. QED BY <2>2, <2>3
<1>11. Fresh'
  BY <1>0, <1>1, <1>2, <1>5, FreshStays DEF WalletInv, PageTyped
<1>. QED BY <1>7, <1>8, <1>9, <1>10, <1>11 DEF WalletInv

(* The list is fetched. *)
LEMMA FetchStep ==
  ASSUME WalletInv, FetchRead \/ FetchReceive \/ FetchFail \/ FetchAgain
  PROVE  WalletInv'
<1>0. PageTyped /\ list \in ListRows /\ list.rows \in Seq(Nat) /\ list.got \in Seq(Nat)
  BY DEF WalletInv, PageTyped, ListRows
<1>1. requests' = requests /\ form' = form /\ posts' = posts
  BY DEF FetchRead, FetchReceive, FetchFail, FetchAgain, books
<1>2. SUFFICES ASSUME TRUE
               PROVE  /\ list' \in ListRows
                      /\ RowsIn(list'.rows) \subseteq DOMAIN requests
                      /\ RowsIn(list'.got) \subseteq DOMAIN requests
                      /\ Fresh'
  <2>1. ASSUME list' \in ListRows PROVE PageTyped'
    BY <1>0, <1>1, <2>1 DEF PageTyped
  <2>2. ASSUME RowsIn(list'.rows) \subseteq DOMAIN requests,
               RowsIn(list'.got) \subseteq DOMAIN requests
        PROVE  PageRefers'
    BY <1>1, <2>2 DEF WalletInv, PageRefers, RowsIn
  <2>3. Intents' /\ SubmittedOnce'
    BY <1>1 DEF WalletInv, Intents, SubmittedOnce
  <2>. QED BY <2>1, <2>2, <2>3 DEF WalletInv
<1>3. RowsIn(<<>>) = {} /\ <<>> \in Seq(Nat)
  BY DEF RowsIn
<1>4. CASE FetchRead
  <2> DEFINE S == Ids(requests, Home)
             N == Newest(S, Limit.requests)
  <2>1. list' = [list EXCEPT !.fetch = "read", !.got = N]
    BY <1>4 DEF FetchRead, ListDepositRequests
  <2>2. IsFiniteSet(S) /\ S \subseteq Int /\ S \subseteq DOMAIN requests /\ S \subseteq Nat
    <3>1. S \in SUBSET DOMAIN requests
      BY DEF Ids
    <3>2. IsFiniteSet(DOMAIN requests) /\ DOMAIN requests \subseteq Nat
      BY <1>0, DomainFinite DEF PageTyped
    <3>. QED BY <3>1, <3>2, FS_Subset
  <2>3. Limit.requests \in Nat
    BY ReportsAssumption
  <2>4. N \in Seq(S) /\ RowsIn(N) \subseteq S
    <3> HIDE DEF S
    <3>. QED BY <2>2, <2>3, NewestPlaces, NewestRows
  <2>5. N \in Seq(Nat)
    <3> HIDE DEF N, S
    <3>. QED BY <2>2, <2>4, SeqMonotonic
  <2>6. \A i \in S : i \in RowsIn(N) \/ Cardinality({j \in S : j > i}) >= Limit.requests
    <3> SUFFICES ASSUME NEW i \in S PROVE i \in RowsIn(N) \/ Cardinality(Above(S, i)) >= Limit.requests
      BY DEF Above
    <3> HIDE DEF S
    <3>1. Cardinality(Above(S, i)) \in Nat
      BY <2>2, AboveFinite
    <3>2. Cardinality(Above(S, i)) < Limit.requests => i \in RowsIn(N)
      BY <2>2, <2>3, NewestShows
    <3>. QED BY <2>3, <3>1, <3>2
  <2>7. /\ list' \in ListRows /\ list'.rows = list.rows /\ list'.got = N /\ list'.fetch = "read"
        /\ list'.data = list.data /\ list'.invalid = list.invalid /\ list'.early = list.early
    <3> HIDE DEF N
    <3>1. list' = [rows |-> list.rows, fetch |-> "read", got |-> N, data |-> list.data,
                   invalid |-> list.invalid, early |-> list.early]
      BY <1>0, <2>1 DEF ListRows
    <3>. QED BY <1>0, <2>5, <3>1 DEF ListRows
  <2>8. ASSUME NEW p \in DOMAIN posts, posts[p].told PROVE posts[p].row \in S
    <3>1. posts[p].row \in DOMAIN requests
      BY <2>8 DEF WalletInv, PageRefers
    <3>2. requests[posts[p].row] \in RequestRows
      BY <1>0, <3>1 DEF PageTyped
    <3>3. requests[posts[p].row].broker = Home
      BY <3>2 DEF RequestRows
    <3>. QED BY <3>1, <3>3 DEF Ids
  <2>9. \A p \in DOMAIN posts : posts[p].told => Shows(N, p)
    BY <2>6, <2>8 DEF Shows
  <2> HIDE DEF N, S
  <2>10. Fresh'
    BY <1>1, <2>7, <2>9 DEF WalletInv, Fresh, Shows, RowsIn, Ids
  <2>. QED BY <2>2, <2>4, <2>7, <2>10 DEF WalletInv, PageRefers
<1>5. CASE FetchReceive
  <2>1. /\ list.fetch = "read"
        /\ list' = [rows |-> list.got, fetch |-> "none", got |-> <<>>,
                    data |-> TRUE, invalid |-> FALSE, early |-> list.early /\ ~list.data]
    BY <1>5 DEF FetchReceive
  <2>2. /\ list' \in ListRows /\ list'.rows = list.got /\ list'.got = <<>>
        /\ list'.fetch = "none" /\ list'.data /\ list'.early = (list.early /\ ~list.data)
    BY <1>0, <1>3, <2>1 DEF ListRows
  <2>3. Fresh'
    BY <1>1, <2>1, <2>2 DEF WalletInv, Fresh, Shows, RowsIn, Ids
  <2>. QED BY <1>3, <2>2, <2>3 DEF WalletInv, PageRefers
<1>6. CASE FetchFail
  <2>1. list' = [rows |-> list.rows, fetch |-> "none", got |-> <<>>, data |-> list.data,
                 invalid |-> list.invalid, early |-> list.early /\ list.data]
    BY <1>0, <1>6 DEF FetchFail, ListRows
  <2>2. /\ list' \in ListRows /\ list'.rows = list.rows /\ list'.got = <<>>
        /\ list'.fetch = "none" /\ list'.data = list.data /\ list'.invalid = list.invalid
        /\ list'.early = (list.early /\ list.data)
    BY <1>0, <1>3, <2>1 DEF ListRows
  <2>3. Fresh'
    BY <1>1, <2>2 DEF WalletInv, Fresh, Shows, RowsIn, Ids
  <2>. QED BY <1>3, <2>2, <2>3 DEF WalletInv, PageRefers
<1>7. CASE FetchAgain
  <2>1. list' = [rows |-> list.rows, fetch |-> "sent", got |-> list.got, data |-> list.data,
                 invalid |-> list.invalid, early |-> list.early]
    BY <1>0, <1>7 DEF FetchAgain, ListRows
  <2>2. /\ list' \in ListRows /\ list'.rows = list.rows /\ list'.got = list.got
        /\ list'.fetch = "sent" /\ list'.data = list.data /\ list'.invalid = list.invalid
        /\ list'.early = list.early
    BY <1>0, <2>1 DEF ListRows
  <2>3. Fresh'
    BY <1>1, <2>2 DEF WalletInv, Fresh, Shows, RowsIn, Ids
  <2>. QED BY <2>2, <2>3 DEF WalletInv, PageRefers
<1>. QED BY <1>4, <1>5, <1>6, <1>7

LEMMA WalletStep ==
  ASSUME WalletInv, [PortalNext]_portalVars
  PROVE  WalletInv'
<1>1. CASE WalletPage
  BY <1>1, ToggleStep, SubmitStep, CreateStep, RefuseStep, SucceedStep, FailStep, FetchStep
     DEF WalletPage
<1>2. CASE Requesting /\ UNCHANGED pageVars
  BY <1>2, RequestsGrow, RequestsStep DEF WalletInv
<1>3. CASE UNCHANGED <<requests, pageVars>>
  BY <1>3, RequestsStep DEF WalletInv, PageTyped
<1>. QED BY <1>1, <1>2, <1>3, WalletSteps

LEMMA WalletInit == PortalInit => WalletInv
<1> SUFFICES ASSUME PortalInit PROVE WalletInv
  OBVIOUS
<1>1. posts = <<>> /\ requests = <<>> /\ DOMAIN posts = {}
  BY DEF PortalInit
<1>2. list = [rows |-> <<>>, fetch |-> "sent", got |-> <<>>,
              data |-> FALSE, invalid |-> FALSE, early |-> FALSE]
  BY DEF PortalInit
<1>3. PageTyped
  <2>1. posts \in Seq(PostRows) /\ requests \in Seq(RequestRows)
    BY <1>1
  <2>2. form \in [Kinds -> FormRows]
    BY DEF PortalInit, FormRows
  <2>3. <<>> \in Seq(Nat)
    OBVIOUS
  <2>4. list \in ListRows
    BY <1>2, <2>3 DEF ListRows
  <2>. QED BY <2>1, <2>2, <2>4 DEF PageTyped
<1>4. PageRefers
  <2>1. \A k \in Kinds : form[k].pending = None
    BY DEF PortalInit
  <2>2. RowsIn(list.rows) = {} /\ RowsIn(list.got) = {}
    BY <1>2 DEF RowsIn
  <2>. QED BY <1>1, <2>1, <2>2 DEF PageRefers
<1>5. Intents /\ SubmittedOnce /\ Fresh
  BY <1>1, <1>2 DEF Intents, SubmittedOnce, Fresh
<1>. QED BY <1>3, <1>4, <1>5 DEF WalletInv

(* The wallet page submits twice only what it gave up without an answer,   *)
(* although the SDK aborts after ten seconds and the server goes on; and a *)
(* request it has reported is in a list that counts as valid, unless newer *)
(* requests fill it or it is the page's first list, read before the report *)
(* and received after it (wallet/page.tsx, features/account/hooks.ts:33-69,*)
(* client.ts:79-124).                                                      *)
THEOREM SubmittedOnceThenShown == PortalSpec => []SubmittedOnceAndShown
<1>1. WalletInv => SubmittedOnceAndShown
  BY DEF WalletInv, SubmittedOnce, Fresh, Shows, ShownRequests, SubmittedOnceAndShown
<1>. QED BY <1>1, WalletInit, WalletStep, PTL DEF PortalSpec

-----------------------------------------------------------------------------
(* The books. *)

EntryRows == [broker : Brokers, amount : Int, type : {"DEPOSIT", "WITHDRAWAL", "CHARGE"}]

BooksTyped == trades \in Seq(Legs) /\ entries \in Seq(EntryRows)

LEMMA BooksSteps ==
  ASSUME [PortalNext]_portalVars
  PROVE  \/ Fills \/ Requesting
         \/ UNCHANGED <<trades, entries>>
<1>1. CASE Reading
  BY <1>1, ReadingSteps DEF books
<1>2. CASE Tables
  BY <1>2, TablesSteps DEF books
<1>3. CASE WalletPage
  BY <1>3 DEF WalletPage, Toggle, Submit, CreateRequest, RefuseRequest, Succeed, Fail,
              FetchRead, FetchReceive, FetchFail, FetchAgain, books
<1>4. CASE Feed
  BY <1>4 DEF Feed, ReceivePush, StoreSnapshot, PublishSnapshot, FailPush, ExpireSnapshot, books
<1>5. CASE UNCHANGED portalVars
  BY <1>5 DEF portalVars, books
<1>. QED BY <1>1, <1>2, <1>3, <1>4, <1>5 DEF PortalNext

(* Trades and entries are only added. *)
LEMMA BooksStep ==
  ASSUME PageTyped, BooksTyped, [PortalNext]_portalVars
  PROVE  /\ BooksTyped'
         /\ trades' = trades \/ \E l \in Legs : trades' = Append(trades, l)
<1>0. trades \in Seq(Legs) /\ entries \in Seq(EntryRows)
  BY DEF BooksTyped
<1>1. ASSUME NEW l \in Legs, Fill(l)
      PROVE  trades' = Append(trades, l) /\ BooksTyped'
  <2> DEFINE e == [broker |-> l.broker, amount |-> -l.fee, type |-> "CHARGE"]
  <2>1. e \in EntryRows
    <3>1. l.broker \in Brokers /\ l.fee \in Int
      BY PortalAssumption
    <3>2. -l.fee \in Int
      BY <3>1
    <3>. QED BY <3>1, <3>2 DEF EntryRows
  <2>2. trades' = Append(trades, l) /\ (entries' = Append(entries, e) \/ entries' = entries)
    BY <1>1 DEF Fill
  <2> HIDE DEF e
  <2>3. trades' \in Seq(Legs)
    BY <1>0, <2>2
  <2>4. entries' \in Seq(EntryRows)
    <3>1. Append(entries, e) \in Seq(EntryRows)
      BY <1>0, <2>1
    <3>. QED BY <1>0, <2>2, <3>1
  <2>. QED BY <2>2, <2>3, <2>4 DEF BooksTyped
<1>2. ASSUME NEW i \in DOMAIN requests, Approve(i)
      PROVE  trades' = trades /\ BooksTyped'
  <2> DEFINE w == [broker |-> requests[i].broker, amount |-> -requests[i].amount,
                   type |-> "WITHDRAWAL"]
             d == [broker |-> requests[i].broker, amount |-> requests[i].amount,
                   type |-> "DEPOSIT"]
  <2>1. requests[i] \in RequestRows
    BY DEF PageTyped
  <2>2. requests[i].broker \in Brokers /\ requests[i].amount \in Int /\ -requests[i].amount \in Int
    <3>1. requests[i].broker = Home /\ requests[i].amount \in Nat
      BY <2>1 DEF RequestRows
    <3>. QED BY <3>1, PortalAssumption
  <2>3. w \in EntryRows /\ d \in EntryRows
    BY <2>2 DEF EntryRows
  <2>4. trades' = trades /\ (entries' = Append(entries, w) \/ entries' = Append(entries, d))
    BY <1>2 DEF Approve
  <2> HIDE DEF w, d
  <2>5. entries' \in Seq(EntryRows)
    <3>1. Append(entries, w) \in Seq(EntryRows) /\ Append(entries, d) \in Seq(EntryRows)
      BY <1>0, <2>3
    <3>. QED BY <2>4, <3>1
  <2>. QED BY <1>0, <2>4, <2>5 DEF BooksTyped
<1>3. CASE Fills
  BY <1>1, <1>3 DEF Fills
<1>4. CASE Requesting
  <2>1. ASSUME NEW k \in Kinds, PostRequest(k) PROVE UNCHANGED <<trades, entries>>
    BY <2>1 DEF PostRequest
  <2>2. ASSUME NEW i \in DOMAIN requests, Reject(i) PROVE UNCHANGED <<trades, entries>>
    BY <2>2 DEF Reject
  <2>3. UNCHANGED <<trades, entries>> => trades' = trades /\ BooksTyped'
    BY DEF BooksTyped
  <2>. QED BY <1>2, <1>4, <2>1, <2>2, <2>3 DEF Requesting
<1>5. CASE UNCHANGED <<trades, entries>>
  BY <1>5 DEF BooksTyped
<1>. QED BY <1>3, <1>4, <1>5, BooksSteps

LEMMA BooksInit == PortalInit => BooksTyped
<1> SUFFICES ASSUME PortalInit PROVE BooksTyped
  OBVIOUS
<1>1. trades \in Seq(Legs)
  BY DEF PortalInit
<1>2. entries \in Seq(EntryRows)
  <2>1. Accounts \in Seq(Brokers)
    BY ReportsAssumption DEF Brokers
  <2>2. DOMAIN Accounts = 1 .. Len(Accounts) /\ Len(Accounts) \in Nat
    BY <2>1
  <2>3. entries = [k \in 1 .. Len(Accounts) |->
                     [broker |-> Accounts[k], amount |-> Opening, type |-> "DEPOSIT"]]
    BY <2>2 DEF PortalInit
  <2>4. \A k \in 1 .. Len(Accounts) :
          [broker |-> Accounts[k], amount |-> Opening, type |-> "DEPOSIT"] \in EntryRows
    BY <2>1, <2>2, ReportsAssumption DEF EntryRows
  <2>5. entries \in [1 .. Len(Accounts) -> EntryRows]
    BY <2>3, <2>4
  <2>. QED BY <2>2, <2>5
<1>. QED BY <1>1, <1>2 DEF BooksTyped

-----------------------------------------------------------------------------
(* A client that pages through the trades. *)

Marks == [trades : Nat, entries : Nat]

ReaderFields == {"op", "user", "broker", "limit", "cursor", "got", "at", "more"}

WalkTyped ==
  /\ DOMAIN reader = ReaderFields
  /\ reader.limit \in Nat \ {0}
  /\ reader.cursor \in Int \cup {None}
  /\ reader.got \in Seq(Nat)
  /\ reader.at \in Seq(Marks)
  /\ reader.user.role = "broker_user" => reader.broker = reader.user.broker

(* The pages so far hold what is above the cursor of the trades that were  *)
(* there at the first page.                                                *)
Collected ==
  LET first == reader.at[1].trades
  IN  /\ first <= Len(trades)
      /\ reader.more => reader.cursor \in Int /\ reader.cursor <= first
      /\ RowsIn(reader.got) = {i \in Ids(trades, reader.broker) :
                                 i <= first /\ (reader.more => i > reader.cursor)}

Walking ==
  /\ WalkTyped
  /\ \A j, k \in DOMAIN reader.got : j < k => reader.got[j] > reader.got[k]
  /\ reader.at = <<>> => reader.got = <<>> /\ reader.cursor = None /\ reader.more
  /\ reader.at # <<>> => Collected

ReaderInv ==
  /\ "op" \in DOMAIN reader
  /\ reader.op = "trades" => Walking

LEMMA ReaderSteps ==
  ASSUME [PortalNext]_portalVars
  PROVE  \/ Reading
         \/ UNCHANGED reader
<1>1. CASE Fills
  BY <1>1 DEF Fills, Fill
<1>2. CASE Requesting
  BY <1>2 DEF Requesting, PostRequest, Approve, Reject
<1>3. CASE Tables
  BY <1>3, TablesSteps
<1>4. CASE WalletPage
  BY <1>4 DEF WalletPage, Toggle, Submit, CreateRequest, RefuseRequest, Succeed, Fail,
              FetchRead, FetchReceive, FetchFail, FetchAgain
<1>5. CASE Feed
  BY <1>5 DEF Feed, ReceivePush, StoreSnapshot, PublishSnapshot, FailPush, ExpireSnapshot
<1>6. CASE UNCHANGED portalVars
  BY <1>6 DEF portalVars
<1>. QED BY <1>1, <1>2, <1>3, <1>4, <1>5, <1>6 DEF PortalNext

(* What the walk has collected stays what it should be when more trades    *)
(* are executed: their ids are above those of the first page.              *)
LEMMA WalkStays ==
  ASSUME ReaderInv, BooksTyped, reader' = reader,
         trades' = trades \/ \E l \in Legs : trades' = Append(trades, l)
  PROVE  ReaderInv'
<1>1. CASE trades' = trades
  BY <1>1 DEF ReaderInv, Walking, WalkTyped, Collected, Ids, RowsIn
<1>2. ASSUME NEW l \in Legs, trades' = Append(trades, l), reader.op = "trades", reader.at # <<>>
      PROVE  Collected'
  <2> DEFINE first == reader.at[1].trades
             b == reader.broker
  <2>1. /\ first <= Len(trades) /\ first \in Nat
        /\ reader.more => reader.cursor \in Int /\ reader.cursor <= first
        /\ RowsIn(reader.got) = {i \in Ids(trades, b) :
                                   i <= first /\ (reader.more => i > reader.cursor)}
    <3>1. WalkTyped /\ Collected
      BY <1>2 DEF ReaderInv, Walking
    <3>2. reader.at[1] \in Marks
      BY <1>2, <3>1 DEF WalkTyped
    <3>3. first \in Nat
      BY <3>2 DEF Marks
    <3>. QED BY <3>1, <3>3 DEF Collected
  <2>2. /\ trades \in Seq(Legs) /\ Len(trades) \in Nat /\ Len(trades') = Len(trades) + 1
        /\ DOMAIN trades = 1 .. Len(trades) /\ DOMAIN trades' = 1 .. Len(trades) + 1
        /\ \A i \in DOMAIN trades : trades'[i] = trades[i]
    BY <1>2 DEF BooksTyped
  <2> HIDE DEF first, b
  <2>3. \A i : i \in Ids(trades, b) <=> i \in Ids(trades', b) /\ i <= Len(trades)
    BY <2>2 DEF Ids
  <2>4. \A i : i \in Ids(trades, b) /\ i <= first <=> i \in Ids(trades', b) /\ i <= first
    <3>1. \A i \in Ids(trades', b) : i \in Nat
      BY <2>2 DEF Ids
    <3>. QED BY <2>1, <2>2, <2>3, <3>1
  <2>5. RowsIn(reader.got) = {i \in Ids(trades', b) :
                                i <= first /\ (reader.more => i > reader.cursor)}
    BY <2>1, <2>4
  <2>6. first <= Len(trades')
    BY <2>1, <2>2
  <2>. QED BY <2>1, <2>5, <2>6 DEF Collected, first, b, RowsIn, Ids
<1>3. ASSUME NEW l \in Legs, trades' = Append(trades, l)
      PROVE  ReaderInv'
  BY <1>2, <1>3 DEF ReaderInv, Walking, WalkTyped, Collected, Ids, RowsIn
<1>. QED BY <1>1, <1>3

LEMMA AskStep ==
  ASSUME NEW op, NEW user, NEW b, NEW n, Ask(op, user, b, n), op = "trades" => n \in PageLimits
  PROVE  ReaderInv'
<1>1. reader' = [op |-> op, user |-> user, broker |-> Scope(user, b), limit |-> n,
                 cursor |-> None, got |-> <<>>, at |-> <<>>, more |-> TRUE]
  BY DEF Ask
<1>2. CASE op = "trades"
  <2>1. n \in Nat \ {0}
    BY <1>2, PortalAssumption
  <2>2. <<>> \in Seq(Nat) /\ <<>> \in Seq(Marks) /\ DOMAIN <<>> = {}
    OBVIOUS
  <2>3. WalkTyped'
    BY <1>1, <2>1, <2>2 DEF WalkTyped, ReaderFields, Scope
  <2>. QED BY <1>1, <2>2, <2>3 DEF ReaderInv, Walking
<1>3. CASE op # "trades"
  BY <1>1, <1>3 DEF ReaderInv
<1>. QED BY <1>2, <1>3

(* A page holds the trades that the cursor leaves over down to the next    *)
(* cursor, and all of them if there is none.                               *)
LEMMA PageRows ==
  ASSUME BooksTyped, NEW b, NEW c \in Int \cup {None}, NEW n \in Nat \ {0}
  PROVE  LET page == ListTrades(TradeQuery(b, c, n))
             S == {i \in Ids(trades, b) : c = None \/ i <= c}
         IN  /\ page.items \in Seq(S)
             /\ \A j, k \in DOMAIN page.items : j < k => page.items[j] > page.items[k]
             /\ page.nextCursor \in Int \cup {None}
             /\ RowsIn(page.items) = {i \in S : page.nextCursor # None => i > page.nextCursor}
             /\ page.nextCursor # None => \E i \in S : page.nextCursor < i
<1> DEFINE page == ListTrades(TradeQuery(b, c, n))
           S == {i \in Ids(trades, b) : c = None \/ i <= c}
           N == Newest(S, n)
<1>1. FindTrades(TradeQuery(b, c, n)) = N
  <2> DEFINE q == TradeQuery(b, c, n)
  <2>1. /\ q.broker = b /\ q.symbol = None /\ q.side = None /\ q.from = None /\ q.to = None
        /\ q.cursor = c /\ q.limit = n
    BY DEF TradeQuery
  <2> HIDE DEF q
  <2>2. {i \in Ids(trades, q.broker) :
            /\ q.symbol \in {None, trades[i].symbol}
            /\ q.side \in {None, trades[i].side}
            /\ q.from = None \/ i >= q.from
            /\ q.to = None \/ i < q.to
            /\ q.cursor = None \/ i <= q.cursor} = S
    BY <2>1
  <2>. QED BY <2>1, <2>2 DEF FindTrades, q
<1>2. page = [items |-> N, nextCursor |-> IF N # <<>> /\ Len(N) = n THEN N[Len(N)] - 1 ELSE None]
  BY <1>1 DEF ListTrades, TradeQuery
<1>3. IsFiniteSet(S) /\ S \subseteq Int
  <2>1. S \in SUBSET DOMAIN trades
    BY DEF Ids
  <2>2. IsFiniteSet(DOMAIN trades) /\ DOMAIN trades \subseteq Int
    BY DomainFinite DEF BooksTyped
  <2>. QED BY <2>1, <2>2, FS_Subset
<1> HIDE DEF S, page
<1>4. n \in Nat /\ n > 0
  OBVIOUS
<1>5. /\ N \in Seq(S) /\ Len(N) \in Nat /\ Len(N) <= n
      /\ \A k \in 1 .. Len(N) : N[k] \in S
  BY <1>3, <1>4, NewestPlaces
<1>6. DOMAIN N = 1 .. Len(N)
  BY <1>5
<1>7. \A j, k \in DOMAIN N : j < k => N[j] > N[k]
  BY <1>3, <1>4, <1>6, NewestDescends
<1>8. /\ Len(N) < n => RowsIn(N) = S
      /\ Len(N) = n => RowsIn(N) = {i \in S : i >= N[n]}
  BY <1>3, <1>4, NewestRows
<1> HIDE DEF N
<1>9. CASE Len(N) = n
  <2>1. N # <<>> /\ n \in 1 .. Len(N)
    BY <1>4, <1>9
  <2>2. N[n] \in S /\ N[n] \in Int
    BY <1>3, <1>5, <2>1
  <2>3. page.items = N /\ page.nextCursor = N[n] - 1
    BY <1>2, <1>9, <2>1
  <2>4. page.nextCursor \in Int /\ page.nextCursor # None /\ page.nextCursor < N[n]
    <3>1. page.nextCursor \in Int /\ page.nextCursor < N[n]
      BY <2>2, <2>3
    <3>2. None \notin Int
      BY ReportsAssumption
    <3>. QED BY <3>1, <3>2
  <2>5. \A i \in S : i >= N[n] <=> i > page.nextCursor
    BY <1>3, <2>2, <2>3
  <2>. QED BY <1>5, <1>7, <1>8, <1>9, <2>2, <2>3, <2>4, <2>5 DEF page, S
<1>10. CASE Len(N) < n
  <2>1. page.items = N /\ page.nextCursor = None
    BY <1>2, <1>5, <1>10
  <2>. QED BY <1>5, <1>7, <1>8, <1>10, <2>1 DEF page, S
<1>. QED BY <1>4, <1>5, <1>9, <1>10


LEMMA JoinDescends ==
  ASSUME NEW s \in Seq(Nat), NEW t \in Seq(Nat),
         \A j, k \in DOMAIN s : j < k => s[j] > s[k],
         \A j, k \in DOMAIN t : j < k => t[j] > t[k],
         \A x \in RowsIn(s), y \in RowsIn(t) : x > y
  PROVE  \A j, k \in DOMAIN (s \o t) : j < k => (s \o t)[j] > (s \o t)[k]
<1>1. /\ Len(s) \in Nat /\ Len(t) \in Nat /\ s \o t \in Seq(Nat)
      /\ DOMAIN s = 1 .. Len(s) /\ DOMAIN t = 1 .. Len(t)
      /\ DOMAIN (s \o t) = 1 .. Len(s) + Len(t)
      /\ \A i \in 1 .. Len(s) + Len(t) :
           (s \o t)[i] = IF i <= Len(s) THEN s[i] ELSE t[i - Len(s)]
  OBVIOUS
<1> SUFFICES ASSUME NEW j \in 1 .. Len(s) + Len(t), NEW k \in 1 .. Len(s) + Len(t), j < k
             PROVE  (s \o t)[j] > (s \o t)[k]
  BY <1>1
<1>2. CASE k <= Len(s)
  <2>1. j \in DOMAIN s /\ k \in DOMAIN s /\ j <= Len(s)
    BY <1>1, <1>2
  <2>. QED BY <1>1, <1>2, <2>1
<1>3. CASE j <= Len(s) /\ k > Len(s)
  <2>1. j \in DOMAIN s /\ k - Len(s) \in DOMAIN t /\ ~(k <= Len(s))
    BY <1>1, <1>3
  <2>2. s[j] \in RowsIn(s) /\ t[k - Len(s)] \in RowsIn(t)
    BY <2>1 DEF RowsIn
  <2>. QED BY <1>1, <1>3, <2>1, <2>2
<1>4. CASE j > Len(s)
  <2>1. /\ j - Len(s) \in DOMAIN t /\ k - Len(s) \in DOMAIN t /\ j - Len(s) < k - Len(s)
        /\ ~(j <= Len(s)) /\ ~(k <= Len(s))
    BY <1>1, <1>4
  <2>. QED BY <1>1, <2>1
<1>. QED BY <1>1, <1>2, <1>3, <1>4

LEMMA FirstOfAppend ==
  ASSUME NEW R, NEW s \in Seq(R), NEW e \in R
  PROVE  /\ Append(s, e) \in Seq(R) /\ Append(s, e) # <<>>
         /\ Append(s, e)[1] = IF s = <<>> THEN e ELSE s[1]
<1>1. /\ Append(s, e) \in Seq(R) /\ Len(Append(s, e)) = Len(s) + 1 /\ Len(s) \in Nat
      /\ Append(s, e)[Len(s) + 1] = e
      /\ \A i \in 1 .. Len(s) : Append(s, e)[i] = s[i]
  OBVIOUS
<1>2. Append(s, e) # <<>>
  BY <1>1
<1>3. CASE s = <<>>
  BY <1>1, <1>2, <1>3
<1>4. CASE s # <<>>
  <2>1. 1 \in 1 .. Len(s)
    BY <1>4
  <2>. QED BY <1>1, <1>2, <1>4, <2>1
<1>. QED BY <1>3, <1>4

LEMMA ReadPageStep ==
  ASSUME ReaderInv, BooksTyped, ReadPage
  PROVE  ReaderInv'
<1> DEFINE b == reader.broker
           c == reader.cursor
           page == ListTrades(TradeQuery(b, c, reader.limit))
           S == {i \in Ids(trades, b) : c = None \/ i <= c}
           next == page.nextCursor
           got == reader.got \o page.items
           at == Append(reader.at, Now)
<1>1. Walking /\ reader.more /\ UNCHANGED books
  BY DEF ReadPage, ReaderInv
<1>2. reader' = [reader EXCEPT !.got = got, !.at = at, !.cursor = next, !.more = next # None]
  BY DEF ReadPage
<1>3. /\ DOMAIN reader = ReaderFields /\ reader.limit \in Nat \ {0} /\ c \in Int \cup {None}
      /\ reader.got \in Seq(Nat) /\ reader.at \in Seq(Marks)
      /\ reader.user.role = "broker_user" => b = reader.user.broker
      /\ \A j, k \in DOMAIN reader.got : j < k => reader.got[j] > reader.got[k]
      /\ reader.at = <<>> => reader.got = <<>> /\ c = None
      /\ reader.at # <<>> => Collected
  BY <1>1 DEF Walking, WalkTyped
<1>4. /\ page.items \in Seq(S)
      /\ \A j, k \in DOMAIN page.items : j < k => page.items[j] > page.items[k]
      /\ next \in Int \cup {None}
      /\ RowsIn(page.items) = {i \in S : next # None => i > next}
      /\ next # None => \E i \in S : next < i
  BY <1>3, PageRows
<1>5. Len(trades) \in Nat /\ Len(entries) \in Nat /\ DOMAIN trades = 1 .. Len(trades)
  BY DEF BooksTyped
<1>6. S \subseteq 1 .. Len(trades) /\ S \subseteq Nat /\ (\A i \in S : c = None \/ i <= c)
  BY <1>5 DEF Ids
<1>7. Now \in Marks /\ Now.trades = Len(trades)
  BY <1>5 DEF Now, Marks
<1>8. page.items \in Seq(Nat)
  <2> HIDE DEF page, S
  <2>. QED BY <1>4, <1>6, SeqMonotonic
<1> HIDE DEF S, page, next
<1>9. got \in Seq(Nat) /\ at \in Seq(Marks) /\ at # <<>>
  <2>1. got \in Seq(Nat)
    BY <1>3, <1>8
  <2>. QED BY <1>3, <1>7, <2>1, FirstOfAppend
<1>10. /\ (reader.at = <<>> => at[1].trades = Len(trades))
       /\ (reader.at # <<>> => at[1] = reader.at[1])
  BY <1>3, <1>7, FirstOfAppend
<1>11. RowsIn(got) = RowsIn(reader.got) \cup RowsIn(page.items)
  <2>1. \A s, t \in Seq(Nat) : Range(s \o t) = Range(s) \cup Range(t)
    BY RangeConcatenation
  <2>2. \A s : RowsIn(s) = Range(s)
    BY DEF RowsIn, Range
  <2>. QED BY <1>3, <1>8, <2>1, <2>2
<1> DEFINE first == at[1].trades
<1>12. /\ first \in Nat /\ first <= Len(trades)
       /\ reader.at # <<>> =>
            /\ c \in Int /\ c <= first
            /\ RowsIn(reader.got) = {i \in Ids(trades, b) : i <= first /\ i > c}
  <2>1. CASE reader.at = <<>>
    BY <1>5, <1>10, <2>1
  <2>2. CASE reader.at # <<>>
    <3>1. reader.at[1] \in Marks
      BY <1>3, <2>2
    <3>2. reader.at[1].trades \in Nat
      BY <3>1 DEF Marks
    <3>. QED BY <1>1, <1>3, <1>10, <2>2, <3>2 DEF Collected
  <2>. QED BY <2>1, <2>2
<1> DEFINE Left(i) == i <= first /\ (next # None => i > next)
<1>13. next # None => next \in Int /\ next <= first /\ (c # None => next < c)
  <2> SUFFICES ASSUME next # None PROVE next \in Int /\ next <= first /\ (c # None => next < c)
    OBVIOUS
  <2>1. PICK i \in S : next < i
    BY <1>4
  <2>2. reader.at = <<>> => first = Len(trades)
    BY <1>10
  <2> HIDE DEF first, b, c
  <2>3. next \in Int /\ i \in 1 .. Len(trades)
    BY <1>4, <1>6
  <2>4. c = None \/ (c \in Int /\ i <= c)
    BY <1>3, <1>6
  <2>5. next <= first
    <3>1. CASE reader.at = <<>>
      BY <1>5, <2>1, <2>2, <2>3, <3>1
    <3>2. CASE reader.at # <<>>
      <4>1. c # None
        BY <1>12, <3>2, ReportsAssumption
      <4>. QED BY <1>12, <2>1, <2>3, <2>4, <3>2, <4>1
    <3>. QED BY <3>1, <3>2
  <2>6. c # None => next < c
    BY <2>1, <2>3, <2>4
  <2>. QED BY <2>3, <2>5, <2>6
<1>14. RowsIn(got) = {i \in Ids(trades, b) : Left(i)}
  <2>1. Ids(trades, b) \subseteq 1 .. Len(trades)
    BY <1>5 DEF Ids
  <2>2. CASE reader.at = <<>>
    <3>1. c = None /\ RowsIn(reader.got) = {} /\ first = Len(trades)
      BY <1>3, <1>10, <2>2 DEF RowsIn
    <3>2. S = Ids(trades, b)
      BY <3>1 DEF S
    <3>3. \A i \in Ids(trades, b) : i <= first
      BY <1>5, <2>1, <3>1
    <3> HIDE DEF first, b, c, got
    <3>. QED BY <1>4, <1>11, <3>1, <3>2, <3>3
  <2>3. CASE reader.at # <<>>
    <3>1. c \in Int /\ c <= first /\ c # None
          /\ RowsIn(reader.got) = {i \in Ids(trades, b) : i <= first /\ i > c}
      BY <1>12, <2>3, ReportsAssumption
    <3>2. S = {i \in Ids(trades, b) : i <= c}
      BY <3>1 DEF S
    <3>3. \A i \in Ids(trades, b) : i \in Int
      BY <2>1
    <3>4. RowsIn(page.items) = {i \in Ids(trades, b) : i <= c /\ (next # None => i > next)}
      BY <1>4, <3>2
    <3> HIDE DEF first, b, c, got
    <3>5. ASSUME NEW i \in Ids(trades, b)
          PROVE  (i <= first /\ i > c) \/ (i <= c /\ (next # None => i > next)) <=> Left(i)
      <4>1. i \in Int /\ c \in Int /\ first \in Int
        BY <1>12, <3>1, <3>3
      <4>2. CASE next = None
        BY <3>1, <4>1, <4>2
      <4>3. CASE next # None
        BY <1>13, <3>1, <4>1, <4>3
      <4>. QED BY <4>2, <4>3
    <3> HIDE DEF Left
    <3>. QED BY <1>11, <3>1, <3>4, <3>5
  <2>. QED BY <2>2, <2>3
<1>15. \A j, k \in DOMAIN got : j < k => got[j] > got[k]
  <2>1. ASSUME NEW x \in RowsIn(reader.got), NEW y \in RowsIn(page.items) PROVE x > y
    <3>1. reader.at # <<>>
      BY <1>3 DEF RowsIn
    <3>2. c \in Int /\ c # None /\ x > c
      BY <1>12, <3>1, ReportsAssumption
    <3>3. y \in S
      BY <1>4
    <3>4. y <= c /\ y \in Int
      <4> HIDE DEF c
      <4>1. c = None \/ y <= c
        BY <1>6, <3>3, Zenon
      <4>2. y \in Nat
        BY <1>6, <3>3, Zenon
      <4>. QED BY <3>2, <4>1, <4>2
    <3>5. x \in Int
      BY <1>3 DEF RowsIn
    <3>. QED BY <3>2, <3>4, <3>5
  <2>. QED BY <1>3, <1>4, <1>8, <2>1, JoinDescends
<1>16. reader' = [op |-> reader.op, user |-> reader.user, broker |-> b, limit |-> reader.limit,
                  cursor |-> next, got |-> got, at |-> at, more |-> next # None]
  BY <1>2, <1>3, Zenon DEF ReaderFields
<1> HIDE DEF got, at
<1>17. /\ DOMAIN reader' = ReaderFields /\ reader'.op = reader.op /\ reader'.user = reader.user
       /\ reader'.broker = b /\ reader'.limit = reader.limit /\ reader'.cursor = next
       /\ reader'.got = got /\ reader'.at = at /\ (reader'.more <=> next # None)
  BY <1>16 DEF ReaderFields
<1> HIDE DEF b, c, first
<1>18. WalkTyped'
  BY <1>3, <1>4, <1>9, <1>17 DEF WalkTyped, b
<1>19. Collected'
  BY <1>1, <1>12, <1>13, <1>14, <1>17 DEF Collected, books, first, RowsIn, Ids
<1>. QED BY <1>9, <1>15, <1>17, <1>18, <1>19 DEF ReaderInv, Walking, ReaderFields

LEMMA ReaderStep ==
  ASSUME PageTyped, BooksTyped, ReaderInv, [PortalNext]_portalVars
  PROVE  ReaderInv'
<1>1. ASSUME NEW user \in Users, NEW b \in Brokers \cup {None}, NEW n \in PageLimits,
             Ask("trades", user, b, n)
      PROVE  ReaderInv'
  BY <1>1, AskStep
<1>2. ASSUME NEW user \in Users, NEW b \in Brokers \cup {None}, NEW op \in DOMAIN Queries,
             Ask(op, user, b, None)
      PROVE  ReaderInv'
  <2>1. op # "trades"
    BY DEF Queries
  <2>. QED BY <1>2, <2>1, AskStep
<1>3. CASE RunQuery
  <2>1. reader.op \in DOMAIN Queries
    BY <1>3 DEF RunQuery
  <2>2. reader.op # "trades"
    BY <2>1 DEF Queries
  <2>3. DOMAIN reader' = DOMAIN reader /\ reader'.op = reader.op
    BY <1>3 DEF RunQuery, ReaderInv
  <2>. QED BY <2>2, <2>3 DEF ReaderInv
<1>4. CASE ReadPage
  BY <1>4, ReadPageStep
<1>5. CASE Leave
  <2>1. reader' = [op |-> None]
    BY <1>5 DEF Leave, NoReader
  <2>2. "op" \in DOMAIN reader' /\ reader'.op = None
    BY <2>1
  <2>3. None # "trades"
    BY ScreensAssumption DEF Screens
  <2>. QED BY <2>2, <2>3 DEF ReaderInv
<1>6. CASE UNCHANGED reader
  BY <1>6, WalkStays, BooksStep
<1>7. CASE Reading
  <2>1. CASE \E user \in Users, b \in Brokers \cup {None} :
               \E n \in PageLimits : Ask("trades", user, b, n)
    BY <1>1, <2>1
  <2>2. CASE \E user \in Users, b \in Brokers \cup {None} :
               \E op \in DOMAIN Queries : Ask(op, user, b, None)
    BY <1>2, <2>2
  <2>. QED BY <1>3, <1>4, <1>5, <1>7, <2>1, <2>2 DEF Reading
<1>. QED BY <1>6, <1>7, ReaderSteps

(* A client that follows nextCursor to the end has seen, newest first and  *)
(* each once, exactly the trades of its broker that there were at its      *)
(* first page, whatever is executed while it pages and whatever LIMIT it   *)
(* asks for, and may open each of them (trades.controller.ts:42-50: the    *)
(* next cursor is the id below the last row of a full page).               *)
THEOREM PagingShowsAll == PortalSpec => []WalkShowsAll
<1>1. PortalInit => ReaderInv
  <2> SUFFICES ASSUME PortalInit PROVE ReaderInv
    OBVIOUS
  <2>1. "op" \in DOMAIN reader /\ reader.op = None
    BY DEF PortalInit, NoReader
  <2>2. None # "trades"
    BY ScreensAssumption DEF Screens
  <2>. QED BY <2>1, <2>2 DEF ReaderInv
<1>2. ReaderInv /\ BooksTyped => WalkShowsAll
  <2> SUFFICES ASSUME ReaderInv, BooksTyped, reader.op = "trades", ~reader.more
               PROVE  /\ RowsIn(reader.got) =
                           {i \in Ids(trades, reader.broker) : i <= reader.at[1].trades}
                      /\ \A j, k \in DOMAIN reader.got : j < k => reader.got[j] > reader.got[k]
                      /\ \A i \in RowsIn(reader.got) : TradeDetail(reader.user, i) # None
    BY DEF WalkShowsAll
  <2>1. Walking /\ Collected
    BY DEF ReaderInv, Walking
  <2>2. RowsIn(reader.got) = {i \in Ids(trades, reader.broker) : i <= reader.at[1].trades}
    BY <2>1 DEF Collected
  <2>3. ASSUME NEW i \in RowsIn(reader.got) PROVE TradeDetail(reader.user, i) # None
    <3>1. i \in DOMAIN trades /\ trades[i].broker = reader.broker
      BY <2>2 DEF Ids
    <3>2. trades[i] # None
      BY <3>1, PortalAssumption DEF BooksTyped
    <3>. QED BY <2>1, <3>1, <3>2 DEF TradeDetail, Walking, WalkTyped
  <2>. QED BY <2>1, <2>2, <2>3 DEF Walking
<1>3. PageTyped /\ BooksTyped /\ [PortalNext]_portalVars => BooksTyped'
  BY BooksStep
<1>4. WalletInv => PageTyped
  BY DEF WalletInv
<1>. QED BY <1>1, <1>2, <1>3, <1>4, BooksInit, WalletInit, WalletStep, ReaderStep, PTL
         DEF PortalSpec

-----------------------------------------------------------------------------
(* What the books, the pages and the feed hold. *)

AuditRows == [action : {"deposit.approve", "deposit.reject"}, request : Nat]

AuditsTyped ==
  /\ audits \in Seq(AuditRows)
  /\ \A i \in DOMAIN audits : audits[i].request \in DOMAIN requests

ViewFields == {"screen", "rows", "from", "to", "pick", "page"}

ViewTyped ==
  view # NoView =>
    /\ DOMAIN view = ViewFields
    /\ view.screen \in Screens
    /\ view.page \in Nat \ {0}

LEMMA AuditsStep ==
  ASSUME WalletInv, AuditsTyped, [PortalNext]_portalVars
  PROVE  AuditsTyped'
<1>0. requests \in Seq(RequestRows) /\ audits \in Seq(AuditRows)
  BY DEF WalletInv, PageTyped, AuditsTyped
<1>1. ASSUME audits' = audits, DOMAIN requests \subseteq DOMAIN requests'
      PROVE  AuditsTyped'
  BY <1>1 DEF AuditsTyped
<1>2. CASE UNCHANGED <<requests, audits>>
  BY <1>1, <1>2
<1>3. ASSUME NEW i \in DOMAIN requests, Approve(i) \/ Reject(i) PROVE AuditsTyped'
  <2>1. PICK a \in {"deposit.approve", "deposit.reject"} :
          audits' = Append(audits, [action |-> a, request |-> i])
    BY <1>3 DEF Approve, Reject
  <2> DEFINE r == [action |-> a, request |-> i]
  <2>2. i \in Nat
    BY <1>0
  <2>3. r \in AuditRows /\ r.request = i
    BY <2>2 DEF AuditRows
  <2>4. DOMAIN requests \subseteq DOMAIN requests'
    BY <1>3, RequestsGrow DEF Requesting, WalletInv
  <2>5. audits' = Append(audits, r)
    BY <2>1
  <2> HIDE DEF r
  <2>6. /\ audits' \in Seq(AuditRows) /\ DOMAIN audits' = DOMAIN audits \cup {Len(audits) + 1}
        /\ audits'[Len(audits) + 1] = r /\ \A j \in DOMAIN audits : audits'[j] = audits[j]
    BY <1>0, <2>3, <2>5
  <2>. QED BY <2>3, <2>4, <2>6 DEF AuditsTyped
<1>4. ASSUME NEW k \in Kinds, PostRequest(k) PROVE AuditsTyped'
  <2>1. audits' = audits
    BY <1>4 DEF PostRequest
  <2>. QED BY <1>1, <1>4, <2>1, RequestsGrow DEF Requesting, WalletInv
<1>5. ASSUME NEW p \in DOMAIN posts, CreateRequest(p) PROVE AuditsTyped'
  <2>1. PICK r : requests' = Append(requests, r) /\ audits' = audits
    BY <1>5 DEF CreateRequest
  <2>2. DOMAIN requests \subseteq DOMAIN requests'
    BY <1>0, <2>1
  <2>. QED BY <1>1, <2>1, <2>2
<1>6. CASE Requesting
  BY <1>3, <1>4, <1>6 DEF Requesting
<1>7. CASE WalletPage
  <2>1. ASSUME NEW k \in Kinds, Toggle(k) \/ Submit(k) PROVE UNCHANGED <<requests, audits>>
    BY <2>1 DEF Toggle, Submit, books
  <2>2. ASSUME NEW p \in DOMAIN posts, RefuseRequest(p) \/ Succeed(p) \/ Fail(p)
        PROVE  UNCHANGED <<requests, audits>>
    BY <2>2 DEF RefuseRequest, Succeed, Fail, books
  <2>3. CASE FetchRead \/ FetchReceive \/ FetchFail \/ FetchAgain
    BY <1>2, <2>3 DEF FetchRead, FetchReceive, FetchFail, FetchAgain, books
  <2>. QED BY <1>2, <1>5, <1>7, <2>1, <2>2, <2>3 DEF WalletPage
<1>8. CASE Fills
  BY <1>2, <1>8 DEF Fills, Fill
<1>9. CASE Reading
  BY <1>2, <1>9, ReadingSteps DEF books
<1>10. CASE Tables
  BY <1>2, <1>10, TablesSteps DEF books
<1>11. CASE Feed
  BY <1>2, <1>11 DEF Feed, ReceivePush, StoreSnapshot, PublishSnapshot, FailPush,
                     ExpireSnapshot, books
<1>12. CASE UNCHANGED portalVars
  BY <1>2, <1>12 DEF portalVars, books
<1>. QED BY <1>6, <1>7, <1>8, <1>9, <1>10, <1>11, <1>12 DEF PortalNext

LEMMA ViewSteps ==
  ASSUME [PortalNext]_portalVars
  PROVE  Tables \/ UNCHANGED view
<1>1. CASE Fills
  BY <1>1 DEF Fills, Fill
<1>2. CASE Requesting
  BY <1>2 DEF Requesting, PostRequest, Approve, Reject
<1>3. CASE Reading
  BY <1>3, ReadingSteps
<1>4. CASE WalletPage
  BY <1>4 DEF WalletPage, Toggle, Submit, CreateRequest, RefuseRequest, Succeed, Fail,
              FetchRead, FetchReceive, FetchFail, FetchAgain
<1>5. CASE Feed
  BY <1>5 DEF Feed, ReceivePush, StoreSnapshot, PublishSnapshot, FailPush, ExpireSnapshot
<1>6. CASE UNCHANGED portalVars
  BY <1>6 DEF portalVars
<1>. QED BY <1>1, <1>2, <1>3, <1>4, <1>5, <1>6 DEF PortalNext

LEMMA OneOrMore ==
  ASSUME NEW n \in Nat \ {0}
  PROVE  Max({1, n - 1}) \in Nat \ {0}
<1>1. \E x \in {1, n - 1} : \A y \in {1, n - 1} : x >= y
  <2>1. 1 >= n - 1 \/ n - 1 >= 1
    OBVIOUS
  <2>. QED BY <2>1
<1>2. Max({1, n - 1}) \in {1, n - 1} /\ \A y \in {1, n - 1} : Max({1, n - 1}) >= y
  BY <1>1 DEF Max
<1>. QED BY <1>2

LEMMA ViewStep ==
  ASSUME ViewTyped, [PortalNext]_portalVars
  PROVE  ViewTyped'
<1>1. ASSUME NEW screen \in Screens, Open(screen) PROVE ViewTyped'
  BY <1>1 DEF Open, ViewTyped, ViewFields
<1>2. view.screen \in Screens => view # NoView
  BY ScreensAssumption DEF NoView
<1>3. ASSUME view # NoView, DOMAIN view' = DOMAIN view, view'.screen = view.screen,
             view'.page \in Nat \ {0}
      PROVE  ViewTyped'
  BY <1>3 DEF ViewTyped
<1>4. ASSUME NEW f \in Filters, SetFilter(f) PROVE ViewTyped'
  <2>1. view # NoView
    BY <1>4 DEF SetFilter, NoView
  <2>2. view' = [view EXCEPT !.from = f.from, !.to = f.to, !.pick = f.pick, !.page = 1]
    BY <1>4 DEF SetFilter
  <2>3. DOMAIN view = ViewFields
    BY <2>1 DEF ViewTyped
  <2>4. DOMAIN view' = DOMAIN view /\ view'.screen = view.screen /\ view'.page = 1
    BY <2>2, <2>3 DEF ViewFields
  <2>. QED BY <1>3, <2>1, <2>4
<1>5. ASSUME NEW f \in Filters, Requery(f) PROVE ViewTyped'
  <2>1. view # NoView
    BY <1>2, <1>5 DEF Requery, Screens
  <2>2. view' = [view EXCEPT !.from = f.from, !.to = f.to, !.pick = f.pick,
                             !.rows = Answer(view.screen, f)]
    BY <1>5 DEF Requery
  <2>3. DOMAIN view = ViewFields /\ view.page \in Nat \ {0}
    BY <2>1 DEF ViewTyped
  <2>4. DOMAIN view' = DOMAIN view /\ view'.screen = view.screen /\ view'.page = view.page
    BY <2>2, <2>3 DEF ViewFields
  <2>. QED BY <1>3, <2>1, <2>3, <2>4
<1>6. CASE Refetch
  <2>1. view # NoView
    BY <1>2, <1>6 DEF Refetch, Screens
  <2>2. view' = [view EXCEPT !.rows = Answer(view.screen, view)]
    BY <1>6 DEF Refetch
  <2>3. DOMAIN view = ViewFields /\ view.page \in Nat \ {0}
    BY <2>1 DEF ViewTyped
  <2>4. DOMAIN view' = DOMAIN view /\ view'.screen = view.screen /\ view'.page = view.page
    BY <2>2, <2>3 DEF ViewFields
  <2>. QED BY <1>3, <2>1, <2>3, <2>4
<1>7. CASE ClearDates
  <2>1. view # NoView
    BY <1>2, <1>7 DEF ClearDates, Screens
  <2>2. view' = [view EXCEPT !.from = None, !.to = None]
    BY <1>7 DEF ClearDates
  <2>3. DOMAIN view = ViewFields /\ view.page \in Nat \ {0}
    BY <2>1 DEF ViewTyped
  <2>4. DOMAIN view' = DOMAIN view /\ view'.screen = view.screen /\ view'.page = view.page
    BY <2>2, <2>3 DEF ViewFields
  <2>. QED BY <1>3, <2>1, <2>3, <2>4
<1>8. CASE NextPage
  <2>1. view # NoView
    BY <1>2, <1>8 DEF NextPage, Paged, Screens
  <2>2. view' = [view EXCEPT !.page = view.page + 1]
    BY <1>8 DEF NextPage
  <2>3. DOMAIN view = ViewFields /\ view.page + 1 \in Nat \ {0}
    BY <2>1 DEF ViewTyped
  <2>4. DOMAIN view' = DOMAIN view /\ view'.screen = view.screen /\ view'.page = view.page + 1
    BY <2>2, <2>3 DEF ViewFields
  <2>. QED BY <1>3, <2>1, <2>3, <2>4
<1>9. CASE PrevPage
  <2>1. view # NoView
    BY <1>2, <1>9 DEF PrevPage, Paged, Screens
  <2> DEFINE page == Max({1, view.page - 1})
  <2>2. view' = [view EXCEPT !.page = page]
    BY <1>9 DEF PrevPage
  <2>3. DOMAIN view = ViewFields /\ page \in Nat \ {0}
    BY <2>1, OneOrMore DEF ViewTyped
  <2> HIDE DEF page
  <2>4. DOMAIN view' = DOMAIN view /\ view'.screen = view.screen /\ view'.page = page
    BY <2>2, <2>3 DEF ViewFields
  <2>. QED BY <1>3, <2>1, <2>3, <2>4
<1>10. CASE Close
  BY <1>10 DEF Close, ViewTyped, NoView
<1>11. CASE UNCHANGED view
  BY <1>11 DEF ViewTyped
<1>. QED BY <1>1, <1>4, <1>5, <1>6, <1>7, <1>8, <1>9, <1>10, <1>11, ViewSteps DEF Tables

(* Trades, entries, requests and audit rows are such as the code writes,   *)
(* an audit row and what the wallet page keeps name rows that exist, and   *)
(* no table is on a page before its first, whichever way the reader went   *)
(* through it (trades/page.tsx:294: the Prev button stops at 1).           *)
THEOREM PortalTypes == PortalSpec => []PortalTypeOK
<1> DEFINE TypeInv == WalletInv /\ FeedInv /\ BooksTyped /\ AuditsTyped /\ ViewTyped
<1>1. PortalInit => TypeInv
  <2> SUFFICES ASSUME PortalInit PROVE TypeInv
    OBVIOUS
  <2>1. FeedInv
    BY ReportsAssumption DEF PortalInit, FeedInv, FeedTyped, Answered, BlotterOrdered
  <2>2. AuditsTyped /\ ViewTyped
    BY DEF PortalInit, AuditsTyped, ViewTyped
  <2>. QED BY <2>1, <2>2, WalletInit, BooksInit
<1>2. TypeInv /\ [PortalNext]_portalVars => TypeInv'
  BY WalletStep, FeedStep, BooksStep, AuditsStep, ViewStep DEF WalletInv
<1>3. TypeInv => PortalTypeOK
  <2> SUFFICES ASSUME TypeInv PROVE PortalTypeOK
    OBVIOUS
  <2>1. \A i \in DOMAIN trades : trades[i] \in Legs
    BY DEF BooksTyped
  <2>2. ASSUME NEW i \in DOMAIN entries
        PROVE  /\ entries[i].broker \in Brokers
               /\ entries[i].amount \in Int
               /\ entries[i].type \in {"DEPOSIT", "WITHDRAWAL", "CHARGE"}
    <3>1. entries[i] \in EntryRows
      BY DEF BooksTyped
    <3>. QED BY <3>1 DEF EntryRows
  <2>3. \A i \in DOMAIN requests : requests[i] \in RequestRows
    BY DEF WalletInv, PageTyped
  <2>4. ASSUME NEW i \in DOMAIN audits
        PROVE  audits[i] \in [action : {"deposit.approve", "deposit.reject"},
                              request : DOMAIN requests]
    <3>1. audits[i] \in AuditRows /\ audits[i].request \in DOMAIN requests
      BY DEF AuditsTyped
    <3>. QED BY <3>1 DEF AuditRows
  <2>5. ASSUME NEW k \in Kinds
        PROVE  form[k] \in [open : BOOLEAN, pending : DOMAIN posts \cup {None}, intent : Nat]
    <3>1. form[k] \in FormRows /\ form[k].pending \in DOMAIN posts \cup {None}
      BY DEF WalletInv, PageTyped, PageRefers
    <3>. QED BY <3>1 DEF FormRows
  <2>6. /\ \A p \in DOMAIN posts : posts[p].row \in DOMAIN requests \cup {None}
        /\ RowsIn(list.rows) \cup RowsIn(list.got) \subseteq DOMAIN requests
    BY DEF WalletInv, PageRefers
  <2>7. /\ push \in [Pushes -> {"idle", "received", "stored", "done", "failed"}]
        /\ snapshot \in Pushes \cup {None}
        /\ event \in Pushes \cup {None}
    BY DEF FeedInv, FeedTyped
  <2>8. view # NoView => view.screen \in Screens /\ view.page \in Nat \ {0}
    BY DEF ViewTyped
  <2>. QED BY <2>1, <2>2, <2>3, <2>4, <2>5, <2>6, <2>7, <2>8 DEF PortalTypeOK, RequestRows
<1>. QED BY <1>1, <1>2, <1>3, PTL DEF PortalSpec

-----------------------------------------------------------------------------
(* The answers of several queries. *)

(* The queries that have been answered are the first ones. *)
Asked ==
  LET order == Queries[reader.op]
  IN  \E k \in 0 .. Len(order) :
        /\ DOMAIN reader.got = {order[j] : j \in 1 .. k}
        /\ DOMAIN reader.at = DOMAIN reader.got
        /\ Cardinality(DOMAIN reader.got) = k
        /\ reader.more <=> k < Len(order)

(* What is in the books and in which order: sums of these are what the     *)
(* queries answer, and for a given number of rows they never change.       *)
Fees == [i \in DOMAIN trades |-> trades[i].fee]

Amounts == [i \in DOMAIN entries |-> entries[i].amount]

ChargedTo(b, n) == {i \in Charged(b) : i <= n}

TradesTo(b, n) == {i \in Ids(trades, b) : i <= n}

EntriesTo(b, n) == {i \in Ids(entries, b) : i <= n}

(* What an answer says of the books as they were when it was given: of     *)
(* their first rows, as many as were there at the time.                    *)
CommissionsRead ==
  LET got == reader.got  at == reader.at
  IN  /\ "items" \in DOMAIN got =>
           /\ at.items.trades \in 0 .. Len(trades)
           /\ got.items = Newest(ChargedTo(reader.broker, at.items.trades), Limit.commissions)
      /\ "total" \in DOMAIN got =>
           /\ "items" \in DOMAIN got
           /\ at.total.trades \in 0 .. Len(trades) /\ at.items.trades \in 0 .. at.total.trades
           /\ got.total = SumOver(Fees, ChargedTo(reader.broker, at.total.trades))

DashboardRead ==
  LET got == reader.got  at == reader.at
  IN  /\ "charges" \in DOMAIN got =>
           /\ at.charges.trades \in 0 .. Len(trades)
           /\ got.charges = SumOver(Fees, ChargedTo(reader.broker, at.charges.trades))
      /\ "legs" \in DOMAIN got =>
           /\ "charges" \in DOMAIN got
           /\ at.legs.trades \in 0 .. Len(trades) /\ at.charges.trades \in 0 .. at.legs.trades
           /\ got.legs = TradesTo(reader.broker, at.legs.trades)

ConsoleRead ==
  LET got == reader.got  at == reader.at
  IN  /\ "brokersCount" \in DOMAIN got => got.brokersCount = Len(Accounts)
      /\ "totalBalance" \in DOMAIN got =>
           /\ at.totalBalance.entries \in 0 .. Len(entries)
           /\ got.totalBalance = SumOver(Amounts, 1 .. at.totalBalance.entries)
      /\ "recent" \in DOMAIN got =>
           /\ "totalBalance" \in DOMAIN got
           /\ at.recent.entries \in 0 .. Len(entries)
           /\ at.totalBalance.entries \in 0 .. at.recent.entries
           /\ got.recent = [b \in RecentBrokers |->
                              SumOver(Amounts, EntriesTo(b, at.recent.entries))]

QueryInv ==
  /\ "op" \in DOMAIN reader
  /\ reader.op \in DOMAIN Queries =>
       /\ DOMAIN reader = ReaderFields
       /\ Asked
       /\ reader.op = "commissions" => CommissionsRead
       /\ reader.op = "dashboard" => DashboardRead
       /\ reader.op = "console" => ConsoleRead

(* Books that only grow. *)
Grown ==
  /\ BooksTyped /\ BooksTyped'
  /\ Len(trades) <= Len(trades') /\ Len(entries) <= Len(entries')
  /\ \A i \in DOMAIN trades : trades'[i] = trades[i]
  /\ \A i \in DOMAIN entries : entries'[i] = entries[i]

LEMMA BooksGrow ==
  ASSUME PageTyped, BooksTyped, [PortalNext]_portalVars
  PROVE  Grown
<1>1. BooksTyped' /\ (trades' = trades \/ \E l \in Legs : trades' = Append(trades, l))
  BY BooksStep
<1>2. entries' = entries \/ \E e : entries' = Append(entries, e)
  <2>1. CASE Fills
    BY <2>1 DEF Fills, Fill
  <2>2. CASE Requesting
    BY <2>2 DEF Requesting, PostRequest, Approve, Reject
  <2>. QED BY <2>1, <2>2, BooksSteps
<1>3. trades \in Seq(Legs) /\ entries \in Seq(EntryRows)
  BY DEF BooksTyped
<1>4. Len(trades) <= Len(trades') /\ \A i \in DOMAIN trades : trades'[i] = trades[i]
  BY <1>1, <1>3
<1>5. Len(entries) <= Len(entries') /\ \A i \in DOMAIN entries : entries'[i] = entries[i]
  <2>1. CASE entries' = entries
    BY <1>3, <2>1
  <2>2. ASSUME NEW e, entries' = Append(entries, e)
        PROVE  Len(entries) <= Len(entries') /\ \A i \in DOMAIN entries : entries'[i] = entries[i]
    <3> DEFINE V == EntryRows \cup {e}
    <3>1. entries \in Seq(V) /\ e \in V
      BY <1>3
    <3> HIDE DEF V
    <3>. QED BY <2>2, <3>1
  <2>. QED BY <1>2, <2>1, <2>2
<1>. QED BY <1>1, <1>4, <1>5 DEF Grown

(* Rows and their values. *)
LEMMA TradeRows ==
  ASSUME BooksTyped
  PROVE  /\ Len(trades) \in Nat /\ DOMAIN trades = 1 .. Len(trades)
         /\ IsFiniteSet(DOMAIN trades)
         /\ \A i \in DOMAIN trades : /\ Fees[i] = trades[i].fee
                                     /\ trades[i].fee \in Nat
                                     /\ trades[i].price \in Nat
                                     /\ trades[i].qty \in Nat
<1>1. Len(trades) \in Nat /\ DOMAIN trades = 1 .. Len(trades)
  BY DEF BooksTyped
<1>2. \A i \in DOMAIN trades : trades[i] \in Legs
  BY DEF BooksTyped
<1>3. IsFiniteSet(DOMAIN trades)
  BY <1>1, FS_Interval
<1>. QED BY <1>1, <1>2, <1>3, PortalAssumption DEF Fees

LEMMA EntryTableRows ==
  ASSUME BooksTyped
  PROVE  /\ Len(entries) \in Nat /\ DOMAIN entries = 1 .. Len(entries)
         /\ IsFiniteSet(DOMAIN entries)
         /\ \A i \in DOMAIN entries : /\ Amounts[i] = entries[i].amount
                                      /\ entries[i].amount \in Int
                                      /\ entries[i].broker \in Brokers
<1>1. Len(entries) \in Nat /\ DOMAIN entries = 1 .. Len(entries)
  BY DEF BooksTyped
<1>2. \A i \in DOMAIN entries : entries[i] \in EntryRows
  BY DEF BooksTyped
<1>3. IsFiniteSet(DOMAIN entries)
  BY <1>1, FS_Interval
<1>. QED BY <1>1, <1>2, <1>3 DEF Amounts, EntryRows

(* The reports sum up functions. *)
LEMMA SumOfRows ==
  ASSUME NEW S, IsFiniteSet(S), NEW v, DOMAIN v = S, NEW u, \A x \in S : v[x] = u[x]
  PROVE  SumFunction(v) = SumOver(u, S)
BY SumFunctionIs, SumSame

LEMMA FeeSum ==
  ASSUME BooksTyped, NEW S, S \subseteq DOMAIN trades
  PROVE  Sum(Fee, S) = SumOver(Fees, S)
<1>1. IsFiniteSet(S) /\ \A i \in S : trades[i].fee = Fees[i]
  BY TradeRows, FS_Subset
<1>2. Sum(Fee, S) = SumFunction([i \in S |-> trades[i].fee])
  BY DEF Sum, Fee
<1>. QED BY <1>1, <1>2, SumOfRows

LEMMA AmountSum ==
  ASSUME BooksTyped, NEW S, S \subseteq DOMAIN entries
  PROVE  Sum(LAMBDA i : entries[i].amount, S) = SumOver(Amounts, S)
<1>1. IsFiniteSet(S) /\ \A i \in S : entries[i].amount = Amounts[i]
  BY EntryTableRows, FS_Subset
<1>2. Sum(LAMBDA i : entries[i].amount, S) = SumFunction([i \in S |-> entries[i].amount])
  BY DEF Sum
<1>. QED BY <1>1, <1>2, SumOfRows

(* What is known of the first n rows stays true of them. *)
LEMMA FirstTradesStay ==
  ASSUME Grown, NEW b, NEW n \in 0 .. Len(trades)
  PROVE  /\ ChargedTo(b, n)' = ChargedTo(b, n)
         /\ TradesTo(b, n)' = TradesTo(b, n)
         /\ SumOver(Fees, ChargedTo(b, n))' = SumOver(Fees, ChargedTo(b, n))
<1>1. /\ Len(trades) \in Nat /\ DOMAIN trades = 1 .. Len(trades)
      /\ Len(trades') \in Nat /\ DOMAIN trades' = 1 .. Len(trades')
      /\ Len(trades) <= Len(trades')
      /\ \A i \in DOMAIN trades : trades'[i] = trades[i]
  BY DEF Grown, BooksTyped
<1>2. \A i : i \in 1 .. n => i \in 1 .. Len(trades) /\ i \in 1 .. Len(trades')
  BY <1>1
<1>3. ChargedTo(b, n) = {i \in 1 .. n : trades[i].broker = b /\ trades[i].fee > 0}
  BY <1>1, <1>2 DEF ChargedTo, Charged, Ids
<1>4. ChargedTo(b, n)' = {i \in 1 .. n : trades'[i].broker = b /\ trades'[i].fee > 0}
  BY <1>1, <1>2 DEF ChargedTo, Charged, Ids
<1>5. ChargedTo(b, n)' = ChargedTo(b, n)
  BY <1>1, <1>2, <1>3, <1>4
<1>6. TradesTo(b, n) = {i \in 1 .. n : trades[i].broker = b}
  BY <1>1, <1>2 DEF TradesTo, Ids
<1>7. TradesTo(b, n)' = {i \in 1 .. n : trades'[i].broker = b}
  BY <1>1, <1>2 DEF TradesTo, Ids
<1>8. TradesTo(b, n)' = TradesTo(b, n)
  BY <1>1, <1>2, <1>6, <1>7
<1>9. IsFiniteSet(ChargedTo(b, n))
  <2>1. IsFiniteSet(1 .. n)
    BY FS_Interval
  <2>. QED BY <1>3, <2>1, FS_Subset
<1>10. \A i \in ChargedTo(b, n) : Fees'[i] = Fees[i]
  BY <1>1, <1>2, <1>3 DEF Fees
<1>11. SumOver(Fees', ChargedTo(b, n)) = SumOver(Fees, ChargedTo(b, n))
  BY <1>9, <1>10, SumSame
<1>. QED BY <1>5, <1>8, <1>11

LEMMA FirstEntriesStay ==
  ASSUME Grown, NEW n \in 0 .. Len(entries)
  PROVE  /\ SumOver(Amounts, 1 .. n)' = SumOver(Amounts, 1 .. n)
         /\ \A b : /\ EntriesTo(b, n)' = EntriesTo(b, n)
                   /\ SumOver(Amounts, EntriesTo(b, n))' = SumOver(Amounts, EntriesTo(b, n))
<1>1. /\ Len(entries) \in Nat /\ DOMAIN entries = 1 .. Len(entries)
      /\ Len(entries') \in Nat /\ DOMAIN entries' = 1 .. Len(entries')
      /\ Len(entries) <= Len(entries')
      /\ \A i \in DOMAIN entries : entries'[i] = entries[i]
  BY DEF Grown, BooksTyped
<1>2. \A i : i \in 1 .. n => i \in 1 .. Len(entries) /\ i \in 1 .. Len(entries')
  BY <1>1
<1>3. IsFiniteSet(1 .. n)
  BY FS_Interval
<1>4. \A i \in 1 .. n : Amounts'[i] = Amounts[i]
  BY <1>1, <1>2 DEF Amounts
<1>5. SumOver(Amounts', 1 .. n) = SumOver(Amounts, 1 .. n)
  BY <1>3, <1>4, SumSame
<1>6. ASSUME NEW b
      PROVE  /\ EntriesTo(b, n)' = EntriesTo(b, n)
             /\ SumOver(Amounts', EntriesTo(b, n)) = SumOver(Amounts, EntriesTo(b, n))
  <2>1. EntriesTo(b, n) = {i \in 1 .. n : entries[i].broker = b}
    BY <1>1, <1>2 DEF EntriesTo, Ids
  <2>2. EntriesTo(b, n)' = {i \in 1 .. n : entries'[i].broker = b}
    BY <1>1, <1>2 DEF EntriesTo, Ids
  <2>3. EntriesTo(b, n)' = EntriesTo(b, n)
    BY <1>1, <1>2, <2>1, <2>2
  <2>4. IsFiniteSet(EntriesTo(b, n)) /\ \A i \in EntriesTo(b, n) : Amounts'[i] = Amounts[i]
    BY <1>3, <1>4, <2>1, FS_Subset
  <2>. QED BY <2>3, <2>4, SumSame
<1>. QED BY <1>5, <1>6

LEMMA QueryStays ==
  ASSUME QueryInv, Grown, reader' = reader
  PROVE  QueryInv'
<1> SUFFICES ASSUME reader.op \in DOMAIN Queries
             PROVE  /\ reader.op = "commissions" => CommissionsRead'
                    /\ reader.op = "dashboard" => DashboardRead'
                    /\ reader.op = "console" => ConsoleRead'
  BY DEF QueryInv, Asked
<1>0. /\ Len(trades) \in Nat /\ Len(trades') \in Nat /\ Len(trades) <= Len(trades')
      /\ Len(entries) \in Nat /\ Len(entries') \in Nat /\ Len(entries) <= Len(entries')
  BY DEF Grown, BooksTyped
<1>1. ASSUME reader.op = "commissions" PROVE CommissionsRead'
  <2>1. CommissionsRead
    BY <1>1 DEF QueryInv
  <2>2. ASSUME "items" \in DOMAIN reader.got
        PROVE  /\ reader.at.items.trades \in 0 .. Len(trades')
               /\ reader.got.items = Newest(ChargedTo(reader.broker, reader.at.items.trades)',
                                            Limit.commissions)
    <3>1. /\ reader.at.items.trades \in 0 .. Len(trades)
          /\ reader.got.items = Newest(ChargedTo(reader.broker, reader.at.items.trades),
                                       Limit.commissions)
      BY <2>1, <2>2 DEF CommissionsRead
    <3>2. ChargedTo(reader.broker, reader.at.items.trades)'
            = ChargedTo(reader.broker, reader.at.items.trades)
      BY <3>1, FirstTradesStay
    <3>. QED BY <1>0, <3>1, <3>2
  <2>3. ASSUME "total" \in DOMAIN reader.got
        PROVE  /\ reader.at.total.trades \in 0 .. Len(trades')
               /\ reader.at.items.trades \in 0 .. reader.at.total.trades
               /\ reader.got.total = SumOver(Fees, ChargedTo(reader.broker, reader.at.total.trades))'
    <3>1. /\ reader.at.items.trades \in 0 .. reader.at.total.trades
          /\ reader.at.total.trades \in 0 .. Len(trades)
          /\ reader.got.total = SumOver(Fees, ChargedTo(reader.broker, reader.at.total.trades))
      BY <2>1, <2>3 DEF CommissionsRead
    <3>2. SumOver(Fees, ChargedTo(reader.broker, reader.at.total.trades))'
            = SumOver(Fees, ChargedTo(reader.broker, reader.at.total.trades))
      BY <3>1, FirstTradesStay
    <3>. QED BY <1>0, <3>1, <3>2
  <2>. QED BY <2>1, <2>2, <2>3 DEF CommissionsRead
<1>2. ASSUME reader.op = "dashboard" PROVE DashboardRead'
  <2>1. DashboardRead
    BY <1>2 DEF QueryInv
  <2>2. ASSUME "charges" \in DOMAIN reader.got
        PROVE  /\ reader.at.charges.trades \in 0 .. Len(trades')
               /\ reader.got.charges =
                    SumOver(Fees, ChargedTo(reader.broker, reader.at.charges.trades))'
    <3>1. /\ reader.at.charges.trades \in 0 .. Len(trades)
          /\ reader.got.charges =
               SumOver(Fees, ChargedTo(reader.broker, reader.at.charges.trades))
      BY <2>1, <2>2 DEF DashboardRead
    <3>2. SumOver(Fees, ChargedTo(reader.broker, reader.at.charges.trades))'
            = SumOver(Fees, ChargedTo(reader.broker, reader.at.charges.trades))
      BY <3>1, FirstTradesStay
    <3>. QED BY <1>0, <3>1, <3>2
  <2>3. ASSUME "legs" \in DOMAIN reader.got
        PROVE  /\ reader.at.legs.trades \in 0 .. Len(trades')
               /\ reader.at.charges.trades \in 0 .. reader.at.legs.trades
               /\ reader.got.legs = TradesTo(reader.broker, reader.at.legs.trades)'
    <3>1. /\ reader.at.charges.trades \in 0 .. reader.at.legs.trades
          /\ reader.at.legs.trades \in 0 .. Len(trades)
          /\ reader.got.legs = TradesTo(reader.broker, reader.at.legs.trades)
      BY <2>1, <2>3 DEF DashboardRead
    <3>2. TradesTo(reader.broker, reader.at.legs.trades)'
            = TradesTo(reader.broker, reader.at.legs.trades)
      BY <3>1, FirstTradesStay
    <3>. QED BY <1>0, <3>1, <3>2
  <2>. QED BY <2>1, <2>2, <2>3 DEF DashboardRead
<1>3. ASSUME reader.op = "console" PROVE ConsoleRead'
  <2>1. ConsoleRead
    BY <1>3 DEF QueryInv
  <2>2. ASSUME "totalBalance" \in DOMAIN reader.got
        PROVE  /\ reader.at.totalBalance.entries \in 0 .. Len(entries')
               /\ reader.got.totalBalance =
                    SumOver(Amounts, 1 .. reader.at.totalBalance.entries)'
    <3>1. /\ reader.at.totalBalance.entries \in 0 .. Len(entries)
          /\ reader.got.totalBalance = SumOver(Amounts, 1 .. reader.at.totalBalance.entries)
      BY <2>1, <2>2 DEF ConsoleRead
    <3>2. SumOver(Amounts, 1 .. reader.at.totalBalance.entries)'
            = SumOver(Amounts, 1 .. reader.at.totalBalance.entries)
      BY <3>1, FirstEntriesStay
    <3>. QED BY <1>0, <3>1, <3>2
  <2>3. ASSUME "recent" \in DOMAIN reader.got
        PROVE  /\ reader.at.recent.entries \in 0 .. Len(entries')
               /\ reader.at.totalBalance.entries \in 0 .. reader.at.recent.entries
               /\ reader.got.recent =
                    [b \in RecentBrokers |->
                       SumOver(Amounts, EntriesTo(b, reader.at.recent.entries))']
    <3>1. /\ reader.at.totalBalance.entries \in 0 .. reader.at.recent.entries
          /\ reader.at.recent.entries \in 0 .. Len(entries)
          /\ reader.got.recent = [b \in RecentBrokers |->
                                    SumOver(Amounts, EntriesTo(b, reader.at.recent.entries))]
      BY <2>1, <2>3 DEF ConsoleRead
    <3>2. \A b : SumOver(Amounts, EntriesTo(b, reader.at.recent.entries))'
                   = SumOver(Amounts, EntriesTo(b, reader.at.recent.entries))
      BY <3>1, FirstEntriesStay
    <3>. QED BY <1>0, <3>1, <3>2
  <2>4. "brokersCount" \in DOMAIN reader.got => reader.got.brokersCount = Len(Accounts)
    BY <2>1 DEF ConsoleRead
  <2>. QED BY <2>1, <2>2, <2>3, <2>4 DEF ConsoleRead, RecentBrokers
<1>. QED BY <1>1, <1>2, <1>3

(* One more query: k have been answered, and this one is the next. *)
Step(k, query) ==
  /\ reader.op \in DOMAIN Queries
  /\ k \in 0 .. Len(Queries[reader.op]) - 1
  /\ query = Queries[reader.op][k + 1]
  /\ DOMAIN reader.got = {Queries[reader.op][j] : j \in 1 .. k}
  /\ DOMAIN reader'.got = DOMAIN reader.got \cup {query}
  /\ query \notin DOMAIN reader.got
  /\ \A q \in DOMAIN reader.got : /\ reader'.got[q] = reader.got[q]
                                  /\ reader'.at[q] = reader.at[q]
  /\ reader'.got[query] = Result(reader.op, query, reader.broker)
  /\ reader'.at[query] = Now
  /\ reader'.op = reader.op /\ reader'.broker = reader.broker

LEMMA QueryOrders ==
  /\ DOMAIN Queries = {"commissions", "dashboard", "console"}
  /\ Queries["commissions"] = <<"items", "total">>
  /\ Queries["dashboard"] = <<"balance", "charges", "legs", "snapshot">>
  /\ Queries["console"] =
       <<"brokersCount", "totalBalance", "totalPnl", "totalCommission", "recent">>
BY DEF Queries

(* No query is asked twice. *)
LEMMA QueriesDiffer ==
  ASSUME NEW op \in DOMAIN Queries
  PROVE  /\ Len(Queries[op]) \in Nat
         /\ \A i, j \in 1 .. Len(Queries[op]) : Queries[op][i] = Queries[op][j] => i = j
<1>1. ASSUME NEW order, order = <<"items", "total">>
      PROVE  Len(order) \in Nat /\ \A i, j \in 1 .. Len(order) : order[i] = order[j] => i = j
  <2>1. Len(order) = 2 /\ \A i \in 1 .. 2 : i = 1 \/ i = 2
    BY <1>1
  <2>. QED BY <1>1, <2>1
<1>2. ASSUME NEW order, order = <<"balance", "charges", "legs", "snapshot">>
      PROVE  Len(order) \in Nat /\ \A i, j \in 1 .. Len(order) : order[i] = order[j] => i = j
  <2>1. Len(order) = 4 /\ \A i \in 1 .. 4 : i = 1 \/ i = 2 \/ i = 3 \/ i = 4
    BY <1>2
  <2>. QED BY <1>2, <2>1
<1>3. ASSUME NEW order, order = <<"brokersCount", "totalBalance", "totalPnl",
                                  "totalCommission", "recent">>
      PROVE  Len(order) \in Nat /\ \A i, j \in 1 .. Len(order) : order[i] = order[j] => i = j
  <2>1. Len(order) = 5 /\ \A i \in 1 .. 5 : i = 1 \/ i = 2 \/ i = 3 \/ i = 4 \/ i = 5
    BY <1>3
  <2>. QED BY <1>3, <2>1
<1>. QED BY <1>1, <1>2, <1>3, QueryOrders

LEMMA RunQueryIsStep ==
  ASSUME QueryInv, RunQuery
  PROVE  /\ \E k, query : Step(k, query)
         /\ DOMAIN reader' = ReaderFields
         /\ Asked'
         /\ UNCHANGED books
<1> DEFINE order == Queries[reader.op]
<1>1. /\ reader.op \in DOMAIN Queries /\ reader.more
      /\ DOMAIN reader = ReaderFields /\ Asked /\ UNCHANGED books
  BY DEF QueryInv, RunQuery
<1>2. PICK k \in 0 .. Len(order) :
        /\ DOMAIN reader.got = {order[j] : j \in 1 .. k}
        /\ DOMAIN reader.at = DOMAIN reader.got
        /\ Cardinality(DOMAIN reader.got) = k
        /\ k < Len(order)
  BY <1>1 DEF Asked
<1>3. /\ Len(order) \in Nat
      /\ \A i, j \in 1 .. Len(order) : order[i] = order[j] => i = j
  BY <1>1, QueriesDiffer
<1> DEFINE query == order[k + 1]
           got == With(reader.got, query, Result(reader.op, query, reader.broker))
           at == With(reader.at, query, Now)
           more == k + 1 < Len(order)
<1>4. reader' = [reader EXCEPT !.got = got, !.at = at, !.more = more]
  <2> DEFINE c == Cardinality(DOMAIN reader.got)
  <2>1. reader' = [reader EXCEPT
                     !.got = With(@, Queries[reader.op][c + 1],
                                  Result(reader.op, Queries[reader.op][c + 1], reader.broker)),
                     !.at = With(@, Queries[reader.op][c + 1], Now),
                     !.more = c + 1 < Len(Queries[reader.op])]
    BY DEF RunQuery
  <2>2. c = k
    BY <1>2
  <2> HIDE DEF c
  <2>. QED BY <2>1, <2>2
<1>5. query \notin DOMAIN reader.got
  <2>1. k + 1 \in 1 .. Len(order) /\ \A j \in 1 .. k : j \in 1 .. Len(order) /\ j # k + 1
    BY <1>2, <1>3
  <2> HIDE DEF order
  <2>. QED BY <1>2, <1>3, <2>1
<1>6. /\ DOMAIN got = DOMAIN reader.got \cup {query}
      /\ got[query] = Result(reader.op, query, reader.broker)
      /\ \A q \in DOMAIN reader.got : got[q] = reader.got[q]
  <2> HIDE DEF query
  <2>. QED BY <1>5 DEF With
<1>7. /\ DOMAIN at = DOMAIN got
      /\ at[query] = Now
      /\ \A q \in DOMAIN reader.got : at[q] = reader.at[q]
  <2> HIDE DEF query
  <2>. QED BY <1>2, <1>5 DEF With
<1> HIDE DEF got, at, more
<1>8. /\ DOMAIN reader' = ReaderFields
      /\ reader'.got = got /\ reader'.at = at /\ reader'.more = more
      /\ reader'.op = reader.op /\ reader'.broker = reader.broker
  <2> HIDE DEF query
  <2>. QED BY <1>1, <1>4 DEF ReaderFields
<1>9. Step(k, query)
  <2>1. k \in 0 .. Len(order) - 1
    BY <1>2, <1>3
  <2>. QED BY <1>1, <1>2, <1>5, <1>6, <1>7, <1>8, <2>1 DEF Step
<1>10. Asked'
  <2>1. k + 1 \in 0 .. Len(order) /\ more = (k + 1 < Len(order))
    BY <1>2, <1>3 DEF more
  <2>2. {order[j] : j \in 1 .. k + 1} = {order[j] : j \in 1 .. k} \cup {query}
    <3>1. \A j : j \in 1 .. k + 1 <=> j \in 1 .. k \/ j = k + 1
      BY <1>2, <1>3
    <3> HIDE DEF order
    <3>. QED BY <3>1
  <2>3. IsFiniteSet(DOMAIN reader.got)
    <3>1. IsFiniteSet(1 .. k)
      BY <1>2, <1>3, FS_Interval
    <3> DEFINE f == [j \in 1 .. k |-> order[j]]
    <3>2. f \in Surjection(1 .. k, DOMAIN reader.got)
      <4> HIDE DEF order
      <4>. QED BY <1>2 DEF Surjection
    <3>. QED BY <3>1, <3>2, FS_Surjection
  <2>4. Cardinality(DOMAIN got) = k + 1
    <3> HIDE DEF query
    <3>. QED BY <1>2, <1>5, <1>6, <2>3, FS_AddElement
  <2>5. DOMAIN reader'.got = {order[j] : j \in 1 .. k + 1}
    <3> HIDE DEF order, query
    <3>. QED BY <1>2, <1>6, <1>8, <2>2
  <2>6. /\ DOMAIN reader'.at = DOMAIN reader'.got
        /\ Cardinality(DOMAIN reader'.got) = k + 1
        /\ reader'.more <=> k + 1 < Len(order)
    <3> HIDE DEF order, query
    <3>. QED BY <1>7, <1>8, <2>1, <2>4
  <2>7. Queries[reader'.op] = order
    BY <1>8
  <2> HIDE DEF order
  <2>. QED BY <2>1, <2>5, <2>6, <2>7 DEF Asked
<1>. QED BY <1>1, <1>8, <1>9, <1>10

(* Of two queries the earlier one is answered when the later one runs.     *)
LEMMA CommissionsOrder ==
  ASSUME NEW k, NEW query, Step(k, query), reader.op = "commissions"
  PROVE  \/ query = "items" /\ "total" \notin DOMAIN reader.got
         \/ query = "total" /\ "items" \in DOMAIN reader.got
<1> DEFINE order == <<"items", "total">>
<1>1. /\ k \in 0 .. 1 /\ query = order[k + 1]
      /\ DOMAIN reader.got = {order[j] : j \in 1 .. k}
  BY QueryOrders DEF Step
<1>2. k = 0 \/ k = 1
  BY <1>1
<1>3. CASE k = 0
  BY <1>1, <1>3
<1>4. CASE k = 1
  <2>1. 1 \in 1 .. k /\ order[1] = "items" /\ query = "total"
    BY <1>1, <1>4
  <2> HIDE DEF order
  <2>. QED BY <1>1, <2>1
<1>. QED BY <1>2, <1>3, <1>4

LEMMA DashboardOrder ==
  ASSUME NEW k, NEW query, Step(k, query), reader.op = "dashboard"
  PROVE  \/ query \in {"balance", "snapshot"}
         \/ query = "charges" /\ "legs" \notin DOMAIN reader.got
         \/ query = "legs" /\ "charges" \in DOMAIN reader.got
<1> DEFINE order == <<"balance", "charges", "legs", "snapshot">>
<1>1. /\ k \in 0 .. 3 /\ query = order[k + 1]
      /\ DOMAIN reader.got = {order[j] : j \in 1 .. k}
  BY QueryOrders DEF Step
<1>2. k = 0 \/ k = 1 \/ k = 2 \/ k = 3
  BY <1>1
<1>3. CASE k = 0 \/ k = 3
  BY <1>1, <1>3
<1>4. CASE k = 1
  <2>1. \A j \in 1 .. k : order[j] # "legs"
    BY <1>4
  <2>2. query = "charges"
    BY <1>1, <1>4
  <2> HIDE DEF order
  <2>. QED BY <1>1, <2>1, <2>2
<1>5. CASE k = 2
  <2>1. 2 \in 1 .. k /\ order[2] = "charges" /\ query = "legs"
    BY <1>1, <1>5
  <2> HIDE DEF order
  <2>. QED BY <1>1, <2>1
<1>. QED BY <1>2, <1>3, <1>4, <1>5

LEMMA ConsoleOrder ==
  ASSUME NEW k, NEW query, Step(k, query), reader.op = "console"
  PROVE  \/ query \in {"brokersCount", "totalPnl", "totalCommission"}
         \/ query = "totalBalance" /\ "recent" \notin DOMAIN reader.got
         \/ query = "recent" /\ "totalBalance" \in DOMAIN reader.got
<1> DEFINE order == <<"brokersCount", "totalBalance", "totalPnl", "totalCommission", "recent">>
<1>1. /\ k \in 0 .. 4 /\ query = order[k + 1]
      /\ DOMAIN reader.got = {order[j] : j \in 1 .. k}
  BY QueryOrders DEF Step
<1>2. k = 0 \/ k = 1 \/ k = 2 \/ k = 3 \/ k = 4
  BY <1>1
<1>3. CASE k = 0 \/ k = 2 \/ k = 3
  BY <1>1, <1>3
<1>4. CASE k = 1
  <2>1. \A j \in 1 .. k : order[j] # "recent"
    BY <1>4
  <2>2. query = "totalBalance"
    BY <1>1, <1>4
  <2> HIDE DEF order
  <2>. QED BY <1>1, <2>1, <2>2
<1>5. CASE k = 4
  <2>1. 2 \in 1 .. k /\ order[2] = "totalBalance" /\ query = "recent"
    BY <1>1, <1>5
  <2> HIDE DEF order
  <2>. QED BY <1>1, <2>1
<1>. QED BY <1>2, <1>3, <1>4, <1>5

(* The books as they are are their first rows, all of them. *)
LEMMA AllRows ==
  ASSUME BooksTyped
  PROVE  /\ Now.trades = Len(trades) /\ Now.entries = Len(entries)
         /\ Len(trades) \in Nat /\ Len(entries) \in Nat
         /\ \A b : /\ ChargedTo(b, Len(trades)) = Charged(b)
                   /\ TradesTo(b, Len(trades)) = Ids(trades, b)
                   /\ EntriesTo(b, Len(entries)) = Ids(entries, b)
                   /\ Balance(b) = SumOver(Amounts, EntriesTo(b, Len(entries)))
                   /\ CommissionTotal(b) = SumOver(Fees, ChargedTo(b, Len(trades)))
         /\ TotalBalance = SumOver(Amounts, 1 .. Len(entries))
<1>1. /\ DOMAIN trades = 1 .. Len(trades) /\ Len(trades) \in Nat
      /\ DOMAIN entries = 1 .. Len(entries) /\ Len(entries) \in Nat
  BY TradeRows, EntryTableRows
<1>2. ASSUME NEW b
      PROVE  /\ ChargedTo(b, Len(trades)) = Charged(b) /\ Charged(b) \subseteq DOMAIN trades
             /\ TradesTo(b, Len(trades)) = Ids(trades, b)
             /\ EntriesTo(b, Len(entries)) = Ids(entries, b) /\ Ids(entries, b) \subseteq DOMAIN entries
  BY <1>1 DEF ChargedTo, TradesTo, EntriesTo, Charged, Ids
<1>3. ASSUME NEW b
      PROVE  /\ Balance(b) = SumOver(Amounts, EntriesTo(b, Len(entries)))
             /\ CommissionTotal(b) = SumOver(Fees, ChargedTo(b, Len(trades)))
  <2>1. Balance(b) = SumOver(Amounts, Ids(entries, b))
    BY <1>2, AmountSum DEF Balance
  <2>2. CommissionTotal(b) = SumOver(Fees, Charged(b))
    BY <1>2, FeeSum DEF CommissionTotal
  <2>. QED BY <1>2, <2>1, <2>2
<1>4. TotalBalance = SumOver(Amounts, DOMAIN entries)
  BY AmountSum DEF TotalBalance
<1>. QED BY <1>1, <1>2, <1>3, <1>4 DEF Now

(* A query reads the books as they are, and leaves them so. *)
LEMMA SameBooks ==
  ASSUME UNCHANGED books
  PROVE  /\ trades' = trades /\ entries' = entries
         /\ \A b, n : /\ ChargedTo(b, n)' = ChargedTo(b, n)
                      /\ TradesTo(b, n)' = TradesTo(b, n)
                      /\ EntriesTo(b, n)' = EntriesTo(b, n)
                      /\ SumOver(Fees, ChargedTo(b, n))' = SumOver(Fees, ChargedTo(b, n))
                      /\ SumOver(Amounts, EntriesTo(b, n))' = SumOver(Amounts, EntriesTo(b, n))
         /\ \A n : SumOver(Amounts, 1 .. n)' = SumOver(Amounts, 1 .. n)
<1>1. trades' = trades /\ entries' = entries
  BY DEF books
<1>2. Fees' = Fees /\ Amounts' = Amounts
  BY <1>1 DEF Fees, Amounts
<1>3. ASSUME NEW b, NEW n
      PROVE  /\ ChargedTo(b, n)' = ChargedTo(b, n)
             /\ TradesTo(b, n)' = TradesTo(b, n)
             /\ EntriesTo(b, n)' = EntriesTo(b, n)
  BY <1>1 DEF ChargedTo, Charged, TradesTo, EntriesTo, Ids
<1>. QED BY <1>1, <1>2, <1>3

LEMMA RunCommissions ==
  ASSUME BooksTyped, UNCHANGED books, NEW k, NEW query, Step(k, query),
         reader.op = "commissions", CommissionsRead
  PROVE  CommissionsRead'
<1> DEFINE b == reader.broker
<1>1. /\ DOMAIN reader'.got = DOMAIN reader.got \cup {query}
      /\ \A q \in DOMAIN reader.got : /\ reader'.got[q] = reader.got[q]
                                      /\ reader'.at[q] = reader.at[q]
      /\ reader'.got[query] = Commissions(query, b)
      /\ reader'.at[query] = Now
      /\ reader'.broker = b
  BY DEF Step, Result
<1>2. CASE query = "items" /\ "total" \notin DOMAIN reader.got
  <2>1. reader'.got.items = Newest(ChargedTo(b, Len(trades)), Limit.commissions)
    BY <1>1, <1>2, AllRows DEF Commissions, CommissionItems
  <2>2. reader'.at.items.trades = Len(trades) /\ Len(trades) \in Nat
    BY <1>1, <1>2, AllRows
  <2>3. "total" \notin DOMAIN reader'.got
    BY <1>1, <1>2
  <2>. QED BY <1>1, <2>1, <2>2, <2>3, SameBooks DEF CommissionsRead
<1>3. CASE query = "total" /\ "items" \in DOMAIN reader.got
  <2>1. reader'.got.total = SumOver(Fees, ChargedTo(b, Len(trades)))
    BY <1>1, <1>3, AllRows DEF Commissions
  <2>2. reader'.at.total.trades = Len(trades) /\ Len(trades) \in Nat
    BY <1>1, <1>3, AllRows
  <2>3. /\ reader'.at.items.trades \in 0 .. Len(trades)
        /\ reader'.got.items = Newest(ChargedTo(b, reader'.at.items.trades), Limit.commissions)
    BY <1>1, <1>3 DEF CommissionsRead
  <2>4. /\ (reader.got.items = Newest(ChargedTo(reader.broker, reader.at.items.trades),
                                       Limit.commissions))'
        /\ (reader.got.total = SumOver(Fees, ChargedTo(reader.broker, reader.at.total.trades)))'
        /\ trades' = trades /\ "items" \in DOMAIN reader'.got
    BY <1>1, <1>3, <2>1, <2>2, <2>3, SameBooks
  <2>. QED BY <1>1, <2>2, <2>3, <2>4 DEF CommissionsRead
<1>. QED BY <1>2, <1>3, CommissionsOrder

LEMMA RunDashboard ==
  ASSUME BooksTyped, UNCHANGED books, NEW k, NEW query, Step(k, query),
         reader.op = "dashboard", DashboardRead
  PROVE  DashboardRead'
<1> DEFINE b == reader.broker
<1>1. /\ DOMAIN reader'.got = DOMAIN reader.got \cup {query}
      /\ \A q \in DOMAIN reader.got : /\ reader'.got[q] = reader.got[q]
                                      /\ reader'.at[q] = reader.at[q]
      /\ reader'.got[query] = Dashboard(query, b)
      /\ reader'.at[query] = Now
      /\ reader'.broker = b
  BY DEF Step, Result
<1>2. CASE query \in {"balance", "snapshot"}
  <2>1. "charges" \in DOMAIN reader'.got <=> "charges" \in DOMAIN reader.got
    BY <1>1, <1>2
  <2>2. "legs" \in DOMAIN reader'.got <=> "legs" \in DOMAIN reader.got
    BY <1>1, <1>2
  <2>. QED BY <1>1, <2>1, <2>2, SameBooks DEF DashboardRead
<1>3. CASE query = "charges" /\ "legs" \notin DOMAIN reader.got
  <2>1. reader'.got.charges = SumOver(Fees, ChargedTo(b, Len(trades)))
    BY <1>1, <1>3, AllRows DEF Dashboard
  <2>2. reader'.at.charges.trades = Len(trades) /\ Len(trades) \in Nat
    BY <1>1, <1>3, AllRows
  <2>3. "legs" \notin DOMAIN reader'.got
    BY <1>1, <1>3
  <2>. QED BY <1>1, <2>1, <2>2, <2>3, SameBooks DEF DashboardRead
<1>4. CASE query = "legs" /\ "charges" \in DOMAIN reader.got
  <2>1. reader'.got.legs = TradesTo(b, Len(trades))
    BY <1>1, <1>4, AllRows DEF Dashboard
  <2>2. reader'.at.legs.trades = Len(trades) /\ Len(trades) \in Nat
    BY <1>1, <1>4, AllRows
  <2>3. /\ reader'.at.charges.trades \in 0 .. Len(trades)
        /\ reader'.got.charges = SumOver(Fees, ChargedTo(b, reader'.at.charges.trades))
    BY <1>1, <1>4 DEF DashboardRead
  <2>4. /\ (reader.got.charges =
               SumOver(Fees, ChargedTo(reader.broker, reader.at.charges.trades)))'
        /\ (reader.got.legs = TradesTo(reader.broker, reader.at.legs.trades))'
        /\ trades' = trades /\ "charges" \in DOMAIN reader'.got
    BY <1>1, <1>4, <2>1, <2>2, <2>3, SameBooks
  <2>. QED BY <1>1, <2>2, <2>3, <2>4 DEF DashboardRead
<1>. QED BY <1>2, <1>3, <1>4, DashboardOrder

LEMMA RunConsole ==
  ASSUME BooksTyped, UNCHANGED books, NEW k, NEW query, Step(k, query),
         reader.op = "console", ConsoleRead
  PROVE  ConsoleRead'
<1>1. /\ DOMAIN reader'.got = DOMAIN reader.got \cup {query}
      /\ \A q \in DOMAIN reader.got : /\ reader'.got[q] = reader.got[q]
                                      /\ reader'.at[q] = reader.at[q]
      /\ reader'.got[query] = ConsoleDashboard(query)
      /\ reader'.at[query] = Now
  BY DEF Step, Result
<1>2. trades' = trades /\ entries' = entries /\ RecentBrokers' = RecentBrokers
  BY SameBooks DEF RecentBrokers
<1>3. CASE query \in {"brokersCount", "totalPnl", "totalCommission"}
  <2>1. /\ "totalBalance" \in DOMAIN reader'.got <=> "totalBalance" \in DOMAIN reader.got
        /\ "recent" \in DOMAIN reader'.got <=> "recent" \in DOMAIN reader.got
    BY <1>1, <1>3
  <2>2. "brokersCount" \in DOMAIN reader'.got => reader'.got.brokersCount = Len(Accounts)
    BY <1>1 DEF ConsoleRead, ConsoleDashboard
  <2>3. ASSUME "recent" \in DOMAIN reader.got
        PROVE  (reader.got.recent = [b \in RecentBrokers |->
                                       SumOver(Amounts, EntriesTo(b, reader.at.recent.entries))])'
    BY <1>1, <1>2, <2>3, SameBooks DEF ConsoleRead
  <2>. QED BY <1>1, <1>2, <2>1, <2>2, <2>3, SameBooks DEF ConsoleRead
<1>4. CASE query = "totalBalance" /\ "recent" \notin DOMAIN reader.got
  <2>1. reader'.got.totalBalance = SumOver(Amounts, 1 .. Len(entries))
    BY <1>1, <1>4, AllRows DEF ConsoleDashboard
  <2>2. reader'.at.totalBalance.entries = Len(entries) /\ Len(entries) \in Nat
    BY <1>1, <1>4, AllRows
  <2>3. "recent" \notin DOMAIN reader'.got
    BY <1>1, <1>4
  <2>4. "brokersCount" \in DOMAIN reader'.got => reader'.got.brokersCount = Len(Accounts)
    BY <1>1, <1>4 DEF ConsoleRead
  <2>. QED BY <1>1, <1>2, <2>1, <2>2, <2>3, <2>4, SameBooks DEF ConsoleRead
<1>5. CASE query = "recent" /\ "totalBalance" \in DOMAIN reader.got
  <2>1. reader'.got.recent =
          [b \in RecentBrokers |-> SumOver(Amounts, EntriesTo(b, Len(entries)))]
    BY <1>1, <1>5, AllRows DEF ConsoleDashboard
  <2>2. reader'.at.recent.entries = Len(entries) /\ Len(entries) \in Nat
    BY <1>1, <1>5, AllRows
  <2>3. /\ reader'.at.totalBalance.entries \in 0 .. Len(entries)
        /\ reader'.got.totalBalance = SumOver(Amounts, 1 .. reader'.at.totalBalance.entries)
        /\ "totalBalance" \in DOMAIN reader'.got
    BY <1>1, <1>5 DEF ConsoleRead
  <2>4. (reader.got.recent = [b \in RecentBrokers |->
                                SumOver(Amounts, EntriesTo(b, reader.at.recent.entries))])'
    BY <1>2, <2>1, <2>2, SameBooks
  <2>5. (reader.got.totalBalance = SumOver(Amounts, 1 .. reader.at.totalBalance.entries))'
    BY <2>3, SameBooks
  <2>6. "brokersCount" \in DOMAIN reader'.got => reader'.got.brokersCount = Len(Accounts)
    BY <1>1, <1>5 DEF ConsoleRead
  <2>. QED BY <1>2, <2>2, <2>3, <2>4, <2>5, <2>6 DEF ConsoleRead
<1>. QED BY <1>3, <1>4, <1>5, ConsoleOrder

LEMMA QueryStep ==
  ASSUME PageTyped, BooksTyped, QueryInv, [PortalNext]_portalVars
  PROVE  QueryInv'
<1>1. ASSUME NEW op \in DOMAIN Queries \cup {"trades"}, NEW user, NEW b, NEW n,
             Ask(op, user, b, n)
      PROVE  QueryInv'
  <2>1. reader' = [op |-> op, user |-> user, broker |-> Scope(user, b), limit |-> n,
                   cursor |-> None, got |-> <<>>, at |-> <<>>, more |-> TRUE]
    BY <1>1 DEF Ask
  <2>2. "op" \in DOMAIN reader' /\ DOMAIN reader' = ReaderFields /\ reader'.op = op
    BY <2>1 DEF ReaderFields
  <2>3. DOMAIN reader'.got = {} /\ DOMAIN reader'.at = {} /\ reader'.more = TRUE
    BY <2>1
  <2>4. ASSUME op \in DOMAIN Queries PROVE Asked'
    <3> DEFINE order == Queries[op]
    <3>1. Len(order) \in Nat /\ 0 < Len(order)
      BY <2>4, QueryOrders
    <3>2. 1 .. 0 = {} /\ Cardinality({}) = 0
      BY FS_EmptySet
    <3> HIDE DEF order
    <3>3. /\ 0 \in 0 .. Len(order)
          /\ DOMAIN reader'.got = {order[j] : j \in 1 .. 0}
          /\ DOMAIN reader'.at = DOMAIN reader'.got
          /\ Cardinality(DOMAIN reader'.got) = 0
          /\ reader'.more <=> 0 < Len(order)
      BY <2>3, <3>1, <3>2
    <3>4. Queries[reader'.op] = order
      BY <2>2 DEF order
    <3>. QED BY <3>3, <3>4 DEF Asked
  <2>5. CommissionsRead' /\ DashboardRead' /\ ConsoleRead'
    BY <2>3 DEF CommissionsRead, DashboardRead, ConsoleRead
  <2>. QED BY <2>2, <2>4, <2>5 DEF QueryInv
<1>2. CASE RunQuery
  <2>1. /\ \E k, query : Step(k, query)
        /\ DOMAIN reader' = ReaderFields /\ Asked' /\ UNCHANGED books
    BY <1>2, RunQueryIsStep
  <2>2. PICK k, query : Step(k, query)
    BY <2>1
  <2>3. reader.op \in DOMAIN Queries /\ reader'.op = reader.op
    BY <2>2 DEF Step
  <2>4. reader.op = "commissions" => CommissionsRead'
    BY <2>1, <2>2, <2>3, RunCommissions DEF QueryInv
  <2>5. reader.op = "dashboard" => DashboardRead'
    BY <2>1, <2>2, <2>3, RunDashboard DEF QueryInv
  <2>6. reader.op = "console" => ConsoleRead'
    BY <2>1, <2>2, <2>3, RunConsole DEF QueryInv
  <2>. QED BY <2>1, <2>3, <2>4, <2>5, <2>6 DEF QueryInv, ReaderFields
<1>3. CASE ReadPage
  <2>1. reader.op = "trades" /\ reader'.op = reader.op /\ DOMAIN reader' = DOMAIN reader
    BY <1>3 DEF ReadPage, QueryInv
  <2>. QED BY <2>1, QueryOrders DEF QueryInv
<1>4. CASE Leave
  <2>1. reader' = [op |-> None]
    BY <1>4 DEF Leave, NoReader
  <2>. QED BY <2>1, ScreensAssumption DEF QueryInv
<1>5. CASE UNCHANGED reader
  BY <1>5, QueryStays, BooksGrow
<1>6. CASE Reading
  <2>1. CASE \E user \in Users, b \in Brokers \cup {None} :
               \E n \in PageLimits : Ask("trades", user, b, n)
    BY <1>1, <2>1
  <2>2. CASE \E user \in Users, b \in Brokers \cup {None} :
               \E op \in DOMAIN Queries : Ask(op, user, b, None)
    BY <1>1, <2>2
  <2>. QED BY <1>2, <1>3, <1>4, <1>6, <2>1, <2>2 DEF Reading
<1>. QED BY <1>5, <1>6, ReaderSteps

-----------------------------------------------------------------------------
(* What a complete answer says. *)

LEMMA AllAsked ==
  ASSUME QueryInv, reader.op \in DOMAIN Queries, ~reader.more
  PROVE  \A j \in 1 .. Len(Queries[reader.op]) : Queries[reader.op][j] \in DOMAIN reader.got
<1> DEFINE order == Queries[reader.op]
<1>1. PICK k \in 0 .. Len(order) :
        /\ DOMAIN reader.got = {order[j] : j \in 1 .. k}
        /\ reader.more <=> k < Len(order)
  BY DEF QueryInv, Asked
<1>2. Len(order) \in Nat
  BY QueriesDiffer
<1> HIDE DEF order
<1>3. k = Len(order)
  BY <1>1, <1>2
<1>. QED BY <1>1, <1>3 DEF order

(* An answer has as many rows as it is long. *)
LEMMA NewestCount ==
  ASSUME NEW S, IsFiniteSet(S), S \subseteq Int, NEW n \in Nat
  PROVE  Cardinality(RowsIn(Newest(S, n))) = Len(Newest(S, n))
<1> DEFINE N == Newest(S, n)
           m == Len(N)
<1>0. N \in Seq(S) /\ m \in Nat /\ \A j \in 1 .. m : N[j] \in S
  BY NewestPlaces
<1>1. m \in Nat /\ DOMAIN N = 1 .. m
  BY <1>0
<1>2. \A j, k \in 1 .. m : j < k => N[j] > N[k]
  BY NewestDescends
<1>3. \A j \in 1 .. m : N[j] \in Int
  BY <1>0
<1> HIDE DEF N, m
<1>4. IsFiniteSet(1 .. m) /\ Cardinality(1 .. m) = m
  BY <1>1, FS_Interval
<1>5. N \in [1 .. m -> RowsIn(N)]
  <2>1. N = [k \in 1 .. m |-> N[k]]
    BY <1>0, <1>1 DEF N
  <2>2. \A k \in 1 .. m : N[k] \in RowsIn(N)
    BY <1>1 DEF RowsIn
  <2>. QED BY <2>1, <2>2
<1>6. N \in Surjection(1 .. m, RowsIn(N))
  BY <1>1, <1>5 DEF Surjection, RowsIn
<1>7. \A j, k \in 1 .. m : N[j] = N[k] => j = k
  <2> SUFFICES ASSUME NEW j \in 1 .. m, NEW k \in 1 .. m, j # k PROVE N[j] # N[k]
    OBVIOUS
  <2>1. j < k \/ k < j
    BY <1>1
  <2>. QED BY <1>2, <1>3, <2>1
<1>8. N \in Injection(1 .. m, RowsIn(N))
  BY <1>5, <1>7 DEF Injection, IsInjective
<1>. QED BY <1>4, <1>6, <1>8, FS_Surjection DEF N, m

LEMMA CommissionsOrdered ==
  ASSUME BooksTyped, CommissionsRead, {"items", "total"} \subseteq DOMAIN reader.got
  PROVE  LET items == RowsIn(reader.got.items)
             missing == {i \in Charged(reader.broker) : i <= reader.at.total.trades} \ items
         IN  /\ reader.got.total = Sum(Fee, items) + Sum(Fee, missing)
             /\ \A i \in missing :
                  \/ i > reader.at.items.trades
                  \/ Cardinality(items) = Limit.commissions /\ \A j \in items : i < j
<1> DEFINE b == reader.broker
           first == ChargedTo(b, reader.at.items.trades)
           S == ChargedTo(b, reader.at.total.trades)
           items == RowsIn(reader.got.items)
           missing == S \ items
           n == Limit.commissions
<1>1. /\ reader.at.total.trades \in 0 .. Len(trades)
      /\ reader.at.items.trades \in 0 .. reader.at.total.trades
      /\ reader.got.items = Newest(first, n)
      /\ reader.got.total = SumOver(Fees, S)
  BY DEF CommissionsRead
<1>2. /\ Len(trades) \in Nat /\ DOMAIN trades = 1 .. Len(trades)
      /\ IsFiniteSet(DOMAIN trades)
      /\ \A i \in DOMAIN trades : Fees[i] \in Int
  BY TradeRows
<1>3. S \subseteq DOMAIN trades /\ first \subseteq S
  BY <1>1, <1>2 DEF ChargedTo, Charged, Ids
<1>4. IsFiniteSet(S) /\ IsFiniteSet(first)
  BY <1>2, <1>3, FS_Subset
<1>5. n \in Nat
  BY ReportsAssumption
<1>6. first \subseteq Int
  BY <1>2, <1>3
<1>7. items \subseteq first
  BY <1>1, <1>4, <1>5, <1>6, NewestRows
<1>8. SumOver(Fees, items \cup missing) = SumOver(Fees, items) + SumOver(Fees, missing)
  <2>1. \A i \in S : Fees[i] \in Int
    BY <1>2, <1>3
  <2>2. items \subseteq S /\ missing \subseteq S /\ items \cap missing = {}
    BY <1>3, <1>7
  <2> HIDE DEF S, items, missing
  <2>. QED BY <1>4, <2>1, <2>2, SumUnion
<1>9. items \cup missing = S
  BY <1>3, <1>7
<1>10. /\ Sum(Fee, items) = SumOver(Fees, items)
       /\ Sum(Fee, missing) = SumOver(Fees, missing)
  <2>1. items \subseteq DOMAIN trades /\ missing \subseteq DOMAIN trades
    BY <1>3, <1>7
  <2> HIDE DEF items, missing
  <2>. QED BY <2>1, FeeSum
<1>11. reader.got.total = Sum(Fee, items) + Sum(Fee, missing)
  <2> HIDE DEF items, missing, S
  <2>. QED BY <1>1, <1>8, <1>9, <1>10
<1>12. ASSUME NEW i \in missing, ~(i > reader.at.items.trades)
       PROVE  Cardinality(items) = n /\ \A j \in items : i < j
  <2>1. i \in first /\ i \in Int /\ i \notin items
    BY <1>1, <1>2, <1>3, <1>12 DEF ChargedTo
  <2> HIDE DEF first, items, missing, S, n
  <2>2. items = RowsIn(Newest(first, n))
    BY <1>1 DEF items
  <2>3. Len(Newest(first, n)) \in Nat /\ Len(Newest(first, n)) <= n
    BY <1>4, <1>5, <1>6, NewestPlaces
  <2>4. Len(Newest(first, n)) = n
    <3>1. Len(Newest(first, n)) < n => RowsIn(Newest(first, n)) = first
      BY <1>4, <1>5, <1>6, NewestRows
    <3>. QED BY <1>5, <2>1, <2>2, <2>3, <3>1
  <2>5. Cardinality(items) = n
    BY <1>4, <1>5, <1>6, <2>2, <2>4, NewestCount
  <2>6. CASE n = 0
    <3>1. items = {}
      <4>1. Newest(first, n) \in Seq(first)
        BY <1>4, <1>5, <1>6, NewestPlaces
      <4>2. DOMAIN Newest(first, n) = {}
        BY <2>4, <2>6, <4>1
      <4>. QED BY <2>2, <4>2 DEF RowsIn
    <3>. QED BY <2>5, <3>1
  <2>7. CASE n > 0
    <3>1. items = {j \in first : j >= Newest(first, n)[n]}
      BY <1>4, <1>5, <1>6, <2>2, <2>4, <2>7, NewestRows
    <3>2. Newest(first, n)[n] \in Int
      <4>1. n \in 1 .. Len(Newest(first, n))
        BY <1>5, <2>4, <2>7
      <4>. QED BY <1>4, <1>5, <1>6, <4>1, NewestPlaces
    <3>. QED BY <1>6, <2>1, <2>5, <3>1, <3>2
  <2>. QED BY <1>5, <2>6, <2>7
<1>13. missing = {i \in Charged(b) : i <= reader.at.total.trades} \ items
  BY DEF ChargedTo
<1> HIDE DEF items, missing, n
<1>14. LET rest == {i \in Charged(reader.broker) : i <= reader.at.total.trades} \ items
       IN  /\ reader.got.total = Sum(Fee, items) + Sum(Fee, rest)
           /\ \A i \in rest : \/ i > reader.at.items.trades
                              \/ Cardinality(items) = n /\ \A j \in items : i < j
  BY <1>11, <1>12, <1>13
<1>. QED BY <1>14 DEF items, n

(* What a close leg gains on each leg that may be its open. *)
Gain(c) ==
  [o \in DOMAIN trades |-> (trades[c].price - trades[o].price) * trades[o].qty * Direction(o)]

LEMMA GainType ==
  ASSUME BooksTyped, NEW c \in DOMAIN trades, NEW o \in DOMAIN trades
  PROVE  Gain(c)[o] \in Int
<1>1. /\ trades[c].price \in Int /\ trades[o].price \in Int /\ trades[o].qty \in Int
      /\ Direction(o) \in Int
  BY TradeRows DEF Direction
<1>2. trades[c].price - trades[o].price \in Int
  BY <1>1
<1>3. (trades[c].price - trades[o].price) * trades[o].qty \in Int
  BY <1>1, <1>2
<1>4. (trades[c].price - trades[o].price) * trades[o].qty * Direction(o) \in Int
  BY <1>1, <1>3
<1>. QED BY <1>4 DEF Gain

LEMMA RawPnlType ==
  ASSUME BooksTyped, NEW legs, legs \subseteq DOMAIN trades
  PROVE  RawPnl(legs) \in Int
<1> DEFINE opens(c) == OpenLeg(legs, trades[c].deal)
           S == {i \in legs : trades[i].leg = "CLOSE"}
           gain(c) == [o \in opens(c) |->
                         (trades[c].price - trades[o].price) * trades[o].qty * Direction(o)]
           pnl == [c \in S |-> SumFunction(gain(c))]
<1>1. RawPnl(legs) = SumFunction(pnl)
  BY DEF RawPnl, Sum
<1>2. S \subseteq DOMAIN trades /\ IsFiniteSet(S)
  BY TradeRows, FS_Subset
<1>3. ASSUME NEW c \in S PROVE SumFunction(gain(c)) \in Int
  <2>1. opens(c) \subseteq DOMAIN trades
    BY DEF OpenLeg
  <2>2. \A o \in opens(c) : gain(c)[o] = Gain(c)[o] /\ Gain(c)[o] \in Int
    BY <1>2, <2>1, GainType DEF Gain
  <2>3. IsFiniteSet(opens(c)) /\ DOMAIN gain(c) = opens(c)
    BY <2>1, TradeRows, FS_Subset
  <2> HIDE DEF gain, opens
  <2>4. SumFunction(gain(c)) = SumOver(Gain(c), opens(c))
    BY <2>2, <2>3, SumOfRows
  <2>. QED BY <2>2, <2>3, <2>4, SumType
<1>4. DOMAIN pnl = S /\ \A c \in S : pnl[c] \in Int
  BY <1>3
<1> HIDE DEF pnl, S
<1>5. SumFunction(pnl) = SumOver(pnl, S)
  BY <1>2, <1>4, SumOfRows
<1>. QED BY <1>1, <1>2, <1>4, <1>5, SumType

LEMMA DashboardOrdered ==
  ASSUME BooksTyped, DashboardRead, {"charges", "legs"} \subseteq DOMAIN reader.got
  PROVE  LET answer == DashboardAnswer(reader.got.balance, reader.got.charges,
                                       RawPnl(reader.got.legs), FloatingPnl(reader.got.snapshot))
         IN  answer.netPnl >= answer.rawPnl - Sum(Fee, reader.got.legs)
<1> DEFINE b == reader.broker
           S == ChargedTo(b, reader.at.charges.trades)
           legs == TradesTo(b, reader.at.legs.trades)
           raw == RawPnl(legs)
<1>1. /\ reader.at.legs.trades \in 0 .. Len(trades)
      /\ reader.at.charges.trades \in 0 .. reader.at.legs.trades
      /\ reader.got.charges = SumOver(Fees, S)
      /\ reader.got.legs = legs
  BY DEF DashboardRead
<1>2. /\ Len(trades) \in Nat /\ DOMAIN trades = 1 .. Len(trades)
      /\ IsFiniteSet(DOMAIN trades)
      /\ \A i \in DOMAIN trades : Fees[i] \in Int /\ Fees[i] >= 0
  BY TradeRows
<1>3. legs \subseteq DOMAIN trades /\ S \subseteq legs
  BY <1>1, <1>2 DEF ChargedTo, TradesTo, Charged, Ids
<1>4. IsFiniteSet(legs) /\ IsFiniteSet(S)
  BY <1>2, <1>3, FS_Subset
<1> HIDE DEF S, legs
<1>5. \A i \in legs : Fees[i] \in Int /\ Fees[i] >= 0
  BY <1>2, <1>3
<1>6. SumOver(Fees, legs) >= SumOver(Fees, S)
  BY <1>3, <1>4, <1>5, SumAtLeast
<1>7. SumOver(Fees, legs) \in Int /\ SumOver(Fees, S) \in Int
  BY <1>3, <1>4, <1>5, SumType
<1>8. Sum(Fee, legs) = SumOver(Fees, legs)
  BY <1>3, FeeSum
<1>9. raw \in Int
  BY <1>3, RawPnlType
<1>10. DashboardAnswer(reader.got.balance, reader.got.charges, raw,
                       FloatingPnl(reader.got.snapshot)).netPnl = raw - SumOver(Fees, S)
  BY <1>1 DEF DashboardAnswer
<1>11. DashboardAnswer(reader.got.balance, reader.got.charges, raw,
                       FloatingPnl(reader.got.snapshot)).rawPnl = raw
  BY DEF DashboardAnswer
<1> HIDE DEF raw
<1>12. raw - SumOver(Fees, S) >= raw - SumOver(Fees, legs)
  BY <1>6, <1>7, <1>9
<1>. QED BY <1>1, <1>8, <1>10, <1>11, <1>12 DEF raw

(* A list with as many brokers as there are lists every broker. *)
LEMMA EveryBroker ==
  ASSUME Cardinality(RecentBrokers) = Len(Accounts)
  PROVE  RecentBrokers = Brokers /\ IsFiniteSet(Brokers)
<1>1. Len(Accounts) \in Nat /\ DOMAIN Accounts = 1 .. Len(Accounts)
  BY ReportsAssumption
<1>2. IsFiniteSet(1 .. Len(Accounts)) /\ Cardinality(1 .. Len(Accounts)) = Len(Accounts)
  <2> DEFINE n == Len(Accounts)
  <2>1. n \in Nat
    BY <1>1
  <2> HIDE DEF n
  <2>2. IsFiniteSet(1 .. n) /\ Cardinality(1 .. n) = n
    BY <2>1, FS_Interval
  <2>. QED BY <2>2 DEF n
<1>3. [k \in 1 .. Len(Accounts) |-> Accounts[k]] \in Surjection(1 .. Len(Accounts), Brokers)
  BY <1>1 DEF Surjection, Brokers
<1>4. IsFiniteSet(Brokers) /\ Cardinality(Brokers) <= Len(Accounts)
  BY <1>2, <1>3, FS_Surjection
<1>5. RecentBrokers \in SUBSET Brokers
  BY DEF RecentBrokers, Brokers
<1>6. Cardinality(RecentBrokers) <= Cardinality(Brokers) /\ Cardinality(Brokers) \in Nat
  BY <1>4, <1>5, FS_Subset, FS_CardinalityType
<1>7. Cardinality(RecentBrokers) = Cardinality(Brokers)
  BY <1>1, <1>4, <1>6
<1>. QED BY <1>4, <1>5, <1>7, FS_Subset

LEMMA RecentSum ==
  ASSUME IsFiniteSet(Brokers)
  PROVE  Sum(LAMBDA b : reader.got.recent[b], Brokers) = SumOver(reader.got.recent, Brokers)
<1>1. Sum(LAMBDA b : reader.got.recent[b], Brokers)
        = SumFunction([b \in Brokers |-> reader.got.recent[b]])
  BY DEF Sum
<1>. QED BY <1>1, SumOfRows

LEMMA ConsoleOrdered ==
  ASSUME BooksTyped, ConsoleRead,
         {"brokersCount", "totalBalance", "recent"} \subseteq DOMAIN reader.got,
         Cardinality(DOMAIN reader.got.recent) = reader.got.brokersCount
  PROVE  Sum(LAMBDA b : reader.got.recent[b], Brokers) - reader.got.totalBalance
           = Sum(LAMBDA i : entries[i].amount,
                 (reader.at.totalBalance.entries + 1)..reader.at.recent.entries)
<1> DEFINE early == reader.at.totalBalance.entries
           late == reader.at.recent.entries
           recent == reader.got.recent
           broker == [i \in 1 .. late |-> entries[i].broker]
<1>1. /\ reader.got.brokersCount = Len(Accounts)
      /\ late \in 0 .. Len(entries) /\ early \in 0 .. late
      /\ reader.got.totalBalance = SumOver(Amounts, 1 .. early)
      /\ recent = [b \in RecentBrokers |-> SumOver(Amounts, EntriesTo(b, late))]
  BY DEF ConsoleRead
<1>2. /\ Len(entries) \in Nat /\ DOMAIN entries = 1 .. Len(entries)
      /\ \A i \in DOMAIN entries : Amounts[i] \in Int /\ entries[i].broker \in Brokers
  BY EntryTableRows
<1>3. RecentBrokers = Brokers /\ IsFiniteSet(Brokers)
  <2>1. DOMAIN recent = RecentBrokers
    BY <1>1
  <2>. QED BY <1>1, <2>1, EveryBroker
<1>4. Sum(LAMBDA b : reader.got.recent[b], Brokers) = SumOver(recent, Brokers)
  BY <1>3, RecentSum
<1> HIDE DEF early, late, recent
<1>5. IsFiniteSet(1 .. late)
  BY <1>1, <1>2, FS_Interval
<1>6. \A i \in 1 .. late : i \in DOMAIN entries
  BY <1>1, <1>2
<1>7. SumOver(Amounts, 1 .. late) = SumOver(recent, Brokers)
  <2>1. \A i \in 1 .. late : Amounts[i] \in Int /\ broker[i] \in Brokers
    BY <1>2, <1>6
  <2> DEFINE S == 1 .. late
             group == [b \in Brokers |-> EntriesTo(b, late)]
  <2>2. ASSUME NEW b \in Brokers
        PROVE  /\ recent[b] = SumOver(Amounts, group[b])
               /\ \A i : i \in group[b] <=> i \in S /\ broker[i] = b
    <3>1. EntriesTo(b, late) = {i \in 1 .. late : broker[i] = b}
      BY <1>1, <1>2, <1>6 DEF EntriesTo, Ids
    <3>. QED BY <1>1, <1>3, <3>1
  <2>3. /\ IsFiniteSet(S) /\ \A i \in S : Amounts[i] \in Int
        /\ \A i \in S : broker[i] \in Brokers
    BY <1>5, <2>1
  <2> HIDE DEF broker, S, group
  <2>4. SumOver(Amounts, S) = SumOver(recent, Brokers)
    BY <1>3, <2>2, <2>3, SumGroups
  <2>. QED BY <2>4 DEF S
<1>8. SumOver(Amounts, 1 .. late) =
        SumOver(Amounts, 1 .. early) + SumOver(Amounts, (early + 1) .. late)
  <2>1. /\ 1 .. late = (1 .. early) \cup ((early + 1) .. late)
        /\ 1 .. early \subseteq 1 .. late /\ (early + 1) .. late \subseteq 1 .. late
        /\ (1 .. early) \cap ((early + 1) .. late) = {}
    BY <1>1, <1>2
  <2>2. \A i \in 1 .. late : Amounts[i] \in Int
    BY <1>2, <1>6
  <2> DEFINE S == 1 .. late
             T == 1 .. early
             R == (early + 1) .. late
  <2>3. /\ IsFiniteSet(S) /\ \A i \in S : Amounts[i] \in Int
        /\ S = T \cup R /\ T \subseteq S /\ R \subseteq S /\ T \cap R = {}
    BY <1>5, <2>1, <2>2
  <2> HIDE DEF S, T, R
  <2>4. SumOver(Amounts, T \cup R) = SumOver(Amounts, T) + SumOver(Amounts, R)
    BY <2>3, SumUnion
  <2>. QED BY <2>3, <2>4 DEF S, T, R
<1>9. Sum(LAMBDA i : entries[i].amount, (early + 1) .. late) = SumOver(Amounts, (early + 1) .. late)
  <2>1. (early + 1) .. late \subseteq DOMAIN entries
    BY <1>1, <1>2
  <2>. QED BY <2>1, AmountSum
<1>10. SumOver(Amounts, 1 .. early) \in Int /\ SumOver(Amounts, (early + 1) .. late) \in Int
  <2>1. IsFiniteSet(1 .. early) /\ IsFiniteSet((early + 1) .. late)
    BY <1>1, <1>2, FS_Interval
  <2>2. \A i \in 1 .. early : Amounts[i] \in Int
    BY <1>1, <1>2
  <2>3. \A i \in (early + 1) .. late : Amounts[i] \in Int
    BY <1>1, <1>2
  <2>. QED BY <2>1, <2>2, <2>3, SumType
<1>11. SumOver(recent, Brokers) - SumOver(Amounts, 1 .. early) = SumOver(Amounts, (early + 1) .. late)
  BY <1>7, <1>8, <1>10
<1>. QED BY <1>1, <1>4, <1>9, <1>11 DEF early, late

(* Whatever is filled, approved and booked while the queries of an answer  *)
(* run: the commissions that are listed never add up to more than their    *)
(* total, and a missing one was charged later or is beyond the LIMIT; the  *)
(* dashboard charges for no trade that its P&L does not know; and the      *)
(* console's balances differ from their total by what was booked between   *)
(* the two (broker-portal.controller.ts:220 and :379 and                   *)
(* operations.controller.ts:34 await one query after the other).           *)
THEOREM ReportsReadInOrder == PortalSpec => []AnswersOrdered
<1>1. PortalInit => QueryInv
  <2> SUFFICES ASSUME PortalInit PROVE QueryInv
    OBVIOUS
  <2>1. "op" \in DOMAIN reader /\ reader.op = None
    BY DEF PortalInit, NoReader
  <2>. QED BY <2>1, ScreensAssumption DEF QueryInv
<1>2. QueryInv /\ BooksTyped => AnswersOrdered
  <2> SUFFICES ASSUME QueryInv, BooksTyped, ~reader.more
               PROVE  AnswersOrdered
    BY DEF AnswersOrdered
  <2>1. ASSUME reader.op = "commissions"
        PROVE  CommissionsRead /\ {"items", "total"} \subseteq DOMAIN reader.got
    <3>1. reader.op \in DOMAIN Queries /\ CommissionsRead
      BY <2>1, QueryOrders DEF QueryInv
    <3>2. \A j \in 1 .. 2 : <<"items", "total">>[j] \in DOMAIN reader.got
      BY <2>1, <3>1, AllAsked, QueryOrders
    <3>3. <<"items", "total">>[1] = "items" /\ <<"items", "total">>[2] = "total"
      OBVIOUS
    <3>. QED BY <3>1, <3>2, <3>3
  <2>2. ASSUME reader.op = "dashboard"
        PROVE  DashboardRead /\ {"charges", "legs"} \subseteq DOMAIN reader.got
    <3> DEFINE order == <<"balance", "charges", "legs", "snapshot">>
    <3>1. reader.op \in DOMAIN Queries /\ DashboardRead
      BY <2>2, QueryOrders DEF QueryInv
    <3>2. \A j \in 1 .. 4 : order[j] \in DOMAIN reader.got
      BY <2>2, <3>1, AllAsked, QueryOrders
    <3>3. order[2] = "charges" /\ order[3] = "legs"
      OBVIOUS
    <3> HIDE DEF order
    <3>. QED BY <3>1, <3>2, <3>3
  <2>3. ASSUME reader.op = "console"
        PROVE  /\ ConsoleRead
               /\ {"brokersCount", "totalBalance", "recent"} \subseteq DOMAIN reader.got
    <3> DEFINE order ==
                 <<"brokersCount", "totalBalance", "totalPnl", "totalCommission", "recent">>
    <3>1. reader.op \in DOMAIN Queries /\ ConsoleRead
      BY <2>3, QueryOrders DEF QueryInv
    <3>2. \A j \in 1 .. 5 : order[j] \in DOMAIN reader.got
      BY <2>3, <3>1, AllAsked, QueryOrders
    <3>3. order[1] = "brokersCount" /\ order[2] = "totalBalance" /\ order[5] = "recent"
      OBVIOUS
    <3> HIDE DEF order
    <3>. QED BY <3>1, <3>2, <3>3
  <2>. QED BY <2>1, <2>2, <2>3, CommissionsOrdered, DashboardOrdered, ConsoleOrdered
           DEF AnswersOrdered
<1>3. PageTyped /\ BooksTyped /\ [PortalNext]_portalVars => BooksTyped'
  BY BooksStep
<1>4. WalletInv => PageTyped
  BY DEF WalletInv
<1>. QED BY <1>1, <1>2, <1>3, <1>4, BooksInit, WalletInit, WalletStep, QueryStep, PTL
         DEF PortalSpec

-----------------------------------------------------------------------------
(* The figures.  What each broker has is what was credited at the opening, *)
(* with what was approved and without what was charged.                    *)

Moves ==
  [i \in DOMAIN requests |-> IF requests[i].kind = "deposit" THEN requests[i].amount
                                                              ELSE -requests[i].amount]

Approved(b) == {i \in Ids(requests, b) : requests[i].status = "APPROVED"}

BalancesAddUp ==
  \A b \in Brokers :
    SumOver(Amounts, Ids(entries, b)) =
      Opening + SumOver(Moves, Approved(b)) - SumOver(Fees, Charged(b))

LEMMA RequestTableRows ==
  ASSUME PageTyped
  PROVE  /\ Len(requests) \in Nat /\ DOMAIN requests = 1 .. Len(requests)
         /\ IsFiniteSet(DOMAIN requests)
         /\ \A i \in DOMAIN requests :
              /\ requests[i] \in RequestRows
              /\ requests[i].broker = Home /\ requests[i].amount \in Nat
              /\ requests[i].status \in {"PENDING", "APPROVED", "REJECTED"}
              /\ Moves[i] \in Int
<1>1. Len(requests) \in Nat /\ DOMAIN requests = 1 .. Len(requests)
  BY DEF PageTyped
<1>2. \A i \in DOMAIN requests : requests[i] \in RequestRows
  BY DEF PageTyped
<1>3. IsFiniteSet(DOMAIN requests)
  BY <1>1, FS_Interval
<1>. QED BY <1>1, <1>2, <1>3 DEF RequestRows, Moves

LEMMA RequestsSteps ==
  ASSUME PageTyped, [PortalNext]_portalVars
  PROVE  \/ Fills /\ UNCHANGED <<requests, audits>>
         \/ \E i \in DOMAIN requests : Approve(i)
         \/ UNCHANGED <<trades, entries>> /\ \E i \in DOMAIN requests : Reject(i)
         \/ UNCHANGED <<trades, entries, audits>> /\ \E r \in RequestRows :
              r.status = "PENDING" /\ requests' = Append(requests, r)
         \/ UNCHANGED <<trades, entries, requests, audits>>
<1>1. CASE Fills
  BY <1>1 DEF Fills, Fill
<1>2. CASE Requesting
  <2>1. ASSUME NEW k \in Kinds, PostRequest(k)
        PROVE  UNCHANGED <<trades, entries, audits>> /\ \E r \in RequestRows :
                 r.status = "PENDING" /\ requests' = Append(requests, r)
    <3> DEFINE r == [broker |-> Home, kind |-> k, amount |-> Amount[k], status |-> "PENDING"]
    <3>1. r \in RequestRows /\ r.status = "PENDING"
      BY PortalAssumption DEF RequestRows
    <3>2. UNCHANGED <<trades, entries, audits>> /\ requests' = Append(requests, r)
      BY <2>1 DEF PostRequest
    <3> HIDE DEF r
    <3>. QED BY <3>1, <3>2
  <2>2. ASSUME NEW i \in DOMAIN requests, Reject(i) PROVE UNCHANGED <<trades, entries>>
    BY <2>2 DEF Reject
  <2>. QED BY <1>2, <2>1, <2>2 DEF Requesting
<1>3. CASE WalletPage
  <2>1. ASSUME NEW p \in DOMAIN posts, CreateRequest(p)
        PROVE  UNCHANGED <<trades, entries, audits>> /\ \E r \in RequestRows :
                 r.status = "PENDING" /\ requests' = Append(requests, r)
    <3> DEFINE r == [broker |-> Home, kind |-> posts[p].kind,
                     amount |-> Amount[posts[p].kind], status |-> "PENDING"]
    <3>1. posts[p].kind \in Kinds
      <4>1. posts[p] \in PostRows
        BY DEF PageTyped
      <4>. QED BY <4>1 DEF PostRows
    <3>2. r \in RequestRows /\ r.status = "PENDING"
      BY <3>1, PortalAssumption DEF RequestRows
    <3>3. UNCHANGED <<trades, entries, audits>> /\ requests' = Append(requests, r)
      BY <2>1 DEF CreateRequest
    <3> HIDE DEF r
    <3>. QED BY <3>2, <3>3
  <2>2. CASE ~\E p \in DOMAIN posts : CreateRequest(p)
    BY <1>3, <2>2 DEF WalletPage, Toggle, Submit, RefuseRequest, Succeed, Fail,
                      FetchRead, FetchReceive, FetchFail, FetchAgain, books
  <2>. QED BY <2>1, <2>2
<1>4. CASE Reading
  BY <1>4, ReadingSteps DEF books
<1>5. CASE Tables
  BY <1>5, TablesSteps DEF books
<1>6. CASE Feed
  BY <1>6 DEF Feed, ReceivePush, StoreSnapshot, PublishSnapshot, FailPush, ExpireSnapshot, books
<1>7. CASE UNCHANGED portalVars
  BY <1>7 DEF portalVars, books
<1>. QED BY <1>1, <1>2, <1>3, <1>4, <1>5, <1>6, <1>7 DEF PortalNext

(* One more entry. *)
LEMMA EntryAdded ==
  ASSUME BooksTyped, NEW e \in EntryRows, entries' = Append(entries, e), NEW b
  PROVE  SumOver(Amounts', Ids(entries', b)) =
           IF e.broker = b THEN SumOver(Amounts, Ids(entries, b)) + e.amount
                           ELSE SumOver(Amounts, Ids(entries, b))
<1> DEFINE n == Len(entries)
           S == Ids(entries, b)
<1>1. /\ n \in Nat /\ DOMAIN entries = 1 .. n /\ IsFiniteSet(DOMAIN entries)
      /\ \A i \in DOMAIN entries : Amounts[i] \in Int
  BY EntryTableRows
<1>2. /\ DOMAIN entries' = 1 .. n + 1 /\ entries'[n + 1] = e
      /\ \A i \in 1 .. n : entries'[i] = entries[i]
  BY <1>1 DEF BooksTyped
<1>3. e.amount \in Int
  BY DEF EntryRows
<1> HIDE DEF n
<1>4. IsFiniteSet(S) /\ S \subseteq 1 .. n /\ n + 1 \notin S
  BY <1>1, FS_Subset DEF Ids
<1>5. /\ \A i \in S : Amounts'[i] = Amounts[i] /\ Amounts[i] \in Int
      /\ Amounts'[n + 1] = e.amount
  BY <1>1, <1>2, <1>4 DEF Amounts
<1>6. SumOver(Amounts', S) = SumOver(Amounts, S)
  <2> HIDE DEF S
  <2>. QED BY <1>4, <1>5, SumSame
<1>7. Ids(entries', b) = IF e.broker = b THEN S \cup {n + 1} ELSE S
  <2>1. \A i : i \in 1 .. n + 1 <=> i \in 1 .. n \/ i = n + 1
    BY <1>1
  <2>. QED BY <1>1, <1>2, <2>1 DEF Ids
<1>8. SumOver(Amounts', S \cup {n + 1}) = SumOver(Amounts', S) + e.amount
  <2> DEFINE m == n + 1
             A == S \cup {m}
  <2>1. IsFiniteSet(A) /\ S \subseteq A /\ m \in A /\ m \notin S
    BY <1>4, FS_AddElement
  <2>2. /\ \A i \in A : Amounts'[i] \in Int
        /\ Amounts'[m] = e.amount
    BY <1>3, <1>5
  <2> HIDE DEF A, S, m
  <2>3. SumOver(Amounts', S \cup {m}) = SumOver(Amounts', S) + Amounts'[m]
    BY <2>1, <2>2, SumAdd
  <2>. QED BY <2>2, <2>3 DEF m
<1>. QED BY <1>6, <1>7, <1>8

(* One more trade. *)
LEMMA FeeAdded ==
  ASSUME BooksTyped, NEW l \in Legs, trades' = Append(trades, l), NEW b
  PROVE  SumOver(Fees', Charged(b)') =
           IF l.broker = b /\ l.fee > 0 THEN SumOver(Fees, Charged(b)) + l.fee
                                        ELSE SumOver(Fees, Charged(b))
<1> DEFINE n == Len(trades)
           S == Charged(b)
<1>1. /\ n \in Nat /\ DOMAIN trades = 1 .. n /\ IsFiniteSet(DOMAIN trades)
      /\ \A i \in DOMAIN trades : Fees[i] \in Int
  BY TradeRows
<1>2. /\ DOMAIN trades' = 1 .. n + 1 /\ trades'[n + 1] = l
      /\ \A i \in 1 .. n : trades'[i] = trades[i]
  BY <1>1 DEF BooksTyped
<1>3. l.fee \in Int
  BY PortalAssumption
<1> HIDE DEF n
<1>4. IsFiniteSet(S) /\ S \subseteq 1 .. n /\ n + 1 \notin S
  BY <1>1, FS_Subset DEF Charged, Ids
<1>5. /\ \A i \in S : Fees'[i] = Fees[i] /\ Fees[i] \in Int
      /\ Fees'[n + 1] = l.fee
  BY <1>1, <1>2, <1>4 DEF Fees
<1>6. SumOver(Fees', S) = SumOver(Fees, S)
  <2> HIDE DEF S
  <2>. QED BY <1>4, <1>5, SumSame
<1>7. Charged(b)' = IF l.broker = b /\ l.fee > 0 THEN S \cup {n + 1} ELSE S
  <2>1. \A i : i \in 1 .. n + 1 <=> i \in 1 .. n \/ i = n + 1
    BY <1>1
  <2>. QED BY <1>1, <1>2, <2>1 DEF Charged, Ids
<1>8. SumOver(Fees', S \cup {n + 1}) = SumOver(Fees', S) + l.fee
  <2> DEFINE m == n + 1
             A == S \cup {m}
  <2>1. IsFiniteSet(A) /\ S \subseteq A /\ m \in A /\ m \notin S
    BY <1>4, FS_AddElement
  <2>2. /\ \A i \in A : Fees'[i] \in Int
        /\ Fees'[m] = l.fee
    BY <1>3, <1>5
  <2> HIDE DEF A, S, m
  <2>3. SumOver(Fees', S \cup {m}) = SumOver(Fees', S) + Fees'[m]
    BY <2>1, <2>2, SumAdd
  <2>. QED BY <2>2, <2>3 DEF m
<1>. QED BY <1>6, <1>7, <1>8

(* One more approved request. *)
LEMMA MoveAdded ==
  ASSUME PageTyped, NEW i \in DOMAIN requests, requests[i].status = "PENDING",
         requests' = [requests EXCEPT ![i].status = "APPROVED"], NEW b
  PROVE  SumOver(Moves', Approved(b)') =
           IF requests[i].broker = b THEN SumOver(Moves, Approved(b)) + Moves[i]
                                     ELSE SumOver(Moves, Approved(b))
<1> DEFINE S == Approved(b)
<1>1. /\ IsFiniteSet(DOMAIN requests)
      /\ \A j \in DOMAIN requests : Moves[j] \in Int /\ requests[j] \in RequestRows
  BY RequestTableRows
<1>2. /\ DOMAIN requests' = DOMAIN requests
      /\ \A j \in DOMAIN requests : /\ requests'[j].broker = requests[j].broker
                                    /\ requests'[j].kind = requests[j].kind
                                    /\ requests'[j].amount = requests[j].amount
                                    /\ j # i => requests'[j].status = requests[j].status
      /\ requests'[i].status = "APPROVED"
  BY <1>1 DEF PageTyped, RequestRows
<1>3. Moves' = Moves
  BY <1>2 DEF Moves
<1>4. IsFiniteSet(S) /\ S \subseteq DOMAIN requests /\ i \notin S
  BY <1>1, FS_Subset DEF Approved, Ids
<1>5. Approved(b)' = IF requests[i].broker = b THEN S \cup {i} ELSE S
  BY <1>2 DEF Approved, Ids
<1> HIDE DEF S
<1>6. SumOver(Moves, S \cup {i}) = SumOver(Moves, S) + Moves[i]
  BY <1>1, <1>4, SumAdd
<1>. QED BY <1>3, <1>5, <1>6 DEF S

(* A request that is submitted or rejected moves nothing. *)
LEMMA MovesStay ==
  ASSUME PageTyped,
         \/ \E i \in DOMAIN requests :
              /\ requests[i].status = "PENDING"
              /\ requests' = [requests EXCEPT ![i].status = "REJECTED"]
         \/ \E r \in RequestRows : r.status = "PENDING" /\ requests' = Append(requests, r),
         NEW b
  PROVE  SumOver(Moves', Approved(b)') = SumOver(Moves, Approved(b))
<1>1. /\ Len(requests) \in Nat /\ DOMAIN requests = 1 .. Len(requests)
      /\ IsFiniteSet(DOMAIN requests)
      /\ \A j \in DOMAIN requests : requests[j] \in RequestRows
  BY RequestTableRows
<1>2. /\ Approved(b)' = Approved(b)
      /\ \A j \in Approved(b) : Moves'[j] = Moves[j]
  <2>1. ASSUME NEW i \in DOMAIN requests, requests[i].status = "PENDING",
               requests' = [requests EXCEPT ![i].status = "REJECTED"]
        PROVE  /\ Approved(b)' = Approved(b)
               /\ \A j \in Approved(b) : Moves'[j] = Moves[j]
    <3>1. /\ DOMAIN requests' = DOMAIN requests
          /\ \A j \in DOMAIN requests : /\ requests'[j].broker = requests[j].broker
                                        /\ requests'[j].kind = requests[j].kind
                                        /\ requests'[j].amount = requests[j].amount
                                        /\ j # i => requests'[j].status = requests[j].status
          /\ requests'[i].status = "REJECTED"
      BY <1>1, <2>1 DEF RequestRows
    <3>. QED BY <2>1, <3>1 DEF Approved, Ids, Moves
  <2>2. ASSUME NEW r \in RequestRows, r.status = "PENDING", requests' = Append(requests, r)
        PROVE  /\ Approved(b)' = Approved(b)
               /\ \A j \in Approved(b) : Moves'[j] = Moves[j]
    <3>0. requests \in Seq(RequestRows)
      BY DEF PageTyped
    <3>1. /\ DOMAIN requests' = 1 .. Len(requests) + 1 /\ requests'[Len(requests) + 1] = r
          /\ \A j \in DOMAIN requests : requests'[j] = requests[j]
      BY <2>2, <3>0
    <3>2. \A j : j \in 1 .. Len(requests) + 1 <=> j \in 1 .. Len(requests) \/ j = Len(requests) + 1
      BY <1>1
    <3>3. Approved(b)' = Approved(b)
      BY <1>1, <2>2, <3>1, <3>2 DEF Approved, Ids
    <3>. QED BY <1>1, <3>1, <3>2, <3>3 DEF Approved, Ids, Moves
  <2>. QED BY <2>1, <2>2
<1>3. IsFiniteSet(Approved(b))
  BY <1>1, FS_Subset DEF Approved, Ids
<1>. QED BY <1>2, <1>3, SumSame

LEMMA FiguresTyped ==
  ASSUME PageTyped, BooksTyped, NEW b
  PROVE  /\ SumOver(Amounts, Ids(entries, b)) \in Int
         /\ SumOver(Moves, Approved(b)) \in Int
         /\ SumOver(Fees, Charged(b)) \in Int
<1>1. IsFiniteSet(Ids(entries, b)) /\ \A i \in Ids(entries, b) : Amounts[i] \in Int
  BY EntryTableRows, FS_Subset DEF Ids
<1>2. IsFiniteSet(Approved(b)) /\ \A i \in Approved(b) : Moves[i] \in Int
  BY RequestTableRows, FS_Subset DEF Approved, Ids
<1>3. IsFiniteSet(Charged(b)) /\ \A i \in Charged(b) : Fees[i] \in Int
  BY TradeRows, FS_Subset DEF Charged, Ids
<1>. QED BY <1>1, <1>2, <1>3, SumType

LEMMA BalancesStep ==
  ASSUME PageTyped, BooksTyped, BalancesAddUp, [PortalNext]_portalVars
  PROVE  BalancesAddUp'
<1> SUFFICES ASSUME NEW b \in Brokers
             PROVE  SumOver(Amounts', Ids(entries', b)) =
                      Opening + SumOver(Moves', Approved(b)') - SumOver(Fees', Charged(b)')
  BY DEF BalancesAddUp, Brokers, Ids
<1> DEFINE balance == SumOver(Amounts, Ids(entries, b))
           moved == SumOver(Moves, Approved(b))
           charged == SumOver(Fees, Charged(b))
<1>0. /\ balance = Opening + moved - charged
      /\ balance \in Int /\ moved \in Int /\ charged \in Int /\ Opening \in Int
  BY FiguresTyped, ReportsAssumption DEF BalancesAddUp
<1>1. UNCHANGED requests => SumOver(Moves', Approved(b)') = moved
  BY DEF Moves, Approved, Ids
<1>2. UNCHANGED trades => SumOver(Fees', Charged(b)') = charged
  BY DEF Fees, Charged, Ids
<1>3. UNCHANGED entries => SumOver(Amounts', Ids(entries', b)) = balance
  BY DEF Amounts, Ids
<1> HIDE DEF balance, moved, charged
<1>4. ASSUME NEW l \in Legs, Fill(l), UNCHANGED requests
      PROVE  SumOver(Amounts', Ids(entries', b)) =
               Opening + SumOver(Moves', Approved(b)') - SumOver(Fees', Charged(b)')
  <2> DEFINE e == [broker |-> l.broker, amount |-> -l.fee, type |-> "CHARGE"]
  <2>1. l.broker \in Brokers /\ l.fee \in Int /\ -l.fee \in Int
    BY PortalAssumption
  <2>2. e \in EntryRows /\ e.broker = l.broker /\ e.amount = -l.fee
    BY <2>1 DEF EntryRows
  <2>3. /\ trades' = Append(trades, l)
        /\ entries' = IF l.fee > 0 THEN Append(entries, e) ELSE entries
    BY <1>4 DEF Fill
  <2>4. SumOver(Fees', Charged(b)') = IF l.broker = b /\ l.fee > 0 THEN charged + l.fee ELSE charged
    BY <2>3, FeeAdded DEF charged
  <2> HIDE DEF e
  <2>5. CASE l.fee > 0
    <3>1. SumOver(Amounts', Ids(entries', b)) = IF l.broker = b THEN balance + e.amount ELSE balance
      BY <2>2, <2>3, <2>5, EntryAdded DEF balance
    <3>. QED BY <1>0, <1>1, <1>4, <2>1, <2>2, <2>4, <2>5, <3>1
  <2>6. CASE ~(l.fee > 0)
    BY <1>0, <1>1, <1>3, <1>4, <2>3, <2>4, <2>6
  <2>. QED BY <2>5, <2>6
<1>5. ASSUME NEW i \in DOMAIN requests, Approve(i)
      PROVE  SumOver(Amounts', Ids(entries', b)) =
               Opening + SumOver(Moves', Approved(b)') - SumOver(Fees', Charged(b)')
  <2> DEFINE e == IF requests[i].kind = "withdrawal"
                  THEN [broker |-> requests[i].broker, amount |-> -requests[i].amount,
                        type |-> "WITHDRAWAL"]
                  ELSE [broker |-> requests[i].broker, amount |-> requests[i].amount,
                        type |-> "DEPOSIT"]
  <2>1. /\ requests[i].broker \in Brokers /\ requests[i].amount \in Int
        /\ -requests[i].amount \in Int /\ requests[i].kind \in Kinds
    BY RequestTableRows, PortalAssumption DEF RequestRows
  <2>2. e \in EntryRows /\ e.broker = requests[i].broker /\ e.amount = Moves[i]
    BY <2>1, PortalAssumption DEF EntryRows, Moves
  <2>3. /\ entries' = Append(entries, e) /\ trades' = trades
        /\ requests[i].status = "PENDING"
        /\ requests' = [requests EXCEPT ![i].status = "APPROVED"]
    BY <1>5 DEF Approve
  <2> HIDE DEF e
  <2>4. SumOver(Amounts', Ids(entries', b)) =
          IF e.broker = b THEN balance + e.amount ELSE balance
    BY <2>2, <2>3, EntryAdded DEF balance
  <2>5. SumOver(Moves', Approved(b)') = IF requests[i].broker = b THEN moved + Moves[i] ELSE moved
    BY <2>3, MoveAdded DEF moved
  <2>6. Moves[i] \in Int
    BY RequestTableRows
  <2>. QED BY <1>0, <1>2, <2>2, <2>3, <2>4, <2>5, <2>6
<1>6. ASSUME UNCHANGED <<trades, entries>>, NEW i \in DOMAIN requests, Reject(i)
      PROVE  SumOver(Amounts', Ids(entries', b)) =
               Opening + SumOver(Moves', Approved(b)') - SumOver(Fees', Charged(b)')
  <2>1. SumOver(Moves', Approved(b)') = moved
    BY <1>6, MovesStay DEF Reject, moved
  <2>. QED BY <1>0, <1>2, <1>3, <1>6, <2>1
<1>7. ASSUME UNCHANGED <<trades, entries>>, NEW r \in RequestRows, r.status = "PENDING",
             requests' = Append(requests, r)
      PROVE  SumOver(Amounts', Ids(entries', b)) =
               Opening + SumOver(Moves', Approved(b)') - SumOver(Fees', Charged(b)')
  <2>1. SumOver(Moves', Approved(b)') = moved
    BY <1>7, MovesStay DEF moved
  <2>. QED BY <1>0, <1>2, <1>3, <1>7, <2>1
<1>8. CASE UNCHANGED <<trades, entries, requests>>
  BY <1>0, <1>1, <1>2, <1>3, <1>8
<1>. QED BY <1>4, <1>5, <1>6, <1>7, <1>8, RequestsSteps DEF Fills

(* Each broker has one opening credit, and nothing else at first. *)
LEMMA BalancesInit == PortalInit => BalancesAddUp
<1> SUFFICES ASSUME PortalInit, NEW b \in Brokers
             PROVE  SumOver(Amounts, Ids(entries, b)) =
                      Opening + SumOver(Moves, Approved(b)) - SumOver(Fees, Charged(b))
  BY DEF BalancesAddUp
<1>1. PICK k \in DOMAIN Accounts : Accounts[k] = b
  BY DEF Brokers
<1>2. /\ DOMAIN entries = DOMAIN Accounts
      /\ \A j \in DOMAIN Accounts : entries[j].broker = Accounts[j] /\ entries[j].amount = Opening
  BY DEF PortalInit
<1>3. Ids(entries, b) = {k}
  BY <1>1, <1>2, ReportsAssumption DEF Ids
<1>4. Amounts[k] = Opening /\ Opening \in Int
  BY <1>2, ReportsAssumption DEF Amounts
<1>5. SumOver(Amounts, {k}) = Opening
  <2> DEFINE A == {k}
             T == {}
  <2>1. IsFiniteSet(A) /\ T \subseteq A /\ k \in A /\ k \notin T /\ \A i \in A : Amounts[i] \in Int
    BY <1>4, FS_Singleton
  <2>2. A = T \cup {k} /\ SumOver(Amounts, T) = 0
    BY SumEmpty
  <2> HIDE DEF A, T
  <2>3. SumOver(Amounts, T \cup {k}) = SumOver(Amounts, T) + Amounts[k]
    BY <2>1, SumAdd
  <2>4. SumOver(Amounts, A) = Opening
    BY <1>4, <2>2, <2>3
  <2>. QED BY <2>4 DEF A
<1>6. DOMAIN requests = {} /\ DOMAIN trades = {}
  BY DEF PortalInit
<1>7. Approved(b) = {} /\ Charged(b) = {}
  BY <1>6 DEF Approved, Charged, Ids
<1>8. SumOver(Moves, Approved(b)) = 0 /\ SumOver(Fees, Charged(b)) = 0
  BY <1>7, SumEmpty
<1>. QED BY <1>3, <1>4, <1>5, <1>8

(* A list as long as its table holds all of it. *)
LEMMA WholeList ==
  ASSUME NEW S, IsFiniteSet(S), S \subseteq Int, NEW n \in Nat,
         Len(Newest(S, n)) = Cardinality(S)
  PROVE  RowsIn(Newest(S, n)) = S
<1>1. RowsIn(Newest(S, n)) \in SUBSET S
  BY NewestRows
<1>2. Cardinality(RowsIn(Newest(S, n))) = Cardinality(S)
  BY NewestCount
<1>. QED BY <1>1, <1>2, FS_Subset

LEMMA CappedType ==
  ASSUME NEW n \in Nat
  PROVE  Capped(n) \in Nat
<1> DEFINE least == Max({n, 1})
<1>1. \E x \in {n, 1} : \A y \in {n, 1} : x >= y
  <2>1. n >= 1 \/ 1 >= n
    OBVIOUS
  <2>. QED BY <2>1
<1>2. least \in {n, 1}
  BY <1>1 DEF Max
<1>3. least \in Nat /\ ROW_CAP \in Nat
  BY <1>2, ReportsAssumption
<1> HIDE DEF least
<1>4. \E x \in {least, ROW_CAP} : \A y \in {least, ROW_CAP} : x <= y
  <2>1. least <= ROW_CAP \/ ROW_CAP <= least
    BY <1>3
  <2>. QED BY <1>3, <2>1
<1>5. Min({least, ROW_CAP}) \in {least, ROW_CAP}
  BY <1>4 DEF Min
<1>6. Min({least, ROW_CAP}) \in Nat
  BY <1>3, <1>5
<1>. QED BY <1>6 DEF Capped, least

(* Credits without debits are the sum of all amounts. *)
LEMMA NetOfEntries ==
  ASSUME BooksTyped, NEW rows, RowsIn(rows) \subseteq DOMAIN entries
  PROVE  TransactionsPage(rows).net = SumOver(Amounts, RowsIn(rows))
<1> DEFINE S == RowsIn(rows)
           C == {i \in S : entries[i].amount >= 0}
           D == {i \in S : entries[i].amount < 0}
           neg == [i \in D |-> -entries[i].amount]
<1>1. /\ IsFiniteSet(DOMAIN entries)
      /\ \A i \in DOMAIN entries : Amounts[i] = entries[i].amount /\ entries[i].amount \in Int
  BY EntryTableRows
<1>2. IsFiniteSet(S) /\ IsFiniteSet(C) /\ IsFiniteSet(D)
  BY <1>1, FS_Subset
<1>3. C \subseteq DOMAIN entries
  OBVIOUS
<1>4. TransactionsPage(rows).net = Sum(LAMBDA i : entries[i].amount, C) - SumFunction(neg)
  BY DEF TransactionsPage, Sum
<1>5. Sum(LAMBDA i : entries[i].amount, C) = SumOver(Amounts, C)
  <2> HIDE DEF C
  <2>. QED BY <1>3, AmountSum
<1>6. /\ DOMAIN neg = D
      /\ \A i \in D : neg[i] = -Amounts[i] /\ Amounts[i] \in Int
      /\ \A i \in S : Amounts[i] \in Int
  BY <1>1
<1>7. C \subseteq S /\ D \subseteq S /\ C \cap D = {} /\ C \cup D = S
  BY <1>1
<1> HIDE DEF S, C, D, neg
<1>8. SumFunction(neg) = SumOver(neg, D)
  BY <1>2, <1>6, SumFunctionIs
<1>9. SumOver(neg, D) = -SumOver(Amounts, D)
  BY <1>2, <1>6, SumNegated
<1>10. SumOver(Amounts, C \cup D) = SumOver(Amounts, C) + SumOver(Amounts, D)
  BY <1>2, <1>6, <1>7, SumUnion
<1>11. SumOver(Amounts, C) \in Int /\ SumOver(Amounts, D) \in Int
  BY <1>2, <1>6, <1>7, SumType
<1>12. TransactionsPage(rows).net = SumOver(Amounts, S)
  <2>1. TransactionsPage(rows).net = SumOver(Amounts, C) - (-SumOver(Amounts, D))
    BY <1>4, <1>5, <1>8, <1>9, Zenon
  <2>2. SumOver(Amounts, C) - (-SumOver(Amounts, D)) = SumOver(Amounts, C) + SumOver(Amounts, D)
    BY <1>11
  <2>3. SumOver(Amounts, C) + SumOver(Amounts, D) = SumOver(Amounts, S)
    BY <1>7, <1>10, Zenon
  <2>. QED BY <2>1, <2>2, <2>3, Zenon
<1>. QED BY <1>12 DEF S

(* Only charged trades have charges. *)
LEMMA ChargesOfTrades ==
  ASSUME BooksTyped, NEW b
  PROVE  Sum(Fee, Ids(trades, b)) = CommissionTotal(b)
<1> DEFINE S == Ids(trades, b)
           T == Charged(b)
<1>1. S \subseteq DOMAIN trades /\ T \subseteq S
  BY DEF Ids, Charged
<1>2. \A i \in S \ T : Fees[i] = 0
  BY <1>1, TradeRows DEF Charged
<1>3. IsFiniteSet(S) /\ \A i \in S : Fees[i] \in Int
  BY <1>1, TradeRows, FS_Subset
<1> HIDE DEF S, T
<1>4. Sum(Fee, S) = SumOver(Fees, S) /\ Sum(Fee, T) = SumOver(Fees, T)
  BY <1>1, FeeSum
<1>5. SumOver(Fees, S) = SumOver(Fees, T)
  BY <1>1, <1>2, <1>3, SumOfPart
<1>. QED BY <1>4, <1>5 DEF CommissionTotal, S, T

(* The trades of a broker without any filter. *)
LEMMA PlainTrades ==
  ASSUME NEW b, NEW n
  PROVE  FindTrades(TradeQuery(b, None, n)) = Newest(Ids(trades, b), n)
<1> DEFINE q == TradeQuery(b, None, n)
<1>1. /\ q.broker = b /\ q.symbol = None /\ q.side = None /\ q.from = None /\ q.to = None
      /\ q.cursor = None /\ q.limit = n
  BY DEF TradeQuery
<1> HIDE DEF q
<1>2. {i \in Ids(trades, q.broker) :
         /\ q.symbol \in {None, trades[i].symbol}
         /\ q.side \in {None, trades[i].side}
         /\ q.from = None \/ i >= q.from
         /\ q.to = None \/ i < q.to
         /\ q.cursor = None \/ i <= q.cursor} = Ids(trades, b)
  BY <1>1
<1>3. FindTrades(q) = Newest(Ids(trades, b), n)
  BY <1>1, <1>2 DEF FindTrades
<1>. QED BY <1>3 DEF q

LEMMA BrokerFigures ==
  ASSUME PageTyped, BooksTyped, BalancesAddUp, NEW b \in Brokers
  PROVE  BrokerFiguresAgree(b)
<1> DEFINE legs == Ids(trades, b)
           charged == Charged(b)
           booked == Ids(entries, b)
<1>1. /\ legs \subseteq DOMAIN trades /\ charged \subseteq DOMAIN trades
      /\ booked \subseteq DOMAIN entries
  BY DEF Ids, Charged
<1>2. /\ IsFiniteSet(DOMAIN trades) /\ DOMAIN trades \subseteq Int
      /\ IsFiniteSet(DOMAIN entries) /\ DOMAIN entries \subseteq Int
  BY TradeRows, EntryTableRows
<1>3. /\ IsFiniteSet(legs) /\ IsFiniteSet(charged) /\ IsFiniteSet(booked)
      /\ legs \subseteq Int /\ charged \subseteq Int /\ booked \subseteq Int
  BY <1>1, <1>2, FS_Subset
<1>4. Balance(b) = SumOver(Amounts, booked)
  BY <1>1, AmountSum DEF Balance
<1>5. CommissionTotal(b) = SumOver(Fees, charged)
  BY <1>1, FeeSum DEF CommissionTotal
<1>6. Balance(b) = Opening + Moved(b) - CommissionTotal(b)
  <2> DEFINE moves == [i \in Approved(b) |-> IF requests[i].kind = "deposit"
                                             THEN requests[i].amount ELSE -requests[i].amount]
  <2>1. Moved(b) = SumFunction(moves)
    BY DEF Moved, Sum, Approved
  <2>2. IsFiniteSet(Approved(b))
    BY RequestTableRows, FS_Subset DEF Approved, Ids
  <2>3. DOMAIN moves = Approved(b) /\ \A i \in Approved(b) : moves[i] = Moves[i]
    BY DEF Approved, Ids, Moves
  <2> HIDE DEF moves
  <2>4. Moved(b) = SumOver(Moves, Approved(b))
    BY <2>1, <2>2, <2>3, SumOfRows
  <2>. QED BY <1>4, <1>5, <2>4 DEF BalancesAddUp
<1>7. ASSUME Len(ListLedger(b, Limit.transactions)) = Cardinality(booked)
      PROVE  TransactionsPage(ListLedger(b, Limit.transactions)).net = Balance(b)
  <2> DEFINE n == Capped(Limit.transactions)
  <2>1. n \in Nat
    BY CappedType, ReportsAssumption
  <2>2. ListLedger(b, Limit.transactions) = Newest(booked, n)
    BY DEF ListLedger
  <2> HIDE DEF n, booked
  <2>3. RowsIn(Newest(booked, n)) = booked
    BY <1>3, <1>7, <2>1, <2>2, WholeList
  <2>. QED BY <1>1, <1>4, <2>2, <2>3, NetOfEntries
<1>8. ASSUME Len(CommissionItems(b)) = Cardinality(charged)
      PROVE  ChargesPage(CommissionItems(b)).total = CommissionTotal(b)
  <2> DEFINE n == Limit.commissions
  <2>1. n \in Nat
    BY ReportsAssumption
  <2>2. CommissionItems(b) = Newest(charged, n)
    BY DEF CommissionItems
  <2> HIDE DEF n
  <2>3. RowsIn(CommissionItems(b)) = charged
    <3> HIDE DEF charged
    <3>. QED BY <1>3, <1>8, <2>1, <2>2, WholeList
  <2>4. ChargesPage(CommissionItems(b)).total = Sum(Fee, RowsIn(CommissionItems(b)))
    BY DEF ChargesPage
  <2>5. Sum(Fee, charged) = CommissionTotal(b)
    BY DEF CommissionTotal
  <2>6. ChargesPage(CommissionItems(b)).total = Sum(Fee, charged)
    BY <2>3, <2>4
  <2>. QED BY <2>5, <2>6
<1>9. ASSUME Len(AllTrades(b)) = Cardinality(legs)
      PROVE  /\ RowsIn(AllTrades(b)) = legs
             /\ TradesPage(AllTrades(b)).charges = CommissionTotal(b)
  <2> DEFINE n == Limit.trades
  <2>1. n \in Nat
    BY ReportsAssumption
  <2>2. AllTrades(b) = Newest(legs, n)
    BY PlainTrades DEF AllTrades
  <2> HIDE DEF n
  <2>3. RowsIn(AllTrades(b)) = legs
    <3> HIDE DEF legs
    <3>. QED BY <1>3, <1>9, <2>1, <2>2, WholeList
  <2>4. TradesPage(AllTrades(b)).charges = Sum(Fee, RowsIn(AllTrades(b)))
    BY DEF TradesPage
  <2>5. Sum(Fee, legs) = CommissionTotal(b)
    BY ChargesOfTrades
  <2> HIDE DEF legs
  <2>6. Sum(Fee, RowsIn(AllTrades(b))) = CommissionTotal(b)
    BY <2>3, <2>5
  <2>. QED BY <2>3, <2>4, <2>6
<1>10. ASSUME Len(AllTrades(b)) = Cardinality(legs),
              DashboardPage(FindTrades(TradeQuery(b, None, Limit.dashboard))).count
                = Cardinality(legs)
       PROVE  DashboardPage(FindTrades(TradeQuery(b, None, Limit.dashboard))).volume
                = TradesPage(AllTrades(b)).volume
  <2> DEFINE n == Limit.dashboard
             rows == Newest(legs, n)
             volume(S) == SumFunction([i \in S |-> trades[i].qty])
  <2>1. n \in Nat
    BY ReportsAssumption
  <2>2. FindTrades(TradeQuery(b, None, Limit.dashboard)) = rows
    BY PlainTrades
  <2>3. DashboardPage(rows).count = Len(rows) /\ DashboardPage(rows).volume = volume(RowsIn(rows))
    BY DEF DashboardPage, Sum
  <2>4. TradesPage(AllTrades(b)).volume = volume(RowsIn(AllTrades(b)))
    BY DEF TradesPage, Sum
  <2>5. RowsIn(AllTrades(b)) = legs
    BY <1>9, <1>10
  <2>6. Len(rows) = Cardinality(legs)
    BY <1>10, <2>2, <2>3
  <2>7. RowsIn(rows) = legs
    <3> HIDE DEF legs, n
    <3>. QED BY <1>3, <2>1, <2>6, WholeList
  <2> HIDE DEF legs, rows, volume
  <2>. QED BY <2>2, <2>3, <2>4, <2>5, <2>7
<1>. QED BY <1>6, <1>7, <1>8, <1>9, <1>10 DEF BrokerFiguresAgree

-----------------------------------------------------------------------------
(* The console's figures are sums over the brokers. *)

LEMMA BrokersFinite == IsFiniteSet(Brokers)
<1> DEFINE n == Len(Accounts)
<1>1. n \in Nat /\ DOMAIN Accounts = 1 .. n
  BY ReportsAssumption
<1>2. Brokers = {Accounts[k] : k \in 1 .. n}
  BY <1>1 DEF Brokers
<1> HIDE DEF n
<1>3. IsFiniteSet(1 .. n)
  BY <1>1, FS_Interval
<1>4. [k \in 1 .. n |-> Accounts[k]] \in Surjection(1 .. n, Brokers)
  BY <1>2 DEF Surjection
<1>. QED BY <1>3, <1>4, FS_Surjection

LEMMA BalancesTotal ==
  ASSUME BooksTyped
  PROVE  TotalBalance = Sum(LAMBDA b : Roster[b], DOMAIN Roster) + Sum(Balance, ClosedBrokers)
<1> DEFINE S == DOMAIN entries
           p == [i \in S |-> entries[i].broker]
           group == [b \in Brokers |-> Ids(entries, b)]
           w == [b \in Brokers |-> Balance(b)]
           O == Brokers \ ClosedBrokers
           open == [b \in O |-> Roster[b]]
           closed == [b \in ClosedBrokers |-> Balance(b)]
<1>1. /\ IsFiniteSet(S) /\ \A i \in S : Amounts[i] \in Int /\ p[i] \in Brokers
      /\ IsFiniteSet(Brokers)
  BY EntryTableRows, BrokersFinite
<1>2. \A b \in Brokers : \A i : i \in group[b] <=> i \in S /\ p[i] = b
  BY DEF Ids
<1>3. \A b \in Brokers : w[b] = SumOver(Amounts, group[b]) /\ w[b] \in Int
  <2> SUFFICES ASSUME NEW b \in Brokers
               PROVE  Balance(b) = SumOver(Amounts, Ids(entries, b)) /\ Balance(b) \in Int
    OBVIOUS
  <2>1. Ids(entries, b) \subseteq S
    BY DEF Ids
  <2>2. Balance(b) = SumOver(Amounts, Ids(entries, b))
    BY <2>1, AmountSum DEF Balance
  <2>3. IsFiniteSet(Ids(entries, b)) /\ \A i \in Ids(entries, b) : Amounts[i] \in Int
    BY <1>1, <2>1, FS_Subset
  <2>. QED BY <2>2, <2>3, SumType
<1>4. TotalBalance = SumOver(Amounts, S)
  BY AmountSum DEF TotalBalance
<1>5. /\ Sum(LAMBDA b : Roster[b], DOMAIN Roster) = SumFunction(open)
      /\ Sum(Balance, ClosedBrokers) = SumFunction(closed)
  BY DEF Sum, Roster
<1>6. /\ O \subseteq Brokers /\ ClosedBrokers \subseteq Brokers
      /\ O \cap ClosedBrokers = {} /\ O \cup ClosedBrokers = Brokers
  BY ReportsAssumption DEF Brokers
<1>7. /\ DOMAIN open = O /\ \A b \in O : open[b] = w[b]
      /\ DOMAIN closed = ClosedBrokers /\ \A b \in ClosedBrokers : closed[b] = w[b]
  BY <1>6 DEF Roster
<1> HIDE DEF S, p, group, w, O, open, closed
<1>8. SumOver(Amounts, S) = SumOver(w, Brokers)
  BY <1>1, <1>2, <1>3, SumGroups
<1>9. IsFiniteSet(O) /\ IsFiniteSet(ClosedBrokers)
  BY <1>1, <1>6, FS_Subset
<1>10. SumOver(w, O \cup ClosedBrokers) = SumOver(w, O) + SumOver(w, ClosedBrokers)
  BY <1>1, <1>3, <1>6, SumUnion
<1>11. SumFunction(open) = SumOver(w, O) /\ SumFunction(closed) = SumOver(w, ClosedBrokers)
  BY <1>7, <1>9, SumOfRows
<1>12. SumOver(Amounts, S) = SumFunction(open) + SumFunction(closed)
  BY <1>6, <1>8, <1>10, <1>11
<1>. QED BY <1>4, <1>5, <1>12

LEMMA CommissionsTotal ==
  ASSUME BooksTyped
  PROVE  TotalCommission = Sum(CommissionTotal, Brokers)
<1> DEFINE S == DOMAIN trades
           p == [i \in S |-> trades[i].broker]
           group == [b \in Brokers |-> Ids(trades, b)]
           w == [b \in Brokers |-> CommissionTotal(b)]
<1>1. /\ IsFiniteSet(S) /\ \A i \in S : Fees[i] \in Int /\ p[i] \in Brokers
      /\ IsFiniteSet(Brokers)
  <2>1. \A i \in S : trades[i] \in Legs
    BY DEF BooksTyped
  <2>. QED BY <2>1, TradeRows, BrokersFinite, PortalAssumption
<1>2. \A b \in Brokers : \A i : i \in group[b] <=> i \in S /\ p[i] = b
  BY DEF Ids
<1>3. \A b \in Brokers : w[b] = SumOver(Fees, group[b])
  <2> SUFFICES ASSUME NEW b \in Brokers
               PROVE  CommissionTotal(b) = SumOver(Fees, Ids(trades, b))
    OBVIOUS
  <2>1. Ids(trades, b) \subseteq DOMAIN trades
    BY DEF Ids
  <2>. QED BY <2>1, FeeSum, ChargesOfTrades
<1>4. TotalCommission = SumOver(Fees, S)
  BY FeeSum DEF TotalCommission
<1>5. Sum(CommissionTotal, Brokers) = SumFunction(w) /\ DOMAIN w = Brokers
  BY DEF Sum
<1> HIDE DEF S, p, group, w
<1>6. SumOver(Fees, S) = SumOver(w, Brokers)
  BY <1>1, <1>2, <1>3, SumGroups
<1>7. SumFunction(w) = SumOver(w, Brokers)
  BY <1>1, <1>5, SumFunctionIs
<1>. QED BY <1>4, <1>5, <1>6, <1>7

(* Every trade is one of its instrument's. *)
LEMMA InstrumentsTotal ==
  ASSUME BooksTyped
  PROVE  Sum(LAMBDA s : Instruments[s].trades, DOMAIN Instruments) = TradesTotal
<1> DEFINE S == DOMAIN trades
           one == [i \in S |-> 1]
           p == [i \in S |-> trades[i].symbol]
           G == {trades[i].symbol : i \in S}
           Of(s) == {i \in S : trades[i].symbol = s}
           group == [s \in G |-> Of(s)]
           w == [s \in G |-> Instruments[s].trades]
<1>1. IsFiniteSet(S) /\ Len(trades) \in Nat /\ S = 1 .. Len(trades)
  BY TradeRows
<1>2. IsFiniteSet(G)
  <2>1. p \in Surjection(S, G)
    BY DEF Surjection
  <2> HIDE DEF p, S, G
  <2>. QED BY <1>1, <2>1, FS_Surjection
<1>3. \A i \in S : one[i] = 1 /\ one[i] \in Int /\ p[i] \in G
  OBVIOUS
<1>4. \A s \in G : \A i : i \in group[s] <=> i \in S /\ p[i] = s
  OBVIOUS
<1>5. \A s \in G : w[s] = SumOver(one, group[s])
  <2> SUFFICES ASSUME NEW s \in G PROVE Instruments[s].trades = SumOver(one, Of(s))
    OBVIOUS
  <2>1. Instruments[s].trades = Cardinality(Of(s))
    BY DEF Instruments
  <2>2. IsFiniteSet(Of(s)) /\ \A i \in Of(s) : one[i] = 1
    BY <1>1, FS_Subset
  <2> HIDE DEF Of, one
  <2>. QED BY <2>1, <2>2, SumOnes
<1>6. Sum(LAMBDA s : Instruments[s].trades, DOMAIN Instruments) = SumFunction(w) /\ DOMAIN w = G
  BY DEF Sum, Instruments
<1>7. Cardinality(S) = Len(trades)
  <2> DEFINE n == Len(trades)
  <2>1. n \in Nat /\ S = 1 .. n
    BY <1>1
  <2> HIDE DEF n, S
  <2>2. Cardinality(1 .. n) = n
    BY <2>1, FS_Interval
  <2>. QED BY <2>1, <2>2 DEF n
<1> HIDE DEF S, one, p, G, group, w
<1>8. SumOver(one, S) = SumOver(w, G)
  BY <1>1, <1>2, <1>3, <1>4, <1>5, SumGroups
<1>9. SumOver(one, S) = Cardinality(S)
  BY <1>1, <1>3, SumOnes
<1>10. SumFunction(w) = SumOver(w, G)
  BY <1>2, <1>6, SumFunctionIs
<1>. QED BY <1>6, <1>7, <1>8, <1>9, <1>10 DEF TradesTotal

(* A list of pending requests that is not full shows all of them. *)
LEMMA PendingTotal ==
  ASSUME PageTyped, Len(AdminDeposits("PENDING")) < Limit.deposits
  PROVE  DepositsPage(AdminDeposits("PENDING")).amount
           = Sum(LAMBDA i : requests[i].amount,
                 {i \in DOMAIN requests : requests[i].status = "PENDING"})
<1> DEFINE n == Limit.deposits
           S == {i \in DOMAIN requests : "PENDING" \in {None, requests[i].status}}
           rows == RowsIn(AdminDeposits("PENDING"))
<1>1. n \in Nat
  BY ReportsAssumption
<1>2. IsFiniteSet(S) /\ S \subseteq Int
  BY RequestTableRows, FS_Subset
<1>3. AdminDeposits("PENDING") = Newest(S, n)
  BY DEF AdminDeposits
<1>4. rows = S
  <2> HIDE DEF n, S
  <2>. QED BY <1>1, <1>2, <1>3, NewestRows DEF n
<1>5. {i \in rows : requests[i].status = "PENDING"}
        = {i \in DOMAIN requests : requests[i].status = "PENDING"}
  BY <1>4
<1>6. DepositsPage(AdminDeposits("PENDING")).amount
        = SumFunction([i \in {j \in rows : requests[j].status = "PENDING"} |-> requests[i].amount])
  BY DEF DepositsPage, Sum
<1>7. Sum(LAMBDA i : requests[i].amount,
          {i \in DOMAIN requests : requests[i].status = "PENDING"})
        = SumFunction([i \in {j \in DOMAIN requests : requests[j].status = "PENDING"} |->
                         requests[i].amount])
  BY DEF Sum
<1> HIDE DEF rows
<1>. QED BY <1>5, <1>6, <1>7

LEMMA ConsoleFigures ==
  ASSUME PageTyped, BooksTyped
  PROVE  ConsoleFiguresAgree
<1>1. TotalPnl = 0
  <2> DEFINE S == {i \in DOMAIN entries : entries[i].type = "TRADE"}
  <2>1. \A i \in DOMAIN entries : entries[i] \in EntryRows
    BY DEF BooksTyped
  <2>2. S = {} /\ S \subseteq DOMAIN entries
    BY <2>1 DEF EntryRows
  <2>3. TotalPnl = Sum(LAMBDA i : entries[i].amount, S)
    BY DEF TotalPnl
  <2> HIDE DEF S
  <2>4. TotalPnl = SumOver(Amounts, S)
    BY <2>2, <2>3, AmountSum
  <2>. QED BY <2>2, <2>4, SumEmpty
<1>. QED BY <1>1, BalancesTotal, CommissionsTotal, InstrumentsTotal, PendingTotal
         DEF ConsoleFiguresAgree

(* At every moment, whatever has been filled and approved: every balance   *)
(* is the opening credit with what was approved and without what was       *)
(* charged, the ledger, commissions, trades and dashboard pages show it    *)
(* alike whenever they show all rows, and the console's totals are sums    *)
(* over the brokers, the removed ones included (transactions/page.tsx:38,  *)
(* charges/page.tsx:35, trades/page.tsx:107-112,                           *)
(* broker-portal.controller.ts:379, operations.controller.ts:34).          *)
THEOREM FiguresAlwaysAgree == PortalSpec => []FiguresAgree
<1>1. PageTyped /\ BooksTyped /\ BalancesAddUp => FiguresAgree
  BY BrokerFigures, ConsoleFigures DEF FiguresAgree
<1>2. PageTyped /\ BooksTyped /\ [PortalNext]_portalVars => BooksTyped'
  BY BooksStep
<1>3. PageTyped /\ BooksTyped /\ BalancesAddUp /\ [PortalNext]_portalVars => BalancesAddUp'
  BY BalancesStep
<1>4. WalletInv => PageTyped
  BY DEF WalletInv
<1>. QED BY <1>1, <1>2, <1>3, <1>4, BooksInit, WalletInit, WalletStep, BalancesInit, PTL
         DEF PortalSpec

-----------------------------------------------------------------------------
(* The lists. *)

Verdict(action) == IF action = "deposit.approve" THEN "APPROVED" ELSE "REJECTED"

(* Each decision on a request is in the audit log, once, and nothing else. *)
DecisionsLogged ==
  /\ \A j \in DOMAIN audits :
       requests[audits[j].request].status = Verdict(audits[j].action)
  /\ \A j, k \in DOMAIN audits : audits[j].request = audits[k].request => j = k
  /\ \A i \in DOMAIN requests :
       requests[i].status # "PENDING" => \E j \in DOMAIN audits : audits[j].request = i

LogInv == AuditsTyped /\ DecisionsLogged

LEMMA DecisionsStep ==
  ASSUME PageTyped, LogInv, [PortalNext]_portalVars
  PROVE  DecisionsLogged'
<1>0. /\ audits \in Seq(AuditRows) /\ Len(audits) \in Nat /\ DOMAIN audits = 1 .. Len(audits)
      /\ \A j \in DOMAIN audits : audits[j].request \in DOMAIN requests
  BY DEF LogInv, AuditsTyped
<1>1. CASE UNCHANGED <<requests, audits>>
  BY <1>1 DEF LogInv, DecisionsLogged
<1>2. ASSUME NEW i \in DOMAIN requests, Approve(i) \/ Reject(i)
      PROVE  DecisionsLogged'
  <2>1. PICK a \in {"deposit.approve", "deposit.reject"} :
          /\ requests[i].status = "PENDING"
          /\ requests' = [requests EXCEPT ![i].status = Verdict(a)]
          /\ audits' = Append(audits, [action |-> a, request |-> i])
    <3>1. CASE Approve(i)
      <4>1. Verdict("deposit.approve") = "APPROVED"
        BY DEF Verdict
      <4>. QED BY <3>1, <4>1 DEF Approve
    <3>2. CASE Reject(i)
      <4>1. Verdict("deposit.reject") = "REJECTED"
        BY DEF Verdict
      <4>. QED BY <3>2, <4>1 DEF Reject
    <3>. QED BY <1>2, <3>1, <3>2
  <2> DEFINE r == [action |-> a, request |-> i]
             m == Len(audits) + 1
  <2>2. r.request = i /\ r.action = a /\ r \in AuditRows
    <3>1. i \in Nat
      BY RequestTableRows
    <3>. QED BY <3>1 DEF AuditRows
  <2>3. audits' = Append(audits, r)
    BY <2>1
  <2>4. /\ requests' \in [DOMAIN requests -> RequestRows]
        /\ DOMAIN requests' = DOMAIN requests
        /\ requests'[i].status = Verdict(a)
        /\ \A j \in DOMAIN requests : j # i => requests'[j].status = requests[j].status
    <3>1. \A j \in DOMAIN requests : requests[j] \in RequestRows
      BY RequestTableRows
    <3>2. Verdict(a) \in {"PENDING", "APPROVED", "REJECTED"}
      BY DEF Verdict
    <3>. QED BY <2>1, <3>1, <3>2 DEF PageTyped, RequestRows
  <2> HIDE DEF r
  <2>5. /\ DOMAIN audits' = 1 .. m /\ audits'[m] = r
        /\ \A j \in DOMAIN audits : audits'[j] = audits[j]
    BY <1>0, <2>2, <2>3
  <2>6. \A j : j \in 1 .. m <=> j \in DOMAIN audits \/ j = m
    BY <1>0
  <2>7. \A j \in DOMAIN audits : audits[j].request # i
    <3> SUFFICES ASSUME NEW j \in DOMAIN audits, audits[j].request = i PROVE FALSE
      OBVIOUS
    <3>1. requests[i].status = Verdict(audits[j].action)
      BY DEF LogInv, DecisionsLogged
    <3>. QED BY <2>1, <3>1 DEF Verdict
  <2> HIDE DEF m
  <2>8. \A j \in DOMAIN audits' : requests'[audits'[j].request].status = Verdict(audits'[j].action)
    BY <1>0, <2>2, <2>4, <2>5, <2>6, <2>7 DEF LogInv, DecisionsLogged
  <2>9. \A j, k \in DOMAIN audits' : audits'[j].request = audits'[k].request => j = k
    BY <2>2, <2>5, <2>6, <2>7 DEF LogInv, DecisionsLogged
  <2>10. ASSUME NEW n \in DOMAIN requests', requests'[n].status # "PENDING"
         PROVE  \E j \in DOMAIN audits' : audits'[j].request = n
    <3>1. CASE n = i
      BY <2>2, <2>5, <2>6, <3>1
    <3>2. CASE n # i
      BY <2>4, <2>5, <2>6, <2>10, <3>2 DEF LogInv, DecisionsLogged
    <3>. QED BY <3>1, <3>2
  <2>. QED BY <2>8, <2>9, <2>10 DEF DecisionsLogged
<1>3. ASSUME audits' = audits, NEW r \in RequestRows, r.status = "PENDING",
             requests' = Append(requests, r)
      PROVE  DecisionsLogged'
  <2>0. requests \in Seq(RequestRows)
    BY DEF PageTyped
  <2>1. /\ DOMAIN requests' = 1 .. Len(requests) + 1 /\ requests'[Len(requests) + 1] = r
        /\ \A j \in DOMAIN requests : requests'[j] = requests[j]
    BY <1>3, <2>0
  <2>2. \A j : j \in 1 .. Len(requests) + 1 <=> j \in DOMAIN requests \/ j = Len(requests) + 1
    BY RequestTableRows
  <2>. QED BY <1>0, <1>3, <2>1, <2>2 DEF LogInv, DecisionsLogged
<1>. QED BY <1>1, <1>2, <1>3, RequestsSteps

(* The newest rows of none are none, and of one it is that one. *)
LEMMA NewestOfNone ==
  ASSUME NEW n \in Nat
  PROVE  Newest({}, n) = <<>>
<1> DEFINE S == {}
<1>1. IsFiniteSet(S) /\ Cardinality(S) = 0 /\ S \subseteq Int
  BY FS_EmptySet
<1> HIDE DEF S
<1>2. Newest(S, n) \in Seq(S) /\ Len(Newest(S, n)) \in Nat /\ Len(Newest(S, n)) <= 0
  BY <1>1, NewestPlaces
<1>3. Newest(S, n) = <<>>
  BY <1>2
<1>. QED BY <1>3 DEF S

LEMMA NewestOfOne ==
  ASSUME NEW j \in Int, NEW n \in Nat \ {0}
  PROVE  Newest({j}, n) = <<j>>
<1> DEFINE S == {j}
<1>1. IsFiniteSet(S) /\ Cardinality(S) = 1 /\ S \subseteq Int
  BY FS_Singleton
<1>6. \A x \in S : x = j
  OBVIOUS
<1> HIDE DEF S
<1> DEFINE N == Newest(S, n)
<1>2. /\ N \in Seq(S) /\ Len(N) \in Nat /\ Len(N) <= 1
      /\ Len(N) < n => Len(N) = 1
      /\ \A k \in 1 .. Len(N) : N[k] \in S
  BY <1>1, NewestPlaces
<1> HIDE DEF N
<1>3. Len(N) = 1
  <2> DEFINE m == Len(N)
  <2>1. m \in Nat /\ m <= 1 /\ (m < n => m = 1)
    BY <1>2
  <2> HIDE DEF m
  <2>2. m = 1
    BY <2>1
  <2>. QED BY <2>2 DEF m
<1>4. N[1] = j
  BY <1>2, <1>3, <1>6
<1>5. N = <<j>>
  BY <1>2, <1>3, <1>4
<1>. QED BY <1>5 DEF N, S

LEMMA LogAgrees ==
  ASSUME PageTyped, LogInv
  PROVE  AuditLogAgrees
<1> DEFINE Q(i) == [action |-> None, resource |-> i, from |-> None, to |-> None,
                    limit |-> Limit.audit]
<1> SUFFICES ASSUME NEW i \in DOMAIN requests
             PROVE  BuildCsv(AuditLogs(Q(i))) =
                      CASE requests[i].status = "PENDING" -> <<>>
                        [] requests[i].status = "APPROVED" ->
                             <<[action |-> "deposit.approve", request |-> i]>>
                        [] OTHER -> <<[action |-> "deposit.reject", request |-> i]>>
  BY DEF AuditLogAgrees
<1> DEFINE found == {j \in DOMAIN audits : audits[j].request = i}
           n == Limit.audit
<1>0. n \in Nat \ {0} /\ n \in Nat
  BY ReportsAssumption
<1>1. i \in Int /\ i # None /\ requests[i].status \in {"PENDING", "APPROVED", "REJECTED"}
  BY RequestTableRows, ReportsAssumption
<1>2. /\ \A j \in DOMAIN audits : audits[j] \in AuditRows
      /\ DOMAIN audits \subseteq Int
  BY DEF LogInv, AuditsTyped
<1>3. AuditLogs(Q(i)) = Newest(found, n)
  <2> DEFINE q == Q(i)
  <2>1. /\ q.action = None /\ q.resource = i /\ q.from = None /\ q.to = None /\ q.limit = n
    OBVIOUS
  <2> HIDE DEF q, n
  <2>2. {j \in DOMAIN audits :
            /\ q.action \in {None, audits[j].action}
            /\ q.resource \in {None, audits[j].request}
            /\ q.from = None \/ j >= q.from
            /\ q.to = None \/ j < q.to} = found
    BY <1>1, <2>1
  <2>3. AuditLogs(q) = Newest(found, n)
    BY <2>1, <2>2 DEF AuditLogs
  <2>. QED BY <2>3 DEF q
<1> HIDE DEF n
<1>4. CASE requests[i].status = "PENDING"
  <2>1. found = {}
    BY <1>4 DEF LogInv, DecisionsLogged, Verdict
  <2>2. Newest(found, n) = <<>>
    BY <1>0, <2>1, NewestOfNone
  <2>3. BuildCsv(<<>>) = <<>>
    BY DEF BuildCsv
  <2>. QED BY <1>3, <1>4, <2>2, <2>3
<1>5. CASE requests[i].status # "PENDING"
  <2>1. PICK j \in DOMAIN audits : audits[j].request = i
    BY <1>5 DEF LogInv, DecisionsLogged
  <2>2. found = {j} /\ j \in Int
    BY <1>2, <2>1 DEF LogInv, DecisionsLogged
  <2>3. Newest(found, n) = <<j>>
    BY <1>0, <2>2, NewestOfOne
  <2>4. BuildCsv(<<j>>) = <<audits[j]>>
    BY DEF BuildCsv
  <2>5. /\ audits[j] = [action |-> audits[j].action, request |-> i]
        /\ audits[j].action \in {"deposit.approve", "deposit.reject"}
    BY <1>2, <2>1 DEF AuditRows
  <2>6. requests[i].status = Verdict(audits[j].action)
    BY <2>1 DEF LogInv, DecisionsLogged
  <2>7. CASE audits[j].action = "deposit.approve"
    <3>1. requests[i].status = "APPROVED"
      BY <2>6, <2>7 DEF Verdict
    <3>. QED BY <1>3, <2>3, <2>4, <2>5, <2>7, <3>1
  <2>8. CASE audits[j].action = "deposit.reject"
    <3>1. requests[i].status = "REJECTED"
      BY <2>6, <2>8 DEF Verdict
    <3>. QED BY <1>3, <2>3, <2>4, <2>5, <2>8, <3>1
  <2>. QED BY <2>5, <2>7, <2>8
<1>. QED BY <1>4, <1>5

(* A sequence whose rows are in their places is the newest rows. *)
LEMMA NewestIs ==
  ASSUME NEW S, IsFiniteSet(S), S \subseteq Int, NEW n \in Nat, NEW s \in Seq(S),
         Len(s) <= n, Len(s) <= Cardinality(S), Len(s) < n => Len(s) = Cardinality(S),
         \A k \in 1 .. Len(s) : Cardinality(Above(S, s[k])) = k - 1
  PROVE  s = Newest(S, n)
<1> DEFINE N == Newest(S, n)
           m == Len(s)
<1>1. /\ N \in Seq(S) /\ Len(N) \in Nat /\ Cardinality(S) \in Nat
      /\ Len(N) <= n /\ Len(N) <= Cardinality(S)
      /\ Len(N) < n => Len(N) = Cardinality(S)
      /\ \A k \in 1 .. Len(N) : N[k] \in S /\ Cardinality(Above(S, N[k])) = k - 1
  BY NewestPlaces, FS_CardinalityType
<1> HIDE DEF N
<1>2. m \in Nat /\ DOMAIN s = 1 .. m /\ \A k \in 1 .. m : s[k] \in S
  OBVIOUS
<1> HIDE DEF m
<1>3. Len(N) = m
  <2> DEFINE l == Len(N)
             c == Cardinality(S)
  <2>1. l \in Nat /\ c \in Nat /\ l <= n /\ l <= c /\ (l < n => l = c)
    BY <1>1
  <2>2. m <= n /\ m <= c /\ (m < n => m = c)
    BY DEF m
  <2> HIDE DEF l, c
  <2>3. l = m
    BY <1>2, <2>1, <2>2
  <2>. QED BY <2>3 DEF l
<1>4. \A k \in 1 .. m : s[k] = N[k]
  <2> SUFFICES ASSUME NEW k \in 1 .. m PROVE s[k] = N[k]
    OBVIOUS
  <2>1. s[k] \in S /\ N[k] \in S /\ Cardinality(Above(S, s[k])) = Cardinality(Above(S, N[k]))
    BY <1>1, <1>2, <1>3 DEF m
  <2>. QED BY <2>1, PlaceTells
<1>5. s = [k \in 1 .. m |-> s[k]] /\ N = [k \in 1 .. m |-> N[k]]
  BY <1>1, <1>2, <1>3
<1>6. s = N
  BY <1>4, <1>5
<1>. QED BY <1>6 DEF N

(* Newest rows that meet: what is above the line, then what is below it. *)
LEMMA NewestMeet ==
  ASSUME NEW S, IsFiniteSet(S), S \subseteq Int, NEW t \in Int,
         NEW n \in Nat, Cardinality(S) <= n
  PROVE  Newest({i \in S : i >= t}, n) \o Newest({i \in S : i < t}, n) = Newest(S, n)
<1> DEFINE L == {i \in S : i >= t}
           E == {i \in S : i < t}
           late == Newest(L, n)
           early == Newest(E, n)
           a == Cardinality(L)
           e == Cardinality(E)
<1>1. /\ L \in SUBSET S /\ E \in SUBSET S /\ L \cup E = S /\ L \cap E = {}
      /\ L \subseteq Int /\ E \subseteq Int
      /\ \A i \in L, j \in E : i > j
  <2>1. \A i \in S : (i >= t \/ i < t) /\ ~(i >= t /\ i < t)
    OBVIOUS
  <2>2. \A i \in L, j \in E : i > j
    OBVIOUS
  <2>. QED BY <2>1, <2>2
<1>2. IsFiniteSet(L) /\ IsFiniteSet(E)
  BY <1>1, FS_Subset
<1> HIDE DEF L, E
<1>3. /\ a \in Nat /\ e \in Nat /\ Cardinality(S) \in Nat /\ a <= n /\ e <= n
      /\ Cardinality(S) = a + e
  <2>1. /\ a \in Nat /\ e \in Nat /\ Cardinality(S) \in Nat
        /\ a <= Cardinality(S) /\ e <= Cardinality(S)
    BY <1>1, <1>2, FS_CardinalityType, FS_Subset
  <2>2. Cardinality(S) = a + e - Cardinality(L \cap E)
    BY <1>1, <1>2, FS_Union
  <2>3. Cardinality(L \cap E) = 0
    BY <1>1, FS_EmptySet
  <2>. QED BY <2>1, <2>2, <2>3
<1>4. /\ late \in Seq(L) /\ early \in Seq(E) /\ Len(late) = a /\ Len(early) = e
      /\ \A k \in 1 .. a : late[k] \in L /\ Cardinality(Above(L, late[k])) = k - 1
      /\ \A k \in 1 .. e : early[k] \in E /\ Cardinality(Above(E, early[k])) = k - 1
  <2>1. /\ late \in Seq(L) /\ Len(late) \in Nat /\ Len(late) <= a /\ Len(late) <= n
        /\ Len(late) < n => Len(late) = a
        /\ \A k \in 1 .. Len(late) : late[k] \in L /\ Cardinality(Above(L, late[k])) = k - 1
    BY <1>1, <1>2, NewestPlaces
  <2>2. /\ early \in Seq(E) /\ Len(early) \in Nat /\ Len(early) <= e /\ Len(early) <= n
        /\ Len(early) < n => Len(early) = e
        /\ \A k \in 1 .. Len(early) : early[k] \in E /\ Cardinality(Above(E, early[k])) = k - 1
    BY <1>1, <1>2, NewestPlaces
  <2> DEFINE x == Len(late)
             y == Len(early)
  <2>3. /\ x \in Nat /\ x <= a /\ x <= n /\ (x < n => x = a)
        /\ y \in Nat /\ y <= e /\ y <= n /\ (y < n => y = e)
    BY <2>1, <2>2
  <2> HIDE DEF x, y, a, e
  <2>4. x = a /\ y = e
    BY <1>3, <2>3
  <2>. QED BY <2>1, <2>2, <2>4 DEF x, y
<1> HIDE DEF late, early
<1> DEFINE s == late \o early
<1>5. late \in Seq(S) /\ early \in Seq(S)
  BY <1>1, <1>4
<1> HIDE DEF a, e
<1>6. /\ s \in Seq(S) /\ Len(s) = a + e
      /\ \A k \in 1 .. a + e : s[k] = IF k <= a THEN late[k] ELSE early[k - a]
  <2>1. /\ s \in Seq(S) /\ Len(s) = Len(late) + Len(early)
        /\ \A k \in 1 .. Len(late) + Len(early) :
             s[k] = IF k <= Len(late) THEN late[k] ELSE early[k - Len(late)]
    BY <1>5
  <2>. QED BY <1>4, <2>1
<1> HIDE DEF s
<1>7. ASSUME NEW i \in L
      PROVE  Above(S, i) = Above(L, i)
  <2>1. \A j \in S : j > i => j \in L
    <3> SUFFICES ASSUME NEW j \in E, j > i PROVE FALSE
      BY <1>1
    <3>. QED BY <1>1
  <2>. QED BY <1>1, <2>1 DEF Above
<1>8. ASSUME NEW i \in E
      PROVE  Cardinality(Above(S, i)) = a + Cardinality(Above(E, i))
  <2> DEFINE A == Above(E, i)
  <2>1. Above(S, i) = L \cup A /\ L \cap A = {}
    BY <1>1, <1>8 DEF Above
  <2>2. IsFiniteSet(A) /\ Cardinality(A) \in Nat
    BY <1>2, AboveFinite
  <2> HIDE DEF A
  <2>3. Cardinality(L \cup A) = a + Cardinality(A) - Cardinality(L \cap A)
    BY <1>2, <2>2, FS_Union DEF a
  <2>4. Cardinality(L \cap A) = 0
    BY <2>1, FS_EmptySet
  <2>5. a + Cardinality(A) - 0 = a + Cardinality(A)
    BY <1>3, <2>2
  <2>. QED BY <2>1, <2>3, <2>4, <2>5 DEF A
<1>9. ASSUME NEW k \in 1 .. Len(s)
      PROVE  Cardinality(Above(S, s[k])) = k - 1
  <2>0. k \in Int /\ k \in 1 .. a + e
    BY <1>3, <1>6
  <2>1. CASE k <= a
    <3>1. k \in 1 .. a /\ s[k] = late[k]
      BY <1>3, <1>6, <2>0, <2>1
    <3>. QED BY <1>4, <1>7, <3>1
  <2>2. CASE k > a
    <3>1. s[k] = early[k - a] /\ k - a \in 1 .. e
      BY <1>3, <1>6, <2>0, <2>2
    <3>2. early[k - a] \in E /\ Cardinality(Above(E, early[k - a])) = k - a - 1
      BY <1>4, <3>1
    <3>3. Cardinality(Above(S, s[k])) = a + (k - a - 1)
      BY <1>8, <3>1, <3>2
    <3>. QED BY <1>3, <2>0, <3>3
  <2>. QED BY <1>3, <2>0, <2>1, <2>2
<1>10. Len(s) = Cardinality(S)
  BY <1>3, <1>6
<1>11. s = Newest(S, n)
  <2> DEFINE l == Len(s)
  <2>1. l <= n /\ l <= Cardinality(S) /\ (l < n => l = Cardinality(S))
    <3> HIDE DEF l
    <3>. QED BY <1>3, <1>10 DEF l
  <2>. QED BY <1>6, <1>9, <2>1, NewestIs
<1>. QED BY <1>11 DEF s, late, early, L, E

LEMMA Windows ==
  ASSUME BooksTyped
  PROVE  WindowsMeet
<1> SUFFICES ASSUME NEW b \in Brokers, NEW t \in DOMAIN trades
             PROVE  FindTrades([TradeQuery(b, None, ROW_CAP + Len(trades)) EXCEPT !.from = t])
                      \o FindTrades([TradeQuery(b, None, ROW_CAP + Len(trades)) EXCEPT !.to = t])
                      = FindTrades(TradeQuery(b, None, ROW_CAP + Len(trades)))
  BY DEF WindowsMeet
<1> DEFINE n == ROW_CAP + Len(trades)
           S == Ids(trades, b)
           rest(q) == {i \in Ids(trades, q.broker) :
                         /\ q.symbol \in {None, trades[i].symbol}
                         /\ q.side \in {None, trades[i].side}
                         /\ q.from = None \/ i >= q.from
                         /\ q.to = None \/ i < q.to
                         /\ q.cursor = None \/ i <= q.cursor}
           late == [TradeQuery(b, None, n) EXCEPT !.from = t]
           early == [TradeQuery(b, None, n) EXCEPT !.to = t]
<1>1. /\ Len(trades) \in Nat /\ DOMAIN trades = 1 .. Len(trades) /\ IsFiniteSet(DOMAIN trades)
      /\ ROW_CAP \in Nat
  BY TradeRows, ReportsAssumption
<1>2. S \in SUBSET DOMAIN trades
  BY DEF Ids
<1>3. IsFiniteSet(S) /\ S \subseteq Int /\ t \in Int /\ t # None
  BY <1>1, <1>2, FS_Subset, ReportsAssumption
<1>4. n \in Nat /\ Cardinality(S) <= n
  <2> DEFINE m == Len(trades)
  <2>1. m \in Nat /\ DOMAIN trades = 1 .. m
    BY <1>1
  <2> HIDE DEF m
  <2>2. Cardinality(1 .. m) = m
    BY <2>1, FS_Interval
  <2> HIDE DEF S
  <2>3. Cardinality(S) <= m /\ Cardinality(S) \in Nat
    BY <1>1, <1>2, <1>3, <2>1, <2>2, FS_Subset, FS_CardinalityType
  <2>. QED BY <1>1, <2>1, <2>3 DEF m
<1>5. /\ late.broker = b /\ late.symbol = None /\ late.side = None /\ late.from = t
      /\ late.to = None /\ late.cursor = None /\ late.limit = n
      /\ early.broker = b /\ early.symbol = None /\ early.side = None /\ early.from = None
      /\ early.to = t /\ early.cursor = None /\ early.limit = n
  BY DEF TradeQuery
<1>6. FindTrades(late) = Newest(rest(late), n) /\ FindTrades(early) = Newest(rest(early), n)
  BY <1>5 DEF FindTrades
<1>7. FindTrades(TradeQuery(b, None, n)) = Newest(S, n)
  BY PlainTrades
<1> HIDE DEF late, early, n
<1>8. rest(late) = {i \in S : i >= t} /\ rest(early) = {i \in S : i < t}
  <2>1. rest(late) = {i \in S : i >= t}
    BY <1>3, <1>5
  <2>2. rest(early) = {i \in S : i < t}
    BY <1>3, <1>5
  <2>. QED BY <2>1, <2>2
<1> HIDE DEF S, rest
<1>9. FindTrades(late) \o FindTrades(early) = Newest(S, n)
  <2> DEFINE L == {i \in S : i >= t}
             E == {i \in S : i < t}
  <2>1. Newest(L, n) \o Newest(E, n) = Newest(S, n)
    BY <1>3, <1>4, NewestMeet
  <2>2. rest(late) = L /\ rest(early) = E
    BY <1>8
  <2> HIDE DEF L, E
  <2>. QED BY <1>6, <2>1, <2>2
<1>. QED BY <1>7, <1>9 DEF late, early, n

(* The first rows of a longer list are those of a shorter one. *)
LEMMA NewestPrefix ==
  ASSUME NEW S, IsFiniteSet(S), S \subseteq Int, NEW n \in Nat, NEW l \in Nat,
         NEW m \in Nat, m <= Len(Newest(S, n)), m <= Len(Newest(S, l))
  PROVE  /\ SubSeq(Newest(S, n), 1, m) = SubSeq(Newest(S, l), 1, m)
         /\ Len(SubSeq(Newest(S, n), 1, m)) = m
<1> DEFINE N == Newest(S, n)
           L == Newest(S, l)
<1>1. /\ N \in Seq(S) /\ Len(N) \in Nat
      /\ \A k \in 1 .. Len(N) : N[k] \in S /\ Cardinality(Above(S, N[k])) = k - 1
      /\ L \in Seq(S) /\ Len(L) \in Nat
      /\ \A k \in 1 .. Len(L) : L[k] \in S /\ Cardinality(Above(S, L[k])) = k - 1
  BY NewestPlaces
<1>2. m <= Len(N) /\ m <= Len(L)
  OBVIOUS
<1> HIDE DEF N, L
<1>3. \A k \in 1 .. m : N[k] = L[k]
  <2> SUFFICES ASSUME NEW k \in 1 .. m PROVE N[k] = L[k]
    OBVIOUS
  <2>1. k \in 1 .. Len(N) /\ k \in 1 .. Len(L)
    BY <1>1, <1>2
  <2>2. N[k] \in S /\ L[k] \in S /\ Cardinality(Above(S, N[k])) = Cardinality(Above(S, L[k]))
    BY <1>1, <2>1
  <2>. QED BY <2>2, PlaceTells
<1>4. SubSeq(N, 1, m) = [k \in 1 .. m |-> N[k]] /\ SubSeq(L, 1, m) = [k \in 1 .. m |-> L[k]]
  BY <1>1, <1>2
<1>5. SubSeq(N, 1, m) = SubSeq(L, 1, m) /\ Len(SubSeq(N, 1, m)) = m
  BY <1>3, <1>4
<1>. QED BY <1>5 DEF N, L

LEMMA RecentTrades ==
  ASSUME BooksTyped
  PROVE  RecentTradesAgree
<1> SUFFICES ASSUME NEW b \in Brokers, Len(AllTrades(b)) = Cardinality(Ids(trades, b))
             PROVE  LET recent == DashboardPage(FindTrades(TradeQuery(b, None, Limit.dashboard))).recent
                    IN  recent = SubSeq(AllTrades(b), 1, Len(recent))
  BY DEF RecentTradesAgree
<1> DEFINE S == Ids(trades, b)
           l == Limit.trades
           n == Limit.dashboard
           r == Limit.recentTrades
           N == Newest(S, n)
           m == Min({r, Len(N)})
           recent == SubSeq(N, 1, m)
<1>1. l \in Nat /\ n \in Nat /\ r \in Nat
  BY ReportsAssumption
<1>2. S \in SUBSET DOMAIN trades
  BY DEF Ids
<1>3. IsFiniteSet(S) /\ S \subseteq Int
  BY <1>2, TradeRows, FS_Subset
<1>4. /\ AllTrades(b) = Newest(S, l)
      /\ DashboardPage(FindTrades(TradeQuery(b, None, Limit.dashboard))).recent = recent
  BY PlainTrades DEF AllTrades, DashboardPage
<1>5. Len(Newest(S, l)) = Cardinality(S)
  BY <1>4
<1> HIDE DEF S, l, n, r
<1>6. Len(N) \in Nat /\ Len(N) <= Cardinality(S) /\ Cardinality(S) \in Nat
  BY <1>1, <1>3, NewestPlaces, FS_CardinalityType
<1> HIDE DEF N
<1>7. m \in Nat /\ m <= Len(N)
  <2> DEFINE c == Len(N)
  <2>1. c \in Nat
    BY <1>6
  <2> HIDE DEF c
  <2>2. \E x \in {r, c} : \A y \in {r, c} : x <= y
    <3>1. r <= c \/ c <= r
      BY <1>1, <2>1
    <3>. QED BY <1>1, <2>1, <3>1
  <2>3. Min({r, c}) \in {r, c} /\ \A y \in {r, c} : Min({r, c}) <= y
    BY <2>2 DEF Min
  <2>4. Min({r, c}) \in Nat /\ Min({r, c}) <= c
    BY <1>1, <2>1, <2>3
  <2>. QED BY <2>4 DEF c
<1> HIDE DEF m
<1>8. m <= Len(Newest(S, l))
  BY <1>5, <1>6, <1>7
<1>9. recent = SubSeq(Newest(S, l), 1, m) /\ Len(recent) = m
  BY <1>1, <1>3, <1>7, <1>8, NewestPrefix DEF N
<1> HIDE DEF recent
<1>. QED BY <1>4, <1>9

(* The dashboard shows the newest trades of the trades page, windows of    *)
(* the trades API that meet at a time lose no row and share none, and the  *)
(* audit log holds exactly one row of each request that was decided, and   *)
(* none of any other (dashboard/page.tsx:52, trades.repository.ts:48-90,   *)
(* audit-query.controller.ts, deposits-admin.controller.ts).               *)
THEOREM ListsAlwaysAgree == PortalSpec => []ListsAgree
<1>1. PageTyped /\ BooksTyped /\ LogInv => ListsAgree
  BY Windows, RecentTrades, LogAgrees DEF ListsAgree
<1>2. PageTyped /\ BooksTyped /\ [PortalNext]_portalVars => BooksTyped'
  BY BooksStep
<1>3. WalletInv /\ LogInv /\ [PortalNext]_portalVars => LogInv'
  BY AuditsStep, DecisionsStep DEF LogInv, WalletInv
<1>4. PortalInit => LogInv
  <2> SUFFICES ASSUME PortalInit PROVE LogInv
    OBVIOUS
  <2>1. audits = <<>> /\ requests = <<>>
    BY DEF PortalInit
  <2>2. audits \in Seq(AuditRows) /\ DOMAIN audits = {} /\ DOMAIN requests = {}
    BY <2>1
  <2>. QED BY <2>2 DEF LogInv, AuditsTyped, DecisionsLogged
<1>5. WalletInv => PageTyped
  BY DEF WalletInv
<1>. QED BY <1>1, <1>2, <1>3, <1>4, <1>5, BooksInit, WalletInit, WalletStep, PTL
         DEF PortalSpec

(* What the pages of the portal and of the console total (balances,        *)
(* charges, volumes, counts), and what they list, is one set of trades,    *)
(* entries and requests, whichever handler and whichever repository query  *)
(* it was read by.  Of realized P&L it says nothing.                       *)
THEOREM ReportsAlwaysAgree == PortalSpec => []ReportsAgree
<1>1. FiguresAgree /\ ListsAgree => ReportsAgree
  BY DEF ReportsAgree
<1>. QED BY <1>1, FiguresAlwaysAgree, ListsAlwaysAgree, PTL

-----------------------------------------------------------------------------
(* A table that is filtered. The place of a row in what is kept is one     *)
(* more than the number of places kept below its own.                      *)

Below(S, k) == {j \in S : j < k}

LEMMA BelowAbove ==
  ASSUME NEW S, IsFiniteSet(S), S \subseteq Int, NEW k \in S
  PROVE  /\ Cardinality(Below(S, k)) \in Nat
         /\ Cardinality(Below(S, k)) = Cardinality(S) - 1 - Cardinality(Above(S, k))
<1> DEFINE B == Below(S, k)
           A == Above(S, k)
<1>1. B \cup A = S \ {k} /\ B \cap A = {} /\ B \in SUBSET S /\ A \in SUBSET S
  <2>1. \A j \in S : j < k \/ j > k \/ j = k
    OBVIOUS
  <2>2. \A j \in S : ~(j < k /\ j > k) /\ ~(k < k) /\ ~(k > k)
    OBVIOUS
  <2>. QED BY <2>1, <2>2 DEF Below, Above
<1> HIDE DEF A, B
<1>2. IsFiniteSet(A) /\ IsFiniteSet(B)
  BY <1>1, FS_Subset
<1>3. /\ Cardinality(S) \in Nat /\ Cardinality(A) \in Nat /\ Cardinality(B) \in Nat
      /\ Cardinality(B \cap A) = 0
  BY <1>1, <1>2, FS_CardinalityType, FS_EmptySet
<1>4. Cardinality(S \ {k}) = Cardinality(S) - 1
  BY FS_RemoveElement
<1>5. Cardinality(B \cup A) = Cardinality(B) + Cardinality(A) - Cardinality(B \cap A)
  BY <1>2, FS_Union
<1>6. Cardinality(B) = Cardinality(S) - 1 - Cardinality(A)
  <2> DEFINE a == Cardinality(A)
             b == Cardinality(B)
             c == Cardinality(S)
  <2>1. c - 1 = b + a - 0
    BY <1>1, <1>3, <1>4, <1>5, Zenon
  <2>2. a \in Nat /\ b \in Nat /\ c \in Nat
    BY <1>3
  <2> HIDE DEF a, b, c
  <2>3. b = c - 1 - a
    BY <2>1, <2>2
  <2>. QED BY <2>3 DEF a, b, c
<1>. QED BY <1>3, <1>6 DEF A, B

KeptAt(rows, S, p) ==
  /\ p \in [1 .. Cardinality(S) -> S]
  /\ Keep(rows, S) = [n \in 1 .. Cardinality(S) |-> rows[p[n]]]
  /\ \A n \in 1 .. Cardinality(S) : Cardinality(Below(S, p[n])) = n - 1

LEMMA KeptPlaces ==
  ASSUME NEW S, IsFiniteSet(S), S \subseteq Int, NEW rows
  PROVE  \E p : KeptAt(rows, S, p)
<1> DEFINE c == Cardinality(S)
           p == [n \in 1 .. c |-> CHOOSE k \in S : Cardinality({j \in S : j < k}) = n - 1]
<1>1. c \in Nat
  BY FS_CardinalityType
<1>2. ASSUME NEW n \in 1 .. c
      PROVE  p[n] \in S /\ Cardinality(Below(S, p[n])) = n - 1
  <2>1. c + 1 - n \in 1 .. c
    <3> HIDE DEF c
    <3>. QED BY <1>1
  <2>2. PICK k \in S : Cardinality(Above(S, k)) = (c + 1 - n) - 1
    BY <2>1, PlaceTaken
  <2>3. Cardinality(Below(S, k)) = c - 1 - ((c + 1 - n) - 1)
    BY <2>2, BelowAbove
  <2> HIDE DEF c
  <2>4. c - 1 - ((c + 1 - n) - 1) = n - 1
    BY <1>1
  <2>5. \E i \in S : Cardinality({j \in S : j < i}) = n - 1
    BY <2>3, <2>4 DEF Below
  <2>6. p[n] = CHOOSE i \in S : Cardinality({j \in S : j < i}) = n - 1
    OBVIOUS
  <2>. QED BY <2>5, <2>6 DEF Below
<1>3. Keep(rows, S) = [n \in 1 .. c |-> rows[p[n]]]
  BY DEF Keep
<1>4. p \in [1 .. c -> S]
  <2>1. DOMAIN p = 1 .. c /\ p = [n \in 1 .. c |-> p[n]]
    OBVIOUS
  <2> HIDE DEF p, c
  <2>. QED BY <1>2, <2>1
<1> HIDE DEF p
<1>5. KeptAt(rows, S, p)
  BY <1>2, <1>3, <1>4 DEF KeptAt
<1>. QED BY <1>5

(* A function on the first numbers is a sequence. *)
LEMMA IsSequence ==
  ASSUME NEW f, NEW c \in Nat, DOMAIN f = 1 .. c, f = [k \in 1 .. c |-> f[k]]
  PROVE  Len(f) = c /\ f \in Seq({f[k] : k \in 1 .. c})
OBVIOUS

LEMMA WiderSeq ==
  ASSUME NEW R, NEW T, R \subseteq T, NEW s \in Seq(R)
  PROVE  s \in Seq(T)
OBVIOUS

(* What is kept is the rows at the places, each once if they are distinct. *)
LEMMA KeptRows ==
  ASSUME NEW S, IsFiniteSet(S), S \subseteq Int, NEW rows
  PROVE  /\ Len(Keep(rows, S)) = Cardinality(S)
         /\ DOMAIN Keep(rows, S) = 1 .. Cardinality(S)
         /\ Keep(rows, S) \in Seq(RowsIn(Keep(rows, S)))
         /\ RowsIn(Keep(rows, S)) = {rows[k] : k \in S}
         /\ (\A j, k \in S : rows[j] = rows[k] => j = k) =>
              \A j, k \in DOMAIN Keep(rows, S) : Keep(rows, S)[j] = Keep(rows, S)[k] => j = k
<1> DEFINE c == Cardinality(S)
           K == Keep(rows, S)
<1>1. PICK p \in [1 .. c -> S] :
        /\ K = [n \in 1 .. c |-> rows[p[n]]]
        /\ \A n \in 1 .. c : Cardinality(Below(S, p[n])) = n - 1
  <2>1. PICK p : KeptAt(rows, S, p)
    BY KeptPlaces
  <2>. QED BY <2>1, Zenon DEF KeptAt
<1>2. c \in Nat
  BY FS_CardinalityType
<1>3. ASSUME NEW k \in S PROVE \E n \in 1 .. c : p[n] = k
  <2> DEFINE b == Cardinality(Below(S, k))
             a == Cardinality(Above(S, k))
  <2>1. a \in Nat /\ b \in Nat /\ b = c - 1 - a
    BY AboveFinite, BelowAbove
  <2>2. b + 1 \in 1 .. c
    <3> HIDE DEF a, b, c
    <3>. QED BY <1>2, <2>1
  <2> DEFINE i == p[b + 1]
  <2>3. i \in S /\ Cardinality(Below(S, i)) = (b + 1) - 1
    <3> HIDE DEF b, c
    <3>. QED BY <1>1, <2>2
  <2>4. /\ Cardinality(Below(S, i)) = c - 1 - Cardinality(Above(S, i))
        /\ Cardinality(Above(S, i)) \in Nat
    BY <2>3, AboveFinite, BelowAbove
  <2>5. Cardinality(Above(S, i)) = a
    <3> DEFINE x == Cardinality(Above(S, i))
               y == Cardinality(Below(S, i))
    <3>1. x \in Nat /\ y = c - 1 - x /\ y = (b + 1) - 1
      BY <2>3, <2>4
    <3> HIDE DEF a, b, c, x, y
    <3>2. x = a
      BY <1>2, <2>1, <3>1
    <3>. QED BY <3>2 DEF x
  <2>6. i = k
    <3> HIDE DEF i
    <3>. QED BY <2>3, <2>5, PlaceTells
  <2> HIDE DEF b, c
  <2>. QED BY <2>2, <2>6
<1> HIDE DEF c
<1>4. DOMAIN K = 1 .. c /\ K = [n \in 1 .. c |-> K[n]] /\ \A n \in 1 .. c : K[n] = rows[p[n]]
  BY <1>1
<1> HIDE DEF K
<1>5. Len(K) = c /\ K \in Seq({K[k] : k \in 1 .. c})
  BY <1>2, <1>4, IsSequence
<1>6. RowsIn(K) = {K[k] : k \in 1 .. c}
  BY <1>4 DEF RowsIn
<1>7. RowsIn(K) = {rows[k] : k \in S}
  <2>1. \A n \in 1 .. c : K[n] \in {rows[k] : k \in S}
    BY <1>1, <1>4
  <2>2. \A k \in S : rows[k] \in RowsIn(K)
    BY <1>3, <1>4, <1>6
  <2>. QED BY <1>6, <2>1, <2>2
<1>8. ASSUME \A j, k \in S : rows[j] = rows[k] => j = k,
             NEW j \in 1 .. c, NEW k \in 1 .. c, K[j] = K[k]
      PROVE  j = k
  <2>1. p[j] = p[k]
    BY <1>1, <1>4, <1>8
  <2>2. j - 1 = k - 1
    BY <1>1, <2>1
  <2>. QED BY <1>2, <2>2
<1>. QED BY <1>4, <1>5, <1>6, <1>7, <1>8 DEF K, c

-----------------------------------------------------------------------------
(* A list that is paged. *)

LEMMA Division ==
  ASSUME NEW a \in Nat, NEW P \in Nat \ {0}
  PROVE  a \div P \in Nat /\ (a \div P) * P <= a /\ a < (a \div P) * P + P
OBVIOUS

LEMMA Larger ==
  ASSUME NEW x, NEW y, x \in Int, y \in Int
  PROVE  Max({x, y}) = IF x >= y THEN x ELSE y
<1>1. \E u \in {x, y} : \A w \in {x, y} : u >= w
  <2>1. x >= y \/ y >= x
    OBVIOUS
  <2>. QED BY <2>1
<1>2. Max({x, y}) \in {x, y} /\ \A w \in {x, y} : Max({x, y}) >= w
  BY <1>1 DEF Max
<1>. QED BY <1>2

LEMMA Smaller ==
  ASSUME NEW x, NEW y, x \in Int, y \in Int
  PROVE  Min({x, y}) = IF x <= y THEN x ELSE y
<1>1. \E u \in {x, y} : \A w \in {x, y} : u <= w
  <2>1. x <= y \/ y <= x
    OBVIOUS
  <2>. QED BY <2>1
<1>2. Min({x, y}) \in {x, y} /\ \A w \in {x, y} : Min({x, y}) <= w
  BY <1>1 DEF Min
<1>. QED BY <1>2

(* The last page is not empty, unless it is the only one. *)
LEMMA LastPage ==
  ASSUME NEW rows, Len(rows) \in Nat
  PROVE  /\ TotalPages(rows) \in Nat \ {0}
         /\ Len(rows) <= TotalPages(rows) * PAGE_SIZE
         /\ Len(rows) > 0 => (TotalPages(rows) - 1) * PAGE_SIZE < Len(rows)
         /\ Len(rows) = 0 => TotalPages(rows) = 1
<1> DEFINE L == Len(rows)
           P == PAGE_SIZE
           q == (L + P - 1) \div P
           T == TotalPages(rows)
<1>1. L \in Nat /\ P \in Nat \ {0}
  BY PagesAssumption
<1>2. T = Max({1, q})
  BY DEF TotalPages
<1> HIDE DEF L, P, T
<1>3. q \in Nat /\ q * P <= L + P - 1 /\ L + P - 1 < q * P + P
  <2> DEFINE a == L + P - 1
  <2>1. a \in Nat
    BY <1>1
  <2> HIDE DEF a
  <2>2. a \div P \in Nat /\ (a \div P) * P <= a /\ a < (a \div P) * P + P
    BY <1>1, <2>1, Division
  <2>. QED BY <2>2 DEF a
<1> HIDE DEF q
<1>4. T = IF 1 >= q THEN 1 ELSE q
  <2>1. 1 \in Int /\ q \in Int
    BY <1>3
  <2>2. Max({1, q}) = IF 1 >= q THEN 1 ELSE q
    BY <2>1, Larger, Zenon
  <2>. QED BY <1>2, <2>2, Zenon
<1>5. CASE q = 0
  <2>1. L = 0 /\ T = 1
    BY <1>1, <1>3, <1>4, <1>5
  <2>. QED BY <1>1, <2>1 DEF L, P, T
<1>6. CASE q > 0
  <2>1. T = q /\ (q - 1) * P = q * P - P
    BY <1>1, <1>3, <1>4, <1>6
  <2>2. L <= q * P /\ (q - 1) * P < L /\ q \in Nat \ {0}
    <3> DEFINE m == q * P
    <3>1. m \in Nat
      BY <1>1, <1>3
    <3>2. m <= L + P - 1 /\ L + P - 1 < m + P /\ (q - 1) * P = m - P
      BY <1>3, <2>1
    <3> DEFINE d == (q - 1) * P
    <3> HIDE DEF m, d
    <3>3. L <= m /\ m - P < L
      BY <1>1, <3>1, <3>2
    <3>. QED BY <1>3, <1>6, <3>2, <3>3 DEF m, d
  <2>3. L > 0
    <3>1. (q - 1) * P \in Nat
      BY <1>1, <1>3, <1>6
    <3>. QED BY <1>1, <2>2, <3>1
  <2>. QED BY <2>1, <2>2, <2>3 DEF L, P, T
<1>. QED BY <1>3, <1>5, <1>6

(* The places of the rows of page n, and the page of the row at place k. *)
Slots(n, L) == {k \in 1 .. L : (n - 1) * PAGE_SIZE < k /\ k <= n * PAGE_SIZE}

PageOf(k) == ((k - 1) \div PAGE_SIZE) + 1

LEMMA Times ==
  ASSUME NEW a \in Int, NEW b \in Int, NEW P \in Nat, a <= b
  PROVE  a * P <= b * P /\ a * P \in Int /\ b * P \in Int
OBVIOUS

(* Each place is on one page. *)
LEMMA OnePage ==
  ASSUME NEW rows, Len(rows) \in Nat, NEW k \in 1 .. Len(rows)
  PROVE  /\ PageOf(k) \in 1 .. TotalPages(rows)
         /\ \A n \in Int : k \in Slots(n, Len(rows)) <=> n = PageOf(k)
<1> DEFINE L == Len(rows)
           P == PAGE_SIZE
           T == TotalPages(rows)
           m == PageOf(k)
<1>1. /\ L \in Nat /\ P \in Nat \ {0} /\ k \in 1 .. L
      /\ T \in Nat \ {0} /\ L <= T * P
  BY PagesAssumption, LastPage
<1>2. m \in Int /\ m - 1 \in Nat /\ (m - 1) * P <= k - 1 /\ k - 1 < (m - 1) * P + P
  <2> DEFINE q == (k - 1) \div P
  <2>1. k - 1 \in Nat
    BY <1>1
  <2>2. q \in Nat /\ q * P <= k - 1 /\ k - 1 < q * P + P
    BY <1>1, <2>1, Division
  <2>3. m = q + 1
    BY DEF PageOf
  <2> HIDE DEF q, m, P
  <2>4. m \in Int /\ m - 1 = q
    BY <2>2, <2>3
  <2>. QED BY <2>2, <2>4
<1> HIDE DEF L, P, T, m
<1>3. m \in Nat \ {0} /\ (m - 1) * P < k /\ k <= m * P
  <2>1. m \in Nat \ {0} /\ m * P = (m - 1) * P + P
    <3>1. m \in Int /\ m - 1 \in Nat
      BY <1>2
    <3>. QED BY <1>1, <3>1
  <2> DEFINE u == (m - 1) * P
             w == m * P
  <2>2. u \in Nat /\ w = u + P /\ u <= k - 1 /\ k - 1 < u + P
    BY <1>1, <1>2, <2>1
  <2> HIDE DEF u, w
  <2>3. u < k /\ k <= w
    BY <1>1, <2>2
  <2>. QED BY <2>1, <2>3 DEF u, w
<1>4. m <= T
  <2> SUFFICES ASSUME T < m PROVE FALSE
    BY <1>1, <1>3
  <2>1. T <= m - 1 /\ m - 1 \in Int
    BY <1>1, <1>3
  <2>2. T * P <= (m - 1) * P /\ T * P \in Int /\ (m - 1) * P \in Int
    BY <1>1, <2>1, Times
  <2> DEFINE u == (m - 1) * P
             w == T * P
  <2>3. u \in Int /\ w \in Int /\ w <= u /\ u < k /\ L <= w
    BY <1>1, <1>3, <2>2
  <2> HIDE DEF u, w
  <2>. QED BY <1>1, <2>3
<1>5. ASSUME NEW n \in Int
      PROVE  (n - 1) * P < k /\ k <= n * P <=> n = m
  <2>1. ASSUME n < m, k <= n * P PROVE FALSE
    <3>1. n <= m - 1 /\ m - 1 \in Int
      BY <1>3, <2>1
    <3> DEFINE u == n * P
               w == (m - 1) * P
    <3>2. u <= w /\ u \in Int /\ w \in Int
      BY <1>1, <3>1, Times
    <3>3. w < k /\ k <= u
      BY <1>3, <2>1
    <3> HIDE DEF u, w
    <3>. QED BY <1>1, <3>2, <3>3
  <2>2. ASSUME m < n, (n - 1) * P < k PROVE FALSE
    <3>1. m <= n - 1 /\ n - 1 \in Int
      BY <1>3, <2>2
    <3> DEFINE u == m * P
               w == (n - 1) * P
    <3>2. u <= w /\ u \in Int /\ w \in Int
      BY <1>1, <1>3, <3>1, Times
    <3>3. k <= u /\ w < k
      BY <1>3, <2>2
    <3> HIDE DEF u, w
    <3>. QED BY <1>1, <3>2, <3>3
  <2>3. n < m \/ m < n \/ n = m
    BY <1>3
  <2>. QED BY <1>3, <2>1, <2>2, <2>3
<1>6. \A n \in Int : k \in Slots(n, L) <=> n = m
  BY <1>1, <1>5 DEF Slots, P
<1>7. m \in 1 .. T
  BY <1>1, <1>3, <1>4
<1>. QED BY <1>6, <1>7 DEF L, T, m

(* A page within the range shows the rows at its places. *)
LEMMA PageShows ==
  ASSUME NEW X, NEW rows \in Seq(X), NEW n \in 1 .. TotalPages(rows)
  PROVE  /\ CurrentPage(rows, n) = n
         /\ Len(Paginate(rows, n)) = Cardinality(Slots(n, Len(rows)))
         /\ RowsIn(Paginate(rows, n)) = {rows[k] : k \in Slots(n, Len(rows))}
         /\ (n - 1) * PAGE_SIZE <= Len(rows)
         /\ Len(rows) > 0 => (n - 1) * PAGE_SIZE < Len(rows)
<1> DEFINE L == Len(rows)
           P == PAGE_SIZE
           T == TotalPages(rows)
           u == (n - 1) * P
           w == n * P
           hi == Min({L, w})
           page == SubSeq(rows, u + 1, hi)
<1>1. /\ L \in Nat /\ P \in Nat \ {0} /\ T \in Nat \ {0} /\ n \in 1 .. T
      /\ L > 0 => (T - 1) * P < L
      /\ L = 0 => T = 1
  BY PagesAssumption, LastPage
<1>2. CurrentPage(rows, n) = n
  <2>1. n \in Int /\ T \in Int /\ n <= T
    BY <1>1
  <2>2. Min({n, T}) = IF n <= T THEN n ELSE T
    BY <2>1, Smaller, Zenon
  <2>. QED BY <2>1, <2>2 DEF CurrentPage
<1>3. Paginate(rows, n) = page
  BY <1>2, Zenon DEF Paginate
<1> HIDE DEF L, P, T, page
<1>4. u \in Nat /\ w \in Nat /\ w = u + P
  BY <1>1
<1>5. (L > 0 => u < L) /\ u <= L
  <2>1. CASE L > 0
    <3>1. n - 1 \in Int /\ T - 1 \in Int /\ n - 1 <= T - 1
      BY <1>1
    <3> DEFINE v == (T - 1) * P
    <3>2. u <= v /\ v \in Int /\ v < L
      BY <1>1, <2>1, <3>1, Times
    <3> HIDE DEF u, v
    <3>. QED BY <1>1, <1>4, <3>2
  <2>2. CASE L = 0
    <3>1. n - 1 = 0
      BY <1>1, <2>2
    <3>2. u = 0
      BY <1>1, <3>1
    <3> HIDE DEF u
    <3>. QED BY <2>2, <3>2
  <2>. QED BY <1>1, <2>1, <2>2
<1> HIDE DEF u, w
<1>6. hi \in Nat /\ hi <= L /\ hi <= w /\ u <= hi /\ (hi = L \/ hi = w)
  <2>1. L \in Int /\ w \in Int
    BY <1>1, <1>4
  <2>2. hi = IF L <= w THEN L ELSE w
    BY <2>1, Smaller, Zenon
  <2> HIDE DEF hi
  <2>. QED BY <1>1, <1>4, <1>5, <2>2
<1> HIDE DEF hi
<1>7. Slots(n, L) = (u + 1) .. hi
  <2>1. Slots(n, L) = {k \in 1 .. L : u < k /\ k <= w}
    BY Zenon DEF Slots, u, w, P
  <2>2. {k \in 1 .. L : u < k /\ k <= w} = (u + 1) .. hi
    BY <1>1, <1>4, <1>6
  <2>. QED BY <2>1, <2>2
<1>8. Cardinality((u + 1) .. hi) = hi - u
  <2>1. u + 1 \in Int /\ hi \in Int
    BY <1>4, <1>6
  <2>2. Cardinality((u + 1) .. hi) = IF u + 1 > hi THEN 0 ELSE hi - (u + 1) + 1
    BY <2>1, FS_Interval
  <2>. QED BY <1>4, <1>6, <2>2
<1>9. /\ Len(page) = hi - u /\ DOMAIN page = 1 .. (hi - u)
      /\ \A i \in 1 .. (hi - u) : page[i] = rows[u + i]
  <2> DEFINE lo == u + 1
  <2>1. lo \in Int /\ hi \in Int /\ (lo .. hi) \subseteq 1 .. L
    BY <1>1, <1>4, <1>6
  <2>2. \A i \in lo .. hi : rows[i] \in X
    BY <2>1 DEF L
  <2> HIDE DEF lo
  <2>3. /\ SubSeq(rows, lo, hi) \in Seq(X)
        /\ Len(SubSeq(rows, lo, hi)) = IF lo <= hi THEN hi - lo + 1 ELSE 0
        /\ \A i \in 1 .. hi - lo + 1 : SubSeq(rows, lo, hi)[i] = rows[lo + i - 1]
    BY <2>1, <2>2, SubSeqProperties
  <2>4. page = SubSeq(rows, lo, hi)
    BY DEF page, lo
  <2>5. page \in Seq(X)
    BY <2>3, <2>4
  <2>6. Len(page) = IF u + 1 <= hi THEN hi - (u + 1) + 1 ELSE 0
    BY <2>3, <2>4 DEF lo
  <2>7. Len(page) = hi - u
    BY <1>4, <1>6, <2>6
  <2>8. ASSUME NEW i \in 1 .. (hi - u) PROVE page[i] = rows[u + i]
    <3>1. i \in 1 .. hi - lo + 1 /\ lo + i - 1 = u + i
      BY <1>4, <1>6 DEF lo
    <3>2. page[i] = rows[lo + i - 1]
      BY <2>3, <2>4, <3>1
    <3>. QED BY <3>1, <3>2
  <2>. QED BY <2>5, <2>7, <2>8
<1>10. RowsIn(page) = {rows[k] : k \in (u + 1) .. hi}
  <2>1. ASSUME NEW i \in 1 .. (hi - u) PROVE u + i \in (u + 1) .. hi
    BY <1>4, <1>6
  <2>2. ASSUME NEW k \in (u + 1) .. hi PROVE k - u \in 1 .. (hi - u) /\ u + (k - u) = k
    BY <1>4, <1>6
  <2>3. \A k \in (u + 1) .. hi : page[k - u] = rows[k]
    BY <1>9, <2>2
  <2>. QED BY <1>9, <2>1, <2>2, <2>3 DEF RowsIn
<1>. QED BY <1>2, <1>3, <1>5, <1>7, <1>8, <1>9, <1>10 DEF L, u, P

(* The pages together are as long as the list. *)
LEMMA PagesTotal ==
  ASSUME NEW X, NEW rows \in Seq(X)
  PROVE  Sum(LAMBDA n : Len(Paginate(rows, n)), 1 .. TotalPages(rows)) = Len(rows)
<1> DEFINE L == Len(rows)
           S == 1 .. L
           G == 1 .. TotalPages(rows)
           one == [k \in S |-> 1]
           p == [k \in S |-> PageOf(k)]
           group == [n \in G |-> Slots(n, L)]
           w == [n \in G |-> Len(Paginate(rows, n))]
<1>1. L \in Nat /\ TotalPages(rows) \in Nat
  BY LastPage
<1>2. IsFiniteSet(S) /\ Cardinality(S) = L /\ IsFiniteSet(G)
  <2>1. ASSUME NEW c \in Nat PROVE IsFiniteSet(1 .. c) /\ Cardinality(1 .. c) = c
    BY FS_Interval
  <2> HIDE DEF L
  <2>. QED BY <1>1, <2>1
<1>3. \A k \in S : one[k] = 1 /\ one[k] \in Int /\ p[k] \in G
  BY <1>1, OnePage
<1>4. \A n \in G : \A k : k \in group[n] <=> k \in S /\ p[k] = n
  <2> SUFFICES ASSUME NEW n \in G, NEW k PROVE k \in Slots(n, L) <=> k \in S /\ PageOf(k) = n
    OBVIOUS
  <2>1. n \in Int
    BY <1>1
  <2>2. k \in S => (k \in Slots(n, L) <=> n = PageOf(k))
    BY <1>1, <2>1, OnePage
  <2>3. k \in Slots(n, L) => k \in S
    BY DEF Slots
  <2>. QED BY <2>2, <2>3
<1>5. \A n \in G : w[n] = SumOver(one, group[n])
  <2> SUFFICES ASSUME NEW n \in G PROVE Len(Paginate(rows, n)) = SumOver(one, Slots(n, L))
    OBVIOUS
  <2>1. Len(Paginate(rows, n)) = Cardinality(Slots(n, L))
    BY PageShows
  <2> DEFINE places == Slots(n, L)
  <2>2. places \in SUBSET S
    BY DEF Slots
  <2>3. IsFiniteSet(places) /\ \A k \in places : one[k] = 1
    BY <1>2, <2>2, FS_Subset
  <2> HIDE DEF places, one
  <2>4. SumOver(one, places) = Cardinality(places)
    BY <2>3, SumOnes
  <2>. QED BY <2>1, <2>4 DEF places
<1>6. Sum(LAMBDA n : Len(Paginate(rows, n)), G) = SumFunction(w) /\ DOMAIN w = G
  BY DEF Sum
<1> HIDE DEF S, G, one, p, group, w
<1>7. SumOver(one, S) = SumOver(w, G)
  BY <1>2, <1>3, <1>4, <1>5, SumGroups
<1>8. SumOver(one, S) = Cardinality(S)
  BY <1>2, <1>3, SumOnes
<1>9. SumFunction(w) = SumOver(w, G)
  BY <1>2, <1>6, SumFunctionIs
<1>. QED BY <1>2, <1>6, <1>7, <1>8, <1>9 DEF G, L

(* Whatever page is asked for, a list with rows has some on it. *)
LEMMA PageHasRows ==
  ASSUME NEW X, NEW rows \in Seq(X), rows # <<>>, NEW page \in Nat \ {0}
  PROVE  Paginate(rows, page) # <<>>
<1> DEFINE L == Len(rows)
           P == PAGE_SIZE
           T == TotalPages(rows)
           n == CurrentPage(rows, page)
           u == (n - 1) * P
<1>1. L \in Nat \ {0} /\ P \in Nat \ {0} /\ T \in Nat \ {0}
  BY PagesAssumption, LastPage
<1>2. n \in 1 .. T
  <2>1. page \in Int /\ T \in Int
    BY <1>1
  <2>2. n = IF page <= T THEN page ELSE T
    BY <2>1, Smaller, Zenon DEF CurrentPage
  <2> HIDE DEF n, T
  <2>. QED BY <1>1, <2>2
<1>3. /\ CurrentPage(rows, n) = n
      /\ RowsIn(Paginate(rows, n)) = {rows[k] : k \in Slots(n, L)}
      /\ u < L
  <2> HIDE DEF n
  <2>. QED BY <1>1, <1>2, PageShows
<1>4. Paginate(rows, page) = Paginate(rows, n)
  BY <1>3, Zenon DEF Paginate
<1> HIDE DEF L, P, T, n
<1>5. u \in Nat /\ n * P = u + P
  BY <1>1, <1>2
<1>6. u + 1 \in Slots(n, L)
  <2>1. u + 1 \in 1 .. L /\ u < u + 1 /\ u + 1 <= u + P
    <3> HIDE DEF u
    <3>. QED BY <1>1, <1>3, <1>5
  <2>. QED BY <1>5, <2>1 DEF Slots, P
<1>7. RowsIn(Paginate(rows, n)) # {}
  <2> HIDE DEF u
  <2>. QED BY <1>3, <1>6
<1>8. RowsIn(<<>>) = {}
  BY DEF RowsIn
<1>. QED BY <1>4, <1>7, <1>8

(* Rows that differ are on one page each. *)
Distinct(rows) == \A j, k \in DOMAIN rows : rows[j] = rows[k] => j = k

LEMMA RowOnOnePage ==
  ASSUME NEW X, NEW rows \in Seq(X), Distinct(rows), NEW k \in DOMAIN rows
  PROVE  \E n \in 1 .. TotalPages(rows) :
           /\ rows[k] \in RowsIn(Paginate(rows, n))
           /\ \A n2 \in 1 .. TotalPages(rows) \ {n} : rows[k] \notin RowsIn(Paginate(rows, n2))
<1> DEFINE L == Len(rows)
           G == 1 .. TotalPages(rows)
<1>1. L \in Nat /\ DOMAIN rows = 1 .. L /\ k \in 1 .. L
  OBVIOUS
<1>2. PageOf(k) \in G /\ \A n \in Int : k \in Slots(n, L) <=> n = PageOf(k)
  BY <1>1, OnePage
<1>3. G \subseteq Int
  OBVIOUS
<1>4. \A n \in G : RowsIn(Paginate(rows, n)) = {rows[j] : j \in Slots(n, L)}
  BY PageShows
<1>5. \A n \in Int : Slots(n, L) \subseteq 1 .. L
  BY DEF Slots
<1> HIDE DEF L, G
<1>6. rows[k] \in RowsIn(Paginate(rows, PageOf(k)))
  BY <1>2, <1>3, <1>4
<1>7. ASSUME NEW n \in G, rows[k] \in RowsIn(Paginate(rows, n)) PROVE n = PageOf(k)
  <2>1. PICK j \in Slots(n, L) : rows[k] = rows[j]
    BY <1>4, <1>7
  <2>2. j \in 1 .. L
    BY <1>3, <1>5, <2>1
  <2>3. j = k
    BY <1>1, <2>1, <2>2 DEF Distinct
  <2>. QED BY <1>2, <1>3, <2>1, <2>3
<1>. QED BY <1>2, <1>6, <1>7 DEF G

(* The rows that a page's fields leave. *)
LEMMA FilteredRows ==
  ASSUME NEW v, v.rows \in Seq(Nat), Distinct(v.rows)
  PROVE  /\ Filtered(v) \in Seq(Nat) /\ Distinct(Filtered(v))
         /\ RowsIn(Filtered(v)) = {i \in RowsIn(v.rows) : Selected(v, i)}
         /\ (\A i \in RowsIn(v.rows) : Selected(v, i)) => Len(Filtered(v)) = Len(v.rows)
<1> DEFINE rows == v.rows
           L == Len(rows)
           S == {k \in DOMAIN rows : Selected(v, rows[k])}
           K == Keep(rows, S)
<1>1. /\ L \in Nat /\ DOMAIN rows = 1 .. L
      /\ \A k \in 1 .. L : rows[k] \in Nat
  OBVIOUS
<1>2. S \in SUBSET (1 .. L) /\ \A k \in S : rows[k] \in Nat
  BY <1>1
<1>3. IsFiniteSet(1 .. L) /\ Cardinality(1 .. L) = L
  <2> HIDE DEF L
  <2>. QED BY <1>1, FS_Interval
<1>4. IsFiniteSet(S) /\ S \subseteq Int
  <2>1. (1 .. L) \subseteq Int
    OBVIOUS
  <2> HIDE DEF S, L
  <2>. QED BY <1>2, <1>3, <2>1, FS_Subset
<1>5. Filtered(v) = K
  BY DEF Filtered
<1>6. \A j, k \in S : rows[j] = rows[k] => j = k
  BY DEF Distinct
<1>7. RowsIn(rows) = {rows[k] : k \in DOMAIN rows}
  BY DEF RowsIn
<1>8. (\A i \in RowsIn(rows) : Selected(v, i)) => S = 1 .. L
  BY <1>1, <1>7
<1>9. {rows[k] : k \in S} = {i \in RowsIn(rows) : Selected(v, i)}
  BY <1>7
<1> HIDE DEF S
<1>10. /\ Len(K) = Cardinality(S)
       /\ K \in Seq(RowsIn(K))
       /\ RowsIn(K) = {rows[k] : k \in S}
       /\ (\A j, k \in S : rows[j] = rows[k] => j = k) =>
            \A j, k \in DOMAIN K : K[j] = K[k] => j = k
  <2> HIDE DEF rows, L
  <2>. QED BY <1>4, KeptRows
<1> HIDE DEF K
<1>11. K \in Seq(Nat)
  <2>1. RowsIn(K) \subseteq Nat
    BY <1>2, <1>10
  <2>2. K \in Seq(RowsIn(K))
    BY <1>10
  <2>. QED BY <2>1, <2>2, WiderSeq
<1>12. Distinct(K)
  BY <1>6, <1>10 DEF Distinct
<1>. QED BY <1>3, <1>5, <1>8, <1>9, <1>10, <1>11, <1>12

(* An export has a line for each row that is shown. *)
LEMMA ExportLength ==
  ASSUME NEW v, v.rows \in Seq(Nat), Distinct(v.rows), v.screen \in Screens,
         v.screen = "audit" => \A i \in RowsIn(v.rows) : Selected(v, i)
  PROVE  Len(Export(v)) = Len(Filtered(v))
<1> DEFINE F == Filtered(v)
           L == Len(F)
<1>1. F \in Seq(Nat) /\ (\A i \in RowsIn(v.rows) : Selected(v, i)) => L = Len(v.rows)
  BY FilteredRows
<1>2. F \in Seq(Nat)
  BY FilteredRows
<1> HIDE DEF F
<1>3. L \in Nat /\ DOMAIN F = 1 .. L
  BY <1>2
<1>4. ASSUME NEW f, f = [k \in DOMAIN F |-> f[k]] PROVE Len(f) = L
  <2>1. DOMAIN f = 1 .. L /\ f = [k \in 1 .. L |-> f[k]]
    BY <1>3, <1>4
  <2> HIDE DEF L
  <2>. QED BY <1>3, <2>1, IsSequence
<1>5. Len(TradesPdf(v)) = L
  <2>1. TradesPdf(v) = [k \in DOMAIN F |-> TradesPdf(v)[k]]
    BY DEF TradesPdf, F
  <2>. QED BY <1>4, <2>1
<1>6. Len(TransactionsPdf(v)) = L
  <2>1. TransactionsPdf(v) = [k \in DOMAIN F |-> TransactionsPdf(v)[k]]
    BY DEF TransactionsPdf, F
  <2>. QED BY <1>4, <2>1
<1>7. Len(WalletPdf(v)) = L
  <2>1. WalletPdf(v) = [k \in DOMAIN F |-> WalletPdf(v)[k]]
    BY DEF WalletPdf, F
  <2>. QED BY <1>4, <2>1
<1>8. v.screen = "audit" => Len(BuildCsv(v.rows)) = L
  <2> SUFFICES ASSUME v.screen = "audit" PROVE Len(BuildCsv(v.rows)) = L
    OBVIOUS
  <2> DEFINE m == Len(v.rows)
             f == BuildCsv(v.rows)
  <2>1. m \in Nat /\ DOMAIN v.rows = 1 .. m
    OBVIOUS
  <2>2. DOMAIN f = 1 .. m /\ f = [k \in 1 .. m |-> f[k]]
    BY <2>1 DEF BuildCsv
  <2> HIDE DEF f
  <2>3. m = L
    BY <1>1, <1>2
  <2> HIDE DEF m, L
  <2>4. Len(f) = m
    BY <2>1, <2>2, IsSequence
  <2>. QED BY <2>3, <2>4 DEF f
<1>9. ChargesPdf(v).lines = F
  BY DEF ChargesPdf, F
<1> HIDE DEF L
<1>10. Len(Export(v)) = L
  <2>1. CASE v.screen \in {"trades", "transactions", "requests", "audit", "charges"}
    BY <1>5, <1>6, <1>7, <1>8, <1>9, <2>1 DEF Export, L
  <2>2. CASE v.screen \notin {"trades", "transactions", "requests", "audit", "charges"}
    BY <2>2 DEF Export, L, F
  <2>. QED BY <2>1, <2>2
<1>. QED BY <1>10 DEF L, F

-----------------------------------------------------------------------------
(* What an open table holds: rows of one table, each once, and on the      *)
(* audit page none but those its fields ask for.                           *)

Found(f, i) ==
  /\ i \in DOMAIN audits
  /\ f.pick \subseteq {audits[i].action}
  /\ f.from = None \/ i >= f.from
  /\ f.to = None \/ i < f.to

TableInv ==
  view # NoView =>
    /\ view.rows \in Seq(Nat) /\ Distinct(view.rows)
    /\ view.from \in Nat \cup {None} /\ view.to \in Nat \cup {None}
    /\ view.screen = "audit" => \A i \in RowsIn(view.rows) : Found(view, i)

LEMMA NewestAnswer ==
  ASSUME NEW S, IsFiniteSet(S), S \subseteq Nat, NEW n \in Nat
  PROVE  Newest(S, n) \in Seq(Nat) /\ Distinct(Newest(S, n))
<1> DEFINE N == Newest(S, n)
<1>1. S \subseteq Int
  OBVIOUS
<1>2. N \in Seq(S) /\ Len(N) \in Nat
  BY <1>1, NewestPlaces
<1>3. \A j, k \in 1 .. Len(N) : j < k => N[j] > N[k]
  BY <1>1, NewestDescends
<1> HIDE DEF N
<1>4. N \in Seq(Nat)
  BY <1>2, WiderSeq
<1>5. DOMAIN N = 1 .. Len(N) /\ \A k \in DOMAIN N : N[k] \in Nat
  BY <1>4
<1>6. ASSUME NEW j \in DOMAIN N, NEW k \in DOMAIN N, j # k PROVE N[j] # N[k]
  <2>1. j < k \/ k < j
    BY <1>2, <1>5, <1>6
  <2>2. N[j] > N[k] \/ N[k] > N[j]
    BY <1>3, <1>5, <2>1
  <2>. QED BY <1>5, <2>2
<1>7. Distinct(N)
  BY <1>6 DEF Distinct
<1>. QED BY <1>4, <1>7 DEF N

LEMMA AuditAnswer ==
  ASSUME AuditsTyped, NEW f, f.pick \subseteq Offered("audit"), \A x, y \in f.pick : x = y
  PROVE  \A i \in RowsIn(Answer("audit", f)) : Found(f, i)
<1> DEFINE a == Only(f.pick)
           q == [action |-> a, resource |-> None, from |-> f.from, to |-> f.to,
                 limit |-> Limit.audit]
           S == {i \in DOMAIN audits :
                   /\ q.action \in {None, audits[i].action}
                   /\ q.resource \in {None, audits[i].request}
                   /\ q.from = None \/ i >= q.from
                   /\ q.to = None \/ i < q.to}
<1>1. Answer("audit", f) = Newest(S, Limit.audit)
  BY DEF Answer, AuditLogs
<1>2. /\ IsFiniteSet(S) /\ S \subseteq Int
  <2>1. Len(audits) \in Nat /\ DOMAIN audits = 1 .. Len(audits)
    BY DEF AuditsTyped
  <2>2. IsFiniteSet(DOMAIN audits) /\ DOMAIN audits \subseteq Int
    BY <2>1, FS_Interval
  <2>3. S \in SUBSET DOMAIN audits
    OBVIOUS
  <2> HIDE DEF S
  <2>. QED BY <2>2, <2>3, FS_Subset
<1>3. Limit.audit \in Nat
  BY ReportsAssumption
<1>4. \A i \in DOMAIN audits : a \in {None, audits[i].action} => f.pick \subseteq {audits[i].action}
  <2>1. CASE f.pick = {}
    BY <2>1
  <2>2. CASE f.pick # {}
    <3>1. PICK x : f.pick = {x}
      BY <2>2
    <3>2. x # None
      BY <3>1, FiltersAssumption DEF Offered
    <3>3. a = x
      BY <3>1 DEF Only
    <3>. QED BY <3>1, <3>2, <3>3
  <2>. QED BY <2>1, <2>2
<1>5. \A i \in S : /\ i \in DOMAIN audits /\ a \in {None, audits[i].action}
                   /\ f.from = None \/ i >= f.from
                   /\ f.to = None \/ i < f.to
  OBVIOUS
<1> HIDE DEF S, a
<1>6. RowsIn(Newest(S, Limit.audit)) \subseteq S
  BY <1>2, <1>3, NewestRows
<1>. QED BY <1>1, <1>4, <1>5, <1>6 DEF Found

LEMMA AnswerRows ==
  ASSUME BooksTyped, PageTyped, AuditsTyped, FeedTyped, NEW screen \in Screens, NEW f
  PROVE  Answer(screen, f) \in Seq(Nat) /\ Distinct(Answer(screen, f))
<1> DEFINE A == Answer(screen, f)
<1>0. ASSUME NEW X, NEW s \in Seq(X) PROVE IsFiniteSet(DOMAIN s) /\ DOMAIN s \subseteq Nat
  <2>1. Len(s) \in Nat /\ DOMAIN s = 1 .. Len(s)
    OBVIOUS
  <2>. QED BY <2>1, FS_Interval
<1>1. /\ IsFiniteSet(DOMAIN trades) /\ DOMAIN trades \subseteq Nat
      /\ IsFiniteSet(DOMAIN entries) /\ DOMAIN entries \subseteq Nat
      /\ IsFiniteSet(DOMAIN requests) /\ DOMAIN requests \subseteq Nat
      /\ IsFiniteSet(DOMAIN audits) /\ DOMAIN audits \subseteq Nat
  BY <1>0 DEF BooksTyped, PageTyped, AuditsTyped
<1>2. ASSUME NEW table, IsFiniteSet(table), table \subseteq Nat,
             NEW S \in SUBSET table, NEW n \in Nat, A = Newest(S, n)
      PROVE  A \in Seq(Nat) /\ Distinct(A)
  <2> HIDE DEF A
  <2>1. IsFiniteSet(S) /\ S \subseteq Nat
    BY <1>2, FS_Subset
  <2>. QED BY <1>2, <2>1, NewestAnswer
<1>3. /\ Limit.trades \in Nat /\ Limit.commissions \in Nat /\ Limit.requests \in Nat
      /\ Limit.deposits \in Nat /\ Limit.audit \in Nat /\ Limit.abook \in Nat
      /\ Capped(Limit.transactions) \in Nat /\ Capped(Limit.wallet) \in Nat
  <2>1. \A l \in {"trades", "commissions", "requests", "deposits", "audit", "abook",
                  "transactions", "wallet"} : Limit[l] \in Nat
    BY ReportsAssumption, PagesAssumption
  <2>. QED BY <2>1, CappedType
<1>4. CASE screen = "trades"
  <2>1. A = Newest(Ids(trades, Home), Limit.trades)
    BY <1>4, PlainTrades DEF Answer
  <2>2. Ids(trades, Home) \in SUBSET DOMAIN trades
    BY DEF Ids
  <2>. QED BY <1>1, <1>2, <1>3, <2>1, <2>2
<1>5. CASE screen = "charges"
  <2>1. A = Newest(Charged(Home), Limit.commissions)
    BY <1>5 DEF Answer, CommissionItems
  <2>2. Charged(Home) \in SUBSET DOMAIN trades
    BY DEF Charged, Ids
  <2>. QED BY <1>1, <1>2, <1>3, <2>1, <2>2
<1>6. CASE screen \in {"transactions", "wallet"}
  <2>1. PICK n \in Nat : A = Newest(Ids(entries, Home), n)
    BY <1>3, <1>6 DEF Answer, ListLedger
  <2>2. Ids(entries, Home) \in SUBSET DOMAIN entries
    BY DEF Ids
  <2>. QED BY <1>1, <1>2, <2>1, <2>2
<1>7. CASE screen = "requests"
  <2>1. A = Newest(Ids(requests, Home), Limit.requests)
    BY <1>7 DEF Answer, ListDepositRequests
  <2>2. Ids(requests, Home) \in SUBSET DOMAIN requests
    BY DEF Ids
  <2>. QED BY <1>1, <1>2, <1>3, <2>1, <2>2
<1>8. CASE screen = "positions"
  <2>1. PICK n \in Nat : A = [k \in 1 .. n |-> k]
    <3> DEFINE n == IF snapshot = None THEN 0 ELSE Positions[snapshot]
    <3>1. n \in Nat
      BY PagesAssumption DEF FeedTyped
    <3>2. A = [k \in 1 .. n |-> k]
      BY <1>8 DEF Answer
    <3> HIDE DEF n, A
    <3>. QED BY <3>1, <3>2
  <2>. QED BY <2>1 DEF Distinct
<1>9. CASE screen = "a-book"
  <2>1. A = Newest(DOMAIN trades, Limit.abook)
    BY <1>9 DEF Answer, ABookTrades
  <2>. QED BY <1>1, <1>2, <1>3, <2>1
<1>10. CASE screen = "deposits"
  <2> DEFINE S == {i \in DOMAIN requests : Only(f.pick) \in {None, requests[i].status}}
  <2>1. A = Newest(S, Limit.deposits)
    BY <1>10 DEF Answer, AdminDeposits
  <2>2. S \in SUBSET DOMAIN requests
    OBVIOUS
  <2> HIDE DEF S
  <2>. QED BY <1>1, <1>2, <1>3, <2>1, <2>2
<1>11. CASE screen = "audit"
  <2> DEFINE q == [action |-> Only(f.pick), resource |-> None, from |-> f.from, to |-> f.to,
                   limit |-> Limit.audit]
             S == {i \in DOMAIN audits :
                     /\ q.action \in {None, audits[i].action}
                     /\ q.resource \in {None, audits[i].request}
                     /\ q.from = None \/ i >= q.from
                     /\ q.to = None \/ i < q.to}
  <2>1. A = Newest(S, Limit.audit)
    BY <1>11 DEF Answer, AuditLogs
  <2>2. S \in SUBSET DOMAIN audits
    OBVIOUS
  <2> HIDE DEF S
  <2>. QED BY <1>1, <1>2, <1>3, <2>1, <2>2
<1>. QED BY <1>4, <1>5, <1>6, <1>7, <1>8, <1>9, <1>10, <1>11 DEF Screens

(* Audit rows stay as they are. *)
LEMMA AuditsGrow ==
  ASSUME PageTyped, AuditsTyped, [PortalNext]_portalVars
  PROVE  \A i \in DOMAIN audits : i \in DOMAIN audits' /\ audits'[i] = audits[i]
<1>1. audits \in Seq(AuditRows)
  BY DEF AuditsTyped
<1>2. ASSUME NEW r, audits' = Append(audits, r)
      PROVE  \A i \in DOMAIN audits : i \in DOMAIN audits' /\ audits'[i] = audits[i]
  BY <1>1, <1>2
<1>3. UNCHANGED audits \/ \E r : audits' = Append(audits, r)
  BY RequestsSteps DEF Approve, Reject
<1>. QED BY <1>2, <1>3

LEMMA TableStep ==
  ASSUME BooksTyped, PageTyped, AuditsTyped, FeedTyped, ViewTyped, TableInv,
         [PortalNext]_portalVars
  PROVE  TableInv'
<1>2. view.screen \in Screens => view # NoView
  BY ScreensAssumption DEF NoView
<1>3. view # NoView =>
        /\ DOMAIN view = ViewFields
        /\ view.rows \in Seq(Nat) /\ Distinct(view.rows)
        /\ view.from \in Nat \cup {None} /\ view.to \in Nat \cup {None}
        /\ view.screen = "audit" => \A i \in RowsIn(view.rows) : Found(view, i)
  BY DEF ViewTyped, TableInv
<1>4. CASE UNCHANGED view
  <2>1. \A i : Found(view, i) => Found(view, i)'
    BY <1>4, AuditsGrow DEF Found
  <2>. QED BY <1>3, <1>4, <2>1 DEF TableInv, Distinct, RowsIn
<1>5. ASSUME Tables PROVE UNCHANGED books
  BY <1>5, TablesSteps
<1>6. ASSUME NEW screen \in Screens, Open(screen) PROVE TableInv'
  <2> DEFINE A == Answer(screen, NoFilter)
  <2>1. view' = [screen |-> screen, rows |-> A, from |-> None, to |-> None,
                 pick |-> {}, page |-> 1]
    BY <1>6 DEF Open
  <2>2. A \in Seq(Nat) /\ Distinct(A)
    BY AnswerRows
  <2>3. NoFilter.pick = {} /\ NoFilter.from = None /\ NoFilter.to = None
    BY DEF NoFilter
  <2>4. screen = "audit" => \A i \in RowsIn(A) : Found(NoFilter, i)
    <3> SUFFICES ASSUME screen = "audit" PROVE \A i \in RowsIn(A) : Found(NoFilter, i)
      OBVIOUS
    <3>1. NoFilter.pick \subseteq Offered("audit") /\ \A x, y \in NoFilter.pick : x = y
      BY <2>3
    <3>2. \A i \in RowsIn(Answer("audit", NoFilter)) : Found(NoFilter, i)
      BY <3>1, AuditAnswer
    <3>3. A = Answer("audit", NoFilter)
      OBVIOUS
    <3> HIDE DEF A
    <3>. QED BY <3>2, <3>3
  <2>5. /\ view'.rows = A /\ view'.from = None /\ view'.to = None /\ view'.pick = {}
        /\ view'.screen = screen
    BY <2>1
  <2>6. \A i : Found(NoFilter, i) => Found(view, i)'
    BY <1>6, <2>3, <2>5 DEF Found, Open, books
  <2> HIDE DEF A
  <2>7. view'.screen = "audit" => \A i \in RowsIn(view'.rows) : Found(view, i)'
    BY <2>4, <2>5, <2>6
  <2>. QED BY <2>2, <2>5, <2>7 DEF TableInv, Distinct, RowsIn, Found
(* The fields change, or the page, but not what is shown. *)
<1>7. ASSUME UNCHANGED <<books, view.rows>>, view # NoView, view'.screen # "audit",
             view'.from \in Nat \cup {None}, view'.to \in Nat \cup {None}
      PROVE  TableInv'
  BY <1>3, <1>7 DEF TableInv, Distinct, RowsIn
(* The page, but neither fields nor what is shown. *)
<1>8. ASSUME UNCHANGED <<books, view.rows, view.screen, view.from, view.to, view.pick>>,
             view # NoView
      PROVE  TableInv'
  <2>1. \A i : Found(view, i) => Found(view, i)'
    BY <1>8 DEF Found, books
  <2>. QED BY <1>3, <1>8, <2>1 DEF TableInv, Distinct, RowsIn
(* Rows of a new answer. *)
<1>9. ASSUME UNCHANGED <<books, view.screen>>, view # NoView, NEW A, view'.rows = A,
             A \in Seq(Nat), Distinct(A),
             view'.from \in Nat \cup {None}, view'.to \in Nat \cup {None},
             view.screen = "audit" => \A i \in RowsIn(A) : Found(view, i)'
      PROVE  TableInv'
  BY <1>9 DEF TableInv, Distinct, RowsIn
<1>10. ASSUME NEW f \in Filters, SetFilter(f) PROVE TableInv'
  <2>1. view # NoView /\ UNCHANGED books
    BY <1>10 DEF SetFilter, NoView
  <2>2. view' = [view EXCEPT !.from = f.from, !.to = f.to, !.pick = f.pick, !.page = 1]
    BY <1>10 DEF SetFilter
  <2>3. view'.from = f.from /\ view'.to = f.to /\ UNCHANGED <<view.rows, view.screen>>
    BY <1>3, <2>1, <2>2 DEF ViewFields
  <2>4. view.screen # "audit"
    BY <1>10 DEF SetFilter
  <2>. QED BY <1>7, <2>1, <2>3, <2>4, FiltersAssumption
<1>11. CASE ClearDates
  <2>1. view # NoView /\ UNCHANGED books /\ view.screen # "audit"
    BY <1>2, <1>11 DEF ClearDates, Screens
  <2>2. view' = [view EXCEPT !.from = None, !.to = None]
    BY <1>11 DEF ClearDates
  <2>3. view'.from = None /\ view'.to = None /\ UNCHANGED <<view.rows, view.screen>>
    BY <1>3, <2>1, <2>2 DEF ViewFields
  <2>. QED BY <1>7, <2>1, <2>3
<1>12. ASSUME NextPage \/ PrevPage PROVE TableInv'
  <2>1. view # NoView /\ UNCHANGED books
    BY <1>2, <1>12 DEF NextPage, PrevPage, Paged, Screens
  <2>2. PICK n : view' = [view EXCEPT !.page = n]
    BY <1>12 DEF NextPage, PrevPage
  <2>3. UNCHANGED <<view.rows, view.screen, view.from, view.to, view.pick>>
    BY <1>3, <2>1, <2>2 DEF ViewFields
  <2>. QED BY <1>8, <2>1, <2>3
<1>13. CASE Refetch
  <2> DEFINE A == Answer(view.screen, view)
  <2>1. view # NoView /\ UNCHANGED books /\ view.screen # "audit" /\ view.screen \in Screens
    BY <1>2, <1>13 DEF Refetch, Screens
  <2>2. view' = [view EXCEPT !.rows = A]
    BY <1>13 DEF Refetch
  <2>3. A \in Seq(Nat) /\ Distinct(A)
    BY <2>1, AnswerRows
  <2> HIDE DEF A
  <2>4. view'.rows = A /\ UNCHANGED <<view.screen, view.from, view.to>>
    BY <1>3, <2>1, <2>2 DEF ViewFields
  <2>. QED BY <1>3, <1>9, <2>1, <2>3, <2>4
<1>14. ASSUME NEW f \in Filters, Requery(f) PROVE TableInv'
  <2> DEFINE A == Answer(view.screen, f)
  <2>1. view # NoView /\ UNCHANGED books /\ view.screen \in Screens
    BY <1>2, <1>14 DEF Requery, Screens
  <2>2. view' = [view EXCEPT !.from = f.from, !.to = f.to, !.pick = f.pick, !.rows = A]
    BY <1>14 DEF Requery
  <2>3. A \in Seq(Nat) /\ Distinct(A)
    BY <2>1, AnswerRows
  <2>4. f.pick \subseteq Offered(view.screen) /\ \A x, y \in f.pick : x = y
    BY <1>14 DEF Requery
  <2>5. view.screen = "audit" => \A i \in RowsIn(A) : Found(f, i)
    BY <2>4, AuditAnswer
  <2> HIDE DEF A
  <2>6. /\ view'.rows = A /\ view'.from = f.from /\ view'.to = f.to /\ view'.pick = f.pick
        /\ UNCHANGED view.screen
    BY <1>3, <2>1, <2>2 DEF ViewFields
  <2>7. \A i : Found(f, i) => Found(view, i)'
    BY <2>1, <2>6 DEF Found, books
  <2>8. view.screen = "audit" => \A i \in RowsIn(A) : Found(view, i)'
    BY <2>5, <2>7
  <2>9. f.from \in Nat \cup {None} /\ f.to \in Nat \cup {None}
    BY FiltersAssumption
  <2>. QED BY <1>9, <2>1, <2>3, <2>6, <2>8, <2>9
<1>15. CASE Close
  BY <1>15 DEF Close, TableInv
<1>. QED BY <1>4, <1>6, <1>10, <1>11, <1>12, <1>13, <1>14, <1>15, ViewSteps DEF Tables


(* What the pages and the exports of an open table show. *)
LEMMA OpenTable ==
  ASSUME ViewTyped, TableInv, view # NoView
  PROVE  TablePages(view)
<1> DEFINE F == Filtered(view)
<1>1. /\ view.screen \in Screens /\ view.page \in Nat \ {0}
      /\ view.rows \in Seq(Nat) /\ Distinct(view.rows)
      /\ view.from \in Nat \cup {None} /\ view.to \in Nat \cup {None}
      /\ view.screen = "audit" => \A i \in RowsIn(view.rows) : Found(view, i)
  BY DEF ViewTyped, TableInv
<1>2. /\ F \in Seq(Nat) /\ Distinct(F)
      /\ RowsIn(F) = {i \in RowsIn(view.rows) : Selected(view, i)}
  BY <1>1, FilteredRows
<1>3. F # <<>> => Paginate(F, view.page) # <<>>
  <2> HIDE DEF F
  <2>. QED BY <1>1, <1>2, PageHasRows
<1>4. \A k \in DOMAIN F :
        \E n \in 1 .. TotalPages(F) :
          /\ F[k] \in RowsIn(Paginate(F, n))
          /\ \A n2 \in 1 .. TotalPages(F) \ {n} : F[k] \notin RowsIn(Paginate(F, n2))
  <2> HIDE DEF F
  <2>. QED BY <1>2, RowOnOnePage
<1>5. view.screen = "charges" =>
        ChargesPdf(view).total = Sum(Fee, {i \in RowsIn(view.rows) : InRange(view, i)})
  <2> SUFFICES ASSUME view.screen = "charges"
               PROVE  ChargesPdf(view).total
                        = Sum(Fee, {i \in RowsIn(view.rows) : InRange(view, i)})
    OBVIOUS
  <2>1. \A i : Selected(view, i) = InRange(view, i)
    BY DEF Selected
  <2>2. RowsIn(F) = {i \in RowsIn(view.rows) : InRange(view, i)}
    BY <1>2, <2>1
  <2>3. ChargesPdf(view).total = Sum(Fee, RowsIn(F))
    BY DEF ChargesPdf, ChargesPage
  <2> HIDE DEF F
  <2>. QED BY <2>2, <2>3
<1>6. Len(Export(view)) = Sum(LAMBDA n : Len(Paginate(F, n)), 1 .. TotalPages(F))
  <2>1. ASSUME view.screen = "audit", NEW i \in RowsIn(view.rows)
        PROVE  Selected(view, i)
    <3>1. Selected(view, i) = InRange(view, i)
      BY <2>1 DEF Selected
    <3>2. /\ view.from = None \/ i >= view.from
          /\ view.to = None \/ i < view.to
      BY <1>1, <2>1 DEF Found
    <3>3. i \in Nat
      BY <1>1 DEF RowsIn
    <3>4. view.to = None \/ i <= view.to
      BY <1>1, <3>2, <3>3
    <3>. QED BY <3>1, <3>2, <3>4 DEF InRange
  <2>2. Len(Export(view)) = Len(F)
    BY <1>1, <2>1, ExportLength
  <2> HIDE DEF F
  <2>3. Sum(LAMBDA n : Len(Paginate(F, n)), 1 .. TotalPages(F)) = Len(F)
    BY <1>2, PagesTotal
  <2>. QED BY <2>2, <2>3
<1>7. /\ ABookPage(view.rows).volume = TradesPage(view.rows).volume
      /\ ABookPage(view.rows).buys = TradesPage(view.rows).buys
  BY DEF ABookPage, TradesPage, Sum
<1>8. ASSUME view.screen = "audit", NEW i \in RowsIn(view.rows)
      PROVE  view.pick \subseteq {audits[i].action} /\ view.to # i
  <2>1. i \in Nat /\ Found(view, i)
    BY <1>1, <1>8 DEF RowsIn
  <2>2. view.to = None \/ i < view.to
    BY <2>1 DEF Found
  <2>3. view.to # i
    BY <1>1, <2>1, <2>2, ReportsAssumption
  <2>. QED BY <2>1, <2>3 DEF Found
<1> HIDE DEF F
<1>. QED BY <1>3, <1>4, <1>5, <1>6, <1>7, <1>8 DEF TablePages, F


(* Counted from the other end, as many. *)
LEMMA Mirror ==
  ASSUME NEW m \in Int, NEW A, IsFiniteSet(A), A \subseteq Int,
         NEW B, B = {m - k : k \in A}
  PROVE  Cardinality(B) = Cardinality(A)
<1> DEFINE f == [k \in A |-> m - k]
<1>1. f \in Surjection(A, B) /\ f \in Injection(A, B)
  <2>1. f \in [A -> B] /\ \A y \in B : \E k \in A : f[k] = y
    OBVIOUS
  <2>2. \A j, k \in A : f[j] = f[k] => j = k
    <3> TAKE j, k \in A
    <3>1. j \in Int /\ k \in Int /\ f[j] = m - j /\ f[k] = m - k
      OBVIOUS
    <3> HIDE DEF f
    <3>. QED BY <3>1
  <2> HIDE DEF f
  <2>. QED BY <2>1, <2>2 DEF Surjection, Injection, IsInjective
<1> HIDE DEF f
<1>. QED BY <1>1, FS_Surjection

(* A list of all rows shows them backwards. *)
LEMMA AllNewest ==
  ASSUME NEW N \in Nat, NEW n \in Nat, Len(Newest(1 .. N, n)) = N
  PROVE  Newest(1 .. N, n) \in Seq(Nat) /\ \A k \in 1 .. N : Newest(1 .. N, n)[k] = N + 1 - k
<1> DEFINE D == 1 .. N
           T == Newest(D, n)
<1>1. IsFiniteSet(D) /\ D \subseteq Int /\ D \subseteq Nat /\ Len(T) = N
  BY FS_Interval
<1>2. T \in Seq(D) /\ \A k \in 1 .. N : T[k] \in D /\ Cardinality(Above(D, T[k])) = k - 1
  <2> HIDE DEF D
  <2>. QED BY <1>1, NewestPlaces
<1>3. ASSUME NEW i \in D PROVE Cardinality(Above(D, i)) = N - i
  <2>1. Above(D, i) = (i + 1) .. N
    BY DEF Above
  <2>2. Cardinality((i + 1) .. N) = N - i
    BY FS_Interval
  <2>. QED BY <2>1, <2>2
<1>4. ASSUME NEW k \in 1 .. N PROVE T[k] = N + 1 - k
  <2> DEFINE i == T[k]
  <2>1. i \in D /\ Cardinality(Above(D, i)) = k - 1
    BY <1>2
  <2> HIDE DEF T, i
  <2>2. k - 1 = N - i
    BY <1>3, <2>1
  <2>3. i \in Int
    BY <2>1
  <2>4. i = N + 1 - k
    BY <2>2, <2>3
  <2>. QED BY <2>4 DEF i
<1> HIDE DEF T
<1>5. T \in Seq(Nat)
  BY <1>1, <1>2, WiderSeq
<1>. QED BY <1>4, <1>5 DEF T

(* Rows of one table that are kept of all rows are the newest of its own. *)
LEMMA KeptNewest ==
  ASSUME NEW N \in Nat, NEW m \in Nat, Len(Newest(1 .. N, m)) = N,
         NEW I \in SUBSET (1 .. N), NEW n \in Nat, Len(Newest(I, n)) = Cardinality(I)
  PROVE  Keep(Newest(1 .. N, m), {k \in 1 .. N : Newest(1 .. N, m)[k] \in I}) = Newest(I, n)
<1> DEFINE T == Newest(1 .. N, m)
           S == {k \in 1 .. N : T[k] \in I}
           c == Cardinality(S)
           K == Keep(T, S)
<1>1. /\ \A k \in 1 .. N : T[k] = N + 1 - k
      /\ S = {k \in 1 .. N : N + 1 - k \in I}
  BY AllNewest
<1>2. IsFiniteSet(S) /\ S \subseteq Int /\ IsFiniteSet(I) /\ I \subseteq Int /\ S \subseteq 1 .. N
  <2>1. IsFiniteSet(1 .. N) /\ 1 .. N \subseteq Int
    BY FS_Interval
  <2>2. S \subseteq 1 .. N /\ I \subseteq 1 .. N
    OBVIOUS
  <2> HIDE DEF S
  <2>. QED BY <2>1, <2>2, FS_Subset
<1>3. c = Cardinality(I) /\ c \in Nat
  <2>1. I = {(N + 1) - k : k \in S}
    <3>1. ASSUME NEW i \in I PROVE \E k \in S : i = (N + 1) - k
      <4>1. N + 1 - i \in 1 .. N /\ N + 1 - (N + 1 - i) = i
        OBVIOUS
      <4>2. N + 1 - i \in S
        BY <1>1, <4>1
      <4> HIDE DEF S
      <4>. QED BY <4>1, <4>2
    <3>2. \A k \in S : (N + 1) - k \in I
      BY <1>1
    <3> HIDE DEF S, T
    <3>. QED BY <3>1, <3>2
  <2> HIDE DEF S
  <2>2. N + 1 \in Int
    OBVIOUS
  <2>3. Cardinality(I) = Cardinality(S)
    BY <1>2, <2>1, <2>2, Mirror
  <2>. QED BY <1>2, <2>3, FS_CardinalityType
<1> HIDE DEF S, T
<1>4. PICK p : KeptAt(T, S, p)
  BY <1>2, KeptPlaces
<1>5. /\ p \in [1 .. c -> S]
      /\ K = [k \in 1 .. c |-> T[p[k]]]
      /\ \A k \in 1 .. c : Cardinality(Below(S, p[k])) = k - 1
  BY <1>4 DEF KeptAt
<1>6. \A k \in 1 .. c : K[k] = N + 1 - p[k] /\ K[k] \in I /\ p[k] \in S
  BY <1>1, <1>2, <1>5
<1>7. ASSUME NEW k \in 1 .. c PROVE Cardinality(Above(I, K[k])) = k - 1
  <2> DEFINE q == p[k]
             B == Below(S, q)
             A == Above(I, K[k])
  <2>1. q \in S /\ q \in 1 .. N /\ K[k] = N + 1 - q
    BY <1>2, <1>6
  <2>2. ASSUME NEW i \in A PROVE \E j \in B : i = (N + 1) - j
    <3>1. i \in I /\ i > N + 1 - q /\ i \in 1 .. N
      BY <2>1 DEF Above
    <3> HIDE DEF q
    <3>2. N + 1 - i \in 1 .. N /\ N + 1 - (N + 1 - i) = i /\ N + 1 - i < q
      BY <2>1, <3>1
    <3>3. N + 1 - i \in B
      BY <1>1, <3>1, <3>2 DEF Below
    <3>. QED BY <3>2, <3>3
  <2>3. ASSUME NEW j \in B PROVE (N + 1) - j \in A
    <3>1. j \in S /\ j < q /\ j \in 1 .. N /\ N + 1 - j \in I
      BY <1>1 DEF Below
    <3> HIDE DEF q
    <3>2. N + 1 - j > N + 1 - q
      BY <2>1, <3>1
    <3>. QED BY <2>1, <3>1, <3>2 DEF Above
  <2>4. IsFiniteSet(B) /\ B \subseteq Int
    BY <1>2, FS_Subset DEF Below
  <2> HIDE DEF A, B
  <2>5. A = {(N + 1) - j : j \in B}
    BY <2>2, <2>3
  <2>6. N + 1 \in Int
    OBVIOUS
  <2>7. Cardinality(A) = Cardinality(B)
    BY <2>4, <2>5, <2>6, Mirror
  <2>. QED BY <1>5, <2>7 DEF A, B
<1>8. K \in Seq(I) /\ Len(K) = c
  <2>1. K \in [1 .. c -> I]
    <3>1. DOMAIN K = 1 .. c /\ K = [k \in 1 .. c |-> K[k]]
      BY <1>5
    <3> HIDE DEF K, c
    <3>. QED BY <1>6, <3>1
  <2> HIDE DEF K, c
  <2>. QED BY <1>3, <2>1
<1>9. c <= n
  <2>1. Len(Newest(I, n)) <= n
    BY <1>2, NewestPlaces
  <2>. QED BY <1>3, <2>1
<1>10. K = Newest(I, n)
  <2>1. \A k \in 1 .. c : Cardinality(Above(I, K[k])) = k - 1
    BY <1>7
  <2> HIDE DEF K
  <2>2. /\ K \in Seq(I) /\ Len(K) = Cardinality(I) /\ Len(K) \in Nat /\ Len(K) <= n
        /\ \A k \in 1 .. Len(K) : Cardinality(Above(I, K[k])) = k - 1
    BY <1>3, <1>8, <1>9, <2>1
  <2>3. Len(K) <= Cardinality(I)
    BY <2>2
  <2>. QED BY <1>2, <2>2, <2>3, NewestIs
<1>. QED BY <1>10 DEF K, S, T

(* The A-book page shows of each broker the trades its own page shows.     *)
LEMMA ABookSame ==
  ASSUME BooksTyped
  PROVE  ABookAgrees
<1> SUFFICES ASSUME Len(ABookTrades) = TradesTotal, NEW b \in Brokers,
                    Len(AllTrades(b)) = Cardinality(Ids(trades, b))
             PROVE  Keep(ABookTrades, {k \in DOMAIN ABookTrades : trades[ABookTrades[k]].broker = b})
                      = AllTrades(b)
  BY DEF ABookAgrees
<1> DEFINE N == Len(trades)
           I == Ids(trades, b)
           T == ABookTrades
<1>1. N \in Nat /\ DOMAIN trades = 1 .. N
  BY DEF BooksTyped
<1>2. T = Newest(1 .. N, Limit.abook) /\ Len(T) = N
  BY <1>1 DEF ABookTrades, TradesTotal
<1>3. AllTrades(b) = Newest(I, Limit.trades) /\ Len(AllTrades(b)) = Cardinality(I)
  BY PlainTrades DEF AllTrades
<1>4. Limit.abook \in Nat /\ Limit.trades \in Nat
  BY ReportsAssumption, PagesAssumption
<1>5. I \in SUBSET (1 .. N)
  BY <1>1 DEF Ids
<1>6. T \in Seq(Nat) /\ DOMAIN T = 1 .. N /\ \A k \in 1 .. N : T[k] \in 1 .. N
  <2> HIDE DEF T, N
  <2>1. T \in Seq(Nat) /\ \A k \in 1 .. N : T[k] = N + 1 - k
    BY <1>1, <1>2, <1>4, AllNewest
  <2>2. DOMAIN T = 1 .. N
    BY <1>2, <2>1
  <2>. QED BY <1>1, <2>1, <2>2
<1>7. {k \in DOMAIN T : trades[T[k]].broker = b} = {k \in 1 .. N : T[k] \in I}
  BY <1>1, <1>6 DEF Ids
<1> HIDE DEF I, T, N
<1>8. Keep(T, {k \in 1 .. N : T[k] \in I}) = Newest(I, Limit.trades)
  BY <1>1, <1>2, <1>3, <1>4, <1>5, KeptNewest
<1>. QED BY <1>3, <1>7, <1>8 DEF T


(* What is open stays whole: the rows of an answer are each there once, so *)
(* the page arithmetic (charges/page.tsx:36-38, wallet/page.tsx:34-43) cuts *)
(* them into pages that hold each row once, and the current page, which is *)
(* never beyond the last, is not empty while there are rows; the exports   *)
(* (the PdfButtons of the pages, buildCsv of audit/page.tsx) print a line  *)
(* for each row of the list as it is filtered; the audit page shows no row *)
(* but of the action and the times in its fields, as audit rows never      *)
(* change; and the console's A-book (a-book-trades/page.tsx) shows of each *)
(* broker what its own trades page shows.                                  *)
THEOREM TablesStayWhole == PortalSpec => []TablesWhole
<1> DEFINE Inv == /\ WalletInv /\ FeedInv /\ BooksTyped /\ AuditsTyped /\ ViewTyped
                  /\ TableInv
<1>1. PortalInit => Inv
  <2> SUFFICES ASSUME PortalInit PROVE Inv
    OBVIOUS
  <2>1. FeedInv
    BY ReportsAssumption DEF PortalInit, FeedInv, FeedTyped, Answered, BlotterOrdered
  <2>2. AuditsTyped /\ ViewTyped /\ TableInv
    BY DEF PortalInit, AuditsTyped, ViewTyped, TableInv
  <2>. QED BY <2>1, <2>2, WalletInit, BooksInit
<1>2. Inv /\ [PortalNext]_portalVars => Inv'
  BY WalletStep, FeedStep, BooksStep, AuditsStep, ViewStep, TableStep DEF WalletInv, FeedInv
<1>3. Inv => TablesWhole
  BY OpenTable, ABookSame DEF TablesWhole
<1>. QED BY <1>1, <1>2, <1>3, PTL DEF PortalSpec

=============================================================================
