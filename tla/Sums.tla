-------------------------------- MODULE Sums --------------------------------
(***************************************************************************)
(* Sums over finite sets.  What the models add up they add up with the     *)
(* folds of the community modules, which take one element after the other  *)
(* in an order nobody knows; the lemmas here say that the order does not   *)
(* matter.  A sum is that of the values v[x] of the elements x of a set.   *)
(***************************************************************************)
EXTENDS Integers, FiniteSetTheorems, TLAPS

(* The element that is taken first. *)
Pick(T) == CHOOSE x \in T : TRUE

(* g has the sum of every subset of S. *)
SumsUp(g, v, S) ==
  g = [T \in SUBSET S |-> IF T = {} THEN 0 ELSE v[Pick(T)] + g[T \ {Pick(T)}]]

SumOver(v, S) == (CHOOSE g : SumsUp(g, v, S))[S]

-----------------------------------------------------------------------------
(* Among sets of parts of a finite set there is a smallest one. *)
LEMMA SmallestPart ==
  ASSUME NEW S, IsFiniteSet(S), NEW B, B \subseteq SUBSET S, B # {}
  PROVE  \E T \in B : \A U \in B : U \subseteq T => U = T
<1>1. IsWellFoundedOn(StrictSubsetOrdering(S), SUBSET S)
  BY FS_StrictSubsetOrderingWellFounded, FS_FiniteSubsetsOfFinite
<1>2. PICK T \in B : \A U \in B : <<U, T>> \notin StrictSubsetOrdering(S)
  BY <1>1, WFMin
<1>3. ASSUME NEW U \in B, U \subseteq T, U # T
      PROVE  FALSE
  <2>1. <<U, T>> \in (SUBSET S) \X (SUBSET S)
    OBVIOUS
  <2>2. <<U, T>> \in StrictSubsetOrdering(S)
    BY <1>3, <2>1 DEF StrictSubsetOrdering
  <2> QED
    BY <1>2, <2>2
<1> QED
  BY <1>3

LEMMA PickOne ==
  ASSUME NEW T, T # {}
  PROVE  Pick(T) \in T
BY DEF Pick

(* A function that sums up, applied. *)
LEMMA SumsUpAt ==
  ASSUME NEW g, NEW v, NEW S, SumsUp(g, v, S), NEW T \in SUBSET S
  PROVE  g[T] = IF T = {} THEN 0 ELSE v[Pick(T)] + g[T \ {Pick(T)}]
BY DEF SumsUp

(* Two functions that sum up agree where both have a value. *)
LEMMA SumsAgree ==
  ASSUME NEW S, IsFiniteSet(S), NEW R, NEW v, NEW g, NEW h,
         SumsUp(g, v, S), SumsUp(h, v, R), NEW T, T \subseteq S, T \subseteq R
  PROVE  g[T] = h[T]
<1> DEFINE B == {U \in SUBSET S : U \subseteq R /\ g[U] # h[U]}
<1>1. ASSUME B # {}
      PROVE  FALSE
  <2>1. PICK U \in B : \A W \in B : W \subseteq U => W = U
    <3>1. B \subseteq SUBSET S
      OBVIOUS
    <3> HIDE DEF B
    <3> QED
      BY <1>1, <3>1, SmallestPart
  <2>2. U \in SUBSET S /\ U \in SUBSET R /\ g[U] # h[U]
    OBVIOUS
  <2>3. /\ g[U] = IF U = {} THEN 0 ELSE v[Pick(U)] + g[U \ {Pick(U)}]
        /\ h[U] = IF U = {} THEN 0 ELSE v[Pick(U)] + h[U \ {Pick(U)}]
    BY <2>2, SumsUpAt
  <2>4. U # {}
    BY <2>2, <2>3
  <2>5. Pick(U) \in U
    BY <2>4, PickOne
  <2>6. U \ {Pick(U)} \notin B
    BY <2>1, <2>5
  <2>7. g[U \ {Pick(U)}] = h[U \ {Pick(U)}]
    BY <2>2, <2>6
  <2> QED
    BY <2>2, <2>3, <2>4, <2>7
<1> QED
  BY <1>1

(* There is one for every finite set. *)
LEMMA SumsExist ==
  ASSUME NEW S, IsFiniteSet(S), NEW v
  PROVE  \E g : SumsUp(g, v, S)
<1> DEFINE B == {U \in SUBSET S : ~ \E g : SumsUp(g, v, U)}
<1>1. ASSUME B # {}
      PROVE  FALSE
  <2>1. PICK U \in B : \A W \in B : W \subseteq U => W = U
    <3>1. B \subseteq SUBSET S
      OBVIOUS
    <3> HIDE DEF B
    <3> QED
      BY <1>1, <3>1, SmallestPart
  <2>2. U \in SUBSET S /\ ~ \E g : SumsUp(g, v, U)
    OBVIOUS
  <2>3. \A W \in SUBSET U : W # U => \E g : SumsUp(g, v, W)
    BY <2>1, <2>2
  <2> HIDE DEF B
  <2>4. \A W \in SUBSET U : W # U => SumsUp(CHOOSE g : SumsUp(g, v, W), v, W)
    BY <2>3
  <2>5. \A W \in SUBSET U : W # U /\ W # {} =>
          SumOver(v, W) = v[Pick(W)] + SumOver(v, W \ {Pick(W)})
    <3> SUFFICES ASSUME NEW W \in SUBSET U, W # U, W # {}
                 PROVE  SumOver(v, W) = v[Pick(W)] + SumOver(v, W \ {Pick(W)})
      OBVIOUS
    <3> DEFINE X == W \ {Pick(W)}
    <3>1. PICK g : g = CHOOSE a : SumsUp(a, v, W)
      OBVIOUS
    <3>2. PICK h : h = CHOOSE a : SumsUp(a, v, X)
      OBVIOUS
    <3>3. X \in SUBSET U /\ X # U /\ X \subseteq W
      BY PickOne
    <3>4. SumsUp(g, v, W) /\ SumsUp(h, v, X)
      BY <2>4, <3>1, <3>2, <3>3
    <3>5. IsFiniteSet(W)
      BY <2>2, FS_Subset
    <3>6. g[X] = h[X]
      <4> HIDE DEF X
      <4> QED
        BY <3>3, <3>4, <3>5, SumsAgree
    <3>7. g[W] = v[Pick(W)] + g[X]
      BY <3>4, SumsUpAt
    <3>8. SumOver(v, W) = g[W] /\ SumOver(v, X) = h[X]
      BY <3>1, <3>2 DEF SumOver
    <3> QED
      BY <3>6, <3>7, <3>8
  <2>6. U # {} => SumOver(v, {}) = 0
    <3> SUFFICES ASSUME U # {} PROVE SumOver(v, {}) = 0
      OBVIOUS
    <3>1. PICK g : g = CHOOSE a : SumsUp(a, v, {})
      OBVIOUS
    <3>2. SumsUp(g, v, {})
      BY <2>4, <3>1
    <3>3. g[{}] = 0
      BY <3>2, SumsUpAt
    <3> QED
      BY <3>1, <3>3 DEF SumOver
  <2> DEFINE F(T) == IF T = {} THEN 0
                     ELSE IF T = U THEN v[Pick(U)] + SumOver(v, U \ {Pick(U)})
                     ELSE SumOver(v, T)
             f == [T \in SUBSET U |-> F(T)]
  <2>7. ASSUME NEW T \in SUBSET U
        PROVE  F(T) = IF T = {} THEN 0 ELSE v[Pick(T)] + f[T \ {Pick(T)}]
    <3>1. CASE T = {}
      BY <3>1
    <3>2. CASE T # {}
      <4>1. Pick(T) \in T
        BY <3>2, PickOne
      <4> DEFINE X == T \ {Pick(T)}
      <4>2. X \in SUBSET U /\ X # U /\ U # {}
        BY <4>1
      <4>3. f[X] = SumOver(v, X)
        BY <2>6, <4>2
      <4>4. F(T) = v[Pick(T)] + SumOver(v, X)
        BY <2>5, <3>2
      <4> QED
        BY <3>2, <4>3, <4>4
    <3> QED
      BY <3>1, <3>2
  <2>8. SumsUp(f, v, U)
    <3>1. f = [T \in SUBSET U |-> IF T = {} THEN 0 ELSE v[Pick(T)] + f[T \ {Pick(T)}]]
      <4> HIDE DEF F
      <4> QED
        BY <2>7
    <3> HIDE DEF f
    <3> QED
      BY <3>1 DEF SumsUp
  <2> QED
    BY <2>2, <2>8
<1>2. S \notin B
  BY <1>1
<1> QED
  BY <1>2

(* So the choice of an order is a sum, whoever makes it. *)
LEMMA SumIs ==
  ASSUME NEW S, IsFiniteSet(S), NEW v, NEW g, SumsUp(g, v, S),
         NEW T, T \subseteq S
  PROVE  g[T] = SumOver(v, T)
<1>1. IsFiniteSet(T)
  BY FS_Subset
<1>2. PICK h : h = CHOOSE a : SumsUp(a, v, T)
  OBVIOUS
<1>3. SumsUp(h, v, T)
  BY <1>1, <1>2, SumsExist
<1>4. g[T] = h[T]
  BY <1>3, SumsAgree
<1> QED
  BY <1>2, <1>4 DEF SumOver

LEMMA SumEmpty ==
  ASSUME NEW v
  PROVE  SumOver(v, {}) = 0
<1>1. PICK g : SumsUp(g, v, {})
  BY FS_EmptySet, SumsExist
<1>2. g[{}] = 0
  BY <1>1, SumsUpAt
<1> QED
  BY <1>1, <1>2, SumIs, FS_EmptySet

LEMMA SumPick ==
  ASSUME NEW T, IsFiniteSet(T), T # {}, NEW v
  PROVE  SumOver(v, T) = v[Pick(T)] + SumOver(v, T \ {Pick(T)})
<1>1. PICK g : SumsUp(g, v, T)
  BY SumsExist
<1>2. g[T] = v[Pick(T)] + g[T \ {Pick(T)}]
  BY <1>1, SumsUpAt
<1> QED
  BY <1>1, <1>2, SumIs

-----------------------------------------------------------------------------
(* Sums of integers. *)

LEMMA SumType ==
  ASSUME NEW S, IsFiniteSet(S), NEW v, \A x \in S : v[x] \in Int
  PROVE  SumOver(v, S) \in Int
<1> DEFINE B == {U \in SUBSET S : SumOver(v, U) \notin Int}
<1>1. ASSUME B # {}
      PROVE  FALSE
  <2>1. PICK U \in B : \A W \in B : W \subseteq U => W = U
    <3>1. B \subseteq SUBSET S
      OBVIOUS
    <3> HIDE DEF B
    <3> QED
      BY <1>1, <3>1, SmallestPart
  <2>2. U \in SUBSET S /\ SumOver(v, U) \notin Int /\ IsFiniteSet(U)
    BY FS_Subset
  <2>3. U # {}
    BY <2>2, SumEmpty
  <2>4. Pick(U) \in U
    BY <2>3, PickOne
  <2>5. U \ {Pick(U)} \notin B
    BY <2>1, <2>4
  <2>6. SumOver(v, U \ {Pick(U)}) \in Int
    BY <2>2, <2>5
  <2>7. SumOver(v, U) = v[Pick(U)] + SumOver(v, U \ {Pick(U)})
    BY <2>2, <2>3, SumPick
  <2> QED
    BY <2>2, <2>4, <2>6, <2>7
<1> QED
  BY <1>1

(* The order does not matter: any element may be taken last. *)
LEMMA SumAdd ==
  ASSUME NEW S, IsFiniteSet(S), NEW v, \A x \in S : v[x] \in Int,
         NEW T, T \subseteq S, NEW y \in S, y \notin T
  PROVE  SumOver(v, T \cup {y}) = SumOver(v, T) + v[y]
<1> DEFINE B == {U \in SUBSET S : \E x \in S \ U :
                   SumOver(v, U \cup {x}) # SumOver(v, U) + v[x]}
<1>1. ASSUME B # {}
      PROVE  FALSE
  <2>1. PICK U \in B : \A W \in B : W \subseteq U => W = U
    <3>1. B \subseteq SUBSET S
      OBVIOUS
    <3> HIDE DEF B
    <3> QED
      BY <1>1, <3>1, SmallestPart
  <2>2. U \in SUBSET S
    OBVIOUS
  <2>3. PICK x \in S \ U : SumOver(v, U \cup {x}) # SumOver(v, U) + v[x]
    OBVIOUS
  <2> DEFINE p == Pick(U \cup {x})
             V == U \ {p}
  <2>4. p \in U \cup {x}
    BY PickOne
  <2>5. IsFiniteSet(U \cup {x})
    BY FS_Subset
  <2>6. SumOver(v, U \cup {x}) = v[p] + SumOver(v, (U \cup {x}) \ {p})
    BY <2>5, SumPick
  <2>7. \A W \in SUBSET U : IsFiniteSet(W) /\ SumOver(v, W) \in Int
    <3> SUFFICES ASSUME NEW W \in SUBSET U PROVE IsFiniteSet(W) /\ SumOver(v, W) \in Int
      OBVIOUS
    <3>1. IsFiniteSet(W)
      BY <2>2, FS_Subset
    <3>2. \A z \in W : v[z] \in Int
      BY <2>2
    <3>3. SumOver(v, W) \in Int
      BY <3>1, <3>2, SumType
    <3> QED
      BY <3>1, <3>3
  <2>8. v[p] \in Int /\ v[x] \in Int
    BY <2>4
  <2>9. p # x
    <3> SUFFICES ASSUME p = x PROVE FALSE
      OBVIOUS
    <3>1. (U \cup {x}) \ {p} = U
      BY <2>3
    <3>2. SumOver(v, U) \in Int
      BY <2>7
    <3>3. SumOver(v, U \cup {x}) = v[x] + SumOver(v, U)
      BY <2>6, <3>1
    <3>4. SumOver(v, U \cup {x}) # SumOver(v, U) + v[x] /\ v[x] \in Int
      BY <2>3, <2>8
    <3> HIDE DEF p, V, B
    <3> QED
      BY <3>2, <3>3, <3>4
  <2>10. p \in U
    BY <2>4, <2>9
  <2>11. V \notin B
    BY <2>1, <2>10
  <2>12. \A z \in S \ V : SumOver(v, V \cup {z}) = SumOver(v, V) + v[z]
    BY <2>2, <2>11
  <2>13. SumOver(v, V \cup {p}) = SumOver(v, V) + v[p]
    BY <2>2, <2>10, <2>12
  <2>14. SumOver(v, V \cup {x}) = SumOver(v, V) + v[x]
    BY <2>3, <2>12
  <2>15. (U \cup {x}) \ {p} = V \cup {x} /\ V \cup {p} = U /\ V \in SUBSET U
    BY <2>3, <2>9, <2>10
  <2>16. SumOver(v, V) \in Int
    BY <2>7, <2>15
  <2>17. SumOver(v, U \cup {x}) = v[p] + SumOver(v, V \cup {x})
    BY <2>6, <2>15
  <2>18. SumOver(v, U) = SumOver(v, V) + v[p]
    BY <2>13, <2>15
  <2> HIDE DEF p, V, B
  <2> QED
    BY <2>3, <2>8, <2>14, <2>16, <2>17, <2>18
<1>2. T \notin B
  BY <1>1
<1> QED
  BY <1>2

(* What comes on top of a set without being negative does not lower its    *)
(* sum.                                                                    *)
LEMMA SumAtLeast ==
  ASSUME NEW S, IsFiniteSet(S), NEW v, \A x \in S : v[x] \in Int,
         NEW T, T \subseteq S, \A x \in S \ T : v[x] >= 0
  PROVE  SumOver(v, S) >= SumOver(v, T)
<1> DEFINE B == {U \in SUBSET S : T \subseteq U /\ ~(SumOver(v, U) >= SumOver(v, T))}
<1>1. ASSUME B # {}
      PROVE  FALSE
  <2>1. PICK U \in B : \A W \in B : W \subseteq U => W = U
    <3>1. B \subseteq SUBSET S
      OBVIOUS
    <3> HIDE DEF B
    <3> QED
      BY <1>1, <3>1, SmallestPart
  <2>2. U \in SUBSET S /\ T \subseteq U /\ ~(SumOver(v, U) >= SumOver(v, T))
    OBVIOUS
  <2>3. IsFiniteSet(T) /\ SumOver(v, T) \in Int
    <3>1. IsFiniteSet(T)
      BY FS_Subset
    <3> QED
      BY <3>1, SumType
  <2>4. U # T
    BY <2>2, <2>3
  <2>5. PICK x \in U : x \notin T
    BY <2>2, <2>4
  <2> DEFINE W == U \ {x}
  <2>6. W \in SUBSET S /\ T \subseteq W /\ W \subseteq U /\ W # U
    BY <2>2, <2>5
  <2>7. W \notin B
    BY <2>1, <2>6
  <2>8. SumOver(v, W) >= SumOver(v, T)
    BY <2>6, <2>7
  <2>9. W \cup {x} = U
    BY <2>5
  <2>10. SumOver(v, W \cup {x}) = SumOver(v, W) + v[x]
    BY <2>2, <2>6, SumAdd
  <2>11. IsFiniteSet(W)
    BY <2>6, FS_Subset
  <2>12. SumOver(v, W) \in Int
    BY <2>6, <2>11, SumType
  <2>13. v[x] \in Int /\ v[x] >= 0
    BY <2>2, <2>5
  <2> HIDE DEF W
  <2> QED
    BY <2>2, <2>3, <2>8, <2>9, <2>10, <2>12, <2>13
<1>2. S \notin B
  BY <1>1
<1> QED
  BY <1>2

(* Only the values of the elements count. *)
LEMMA SumSame ==
  ASSUME NEW S, IsFiniteSet(S), NEW v, NEW u, \A x \in S : v[x] = u[x]
  PROVE  SumOver(v, S) = SumOver(u, S)
<1> DEFINE B == {U \in SUBSET S : SumOver(v, U) # SumOver(u, U)}
<1>1. ASSUME B # {}
      PROVE  FALSE
  <2>1. PICK U \in B : \A W \in B : W \subseteq U => W = U
    <3>1. B \subseteq SUBSET S
      OBVIOUS
    <3> HIDE DEF B
    <3> QED
      BY <1>1, <3>1, SmallestPart
  <2>2. U \in SUBSET S /\ SumOver(v, U) # SumOver(u, U)
    OBVIOUS
  <2>3. U # {}
    BY <2>2, SumEmpty
  <2>4. Pick(U) \in U
    BY <2>3, PickOne
  <2>5. U \ {Pick(U)} \notin B
    BY <2>1, <2>4
  <2>6. SumOver(v, U \ {Pick(U)}) = SumOver(u, U \ {Pick(U)})
    BY <2>2, <2>5
  <2>7. IsFiniteSet(U)
    BY <2>2, FS_Subset
  <2>8. /\ SumOver(v, U) = v[Pick(U)] + SumOver(v, U \ {Pick(U)})
        /\ SumOver(u, U) = u[Pick(U)] + SumOver(u, U \ {Pick(U)})
    BY <2>3, <2>7, SumPick
  <2> QED
    BY <2>2, <2>4, <2>6, <2>8
<1>2. S \notin B
  BY <1>1
<1> QED
  BY <1>2

(* Two sets that share no element. *)
LEMMA SumUnion ==
  ASSUME NEW S, IsFiniteSet(S), NEW v, \A x \in S : v[x] \in Int,
         NEW T, NEW R, T \subseteq S, R \subseteq S, T \cap R = {}
  PROVE  SumOver(v, T \cup R) = SumOver(v, T) + SumOver(v, R)
<1> DEFINE B == {U \in SUBSET R : SumOver(v, T \cup U) # SumOver(v, T) + SumOver(v, U)}
<1>0. IsFiniteSet(R) /\ IsFiniteSet(T) /\ SumOver(v, T) \in Int
  <2>1. IsFiniteSet(R) /\ IsFiniteSet(T)
    BY FS_Subset
  <2> QED
    BY <2>1, SumType
<1>1. ASSUME B # {}
      PROVE  FALSE
  <2>1. PICK U \in B : \A W \in B : W \subseteq U => W = U
    <3>1. B \subseteq SUBSET R
      OBVIOUS
    <3> HIDE DEF B
    <3> QED
      BY <1>0, <1>1, <3>1, SmallestPart
  <2>2. U \in SUBSET R /\ SumOver(v, T \cup U) # SumOver(v, T) + SumOver(v, U)
    OBVIOUS
  <2>3. U # {}
    <3> SUFFICES ASSUME U = {} PROVE FALSE
      OBVIOUS
    <3>1. T \cup U = T /\ SumOver(v, U) = 0
      BY SumEmpty
    <3>2. SumOver(v, T) # SumOver(v, T) + 0
      BY <2>2, <3>1
    <3> HIDE DEF B
    <3> QED
      BY <1>0, <3>2
  <2>4. PICK x \in U : TRUE
    BY <2>3
  <2> DEFINE W == U \ {x}
  <2>5. /\ W \in SUBSET R /\ W \subseteq U /\ W # U
        /\ x \in S /\ x \notin W /\ x \notin T \cup W
        /\ W \cup {x} = U /\ (T \cup W) \cup {x} = T \cup U
        /\ T \cup W \subseteq S /\ W \subseteq S
    BY <2>2, <2>4
  <2>6. W \notin B
    BY <2>1, <2>5
  <2>7. SumOver(v, T \cup W) = SumOver(v, T) + SumOver(v, W)
    BY <2>5, <2>6
  <2> HIDE DEF W, B
  <2>8. SumOver(v, T \cup U) = SumOver(v, T \cup W) + v[x]
    BY <2>5, SumAdd
  <2>9. SumOver(v, U) = SumOver(v, W) + v[x]
    BY <2>5, SumAdd
  <2>10. IsFiniteSet(W) /\ \A z \in W : v[z] \in Int
    BY <2>5, FS_Subset
  <2>11. SumOver(v, W) \in Int /\ v[x] \in Int
    BY <2>5, <2>10, SumType
  <2> QED
    BY <1>0, <2>2, <2>7, <2>8, <2>9, <2>11
<1>2. R \notin B
  BY <1>1
<1> QED
  BY <1>2

(* A set may be summed up in groups: group[k] holds its elements x with    *)
(* p[x] = k, and w[k] is their sum.                                        *)
LEMMA SumGroups ==
  ASSUME NEW S, IsFiniteSet(S), NEW v, \A x \in S : v[x] \in Int,
         NEW G, IsFiniteSet(G), NEW p, \A x \in S : p[x] \in G,
         NEW group, \A k \in G : \A x : x \in group[k] <=> x \in S /\ p[x] = k,
         NEW w, \A k \in G : w[k] = SumOver(v, group[k])
  PROVE  SumOver(v, S) = SumOver(w, G)
<1> DEFINE In(U) == {x \in S : p[x] \in U}
           B == {U \in SUBSET G : SumOver(v, In(U)) # SumOver(w, U)}
<1>1. ASSUME B # {}
      PROVE  FALSE
  <2>1. PICK U \in B : \A W \in B : W \subseteq U => W = U
    <3>1. B \subseteq SUBSET G
      OBVIOUS
    <3> HIDE DEF B
    <3> QED
      BY <1>1, <3>1, SmallestPart
  <2>2. U \in SUBSET G /\ SumOver(v, In(U)) # SumOver(w, U)
    OBVIOUS
  <2>3. U # {}
    <3>1. In({}) = {}
      OBVIOUS
    <3> HIDE DEF In
    <3> QED
      BY <2>2, <3>1, SumEmpty
  <2>4. PICK k \in U : TRUE
    BY <2>3
  <2> DEFINE W == U \ {k}
             R == group[k]
  <2>5. /\ W \in SUBSET G /\ W \subseteq U /\ W # U
        /\ k \in G /\ k \notin W /\ W \cup {k} = U
        /\ In(W) \cup R = In(U) /\ In(W) \cap R = {}
        /\ In(W) \subseteq S /\ R \subseteq S
    BY <2>2, <2>4
  <2>6. W \notin B
    BY <2>1, <2>5
  <2>7. SumOver(v, In(W)) = SumOver(w, W)
    BY <2>5, <2>6
  <2>8. w[k] = SumOver(v, R)
    BY <2>5
  <2>9. \A j \in G : w[j] \in Int
    <3> SUFFICES ASSUME NEW j \in G PROVE w[j] \in Int
      OBVIOUS
    <3>1. group[j] \subseteq S
      OBVIOUS
    <3>2. IsFiniteSet(group[j]) /\ \A x \in group[j] : v[x] \in Int
      BY <3>1, FS_Subset
    <3>3. SumOver(v, group[j]) \in Int
      BY <3>2, SumType
    <3> QED
      BY <3>3
  <2> HIDE DEF W, B, In, R
  <2>10. SumOver(v, In(U)) = SumOver(v, In(W)) + SumOver(v, R)
    BY <2>5, SumUnion
  <2>11. SumOver(w, U) = SumOver(w, W) + w[k]
    BY <2>5, <2>9, SumAdd
  <2> QED
    BY <2>2, <2>7, <2>8, <2>10, <2>11
<1>2. G \notin B
  BY <1>1
<1>3. In(G) = S
  OBVIOUS
<1> HIDE DEF In
<1> QED
  BY <1>2, <1>3

-----------------------------------------------------------------------------
(* The community modules' sum is this one. *)
LEMMA SumFunctionIs ==
  ASSUME NEW v, IsFiniteSet(DOMAIN v)
  PROVE  SumFunction(v) = SumOver(v, DOMAIN v)
<1> DEFINE S == DOMAIN v
           Folded(g) == g = [T \in SUBSET S |-> IF T = {} THEN 0 ELSE v[Pick(T)] + g[T \ {Pick(T)}]]
<1>1. PICK h : h = CHOOSE g : Folded(g)
  OBVIOUS
<1>2. SumFunction(v) = h[S]
  BY <1>1 DEF SumFunction, SumFunctionOnSet, FoldFunctionOnSet, MapThenFoldSet, Pick
<1>3. \A g : SumsUp(g, v, S) <=> Folded(g)
  BY DEF SumsUp
<1> HIDE DEF Folded, S
<1>4. IsFiniteSet(S)
  BY DEF S
<1>5. SumsUp(h, v, S)
  BY <1>1, <1>3, <1>4, SumsExist
<1>6. h[S] = SumOver(v, S)
  BY <1>4, <1>5, SumIs
<1> QED
  BY <1>2, <1>6 DEF S

LEMMA SumNegated ==
  ASSUME NEW S, IsFiniteSet(S), NEW v, \A x \in S : v[x] \in Int,
         NEW u, \A x \in S : u[x] = -v[x]
  PROVE  SumOver(u, S) = -SumOver(v, S)
<1> DEFINE B == {T \in SUBSET S : SumOver(u, T) # -SumOver(v, T)}
<1>1. ASSUME B # {}
      PROVE  FALSE
  <2>1. PICK T \in B : \A U \in B : U \subseteq T => U = T
    <3>1. B \subseteq SUBSET S
      OBVIOUS
    <3> HIDE DEF B
    <3> QED
      BY <1>1, <3>1, SmallestPart
  <2>2. T \subseteq S /\ SumOver(u, T) # -SumOver(v, T)
    OBVIOUS
  <2>3. T # {}
    BY <2>2, SumEmpty
  <2>4. PICK y \in T : TRUE
    BY <2>3
  <2> DEFINE U == T \ {y}
  <2>5. U \subseteq S /\ U \subseteq T /\ U # T /\ y \in S /\ y \notin U /\ U \cup {y} = T
    BY <2>2, <2>4
  <2>6. SumOver(u, U) = -SumOver(v, U)
    BY <2>1, <2>5
  <2> HIDE DEF U, B
  <2>7. SumOver(v, T) = SumOver(v, U) + v[y]
    BY <2>5, SumAdd
  <2>8. \A x \in S : u[x] \in Int
    OBVIOUS
  <2>9. SumOver(u, T) = SumOver(u, U) + u[y]
    BY <2>5, <2>8, SumAdd
  <2>10. SumOver(v, U) \in Int /\ v[y] \in Int /\ u[y] = -v[y]
    <3>1. IsFiniteSet(U) /\ \A x \in U : v[x] \in Int
      BY <2>5, FS_Subset
    <3> QED
      BY <2>5, <3>1, SumType
  <2>11. -(SumOver(v, U) + v[y]) = -SumOver(v, U) + (-v[y])
    BY <2>10
  <2> QED
    BY <2>2, <2>6, <2>7, <2>9, <2>10, <2>11
<1>2. S \notin B
  BY <1>1
<1> QED
  BY <1>2

LEMMA SumZero ==
  ASSUME NEW S, IsFiniteSet(S), NEW v, \A x \in S : v[x] = 0
  PROVE  SumOver(v, S) = 0
<1>1. \A x \in S : v[x] \in Int /\ v[x] = -v[x]
  OBVIOUS
<1>2. SumOver(v, S) = -SumOver(v, S)
  BY <1>1, SumNegated
<1>3. SumOver(v, S) \in Int
  BY <1>1, SumType
<1> QED
  BY <1>2, <1>3

(* Elements of no value do not matter. *)
LEMMA SumOfPart ==
  ASSUME NEW S, IsFiniteSet(S), NEW v, \A x \in S : v[x] \in Int,
         NEW T, T \subseteq S, \A x \in S \ T : v[x] = 0
  PROVE  SumOver(v, S) = SumOver(v, T)
<1> DEFINE R == S \ T
<1>1. R \subseteq S /\ T \cap R = {} /\ T \cup R = S /\ IsFiniteSet(R) /\ IsFiniteSet(T)
  BY FS_Subset
<1>2. \A x \in R : v[x] = 0
  OBVIOUS
<1>3. \A x \in T : v[x] \in Int
  OBVIOUS
<1> HIDE DEF R
<1>4. SumOver(v, T \cup R) = SumOver(v, T) + SumOver(v, R)
  BY <1>1, SumUnion
<1>5. SumOver(v, R) = 0
  BY <1>1, <1>2, SumZero
<1>6. SumOver(v, T) \in Int
  BY <1>1, <1>3, SumType
<1>7. SumOver(v, S) = SumOver(v, T) + SumOver(v, R)
  BY <1>1, <1>4
<1> QED
  BY <1>5, <1>6, <1>7

(* The size of a set. *)
LEMMA SumOnes ==
  ASSUME NEW S, IsFiniteSet(S), NEW v, \A x \in S : v[x] = 1
  PROVE  SumOver(v, S) = Cardinality(S)
<1> DEFINE B == {T \in SUBSET S : SumOver(v, T) # Cardinality(T)}
<1>1. ASSUME B # {}
      PROVE  FALSE
  <2>1. PICK T \in B : \A U \in B : U \subseteq T => U = T
    <3>1. B \subseteq SUBSET S
      OBVIOUS
    <3> HIDE DEF B
    <3> QED
      BY <1>1, <3>1, SmallestPart
  <2>2. T \subseteq S /\ SumOver(v, T) # Cardinality(T)
    OBVIOUS
  <2>3. T # {}
    BY <2>2, SumEmpty, FS_EmptySet
  <2>4. PICK y \in T : TRUE
    BY <2>3
  <2> DEFINE U == T \ {y}
  <2>5. U \subseteq S /\ U \subseteq T /\ U # T /\ y \in S /\ y \notin U /\ U \cup {y} = T
    BY <2>2, <2>4
  <2>6. SumOver(v, U) = Cardinality(U)
    BY <2>1, <2>5
  <2> HIDE DEF U, B
  <2>7. SumOver(v, T) = SumOver(v, U) + 1
    <3>1. \A x \in S : v[x] \in Int
      OBVIOUS
    <3> QED
      BY <2>5, <3>1, SumAdd
  <2>8. Cardinality(T) = Cardinality(U) + 1
    <3>1. IsFiniteSet(U)
      BY <2>5, FS_Subset
    <3> QED
      BY <2>5, <3>1, FS_AddElement
  <2> QED
    BY <2>2, <2>6, <2>7, <2>8
<1>2. S \notin B
  BY <1>1
<1> QED
  BY <1>2

=============================================================================
