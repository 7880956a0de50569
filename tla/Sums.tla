--------------------------------- MODULE Sums ---------------------------------
(***************************************************************************)
(* Laws of sums over finite sets.  The modules add up with MapThenSumSet,  *)
(* which takes an operator; here a sum is that of a function over its      *)
(* domain, so that sums can be compared.                                   *)
(***************************************************************************)
EXTENDS Integers, FiniteSets, FiniteSetsExt, FiniteSetTheorems, TLAPS

SumOf(w) == MapThenSumSet(LAMBDA x : w[x], DOMAIN w)

\* The part of w on T.
Part(w, T) == [x \in T |-> w[x]]

\* How a sum is computed: one element is taken out at a time.
Taken(T) == CHOOSE x \in T : TRUE
Adds(f, w, F) ==
    \A T \in F : f[T] = IF T = {} THEN 0 ELSE w[Taken(T)] + f[T \ {Taken(T)}]

-----------------------------------------------------------------------------
(* Induction over finite sets, and the sum of a function *)

\* Among subsets of a finite set some are smallest.
LEMMA Smallest ==
    ASSUME NEW D, IsFiniteSet(D), NEW Bad \in SUBSET SUBSET D, Bad # {}
    PROVE  \E T \in Bad : \A U \in Bad : U \subseteq T => U = T
<1>1. Bad \subseteq FiniteSubsetsOf(D) BY FS_FiniteSubsetsOfFinite
<1>2. IsWellFoundedOn(StrictSubsetOrdering(D), FiniteSubsetsOf(D))
    BY FS_StrictSubsetOrderingWellFounded
<1>3. \E T \in Bad : \A U \in Bad : ~(<<U, T>> \in StrictSubsetOrdering(D))
    BY <1>1, <1>2, WFMin
<1>4. QED BY <1>3 DEF StrictSubsetOrdering

\* A set of natural numbers up to n that is not empty has a least one.
LEMMA LeastNumber ==
    ASSUME NEW n \in Nat, NEW P \in SUBSET (0 .. n), P # {}
    PROVE  \E k \in P : \A j \in P : k <= j
<1> DEFINE Bad == {0 .. k : k \in P}
<1>1. PICK D : D = 0 .. n /\ IsFiniteSet(D) BY FS_Interval
<1>2. Bad \in SUBSET SUBSET D /\ Bad # {}
  <2>1. ASSUME NEW k \in P PROVE 0 .. k \subseteq 0 .. n OBVIOUS
  <2>2. QED BY <1>1, <2>1
<1>3. PICK T \in Bad : \A U \in Bad : U \subseteq T => U = T
  <2> HIDE DEF Bad
  <2>1. IsFiniteSet(D) BY <1>1
  <2>2. QED BY <2>1, <1>2, Smallest
<1>4. PICK k \in P : T = 0 .. k BY <1>3
<1>5. ASSUME NEW j \in P, j < k PROVE FALSE
  <2>1. 0 .. j \in Bad /\ 0 .. j \subseteq 0 .. k /\ k \notin 0 .. j /\ k \in 0 .. k BY <1>5
  <2>2. QED BY <1>3, <1>4, <2>1
<1>6. QED BY <1>4, <1>5

LEMMA TakenOut ==
    ASSUME NEW T, T # {}
    PROVE  Taken(T) \in T
BY DEF Taken

\* There is a function that adds up w on every part of its domain.
LEMMA SumExists ==
    ASSUME NEW S, IsFiniteSet(S), NEW w \in [S -> Int]
    PROVE  \E f \in [SUBSET S -> Int] : Adds(f, w, SUBSET S)
<1> DEFINE Level(k) == {T \in SUBSET S : Cardinality(T) <= k}
           Fine(k) == \E f \in [Level(k) -> Int] : Adds(f, w, Level(k))
           P == {k \in 0 .. Cardinality(S) : ~Fine(k)}
<1>1. Cardinality(S) \in Nat BY FS_CardinalityType
<1>2. \A T \in SUBSET S : /\ IsFiniteSet(T) /\ Cardinality(T) \in Nat
                          /\ Cardinality(T) <= Cardinality(S)
    BY FS_Subset, FS_CardinalityType
<1>3. \A T \in SUBSET S : T # {} =>
         /\ Taken(T) \in S /\ T \ {Taken(T)} \in SUBSET S
         /\ Cardinality(T \ {Taken(T)}) = Cardinality(T) - 1
    BY <1>2, TakenOut, FS_RemoveElement
<1>4. ASSUME P # {} PROVE FALSE
  <2>1. PICK k \in P : \A j \in P : k <= j BY <1>1, <1>4, LeastNumber
  <2>2. CASE k = 0
    <3>1. Level(0) \subseteq {{}} BY <1>2, FS_EmptySet
    <3>2. Adds([T \in Level(0) |-> 0], w, Level(0)) BY <3>1 DEF Adds
    <3>3. [T \in Level(0) |-> 0] \in [Level(0) -> Int] OBVIOUS
    <3>4. Fine(0) BY <3>2, <3>3
    <3>5. QED BY <2>1, <2>2, <3>4
  <2>3. CASE k # 0
    <3>1. k \in Nat /\ k - 1 \in Nat /\ k - 1 \in 0 .. Cardinality(S) BY <1>1, <2>1, <2>3
    <3>2. Fine(k - 1)
      <4>1. k - 1 \notin P
        <5> HIDE DEF P
        <5>1. QED BY <2>1, <3>1
      <4> HIDE DEF Fine
      <4>2. QED BY <3>1, <4>1
    <3>3. PICK f \in [Level(k - 1) -> Int] : Adds(f, w, Level(k - 1)) BY <3>2
    <3> DEFINE g == [T \in Level(k) |-> IF T = {} THEN 0 ELSE w[Taken(T)] + f[T \ {Taken(T)}]]
    <3>4. \A T \in Level(k) : T # {} =>
             T \ {Taken(T)} \in Level(k - 1) /\ T \ {Taken(T)} \in Level(k)
        BY <1>2, <1>3, <3>1
    <3>5. g \in [Level(k) -> Int] BY <1>3, <3>4
    <3>6. \A T \in Level(k - 1) : T \in Level(k) BY <1>2, <3>1
    <3>7. \A T \in Level(k - 1) : g[T] = f[T] BY <3>3, <3>6 DEF Adds
    <3>8. Adds(g, w, Level(k)) BY <3>4, <3>7 DEF Adds
    <3>9. Fine(k) BY <3>5, <3>8
    <3>10. QED BY <2>1, <3>9
  <2>4. QED BY <2>2, <2>3
<1>5. Fine(Cardinality(S))
  <2> HIDE DEF Fine
  <2>1. QED BY <1>1, <1>4
<1>6. Level(Cardinality(S)) = SUBSET S BY <1>2
<1>7. QED BY <1>5, <1>6

\* And only one.
LEMMA SumUnique ==
    ASSUME NEW S, IsFiniteSet(S), NEW w, NEW v, NEW f, NEW g, NEW D \in SUBSET S,
           \A x \in D : w[x] = v[x],
           Adds(f, w, SUBSET D), Adds(g, v, SUBSET D)
    PROVE  f[D] = g[D]
<1> DEFINE Bad == {T \in SUBSET D : f[T] # g[T]}
<1>1. ASSUME Bad # {} PROVE FALSE
  <2>1. IsFiniteSet(D) BY FS_Subset
  <2>2. Bad \in SUBSET SUBSET D OBVIOUS
  <2>3. PICK T \in Bad : \A U \in Bad : U \subseteq T => U = T
    <3> HIDE DEF Bad
    <3>1. QED BY <1>1, <2>1, <2>2, Smallest
  <2>4. T # {} BY <2>3 DEF Adds
  <2>5. Taken(T) \in T BY <2>4, TakenOut
  <2>6. f[T \ {Taken(T)}] = g[T \ {Taken(T)}] BY <2>3, <2>5
  <2>7. QED BY <2>3, <2>4, <2>5, <2>6 DEF Adds
<1>2. QED BY <1>1

\* What SumOf computes.
LEMMA SumIsIt ==
    ASSUME NEW S, IsFiniteSet(S), NEW w \in [S -> Int],
           NEW f \in [SUBSET S -> Int], Adds(f, w, SUBSET S)
    PROVE  SumOf(w) = f[S]
<1> DEFINE Run(h) == [T \in SUBSET S |-> IF T = {} THEN 0
                        ELSE LET x == CHOOSE x \in T : TRUE IN w[x] + h[T \ {x}]]
           g == CHOOSE h : h = Run(h)
<1>1. DOMAIN w = S OBVIOUS
<1>2. SumOf(w) = g[S] BY <1>1 DEF SumOf, MapThenSumSet, MapThenFoldSet
<1>3. f = Run(f) BY DEF Adds, Taken
<1>4. g = Run(g)
  <2>1. \E h : h = Run(h) BY <1>3
  <2> HIDE DEF Run
  <2>2. QED BY <2>1
<1>5. Adds(g, w, SUBSET S)
  <2>1. ASSUME NEW T \in SUBSET S
        PROVE  g[T] = IF T = {} THEN 0 ELSE w[Taken(T)] + g[T \ {Taken(T)}]
    <3> HIDE DEF g
    <3>1. g[T] = Run(g)[T] BY <1>4
    <3>2. QED BY <3>1 DEF Taken
  <2> HIDE DEF g
  <2>2. QED BY <2>1 DEF Adds
<1>6. QED
  <2> HIDE DEF g
  <2>1. g[S] = f[S] BY <1>5, SumUnique
  <2>2. QED BY <1>2, <2>1

\* A function that adds up w on every part of S has its sum at S.
LEMMA AddsIsSum ==
    ASSUME NEW S, IsFiniteSet(S), NEW w \in [S -> Int], NEW g, Adds(g, w, SUBSET S)
    PROVE  g[S] = SumOf(w)
<1>1. PICK f \in [SUBSET S -> Int] : Adds(f, w, SUBSET S) BY SumExists
<1>2. g[S] = f[S] BY <1>1, SumUnique
<1>3. QED BY <1>1, <1>2, SumIsIt

\* Every part of a function adds up to what the run over the whole finds there.
LEMMA SumParts ==
    ASSUME NEW S, IsFiniteSet(S), NEW w \in [S -> Int],
           NEW f \in [SUBSET S -> Int], Adds(f, w, SUBSET S), NEW T \in SUBSET S
    PROVE  SumOf(Part(w, T)) = f[T]
<1>1. IsFiniteSet(T) /\ Part(w, T) \in [T -> Int] BY FS_Subset DEF Part
<1>2. PICK g \in [SUBSET T -> Int] : Adds(g, Part(w, T), SUBSET T) BY <1>1, SumExists
<1>3. SumOf(Part(w, T)) = g[T] BY <1>1, <1>2, SumIsIt
<1>4. Adds(f, w, SUBSET T) BY DEF Adds
<1>5. \A x \in T : Part(w, T)[x] = w[x] BY DEF Part
<1>6. g[T] = f[T] BY <1>2, <1>4, <1>5, SumUnique
<1>7. QED BY <1>3, <1>6

-----------------------------------------------------------------------------
(* Laws *)

LEMMA SumEmpty ==
    ASSUME NEW w, DOMAIN w = {}
    PROVE  SumOf(w) = 0
<1>1. IsFiniteSet({}) BY FS_EmptySet
<1> DEFINE Run(h) == [T \in SUBSET {} |-> IF T = {} THEN 0
                        ELSE LET x == CHOOSE x \in T : TRUE IN w[x] + h[T \ {x}]]
           g == CHOOSE h : h = Run(h)
<1>2. SumOf(w) = g[{}] BY DEF SumOf, MapThenSumSet, MapThenFoldSet
<1>3. [T \in SUBSET {} |-> 0] = Run([T \in SUBSET {} |-> 0]) OBVIOUS
<1>4. g = Run(g)
  <2>1. \E h : h = Run(h) BY <1>3
  <2> HIDE DEF Run
  <2>2. QED BY <2>1
<1>5. g[{}] = 0
  <2> HIDE DEF g
  <2>1. g[{}] = Run(g)[{}] BY <1>4
  <2>2. QED BY <2>1
<1>6. QED BY <1>2, <1>5

LEMMA SumType ==
    ASSUME NEW S, IsFiniteSet(S), NEW w \in [S -> Int]
    PROVE  SumOf(w) \in Int
<1>1. PICK f \in [SUBSET S -> Int] : Adds(f, w, SUBSET S) BY SumExists
<1>2. QED BY <1>1, SumIsIt

\* It does not matter which element is taken out first.
LEMMA SumTakes ==
    ASSUME NEW S, IsFiniteSet(S), NEW w \in [S -> Int], NEW x \in S
    PROVE  SumOf(w) = SumOf(Part(w, S \ {x})) + w[x]
<1>1. PICK f \in [SUBSET S -> Int] : Adds(f, w, SUBSET S) BY SumExists
<1> DEFINE Bad == {T \in SUBSET S : \E y \in T : f[T] # w[y] + f[T \ {y}]}
<1>2. ASSUME Bad # {} PROVE FALSE
  <2>1. PICK T \in Bad : \A U \in Bad : U \subseteq T => U = T
    <3>1. Bad \in SUBSET SUBSET S OBVIOUS
    <3> HIDE DEF Bad
    <3>2. QED BY <1>2, <3>1, Smallest
  <2>2. PICK y \in T : f[T] # w[y] + f[T \ {y}] BY <2>1
  <2>3. PICK z : z = Taken(T) OBVIOUS
  <2>4. z \in T /\ T \in SUBSET S /\ f[T] = w[z] + f[T \ {z}]
      BY <1>1, <2>1, <2>2, <2>3, TakenOut DEF Adds
  <2>5. z # y BY <2>2, <2>4
  <2>6. T \ {z} \notin Bad /\ T \ {y} \notin Bad BY <2>1, <2>2, <2>4
  <2>7. f[T \ {z}] = w[y] + f[(T \ {z}) \ {y}] BY <2>2, <2>4, <2>5, <2>6
  <2>8. f[T \ {y}] = w[z] + f[(T \ {y}) \ {z}] BY <2>2, <2>4, <2>5, <2>6
  <2>9. (T \ {z}) \ {y} = (T \ {y}) \ {z} OBVIOUS
  <2>10. PICK a \in Int, b \in Int, c \in Int :
             a = w[y] /\ b = w[z] /\ c = f[(T \ {y}) \ {z}]
      BY <2>2, <2>4
  <2>11. f[T] = b + (a + c) /\ f[T \ {y}] = b + c BY <2>4, <2>7, <2>8, <2>9, <2>10
  <2>12. QED BY <2>2, <2>10, <2>11
<1>3. f[S] = w[x] + f[S \ {x}] BY <1>2
<1>4. SumOf(w) = f[S] BY <1>1, SumIsIt
<1>5. SumOf(Part(w, S \ {x})) = f[S \ {x}] BY <1>1, SumParts
<1>6. {w[x], f[S \ {x}]} \subseteq Int OBVIOUS
<1>7. QED BY <1>3, <1>4, <1>5, <1>6

LEMMA SumAdd ==
    ASSUME NEW S, IsFiniteSet(S), NEW x, x \notin S, NEW w \in [S \cup {x} -> Int]
    PROVE  SumOf(w) = SumOf(Part(w, S)) + w[x]
<1>1. IsFiniteSet(S \cup {x}) BY FS_AddElement
<1>2. (S \cup {x}) \ {x} = S OBVIOUS
<1>3. QED BY <1>1, <1>2, SumTakes

-----------------------------------------------------------------------------
(* The sum of a field: entries, transactions and redemptions have an amount *)

AmountsOf(S) == MapThenSumSet(LAMBDA x : x.amount, S)
AmountFcn(S) == [x \in S |-> x.amount]
InInt(S) == \A x \in S : x.amount \in Int

LEMMA AmountsSum ==
    ASSUME NEW S, IsFiniteSet(S), InInt(S)
    PROVE  AmountsOf(S) = SumOf(AmountFcn(S))
<1> DEFINE Run(h) == [T \in SUBSET S |-> IF T = {} THEN 0
                        ELSE LET x == CHOOSE x \in T : TRUE IN x.amount + h[T \ {x}]]
           g == CHOOSE h : h = Run(h)
<1>1. AmountFcn(S) \in [S -> Int] BY DEF AmountFcn, InInt
<1>2. AmountsOf(S) = g[S] BY DEF AmountsOf, MapThenSumSet, MapThenFoldSet
<1>3. PICK f \in [SUBSET S -> Int] : Adds(f, AmountFcn(S), SUBSET S) BY <1>1, SumExists
<1>4. \A T \in SUBSET S : T # {} => AmountFcn(S)[Taken(T)] = Taken(T).amount BY TakenOut DEF AmountFcn
<1>5. f = Run(f) BY <1>3, <1>4 DEF Adds, Taken
<1>6. g = Run(g)
  <2>1. \E h : h = Run(h) BY <1>5
  <2> HIDE DEF Run
  <2>2. QED BY <2>1
<1>7. Adds(g, AmountFcn(S), SUBSET S)
  <2>1. ASSUME NEW T \in SUBSET S
        PROVE  g[T] = IF T = {} THEN 0 ELSE AmountFcn(S)[Taken(T)] + g[T \ {Taken(T)}]
    <3> HIDE DEF g
    <3>1. g[T] = Run(g)[T] BY <1>6
    <3>2. QED BY <1>4, <3>1 DEF Taken
  <2> HIDE DEF g
  <2>2. QED BY <2>1 DEF Adds
<1>8. QED
  <2> HIDE DEF g
  <2>1. g[S] = f[S] BY <1>3, <1>7, SumUnique
  <2>2. QED BY <1>1, <1>2, <1>3, <2>1, SumIsIt

LEMMA AmountsType ==
    ASSUME NEW S, IsFiniteSet(S), InInt(S)
    PROVE  AmountsOf(S) \in Int
<1>1. AmountFcn(S) \in [S -> Int] BY DEF AmountFcn, InInt
<1>2. QED BY <1>1, AmountsSum, SumType

\* One more adds its amount.
LEMMA AmountsAdd ==
    ASSUME NEW S, IsFiniteSet(S), InInt(S), NEW x, x \notin S, x.amount \in Int
    PROVE  AmountsOf(S \cup {x}) = AmountsOf(S) + x.amount
<1>1. IsFiniteSet(S \cup {x}) /\ InInt(S \cup {x}) BY FS_AddElement DEF InInt
<1>2. AmountFcn(S \cup {x}) \in [S \cup {x} -> Int] BY <1>1 DEF AmountFcn, InInt
<1>3. Part(AmountFcn(S \cup {x}), S) = AmountFcn(S) /\ AmountFcn(S \cup {x})[x] = x.amount BY DEF Part, AmountFcn
<1>4. AmountsOf(S \cup {x}) = SumOf(AmountFcn(S \cup {x})) BY <1>1, AmountsSum
<1>5. AmountsOf(S) = SumOf(AmountFcn(S)) BY AmountsSum
<1>6. SumOf(AmountFcn(S \cup {x})) = SumOf(Part(AmountFcn(S \cup {x}), S)) + AmountFcn(S \cup {x})[x]
    BY <1>2, SumAdd
<1>7. QED BY <1>3, <1>4, <1>5, <1>6

-----------------------------------------------------------------------------
(* Laws of sums, each by induction over finite sets *)

\* What holds of nothing, and of one more whenever it holds of some, holds of all.
LEMMA FiniteInduction ==
    ASSUME NEW S, IsFiniteSet(S), NEW G \in SUBSET SUBSET S, {} \in G,
           \A U \in G : \A x \in S \ U : U \cup {x} \in G
    PROVE  S \in G
<1> DEFINE Bad == {T \in SUBSET S : T \notin G}
<1>1. ASSUME Bad # {} PROVE FALSE
  <2>1. PICK T \in Bad : \A U \in Bad : U \subseteq T => U = T
    <3>1. Bad \in SUBSET SUBSET S OBVIOUS
    <3> HIDE DEF Bad
    <3>2. QED BY <1>1, <3>1, Smallest
  <2>2. PICK x \in T : TRUE BY <2>1
  <2>3. T \ {x} \in G /\ x \in S \ (T \ {x}) BY <2>1, <2>2
  <2>4. (T \ {x}) \cup {x} = T BY <2>2
  <2>5. QED BY <2>1, <2>3, <2>4
<1>2. QED BY <1>1

LEMMA AmountsEmpty == AmountsOf({}) = 0
<1>1. IsFiniteSet({}) /\ InInt({}) BY FS_EmptySet DEF InInt
<1>2. AmountsOf({}) = SumOf(AmountFcn({})) BY <1>1, AmountsSum
<1>3. DOMAIN AmountFcn({}) = {} BY DEF AmountFcn
<1>4. QED BY <1>2, <1>3, SumEmpty

\* Sets of one-to-one corresponding elements with the same amounts have one sum.
LEMMA AmountsSame ==
    ASSUME NEW S, IsFiniteSet(S), InInt(S), NEW h,
           \A x \in S : h[x].amount = x.amount,
           \A x, y \in S : h[x] = h[y] => x = y
    PROVE  AmountsOf({h[x] : x \in S}) = AmountsOf(S)
<1> DEFINE Image(U) == {h[x] : x \in U}
           G == {U \in SUBSET S : AmountsOf(Image(U)) = AmountsOf(U) /\ IsFiniteSet(Image(U))}
<1>1. {} \in G
  <2>1. Image({}) = {} OBVIOUS
  <2>2. QED BY <2>1, FS_EmptySet
<1>2. ASSUME NEW U \in G, NEW x \in S \ U PROVE U \cup {x} \in G
  <2>1. Image(U \cup {x}) = Image(U) \cup {h[x]} OBVIOUS
  <2>2. h[x] \notin Image(U) BY <1>2
  <2>3. PICK V : V = Image(U) OBVIOUS
  <2>4. IsFiniteSet(U) /\ InInt(U) BY FS_Subset DEF InInt
  <2>5. IsFiniteSet(V) /\ InInt(V) BY <1>2, <2>3 DEF InInt
  <2>6. x.amount \in Int /\ h[x].amount = x.amount BY DEF InInt
  <2>7. AmountsOf(U \cup {x}) = AmountsOf(U) + x.amount BY <2>4, <2>6, AmountsAdd
  <2>8. AmountsOf(V \cup {h[x]}) = AmountsOf(V) + h[x].amount
      BY <2>2, <2>3, <2>5, <2>6, AmountsAdd
  <2>9. IsFiniteSet(V \cup {h[x]}) BY <2>5, FS_AddElement
  <2>10. QED BY <2>1, <2>3, <2>6, <2>7, <2>8, <2>9
<1>3. S \in G
  <2>1. G \in SUBSET SUBSET S OBVIOUS
  <2> HIDE DEF G
  <2>2. QED BY <1>1, <1>2, <2>1, FiniteInduction
<1>4. QED BY <1>3

\* The laws by induction: one more element adds the same on both sides.
LEMMA AmountsUnion ==
    ASSUME NEW S, NEW T, IsFiniteSet(S), IsFiniteSet(T), InInt(S), InInt(T), S \cap T = {}
    PROVE  AmountsOf(S \cup T) = AmountsOf(S) + AmountsOf(T)
<1> DEFINE G == {U \in SUBSET T : AmountsOf(S \cup U) = AmountsOf(S) + AmountsOf(U)}
<1>1. {} \in G
  <2>1. S \cup {} = S OBVIOUS
  <2>2. QED BY <2>1, AmountsEmpty, AmountsType
<1>2. ASSUME NEW U \in G, NEW x \in T \ U PROVE U \cup {x} \in G
  <2>1. /\ IsFiniteSet(U) /\ InInt(U) /\ x.amount \in Int
        /\ IsFiniteSet(S \cup U) /\ InInt(S \cup U)
      BY FS_Subset, FS_Union DEF InInt
  <2>2. S \cup (U \cup {x}) = (S \cup U) \cup {x} /\ x \notin S \cup U OBVIOUS
  <2>3. AmountsOf(U \cup {x}) = AmountsOf(U) + x.amount BY <2>1, AmountsAdd
  <2>4. AmountsOf((S \cup U) \cup {x}) = AmountsOf(S \cup U) + x.amount BY <2>1, <2>2, AmountsAdd
  <2>5. AmountsOf(S) \in Int /\ AmountsOf(U) \in Int BY <2>1, AmountsType
  <2>6. AmountsOf(S \cup U) = AmountsOf(S) + AmountsOf(U) OBVIOUS
  <2> HIDE DEF G
  <2>7. PICK a \in Int, b \in Int, c \in Int :
           a = AmountsOf(S) /\ b = AmountsOf(U) /\ c = x.amount
      BY <2>1, <2>5
  <2>8. AmountsOf(S \cup (U \cup {x})) = (a + b) + c /\ AmountsOf(U \cup {x}) = b + c
      BY <2>2, <2>3, <2>4, <2>6, <2>7
  <2>9. AmountsOf(S \cup (U \cup {x})) = AmountsOf(S) + AmountsOf(U \cup {x})
      BY <2>7, <2>8
  <2>10. QED BY <2>9 DEF G
<1>3. T \in G
  <2>1. G \in SUBSET SUBSET T OBVIOUS
  <2> HIDE DEF G
  <2>2. QED BY <1>1, <1>2, <2>1, FiniteInduction
<1>4. QED BY <1>3

LEMMA AmountsNotNegative ==
    ASSUME NEW S, IsFiniteSet(S), InInt(S), \A x \in S : x.amount >= 0
    PROVE  AmountsOf(S) >= 0
<1> DEFINE G == {U \in SUBSET S : AmountsOf(U) >= 0}
<1>1. {} \in G BY AmountsEmpty
<1>2. ASSUME NEW U \in G, NEW x \in S \ U PROVE U \cup {x} \in G
  <2>1. IsFiniteSet(U) /\ InInt(U) /\ x.amount \in Int BY FS_Subset DEF InInt
  <2>2. AmountsOf(U \cup {x}) = AmountsOf(U) + x.amount /\ AmountsOf(U) \in Int
      BY <2>1, AmountsAdd, AmountsType
  <2>3. QED BY <2>1, <2>2
<1>3. S \in G
  <2>1. G \in SUBSET SUBSET S OBVIOUS
  <2> HIDE DEF G
  <2>2. QED BY <1>1, <1>2, <2>1, FiniteInduction
<1>4. QED BY <1>3

\* Elements that correspond one to one, with opposite amounts.
LEMMA AmountsOpposite ==
    ASSUME NEW S, IsFiniteSet(S), InInt(S), NEW h,
           \A x \in S : h[x].amount = -x.amount,
           \A x, y \in S : h[x] = h[y] => x = y
    PROVE  AmountsOf({h[x] : x \in S}) = -AmountsOf(S)
<1> DEFINE Image(U) == {h[x] : x \in U}
           G == {U \in SUBSET S : AmountsOf(Image(U)) = -AmountsOf(U) /\ IsFiniteSet(Image(U))}
<1>1. {} \in G
  <2>1. Image({}) = {} OBVIOUS
  <2>2. QED BY <2>1, FS_EmptySet, AmountsEmpty
<1>2. ASSUME NEW U \in G, NEW x \in S \ U PROVE U \cup {x} \in G
  <2>1. Image(U \cup {x}) = Image(U) \cup {h[x]} OBVIOUS
  <2>2. h[x] \notin Image(U) BY <1>2
  <2>3. PICK V : V = Image(U) OBVIOUS
  <2>4. IsFiniteSet(U) /\ InInt(U) BY FS_Subset DEF InInt
  <2>5. IsFiniteSet(V) /\ InInt(V) BY <1>2, <2>3 DEF InInt
  <2>6. x.amount \in Int /\ h[x].amount = -x.amount BY DEF InInt
  <2>7. AmountsOf(U \cup {x}) = AmountsOf(U) + x.amount /\ AmountsOf(U) \in Int
      BY <2>4, <2>6, AmountsAdd, AmountsType
  <2>8. AmountsOf(V \cup {h[x]}) = AmountsOf(V) + h[x].amount
      BY <2>2, <2>3, <2>5, <2>6, AmountsAdd
  <2>9. IsFiniteSet(V \cup {h[x]}) BY <2>5, FS_AddElement
  <2>10. AmountsOf(V) = -AmountsOf(U) BY <2>3
  <2>11. AmountsOf(V \cup {h[x]}) = -AmountsOf(U \cup {x}) BY <2>6, <2>7, <2>8, <2>10
  <2>12. QED BY <2>1, <2>3, <2>9, <2>11
<1>3. S \in G
  <2>1. G \in SUBSET SUBSET S OBVIOUS
  <2> HIDE DEF G
  <2>2. QED BY <1>1, <1>2, <2>1, FiniteInduction
<1>4. QED BY <1>3

\* What corresponds one to one to no less, among what is not negative.
LEMMA AmountsBelow ==
    ASSUME NEW S, IsFiniteSet(S), InInt(S), NEW T, IsFiniteSet(T), InInt(T), NEW h,
           \A x \in S : h[x] \in T /\ x.amount <= h[x].amount,
           \A x, y \in S : h[x] = h[y] => x = y,
           \A x \in T : x.amount >= 0
    PROVE  AmountsOf(S) <= AmountsOf(T)
<1> DEFINE Image(U) == {h[x] : x \in U}
           G == {U \in SUBSET S : AmountsOf(U) <= AmountsOf(Image(U))}
<1>1. {} \in G
  <2>1. Image({}) = {} OBVIOUS
  <2>2. QED BY <2>1, AmountsEmpty
<1>2. ASSUME NEW U \in G, NEW x \in S \ U PROVE U \cup {x} \in G
  <2>1. Image(U \cup {x}) = Image(U) \cup {h[x]} OBVIOUS
  <2>2. h[x] \notin Image(U) BY <1>2
  <2>3. PICK V : V = Image(U) OBVIOUS
  <2>4. IsFiniteSet(U) /\ InInt(U) BY FS_Subset DEF InInt
  <2>5. IsFiniteSet(V) /\ InInt(V)
    <3>1. V \subseteq T BY <2>3
    <3>2. QED BY <3>1, FS_Subset DEF InInt
  <2>6. x.amount \in Int /\ h[x].amount \in Int /\ x.amount <= h[x].amount BY DEF InInt
  <2>7. /\ AmountsOf(U \cup {x}) = AmountsOf(U) + x.amount
        /\ AmountsOf(U) \in Int /\ AmountsOf(V) \in Int
      BY <2>4, <2>5, <2>6, AmountsAdd, AmountsType
  <2>8. AmountsOf(V \cup {h[x]}) = AmountsOf(V) + h[x].amount
      BY <2>2, <2>3, <2>5, <2>6, AmountsAdd
  <2>9. AmountsOf(U) <= AmountsOf(V) BY <2>3
  <2>10. AmountsOf(U \cup {x}) <= AmountsOf(V \cup {h[x]}) BY <2>6, <2>7, <2>8, <2>9
  <2>11. QED BY <2>1, <2>3, <2>10
<1>3. S \in G
  <2>1. G \in SUBSET SUBSET S OBVIOUS
  <2> HIDE DEF G
  <2>2. QED BY <1>1, <1>2, <2>1, FiniteInduction
<1>4. PICK V : V = Image(S) OBVIOUS
<1>5. V \subseteq T BY <1>4
<1>6. IsFiniteSet(V) /\ InInt(V) /\ IsFiniteSet(T \ V) /\ InInt(T \ V)
    BY <1>5, FS_Subset DEF InInt
<1>7. AmountsOf(T \ V) >= 0 BY <1>6, AmountsNotNegative
<1>8. AmountsOf(V \cup (T \ V)) = AmountsOf(V) + AmountsOf(T \ V) BY <1>6, AmountsUnion
<1>9. V \cup (T \ V) = T BY <1>5
<1>10. AmountsOf(S) <= AmountsOf(V) BY <1>3, <1>4
<1>11. AmountsOf(S) \in Int /\ AmountsOf(V) \in Int /\ AmountsOf(T \ V) \in Int BY <1>6, AmountsType
<1>12. AmountsOf(T) = AmountsOf(V) + AmountsOf(T \ V) BY <1>8, <1>9
<1>13. QED
  <2> HIDE DEF G
  <2>1. QED BY <1>7, <1>10, <1>11, <1>12

\* Sums of functions: what is added element by element, and what adds nothing.
LEMMA SumPlus ==
    ASSUME NEW S, IsFiniteSet(S), NEW w \in [S -> Int], NEW v \in [S -> Int],
           NEW u \in [S -> Int], \A x \in S : u[x] = w[x] + v[x]
    PROVE  SumOf(u) = SumOf(w) + SumOf(v)
<1> DEFINE G == {U \in SUBSET S : SumOf(Part(u, U)) = SumOf(Part(w, U)) + SumOf(Part(v, U))}
<1>1. {} \in G
  <2>1. SumOf(Part(u, {})) = 0 /\ SumOf(Part(w, {})) = 0 /\ SumOf(Part(v, {})) = 0
      BY SumEmpty DEF Part
  <2>2. QED BY <2>1
<1>2. ASSUME NEW U \in G, NEW x \in S \ U PROVE U \cup {x} \in G
  <2>1. IsFiniteSet(U) BY FS_Subset
  <2>2. ASSUME NEW f \in [S -> Int]
        PROVE  SumOf(Part(f, U \cup {x})) = SumOf(Part(f, U)) + f[x] /\ SumOf(Part(f, U)) \in Int
    <3>1. PICK g : g = Part(f, U \cup {x}) OBVIOUS
    <3>2. g \in [U \cup {x} -> Int] /\ Part(f, U) \in [U -> Int] /\ x \notin U BY <3>1 DEF Part
    <3>3. Part(g, U) = Part(f, U) /\ g[x] = f[x] BY <3>1 DEF Part
    <3> HIDE DEF G
    <3>4. SumOf(g) = SumOf(Part(g, U)) + g[x] BY <2>1, <3>2, SumAdd
    <3>5. SumOf(Part(f, U)) \in Int BY <2>1, <3>2, SumType
    <3>6. QED BY <3>1, <3>3, <3>4, <3>5
  <2>3. SumOf(Part(u, U)) = SumOf(Part(w, U)) + SumOf(Part(v, U)) OBVIOUS
  <2>4. PICK a \in Int, b \in Int : a = w[x] /\ b = v[x] /\ u[x] = a + b OBVIOUS
  <2>5. PICK p \in Int, q \in Int : p = SumOf(Part(w, U)) /\ q = SumOf(Part(v, U)) BY <2>2
  <2>6. SumOf(Part(u, U \cup {x})) = (p + q) + (a + b) BY <2>2, <2>3, <2>4, <2>5
  <2>7. SumOf(Part(w, U \cup {x})) = p + a /\ SumOf(Part(v, U \cup {x})) = q + b
      BY <2>2, <2>4, <2>5
  <2>8. QED BY <2>6, <2>7
<1>3. S \in G
  <2>1. G \in SUBSET SUBSET S OBVIOUS
  <2> HIDE DEF G
  <2>2. QED BY <1>1, <1>2, <2>1, FiniteInduction
<1>4. Part(u, S) = u /\ Part(w, S) = w /\ Part(v, S) = v BY DEF Part
<1>5. QED BY <1>3, <1>4

LEMMA SumZeros ==
    ASSUME NEW S, IsFiniteSet(S), NEW w \in [S -> Int], NEW T \in SUBSET S,
           \A x \in S \ T : w[x] = 0
    PROVE  SumOf(w) = SumOf(Part(w, T))
<1> DEFINE G == {U \in SUBSET (S \ T) : SumOf(Part(w, T \cup U)) = SumOf(Part(w, T))}
<1>1. {} \in G
  <2>1. T \cup {} = T OBVIOUS
  <2>2. QED BY <2>1
<1>2. ASSUME NEW U \in G, NEW x \in (S \ T) \ U PROVE U \cup {x} \in G
  <2>1. PICK V : V = T \cup U OBVIOUS
  <2>2. IsFiniteSet(V) /\ V \subseteq S /\ x \notin V /\ T \cup (U \cup {x}) = V \cup {x}
      BY <2>1, FS_Subset
  <2>3. Part(w, V \cup {x}) \in [V \cup {x} -> Int] /\ Part(w, V) \in [V -> Int] BY <2>2 DEF Part
  <2>4. Part(Part(w, V \cup {x}), V) = Part(w, V) /\ Part(w, V \cup {x})[x] = 0 BY DEF Part
  <2>5. SumOf(Part(w, V \cup {x})) = SumOf(Part(Part(w, V \cup {x}), V)) + Part(w, V \cup {x})[x]
      BY <2>2, <2>3, SumAdd
  <2>6. SumOf(Part(w, V)) \in Int BY <2>2, <2>3, SumType
  <2>7. SumOf(Part(w, V)) = SumOf(Part(w, T)) BY <2>1
  <2>8. SumOf(Part(w, V \cup {x})) = SumOf(Part(w, T)) BY <2>4, <2>5, <2>6, <2>7
  <2>9. QED BY <2>2, <2>8
<1>3. S \ T \in G
  <2>1. G \in SUBSET SUBSET (S \ T) /\ IsFiniteSet(S \ T) BY FS_Subset
  <2> HIDE DEF G
  <2>2. QED BY <1>1, <1>2, <2>1, FiniteInduction
<1>4. T \cup (S \ T) = S /\ Part(w, S) = w BY DEF Part
<1>5. QED BY <1>3, <1>4

\* A sum over a set of sums over its parts: M indexes them, Of says where an
\* element belongs.
LEMMA AmountsByParts ==
    ASSUME NEW S, IsFiniteSet(S), InInt(S), NEW M, IsFiniteSet(M), NEW of,
           \A x \in S : of[x] \in M,
           NEW w \in [M -> Int], \A m \in M : w[m] = AmountsOf({x \in S : of[x] = m})
    PROVE  SumOf(w) = AmountsOf(S)
<1> DEFINE In(U) == {x \in S : of[x] \in U}
           G == {U \in SUBSET M : SumOf(Part(w, U)) = AmountsOf(In(U))}
<1>1. {} \in G
  <2>1. In({}) = {} OBVIOUS
  <2>2. SumOf(Part(w, {})) = 0 BY SumEmpty DEF Part
  <2>3. QED BY <2>1, <2>2, AmountsEmpty
<1>2. ASSUME NEW U \in G, NEW m \in M \ U PROVE U \cup {m} \in G
  <2>1. PICK A, B : A = In(U) /\ B = {x \in S : of[x] = m} OBVIOUS
  <2>2. In(U \cup {m}) = A \cup B /\ A \cap B = {} BY <2>1
  <2>3. IsFiniteSet(A) /\ InInt(A) /\ IsFiniteSet(B) /\ InInt(B) /\ IsFiniteSet(U)
      BY <2>1, FS_Subset DEF InInt
  <2>4. Part(w, U \cup {m}) \in [U \cup {m} -> Int] BY DEF Part
  <2>5. Part(Part(w, U \cup {m}), U) = Part(w, U) /\ Part(w, U \cup {m})[m] = w[m] BY DEF Part
  <2>6. SumOf(Part(w, U \cup {m})) = SumOf(Part(w, U)) + w[m]
    <3>1. SumOf(Part(w, U \cup {m})) = SumOf(Part(Part(w, U \cup {m}), U)) + Part(w, U \cup {m})[m]
        BY <2>3, <2>4, SumAdd
    <3>2. QED BY <2>5, <3>1
  <2>7. AmountsOf(A \cup B) = AmountsOf(A) + AmountsOf(B) BY <2>2, <2>3, AmountsUnion
  <2>8. SumOf(Part(w, U)) = AmountsOf(A) /\ w[m] = AmountsOf(B) BY <2>1
  <2>9. QED BY <2>2, <2>6, <2>7, <2>8
<1>3. M \in G
  <2>1. G \in SUBSET SUBSET M OBVIOUS
  <2> HIDE DEF G
  <2>2. QED BY <1>1, <1>2, <2>1, FiniteInduction
<1>4. Part(w, M) = w /\ In(M) = S BY DEF Part
<1>5. QED BY <1>3, <1>4

\* One more element of a part of a sum adds its value.
LEMMA SumMore ==
    ASSUME NEW S, IsFiniteSet(S), NEW f \in [S -> Int], NEW U \in SUBSET S, NEW x \in S \ U
    PROVE  SumOf(Part(f, U \cup {x})) = SumOf(Part(f, U)) + f[x] /\ SumOf(Part(f, U)) \in Int
<1>1. IsFiniteSet(U) BY FS_Subset
<1>2. PICK g : g = Part(f, U \cup {x}) OBVIOUS
<1>3. g \in [U \cup {x} -> Int] /\ Part(f, U) \in [U -> Int] /\ x \notin U BY <1>2 DEF Part
<1>4. Part(g, U) = Part(f, U) /\ g[x] = f[x] BY <1>2 DEF Part
<1>5. SumOf(g) = SumOf(Part(g, U)) + g[x] BY <1>1, <1>3, SumAdd
<1>6. SumOf(Part(f, U)) \in Int BY <1>1, <1>3, SumType
<1>7. QED BY <1>2, <1>4, <1>5, <1>6

\* The sum over two parts with nothing in common is the sum of theirs.
LEMMA SumUnion ==
    ASSUME NEW S, IsFiniteSet(S), NEW f \in [S -> Int], NEW A \in SUBSET S, NEW B \in SUBSET S,
           A \cap B = {}
    PROVE  SumOf(Part(f, A \cup B)) = SumOf(Part(f, A)) + SumOf(Part(f, B))
<1> DEFINE G == {U \in SUBSET B : SumOf(Part(f, A \cup U)) = SumOf(Part(f, A)) + SumOf(Part(f, U))}
<1>1. {} \in G
  <2>1. A \cup {} = A OBVIOUS
  <2>2. SumOf(Part(f, {})) = 0 BY SumEmpty DEF Part
  <2>3. IsFiniteSet(A) /\ Part(f, A) \in [A -> Int] BY FS_Subset DEF Part
  <2>4. SumOf(Part(f, A)) \in Int BY <2>3, SumType
  <2>5. QED BY <2>1, <2>2, <2>4
<1>2. ASSUME NEW U \in G, NEW x \in B \ U PROVE U \cup {x} \in G
  <2>1. A \cup U \in SUBSET S /\ x \in S \ (A \cup U) /\ x \in S \ U
        /\ A \cup (U \cup {x}) = (A \cup U) \cup {x}
      OBVIOUS
  <2>2. SumOf(Part(f, (A \cup U) \cup {x})) = SumOf(Part(f, A \cup U)) + f[x]
    <3>1. PICK V : V = A \cup U OBVIOUS
    <3>2. V \in SUBSET S /\ x \in S \ V BY <2>1, <3>1
    <3>3. SumOf(Part(f, V \cup {x})) = SumOf(Part(f, V)) + f[x] BY <3>2, SumMore
    <3>4. QED BY <3>1, <3>3
  <2>3. SumOf(Part(f, U \cup {x})) = SumOf(Part(f, U)) + f[x] /\ SumOf(Part(f, U)) \in Int
      BY <2>1, SumMore
  <2>4. SumOf(Part(f, A \cup U)) = SumOf(Part(f, A)) + SumOf(Part(f, U)) OBVIOUS
  <2>5. SumOf(Part(f, A)) \in Int
    <3>1. IsFiniteSet(A) /\ Part(f, A) \in [A -> Int] BY FS_Subset DEF Part
    <3>2. QED BY <3>1, SumType
  <2>6. PICK a \in Int, b \in Int, c \in Int :
           a = SumOf(Part(f, A)) /\ b = SumOf(Part(f, U)) /\ c = f[x]
      BY <2>1, <2>3, <2>5
  <2>7. SumOf(Part(f, A \cup (U \cup {x}))) = (a + b) + c /\ SumOf(Part(f, U \cup {x})) = b + c
      BY <2>1, <2>2, <2>3, <2>4, <2>6
  <2>8. QED BY <2>6, <2>7
<1>3. B \in G
  <2>1. G \in SUBSET SUBSET B /\ IsFiniteSet(B) BY FS_Subset
  <2> HIDE DEF G
  <2>2. QED BY <1>1, <1>2, <2>1, FiniteInduction
<1>4. QED BY <1>3

\* The sum of the sums over parts: M indexes them, of says where an element belongs.
LEMMA SumByParts ==
    ASSUME NEW S, IsFiniteSet(S), NEW v \in [S -> Int], NEW M, IsFiniteSet(M), NEW of,
           \A x \in S : of[x] \in M,
           NEW w \in [M -> Int], \A m \in M : w[m] = SumOf(Part(v, {x \in S : of[x] = m}))
    PROVE  SumOf(w) = SumOf(v)
<1> DEFINE In(U) == {x \in S : of[x] \in U}
           G == {U \in SUBSET M : SumOf(Part(w, U)) = SumOf(Part(v, In(U)))}
<1>1. {} \in G
  <2>1. In({}) = {} OBVIOUS
  <2>2. SumOf(Part(w, {})) = 0 /\ SumOf(Part(v, {})) = 0 BY SumEmpty DEF Part
  <2>3. QED BY <2>1, <2>2
<1>2. ASSUME NEW U \in G, NEW m \in M \ U PROVE U \cup {m} \in G
  <2>1. PICK A, B : A = In(U) /\ B = {x \in S : of[x] = m} OBVIOUS
  <2>2. In(U \cup {m}) = A \cup B /\ A \cap B = {} /\ A \in SUBSET S /\ B \in SUBSET S BY <2>1
  <2>3. SumOf(Part(v, A \cup B)) = SumOf(Part(v, A)) + SumOf(Part(v, B)) BY <2>2, SumUnion
  <2>4. SumOf(Part(w, U \cup {m})) = SumOf(Part(w, U)) + w[m] BY SumMore
  <2>5. SumOf(Part(w, U)) = SumOf(Part(v, A)) /\ w[m] = SumOf(Part(v, B)) BY <2>1
  <2>6. QED BY <2>2, <2>3, <2>4, <2>5
<1>3. M \in G
  <2>1. G \in SUBSET SUBSET M OBVIOUS
  <2> HIDE DEF G
  <2>2. QED BY <1>1, <1>2, <2>1, FiniteInduction
<1>4. Part(w, M) = w /\ In(M) = S /\ Part(v, S) = v BY DEF Part
<1>5. QED BY <1>3, <1>4

\* How many there are, from how many there are of each part.
LEMMA CountByParts ==
    ASSUME NEW S, IsFiniteSet(S), NEW M, IsFiniteSet(M), NEW of, \A x \in S : of[x] \in M,
           NEW w \in [M -> Int], \A m \in M : w[m] = Cardinality({x \in S : of[x] = m})
    PROVE  SumOf(w) = Cardinality(S)
<1> DEFINE In(U) == {x \in S : of[x] \in U}
           G == {U \in SUBSET M : SumOf(Part(w, U)) = Cardinality(In(U))}
<1>1. {} \in G
  <2>1. In({}) = {} OBVIOUS
  <2>2. SumOf(Part(w, {})) = 0 BY SumEmpty DEF Part
  <2>3. QED BY <2>1, <2>2, FS_EmptySet
<1>2. ASSUME NEW U \in G, NEW m \in M \ U PROVE U \cup {m} \in G
  <2>1. PICK A, B : A = In(U) /\ B = {x \in S : of[x] = m} OBVIOUS
  <2>2. In(U \cup {m}) = A \cup B /\ A \cap B = {} /\ A \in SUBSET S /\ B \in SUBSET S BY <2>1
  <2>3. IsFiniteSet(A) /\ IsFiniteSet(B) BY <2>2, FS_Subset
  <2>4. Cardinality(A \cup B) = Cardinality(A) + Cardinality(B) - Cardinality({}) BY <2>2, <2>3, FS_Union
  <2>5. Cardinality({}) = 0 BY FS_EmptySet
  <2>6. SumOf(Part(w, U \cup {m})) = SumOf(Part(w, U)) + w[m] BY SumMore
  <2>7. SumOf(Part(w, U)) = Cardinality(A) /\ w[m] = Cardinality(B) BY <2>1
  <2>8. PICK a \in Nat, b \in Nat : a = Cardinality(A) /\ b = Cardinality(B)
      BY <2>3, FS_CardinalityType
  <2>9. Cardinality(A \cup B) = a + b BY <2>4, <2>5, <2>8
  <2>10. SumOf(Part(w, U \cup {m})) = a + b BY <2>6, <2>7, <2>8
  <2>11. QED BY <2>2, <2>9, <2>10
<1>3. M \in G
  <2>1. G \in SUBSET SUBSET M OBVIOUS
  <2> HIDE DEF G
  <2>2. QED BY <1>1, <1>2, <2>1, FiniteInduction
<1>4. Part(w, M) = w /\ In(M) = S BY DEF Part
<1>5. QED BY <1>3, <1>4

\* Corresponding elements with the same values have one sum.
LEMMA SumSame ==
    ASSUME NEW S, IsFiniteSet(S), NEW w \in [S -> Int], NEW h, \A x, y \in S : h[x] = h[y] => x = y,
           NEW T, T = {h[x] : x \in S}, NEW v \in [T -> Int], \A x \in S : v[h[x]] = w[x]
    PROVE  IsFiniteSet(T) /\ SumOf(v) = SumOf(w)
<1> DEFINE Image(U) == {h[x] : x \in U}
           G == {U \in SUBSET S : SumOf(Part(w, U)) = SumOf(Part(v, Image(U)))}
<1>0. IsFiniteSet(T)
  <2>1. [x \in S |-> h[x]] \in Surjection(S, T) BY DEF Surjection
  <2>2. QED BY <2>1, FS_Surjection
<1>1. {} \in G
  <2>1. Image({}) = {} OBVIOUS
  <2>2. SumOf(Part(w, {})) = 0 /\ SumOf(Part(v, {})) = 0 BY SumEmpty DEF Part
  <2>3. QED BY <2>1, <2>2
<1>2. ASSUME NEW U \in G, NEW x \in S \ U PROVE U \cup {x} \in G
  <2>1. PICK V : V = Image(U) OBVIOUS
  <2>2. Image(U \cup {x}) = V \cup {h[x]} /\ V \in SUBSET T /\ h[x] \in T \ V BY <2>1
  <2>3. SumOf(Part(v, V \cup {h[x]})) = SumOf(Part(v, V)) + v[h[x]] BY <1>0, <2>2, SumMore
  <2>4. SumOf(Part(w, U \cup {x})) = SumOf(Part(w, U)) + w[x] BY SumMore
  <2>5. SumOf(Part(w, U)) = SumOf(Part(v, V)) BY <2>1
  <2>6. QED BY <2>2, <2>3, <2>4, <2>5
<1>3. S \in G
  <2>1. G \in SUBSET SUBSET S OBVIOUS
  <2> HIDE DEF G
  <2>2. QED BY <1>1, <1>2, <2>1, FiniteInduction
<1>4. Part(w, S) = w /\ Image(S) = T /\ Part(v, T) = v BY DEF Part
<1>5. QED BY <1>0, <1>3, <1>4

\* The largest of some numbers up to n is one of them.
LEMMA Largest ==
    ASSUME NEW n \in Nat, NEW S \in SUBSET (0 .. n), S # {}
    PROVE  Max(S) \in S
<1> DEFINE P == {n - x : x \in S}
<1>1. P \in SUBSET (0 .. n) /\ P # {}
  <2>1. ASSUME NEW x \in S PROVE n - x \in 0 .. n
    <3>1. x \in Nat /\ x <= n OBVIOUS
    <3>2. QED BY <3>1
  <2>2. QED BY <2>1
<1>2. PICK k \in P : \A j \in P : k <= j
  <2> HIDE DEF P
  <2>1. QED BY <1>1, LeastNumber
<1>3. PICK x \in S : k = n - x BY <1>2
<1>4. \A y \in S : x >= y BY <1>2, <1>3
<1>5. QED BY <1>3, <1>4 DEF Max
================================================================================
