-------------------------------- MODULE Sums --------------------------------
(***************************************************************************)
(* SumFunction of a function with a finite domain: it is an integer, and   *)
(* it follows a change of the function at one point.  The recursion that   *)
(* defines it picks the elements in an order nobody knows, so every fact   *)
(* goes through a function that is additive whatever the order: one        *)
(* exists, and it solves the recursion, whose solution is unique.          *)
(* At the end, what proofs about other folds and recursive functions need. *)
(***************************************************************************)
EXTENDS Integers, Functions, FiniteSetTheorems, WellFoundedInduction, TLAPS

(* sum[T] is the sum of f over T, for every subset T of S. *)
Additive(f, S, sum) ==
  /\ sum \in [SUBSET S -> Int]
  /\ sum[{}] = 0
  /\ \A T \in SUBSET S : \A x \in T : sum[T] = f[x] + sum[T \ {x}]

Pick(T) == CHOOSE x \in T : TRUE

(* The recursion of MapThenFoldSet, for sums. *)
Recursion(f, S, sum) ==
  sum = [T \in SUBSET S |-> IF T = {} THEN 0 ELSE f[Pick(T)] + sum[T \ {Pick(T)}]]

-----------------------------------------------------------------------------
(* A non-empty family of subsets of a finite set has a least one. *)
LEMMA MinimalSubset ==
  ASSUME NEW S, IsFiniteSet(S), NEW F, F \subseteq SUBSET S, F # {}
  PROVE  \E T \in F : \A U \in F : ~ (U \subseteq T /\ U # T)
<1>1. IsWellFoundedOn(StrictSubsetOrdering(S), SUBSET S)
  BY FS_FiniteSubsetsOfFinite, FS_StrictSubsetOrderingWellFounded
<1>2. PICK T \in F : \A U \in F : ~ (<<U, T>> \in StrictSubsetOrdering(S))
  BY <1>1, WFMin
<1>3. ASSUME NEW U \in F, U \subseteq T, U # T PROVE FALSE
  <2>1. <<U, T>> \in (SUBSET S) \X (SUBSET S)
    OBVIOUS
  <2>2. <<U, T>> \in StrictSubsetOrdering(S)
    BY <2>1, <1>3 DEF StrictSubsetOrdering
  <2> QED BY <2>2, <1>2
<1> QED BY <1>3

(* Adding an element's value extends an additive function to a larger set. *)
LEMMA AdditiveExtends ==
  ASSUME NEW S, NEW f \in [S -> Int], NEW T \in SUBSET S, NEW x \in T,
         NEW sum, Additive(f, T \ {x}, sum)
  PROVE  \E ext : Additive(f, T, ext)
<1> DEFINE ext == [U \in SUBSET T |-> IF x \in U THEN f[x] + sum[U \ {x}] ELSE sum[U]]
<1>1. \A U \in SUBSET T : U \ {x} \in SUBSET (T \ {x}) /\ (x \notin U => U \in SUBSET (T \ {x}))
  OBVIOUS
<1>2. \A U \in SUBSET (T \ {x}) : sum[U] \in Int
  BY DEF Additive
<1>3. ext \in [SUBSET T -> Int]
  BY <1>1, <1>2
<1>4. ext[{}] = 0
  BY DEF Additive
<1>5. ASSUME NEW U \in SUBSET T, NEW y \in U PROVE ext[U] = f[y] + ext[U \ {y}]
  <2>1. CASE y = x
    BY <2>1
  <2>2. CASE y # x /\ x \in U
    <3>1. y \in U \ {x} /\ U \ {x} \in SUBSET (T \ {x})
      BY <2>2
    <3>2. sum[U \ {x}] = f[y] + sum[(U \ {x}) \ {y}]
      BY <3>1 DEF Additive
    <3>3. (U \ {x}) \ {y} = (U \ {y}) \ {x}
      OBVIOUS
    <3>4. ext[U] = f[x] + sum[U \ {x}] /\ ext[U \ {y}] = f[x] + sum[(U \ {y}) \ {x}]
      BY <2>2
    <3>5. f[x] \in Int /\ f[y] \in Int /\ sum[(U \ {y}) \ {x}] \in Int
      BY <1>1, <1>2
    <3>6. sum[U \ {x}] = f[y] + sum[(U \ {y}) \ {x}]
      BY <3>2, <3>3, Zenon
    <3> HIDE DEF ext
    <3> QED BY <3>4, <3>5, <3>6
  <2>3. CASE x \notin U
    BY <2>3, <1>1 DEF Additive
  <2> QED BY <2>1, <2>2, <2>3
<1>6. Additive(f, T, ext)
  BY <1>3, <1>4, <1>5 DEF Additive
<1> QED BY <1>6

LEMMA AdditiveExists ==
  ASSUME NEW S, IsFiniteSet(S), NEW f \in [S -> Int]
  PROVE  \E sum : Additive(f, S, sum)
<1> DEFINE Bad == {T \in SUBSET S : ~ \E sum : Additive(f, T, sum)}
<1>1. SUFFICES ASSUME Bad # {} PROVE FALSE
  OBVIOUS
<1>2. PICK T \in Bad : \A U \in Bad : ~ (U \subseteq T /\ U # T)
  <2>1. Bad \subseteq SUBSET S
    OBVIOUS
  <2> HIDE DEF Bad
  <2> QED BY <1>1, <2>1, MinimalSubset
<1>3. CASE T = {}
  <2>1. Additive(f, {}, [U \in SUBSET {} |-> 0])
    BY DEF Additive
  <2> QED BY <2>1, <1>3
<1>4. CASE T # {}
  <2>1. PICK x \in T : TRUE
    BY <1>4
  <2>2. PICK sum : Additive(f, T \ {x}, sum)
    BY <1>2, <2>1
  <2>3. T \in SUBSET S /\ x \in T
    BY <2>1
  <2>4. \E ext : Additive(f, T, ext)
    BY <2>2, <2>3, AdditiveExtends
  <2> QED BY <2>4
<1> QED BY <1>3, <1>4

(* Two solutions of the recursion agree. *)
LEMMA RecursionUnique ==
  ASSUME NEW S, IsFiniteSet(S), NEW f, NEW g, NEW h, Recursion(f, S, g), Recursion(f, S, h)
  PROVE  g[S] = h[S]
<1> DEFINE Bad == {T \in SUBSET S : g[T] # h[T]}
<1>1. SUFFICES ASSUME Bad # {} PROVE FALSE
  OBVIOUS
<1>2. PICK T \in Bad : \A U \in Bad : ~ (U \subseteq T /\ U # T)
  <2>1. Bad \subseteq SUBSET S
    OBVIOUS
  <2> HIDE DEF Bad
  <2> QED BY <1>1, <2>1, MinimalSubset
<1>3. \A W \in SUBSET S : /\ g[W] = IF W = {} THEN 0 ELSE f[Pick(W)] + g[W \ {Pick(W)}]
                          /\ h[W] = IF W = {} THEN 0 ELSE f[Pick(W)] + h[W \ {Pick(W)}]
  BY DEF Recursion
<1>4. T # {}
  BY <1>3
<1>5. Pick(T) \in T
  BY <1>4 DEF Pick
<1>6. g[T \ {Pick(T)}] = h[T \ {Pick(T)}]
  BY <1>2, <1>5
<1> QED BY <1>3, <1>4, <1>6

(* Any additive function gives SumFunctionOnSet. *)
LEMMA SumIsAdditive ==
  ASSUME NEW S, IsFiniteSet(S), NEW f, NEW sum, Additive(f, S, sum)
  PROVE  SumFunctionOnSet(f, S) = sum[S]
<1>1. SumFunctionOnSet(f, S) = (CHOOSE g : Recursion(f, S, g))[S]
  BY DEF SumFunctionOnSet, FoldFunctionOnSet, MapThenFoldSet, Recursion, Pick
<1>2. Recursion(f, S, sum)
  <2>1. \A T \in SUBSET S : T # {} => Pick(T) \in T
    BY DEF Pick
  <2> QED BY <2>1 DEF Additive, Recursion
<1>3. Recursion(f, S, CHOOSE g : Recursion(f, S, g))
  BY <1>2
<1> QED BY <1>1, <1>2, <1>3, RecursionUnique

-----------------------------------------------------------------------------
(* The facts the other modules use. *)

LEMMA SumInt ==
  ASSUME NEW S, IsFiniteSet(S), NEW f \in [S -> Int]
  PROVE  SumFunction(f) \in Int
<1>1. PICK sum : Additive(f, S, sum)
  BY AdditiveExists
<1>2. SumFunction(f) = sum[S]
  BY <1>1, SumIsAdditive DEF SumFunction
<1>3. sum[S] \in Int
  BY <1>1 DEF Additive
<1> QED BY <1>2, <1>3

LEMMA SumZero ==
  ASSUME NEW S, IsFiniteSet(S)
  PROVE  SumFunction([x \in S |-> 0]) = 0
<1>1. Additive([x \in S |-> 0], S, [T \in SUBSET S |-> 0])
  BY DEF Additive
<1> QED BY <1>1, SumIsAdditive DEF SumFunction

LEMMA SumUpdate ==
  ASSUME NEW S, IsFiniteSet(S), NEW f \in [S -> Int], NEW x \in S, NEW v \in Int
  PROVE  SumFunction([f EXCEPT ![x] = v]) = SumFunction(f) + v - f[x]
<1> DEFINE g == [f EXCEPT ![x] = v]
<1>1. PICK sum : Additive(f, S, sum)
  BY AdditiveExists
<1> DEFINE new == [T \in SUBSET S |-> IF x \in T THEN sum[T] + v - f[x] ELSE sum[T]]
<1>2. \A T \in SUBSET S : sum[T] \in Int
  BY <1>1 DEF Additive
<1>3. Additive(g, S, new)
  <2>1. new \in [SUBSET S -> Int]
    BY <1>2
  <2>2. new[{}] = 0
    BY <1>1 DEF Additive
  <2>3. ASSUME NEW T \in SUBSET S, NEW y \in T PROVE new[T] = g[y] + new[T \ {y}]
    <3>1. sum[T] = f[y] + sum[T \ {y}]
      BY <1>1 DEF Additive
    <3>2. sum[T] \in Int /\ sum[T \ {y}] \in Int /\ f[y] \in Int /\ f[x] \in Int
      BY <1>2
    <3>3. CASE y = x
      BY <3>1, <3>2, <3>3
    <3>4. CASE y # x
      BY <3>1, <3>2, <3>4
    <3> QED BY <3>3, <3>4
  <2> QED BY <2>1, <2>2, <2>3 DEF Additive
<1>4. SumFunction(f) = sum[S] /\ SumFunction(g) = new[S]
  BY <1>1, <1>3, SumIsAdditive DEF SumFunction
<1> QED BY <1>4

LEMMA SumPlus ==
  ASSUME NEW S, IsFiniteSet(S), NEW f \in [S -> Int], NEW g \in [S -> Int]
  PROVE  SumFunction([x \in S |-> f[x] + g[x]]) = SumFunction(f) + SumFunction(g)
<1>1. PICK sumf : Additive(f, S, sumf)
  BY AdditiveExists
<1>2. PICK sumg : Additive(g, S, sumg)
  BY AdditiveExists
<1> DEFINE h == [x \in S |-> f[x] + g[x]]
           plus == [T \in SUBSET S |-> sumf[T] + sumg[T]]
<1>3. Additive(h, S, plus)
  <2>1. \A T \in SUBSET S : sumf[T] \in Int /\ sumg[T] \in Int
    BY <1>1, <1>2 DEF Additive
  <2>4. plus \in [SUBSET S -> Int]
    BY <2>1
  <2>2. plus[{}] = 0
    BY <1>1, <1>2 DEF Additive
  <2>3. ASSUME NEW T \in SUBSET S, NEW y \in T PROVE plus[T] = h[y] + plus[T \ {y}]
    <3>1. sumf[T] = f[y] + sumf[T \ {y}] /\ sumg[T] = g[y] + sumg[T \ {y}]
      BY <1>1, <1>2 DEF Additive
    <3> QED BY <2>1, <3>1
  <2> QED BY <2>2, <2>3, <2>4 DEF Additive
<1>4. SumFunction(f) = sumf[S] /\ SumFunction(g) = sumg[S] /\ SumFunction(h) = plus[S]
  BY <1>1, <1>2, <1>3, SumIsAdditive DEF SumFunction
<1> QED BY <1>4

LEMMA SumNonnegative ==
  ASSUME NEW S, IsFiniteSet(S), NEW f \in [S -> Nat]
  PROVE  SumFunction(f) >= 0
<1>1. f \in [S -> Int]
  OBVIOUS
<1>2. PICK sum : Additive(f, S, sum)
  BY <1>1, AdditiveExists
<1> DEFINE Bad == {T \in SUBSET S : ~ (sum[T] >= 0)}
<1>3. SUFFICES ASSUME Bad # {} PROVE FALSE
  <2>1. SumFunction(f) = sum[S]
    BY <1>2, SumIsAdditive DEF SumFunction
  <2> QED BY <2>1
<1>4. PICK T \in Bad : \A U \in Bad : ~ (U \subseteq T /\ U # T)
  <2>1. Bad \subseteq SUBSET S
    OBVIOUS
  <2> HIDE DEF Bad
  <2> QED BY <1>3, <2>1, MinimalSubset
<1>5. sum[{}] = 0
  BY <1>2 DEF Additive
<1>6. T \in SUBSET S /\ T # {}
  <2>1. T \in SUBSET S /\ ~ (sum[T] >= 0)
    BY <1>4
  <2>2. T # {}
    BY <1>5, <2>1
  <2> QED BY <2>1, <2>2
<1>7. PICK x \in T : TRUE
  BY <1>6
<1>8. sum[T] = f[x] + sum[T \ {x}]
  BY <1>2, <1>6, <1>7 DEF Additive
<1>9. T \ {x} \in SUBSET S /\ T \ {x} \subseteq T /\ T \ {x} # T
  BY <1>6, <1>7
<1>10. sum[T \ {x}] >= 0
  BY <1>4, <1>9
<1>11. f[x] \in Nat /\ sum[T \ {x}] \in Int
  BY <1>2, <1>6, <1>7, <1>9 DEF Additive
<1>12. sum[T] >= 0
  BY <1>8, <1>10, <1>11
<1> QED BY <1>4, <1>12

LEMMA SumAtLeastTerm ==
  ASSUME NEW S, IsFiniteSet(S), NEW f \in [S -> Nat], NEW x \in S
  PROVE  f[x] <= SumFunction(f)
<1> DEFINE g == [f EXCEPT ![x] = 0]
<1>1. f \in [S -> Int] /\ g \in [S -> Nat] /\ 0 \in Int /\ f[x] \in Nat
  OBVIOUS
<1>2. SumFunction(g) = SumFunction(f) + 0 - f[x]
  BY <1>1, SumUpdate
<1> HIDE DEF g
<1>3. SumFunction(g) >= 0 /\ SumFunction(f) \in Int
  BY <1>1, SumNonnegative, SumInt
<1> QED BY <1>1, <1>2, <1>3

LEMMA SumMonotone ==
  ASSUME NEW S, IsFiniteSet(S), NEW f \in [S -> Int], NEW g \in [S -> Int], \A x \in S : f[x] <= g[x]
  PROVE  SumFunction(f) <= SumFunction(g)
<1> DEFINE d == [x \in S |-> g[x] - f[x]]
           h == [x \in S |-> f[x] + d[x]]
<1>1. d \in [S -> Nat] /\ d \in [S -> Int]
  OBVIOUS
<1>2. g = h
  <2>1. ASSUME NEW x \in S PROVE g[x] = h[x]
    <3>1. f[x] \in Int /\ g[x] \in Int
      OBVIOUS
    <3> QED BY <3>1
  <2> QED BY <2>1
<1> HIDE DEF d
<1>3. SumFunction(h) = SumFunction(f) + SumFunction(d)
  BY <1>1, SumPlus
<1>4. SumFunction(d) >= 0 /\ SumFunction(d) \in Int /\ SumFunction(f) \in Int
  BY <1>1, SumNonnegative, SumInt
<1> HIDE DEF h
<1> QED BY <1>2, <1>3, <1>4

-----------------------------------------------------------------------------
(* Folds.  MapThenFoldSet is a recursive function on the subsets of a set: *)
(* that one exists, and how a fact about it follows from a fact about one  *)
(* step, again by looking at a least subset for which it fails.            *)

(* h[T] is the fold of T: `step' at the element picked from T, applied to the
   fold of the rest. *)
FoldRecursion(step, pick, base, S, h) ==
  h = [T \in SUBSET S |-> IF T = {} THEN base ELSE step[<<pick[T], h[T \ {pick[T]}]>>]]

LEMMA FoldsAgree ==
  ASSUME NEW S, IsFiniteSet(S), NEW pick, \A T \in SUBSET S : T # {} => pick[T] \in T,
         NEW step, NEW base, NEW R \in SUBSET S, NEW Q \in SUBSET S,
         NEW g, FoldRecursion(step, pick, base, R, g),
         NEW h, FoldRecursion(step, pick, base, Q, h),
         NEW T \in SUBSET S, T \subseteq R, T \subseteq Q
  PROVE  g[T] = h[T]
<1> DEFINE Bad == {U \in SUBSET S : U \subseteq R /\ U \subseteq Q /\ g[U] # h[U]}
<1>1. SUFFICES ASSUME Bad # {} PROVE FALSE
  OBVIOUS
<1>2. PICK U \in Bad : \A V \in Bad : ~ (V \subseteq U /\ V # U)
  <2>1. Bad \subseteq SUBSET S
    OBVIOUS
  <2> HIDE DEF Bad
  <2> QED BY <1>1, <2>1, MinimalSubset
<1>3. U \in SUBSET S /\ U \subseteq R /\ U \subseteq Q /\ g[U] # h[U]
  BY <1>2
<1>4. /\ g[U] = IF U = {} THEN base ELSE step[<<pick[U], g[U \ {pick[U]}]>>]
      /\ h[U] = IF U = {} THEN base ELSE step[<<pick[U], h[U \ {pick[U]}]>>]
  BY <1>3 DEF FoldRecursion
<1>5. U # {} /\ pick[U] \in U
  BY <1>3, <1>4
<1>6. g[U \ {pick[U]}] = h[U \ {pick[U]}]
  BY <1>2, <1>3, <1>5
<1> QED BY <1>3, <1>4, <1>5, <1>6

LEMMA FoldExists ==
  ASSUME NEW S, IsFiniteSet(S), NEW pick, \A T \in SUBSET S : T # {} => pick[T] \in T,
         NEW step, NEW base
  PROVE  \E h : FoldRecursion(step, pick, base, S, h)
<1> DEFINE Bad == {T \in SUBSET S : ~ \E h : FoldRecursion(step, pick, base, T, h)}
<1>1. SUFFICES ASSUME Bad # {} PROVE FALSE
  OBVIOUS
<1>2. PICK T \in Bad : \A U \in Bad : ~ (U \subseteq T /\ U # T)
  <2>1. Bad \subseteq SUBSET S
    OBVIOUS
  <2> HIDE DEF Bad
  <2> QED BY <1>1, <2>1, MinimalSubset
<1> DEFINE fold(U) == CHOOSE h : FoldRecursion(step, pick, base, U, h)
           value(U) == fold(U)[U]
           whole == [U \in SUBSET T |->
                       IF U = {} THEN base ELSE step[<<pick[U], value(U \ {pick[U]})>>]]
<1>3. T \in SUBSET S
  BY <1>2
<1>4. ASSUME NEW U \in SUBSET T, U # T PROVE FoldRecursion(step, pick, base, U, fold(U))
  <2>1. \E h : FoldRecursion(step, pick, base, U, h)
    BY <1>2, <1>3, <1>4
  <2> QED BY <2>1
<1>5. ASSUME NEW U \in SUBSET T, U # T PROVE whole[U] = value(U)
  <2>1. FoldRecursion(step, pick, base, U, fold(U))
    BY <1>4, <1>5
  <2>2. value(U) = IF U = {} THEN base ELSE step[<<pick[U], fold(U)[U \ {pick[U]}]>>]
    <3> HIDE DEF fold
    <3> QED BY <2>1 DEF FoldRecursion
  <2>3. CASE U = {}
    <3> HIDE DEF value
    <3> QED BY <2>2, <2>3
  <2>4. CASE U # {}
    <3>1. pick[U] \in U
      BY <1>3, <2>4
    <3> DEFINE W == U \ {pick[U]}
    <3>2. W \in SUBSET T /\ W # T /\ W \subseteq U /\ W \in SUBSET S /\ U \in SUBSET S
      BY <1>3, <3>1
    <3>3. FoldRecursion(step, pick, base, W, fold(W))
      BY <1>4, <3>2
    <3> HIDE DEF fold, W
    <3>4. fold(U)[W] = fold(W)[W]
      BY <2>1, <3>2, <3>3, FoldsAgree
    <3>5. value(U) = step[<<pick[U], value(W)>>]
      BY <2>2, <2>4, <3>4 DEF W
    <3> HIDE DEF value
    <3> QED BY <2>4, <3>5 DEF W
  <2> QED BY <2>3, <2>4
<1>6. FoldRecursion(step, pick, base, T, whole)
  <2>1. ASSUME NEW U \in SUBSET T, U # {}
        PROVE  value(U \ {pick[U]}) = whole[U \ {pick[U]}]
    <3>1. pick[U] \in U
      BY <1>3, <2>1
    <3>2. U \ {pick[U]} \in SUBSET T /\ U \ {pick[U]} # T
      BY <3>1
    <3> HIDE DEF value, whole
    <3> QED BY <1>5, <3>2
  <2>2. whole = [U \in SUBSET T |-> IF U = {} THEN base ELSE step[<<pick[U], whole[U \ {pick[U]}]>>]]
    <3> HIDE DEF value
    <3> QED BY <2>1
  <2> HIDE DEF whole
  <2> QED BY <2>2 DEF FoldRecursion
<1> QED BY <1>2, <1>6

(* What holds of nothing, and of a set once it holds of the set without the
   element picked from it, holds of every set. *)
LEMMA FoldInduction ==
  ASSUME NEW S, IsFiniteSet(S), NEW pick, \A T \in SUBSET S : T # {} => pick[T] \in T,
         NEW h, NEW X, h[{}] \in X[{}],
         \A T \in SUBSET S : T # {} /\ h[T \ {pick[T]}] \in X[T \ {pick[T]}] => h[T] \in X[T]
  PROVE  \A T \in SUBSET S : h[T] \in X[T]
<1> DEFINE Bad == {T \in SUBSET S : h[T] \notin X[T]}
<1>1. SUFFICES ASSUME Bad # {} PROVE FALSE
  OBVIOUS
<1>2. PICK T \in Bad : \A U \in Bad : ~ (U \subseteq T /\ U # T)
  <2>1. Bad \subseteq SUBSET S
    OBVIOUS
  <2> HIDE DEF Bad
  <2> QED BY <1>1, <2>1, MinimalSubset
<1>3. T \in SUBSET S /\ h[T] \notin X[T] /\ T # {}
  BY <1>2
<1>4. pick[T] \in T
  BY <1>3
<1>5. h[T \ {pick[T]}] \in X[T \ {pick[T]}]
  BY <1>2, <1>3, <1>4
<1> QED BY <1>3, <1>5

(* A fold whose steps stay in X has its values in X. *)
LEMMA FoldStaysIn ==
  ASSUME NEW S, IsFiniteSet(S), NEW pick, \A T \in SUBSET S : T # {} => pick[T] \in T,
         NEW step, NEW base, NEW X, base \in X[{}],
         \A T \in SUBSET S :
           T # {} => \A r \in X[T \ {pick[T]}] : step[<<pick[T], r>>] \in X[T],
         NEW h, FoldRecursion(step, pick, base, S, h)
  PROVE  \A T \in SUBSET S : h[T] \in X[T]
<1>1. h[{}] = base /\ \A T \in SUBSET S : T # {} => h[T] = step[<<pick[T], h[T \ {pick[T]}]>>]
  BY DEF FoldRecursion
<1>2. h[{}] \in X[{}]
  BY <1>1
<1>3. \A T \in SUBSET S : T # {} /\ h[T \ {pick[T]}] \in X[T \ {pick[T]}] => h[T] \in X[T]
  BY <1>1
<1> QED BY <1>2, <1>3, FoldInduction

-----------------------------------------------------------------------------
(* Loops.  A recursive function on an interval of the naturals, the state   *)
(* after each pass of a loop: one exists, and what every pass keeps holds    *)
(* after all of them.                                                        *)

LEMMA IntervalInduction ==
  ASSUME NEW n \in Nat, NEW G, 0 \in G, \A k \in 1 .. n : k - 1 \in G => k \in G
  PROVE  \A k \in 0 .. n : k \in G
<1> DEFINE Bad == {k \in 0 .. n : k \notin G}
           F == {0 .. k : k \in Bad}
<1>1. SUFFICES ASSUME Bad # {} PROVE FALSE
  OBVIOUS
<1>2. IsFiniteSet(0 .. n) /\ F \subseteq SUBSET (0 .. n) /\ F # {}
  <2>1. IsFiniteSet(0 .. n)
    BY FS_Interval
  <2>2. \A k \in Bad : 0 .. k \in F /\ 0 .. k \subseteq 0 .. n
    OBVIOUS
  <2> QED BY <1>1, <2>1, <2>2
<1>3. PICK T \in F : \A U \in F : ~ (U \subseteq T /\ U # T)
  <2> DEFINE S == 0 .. n
  <2>1. IsFiniteSet(S) /\ F \subseteq SUBSET S /\ F # {}
    BY <1>2
  <2> HIDE DEF F, S
  <2> QED BY <2>1, MinimalSubset
<1>4. PICK k \in Bad : T = 0 .. k
  BY <1>3
<1>5. k \in 1 .. n /\ k \notin G
  BY <1>4
<1>6. k - 1 \in Bad
  BY <1>5
<1>7. 0 .. (k - 1) \in F /\ 0 .. (k - 1) \subseteq T /\ 0 .. (k - 1) # T
  BY <1>4, <1>5, <1>6
<1> QED BY <1>3, <1>7

(* f[k] is what `step' makes of f[k - 1] in the k-th pass. *)
Loop(n, base, step, f) ==
  f = [k \in 0 .. n |-> IF k = 0 THEN base ELSE step[<<k, f[k - 1]>>]]

LEMMA LoopExists ==
  ASSUME NEW n \in Nat, NEW base, NEW step
  PROVE  \E f : Loop(n, base, step, f)
<1> DEFINE G == {k \in 0 .. n : \E f : Loop(k, base, step, f)}
<1>1. 0 \in G
  <2> DEFINE f == [k \in 0 .. 0 |-> base]
  <2>1. Loop(0, base, step, f)
    BY DEF Loop
  <2> HIDE DEF f
  <2> QED BY <2>1
<1>2. ASSUME NEW k \in 1 .. n, k - 1 \in G
      PROVE  k \in G
  <2>1. PICK f : Loop(k - 1, base, step, f)
    BY <1>2
  <2> DEFINE g == [j \in 0 .. k |-> IF j = k THEN step[<<k, f[k - 1]>>] ELSE f[j]]
  <2>2. f = [j \in 0 .. (k - 1) |-> IF j = 0 THEN base ELSE step[<<j, f[j - 1]>>]]
    BY <2>1 DEF Loop
  <2>3. ASSUME NEW j \in 0 .. k
        PROVE  g[j] = IF j = 0 THEN base ELSE step[<<j, g[j - 1]>>]
    <3>1. CASE j = 0
      BY <2>2, <3>1
    <3>2. CASE j = k
      <4>1. j # 0 /\ g[j] = step[<<k, f[k - 1]>>] /\ g[k - 1] = f[k - 1]
        BY <3>2
      <4> QED BY <3>2, <4>1
    <3>3. CASE j # 0 /\ j # k
      <4>1. g[j] = f[j] /\ g[j - 1] = f[j - 1] /\ j \in 0 .. (k - 1)
        BY <3>3
      <4>2. f[j] = step[<<j, f[j - 1]>>]
        BY <2>2, <3>3, <4>1
      <4> QED BY <3>3, <4>1, <4>2
    <3> QED BY <3>1, <3>2, <3>3
  <2>4. g = [j \in 0 .. k |-> g[j]]
    OBVIOUS
  <2> HIDE DEF g
  <2>5. Loop(k, base, step, g)
    BY <2>3, <2>4 DEF Loop
  <2> QED BY <2>5
<1>3. n \in G
  <2> HIDE DEF G
  <2> QED BY <1>1, <1>2, IntervalInduction
<1> QED BY <1>3

(* A loop whose passes stay in X has its states in X. *)
LEMMA LoopStaysIn ==
  ASSUME NEW n \in Nat, NEW base, NEW step, NEW X, base \in X[0],
         \A k \in 1 .. n : \A r \in X[k - 1] : step[<<k, r>>] \in X[k],
         NEW f, Loop(n, base, step, f)
  PROVE  \A k \in 0 .. n : f[k] \in X[k]
<1> DEFINE G == {k \in 0 .. n : f[k] \in X[k]}
<1>1. \A k \in 0 .. n : f[k] = IF k = 0 THEN base ELSE step[<<k, f[k - 1]>>]
  BY DEF Loop
<1>2. 0 \in G
  <2>1. 0 \in 0 .. n
    OBVIOUS
  <2>2. f[0] = IF 0 = 0 THEN base ELSE step[<<0, f[0 - 1]>>]
    BY <1>1, <2>1, Zenon
  <2> QED BY <2>1, <2>2
<1>3. ASSUME NEW k \in 1 .. n, k - 1 \in G
      PROVE  k \in G
  <2>1. f[k] = step[<<k, f[k - 1]>>] /\ f[k - 1] \in X[k - 1]
    BY <1>1, <1>3
  <2> QED BY <2>1
<1>4. \A k \in 0 .. n : k \in G
  <2> HIDE DEF G
  <2> QED BY <1>2, <1>3, IntervalInduction
<1> QED BY <1>4
=============================================================================
