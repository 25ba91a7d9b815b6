--------------------------- MODULE PlanningProofs ---------------------------
(***************************************************************************)
(* generate-orders never orders more than the account has: capital, slots  *)
(* and sectors, for any universe, signals, markets, prices and limits.     *)
(*                                                                         *)
(* Sums over finite sets and the order of the queue come first: a sum is   *)
(* split at a member, compared with another by an injection, and changed   *)
(* at one place; the queue takes each approved candidate once.  The three  *)
(* loops of the command (evaluations, assessments, queue) each get an      *)
(* invariant over their turns, by the least turn that would break it.      *)
(*                                                                         *)
(* The reservation view deducts at least what is committed, as long as the *)
(* portfolio file knows of the shares that no active order accounts for    *)
(* (CommittedFits, OccupiedFits), so what fits the view fits the account   *)
(* (PlanFits).  Until the sheet is staged, nothing that happens commits    *)
(* more (SheetStays).                                                      *)
(***************************************************************************)
EXTENDS OrderPlanning, FiniteSetTheorems, FunctionTheorems, WellFoundedInduction,
        TLAPS
-----------------------------------------------------------------------------
(* Sums                                                                    *)

\* Some number is the least of those in a set.
LEMMA LeastNumber ==
  ASSUME NEW T \in SUBSET Nat, T # {}
  PROVE  \E m \in T : \A k \in T : m <= k
<1> DEFINE R == {ss \in Nat \X Nat : ss[1] < ss[2]}
<1>1. OpToRel(<, Nat) = R
  BY DEF OpToRel
<1>2. IsWellFoundedOn(R, Nat)
  BY <1>1, NatLessThanWellFounded
<1>3. PICK m \in T : \A k \in T : ~ (<<k, m>> \in R)
  <2> HIDE DEF R
  <2> QED BY <1>2, WFMin
<1>4. \A k \in T : m <= k
  <2> TAKE k \in T
  <2>1. <<k, m>> \in Nat \X Nat /\ ~(k < m)
    BY <1>3
  <2> QED BY <2>1
<1> QED BY <1>4

\* The member that a sum adds next.
Next1(T) == CHOOSE x \in T : TRUE

\* A set that has members has a next one.
LEMMA Next1In == \A T : T # {} => Next1(T) \in T
BY DEF Next1

\* The subsets of S with at most k members.
Small(S, k) == {T \in SUBSET S : Cardinality(T) <= k}

SumStep(f, g, T) == IF T = {} THEN 0 ELSE f[Next1(T)] + g[T \ {Next1(T)}]

\* g holds the sums over the subsets of S.
RunsOver(f, g, S) == \A T \in SUBSET S : g[T] = SumStep(f, g, T)

\* The sums over the subsets of S, of at most k members.
Sums(f, S, k, g) == g = [T \in Small(S, k) |-> SumStep(f, g, T)]

\* Without its next member, a set has one less.
LEMMA OneLess ==
  ASSUME NEW S, IsFiniteSet(S), NEW T \in SUBSET S, T # {}
  PROVE  /\ IsFiniteSet(T) /\ Cardinality(T) \in Nat \ {0}
         /\ T \ {Next1(T)} \in SUBSET S
         /\ Cardinality(T \ {Next1(T)}) = Cardinality(T) - 1
<1>1. IsFiniteSet(T)
  BY FS_Subset
<1>2. Next1(T) \in T
  BY Next1In
<1> HIDE DEF Next1
<1> QED
  BY <1>1, <1>2, FS_RemoveElement, FS_EmptySet, FS_CardinalityType

\* The sums over the subsets of a finite set exist, up to any size.
LEMMA SumsExist ==
  ASSUME NEW f, NEW S, IsFiniteSet(S), NEW last \in Nat
  PROVE  \E g : Sums(f, S, last, g)
<1> DEFINE Broken == {k \in 0 .. last : ~\E g : Sums(f, S, k, g)}
<1>1. Broken = {}
  <2> SUFFICES ASSUME Broken # {} PROVE FALSE
    OBVIOUS
  <2>1. PICK k \in Broken : \A j \in Broken : k <= j
    <3>1. Broken \in SUBSET Nat
      OBVIOUS
    <3> HIDE DEF Broken
    <3> QED BY <3>1, LeastNumber
  <2>2. k # 0
    <3> DEFINE g == [T \in Small(S, 0) |-> 0]
    <3>1. \A T \in Small(S, 0) : T = {}
      BY FS_Subset, FS_EmptySet, FS_CardinalityType DEF Small
    <3>2. \A T \in Small(S, 0) : SumStep(f, g, T) = 0
      BY <3>1 DEF SumStep
    <3>3. g = [T \in Small(S, 0) |-> SumStep(f, g, T)]
      BY <3>2
    <3> HIDE DEF g
    <3>4. Sums(f, S, 0, g)
      BY <3>3 DEF Sums
    <3> QED BY <3>4
  <2>3. PICK g : Sums(f, S, k - 1, g)
    <3>1. k - 1 \in 0 .. last /\ ~(k <= k - 1)
      BY <2>2
    <3>2. k - 1 \notin Broken
      <4> HIDE DEF Broken
      <4> QED BY <2>1, <3>1
    <3> QED BY <3>1, <3>2
  <2> DEFINE h == [T \in Small(S, k) |-> SumStep(f, g, T)]
  <2>4. k \in Nat \ {0}
    BY <2>2
  <2>5. \A T \in Small(S, k - 1) : T \in Small(S, k) /\ h[T] = g[T]
    <3> TAKE T \in Small(S, k - 1)
    <3>1. Cardinality(T) \in Nat
      BY FS_Subset, FS_CardinalityType DEF Small
    <3>2. T \in Small(S, k)
      BY <2>4, <3>1 DEF Small
    <3> QED BY <2>3, <3>2 DEF Sums
  <2>6. \A T \in Small(S, k) : SumStep(f, h, T) = SumStep(f, g, T)
    <3> TAKE T \in Small(S, k)
    <3>1. CASE T = {}
      BY <3>1 DEF SumStep
    <3>2. CASE T # {}
      <4>1. T \ {Next1(T)} \in Small(S, k - 1)
        BY <2>4, <3>2, OneLess DEF Small
      <4>2. h[T \ {Next1(T)}] = g[T \ {Next1(T)}]
        BY <2>5, <4>1
      <4> QED BY <3>2, <4>2 DEF SumStep, RunsOver
    <3> QED BY <3>1, <3>2
  <2>7. h = [T \in Small(S, k) |-> SumStep(f, h, T)]
    BY <2>6
  <2> HIDE DEF h
  <2>8. Sums(f, S, k, h)
    BY <2>7 DEF Sums
  <2> QED BY <2>8
<1> QED
  BY <1>1

\* The sums that SumFunctionOnSet runs through.
LEMMA SumRuns ==
  ASSUME NEW f, NEW S, IsFiniteSet(S)
  PROVE  \E g : /\ RunsOver(f, g, S)
                /\ SumFunctionOnSet(f, S) = g[S]
<1> DEFINE All(g) == g = [T \in SUBSET S |-> SumStep(f, g, T)]
<1>1. \E g : All(g)
  <2>1. Cardinality(S) \in Nat
    BY FS_CardinalityType
  <2>2. Small(S, Cardinality(S)) = SUBSET S
    BY FS_Subset DEF Small
  <2>3. PICK g : Sums(f, S, Cardinality(S), g)
    BY <2>1, SumsExist
  <2>4. All(g)
    BY <2>2, <2>3 DEF Sums
  <2> HIDE DEF All
  <2> QED BY <2>4
<1> DEFINE s == CHOOSE g : All(g)
<1>2. All(s)
  <2> HIDE DEF All
  <2> QED BY <1>1
<1>3. SumFunctionOnSet(f, S) = s[S]
  BY DEF SumFunctionOnSet, FoldFunctionOnSet, MapThenFoldSet, SumStep, Next1
<1> HIDE DEF s
<1> QED
  BY <1>2, <1>3 DEF RunsOver

\* Two runs agree on the sets that both go through.
LEMMA SumAgrees ==
  ASSUME NEW f, NEW h, NEW S, IsFiniteSet(S), NEW T, IsFiniteSet(T), NEW g, NEW k,
         RunsOver(f, g, S), RunsOver(h, k, T),
         \A x \in S \cap T : f[x] = h[x]
  PROVE  \A U \in SUBSET (S \cap T) : g[U] = k[U]
<1> DEFINE Agrees(n) == \A U \in SUBSET (S \cap T) : Cardinality(U) = n => g[U] = k[U]
           Broken == {n \in Nat : ~Agrees(n)}
<1>1. Broken = {}
  <2> SUFFICES ASSUME Broken # {} PROVE FALSE
    OBVIOUS
  <2>1. PICK n \in Broken : \A j \in Broken : n <= j
    <3>1. Broken \in SUBSET Nat
      OBVIOUS
    <3> HIDE DEF Broken
    <3> QED BY <3>1, LeastNumber
  <2>2. PICK U \in SUBSET (S \cap T) : Cardinality(U) = n /\ g[U] # k[U]
    OBVIOUS
  <2>3. U # {}
    BY <2>2 DEF SumStep, RunsOver
  <2> DEFINE V == U \ {Next1(U)}
  <2>4. V \in SUBSET (S \cap T) /\ n \in Nat \ {0} /\ Cardinality(V) = n - 1
    BY <2>2, <2>3, OneLess
  <2>5. n - 1 \notin Broken
    <3>1. ~(n <= n - 1)
      BY <2>4
    <3> HIDE DEF Broken
    <3> QED BY <2>1, <3>1
  <2>6. g[V] = k[V]
    BY <2>4, <2>5
  <2>7. Next1(U) \in S \cap T
    BY <2>3, Next1In
  <2> HIDE DEF V
  <2>8. g[U] = f[Next1(U)] + g[V] /\ k[U] = h[Next1(U)] + k[V]
    BY <2>3 DEF SumStep, RunsOver, V
  <2> QED BY <2>2, <2>6, <2>7, <2>8
<1>2. TAKE U \in SUBSET (S \cap T)
<1>3. Cardinality(U) \in Nat
  <2>1. IsFiniteSet(U)
    BY FS_Subset
  <2> QED BY <2>1, FS_CardinalityType
<1>4. Agrees(Cardinality(U))
  <2> HIDE DEF Agrees
  <2> QED BY <1>1, <1>3
<1> QED
  BY <1>4

\* Sums depend on what is added alone.
LEMMA SameSums ==
  ASSUME NEW f, NEW h, NEW S, IsFiniteSet(S), \A x \in S : f[x] = h[x]
  PROVE  SumFunctionOnSet(f, S) = SumFunctionOnSet(h, S)
<1>1. PICK g : RunsOver(f, g, S) /\ SumFunctionOnSet(f, S) = g[S]
  BY SumRuns
<1>2. PICK k : RunsOver(h, k, S) /\ SumFunctionOnSet(h, S) = k[S]
  BY SumRuns
<1>3. \A U \in SUBSET (S \cap S) : g[U] = k[U]
  BY <1>1, <1>2, SumAgrees
<1> QED
  BY <1>1, <1>2, <1>3

\* A run over a set goes through the sums over its subsets.
LEMMA SumWithin ==
  ASSUME NEW f, NEW S, IsFiniteSet(S), NEW g,
         RunsOver(f, g, S), NEW T \in SUBSET S
  PROVE  SumFunctionOnSet(f, T) = g[T]
<1>1. IsFiniteSet(T)
  BY FS_Subset
<1>2. PICK k : RunsOver(f, k, T) /\ SumFunctionOnSet(f, T) = k[T]
  BY <1>1, SumRuns
<1>3. \A U \in SUBSET (S \cap T) : g[U] = k[U]
  BY <1>1, <1>2, SumAgrees
<1> QED
  BY <1>2, <1>3

\* What is added is whole.
Whole(f, S) == \A x \in S : f[x] \in Int

\* The sum of whole numbers is whole.
LEMMA SumWhole ==
  ASSUME NEW f, NEW S, IsFiniteSet(S), Whole(f, S)
  PROVE  SumFunctionOnSet(f, S) \in Int
<1>1. PICK g : RunsOver(f, g, S) /\ SumFunctionOnSet(f, S) = g[S]
  BY SumRuns
<1> DEFINE Fine(n) == \A U \in SUBSET S : Cardinality(U) = n => g[U] \in Int
           Broken == {n \in Nat : ~Fine(n)}
<1>2. Broken = {}
  <2> SUFFICES ASSUME Broken # {} PROVE FALSE
    OBVIOUS
  <2>1. PICK n \in Broken : \A j \in Broken : n <= j
    <3>1. Broken \in SUBSET Nat
      OBVIOUS
    <3> HIDE DEF Broken
    <3> QED BY <3>1, LeastNumber
  <2>2. PICK U \in SUBSET S : Cardinality(U) = n /\ g[U] \notin Int
    OBVIOUS
  <2>3. U # {}
    <3>1. g[U] = SumStep(f, g, U)
      BY <1>1 DEF RunsOver
    <3>2. U = {} => g[U] = 0
      BY <3>1 DEF SumStep
    <3> QED BY <2>2, <3>2
  <2> DEFINE V == U \ {Next1(U)}
  <2>4. V \in SUBSET S /\ n \in Nat \ {0} /\ Cardinality(V) = n - 1
    BY <2>2, <2>3, OneLess
  <2>5. n - 1 \notin Broken
    <3>1. ~(n <= n - 1)
      BY <2>4
    <3> HIDE DEF Broken
    <3> QED BY <2>1, <3>1
  <2>6. g[V] \in Int
    BY <2>4, <2>5
  <2>7. f[Next1(U)] \in Int
    BY <2>3, Next1In DEF Whole
  <2> HIDE DEF V
  <2>8. g[U] = f[Next1(U)] + g[V]
    BY <1>1, <2>3 DEF SumStep, RunsOver, V
  <2> QED BY <2>2, <2>6, <2>7, <2>8
<1>3. Fine(Cardinality(S))
  <2>1. Cardinality(S) \in Nat
    BY FS_CardinalityType
  <2> HIDE DEF Fine
  <2> QED BY <1>2, <2>1
<1> QED
  BY <1>1, <1>3

\* Nothing adds up to nothing.
LEMMA SumOfNone ==
  ASSUME NEW f
  PROVE  SumFunctionOnSet(f, {}) = 0
<1>1. PICK g : RunsOver(f, g, {}) /\ SumFunctionOnSet(f, {}) = g[{}]
  BY SumRuns, FS_EmptySet
<1> QED
  BY <1>1 DEF SumStep, RunsOver

\* Any member may be added last.
LEMMA SumSplits ==
  ASSUME NEW f, NEW S, IsFiniteSet(S), Whole(f, S), NEW x \in S
  PROVE  SumFunctionOnSet(f, S) = f[x] + SumFunctionOnSet(f, S \ {x})
<1>1. PICK g : RunsOver(f, g, S) /\ SumFunctionOnSet(f, S) = g[S]
  BY SumRuns
<1>0. \A T \in SUBSET S : g[T] \in Int
  <2> TAKE T \in SUBSET S
  <2>1. IsFiniteSet(T) /\ Whole(f, T)
    BY FS_Subset DEF Whole
  <2>2. SumFunctionOnSet(f, T) = g[T]
    BY <1>1, SumWithin
  <2> QED BY <2>1, <2>2, SumWhole
<1> DEFINE Splits(n) ==
             \A U \in SUBSET S : Cardinality(U) = n => \A y \in U : g[U] = f[y] + g[U \ {y}]
           Broken == {n \in Nat : ~Splits(n)}
<1>2. Broken = {}
  <2> SUFFICES ASSUME Broken # {} PROVE FALSE
    OBVIOUS
  <2>1. PICK n \in Broken : \A j \in Broken : n <= j
    <3>1. Broken \in SUBSET Nat
      OBVIOUS
    <3> HIDE DEF Broken
    <3> QED BY <3>1, LeastNumber
  <2>20. PICK U \in SUBSET S :
           Cardinality(U) = n /\ \E y \in U : g[U] # f[y] + g[U \ {y}]
    OBVIOUS
  <2>2. PICK y \in U : Cardinality(U) = n /\ g[U] # f[y] + g[U \ {y}]
    BY <2>20
  <2> DEFINE c == Next1(U)
             V == U \ {c}
             W == U \ {y}
             X == V \ {y}
  <2>3. V \in SUBSET S /\ n \in Nat \ {0} /\ Cardinality(V) = n - 1 /\ IsFiniteSet(U)
    BY <2>2, OneLess
  <2>4. Splits(n - 1)
    <3>1. ~(n <= n - 1) /\ n - 1 \in Nat
      BY <2>3
    <3>2. n - 1 \notin Broken
      <4> HIDE DEF Broken
      <4> QED BY <2>1, <3>1
    <3> HIDE DEF Splits
    <3> QED BY <3>1, <3>2
  <2>5. c \in U
    BY <2>2, Next1In
  <2>6. g[U] = f[c] + g[V]
    BY <1>1, <2>2 DEF SumStep, RunsOver
  <2> HIDE DEF c
  <2>7. c # y
    BY <2>2, <2>6
  <2>8. g[V] = f[y] + g[X]
    BY <2>3, <2>4, <2>7
  <2>9. W \in SUBSET S /\ Cardinality(W) = n - 1
    BY <2>2, <2>3, FS_RemoveElement
  <2>10. g[W] = f[c] + g[W \ {c}]
    BY <2>4, <2>5, <2>7, <2>9
  <2>11. W \ {c} = X
    OBVIOUS
  <2>12. f[c] \in Int /\ f[y] \in Int /\ g[X] \in Int
    BY <1>0, <2>2, <2>5 DEF Whole
  <2> HIDE DEF V, W, X, Splits, Broken
  <2>14. g[W] = f[c] + g[X]
    BY <2>10, <2>11, Zenon
  <2>13. g[U] = f[y] + g[W]
    BY <2>6, <2>8, <2>12, <2>14
  <2> QED BY <2>2, <2>13 DEF W
<1>3. Splits(Cardinality(S))
  <2>1. Cardinality(S) \in Nat
    BY FS_CardinalityType
  <2> HIDE DEF Splits
  <2> QED BY <1>2, <2>1
<1>4. SumFunctionOnSet(f, S \ {x}) = g[S \ {x}]
  BY <1>1, SumWithin
<1> QED
  BY <1>1, <1>3, <1>4

\* What is added is not negative.
NotNegative(f, S) == \A x \in S : f[x] \in Nat

\* A sum of numbers that are not negative is not negative.
LEMMA SumNotNegative ==
  ASSUME NEW f, NEW S, IsFiniteSet(S), NotNegative(f, S)
  PROVE  SumFunctionOnSet(f, S) \in Nat
<1> DEFINE Fine(n) ==
             \A U \in SUBSET S : Cardinality(U) = n => SumFunctionOnSet(f, U) \in Nat
           Broken == {n \in Nat : ~Fine(n)}
<1>1. Broken = {}
  <2> SUFFICES ASSUME Broken # {} PROVE FALSE
    OBVIOUS
  <2>1. PICK n \in Broken : \A j \in Broken : n <= j
    <3>1. Broken \in SUBSET Nat
      OBVIOUS
    <3> HIDE DEF Broken
    <3> QED BY <3>1, LeastNumber
  <2>2. PICK U \in SUBSET S : Cardinality(U) = n /\ SumFunctionOnSet(f, U) \notin Nat
    OBVIOUS
  <2>3. U # {}
    BY <2>2, SumOfNone
  <2>4. PICK x \in U : TRUE
    BY <2>3
  <2> DEFINE V == U \ {x}
  <2>5. V \in SUBSET S /\ n \in Nat \ {0} /\ Cardinality(V) = n - 1 /\ IsFiniteSet(U)
    BY <2>2, <2>3, OneLess, FS_RemoveElement
  <2>6. n - 1 \notin Broken
    <3>1. ~(n <= n - 1)
      BY <2>5
    <3> HIDE DEF Broken
    <3> QED BY <2>1, <3>1
  <2>7. SumFunctionOnSet(f, V) \in Nat
    BY <2>5, <2>6
  <2>8. SumFunctionOnSet(f, U) = f[x] + SumFunctionOnSet(f, V)
    BY <2>5, SumSplits DEF Whole, NotNegative
  <2>9. f[x] \in Nat
    BY DEF NotNegative
  <2> HIDE DEF V
  <2> QED BY <2>2, <2>7, <2>8, <2>9
<1>2. Fine(Cardinality(S))
  <2>1. Cardinality(S) \in Nat
    BY FS_CardinalityType
  <2> HIDE DEF Fine
  <2> QED BY <1>1, <2>1
<1> QED
  BY <1>2

\* What is positive in one sum has a place of its own in the other.
Covers(h, f, U, g, V) ==
  /\ \A a \in U : f[a] > 0 => h[a] \in V /\ f[a] <= g[h[a]]
  /\ \A a, b \in U : f[a] > 0 /\ f[b] > 0 /\ h[a] = h[b] => a = b

\* If what is positive in one sum has a place of its own, with at least as
\* much, in the other, the first sum is no larger.
LEMMA SumBelow ==
  ASSUME NEW S, IsFiniteSet(S), NEW T, IsFiniteSet(T), NEW f, NEW g, NEW h,
         Whole(f, S), NotNegative(g, T), Covers(h, f, S, g, T)
  PROVE  SumFunctionOnSet(f, S) <= SumFunctionOnSet(g, T)
<1> DEFINE Below(n) ==
             \A U \in SUBSET S, V \in SUBSET T :
               Cardinality(U) = n /\ Covers(h, f, U, g, V)
                 => SumFunctionOnSet(f, U) <= SumFunctionOnSet(g, V)
           Broken == {n \in Nat : ~Below(n)}
<1>1. Broken = {}
  <2> SUFFICES ASSUME Broken # {} PROVE FALSE
    OBVIOUS
  <2>1. PICK n \in Broken : \A j \in Broken : n <= j
    <3>1. Broken \in SUBSET Nat
      OBVIOUS
    <3> HIDE DEF Broken
    <3> QED BY <3>1, LeastNumber
  <2>2. PICK U \in SUBSET S, V \in SUBSET T :
          /\ Cardinality(U) = n /\ Covers(h, f, U, g, V)
          /\ ~(SumFunctionOnSet(f, U) <= SumFunctionOnSet(g, V))
    <3> HIDE DEF Broken
    <3>1. n \in Broken
      OBVIOUS
    <3> QED BY <3>1 DEF Broken
  <2>3. IsFiniteSet(V) /\ NotNegative(g, V) /\ IsFiniteSet(U) /\ Whole(f, U) /\ Whole(g, V)
    BY FS_Subset DEF NotNegative, Whole
  <2>4. SumFunctionOnSet(g, V) \in Nat
    BY <2>3, SumNotNegative
  <2>5. U # {}
    BY <2>2, <2>4, SumOfNone
  <2>6. PICK x \in U : TRUE
    BY <2>5
  <2> DEFINE W == U \ {x}
             X == V \ {h[x]}
  <2>7. W \in SUBSET S /\ n \in Nat \ {0} /\ Cardinality(W) = n - 1
    BY <2>2, <2>3, <2>5, OneLess, FS_RemoveElement
  <2>8. Below(n - 1)
    <3>1. ~(n <= n - 1) /\ n - 1 \in Nat
      BY <2>7
    <3>2. n - 1 \notin Broken
      <4> HIDE DEF Broken
      <4> QED BY <2>1, <3>1
    <3> HIDE DEF Below
    <3> QED BY <3>1, <3>2
  <2>9. SumFunctionOnSet(f, U) = f[x] + SumFunctionOnSet(f, W)
    BY <2>3, SumSplits
  <2>10. f[x] \in Int /\ SumFunctionOnSet(f, W) \in Int
    <3>1. IsFiniteSet(W) /\ Whole(f, W)
      BY <2>7, FS_Subset DEF Whole
    <3> QED BY <2>3, <3>1, SumWhole DEF Whole
  <2>11. CASE ~(f[x] > 0)
    <3>1. Covers(h, f, W, g, V)
      BY <2>2 DEF Covers
    <3>2. SumFunctionOnSet(f, W) <= SumFunctionOnSet(g, V)
      BY <2>7, <2>8, <3>1
    <3> HIDE DEF W
    <3> QED BY <2>2, <2>4, <2>9, <2>10, <2>11, <3>2
  <2>12. CASE f[x] > 0
    <3>1. h[x] \in V /\ f[x] <= g[h[x]]
      BY <2>2, <2>12 DEF Covers
    <3>2. Covers(h, f, W, g, X)
      BY <2>2, <2>12 DEF Covers
    <3>3. SumFunctionOnSet(f, W) <= SumFunctionOnSet(g, X)
      BY <2>7, <2>8, <3>2
    <3>4. SumFunctionOnSet(g, V) = g[h[x]] + SumFunctionOnSet(g, X)
      BY <2>3, <3>1, SumSplits
    <3>5. SumFunctionOnSet(g, X) \in Nat /\ g[h[x]] \in Nat
      <4>1. IsFiniteSet(X) /\ NotNegative(g, X)
        BY <2>3, FS_Subset DEF NotNegative
      <4> QED BY <2>3, <3>1, <4>1, SumNotNegative DEF NotNegative
    <3> HIDE DEF W, X
    <3> QED BY <2>2, <2>9, <2>10, <3>1, <3>3, <3>4, <3>5
  <2> QED BY <2>11, <2>12
<1>2. Below(Cardinality(S))
  <2>1. Cardinality(S) \in Nat
    BY FS_CardinalityType
  <2> HIDE DEF Below
  <2> QED BY <1>1, <2>1
<1> QED
  BY <1>2

\* The sum of two functions.
LEMMA SumAdds ==
  ASSUME NEW S, IsFiniteSet(S), NEW f, NEW g, NEW h, Whole(f, S), Whole(g, S),
         \A x \in S : h[x] = f[x] + g[x]
  PROVE  SumFunctionOnSet(h, S) = SumFunctionOnSet(f, S) + SumFunctionOnSet(g, S)
<1> DEFINE Adds(n) ==
             \A U \in SUBSET S : Cardinality(U) = n =>
               SumFunctionOnSet(h, U) = SumFunctionOnSet(f, U) + SumFunctionOnSet(g, U)
           Broken == {n \in Nat : ~Adds(n)}
<1>0. Whole(h, S)
  BY DEF Whole
<1>1. Broken = {}
  <2> SUFFICES ASSUME Broken # {} PROVE FALSE
    OBVIOUS
  <2>1. PICK n \in Broken : \A j \in Broken : n <= j
    <3>1. Broken \in SUBSET Nat
      OBVIOUS
    <3> HIDE DEF Broken
    <3> QED BY <3>1, LeastNumber
  <2>2. PICK U \in SUBSET S :
          /\ Cardinality(U) = n
          /\ SumFunctionOnSet(h, U) # SumFunctionOnSet(f, U) + SumFunctionOnSet(g, U)
    OBVIOUS
  <2>3. U # {}
    <3>1. /\ SumFunctionOnSet(h, {}) = 0 /\ SumFunctionOnSet(f, {}) = 0
          /\ SumFunctionOnSet(g, {}) = 0
      BY SumOfNone
    <3> QED BY <2>2, <3>1
  <2>4. PICK x \in U : TRUE
    BY <2>3
  <2> DEFINE V == U \ {x}
  <2>5. V \in SUBSET S /\ n \in Nat \ {0} /\ Cardinality(V) = n - 1
        /\ IsFiniteSet(U) /\ IsFiniteSet(V)
    <3>1. IsFiniteSet(U) /\ n \in Nat \ {0}
      BY <2>2, <2>3, OneLess
    <3> QED BY <2>2, <3>1, FS_RemoveElement
  <2>6. n - 1 \notin Broken
    <3>1. ~(n <= n - 1)
      BY <2>5
    <3> HIDE DEF Broken
    <3> QED BY <2>1, <3>1
  <2>7. SumFunctionOnSet(h, V) = SumFunctionOnSet(f, V) + SumFunctionOnSet(g, V)
    BY <2>5, <2>6
  <2>8. Whole(f, U) /\ Whole(g, U) /\ Whole(h, U) /\ Whole(f, V) /\ Whole(g, V)
    BY <1>0 DEF Whole
  <2>9. /\ SumFunctionOnSet(f, U) = f[x] + SumFunctionOnSet(f, V)
        /\ SumFunctionOnSet(g, U) = g[x] + SumFunctionOnSet(g, V)
        /\ SumFunctionOnSet(h, U) = h[x] + SumFunctionOnSet(h, V)
    BY <2>5, <2>8, SumSplits
  <2>10. h[x] = f[x] + g[x] /\ f[x] \in Int /\ g[x] \in Int
    BY <2>8 DEF Whole
  <2>11. SumFunctionOnSet(f, V) \in Int /\ SumFunctionOnSet(g, V) \in Int
    BY <2>5, <2>8, SumWhole
  <2> HIDE DEF V
  <2> QED BY <2>2, <2>7, <2>9, <2>10, <2>11
<1>2. Adds(Cardinality(S))
  <2>1. Cardinality(S) \in Nat
    BY FS_CardinalityType
  <2> HIDE DEF Adds
  <2> QED BY <1>1, <2>1
<1> QED
  BY <1>2

\* Where one number changes, the sum changes by as much.
LEMMA SumChanges ==
  ASSUME NEW S, IsFiniteSet(S), NEW f, NEW g, NEW x \in S, Whole(f, S), Whole(g, S),
         \A y \in S \ {x} : f[y] = g[y]
  PROVE  SumFunctionOnSet(g, S) = SumFunctionOnSet(f, S) - f[x] + g[x]
<1> DEFINE T == S \ {x}
<1>1. IsFiniteSet(T) /\ Whole(f, T) /\ Whole(g, T)
  BY FS_RemoveElement DEF Whole
<1>2. SumFunctionOnSet(f, T) = SumFunctionOnSet(g, T) /\ SumFunctionOnSet(f, T) \in Int
  BY <1>1, SameSums, SumWhole
<1>3. /\ SumFunctionOnSet(f, S) = f[x] + SumFunctionOnSet(f, T)
      /\ SumFunctionOnSet(g, S) = g[x] + SumFunctionOnSet(g, T)
  BY SumSplits
<1>4. f[x] \in Int /\ g[x] \in Int
  BY DEF Whole
<1> HIDE DEF T
<1> QED
  BY <1>2, <1>3, <1>4

-----------------------------------------------------------------------------
(* Orders of places                                                        *)

\* The lesser and the greater of two numbers.
LEMMA LesserOfTwo ==
  ASSUME NEW x \in Int, NEW y \in Int
  PROVE  Min({x, y}) = IF x <= y THEN x ELSE y
<1> DEFINE least == IF x <= y THEN x ELSE y
<1>1. least \in {x, y} /\ \A u \in {x, y} : least <= u /\ u \in Int
  OBVIOUS
<1>2. Min({x, y}) \in {x, y} /\ \A u \in {x, y} : Min({x, y}) <= u
  BY <1>1 DEF Min
<1> QED
  BY <1>1, <1>2

\* Clipping at zero.
LEMMA AtLeastZeroIs ==
  ASSUME NEW x \in Int
  PROVE  AtLeastZero(x) = IF x >= 0 THEN x ELSE 0
<1> DEFINE most == IF x >= 0 THEN x ELSE 0
<1>1. most \in {x, 0} /\ \A u \in {x, 0} : most >= u /\ u \in Int
  OBVIOUS
<1>2. Max({x, 0}) \in {x, 0} /\ \A u \in {x, 0} : Max({x, 0}) >= u
  BY <1>1 DEF Max
<1> QED
  BY <1>1, <1>2 DEF AtLeastZero

\* R puts the places P in a row.
Ordering(R, P) ==
  /\ \A i \in P : <<i, i>> \notin R
  /\ \A i, j \in P : i # j => <<i, j>> \in R \/ <<j, i>> \in R
  /\ \A i, j, k \in P : <<i, j>> \in R /\ <<j, k>> \in R => <<i, k>> \in R

Preceding(R, P, i) == {j \in P : <<j, i>> \in R}

\* The place with n - 1 places before it.
PlaceOf(R, P, n) == CHOOSE i \in P : Cardinality(Preceding(R, P, i)) = n - 1

\* A row has a place with as many before it as one asks for.
LEMMA PlacesExist ==
  ASSUME NEW P, IsFiniteSet(P), NEW R, Ordering(R, P), NEW n \in 1 .. Cardinality(P)
  PROVE  PlaceOf(R, P, n) \in P /\ Cardinality(Preceding(R, P, PlaceOf(R, P, n))) = n - 1
<1> DEFINE rank == [i \in P |-> Cardinality(Preceding(R, P, i))]
           last == Cardinality(P)
           T == 0 .. (last - 1)
<1>1. last \in Nat
  BY FS_CardinalityType
<1>2. \A i \in P : IsFiniteSet(Preceding(R, P, i)) /\ Cardinality(Preceding(R, P, i)) \in Nat
  BY FS_Subset, FS_CardinalityType DEF Preceding
<1>3. \A i, k \in P : <<i, k>> \in R => rank[i] < rank[k]
  <2> TAKE i, k \in P
  <2> HAVE <<i, k>> \in R
  <2> DEFINE I == Preceding(R, P, i)
             K == Preceding(R, P, k)
  <2>1. I \in SUBSET K /\ I # K
    BY DEF Ordering, Preceding
  <2>2. IsFiniteSet(K)
    BY <1>2
  <2>3. Cardinality(I) <= Cardinality(K) /\ Cardinality(I) # Cardinality(K)
    <3> HIDE DEF I, K
    <3> QED BY <2>1, <2>2, FS_Subset
  <2>4. Cardinality(I) \in Nat /\ Cardinality(K) \in Nat
    BY <1>2
  <2> QED BY <2>3, <2>4
<1>4. rank \in Injection(P, T)
  <2>1. \A i \in P : rank[i] \in T
    <3> TAKE i \in P
    <3> DEFINE I == Preceding(R, P, i)
    <3>1. I \in SUBSET P /\ I # P
      BY DEF Ordering, Preceding
    <3>2. Cardinality(I) <= last /\ Cardinality(I) # last
      <4> HIDE DEF I
      <4> QED BY <3>1, FS_Subset
    <3> QED BY <1>1, <1>2, <3>2
  <2>2. \A i, k \in P : i # k => rank[i] # rank[k]
    <3> TAKE i, k \in P
    <3> HAVE i # k
    <3>1. rank[i] \in Int /\ rank[k] \in Int
      BY <1>2
    <3>2. <<i, k>> \in R \/ <<k, i>> \in R
      BY DEF Ordering
    <3> HIDE DEF rank
    <3> QED BY <1>3, <3>1, <3>2
  <2>3. DOMAIN rank = P
    OBVIOUS
  <2>4. rank \in [P -> T]
    BY <2>1
  <2> HIDE DEF rank, T
  <2> QED BY <2>2, <2>4, Fun_IsInj
<1>5. IsFiniteSet(T) /\ Cardinality(T) = last
  <2>1. last - 1 \in Int /\ 0 \in Int
    BY <1>1
  <2>2. IsFiniteSet(T) /\ Cardinality(T) = IF 0 > last - 1 THEN 0 ELSE last - 1 - 0 + 1
    <3> DEFINE m == last - 1
    <3>1. m \in Int
      BY <2>1
    <3> HIDE DEF m
    <3>2. IsFiniteSet(0 .. m) /\ Cardinality(0 .. m) = IF 0 > m THEN 0 ELSE m - 0 + 1
      BY <3>1, FS_Interval
    <3> QED BY <3>2 DEF m
  <2> HIDE DEF T
  <2> QED BY <1>1, <2>2
<1>6. rank \in Surjection(P, T)
  <2> HIDE DEF rank, T
  <2> QED BY <1>4, <1>5, FS_Injection
<1>7. \E i \in P : rank[i] = n - 1
  <2>1. n - 1 \in T
    BY <1>1
  <2> HIDE DEF rank, T
  <2> QED BY <1>6, <2>1 DEF Surjection
<1>8. \E i \in P : Cardinality(Preceding(R, P, i)) = n - 1
  BY <1>7
<1> QED
  BY <1>8 DEF PlaceOf

\* Arranging takes each place once.
IsPicking(at, P) ==
  /\ at \in [1 .. Cardinality(P) -> P]
  /\ \A n, m \in 1 .. Cardinality(P) : at[n] = at[m] => n = m

\* No place is taken twice.
LEMMA PlacesDiffer ==
  ASSUME NEW P, IsFiniteSet(P), NEW R, Ordering(R, P)
  PROVE  IsPicking([n \in 1 .. Cardinality(P) |-> PlaceOf(R, P, n)], P)
<1> DEFINE at == [n \in 1 .. Cardinality(P) |-> PlaceOf(R, P, n)]
<1>1. \A n \in 1 .. Cardinality(P) :
        at[n] \in P /\ Cardinality(Preceding(R, P, at[n])) = n - 1
  BY PlacesExist
<1>2. at \in [1 .. Cardinality(P) -> P]
  BY <1>1
<1> HIDE DEF at
<1>3. \A n, m \in 1 .. Cardinality(P) : at[n] = at[m] => n = m
  BY <1>1
<1>4. IsPicking(at, P)
  BY <1>2, <1>3 DEF IsPicking
<1> QED
  BY <1>4 DEF at

\* Picking keeps the entries at the places, each once.
LEMMA PickedIs ==
  ASSUME NEW seq, NEW P \in SUBSET Int, IsFiniteSet(P)
  PROVE  \E at : /\ IsPicking(at, P)
                 /\ Picked(seq, P) = [n \in 1 .. Cardinality(P) |-> seq[at[n]]]
<1> DEFINE R == {p \in P \X P : p[1] < p[2]}
           at == [n \in 1 .. Cardinality(P) |-> PlaceOf(R, P, n)]
<1>1. Ordering(R, P)
  BY DEF Ordering
<1>2. IsPicking(at, P)
  <2> HIDE DEF R
  <2> QED BY <1>1, PlacesDiffer
<1>3. \A i \in P : {j \in P : j < i} = Preceding(R, P, i)
  BY DEF Preceding
<1>4. \A n : (CHOOSE i \in P : Cardinality({j \in P : j < i}) = n - 1) = PlaceOf(R, P, n)
  <2> HIDE DEF R
  <2> QED BY <1>3 DEF PlaceOf
<1>5. Picked(seq, P) = [n \in 1 .. Cardinality(P) |-> seq[at[n]]]
  <2>1. Picked(seq, P) =
          [n \in 1 .. Cardinality(P) |->
             seq[CHOOSE i \in P : Cardinality({j \in P : j < i}) = n - 1]]
    BY DEF Picked, Arranged
  <2> HIDE DEF R
  <2>2. \A n \in 1 .. Cardinality(P) :
          seq[CHOOSE i \in P : Cardinality({j \in P : j < i}) = n - 1] = seq[at[n]]
    <3> TAKE n \in 1 .. Cardinality(P)
    <3>1. at[n] = PlaceOf(R, P, n)
      OBVIOUS
    <3> HIDE DEF at
    <3>2. (CHOOSE i \in P : Cardinality({j \in P : j < i}) = n - 1) = at[n]
      BY <1>4, <3>1, Zenon
    <3> QED BY <3>2, Zenon
  <2> QED BY <2>1, <2>2, Zenon
<1> HIDE DEF at
<1> QED
  BY <1>2, <1>5

-----------------------------------------------------------------------------
(* The queue                                                               *)

\* A candidate that was assessed.
IsCandidate(c) ==
  /\ c.signal.symbol \in Symbols /\ c.signal.sector = SectorOf[c.signal.symbol]
  /\ c.signal.strength \in Nat /\ c.quality \in Nat /\ c.crowd \in Nat /\ c.index \in Nat
  /\ c.sizing.shares \in Nat
  /\ c.disposition \in OperatorApproved =>
       c.sizing.shares # 0 /\ c.sizing.notional = c.sizing.shares * UnitPrice

\* The candidates of a run, none with the index of another.
AreCandidates(assessed) ==
  /\ \A i \in DOMAIN assessed : IsCandidate(assessed[i])
  /\ \A i, j \in DOMAIN assessed : assessed[i].index = assessed[j].index => i = j

ApprovedAt(assessed) == {i \in DOMAIN assessed : assessed[i].disposition \in OperatorApproved}

Earlier(assessed, P) == {p \in P \X P : Before(assessed[p[1]], assessed[p[2]])}

\* The scores of candidates are whole numbers.
LEMMA ScoresAreWhole ==
  ASSUME NEW c, IsCandidate(c)
  PROVE  Opportunity(c) \in Int /\ PriorityScore(c) \in Int
<1>1. Opportunity(c) \in Int
  BY DEF Opportunity, IsCandidate
<1>2. SectorSupport(c) \in Int
  BY DEF SectorSupport
<1>3. c.quality \in Int /\ 2 * c.crowd \in Int
  BY DEF IsCandidate
<1> QED
  BY <1>1, <1>2, <1>3 DEF PriorityScore

\* The queue has one order.
LEMMA BeforeOrders ==
  ASSUME NEW assessed, AreCandidates(assessed), NEW P \in SUBSET DOMAIN assessed
  PROVE  Ordering(Earlier(assessed, P), P)
<1> DEFINE score == [i \in P |-> PriorityScore(assessed[i])]
           worth == [i \in P |-> Opportunity(assessed[i])]
           index == [i \in P |-> assessed[i].index]
           Sooner(i, j) == \/ score[i] > score[j]
                           \/ /\ score[i] = score[j]
                              /\ \/ worth[i] > worth[j]
                                 \/ worth[i] = worth[j] /\ index[i] < index[j]
           R == Earlier(assessed, P)
<1>1. \A i, j \in P : <<i, j>> \in R <=> Sooner(i, j)
  <2> TAKE i, j \in P
  <2>1. <<i, j>> \in R <=> Before(assessed[i], assessed[j])
    BY DEF Earlier
  <2> QED BY <2>1 DEF Before
<1>2. \A i \in P : score[i] \in Int /\ worth[i] \in Int /\ index[i] \in Int
  <2> TAKE i \in P
  <2>1. IsCandidate(assessed[i])
    BY DEF AreCandidates
  <2> QED BY <2>1, ScoresAreWhole DEF IsCandidate
<1>3. \A i, j \in P : index[i] = index[j] => i = j
  BY DEF AreCandidates
<1> HIDE DEF score, worth, index, R
<1>4. \A i \in P : <<i, i>> \notin R
  BY <1>1, <1>2
<1>5. \A i, j \in P : i # j => <<i, j>> \in R \/ <<j, i>> \in R
  <2> TAKE i, j \in P
  <2> HAVE i # j
  <2>1. Sooner(i, j) \/ Sooner(j, i)
    BY <1>2, <1>3
  <2> HIDE DEF Sooner
  <2> QED BY <1>1, <2>1
<1>6. \A i, j, k \in P : <<i, j>> \in R /\ <<j, k>> \in R => <<i, k>> \in R
  <2> TAKE i, j, k \in P
  <2> HAVE <<i, j>> \in R /\ <<j, k>> \in R
  <2>1. Sooner(i, j) /\ Sooner(j, k)
    BY <1>1
  <2>2. Sooner(i, k)
    BY <1>2, <2>1
  <2> HIDE DEF Sooner
  <2> QED BY <1>1, <2>2
<1> QED
  BY <1>4, <1>5, <1>6 DEF Ordering, R

\* The candidates that are queued: those approved, each once.
ApprovedOf(assessed) ==
  Arranged(assessed, ApprovedAt(assessed), LAMBDA i, j : Before(assessed[i], assessed[j]))

\* The queue holds the approved candidates, each once.
LEMMA ApprovedIs ==
  ASSUME NEW assessed, AreCandidates(assessed), IsFiniteSet(DOMAIN assessed)
  PROVE  LET P == ApprovedAt(assessed)
         IN  /\ IsFiniteSet(P) /\ Cardinality(P) \in Nat
             /\ \E at : /\ IsPicking(at, P)
                        /\ ApprovedOf(assessed)
                             = [n \in 1 .. Cardinality(P) |-> assessed[at[n]]]
<1> DEFINE P == ApprovedAt(assessed)
           R == Earlier(assessed, P)
           at == [n \in 1 .. Cardinality(P) |-> PlaceOf(R, P, n)]
<1>1. P \in SUBSET DOMAIN assessed
  BY DEF ApprovedAt
<1>2. IsFiniteSet(P)
  BY <1>1, FS_Subset
<1>3. Ordering(R, P)
  BY <1>1, BeforeOrders
<1>4. IsPicking(at, P)
  <2> HIDE DEF R, P
  <2> QED BY <1>2, <1>3, PlacesDiffer
<1>5. \A i \in P : {j \in P : Before(assessed[j], assessed[i])} = Preceding(R, P, i)
  BY DEF Preceding, Earlier
<1> HIDE DEF R, P
<1>6. \A n : (CHOOSE i \in P : Cardinality({j \in P : Before(assessed[j], assessed[i])}) = n - 1)
               = PlaceOf(R, P, n)
  BY <1>5 DEF PlaceOf
<1>7. ApprovedOf(assessed) = [n \in 1 .. Cardinality(P) |-> assessed[at[n]]]
  <2>1. ApprovedOf(assessed) =
          [n \in 1 .. Cardinality(P) |->
             assessed[CHOOSE i \in P :
                        Cardinality({j \in P : Before(assessed[j], assessed[i])}) = n - 1]]
    BY DEF ApprovedOf, Arranged, P
  <2>2. \A n \in 1 .. Cardinality(P) :
          assessed[CHOOSE i \in P :
                     Cardinality({j \in P : Before(assessed[j], assessed[i])}) = n - 1]
            = assessed[at[n]]
    <3> TAKE n \in 1 .. Cardinality(P)
    <3>1. at[n] = PlaceOf(R, P, n)
      OBVIOUS
    <3> HIDE DEF at
    <3>2. (CHOOSE i \in P : Cardinality({j \in P : Before(assessed[j], assessed[i])}) = n - 1)
            = at[n]
      BY <1>6, <3>1, Zenon
    <3> QED BY <3>2, Zenon
  <2> QED BY <2>1, <2>2, Zenon
<1>8. Cardinality(P) \in Nat
  BY <1>2, FS_CardinalityType
<1> HIDE DEF at
<1> QED
  BY <1>2, <1>4, <1>7, <1>8 DEF P

-----------------------------------------------------------------------------
(* Loops                                                                   *)

\* One turn of Evaluations, and one of Staged.
NextEvaluation(signals, skip, sofar, k) ==
  LET x == Evaluation(signals, k)
  IN IF x.signal # NoValue /\ x.symbol \notin skip THEN Append(sofar, x) ELSE sofar

StageNext(b, e) == Upsert(b, e.order, NewRecord(e.order, e.shares))

\* The sequences that the choice of the signals runs through.
LEMMA EvaluationRuns ==
  ASSUME NEW signals, NEW n0 \in Nat, NEW skip
  PROVE  \E g : /\ g[0] = <<>>
                /\ \A n \in 1 .. n0 * Len(Universe) : g[n] = NextEvaluation(signals, skip, g[n - 1], n)
                /\ Evaluations(signals, n0, skip) = g[n0 * Len(Universe)]
<1> DEFINE last == n0 * Len(Universe)
           Runs(g, k) ==
             g = [n \in 0 .. k |-> IF n = 0 THEN <<>> ELSE NextEvaluation(signals, skip, g[n - 1], n)]
           Broken == {k \in 0 .. last : ~\E g : Runs(g, k)}
<1>0. last \in Nat
  BY UniverseAssumption
<1>1. Broken = {}
  <2> SUFFICES ASSUME Broken # {} PROVE FALSE
    OBVIOUS
  <2> HIDE DEF last
  <2>1. PICK k \in Broken : \A j \in Broken : k <= j
    <3>1. Broken \in SUBSET Nat
      BY <1>0
    <3> HIDE DEF Broken
    <3> QED BY <3>1, LeastNumber
  <2>2. k # 0
    <3> DEFINE g == [n \in 0 .. 0 |-> <<>>]
    <3>1. Runs(g, 0)
      OBVIOUS
    <3> HIDE DEF g, Runs
    <3> QED BY <3>1
  <2>3. PICK g : Runs(g, k - 1)
    <3>1. k - 1 \in 0 .. last /\ ~(k <= k - 1)
      BY <1>0, <2>2
    <3>2. k - 1 \notin Broken
      <4> HIDE DEF Broken
      <4> QED BY <2>1, <3>1
    <3> HIDE DEF Runs
    <3> QED BY <3>1, <3>2
  <2> DEFINE h == [n \in 0 .. k |-> IF n = k THEN NextEvaluation(signals, skip, g[k - 1], k) ELSE g[n]]
  <2>4. Runs(h, k)
    <3>1. k \in Nat \ {0}
      BY <1>0, <2>2
    <3>2. \A n \in 0 .. k : h[n] = IF n = 0 THEN <<>> ELSE NextEvaluation(signals, skip, h[n - 1], n)
      <4> TAKE n \in 0 .. k
      <4>1. CASE n = k
        <5>1. h[n] = NextEvaluation(signals, skip, g[k - 1], k) /\ h[k - 1] = g[k - 1]
          BY <3>1, <4>1
        <5> QED BY <3>1, <4>1, <5>1
      <4>2. CASE n # k
        <5>1. n \in 0 .. k - 1 /\ h[n] = g[n]
          BY <3>1, <4>2
        <5>2. n # 0 => n - 1 \in 0 .. k /\ n - 1 # k /\ h[n - 1] = g[n - 1]
          BY <3>1, <5>1
        <5>3. g[n] = IF n = 0 THEN <<>> ELSE NextEvaluation(signals, skip, g[n - 1], n)
          BY <2>3, <5>1
        <5> QED BY <5>1, <5>2, <5>3
      <4> QED BY <4>1, <4>2
    <3>3. [n \in 0 .. k |-> IF n = 0 THEN <<>> ELSE NextEvaluation(signals, skip, h[n - 1], n)]
            = [n \in 0 .. k |-> h[n]]
      BY <3>2
    <3>4. h = [n \in 0 .. k |-> h[n]]
      OBVIOUS
    <3> HIDE DEF h
    <3> QED BY <3>3, <3>4
  <2> HIDE DEF Runs, h
  <2> QED BY <2>4
<1>2. PICK g : Runs(g, last)
  <2> HIDE DEF Runs, last
  <2> QED BY <1>0, <1>1
<1> DEFINE run == CHOOSE h : Runs(h, last)
<1>3. Evaluations(signals, n0, skip) = run[last]
  BY DEF Evaluations, NextEvaluation
<1>4. Runs(run, last)
  <2> HIDE DEF Runs, last
  <2> QED BY <1>2
<1> HIDE DEF run, last
<1>5. run[0] = <<>> /\ \A n \in 1 .. last : run[n] = NextEvaluation(signals, skip, run[n - 1], n)
  BY <1>0, <1>4
<1> QED
  BY <1>3, <1>5 DEF last

\* The assessments that a run goes through.
LEMMA AssessmentRuns ==
  ASSUME NEW evaluations, Len(evaluations) \in Nat, NEW market, NEW pf, NEW orders
  PROVE  \E g : /\ g[0] = [exposures |-> Exposures(pf, orders), out |-> <<>>]
                /\ \A n \in 1 .. Len(evaluations) : g[n] = AssessNext(g[n - 1], evaluations[n], market, Held(pf))
                /\ AssessAll(evaluations, market, pf, orders) = g[Len(evaluations)].out
<1> DEFINE last == Len(evaluations)
           Runs(g, k) ==
             g = [n \in 0 .. k |-> IF n = 0 THEN [exposures |-> Exposures(pf, orders), out |-> <<>>] ELSE AssessNext(g[n - 1], evaluations[n], market, Held(pf))]
           Broken == {k \in 0 .. last : ~\E g : Runs(g, k)}
<1>0. last \in Nat
  OBVIOUS
<1>1. Broken = {}
  <2> SUFFICES ASSUME Broken # {} PROVE FALSE
    OBVIOUS
  <2> HIDE DEF last
  <2>1. PICK k \in Broken : \A j \in Broken : k <= j
    <3>1. Broken \in SUBSET Nat
      BY <1>0
    <3> HIDE DEF Broken
    <3> QED BY <3>1, LeastNumber
  <2>2. k # 0
    <3> DEFINE g == [n \in 0 .. 0 |-> [exposures |-> Exposures(pf, orders), out |-> <<>>]]
    <3>1. Runs(g, 0)
      OBVIOUS
    <3> HIDE DEF g, Runs
    <3> QED BY <3>1
  <2>3. PICK g : Runs(g, k - 1)
    <3>1. k - 1 \in 0 .. last /\ ~(k <= k - 1)
      BY <1>0, <2>2
    <3>2. k - 1 \notin Broken
      <4> HIDE DEF Broken
      <4> QED BY <2>1, <3>1
    <3> HIDE DEF Runs
    <3> QED BY <3>1, <3>2
  <2> DEFINE h == [n \in 0 .. k |-> IF n = k THEN AssessNext(g[k - 1], evaluations[k], market, Held(pf)) ELSE g[n]]
  <2>4. Runs(h, k)
    <3>1. k \in Nat \ {0}
      BY <1>0, <2>2
    <3>2. \A n \in 0 .. k : h[n] = IF n = 0 THEN [exposures |-> Exposures(pf, orders), out |-> <<>>] ELSE AssessNext(h[n - 1], evaluations[n], market, Held(pf))
      <4> TAKE n \in 0 .. k
      <4>1. CASE n = k
        <5>1. h[n] = AssessNext(g[k - 1], evaluations[k], market, Held(pf)) /\ h[k - 1] = g[k - 1]
          BY <3>1, <4>1
        <5> QED BY <3>1, <4>1, <5>1
      <4>2. CASE n # k
        <5>1. n \in 0 .. k - 1 /\ h[n] = g[n]
          BY <3>1, <4>2
        <5>2. n # 0 => n - 1 \in 0 .. k /\ n - 1 # k /\ h[n - 1] = g[n - 1]
          BY <3>1, <5>1
        <5>3. g[n] = IF n = 0 THEN [exposures |-> Exposures(pf, orders), out |-> <<>>] ELSE AssessNext(g[n - 1], evaluations[n], market, Held(pf))
          BY <2>3, <5>1
        <5> QED BY <5>1, <5>2, <5>3
      <4> QED BY <4>1, <4>2
    <3>3. [n \in 0 .. k |-> IF n = 0 THEN [exposures |-> Exposures(pf, orders), out |-> <<>>] ELSE AssessNext(h[n - 1], evaluations[n], market, Held(pf))]
            = [n \in 0 .. k |-> h[n]]
      BY <3>2
    <3>4. h = [n \in 0 .. k |-> h[n]]
      OBVIOUS
    <3> HIDE DEF h
    <3> QED BY <3>3, <3>4
  <2> HIDE DEF Runs, h
  <2> QED BY <2>4
<1>2. PICK g : Runs(g, last)
  <2> HIDE DEF Runs, last
  <2> QED BY <1>0, <1>1
<1> DEFINE run == CHOOSE h : Runs(h, last)
<1>3. AssessAll(evaluations, market, pf, orders) = run[last].out
  BY DEF AssessAll
<1>4. Runs(run, last)
  <2> HIDE DEF Runs, last
  <2> QED BY <1>2
<1> HIDE DEF run, last
<1>5. run[0] = [exposures |-> Exposures(pf, orders), out |-> <<>>] /\ \A n \in 1 .. last : run[n] = AssessNext(run[n - 1], evaluations[n], market, Held(pf))
  BY <1>0, <1>4
<1> QED
  BY <1>3, <1>5 DEF last

\* The queues that are filled one candidate at a time.
LEMMA QueueRuns ==
  ASSUME NEW assessed, NEW view, Cardinality(ApprovedAt(assessed)) \in Nat
  PROVE  \E g : /\ g[0] = [taken |-> 0, used |-> 0, out |-> <<>>]
                /\ \A n \in 1 .. Cardinality(ApprovedAt(assessed)) : g[n] = Take(view, g[n - 1], ApprovedOf(assessed)[n])
                /\ Prioritized(assessed, view) = g[Cardinality(ApprovedAt(assessed))].out
<1> DEFINE last == Cardinality(ApprovedAt(assessed))
           Runs(g, k) ==
             g = [n \in 0 .. k |-> IF n = 0 THEN [taken |-> 0, used |-> 0, out |-> <<>>] ELSE Take(view, g[n - 1], ApprovedOf(assessed)[n])]
           Broken == {k \in 0 .. last : ~\E g : Runs(g, k)}
<1>0. last \in Nat
  OBVIOUS
<1>1. Broken = {}
  <2> SUFFICES ASSUME Broken # {} PROVE FALSE
    OBVIOUS
  <2> HIDE DEF last
  <2>1. PICK k \in Broken : \A j \in Broken : k <= j
    <3>1. Broken \in SUBSET Nat
      BY <1>0
    <3> HIDE DEF Broken
    <3> QED BY <3>1, LeastNumber
  <2>2. k # 0
    <3> DEFINE g == [n \in 0 .. 0 |-> [taken |-> 0, used |-> 0, out |-> <<>>]]
    <3>1. Runs(g, 0)
      OBVIOUS
    <3> HIDE DEF g, Runs
    <3> QED BY <3>1
  <2>3. PICK g : Runs(g, k - 1)
    <3>1. k - 1 \in 0 .. last /\ ~(k <= k - 1)
      BY <1>0, <2>2
    <3>2. k - 1 \notin Broken
      <4> HIDE DEF Broken
      <4> QED BY <2>1, <3>1
    <3> HIDE DEF Runs
    <3> QED BY <3>1, <3>2
  <2> DEFINE h == [n \in 0 .. k |-> IF n = k THEN Take(view, g[k - 1], ApprovedOf(assessed)[k]) ELSE g[n]]
  <2>4. Runs(h, k)
    <3>1. k \in Nat \ {0}
      BY <1>0, <2>2
    <3>2. \A n \in 0 .. k : h[n] = IF n = 0 THEN [taken |-> 0, used |-> 0, out |-> <<>>] ELSE Take(view, h[n - 1], ApprovedOf(assessed)[n])
      <4> TAKE n \in 0 .. k
      <4>1. CASE n = k
        <5>1. h[n] = Take(view, g[k - 1], ApprovedOf(assessed)[k]) /\ h[k - 1] = g[k - 1]
          BY <3>1, <4>1
        <5> QED BY <3>1, <4>1, <5>1
      <4>2. CASE n # k
        <5>1. n \in 0 .. k - 1 /\ h[n] = g[n]
          BY <3>1, <4>2
        <5>2. n # 0 => n - 1 \in 0 .. k /\ n - 1 # k /\ h[n - 1] = g[n - 1]
          BY <3>1, <5>1
        <5>3. g[n] = IF n = 0 THEN [taken |-> 0, used |-> 0, out |-> <<>>] ELSE Take(view, g[n - 1], ApprovedOf(assessed)[n])
          BY <2>3, <5>1
        <5> QED BY <5>1, <5>2, <5>3
      <4> QED BY <4>1, <4>2
    <3>3. [n \in 0 .. k |-> IF n = 0 THEN [taken |-> 0, used |-> 0, out |-> <<>>] ELSE Take(view, h[n - 1], ApprovedOf(assessed)[n])]
            = [n \in 0 .. k |-> h[n]]
      BY <3>2
    <3>4. h = [n \in 0 .. k |-> h[n]]
      OBVIOUS
    <3> HIDE DEF h
    <3> QED BY <3>3, <3>4
  <2> HIDE DEF Runs, h
  <2> QED BY <2>4
<1>2. PICK g : Runs(g, last)
  <2> HIDE DEF Runs, last
  <2> QED BY <1>0, <1>1
<1> DEFINE run == CHOOSE h : Runs(h, last)
<1>3. Prioritized(assessed, view) = run[last].out
  BY DEF Prioritized, ApprovedOf, ApprovedAt
<1>4. Runs(run, last)
  <2> HIDE DEF Runs, last
  <2> QED BY <1>2
<1> HIDE DEF run, last
<1>5. run[0] = [taken |-> 0, used |-> 0, out |-> <<>>] /\ \A n \in 1 .. last : run[n] = Take(view, run[n - 1], ApprovedOf(assessed)[n])
  BY <1>0, <1>4
<1> QED
  BY <1>3, <1>5 DEF last

\* The books that the orders of a batch lead to.
LEMMA StagedRuns ==
  ASSUME NEW b, NEW batch, Len(batch) \in Nat
  PROVE  \E g : /\ g[0] = b
                /\ \A n \in 1 .. Len(batch) : g[n] = StageNext(g[n - 1], batch[n])
                /\ \A n \in 0 .. Len(batch) : Staged(b, batch)[n] = g[n]
<1> DEFINE last == Len(batch)
           Runs(g, k) ==
             g = [n \in 0 .. k |-> IF n = 0 THEN b ELSE StageNext(g[n - 1], batch[n])]
           Broken == {k \in 0 .. last : ~\E g : Runs(g, k)}
<1>0. last \in Nat
  OBVIOUS
<1>1. Broken = {}
  <2> SUFFICES ASSUME Broken # {} PROVE FALSE
    OBVIOUS
  <2> HIDE DEF last
  <2>1. PICK k \in Broken : \A j \in Broken : k <= j
    <3>1. Broken \in SUBSET Nat
      BY <1>0
    <3> HIDE DEF Broken
    <3> QED BY <3>1, LeastNumber
  <2>2. k # 0
    <3> DEFINE g == [n \in 0 .. 0 |-> b]
    <3>1. Runs(g, 0)
      OBVIOUS
    <3> HIDE DEF g, Runs
    <3> QED BY <3>1
  <2>3. PICK g : Runs(g, k - 1)
    <3>1. k - 1 \in 0 .. last /\ ~(k <= k - 1)
      BY <1>0, <2>2
    <3>2. k - 1 \notin Broken
      <4> HIDE DEF Broken
      <4> QED BY <2>1, <3>1
    <3> HIDE DEF Runs
    <3> QED BY <3>1, <3>2
  <2> DEFINE h == [n \in 0 .. k |-> IF n = k THEN StageNext(g[k - 1], batch[k]) ELSE g[n]]
  <2>4. Runs(h, k)
    <3>1. k \in Nat \ {0}
      BY <1>0, <2>2
    <3>2. \A n \in 0 .. k : h[n] = IF n = 0 THEN b ELSE StageNext(h[n - 1], batch[n])
      <4> TAKE n \in 0 .. k
      <4>1. CASE n = k
        <5>1. h[n] = StageNext(g[k - 1], batch[k]) /\ h[k - 1] = g[k - 1]
          BY <3>1, <4>1
        <5> QED BY <3>1, <4>1, <5>1
      <4>2. CASE n # k
        <5>1. n \in 0 .. k - 1 /\ h[n] = g[n]
          BY <3>1, <4>2
        <5>2. n # 0 => n - 1 \in 0 .. k /\ n - 1 # k /\ h[n - 1] = g[n - 1]
          BY <3>1, <5>1
        <5>3. g[n] = IF n = 0 THEN b ELSE StageNext(g[n - 1], batch[n])
          BY <2>3, <5>1
        <5> QED BY <5>1, <5>2, <5>3
      <4> QED BY <4>1, <4>2
    <3>3. [n \in 0 .. k |-> IF n = 0 THEN b ELSE StageNext(h[n - 1], batch[n])]
            = [n \in 0 .. k |-> h[n]]
      BY <3>2
    <3>4. h = [n \in 0 .. k |-> h[n]]
      OBVIOUS
    <3> HIDE DEF h
    <3> QED BY <3>3, <3>4
  <2> HIDE DEF Runs, h
  <2> QED BY <2>4
<1>2. PICK g : Runs(g, last)
  <2> HIDE DEF Runs, last
  <2> QED BY <1>0, <1>1
<1> DEFINE run == CHOOSE h : Runs(h, last)
<1>3. \A n \in 0 .. last : Staged(b, batch)[n] = run[n]
  BY DEF Staged, StageNext
<1>4. Runs(run, last)
  <2> HIDE DEF Runs, last
  <2> QED BY <1>2
<1> HIDE DEF run, last
<1>5. run[0] = b /\ \A n \in 1 .. last : run[n] = StageNext(run[n - 1], batch[n])
  BY <1>0, <1>4
<1> QED
  BY <1>3, <1>5 DEF last

-----------------------------------------------------------------------------
(* What is queued fits                                                     *)

\* The places of a queue whose candidates can be ordered now.
NowAt(out) == {i \in DOMAIN out : out[i].now}

\* What the candidates cost.
CostsOf(approved) == [i \in DOMAIN approved |-> approved[i].sizing.notional]

\* A queue holds the first n candidates, and what it takes fits the view.
QueueOK(q, n, approved, view) ==
  /\ q.taken \in Nat /\ q.used \in Nat
  /\ q.taken <= view.slots /\ q.used <= view.capital
  /\ q.out \in Seq([candidate : Range(approved), now : BOOLEAN]) /\ Len(q.out) = n
  /\ \A i \in 1 .. n : q.out[i].candidate = approved[i]
  /\ q.taken = Cardinality(NowAt(q.out))
  /\ q.used = SumFunctionOnSet(CostsOf(approved), NowAt(q.out))

\* One more candidate, ordered now or waiting, keeps the queue right.
LEMMA TakeKeeps ==
  ASSUME NEW approved, NEW last \in Nat, DOMAIN approved = 1 .. last,
         \A i \in DOMAIN approved : approved[i].sizing.notional \in Nat,
         NEW view, view.slots \in Nat, view.capital \in Nat,
         NEW n \in 1 .. last, NEW q, QueueOK(q, n - 1, approved, view)
  PROVE  QueueOK(Take(view, q, approved[n]), n, approved, view)
<1> DEFINE c == approved[n]
           now == /\ c.signal.symbol \notin view.symbols
                  /\ q.taken < view.slots
                  /\ c.sizing.notional <= view.capital - q.used
           r == Take(view, q, c)
           e == [candidate |-> c, now |-> now]
           Entries == [candidate : Range(approved), now : BOOLEAN]
<1>1. /\ r.taken = q.taken + IF now THEN 1 ELSE 0
      /\ r.used = q.used + IF now THEN c.sizing.notional ELSE 0
      /\ r.out = Append(q.out, e)
  BY DEF Take
<1>2. e \in Entries
  BY DEF Range
<1>3. q.out \in Seq(Entries) /\ Len(q.out) = n - 1
  BY DEF QueueOK
<1>0. e.now = now /\ e.candidate = c
  OBVIOUS
<1> HIDE DEF Entries, e
<1>4. /\ r.out \in Seq(Entries) /\ Len(r.out) = n
      /\ \A i \in 1 .. n - 1 : r.out[i] = q.out[i]
      /\ r.out[n] = e
  BY <1>1, <1>2, <1>3
<1>5. \A i \in 1 .. n : r.out[i].candidate = approved[i]
  <2> TAKE i \in 1 .. n
  <2>1. CASE i = n
    BY <1>0, <1>4, <2>1
  <2>2. CASE i # n
    <3>1. i \in 1 .. n - 1
      BY <2>2
    <3> QED BY <1>4, <3>1 DEF QueueOK
  <2> QED BY <2>1, <2>2
<1> DEFINE A == NowAt(q.out)
           B == NowAt(r.out)
           costs == CostsOf(approved)
<1>6. DOMAIN q.out = 1 .. n - 1 /\ DOMAIN r.out = 1 .. n
  BY <1>3, <1>4
<1>7. B = (IF now THEN A \cup {n} ELSE A) /\ n \notin A /\ A \subseteq 1 .. n - 1
  <2>1. \A i \in 1 .. n - 1 : i \in B <=> i \in A
    BY <1>4, <1>6 DEF NowAt
  <2>2. n \in B <=> now
    <3>1. n \in B <=> r.out[n].now
      BY <1>6 DEF NowAt
    <3>2. r.out[n].now = now
      BY <1>0, <1>4, Zenon
    <3> HIDE DEF B, now, r
    <3> QED BY <3>1, <3>2, Zenon
  <2>3. A \subseteq 1 .. n - 1 /\ B \subseteq 1 .. n
    BY <1>6 DEF NowAt
  <2> HIDE DEF A, B, now
  <2>4. CASE now
    <3>0. n \in B
      BY <2>2, <2>4, Zenon
    <3>2. \A x \in 1 .. n : x \in B <=> x \in A \cup {n}
      <4> TAKE x \in 1 .. n
      <4>1. x = n \/ x \in 1 .. n - 1
        OBVIOUS
      <4> QED BY <2>1, <2>3, <3>0, <4>1
    <3>3. n \in 1 .. n /\ 1 .. n - 1 \subseteq 1 .. n
      OBVIOUS
    <3>1. B = A \cup {n}
      BY <2>3, <3>2, <3>3
    <3> QED BY <2>3, <2>4, <3>1
  <2>5. CASE ~now
    <3>0. n \notin B
      BY <2>2, <2>5, Zenon
    <3>2. \A x \in 1 .. n : x \in B <=> x \in A
      <4> TAKE x \in 1 .. n
      <4>1. x = n \/ x \in 1 .. n - 1
        OBVIOUS
      <4> QED BY <2>1, <2>3, <3>0, <4>1
    <3>3. 1 .. n - 1 \subseteq 1 .. n
      OBVIOUS
    <3>1. B = A
      BY <2>3, <3>2, <3>3
    <3> QED BY <2>3, <2>5, <3>1
  <2> QED BY <2>4, <2>5
<1>8. IsFiniteSet(A) /\ IsFiniteSet(B) /\ B \subseteq 1 .. last
  <2>1. IsFiniteSet(1 .. n - 1)
    BY FS_Interval
  <2>2. IsFiniteSet(A)
    <3> HIDE DEF A, B
    <3> QED BY <1>7, <2>1, FS_Subset
  <2>3. IsFiniteSet(A \cup {n})
    BY <2>2, FS_AddElement
  <2> HIDE DEF A, B, now
  <2>4. B = A \cup {n} \/ B = A
    BY <1>7
  <2>5. IsFiniteSet(B)
    BY <2>2, <2>3, <2>4
  <2>6. B \subseteq 1 .. last
    BY <1>7, <2>4
  <2> QED BY <2>2, <2>5, <2>6
<1>9. Whole(costs, B) /\ costs[n] = c.sizing.notional /\ c.sizing.notional \in Nat
  BY <1>8 DEF Whole, CostsOf
<1>10. q.taken = Cardinality(A) /\ q.used = SumFunctionOnSet(costs, A)
       /\ q.taken \in Nat /\ q.used \in Nat /\ q.taken <= view.slots /\ q.used <= view.capital
  BY DEF QueueOK
<1>11. CASE now
  <2>1. Cardinality(B) = q.taken + 1
    <3> HIDE DEF A, B
    <3> QED BY <1>7, <1>8, <1>10, <1>11, FS_AddElement
  <2>2. SumFunctionOnSet(costs, B) = q.used + c.sizing.notional
    <3>1. n \in B /\ B \ {n} = A
      <4> HIDE DEF A, B
      <4> QED BY <1>7, <1>11
    <3>2. SumFunctionOnSet(costs, B) = costs[n] + SumFunctionOnSet(costs, B \ {n})
      <4> HIDE DEF A, B, costs
      <4> QED BY <1>8, <1>9, <3>1, SumSplits
    <3> HIDE DEF A, B, costs
    <3>3. SumFunctionOnSet(costs, B) = costs[n] + SumFunctionOnSet(costs, A)
      BY <3>1, <3>2, Zenon
    <3> QED BY <1>9, <1>10, <3>3
  <2>3. r.taken = q.taken + 1 /\ r.used = q.used + c.sizing.notional
    BY <1>1, <1>11
  <2>4. r.taken \in Nat /\ r.taken <= view.slots /\ r.used \in Nat /\ r.used <= view.capital
    BY <1>9, <1>10, <1>11, <2>3
  <2> HIDE DEF now, r
  <2>5. QueueOK(r, n, approved, view)
    BY <1>4, <1>5, <2>1, <2>2, <2>3, <2>4 DEF QueueOK, Entries
  <2> QED BY <2>5 DEF r
<1>12. CASE ~now
  <2>1. r.taken = q.taken /\ r.used = q.used
    BY <1>1, <1>10, <1>12
  <2>2. A = B
    <3> HIDE DEF A, B, now
    <3> QED BY <1>7, <1>12
  <2> HIDE DEF now, r
  <2>3. q.taken = Cardinality(B) /\ q.used = SumFunctionOnSet(costs, B)
    <3> HIDE DEF A, B, costs
    <3> QED BY <1>10, <2>2, Zenon
  <2>4. QueueOK(r, n, approved, view)
    BY <1>4, <1>5, <1>10, <2>1, <2>3 DEF QueueOK, Entries
  <2> QED BY <2>4 DEF r
<1> QED
  BY <1>11, <1>12

\* The whole queue (annotate_execution_priority).
LEMMA QueueFits ==
  ASSUME NEW assessed, AreCandidates(assessed), IsFiniteSet(DOMAIN assessed),
         NEW view, view.slots \in Nat, view.capital \in Nat
  PROVE  LET approved == ApprovedOf(assessed)
             q == Prioritized(assessed, view)
         IN  /\ q \in Seq([candidate : Range(approved), now : BOOLEAN])
             /\ DOMAIN q = DOMAIN approved
             /\ \A i \in DOMAIN q : q[i].candidate = approved[i]
             /\ IsFiniteSet(NowAt(q))
             /\ Cardinality(NowAt(q)) <= view.slots
             /\ SumFunctionOnSet(CostsOf(approved), NowAt(q)) <= view.capital
<1> DEFINE P == ApprovedAt(assessed)
           last == Cardinality(P)
           approved == ApprovedOf(assessed)
           start == [taken |-> 0, used |-> 0, out |-> <<>>]
<1>1. /\ IsFiniteSet(P) /\ last \in Nat
      /\ \E at : IsPicking(at, P) /\ approved = [n \in 1 .. last |-> assessed[at[n]]]
  BY ApprovedIs
<1>2. PICK at : IsPicking(at, P) /\ approved = [n \in 1 .. last |-> assessed[at[n]]]
  BY <1>1
<1>3. DOMAIN approved = 1 .. last
  BY <1>2
<1>4. \A i \in DOMAIN approved : approved[i].sizing.notional \in Nat
  <2> TAKE i \in DOMAIN approved
  <2>1. at[i] \in P /\ approved[i] = assessed[at[i]]
    BY <1>2, <1>3 DEF IsPicking
  <2>2. IsCandidate(approved[i]) /\ approved[i].disposition \in OperatorApproved
    BY <2>1 DEF AreCandidates, ApprovedAt
  <2> HIDE DEF approved
  <2>3. approved[i].sizing.notional = approved[i].sizing.shares * UnitPrice
        /\ approved[i].sizing.shares \in Nat
    BY <2>2 DEF IsCandidate
  <2> QED BY <2>3, UnitPriceAssumption
<1>5. PICK g : /\ g[0] = start
               /\ \A n \in 1 .. last : g[n] = Take(view, g[n - 1], approved[n])
               /\ Prioritized(assessed, view) = g[last].out
  BY <1>1, QueueRuns
<1> DEFINE Broken == {n \in 0 .. last : ~QueueOK(g[n], n, approved, view)}
<1>6. QueueOK(start, 0, approved, view)
  <2>1. NowAt(<<>>) = {}
    BY DEF NowAt
  <2>2. SumFunctionOnSet(CostsOf(approved), {}) = 0 /\ Cardinality({}) = 0
    BY SumOfNone, FS_EmptySet
  <2>3. start.taken = 0 /\ start.used = 0 /\ start.out = <<>>
    OBVIOUS
  <2> HIDE DEF approved, start
  <2>4. /\ start.out \in Seq([candidate : Range(approved), now : BOOLEAN])
        /\ Len(start.out) = 0
    BY <2>3
  <2>5. NowAt(start.out) = {}
    BY <2>1, <2>3, Zenon
  <2>6. Cardinality(NowAt(start.out)) = 0
        /\ SumFunctionOnSet(CostsOf(approved), NowAt(start.out)) = 0
    BY <2>2, <2>5, Zenon
  <2> QED BY <2>3, <2>4, <2>6 DEF QueueOK
<1> HIDE DEF start, approved, P
<1>7. Broken = {}
  <2> SUFFICES ASSUME Broken # {} PROVE FALSE
    OBVIOUS
  <2>1. PICK n \in Broken : \A j \in Broken : n <= j
    <3>1. Broken \in SUBSET Nat
      BY <1>1
    <3> HIDE DEF Broken
    <3> QED BY <3>1, LeastNumber
  <2>2. n \in 1 .. last
    BY <1>1, <1>5, <1>6
  <2>3. QueueOK(g[n - 1], n - 1, approved, view)
    <3>1. n - 1 \in 0 .. last /\ ~(n <= n - 1)
      BY <1>1, <2>2
    <3>2. n - 1 \notin Broken
      <4> HIDE DEF Broken
      <4> QED BY <2>1, <3>1
    <3> QED BY <3>1, <3>2
  <2>4. QueueOK(Take(view, g[n - 1], approved[n]), n, approved, view)
    BY <1>1, <1>3, <1>4, <2>2, <2>3, TakeKeeps
  <2> QED BY <1>5, <2>2, <2>4
<1>8. QueueOK(g[last], last, approved, view)
  BY <1>1, <1>7
<1> DEFINE q == Prioritized(assessed, view)
<1>9. /\ q \in Seq([candidate : Range(approved), now : BOOLEAN])
      /\ Len(q) = last /\ DOMAIN q = 1 .. last
      /\ \A i \in 1 .. last : q[i].candidate = approved[i]
      /\ Cardinality(NowAt(q)) <= view.slots
      /\ SumFunctionOnSet(CostsOf(approved), NowAt(q)) <= view.capital
  <2>1. q = g[last].out
    BY <1>5
  <2> HIDE DEF q
  <2>2. /\ q \in Seq([candidate : Range(approved), now : BOOLEAN]) /\ Len(q) = last
        /\ \A i \in 1 .. last : q[i].candidate = approved[i]
        /\ Cardinality(NowAt(q)) <= view.slots
        /\ SumFunctionOnSet(CostsOf(approved), NowAt(q)) <= view.capital
    BY <1>8, <2>1 DEF QueueOK
  <2> QED BY <2>2
<1>10. IsFiniteSet(NowAt(q))
  <2>1. IsFiniteSet(1 .. last)
    BY <1>1, FS_Interval
  <2>2. NowAt(q) \in SUBSET (1 .. last)
    BY <1>9 DEF NowAt
  <2> QED BY <2>1, <2>2, FS_Subset
<1> HIDE DEF q
<1>11. /\ DOMAIN q = DOMAIN approved
       /\ \A i \in DOMAIN q : q[i].candidate = approved[i]
  BY <1>3, <1>9
<1> QED
  BY <1>9, <1>10, <1>11 DEF q, approved

-----------------------------------------------------------------------------
(* What is ordered is queued                                               *)

\* The places of a ranking that are ordered.
OrderedAt(ranking) ==
  {i \in DOMAIN ranking : ranking[i].candidate.disposition \in Actionable /\ ranking[i].now}

\* The candidates that can be ordered now come first, each once
\* (risk_candidate_sort_key).
LEMMA RankingIs ==
  ASSUME NEW assessed, AreCandidates(assessed), IsFiniteSet(DOMAIN assessed),
         NEW view, view.slots \in Nat, view.capital \in Nat
  PROVE  LET q == Prioritized(assessed, view)
             ranking == Ranking(assessed, view)
         IN  /\ \E last \in Nat : DOMAIN ranking = 1 .. last
             /\ \E at : /\ IsPicking(at, NowAt(q))
                        /\ \A i \in DOMAIN ranking : ranking[i].now =>
                             /\ i \in 1 .. Cardinality(NowAt(q))
                             /\ ranking[i] = q[at[i]]
<1> DEFINE q == Prioritized(assessed, view)
           approved == ApprovedOf(assessed)
           now == NowAt(q)
           later == DOMAIN q \ now
           E == [candidate : Range(approved) \cup Range(assessed), now : BOOLEAN]
           places == {i \in DOMAIN assessed : assessed[i].disposition \notin OperatorApproved}
           ranking == Ranking(assessed, view)
<1>1. /\ q \in Seq([candidate : Range(approved), now : BOOLEAN])
      /\ IsFiniteSet(now)
  BY QueueFits
<1>2. q \in Seq(E) /\ \E k \in Nat : DOMAIN q = 1 .. k
  <2> DEFINE D == [candidate : Range(approved), now : BOOLEAN]
  <2>1. D \subseteq E
    <3> HIDE DEF approved
    <3> QED OBVIOUS
  <2>2. q \in Seq(D)
    BY <1>1
  <2> HIDE DEF q, D, E
  <2>3. Len(q) \in Nat /\ DOMAIN q = 1 .. Len(q) /\ \A i \in 1 .. Len(q) : q[i] \in E
    BY <2>1, <2>2
  <2>4. q = [i \in 1 .. Len(q) |-> q[i]]
    BY <2>2, <2>3
  <2> QED BY <2>3, <2>4
<1>3. PICK k \in Nat : DOMAIN q = 1 .. k
  BY <1>2
<1>4. /\ now \in SUBSET Int /\ later \in SUBSET Int /\ IsFiniteSet(later)
      /\ now \in SUBSET DOMAIN q
  <2>1. IsFiniteSet(1 .. k)
    BY FS_Interval
  <2>2. now \in SUBSET DOMAIN q /\ later \in SUBSET DOMAIN q
    BY DEF NowAt
  <2> HIDE DEF q, now, later
  <2> QED BY <1>3, <2>1, <2>2, FS_Subset
<1>5. Cardinality(now) \in Nat /\ Cardinality(later) \in Nat
  <2> HIDE DEF now, later
  <2> QED BY <1>1, <1>4, FS_CardinalityType
<1>6. PICK at : /\ IsPicking(at, now)
                /\ Picked(q, now) = [n \in 1 .. Cardinality(now) |-> q[at[n]]]
  <2> HIDE DEF q, now
  <2> QED BY <1>1, <1>4, PickedIs
<1>7. PICK by : /\ IsPicking(by, later)
                /\ Picked(q, later) = [n \in 1 .. Cardinality(later) |-> q[by[n]]]
  <2> HIDE DEF q, later
  <2> QED BY <1>4, PickedIs
<1>8. PICK rest : /\ DOMAIN rest = 1 .. Cardinality(places)
                  /\ ranking = Picked(q, now) \o Picked(q, later)
                       \o [i \in DOMAIN rest |-> [candidate |-> rest[i], now |-> FALSE]]
  <2> DEFINE worse == Arranged(assessed, places,
                        LAMBDA i, j : LET c == assessed[i]
                                          d == assessed[j]
                                      IN \/ Opportunity(c) > Opportunity(d)
                                         \/ Opportunity(c) = Opportunity(d)
                                            /\ c.index < d.index)
  <2>1. DOMAIN worse = 1 .. Cardinality(places)
    BY DEF Arranged
  <2>2. ranking = Picked(q, now) \o Picked(q, later)
                    \o [i \in DOMAIN worse |-> [candidate |-> worse[i], now |-> FALSE]]
    BY DEF Ranking, NowAt
  <2> HIDE DEF worse, ranking, q, now, later
  <2> QED BY <2>1, <2>2
<1>9. Cardinality(places) \in Nat
  <2>1. IsFiniteSet(places)
    BY FS_Subset
  <2> HIDE DEF places
  <2> QED BY <2>1, FS_CardinalityType
<1> DEFINE U == Picked(q, now)
           V == Picked(q, later)
           W == [i \in DOMAIN rest |-> [candidate |-> rest[i], now |-> FALSE]]
           X == E \cup {W[i] : i \in DOMAIN W}
<1>10. U \in Seq(X) /\ Len(U) = Cardinality(now) /\ \A i \in DOMAIN U : U[i] = q[at[i]]
  <2>1. \A i \in 1 .. Cardinality(now) : q[at[i]] \in X
    <3> HIDE DEF q, now, E, W
    <3>1. \A i \in 1 .. Cardinality(now) : at[i] \in DOMAIN q
      BY <1>4, <1>6 DEF IsPicking
    <3> QED BY <1>2, <1>3, <3>1
  <2> HIDE DEF q, now, X
  <2> QED BY <1>5, <1>6, <2>1
<1>11. V \in Seq(X) /\ \A i \in DOMAIN V : ~V[i].now
  <2>1. \A i \in 1 .. Cardinality(later) : q[by[i]] \in X
    <3> HIDE DEF q, now, later, E, W
    <3>1. \A i \in 1 .. Cardinality(later) : by[i] \in DOMAIN q
      <4>1. later \in SUBSET DOMAIN q
        BY DEF later
      <4> HIDE DEF later
      <4> QED BY <1>7, <4>1 DEF IsPicking
    <3> QED BY <1>2, <1>3, <3>1
  <2>2. \A i \in 1 .. Cardinality(later) : ~q[by[i]].now
    <3>1. \A i \in 1 .. Cardinality(later) : by[i] \in later
      <4> HIDE DEF later
      <4> QED BY <1>7 DEF IsPicking
    <3> HIDE DEF q
    <3> QED BY <3>1 DEF NowAt
  <2> HIDE DEF q, now, later, X
  <2> QED BY <1>5, <1>7, <2>1, <2>2
<1>12. W \in Seq(X) /\ \A i \in DOMAIN W : ~W[i].now
  <2>1. \A i \in DOMAIN W : W[i] \in X /\ ~W[i].now
    OBVIOUS
  <2>2. DOMAIN W = 1 .. Cardinality(places)
    BY <1>8
  <2>3. W = [i \in 1 .. Cardinality(places) |-> W[i]]
    BY <2>2
  <2> HIDE DEF W, X, places
  <2> QED BY <1>9, <2>1, <2>2, <2>3
<1>13. ranking = (U \o V) \o W
  BY <1>8
<1> HIDE DEF U, V, W, X, ranking
<1>14. /\ DOMAIN ranking = 1 .. Len(U) + Len(V) + Len(W)
       /\ Len(U) \in Nat /\ Len(V) \in Nat /\ Len(W) \in Nat
  BY <1>10, <1>11, <1>12, <1>13
<1>15. \A i \in DOMAIN ranking : ranking[i].now =>
         i \in 1 .. Cardinality(now) /\ ranking[i] = q[at[i]]
  <2> TAKE i \in DOMAIN ranking
  <2> HAVE ranking[i].now
  <2>1. i \in 1 .. Len(U)
    <3> SUFFICES ASSUME i \notin 1 .. Len(U) PROVE FALSE
      OBVIOUS
    <3>1. CASE i <= Len(U) + Len(V)
      <4>1. i - Len(U) \in DOMAIN V /\ ranking[i] = V[i - Len(U)]
        BY <1>10, <1>11, <1>12, <1>13, <1>14, <3>1
      <4> QED BY <1>11, <4>1
    <3>2. CASE ~(i <= Len(U) + Len(V))
      <4>1. i - Len(U) - Len(V) \in DOMAIN W /\ ranking[i] = W[i - Len(U) - Len(V)]
        BY <1>10, <1>11, <1>12, <1>13, <1>14, <3>2
      <4> QED BY <1>12, <4>1
    <3> QED BY <3>1, <3>2
  <2>2. ranking[i] = U[i] /\ i \in DOMAIN U
    BY <1>10, <1>11, <1>12, <1>13, <2>1
  <2> HIDE DEF now, q
  <2> QED BY <1>10, <2>1, <2>2
<1>16. \E last \in Nat : DOMAIN ranking = 1 .. last
  BY <1>14
<1> QED
  BY <1>6, <1>15, <1>16 DEF ranking

\* The batch is a part of the queue that can be ordered now
\* (ManualExecutor.build_execution_batch).
LEMMA BatchIs ==
  ASSUME NEW assessed, AreCandidates(assessed), IsFiniteSet(DOMAIN assessed),
         NEW view, view.slots \in Nat, view.capital \in Nat
  PROVE  LET q == Prioritized(assessed, view)
             batch == ExecutionBatch(Ranking(assessed, view))
         IN  \E k \in Nat : \E m :
               /\ batch = [n \in 1 .. k |-> batch[n]]
               /\ m \in [1 .. k -> NowAt(q)]
               /\ \A i, j \in 1 .. k : m[i] = m[j] => i = j
               /\ \A n \in 1 .. k :
                    batch[n] = q[m[n]] /\ batch[n].candidate.disposition \in Actionable
<1> DEFINE q == Prioritized(assessed, view)
           ranking == Ranking(assessed, view)
           batch == ExecutionBatch(ranking)
           P == OrderedAt(ranking)
           k == Cardinality(P)
<1>1. /\ \E last \in Nat : DOMAIN ranking = 1 .. last
      /\ \E at : /\ IsPicking(at, NowAt(q))
                 /\ \A i \in DOMAIN ranking : ranking[i].now =>
                      /\ i \in 1 .. Cardinality(NowAt(q))
                      /\ ranking[i] = q[at[i]]
  BY RankingIs
<1> HIDE DEF ranking, q
<1>2. PICK last \in Nat : DOMAIN ranking = 1 .. last
  BY <1>1
<1>3. PICK at : /\ IsPicking(at, NowAt(q))
                /\ \A i \in DOMAIN ranking : ranking[i].now =>
                     /\ i \in 1 .. Cardinality(NowAt(q))
                     /\ ranking[i] = q[at[i]]
  BY <1>1
<1>4. P \in SUBSET DOMAIN ranking /\ P \in SUBSET Int
  BY <1>2 DEF OrderedAt
<1>5. IsFiniteSet(P) /\ k \in Nat
  <2>1. IsFiniteSet(1 .. last)
    BY FS_Interval
  <2>2. P \in SUBSET (1 .. last)
    BY <1>2, <1>4
  <2> HIDE DEF P
  <2> QED BY <2>1, <2>2, FS_Subset, FS_CardinalityType
<1>6. batch = Picked(ranking, P)
  BY DEF ExecutionBatch, OrderedAt
<1> HIDE DEF P
<1>7. PICK by : IsPicking(by, P) /\ Picked(ranking, P) = [n \in 1 .. k |-> ranking[by[n]]]
  BY <1>4, <1>5, PickedIs
<1> DEFINE m == [n \in 1 .. k |-> at[by[n]]]
<1>8. \A n \in 1 .. k : /\ by[n] \in DOMAIN ranking /\ ranking[by[n]].now
                        /\ ranking[by[n]].candidate.disposition \in Actionable
  <2> TAKE n \in 1 .. k
  <2>1. by[n] \in P
    BY <1>7 DEF IsPicking
  <2> QED BY <2>1 DEF P, OrderedAt
<1>9. \A n \in 1 .. k : by[n] \in 1 .. Cardinality(NowAt(q)) /\ ranking[by[n]] = q[at[by[n]]]
  BY <1>3, <1>8
<1>10. m \in [1 .. k -> NowAt(q)]
  BY <1>3, <1>9 DEF IsPicking
<1>11. \A i, j \in 1 .. k : m[i] = m[j] => i = j
  <2> TAKE i, j \in 1 .. k
  <2> HAVE m[i] = m[j]
  <2>1. by[i] = by[j]
    BY <1>3, <1>9 DEF IsPicking
  <2> QED BY <1>7, <2>1 DEF IsPicking
<1> HIDE DEF batch, k
<1>12. batch = [n \in 1 .. k |-> ranking[by[n]]]
  BY <1>6, <1>7
<1>13. \A n \in 1 .. k :
         batch[n] = q[m[n]] /\ batch[n].candidate.disposition \in Actionable
  BY <1>8, <1>9, <1>12
<1>14. batch = [n \in 1 .. k |-> batch[n]]
  BY <1>12
<1> HIDE DEF m
<1>15. \E x \in Nat : \E y :
                         /\ batch = [n \in 1 .. x |-> batch[n]]
                         /\ y \in [1 .. x -> NowAt(q)]
                         /\ \A i, j \in 1 .. x : y[i] = y[j] => i = j
                         /\ \A n \in 1 .. x :
                              batch[n] = q[y[n]] /\ batch[n].candidate.disposition \in Actionable
  BY <1>5, <1>10, <1>11, <1>13, <1>14
<1> QED
  BY <1>15 DEF q, batch, ranking

\* What a batch orders.
OrderCosts(batch) == [i \in DOMAIN batch |-> batch[i].candidate.sizing.shares * UnitPrice]

\* A batch fits the slots and the capital of the view.
LEMMA BatchFits ==
  ASSUME NEW assessed, AreCandidates(assessed), IsFiniteSet(DOMAIN assessed),
         NEW view, view.slots \in Nat, view.capital \in Nat
  PROVE  LET batch == ExecutionBatch(Ranking(assessed, view))
         IN  \E k \in Nat :
               /\ batch = [n \in 1 .. k |-> batch[n]]
               /\ k <= view.slots
               /\ SumFunctionOnSet(OrderCosts(batch), 1 .. k) <= view.capital
               /\ \A n \in 1 .. k :
                    /\ \E i \in DOMAIN assessed : batch[n].candidate = assessed[i]
                    /\ batch[n].candidate.disposition \in Actionable
<1> DEFINE q == Prioritized(assessed, view)
           approved == ApprovedOf(assessed)
           batch == ExecutionBatch(Ranking(assessed, view))
           now == NowAt(q)
           P == ApprovedAt(assessed)
<1>1. \E k \in Nat : \E m :
               /\ batch = [n \in 1 .. k |-> batch[n]]
               /\ m \in [1 .. k -> NowAt(q)]
               /\ \A i, j \in 1 .. k : m[i] = m[j] => i = j
               /\ \A n \in 1 .. k :
                    batch[n] = q[m[n]] /\ batch[n].candidate.disposition \in Actionable
  BY BatchIs
<1>2. /\ DOMAIN q = DOMAIN approved
      /\ \A i \in DOMAIN q : q[i].candidate = approved[i]
      /\ IsFiniteSet(NowAt(q))
      /\ Cardinality(NowAt(q)) <= view.slots
      /\ SumFunctionOnSet(CostsOf(approved), NowAt(q)) <= view.capital
  BY QueueFits
<1>3. /\ IsFiniteSet(P) /\ Cardinality(P) \in Nat
      /\ \E at : /\ IsPicking(at, P)
                 /\ approved = [n \in 1 .. Cardinality(P) |-> assessed[at[n]]]
  BY ApprovedIs
<1>4. PICK at : /\ IsPicking(at, P)
                /\ approved = [n \in 1 .. Cardinality(P) |-> assessed[at[n]]]
  BY <1>3
<1>5. \A i \in DOMAIN approved : /\ \E j \in DOMAIN assessed : approved[i] = assessed[j]
                                 /\ approved[i].disposition \in OperatorApproved
                                 /\ IsCandidate(approved[i])
  <2> TAKE i \in DOMAIN approved
  <2>1. at[i] \in P /\ approved[i] = assessed[at[i]]
    BY <1>4 DEF IsPicking
  <2> HIDE DEF approved
  <2> QED BY <2>1 DEF AreCandidates, ApprovedAt
<1> HIDE DEF q, approved, batch, P
<1>6. PICK k, m :
               /\ k \in Nat
               /\ batch = [n \in 1 .. k |-> batch[n]]
               /\ m \in [1 .. k -> now]
               /\ \A i, j \in 1 .. k : m[i] = m[j] => i = j
               /\ \A n \in 1 .. k :
                    batch[n] = q[m[n]] /\ batch[n].candidate.disposition \in Actionable
  BY <1>1
<1>6a. k \in Nat
  BY <1>6
<1>7. \A n \in 1 .. k : m[n] \in DOMAIN approved /\ batch[n].candidate = approved[m[n]]
  <2> TAKE n \in 1 .. k
  <2>1. m[n] \in DOMAIN q
    BY <1>6 DEF NowAt
  <2> QED BY <1>2, <1>6, <2>1
<1>8. \A i \in DOMAIN approved :
        /\ approved[i].sizing.notional = approved[i].sizing.shares * UnitPrice
        /\ approved[i].sizing.shares \in Nat /\ approved[i].sizing.notional \in Nat
  <2> TAKE i \in DOMAIN approved
  <2>1. approved[i].sizing.notional = approved[i].sizing.shares * UnitPrice
        /\ approved[i].sizing.shares \in Nat
    BY <1>5 DEF IsCandidate
  <2> QED BY <2>1, UnitPriceAssumption
<1>9. k <= view.slots
  <2>1. m \in Injection(1 .. k, now)
    <3> HIDE DEF now
    <3> QED BY <1>6, Fun_IsInj
  <2>2. Cardinality(1 .. k) <= Cardinality(now)
    <3> HIDE DEF now
    <3>1. IsFiniteSet(now)
      BY <1>2 DEF now
    <3> QED BY <2>1, <3>1, FS_Injection
  <2>3. Cardinality(1 .. k) = k
    BY <1>6a, FS_Interval
  <2>4. Cardinality(now) \in Nat
    BY <1>2, FS_CardinalityType
  <2> QED BY <1>2, <1>6, <2>2, <2>3, <2>4
<1>10. SumFunctionOnSet(OrderCosts(batch), 1 .. k) <= view.capital
  <2> DEFINE S == 1 .. k
             f == OrderCosts(batch)
             g == CostsOf(approved)
  <2>1. IsFiniteSet(S) /\ IsFiniteSet(now)
    BY <1>2, <1>6a, FS_Interval
  <2>2. \A n \in S : f[n] = g[m[n]] /\ m[n] \in now /\ f[n] \in Nat
    <3> TAKE n \in S
    <3>1. DOMAIN batch = S
      BY <1>6
    <3>2. f[n] = approved[m[n]].sizing.shares * UnitPrice
      BY <1>7, <3>1 DEF OrderCosts
    <3>3. g[m[n]] = approved[m[n]].sizing.notional
      BY <1>7 DEF CostsOf
    <3> QED BY <1>6, <1>7, <1>8, <3>2, <3>3
  <2>3. NotNegative(g, now)
    <3>1. now \subseteq DOMAIN approved
      BY <1>2 DEF NowAt
    <3> HIDE DEF now
    <3> QED BY <1>8, <3>1 DEF NotNegative, CostsOf
  <2> HIDE DEF S, f, g, now
  <2>4. Whole(f, S)
    BY <2>2 DEF Whole
  <2>5. Covers(m, f, S, g, now)
    <3>1. \A i, j \in S : m[i] = m[j] => i = j
      BY <1>6 DEF S
    <3>2. \A n \in S : f[n] <= g[m[n]]
      BY <2>2
    <3> QED BY <2>2, <3>1, <3>2 DEF Covers
  <2>6. SumFunctionOnSet(f, S) <= SumFunctionOnSet(g, now)
    BY <2>1, <2>3, <2>4, <2>5, SumBelow
  <2>7. SumFunctionOnSet(g, now) \in Nat /\ SumFunctionOnSet(f, S) \in Int
    BY <2>1, <2>3, <2>4, SumNotNegative, SumWhole
  <2>8. SumFunctionOnSet(g, now) <= view.capital
    BY <1>2 DEF g, now
  <2>9. SumFunctionOnSet(f, S) <= view.capital
    BY <2>6, <2>7, <2>8
  <2> QED BY <2>9 DEF f, S
<1>11. \A n \in 1 .. k : /\ \E i \in DOMAIN assessed : batch[n].candidate = assessed[i]
                         /\ batch[n].candidate.disposition \in Actionable
  BY <1>5, <1>6, <1>7
<1>12. \E x \in Nat : /\ batch = [n \in 1 .. x |-> batch[n]]
                      /\ x <= view.slots
                      /\ SumFunctionOnSet(OrderCosts(batch), 1 .. x) <= view.capital
                      /\ \A n \in 1 .. x :
                           /\ \E i \in DOMAIN assessed : batch[n].candidate = assessed[i]
                           /\ batch[n].candidate.disposition \in Actionable
  BY <1>6, <1>9, <1>10, <1>11
<1> QED
  BY <1>12 DEF batch

-----------------------------------------------------------------------------
(* What is assessed                                                        *)

\* A position that is sized has shares, and costs what they cost.
LEMMA SizeIs ==
  ASSUME NEW equity \in Nat, NEW risk \in Int, NEW stop \in Int \cup {NoValue},
         NEW cap \in Nat \cup {NoValue}
  PROVE  LET size == SizePosition(equity, risk, UnitPrice, stop, cap)
         IN  /\ size.shares \in Nat
             /\ size.valid => size.shares # 0 /\ size.notional = size.shares * UnitPrice
<1> DEFINE byRisk == (equity * risk) \div (100 * (UnitPrice - stop))
           byCap  == (equity * cap) \div (100 * UnitPrice)
           shares == IF Known(cap) THEN Min({byRisk, byCap}) ELSE byRisk
           size == SizePosition(equity, risk, UnitPrice, stop, cap)
<1>1. size = IF ~Known(stop) \/ stop >= UnitPrice THEN Unsized
             ELSE IF shares <= 0 THEN Unsized
                  ELSE [valid |-> TRUE, shares |-> shares, notional |-> shares * UnitPrice]
  BY DEF SizePosition
<1>2. CASE size = Unsized
  BY <1>2 DEF Unsized
<1>3. CASE size # Unsized
  <2>1. /\ Known(stop) /\ ~(stop >= UnitPrice) /\ ~(shares <= 0)
        /\ size = [valid |-> TRUE, shares |-> shares, notional |-> shares * UnitPrice]
    BY <1>1, <1>3
  <2>2. stop \in Int /\ UnitPrice \in Nat /\ UnitPrice > 0
    BY <2>1, UnitPriceAssumption DEF Known
  <2>3. byRisk \in Int
    <3>1. 100 * (UnitPrice - stop) \in Nat \ {0}
      BY <2>1, <2>2
    <3>2. equity * risk \in Int
      OBVIOUS
    <3> QED BY <3>1, <3>2
  <2>4. Known(cap) => byCap \in Int
    <3>1. 100 * UnitPrice \in Nat \ {0}
      BY <2>2
    <3>2. Known(cap) => equity * cap \in Int
      BY DEF Known
    <3> QED BY <3>1, <3>2
  <2> HIDE DEF byRisk, byCap
  <2>5. shares \in Int
    <3>1. CASE Known(cap)
      <4>1. Min({byRisk, byCap}) \in Int
        BY <2>3, <2>4, <3>1, LesserOfTwo
      <4> QED BY <3>1, <4>1
    <3>2. CASE ~Known(cap)
      BY <2>3, <3>2
    <3> QED BY <3>1, <3>2
  <2> HIDE DEF shares, size
  <2>6. shares \in Nat \ {0}
    BY <2>1, <2>5
  <2>7. /\ size.shares \in Nat
        /\ size.valid => size.shares # 0 /\ size.notional = size.shares * UnitPrice
    BY <2>1, <2>6
  <2> QED BY <2>7 DEF size
<1> QED
  BY <1>2, <1>3

\* A symbol with its signal of the day, and the risk of a preset.
IsEvaluation(x, signals) ==
  /\ x.symbol \in Symbols /\ x.signal = signals[x.symbol] /\ x.signal # NoValue
  /\ x.risk \in Nat /\ x.index \in Nat

\* The assessment of an evaluation.
AssessmentOf(x, market, pf, exposures) ==
  Retained(x, Assess(Described(x), x.risk, Account, market, pf, exposures, Limits))

\* What is approved is sized, and what is ordered keeps within the sector.
LEMMA AssessmentIs ==
  ASSUME NEW signals \in SignalSets, NEW x, IsEvaluation(x, signals),
         NEW market, NEW pf, NEW exposures, IsFiniteSet(exposures)
  PROVE  LET c == AssessmentOf(x, market, pf, exposures)
         IN  /\ IsCandidate(c) /\ c.index = x.index /\ c.signal = Described(x)
             /\ c.disposition \in Actionable => ~SectorCrowded(exposures, Described(x), Limits)
<1> DEFINE d == Described(x)
           adjusted == AdjustedRisk(x.risk, Account.drawdown, Limits)
           sizing == SizePosition(Account.equity, adjusted, UnitPrice, d.stop, Limits.positionPct)
           blockers == Blockers(d, sizing, market, pf, exposures, Limits)
           missing == MissingContexts(d, market)
           c == AssessmentOf(x, market, pf, exposures)
<1>1. /\ d.symbol = x.symbol /\ d.sector = SectorOf[x.symbol] /\ d.entry = UnitPrice
      /\ d.stop = x.signal.stop /\ d.strength = x.signal.strength
  BY DEF Described
<1>2. /\ c.signal = d /\ c.sizing = sizing /\ c.crowd = Cardinality(SameSector(exposures, d))
      /\ c.disposition = Disposition(blockers, missing) /\ c.index = x.index /\ c.quality = 0
  <2> DEFINE a == Assess(d, x.risk, Account, market, pf, exposures, Limits)
  <2>1. /\ a.signal = d /\ a.sizing = sizing
        /\ a.crowd = Cardinality(SameSector(exposures, d))
        /\ a.disposition = Disposition(blockers, missing)
    <3> HIDE DEF d, blockers, missing
    <3> QED BY <1>1 DEF Assess, blockers, missing
  <2>2. c = Retained(x, a)
    BY DEF AssessmentOf
  <2> HIDE DEF a, c, d, sizing, blockers, missing
  <2> QED BY <2>1, <2>2 DEF Retained
<1>3. /\ x.signal.stop \in Int \cup {NoValue} /\ x.signal.strength \in Nat
  BY SignalsAssumption DEF IsEvaluation, IsSignal
<1>4. adjusted \in Int
  <2>1. x.risk \in Nat /\ Limits.reduction \in Nat \ {0}
    BY LimitsAssumption DEF IsEvaluation
  <2> QED BY <2>1 DEF AdjustedRisk
<1>5. /\ sizing.shares \in Nat
      /\ sizing.valid => sizing.shares # 0 /\ sizing.notional = sizing.shares * UnitPrice
  <2> DEFINE equity == Account.equity
             cap == Limits.positionPct
             stop == d.stop
  <2>1. equity \in Nat /\ cap \in Nat \cup {NoValue} /\ stop \in Int \cup {NoValue}
    BY <1>1, <1>3, LimitsAssumption
  <2> HIDE DEF equity, cap, stop, adjusted
  <2> QED BY <1>4, <2>1, SizeIs DEF equity, cap, stop
<1>6. Cardinality(SameSector(exposures, d)) \in Nat
  <2>1. IsFiniteSet(SameSector(exposures, d))
    BY FS_Subset DEF SameSector
  <2> QED BY <2>1, FS_CardinalityType
<1> HIDE DEF c, d, sizing, missing
<1>7. \A b \in blockers : b.severity \in {"soft", "hard"}
  BY DEF Blockers, PortfolioRules, SymbolBlockers, MarketBlockers, HeatBlockers, When,
         Soft, Hard
<1>8. ~sizing.valid => Hard("sizing") \in blockers
  BY DEF Blockers
<1>9. SectorCrowded(exposures, d, Limits) => Hard("sector_exposure") \in blockers
  BY DEF Blockers, HeatBlockers, When
<1> HIDE DEF blockers
<1>10. c.disposition \in OperatorApproved => \A b \in blockers : b.severity # "hard"
  <2> SUFFICES ASSUME \E b \in blockers : b.severity = "hard"
               PROVE  c.disposition \notin OperatorApproved
    OBVIOUS
  <2>1. blockers # {} /\ blockers # {Soft("capacity")}
    BY DEF Soft
  <2>2. ~\A b \in blockers : b.severity = "soft"
    OBVIOUS
  <2>3. Disposition(blockers, missing) = "hard_rejected"
    BY <2>1, <2>2 DEF Disposition
  <2> QED BY <1>2, <2>3 DEF OperatorApproved, Actionable
<1>11. c.disposition \in Actionable => c.disposition \in OperatorApproved
  BY DEF OperatorApproved
<1>12. c.disposition \in OperatorApproved =>
         sizing.valid /\ ~SectorCrowded(exposures, d, Limits)
  BY <1>8, <1>9, <1>10 DEF Hard
<1>13. IsCandidate(c)
  BY <1>1, <1>2, <1>3, <1>5, <1>6, <1>12 DEF IsCandidate, IsEvaluation
<1> QED
  BY <1>2, <1>11, <1>12, <1>13 DEF c, d

\* s is a sequence of k entries.
IsRow(s, k) == k \in Nat /\ s = [i \in 1 .. k |-> s[i]]

\* t is the row s with an entry more.
IsLonger(t, s, k, e) ==
  /\ IsRow(t, k + 1) /\ t[k + 1] = e
  /\ \A i \in 1 .. k : t[i] = s[i]

\* An entry is added at the end.
LEMMA AppendIs ==
  ASSUME NEW s, NEW e, NEW k, IsRow(s, k)
  PROVE  IsLonger(Append(s, e), s, k, e)
<1> DEFINE E == {s[i] : i \in 1 .. k} \cup {e}
<1>1. \A i \in 1 .. k : s[i] \in E
  OBVIOUS
<1>2. e \in E
  OBVIOUS
<1> HIDE DEF E
<1>3. s \in Seq(E) /\ Len(s) = k
  BY <1>1 DEF IsRow
<1> QED
  BY <1>2, <1>3 DEF IsRow, IsLonger

\* The evaluations chosen among the first n.
ChosenOK(es, k, n, signals) ==
  /\ IsRow(es, k)
  /\ \A i \in 1 .. k : IsEvaluation(es[i], signals) /\ es[i].index <= n
  /\ \A i, j \in 1 .. k : es[i].index = es[j].index => i = j

\* An evaluation is of a symbol of the universe, at the risk of a preset.
LEMMA EvaluationIs ==
  ASSUME NEW signals, NEW n0 \in 1 .. Len(Presets), NEW n \in 1 .. n0 * Len(Universe)
  PROVE  LET x == Evaluation(signals, n)
         IN  /\ x.symbol \in Symbols /\ x.signal = signals[x.symbol]
             /\ x.risk \in Nat /\ x.index = n
<1> DEFINE L == Len(Universe)
           a == ((n - 1) % L) + 1
           b == ((n - 1) \div L) + 1
<1>1. L \in Nat \ {0}
  BY UniverseAssumption
<1>2. a \in 1 .. L
  BY <1>1
<1>3. b \in 1 .. n0
  <2> DEFINE d == (n - 1) \div L
  <2>1. n - 1 \in Nat /\ n - 1 < n0 * L
    BY <1>1
  <2>2. d \in Nat /\ L * d <= n - 1
    BY <1>1, <2>1
  <2>3. L * d < L * n0
    BY <1>1, <2>1, <2>2
  <2> HIDE DEF d, L
  <2>4. d < n0
    BY <1>1, <2>2, <2>3
  <2> QED BY <2>2, <2>4 DEF d
<1> HIDE DEF a, b
<1>4. Universe[a] \in Symbols /\ Presets[b] \in Nat
  BY <1>2, <1>3, UniverseAssumption
<1>5. /\ Evaluation(signals, n).symbol = Universe[a]
      /\ Evaluation(signals, n).signal = signals[Universe[a]]
      /\ Evaluation(signals, n).risk = Presets[b]
      /\ Evaluation(signals, n).index = n
  BY DEF Evaluation, a, b
<1> QED
  BY <1>4, <1>5

\* One more evaluation, with a signal or without, keeps the choice right.
LEMMA ChosenKeeps ==
  ASSUME NEW signals, NEW skip, NEW n0 \in 1 .. Len(Presets),
         NEW n \in 1 .. n0 * Len(Universe), NEW es, NEW k, ChosenOK(es, k, n - 1, signals)
  PROVE  \E m : ChosenOK(NextEvaluation(signals, skip, es, n), m, n, signals)
<1> DEFINE x == Evaluation(signals, n)
           new == Append(es, x)
<1>1. /\ x.symbol \in Symbols /\ x.signal = signals[x.symbol]
      /\ x.risk \in Nat /\ x.index = n
  BY EvaluationIs
<1>2. k \in Nat /\ \A i \in 1 .. k : es[i].index \in Nat /\ es[i].index < n
  <2>1. n \in Int /\ k \in Nat
    BY UniverseAssumption DEF ChosenOK, IsRow
  <2> QED BY <2>1 DEF ChosenOK, IsEvaluation
<1>3. n \in Nat
  BY UniverseAssumption
<1> HIDE DEF x
<1>4. CASE NextEvaluation(signals, skip, es, n) = es
  <2>1. ChosenOK(es, k, n, signals)
    BY <1>2, <1>3 DEF ChosenOK
  <2> QED BY <1>4, <2>1
<1>5. CASE x.signal # NoValue /\ NextEvaluation(signals, skip, es, n) = new
  <2>1. /\ IsRow(new, k + 1)
        /\ \A i \in 1 .. k : new[i] = es[i]
        /\ new[k + 1] = x
    <3>1. IsRow(es, k)
      BY DEF ChosenOK
    <3>2. IsLonger(Append(es, x), es, k, x)
      BY <3>1, AppendIs
    <3> QED BY <3>2 DEF IsLonger
  <2>2. IsEvaluation(x, signals)
    BY <1>1, <1>3, <1>5 DEF IsEvaluation
  <2> HIDE DEF new
  <2>3. \A i \in 1 .. k + 1 : i \in 1 .. k \/ i = k + 1
    BY <1>2
  <2>4. \A i \in 1 .. k + 1 : IsEvaluation(new[i], signals) /\ new[i].index <= n
    <3> TAKE i \in 1 .. k + 1
    <3>1. CASE i \in 1 .. k
      BY <1>2, <1>3, <2>1, <3>1 DEF ChosenOK
    <3>2. CASE i = k + 1
      BY <1>1, <1>3, <2>1, <2>2, <3>2
    <3> QED BY <2>3, <3>1, <3>2
  <2>5. \A i, j \in 1 .. k + 1 : new[i].index = new[j].index => i = j
    <3> TAKE i, j \in 1 .. k + 1
    <3>1. CASE i \in 1 .. k /\ j \in 1 .. k
      BY <2>1, <3>1 DEF ChosenOK
    <3>2. CASE i \in 1 .. k /\ j = k + 1
      BY <1>1, <1>2, <1>3, <2>1, <3>2
    <3>3. CASE i = k + 1 /\ j \in 1 .. k
      BY <1>1, <1>2, <1>3, <2>1, <3>3
    <3> QED BY <2>3, <3>1, <3>2, <3>3
  <2>6. ChosenOK(new, k + 1, n, signals)
    BY <2>1, <2>4, <2>5 DEF ChosenOK
  <2> QED BY <1>5, <2>6
<1> QED
  BY <1>4, <1>5 DEF NextEvaluation, x

\* What is assessed are signals of the day, each once.
LEMMA EvaluationsAre ==
  ASSUME NEW signals, NEW skip, NEW n0 \in 1 .. Len(Presets)
  PROVE  LET es == Evaluations(signals, n0, skip)
         IN  \E k : ChosenOK(es, k, n0 * Len(Universe), signals)
<1> DEFINE last == n0 * Len(Universe)
<1>0. last \in Nat /\ n0 \in Nat
  BY UniverseAssumption
<1>1. PICK g : /\ g[0] = <<>>
               /\ \A n \in 1 .. last : g[n] = NextEvaluation(signals, skip, g[n - 1], n)
               /\ Evaluations(signals, n0, skip) = g[last]
  BY <1>0, EvaluationRuns
<1> DEFINE Broken == {n \in 0 .. last : ~\E k : ChosenOK(g[n], k, n, signals)}
<1>2. ChosenOK(<<>>, 0, 0, signals)
  BY DEF ChosenOK, IsRow
<1> HIDE DEF last
<1>3. Broken = {}
  <2> SUFFICES ASSUME Broken # {} PROVE FALSE
    OBVIOUS
  <2>1. PICK n \in Broken : \A j \in Broken : n <= j
    <3>1. Broken \in SUBSET Nat
      BY <1>0
    <3> HIDE DEF Broken
    <3> QED BY <3>1, LeastNumber
  <2>2. n # 0
    BY <1>1, <1>2
  <2>3. PICK k : ChosenOK(g[n - 1], k, n - 1, signals)
    <3>1. n - 1 \in 0 .. last /\ ~(n <= n - 1)
      BY <1>0, <2>2
    <3>2. n - 1 \notin Broken
      <4> HIDE DEF Broken
      <4> QED BY <2>1, <3>1
    <3> QED BY <3>1, <3>2
  <2>4. n \in 1 .. last
    BY <1>0, <2>2
  <2>5. \E m : ChosenOK(NextEvaluation(signals, skip, g[n - 1], n), m, n, signals)
    BY <2>3, <2>4, ChosenKeeps DEF last
  <2> QED BY <1>1, <2>4, <2>5
<1>4. \E k : ChosenOK(g[last], k, last, signals)
  BY <1>0, <1>3
<1> QED
  BY <1>1, <1>4 DEF last

\* A row of k entries has the places from 1 to k.
LEMMA RowIs ==
  ASSUME NEW s, NEW k, IsRow(s, k)
  PROVE  Len(s) = k /\ k \in Nat /\ DOMAIN s = 1 .. k /\ IsFiniteSet(DOMAIN s)
<1> DEFINE E == {s[i] : i \in 1 .. k}
<1>1. \A i \in 1 .. k : s[i] \in E
  OBVIOUS
<1> HIDE DEF E
<1>2. s \in Seq(E) /\ Len(s) = k /\ k \in Nat /\ DOMAIN s = 1 .. k
  BY <1>1 DEF IsRow
<1>3. IsFiniteSet(1 .. k)
  BY <1>2, FS_Interval
<1> QED
  BY <1>2, <1>3

\* Every exposure is of a symbol, in the sector of the symbol.
AreExposures(exposures) ==
  /\ IsFiniteSet(exposures)
  /\ \A e \in exposures : e.key[1] \in Symbols /\ e.sector = SectorOf[e.key[1]]

\* A sector that is limited has no more exposures than are allowed.
Within(exposures, sector) ==
  Known(sector) /\ Known(Limits.perSector) =>
    Cardinality({e \in exposures : e.sector = sector}) <= Limits.perSector

\* A run that has assessed n evaluations: what it would order is among the
\* exposures, and within the limit of its sector.
RunOK(run, n, es, first) ==
  /\ IsRow(run.out, n)
  /\ \A i \in 1 .. n : IsCandidate(run.out[i]) /\ run.out[i].index = es[i].index
  /\ AreExposures(run.exposures) /\ first \subseteq run.exposures
  /\ \A i \in 1 .. n : run.out[i].disposition \in Actionable =>
       /\ \E e \in run.exposures : e.key[1] = run.out[i].signal.symbol
       /\ Within(run.exposures, run.out[i].signal.sector)

\* An approval is counted, and stays within the limit of its sector
\* (_roll_forward_portfolio_holding_exposures).
LEMMA RollKeeps ==
  ASSUME NEW exposures, AreExposures(exposures), NEW c, IsCandidate(c),
         c.disposition \in Actionable => ~SectorCrowded(exposures, c.signal, Limits)
  PROVE  LET after == RollForward(exposures, c)
         IN  /\ AreExposures(after) /\ exposures \subseteq after
             /\ \A sector : Within(exposures, sector) => Within(after, sector)
             /\ c.disposition \in Actionable =>
                  /\ \E e \in after : e.key[1] = c.signal.symbol
                  /\ Within(after, c.signal.sector)
<1> DEFINE after == RollForward(exposures, c)
           new == [ key |-> <<c.signal.symbol, 0>>, notional |-> c.sizing.notional,
                    sector |-> c.signal.sector, industry |-> c.signal.industry ]
           adds == c.disposition \in Actionable
                   /\ <<c.signal.symbol, 0>> \notin {e.key : e \in exposures}
           Of(E, sector) == {e \in E : e.sector = sector}
<1>1. after = IF adds THEN exposures \cup {new} ELSE exposures
  BY DEF RollForward
<1>2. /\ c.signal.symbol \in Symbols /\ c.signal.sector = SectorOf[c.signal.symbol]
      /\ new.key = <<c.signal.symbol, 0>> /\ new.key[1] = c.signal.symbol
      /\ new.sector = c.signal.sector
  BY DEF IsCandidate
<1>3. \A sector : IsFiniteSet(Of(exposures, sector))
                  /\ Cardinality(Of(exposures, sector)) \in Nat
  BY FS_Subset, FS_CardinalityType DEF AreExposures
<1>4. c.disposition \in Actionable /\ Known(c.signal.sector) /\ Known(Limits.perSector) =>
        Cardinality(Of(exposures, c.signal.sector)) + 1 <= Limits.perSector
  <2> HAVE c.disposition \in Actionable /\ Known(c.signal.sector) /\ Known(Limits.perSector)
  <2>1. ~SectorCrowded(exposures, c.signal, Limits)
    OBVIOUS
  <2>2. SameSector(exposures, c.signal) = Of(exposures, c.signal.sector)
    BY DEF SameSector
  <2>3. ~(Cardinality(SameSector(exposures, c.signal)) + 1 > Limits.perSector)
    BY <2>1 DEF SectorCrowded
  <2>4. Limits.perSector \in Nat
    BY LimitsAssumption DEF Known
  <2> HIDE DEF Of
  <2>5. ~(Cardinality(Of(exposures, c.signal.sector)) + 1 > Limits.perSector)
    BY <2>2, <2>3, Zenon
  <2> QED BY <1>3, <2>4, <2>5
<1> HIDE DEF new, after, adds
<1>5. AreExposures(after) /\ exposures \subseteq after
  <2>1. CASE adds
    <3>1. IsFiniteSet(exposures \cup {new})
      BY FS_AddElement DEF AreExposures
    <3> QED BY <1>1, <1>2, <2>1, <3>1 DEF AreExposures
  <2>2. CASE ~adds
    BY <1>1, <2>2
  <2> QED BY <2>1, <2>2
<1>6. \A sector : sector # c.signal.sector => Of(after, sector) = Of(exposures, sector)
  BY <1>1, <1>2
<1>7. c.disposition \in Actionable => Within(after, c.signal.sector)
  <2> SUFFICES ASSUME c.disposition \in Actionable, Known(c.signal.sector),
                      Known(Limits.perSector)
               PROVE  Cardinality(Of(after, c.signal.sector)) <= Limits.perSector
    BY DEF Within
  <2> DEFINE A == Of(after, c.signal.sector)
             B == Of(exposures, c.signal.sector)
  <2>1. A = B \/ A = B \cup {new}
    BY <1>1, <1>2
  <2>2. IsFiniteSet(B) /\ Cardinality(B) \in Nat /\ Cardinality(B) + 1 <= Limits.perSector
    BY <1>3, <1>4
  <2>3. Limits.perSector \in Nat
    BY LimitsAssumption DEF Known
  <2> HIDE DEF A, B
  <2>4. Cardinality(B \cup {new}) \in {Cardinality(B), Cardinality(B) + 1}
    BY <2>2, FS_AddElement
  <2>5. Cardinality(A) \in {Cardinality(B), Cardinality(B) + 1}
    <3>1. CASE A = B
      BY <3>1
    <3>2. CASE A = B \cup {new}
      BY <2>4, <3>2, Zenon
    <3> QED BY <2>1, <3>1, <3>2
  <2>6. Cardinality(A) <= Limits.perSector
    BY <2>2, <2>3, <2>5
  <2> QED BY <2>6 DEF A
<1>8. \A sector : Within(exposures, sector) => Within(after, sector)
  <2> TAKE sector
  <2> HAVE Within(exposures, sector)
  <2>1. CASE sector # c.signal.sector \/ after = exposures
    <3>1. Of(after, sector) = Of(exposures, sector)
      BY <1>6, <2>1
    <3> QED BY <3>1 DEF Within
  <2>2. CASE sector = c.signal.sector /\ after # exposures
    <3>1. c.disposition \in Actionable
      BY <1>1, <2>2 DEF adds
    <3> QED BY <1>7, <2>2, <3>1
  <2> QED BY <2>1, <2>2
<1>9. c.disposition \in Actionable => \E e \in after : e.key[1] = c.signal.symbol
  <2> HAVE c.disposition \in Actionable
  <2>1. CASE adds
    <3>1. new \in after
      BY <1>1, <2>1
    <3> QED BY <1>2, <3>1
  <2>2. CASE ~adds
    <3>1. <<c.signal.symbol, 0>> \in {e.key : e \in exposures}
      BY <2>2 DEF adds
    <3>2. PICK e \in exposures : e.key = <<c.signal.symbol, 0>>
      BY <3>1
    <3>3. e.key[1] = c.signal.symbol
      BY <3>2
    <3> QED BY <1>5, <3>3
  <2> QED BY <2>1, <2>2
<1> QED
  BY <1>5, <1>7, <1>8, <1>9 DEF after

\* One more assessment keeps the exposures and the candidates right.
LEMMA NextKeeps ==
  ASSUME NEW signals \in SignalSets, NEW market, NEW pf, NEW es, NEW first,
         NEW n \in Nat \ {0}, IsEvaluation(es[n], signals),
         NEW run, RunOK(run, n - 1, es, first)
  PROVE  RunOK(AssessNext(run, es[n], market, pf), n, es, first)
<1> DEFINE E == run.exposures
           x == es[n]
           c == AssessmentOf(x, market, pf, E)
           after == RollForward(E, c)
           next == AssessNext(run, x, market, pf)
<1>1. next.exposures = after /\ next.out = Append(run.out, c)
  BY DEF AssessNext, Follow, AssessmentOf
<1>2. AreExposures(E) /\ IsFiniteSet(E) /\ IsRow(run.out, n - 1) /\ first \subseteq E
  BY DEF RunOK, AreExposures
<1>3. /\ IsCandidate(c) /\ c.index = x.index /\ c.signal = Described(x)
      /\ c.disposition \in Actionable => ~SectorCrowded(E, Described(x), Limits)
  BY <1>2, AssessmentIs
<1>4. c.disposition \in Actionable => ~SectorCrowded(E, c.signal, Limits)
  BY <1>3
<1> HIDE DEF c
<1>5. /\ AreExposures(after) /\ E \subseteq after
      /\ \A sector : Within(E, sector) => Within(after, sector)
      /\ c.disposition \in Actionable =>
           /\ \E e \in after : e.key[1] = c.signal.symbol
           /\ Within(after, c.signal.sector)
  BY <1>2, <1>3, <1>4, RollKeeps
<1> HIDE DEF after, next
<1>6. IsLonger(next.out, run.out, n - 1, c)
  <2>1. IsLonger(Append(run.out, c), run.out, n - 1, c)
    BY <1>2, AppendIs
  <2> QED BY <1>1, <2>1
<1>7. /\ IsRow(next.out, n) /\ next.out[n] = c
      /\ \A i \in 1 .. n - 1 : next.out[i] = run.out[i]
  BY <1>6 DEF IsLonger
<1>8. \A i \in 1 .. n : i \in 1 .. n - 1 \/ i = n
  OBVIOUS
<1>9. \A i \in 1 .. n : IsCandidate(next.out[i]) /\ next.out[i].index = es[i].index
  <2> TAKE i \in 1 .. n
  <2>1. CASE i = n
    BY <1>3, <1>7, <2>1
  <2>2. CASE i \in 1 .. n - 1
    BY <1>7, <2>2 DEF RunOK
  <2> QED BY <1>8, <2>1, <2>2
<1>10. \A i \in 1 .. n : next.out[i].disposition \in Actionable =>
         /\ \E e \in after : e.key[1] = next.out[i].signal.symbol
         /\ Within(after, next.out[i].signal.sector)
  <2> TAKE i \in 1 .. n
  <2> HAVE next.out[i].disposition \in Actionable
  <2>1. CASE i = n
    BY <1>5, <1>7, <2>1
  <2>2. CASE i \in 1 .. n - 1
    <3>1. next.out[i] = run.out[i]
      BY <1>7, <2>2
    <3>2. /\ \E e \in E : e.key[1] = run.out[i].signal.symbol
          /\ Within(E, run.out[i].signal.sector)
      BY <2>2, <3>1 DEF RunOK
    <3> QED BY <1>5, <3>1, <3>2
  <2> QED BY <1>8, <2>1, <2>2
<1> HIDE DEF E
<1>11. first \subseteq after
  BY <1>2, <1>5
<1>12. RunOK(next, n, es, first)
  BY <1>1, <1>5, <1>7, <1>9, <1>10, <1>11 DEF RunOK
<1> QED
  BY <1>12 DEF next

\* What a run assesses (_roll_forward_portfolio_holding_exposures included).
LEMMA AssessedAre ==
  ASSUME NEW signals \in SignalSets, NEW market, NEW pf, NEW orders,
         NEW es, NEW k, NEW last, ChosenOK(es, k, last, signals),
         AreExposures(Exposures(pf, orders))
  PROVE  LET assessed == AssessAll(es, market, pf, orders)
         IN  /\ AreCandidates(assessed) /\ IsFiniteSet(DOMAIN assessed)
             /\ \E run : /\ RunOK(run, k, es, Exposures(pf, orders))
                         /\ run.out = assessed
<1> DEFINE first == Exposures(pf, orders)
           start == [exposures |-> first, out |-> <<>>]
<1>0. Len(es) = k /\ k \in Nat /\ IsRow(es, k)
  BY RowIs DEF ChosenOK
<1>1. PICK g : /\ g[0] = start
               /\ \A n \in 1 .. k : g[n] = AssessNext(g[n - 1], es[n], market, Held(pf))
               /\ AssessAll(es, market, pf, orders) = g[k].out
  BY <1>0, AssessmentRuns
<1> DEFINE Broken == {n \in 0 .. k : ~RunOK(g[n], n, es, first)}
<1>2. RunOK(start, 0, es, first)
  <2>1. start.exposures = first /\ start.out = <<>>
    OBVIOUS
  <2> HIDE DEF start
  <2>2. IsRow(start.out, 0)
    BY <2>1 DEF IsRow
  <2> QED BY <2>1, <2>2 DEF RunOK
<1> HIDE DEF start, first
<1>3. Broken = {}
  <2> SUFFICES ASSUME Broken # {} PROVE FALSE
    OBVIOUS
  <2>1. PICK n \in Broken : \A j \in Broken : n <= j
    <3>1. Broken \in SUBSET Nat
      BY <1>0
    <3> HIDE DEF Broken
    <3> QED BY <3>1, LeastNumber
  <2>2. n # 0
    BY <1>1, <1>2
  <2>3. RunOK(g[n - 1], n - 1, es, first)
    <3>1. n - 1 \in 0 .. k /\ ~(n <= n - 1)
      BY <1>0, <2>2
    <3>2. n - 1 \notin Broken
      <4> HIDE DEF Broken
      <4> QED BY <2>1, <3>1
    <3> QED BY <3>1, <3>2
  <2>4. n \in 1 .. k /\ n \in Nat \ {0}
    BY <1>0, <2>2
  <2>5. IsEvaluation(es[n], signals)
    BY <2>4 DEF ChosenOK
  <2>6. RunOK(AssessNext(g[n - 1], es[n], market, Held(pf)), n, es, first)
    BY <2>3, <2>4, <2>5, NextKeeps
  <2> QED BY <1>1, <2>4, <2>6
<1>4. RunOK(g[k], k, es, first)
  BY <1>0, <1>3
<1> DEFINE assessed == AssessAll(es, market, pf, orders)
<1>5. assessed = g[k].out
  BY <1>1
<1> HIDE DEF assessed
<1>6. IsRow(assessed, k) /\ DOMAIN assessed = 1 .. k /\ IsFiniteSet(DOMAIN assessed)
  <2>1. IsRow(assessed, k)
    BY <1>4, <1>5 DEF RunOK
  <2> QED BY <2>1, RowIs
<1>7. AreCandidates(assessed)
  <2>1. \A i \in 1 .. k : IsCandidate(assessed[i]) /\ assessed[i].index = es[i].index
    BY <1>4, <1>5 DEF RunOK
  <2>2. \A i, j \in 1 .. k : es[i].index = es[j].index => i = j
    BY DEF ChosenOK
  <2> QED BY <1>6, <2>1, <2>2 DEF AreCandidates
<1> QED
  BY <1>4, <1>5, <1>6, <1>7 DEF first, assessed

-----------------------------------------------------------------------------
(* The book and the portfolio file                                         *)

\* A map reaches no more than it starts from.
LEMMA ImageFits ==
  ASSUME NEW S, IsFiniteSet(S), NEW f, NEW T, T \subseteq {f[x] : x \in S}
  PROVE  IsFiniteSet(T) /\ Cardinality(T) <= Cardinality(S)
<1> DEFINE U == {f[x] : x \in S}
           F == [x \in S |-> f[x]]
<1>1. F \in [S -> U] /\ \A u \in U : \E x \in S : F[x] = u
  OBVIOUS
<1> HIDE DEF F, U
<1>2. F \in Surjection(S, U)
  BY <1>1, Fun_IsSurj
<1>3. IsFiniteSet(U) /\ Cardinality(U) <= Cardinality(S)
  BY <1>2, FS_Surjection
<1>4. T \in SUBSET U
  BY DEF U
<1>5. IsFiniteSet(T) /\ Cardinality(T) <= Cardinality(U)
  BY <1>3, <1>4, FS_Subset
<1>6. Cardinality(T) \in Nat /\ Cardinality(U) \in Nat /\ Cardinality(S) \in Nat
  BY <1>3, <1>5, FS_CardinalityType
<1> QED
  BY <1>3, <1>5, <1>6

\* There are finitely many symbols and order ids.
LEMMA FiniteIds == IsFiniteSet(Symbols) /\ IsFiniteSet(Orders)
<1>1. IsFiniteSet(1 .. Len(Universe)) /\ Len(Universe) \in Nat
  BY UniverseAssumption, FS_Interval
<1>2. Symbols \subseteq {Universe[i] : i \in 1 .. Len(Universe)}
  BY UniverseAssumption DEF Symbols, ToSet
<1>3. IsFiniteSet(Symbols)
  BY <1>1, <1>2, ImageFits
<1>4. IsFiniteSet(1 .. MaxDay)
  BY PlanBoundsAssumption, FS_Interval
<1>5. IsFiniteSet(Symbols \X (1 .. MaxDay))
  BY <1>3, <1>4, FS_Product
<1> QED
  BY <1>3, <1>5, IdsAssumption

\* The order book, whose active orders have set aside what their remaining
\* shares cost.
BookFine(b) ==
  /\ b \in Books
  /\ \A o \in Orders : b[o] = Absent \/ Valid(b[o])
  /\ \A o \in Orders : Active(b[o]) =>
       b[o].reserved = Remaining(b[o]) * UnitPrice /\ b[o].slot
  /\ UniqueActiveBuys(b)

\* The portfolio file.
FileFine(pf) ==
  pf \in [Symbols -> [shares : Nat, decision : Range(DecisionOf) \cup {NoDecision}]]

\* An order that is waiting reserves its unfilled shares at the unit price.
LEMMA OrderIs ==
  ASSUME NEW b, BookFine(b), NEW o \in Reserving(b)
  PROVE  /\ o \in Orders /\ SymbolOf[o] \in Symbols /\ SymbolOf[o] = o[1]
         /\ b[o] \in PendingOrderRecord /\ b[o].slot /\ Active(b[o]) /\ Valid(b[o])
         /\ b[o].requested \in Nat /\ b[o].filled \in Nat /\ b[o].filled < b[o].requested
         /\ b[o].reserved = (b[o].requested - b[o].filled) * UnitPrice
         /\ b[o].reserved \in Nat /\ ReservationPrice(b[o]) = UnitPrice
<1>1. o \in Orders /\ Active(b[o]) /\ SymbolOf[o] = o[1] /\ SymbolOf[o] \in Symbols
  BY IdsAssumption DEF Reserving
<1>2. /\ b[o] \in PendingOrderRecord /\ b[o].slot
      /\ b[o].reserved = Remaining(b[o]) * UnitPrice
  BY <1>1 DEF BookFine, Books
<1>3. b[o].requested \in Nat /\ b[o].filled \in Nat /\ b[o].reserved \in Nat
  BY <1>2 DEF PendingOrderRecord
<1>4. /\ b[o].filled < b[o].requested
      /\ Remaining(b[o]) = b[o].requested - b[o].filled
  BY <1>1, <1>3 DEF Active, Remaining
<1>5. Valid(b[o])
  BY <1>1 DEF BookFine, Absent, Active, ActiveStatuses
<1>6. ReservationPrice(b[o]) = UnitPrice
  <2> DEFINE n == Remaining(b[o])
             r == b[o].reserved
  <2>1. n \in Nat /\ n > 0 /\ r = n * UnitPrice /\ UnitPrice \in Nat /\ UnitPrice > 0
    BY <1>2, <1>3, <1>4, UnitPriceAssumption
  <2>2. ReservationPrice(b[o]) = IF n > 0 /\ r > 0 THEN r \div n ELSE UnitPrice
    BY DEF ReservationPrice
  <2> HIDE DEF n, r
  <2>3. r \div n = UnitPrice
    BY <2>1
  <2> QED BY <2>2, <2>3
<1> QED
  BY <1>1, <1>2, <1>3, <1>4, <1>5, <1>6

\* What an order has bought that the portfolio file does not show.
Unseen(pf, b, o) == b[o].filled - Absorbed(pf, b, o)

\* No more is absorbed than was filled, and nothing without a position.
LEMMA AbsorbedIs ==
  ASSUME NEW b, BookFine(b), NEW pf, FileFine(pf), NEW o \in Reserving(b)
  PROVE  /\ Absorbed(pf, b, o) \in Nat /\ Unseen(pf, b, o) \in Nat
         /\ pf[SymbolOf[o]].shares = 0 => Absorbed(pf, b, o) = 0
         /\ pf[SymbolOf[o]].shares \in Nat
<1>1. b[o].filled \in Nat /\ SymbolOf[o] \in Symbols
  BY OrderIs
<1>2. pf[SymbolOf[o]].shares \in Nat
  BY <1>1 DEF FileFine
<1> DEFINE n == pf[SymbolOf[o]].shares
           m == b[o].filled
<1>3. Absorbed(pf, b, o) = IF n > 0 /\ pf[SymbolOf[o]].decision = DecisionOf[o]
                           THEN Min({n, m}) ELSE 0
  BY DEF Absorbed
<1>4. Min({n, m}) = IF n <= m THEN n ELSE m
  BY <1>1, <1>2, LesserOfTwo
<1> HIDE DEF n, m
<1>5. n \in Nat /\ m \in Nat
  BY <1>1, <1>2 DEF n, m
<1>6. Absorbed(pf, b, o) \in 0 .. m /\ (n = 0 => Absorbed(pf, b, o) = 0)
  BY <1>3, <1>4, <1>5
<1>7. Unseen(pf, b, o) = m - Absorbed(pf, b, o)
  BY DEF Unseen, m
<1> QED
  BY <1>2, <1>5, <1>6, <1>7 DEF n

\* A sum over one member.
LEMMA SumOfOne ==
  ASSUME NEW f, NEW x, f[x] \in Int
  PROVE  SumFunctionOnSet(f, {x}) = f[x]
<1>1. IsFiniteSet({x}) /\ Whole(f, {x})
  BY FS_Singleton DEF Whole
<1>2. SumFunctionOnSet(f, {x}) = f[x] + SumFunctionOnSet(f, {x} \ {x})
  BY <1>1, SumSplits
<1>3. {x} \ {x} = {}
  OBVIOUS
<1>4. SumFunctionOnSet(f, {x} \ {x}) = 0
  BY <1>3, SumOfNone, Zenon
<1> QED
  BY <1>2, <1>4

\* The shares of a symbol that were bought on active orders and that the
\* portfolio file does not show.
UnseenOf(s) ==
  SumFunction([o \in {x \in Reserving(book) : SymbolOf[x] = s} |->
                 book[o].filled - Absorbed(portfolio, book, o)])

\* A symbol has one active order at most.
LEMMA UnseenIs ==
  ASSUME BookFine(book), FileFine(portfolio), NEW s
  PROVE  /\ UnseenOf(s) \in Nat
         /\ UnseenOf(s) # 0 => \E o \in Reserving(book) :
              /\ SymbolOf[o] = s /\ UnseenOf(s) = Unseen(portfolio, book, o)
              /\ \A p \in Reserving(book) : SymbolOf[p] = s => p = o
<1> DEFINE S == {x \in Reserving(book) : SymbolOf[x] = s}
           f == [o \in S |-> book[o].filled - Absorbed(portfolio, book, o)]
<1>1. UnseenOf(s) = SumFunctionOnSet(f, S)
  BY DEF UnseenOf, SumFunction
<1>2. \A o, p \in S : o = p
  <2> TAKE o, p \in S
  <2>1. o \in Orders /\ p \in Orders /\ Active(book[o]) /\ Active(book[p])
        /\ SymbolOf[o] = SymbolOf[p]
    BY OrderIs
  <2>2. ReservesCapacity(book, o) /\ ReservesCapacity(book, p)
    BY <2>1, IdsAssumption DEF ReservesCapacity
  <2> QED BY <2>1, <2>2 DEF BookFine, UniqueActiveBuys
<1>3. \A o \in S : f[o] = Unseen(portfolio, book, o) /\ f[o] \in Nat
  <2> TAKE o \in S
  <2>1. Unseen(portfolio, book, o) \in Nat
    BY AbsorbedIs
  <2> QED BY <2>1 DEF Unseen
<1> HIDE DEF f
<1>4. CASE S = {}
  <2>1. SumFunctionOnSet(f, S) = 0
    BY <1>4, SumOfNone, Zenon
  <2> QED BY <1>1, <2>1
<1>5. CASE S # {}
  <2>1. PICK o \in S : TRUE
    BY <1>5
  <2>2. S = {o}
    BY <1>2, <2>1
  <2>3. f[o] \in Int
    BY <1>3, <2>1
  <2> HIDE DEF S
  <2>4. SumFunctionOnSet(f, {o}) = f[o]
    BY <2>3, SumOfOne
  <2>5. UnseenOf(s) = f[o]
    BY <1>1, <2>2, <2>4, Zenon
  <2>6. UnseenOf(s) = Unseen(portfolio, book, o) /\ UnseenOf(s) \in Nat
    BY <1>3, <2>1, <2>5
  <2>7. \A p \in Reserving(book) : SymbolOf[p] = s => p = o
    BY <1>2, <2>1 DEF S
  <2>8. o \in Reserving(book) /\ SymbolOf[o] = s
    BY <2>1 DEF S
  <2> QED BY <2>6, <2>7, <2>8
<1> QED
  BY <1>4, <1>5

\* What the reservation view takes off the equity.
Deducted ==
  HoldingCost(portfolio) + Reserved(book, Reserving(book))
    + SumFunction([o \in Reserving(book) |-> PendingFillNotional(portfolio, book, o)])

\* Finitely many orders wait, and what they reserve is not negative.
LEMMA ReservedIs ==
  ASSUME NEW b, BookFine(b)
  PROVE  /\ IsFiniteSet(Reserving(b))
         /\ Reserved(b, Reserving(b)) \in Nat
<1> DEFINE R == Reserving(b)
           f == [o \in R |-> b[o].reserved]
<1>1. R \in SUBSET Orders
  BY IdsAssumption DEF Reserving
<1>2. IsFiniteSet(R)
  BY <1>1, FiniteIds, FS_Subset
<1>3. \A o \in R : b[o].reserved \in Nat
  BY OrderIs
<1>4. Reserved(b, R) = SumFunctionOnSet(f, R)
  BY DEF Reserved, SumFunction
<1> HIDE DEF R
<1>5. NotNegative(f, R)
  BY <1>3 DEF NotNegative
<1> HIDE DEF f
<1>6. SumFunctionOnSet(f, R) \in Nat
  BY <1>2, <1>5, SumNotNegative
<1> QED
  BY <1>2, <1>4, <1>6 DEF R

\* What was spent and ordered is no more than what the view takes off, where
\* the portfolio file had the shares of ended orders
\* (build_order_reservation_state).
LEMMA CommittedFits ==
  ASSUME BookFine(book), FileFine(portfolio), held \in [Symbols -> Nat], Informed
  PROVE  Committed <= Deducted /\ Committed \in Nat /\ Deducted \in Nat
<1> DEFINE R == Reserving(book)
           H == Held(portfolio)
           spent   == [s \in Symbols |-> held[s] * UnitPrice]
           shown   == [s \in Symbols |-> portfolio[s].shares * UnitPrice]
           unseen  == [s \in Symbols |-> UnseenOf(s) * UnitPrice]
           known   == [s \in Symbols |-> shown[s] + unseen[s]]
           same    == [s \in Symbols |-> s]
           orderOf == [s \in Symbols |-> CHOOSE o \in R : SymbolOf[o] = s]
           holding == [s \in H |-> portfolio[s].shares * UnitPrice]
           pending == [o \in R |-> PendingFillNotional(portfolio, book, o)]
           reserved == Reserved(book, R)
<1>1. IsFiniteSet(Symbols) /\ IsFiniteSet(R) /\ reserved \in Nat
  BY FiniteIds, ReservedIs
<1>2. H \in SUBSET Symbols /\ \A s \in Symbols : s \in H <=> portfolio[s].shares > 0
  BY DEF Held, FileFine
<1>3. IsFiniteSet(H)
  BY <1>1, <1>2, FS_Subset
<1>4. \A s \in Symbols : portfolio[s].shares \in Nat /\ held[s] \in Nat /\ UnseenOf(s) \in Nat
  BY UnseenIs DEF FileFine
<1>5. \A s \in Symbols : held[s] <= portfolio[s].shares + UnseenOf(s)
  BY DEF Informed, UnseenOf
<1>6. \A o \in R : /\ Unseen(portfolio, book, o) \in Nat
                   /\ pending[o] = Unseen(portfolio, book, o) * UnitPrice
  BY AbsorbedIs, OrderIs DEF PendingFillNotional, Unseen
<1>7. Committed = SumFunctionOnSet(spent, Symbols) + reserved
  BY DEF Committed, SumFunction
<1>8. HoldingCost(portfolio) = SumFunctionOnSet(holding, H)
  BY DEF HoldingCost, SumFunction
<1>9. SumFunction(pending) = SumFunctionOnSet(pending, R)
  BY DEF SumFunction
<1>10. Deducted = HoldingCost(portfolio) + reserved + SumFunction(pending)
  BY DEF Deducted
<1>11. \A s \in Symbols : /\ spent[s] = held[s] * UnitPrice
                          /\ shown[s] = portfolio[s].shares * UnitPrice
                          /\ unseen[s] = UnseenOf(s) * UnitPrice
                          /\ known[s] = shown[s] + unseen[s] /\ same[s] = s
  OBVIOUS
<1>12. \A s \in Symbols : orderOf[s] = CHOOSE o \in R : SymbolOf[o] = s
  OBVIOUS
<1>13. \A s \in H : holding[s] = shown[s]
  BY <1>2
<1> HIDE DEF R, H, spent, shown, unseen, known, same, orderOf, holding, pending, reserved
<1>14. \A s \in Symbols : /\ spent[s] \in Nat /\ shown[s] \in Nat /\ unseen[s] \in Nat
                          /\ known[s] \in Nat /\ spent[s] <= known[s]
  <2> TAKE s \in Symbols
  <2> DEFINE h == held[s]
             p == portfolio[s].shares
             u == UnseenOf(s)
  <2>1. h \in Nat /\ p \in Nat /\ u \in Nat /\ h <= p + u
    BY <1>4, <1>5
  <2>2. spent[s] = h * UnitPrice /\ shown[s] = p * UnitPrice /\ unseen[s] = u * UnitPrice
    BY <1>11
  <2> HIDE DEF h, p, u
  <2>3. /\ h * UnitPrice \in Nat /\ p * UnitPrice \in Nat /\ u * UnitPrice \in Nat
        /\ h * UnitPrice <= p * UnitPrice + u * UnitPrice
    BY <2>1, UnitPriceAssumption
  <2> QED BY <1>11, <2>2, <2>3
<1>15. \A o \in R : pending[o] \in Nat
  BY <1>6, UnitPriceAssumption
<1>16. SumFunctionOnSet(spent, Symbols) <= SumFunctionOnSet(known, Symbols)
  <2>1. Whole(spent, Symbols) /\ NotNegative(known, Symbols)
    BY <1>14 DEF Whole, NotNegative
  <2>2. Covers(same, spent, Symbols, known, Symbols)
    BY <1>11, <1>14 DEF Covers
  <2> QED BY <1>1, <2>1, <2>2, SumBelow
<1>17. SumFunctionOnSet(known, Symbols)
         = SumFunctionOnSet(shown, Symbols) + SumFunctionOnSet(unseen, Symbols)
  <2>1. Whole(shown, Symbols) /\ Whole(unseen, Symbols)
    BY <1>14 DEF Whole
  <2> QED BY <1>1, <1>11, <2>1, SumAdds
<1>18. SumFunctionOnSet(shown, Symbols) <= SumFunctionOnSet(holding, H)
  <2>1. Whole(shown, Symbols) /\ NotNegative(holding, H)
    BY <1>2, <1>13, <1>14 DEF Whole, NotNegative
  <2>2. Covers(same, shown, Symbols, holding, H)
    <3>1. \A s \in Symbols : shown[s] > 0 => s \in H
      <4> TAKE s \in Symbols
      <4>1. portfolio[s].shares = 0 => shown[s] = 0
        BY <1>11, UnitPriceAssumption
      <4> QED BY <1>2, <1>4, <4>1
    <3>2. \A s \in H : shown[s] <= holding[s]
      BY <1>2, <1>13, <1>14
    <3> QED BY <1>11, <3>1, <3>2 DEF Covers
  <2> QED BY <1>1, <1>3, <2>1, <2>2, SumBelow
<1>19. SumFunctionOnSet(unseen, Symbols) <= SumFunctionOnSet(pending, R)
  <2>1. Whole(unseen, Symbols) /\ NotNegative(pending, R)
    BY <1>14, <1>15 DEF Whole, NotNegative
  <2>2. Covers(orderOf, unseen, Symbols, pending, R)
    <3>1. \A s \in Symbols : unseen[s] > 0 =>
            /\ orderOf[s] \in R /\ SymbolOf[orderOf[s]] = s /\ unseen[s] <= pending[orderOf[s]]
      <4> TAKE s \in Symbols
      <4> HAVE unseen[s] > 0
      <4>1. UnseenOf(s) # 0
        BY <1>11, UnitPriceAssumption
      <4>2. PICK o \in R : /\ SymbolOf[o] = s /\ UnseenOf(s) = Unseen(portfolio, book, o)
                           /\ \A p \in R : SymbolOf[p] = s => p = o
        BY <4>1, UnseenIs DEF R
      <4>3. orderOf[s] \in R /\ SymbolOf[orderOf[s]] = s
        BY <1>12, <4>2
      <4>4. orderOf[s] = o
        BY <4>2, <4>3
      <4>5. unseen[s] = pending[o] /\ pending[o] \in Nat
        BY <1>6, <1>11, <1>15, <4>2
      <4> QED BY <4>3, <4>4, <4>5
    <3> QED BY <3>1 DEF Covers
  <2> QED BY <1>1, <2>1, <2>2, SumBelow
<1>20. /\ SumFunctionOnSet(spent, Symbols) \in Nat /\ SumFunctionOnSet(shown, Symbols) \in Nat
       /\ SumFunctionOnSet(unseen, Symbols) \in Nat /\ SumFunctionOnSet(holding, H) \in Nat
       /\ SumFunctionOnSet(pending, R) \in Nat
  <2>1. /\ NotNegative(spent, Symbols) /\ NotNegative(shown, Symbols)
        /\ NotNegative(unseen, Symbols) /\ NotNegative(pending, R)
    BY <1>14, <1>15 DEF NotNegative
  <2>2. NotNegative(holding, H)
    BY <1>2, <1>13, <1>14 DEF NotNegative
  <2> QED BY <1>1, <1>3, <2>1, <2>2, SumNotNegative
<1> QED
  BY <1>1, <1>7, <1>8, <1>9, <1>10, <1>16, <1>17, <1>18, <1>19, <1>20

\* The orders that take a slot of the view.
SlotOrders == {o \in Reserving(book) : ReservesSlot(portfolio, book, o)}

\* What is held or ordered is in the portfolio file, or takes a slot of the view.
LEMMA OccupiedIs ==
  ASSUME BookFine(book), FileFine(portfolio), held \in [Symbols -> Nat], Informed,
         NEW s \in Occupied
  PROVE  s \in Symbols /\ (s \in Held(portfolio) \/ \E o \in SlotOrders : SymbolOf[o] = s)
<1>1. s \in Symbols
  BY OrderIs DEF Occupied
<1>2. portfolio[s].shares \in Nat /\ DOMAIN portfolio = Symbols
  BY <1>1 DEF FileFine
<1>3. CASE portfolio[s].shares # 0
  BY <1>1, <1>2, <1>3 DEF Held
<1>4. CASE portfolio[s].shares = 0
  <2>1. \E o \in Reserving(book) : SymbolOf[o] = s
    <3>1. CASE held[s] > 0
      <4>1. held[s] <= portfolio[s].shares + UnseenOf(s)
        BY <1>1 DEF Informed, UnseenOf
      <4>2. held[s] \in Nat /\ UnseenOf(s) \in Nat
        BY <1>1, UnseenIs
      <4>3. UnseenOf(s) # 0
        BY <1>4, <3>1, <4>1, <4>2
      <4> QED BY <4>3, UnseenIs
    <3>2. CASE ~(held[s] > 0)
      BY <3>2 DEF Occupied
    <3> QED BY <3>1, <3>2
  <2>2. PICK o \in Reserving(book) : SymbolOf[o] = s
    BY <2>1
  <2>3. Absorbed(portfolio, book, o) = 0 /\ book[o].slot
    BY <1>4, <2>2, AbsorbedIs, OrderIs
  <2>4. o \in SlotOrders
    BY <2>2, <2>3 DEF SlotOrders, ReservesSlot
  <2> QED BY <1>1, <2>2, <2>4
<1> QED
  BY <1>3, <1>4

\* The slots that are taken are no more than the view counts
\* (_reserves_unmatched_slot).
LEMMA OccupiedFits ==
  ASSUME BookFine(book), FileFine(portfolio), held \in [Symbols -> Nat], Informed
  PROVE  /\ IsFiniteSet(Occupied) /\ Cardinality(Occupied) \in Nat
         /\ Cardinality(Held(portfolio)) \in Nat /\ Cardinality(SlotOrders) \in Nat
         /\ Cardinality(Occupied) <= Cardinality(Held(portfolio)) + Cardinality(SlotOrders)
<1> DEFINE H == Held(portfolio)
           S == SlotOrders
           T == {s \in Occupied : \E o \in S : SymbolOf[o] = s}
<1>1. H \in SUBSET Symbols /\ S \in SUBSET Reserving(book)
  BY DEF Held, FileFine, SlotOrders
<1>2. IsFiniteSet(H) /\ IsFiniteSet(S)
  BY <1>1, FiniteIds, ReservedIs, FS_Subset
<1>3. IsFiniteSet(T) /\ Cardinality(T) <= Cardinality(S)
  <2>1. T \subseteq {SymbolOf[o] : o \in S}
    OBVIOUS
  <2> HIDE DEF T, S
  <2> QED BY <1>2, <2>1, ImageFits
<1>4. Occupied \in SUBSET (H \cup T)
  BY OccupiedIs
<1> HIDE DEF H, S, T
<1>5. /\ IsFiniteSet(H \cup T)
      /\ Cardinality(H \cup T) = Cardinality(H) + Cardinality(T) - Cardinality(H \cap T)
  BY <1>2, <1>3, FS_Union
<1>6. IsFiniteSet(Occupied) /\ Cardinality(Occupied) <= Cardinality(H \cup T)
  BY <1>4, <1>5, FS_Subset
<1>7. IsFiniteSet(H \cap T)
  BY <1>2, FS_Subset
<1>8. /\ Cardinality(H) \in Nat /\ Cardinality(S) \in Nat /\ Cardinality(T) \in Nat
      /\ Cardinality(H \cap T) \in Nat /\ Cardinality(Occupied) \in Nat
  BY <1>2, <1>3, <1>6, <1>7, FS_CardinalityType
<1> QED
  BY <1>3, <1>5, <1>6, <1>8 DEF H, S

\* The exposures of a run start with everything that is held or ordered
\* (_build_portfolio_holding_exposures, build_pending_order_holding_exposures).
LEMMA ExposuresAre ==
  ASSUME BookFine(book), FileFine(portfolio), held \in [Symbols -> Nat]
  PROVE  LET exposures == Exposures(portfolio, book)
         IN  /\ AreExposures(exposures)
             /\ Informed => \A s \in Occupied : \E e \in exposures : e.key[1] = s
<1> DEFINE H == Held(portfolio)
           R == Reserving(book)
           byFile == [s \in H |->
             [ key |-> <<s, 0>>, notional |-> portfolio[s].shares * UnitPrice,
               sector |-> SectorOf[s], industry |-> NoValue ]]
           byBook == [o \in R |->
             [ key |-> o,
               notional |-> book[o].reserved + PendingFillNotional(portfolio, book, o),
               sector |-> SectorOf[SymbolOf[o]], industry |-> NoValue ]]
           A == {byFile[s] : s \in H}
           B == {byBook[o] : o \in R}
           E == Exposures(portfolio, book)
<1>1. E = A \cup B
  BY DEF Exposures
<1>2. H \in SUBSET Symbols /\ R \in SUBSET Orders
  BY IdsAssumption DEF Held, FileFine, Reserving
<1>3. IsFiniteSet(H) /\ IsFiniteSet(R)
  BY <1>2, FiniteIds, FS_Subset
<1>4. \A s \in H : byFile[s].key[1] = s /\ byFile[s].sector = SectorOf[s]
  OBVIOUS
<1>5. \A o \in R : /\ byBook[o].key[1] = SymbolOf[o] /\ SymbolOf[o] \in Symbols
                   /\ byBook[o].sector = SectorOf[SymbolOf[o]]
  BY OrderIs
<1> HIDE DEF H, R, byFile, byBook, E
<1>6. IsFiniteSet(A) /\ IsFiniteSet(B)
  BY <1>3, ImageFits
<1>7. AreExposures(E)
  <2>1. IsFiniteSet(E)
    <3> HIDE DEF A, B
    <3> QED BY <1>1, <1>6, FS_Union
  <2>2. \A e \in A : e.key[1] \in Symbols /\ e.sector = SectorOf[e.key[1]]
    BY <1>2, <1>4
  <2>3. \A e \in B : e.key[1] \in Symbols /\ e.sector = SectorOf[e.key[1]]
    BY <1>5
  <2> HIDE DEF A, B
  <2> QED BY <1>1, <2>1, <2>2, <2>3 DEF AreExposures
<1>8. ASSUME Informed, NEW s \in Occupied
      PROVE  \E e \in E : e.key[1] = s
  <2>1. s \in H \/ \E o \in R : SymbolOf[o] = s
    BY <1>8, OccupiedIs DEF H, R, SlotOrders
  <2>2. CASE s \in H
    BY <1>1, <1>4, <2>2
  <2>3. CASE \E o \in R : SymbolOf[o] = s
    BY <1>1, <1>5, <2>3
  <2> QED BY <2>1, <2>2, <2>3
<1> QED
  BY <1>7, <1>8 DEF E

-----------------------------------------------------------------------------
(* What a run plans                                                        *)

\* What is left of the equity and of the positions, where something is left
\* (build_order_reservation_state).
LEMMA ViewIs ==
  ASSUME BookFine(book), FileFine(portfolio)
  PROVE  LET view == ReservationState(portfolio, book)
         IN  /\ view.capital \in Nat /\ view.slots \in Nat
             /\ view.capital # 0 => view.capital = Account.equity - Deducted
             /\ view.slots # 0 =>
                  view.slots = Limits.positions - Cardinality(Held(portfolio))
                                 - Cardinality(SlotOrders)
<1> DEFINE R == Reserving(book)
           H == Held(portfolio)
           holding == [s \in H |-> portfolio[s].shares * UnitPrice]
           pending == [o \in R |-> PendingFillNotional(portfolio, book, o)]
           a == HoldingCost(portfolio)
           b == Reserved(book, R)
           c == SumFunction(pending)
           m == Cardinality(H)
           n == Cardinality(SlotOrders)
           view == ReservationState(portfolio, book)
<1>1. H \in SUBSET Symbols /\ SlotOrders \in SUBSET R
  BY DEF Held, FileFine, SlotOrders
<1>2. IsFiniteSet(H) /\ IsFiniteSet(SlotOrders) /\ IsFiniteSet(R) /\ b \in Nat
  BY <1>1, FiniteIds, ReservedIs, FS_Subset
<1>3. m \in Nat /\ n \in Nat
  BY <1>2, FS_CardinalityType
<1>4. a \in Nat
  <2>1. a = SumFunctionOnSet(holding, H)
    BY DEF HoldingCost, SumFunction
  <2>2. \A s \in H : holding[s] \in Nat
    BY <1>1, UnitPriceAssumption DEF FileFine
  <2> HIDE DEF a, holding, H
  <2>3. NotNegative(holding, H)
    BY <2>2 DEF NotNegative
  <2> QED BY <1>2, <2>1, <2>3, SumNotNegative
<1>5. c \in Nat
  <2>1. c = SumFunctionOnSet(pending, R)
    BY DEF SumFunction
  <2>2. \A o \in R : pending[o] \in Nat
    <3> TAKE o \in R
    <3>1. pending[o] = Unseen(portfolio, book, o) * UnitPrice
      BY OrderIs DEF PendingFillNotional, Unseen
    <3>2. Unseen(portfolio, book, o) \in Nat
      BY AbsorbedIs
    <3> HIDE DEF pending
    <3> QED BY <3>1, <3>2, UnitPriceAssumption
  <2> HIDE DEF c, pending, R
  <2>3. NotNegative(pending, R)
    BY <2>2 DEF NotNegative
  <2> QED BY <1>2, <2>1, <2>3, SumNotNegative
<1>6. /\ view.capital = AtLeastZero(Account.equity - a - b - c)
      /\ view.slots = AtLeastZero(Limits.positions - m - n)
      /\ Deducted = a + b + c
  BY DEF ReservationState, SlotOrders, Deducted
<1> HIDE DEF a, b, c, m, n, view
<1>7. Account.equity \in Nat /\ Limits.positions \in Nat
  BY LimitsAssumption
<1>8. /\ view.capital = IF Account.equity - a - b - c >= 0
                        THEN Account.equity - a - b - c ELSE 0
      /\ view.slots = IF Limits.positions - m - n >= 0 THEN Limits.positions - m - n ELSE 0
  BY <1>2, <1>3, <1>4, <1>5, <1>6, <1>7, AtLeastZeroIs
<1>9. /\ view.capital \in Nat /\ view.slots \in Nat
      /\ view.capital # 0 => view.capital = Account.equity - Deducted
      /\ view.slots # 0 => view.slots = Limits.positions - m - n
  BY <1>2, <1>3, <1>4, <1>5, <1>6, <1>7, <1>8
<1> QED
  BY <1>9 DEF view, m, n

\* What generate-orders would order.
Plan(signals, market) ==
  ExecutionBatch(Ranking(AssessAll(Evaluations(signals, 1, {}), market, portfolio, book),
                         ReservationState(portfolio, book)))

Planned(batch) == {batch[n].candidate.signal.symbol : n \in DOMAIN batch}

\* The sectors of a plan are within their limits beside what is occupied.
Spread(batch) ==
  \A s \in Planned(batch) :
    Known(SectorOf[s]) /\ Known(Limits.perSector) =>
      Cardinality({x \in Occupied \cup Planned(batch) : SectorOf[x] = SectorOf[s]})
        <= Limits.perSector

\* A plan fits (generate-orders).
LEMMA PlanFits ==
  ASSUME BookFine(book), FileFine(portfolio), held \in [Symbols -> Nat],
         NEW signals \in SignalSets, NEW market, Plan(signals, market) # <<>>
  PROVE  LET batch == Plan(signals, market)
         IN  \E k \in Nat \ {0} :
               /\ batch = [n \in 1 .. k |-> batch[n]]
               /\ \A n \in 1 .. k : /\ batch[n].candidate.signal.symbol \in Symbols
                                    /\ batch[n].candidate.sizing.shares \in Nat \ {0}
               /\ Informed =>
                    /\ Committed + SumFunctionOnSet(OrderCosts(batch), 1 .. k)
                         <= Account.equity
                    /\ Cardinality(Occupied) + k <= Limits.positions
                    /\ Spread(batch)
<1> DEFINE es == Evaluations(signals, 1, {})
           assessed == AssessAll(es, market, portfolio, book)
           view == ReservationState(portfolio, book)
           first == Exposures(portfolio, book)
           batch == Plan(signals, market)
<1>1. 1 \in 1 .. Len(Presets) /\ Len(Universe) \in Nat
  BY UniverseAssumption
<1>2. PICK last : \E k : ChosenOK(es, k, last, signals)
  BY <1>1, EvaluationsAre
<1>3. PICK k0 : ChosenOK(es, k0, last, signals)
  BY <1>2
<1>4. AreExposures(first) /\ (Informed => \A s \in Occupied : \E e \in first : e.key[1] = s)
  BY ExposuresAre
<1> HIDE DEF es
<1>5. /\ AreCandidates(assessed) /\ IsFiniteSet(DOMAIN assessed)
      /\ \E run : RunOK(run, k0, es, first) /\ run.out = assessed
  BY <1>3, <1>4, AssessedAre
<1>6. PICK run : RunOK(run, k0, es, first) /\ run.out = assessed
  BY <1>5
<1>7. /\ view.capital \in Nat /\ view.slots \in Nat
      /\ view.capital # 0 => view.capital = Account.equity - Deducted
      /\ view.slots # 0 =>
           view.slots = Limits.positions - Cardinality(Held(portfolio))
                          - Cardinality(SlotOrders)
  BY ViewIs
<1>8. batch = ExecutionBatch(Ranking(assessed, view))
  BY DEF Plan, es
<1> HIDE DEF assessed, view, first, batch
<1>9. PICK k \in Nat :
        /\ batch = [n \in 1 .. k |-> batch[n]]
        /\ k <= view.slots
        /\ SumFunctionOnSet(OrderCosts(batch), 1 .. k) <= view.capital
        /\ \A n \in 1 .. k : /\ \E i \in DOMAIN assessed : batch[n].candidate = assessed[i]
                             /\ batch[n].candidate.disposition \in Actionable
  BY <1>5, <1>7, <1>8, BatchFits
<1>10. DOMAIN batch = 1 .. k /\ k \in Nat \ {0}
  <2>1. DOMAIN batch = 1 .. k
    BY <1>9
  <2>2. k = 0 => batch = <<>>
    BY <1>9
  <2> QED BY <1>9, <2>1, <2>2 DEF batch
<1>11. \A n \in 1 .. k : /\ IsCandidate(batch[n].candidate)
                         /\ batch[n].candidate.signal.symbol \in Symbols
                         /\ batch[n].candidate.sizing.shares \in Nat \ {0}
  <2> TAKE n \in 1 .. k
  <2>1. IsCandidate(batch[n].candidate) /\ batch[n].candidate.disposition \in OperatorApproved
    BY <1>5, <1>9 DEF AreCandidates, OperatorApproved
  <2> QED BY <2>1 DEF IsCandidate
<1> DEFINE costs == OrderCosts(batch)
           total == SumFunctionOnSet(costs, 1 .. k)
<1>12. total \in Nat \ {0}
  <2> DEFINE S == 1 .. k
  <2>1. \A n \in S : costs[n] \in Nat \ {0}
    <3> TAKE n \in S
    <3>1. costs[n] = batch[n].candidate.sizing.shares * UnitPrice
      BY <1>10 DEF OrderCosts
    <3>2. batch[n].candidate.sizing.shares \in Nat \ {0}
      BY <1>11
    <3> HIDE DEF costs
    <3> QED BY <3>1, <3>2, UnitPriceAssumption
  <2>2. IsFiniteSet(S) /\ 1 \in S
    BY <1>10, FS_Interval
  <2> HIDE DEF costs, S
  <2>3. IsFiniteSet(S \ {1})
    BY <2>2, FS_RemoveElement
  <2>4. Whole(costs, S) /\ NotNegative(costs, S \ {1})
    BY <2>1 DEF Whole, NotNegative
  <2>5. SumFunctionOnSet(costs, S) = costs[1] + SumFunctionOnSet(costs, S \ {1})
    BY <2>2, <2>4, SumSplits
  <2>6. SumFunctionOnSet(costs, S \ {1}) \in Nat
    BY <2>3, <2>4, SumNotNegative
  <2>7. SumFunctionOnSet(costs, S) \in Nat \ {0}
    BY <2>1, <2>2, <2>5, <2>6
  <2> QED BY <2>7 DEF S
<1> HIDE DEF total
<1>13. total <= view.capital
  BY <1>9 DEF total
<1>14. ASSUME Informed
       PROVE  Committed + total <= Account.equity /\ Cardinality(Occupied) + k <= Limits.positions
  <2>1. Committed <= Deducted /\ Committed \in Nat /\ Deducted \in Nat
    BY <1>14, CommittedFits
  <2>2. view.capital = Account.equity - Deducted
    BY <1>7, <1>12, <1>13
  <2>3. view.slots = Limits.positions - Cardinality(Held(portfolio)) - Cardinality(SlotOrders)
    BY <1>7, <1>9, <1>10
  <2>4. /\ Cardinality(Occupied) \in Nat /\ Cardinality(Held(portfolio)) \in Nat
        /\ Cardinality(SlotOrders) \in Nat
        /\ Cardinality(Occupied) <= Cardinality(Held(portfolio)) + Cardinality(SlotOrders)
    BY <1>14, OccupiedFits
  <2>5. Account.equity \in Nat /\ Limits.positions \in Nat
    BY LimitsAssumption
  <2>6. Committed + total <= Account.equity
    BY <1>12, <1>13, <2>1, <2>2, <2>5
  <2>7. Cardinality(Occupied) + k <= Limits.positions
    BY <1>9, <2>3, <2>4, <2>5
  <2> QED BY <2>6, <2>7
<1>15. ASSUME Informed PROVE Spread(batch)
  <2> SUFFICES ASSUME NEW n \in 1 .. k,
                      Known(SectorOf[batch[n].candidate.signal.symbol]),
                      Known(Limits.perSector)
               PROVE  Cardinality({x \in Occupied \cup Planned(batch) :
                                     SectorOf[x] = SectorOf[batch[n].candidate.signal.symbol]})
                        <= Limits.perSector
    BY <1>10 DEF Spread, Planned
  <2> DEFINE sector == SectorOf[batch[n].candidate.signal.symbol]
             X == {x \in Occupied \cup Planned(batch) : SectorOf[x] = sector}
             E == run.exposures
             F == {e \in E : e.sector = sector}
             symbol == [e \in F |-> e.key[1]]
  <2>1. \A i \in DOMAIN assessed : assessed[i].disposition \in Actionable =>
          /\ \E e \in E : e.key[1] = assessed[i].signal.symbol
          /\ Within(E, assessed[i].signal.sector)
    <3>1. DOMAIN assessed = 1 .. k0
      BY <1>6, RowIs DEF RunOK
    <3> QED BY <1>6, <3>1 DEF RunOK
  <2>2. AreExposures(E) /\ first \subseteq E
    BY <1>6 DEF RunOK
  <2>3. \A m \in 1 .. k : \E e \in E : e.key[1] = batch[m].candidate.signal.symbol
    BY <1>9, <2>1
  <2>4. Within(E, sector)
    <3>1. Within(E, batch[n].candidate.signal.sector)
      BY <1>9, <2>1
    <3>2. batch[n].candidate.signal.sector = sector
      BY <1>11 DEF IsCandidate
    <3> QED BY <3>1, <3>2
  <2>5. \A x \in Occupied \cup Planned(batch) : \E e \in E : e.key[1] = x
    <3>1. \A x \in Occupied : \E e \in E : e.key[1] = x
      BY <1>4, <1>15, <2>2
    <3>2. \A x \in Planned(batch) : \E e \in E : e.key[1] = x
      BY <1>10, <2>3 DEF Planned
    <3> QED BY <3>1, <3>2
  <2>6. IsFiniteSet(F) /\ Cardinality(F) <= Limits.perSector
    <3>1. IsFiniteSet(F)
      BY <2>2, FS_Subset DEF AreExposures
    <3> QED BY <2>4, <3>1 DEF Within
  <2>7. X \subseteq {symbol[e] : e \in F}
    <3> SUFFICES ASSUME NEW x \in X PROVE \E e \in F : symbol[e] = x
      OBVIOUS
    <3>1. PICK e \in E : e.key[1] = x
      BY <2>5
    <3>2. e.sector = SectorOf[x]
      BY <2>2, <3>1 DEF AreExposures
    <3>3. e \in F
      BY <3>2
    <3> QED BY <3>1, <3>3
  <2> HIDE DEF X, F, symbol
  <2>8. IsFiniteSet(X) /\ Cardinality(X) <= Cardinality(F)
    BY <2>6, <2>7, ImageFits
  <2>9. Cardinality(X) \in Nat /\ Cardinality(F) \in Nat /\ Limits.perSector \in Nat
    BY <2>6, <2>8, FS_CardinalityType, LimitsAssumption DEF Known
  <2>10. Cardinality(X) <= Limits.perSector
    BY <2>6, <2>8, <2>9
  <2> QED BY <2>10 DEF X
<1>16. \E x \in Nat \ {0} :
               /\ batch = [n \in 1 .. x |-> batch[n]]
               /\ \A n \in 1 .. x : /\ batch[n].candidate.signal.symbol \in Symbols
                                    /\ batch[n].candidate.sizing.shares \in Nat \ {0}
               /\ Informed =>
                    /\ Committed + SumFunctionOnSet(OrderCosts(batch), 1 .. x)
                         <= Account.equity
                    /\ Cardinality(Occupied) + x <= Limits.positions
                    /\ Spread(batch)
  BY <1>9, <1>10, <1>11, <1>14, <1>15 DEF total
<1> QED
  BY <1>16 DEF batch

-----------------------------------------------------------------------------
(* The invariant                                                           *)

\* What a run is about to stage.
SheetFine ==
  /\ sheet.informed \in BOOLEAN
  /\ \E k : IsRow(sheet.batch, k)
  /\ \A i \in DOMAIN sheet.batch :
       sheet.batch[i].order \in Orders /\ sheet.batch[i].shares \in Nat \ {0}

\* The inductive invariant.
PlanInv ==
  /\ PlanTypeOK /\ BookFine(book) /\ SheetFine
  /\ SheetFits /\ SectorsSpread

\* The files are what the lemmas take them to be.
LEMMA PlanTypes ==
  ASSUME PlanTypeOK
  PROVE  FileFine(portfolio) /\ held \in [Symbols -> Nat]
BY DEF PlanTypeOK, FileFine

\* Nothing is about to be staged.
LEMMA NoSheetFits ==
  /\ NoSheet.informed = FALSE /\ NoSheet.batch = <<>>
  /\ NoSheet.informed \in BOOLEAN /\ IsRow(NoSheet.batch, 0)
  /\ DOMAIN NoSheet.batch = {}
<1>1. NoSheet.informed = FALSE /\ NoSheet.batch = <<>>
  BY DEF NoSheet
<1>2. IsRow(<<>>, 0) /\ DOMAIN <<>> = {}
  BY DEF IsRow
<1> QED
  BY <1>1, <1>2

\* At the start nothing is bought, ordered or planned.
LEMMA InitFine == ASSUME PlanInit PROVE PlanInv
<1>1. PlanTypeOK
  <2>1. NoPosition \in [shares : Nat, decision : Range(DecisionOf) \cup {NoDecision}]
    BY DEF NoPosition
  <2>2. portfolio \in [Symbols -> [shares : Nat, decision : Range(DecisionOf) \cup {NoDecision}]]
    BY <2>1 DEF PlanInit
  <2>3. day \in 1 .. MaxDay /\ edits \in 0 .. MaxEdits /\ sheets \in 0 .. MaxSheets
    BY PlanBoundsAssumption DEF PlanInit
  <2> QED BY <2>2, <2>3 DEF PlanInit, PlanTypeOK
<1>2. BookFine(book)
  <2>1. \A o \in Orders : book[o] = Absent /\ ~Active(book[o])
    BY DEF PlanInit, Absent, Active, ActiveStatuses
  <2>2. Absent \in PendingOrderRecord
    BY DEF Absent, PendingOrderRecord
  <2>3. book \in Books
    BY <2>2 DEF PlanInit, Books
  <2> QED BY <2>1, <2>3 DEF BookFine, UniqueActiveBuys, ReservesCapacity
<1>3. sheet = NoSheet
  BY DEF PlanInit
<1> QED
  BY <1>1, <1>2, <1>3, NoSheetFits DEF PlanInv, SheetFine, SheetFits, SectorsSpread

\* A plan that is made fits (_generate_orders).
LEMMA GenerateKeeps ==
  ASSUME PlanInv, NEW signals \in SignalSets, NEW market \in Markets,
         GenerateOrders(signals, market)
  PROVE  PlanInv'
<1> DEFINE batch == Plan(signals, market)
           made == [i \in DOMAIN batch |->
                      [ order  |-> <<batch[i].candidate.signal.symbol, day>>,
                        shares |-> batch[i].candidate.sizing.shares ]]
<1>1. /\ sheets < MaxSheets /\ sheets' = sheets + 1 /\ batch # <<>>
      /\ sheet' = [batch |-> made, informed |-> Informed]
      /\ UNCHANGED <<day, portfolio, edits, book, held>>
  BY DEF GenerateOrders, Plan
<1>2. FileFine(portfolio) /\ held \in [Symbols -> Nat] /\ BookFine(book)
  BY PlanTypes DEF PlanInv
<1>3. \E k \in Nat \ {0} :
               /\ batch = [n \in 1 .. k |-> batch[n]]
               /\ \A n \in 1 .. k : /\ batch[n].candidate.signal.symbol \in Symbols
                                    /\ batch[n].candidate.sizing.shares \in Nat \ {0}
               /\ Informed =>
                    /\ Committed + SumFunctionOnSet(OrderCosts(batch), 1 .. k)
                         <= Account.equity
                    /\ Cardinality(Occupied) + k <= Limits.positions
                    /\ Spread(batch)
  BY <1>1, <1>2, PlanFits
<1> HIDE DEF batch
<1>4. PICK k \in Nat \ {0} :
               /\ batch = [n \in 1 .. k |-> batch[n]]
               /\ \A n \in 1 .. k : /\ batch[n].candidate.signal.symbol \in Symbols
                                    /\ batch[n].candidate.sizing.shares \in Nat \ {0}
               /\ Informed =>
                    /\ Committed + SumFunctionOnSet(OrderCosts(batch), 1 .. k)
                         <= Account.equity
                    /\ Cardinality(Occupied) + k <= Limits.positions
                    /\ Spread(batch)
  BY <1>3
<1>5. DOMAIN batch = 1 .. k
  BY <1>4
<1>6. \A i \in 1 .. k : /\ made[i].order = <<batch[i].candidate.signal.symbol, day>>
                        /\ made[i].shares = batch[i].candidate.sizing.shares
  BY <1>5
<1>7. IsRow(made, k) /\ DOMAIN made = 1 .. k
  BY <1>5 DEF IsRow
<1>8. sheet'.batch = made /\ sheet'.informed = Informed
  BY <1>1
<1> HIDE DEF made
<1>9. day \in 1 .. MaxDay
  BY DEF PlanInv, PlanTypeOK
<1>10. \A i \in 1 .. k : /\ made[i].order \in Orders
                         /\ SymbolOf[made[i].order] = batch[i].candidate.signal.symbol
                         /\ made[i].shares \in Nat \ {0}
  <2> TAKE i \in 1 .. k
  <2> DEFINE s == batch[i].candidate.signal.symbol
  <2>1. s \in Symbols /\ batch[i].candidate.sizing.shares \in Nat \ {0}
    BY <1>4
  <2>2. made[i].order = <<s, day>> /\ made[i].shares \in Nat \ {0}
    BY <1>6, <2>1
  <2> HIDE DEF s
  <2>3. <<s, day>> \in Orders
    BY <1>9, <2>1, IdsAssumption
  <2>4. SymbolOf[<<s, day>>] = s
    BY <2>3, IdsAssumption
  <2> QED BY <2>2, <2>3, <2>4 DEF s
<1>11. PlanTypeOK' /\ BookFine(book')
  BY <1>1, PlanBoundsAssumption DEF PlanInv, PlanTypeOK
<1>12. SheetFine'
  <2>1. Informed \in BOOLEAN
    BY DEF Informed
  <2>2. sheet'.informed \in BOOLEAN
    BY <1>8, <2>1, Zenon
  <2> QED BY <1>7, <1>8, <1>10, <2>2 DEF SheetFine
<1>13. Committed' = Committed /\ Occupied' = Occupied
  BY <1>1 DEF Committed, Occupied
<1>14. SheetFits'
  <2> SUFFICES ASSUME sheet'.informed
               PROVE  /\ Committed' + SheetCost' <= Account.equity
                      /\ Cardinality(Occupied') + Len(sheet'.batch) <= Limits.positions
    BY DEF SheetFits
  <2>1. Informed
    BY <1>8
  <2>2. Len(sheet'.batch) = k
    BY <1>7, <1>8, RowIs
  <2>3. SheetCost' = SumFunctionOnSet(OrderCosts(batch), 1 .. k)
    <3> DEFINE f == [i \in DOMAIN made |-> made[i].shares * UnitPrice]
               g == OrderCosts(batch)
    <3>1. SheetCost' = SumFunction(f)
      BY <1>8 DEF SheetCost
    <3>2. SumFunction(f) = SumFunctionOnSet(f, 1 .. k)
      BY <1>7 DEF SumFunction
    <3>3. \A i \in 1 .. k : f[i] = g[i]
      BY <1>5, <1>6, <1>7 DEF OrderCosts
    <3>4. IsFiniteSet(1 .. k)
      BY FS_Interval
    <3> HIDE DEF f, g
    <3>5. SumFunctionOnSet(f, 1 .. k) = SumFunctionOnSet(g, 1 .. k)
      BY <3>3, <3>4, SameSums
    <3> QED BY <3>1, <3>2, <3>5 DEF g
  <2>4. /\ Committed + SumFunctionOnSet(OrderCosts(batch), 1 .. k) <= Account.equity
        /\ Cardinality(Occupied) + k <= Limits.positions
    BY <1>4, <2>1
  <2> QED BY <1>13, <2>2, <2>3, <2>4
<1>15. SectorsSpread'
  <2> SUFFICES ASSUME sheet'.informed, NEW s \in SheetSymbols',
                      Known(SectorOf[s]), Known(Limits.perSector)
               PROVE  Cardinality({x \in Occupied' \cup SheetSymbols' :
                                     SectorOf[x] = SectorOf[s]}) <= Limits.perSector
    BY DEF SectorsSpread
  <2>1. Spread(batch)
    BY <1>4, <1>8
  <2>2. SheetSymbols' = Planned(batch)
    <3>1. SheetSymbols' = {SymbolOf[made[i].order] : i \in 1 .. k}
      BY <1>7, <1>8 DEF SheetSymbols
    <3>2. Planned(batch) = {batch[i].candidate.signal.symbol : i \in 1 .. k}
      BY <1>5 DEF Planned
    <3> QED BY <1>10, <3>1, <3>2
  <2>3. Cardinality({x \in Occupied \cup Planned(batch) : SectorOf[x] = SectorOf[s]})
          <= Limits.perSector
    BY <2>1, <2>2 DEF Spread
  <2> QED BY <1>13, <2>2, <2>3
<1> QED
  BY <1>11, <1>12, <1>14, <1>15 DEF PlanInv

\* A good record put into a good book leaves a good book, if it gives no symbol
\* a second active order.
LEMMA BookWith ==
  ASSUME NEW b, BookFine(b), NEW o \in Orders, NEW r \in PendingOrderRecord, Valid(r),
         Active(r) => r.reserved = Remaining(r) * UnitPrice /\ r.slot,
         UniqueActiveBuys([b EXCEPT ![o] = r])
  PROVE  BookFine([b EXCEPT ![o] = r])
<1> DEFINE c == [b EXCEPT ![o] = r]
<1>1. b \in [Orders -> PendingOrderRecord]
  BY DEF BookFine, Books
<1>2. c \in Books /\ c[o] = r /\ \A p \in Orders : p # o => c[p] = b[p]
  BY <1>1 DEF Books
<1> HIDE DEF c
<1>3. \A p \in Orders : c[p] = Absent \/ Valid(c[p])
  BY <1>2 DEF BookFine
<1>4. \A p \in Orders : Active(c[p]) =>
        c[p].reserved = Remaining(c[p]) * UnitPrice /\ c[p].slot
  <2> TAKE p \in Orders
  <2>1. CASE p = o
    BY <1>2, <2>1
  <2>2. CASE p # o
    <3>1. c[p] = b[p]
      BY <1>2, <2>2
    <3> QED BY <3>1 DEF BookFine
  <2> QED BY <2>1, <2>2
<1>5. UniqueActiveBuys(c)
  BY DEF c
<1>6. BookFine(c)
  BY <1>2, <1>3, <1>4, <1>5 DEF BookFine
<1> QED
  BY <1>6 DEF c

\* An order that is not taken up again leaves its symbol to the others.
LEMMA UniqueWith ==
  ASSUME NEW b, BookFine(b), NEW o \in Orders, NEW r, Active(r) => Active(b[o])
  PROVE  UniqueActiveBuys([b EXCEPT ![o] = r])
<1> DEFINE c == [b EXCEPT ![o] = r]
<1>1. b \in [Orders -> PendingOrderRecord]
  BY DEF BookFine, Books
<1>2. c[o] = r /\ \A p \in Orders : p # o => c[p] = b[p]
  BY <1>1
<1> HIDE DEF c
<1>3. \A p \in Orders : ReservesCapacity(c, p) => ReservesCapacity(b, p)
  <2> TAKE p \in Orders
  <2>1. Active(c[p]) => Active(b[p])
    <3>1. CASE p = o
      BY <1>2, <3>1
    <3>2. CASE p # o
      <4>1. c[p] = b[p]
        BY <1>2, <3>2
      <4> QED BY <4>1
    <3> QED BY <3>1, <3>2
  <2> QED BY <2>1 DEF ReservesCapacity
<1>4. UniqueActiveBuys(c)
  BY <1>3 DEF BookFine, UniqueActiveBuys
<1> QED
  BY <1>4 DEF c

\* A staged order has set aside what it costs (upsert_pending_order_state).
LEMMA UpsertKeeps ==
  ASSUME NEW b, BookFine(b), NEW o \in Orders, NEW q \in Nat \ {0},
         CanUpsert(b, o, NewRecord(o, q))
  PROVE  BookFine(Upsert(b, o, NewRecord(o, q)))
<1> DEFINE r == NewRecord(o, q)
<1>1. o \in BuyOrders
  BY IdsAssumption
<1>2. /\ r.status = "pending" /\ r.requested = q /\ r.filled = 0
      /\ r.reserved = q * UnitPrice /\ r.slot = TRUE
  BY <1>1 DEF NewRecord
<1>3. r \in PendingOrderRecord
  <2>1. q * UnitPrice \in Nat
    BY UnitPriceAssumption
  <2> QED BY <1>1, <2>1 DEF NewRecord, PendingOrderRecord, ActiveStatuses
<1>4. Valid(r) /\ UniqueActiveBuys([b EXCEPT ![o] = r])
  BY DEF CanUpsert, Upsert
<1>5. Remaining(r) = q
  BY <1>2 DEF Remaining
<1> HIDE DEF r
<1>6. Active(r) => r.reserved = Remaining(r) * UnitPrice /\ r.slot
  BY <1>2, <1>5
<1>7. BookFine([b EXCEPT ![o] = r])
  BY <1>3, <1>4, <1>6, BookWith
<1> QED
  BY <1>7 DEF Upsert, r

\* Staging keeps the book (_stage_execution_batch_pending_orders).
LEMMA StageKeeps ==
  ASSUME PlanInv, Stage
  PROVE  PlanInv'
<1> DEFINE batch == sheet.batch
           staged == Staged(book, batch)
           CanAll == \A n \in DOMAIN batch :
                       CanUpsert(staged[n - 1], batch[n].order,
                                 NewRecord(batch[n].order, batch[n].shares))
<1>1. /\ book' = IF CanAll THEN staged[Len(batch)] ELSE book
      /\ sheet' = NoSheet /\ UNCHANGED <<day, portfolio, edits, held, sheets>>
  BY DEF Stage
<1>2. PICK k : IsRow(batch, k)
  BY DEF PlanInv, SheetFine
<1>3. Len(batch) = k /\ k \in Nat /\ DOMAIN batch = 1 .. k
  BY <1>2, RowIs
<1>4. \A n \in 1 .. k : batch[n].order \in Orders /\ batch[n].shares \in Nat \ {0}
  BY <1>3 DEF PlanInv, SheetFine
<1>5. BookFine(book)
  BY DEF PlanInv
<1>6. PICK g : /\ g[0] = book
               /\ \A n \in 1 .. k : g[n] = StageNext(g[n - 1], batch[n])
               /\ \A n \in 0 .. k : staged[n] = g[n]
  <2>1. Len(batch) \in Nat
    BY <1>3
  <2>2. \E g : /\ g[0] = book
               /\ \A n \in 1 .. Len(batch) : g[n] = StageNext(g[n - 1], batch[n])
               /\ \A n \in 0 .. Len(batch) : Staged(book, batch)[n] = g[n]
    BY <2>1, StagedRuns
  <2> QED BY <1>3, <2>2
<1> HIDE DEF staged, batch
<1>7. ASSUME CanAll PROVE BookFine(staged[k])
  <2> DEFINE Broken == {n \in 0 .. k : ~BookFine(g[n])}
  <2>1. Broken = {}
    <3> SUFFICES ASSUME Broken # {} PROVE FALSE
      OBVIOUS
    <3>1. PICK n \in Broken : \A j \in Broken : n <= j
      <4>1. Broken \in SUBSET Nat
        BY <1>3
      <4> HIDE DEF Broken
      <4> QED BY <4>1, LeastNumber
    <3>2. n # 0
      BY <1>5, <1>6
    <3>3. n \in 1 .. k /\ n - 1 \in 0 .. k /\ ~(n <= n - 1)
      BY <1>3, <3>2
    <3>4. BookFine(g[n - 1])
      <4>1. n - 1 \notin Broken
        <5> HIDE DEF Broken
        <5> QED BY <3>1, <3>3
      <4> QED BY <3>3, <4>1
    <3>5. CanUpsert(g[n - 1], batch[n].order, NewRecord(batch[n].order, batch[n].shares))
      BY <1>3, <1>6, <1>7, <3>3
    <3>6. BookFine(StageNext(g[n - 1], batch[n]))
      BY <1>4, <3>3, <3>4, <3>5, UpsertKeeps DEF StageNext
    <3> QED BY <1>6, <3>3, <3>6
  <2>2. BookFine(g[k])
    BY <1>3, <2>1
  <2> QED BY <1>3, <1>6, <2>2
<1> HIDE DEF CanAll
<1>8. BookFine(book')
  <2>1. CASE CanAll
    BY <1>1, <1>3, <1>7, <2>1
  <2>2. CASE ~CanAll
    BY <1>1, <1>5, <2>2
  <2> QED BY <2>1, <2>2
<1>9. PlanTypeOK'
  <2>1. \A o \in Orders : book'[o] = Absent \/ Valid(book'[o])
    BY <1>8 DEF BookFine
  <2> QED BY <1>1, <2>1 DEF PlanInv, PlanTypeOK
<1> QED
  BY <1>1, <1>8, <1>9, NoSheetFits
  DEF PlanInv, SheetFine, SheetFits, SectorsSpread

-----------------------------------------------------------------------------
(* The broker and the operator                                             *)

\* What the broker's shares have cost.
SpentOn(h) == SumFunctionOnSet([s \in Symbols |-> h[s] * UnitPrice], Symbols)

\* What was spent is not negative.
LEMMA SpentIs ==
  ASSUME NEW h \in [Symbols -> Nat]
  PROVE  SpentOn(h) \in Nat
<1> DEFINE f == [s \in Symbols |-> h[s] * UnitPrice]
<1>1. \A s \in Symbols : f[s] \in Nat
  BY UnitPriceAssumption
<1>2. SpentOn(h) = SumFunctionOnSet(f, Symbols)
  BY DEF SpentOn
<1> HIDE DEF f
<1>3. NotNegative(f, Symbols)
  BY <1>1 DEF NotNegative
<1> QED
  BY <1>2, <1>3, FiniteIds, SumNotNegative

\* When the shares of one symbol change, so does what was spent on it alone.
LEMMA SpentChanges ==
  ASSUME NEW h \in [Symbols -> Nat], NEW x \in Symbols, NEW v \in Nat
  PROVE  SpentOn([h EXCEPT ![x] = v]) = SpentOn(h) - h[x] * UnitPrice + v * UnitPrice
<1> DEFINE i == [h EXCEPT ![x] = v]
           f == [s \in Symbols |-> h[s] * UnitPrice]
           g == [s \in Symbols |-> i[s] * UnitPrice]
<1>1. /\ f[x] = h[x] * UnitPrice /\ g[x] = v * UnitPrice
      /\ \A s \in Symbols : f[s] \in Nat /\ g[s] \in Nat
      /\ \A s \in Symbols \ {x} : f[s] = g[s]
  BY UnitPriceAssumption
<1>2. SpentOn(h) = SumFunctionOnSet(f, Symbols) /\ SpentOn(i) = SumFunctionOnSet(g, Symbols)
  BY DEF SpentOn
<1> HIDE DEF f, g, i
<1>3. Whole(f, Symbols) /\ Whole(g, Symbols)
  BY <1>1 DEF Whole
<1>4. SumFunctionOnSet(g, Symbols) = SumFunctionOnSet(f, Symbols) - f[x] + g[x]
  BY <1>1, <1>3, FiniteIds, SumChanges
<1> QED
  BY <1>1, <1>2, <1>4 DEF i

\* An active order advances or ends: what it had set aside is given back.
LEMMA Advances ==
  ASSUME NEW b, BookFine(b), NEW o \in Reserving(b), NEW r \in PendingOrderRecord, Valid(r),
         Active(r) => r.reserved = Remaining(r) * UnitPrice /\ r.slot
  PROVE  LET c == [b EXCEPT ![o] = r]
         IN  /\ BookFine(c) /\ Reserving(c) \subseteq Reserving(b)
             /\ Reserved(c, Reserving(c))
                  = Reserved(b, Reserving(b)) - b[o].reserved
                      + IF Active(r) THEN r.reserved ELSE 0
<1> DEFINE c == [b EXCEPT ![o] = r]
           R == Reserving(b)
           S == Reserving(c)
           T == R \ {o}
           f == [p \in R |-> b[p].reserved]
           g == [p \in S |-> c[p].reserved]
<1>1. o \in Orders /\ Active(b[o]) /\ b[o].reserved \in Nat
  BY OrderIs
<1>2. BookFine(c)
  BY <1>1, UniqueWith, BookWith
<1>3. c[o] = r /\ \A p \in Orders : p # o => c[p] = b[p]
  BY <1>1 DEF BookFine, Books
<1> HIDE DEF c
<1>4. \A p \in Orders : /\ p \in R <=> Active(b[p])
                        /\ p \in S <=> Active(c[p])
  BY IdsAssumption DEF Reserving
<1>5. R \in SUBSET Orders /\ S \in SUBSET Orders /\ o \in R
  BY IdsAssumption DEF Reserving
<1>6. IsFiniteSet(R) /\ IsFiniteSet(S) /\ IsFiniteSet(T)
  BY <1>2, ReservedIs, FS_RemoveElement
<1>7. Reserved(b, R) = SumFunctionOnSet(f, R) /\ Reserved(c, S) = SumFunctionOnSet(g, S)
  BY DEF Reserved, SumFunction
<1>8. /\ \A p \in R : f[p] = b[p].reserved /\ b[p].reserved \in Nat
      /\ \A p \in S : g[p] = c[p].reserved /\ c[p].reserved \in Nat
  BY <1>2, OrderIs
<1>9. S = IF Active(r) THEN R ELSE T
  <2>1. \A p \in Orders : p # o => (p \in S <=> p \in R)
    <3> TAKE p \in Orders
    <3> HAVE p # o
    <3>1. c[p] = b[p]
      BY <1>3
    <3> HIDE DEF R, S
    <3> QED BY <1>4, <3>1
  <2>2. o \in S <=> Active(r)
    BY <1>1, <1>3, <1>4
  <2> HIDE DEF R, S
  <2> QED BY <1>5, <2>1, <2>2
<1> HIDE DEF f, g, R, S
<1>10. \A p \in T : p \in R /\ p \in S /\ f[p] = g[p]
  <2> TAKE p \in T
  <2>1. p \in R /\ p \in S /\ p # o /\ p \in Orders
    BY <1>5, <1>9
  <2>2. c[p] = b[p]
    BY <1>3, <2>1
  <2> QED BY <1>8, <2>1, <2>2
<1>11. SumFunctionOnSet(f, T) = SumFunctionOnSet(g, T)
  BY <1>6, <1>10, SameSums
<1>12. Whole(f, R) /\ Whole(g, S) /\ Whole(f, T)
  BY <1>8, <1>10 DEF Whole
<1>13. SumFunctionOnSet(f, R) = f[o] + SumFunctionOnSet(f, T)
       /\ SumFunctionOnSet(f, T) \in Int /\ f[o] = b[o].reserved
  BY <1>5, <1>6, <1>8, <1>12, SumSplits, SumWhole
<1>14. CASE Active(r)
  <2>1. S = R /\ o \in S
    BY <1>5, <1>9, <1>14
  <2>2. SumFunctionOnSet(g, S) = g[o] + SumFunctionOnSet(g, S \ {o})
    BY <1>6, <1>12, <2>1, SumSplits
  <2>3. S \ {o} = T
    BY <2>1
  <2> HIDE DEF T
  <2>4. SumFunctionOnSet(g, S) = g[o] + SumFunctionOnSet(g, T)
    BY <2>2, <2>3, Zenon
  <2>5. g[o] = r.reserved /\ g[o] \in Nat
    BY <1>3, <1>8, <2>1
  <2>6. Reserved(c, S) = Reserved(b, R) - b[o].reserved + r.reserved
    BY <1>1, <1>7, <1>11, <1>13, <2>4, <2>5
  <2> QED BY <1>2, <1>5, <1>9, <1>14, <2>1, <2>6 DEF c, R, S
<1>15. CASE ~Active(r)
  <2>1. S = T
    BY <1>9, <1>15
  <2> HIDE DEF T
  <2>2. SumFunctionOnSet(g, S) = SumFunctionOnSet(f, T)
    BY <1>11, <2>1, Zenon
  <2>3. Reserved(c, S) = Reserved(b, R) - b[o].reserved + 0
    BY <1>1, <1>7, <1>13, <2>2
  <2>4. S \subseteq R
    BY <2>1 DEF T
  <2> QED BY <1>2, <1>15, <2>3, <2>4 DEF c, R, S
<1> QED
  BY <1>14, <1>15

\* What is committed is what was spent and what is reserved.
LEMMA CommittedIs ==
  ASSUME BookFine(book), held \in [Symbols -> Nat]
  PROVE  /\ Committed = SpentOn(held) + Reserved(book, Reserving(book))
         /\ Committed \in Nat /\ IsFiniteSet(Occupied)
<1>1. Committed = SpentOn(held) + Reserved(book, Reserving(book))
  BY DEF Committed, SpentOn, SumFunction
<1>2. SpentOn(held) \in Nat /\ Reserved(book, Reserving(book)) \in Nat
  BY SpentIs, ReservedIs
<1>3. Occupied \in SUBSET Symbols
  BY OrderIs DEF Occupied
<1>4. IsFiniteSet(Occupied)
  BY <1>3, FiniteIds, FS_Subset
<1> QED
  BY <1>1, <1>2, <1>4

\* What fits goes on fitting where nothing is bought or ordered.
LEMMA SheetStays ==
  ASSUME PlanInv, sheet' = sheet, Committed' \in Int, Committed' <= Committed,
         Occupied' \subseteq Occupied
  PROVE  SheetFine' /\ SheetFits' /\ SectorsSpread'
<1>1. Committed \in Nat /\ IsFiniteSet(Occupied)
  BY PlanTypes, CommittedIs DEF PlanInv
<1>2. /\ SheetFine' /\ SheetCost' = SheetCost /\ SheetSymbols' = SheetSymbols
      /\ sheet'.informed = sheet.informed /\ Len(sheet'.batch) = Len(sheet.batch)
  BY DEF PlanInv, SheetFine, SheetCost, SheetSymbols
<1>3. PICK k : IsRow(sheet.batch, k)
  BY DEF PlanInv, SheetFine
<1>4. Len(sheet.batch) = k /\ k \in Nat /\ DOMAIN sheet.batch = 1 .. k
      /\ IsFiniteSet(DOMAIN sheet.batch)
  BY <1>3, RowIs
<1>5. SheetCost \in Int
  <2> DEFINE S == DOMAIN sheet.batch
             f == [i \in S |-> sheet.batch[i].shares * UnitPrice]
  <2>1. SheetCost = SumFunctionOnSet(f, S)
    BY DEF SheetCost, SumFunction
  <2>2. \A i \in S : f[i] \in Int
    BY UnitPriceAssumption DEF PlanInv, SheetFine
  <2>3. IsFiniteSet(S)
    BY <1>4
  <2> HIDE DEF f, S
  <2>4. Whole(f, S)
    BY <2>2 DEF Whole
  <2> QED BY <2>1, <2>3, <2>4, SumWhole
<1>6. IsFiniteSet(SheetSymbols)
  <2> DEFINE order == [i \in DOMAIN sheet.batch |-> SymbolOf[sheet.batch[i].order]]
             S == DOMAIN sheet.batch
  <2>1. SheetSymbols \subseteq {order[i] : i \in S}
    BY DEF SheetSymbols
  <2>2. IsFiniteSet(S)
    BY <1>4
  <2> HIDE DEF order, S
  <2> QED BY <2>1, <2>2, ImageFits
<1>7. Cardinality(Occupied') \in Nat /\ Cardinality(Occupied) \in Nat
      /\ Cardinality(Occupied') <= Cardinality(Occupied)
  <2>1. Occupied' \in SUBSET Occupied
    OBVIOUS
  <2>2. IsFiniteSet(Occupied') /\ Cardinality(Occupied') <= Cardinality(Occupied)
    BY <1>1, <2>1, FS_Subset
  <2> QED BY <1>1, <2>2, FS_CardinalityType
<1>8. SheetFits'
  <2> SUFFICES ASSUME sheet'.informed
               PROVE  /\ Committed' + SheetCost' <= Account.equity
                      /\ Cardinality(Occupied') + Len(sheet'.batch) <= Limits.positions
    BY DEF SheetFits
  <2>1. /\ Committed + SheetCost <= Account.equity
        /\ Cardinality(Occupied) + Len(sheet.batch) <= Limits.positions
    BY <1>2 DEF PlanInv, SheetFits
  <2>2. Account.equity \in Nat /\ Limits.positions \in Nat
    BY LimitsAssumption
  <2> QED BY <1>1, <1>2, <1>4, <1>5, <1>7, <2>1, <2>2
<1>9. SectorsSpread'
  <2> SUFFICES ASSUME sheet'.informed, NEW s \in SheetSymbols',
                      Known(SectorOf[s]), Known(Limits.perSector)
               PROVE  Cardinality({x \in Occupied' \cup SheetSymbols' :
                                     SectorOf[x] = SectorOf[s]}) <= Limits.perSector
    BY DEF SectorsSpread
  <2> DEFINE X == {x \in Occupied \cup SheetSymbols : SectorOf[x] = SectorOf[s]}
             Y == {x \in Occupied' \cup SheetSymbols' : SectorOf[x] = SectorOf[s]}
  <2>1. Cardinality(X) <= Limits.perSector
    BY <1>2 DEF PlanInv, SectorsSpread
  <2>2. Y \in SUBSET X
    BY <1>2
  <2>3. IsFiniteSet(X)
    <3>1. IsFiniteSet(Occupied \cup SheetSymbols)
      BY <1>1, <1>6, FS_Union
    <3> QED BY <3>1, FS_Subset
  <2> HIDE DEF X, Y
  <2>4. IsFiniteSet(Y) /\ Cardinality(Y) <= Cardinality(X)
    BY <2>2, <2>3, FS_Subset
  <2>5. Cardinality(X) \in Nat /\ Cardinality(Y) \in Nat /\ Limits.perSector \in Nat
    BY <2>3, <2>4, FS_CardinalityType, LimitsAssumption DEF Known
  <2>6. Cardinality(Y) <= Limits.perSector
    BY <2>1, <2>4, <2>5
  <2> QED BY <2>6 DEF Y
<1> QED
  BY <1>2, <1>8, <1>9

\* What ending an order leaves of it, whatever of its quantity counts as filled.
LEMMA Ended ==
  ASSUME NEW r \in PendingOrderRecord, NEW st \in FinalStatuses
  PROVE  LET e == Released(r, st)
         IN  /\ e \in PendingOrderRecord /\ e.status = st /\ e.filled = r.filled
             /\ e.requested = r.requested /\ e.reserved = 0 /\ e.slot = FALSE
BY DEF Released, PendingOrderRecord

\* A filled order counts as filled to its requested quantity.
LEMMA EndedFull ==
  ASSUME NEW r \in PendingOrderRecord
  PROVE  LET e == [Released(r, "filled") EXCEPT !.filled = r.requested]
         IN  /\ e \in PendingOrderRecord /\ e.status = "filled" /\ e.filled = r.requested
             /\ e.requested = r.requested /\ e.reserved = 0 /\ e.slot = FALSE
<1> DEFINE x == Released(r, "filled")
<1>1. /\ x \in PendingOrderRecord /\ x.status = "filled" /\ x.requested = r.requested
      /\ x.reserved = 0 /\ x.slot = FALSE
  BY Ended DEF FinalStatuses
<1>2. r.requested \in Nat
  BY DEF PendingOrderRecord
<1> HIDE DEF x
<1>3. LET e == [x EXCEPT !.filled = r.requested]
      IN  /\ e \in PendingOrderRecord /\ e.status = "filled" /\ e.filled = r.requested
          /\ e.requested = r.requested /\ e.reserved = 0 /\ e.slot = FALSE
  BY <1>1, <1>2 DEF PendingOrderRecord
<1> QED BY <1>3 DEF x

\* What a partial fill leaves of an order.
Progress(r, f, v, e) ==
  e = [r EXCEPT !.status = "partially_filled", !.filled = f, !.reserved = v, !.slot = TRUE]

\* A partial fill leaves a record again, with a slot and with what is left.
LEMMA Progressed ==
  ASSUME NEW r \in PendingOrderRecord, NEW f \in Nat, NEW v \in Nat,
         NEW e, Progress(r, f, v, e)
  PROVE  /\ e \in PendingOrderRecord /\ e.status = "partially_filled" /\ e.filled = f
         /\ e.requested = r.requested /\ e.reserved = v /\ e.slot = TRUE
BY DEF Progress, PendingOrderRecord, ActiveStatuses

\* A fill moves what was set aside into shares.
LEMMA FillKeeps ==
  ASSUME PlanInv, NEW o \in Orders, NEW q \in {1, book[o].requested}, Fill(o, q)
  PROVE  PlanInv'
<1> DEFINE b == book[o]
           r == IF q = b.requested THEN Finalized(b, "filled") ELSE WithFillProgress(o, b, q)
           s == SymbolOf[o]
           v == held[s] + q - b.filled
           U == UnitPrice
<1>1. /\ Active(b) /\ q > b.filled /\ q <= b.requested
      /\ book' = [book EXCEPT ![o] = r] /\ held' = [held EXCEPT ![s] = v]
      /\ UNCHANGED <<day, portfolio, edits, sheet, sheets>>
  BY DEF Fill
<1>2. BookFine(book) /\ held \in [Symbols -> Nat] /\ o \in Reserving(book)
  BY <1>1, PlanTypes, IdsAssumption DEF PlanInv, Reserving
<1>3. /\ s \in Symbols /\ b \in PendingOrderRecord /\ b.slot /\ Valid(b)
      /\ b.requested \in Nat /\ b.filled \in Nat /\ b.filled < b.requested
      /\ b.reserved = (b.requested - b.filled) * U /\ ReservationPrice(b) = U
  BY <1>2, OrderIs
<1>4. q \in Nat \ {0} /\ v \in Nat /\ held[s] \in Nat
  BY <1>1, <1>2, <1>3
<1>5. U \in Nat \ {0}
  BY UnitPriceAssumption
<1>6. /\ r \in PendingOrderRecord /\ Valid(r)
      /\ Active(r) => r.reserved = Remaining(r) * U /\ r.slot
      /\ (IF Active(r) THEN r.reserved ELSE 0) = (b.requested - q) * U
  <2>1. CASE q = b.requested
    <3>1. b.status # "filled"
      BY <1>1 DEF Active, ActiveStatuses
    <3>2. r = [Released(b, "filled") EXCEPT !.filled = b.requested]
      BY <2>1, <3>1 DEF Finalized
    <3>3. /\ r \in PendingOrderRecord /\ r.status = "filled" /\ r.filled = b.requested
          /\ r.requested = b.requested /\ r.reserved = 0 /\ r.slot = FALSE
      <4> HIDE DEF r, b
      <4> QED BY <1>3, <3>2, EndedFull
    <3> HIDE DEF r, b
    <3>4. ~Active(r)
      BY <3>3 DEF Active, ActiveStatuses
    <3>5. Valid(r)
      BY <1>3, <3>3 DEF Valid, ActiveStatuses
    <3>6. (b.requested - q) * U = 0
      BY <1>3, <1>5, <2>1
    <3> QED BY <3>3, <3>4, <3>5, <3>6
  <2>2. CASE q # b.requested
    <3>1. r = [b EXCEPT !.status = "partially_filled", !.filled = q,
                        !.reserved = (b.requested - q) * U, !.slot = TRUE]
      BY <1>3, <2>2, IdsAssumption DEF WithFillProgress
    <3>2. (b.requested - q) * U \in Nat /\ b.requested - q \in Nat \ {0}
      <4>1. b.requested - q \in Nat \ {0}
        BY <1>1, <1>3, <1>4, <2>2
      <4> QED BY <1>5, <4>1
    <3>3. /\ r \in PendingOrderRecord /\ r.status = "partially_filled" /\ r.filled = q
          /\ r.requested = b.requested /\ r.reserved = (b.requested - q) * U /\ r.slot = TRUE
      <4> DEFINE left == (b.requested - q) * U
      <4>1. left \in Nat /\ q \in Nat
        BY <1>4, <3>2
      <4>2. Progress(b, q, left, r)
        BY <3>1 DEF Progress
      <4> HIDE DEF r, b, left
      <4>3. /\ r \in PendingOrderRecord /\ r.status = "partially_filled" /\ r.filled = q
            /\ r.requested = b.requested /\ r.reserved = left /\ r.slot = TRUE
        BY <1>3, <4>1, <4>2, Progressed
      <4> QED BY <4>3 DEF left
    <3> HIDE DEF r, b
    <3>4. Remaining(r) = b.requested - q
      BY <1>1, <1>3, <1>4, <3>2, <3>3 DEF Remaining
    <3>5. Active(r) /\ Valid(r)
      BY <1>1, <1>3, <1>4, <3>2, <3>3, <3>4 DEF Active, Valid, ActiveStatuses, FinalStatuses
    <3> QED BY <3>3, <3>4, <3>5
  <2> QED BY <2>1, <2>2
<1> HIDE DEF r
<1>7. /\ BookFine(book') /\ Reserving(book') \subseteq Reserving(book)
      /\ Reserved(book', Reserving(book'))
           = Reserved(book, Reserving(book)) - b.reserved + (b.requested - q) * U
  <2>1. Active(r) => r.reserved = Remaining(r) * UnitPrice /\ r.slot
    BY <1>6
  <2>2. /\ BookFine([book EXCEPT ![o] = r])
        /\ Reserving([book EXCEPT ![o] = r]) \subseteq Reserving(book)
        /\ Reserved([book EXCEPT ![o] = r], Reserving([book EXCEPT ![o] = r]))
             = Reserved(book, Reserving(book)) - book[o].reserved
                 + IF Active(r) THEN r.reserved ELSE 0
    BY <1>2, <1>6, <2>1, Advances
  <2>3. (IF Active(r) THEN r.reserved ELSE 0) = (b.requested - q) * U
    BY <1>6
  <2> HIDE DEF U
  <2> QED BY <1>1, <2>2, <2>3
<1>8. held' \in [Symbols -> Nat] /\ SpentOn(held') = SpentOn(held) - held[s] * U + v * U
  <2>1. [held EXCEPT ![s] = v] \in [Symbols -> Nat]
    BY <1>2, <1>4
  <2>2. SpentOn([held EXCEPT ![s] = v]) = SpentOn(held) - held[s] * U + v * U
    BY <1>2, <1>3, <1>4, SpentChanges
  <2> HIDE DEF v, s, U
  <2> QED BY <1>1, <2>1, <2>2, Zenon
<1>9. Committed' \in Int /\ Committed' <= Committed
  <2>1. /\ Committed = SpentOn(held) + Reserved(book, Reserving(book))
        /\ SpentOn(held) \in Nat /\ Reserved(book, Reserving(book)) \in Nat
    BY <1>2, CommittedIs, SpentIs, ReservedIs
  <2>2. Committed' = SpentOn(held') + Reserved(book', Reserving(book'))
    BY DEF Committed, SpentOn, SumFunction
  <2> DEFINE A == SpentOn(held)
             B == Reserved(book, Reserving(book))
             h == held[s]
             f == b.filled
             n == b.requested
  <2>3. /\ Committed = A + B /\ A \in Nat /\ B \in Nat
        /\ Committed' = (A - h * U + v * U) + (B - b.reserved + (n - q) * U)
    BY <1>7, <1>8, <2>1, <2>2
  <2>4. /\ h \in Nat /\ f \in Nat /\ n \in Nat /\ q \in Nat /\ U \in Nat
        /\ v = h + q - f /\ b.reserved = (n - f) * U
    BY <1>3, <1>4, <1>5
  <2> HIDE DEF A, B, h, f, n, U, v, b
  <2> DEFINE hU == h * U
             qU == q * U
             fU == f * U
             nU == n * U
  <2>5. v * U = hU + qU - fU
    BY <2>4
  <2>6. (n - f) * U = nU - fU /\ (n - q) * U = nU - qU
    BY <2>4
  <2>7. hU \in Int /\ qU \in Int /\ fU \in Int /\ nU \in Int
    BY <2>4
  <2>8. b.reserved = nU - fU
    BY <2>4, <2>6
  <2>9. Committed' = (A - hU + (hU + qU - fU)) + (B - (nU - fU) + (nU - qU))
    BY <2>3, <2>5, <2>6, <2>8
  <2> HIDE DEF hU, qU, fU, nU
  <2> QED BY <2>3, <2>7, <2>9
<1>10. Occupied' \subseteq Occupied
  <2>1. s \in Occupied
    BY <1>2 DEF Occupied
  <2>2. \A x \in Symbols : held'[x] > 0 => x \in Occupied
    <3> TAKE x \in Symbols
    <3>1. CASE x = s
      BY <2>1, <3>1
    <3>2. CASE x # s
      <4>1. held'[x] = held[x]
        BY <1>1, <1>2, <3>2
      <4> QED BY <4>1 DEF Occupied
    <3> QED BY <3>1, <3>2
  <2>3. Occupied' = {x \in Symbols : held'[x] > 0} \cup {SymbolOf[p] : p \in Reserving(book')}
    BY DEF Occupied
  <2>4. {SymbolOf[p] : p \in Reserving(book')} \subseteq Occupied
    BY <1>7 DEF Occupied
  <2> QED BY <2>2, <2>3, <2>4
<1>11. SheetFine' /\ SheetFits' /\ SectorsSpread'
  BY <1>1, <1>9, <1>10, SheetStays
<1>12. PlanTypeOK'
  <2>1. \A p \in Orders : book'[p] = Absent \/ Valid(book'[p])
    BY <1>7 DEF BookFine
  <2> QED BY <1>1, <1>8, <2>1 DEF PlanInv, PlanTypeOK
<1> QED
  BY <1>7, <1>11, <1>12 DEF PlanInv

\* An order that ends gives back what it had set aside.
LEMMA EndKeeps ==
  ASSUME PlanInv, NEW o \in Orders, OrderEnds(o)
  PROVE  PlanInv'
<1> DEFINE b == book[o]
           r == Finalized(b, "cancelled")
<1>1. /\ Active(b) /\ book' = [book EXCEPT ![o] = r]
      /\ UNCHANGED <<day, portfolio, edits, held, sheet, sheets>>
  BY DEF OrderEnds
<1>2. BookFine(book) /\ held \in [Symbols -> Nat] /\ o \in Reserving(book)
  BY <1>1, PlanTypes, IdsAssumption DEF PlanInv, Reserving
<1>3. /\ b \in PendingOrderRecord /\ Valid(b) /\ b.reserved \in Nat
  BY <1>2, OrderIs
<1>4. r \in PendingOrderRecord /\ Valid(r) /\ ~Active(r)
  <2>1. b.status # "cancelled"
    BY <1>1 DEF Active, ActiveStatuses
  <2>2. r = Released(b, "cancelled")
    BY <2>1 DEF Finalized
  <2>3. /\ r \in PendingOrderRecord /\ r.status = "cancelled" /\ r.filled = b.filled
        /\ r.requested = b.requested /\ r.reserved = 0 /\ r.slot = FALSE
    <3> HIDE DEF r, b
    <3> QED BY <1>3, <2>2, Ended DEF FinalStatuses
  <2> HIDE DEF r
  <2> QED BY <1>3, <2>3 DEF Valid, Active, ActiveStatuses
<1> HIDE DEF r
<1>5. /\ BookFine(book') /\ Reserving(book') \subseteq Reserving(book)
      /\ Reserved(book', Reserving(book'))
           = Reserved(book, Reserving(book)) - b.reserved + 0
  BY <1>1, <1>2, <1>4, Advances
<1>6. Committed' \in Int /\ Committed' <= Committed
  <2>1. /\ Committed = SpentOn(held) + Reserved(book, Reserving(book))
        /\ SpentOn(held) \in Nat /\ Reserved(book, Reserving(book)) \in Nat
    BY <1>2, CommittedIs, SpentIs, ReservedIs
  <2>2. Committed' = SpentOn(held) + Reserved(book', Reserving(book'))
    BY <1>1 DEF Committed, SpentOn, SumFunction
  <2> QED BY <1>3, <1>5, <2>1, <2>2
<1>7. Occupied' \subseteq Occupied
  BY <1>1, <1>5 DEF Occupied
<1>8. SheetFine' /\ SheetFits' /\ SectorsSpread'
  BY <1>1, <1>6, <1>7, SheetStays
<1>9. PlanTypeOK'
  <2>1. \A p \in Orders : book'[p] = Absent \/ Valid(book'[p])
    BY <1>5 DEF BookFine
  <2> QED BY <1>1, <2>1 DEF PlanInv, PlanTypeOK
<1> QED
  BY <1>5, <1>8, <1>9 DEF PlanInv

\* The portfolio file changes what a run sees, and nothing that is committed.
LEMMA PositionKeeps ==
  ASSUME PlanInv, NEW s \in Symbols,
         NEW d \in {DecisionOf[o] : o \in {x \in Orders : SymbolOf[x] = s /\ book[x] # Absent}}
                     \cup {NoDecision},
         UpsertPosition(s, d)
  PROVE  PlanInv'
<1>1. /\ edits < MaxEdits /\ edits' = edits + 1
      /\ portfolio' = [portfolio EXCEPT ![s] =
           [ shares   |-> held[s],
             decision |-> IF d # NoDecision THEN d ELSE portfolio[s].decision ]]
      /\ UNCHANGED <<day, book, held, sheet, sheets>>
  BY DEF UpsertPosition
<1>2. FileFine(portfolio) /\ held \in [Symbols -> Nat] /\ BookFine(book)
  BY PlanTypes DEF PlanInv
<1>3. d \in Range(DecisionOf) \cup {NoDecision}
  BY IdsAssumption DEF Range
<1>4. FileFine(portfolio')
  <2> DEFINE D == Range(DecisionOf) \cup {NoDecision}
             e == IF d # NoDecision THEN d ELSE portfolio[s].decision
  <2>1. portfolio[s].decision \in D /\ held[s] \in Nat
    BY <1>2 DEF FileFine
  <2>2. e \in D
    BY <1>3, <2>1
  <2> HIDE DEF D, e
  <2>3. [shares |-> held[s], decision |-> e] \in [shares : Nat, decision : D]
    BY <2>1, <2>2
  <2>4. portfolio \in [Symbols -> [shares : Nat, decision : D]]
    BY <1>2 DEF FileFine, D
  <2>5. [portfolio EXCEPT ![s] = [shares |-> held[s], decision |-> e]]
          \in [Symbols -> [shares : Nat, decision : D]]
    BY <2>3, <2>4
  <2> QED BY <1>1, <2>5 DEF FileFine, D, e
<1>5. PlanTypeOK'
  BY <1>1, <1>4, PlanBoundsAssumption DEF PlanInv, PlanTypeOK, FileFine
<1>6. Committed' \in Int /\ Committed' <= Committed /\ Occupied' \subseteq Occupied
  <2>1. Committed' = Committed /\ Occupied' = Occupied
    BY <1>1 DEF Committed, Occupied
  <2>2. Committed \in Nat
    BY <1>2, CommittedIs
  <2> QED BY <2>1, <2>2
<1>7. SheetFine' /\ SheetFits' /\ SectorsSpread'
  BY <1>1, <1>6, SheetStays
<1> QED
  BY <1>1, <1>2, <1>5, <1>7 DEF PlanInv

\* Selling takes from what is committed.
LEMMA SellKeeps ==
  ASSUME PlanInv, NEW s \in Symbols, SellPosition(s)
  PROVE  PlanInv'
<1>1. /\ edits < MaxEdits /\ edits' = edits + 1
      /\ held' = [held EXCEPT ![s] = 0]
      /\ portfolio' = [portfolio EXCEPT ![s] = NoPosition]
      /\ UNCHANGED <<day, book, sheet, sheets>>
  BY DEF SellPosition
<1>2. FileFine(portfolio) /\ held \in [Symbols -> Nat] /\ BookFine(book)
  BY PlanTypes DEF PlanInv
<1>3. held' \in [Symbols -> Nat] /\ \A x \in Symbols : held'[x] > 0 => held[x] > 0
  BY <1>1, <1>2
<1>4. FileFine(portfolio')
  <2>1. NoPosition \in [shares : Nat, decision : Range(DecisionOf) \cup {NoDecision}]
    BY DEF NoPosition
  <2> QED BY <1>1, <1>2, <2>1 DEF FileFine
<1>5. PlanTypeOK'
  BY <1>1, <1>3, <1>4, PlanBoundsAssumption DEF PlanInv, PlanTypeOK, FileFine
<1>6. Committed' \in Int /\ Committed' <= Committed
  <2>1. /\ Committed = SpentOn(held) + Reserved(book, Reserving(book))
        /\ SpentOn(held) \in Nat /\ Reserved(book, Reserving(book)) \in Nat
    BY <1>2, CommittedIs, SpentIs, ReservedIs
  <2>2. Committed' = SpentOn(held') + Reserved(book, Reserving(book))
    BY <1>1 DEF Committed, SpentOn, SumFunction
  <2>3. SpentOn(held') = SpentOn(held) - held[s] * UnitPrice + 0 * UnitPrice
    BY <1>1, <1>2, SpentChanges
  <2>4. held[s] * UnitPrice \in Nat /\ 0 * UnitPrice = 0 /\ SpentOn(held') \in Nat
    BY <1>2, <1>3, SpentIs, UnitPriceAssumption
  <2> QED BY <2>1, <2>2, <2>3, <2>4
<1>7. Occupied' \subseteq Occupied
  BY <1>1, <1>3 DEF Occupied
<1>8. SheetFine' /\ SheetFits' /\ SectorsSpread'
  BY <1>1, <1>6, <1>7, SheetStays
<1> QED
  BY <1>1, <1>2, <1>5, <1>8 DEF PlanInv

\* A new day changes no file.
LEMMA DayKeeps ==
  ASSUME PlanInv, NextDay
  PROVE  PlanInv'
<1>1. /\ day < MaxDay /\ day' = day + 1
      /\ UNCHANGED <<portfolio, edits, book, held, sheet, sheets>>
  BY DEF NextDay
<1>2. PlanTypeOK'
  BY <1>1, PlanBoundsAssumption DEF PlanInv, PlanTypeOK
<1>3. Committed' = Committed /\ Occupied' = Occupied /\ Committed \in Nat
  BY <1>1, PlanTypes, CommittedIs DEF PlanInv, Committed, Occupied
<1>4. SheetFine' /\ SheetFits' /\ SectorsSpread'
  BY <1>1, <1>3, SheetStays
<1> QED
  BY <1>1, <1>2, <1>4 DEF PlanInv

\* Every step keeps the invariant.
LEMMA StepKeeps ==
  ASSUME PlanInv, [PlanNext]_planVars
  PROVE  PlanInv'
<1>1. ASSUME NEW signals \in SignalSets, NEW market \in Markets,
             GenerateOrders(signals, market)
      PROVE  PlanInv'
  BY <1>1, GenerateKeeps
<1>2. CASE Stage
  BY <1>2, StageKeeps
<1>3. ASSUME NEW o \in Orders, NEW q \in {1, book[o].requested}, Fill(o, q)
      PROVE  PlanInv'
  BY <1>3, FillKeeps
<1>4. ASSUME NEW o \in Orders, OrderEnds(o) PROVE PlanInv'
  BY <1>4, EndKeeps
<1>5. ASSUME NEW s \in Symbols,
             NEW d \in {DecisionOf[o] : o \in {x \in Orders : SymbolOf[x] = s
                                                              /\ book[x] # Absent}}
                         \cup {NoDecision},
             UpsertPosition(s, d)
      PROVE  PlanInv'
  BY <1>5, PositionKeeps
<1>6. ASSUME NEW s \in Symbols, SellPosition(s) PROVE PlanInv'
  BY <1>6, SellKeeps
<1>7. CASE NextDay
  BY <1>7, DayKeeps
<1>8. CASE UNCHANGED planVars
  <2>1. UNCHANGED <<day, portfolio, edits, book, held, sheet, sheets>>
    BY <1>8 DEF planVars
  <2>2. PlanTypeOK' /\ BookFine(book')
    BY <2>1 DEF PlanInv, PlanTypeOK
  <2>3. Committed' = Committed /\ Occupied' = Occupied /\ Committed \in Nat
    BY <2>1, PlanTypes, CommittedIs DEF PlanInv, Committed, Occupied
  <2>4. SheetFine' /\ SheetFits' /\ SectorsSpread'
    BY <2>1, <2>3, SheetStays
  <2> QED BY <2>2, <2>4 DEF PlanInv
<1> QED
  BY <1>1, <1>2, <1>3, <1>4, <1>5, <1>6, <1>7, <1>8 DEF PlanNext

-----------------------------------------------------------------------------
(* The theorems                                                            *)

\* The invariant of generate-orders and of what happens between its runs.
THEOREM PlanInvariant == PlanSpec => []PlanInv
<1>1. PlanInit => PlanInv
  BY InitFine
<1>2. PlanInv /\ [PlanNext]_planVars => PlanInv'
  BY StepKeeps
<1> QED
  BY <1>1, <1>2, PTL DEF PlanSpec

\* Types: the portfolio file, the book and the broker's holdings stay what the
\* code reads and writes.
THEOREM PlanTyped == PlanSpec => []PlanTypeOK
<1>1. PlanInv => PlanTypeOK
  BY DEF PlanInv
<1> QED
  BY <1>1, PlanInvariant, PTL

\* Capital and slots: what a run orders fits beside all that is bought and
\* ordered until it is staged, for any equity, limits, price, signals and
\* number of symbols (annotate_execution_priority over
\* build_order_reservation_state).
THEOREM SheetAlwaysFits == PlanSpec => []SheetFits
<1>1. PlanInv => SheetFits
  BY DEF PlanInv
<1> QED
  BY <1>1, PlanInvariant, PTL

\* Sector limits: no run brings more symbols of a sector into the portfolio than
\* are allowed (_roll_forward_portfolio_holding_exposures).
THEOREM SectorsAlwaysSpread == PlanSpec => []SectorsSpread
<1>1. PlanInv => SectorsSpread
  BY DEF PlanInv
<1> QED
  BY <1>1, PlanInvariant, PTL
=============================================================================
