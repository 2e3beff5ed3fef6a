---------------------------- MODULE SumTheorems ----------------------------
(***************************************************************************)
(* What the sum of a function over a finite set computes.                   *)
(*                                                                          *)
(* The models add up quantities with SumFunctionOnSet of module Functions,  *)
(* the model of the code's sum(...) loops.  Its definition is a recursive   *)
(* function on the subsets of the set, so every fact here is an induction   *)
(* over finite sets.  The induction theorems of the library take the        *)
(* induction hypothesis as an operator, which no backend can instantiate;   *)
(* here it is a set (of sets), whose smallest counterexample exists because *)
(* the strict subset relation is well founded (SubsetMin).                  *)
(***************************************************************************)
EXTENDS Functions, Integers, FiniteSets, FiniteSetTheorems, WellFoundedInduction, TLAPS

-----------------------------------------------------------------------------
(* Induction with a set for the induction hypothesis                        *)

\* A family of subsets of a finite set has a member that contains no other member.
LEMMA SubsetMin ==
    ASSUME NEW S, IsFiniteSet(S), NEW F, F \subseteq SUBSET S, F # {}
    PROVE  \E T \in F : \A U \in F : U \subseteq T => U = T
  <1> DEFINE R == StrictSubsetOrdering(S)
             D == FiniteSubsetsOf(S)
  <1>1. IsWellFoundedOn(R, D)  BY FS_StrictSubsetOrderingWellFounded
  <1>2. F \subseteq D  BY FS_FiniteSubsetsOfFinite
  <1>3. PICK T \in F : \A U \in F : ~ (<<U, T>> \in R)
    <2> HIDE DEF R, D
    <2> QED BY <1>1, <1>2, WFMin
  <1>4. \A U \in F : U \subseteq T => U = T
    BY <1>3 DEF StrictSubsetOrdering
  <1> QED BY <1>3, <1>4

\* A set of natural numbers has a least element.
LEMMA LeastNat ==
    ASSUME NEW N \in SUBSET Nat, N # {}
    PROVE  \E n \in N : \A m \in N : n <= m
  <1>1. PICK k \in N : TRUE  OBVIOUS
  <1> DEFINE F == {0 .. n : n \in {m \in N : m <= k}}
  <1>2. IsFiniteSet(0 .. k)  BY FS_Interval
  <1>3. F \subseteq SUBSET (0 .. k) /\ F # {}  BY <1>1
  <1>4. PICK T \in F : \A U \in F : U \subseteq T => U = T
    <2> DEFINE K == 0 .. k
    <2>1. IsFiniteSet(K) /\ F \subseteq SUBSET K /\ F # {}  BY <1>2, <1>3
    <2> HIDE DEF F, K
    <2> QED BY <2>1, SubsetMin
  <1>5. PICK n \in N : n <= k /\ T = 0 .. n  BY <1>4
  <1>6. \A m \in N : n <= m
    <2> SUFFICES ASSUME NEW m \in N, m < n PROVE FALSE  BY <1>5
    <2>1. (0 .. m) \in F /\ (0 .. m) \subseteq T  BY <1>5
    <2>2. 0 .. m = 0 .. n  BY <2>1, <1>4, <1>5
    <2>3. n \in 0 .. m  BY <2>2
    <2> QED BY <2>3
  <1> QED BY <1>6

\* A set G that holds 0 and, with n, n + 1, holds every natural number.
LEMMA NatStepInduction ==
    ASSUME NEW G, 0 \in G, \A n \in Nat : n \in G => n + 1 \in G
    PROVE  \A n \in Nat : n \in G
  <1> DEFINE N == {n \in Nat : n \notin G}
  <1> SUFFICES ASSUME N # {} PROVE FALSE  OBVIOUS
  <1>1. PICK m \in N : \A k \in N : m <= k  BY LeastNat
  <1>2. m \in Nat /\ m # 0 /\ m \notin G  BY <1>1
  <1>3. m - 1 \in Nat /\ m - 1 \in G  BY <1>1, <1>2
  <1>4. (m - 1) + 1 \in G  BY <1>3
  <1> QED BY <1>2, <1>4

\* A set G that holds {} and, with T, every T \cup {x}, holds every finite set.
LEMMA FiniteInduction ==
    ASSUME NEW S, IsFiniteSet(S), NEW G,
           {} \in G,
           \A T \in SUBSET S : \A x \in S \ T : T \in G => T \cup {x} \in G
    PROVE  S \in G
  <1> DEFINE F == {T \in SUBSET S : T \notin G}
  <1> SUFFICES ASSUME F # {} PROVE FALSE  OBVIOUS
  <1>1. F \subseteq SUBSET S  OBVIOUS
  <1>2. PICK T \in F : \A U \in F : U \subseteq T => U = T
    <2> HIDE DEF F
    <2> QED BY <1>1, SubsetMin
  <1>3. T # {} /\ T \in SUBSET S /\ T \notin G  BY <1>2
  <1>4. PICK x \in T : TRUE  BY <1>3
  <1>5. (T \ {x}) \notin F  BY <1>2, <1>4
  <1>6. T \ {x} \in G /\ T \ {x} \in SUBSET S /\ x \in S \ (T \ {x})  BY <1>5, <1>3, <1>4
  <1>7. (T \ {x}) \cup {x} \in G  BY <1>6
  <1>8. (T \ {x}) \cup {x} = T  BY <1>4
  <1> QED BY <1>7, <1>8, <1>3

-----------------------------------------------------------------------------
(* The recursive function behind a sum exists                              *)

\* The element the definition of the sum takes first
First(s) == CHOOSE x \in s : TRUE

\* `it` computes the sums over the subsets of S.
SumStep(it, f, S) ==
    it = [s \in SUBSET S |-> IF s = {} THEN 0 ELSE f[First(s)] + it[s \ {First(s)}]]

\* The sum is the value at S of the recursive function that SumStep describes.
LEMMA SumIs ==
    ASSUME NEW f, NEW S
    PROVE  SumFunctionOnSet(f, S) = (CHOOSE it : SumStep(it, f, S))[S]
  BY Zenon DEF SumFunctionOnSet, FoldFunctionOnSet, MapThenFoldSet, SumStep, First

\* The subsets of at most n elements
UpTo(S, n) == {s \in SUBSET S : Cardinality(s) <= n}

\* g computes the sums over those subsets.
PartialSum(g, f, S, n) ==
    /\ g \in [UpTo(S, n) -> Int]
    /\ \A s \in UpTo(S, n) : g[s] = IF s = {} THEN 0 ELSE f[First(s)] + g[s \ {First(s)}]

\* First takes an element of the set.
LEMMA FirstIn ==
    \A s : s # {} => First(s) \in s
  BY DEF First

\* There is a function with the sums over the subsets of at most n elements.
LEMMA SumUpTo ==
    ASSUME NEW f, NEW S, IsFiniteSet(S), \A x \in S : f[x] \in Int, NEW n \in Nat
    PROVE  \E g : PartialSum(g, f, S, n)
  <1> DEFINE Ok(k) == \E g \in [UpTo(S, k) -> Int] :
                        \A s \in UpTo(S, k) :
                          g[s] = IF s = {} THEN 0 ELSE f[First(s)] + g[s \ {First(s)}]
             G == {k \in Nat : Ok(k)}
  <1>0. ASSUME NEW s \in SUBSET S
        PROVE  /\ IsFiniteSet(s) /\ Cardinality(s) \in Nat /\ (Cardinality(s) = 0 <=> s = {})
               /\ \A x \in s : s \ {x} \in SUBSET S /\ Cardinality(s \ {x}) = Cardinality(s) - 1
    <2>1. IsFiniteSet(s)  BY FS_Subset
    <2>2. Cardinality(s) \in Nat  BY <2>1, FS_CardinalityType
    <2>3. \A x \in s : Cardinality(s \ {x}) = Cardinality(s) - 1  BY <2>1, FS_RemoveElement
    <2> QED BY <2>1, <2>2, <2>3, FS_EmptySet
  <1>1. Ok(0)
    <2> DEFINE g == [s \in UpTo(S, 0) |-> 0]
    <2>1. \A s \in UpTo(S, 0) : s = {}  BY <1>0 DEF UpTo
    <2>2. g \in [UpTo(S, 0) -> Int]  OBVIOUS
    <2>3. \A s \in UpTo(S, 0) : g[s] = IF s = {} THEN 0 ELSE f[First(s)] + g[s \ {First(s)}]
      BY <2>1
    <2> QED BY <2>2, <2>3
  <1>2. ASSUME NEW k \in Nat, Ok(k)  PROVE Ok(k + 1)
    <2>1. PICK g \in [UpTo(S, k) -> Int] :
             \A s \in UpTo(S, k) : g[s] = IF s = {} THEN 0 ELSE f[First(s)] + g[s \ {First(s)}]
      BY <1>2
    <2> DEFINE h == [s \in UpTo(S, k + 1) |-> IF s = {} THEN 0 ELSE f[First(s)] + g[s \ {First(s)}]]
    <2>2. ASSUME NEW s \in UpTo(S, k + 1), s # {}
          PROVE  /\ First(s) \in S
                 /\ s \ {First(s)} \in UpTo(S, k)
                 /\ s \ {First(s)} \in UpTo(S, k + 1)
      <3>1. s \in SUBSET S /\ Cardinality(s) <= k + 1  BY DEF UpTo
      <3>2. First(s) \in s  BY <2>2, FirstIn
      <3>3. /\ s \ {First(s)} \in SUBSET S
            /\ Cardinality(s \ {First(s)}) = Cardinality(s) - 1
            /\ Cardinality(s) \in Nat
        BY <3>1, <3>2, <1>0
      <3> QED BY <3>1, <3>2, <3>3 DEF UpTo
    <2>3. h \in [UpTo(S, k + 1) -> Int]
      <3>1. ASSUME NEW s \in UpTo(S, k + 1)
            PROVE  (IF s = {} THEN 0 ELSE f[First(s)] + g[s \ {First(s)}]) \in Int
        <4>1. CASE s = {}  BY <4>1
        <4>2. CASE s # {}
          <5>1. f[First(s)] \in Int  BY <4>2, <2>2
          <5>2. g[s \ {First(s)}] \in Int  BY <4>2, <2>2, <2>1
          <5> QED BY <4>2, <5>1, <5>2
        <4> QED BY <4>1, <4>2
      <3> QED BY <3>1
    <2>4. ASSUME NEW s \in UpTo(S, k + 1)
          PROVE  h[s] = IF s = {} THEN 0 ELSE f[First(s)] + h[s \ {First(s)}]
      <3>1. CASE s = {}  BY <3>1
      <3>2. CASE s # {}
        <4> DEFINE t == s \ {First(s)}
        <4>1. t \in UpTo(S, k) /\ t \in UpTo(S, k + 1)  BY <3>2, <2>2
        <4>2. g[t] = IF t = {} THEN 0 ELSE f[First(t)] + g[t \ {First(t)}]
          <5> HIDE DEF t
          <5> QED BY <4>1, <2>1
        <4>3. h[t] = IF t = {} THEN 0 ELSE f[First(t)] + g[t \ {First(t)}]
          <5> HIDE DEF t
          <5> QED BY <4>1
        <4>4. h[s] = f[First(s)] + g[t]  BY <3>2
        <4>5. h[t] = g[t]  BY <4>2, <4>3
        <4> HIDE DEF t, h
        <4>6. h[s] = f[First(s)] + h[t]  BY <4>4, <4>5
        <4> QED BY <4>6, <3>2 DEF t
      <3> QED BY <3>1, <3>2
    <2> HIDE DEF h
    <2> QED BY <2>3, <2>4
  <1> HIDE DEF Ok
  <1>3. n \in G
    <2>1. 0 \in G /\ \A k \in Nat : k \in G => k + 1 \in G  BY <1>1, <1>2
    <2> HIDE DEF G
    <2> QED BY <2>1, NatStepInduction
  <1>4. Ok(n)  BY <1>3
  <1> QED BY <1>4 DEF Ok, PartialSum

\* The recursive function of the sum exists.
LEMMA SumStepped ==
    ASSUME NEW f, NEW S, IsFiniteSet(S), \A x \in S : f[x] \in Int
    PROVE  \E it \in [SUBSET S -> Int] : SumStep(it, f, S)
  <1>1. Cardinality(S) \in Nat  BY FS_CardinalityType
  <1>2. UpTo(S, Cardinality(S)) = SUBSET S  BY FS_Subset DEF UpTo
  <1>3. PICK g \in [SUBSET S -> Int] :
           \A s \in SUBSET S : g[s] = IF s = {} THEN 0 ELSE f[First(s)] + g[s \ {First(s)}]
    <2>1. PICK g : PartialSum(g, f, S, Cardinality(S))  BY <1>1, SumUpTo
    <2> QED BY <2>1, <1>2 DEF PartialSum
  <1>4. SumStep(g, f, S)  BY <1>3 DEF SumStep
  <1> QED BY <1>4

\* It is unique: for a set and for a larger one it agrees on the common subsets.
LEMMA SumStepUnique ==
    ASSUME NEW f, NEW S, NEW T, IsFiniteSet(S), T \subseteq S, NEW g, NEW h,
           SumStep(g, f, S), SumStep(h, f, T)
    PROVE  \A s \in SUBSET T : g[s] = h[s]
  <1> DEFINE F == {s \in SUBSET T : g[s] # h[s]}
  <1> SUFFICES ASSUME F # {} PROVE FALSE  OBVIOUS
  <1>0. IsFiniteSet(T)  BY FS_Subset
  <1>1. PICK s \in F : \A u \in F : u \subseteq s => u = s
    <2>1. F \subseteq SUBSET T  OBVIOUS
    <2> HIDE DEF F
    <2> QED BY <1>0, <2>1, SubsetMin
  <1>2. s \in SUBSET T /\ s \in SUBSET S /\ g[s] # h[s]  BY <1>1
  <1>3. g[s] = IF s = {} THEN 0 ELSE f[First(s)] + g[s \ {First(s)}]  BY <1>2 DEF SumStep
  <1>4. h[s] = IF s = {} THEN 0 ELSE f[First(s)] + h[s \ {First(s)}]  BY <1>2 DEF SumStep
  <1>5. s # {}  BY <1>2, <1>3, <1>4
  <1>6. First(s) \in s  BY <1>5, FirstIn
  <1>7. s \ {First(s)} \notin F  BY <1>6, <1>1
  <1>8. g[s \ {First(s)}] = h[s \ {First(s)}]  BY <1>7, <1>2
  <1> QED BY <1>2, <1>3, <1>4, <1>5, <1>8

\* The recursion equation of the sum, for the subsets of a finite set.
LEMMA SumOver ==
    ASSUME NEW f, NEW S, IsFiniteSet(S), \A x \in S : f[x] \in Int
    PROVE  \A T \in SUBSET S :
             /\ SumFunctionOnSet(f, T) \in Int
             /\ SumFunctionOnSet(f, T) = IF T = {} THEN 0
                                         ELSE f[First(T)] + SumFunctionOnSet(f, T \ {First(T)})
  <1>1. PICK it \in [SUBSET S -> Int] : SumStep(it, f, S)  BY SumStepped
  <1>2. ASSUME NEW T \in SUBSET S  PROVE SumFunctionOnSet(f, T) = it[T]
    <2> DEFINE h == CHOOSE h : SumStep(h, f, T)
    <2>1. IsFiniteSet(T) /\ \A x \in T : f[x] \in Int  BY FS_Subset
    <2>2. \E h1 : SumStep(h1, f, T)  BY <2>1, SumStepped
    <2>3. SumStep(h, f, T)  BY <2>2
    <2>4. SumFunctionOnSet(f, T) = h[T]  BY SumIs
    <2> HIDE DEF h
    <2>5. it[T] = h[T]  BY <2>3, <1>1, SumStepUnique
    <2> QED BY <2>4, <2>5
  <1>3. ASSUME NEW T \in SUBSET S
        PROVE  it[T] = IF T = {} THEN 0 ELSE f[First(T)] + it[T \ {First(T)}]
    BY <1>1 DEF SumStep
  <1>4. \A T \in SUBSET S : T \ {First(T)} \in SUBSET S  OBVIOUS
  <1> QED BY <1>1, <1>2, <1>3, <1>4

-----------------------------------------------------------------------------
(* Facts to cite                                                            *)

\* Nothing adds up to 0.
LEMMA SumEmpty ==
    ASSUME NEW f
    PROVE  SumFunctionOnSet(f, {}) = 0
  <1>1. IsFiniteSet({})  BY FS_EmptySet
  <1> QED BY <1>1, SumOver

\* A sum of integers is an integer.
LEMMA SumInt ==
    ASSUME NEW f, NEW S, IsFiniteSet(S), \A x \in S : f[x] \in Int
    PROVE  SumFunctionOnSet(f, S) \in Int
  BY SumOver

\* Any summand can be taken out first: the choice of the definition is immaterial.
LEMMA SumTake ==
    ASSUME NEW f, NEW S, IsFiniteSet(S), \A y \in S : f[y] \in Int, NEW x \in S
    PROVE  SumFunctionOnSet(f, S) = f[x] + SumFunctionOnSet(f, S \ {x})
  <1> DEFINE Sm(T) == SumFunctionOnSet(f, T)
             F == {T \in SUBSET S : \E y \in T : Sm(T) # f[y] + Sm(T \ {y})}
  <1> SUFFICES ASSUME F # {} PROVE FALSE  OBVIOUS
  <1>0. /\ \A T \in SUBSET S : Sm(T) \in Int
        /\ \A T \in SUBSET S : Sm(T) = IF T = {} THEN 0 ELSE f[First(T)] + Sm(T \ {First(T)})
    BY SumOver
  <1>1. F \subseteq SUBSET S  OBVIOUS
  <1>2. PICK T \in F : \A U \in F : U \subseteq T => U = T
    <2> HIDE DEF F
    <2> QED BY <1>1, SubsetMin
  <1>3. PICK y \in T : Sm(T) # f[y] + Sm(T \ {y})  BY <1>2
  <1> DEFINE p == First(T)
             A == T \ {p}
             B == T \ {y}
             C == A \ {y}
  <1>4. p \in T /\ T \in SUBSET S  BY <1>3, FirstIn, <1>2
  <1>5. A \in SUBSET S /\ B \in SUBSET S /\ C \in SUBSET S /\ C = B \ {p}  BY <1>4
  <1>6. A \notin F /\ B \notin F
    <2>1. A \subseteq T /\ A # T /\ B \subseteq T /\ B # T  BY <1>4, <1>3
    <2> HIDE DEF F, A, B
    <2> QED BY <2>1, <1>2
  <1>7. \A z \in A : Sm(A) = f[z] + Sm(A \ {z})  BY <1>5, <1>6
  <1>8. \A z \in B : Sm(B) = f[z] + Sm(B \ {z})  BY <1>5, <1>6
  <1>9. Sm(T) = f[p] + Sm(A)  BY <1>0, <1>4
  <1>10. p # y  BY <1>3, <1>9
  <1>11. Sm(A) = f[y] + Sm(C)  BY <1>7, <1>10, <1>3
  <1>12. Sm(B) = f[p] + Sm(C)
    <2>1. p \in B  BY <1>4, <1>10
    <2>2. Sm(B) = f[p] + Sm(B \ {p})  BY <2>1, <1>8
    <2> QED BY <2>2, <1>5
  <1>13. f[p] \in Int /\ f[y] \in Int /\ Sm(C) \in Int  BY <1>0, <1>4, <1>3, <1>5
  <1>14. Sm(T) # f[y] + Sm(B)  BY <1>3
  <1> HIDE DEF Sm, p, A, B, C
  <1> QED BY <1>9, <1>11, <1>12, <1>13, <1>14

\* One more element adds its value.
LEMMA SumAdd ==
    ASSUME NEW f, NEW S, IsFiniteSet(S), NEW x, x \notin S, \A y \in S \cup {x} : f[y] \in Int
    PROVE  SumFunctionOnSet(f, S \cup {x}) = f[x] + SumFunctionOnSet(f, S)
  <1>1. IsFiniteSet(S \cup {x})  BY FS_AddElement
  <1>2. (S \cup {x}) \ {x} = S /\ x \in S \cup {x}  OBVIOUS
  <1> DEFINE T == S \cup {x}
  <1>3. SumFunctionOnSet(f, T) = f[x] + SumFunctionOnSet(f, T \ {x})
    <2>1. IsFiniteSet(T) /\ x \in T /\ \A y \in T : f[y] \in Int  BY <1>1, <1>2
    <2> HIDE DEF T
    <2> QED BY <2>1, SumTake
  <1> QED BY <1>2, <1>3

\* The sum depends on the values over S alone.
LEMMA SumAgree ==
    ASSUME NEW f, NEW g, NEW S, IsFiniteSet(S), \A x \in S : f[x] \in Int /\ g[x] = f[x]
    PROVE  SumFunctionOnSet(f, S) = SumFunctionOnSet(g, S)
  <1> DEFINE G == {T \in SUBSET S : SumFunctionOnSet(f, T) = SumFunctionOnSet(g, T)}
  <1>1. {} \in G  BY SumEmpty
  <1>2. ASSUME NEW T \in SUBSET S, NEW x \in S \ T, T \in G  PROVE T \cup {x} \in G
    <2>1. IsFiniteSet(T) /\ \A y \in T \cup {x} : f[y] \in Int /\ g[y] \in Int  BY FS_Subset
    <2>2. SumFunctionOnSet(f, T \cup {x}) = f[x] + SumFunctionOnSet(f, T)  BY <2>1, SumAdd
    <2>3. SumFunctionOnSet(g, T \cup {x}) = g[x] + SumFunctionOnSet(g, T)  BY <2>1, SumAdd
    <2> QED BY <1>2, <2>2, <2>3
  <1>3. S \in G
    <2> HIDE DEF G
    <2> QED BY <1>1, <1>2, FiniteInduction
  <1> QED BY <1>3

\* A sum of values that are no larger is no larger.
LEMMA SumLeq ==
    ASSUME NEW f, NEW g, NEW S, IsFiniteSet(S),
           \A x \in S : f[x] \in Int /\ g[x] \in Int /\ f[x] <= g[x]
    PROVE  SumFunctionOnSet(f, S) <= SumFunctionOnSet(g, S)
  <1> DEFINE G == {T \in SUBSET S : SumFunctionOnSet(f, T) <= SumFunctionOnSet(g, T)}
  <1>1. {} \in G  BY SumEmpty
  <1>2. ASSUME NEW T \in SUBSET S, NEW x \in S \ T, T \in G  PROVE T \cup {x} \in G
    <2>1. IsFiniteSet(T) /\ \A y \in T \cup {x} : f[y] \in Int /\ g[y] \in Int  BY FS_Subset
    <2>2. SumFunctionOnSet(f, T \cup {x}) = f[x] + SumFunctionOnSet(f, T)  BY <2>1, SumAdd
    <2>3. SumFunctionOnSet(g, T \cup {x}) = g[x] + SumFunctionOnSet(g, T)  BY <2>1, SumAdd
    <2>4. SumFunctionOnSet(f, T) \in Int /\ SumFunctionOnSet(g, T) \in Int  BY <2>1, SumInt
    <2> QED BY <1>2, <2>2, <2>3, <2>4
  <1>3. S \in G
    <2> HIDE DEF G
    <2> QED BY <1>1, <1>2, FiniteInduction
  <1> QED BY <1>3

\* A sum of natural numbers is a natural number.
LEMMA SumNat ==
    ASSUME NEW f, NEW S, IsFiniteSet(S), \A x \in S : f[x] \in Nat
    PROVE  SumFunctionOnSet(f, S) \in Nat
  <1> DEFINE G == {T \in SUBSET S : SumFunctionOnSet(f, T) \in Nat}
  <1>1. {} \in G  BY SumEmpty
  <1>2. ASSUME NEW T \in SUBSET S, NEW x \in S \ T, T \in G  PROVE T \cup {x} \in G
    <2>1. IsFiniteSet(T) /\ \A y \in T \cup {x} : f[y] \in Int  BY FS_Subset
    <2>2. SumFunctionOnSet(f, T \cup {x}) = f[x] + SumFunctionOnSet(f, T)  BY <2>1, SumAdd
    <2> QED BY <1>2, <2>2
  <1>3. S \in G
    <2> HIDE DEF G
    <2> QED BY <1>1, <1>2, FiniteInduction
  <1> QED BY <1>3

\* Whole multiples of a unit add up to a whole multiple of it.
LEMMA SumWhole ==
    ASSUME NEW f, NEW S, IsFiniteSet(S), NEW d \in Int,
           \A x \in S : f[x] \in Int /\ \E m \in Int : f[x] = m * d
    PROVE  \E m \in Int : SumFunctionOnSet(f, S) = m * d
  <1> DEFINE G == {T \in SUBSET S : \E m \in Int : SumFunctionOnSet(f, T) = m * d}
  <1>1. {} \in G
    <2>1. SumFunctionOnSet(f, {}) = 0 * d  BY SumEmpty
    <2> QED BY <2>1
  <1>2. ASSUME NEW T \in SUBSET S, NEW x \in S \ T, T \in G  PROVE T \cup {x} \in G
    <2>1. IsFiniteSet(T) /\ \A y \in T \cup {x} : f[y] \in Int  BY FS_Subset
    <2>2. SumFunctionOnSet(f, T \cup {x}) = f[x] + SumFunctionOnSet(f, T)  BY <2>1, SumAdd
    <2>3. PICK m \in Int : SumFunctionOnSet(f, T) = m * d  BY <1>2
    <2>4. PICK n \in Int : f[x] = n * d  OBVIOUS
    <2>5. n * d + m * d = (n + m) * d /\ n + m \in Int  OBVIOUS
    <2>6. SumFunctionOnSet(f, T \cup {x}) = (n + m) * d  BY <2>2, <2>3, <2>4, <2>5
    <2> QED BY <2>5, <2>6
  <1>3. S \in G
    <2> HIDE DEF G
    <2> QED BY <1>1, <1>2, FiniteInduction
  <1> QED BY <1>3

\* The sums over two disjoint sets add up to that over their union.
LEMMA SumUnion ==
    ASSUME NEW f, NEW S, NEW R, IsFiniteSet(S), IsFiniteSet(R), S \cap R = {},
           \A x \in S \cup R : f[x] \in Int
    PROVE  SumFunctionOnSet(f, S \cup R) = SumFunctionOnSet(f, S) + SumFunctionOnSet(f, R)
  <1> DEFINE G == {T \in SUBSET S :
                     SumFunctionOnSet(f, T \cup R) = SumFunctionOnSet(f, T) + SumFunctionOnSet(f, R)}
  <1>0. SumFunctionOnSet(f, R) \in Int  BY SumInt
  <1>1. {} \in G
    <2>1. {} \cup R = R  OBVIOUS
    <2> QED BY <2>1, <1>0, SumEmpty
  <1>2. ASSUME NEW T \in SUBSET S, NEW x \in S \ T, T \in G  PROVE T \cup {x} \in G
    <2>1. IsFiniteSet(T) /\ \A y \in T \cup {x} : f[y] \in Int  BY FS_Subset
    <2>2. SumFunctionOnSet(f, T \cup {x}) = f[x] + SumFunctionOnSet(f, T)  BY <2>1, SumAdd
    <2>3. SumFunctionOnSet(f, (T \cup R) \cup {x}) = f[x] + SumFunctionOnSet(f, T \cup R)
      <3>1. IsFiniteSet(T \cup R)  BY <2>1, FS_Union
      <3>2. x \notin T \cup R /\ \A y \in (T \cup R) \cup {x} : f[y] \in Int  OBVIOUS
      <3> QED BY <3>1, <3>2, SumAdd
    <2>4. (T \cup R) \cup {x} = (T \cup {x}) \cup R  OBVIOUS
    <2>5. SumFunctionOnSet(f, T) \in Int /\ f[x] \in Int  BY <2>1, SumInt
    <2>6. SumFunctionOnSet(f, (T \cup {x}) \cup R) = f[x] + SumFunctionOnSet(f, T \cup R)
      BY <2>3, <2>4
    <2> QED BY <1>2, <2>2, <2>5, <2>6, <1>0
  <1>3. S \in G
    <2> HIDE DEF G
    <2> QED BY <1>1, <1>2, FiniteInduction
  <1> QED BY <1>3

\* Changing one summand changes the sum by as much.
LEMMA SumChange ==
    ASSUME NEW f, NEW g, NEW S, IsFiniteSet(S), NEW x \in S,
           \A y \in S : f[y] \in Int /\ g[y] \in Int,
           \A y \in S \ {x} : g[y] = f[y]
    PROVE  SumFunctionOnSet(g, S) = SumFunctionOnSet(f, S) + (g[x] - f[x])
  <1>1. IsFiniteSet(S \ {x})  BY FS_RemoveElement
  <1>2. SumFunctionOnSet(f, S) = f[x] + SumFunctionOnSet(f, S \ {x})  BY SumTake
  <1>3. SumFunctionOnSet(g, S) = g[x] + SumFunctionOnSet(g, S \ {x})  BY SumTake
  <1>4. SumFunctionOnSet(f, S \ {x}) = SumFunctionOnSet(g, S \ {x})  BY <1>1, SumAgree
  <1>5. SumFunctionOnSet(f, S \ {x}) \in Int  BY <1>1, SumInt
  <1> QED BY <1>2, <1>3, <1>4, <1>5

\* A part of non-negative summands adds up to no more than all of them.
LEMMA SumPart ==
    ASSUME NEW f, NEW S, NEW T, IsFiniteSet(S), T \subseteq S, \A x \in S : f[x] \in Nat
    PROVE  SumFunctionOnSet(f, T) <= SumFunctionOnSet(f, S)
  <1>1. IsFiniteSet(T) /\ IsFiniteSet(S \ T)  BY FS_Subset
  <1>2. T \cup (S \ T) = S /\ T \cap (S \ T) = {}  OBVIOUS
  <1> DEFINE U == S \ T
  <1>3. SumFunctionOnSet(f, T \cup U) = SumFunctionOnSet(f, T) + SumFunctionOnSet(f, U)
    <2>1. IsFiniteSet(T) /\ IsFiniteSet(U) /\ T \cap U = {} /\ \A x \in T \cup U : f[x] \in Int  BY <1>1
    <2> HIDE DEF U
    <2> QED BY <2>1, SumUnion
  <1>4. SumFunctionOnSet(f, T) \in Nat /\ SumFunctionOnSet(f, U) \in Nat
    <2>1. \A x \in T : f[x] \in Nat  OBVIOUS
    <2>2. \A x \in U : f[x] \in Nat  OBVIOUS
    <2> HIDE DEF U
    <2> QED BY <1>1, <2>1, <2>2, SumNat DEF U
  <1>5. T \cup U = S  BY <1>2
  <1> HIDE DEF U
  <1>6. SumFunctionOnSet(f, S) = SumFunctionOnSet(f, T) + SumFunctionOnSet(f, U)
    BY <1>3, <1>5, Zenon
  <1> QED BY <1>4, <1>6

\* Zeros add up to 0, and other summands from zero up only if all are.
LEMMA SumZero ==
    ASSUME NEW f, NEW S, IsFiniteSet(S), \A x \in S : f[x] \in Nat
    PROVE  SumFunctionOnSet(f, S) = 0 <=> \A x \in S : f[x] = 0
  <1>1. ASSUME \A x \in S : f[x] = 0  PROVE SumFunctionOnSet(f, S) = 0
    <2> DEFINE G == {T \in SUBSET S : SumFunctionOnSet(f, T) = 0}
    <2>1. {} \in G  BY SumEmpty
    <2>2. ASSUME NEW T \in SUBSET S, NEW x \in S \ T, T \in G  PROVE T \cup {x} \in G
      <3>1. IsFiniteSet(T) /\ \A y \in T \cup {x} : f[y] \in Int  BY FS_Subset
      <3>2. SumFunctionOnSet(f, T \cup {x}) = f[x] + SumFunctionOnSet(f, T)  BY <3>1, SumAdd
      <3> QED BY <1>1, <2>2, <3>2
    <2>3. S \in G
      <3> HIDE DEF G
      <3> QED BY <2>1, <2>2, FiniteInduction
    <2> QED BY <2>3
  <1>2. ASSUME SumFunctionOnSet(f, S) = 0, NEW x \in S  PROVE f[x] = 0
    <2>1. SumFunctionOnSet(f, S) = f[x] + SumFunctionOnSet(f, S \ {x})  BY SumTake
    <2>2. IsFiniteSet(S \ {x}) /\ \A y \in S \ {x} : f[y] \in Nat  BY FS_RemoveElement
    <2>3. SumFunctionOnSet(f, S \ {x}) \in Nat  BY <2>2, SumNat
    <2> QED BY <1>2, <2>1, <2>3
  <1> QED BY <1>1, <1>2

\* No summand from zero up is larger than the sum.
LEMMA SumMember ==
    ASSUME NEW f, NEW S, IsFiniteSet(S), \A x \in S : f[x] \in Nat, NEW x \in S
    PROVE  f[x] <= SumFunctionOnSet(f, S)
  <1>1. SumFunctionOnSet(f, S) = f[x] + SumFunctionOnSet(f, S \ {x})  BY SumTake
  <1>2. IsFiniteSet(S \ {x}) /\ \A y \in S \ {x} : f[y] \in Nat  BY FS_RemoveElement
  <1>3. SumFunctionOnSet(f, S \ {x}) \in Nat  BY <1>2, SumNat
  <1> QED BY <1>1, <1>3

\* One summand is the sum.
LEMMA SumSingle ==
    ASSUME NEW f, NEW x, f[x] \in Int
    PROVE  SumFunctionOnSet(f, {x}) = f[x]
  <1> DEFINE S == {x}
  <1>1. IsFiniteSet(S) /\ x \in S /\ \A y \in S : f[y] \in Int  BY FS_Singleton
  <1>2. S \ {x} = {}  OBVIOUS
  <1> HIDE DEF S
  <1>3. SumFunctionOnSet(f, S) = f[x] + SumFunctionOnSet(f, S \ {x})  BY <1>1, SumTake
  <1>4. SumFunctionOnSet(f, S) = f[x] + 0  BY <1>2, <1>3, SumEmpty
  <1> QED BY <1>4 DEF S

\* An interval grows by its new end.
LEMMA SumNext ==
    ASSUME NEW f, NEW n \in Nat, \A y \in 0 .. n + 1 : f[y] \in Int
    PROVE  SumFunctionOnSet(f, 0 .. n + 1) = f[n + 1] + SumFunctionOnSet(f, 0 .. n)
  <1> DEFINE S == 0 .. n + 1
             T == 0 .. n
             x == n + 1
  <1>1. IsFiniteSet(S) /\ x \in S /\ S \ {x} = T /\ \A y \in S : f[y] \in Int
    <2>1. IsFiniteSet(S)  BY FS_Interval
    <2>2. S \ {x} = T  OBVIOUS
    <2> QED BY <2>1, <2>2
  <1> HIDE DEF S, T, x
  <1>2. SumFunctionOnSet(f, S) = f[x] + SumFunctionOnSet(f, S \ {x})  BY <1>1, SumTake
  <1>3. SumFunctionOnSet(f, S) = f[x] + SumFunctionOnSet(f, T)  BY <1>1, <1>2, Zenon
  <1> QED BY <1>3 DEF S, T, x

\* A window moved by one: its sum is that of the window before, less the end.
LEMMA SumShifted ==
    ASSUME NEW f, NEW g, NEW n \in Nat,
           g[0] = 0, \A y \in 0 .. n : f[y] \in Int /\ g[y + 1] = f[y]
    PROVE  SumFunctionOnSet(g, 0 .. n + 1) = SumFunctionOnSet(f, 0 .. n)
  <1> DEFINE F(m) == SumFunctionOnSet(f, 0 .. m)
             H(m) == SumFunctionOnSet(g, 0 .. m)
             G == {m \in Nat : m <= n => H(m + 1) = F(m)}
  <1>1. 0 .. 0 = {0} /\ 0 .. 1 = 0 .. 0 + 1  OBVIOUS
  <1>2. F(0) = f[0] /\ H(0) = 0
    <2> DEFINE Z == 0 .. 0
    <2>1. Z = {0}  OBVIOUS
    <2> HIDE DEF Z
    <2>2. SumFunctionOnSet(f, {0}) = f[0] /\ SumFunctionOnSet(g, {0}) = 0  BY SumSingle
    <2>3. SumFunctionOnSet(f, Z) = f[0] /\ SumFunctionOnSet(g, Z) = 0  BY <2>1, <2>2, Zenon
    <2> QED BY <2>3 DEF Z
  <1>3. ASSUME NEW m \in Nat, m <= n  PROVE H(m + 1) = f[m] + H(m)
    <2>1. \A y \in 0 .. m + 1 : g[y] \in Int
      <3> SUFFICES ASSUME NEW y \in 0 .. m + 1 PROVE g[y] \in Int  OBVIOUS
      <3>1. CASE y = 0  BY <3>1
      <3>2. CASE y # 0
        <4>1. y - 1 \in 0 .. n /\ (y - 1) + 1 = y  BY <1>3, <3>2
        <4> QED BY <4>1
      <3> QED BY <3>1, <3>2
    <2>2. g[m + 1] = f[m]  BY <1>3
    <2>3. H(m + 1) = g[m + 1] + H(m)  BY <2>1, SumNext
    <2> QED BY <2>2, <2>3
  <1>4. ASSUME NEW m \in Nat, m + 1 <= n  PROVE F(m + 1) = f[m + 1] + F(m)
    <2>1. \A y \in 0 .. m + 1 : f[y] \in Int  BY <1>4
    <2> QED BY <2>1, SumNext
  <1>5. 0 \in G
    <2>1. H(0 + 1) = f[0] + H(0)
      <3>1. 0 \in Nat /\ 0 <= n  OBVIOUS
      <3> HIDE DEF F, H
      <3> QED BY <1>3, <3>1
    <2>2. f[0] \in Int  OBVIOUS
    <2> HIDE DEF F, H
    <2> QED BY <1>2, <2>1, <2>2
  <1>6. ASSUME NEW m \in Nat, m \in G  PROVE m + 1 \in G
    <2> SUFFICES ASSUME m + 1 <= n  PROVE H((m + 1) + 1) = F(m + 1)  OBVIOUS
    <2>1. H((m + 1) + 1) = f[m + 1] + H(m + 1)  BY <1>3
    <2>2. F(m + 1) = f[m + 1] + F(m)  BY <1>4
    <2>3. H(m + 1) = F(m)  BY <1>6
    <2> HIDE DEF F, H
    <2> QED BY <2>1, <2>2, <2>3
  <1>7. n \in G
    <2> HIDE DEF G
    <2> QED BY <1>5, <1>6, NatStepInduction
  <1> QED BY <1>7
=============================================================================
