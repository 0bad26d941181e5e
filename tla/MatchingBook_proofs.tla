------------------------- MODULE MatchingBook_proofs -------------------------
(***************************************************************************)
(* Theorems about the book of MatchingEngine and about what matching       *)
(* promises: the four copies of an order agree, nothing an owner is owed   *)
(* is lost, subscribers see the book, priorities are respected.  They hold *)
(* for all values of the constants, under named hypotheses on Deviations.  *)
(***************************************************************************)
EXTENDS MatchingEngine_proofs, FiniteSetTheorems

----------------------------------------------------------------------------
(* Sums over finite sets.  A total of the book is the sum of a function     *)
(* over the orders; the library defines it by a recursive function, of      *)
(* which only the following facts are used further on.                      *)

Sum(f, S) == SumFunctionOnSet(f, S)

\* The element the library's fold takes first.
First(S) == CHOOSE x \in S : TRUE

\* The recursive function of the fold, as an equation.
SumBody(f, S, h) ==
    [s \in SUBSET S |-> IF s = {} THEN 0 ELSE f[First(s)] + h[s \ {First(s)}]]
Solves(f, S, h) == h = SumBody(f, S, h)
Solution(f, S) == CHOOSE h : Solves(f, S, h)

\* The library's sum is the value of that function at the whole set.
LEMMA SumIsSolution ==
    ASSUME NEW f, NEW S
    PROVE  Sum(f, S) = Solution(f, S)[S]
BY DEF Sum, Solution, Solves, SumBody, First,
       SumFunctionOnSet, FoldFunctionOnSet, MapThenFoldSet

\* The first element of a set that is not empty.
LEMMA FirstIn == \A S : S # {} => First(S) \in S
BY DEF First

\* A set of finite sets that is not empty has a member of least cardinality.
LEMMA SmallestExists ==
    ASSUME NEW W, W # {}, \A S \in W : IsFiniteSet(S)
    PROVE  \E S \in W : \A U \in W : Cardinality(S) <= Cardinality(U)
<1> DEFINE N == {Cardinality(S) : S \in W}
<1>1. N \in SUBSET Nat /\ N # {}
  BY FS_CardinalityType
<1>2. PICK n \in N : \A m \in N : n <= m
  <2> HIDE DEF N
  <2> QED BY <1>1, LeastExists
<1> QED BY <1>2

\* A proper subset of a finite set is finite and smaller.
LEMMA Smaller ==
    ASSUME NEW S, IsFiniteSet(S), NEW U \in SUBSET S, U # S
    PROVE  /\ IsFiniteSet(U) /\ Cardinality(U) < Cardinality(S)
           /\ Cardinality(U) \in Nat /\ Cardinality(S) \in Nat
BY FS_Subset, FS_CardinalityType

\* Two solutions agree wherever both are defined.
LEMMA SolutionsAgree ==
    ASSUME NEW f, NEW S, NEW U, NEW g, NEW h,
           Solves(f, S, g), Solves(f, U, h)
    PROVE  \A T \in (SUBSET S) \cap (SUBSET U) : IsFiniteSet(T) => g[T] = h[T]
<1> DEFINE W == {T \in (SUBSET S) \cap (SUBSET U) : IsFiniteSet(T) /\ g[T] # h[T]}
<1>1. SUFFICES ASSUME W # {} PROVE FALSE
  OBVIOUS
<1>2. PICK T \in W : \A V \in W : Cardinality(T) <= Cardinality(V)
  <2>1. \A V \in W : IsFiniteSet(V)
    OBVIOUS
  <2> HIDE DEF W
  <2> QED BY <1>1, <2>1, SmallestExists
<1>3. /\ g[T] = IF T = {} THEN 0 ELSE f[First(T)] + g[T \ {First(T)}]
      /\ h[T] = IF T = {} THEN 0 ELSE f[First(T)] + h[T \ {First(T)}]
  BY DEF Solves, SumBody
<1>4. CASE T = {}
  BY <1>3, <1>4
<1>5. CASE T # {}
  <2> DEFINE V == T \ {First(T)}
  <2>1. V \in SUBSET T /\ V # T
    BY <1>5, FirstIn
  <2>2. V \notin W
    BY <1>2, <2>1, Smaller
  <2>3. V \in (SUBSET S) \cap (SUBSET U) /\ IsFiniteSet(V)
    BY <2>1, Smaller
  <2>4. g[V] = h[V]
    BY <2>2, <2>3
  <2> QED BY <1>3, <1>5, <2>4
<1> QED BY <1>4, <1>5

\* Every finite set has a solution.
LEMMA SolutionExists ==
    ASSUME NEW f, NEW S, IsFiniteSet(S)
    PROVE  \A T \in SUBSET S : Solves(f, T, Solution(f, T))
<1> DEFINE W == {T \in SUBSET S : ~Solves(f, T, Solution(f, T))}
<1>0. \A T \in SUBSET S : IsFiniteSet(T)
  BY FS_Subset
<1>1. SUFFICES ASSUME W # {} PROVE FALSE
  OBVIOUS
<1>2. PICK T \in W : \A V \in W : Cardinality(T) <= Cardinality(V)
  <2>1. \A V \in W : IsFiniteSet(V)
    BY <1>0
  <2> HIDE DEF W
  <2> QED BY <1>1, <2>1, SmallestExists
<1>3. \A U \in SUBSET T : U # T => Solves(f, U, Solution(f, U))
  <2> TAKE U \in SUBSET T
  <2> HAVE U # T
  <2>1. U \notin W
    BY <1>0, <1>2, Smaller
  <2> QED BY <2>1
<1> DEFINE Value(U) == Solution(f, U)[U]
           h == [s \in SUBSET T |->
                    IF s = {} THEN 0 ELSE f[First(s)] + Value(s \ {First(s)})]
<1>4. ASSUME NEW s \in SUBSET T, s # {}
      PROVE  Value(s \ {First(s)}) = h[s \ {First(s)}]
  <2> DEFINE V == s \ {First(s)}
  <2>1. V \in SUBSET T /\ V # T /\ Solves(f, V, Solution(f, V))
    BY <1>3, <1>4, FirstIn
  <2>2. Value(V) = IF V = {} THEN 0
                   ELSE f[First(V)] + Solution(f, V)[V \ {First(V)}]
    BY <2>1 DEF Solves, SumBody
  <2>3. CASE V = {}
    BY <2>1, <2>2, <2>3
  <2>4. CASE V # {}
    <3> DEFINE X == V \ {First(V)}
    <3>1. X \in SUBSET V /\ X \in SUBSET T /\ X # T
      BY <2>1, <2>4, FirstIn
    <3>2. Solves(f, X, Solution(f, X)) /\ IsFiniteSet(X)
      BY <1>0, <1>3, <3>1
    <3>3. Solution(f, V)[X] = Solution(f, X)[X]
      BY <2>1, <3>1, <3>2, SolutionsAgree
    <3> QED BY <2>1, <2>2, <2>4, <3>3
  <2> QED BY <2>3, <2>4
<1>5. Solves(f, T, h)
  <2>1. h = SumBody(f, T, h)
    <3>1. \A s \in SUBSET T : h[s] = SumBody(f, T, h)[s]
      BY <1>4 DEF SumBody
    <3>2. /\ h = [s \in SUBSET T |-> h[s]]
          /\ SumBody(f, T, h) = [s \in SUBSET T |-> SumBody(f, T, h)[s]]
      BY DEF SumBody
    <3> HIDE DEF h
    <3> QED BY <3>1, <3>2
  <2> QED BY <2>1 DEF Solves
<1>6. Solves(f, T, Solution(f, T))
  <2> HIDE DEF h
  <2> QED BY <1>5 DEF Solution
<1> QED BY <1>6

\* The empty sum.
LEMMA SumEmpty == \A f : Sum(f, {}) = 0
<1> TAKE f
<1>1. Solves(f, {}, Solution(f, {}))
  BY FS_EmptySet, SolutionExists
<1> QED BY <1>1, SumIsSolution DEF Solves, SumBody

\* The sum takes the first element and goes on with the others.
LEMMA SumFirst ==
    ASSUME NEW f, NEW S, IsFiniteSet(S), S # {}
    PROVE  Sum(f, S) = f[First(S)] + Sum(f, S \ {First(S)})
<1> DEFINE V == S \ {First(S)}
<1>1. V \in SUBSET S /\ IsFiniteSet(V)
  BY FS_Subset
<1>2. Solves(f, S, Solution(f, S)) /\ Solves(f, V, Solution(f, V))
  BY <1>1, SolutionExists
<1>3. Solution(f, S)[S] = f[First(S)] + Solution(f, S)[V]
  BY <1>2 DEF Solves, SumBody
<1>4. Solution(f, S)[V] = Solution(f, V)[V]
  BY <1>1, <1>2, SolutionsAgree
<1> QED BY <1>3, <1>4, SumIsSolution

\* A sum of integers is an integer.
LEMMA SumInt ==
    ASSUME NEW f, NEW S, IsFiniteSet(S), \A x \in S : f[x] \in Int
    PROVE  Sum(f, S) \in Int
<1> DEFINE W == {T \in SUBSET S : Sum(f, T) \notin Int}
<1>1. SUFFICES ASSUME W # {} PROVE FALSE
  OBVIOUS
<1>2. PICK T \in W : \A V \in W : Cardinality(T) <= Cardinality(V)
  <2>1. \A V \in W : IsFiniteSet(V)
    BY FS_Subset
  <2> HIDE DEF W
  <2> QED BY <1>1, <2>1, SmallestExists
<1>3. T # {} /\ IsFiniteSet(T)
  <2>1. Sum(f, {}) = 0
    BY SumEmpty
  <2>2. IsFiniteSet(T)
    BY FS_Subset
  <2> QED BY <2>1, <2>2
<1> DEFINE V == T \ {First(T)}
<1>4. V \in SUBSET T /\ V # T /\ First(T) \in T
  BY <1>3, FirstIn
<1>5. V \notin W
  BY <1>2, <1>3, <1>4, Smaller
<1>6. Sum(f, V) \in Int /\ f[First(T)] \in Int
  BY <1>4, <1>5
<1>7. Sum(f, T) = f[First(T)] + Sum(f, V)
  BY <1>3, SumFirst
<1> QED BY <1>6, <1>7

\* Any element may be taken out of the sum, not only the first.
LEMMA SumTakeOut ==
    ASSUME NEW f, NEW S, IsFiniteSet(S), \A x \in S : f[x] \in Int
    PROVE  \A x \in S : Sum(f, S) = f[x] + Sum(f, S \ {x})
<1> DEFINE W == {T \in SUBSET S : \E x \in T : Sum(f, T) # f[x] + Sum(f, T \ {x})}
<1>1. SUFFICES ASSUME W # {} PROVE FALSE
  OBVIOUS
<1>2. PICK T \in W : \A V \in W : Cardinality(T) <= Cardinality(V)
  <2>1. \A V \in W : IsFiniteSet(V)
    BY FS_Subset
  <2> HIDE DEF W
  <2> QED BY <1>1, <2>1, SmallestExists
<1>3. PICK x \in T : Sum(f, T) # f[x] + Sum(f, T \ {x})
  BY <1>2
<1>4. IsFiniteSet(T) /\ T # {} /\ First(T) \in T
  BY FirstIn, FS_Subset
<1> DEFINE c == First(T)
           V == T \ {c}
           U == T \ {x}
           X == V \ {x}
<1>5. Sum(f, T) = f[c] + Sum(f, V)
  BY <1>4, SumFirst
<1>6. x # c
  BY <1>3, <1>5
<1>7. /\ V \in SUBSET T /\ V # T /\ x \in V
      /\ U \in SUBSET T /\ U # T /\ c \in U
      /\ X \in SUBSET T /\ X = U \ {c}
  BY <1>4, <1>6
<1>8. V \notin W /\ U \notin W
  <2>1. Cardinality(V) < Cardinality(T) /\ Cardinality(U) < Cardinality(T)
    BY <1>4, <1>7, Smaller
  <2>2. /\ Cardinality(V) \in Nat /\ Cardinality(U) \in Nat
        /\ Cardinality(T) \in Nat
    BY <1>4, <1>7, Smaller
  <2> HIDE DEF W
  <2> QED BY <1>2, <2>1, <2>2
<1>9. Sum(f, V) = f[x] + Sum(f, X) /\ Sum(f, U) = f[c] + Sum(f, X)
  BY <1>7, <1>8
<1>10. f[c] \in Int /\ f[x] \in Int /\ Sum(f, X) \in Int
  <2>1. IsFiniteSet(X) /\ \A y \in X : f[y] \in Int
    BY <1>4, <1>7, FS_Subset
  <2> QED BY <1>4, <2>1, SumInt
<1>11. Sum(f, T) = f[x] + Sum(f, U)
  BY <1>5, <1>9, <1>10
<1> QED BY <1>3, <1>11

\* The sum depends on the values at the elements of the set only.
LEMMA SumSame ==
    ASSUME NEW f, NEW g, NEW S, IsFiniteSet(S), \A x \in S : f[x] = g[x]
    PROVE  Sum(f, S) = Sum(g, S)
<1> DEFINE W == {T \in SUBSET S : Sum(f, T) # Sum(g, T)}
<1>1. SUFFICES ASSUME W # {} PROVE FALSE
  OBVIOUS
<1>2. PICK T \in W : \A V \in W : Cardinality(T) <= Cardinality(V)
  <2>1. \A V \in W : IsFiniteSet(V)
    BY FS_Subset
  <2> HIDE DEF W
  <2> QED BY <1>1, <2>1, SmallestExists
<1>3. T # {} /\ IsFiniteSet(T)
  <2>1. Sum(f, {}) = 0 /\ Sum(g, {}) = 0
    BY SumEmpty
  <2>2. IsFiniteSet(T)
    BY FS_Subset
  <2> QED BY <2>1, <2>2
<1> DEFINE V == T \ {First(T)}
<1>4. V \in SUBSET T /\ V # T /\ First(T) \in T
  BY <1>3, FirstIn
<1>5. V \notin W
  BY <1>2, <1>3, <1>4, Smaller
<1>6. Sum(f, V) = Sum(g, V) /\ f[First(T)] = g[First(T)]
  BY <1>4, <1>5
<1>7. Sum(f, T) = f[First(T)] + Sum(f, V) /\ Sum(g, T) = g[First(T)] + Sum(g, V)
  BY <1>3, SumFirst
<1> QED BY <1>6, <1>7

\* A sum of zeros.
LEMMA SumZero ==
    ASSUME NEW f, NEW S, IsFiniteSet(S), \A x \in S : f[x] = 0
    PROVE  Sum(f, S) = 0
<1> DEFINE W == {T \in SUBSET S : Sum(f, T) # 0}
<1>1. SUFFICES ASSUME W # {} PROVE FALSE
  OBVIOUS
<1>2. PICK T \in W : \A V \in W : Cardinality(T) <= Cardinality(V)
  <2>1. \A V \in W : IsFiniteSet(V)
    BY FS_Subset
  <2> HIDE DEF W
  <2> QED BY <1>1, <2>1, SmallestExists
<1>3. T # {} /\ IsFiniteSet(T)
  BY SumEmpty, FS_Subset
<1> DEFINE V == T \ {First(T)}
<1>4. V \in SUBSET T /\ V # T /\ First(T) \in T
  BY <1>3, FirstIn
<1>5. V \notin W
  BY <1>2, <1>3, <1>4, Smaller
<1>6. Sum(f, V) = 0 /\ f[First(T)] = 0
  BY <1>4, <1>5
<1>7. Sum(f, T) = f[First(T)] + Sum(f, V)
  BY <1>3, SumFirst
<1> QED BY <1>6, <1>7

\* A sum of quantities is not negative, and no smaller than any part of it.
LEMMA SumNat ==
    ASSUME NEW f, NEW S, IsFiniteSet(S), \A x \in S : f[x] \in Nat
    PROVE  Sum(f, S) \in Nat
<1> DEFINE W == {T \in SUBSET S : Sum(f, T) \notin Nat}
<1>1. SUFFICES ASSUME W # {} PROVE FALSE
  OBVIOUS
<1>2. PICK T \in W : \A V \in W : Cardinality(T) <= Cardinality(V)
  <2>1. \A V \in W : IsFiniteSet(V)
    BY FS_Subset
  <2> HIDE DEF W
  <2> QED BY <1>1, <2>1, SmallestExists
<1>3. T # {} /\ IsFiniteSet(T)
  <2>1. Sum(f, {}) = 0
    BY SumEmpty
  <2>2. IsFiniteSet(T)
    BY FS_Subset
  <2> QED BY <2>1, <2>2
<1> DEFINE V == T \ {First(T)}
<1>4. V \in SUBSET T /\ V # T /\ First(T) \in T
  BY <1>3, FirstIn
<1>5. V \notin W
  BY <1>2, <1>3, <1>4, Smaller
<1>6. Sum(f, V) \in Nat /\ f[First(T)] \in Nat
  BY <1>4, <1>5
<1>7. Sum(f, T) = f[First(T)] + Sum(f, V)
  BY <1>3, SumFirst
<1> QED BY <1>6, <1>7

LEMMA SumPart ==
    ASSUME NEW f, NEW S, IsFiniteSet(S), \A x \in S : f[x] \in Nat
    PROVE  \A T \in SUBSET S : Sum(f, T) <= Sum(f, S)
<1> DEFINE W == {U \in SUBSET S : \E T \in SUBSET U : ~(Sum(f, T) <= Sum(f, U))}
<1>0. \A U \in SUBSET S : IsFiniteSet(U) /\ Sum(f, U) \in Nat
  <2> TAKE U \in SUBSET S
  <2>1. IsFiniteSet(U) /\ \A x \in U : f[x] \in Nat
    BY FS_Subset
  <2> QED BY <2>1, SumNat
<1>1. SUFFICES ASSUME W # {} PROVE FALSE
  OBVIOUS
<1>2. PICK U \in W : \A V \in W : Cardinality(U) <= Cardinality(V)
  <2>1. \A V \in W : IsFiniteSet(V)
    BY <1>0
  <2> HIDE DEF W
  <2> QED BY <1>1, <2>1, SmallestExists
<1>3. PICK T \in SUBSET U : ~(Sum(f, T) <= Sum(f, U))
  BY <1>2
<1>4. T # U
  BY <1>0, <1>3
<1>5. PICK x \in U : x \notin T
  BY <1>4
<1> DEFINE V == U \ {x}
<1>6. V \in SUBSET U /\ V # U /\ T \in SUBSET V
  BY <1>5
<1>7. V \notin W
  BY <1>0, <1>2, <1>6, Smaller
<1>8. Sum(f, T) <= Sum(f, V)
  BY <1>6, <1>7
<1>9. Sum(f, U) = f[x] + Sum(f, V) /\ f[x] \in Nat
  BY <1>0, SumTakeOut
<1>10. Sum(f, T) \in Nat /\ Sum(f, V) \in Nat /\ Sum(f, U) \in Nat
  BY <1>0, <1>6
<1> QED BY <1>3, <1>8, <1>9, <1>10

\* One changed value changes the sum by the difference.
LEMMA SumChange ==
    ASSUME NEW f, NEW g, NEW S, IsFiniteSet(S), NEW x \in S,
           \A y \in S : f[y] \in Int /\ g[y] \in Int,
           \A y \in S \ {x} : f[y] = g[y]
    PROVE  Sum(g, S) = Sum(f, S) - f[x] + g[x]
<1>1. Sum(f, S) = f[x] + Sum(f, S \ {x}) /\ Sum(g, S) = g[x] + Sum(g, S \ {x})
  BY SumTakeOut
<1>2. IsFiniteSet(S \ {x}) /\ \A y \in S \ {x} : f[y] \in Int
  BY FS_RemoveElement
<1>3. Sum(f, S \ {x}) = Sum(g, S \ {x})
  BY <1>2, SumSame
<1>4. Sum(f, S \ {x}) \in Int /\ f[x] \in Int /\ g[x] \in Int
  BY <1>2, SumInt
<1> QED BY <1>1, <1>3, <1>4

\* No value exceeds the sum it is part of.
LEMMA SumElement ==
    ASSUME NEW f, NEW S, IsFiniteSet(S), \A x \in S : f[x] \in Nat, NEW x \in S
    PROVE  f[x] <= Sum(f, S)
<1>1. Sum(f, S) = f[x] + Sum(f, S \ {x})
  BY SumTakeOut
<1>2. IsFiniteSet(S \ {x}) /\ \A y \in S \ {x} : f[y] \in Nat
  BY FS_RemoveElement
<1>3. Sum(f, S \ {x}) \in Nat /\ f[x] \in Nat
  BY <1>2, SumNat
<1> QED BY <1>1, <1>3

----------------------------------------------------------------------------
(* Queues.                                                                  *)

\* What is left when element i of a queue is taken out (utils.Queue).
LEMMA RemoveAtElements ==
    ASSUME NEW q \in Seq(Ids), NEW i \in 1 .. Len(q)
    PROVE  /\ RemoveAt(q, i) \in Seq(Ids)
           /\ Len(RemoveAt(q, i)) = Len(q) - 1
           /\ \A j \in 1 .. Len(q) - 1 :
                RemoveAt(q, i)[j] = IF j < i THEN q[j] ELSE q[j + 1]
<1> DEFINE u == SubSeq(q, 1, i - 1)
           v == SubSeq(q, i + 1, Len(q))
<1>1. Len(q) \in Nat /\ i \in Nat /\ 1 <= i /\ i <= Len(q)
  OBVIOUS
<1>2. u \in Seq(Ids) /\ Len(u) = i - 1 /\ \A j \in 1 .. i - 1 : u[j] = q[j]
  <2>1. \A j \in 1 .. i - 1 : q[j] \in Ids
    BY <1>1
  <2> QED BY <1>1, <2>1, SubSeqProperties
<1>3. /\ v \in Seq(Ids) /\ Len(v) = Len(q) - i
      /\ \A j \in 1 .. Len(q) - i : v[j] = q[i + j]
  <2>1. \A j \in i + 1 .. Len(q) : q[j] \in Ids
    BY <1>1
  <2> QED BY <1>1, <2>1, SubSeqProperties
<1> HIDE DEF u, v
<1>4. /\ u \o v \in Seq(Ids) /\ Len(u \o v) = Len(q) - 1
      /\ \A j \in 1 .. Len(q) - 1 :
            (u \o v)[j] = IF j <= i - 1 THEN u[j] ELSE v[j - (i - 1)]
  <2>1. /\ u \o v \in Seq(Ids) /\ Len(u \o v) = Len(u) + Len(v)
        /\ \A j \in 1 .. Len(u) + Len(v) :
              (u \o v)[j] = IF j <= Len(u) THEN u[j] ELSE v[j - Len(u)]
    BY <1>2, <1>3, ConcatProperties
  <2>2. Len(u) + Len(v) = Len(q) - 1
    BY <1>1, <1>2, <1>3
  <2> QED BY <1>2, <2>1, <2>2
<1>5. \A j \in 1 .. Len(q) - 1 : (u \o v)[j] = IF j < i THEN q[j] ELSE q[j + 1]
  <2> TAKE j \in 1 .. Len(q) - 1
  <2>1. CASE j < i
    BY <1>1, <1>2, <1>4, <2>1
  <2>2. CASE ~(j < i)
    <3>1. j - (i - 1) \in 1 .. Len(q) - i /\ i + (j - (i - 1)) = j + 1
      BY <1>1, <2>2
    <3> QED BY <1>1, <1>3, <1>4, <2>2, <3>1
  <2> QED BY <2>1, <2>2
<1> QED BY <1>4, <1>5 DEF RemoveAt, u, v

\* Queue.RemoveValue takes one order out of a queue that holds it once, and
\* leaves the others in their order.
LEMMA RemoveValueQueue ==
    ASSUME NEW q \in Seq(Ids), IsInjective(q), NEW id \in Ids
    PROVE  /\ IsInjective(RemoveValue(q, id))
           /\ ToSet(RemoveValue(q, id)) = ToSet(q) \ {id}
           /\ \A x \in Ids \ {id}, y \in Ids \ {id} :
                Precedes(q, x, y) => Precedes(RemoveValue(q, id), x, y)
<1>1. CASE id \notin ToSet(q)
  BY <1>1 DEF RemoveValue
<1>2. CASE id \in ToSet(q)
  <2>1. PICK i \in 1 .. Len(q) : q[i] = id /\ RemoveValue(q, id) = RemoveAt(q, i)
    <3> DEFINE m == Min({k \in DOMAIN q : q[k] = id})
    <3>1. m \in {k \in DOMAIN q : q[k] = id}
      BY <1>2, FoundAt
    <3>2. m \in 1 .. Len(q) /\ q[m] = id
      BY <3>1
    <3>3. RemoveValue(q, id) = RemoveAt(q, m)
      BY <1>2 DEF RemoveValue
    <3> QED BY <3>2, <3>3
  <2> DEFINE w == RemoveValue(q, id)
             n == Len(q) - 1
  <2>2. /\ w \in Seq(Ids) /\ Len(w) = n
        /\ \A j \in 1 .. n : w[j] = IF j < i THEN q[j] ELSE q[j + 1]
    BY <2>1, RemoveAtElements
  <2>3. /\ Len(q) \in Nat /\ n \in Nat /\ i \in Nat /\ 1 <= i /\ i <= Len(q)
        /\ DOMAIN q = 1 .. Len(q) /\ DOMAIN w = 1 .. n
    BY <2>2
  <2>4. \A j \in 1 .. Len(q) : j # i => q[j] # id
    BY <2>1, <2>3 DEF IsInjective
  <2> HIDE DEF w, n
  <2>5. \A j \in 1 .. n : \E k \in 1 .. Len(q) :
            /\ k # i /\ k = (IF j < i THEN j ELSE j + 1) /\ w[j] = q[k]
    <3> TAKE j \in 1 .. n
    <3> DEFINE k == IF j < i THEN j ELSE j + 1
    <3>1. k \in 1 .. Len(q) /\ k # i
      BY <2>3 DEF n
    <3> QED BY <2>2, <3>1
  <2>6. \A k \in 1 .. Len(q) : k # i => \E j \in 1 .. n :
            /\ j = (IF k < i THEN k ELSE k - 1) /\ w[j] = q[k]
    <3> TAKE k \in 1 .. Len(q)
    <3> HAVE k # i
    <3> DEFINE j == IF k < i THEN k ELSE k - 1
    <3>1. j \in 1 .. n /\ k = IF j < i THEN j ELSE j + 1
      BY <2>3 DEF n
    <3> QED BY <2>2, <3>1
  <2>7. IsInjective(w)
    <3> SUFFICES ASSUME NEW j1 \in 1 .. n, NEW j2 \in 1 .. n, w[j1] = w[j2]
                 PROVE  j1 = j2
      BY <2>3 DEF IsInjective
    <3>1. PICK k1 \in 1 .. Len(q) : k1 = (IF j1 < i THEN j1 ELSE j1 + 1) /\ w[j1] = q[k1]
      BY <2>5
    <3>2. PICK k2 \in 1 .. Len(q) : k2 = (IF j2 < i THEN j2 ELSE j2 + 1) /\ w[j2] = q[k2]
      BY <2>5
    <3>3. k1 = k2
      BY <2>3, <3>1, <3>2 DEF IsInjective
    <3> QED BY <2>3, <3>1, <3>2, <3>3
  <2>8. ToSet(w) = ToSet(q) \ {id}
    <3>1. \A x : x \in ToSet(w) <=> \E j \in 1 .. n : w[j] = x
      BY <2>3 DEF ToSet
    <3>2. \A x : x \in ToSet(q) <=> \E k \in 1 .. Len(q) : q[k] = x
      BY <2>3 DEF ToSet
    <3>3. \A x \in ToSet(w) : x \in ToSet(q) \ {id}
      BY <2>4, <2>5, <3>1, <3>2
    <3>4. \A x \in ToSet(q) \ {id} : x \in ToSet(w)
      BY <2>1, <2>6, <3>1, <3>2
    <3> QED BY <3>3, <3>4
  <2>9. ASSUME NEW x \in Ids \ {id}, NEW y \in Ids \ {id}, Precedes(q, x, y)
        PROVE  Precedes(w, x, y)
    <3>1. PICK k1 \in 1 .. Len(q), k2 \in 1 .. Len(q) :
              k1 < k2 /\ q[k1] = x /\ q[k2] = y
      BY <2>3, <2>9 DEF Precedes
    <3>2. PICK j1 \in 1 .. n : j1 = (IF k1 < i THEN k1 ELSE k1 - 1) /\ w[j1] = q[k1]
      BY <2>1, <2>6, <3>1
    <3>3. PICK j2 \in 1 .. n : j2 = (IF k2 < i THEN k2 ELSE k2 - 1) /\ w[j2] = q[k2]
      BY <2>1, <2>6, <3>1
    <3>4. k1 # i /\ k2 # i
      BY <2>1, <3>1
    <3>5. j1 < j2
      BY <2>3, <3>1, <3>2, <3>3, <3>4
    <3> QED BY <2>3, <3>1, <3>2, <3>3, <3>5 DEF Precedes
  <2> QED BY <2>7, <2>8, <2>9 DEF w
<1> QED BY <1>1, <1>2

\* A new order goes behind all others.
LEMMA AppendQueue ==
    ASSUME NEW q \in Seq(Ids), IsInjective(q), NEW id \in Ids \ ToSet(q)
    PROVE  /\ IsInjective(Append(q, id))
           /\ ToSet(Append(q, id)) = ToSet(q) \cup {id}
           /\ \A x, y : Precedes(q, x, y) => Precedes(Append(q, id), x, y)
<1> DEFINE w == Append(q, id)
           n == Len(q)
<1>1. /\ n \in Nat /\ DOMAIN q = 1 .. n /\ DOMAIN w = 1 .. n + 1
      /\ \A j \in 1 .. n : w[j] = q[j]
      /\ w[n + 1] = id
  BY AppendProperties
<1>2. \A j \in 1 .. n : q[j] # id
  BY <1>1 DEF ToSet
<1> HIDE DEF w, n
<1>3. IsInjective(w)
  <2> SUFFICES ASSUME NEW j \in 1 .. n + 1, NEW k \in 1 .. n + 1, w[j] = w[k]
               PROVE  j = k
    BY <1>1 DEF IsInjective
  <2>1. CASE j \in 1 .. n /\ k \in 1 .. n
    BY <1>1, <2>1 DEF IsInjective
  <2>2. CASE j = n + 1 \/ k = n + 1
    BY <1>1, <1>2, <2>2
  <2> QED BY <1>1, <2>1, <2>2
<1>4. ToSet(w) = ToSet(q) \cup {id}
  <2>1. \A x : x \in ToSet(w) <=> \E j \in 1 .. n + 1 : w[j] = x
    BY <1>1 DEF ToSet
  <2>2. \A x : x \in ToSet(q) <=> \E k \in 1 .. n : q[k] = x
    BY <1>1 DEF ToSet
  <2>3. \A j \in 1 .. n + 1 : j \in 1 .. n \/ j = n + 1
    BY <1>1
  <2>4. \A x : x \in ToSet(w) => x \in ToSet(q) \cup {id}
    BY <1>1, <2>1, <2>2, <2>3
  <2>5. \A x : x \in ToSet(q) \cup {id} => x \in ToSet(w)
    <3>1. n + 1 \in 1 .. n + 1 /\ \A j \in 1 .. n : j \in 1 .. n + 1
      BY <1>1
    <3> QED BY <1>1, <2>1, <2>2, <3>1
  <2> QED BY <2>4, <2>5
<1>5. ASSUME NEW x, NEW y, Precedes(q, x, y) PROVE Precedes(w, x, y)
  <2>1. PICK j \in 1 .. n, k \in 1 .. n : j < k /\ q[j] = x /\ q[k] = y
    BY <1>1, <1>5 DEF Precedes
  <2>2. j \in 1 .. n + 1 /\ k \in 1 .. n + 1
    BY <1>1
  <2> QED BY <1>1, <2>1, <2>2 DEF Precedes
<1> QED BY <1>3, <1>4, <1>5 DEF w

----------------------------------------------------------------------------
(* The four copies of an order, and what each operation of the book does to *)
(* them.  An index entry determines the order's share of every total.       *)

BookAgrees(b) == IndexAgrees(b) /\ QueuesAgree(b) /\ TotalsAgree(b)

Share(e, s, p) == IF e.side = s /\ e.price = p THEN e.quantity ELSE 0

EntryOf(r) == [side |-> r.side, price |-> r.price, quantity |-> r.quantity]

\* c is b with the entry of one order replaced, in all copies; no two other
\* orders have overtaken one another.
Replaces(b, c, id, e) ==
    /\ c \in BookType
    /\ BookAgrees(c)
    /\ \A x \in Ids : c.index[x] = IF x = id THEN e ELSE b.index[x]
    /\ \A s \in Side, p \in Levels :
        /\ c.total[s][p] = b.total[s][p] - Share(b.index[id], s, p) + Share(e, s, p)
        /\ \A x \in Ids \ {id}, y \in Ids \ {id} :
                Precedes(b.seq[s][p], x, y) => Precedes(c.seq[s][p], x, y)

\* Index, levels and totals are written at one order only, to the same end.
Rewrites(b, c, id, e) ==
    /\ \A x \in Ids : c.index[x] = IF x = id THEN e ELSE b.index[x]
    /\ \A s \in Side, p \in Levels :
        /\ \A x \in Ids : c.orders[s][p][x] =
                IF x # id THEN b.orders[s][p][x]
                ELSE IF e.side = s /\ e.price = p THEN e.quantity ELSE NoOrder
        /\ c.total[s][p] = b.total[s][p] - Share(b.index[id], s, p) + Share(e, s, p)

\* Entries and the fields that are read of them.
LEMMA EntryTypes ==
    ASSUME NEW e \in Entry \cup {NoEntry}
    PROVE  /\ e.quantity \in Nat /\ e.price \in Levels
           /\ e # NoEntry => e.side \in Side
           /\ e = NoEntry => e.side \notin Side
           /\ \A s \in Side, p \in Levels : Share(e, s, p) \in Nat
           /\ \A s \in Side, p \in Levels : Share(NoEntry, s, p) = 0
<1>1. /\ e.quantity \in Nat /\ e.price \in Levels
      /\ e # NoEntry => e.side \in Side
      /\ e = NoEntry => e.side \notin Side
  BY DEF Entry, NoEntry, Levels, Side
<1>2. \A s \in Side, p \in Levels : Share(e, s, p) \in Nat
  BY <1>1 DEF Share
<1>3. \A s \in Side, p \in Levels : Share(NoEntry, s, p) = 0
  BY DEF Share, NoEntry
<1> QED BY <1>1, <1>2, <1>3

\* Where an order rests is what its index entry says.
LEMMA OrderIsEntry ==
    ASSUME NEW b \in BookType, IndexAgrees(b),
           NEW s \in Side, NEW p \in Levels, NEW id \in Ids
    PROVE  /\ b.orders[s][p][id] # NoOrder <=>
                 b.index[id].side = s /\ b.index[id].price = p
           /\ b.orders[s][p][id] # NoOrder =>
                 /\ Indexed(b, id)
                 /\ b.orders[s][p][id] = b.index[id].quantity
           /\ OrderQty(b, s, p, id) = Share(b.index[id], s, p)
<1>1. b.index[id] \in Entry \cup {NoEntry}
  BY DEF BookType
<1>2. b.orders[s][p][id] =
        IF b.index[id].side = s /\ b.index[id].price = p
        THEN b.index[id].quantity ELSE NoOrder
  BY DEF IndexAgrees
<1>3. b.index[id].quantity # NoOrder
  BY <1>1, EntryTypes DEF NoOrder
<1>4. b.index[id].side = s => Indexed(b, id)
  BY <1>1, EntryTypes DEF Indexed
<1> QED BY <1>2, <1>3, <1>4 DEF OrderQty, Share

\* The quantity of an order at a level is its share of the level's total.
LEMMA QtyIsShare ==
    \A b \in BookType : IndexAgrees(b) =>
        \A s \in Side, p \in Levels, id \in Ids :
            OrderQty(b, s, p, id) = Share(b.index[id], s, p)
BY OrderIsEntry

\* What a level adds up to changes by the share of the order that changed.
LEMMA LevelSum ==
    ASSUME NEW b \in BookType, NEW c \in BookType, IndexAgrees(b), IndexAgrees(c),
           NEW id \in Ids, \A x \in Ids \ {id} : c.index[x] = b.index[x],
           NEW s \in Side, NEW p \in Levels
    PROVE  Sum([x \in Ids |-> OrderQty(c, s, p, x)], Ids) =
             Sum([x \in Ids |-> OrderQty(b, s, p, x)], Ids)
               - Share(b.index[id], s, p) + Share(c.index[id], s, p)
<1> DEFINE f == [x \in Ids |-> OrderQty(b, s, p, x)]
           g == [x \in Ids |-> OrderQty(c, s, p, x)]
<1>1. \A x \in Ids : /\ f[x] = Share(b.index[x], s, p)
                     /\ g[x] = Share(c.index[x], s, p)
  BY QtyIsShare
<1>2. \A x \in Ids : /\ Share(b.index[x], s, p) \in Int
                     /\ Share(c.index[x], s, p) \in Int
  <2> TAKE x \in Ids
  <2>1. b.index[x] \in Entry \cup {NoEntry} /\ c.index[x] \in Entry \cup {NoEntry}
    BY DEF BookType
  <2> QED BY <2>1, EntryTypes
<1> HIDE DEF f, g
<1>3. \A x \in Ids : f[x] \in Int /\ g[x] \in Int
  BY <1>1, <1>2
<1>4. \A x \in Ids \ {id} : f[x] = g[x]
  BY <1>1
<1>5. Sum(g, Ids) = Sum(f, Ids) - f[id] + g[id]
  BY <1>3, <1>4, FinitelyManyOrders, SumChange
<1> QED BY <1>1, <1>5 DEF f, g

\* Index and totals after a change that writes one order.
LEMMA CopiesFollow ==
    ASSUME NEW b \in BookType, BookAgrees(b), NEW c \in BookType,
           NEW id \in Ids, NEW e \in Entry \cup {NoEntry},
           Rewrites(b, c, id, e)
    PROVE  IndexAgrees(c) /\ TotalsAgree(c)
<1>1. \A x \in Ids : c.index[x] = IF x = id THEN e ELSE b.index[x]
  BY DEF Rewrites
<1>2. \A s \in Side, p \in Levels, x \in Ids :
        c.orders[s][p][x] =
            IF x = id
            THEN IF e.side = s /\ e.price = p THEN e.quantity ELSE NoOrder
            ELSE b.orders[s][p][x]
  BY DEF Rewrites
<1>3. IndexAgrees(c)
  <2> SUFFICES ASSUME NEW x \in Ids, NEW s \in Side, NEW p \in Levels
               PROVE  c.orders[s][p][x] =
                        IF c.index[x].side = s /\ c.index[x].price = p
                        THEN c.index[x].quantity ELSE NoOrder
    BY DEF IndexAgrees
  <2>1. b.orders[s][p][x] = IF b.index[x].side = s /\ b.index[x].price = p
                            THEN b.index[x].quantity ELSE NoOrder
    BY DEF BookAgrees, IndexAgrees
  <2> QED BY <1>1, <1>2, <2>1
<1>4. TotalsAgree(c)
  <2> SUFFICES ASSUME NEW s \in Side, NEW p \in Levels
               PROVE  c.total[s][p] = Sum([x \in Ids |-> OrderQty(c, s, p, x)], Ids)
    BY DEF TotalsAgree, Sum
  <2>1. b.total[s][p] = Sum([x \in Ids |-> OrderQty(b, s, p, x)], Ids)
    BY DEF BookAgrees, TotalsAgree, Sum
  <2>2. \A x \in Ids \ {id} : c.index[x] = b.index[x]
    BY <1>1
  <2>3. c.index[id] = e /\ IndexAgrees(b) /\ IndexAgrees(c)
    BY <1>1, <1>3 DEF BookAgrees
  <2>4. Sum([x \in Ids |-> OrderQty(c, s, p, x)], Ids) =
          Sum([x \in Ids |-> OrderQty(b, s, p, x)], Ids)
            - Share(b.index[id], s, p) + Share(e, s, p)
    <3>1. Sum([x \in Ids |-> OrderQty(c, s, p, x)], Ids) =
            Sum([x \in Ids |-> OrderQty(b, s, p, x)], Ids)
              - Share(b.index[id], s, p) + Share(c.index[id], s, p)
      BY <2>2, <2>3, LevelSum
    <3> QED BY <2>3, <3>1
  <2>5. c.total[s][p] = b.total[s][p] - Share(b.index[id], s, p) + Share(e, s, p)
    BY DEF Rewrites
  <2> QED BY <2>1, <2>4, <2>5
<1> QED BY <1>3, <1>4

\* Replacing an entry twice is replacing it once.
LEMMA ReplacesTwice ==
    ASSUME NEW b \in BookType, NEW c, NEW d, NEW id \in Ids, NEW e, NEW f,
           e \in Entry \cup {NoEntry}, f \in Entry \cup {NoEntry},
           Replaces(b, c, id, e), Replaces(c, d, id, f)
    PROVE  Replaces(b, d, id, f)
<1>1. /\ c.index[id] = e
      /\ \A x \in Ids : d.index[x] = IF x = id THEN f ELSE b.index[x]
  BY DEF Replaces
<1>2. ASSUME NEW s \in Side, NEW p \in Levels
      PROVE  d.total[s][p] = b.total[s][p] - Share(b.index[id], s, p) + Share(f, s, p)
  <2>1. /\ c.total[s][p] = b.total[s][p] - Share(b.index[id], s, p) + Share(e, s, p)
        /\ d.total[s][p] = c.total[s][p] - Share(e, s, p) + Share(f, s, p)
    BY <1>1 DEF Replaces
  <2>2. /\ b.total[s][p] \in Int /\ b.index[id] \in Entry \cup {NoEntry}
    BY DEF BookType
  <2>3. Share(b.index[id], s, p) \in Nat /\ Share(e, s, p) \in Nat /\ Share(f, s, p) \in Nat
    BY <2>2, EntryTypes
  <2> QED BY <2>1, <2>2, <2>3
<1> QED BY <1>1, <1>2 DEF Replaces

\* The tables of a book.
LEMMA BookTables ==
    ASSUME NEW b \in BookType
    PROVE  /\ b.orders \in [Side -> [Levels -> [Ids -> Nat \cup {NoOrder}]]]
           /\ b.total \in [Side -> [Levels -> Int]]
           /\ b.seq \in [Side -> [Levels -> Seq(Ids)]]
           /\ b.index \in [Ids -> Entry \cup {NoEntry}]
BY DEF BookType

\* What a table by side and level holds after one cell was written.
LEMMA CellWritten ==
    ASSUME NEW V, NEW f \in [Side -> [Levels -> V]], NEW s0 \in Side,
           NEW p0 \in Levels, NEW v
    PROVE  \A s \in Side, p \in Levels :
             [f EXCEPT ![s0][p0] = v][s][p] =
                IF s = s0 /\ p = p0 THEN v ELSE f[s][p]
OBVIOUS

\* The same for the orders, where one order of one level is written.
LEMMA OrderWritten ==
    ASSUME NEW V, NEW f \in [Side -> [Levels -> [Ids -> V]]],
           NEW s0 \in Side, NEW p0 \in Levels, NEW id \in Ids, NEW v
    PROVE  \A s \in Side, p \in Levels, x \in Ids :
             [f EXCEPT ![s0][p0][id] = v][s][p][x] =
                IF s = s0 /\ p = p0 /\ x = id THEN v ELSE f[s][p][x]
OBVIOUS

\* What processOpen writes, table by table.
LEMMA OpenTables ==
    ASSUME NEW b \in BookType, NEW r, IsChange(r),
           NEW s \in Side, NEW p \in Levels
    PROVE  LET c == ProcessOpen(b, r)
               here == s = r.side /\ p = r.price
           IN /\ \A x \in Ids : c.orders[s][p][x] =
                    IF here /\ x = r.id THEN r.quantity ELSE b.orders[s][p][x]
              /\ c.total[s][p] = b.total[s][p] + (IF here THEN r.quantity ELSE 0)
              /\ c.seq[s][p] =
                    IF here THEN Append(b.seq[s][p], r.id) ELSE b.seq[s][p]
<1> DEFINE c == ProcessOpen(b, r)
           total == b.total[r.side][r.price] + r.quantity
           queue == Append(b.seq[r.side][r.price], r.id)
<1>1. r.id \in Ids /\ r.side \in Side /\ r.price \in Levels /\ r.quantity \in Nat
  BY DEF IsChange
<1>2. /\ c.orders = [b.orders EXCEPT ![r.side][r.price][r.id] = r.quantity]
      /\ c.total = [b.total EXCEPT ![r.side][r.price] = total]
      /\ c.seq = [b.seq EXCEPT ![r.side][r.price] = queue]
  <2>1. c.orders = [b.orders EXCEPT ![r.side][r.price][r.id] = r.quantity]
    BY DEF ProcessOpen
  <2>2. c.total = [b.total EXCEPT ![r.side][r.price] = total]
    BY DEF ProcessOpen
  <2>3. c.seq = [b.seq EXCEPT ![r.side][r.price] = queue]
    BY DEF ProcessOpen
  <2> QED BY <2>1, <2>2, <2>3
<1> HIDE DEF c
<1>3. \A x \in Ids : c.orders[s][p][x] =
        IF s = r.side /\ p = r.price /\ x = r.id THEN r.quantity ELSE b.orders[s][p][x]
  <2>1. \A x \in Ids :
          [b.orders EXCEPT ![r.side][r.price][r.id] = r.quantity][s][p][x] =
            IF s = r.side /\ p = r.price /\ x = r.id
            THEN r.quantity ELSE b.orders[s][p][x]
    BY <1>1, BookTables, OrderWritten
  <2> QED BY <1>2, <2>1
<1>4. c.total[s][p] = IF s = r.side /\ p = r.price THEN total ELSE b.total[s][p]
  <2> HIDE DEF total
  <2> QED BY <1>1, <1>2, BookTables, CellWritten
<1>5. c.seq[s][p] = IF s = r.side /\ p = r.price THEN queue ELSE b.seq[s][p]
  <2> HIDE DEF queue
  <2> QED BY <1>1, <1>2, BookTables, CellWritten
<1>6. b.total[s][p] \in Int
  BY BookTables
<1>7. c.total[s][p] =
        b.total[s][p] + (IF s = r.side /\ p = r.price THEN r.quantity ELSE 0)
  BY <1>1, <1>4, <1>6
<1> QED BY <1>3, <1>5, <1>7 DEF c

\* What processCancel writes when it finds the order at its level.
LEMMA CancelTables ==
    ASSUME NEW b \in BookType, NEW r, r.id \in Ids, r.side \in Side,
           Indexed(b, r.id), HasLevel(b.orders, r.side, b.index[r.id].price),
           NEW s \in Side, NEW p \in Levels
    PROVE  LET c == ProcessCancel(b, r)
               e == b.index[r.id]
               here == s = r.side /\ p = e.price
           IN /\ \A x \in Ids : c.orders[s][p][x] =
                    IF here /\ x = r.id THEN NoOrder ELSE b.orders[s][p][x]
              /\ c.total[s][p] =
                    IF here THEN TotalWithout(b.total[s][p], e.quantity)
                    ELSE b.total[s][p]
              /\ c.seq[s][p] =
                    IF here THEN RemoveValue(b.seq[s][p], r.id) ELSE b.seq[s][p]
              /\ \A x \in Ids : c.index[x] =
                    IF x = r.id THEN NoEntry ELSE b.index[x]
<1> DEFINE c == ProcessCancel(b, r)
           e == b.index[r.id]
           p0 == e.price
           total == TotalWithout(b.total[r.side][p0], e.quantity)
           queue == RemoveValue(b.seq[r.side][p0], r.id)
<1>1. p0 \in Levels
  BY EntryFields
<1>2. /\ c.orders = [b.orders EXCEPT ![r.side][p0][r.id] = NoOrder]
      /\ c.total = [b.total EXCEPT ![r.side][p0] = total]
      /\ c.seq = [b.seq EXCEPT ![r.side][p0] = queue]
      /\ c.index = [b.index EXCEPT ![r.id] = NoEntry]
  <2>1. c.orders = [b.orders EXCEPT ![r.side][p0][r.id] = NoOrder]
    BY DEF ProcessCancel
  <2>2. c.total = [b.total EXCEPT ![r.side][p0] = total]
    BY DEF ProcessCancel
  <2>3. c.seq = [b.seq EXCEPT ![r.side][p0] = queue]
    BY DEF ProcessCancel
  <2>4. c.index = [b.index EXCEPT ![r.id] = NoEntry]
    BY DEF ProcessCancel
  <2> QED BY <2>1, <2>2, <2>3, <2>4
<1> HIDE DEF c
<1>3. \A x \in Ids : c.orders[s][p][x] =
        IF s = r.side /\ p = p0 /\ x = r.id THEN NoOrder ELSE b.orders[s][p][x]
  <2>1. \A x \in Ids : [b.orders EXCEPT ![r.side][p0][r.id] = NoOrder][s][p][x] =
            IF s = r.side /\ p = p0 /\ x = r.id THEN NoOrder ELSE b.orders[s][p][x]
    BY <1>1, BookTables, OrderWritten
  <2> QED BY <1>2, <2>1
<1>4. c.total[s][p] = IF s = r.side /\ p = p0 THEN total ELSE b.total[s][p]
  <2>1. c.total = [b.total EXCEPT ![r.side][p0] = total]
    BY <1>2
  <2>2. b.total \in [Side -> [Levels -> Int]] /\ r.side \in Side
    BY BookTables
  <2> HIDE DEF total, p0
  <2> QED BY <1>1, <2>1, <2>2, CellWritten
<1>5. c.seq[s][p] = IF s = r.side /\ p = p0 THEN queue ELSE b.seq[s][p]
  <2>1. c.seq = [b.seq EXCEPT ![r.side][p0] = queue]
    BY <1>2
  <2>2. b.seq \in [Side -> [Levels -> Seq(Ids)]] /\ r.side \in Side
    BY BookTables
  <2> HIDE DEF queue, p0
  <2> QED BY <1>1, <2>1, <2>2, CellWritten
<1>6. \A x \in Ids : c.index[x] = IF x = r.id THEN NoEntry ELSE b.index[x]
  <2>1. c.index = [b.index EXCEPT ![r.id] = NoEntry]
    BY <1>2
  <2>2. b.index \in [Ids -> Entry \cup {NoEntry}]
    BY BookTables
  <2> QED BY <2>1, <2>2
<1> QED BY <1>3, <1>4, <1>5, <1>6 DEF c

\* processOpen of an order that is not in the book writes its copies alike.
LEMMA OpenReplaces ==
    ASSUME NEW b \in BookType, BookAgrees(b), NEW r, IsChange(r), ~Indexed(b, r.id)
    PROVE  Replaces(b, ProcessOpen(b, r), r.id, EntryOf(r))
<1> DEFINE c == ProcessOpen(b, r)
           e == EntryOf(r)
<1>1. /\ r.id \in Ids /\ r.side \in Side /\ r.price \in Levels /\ r.quantity \in Nat
      /\ c \in BookType /\ e \in Entry \cup {NoEntry}
      /\ e.side = r.side /\ e.price = r.price /\ e.quantity = r.quantity
      /\ b.index[r.id] = NoEntry
  BY ProcessOpenType DEF IsChange, EntryOf, Entry, Indexed
<1>2. \A x \in Ids : c.index[x] = IF x = r.id THEN e ELSE b.index[x]
  <2>1. c.index = [b.index EXCEPT ![r.id] = e]
    BY DEF ProcessOpen, EntryOf
  <2> HIDE DEF c, e
  <2> QED BY <2>1, BookTables
<1>3. \A s \in Side, p \in Levels :
        b.orders[s][p][r.id] = NoOrder /\ r.id \notin ToSet(b.seq[s][p])
  <2> TAKE s \in Side, p \in Levels
  <2>1. b.orders[s][p][r.id] = NoOrder
    BY <1>1, OrderIsEntry DEF BookAgrees
  <2>2. ToSet(b.seq[s][p]) = {id \in Ids : b.orders[s][p][id] # NoOrder}
    BY DEF BookAgrees, QueuesAgree
  <2> QED BY <2>1, <2>2
<1>4. \A s \in Side, p \in Levels, x \in Ids : c.orders[s][p][x] =
        IF x # r.id THEN b.orders[s][p][x]
        ELSE IF e.side = s /\ e.price = p THEN e.quantity ELSE NoOrder
  <2> TAKE s \in Side, p \in Levels, x \in Ids
  <2>1. c.orders[s][p][x] = IF s = r.side /\ p = r.price /\ x = r.id
                            THEN r.quantity ELSE b.orders[s][p][x]
    BY OpenTables
  <2> HIDE DEF c, e
  <2> QED BY <1>1, <1>3, <2>1
<1>5. \A s \in Side, p \in Levels : c.total[s][p] =
        b.total[s][p] - Share(b.index[r.id], s, p) + Share(e, s, p)
  <2> TAKE s \in Side, p \in Levels
  <2>1. c.total[s][p] = b.total[s][p] +
            (IF s = r.side /\ p = r.price THEN r.quantity ELSE 0)
    BY OpenTables
  <2> HIDE DEF c, e
  <2>2. Share(b.index[r.id], s, p) = 0
    BY <1>1, EntryTypes
  <2>3. Share(e, s, p) = IF s = r.side /\ p = r.price THEN r.quantity ELSE 0
    BY <1>1 DEF Share
  <2>4. b.total[s][p] \in Int
    BY BookTables
  <2> QED BY <1>1, <2>1, <2>2, <2>3, <2>4
<1>6. IndexAgrees(c) /\ TotalsAgree(c)
  <2>1. Rewrites(b, c, r.id, e)
    BY <1>2, <1>4, <1>5 DEF Rewrites
  <2> QED BY <1>1, <2>1, CopiesFollow
<1>7. ASSUME NEW s \in Side, NEW p \in Levels
      PROVE  /\ IsInjective(c.seq[s][p])
             /\ ToSet(c.seq[s][p]) = {id \in Ids : c.orders[s][p][id] # NoOrder}
             /\ \A x \in Ids \ {r.id}, y \in Ids \ {r.id} :
                    Precedes(b.seq[s][p], x, y) => Precedes(c.seq[s][p], x, y)
  <2>1. /\ b.seq[s][p] \in Seq(Ids) /\ IsInjective(b.seq[s][p])
        /\ ToSet(b.seq[s][p]) = {id \in Ids : b.orders[s][p][id] # NoOrder}
    BY BookTables DEF BookAgrees, QueuesAgree
  <2>2. c.seq[s][p] = IF s = r.side /\ p = r.price
                      THEN Append(b.seq[s][p], r.id) ELSE b.seq[s][p]
    BY OpenTables
  <2> HIDE DEF c, e
  <2>3. CASE s = r.side /\ p = r.price
    <3>1. \A id \in Ids : c.orders[s][p][id] # NoOrder <=>
                          id = r.id \/ b.orders[s][p][id] # NoOrder
      BY <1>1, <1>4, <2>3 DEF NoOrder
    <3>2. r.id \in Ids \ ToSet(b.seq[s][p])
      BY <1>1, <1>3
    <3>3. /\ IsInjective(c.seq[s][p])
          /\ ToSet(c.seq[s][p]) = ToSet(b.seq[s][p]) \cup {r.id}
          /\ \A x, y : Precedes(b.seq[s][p], x, y) => Precedes(c.seq[s][p], x, y)
      <4>1. c.seq[s][p] = Append(b.seq[s][p], r.id)
        BY <2>2, <2>3
      <4>2. b.seq[s][p] \in Seq(Ids) /\ IsInjective(b.seq[s][p])
        BY <2>1
      <4> QED BY <3>2, <4>1, <4>2, AppendQueue
    <3> QED BY <1>1, <2>1, <3>1, <3>3
  <2>4. CASE ~(s = r.side /\ p = r.price)
    <3>1. \A id \in Ids : c.orders[s][p][id] # NoOrder <=>
                          b.orders[s][p][id] # NoOrder
      BY <1>1, <1>3, <1>4, <2>4
    <3> QED BY <2>1, <2>2, <2>4, <3>1
  <2> QED BY <2>3, <2>4
<1>8. BookAgrees(c)
  BY <1>6, <1>7 DEF BookAgrees, QueuesAgree
<1> QED BY <1>1, <1>2, <1>5, <1>7, <1>8 DEF Replaces

\* A total covers the quantity of every order of its level, so the branch of
\* processCancel for a total that would not stay positive loses nothing.
LEMMA TotalCovers ==
    ASSUME NEW b \in BookType, BookAgrees(b), NEW s \in Side, NEW p \in Levels
    PROVE  /\ b.total[s][p] \in Nat
           /\ \A id \in Ids : Share(b.index[id], s, p) <= b.total[s][p]
<1> DEFINE f == [x \in Ids |-> OrderQty(b, s, p, x)]
<1>1. b.total[s][p] = Sum(f, Ids)
  BY DEF BookAgrees, TotalsAgree, Sum
<1>2. \A x \in Ids : f[x] = Share(b.index[x], s, p)
  BY QtyIsShare DEF BookAgrees
<1>3. \A x \in Ids : Share(b.index[x], s, p) \in Nat
  BY BookTables, EntryTypes
<1> HIDE DEF f
<1>4. \A x \in Ids : f[x] \in Nat
  BY <1>2, <1>3
<1>5. Sum(f, Ids) \in Nat
  BY <1>4, FinitelyManyOrders, SumNat
<1>6. \A x \in Ids : f[x] <= Sum(f, Ids)
  BY <1>4, FinitelyManyOrders, SumElement
<1> QED BY <1>1, <1>2, <1>5, <1>6

\* processCancel on the side of the order's entry removes all its copies.
LEMMA CancelReplaces ==
    ASSUME NEW b \in BookType, BookAgrees(b), NEW r, r.id \in Ids, r.side \in Side,
           Indexed(b, r.id) => b.index[r.id].side = r.side
    PROVE  Replaces(b, ProcessCancel(b, r), r.id, NoEntry)
<1> DEFINE c == ProcessCancel(b, r)
           e == b.index[r.id]
           p0 == e.price
<1>1. /\ c \in BookType /\ e \in Entry \cup {NoEntry} /\ NoEntry \in Entry \cup {NoEntry}
      /\ p0 \in Levels /\ e.quantity \in Nat
      /\ \A s \in Side : NoEntry.side # s
  <2>1. e \in Entry \cup {NoEntry} /\ c \in BookType
    BY BookTables, ProcessCancelType
  <2>2. \A s \in Side : NoEntry.side # s
    BY DEF NoEntry, Side
  <2> QED BY <2>1, <2>2, EntryTypes
<1>2. CASE ~Indexed(b, r.id)
  <2>1. c = b /\ e = NoEntry
    BY <1>2 DEF ProcessCancel, Indexed
  <2>2. \A s \in Side, p \in Levels :
          b.total[s][p] = b.total[s][p] - Share(e, s, p) + Share(NoEntry, s, p)
    <3> TAKE s \in Side, p \in Levels
    <3>1. b.total[s][p] \in Int /\ Share(NoEntry, s, p) = 0 /\ Share(e, s, p) = 0
      BY <1>1, <2>1, BookTables, EntryTypes
    <3> QED BY <3>1
  <2> HIDE DEF c, e
  <2> QED BY <2>1, <2>2 DEF Replaces, c, e
<1>3. CASE Indexed(b, r.id)
  <2>1. /\ e.side = r.side
        /\ b.orders[r.side][p0][r.id] # NoOrder
        /\ HasLevel(b.orders, r.side, p0)
    <3>1. b.orders[r.side][p0][r.id] # NoOrder
      BY <1>1, <1>3, OrderIsEntry DEF BookAgrees
    <3> QED BY <1>3, <3>1 DEF HasLevel
  <2>2. ASSUME NEW s \in Side, NEW p \in Levels
        PROVE  /\ \A x \in Ids : c.orders[s][p][x] =
                     IF s = r.side /\ p = p0 /\ x = r.id
                     THEN NoOrder ELSE b.orders[s][p][x]
               /\ c.total[s][p] = IF s = r.side /\ p = p0
                                  THEN TotalWithout(b.total[s][p], e.quantity)
                                  ELSE b.total[s][p]
               /\ c.seq[s][p] = IF s = r.side /\ p = p0
                                THEN RemoveValue(b.seq[s][p], r.id) ELSE b.seq[s][p]
               /\ \A x \in Ids : c.index[x] =
                     IF x = r.id THEN NoEntry ELSE b.index[x]
    BY <1>3, <2>1, CancelTables
  <2> HIDE DEF c
  <2>3. \A s \in Side, p \in Levels :
          b.orders[s][p][r.id] # NoOrder <=> s = r.side /\ p = p0
    BY <2>1, OrderIsEntry DEF BookAgrees
  <2>4. \A s \in Side, p \in Levels, x \in Ids : c.orders[s][p][x] =
          IF x # r.id THEN b.orders[s][p][x]
          ELSE IF NoEntry.side = s /\ NoEntry.price = p
               THEN NoEntry.quantity ELSE NoOrder
    BY <1>1, <2>2, <2>3
  <2>5. \A s \in Side, p \in Levels : c.total[s][p] =
          b.total[s][p] - Share(e, s, p) + Share(NoEntry, s, p)
    <3> TAKE s \in Side, p \in Levels
    <3>1. Share(NoEntry, s, p) = 0
      BY <1>1, EntryTypes
    <3>2. Share(e, s, p) = IF s = r.side /\ p = p0 THEN e.quantity ELSE 0
      BY <2>1 DEF Share
    <3>3. b.total[s][p] \in Nat /\ Share(e, s, p) <= b.total[s][p]
      BY TotalCovers
    <3> HIDE DEF e, p0
    <3>4. CASE s = r.side /\ p = p0
      <4>1. c.total[s][p] = TotalWithout(b.total[s][p], e.quantity)
        BY <2>2, <3>4
      <4> QED BY <1>1, <3>1, <3>2, <3>3, <3>4, <4>1 DEF TotalWithout
    <3>5. CASE ~(s = r.side /\ p = p0)
      <4>1. c.total[s][p] = b.total[s][p]
        BY <2>2, <3>5
      <4> QED BY <3>1, <3>2, <3>3, <3>5, <4>1
    <3> QED BY <3>4, <3>5
  <2>6. IndexAgrees(c) /\ TotalsAgree(c)
    <3>1. \A x \in Ids : c.index[x] = IF x = r.id THEN NoEntry ELSE b.index[x]
      BY <1>1, <2>2
    <3>2. Rewrites(b, c, r.id, NoEntry)
      BY <2>4, <2>5, <3>1 DEF Rewrites
    <3> QED BY <1>1, <3>2, CopiesFollow DEF c
  <2>7. ASSUME NEW s \in Side, NEW p \in Levels
        PROVE  /\ IsInjective(c.seq[s][p])
               /\ ToSet(c.seq[s][p]) = {id \in Ids : c.orders[s][p][id] # NoOrder}
               /\ \A x \in Ids \ {r.id}, y \in Ids \ {r.id} :
                      Precedes(b.seq[s][p], x, y) => Precedes(c.seq[s][p], x, y)
    <3>1. /\ b.seq[s][p] \in Seq(Ids) /\ IsInjective(b.seq[s][p])
          /\ ToSet(b.seq[s][p]) = {id \in Ids : b.orders[s][p][id] # NoOrder}
      BY BookTables DEF BookAgrees, QueuesAgree
    <3>2. CASE s = r.side /\ p = p0
      <4>1. c.seq[s][p] = RemoveValue(b.seq[s][p], r.id)
        BY <2>2, <3>2
      <4>2. \A id \in Ids : c.orders[s][p][id] # NoOrder <=>
                            id # r.id /\ b.orders[s][p][id] # NoOrder
        BY <2>2, <3>2
      <4>3. /\ IsInjective(c.seq[s][p])
            /\ ToSet(c.seq[s][p]) = ToSet(b.seq[s][p]) \ {r.id}
            /\ \A x \in Ids \ {r.id}, y \in Ids \ {r.id} :
                   Precedes(b.seq[s][p], x, y) => Precedes(c.seq[s][p], x, y)
        BY <3>1, <4>1, RemoveValueQueue
      <4>4. ToSet(c.seq[s][p]) = {id \in Ids : c.orders[s][p][id] # NoOrder}
        BY <3>1, <4>2, <4>3
      <4> QED BY <4>3, <4>4
    <3>3. CASE ~(s = r.side /\ p = p0)
      <4>1. c.seq[s][p] = b.seq[s][p]
        BY <2>2, <3>3
      <4>2. \A x \in Ids : c.orders[s][p][x] = b.orders[s][p][x]
        BY <2>2, <3>3
      <4> QED BY <3>1, <4>1, <4>2
    <3> QED BY <3>2, <3>3
  <2>8. BookAgrees(c)
    BY <2>6, <2>7 DEF BookAgrees, QueuesAgree
  <2>9. \A x \in Ids : c.index[x] = IF x = r.id THEN NoEntry ELSE b.index[x]
    BY <1>1, <2>2
  <2>10. Replaces(b, c, r.id, NoEntry)
    BY <1>1, <2>5, <2>7, <2>8, <2>9 DEF Replaces, c
  <2> QED BY <2>10 DEF c
<1> QED BY <1>2, <1>3

\* A reduction at the same price is made in place.
Reduces(b, r) == r.quantity < b.index[r.id].quantity /\ r.price = b.index[r.id].price

\* What processModify writes for a reduction: every queue stays as it is.
LEMMA ReduceTables ==
    ASSUME NEW b \in BookType, NEW r, IsChange(r), Reduces(b, r),
           HasLevel(b.orders, r.side, r.price),
           NEW s \in Side, NEW p \in Levels
    PROVE  LET c == ProcessModify(b, r)
               here == s = r.side /\ p = r.price
           IN /\ \A x \in Ids : c.orders[s][p][x] =
                    IF here /\ x = r.id THEN r.quantity ELSE b.orders[s][p][x]
              /\ c.total[s][p] =
                    IF here THEN b.total[s][p] - b.index[r.id].quantity + r.quantity
                    ELSE b.total[s][p]
              /\ c.seq = b.seq
              /\ c.index = [b.index EXCEPT ![r.id].quantity = r.quantity]
<1> DEFINE c == ProcessModify(b, r)
           e == b.index[r.id]
           total == b.total[r.side][r.price] - e.quantity + r.quantity
<1>1. r.id \in Ids /\ r.side \in Side /\ r.price \in Levels /\ r.quantity \in Nat
  BY DEF IsChange
<1>2. c = [b EXCEPT !.orders[r.side][e.price][r.id] = r.quantity,
                    !.total[r.side][e.price] = @ - e.quantity + r.quantity,
                    !.index = [b.index EXCEPT ![r.id].quantity = r.quantity]]
  BY DEF ProcessModify, Reduces
<1>3. e.price = r.price
  BY DEF Reduces
<1>4. /\ c.orders = [b.orders EXCEPT ![r.side][r.price][r.id] = r.quantity]
      /\ c.total = [b.total EXCEPT ![r.side][r.price] = total]
      /\ c.seq = b.seq
      /\ c.index = [b.index EXCEPT ![r.id].quantity = r.quantity]
  <2> HIDE DEF c, e
  <2>1. c.orders = [b.orders EXCEPT ![r.side][r.price][r.id] = r.quantity]
    BY <1>2, <1>3 DEF BookType
  <2>2. c.total = [b.total EXCEPT ![r.side][r.price] = total]
    BY <1>2, <1>3 DEF BookType
  <2>3. c.seq = b.seq
    BY <1>2 DEF BookType
  <2>4. c.index = [b.index EXCEPT ![r.id].quantity = r.quantity]
    BY <1>2 DEF BookType
  <2> QED BY <2>1, <2>2, <2>3, <2>4
<1> HIDE DEF c, e
<1>5. \A x \in Ids : c.orders[s][p][x] =
        IF s = r.side /\ p = r.price /\ x = r.id
        THEN r.quantity ELSE b.orders[s][p][x]
  <2>1. \A x \in Ids :
          [b.orders EXCEPT ![r.side][r.price][r.id] = r.quantity][s][p][x] =
            IF s = r.side /\ p = r.price /\ x = r.id
            THEN r.quantity ELSE b.orders[s][p][x]
    BY <1>1, BookTables, OrderWritten
  <2> QED BY <1>4, <2>1
<1>6. c.total[s][p] = IF s = r.side /\ p = r.price THEN total ELSE b.total[s][p]
  <2>1. c.total = [b.total EXCEPT ![r.side][r.price] = total]
    BY <1>4
  <2>2. b.total \in [Side -> [Levels -> Int]]
    BY BookTables
  <2> HIDE DEF total
  <2> QED BY <1>1, <2>1, <2>2, CellWritten
<1> QED BY <1>4, <1>5, <1>6 DEF c, e

\* processModify on the side of the order's entry writes its copies alike,
\* whether it reduces in place or cancels and opens again.
LEMMA ModifyReplaces ==
    ASSUME NEW b \in BookType, BookAgrees(b), NEW r, IsChange(r), Indexed(b, r.id),
           b.index[r.id].side = r.side
    PROVE  /\ Replaces(b, ProcessModify(b, r), r.id, EntryOf(r))
           /\ Reduces(b, r) => ProcessModify(b, r).seq = b.seq
<1> DEFINE c == ProcessModify(b, r)
           e == b.index[r.id]
           f == EntryOf(r)
<1>1. /\ r.id \in Ids /\ r.side \in Side /\ r.price \in Levels /\ r.quantity \in Nat
      /\ c \in BookType /\ f \in Entry \cup {NoEntry}
      /\ f.side = r.side /\ f.price = r.price /\ f.quantity = r.quantity
      /\ e \in Entry \cup {NoEntry} /\ e \in Entry
      /\ e.price \in Levels /\ e.quantity \in Nat
  BY ProcessModifyType, EntryFields DEF IsChange, EntryOf, Entry
<1>2. b.orders[r.side][e.price][r.id] # NoOrder /\ HasLevel(b.orders, r.side, e.price)
  <2>1. b.orders[r.side][e.price][r.id] # NoOrder
    BY <1>1, OrderIsEntry DEF BookAgrees
  <2> QED BY <1>1, <2>1 DEF HasLevel
<1>3. CASE Reduces(b, r)
  <2>1. e.price = r.price /\ HasLevel(b.orders, r.side, r.price)
    BY <1>2, <1>3 DEF Reduces
  <2>2. ASSUME NEW s \in Side, NEW p \in Levels
        PROVE  /\ \A x \in Ids : c.orders[s][p][x] =
                     IF s = r.side /\ p = r.price /\ x = r.id
                     THEN r.quantity ELSE b.orders[s][p][x]
               /\ c.total[s][p] =
                     IF s = r.side /\ p = r.price
                     THEN b.total[s][p] - e.quantity + r.quantity
                     ELSE b.total[s][p]
               /\ c.seq = b.seq
               /\ c.index = [b.index EXCEPT ![r.id].quantity = r.quantity]
    BY <1>3, <2>1, ReduceTables
  <2> HIDE DEF c
  <2>3. c.seq = b.seq /\ c.index = [b.index EXCEPT ![r.id].quantity = r.quantity]
    BY <1>1, <2>2
  <2>4. \A x \in Ids : c.index[x] = IF x = r.id THEN f ELSE b.index[x]
    <3>1. [e EXCEPT !.quantity = r.quantity] = f
      BY <1>1, <2>1 DEF Entry, EntryOf
    <3>2. \A x \in Ids : c.index[x] =
            IF x = r.id THEN [e EXCEPT !.quantity = r.quantity] ELSE b.index[x]
      BY <1>1, <2>3, BookTables
    <3> QED BY <3>1, <3>2
  <2>5. \A s \in Side, p \in Levels :
          b.orders[s][p][r.id] # NoOrder <=> s = r.side /\ p = r.price
    BY <1>1, <2>1, OrderIsEntry DEF BookAgrees
  <2> HIDE DEF e, f
  <2>6. \A s \in Side, p \in Levels, x \in Ids : c.orders[s][p][x] =
          IF x # r.id THEN b.orders[s][p][x]
          ELSE IF f.side = s /\ f.price = p THEN f.quantity ELSE NoOrder
    BY <1>1, <2>2, <2>5
  <2>7. \A s \in Side, p \in Levels : c.total[s][p] =
          b.total[s][p] - Share(e, s, p) + Share(f, s, p)
    <3> TAKE s \in Side, p \in Levels
    <3>1. /\ Share(e, s, p) = IF s = r.side /\ p = r.price THEN e.quantity ELSE 0
          /\ Share(f, s, p) = IF s = r.side /\ p = r.price THEN r.quantity ELSE 0
      BY <1>1, <2>1 DEF Share, e
    <3>2. b.total[s][p] \in Int
      BY BookTables
    <3>3. c.total[s][p] = IF s = r.side /\ p = r.price
                          THEN b.total[s][p] - e.quantity + r.quantity
                          ELSE b.total[s][p]
      BY <2>2
    <3> QED BY <1>1, <3>1, <3>2, <3>3
  <2>8. IndexAgrees(c) /\ TotalsAgree(c)
    <3>1. Rewrites(b, c, r.id, f)
      BY <2>4, <2>6, <2>7 DEF Rewrites, e
    <3> QED BY <1>1, <3>1, CopiesFollow
  <2>9. QueuesAgree(c)
    <3>1. \A s \in Side, p \in Levels, x \in Ids :
            c.orders[s][p][x] # NoOrder <=> b.orders[s][p][x] # NoOrder
      BY <1>1, <2>5, <2>6 DEF NoOrder
    <3> QED BY <2>3, <3>1 DEF BookAgrees, QueuesAgree
  <2>10. BookAgrees(c)
    BY <2>8, <2>9 DEF BookAgrees
  <2>11. Replaces(b, c, r.id, f)
    BY <1>1, <2>3, <2>4, <2>7, <2>10 DEF Replaces, e
  <2> QED BY <2>3, <2>11 DEF c, f
<1>4. CASE ~Reduces(b, r)
  <2> DEFINE d == ProcessCancel(b, r)
  <2>1. c = ProcessOpen(d, r)
    BY <1>4 DEF ProcessModify, Reduces
  <2>2. Replaces(b, d, r.id, NoEntry)
    BY <1>1, CancelReplaces
  <2> HIDE DEF d, f
  <2>3. d \in BookType /\ BookAgrees(d) /\ ~Indexed(d, r.id)
    BY <1>1, <2>2 DEF Replaces, Indexed
  <2>4. Replaces(d, c, r.id, f)
    BY <2>1, <2>3, OpenReplaces DEF f
  <2>5. Replaces(b, c, r.id, f)
    BY <1>1, <2>2, <2>4, ReplacesTwice
  <2> QED BY <1>4, <2>5 DEF f
<1> QED BY <1>3, <1>4

----------------------------------------------------------------------------
(* Steps of the engine and what they do to the book.  In all that follows a *)
(* modify or cancel is sent to the route of its order's side.               *)

SidesRespected == "other_side" \notin Deviations

\* An order that is closed, or not opened yet, has no index entry.
ClosedUnlisted ==
    \A id \in Ids : told[id] \in {"none", "filled", "canceled"} => ~Indexed(book, id)

\* The order of the request in hand rests, if at all, where the request says.
RequestPlaced ==
    pc # "idle" /\ Indexed(book, req.id) =>
        book.index[req.id].side = req.side /\ book.index[req.id].price = req.price

\* What the book and the request in hand always satisfy.
BookInv == /\ TypeOK
           /\ TreesMatchLevels
           /\ CopiesAgree
           /\ ClosedUnlisted
           /\ RequestPlaced

\* The level an execution takes place at: one of the walk, or the limit.
AtLevel(p) ==
    \/ pc = "walk" /\ walk # {} /\ p = WalkPrice /\ ~LevelDone
    \/ pc = "own" /\ p = req.price /\ book.seq[Opp(req.side)][p] # <<>>

Executes(p) == AtLevel(p) /\ rem > 0 /\
    \/ FrontQty(p) >= rem /\ TakePart(p)
    \/ FrontQty(p) <= rem /\ TakeWhole(p)

\* Every step is one of these.
LEMMA EngineStep ==
    ASSUME TypeOK, [Next]_vars
    PROVE  \/ UNCHANGED vars
           \/ \E user, r : IsRequest(r) /\ Routed(r) /\ Accept(user, r)
           \/ NoCurrentPrice \/ RestLimitOrder
           \/ StartMarketOrder \/ StartLimitOrder
           \/ NextLevel \/ EndWalk \/ EndOwn
           \/ \E p \in Levels : Executes(p)
           \/ KillMarketOrder \/ FinishMarketOrder
           \/ FinishLimitOrder
<1>1. CASE Open \/ Modify \/ Cancel
  <2>1. PICK user, r : /\ IsRequest(r) /\ Routed(r)
                       /\ Accept(user, r) \/ Reject(user, r)
    BY <1>1, RequestStep
  <2>2. CASE Accept(user, r)
    BY <2>1, <2>2
  <2>3. CASE Reject(user, r)
    BY <2>3 DEF Reject
  <2> QED BY <2>1, <2>2, <2>3
<1>2. CASE MarketStep
  <2> DEFINE p == WalkPrice
  <2>1. /\ pc = "walk" /\ walk # {} /\ ~LevelDone /\ rem \in Nat
        /\ \/ FrontQty(p) > rem /\ TakePart(p)
           \/ FrontQty(p) <= rem /\ TakeWhole(p)
    BY <1>2 DEF MarketStep, TypeOK
  <2>2. p \in Levels
    BY <2>1, WalkPriceType
  <2>3. rem > 0 /\ book.seq[Opp(req.side)][p] # <<>>
    BY <2>1 DEF LevelDone
  <2>4. FrontQty(p) \in Nat
    BY <2>2, <2>3, FrontType
  <2>5. Executes(p)
    BY <2>1, <2>3, <2>4 DEF Executes, AtLevel
  <2> HIDE DEF p
  <2> QED BY <2>2, <2>5
<1>3. CASE LimitStep
  <2> DEFINE p == req.price
  <2>1. /\ pc = "own" /\ book.seq[Opp(req.side)][p] # <<>> /\ rem > 0
        /\ \/ FrontQty(p) >= rem /\ TakePart(p)
           \/ FrontQty(p) < rem /\ TakeWhole(p)
    BY <1>3 DEF LimitStep
  <2>2. p \in Levels /\ rem \in Nat
    BY DEF TypeOK, Request
  <2>3. FrontQty(p) \in Nat
    BY <2>1, <2>2, FrontType
  <2>4. Executes(p)
    BY <2>1, <2>2, <2>3 DEF Executes, AtLevel
  <2> HIDE DEF p
  <2> QED BY <2>2, <2>4
<1> QED BY <1>1, <1>2, <1>3
        DEF Next, ProcessOrder, BuyMarketOrder, SellMarketOrder,
            BuyLimitOrder, SellLimitOrder

\* The front order of a level is indexed there, with the quantity it offers,
\* and it is not the order of the request.
LEMMA FrontEntry ==
    ASSUME BookInv, pc # "idle", NEW p \in Levels,
           book.seq[Opp(req.side)][p] # <<>>
    PROVE  /\ FrontOrder(p) \in Ids
           /\ FrontOrder(p) # req.id
           /\ FrontQty(p) \in Nat
           /\ Indexed(book, FrontOrder(p))
           /\ book.index[FrontOrder(p)] =
                [side |-> Opp(req.side), price |-> p, quantity |-> FrontQty(p)]
           /\ HasLevel(book.orders, Opp(req.side), p)
<1> DEFINE o == Opp(req.side)
           m == FrontOrder(p)
<1>1. /\ o \in Side /\ o # req.side /\ req.id \in Ids /\ book \in BookType
      /\ m \in Ids /\ FrontQty(p) \in Nat
      /\ IndexAgrees(book) /\ QueuesAgree(book)
  BY OppSide, FrontType DEF BookInv, TypeOK, Request, CopiesAgree
<1>2. m \in ToSet(book.seq[o][p])
  <2>1. book.seq[o][p] \in Seq(Ids)
    BY <1>1, BookTables
  <2>2. 1 \in DOMAIN book.seq[o][p] /\ m = book.seq[o][p][1]
    BY <2>1 DEF FrontOrder
  <2> QED BY <2>2 DEF ToSet
<1>3. book.orders[o][p][m] # NoOrder
  BY <1>1, <1>2 DEF QueuesAgree
<1>4. /\ book.index[m].side = o /\ book.index[m].price = p
      /\ Indexed(book, m) /\ book.orders[o][p][m] = book.index[m].quantity
  BY <1>1, <1>3, OrderIsEntry
<1>5. book.index[m] \in Entry
  BY <1>1, <1>4, BookTables DEF Indexed
<1>6. FrontQty(p) = book.index[m].quantity
  BY <1>3, <1>4 DEF FrontQty, OrderQty
<1>7. book.index[m] = [side |-> o, price |-> p, quantity |-> FrontQty(p)]
  BY <1>4, <1>5, <1>6 DEF Entry
<1>8. m # req.id
  BY <1>1, <1>4 DEF BookInv, RequestPlaced
<1>9. HasLevel(book.orders, o, p)
  BY <1>1, <1>3 DEF HasLevel
<1> QED BY <1>1, <1>4, <1>7, <1>8, <1>9

\* Where an execution takes place there is a front order.
LEMMA AtLevelFront ==
    ASSUME TypeOK, NEW p, AtLevel(p)
    PROVE  /\ pc \in {"walk", "own"}
           /\ book.seq[Opp(req.side)][p] # <<>>
BY DEF AtLevel, LevelDone

\* The quantity left with the front order, and the order of the request, are
\* all an execution of the first kind touches.
LEMMA PartEffect ==
    ASSUME BookInv, NEW p \in Levels, AtLevel(p), rem > 0,
           FrontQty(p) >= rem, TakePart(p)
    PROVE  LET m == FrontOrder(p)
               o == Opp(req.side)
               e == [side |-> o, price |-> p, quantity |-> FrontQty(p) - rem]
           IN /\ \E c : /\ Replaces(book, c, m, e)
                        /\ Replaces(c, book', req.id, NoEntry)
                        /\ c.seq = book.seq
                        /\ e \in Entry
              /\ Publish(p, rem, "filled", "partially_filled")
              /\ rem' = 0
              /\ pc' = pc
              /\ UNCHANGED <<req, walk>>
<1> DEFINE m == FrontOrder(p)
           o == Opp(req.side)
           r == FrontRequest(p, FrontQty(p) - rem)
           e == [side |-> o, price |-> p, quantity |-> FrontQty(p) - rem]
           c == ProcessModify(book, r)
<1>1. /\ pc # "idle" /\ o \in Side /\ req.id \in Ids /\ req.side \in Side
      /\ rem \in Nat /\ book \in BookType /\ BookAgrees(book)
      /\ book.seq[o][p] # <<>>
  BY OppSide, AtLevelFront DEF BookInv, TypeOK, Request, CopiesAgree, BookAgrees
<1>2. /\ m \in Ids /\ m # req.id /\ Indexed(book, m) /\ FrontQty(p) \in Nat
      /\ book.index[m] = [side |-> o, price |-> p, quantity |-> FrontQty(p)]
  BY <1>1, FrontEntry
<1>3. /\ r.id = m /\ r.side = o /\ r.price = p
      /\ r.quantity = FrontQty(p) - rem /\ IsChange(r) /\ EntryOf(r) = e
  BY <1>1, <1>2 DEF FrontRequest, IsChange, EntryOf
<1>4. Reduces(book, r)
  BY <1>1, <1>2, <1>3 DEF Reduces
<1> HIDE DEF r
<1>5. Replaces(book, c, m, e) /\ c.seq = book.seq
  <2>1. book.index[r.id].side = r.side /\ Indexed(book, r.id)
    BY <1>2, <1>3
  <2>2. Replaces(book, c, r.id, EntryOf(r)) /\ c.seq = book.seq
    BY <1>1, <1>3, <1>4, <2>1, ModifyReplaces
  <2> QED BY <1>3, <2>2
<1>6. /\ book' = ProcessCancel(c, req) /\ rem' = 0 /\ pc' = pc
      /\ Publish(p, rem, "filled", "partially_filled")
      /\ UNCHANGED <<req, walk>>
  BY <1>2 DEF TakePart, TakerLeaves, r
<1> HIDE DEF c
<1>7. /\ c \in BookType /\ BookAgrees(c)
      /\ c.index[req.id] = book.index[req.id]
  BY <1>1, <1>2, <1>5 DEF Replaces
<1>8. Indexed(c, req.id) => c.index[req.id].side = req.side
  BY <1>1, <1>7 DEF Indexed, BookInv, RequestPlaced
<1>9. Replaces(c, book', req.id, NoEntry)
  BY <1>1, <1>6, <1>7, <1>8, CancelReplaces
<1>10. e \in Entry
  BY <1>1, <1>3 DEF Entry, IsChange
<1> QED BY <1>5, <1>6, <1>9, <1>10

\* An execution of the second kind takes the front order out of the book.
LEMMA WholeEffect ==
    ASSUME BookInv, NEW p \in Levels, AtLevel(p), TakeWhole(p)
    PROVE  /\ Replaces(book, book', FrontOrder(p), NoEntry)
           /\ Publish(p, FrontQty(p), "partially_filled", "filled")
           /\ rem' = rem - FrontQty(p)
           /\ UNCHANGED <<pc, req, walk>>
<1> DEFINE m == FrontOrder(p)
           r == FrontRequest(p, FrontQty(p))
<1>1. /\ pc # "idle" /\ book \in BookType /\ BookAgrees(book)
      /\ Opp(req.side) \in Side /\ book.seq[Opp(req.side)][p] # <<>>
  BY OppSide, AtLevelFront DEF BookInv, TypeOK, Request, CopiesAgree, BookAgrees
<1>2. /\ m \in Ids
      /\ book.index[m] = [side |-> Opp(req.side), price |-> p, quantity |-> FrontQty(p)]
  BY <1>1, FrontEntry
<1>3. r.id = m /\ r.side = Opp(req.side)
  BY DEF FrontRequest
<1>4. book' = ProcessCancel(book, r)
  BY DEF TakeWhole
<1> HIDE DEF r
<1>5. Replaces(book, book', r.id, NoEntry)
  BY <1>1, <1>2, <1>3, <1>4, CancelReplaces
<1> QED BY <1>3, <1>5 DEF TakeWhole

\* Dropping a market order takes it out of the book.
LEMMA DropEffect ==
    ASSUME BookInv, pc # "idle", DropMarketOrder
    PROVE  Replaces(book, book', req.id, NoEntry)
<1>1. /\ req.id \in Ids /\ req.side \in Side /\ book \in BookType /\ BookAgrees(book)
      /\ Indexed(book, req.id) => book.index[req.id].side = req.side
  BY DEF BookInv, TypeOK, Request, CopiesAgree, BookAgrees, RequestPlaced
<1>2. book' = ProcessCancel(book, req)
  BY DEF DropMarketOrder
<1> QED BY <1>1, <1>2, CancelReplaces

\* What rests of a limit order rests where the order was.
LEMMA RestEffect ==
    ASSUME BookInv, FinishLimitOrder, rem > 0, Indexed(book, req.id)
    PROVE  Replaces(book, book', req.id,
                    [side |-> req.side, price |-> req.price, quantity |-> rem])
<1> DEFINE r == [req EXCEPT !.quantity = rem]
<1>1. /\ req.id \in Ids /\ req.side \in Side /\ book \in BookType /\ BookAgrees(book)
      /\ req.price \in Levels /\ rem \in Nat /\ req \in Request
      /\ book.index[req.id].side = req.side
  BY DEF BookInv, TypeOK, Request, CopiesAgree, BookAgrees, RequestPlaced,
         FinishLimitOrder
<1>2. /\ r.id = req.id /\ r.side = req.side /\ r.price = req.price
      /\ r.quantity = rem /\ IsChange(r)
      /\ EntryOf(r) = [side |-> req.side, price |-> req.price, quantity |-> rem]
  BY <1>1 DEF Request, IsChange, EntryOf
<1>3. book' = ProcessModify(book, r)
  BY DEF FinishLimitOrder
<1> HIDE DEF r
<1>4. Replaces(book, book', r.id, EntryOf(r))
  BY <1>1, <1>2, <1>3, ModifyReplaces
<1> QED BY <1>2, <1>4

\* The entry an accepted request leaves: none after a cancel.
EntryAfter(n) == IF n.status = "canceled" THEN NoEntry ELSE EntryOf(n)

\* An accepted request writes the entry of its order and nothing else.
LEMMA AcceptEffect ==
    ASSUME BookInv, SidesRespected, NEW user, NEW r,
           IsRequest(r), Routed(r), Accept(user, r)
    PROVE  LET n == Normalised(r)
           IN /\ Replaces(book, book', n.id, EntryAfter(n))
              /\ EntryAfter(n) \in Entry \cup {NoEntry}
              /\ IsChange(n) /\ n \in Request
              /\ n.id = r.id /\ n.side = r.side /\ n.status = r.status
              /\ n.status \in {"open", "modified", "canceled"}
              /\ n.status # "open" => /\ Indexed(book, n.id)
                                      /\ book.index[n.id].side = n.side
<1> DEFINE n == Normalised(r)
<1>1. /\ n \in Request /\ IsChange(n) /\ n.id \in Ids /\ n.side \in Side
      /\ n.id = r.id /\ n.side = r.side /\ n.status = r.status
      /\ book \in BookType /\ BookAgrees(book)
  BY NormalisedType
     DEF BookInv, IsRequest, IsChange, CopiesAgree, BookAgrees, TypeOK
<1>2. n.status \in {"open", "modified", "canceled"}
  BY <1>1 DEF IsRequest, Request
<1>3. book' = Apply(book, n)
  BY DEF Accept
<1>4. EntryOf(n) \in Entry /\ EntryAfter(n) \in Entry \cup {NoEntry}
  BY <1>1 DEF EntryOf, Entry, EntryAfter, IsChange
<1>5. n.status = "open" => ~Indexed(book, n.id)
  BY <1>1 DEF Routed, BookInv, ClosedUnlisted
<1>6. n.status # "open" => Indexed(book, n.id) /\ book.index[n.id].side = n.side
  <2>1. n.status # "open" => Indexed(book, r.id)
    BY <1>1 DEF Accept, Valid
  <2>2. n.status # "open" => r.side \in RouteSides(r.id)
    BY <1>1 DEF Routed
  <2> QED BY <1>1, <2>1, <2>2 DEF RouteSides, SidesRespected
<1> HIDE DEF n
<1>7. CASE n.status = "open"
  <2>1. book' = ProcessOpen(book, n) /\ EntryAfter(n) = EntryOf(n)
    BY <1>3, <1>7 DEF Apply, EntryAfter
  <2>2. Replaces(book, book', n.id, EntryOf(n))
    BY <1>1, <1>5, <1>7, <2>1, OpenReplaces
  <2> QED BY <1>1, <1>2, <1>4, <1>6, <2>1, <2>2 DEF n
<1>8. CASE n.status = "modified"
  <2>1. book' = ProcessModify(book, n) /\ EntryAfter(n) = EntryOf(n)
    BY <1>3, <1>8 DEF Apply, EntryAfter
  <2>2. Replaces(book, book', n.id, EntryOf(n))
    BY <1>1, <1>6, <1>8, <2>1, ModifyReplaces
  <2> QED BY <1>1, <1>2, <1>4, <1>6, <2>1, <2>2 DEF n
<1>9. CASE n.status = "canceled"
  <2>1. book' = ProcessCancel(book, n) /\ EntryAfter(n) = NoEntry
    BY <1>3, <1>9 DEF Apply, EntryAfter
  <2>2. Replaces(book, book', n.id, NoEntry)
    BY <1>1, <1>6, <1>9, <2>1, CancelReplaces
  <2> QED BY <1>1, <1>2, <1>4, <1>6, <2>1, <2>2 DEF n
<1> QED BY <1>2, <1>7, <1>8, <1>9

\* What an accepted request writes besides the book.
LEMMA AcceptWrites ==
    ASSUME NEW user, NEW r, Accept(user, r)
    PROVE  LET n == Normalised(r)
           IN /\ pc = "idle" /\ pc' = "match" /\ req' = n
              /\ told' = [told EXCEPT ![n.id] = n.status]
              /\ due' = [due EXCEPT ![n.id] =
                            IF n.status = "canceled" THEN 0 ELSE n.quantity]
              /\ UNCHANGED <<rem, walk>>
BY DEF Accept

\* The engine's book, before and after.
LEMMA BookKept ==
    ASSUME BookInv
    PROVE  book \in BookType /\ BookAgrees(book) /\ book.index \in [Ids -> Entry \cup {NoEntry}]
BY BookTables DEF BookInv, TypeOK, CopiesAgree, BookAgrees

\* A replaced entry as a part of the next state.
LEMMA ReplacesIndex ==
    ASSUME NEW b, NEW c, NEW id \in Ids, NEW e, Replaces(b, c, id, e)
    PROVE  /\ BookAgrees(c)
           /\ \A x \in Ids : c.index[x] = IF x = id THEN e ELSE b.index[x]
           /\ \A x \in Ids \ {id} : Indexed(c, x) <=> Indexed(b, x)
           /\ Indexed(c, id) <=> e # NoEntry
BY DEF Replaces, Indexed

\* Every step keeps the copies of every order in agreement.
LEMMA NextCopies ==
    ASSUME BookInv, SidesRespected, [Next]_vars
    PROVE  CopiesAgree'
<1> SUFFICES BookAgrees(book')
  BY DEF CopiesAgree, BookAgrees, IndexAgrees, QueuesAgree, TotalsAgree, OrderQty
<1>1. BookAgrees(book)
  BY BookKept
<1>2. CASE UNCHANGED book
  BY <1>1, <1>2
<1>3. ASSUME NEW user, NEW r, IsRequest(r), Routed(r), Accept(user, r)
      PROVE  BookAgrees(book')
  BY <1>3, AcceptEffect DEF Replaces
<1>4. ASSUME NEW p \in Levels, Executes(p)
      PROVE  BookAgrees(book')
  <2>1. CASE FrontQty(p) >= rem /\ TakePart(p)
    BY <1>4, <2>1, PartEffect DEF Replaces, Executes
  <2>2. CASE FrontQty(p) <= rem /\ TakeWhole(p)
    BY <1>4, <2>2, WholeEffect DEF Replaces, Executes
  <2> QED BY <1>4, <2>1, <2>2 DEF Executes
<1>5. CASE KillMarketOrder \/ FinishMarketOrder
  BY <1>5, DropEffect DEF Replaces, KillMarketOrder, FinishMarketOrder
<1>6. CASE FinishLimitOrder
  <2>1. CASE rem > 0 /\ Indexed(book, req.id)
    BY <1>6, <2>1, RestEffect DEF Replaces
  <2>2. CASE ~(rem > 0 /\ Indexed(book, req.id))
    BY <1>2, <1>6, <2>2 DEF FinishLimitOrder
  <2> QED BY <2>1, <2>2
<1>7. CASE \/ NoCurrentPrice \/ RestLimitOrder \/ StartMarketOrder
           \/ StartLimitOrder \/ NextLevel \/ EndWalk \/ EndOwn \/ UNCHANGED vars
  BY <1>2, <1>7 DEF NoCurrentPrice, RestLimitOrder, StartMarketOrder,
     StartLimitOrder, NextLevel, EndWalk, EndOwn, vars
<1> QED BY <1>3, <1>4, <1>5, <1>6, <1>7, EngineStep DEF BookInv

\* What an execution tells and what it takes off the quantities due.
LEMMA PublishWrites ==
    ASSUME BookInv, NEW p \in Levels, AtLevel(p), NEW v \in Nat,
           NEW ts, NEW ms, Publish(p, v, ts, ms)
    PROVE  LET m == FrontOrder(p)
               o == Opp(req.side)
           IN /\ \A x \in Ids : told'[x] =
                    IF x = m THEN ms ELSE IF x = req.id THEN ts ELSE told[x]
              /\ \A x \in Ids : due'[x] =
                    IF x = m \/ x = req.id THEN due[x] - v ELSE due[x]
              /\ \A s \in Side, q \in Levels : feed'[s][q] =
                    IF s = o /\ q = p THEN book'.total[o][p] ELSE feed[s][q]
              /\ deal' = [taker |-> req.id, maker |-> m, price |-> p, quantity |-> v]
<1> DEFINE m == FrontOrder(p)
           o == Opp(req.side)
<1>1. /\ told \in [Ids -> Status] /\ due \in [Ids -> Int] /\ req.id \in Ids
      /\ feed \in [Side -> [Levels -> Int]] /\ o \in Side /\ pc # "idle"
  BY OppSide, AtLevelFront DEF BookInv, TypeOK, Request
<1>2. m \in Ids /\ m # req.id
  BY <1>1, AtLevelFront, FrontEntry DEF BookInv
<1> HIDE DEF m, o
<1>3. /\ told' = [told EXCEPT ![req.id] = ts, ![m] = ms]
      /\ due' = [due EXCEPT ![req.id] = @ - v, ![m] = @ - v]
      /\ feed' = [feed EXCEPT ![o][p] = book'.total[o][p]]
      /\ deal' = [taker |-> req.id, maker |-> m, price |-> p, quantity |-> v]
  BY DEF Publish, m, o
<1>4. \A x \in Ids : told'[x] =
        IF x = m THEN ms ELSE IF x = req.id THEN ts ELSE told[x]
  BY <1>1, <1>2, <1>3
<1>5. \A x \in Ids : due'[x] = IF x = m \/ x = req.id THEN due[x] - v ELSE due[x]
  BY <1>1, <1>2, <1>3
<1>6. \A s \in Side, q \in Levels : feed'[s][q] =
        IF s = o /\ q = p THEN book'.total[o][p] ELSE feed[s][q]
  <2> DEFINE w == book'.total[o][p]
  <2>1. feed' = [feed EXCEPT ![o][p] = w]
    BY <1>3
  <2> HIDE DEF w
  <2>2. \A s \in Side, q \in Levels : feed'[s][q] =
          IF s = o /\ q = p THEN w ELSE feed[s][q]
    BY <1>1, <2>1, CellWritten
  <2> QED BY <2>2 DEF w
<1> QED BY <1>3, <1>4, <1>5, <1>6 DEF m, o

\* The front order an execution is against.
LEMMA ExecutionFront ==
    ASSUME BookInv, NEW p \in Levels, AtLevel(p)
    PROVE  /\ FrontOrder(p) \in Ids
           /\ FrontOrder(p) # req.id
           /\ FrontQty(p) \in Nat
           /\ Indexed(book, FrontOrder(p))
           /\ book.index[FrontOrder(p)] =
                [side |-> Opp(req.side), price |-> p, quantity |-> FrontQty(p)]
           /\ HasLevel(book.orders, Opp(req.side), p)
           /\ req.id \in Ids /\ pc # "idle" /\ rem \in Nat /\ req.side \in Side
           /\ Opp(req.side) \in Side /\ Opp(req.side) # req.side
<1>1. pc # "idle" /\ book.seq[Opp(req.side)][p] # <<>>
  BY AtLevelFront DEF BookInv
<1>2. /\ req.id \in Ids /\ rem \in Nat /\ req.side \in Side
      /\ Opp(req.side) \in Side /\ Opp(req.side) # req.side
  BY <1>1, OppSide DEF BookInv, TypeOK, Request
<1> QED BY <1>1, <1>2, FrontEntry

\* The index after an execution: the front order has lost what was executed or
\* is gone, and the order of the request is gone or as it was.
LEMMA ExecutionIndex ==
    ASSUME BookInv, NEW p \in Levels, Executes(p)
    PROVE  LET m == FrontOrder(p)
               left == [side |-> Opp(req.side), price |-> p,
                        quantity |-> FrontQty(p) - rem]
           IN /\ UNCHANGED <<pc, req, walk>>
              /\ \/ /\ FrontQty(p) >= rem
                    /\ Publish(p, rem, "filled", "partially_filled")
                    /\ rem' = 0
                    /\ left \in Entry
                    /\ \A x \in Ids : book'.index[x] =
                          IF x = m THEN left
                          ELSE IF x = req.id THEN NoEntry ELSE book.index[x]
                 \/ /\ FrontQty(p) <= rem
                    /\ Publish(p, FrontQty(p), "partially_filled", "filled")
                    /\ rem' = rem - FrontQty(p)
                    /\ \A x \in Ids : book'.index[x] =
                          IF x = m THEN NoEntry ELSE book.index[x]
<1> DEFINE m == FrontOrder(p)
           left == [side |-> Opp(req.side), price |-> p,
                    quantity |-> FrontQty(p) - rem]
<1>1. AtLevel(p) /\ rem > 0
  BY DEF Executes
<1>2. m # req.id /\ m \in Ids /\ req.id \in Ids
  BY <1>1, ExecutionFront
<1>3. CASE FrontQty(p) >= rem /\ TakePart(p)
  <2>1. /\ Publish(p, rem, "filled", "partially_filled") /\ rem' = 0
        /\ UNCHANGED <<pc, req, walk>>
    BY <1>1, <1>3, PartEffect
  <2>2. PICK c : /\ Replaces(book, c, m, left)
                 /\ Replaces(c, book', req.id, NoEntry)
                 /\ left \in Entry
    BY <1>1, <1>3, PartEffect
  <2> HIDE DEF m, left
  <2>3. \A x \in Ids : book'.index[x] =
          IF x = m THEN left ELSE IF x = req.id THEN NoEntry ELSE book.index[x]
    <3>1. \A x \in Ids : c.index[x] = IF x = m THEN left ELSE book.index[x]
      BY <2>2 DEF Replaces
    <3>2. \A x \in Ids : book'.index[x] = IF x = req.id THEN NoEntry ELSE c.index[x]
      BY <2>2 DEF Replaces
    <3> QED BY <1>2, <3>1, <3>2
  <2> QED BY <1>3, <2>1, <2>2, <2>3 DEF m, left
<1>4. CASE FrontQty(p) <= rem /\ TakeWhole(p)
  <2>1. /\ Publish(p, FrontQty(p), "partially_filled", "filled")
        /\ rem' = rem - FrontQty(p) /\ UNCHANGED <<pc, req, walk>>
        /\ Replaces(book, book', m, NoEntry)
    BY <1>1, <1>4, WholeEffect
  <2> HIDE DEF m
  <2>2. \A x \in Ids : book'.index[x] = IF x = m THEN NoEntry ELSE book.index[x]
    BY <1>2, <2>1, ReplacesIndex
  <2> QED BY <1>4, <2>1, <2>2 DEF m
<1> QED BY <1>3, <1>4 DEF Executes

\* Every step keeps closed orders out of the index.
LEMMA NextClosed ==
    ASSUME BookInv, SidesRespected, [Next]_vars
    PROVE  ClosedUnlisted'
<1> DEFINE Closed == {"none", "filled", "canceled"}
<1> SUFFICES ASSUME NEW id \in Ids, told'[id] \in Closed
             PROVE  book'.index[id] = NoEntry
  BY DEF ClosedUnlisted, Indexed
<1>1. /\ told[id] \in Closed => book.index[id] = NoEntry
      /\ told \in [Ids -> Status]
      /\ pc # "idle" => req.id \in Ids
  BY DEF BookInv, ClosedUnlisted, Indexed, TypeOK
<1>2. CASE UNCHANGED <<book, told>>
  BY <1>1, <1>2
<1>3. ASSUME NEW user, NEW r, IsRequest(r), Routed(r), Accept(user, r)
      PROVE  book'.index[id] = NoEntry
  <2> DEFINE n == Normalised(r)
  <2>1. /\ n.id \in Ids
        /\ n.status \in {"open", "modified", "canceled"}
        /\ Replaces(book, book', n.id, EntryAfter(n))
    BY <1>3, AcceptEffect DEF IsRequest
  <2>2. told' = [told EXCEPT ![n.id] = n.status]
    BY <1>3, AcceptWrites
  <2> HIDE DEF n
  <2>3. book'.index[id] = IF id = n.id THEN EntryAfter(n) ELSE book.index[id]
    BY <2>1 DEF Replaces
  <2>6. told \in [Ids -> Status]
    BY <1>1
  <2>4. CASE id = n.id
    <3>1. told'[id] = n.status
      BY <2>2, <2>4, <2>6
    <3>2. n.status = "canceled"
      BY <2>1, <3>1
    <3> QED BY <2>3, <2>4, <3>2 DEF EntryAfter
  <2>5. CASE id # n.id
    <3>1. told'[id] = told[id]
      BY <1>1, <2>1, <2>2, <2>5
    <3> QED BY <1>1, <2>3, <2>5, <3>1
  <2> QED BY <2>4, <2>5
<1>4. ASSUME NEW p \in Levels, Executes(p)
      PROVE  book'.index[id] = NoEntry
  <2> DEFINE m == FrontOrder(p)
  <2>1. AtLevel(p) /\ rem \in Nat /\ FrontQty(p) \in Nat
    BY <1>4, ExecutionFront DEF Executes
  <2>2. CASE /\ Publish(p, rem, "filled", "partially_filled")
             /\ \A x \in Ids \ {m} : book'.index[x] =
                    IF x = req.id THEN NoEntry ELSE book.index[x]
    <3>1. told'[id] = IF id = m THEN "partially_filled"
                      ELSE IF id = req.id THEN "filled" ELSE told[id]
      BY <2>1, <2>2, PublishWrites
    <3> HIDE DEF m
    <3>2. id # m
      BY <3>1
    <3>3. book'.index[id] = IF id = req.id THEN NoEntry ELSE book.index[id]
      BY <2>2, <3>2
    <3>4. id # req.id => told[id] \in Closed
      BY <3>1, <3>2
    <3> QED BY <1>1, <3>3, <3>4
  <2>3. CASE /\ Publish(p, FrontQty(p), "partially_filled", "filled")
             /\ \A x \in Ids : book'.index[x] =
                    IF x = m THEN NoEntry ELSE book.index[x]
    <3>1. told'[id] = IF id = m THEN "filled"
                      ELSE IF id = req.id THEN "partially_filled" ELSE told[id]
      BY <2>1, <2>3, PublishWrites
    <3> HIDE DEF m
    <3> QED BY <1>1, <2>3, <3>1
  <2> QED BY <1>4, <2>2, <2>3, ExecutionIndex
<1>5. CASE KillMarketOrder \/ FinishMarketOrder
  <2>1. DropMarketOrder /\ pc # "idle"
    BY <1>5 DEF KillMarketOrder, FinishMarketOrder
  <2>2. book'.index[id] = IF id = req.id THEN NoEntry ELSE book.index[id]
    BY <2>1, DropEffect DEF Replaces
  <2>3. id # req.id => told'[id] = told[id]
    BY <1>1, <2>1 DEF DropMarketOrder
  <2> QED BY <1>1, <2>2, <2>3
<1>6. CASE FinishLimitOrder
  <2>1. CASE rem > 0 /\ Indexed(book, req.id)
    <3>1. told' = told
      BY <1>6, <2>1 DEF FinishLimitOrder
    <3>2. id # req.id
      BY <1>1, <2>1, <3>1 DEF Indexed
    <3>3. book'.index[id] = book.index[id]
      BY <1>6, <2>1, <3>2, RestEffect DEF Replaces
    <3> QED BY <1>1, <3>1, <3>3
  <2>2. CASE ~(rem > 0 /\ Indexed(book, req.id))
    BY <1>2, <1>6, <2>2 DEF FinishLimitOrder
  <2> QED BY <2>1, <2>2
<1>7. CASE \/ NoCurrentPrice \/ RestLimitOrder \/ StartMarketOrder
           \/ StartLimitOrder \/ NextLevel \/ EndWalk \/ EndOwn \/ UNCHANGED vars
  BY <1>2, <1>7 DEF NoCurrentPrice, RestLimitOrder, StartMarketOrder,
     StartLimitOrder, NextLevel, EndWalk, EndOwn, vars
<1> QED BY <1>3, <1>4, <1>5, <1>6, <1>7, EngineStep DEF BookInv

\* Every step keeps the order of the request where the request says.
LEMMA NextPlaced ==
    ASSUME BookInv, SidesRespected, [Next]_vars
    PROVE  RequestPlaced'
<1> DEFINE Placed(e, r) == e # NoEntry => e.side = r.side /\ e.price = r.price
<1> SUFFICES ASSUME pc' # "idle" PROVE Placed(book'.index[req'.id], req')
  BY DEF RequestPlaced, Indexed
<1>1. pc # "idle" => req.id \in Ids /\ Placed(book.index[req.id], req)
  BY DEF BookInv, RequestPlaced, Indexed, TypeOK
<1>2. CASE UNCHANGED <<book, req>> /\ pc # "idle"
  BY <1>1, <1>2
<1>3. ASSUME NEW user, NEW r, IsRequest(r), Routed(r), Accept(user, r)
      PROVE  Placed(book'.index[req'.id], req')
  <2> DEFINE n == Normalised(r)
  <2>1. n.id \in Ids /\ Replaces(book, book', n.id, EntryAfter(n))
    BY <1>3, AcceptEffect DEF IsRequest
  <2>2. req' = n
    BY <1>3, AcceptWrites
  <2> HIDE DEF n
  <2>3. book'.index[n.id] = EntryAfter(n)
    BY <2>1 DEF Replaces
  <2> QED BY <2>2, <2>3 DEF EntryAfter, EntryOf
<1>4. ASSUME NEW p \in Levels, Executes(p)
      PROVE  Placed(book'.index[req'.id], req')
  <2>1. /\ AtLevel(p) /\ req.id \in Ids /\ pc # "idle" /\ req.id # FrontOrder(p)
    BY <1>4, ExecutionFront DEF Executes
  <2>2. /\ book'.index[req.id] \in {NoEntry, book.index[req.id]}
        /\ req' = req
    BY <1>4, <2>1, ExecutionIndex
  <2> QED BY <1>1, <2>1, <2>2
<1>5. CASE KillMarketOrder \/ FinishMarketOrder
  BY <1>5 DEF KillMarketOrder, FinishMarketOrder, DropMarketOrder, Return
<1>6. CASE FinishLimitOrder
  <2>1. pc # "idle" /\ UNCHANGED <<book, req>>
    BY <1>6 DEF FinishLimitOrder, Return
  <2> QED BY <1>2, <2>1
<1>7. CASE \/ NoCurrentPrice \/ RestLimitOrder \/ StartMarketOrder
           \/ StartLimitOrder \/ NextLevel \/ EndWalk \/ EndOwn \/ UNCHANGED vars
  BY <1>2, <1>7 DEF NoCurrentPrice, RestLimitOrder, StartMarketOrder, Return,
     StartLimitOrder, NextLevel, EndWalk, EndOwn, vars
<1> QED BY <1>3, <1>4, <1>5, <1>6, <1>7, EngineStep DEF BookInv

\* The empty book agrees with itself.
LEMMA InitBook == Init => BookInv
<1> SUFFICES ASSUME Init PROVE BookInv
  OBVIOUS
<1>1. TypeOK /\ book = EmptyBook
  BY InitType DEF Init
<1>2. TreesMatchLevels
  BY <1>1 DEF TreesMatchLevels, TreesAgree, EmptyBook, HasLevel, Side
<1>3. \A id \in Ids : book.index[id] = NoEntry
  BY <1>1 DEF EmptyBook
<1>4. \A s \in Side, p \in Levels :
        /\ book.seq[s][p] = <<>> /\ book.total[s][p] = 0
        /\ \A id \in Ids : book.orders[s][p][id] = NoOrder
  BY <1>1 DEF EmptyBook
<1>5. IndexAgrees(book)
  BY <1>3, <1>4 DEF IndexAgrees, NoEntry, Side
<1>6. QueuesAgree(book)
  <2>1. IsInjective(<<>>) /\ ToSet(<<>>) = {}
    BY DEF IsInjective, ToSet
  <2> QED BY <1>4, <2>1 DEF QueuesAgree
<1>7. TotalsAgree(book)
  <2> SUFFICES ASSUME NEW s \in Side, NEW p \in Levels
               PROVE  Sum([id \in Ids |-> OrderQty(book, s, p, id)], Ids) = 0
    BY <1>4 DEF TotalsAgree, Sum
  <2> DEFINE f == [id \in Ids |-> OrderQty(book, s, p, id)]
  <2>1. \A id \in Ids : f[id] = 0
    BY <1>4 DEF OrderQty
  <2> HIDE DEF f
  <2>2. Sum(f, Ids) = 0
    BY <2>1, FinitelyManyOrders, SumZero
  <2> QED BY <2>2 DEF f
<1>8. ClosedUnlisted /\ RequestPlaced
  BY <1>3 DEF ClosedUnlisted, RequestPlaced, Indexed, Init
<1> QED BY <1>1, <1>2, <1>5, <1>6, <1>7, <1>8 DEF BookInv, CopiesAgree

\* The invariant is inductive.
LEMMA NextBook ==
    ASSUME BookInv, SidesRespected, [Next]_vars
    PROVE  BookInv'
BY NextType, NextTrees, NextCopies, NextClosed, NextPlaced DEF BookInv

\* Level map, index entry, place in a queue and share of a total never
\* disagree about an order, whatever sequence of requests the engine works
\* off, as long as modifies and cancels name the side of their order.
THEOREM CopiesAlwaysAgree ==
    ASSUME SidesRespected
    PROVE  Spec => []CopiesAgree
<1>1. Init => BookInv
  BY InitBook
<1>2. BookInv /\ [Next]_vars => BookInv'
  BY NextBook
<1>3. BookInv => CopiesAgree
  BY DEF BookInv
<1> QED BY <1>1, <1>2, <1>3, PTL DEF Spec

\* The invariant itself, for the theorems that follow.
LEMMA BookInvariant ==
    ASSUME SidesRespected
    PROVE  Spec => []BookInv
<1>1. Init => BookInv
  BY InitBook
<1>2. BookInv /\ [Next]_vars => BookInv'
  BY NextBook
<1> QED BY <1>1, <1>2, PTL DEF Spec

\* An owner who was told that an order is closed has none left in the book.
THEOREM ClosedAlwaysGone ==
    ASSUME SidesRespected
    PROVE  Spec => []ClosedIsGone
<1>1. BookInv => ClosedIsGone
  <2> SUFFICES ASSUME BookInv, NEW id \in Ids,
                      told[id] \in {"none", "filled", "canceled"},
                      NEW s \in Side, NEW p \in Levels
               PROVE  /\ book.orders[s][p][id] = NoOrder
                      /\ id \notin ToSet(book.seq[s][p])
    BY DEF ClosedIsGone
  <2>1. ~Indexed(book, id) /\ book \in BookType /\ IndexAgrees(book) /\ QueuesAgree(book)
    BY DEF BookInv, ClosedUnlisted, TypeOK, CopiesAgree
  <2>2. book.orders[s][p][id] = NoOrder
    BY <2>1, OrderIsEntry
  <2> QED BY <2>1, <2>2 DEF QueuesAgree
<1> QED BY <1>1, BookInvariant, PTL

----------------------------------------------------------------------------
(* What an owner is owed.                                                   *)

\* What is still due of an order is covered by what it offers in the book, or,
\* for the order of the request that is matched, by what remains of the
\* request: until FinishLimitOrder puts that back, the book offers too little.
DueCovered ==
    /\ \A id \in Ids : pc = "idle" \/ id # req.id => due[id] <= book.index[id].quantity
    /\ pc = "match" => /\ due[req.id] <= book.index[req.id].quantity
                       /\ due[req.id] <= req.quantity
    /\ pc \in {"walk", "own", "finish"} => due[req.id] <= rem

\* The numbers the comparison is between.
LEMMA DueNumbers ==
    ASSUME TypeOK
    PROVE  \A id \in Ids : due[id] \in Int /\ book.index[id].quantity \in Nat
BY BookTables, EntryTypes DEF TypeOK

\* An accepted request: its order is owed what the request asks for.
LEMMA AcceptDue ==
    ASSUME BookInv, SidesRespected, DueCovered, NEW user, NEW r,
           IsRequest(r), Routed(r), Accept(user, r)
    PROVE  DueCovered'
<1> DEFINE n == Normalised(r)
<1>1. /\ n.id \in Ids /\ n \in Request
      /\ Replaces(book, book', n.id, EntryAfter(n))
  BY AcceptEffect DEF IsRequest
<1>2. /\ pc = "idle" /\ pc' = "match" /\ req' = n
      /\ due' = [due EXCEPT ![n.id] = IF n.status = "canceled" THEN 0 ELSE n.quantity]
  BY AcceptWrites
<1> HIDE DEF n
<1>3. \A x \in Ids : book'.index[x] = IF x = n.id THEN EntryAfter(n) ELSE book.index[x]
  BY <1>1 DEF Replaces
<1>4. due \in [Ids -> Int] /\ n.quantity \in Nat
  BY <1>1 DEF BookInv, TypeOK, Request
<1>5. \A x \in Ids : due'[x] =
        IF x = n.id THEN IF n.status = "canceled" THEN 0 ELSE n.quantity ELSE due[x]
  BY <1>2, <1>4
<1>6. EntryAfter(n).quantity = IF n.status = "canceled" THEN 0 ELSE n.quantity
  BY DEF EntryAfter, EntryOf, NoEntry
<1>7. \A x \in Ids : due[x] <= book.index[x].quantity
  BY <1>2 DEF DueCovered
<1>8. \A x \in Ids : due'[x] <= book'.index[x].quantity
  <2> TAKE x \in Ids
  <2>1. CASE x = n.id
    BY <1>3, <1>4, <1>5, <1>6, <2>1
  <2>2. CASE x # n.id
    BY <1>3, <1>5, <1>7, <2>2
  <2> QED BY <2>1, <2>2
<1>9. due'[n.id] <= n.quantity
  BY <1>1, <1>4, <1>5
<1> QED BY <1>1, <1>2, <1>8, <1>9 DEF DueCovered

\* An execution takes the same off what is due and off what is offered.
LEMMA ExecutionDue ==
    ASSUME BookInv, DueCovered, NEW p \in Levels, Executes(p)
    PROVE  DueCovered'
<1> DEFINE m == FrontOrder(p)
           w == FrontQty(p)
           left == [side |-> Opp(req.side), price |-> p, quantity |-> w - rem]
<1>1. AtLevel(p) /\ pc \in {"walk", "own"}
  BY AtLevelFront DEF Executes, BookInv
<1>2. /\ m \in Ids /\ m # req.id /\ req.id \in Ids
      /\ w \in Nat /\ rem \in Nat /\ book.index[m].quantity = w
  <2>1. /\ m \in Ids /\ m # req.id /\ req.id \in Ids /\ w \in Nat /\ rem \in Nat
        /\ book.index[m] = [side |-> Opp(req.side), price |-> p, quantity |-> w]
    BY <1>1, ExecutionFront
  <2> QED BY <2>1
<1>3. /\ \A x \in Ids \ {req.id} : due[x] <= book.index[x].quantity
      /\ due[req.id] <= rem
  BY <1>1 DEF DueCovered
<1>4. \A x \in Ids : due[x] \in Int /\ book.index[x].quantity \in Nat
  BY DueNumbers DEF BookInv
<1>5. UNCHANGED <<pc, req>>
  BY ExecutionIndex
<1>6. SUFFICES /\ \A x \in Ids \ {req.id} : due'[x] <= book'.index[x].quantity
               /\ due'[req.id] <= rem'
  BY <1>1, <1>5 DEF DueCovered
<1>7. CASE /\ w >= rem
           /\ Publish(p, rem, "filled", "partially_filled")
           /\ rem' = 0
           /\ \A x \in Ids : book'.index[x] =
                IF x = m THEN left ELSE IF x = req.id THEN NoEntry ELSE book.index[x]
  <2>1. \A x \in Ids : due'[x] = IF x = m \/ x = req.id THEN due[x] - rem ELSE due[x]
    BY <1>1, <1>2, <1>7, PublishWrites
  <2>2. left.quantity = w - rem
    OBVIOUS
  <2> HIDE DEF m, w, left
  <2>3. due'[m] <= book'.index[m].quantity
    BY <1>2, <1>3, <1>4, <1>7, <2>1, <2>2
  <2>4. \A x \in Ids \ {req.id, m} : due'[x] <= book'.index[x].quantity
    BY <1>3, <1>7, <2>1
  <2>5. due'[req.id] <= rem'
    BY <1>2, <1>3, <1>4, <1>7, <2>1
  <2> QED BY <2>3, <2>4, <2>5
<1>8. CASE /\ w <= rem
           /\ Publish(p, w, "partially_filled", "filled")
           /\ rem' = rem - w
           /\ \A x \in Ids : book'.index[x] = IF x = m THEN NoEntry ELSE book.index[x]
  <2>1. \A x \in Ids : due'[x] = IF x = m \/ x = req.id THEN due[x] - w ELSE due[x]
    BY <1>1, <1>2, <1>8, PublishWrites
  <2>2. NoEntry.quantity = 0
    BY DEF NoEntry
  <2> HIDE DEF m, w
  <2>3. due'[m] <= book'.index[m].quantity
    BY <1>2, <1>3, <1>4, <1>8, <2>1, <2>2
  <2>4. \A x \in Ids \ {req.id, m} : due'[x] <= book'.index[x].quantity
    BY <1>3, <1>8, <2>1
  <2>5. due'[req.id] <= rem'
    BY <1>2, <1>3, <1>4, <1>8, <2>1
  <2> QED BY <2>3, <2>4, <2>5
<1> QED BY <1>7, <1>8, ExecutionIndex

\* A dropped market order is owed nothing any more.
LEMMA DropDue ==
    ASSUME BookInv, DueCovered, KillMarketOrder \/ FinishMarketOrder
    PROVE  DueCovered'
<1>1. DropMarketOrder /\ pc # "idle" /\ req.id \in Ids
  BY DEF KillMarketOrder, FinishMarketOrder, BookInv, TypeOK
<1>2. \A x \in Ids : book'.index[x] = IF x = req.id THEN NoEntry ELSE book.index[x]
  BY <1>1, DropEffect DEF Replaces
<1>3. due \in [Ids -> Int]
  BY DEF BookInv, TypeOK
<1>4. \A x \in Ids : due'[x] =
        IF x = req.id THEN IF due[x] > 0 THEN 0 ELSE due[x] ELSE due[x]
  BY <1>1, <1>3 DEF DropMarketOrder
<1>5. \A x \in Ids \ {req.id} : due[x] <= book.index[x].quantity
  BY DEF DueCovered
<1>6. \A x \in Ids : due'[x] <= book'.index[x].quantity
  <2> TAKE x \in Ids
  <2>1. CASE x = req.id
    BY <1>2, <1>3, <1>4, <2>1 DEF NoEntry
  <2>2. CASE x # req.id
    BY <1>2, <1>4, <1>5, <2>2
  <2> QED BY <2>1, <2>2
<1>7. pc' = "idle"
  BY <1>1 DEF DropMarketOrder, Return
<1> QED BY <1>6, <1>7 DEF DueCovered

\* What remains of a limit order is what the book offers of it again.
LEMMA FinishDue ==
    ASSUME BookInv, DueCovered, FinishLimitOrder
    PROVE  DueCovered'
<1>1. /\ pc = "finish" /\ req.id \in Ids /\ rem \in Nat /\ UNCHANGED due
  BY DEF FinishLimitOrder, BookInv, TypeOK
<1>2. /\ \A x \in Ids \ {req.id} : due[x] <= book.index[x].quantity
      /\ due[req.id] <= rem
  BY <1>1 DEF DueCovered
<1>3. \A x \in Ids : due[x] \in Int /\ book.index[x].quantity \in Nat
  BY DueNumbers DEF BookInv
<1>4. CASE rem > 0 /\ ~Indexed(book, req.id)
  <2>1. pc' = "panicked" /\ UNCHANGED <<book, req>>
    BY <1>4 DEF FinishLimitOrder
  <2> QED BY <1>1, <1>2, <2>1 DEF DueCovered
<1>5. CASE rem > 0 /\ Indexed(book, req.id)
  <2>1. pc' = "idle"
    BY <1>5 DEF FinishLimitOrder, Return
  <2> DEFINE e == [side |-> req.side, price |-> req.price, quantity |-> rem]
  <2>2. Replaces(book, book', req.id, e) /\ e.quantity = rem
    BY <1>5, RestEffect
  <2> HIDE DEF e
  <2>3. \A x \in Ids : book'.index[x] = IF x = req.id THEN e ELSE book.index[x]
    BY <2>2 DEF Replaces
  <2>4. \A x \in Ids : due[x] <= book'.index[x].quantity
    BY <1>2, <2>2, <2>3
  <2> QED BY <1>1, <2>1, <2>4 DEF DueCovered
<1>6. CASE ~(rem > 0)
  <2>1. pc' = "idle" /\ UNCHANGED book
    BY <1>6 DEF FinishLimitOrder, Return
  <2>2. \A x \in Ids : due[x] <= book.index[x].quantity
    BY <1>1, <1>2, <1>3, <1>6
  <2> QED BY <1>1, <2>1, <2>2 DEF DueCovered
<1> QED BY <1>4, <1>5, <1>6

\* Every step keeps what is due covered.
LEMMA NextDue ==
    ASSUME BookInv, SidesRespected, DueCovered, [Next]_vars
    PROVE  DueCovered'
<1>1. CASE UNCHANGED vars
  BY <1>1 DEF DueCovered, vars
<1>2. CASE NoCurrentPrice \/ RestLimitOrder
  <2>1. pc = "match" /\ pc' = "idle" /\ UNCHANGED <<book, due>>
    BY <1>2 DEF NoCurrentPrice, RestLimitOrder, Return
  <2> QED BY <2>1 DEF DueCovered
<1>3. CASE StartMarketOrder \/ StartLimitOrder
  <2>1. /\ pc = "match" /\ pc' = "walk" /\ rem' = req.quantity
        /\ UNCHANGED <<book, due, req>>
    BY <1>3 DEF StartMarketOrder, StartLimitOrder
  <2> QED BY <2>1 DEF DueCovered
<1>4. CASE NextLevel \/ EndWalk \/ EndOwn
  <2>1. /\ pc \in {"walk", "own"} /\ pc' \in {"walk", "own", "finish"}
        /\ UNCHANGED <<book, due, req, rem>>
    BY <1>4 DEF NextLevel, EndWalk, EndOwn
  <2> QED BY <2>1 DEF DueCovered
<1> QED BY <1>1, <1>2, <1>3, <1>4, AcceptDue, ExecutionDue, DropDue, FinishDue,
           EngineStep DEF BookInv

\* No order loses quantity its owner is owed, however a request is matched.
THEOREM NothingEverLost ==
    ASSUME SidesRespected
    PROVE  Spec => []NothingLost
<1>1. Init => DueCovered
  <2> SUFFICES ASSUME Init PROVE DueCovered
    OBVIOUS
  <2>1. \A id \in Ids : due[id] = 0 /\ book.index[id].quantity = 0
    BY DEF Init, EmptyBook, NoEntry
  <2> QED BY <2>1 DEF DueCovered, Init
<1>2. BookInv /\ DueCovered /\ [Next]_vars => DueCovered'
  BY NextDue
<1>3. DueCovered => NothingLost
  BY DEF DueCovered, NothingLost, Indexed, NoEntry
<1> QED BY <1>1, <1>2, <1>3, BookInvariant, PTL DEF Spec

----------------------------------------------------------------------------
(* Market orders.                                                           *)

\* GetIPOPrice answers; a cancel does not say "type":"market".
PriceKnown == "ipo_error" \notin Deviations
CancelsUntyped == "typed_cancel" \notin Deviations

\* The type and the price of a request that was accepted: the market price
\* goes with the type market, except that a cancel has the price of its order.
LEMMA AcceptPrice ==
    ASSUME BookInv, NEW user, NEW r, IsRequest(r), Routed(r), Accept(user, r)
    PROVE  LET n == Normalised(r)
           IN /\ n.type \in {"limit", "market"}
              /\ n.status = "canceled" => n.price = book.index[n.id].price
              /\ n.status # "canceled" =>
                    (n.price = MarketPrice <=> n.type = "market")
              /\ CancelsUntyped /\ n.type = "market" => n.price = MarketPrice
<1> DEFINE n == Normalised(r)
           e == book.index[r.id]
           type == IF r.status = "open" \/ r.type # "none" THEN r.type
                   ELSE IF e.price = MarketPrice THEN "market" ELSE "limit"
           price == IF r.status = "canceled" THEN e.price
                    ELSE IF type = "market" THEN MarketPrice ELSE r.price
           quantity == IF r.status = "canceled" THEN e.quantity ELSE r.quantity
<1>1. n = [r EXCEPT !.type = type, !.price = price, !.quantity = quantity]
  BY DEF Normalised
<1>2. r \in Request
  BY DEF IsRequest
<1>3. /\ r.type \in {"none", "limit", "market"}
      /\ r.status = "open" => r.type \in {"limit", "market"}
      /\ r.price > 0 \/ r.type = "market" \/ r.status = "canceled"
      /\ r.status = "canceled" => r.type \in CancelTypes
  BY <1>2 DEF Accept, Valid, Routed, Request
<1> HIDE DEF type, price, quantity, n
<1>4. n.type = type /\ n.price = price /\ n.id = r.id /\ n.status = r.status
  BY <1>1, <1>2 DEF Request
<1>5. type \in {"limit", "market"}
  BY <1>3 DEF type
<1>6. r.status = "canceled" => price = e.price
  BY DEF price
<1>7. r.status # "canceled" => (price = MarketPrice <=> type = "market")
  BY <1>3 DEF price, type, MarketPrice
<1>8. CancelsUntyped /\ type = "market" => price = MarketPrice
  <2>1. CancelsUntyped /\ r.status = "canceled" => r.type \in {"none", "limit"}
    BY <1>3 DEF CancelTypes, CancelsUntyped
  <2> QED BY <1>6, <1>7, <2>1 DEF type
<1> QED BY <1>4, <1>5, <1>6, <1>7, <1>8 DEF n

\* A market order is in the book only while its own request is matched.
MarketInHand ==
    \A id \in Ids : Indexed(book, id) /\ book.index[id].price = MarketPrice =>
        pc # "idle" /\ id = req.id /\ req.type = "market"

\* An execution brings no order to the market price: neither the front order,
\* which rested at the price of the deal, nor any other.
LEMMA ExecutionPrices ==
    ASSUME BookInv, NEW p \in Levels, Executes(p)
    PROVE  \A x \in Ids : Indexed(book', x) =>
                /\ Indexed(book, x)
                /\ book'.index[x].side = book.index[x].side
                /\ book'.index[x].price = book.index[x].price
<1> DEFINE m == FrontOrder(p)
           left == [side |-> Opp(req.side), price |-> p,
                    quantity |-> FrontQty(p) - rem]
<1>1. m # req.id /\ m \in Ids /\ Indexed(book, m)
  BY ExecutionFront DEF Executes
<1>2. book.index[m].side = left.side /\ book.index[m].price = left.price
  <2>1. book.index[m] = [side |-> Opp(req.side), price |-> p, quantity |-> FrontQty(p)]
    BY ExecutionFront DEF Executes
  <2> QED BY <2>1
<1>3. \A x \in Ids : \/ x = m /\ book'.index[x] = left
                     \/ book'.index[x] = NoEntry
                     \/ book'.index[x] = book.index[x]
  BY <1>1, ExecutionIndex
<1> HIDE DEF m, left
<1> QED BY <1>1, <1>2, <1>3 DEF Indexed

\* Every step keeps market orders with their request.
LEMMA NextMarket ==
    ASSUME BookInv, SidesRespected, PriceKnown, MarketInHand, [Next]_vars
    PROVE  MarketInHand'
<1> SUFFICES ASSUME NEW id \in Ids, Indexed(book', id),
                    book'.index[id].price = MarketPrice
             PROVE  pc' # "idle" /\ id = req'.id /\ req'.type = "market"
  BY DEF MarketInHand
<1>1. Indexed(book, id) /\ book.index[id].price = MarketPrice =>
        pc # "idle" /\ id = req.id /\ req.type = "market"
  BY DEF MarketInHand
<1>2. CASE UNCHANGED <<book, req>> /\ (pc # "idle" => pc' # "idle")
  BY <1>1, <1>2
<1>3. ASSUME NEW user, NEW r, IsRequest(r), Routed(r), Accept(user, r)
      PROVE  pc' # "idle" /\ id = req'.id /\ req'.type = "market"
  <2> DEFINE n == Normalised(r)
  <2>1. /\ n.id \in Ids
        /\ Replaces(book, book', n.id, EntryAfter(n))
    BY <1>3, AcceptEffect DEF IsRequest
  <2>2. pc = "idle" /\ pc' = "match" /\ req' = n
    BY <1>3, AcceptWrites
  <2>3. n.status # "canceled" => (n.price = MarketPrice <=> n.type = "market")
    BY <1>3, AcceptPrice
  <2> HIDE DEF n
  <2>4. book'.index[id] = IF id = n.id THEN EntryAfter(n) ELSE book.index[id]
    BY <2>1 DEF Replaces
  <2>5. id = n.id
    BY <1>1, <2>2, <2>4 DEF Indexed
  <2>6. n.status # "canceled" /\ EntryAfter(n).price = n.price
    BY <2>4, <2>5 DEF Indexed, EntryAfter, EntryOf
  <2> QED BY <2>2, <2>3, <2>4, <2>5, <2>6
<1>4. ASSUME NEW p \in Levels, Executes(p)
      PROVE  pc' # "idle" /\ id = req'.id /\ req'.type = "market"
  <2>1. UNCHANGED <<pc, req>>
    BY <1>4, ExecutionIndex
  <2>2. Indexed(book, id) /\ book.index[id].price = MarketPrice
    BY <1>4, ExecutionPrices
  <2> QED BY <1>1, <2>1, <2>2
<1>5. CASE KillMarketOrder \/ FinishMarketOrder
  <2>1. DropMarketOrder /\ pc # "idle"
    BY <1>5 DEF KillMarketOrder, FinishMarketOrder
  <2>2. book'.index[id] = IF id = req.id THEN NoEntry ELSE book.index[id]
    BY <2>1, DropEffect DEF Replaces
  <2> QED BY <1>1, <2>2 DEF Indexed
<1>6. CASE FinishLimitOrder
  <2>1. req.type = "limit" /\ pc # "idle"
    BY <1>6 DEF FinishLimitOrder
  <2>2. ~(Indexed(book, id) /\ book.index[id].price = MarketPrice)
    BY <1>1, <2>1
  <2>3. CASE rem > 0 /\ Indexed(book, req.id)
    <3> DEFINE e == [side |-> req.side, price |-> req.price, quantity |-> rem]
    <3>1. Replaces(book, book', req.id, e) /\ e.price = req.price
      BY <1>6, <2>3, RestEffect
    <3> HIDE DEF e
    <3>2. book'.index[id] = IF id = req.id THEN e ELSE book.index[id]
      BY <3>1 DEF Replaces
    <3>3. book.index[req.id].price = req.price
      BY <2>1, <2>3 DEF BookInv, RequestPlaced
    <3> QED BY <2>2, <2>3, <3>1, <3>2, <3>3 DEF Indexed
  <2>4. CASE ~(rem > 0 /\ Indexed(book, req.id))
    BY <1>6, <2>2, <2>4 DEF FinishLimitOrder
  <2> QED BY <2>3, <2>4
<1>7. CASE NoCurrentPrice
  BY <1>7 DEF NoCurrentPrice, PriceKnown
<1>8. CASE RestLimitOrder
  <2>1. req.type = "limit" /\ UNCHANGED book
    BY <1>8 DEF RestLimitOrder
  <2> QED BY <1>1, <2>1
<1>9. CASE \/ StartMarketOrder \/ StartLimitOrder \/ NextLevel
           \/ EndWalk \/ EndOwn \/ UNCHANGED vars
  <2>1. UNCHANGED <<book, req>> /\ (pc # "idle" => pc' # "idle")
    BY <1>9 DEF StartMarketOrder, StartLimitOrder, NextLevel, EndWalk, EndOwn, vars
  <2> QED BY <1>2, <2>1
<1> QED BY <1>3, <1>4, <1>5, <1>6, <1>7, <1>8, <1>9, EngineStep DEF BookInv

\* A market order that found no counterpart is never left to wait in the book,
\* where the FOK check and every later walk would count it.
THEOREM MarketOrdersNeverWait ==
    ASSUME SidesRespected, PriceKnown
    PROVE  Spec => []MarketOrdersNeverRest
<1>1. Init => MarketInHand
  BY DEF Init, EmptyBook, MarketInHand, Indexed
<1>2. BookInv /\ MarketInHand /\ [Next]_vars => MarketInHand'
  BY NextMarket
<1>3. BookInv /\ MarketInHand => MarketOrdersNeverRest
  <2> SUFFICES ASSUME BookInv, MarketInHand, pc = "idle", NEW s \in Side,
                      MarketPrice \in book.tree[s]
               PROVE  FALSE
    BY DEF MarketOrdersNeverRest
  <2>1. /\ MarketPrice \in Levels /\ book \in BookType /\ IndexAgrees(book)
        /\ HasLevel(book.orders, s, MarketPrice)
    BY DEF BookInv, TypeOK, TreesMatchLevels, TreesAgree, CopiesAgree, Levels
  <2>2. PICK id \in Ids : book.orders[s][MarketPrice][id] # NoOrder
    BY <2>1 DEF HasLevel
  <2>3. Indexed(book, id) /\ book.index[id].price = MarketPrice
    BY <2>1, <2>2, OrderIsEntry
  <2> QED BY <2>3 DEF MarketInHand
<1> QED BY <1>1, <1>2, <1>3, BookInvariant, PTL DEF Spec

----------------------------------------------------------------------------
(* What subscribers of the depth see.                                       *)

\* The request of a market order says the market price.
MarketAtZero == pc # "idle" /\ req.type = "market" => req.price = MarketPrice

\* The last update sent of a level says its total, except, while a request is
\* matched, for the level of the request itself: that one is sent at the end.
FeedCurrent ==
    \A s \in Side, p \in Prices :
        pc \in {"idle", "match"} \/ ~(s = req.side /\ p = req.price) =>
            feed[s][p] = book.total[s][p]

\* No limit price is the market price.
LEMMA PricesPositive == \A p \in Prices : p \in Levels /\ p # MarketPrice
BY ConstantsAssumption DEF Levels, MarketPrice

\* Every step keeps the price of a market request.
LEMMA NextMarketPrice ==
    ASSUME BookInv, SidesRespected, CancelsUntyped, MarketAtZero, [Next]_vars
    PROVE  MarketAtZero'
<1>1. ASSUME NEW user, NEW r, IsRequest(r), Routed(r), Accept(user, r)
      PROVE  MarketAtZero'
  BY <1>1, AcceptPrice, AcceptWrites DEF MarketAtZero
<1>2. ASSUME NEW p \in Levels, Executes(p)
      PROVE  MarketAtZero'
  BY <1>2, ExecutionIndex DEF MarketAtZero
<1>3. CASE pc' = "idle"
  BY <1>3 DEF MarketAtZero
<1>4. CASE pc # "idle" /\ UNCHANGED req
  BY <1>4 DEF MarketAtZero
<1>5. CASE \/ NoCurrentPrice \/ RestLimitOrder \/ KillMarketOrder
           \/ FinishMarketOrder \/ FinishLimitOrder
  BY <1>3, <1>4, <1>5 DEF NoCurrentPrice, RestLimitOrder, KillMarketOrder,
     FinishMarketOrder, FinishLimitOrder, DropMarketOrder, Return
<1>6. CASE \/ StartMarketOrder \/ StartLimitOrder \/ NextLevel
           \/ EndWalk \/ EndOwn
  BY <1>4, <1>6 DEF StartMarketOrder, StartLimitOrder, NextLevel, EndWalk, EndOwn
<1>7. CASE UNCHANGED vars
  BY <1>7 DEF MarketAtZero, vars
<1> QED BY <1>1, <1>2, <1>5, <1>6, <1>7, EngineStep DEF BookInv

\* The updates an accepted request sends, level by level.
LEMMA AcceptUpdates ==
    ASSUME TypeOK, NEW user, NEW r, IsRequest(r), Accept(user, r)
    PROVE  LET n == Normalised(r)
               e == book.index[n.id]
           IN \A s \in Side, q \in Levels : feed'[s][q] =
                IF n.type = "limit" /\ s = n.side /\ q = n.price
                THEN book'.total[s][q]
                ELSE IF n.status = "modified" /\ n.price # e.price
                        /\ s = n.side /\ q = e.price
                     THEN book.total[s][q] - e.quantity
                     ELSE feed[s][q]
<1> DEFINE n == Normalised(r)
           e == book.index[n.id]
           u == book.total[n.side][e.price] - e.quantity
           v == book'.total[n.side][n.price]
           f == FeedLeftLevel(n)
<1>1. /\ n.side \in Side /\ n.price \in Levels /\ e.price \in Levels
      /\ feed \in [Side -> [Levels -> Int]]
  BY NormalisedType, BookTables, EntryTypes DEF IsRequest, IsChange, TypeOK
<1>2. /\ f = IF n.status = "modified" /\ n.price # e.price
             THEN [feed EXCEPT ![n.side][e.price] = u] ELSE feed
      /\ feed' = IF n.type = "limit" THEN [f EXCEPT ![n.side][n.price] = v] ELSE f
  BY DEF Accept, FeedLeftLevel
<1>3. u \in Int
  <2>1. book.total[n.side][e.price] \in Int
    BY <1>1, BookTables DEF TypeOK
  <2>2. e \in Entry \cup {NoEntry}
    BY NormalisedType, BookTables DEF TypeOK, IsRequest
  <2>3. e.quantity \in Nat
    BY <2>2, EntryTypes
  <2> QED BY <2>1, <2>3
<1> SUFFICES \A s \in Side, q \in Levels : feed'[s][q] =
                IF n.type = "limit" /\ s = n.side /\ q = n.price THEN v
                ELSE IF n.status = "modified" /\ n.price # e.price
                        /\ s = n.side /\ q = e.price
                     THEN u ELSE feed[s][q]
  OBVIOUS
<1> HIDE DEF n, e, u, v, f
<1>4. \A s \in Side, q \in Levels :
        [feed EXCEPT ![n.side][e.price] = u][s][q] =
            IF s = n.side /\ q = e.price THEN u ELSE feed[s][q]
  BY <1>1, CellWritten
<1>5. \A s \in Side, q \in Levels : f[s][q] =
        IF n.status = "modified" /\ n.price # e.price /\ s = n.side /\ q = e.price
        THEN u ELSE feed[s][q]
  BY <1>2, <1>4
<1>6. f \in [Side -> [Levels -> Int]]
  <2>1. [feed EXCEPT ![n.side][e.price] = u] \in [Side -> [Levels -> Int]]
    BY <1>1, <1>3
  <2> QED BY <1>1, <1>2, <2>1
<1>7. \A s \in Side, q \in Levels :
        [f EXCEPT ![n.side][n.price] = v][s][q] =
            IF s = n.side /\ q = n.price THEN v ELSE f[s][q]
  BY <1>1, <1>6, CellWritten
<1>8. CASE n.type = "limit"
  <2>1. feed' = [f EXCEPT ![n.side][n.price] = v]
    BY <1>2, <1>8
  <2>2. \A s \in Side, q \in Levels : feed'[s][q] =
            IF s = n.side /\ q = n.price THEN v ELSE f[s][q]
    BY <1>7, <2>1
  <2> QED BY <1>5, <1>8, <2>2
<1>9. CASE n.type # "limit"
  <2>1. feed' = f
    BY <1>2, <1>9
  <2> QED BY <1>5, <1>9, <2>1
<1> QED BY <1>8, <1>9

\* After those updates every level of limit orders has been sent.
LEMMA AcceptFeed ==
    ASSUME BookInv, SidesRespected, CancelsUntyped, FeedCurrent,
           NEW user, NEW r, IsRequest(r), Routed(r), Accept(user, r)
    PROVE  \A s \in Side, q \in Prices : feed'[s][q] = book'.total[s][q]
<1> DEFINE n == Normalised(r)
           e == book.index[n.id]
           a == EntryAfter(n)
<1>1. /\ n.id \in Ids /\ n.side \in Side /\ n.id = r.id /\ n.status = r.status
      /\ Replaces(book, book', n.id, a)
      /\ n.status \in {"open", "modified", "canceled"}
      /\ n.status # "open" => e.side = n.side
  BY AcceptEffect DEF IsRequest, IsChange
<1>2. /\ n.type \in {"limit", "market"}
      /\ n.status = "canceled" => n.price = e.price
      /\ n.type = "market" => n.price = MarketPrice
  BY AcceptPrice
<1>3. \A s \in Side, q \in Levels : feed'[s][q] =
        IF n.type = "limit" /\ s = n.side /\ q = n.price
        THEN book'.total[s][q]
        ELSE IF n.status = "modified" /\ n.price # e.price /\ s = n.side /\ q = e.price
             THEN book.total[s][q] - e.quantity
             ELSE feed[s][q]
  BY AcceptUpdates DEF BookInv
<1>4. n.status = "open" => e = NoEntry
  BY <1>1 DEF Routed, BookInv, ClosedUnlisted, Indexed
<1>5. pc = "idle"
  BY AcceptWrites
<1>6. \A s \in Side, q \in Levels :
        book'.total[s][q] = book.total[s][q] - Share(e, s, q) + Share(a, s, q)
  BY <1>1 DEF Replaces
<1> SUFFICES ASSUME NEW s \in Side, NEW q \in Prices
             PROVE  feed'[s][q] = book'.total[s][q]
  OBVIOUS
<1>7. q \in Levels /\ q # MarketPrice
  BY PricesPositive
<1>8. /\ feed[s][q] = book.total[s][q] /\ book.total[s][q] \in Int
      /\ e.quantity \in Int /\ e \in Entry \cup {NoEntry}
  BY <1>1, <1>5, <1>7, BookTables, EntryTypes DEF FeedCurrent, BookInv, TypeOK
<1> HIDE DEF n, e
<1>9. CASE n.type = "limit" /\ s = n.side /\ q = n.price
  BY <1>3, <1>7, <1>9
<1>10. CASE ~(n.type = "limit" /\ s = n.side /\ q = n.price)
  <2>1. Share(a, s, q) = 0
    <3>1. CASE n.status = "canceled"
      BY <3>1, <1>7, EntryTypes DEF EntryAfter
    <3>2. CASE n.status # "canceled"
      BY <1>2, <1>7, <1>10, <3>2 DEF EntryAfter, EntryOf, Share
    <3> QED BY <3>1, <3>2
  <2>2. book'.total[s][q] = book.total[s][q] - Share(e, s, q)
    <3>1. Share(e, s, q) \in Int
      BY <1>7, <1>8, EntryTypes
    <3> QED BY <1>6, <1>7, <1>8, <2>1, <3>1
  <2>3. CASE n.status = "modified" /\ n.price # e.price /\ s = n.side /\ q = e.price
    BY <1>1, <1>3, <1>7, <1>10, <2>2, <2>3 DEF Share
  <2>4. CASE ~(n.status = "modified" /\ n.price # e.price /\ s = n.side /\ q = e.price)
    <3>1. feed'[s][q] = feed[s][q]
      BY <1>3, <1>7, <1>10, <2>4
    <3>2. Share(e, s, q) = 0
      <4>1. CASE n.status = "open"
        BY <1>4, <1>7, <1>8, <4>1, EntryTypes
      <4>2. CASE n.status # "open"
        BY <1>1, <1>2, <1>7, <1>10, <2>4, <4>2 DEF Share
      <4> QED BY <4>1, <4>2
    <3> QED BY <1>8, <2>2, <3>1, <3>2
  <2> QED BY <2>3, <2>4
<1> QED BY <1>9, <1>10

\* An execution changes the total of its level and, if it fills the order of
\* the request, that of the request's level.
LEMMA ExecutionTotals ==
    ASSUME BookInv, NEW p \in Levels, Executes(p)
    PROVE  LET v == IF FrontQty(p) >= rem THEN rem ELSE FrontQty(p)
           IN \A s \in Side, q \in Levels : book'.total[s][q] =
                IF s = Opp(req.side) /\ q = p THEN book.total[s][q] - v
                ELSE IF s = req.side /\ q = req.price THEN book'.total[s][q]
                ELSE book.total[s][q]
<1> DEFINE m == FrontOrder(p)
           o == Opp(req.side)
           w == FrontQty(p)
           left == [side |-> o, price |-> p, quantity |-> w - rem]
           front == [side |-> o, price |-> p, quantity |-> w]
<1>1. AtLevel(p) /\ rem > 0 /\ pc # "idle"
  BY AtLevelFront DEF Executes, BookInv
<1>2. /\ m # req.id /\ m \in Ids /\ req.id \in Ids /\ w \in Nat /\ rem \in Nat
      /\ book.index[m] = front /\ o \in Side /\ o # req.side
  BY <1>1, ExecutionFront
<1>3. \A s \in Side, q \in Levels : book.total[s][q] \in Int
  BY BookTables DEF BookInv, TypeOK
<1>4. \A s \in Side, q \in Levels :
        /\ Share(front, s, q) = IF s = o /\ q = p THEN w ELSE 0
        /\ Share(left, s, q) = IF s = o /\ q = p THEN w - rem ELSE 0
        /\ Share(NoEntry, s, q) = 0
  BY DEF Share, NoEntry, Side
<1>5. \A s \in Side, q \in Levels :
        ~(s = req.side /\ q = req.price) => Share(book.index[req.id], s, q) = 0
  <2> TAKE s \in Side, q \in Levels
  <2>1. CASE Indexed(book, req.id)
    BY <1>1, <2>1 DEF BookInv, RequestPlaced, Share
  <2>2. CASE ~Indexed(book, req.id)
    BY <1>4, <2>2 DEF Indexed
  <2> QED BY <2>1, <2>2
<1> SUFFICES ASSUME NEW s \in Side, NEW q \in Levels, ~(s = req.side /\ q = req.price)
             PROVE  book'.total[s][q] =
                      IF s = o /\ q = p
                      THEN book.total[s][q] - (IF w >= rem THEN rem ELSE w)
                      ELSE book.total[s][q]
  BY <1>2
<1>6. CASE w >= rem /\ TakePart(p)
  <2>1. PICK c : /\ Replaces(book, c, m, left)
                 /\ Replaces(c, book', req.id, NoEntry)
    BY <1>1, <1>6, PartEffect
  <2> HIDE DEF m, o, w, left, front
  <2>2. c.total[s][q] = book.total[s][q] - Share(front, s, q) + Share(left, s, q)
    BY <1>2, <2>1 DEF Replaces
  <2>3. c.index[req.id] = book.index[req.id]
    BY <1>2, <2>1 DEF Replaces
  <2>4. book'.total[s][q] =
          c.total[s][q] - Share(book.index[req.id], s, q) + Share(NoEntry, s, q)
    BY <2>1, <2>3 DEF Replaces
  <2>5. Share(book.index[req.id], s, q) = 0 /\ Share(NoEntry, s, q) = 0
    BY <1>4, <1>5
  <2>6. CASE s = o /\ q = p
    BY <1>2, <1>3, <1>4, <1>6, <2>2, <2>4, <2>5, <2>6
  <2>7. CASE ~(s = o /\ q = p)
    BY <1>2, <1>3, <1>4, <1>6, <2>2, <2>4, <2>5, <2>7
  <2> QED BY <2>6, <2>7
<1>7. CASE w <= rem /\ TakeWhole(p)
  <2>1. Replaces(book, book', m, NoEntry)
    BY <1>1, <1>7, WholeEffect
  <2> HIDE DEF m, o, w, left, front
  <2>2. book'.total[s][q] =
          book.total[s][q] - Share(front, s, q) + Share(NoEntry, s, q)
    BY <1>2, <2>1 DEF Replaces
  <2>3. Share(NoEntry, s, q) = 0
    BY <1>4
  <2>4. CASE s = o /\ q = p
    BY <1>2, <1>3, <1>4, <1>7, <2>2, <2>3, <2>4
  <2>5. CASE ~(s = o /\ q = p)
    BY <1>2, <1>3, <1>4, <1>7, <2>2, <2>3, <2>5
  <2> QED BY <2>4, <2>5
<1> QED BY <1>6, <1>7 DEF Executes

\* Every step keeps what subscribers see.
LEMMA NextFeed ==
    ASSUME BookInv, SidesRespected, CancelsUntyped, MarketAtZero, FeedCurrent,
           [Next]_vars
    PROVE  FeedCurrent'
<1>1. \A s \in Side, q \in Prices :
        pc \in {"idle", "match"} \/ ~(s = req.side /\ q = req.price) =>
            feed[s][q] = book.total[s][q]
  BY DEF FeedCurrent
<1>2. CASE UNCHANGED <<book, feed>> /\ pc \in {"idle", "match"}
  BY <1>1, <1>2 DEF FeedCurrent
<1>3. CASE UNCHANGED <<book, feed, req>> /\ pc' \notin {"idle", "match"}
  BY <1>1, <1>3 DEF FeedCurrent
<1>4. ASSUME NEW user, NEW r, IsRequest(r), Routed(r), Accept(user, r)
      PROVE  FeedCurrent'
  BY <1>4, AcceptFeed DEF FeedCurrent
<1>5. ASSUME NEW p \in Levels, Executes(p)
      PROVE  FeedCurrent'
  <2> DEFINE o == Opp(req.side)
             v == IF FrontQty(p) >= rem THEN rem ELSE FrontQty(p)
  <2>1. /\ pc \in {"walk", "own"} /\ AtLevel(p) /\ rem \in Nat /\ FrontQty(p) \in Nat
        /\ UNCHANGED <<pc, req>>
    BY <1>5, AtLevelFront, ExecutionFront, ExecutionIndex DEF Executes, BookInv
  <2>2. \A s \in Side, q \in Levels : feed'[s][q] =
            IF s = o /\ q = p THEN book'.total[o][p] ELSE feed[s][q]
    <3>1. CASE Publish(p, rem, "filled", "partially_filled")
      BY <2>1, <3>1, PublishWrites
    <3>2. CASE Publish(p, FrontQty(p), "partially_filled", "filled")
      BY <2>1, <3>2, PublishWrites
    <3> QED BY <1>5, <3>1, <3>2, ExecutionIndex
  <2>3. \A s \in Side, q \in Levels : book'.total[s][q] =
            IF s = o /\ q = p THEN book.total[s][q] - v
            ELSE IF s = req.side /\ q = req.price THEN book'.total[s][q]
            ELSE book.total[s][q]
    BY <1>5, ExecutionTotals
  <2> HIDE DEF o, v
  <2>4. \A s \in Side, q \in Prices :
            ~(s = req.side /\ q = req.price) => feed'[s][q] = book'.total[s][q]
    <3> TAKE s \in Side, q \in Prices
    <3> HAVE ~(s = req.side /\ q = req.price)
    <3>1. q \in Levels
      BY PricesPositive
    <3>2. CASE s = o /\ q = p
      BY <2>2, <3>1, <3>2
    <3>3. CASE ~(s = o /\ q = p)
      BY <1>1, <2>2, <2>3, <3>1, <3>3
    <3> QED BY <3>2, <3>3
  <2> QED BY <2>1, <2>4 DEF FeedCurrent
<1>6. CASE KillMarketOrder \/ FinishMarketOrder
  <2>1. DropMarketOrder /\ pc # "idle" /\ req.type = "market" /\ UNCHANGED feed
    BY <1>6 DEF KillMarketOrder, FinishMarketOrder, DropMarketOrder
  <2>2. /\ req.price = MarketPrice /\ Replaces(book, book', req.id, NoEntry)
        /\ req.id \in Ids
    BY <2>1, DropEffect DEF MarketAtZero, BookInv, TypeOK
  <2>3. \A s \in Side, q \in Prices : feed'[s][q] = book'.total[s][q]
    <3> TAKE s \in Side, q \in Prices
    <3>1. q \in Levels /\ q # MarketPrice
      BY PricesPositive
    <3>2. Share(book.index[req.id], s, q) = 0 /\ Share(NoEntry, s, q) = 0
      <4>1. Share(NoEntry, s, q) = 0
        BY <3>1 DEF Share, NoEntry
      <4>2. CASE Indexed(book, req.id)
        BY <2>1, <2>2, <3>1, <4>1, <4>2 DEF BookInv, RequestPlaced, Share
      <4>3. CASE ~Indexed(book, req.id)
        BY <4>1, <4>3 DEF Indexed
      <4> QED BY <4>2, <4>3
    <3>3. book'.total[s][q] =
            book.total[s][q] - Share(book.index[req.id], s, q) + Share(NoEntry, s, q)
      BY <2>2, <3>1 DEF Replaces
    <3>4. book.total[s][q] \in Int
      BY <3>1, BookTables DEF BookInv, TypeOK
    <3>5. feed[s][q] = book.total[s][q]
      BY <1>1, <2>2, <3>1
    <3> QED BY <2>1, <3>2, <3>3, <3>4, <3>5
  <2> QED BY <2>3 DEF FeedCurrent
<1>7. CASE FinishLimitOrder
  <2>1. CASE rem > 0 /\ ~Indexed(book, req.id)
    BY <1>3, <1>7, <2>1 DEF FinishLimitOrder
  <2>2. CASE ~(rem > 0 /\ ~Indexed(book, req.id))
    <3> DEFINE v == book'.total[req.side][req.price]
    <3>1. /\ pc = "finish" /\ pc' = "idle"
          /\ feed' = [feed EXCEPT ![req.side][req.price] = v]
      BY <1>7, <2>2 DEF FinishLimitOrder, Return
    <3>2. /\ feed \in [Side -> [Levels -> Int]]
          /\ req.side \in Side /\ req.price \in Levels /\ req.id \in Ids
      BY <3>1 DEF BookInv, TypeOK, Request
    <3> HIDE DEF v
    <3>3. \A s \in Side, q \in Levels : feed'[s][q] =
            IF s = req.side /\ q = req.price THEN v ELSE feed[s][q]
      BY <3>1, <3>2, CellWritten
    <3>4. \A s \in Side, q \in Levels :
            ~(s = req.side /\ q = req.price) => book'.total[s][q] = book.total[s][q]
      <4>1. CASE rem > 0
        <5> DEFINE e == [side |-> req.side, price |-> req.price, quantity |-> rem]
        <5>1. Indexed(book, req.id) /\ Replaces(book, book', req.id, e)
          BY <1>7, <2>2, <4>1, RestEffect
        <5>2. \A s \in Side, q \in Levels : book'.total[s][q] =
                book.total[s][q] - Share(book.index[req.id], s, q) + Share(e, s, q)
          BY <5>1 DEF Replaces
        <5>3. /\ book.index[req.id].side = req.side
              /\ book.index[req.id].price = req.price
          BY <3>1, <5>1 DEF BookInv, RequestPlaced
        <5>4. \A s \in Side, q \in Levels : ~(s = req.side /\ q = req.price) =>
                Share(book.index[req.id], s, q) = 0 /\ Share(e, s, q) = 0
          BY <5>3 DEF Share
        <5>5. \A s \in Side, q \in Levels : book.total[s][q] \in Int
          BY BookTables DEF BookInv, TypeOK
        <5> HIDE DEF e
        <5> QED BY <5>2, <5>4, <5>5
      <4>2. CASE ~(rem > 0)
        BY <1>7, <4>2 DEF FinishLimitOrder
      <4> QED BY <4>1, <4>2
    <3>5. \A s \in Side, q \in Prices : feed'[s][q] = book'.total[s][q]
      <4> TAKE s \in Side, q \in Prices
      <4>1. q \in Levels
        BY PricesPositive
      <4>2. CASE s = req.side /\ q = req.price
        BY <3>3, <4>1, <4>2 DEF v
      <4>3. CASE ~(s = req.side /\ q = req.price)
        BY <1>1, <3>3, <3>4, <4>1, <4>3
      <4> QED BY <4>2, <4>3
    <3> QED BY <3>5 DEF FeedCurrent
  <2> QED BY <2>1, <2>2
<1>8. CASE NoCurrentPrice \/ RestLimitOrder
  BY <1>2, <1>8 DEF NoCurrentPrice, RestLimitOrder
<1>9. CASE \/ StartMarketOrder \/ StartLimitOrder
           \/ NextLevel \/ EndWalk \/ EndOwn
  <2>1. UNCHANGED <<book, feed, req>> /\ pc' \notin {"idle", "match"}
    BY <1>9 DEF StartMarketOrder, StartLimitOrder, NextLevel, EndWalk, EndOwn
  <2> QED BY <1>3, <2>1
<1>10. CASE UNCHANGED vars
  BY <1>1, <1>10 DEF FeedCurrent, vars
<1> QED BY <1>4, <1>5, <1>6, <1>7, <1>8, <1>9, <1>10, EngineStep DEF BookInv

\* The depth a subscriber puts together from the updates, which five places
\* of the engine send at different moments, is the book's when the engine waits.
THEOREM FeedAlwaysFaithful ==
    ASSUME SidesRespected, CancelsUntyped
    PROVE  Spec => []DepthFeedFaithful
<1> DEFINE I == MarketAtZero /\ FeedCurrent
<1>1. Init => I
  <2> SUFFICES ASSUME Init PROVE I
    OBVIOUS
  <2>1. \A s \in Side, p \in Prices : feed[s][p] = 0 /\ book.total[s][p] = 0
    BY PricesPositive DEF Init, EmptyBook
  <2> QED BY <2>1 DEF FeedCurrent, MarketAtZero, Init
<1>2. BookInv /\ I /\ [Next]_vars => I'
  BY NextMarketPrice, NextFeed
<1>3. I => DepthFeedFaithful
  BY DEF FeedCurrent, DepthFeedFaithful
<1> QED BY <1>1, <1>2, <1>3, BookInvariant, PTL DEF Spec

----------------------------------------------------------------------------
(* Priorities.                                                              *)

\* The copy of the tree that is walked holds every opposite level the request
\* may still trade at; a limit order whose walk is over finds no level left
\* that is better than its limit.
WalkCovers ==
    /\ pc = "walk" =>
        /\ req.type \in {"limit", "market"}
        /\ \A q \in Opposite :
              req.type = "market" \/ Better(Opp(req.side), q, req.price) => q \in walk
        /\ req.type = "limit" =>
              \A q \in walk : Better(Opp(req.side), q, req.price)
    /\ pc = "own" =>
        /\ req.type = "limit"
        /\ \A q \in Opposite : ~Better(Opp(req.side), q, req.price)

\* A level is in the tree of its side exactly if an index entry names it.
LEMMA TreeIsIndexed ==
    ASSUME BookInv, NEW s \in Side, NEW p \in Levels
    PROVE  /\ p \in book.tree[s] <=> HasLevel(book.orders, s, p)
           /\ HasLevel(book.orders, s, p) <=>
                \E id \in Ids : book.index[id].side = s /\ book.index[id].price = p
<1>1. book \in BookType /\ IndexAgrees(book)
  BY DEF BookInv, TypeOK, CopiesAgree
<1>2. p \in book.tree[s] <=> HasLevel(book.orders, s, p)
  BY DEF BookInv, TreesMatchLevels, TreesAgree
<1>3. \A id \in Ids : book.orders[s][p][id] # NoOrder <=>
        book.index[id].side = s /\ book.index[id].price = p
  BY <1>1, OrderIsEntry
<1> QED BY <1>2, <1>3 DEF HasLevel

\* An execution adds no level to a tree.
LEMMA ExecutionTree ==
    ASSUME BookInv, BookInv', NEW p \in Levels, Executes(p), NEW s \in Side
    PROVE  book'.tree[s] \subseteq book.tree[s]
<1>1. SUFFICES ASSUME NEW q \in Levels, q \in book'.tree[s]
               PROVE  q \in book.tree[s]
  BY DEF BookInv, TypeOK, BookType
<1>2. PICK id \in Ids : book'.orders[s][q][id] # NoOrder
  BY <1>1 DEF BookInv, TreesMatchLevels, TreesAgree, HasLevel
<1>3. book' \in BookType /\ IndexAgrees(book')
  BY DEF BookInv, TypeOK, CopiesAgree, IndexAgrees
<1>4. /\ Indexed(book', id)
      /\ book'.index[id].side = s /\ book'.index[id].price = q
  BY <1>2, <1>3, OrderIsEntry
<1>5. book.index[id].side = s /\ book.index[id].price = q
  BY <1>4, ExecutionPrices
<1> QED BY <1>5, TreeIsIndexed

\* A level whose queue is empty holds no order.
LEMMA EmptyQueue ==
    ASSUME BookInv, NEW s \in Side, NEW p \in Levels, book.seq[s][p] = <<>>
    PROVE  ~HasLevel(book.orders, s, p)
<1>1. ToSet(book.seq[s][p]) = {id \in Ids : book.orders[s][p][id] # NoOrder}
  BY DEF BookInv, CopiesAgree, QueuesAgree
<1>2. ToSet(<<>>) = {}
  BY DEF ToSet
<1> QED BY <1>1, <1>2 DEF HasLevel

\* A walk passes over a level only when nothing rests there.
LEMMA PassedLevel ==
    ASSUME BookInv, NextLevel
    PROVE  /\ WalkPrice \in walk
           /\ WalkPrice \in Levels
           /\ WalkPrice \notin Opposite
           /\ ~HasLevel(book.orders, Opp(req.side), WalkPrice)
           /\ walk' = walk \ {WalkPrice}
           /\ pc = "walk" /\ UNCHANGED <<book, pc, req, rem>>
<1>1. /\ pc = "walk" /\ walk # {} /\ LevelDone /\ rem > 0
      /\ walk' = walk \ {WalkPrice} /\ UNCHANGED <<book, pc, req, rem>>
  BY DEF NextLevel
<1>2. walk \in SUBSET Levels /\ Opp(req.side) \in Side /\ rem \in Nat
  BY <1>1, RequestInHand DEF BookInv, TypeOK
<1>3. WalkPrice \in walk
  BY <1>1, <1>2, BestIsBest DEF WalkPrice
<1>4. WalkPrice \in Levels
  BY <1>2, <1>3
<1>5. ~HasLevel(book.orders, Opp(req.side), WalkPrice)
  BY <1>1, <1>2, <1>4, EmptyQueue DEF LevelDone
<1>6. WalkPrice \notin Opposite
  BY <1>2, <1>4, <1>5, TreeIsIndexed DEF Opposite
<1> QED BY <1>1, <1>3, <1>4, <1>5, <1>6

\* Every step keeps the walk complete.
LEMMA NextWalk ==
    ASSUME BookInv, SidesRespected, WalkCovers, [Next]_vars
    PROVE  WalkCovers'
<1>1. BookInv'
  BY NextBook
<1>2. CASE pc' \notin {"walk", "own"}
  BY <1>2 DEF WalkCovers
<1>3. ASSUME NEW p \in Levels, Executes(p)
      PROVE  WalkCovers'
  <2>1. UNCHANGED <<pc, req, walk>> /\ pc # "idle"
    BY <1>3, ExecutionIndex, ExecutionFront DEF Executes
  <2>2. Opp(req.side) \in Side
    BY <2>1, RequestInHand DEF BookInv
  <2>3. book'.tree[Opp(req.side)] \subseteq book.tree[Opp(req.side)]
    BY <1>1, <1>3, <2>2, ExecutionTree
  <2> QED BY <2>1, <2>3 DEF WalkCovers, Opposite
<1>4. CASE StartMarketOrder
  BY <1>4 DEF StartMarketOrder, WalkCovers, Opposite
<1>5. CASE StartLimitOrder
  BY <1>5 DEF StartLimitOrder, LevelsBeforeLimit, WalkCovers, Opposite
<1>6. CASE NextLevel
  BY <1>6, PassedLevel DEF WalkCovers, Opposite
<1>7. CASE EndWalk
  <2>1. /\ pc = "walk" /\ (walk = {} \/ rem = 0) /\ UNCHANGED <<book, req>>
        /\ pc' = IF req.type = "limit" /\ rem > 0 THEN "own" ELSE "finish"
    BY <1>7 DEF EndWalk
  <2>2. CASE pc' = "own"
    <3>1. walk = {} /\ req.type = "limit"
      BY <2>1, <2>2
    <3> QED BY <2>1, <2>2, <3>1 DEF WalkCovers, Opposite
  <2>3. CASE pc' # "own"
    BY <1>2, <2>1, <2>3
  <2> QED BY <2>2, <2>3
<1>8. CASE UNCHANGED vars
  BY <1>8 DEF vars, WalkCovers, Opposite
<1>9. ASSUME NEW user, NEW r, IsRequest(r), Routed(r), Accept(user, r)
      PROVE  WalkCovers'
  BY <1>2, <1>9, AcceptWrites
<1>10. CASE \/ NoCurrentPrice \/ RestLimitOrder \/ EndOwn
            \/ KillMarketOrder \/ FinishMarketOrder \/ FinishLimitOrder
  BY <1>2, <1>10 DEF NoCurrentPrice, RestLimitOrder, EndOwn, KillMarketOrder,
     FinishMarketOrder, FinishLimitOrder, DropMarketOrder, Return
<1> QED BY <1>3, <1>4, <1>5, <1>6, <1>7, <1>8, <1>9, <1>10, EngineStep DEF BookInv

\* The order of the levels of a side is total, so at most one is the best.
LEMMA BestIsUnique ==
    ASSUME NEW s \in Side, NEW T \in SUBSET Levels, NEW p \in T,
           \A q \in T \ {p} : Better(s, p, q)
    PROVE  p = Best(s, T)
<1>1. /\ Best(s, T) \in T
      /\ \A q \in T \ {Best(s, T)} : Better(s, Best(s, T), q)
  BY BestIsBest
<1>2. T \in SUBSET Nat
  BY ConstantsAssumption DEF Levels, MarketPrice
<1> HIDE DEF Best
<1>3. ASSUME p # Best(s, T) PROVE FALSE
  <2>1. Better(s, p, Best(s, T)) /\ Better(s, Best(s, T), p)
    BY <1>1, <1>3
  <2>2. p \in Nat /\ Best(s, T) \in Nat
    BY <1>1, <1>2
  <2> QED BY <2>1, <2>2 DEF Better
<1> QED BY <1>3

\* An execution takes place at the best opposite level, within the limit.
LEMMA ExecutionBest ==
    ASSUME BookInv, WalkCovers, NEW p \in Levels, Executes(p)
    PROVE  /\ p \in Opposite
           /\ p = Best(Opp(req.side), Opposite)
           /\ req.type = "limit" => Crosses(req.side, req.price, p)
<1> DEFINE o == Opp(req.side)
<1>1. /\ AtLevel(p) /\ pc \in {"walk", "own"} /\ o \in Side
      /\ req.price \in Levels /\ walk \in SUBSET Levels
      /\ Opposite \in SUBSET Levels
  <2>1. AtLevel(p) /\ pc \in {"walk", "own"}
    BY AtLevelFront DEF Executes, BookInv
  <2>2. o \in Side /\ req.price \in Levels /\ book \in BookType
    BY <2>1, RequestInHand DEF BookInv
  <2> QED BY <2>1, <2>2 DEF BookInv, TypeOK, Opposite, BookType
<1>2. p \in Opposite
  BY <1>1, ExecutionFront, TreeIsIndexed DEF Opposite
<1>3. p \in Nat /\ req.price \in Nat /\ \A q \in Opposite : q \in Nat
  <2>1. \A q \in Levels : q \in Nat
    BY ConstantsAssumption DEF Levels, MarketPrice
  <2> QED BY <1>1, <2>1
<1>4. CASE pc = "walk"
  <2>1. p \in walk /\ \A q \in walk \ {p} : Better(o, p, q)
    BY <1>1, <1>4, BestIsBest DEF AtLevel, WalkPrice
  <2>2. /\ req.type \in {"limit", "market"}
        /\ \A q \in Opposite :
              req.type = "market" \/ Better(o, q, req.price) => q \in walk
        /\ req.type = "limit" => Better(o, p, req.price)
    BY <1>4, <2>1 DEF WalkCovers
  <2>3. \A q \in Opposite \ {p} : Better(o, p, q)
    <3> TAKE q \in Opposite \ {p}
    <3>1. CASE q \in walk
      BY <2>1, <3>1
    <3>2. CASE q \notin walk
      <4>1. ~Better(o, q, req.price) /\ Better(o, p, req.price)
        BY <2>2, <3>2
      <4> QED BY <1>3, <4>1 DEF Better
    <3> QED BY <3>1, <3>2
  <2>4. p = Best(o, Opposite)
    BY <1>1, <1>2, <2>3, BestIsUnique
  <2> QED BY <1>2, <2>2, <2>4 DEF Crosses
<1>5. CASE pc = "own"
  <2>1. /\ p = req.price
        /\ \A q \in Opposite : ~Better(o, q, req.price)
    BY <1>5 DEF WalkCovers, AtLevel, Executes
  <2>2. \A q \in Opposite \ {p} : Better(o, p, q)
    BY <1>3, <2>1 DEF Better
  <2>3. p = Best(o, Opposite)
    BY <1>1, <1>2, <2>2, BestIsUnique
  <2> QED BY <1>2, <2>1, <2>3 DEF Crosses
<1> QED BY <1>1, <1>4, <1>5

\* Only executions are broadcast as trades.
LEMMA DealStep ==
    ASSUME TypeOK, [Next]_vars, deal' # NoDeal
    PROVE  UNCHANGED vars \/ \E p \in Levels : Executes(p)
BY EngineStep DEF Accept, NoCurrentPrice, RestLimitOrder, Return, StartMarketOrder,
   StartLimitOrder, NextLevel, EndWalk, EndOwn, KillMarketOrder, FinishMarketOrder,
   DropMarketOrder, FinishLimitOrder

\* What BestPriceFirst says of a step.
FirstAtBest ==
    deal' # NoDeal =>
        LET o == Opp(req.side)
        IN /\ book.tree[o] # {}
           /\ deal'.price = Best(o, book.tree[o])
           /\ deal'.maker = Head(book.seq[o][deal'.price])
           /\ req.type = "limit" => Crosses(req.side, req.price, deal'.price)

\* Price before time: however long a walk over the copied tree lasts, the next
\* execution is against the first order of the best level there is then.
THEOREM BestPriceAlwaysFirst ==
    ASSUME SidesRespected
    PROVE  Spec => BestPriceFirst
<1>1. Init => WalkCovers
  BY DEF Init, WalkCovers
<1>2. BookInv /\ WalkCovers /\ [Next]_vars => WalkCovers'
  BY NextWalk
<1>3. BookInv /\ WalkCovers /\ [Next]_vars => [FirstAtBest]_vars
  <2> SUFFICES ASSUME BookInv, WalkCovers, [Next]_vars, deal' # NoDeal,
                      NEW p \in Levels, Executes(p)
               PROVE  FirstAtBest
    BY DealStep DEF BookInv, FirstAtBest
  <2>1. deal'.price = p /\ deal'.maker = FrontOrder(p)
    <3>1. AtLevel(p) /\ rem \in Nat /\ FrontQty(p) \in Nat
      BY ExecutionFront DEF Executes
    <3>2. CASE Publish(p, rem, "filled", "partially_filled")
      BY <3>1, <3>2, PublishWrites
    <3>3. CASE Publish(p, FrontQty(p), "partially_filled", "filled")
      BY <3>1, <3>3, PublishWrites
    <3> QED BY <3>2, <3>3, ExecutionIndex
  <2> QED BY <2>1, ExecutionBest DEF FirstAtBest, Opposite, FrontOrder
<1>4. Spec => [][FirstAtBest]_vars
  BY <1>1, <1>2, <1>3, BookInvariant, PTL DEF Spec
<1> QED BY <1>4 DEF BestPriceFirst, FirstAtBest

\* What QueueOrderKept says of a step.
NoneOvertaken ==
    \A s \in Side, p \in Levels :
        LET old == book.seq[s][p]
            new == book'.seq[s][p]
            stays == (ToSet(old) \cap ToSet(new)) \ {req.id, req'.id}
        IN \A x \in stays, y \in stays : Precedes(old, x, y) => Precedes(new, x, y)

\* A queue holds orders that are indexed.
LEMMA QueuedIsIndexed ==
    ASSUME NEW b \in BookType, BookAgrees(b), NEW s \in Side, NEW p \in Levels,
           NEW x \in ToSet(b.seq[s][p])
    PROVE  x \in Ids /\ Indexed(b, x)
<1>1. x \in Ids /\ b.orders[s][p][x] # NoOrder
  BY DEF BookAgrees, QueuesAgree
<1> QED BY <1>1, OrderIsEntry DEF BookAgrees

\* A step that replaces the entry of one order lets no two others overtake one
\* another; it keeps the claim if that order is the request's or leaves.
LEMMA ReplacedOvertakesNone ==
    ASSUME NEW id \in Ids, NEW e, book \in BookType, BookAgrees(book),
           Replaces(book, book', id, e),
           id = req.id \/ id = req'.id \/ e = NoEntry
    PROVE  NoneOvertaken
<1> SUFFICES ASSUME NEW s \in Side, NEW p \in Levels,
                    NEW x \in ToSet(book.seq[s][p]), NEW y \in ToSet(book.seq[s][p]),
                    x \in ToSet(book'.seq[s][p]), y \in ToSet(book'.seq[s][p]),
                    x \notin {req.id, req'.id}, y \notin {req.id, req'.id},
                    Precedes(book.seq[s][p], x, y)
             PROVE  Precedes(book'.seq[s][p], x, y)
  BY DEF NoneOvertaken
<1>1. x \in Ids /\ y \in Ids
  BY QueuedIsIndexed
<1>2. /\ book' \in BookType /\ BookAgrees(book')
      /\ \A z \in Ids : book'.index[z] = IF z = id THEN e ELSE book.index[z]
      /\ \A u \in Ids \ {id}, v \in Ids \ {id} :
            Precedes(book.seq[s][p], u, v) => Precedes(book'.seq[s][p], u, v)
  BY DEF Replaces
<1>3. Indexed(book', x) /\ Indexed(book', y)
  BY <1>2, QueuedIsIndexed
<1>4. x # id /\ y # id
  BY <1>2, <1>3 DEF Indexed
<1> QED BY <1>1, <1>2, <1>4

\* No step lets one waiting order overtake another.
LEMMA NextOvertakesNone ==
    ASSUME BookInv, SidesRespected, [Next]_vars
    PROVE  NoneOvertaken
<1>1. book \in BookType /\ BookAgrees(book)
  BY BookKept
<1>2. CASE UNCHANGED book
  BY <1>2 DEF NoneOvertaken
<1>3. ASSUME NEW user, NEW r, IsRequest(r), Routed(r), Accept(user, r)
      PROVE  NoneOvertaken
  <2> DEFINE n == Normalised(r)
  <2>1. n.id \in Ids /\ Replaces(book, book', n.id, EntryAfter(n))
    BY <1>3, AcceptEffect DEF IsRequest
  <2>2. req'.id = n.id
    BY <1>3, AcceptWrites
  <2> HIDE DEF n
  <2> QED BY <1>1, <2>1, <2>2, ReplacedOvertakesNone
<1>4. ASSUME NEW p \in Levels, Executes(p)
      PROVE  NoneOvertaken
  <2> DEFINE m == FrontOrder(p)
             e == [side |-> Opp(req.side), price |-> p, quantity |-> FrontQty(p) - rem]
  <2>1. AtLevel(p) /\ rem > 0 /\ req.id \in Ids /\ m \in Ids
    BY <1>4, ExecutionFront DEF Executes
  <2>2. CASE FrontQty(p) >= rem /\ TakePart(p)
    <3>1. PICK c : /\ Replaces(book, c, m, e)
                   /\ Replaces(c, book', req.id, NoEntry)
                   /\ c.seq = book.seq
      BY <2>1, <2>2, PartEffect
    <3> HIDE DEF m, e
    <3>2. \A s \in Side, p1 \in Levels, x \in Ids \ {req.id}, y \in Ids \ {req.id} :
            Precedes(book.seq[s][p1], x, y) => Precedes(book'.seq[s][p1], x, y)
      BY <3>1 DEF Replaces
    <3>3. \A s \in Side, p1 \in Levels : \A x \in ToSet(book.seq[s][p1]) : x \in Ids
      BY <1>1, QueuedIsIndexed
    <3> QED BY <3>2, <3>3 DEF NoneOvertaken
  <2>3. CASE FrontQty(p) <= rem /\ TakeWhole(p)
    <3>1. Replaces(book, book', m, NoEntry)
      BY <2>1, <2>3, WholeEffect
    <3> HIDE DEF m
    <3> QED BY <1>1, <2>1, <3>1, ReplacedOvertakesNone
  <2> QED BY <1>4, <2>2, <2>3 DEF Executes
<1>5. CASE KillMarketOrder \/ FinishMarketOrder
  <2>1. DropMarketOrder /\ pc # "idle" /\ req.id \in Ids
    BY <1>5 DEF KillMarketOrder, FinishMarketOrder, BookInv, TypeOK
  <2> QED BY <1>1, <2>1, DropEffect, ReplacedOvertakesNone
<1>6. CASE FinishLimitOrder
  <2>1. CASE rem > 0 /\ Indexed(book, req.id)
    <3>1. req.id \in Ids
      BY <1>6 DEF FinishLimitOrder, BookInv, TypeOK
    <3> QED BY <1>1, <1>6, <2>1, <3>1, RestEffect, ReplacedOvertakesNone
  <2>2. CASE ~(rem > 0 /\ Indexed(book, req.id))
    BY <1>2, <1>6, <2>2 DEF FinishLimitOrder
  <2> QED BY <2>1, <2>2
<1>7. CASE \/ NoCurrentPrice \/ RestLimitOrder \/ StartMarketOrder
           \/ StartLimitOrder \/ NextLevel \/ EndWalk \/ EndOwn \/ UNCHANGED vars
  BY <1>2, <1>7 DEF NoCurrentPrice, RestLimitOrder, StartMarketOrder,
     StartLimitOrder, NextLevel, EndWalk, EndOwn, vars
<1> QED BY <1>3, <1>4, <1>5, <1>6, <1>7, EngineStep DEF BookInv

\* Time priority survives every partial fill, modify and cancel of an order in
\* between, although the queue is searched and cut at each of them.
THEOREM QueueOrderAlwaysKept ==
    ASSUME SidesRespected
    PROVE  Spec => QueueOrderKept
<1>1. BookInv /\ [Next]_vars => [NoneOvertaken]_vars
  BY NextOvertakesNone
<1>2. Spec => [][NoneOvertaken]_vars
  BY <1>1, BookInvariant, PTL DEF Spec
<1> QED BY <1>2 DEF QueueOrderKept, NoneOvertaken

----------------------------------------------------------------------------
(* Fill or kill.                                                            *)

\* The levels still to be walked offer what remains of a fill-or-kill order.
FokCovered ==
    req.type = "market" /\ req.fok =>
        /\ pc = "walk" => rem <= Sum(book.total[Opp(req.side)], walk)
        /\ pc = "finish" => rem = 0

\* There are finitely many levels, so the totals of any of them have a sum.
LEMMA LevelsFinite == \A T \in SUBSET Levels : IsFiniteSet(T)
<1>1. IsFiniteSet(0 .. MaxPrice)
  BY ConstantsAssumption, FS_Interval
<1>2. Levels \in SUBSET (0 .. MaxPrice)
  BY ConstantsAssumption DEF Levels, MarketPrice
<1> QED BY <1>1, <1>2, FS_Subset

\* The sum of the totals of some levels of a side.
LEMMA TotalsSum ==
    ASSUME NEW b \in BookType, BookAgrees(b), NEW s \in Side, NEW T \in SUBSET Levels
    PROVE  /\ \A p \in T : b.total[s][p] \in Nat
           /\ Sum(b.total[s], T) \in Nat
           /\ \A U \in SUBSET T : Sum(b.total[s], U) <= Sum(b.total[s], T)
<1> DEFINE f == b.total[s]
<1>1. \A p \in T : f[p] \in Nat
  BY TotalCovers
<1>2. IsFiniteSet(T)
  BY LevelsFinite
<1> HIDE DEF f
<1>3. Sum(f, T) \in Nat
  BY <1>1, <1>2, SumNat
<1>4. \A U \in SUBSET T : Sum(f, U) <= Sum(f, T)
  BY <1>1, <1>2, SumPart
<1> QED BY <1>1, <1>3, <1>4 DEF f

\* The total of a level without orders is 0.
LEMMA EmptyTotal ==
    ASSUME BookInv, NEW s \in Side, NEW p \in Levels, ~HasLevel(book.orders, s, p)
    PROVE  book.total[s][p] = 0
<1> DEFINE f == [id \in Ids |-> OrderQty(book, s, p, id)]
<1>1. book.total[s][p] = Sum(f, Ids)
  BY DEF BookInv, CopiesAgree, TotalsAgree, Sum
<1>2. \A id \in Ids : f[id] = 0
  BY DEF HasLevel, OrderQty
<1> HIDE DEF f
<1> QED BY <1>1, <1>2, FinitelyManyOrders, SumZero

\* A fill-or-kill order starts only if the other side offers enough: the FOK
\* check stops somewhere in the tree that is then copied for the walk.
LEMMA StartCovered ==
    ASSUME BookInv, StartMarketOrder
    PROVE  FokCovered'
<1>1. /\ pc = "match" /\ pc' = "walk" /\ rem' = req.quantity /\ walk' = Opposite
      /\ req.fok => FokAvailable(book, req.side, req.quantity)
      /\ UNCHANGED <<book, req>>
  BY DEF StartMarketOrder, MustKill
<1>2. /\ Opp(req.side) \in Side /\ req.side \in Side /\ req.quantity \in Nat
      /\ book \in BookType /\ BookAgrees(book)
  BY <1>1, RequestInHand, BookKept DEF BookInv
<1> DEFINE f == book.total[Opp(req.side)]
<1>3. Opposite \in SUBSET Levels
  BY <1>2 DEF Opposite, BookType
<1>4. Sum(f, Opposite) \in Nat /\ \A U \in SUBSET Opposite :
        Sum(f, U) \in Nat /\ Sum(f, U) <= Sum(f, Opposite)
  BY <1>2, <1>3, TotalsSum
<1> SUFFICES ASSUME req.fok PROVE req.quantity <= Sum(f, Opposite)
  BY <1>1 DEF FokCovered
<1>5. PICK p \in FokLevels(book, req.side) :
        req.quantity <= FokSum(book, req.side, p)
  BY <1>1 DEF FokAvailable
<1> DEFINE U == {q \in FokLevels(book, req.side) : q = p \/ Better(Opp(req.side), q, p)}
<1>6. U \in SUBSET Opposite
  BY <1>2 DEF FokLevels, Opposite, Opp, Side
<1>7. FokSum(book, req.side, p) = Sum(f, U)
  BY DEF FokSum, Sum
<1> HIDE DEF f, U
<1> QED BY <1>2, <1>4, <1>5, <1>6, <1>7

\* An execution takes the same off what remains and off what is offered.
LEMMA ExecutionCovered ==
    ASSUME BookInv, BookInv', WalkCovers, FokCovered, NEW p \in Levels, Executes(p)
    PROVE  FokCovered'
<1> DEFINE o == Opp(req.side)
           f == book.total[o]
           g == book'.total[o]
           w == FrontQty(p)
           v == IF w >= rem THEN rem ELSE w
<1>1. /\ UNCHANGED <<pc, req, walk>> /\ rem \in Nat /\ w \in Nat
      /\ req.side \in Side /\ o \in Side /\ o # req.side
      /\ pc \in {"walk", "own"} /\ AtLevel(p)
  BY AtLevelFront, ExecutionFront, ExecutionIndex DEF Executes, BookInv
<1>2. SUFFICES ASSUME req.type = "market", req.fok, pc = "walk"
               PROVE  rem' <= Sum(g, walk)
  BY <1>1 DEF FokCovered, WalkCovers
<1>3. rem <= Sum(f, walk)
  BY <1>2 DEF FokCovered
<1>4. walk \in SUBSET Levels /\ p \in walk
  <2>1. walk \in SUBSET Levels
    BY DEF BookInv, TypeOK
  <2> QED BY <1>1, <1>2, <2>1, BestIsBest DEF AtLevel, WalkPrice
<1>5. rem' = rem - v
  <2>1. (w >= rem /\ rem' = 0) \/ (w <= rem /\ rem' = rem - w)
    BY ExecutionIndex
  <2> HIDE DEF w
  <2> QED BY <1>1, <2>1
<1>6. \A q \in walk : g[q] = IF q = p THEN f[q] - v ELSE f[q]
  <2>1. \A s \in Side, q \in Levels : book'.total[s][q] =
            IF s = Opp(req.side) /\ q = p THEN book.total[s][q] - v
            ELSE IF s = req.side /\ q = req.price THEN book'.total[s][q]
            ELSE book.total[s][q]
    BY ExecutionTotals
  <2> QED BY <1>1, <1>4, <2>1
<1>7. /\ \A q \in walk : f[q] \in Nat /\ g[q] \in Nat
      /\ IsFiniteSet(walk) /\ Sum(f, walk) \in Nat
  <2>1. book' \in BookType /\ BookAgrees(book')
    BY DEF BookInv, TypeOK, CopiesAgree, BookAgrees, IndexAgrees, QueuesAgree,
       TotalsAgree, OrderQty
  <2>2. book \in BookType /\ BookAgrees(book)
    BY BookKept
  <2> QED BY <1>1, <1>4, <2>1, <2>2, TotalsSum, LevelsFinite
<1> HIDE DEF o, f, g, w
<1>8. v \in Nat
  BY <1>1
<1> HIDE DEF v
<1>9. Sum(g, walk) = Sum(f, walk) - f[p] + g[p]
  <2>1. /\ \A q \in walk : f[q] \in Int /\ g[q] \in Int
        /\ \A q \in walk \ {p} : f[q] = g[q]
    BY <1>6, <1>7
  <2> QED BY <1>4, <1>7, <2>1, SumChange
<1>10. g[p] = f[p] - v /\ f[p] \in Nat
  BY <1>4, <1>6, <1>7
<1> QED BY <1>1, <1>3, <1>5, <1>7, <1>8, <1>9, <1>10

\* A level that is passed over offers nothing.
LEMMA PassCovered ==
    ASSUME BookInv, FokCovered, NextLevel
    PROVE  FokCovered'
<1> DEFINE o == Opp(req.side)
           f == book.total[o]
           P == WalkPrice
<1>1. /\ P \in walk /\ P \in Levels /\ ~HasLevel(book.orders, o, P)
      /\ walk' = walk \ {P} /\ pc = "walk" /\ UNCHANGED <<book, pc, req, rem>>
  BY PassedLevel
<1>2. o \in Side /\ walk \in SUBSET Levels
  BY <1>1, RequestInHand DEF BookInv, TypeOK
<1>3. f[P] = 0
  BY <1>1, <1>2, EmptyTotal
<1>4. /\ IsFiniteSet(walk) /\ \A q \in walk : f[q] \in Int
      /\ Sum(f, walk \ {P}) \in Int
  <2>1. book \in BookType /\ BookAgrees(book)
    BY BookKept
  <2>2. /\ \A q \in walk : f[q] \in Nat
        /\ Sum(f, walk \ {P}) \in Nat
    BY <1>2, <2>1, TotalsSum
  <2> QED BY <1>2, <2>2, LevelsFinite
<1> HIDE DEF f, P
<1>5. Sum(f, walk) = f[P] + Sum(f, walk \ {P})
  BY <1>1, <1>4, SumTakeOut
<1>6. Sum(f, walk') = Sum(f, walk)
  BY <1>1, <1>3, <1>4, <1>5
<1> QED BY <1>1, <1>6 DEF FokCovered, f

\* Every step keeps a started fill-or-kill order covered.
LEMMA NextFok ==
    ASSUME BookInv, SidesRespected, WalkCovers, FokCovered, [Next]_vars
    PROVE  FokCovered'
<1>1. CASE pc' \notin {"walk", "finish"}
  BY <1>1 DEF FokCovered
<1>2. CASE StartLimitOrder
  BY <1>2 DEF StartLimitOrder, FokCovered
<1>3. CASE EndWalk
  <2>1. /\ pc = "walk" /\ (walk = {} \/ rem = 0) /\ UNCHANGED <<book, req, rem>>
        /\ pc' \in {"own", "finish"}
    BY <1>3 DEF EndWalk
  <2>2. Sum(book.total[Opp(req.side)], {}) = 0 /\ rem \in Nat
    BY SumEmpty DEF BookInv, TypeOK
  <2> QED BY <2>1, <2>2 DEF FokCovered
<1>4. CASE EndOwn
  <2>1. pc = "own" /\ pc' = "finish" /\ UNCHANGED req
    BY <1>4 DEF EndOwn
  <2> QED BY <2>1 DEF FokCovered, WalkCovers
<1>5. CASE UNCHANGED vars
  BY <1>5 DEF FokCovered, vars
<1>6. ASSUME NEW user, NEW r, IsRequest(r), Routed(r), Accept(user, r)
      PROVE  FokCovered'
  BY <1>1, <1>6, AcceptWrites
<1>7. ASSUME NEW p \in Levels, Executes(p)
      PROVE  FokCovered'
  BY <1>7, NextBook, ExecutionCovered
<1>8. CASE \/ NoCurrentPrice \/ RestLimitOrder
           \/ KillMarketOrder \/ FinishMarketOrder \/ FinishLimitOrder
  BY <1>1, <1>8 DEF NoCurrentPrice, RestLimitOrder, KillMarketOrder,
     FinishMarketOrder, FinishLimitOrder, DropMarketOrder, Return
<1> QED BY <1>2, <1>3, <1>4, <1>5, <1>6, <1>7, <1>8, StartCovered, PassCovered,
           EngineStep DEF BookInv

\* A fill-or-kill order that passed the check is filled to the last unit: what
\* the check added up is what the walk over the copied tree meets.
THEOREM FillOrKillKept ==
    ASSUME SidesRespected
    PROVE  Spec => []FillOrKill
<1> DEFINE I == WalkCovers /\ FokCovered
<1>1. Init => I
  BY DEF Init, WalkCovers, FokCovered
<1>2. BookInv /\ I /\ [Next]_vars => I'
  BY NextWalk, NextFok
<1>3. I => FillOrKill
  BY DEF FokCovered, FillOrKill
<1> QED BY <1>1, <1>2, <1>3, BookInvariant, PTL DEF Spec
=============================================================================
