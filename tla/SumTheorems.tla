---------------------------- MODULE SumTheorems ----------------------------
(***************************************************************************)
(* Sums over finite sets.  SumFunction counts its function an element at a *)
(* time, in an order nothing is known of; that every order gives the same, *)
(* and what follows, is proved by taking a least set or number for which   *)
(* it would not: an induction that needs no operator as a parameter.       *)
(***************************************************************************)
EXTENDS Integers, Functions, FiniteSetTheorems, WellFoundedInduction, TLAPS

\* A non-empty set of numbers has a smallest.
LEMMA Smallest ==
    ASSUME NEW T, T \subseteq Nat, T # {}
    PROVE  \E x \in T : \A y \in T : x <= y
<1>1. PICK x \in T : \A y \in T : ~ (<<y, x>> \in OpToRel(<, Nat))
      BY NatLessThanWellFounded, WFMin, Zenon
<1>2. ASSUME NEW y \in T PROVE x <= y
  <2>1. y < x => <<y, x>> \in OpToRel(<, Nat) BY SMT DEF OpToRel
  <2>2. ~ (<<y, x>> \in OpToRel(<, Nat)) BY <1>1, Zenon
  <2>3. ~ (y < x) BY <2>1, <2>2, Zenon
  <2> QED BY <2>3
<1> QED BY <1>2

\* Induction on numbers, for a set of numbers: those that are not good have a first.
LEMMA SmallestNat ==
    ASSUME NEW Bad, Bad \subseteq Nat, Bad # {}
    PROVE  \E n \in Bad : \A m \in 0 .. n - 1 : m \notin Bad
<1>1. PICK n \in Bad : \A m \in Bad : n <= m
  BY Smallest
<1>2. ASSUME NEW m \in 0 .. n - 1, m \in Bad PROVE FALSE
  BY <1>1, <1>2
<1> QED
  BY <1>2

\* Induction on finite sets, for a set of sets: those that are not good have a least.
LEMMA SmallestBad ==
    ASSUME NEW S, IsFiniteSet(S), NEW Bad, Bad \subseteq SUBSET S, Bad # {}
    PROVE  \E T \in Bad : \A U \in SUBSET T : U # T => U \notin Bad
<1>1. Bad \subseteq FiniteSubsetsOf(S)
  BY FS_Subset DEF FiniteSubsetsOf
<1>2. PICK T \in Bad : \A U \in Bad : ~(<<U, T>> \in StrictSubsetOrdering(S))
  BY <1>1, FS_StrictSubsetOrderingWellFounded, WFMin
<1> QED
  BY <1>2 DEF StrictSubsetOrdering

-----------------------------------------------------------------------------
(* How SumFunction counts.                                                  *)

First(S) == CHOOSE x \in S : TRUE

\* g sums f over every subset of S, an element at a time.
SumsUp(g, f, S) ==
    g = [T \in SUBSET S |-> IF T = {} THEN 0 ELSE f[First(T)] + g[T \ {First(T)}]]

LEMMA SumUnfolds ==
    ASSUME NEW f
    PROVE  SumFunction(f) = (CHOOSE g : SumsUp(g, f, DOMAIN f))[DOMAIN f]
  BY DEF SumFunction, SumFunctionOnSet, FoldFunctionOnSet, MapThenFoldSet, SumsUp, First

LEMMA FirstInSet == \A T : T # {} => First(T) \in T
  BY DEF First

LEMMA CountsExists ==
    ASSUME NEW S, IsFiniteSet(S), NEW f \in [S -> Int]
    PROVE  \E g : SumsUp(g, f, S)
<1> DEFINE Step(g) == [T \in SUBSET S |-> IF T = {} THEN 0 ELSE f[First(T)] + g[T \ {First(T)}]]
           Up(n) == {T \in SUBSET S : Cardinality(T) <= n}
           Bad == {n \in Nat : ~ \E g : \A T \in Up(n) : g[T] = Step(g)[T]}
<1>1. Bad = {}
  <2> SUFFICES ASSUME Bad # {} PROVE FALSE
    OBVIOUS
  <2>1. PICK n \in Bad : \A m \in 0 .. n - 1 : m \notin Bad
    BY SmallestNat
  <2>2. n \in Nat
    OBVIOUS
  <2>3. CASE n = 0
    <3> DEFINE g == [T \in SUBSET S |-> 0]
    <3>1. ASSUME NEW T \in Up(0) PROVE T = {}
      <4>1. IsFiniteSet(T) /\ Cardinality(T) \in Nat /\ Cardinality(T) <= 0
        BY FS_Subset, FS_CardinalityType
      <4> QED
        BY <4>1, FS_EmptySet
    <3>2. \A T \in Up(0) : g[T] = Step(g)[T]
      BY <3>1
    <3> QED
      BY <2>1, <2>3, <3>2
  <2>4. CASE n # 0
    <3>1. n - 1 \in Nat /\ n - 1 \notin Bad
      <4>1. n - 1 \in 0 .. n - 1 /\ n - 1 \in Nat
        BY <2>2, <2>4
      <4> HIDE DEF Bad
      <4> QED
        BY <2>1, <4>1
    <3>2. PICK g : \A T \in Up(n - 1) : g[T] = Step(g)[T]
      BY <3>1
    <3> DEFINE h == Step(g)
    <3>3. ASSUME NEW T \in Up(n) PROVE h[T] = Step(h)[T]
      <4>1. CASE T = {}
        BY <4>1
      <4>2. CASE T # {}
        <5> DEFINE R == T \ {First(T)}
        <5>1. First(T) \in T
          BY <4>2, FirstInSet
        <5>2. R \in Up(n - 1)
          <6>1. IsFiniteSet(T)
            BY FS_Subset
          <6>2. Cardinality(R) = Cardinality(T) - 1 /\ Cardinality(T) \in Nat
            BY <6>1, <5>1, FS_RemoveElement, FS_CardinalityType
          <6>3. Cardinality(T) <= n /\ R \in SUBSET S
            OBVIOUS
          <6>4. Cardinality(R) <= n - 1
            BY <2>2, <6>2, <6>3
          <6> QED
            BY <6>3, <6>4
        <5>3. h[R] = g[R]
          BY <3>2, <5>2
        <5>4. h[T] = f[First(T)] + g[R] /\ Step(h)[T] = f[First(T)] + h[R]
          BY <4>2
        <5> QED
          BY <5>3, <5>4
      <4> QED
        BY <4>1, <4>2
    <3> HIDE DEF h
    <3> QED
      BY <2>1, <3>3
  <2> QED
    BY <2>3, <2>4
<1>2. Cardinality(S) \in Nat
  BY FS_CardinalityType
<1>3. PICK g : \A T \in Up(Cardinality(S)) : g[T] = Step(g)[T]
  BY <1>1, <1>2
<1>4. \A T \in SUBSET S : T \in Up(Cardinality(S))
  BY FS_Subset
<1> DEFINE h == Step(g)
<1>5. \A T \in SUBSET S : h[T] = g[T]
  BY <1>3, <1>4
<1>6. \A T \in SUBSET S : T \ {First(T)} \in SUBSET S
  OBVIOUS
<1>7. h = Step(h)
  BY <1>5, <1>6
<1> QED
  BY <1>7 DEF SumsUp

\* Two counts agree wherever they count the same.
LEMMA CountsAgree ==
    ASSUME NEW S, IsFiniteSet(S), NEW f, NEW g, SumsUp(g, f, S),
           NEW V \in SUBSET S, NEW e, NEW h, SumsUp(h, e, V), \A x \in V : e[x] = f[x]
    PROVE  \A T \in SUBSET V : h[T] = g[T]
<1> DEFINE Bad == {T \in SUBSET V : h[T] # g[T]}
<1> SUFFICES ASSUME Bad # {} PROVE FALSE
  OBVIOUS
<1>1. PICK T \in Bad : \A U \in SUBSET T : U # T => U \notin Bad
  <2>1. IsFiniteSet(V)
    BY FS_Subset
  <2> HIDE DEF Bad
  <2>2. Bad \subseteq SUBSET V
    BY DEF Bad
  <2> QED
    BY <2>1, <2>2, SmallestBad
<1> DEFINE R == T \ {First(T)}
<1>2. /\ g[T] = IF T = {} THEN 0 ELSE f[First(T)] + g[R]
      /\ h[T] = IF T = {} THEN 0 ELSE e[First(T)] + h[R]
  BY DEF SumsUp
<1>3. T # {} /\ First(T) \in T
  BY <1>2, FirstInSet
<1>4. R \in SUBSET T /\ R # T
  BY <1>3
<1>5. R \notin Bad
  BY <1>1, <1>4
<1>6. h[R] = g[R]
  BY <1>5
<1> QED
  BY <1>2, <1>3, <1>6

LEMMA CountsType ==
    ASSUME NEW S, IsFiniteSet(S), NEW N \in {Nat, Int}, NEW f \in [S -> N], NEW g, SumsUp(g, f, S)
    PROVE  \A T \in SUBSET S : g[T] \in N
<1> DEFINE Bad == {T \in SUBSET S : g[T] \notin N}
<1> SUFFICES ASSUME Bad # {} PROVE FALSE
  OBVIOUS
<1>1. PICK T \in Bad : \A U \in SUBSET T : U # T => U \notin Bad
  <2> HIDE DEF Bad
  <2>1. Bad \subseteq SUBSET S
    BY DEF Bad
  <2> QED
    BY <2>1, SmallestBad
<1> DEFINE R == T \ {First(T)}
<1>2. g[T] = IF T = {} THEN 0 ELSE f[First(T)] + g[R]
  BY DEF SumsUp
<1>3. T # {} /\ First(T) \in T
  BY <1>2, FirstInSet
<1>4. R \in SUBSET T /\ R # T
  BY <1>3
<1>5. g[R] \in N
  BY <1>1, <1>4
<1>6. f[First(T)] \in N
  BY <1>3
<1>7. f[First(T)] + g[R] \in N
  BY <1>5, <1>6
<1> QED
  BY <1>2, <1>3, <1>7

\* What f sums to over V.
SumOver(f, V) == SumFunction([x \in V |-> f[x]])

LEMMA SumIsCount ==
    ASSUME NEW S, IsFiniteSet(S), NEW f \in [S -> Int]
    PROVE  \E g : SumsUp(g, f, S) /\ \A V \in SUBSET S : SumOver(f, V) = g[V]
<1>1. PICK g : SumsUp(g, f, S)
  BY CountsExists
<1>2. ASSUME NEW V \in SUBSET S PROVE SumOver(f, V) = g[V]
  <2> DEFINE e == [x \in V |-> f[x]]
             h == CHOOSE k : SumsUp(k, e, V)
  <2>1. IsFiniteSet(V) /\ e \in [V -> Int]
    BY FS_Subset
  <2>2. SumFunction(e) = h[V]
    BY SumUnfolds
  <2>3. SumsUp(h, e, V)
    <3> HIDE DEF e
    <3> QED
      BY <2>1, CountsExists
  <2>4. \A x \in V : e[x] = f[x]
    OBVIOUS
  <2> HIDE DEF h, e
  <2>5. h[V] = g[V]
    BY <1>1, <2>3, <2>4, CountsAgree
  <2> QED
    BY <2>2, <2>5 DEF SumOver, e
<1> QED
  BY <1>1, <1>2

LEMMA SumType ==
    ASSUME NEW S, IsFiniteSet(S), NEW N \in {Nat, Int}, NEW f \in [S -> N], NEW V \in SUBSET S
    PROVE  SumOver(f, V) \in N
<1>1. f \in [S -> Int]
  OBVIOUS
<1> QED
  BY <1>1, SumIsCount, CountsType

LEMMA SumEmpty == \A f : SumOver(f, {}) = 0
<1> TAKE f
<1> DEFINE e == [x \in {} |-> f[x]]
<1>1. e \in [{} -> Int]
  OBVIOUS
<1>2. [x \in {} |-> e[x]] = [x \in {} |-> f[x]]
  OBVIOUS
<1> HIDE DEF e
<1>3. PICK g : SumsUp(g, e, {}) /\ \A V \in SUBSET {} : SumOver(e, V) = g[V]
  BY <1>1, SumIsCount, FS_EmptySet
<1>4. g[{}] = 0
  BY <1>3 DEF SumsUp
<1> QED
  BY <1>2, <1>3, <1>4 DEF SumOver

\* One element more counts once, whichever it is.
LEMMA SumRemove ==
    ASSUME NEW S, IsFiniteSet(S), NEW f \in [S -> Int], NEW V \in SUBSET S, NEW x \in V
    PROVE  SumOver(f, V) = f[x] + SumOver(f, V \ {x})
<1>1. PICK g : SumsUp(g, f, S) /\ \A T \in SUBSET S : SumOver(f, T) = g[T]
  BY SumIsCount
<1> DEFINE Bad == {T \in SUBSET S : \E y \in T : g[T] # f[y] + g[T \ {y}]}
<1> SUFFICES Bad = {}
  <2>1. V \notin Bad /\ V \ {x} \in SUBSET S
    OBVIOUS
  <2> QED
    BY <1>1, <2>1
<1> SUFFICES ASSUME Bad # {} PROVE FALSE
  OBVIOUS
<1>2. PICK T \in Bad : \A U \in SUBSET T : U # T => U \notin Bad
  <2> HIDE DEF Bad
  <2>1. Bad \subseteq SUBSET S
    BY DEF Bad
  <2> QED
    BY <2>1, SmallestBad
<1>3. PICK y \in T : g[T] # f[y] + g[T \ {y}]
  OBVIOUS
<1>4. T \in SUBSET S
  OBVIOUS
<1>5. PICK a \in T : a = First(T)
  BY FirstInSet
<1>6. g[T] = f[a] + g[T \ {a}]
  BY <1>1, <1>4, <1>5 DEF SumsUp
<1>7. a # y
  BY <1>3, <1>6
<1>8. /\ T \ {a} \in SUBSET T /\ T \ {a} # T /\ y \in T \ {a}
      /\ T \ {y} \in SUBSET T /\ T \ {y} # T /\ a \in T \ {y}
  BY <1>7
<1>9. g[T \ {a}] = f[y] + g[(T \ {a}) \ {y}]
  BY <1>2, <1>4, <1>8
<1>10. g[T \ {y}] = f[a] + g[(T \ {y}) \ {a}]
  BY <1>2, <1>4, <1>8
<1>11. (T \ {a}) \ {y} = (T \ {y}) \ {a}
  OBVIOUS
<1>12. /\ f[a] \in Int /\ f[y] \in Int
       /\ g[(T \ {a}) \ {y}] \in Int
  BY <1>1, <1>4, CountsType
<1>13. \A i, j, k \in Int : i + (j + k) = j + (i + k)
  OBVIOUS
<1> HIDE DEF Bad
<1> DEFINE r == g[(T \ {a}) \ {y}]
<1>14. f[a] + (f[y] + r) = f[y] + (f[a] + r)
  <2> HIDE DEF r
  <2>1. f[a] \in Int /\ f[y] \in Int /\ r \in Int
    BY <1>12 DEF r
  <2> QED
    BY <1>13, <2>1
<1>15. g[T] = f[a] + (f[y] + r)
  BY <1>6, <1>9
<1>16. g[T \ {y}] = f[a] + r
  BY <1>10, <1>11
<1> HIDE DEF r
<1> QED
  BY <1>3, <1>14, <1>15, <1>16

\* Sums over smaller sets of smaller numbers are smaller.
LEMMA SumLess ==
    ASSUME NEW S, IsFiniteSet(S), NEW f \in [S -> Nat], NEW V \in SUBSET S, NEW e \in [V -> Nat],
           \A x \in V : e[x] <= f[x]
    PROVE  SumOver(e, V) <= SumOver(f, S)
<1> DEFINE Bad == {T \in SUBSET S : ~(SumOver(e, T \cap V) <= SumOver(f, T))}
<1> SUFFICES Bad = {}
  <2>1. S \notin Bad /\ S \cap V = V
    OBVIOUS
  <2> QED
    BY <2>1
<1> SUFFICES ASSUME Bad # {} PROVE FALSE
  OBVIOUS
<1>1. PICK T \in Bad : \A U \in SUBSET T : U # T => U \notin Bad
  <2> HIDE DEF Bad
  <2>1. Bad \subseteq SUBSET S
    BY DEF Bad
  <2> QED
    BY <2>1, SmallestBad
<1>2. T \in SUBSET S /\ ~(SumOver(e, T \cap V) <= SumOver(f, T))
  OBVIOUS
<1>3. CASE T = {}
  <2>1. SumOver(e, T \cap V) = 0 /\ SumOver(f, T) = 0
    BY <1>3, SumEmpty
  <2> QED
    BY <1>2, <2>1
<1>4. CASE T # {}
  <2>1. PICK x \in T : TRUE
    BY <1>4
  <2> DEFINE R == T \ {x}
  <2>2. R \in SUBSET T /\ R # T /\ R \in SUBSET S
    BY <1>2, <2>1
  <2>3. R \notin Bad
    BY <1>1, <2>2
  <2>4. SumOver(e, R \cap V) <= SumOver(f, R)
    BY <2>2, <2>3
  <2> HIDE DEF Bad, R
  <2>5. IsFiniteSet(V) /\ f \in [S -> Int] /\ e \in [V -> Int]
    BY FS_Subset
  <2>6. SumOver(f, T) = f[x] + SumOver(f, R)
    BY <1>2, <2>5, SumRemove DEF R
  <2>7. /\ SumOver(f, R) \in Nat /\ f[x] \in Nat
        /\ SumOver(e, R \cap V) \in Nat
    BY <1>2, <2>2, <2>5, SumType
  <2>8. CASE x \in V
    <3>1. x \in T \cap V /\ T \cap V \in SUBSET V /\ (T \cap V) \ {x} = R \cap V
      BY <2>8 DEF R
    <3>2. SumOver(e, T \cap V) = e[x] + SumOver(e, R \cap V)
      BY <2>5, <3>1, SumRemove
    <3>3. e[x] \in Nat /\ e[x] <= f[x]
      BY <2>8
    <3> QED
      BY <1>2, <2>4, <2>6, <2>7, <3>2, <3>3
  <2>9. CASE x \notin V
    <3>1. T \cap V = R \cap V
      BY <2>9 DEF R
    <3> QED
      BY <1>2, <2>4, <2>6, <2>7, <3>1
  <2> QED
    BY <2>8, <2>9
<1> QED
  BY <1>3, <1>4

\* What is counted in two parts is counted once.
LEMMA SumSplit ==
    ASSUME NEW S, IsFiniteSet(S), NEW f \in [S -> Nat], NEW V \in SUBSET S, NEW W \in SUBSET S,
           V \cap W = {}
    PROVE  SumOver(f, V \cup W) = SumOver(f, V) + SumOver(f, W)
<1> DEFINE Bad == {T \in SUBSET W : SumOver(f, V \cup T) # SumOver(f, V) + SumOver(f, T)}
<1> SUFFICES Bad = {}
  OBVIOUS
<1> SUFFICES ASSUME Bad # {} PROVE FALSE
  OBVIOUS
<1>1. PICK T \in Bad : \A U \in SUBSET T : U # T => U \notin Bad
  <2>1. IsFiniteSet(W)
    BY FS_Subset
  <2> HIDE DEF Bad
  <2>2. Bad \subseteq SUBSET W
    BY DEF Bad
  <2> QED
    BY <2>1, <2>2, SmallestBad
<1>2. T \in SUBSET W /\ SumOver(f, V \cup T) # SumOver(f, V) + SumOver(f, T)
  OBVIOUS
<1>3. SumOver(f, V) \in Nat
  BY SumType
<1>4. CASE T = {}
  <2>1. V \cup T = V /\ SumOver(f, T) = 0
    BY <1>4, SumEmpty
  <2>2. SumOver(f, V) + 0 = SumOver(f, V)
    BY <1>3
  <2> HIDE DEF Bad
  <2>3. SumOver(f, V \cup T) = SumOver(f, V)
    BY <2>1
  <2> QED
    BY <1>2, <2>1, <2>2, <2>3
<1>5. CASE T # {}
  <2>1. PICK x \in T : TRUE
    BY <1>5
  <2> DEFINE R == T \ {x}
  <2>2. R \in SUBSET T /\ R # T /\ R \in SUBSET W
    BY <1>2, <2>1
  <2>3. SumOver(f, V \cup R) = SumOver(f, V) + SumOver(f, R)
    BY <1>1, <2>2
  <2> HIDE DEF Bad
  <2>4. f \in [S -> Int]
    OBVIOUS
  <2>5. SumOver(f, T) = f[x] + SumOver(f, R)
    BY <1>2, <2>4, SumRemove
  <2>6. SumOver(f, V \cup T) = f[x] + SumOver(f, V \cup R)
    <3>1. (V \cup T) \ {x} = V \cup R /\ x \in V \cup T /\ V \cup T \in SUBSET S
      BY <1>2, <2>1
    <3> HIDE DEF R
    <3> QED
      BY <2>4, <3>1, SumRemove
  <2>7. SumOver(f, R) \in Nat /\ f[x] \in Nat
    BY <1>2, <2>2, SumType
  <2> HIDE DEF R
  <2> QED
    BY <1>2, <1>3, <2>3, <2>5, <2>6, <2>7
<1> QED
  BY <1>4, <1>5

LEMMA SumSame ==
    ASSUME NEW e, NEW f, NEW V, \A x \in V : e[x] = f[x]
    PROVE  SumOver(e, V) = SumOver(f, V)
<1>1. [x \in V |-> e[x]] = [x \in V |-> f[x]]
  OBVIOUS
<1> QED
  BY <1>1 DEF SumOver

LEMMA SumOrder ==
    ASSUME NEW S, IsFiniteSet(S), NEW f \in [S -> Nat], NEW e \in [S -> Nat],
           NEW W \in SUBSET S, NEW V \in SUBSET W, \A x \in V : e[x] <= f[x]
    PROVE  SumOver(e, V) <= SumOver(f, W)
<1> DEFINE d == [x \in V |-> e[x]]
           g == [x \in W |-> f[x]]
<1>1. IsFiniteSet(W) /\ d \in [V -> Nat] /\ g \in [W -> Nat]
  BY FS_Subset
<1>2. \A x \in V : d[x] <= g[x]
  OBVIOUS
<1>3. (\A x \in V : e[x] = d[x]) /\ (\A x \in W : f[x] = g[x])
  OBVIOUS
<1> HIDE DEF d, g
<1>4. SumOver(d, V) <= SumOver(g, W)
  BY <1>1, <1>2, SumLess
<1>5. SumOver(e, V) = SumOver(d, V) /\ SumOver(f, W) = SumOver(g, W)
  BY <1>3, SumSame
<1> QED
  BY <1>4, <1>5

LEMMA SumAdd ==
    ASSUME NEW S, IsFiniteSet(S), NEW f \in [S -> Nat], NEW V \in SUBSET S, NEW x \in S \ V
    PROVE  SumOver(f, V \cup {x}) = f[x] + SumOver(f, V)
<1>1. (V \cup {x}) \ {x} = V /\ V \cup {x} \in SUBSET S /\ f \in [S -> Int]
  OBVIOUS
<1> QED
  BY <1>1, SumRemove

\* What is counted group by group stays below what bounds each group.
LEMMA SumGrouped ==
    ASSUME NEW S, IsFiniteSet(S), NEW f \in [S -> Nat], NEW C, IsFiniteSet(C),
           NEW h \in [C -> Nat], NEW g,
           \A c \in C : SumOver(f, {x \in S : g[x] = c}) <= h[c]
    PROVE  SumOver(f, {x \in S : g[x] \in C}) <= SumOver(h, C)
<1> DEFINE In(D) == {x \in S : g[x] \in D}
           Bad == {D \in SUBSET C : ~(SumOver(f, In(D)) <= SumOver(h, D))}
<1> SUFFICES Bad = {}
  OBVIOUS
<1> SUFFICES ASSUME Bad # {} PROVE FALSE
  OBVIOUS
<1>1. PICK D \in Bad : \A U \in SUBSET D : U # D => U \notin Bad
  <2> HIDE DEF Bad
  <2>1. Bad \subseteq SUBSET C
    BY DEF Bad
  <2> QED
    BY <2>1, SmallestBad
<1>2. D \in SUBSET C /\ ~(SumOver(f, In(D)) <= SumOver(h, D))
  OBVIOUS
<1>3. CASE D = {}
  <2>1. In(D) = {}
    BY <1>3
  <2>2. SumOver(f, In(D)) = 0 /\ SumOver(h, D) = 0
    BY <1>3, <2>1, SumEmpty
  <2> HIDE DEF Bad, In
  <2> QED
    BY <1>2, <2>2
<1>4. CASE D # {}
  <2>1. PICK c \in D : TRUE
    BY <1>4
  <2> DEFINE R == D \ {c}
             Own == {x \in S : g[x] = c}
  <2>2. R \in SUBSET D /\ R # D /\ R \in SUBSET C
    BY <1>2, <2>1
  <2>3. SumOver(f, In(R)) <= SumOver(h, R)
    BY <1>1, <2>2
  <2>4. In(D) = In(R) \cup Own /\ In(R) \cap Own = {}
    BY <2>1
  <2>5. In(R) \in SUBSET S /\ Own \in SUBSET S /\ h \in [C -> Int] /\ c \in C
    BY <1>2
  <2>6. SumOver(f, Own) <= h[c]
    BY <2>5
  <2> HIDE DEF Bad, In, Own
  <2>7. SumOver(f, In(D)) = SumOver(f, In(R)) + SumOver(f, Own)
    <3>1. PICK A \in SUBSET S, B \in SUBSET S : A = In(R) /\ B = Own
      BY <2>5
    <3>2. A \cap B = {}
      BY <2>4, <3>1
    <3>3. SumOver(f, A \cup B) = SumOver(f, A) + SumOver(f, B)
      BY <3>2, SumSplit
    <3> QED
      BY <2>4, <3>1, <3>3
  <2>8. SumOver(h, D) = h[c] + SumOver(h, R)
    BY <1>2, <2>1, <2>5, SumRemove
  <2>9. /\ SumOver(f, In(R)) \in Nat /\ SumOver(f, Own) \in Nat
        /\ h[c] \in Nat /\ SumOver(h, R) \in Nat
    BY <2>2, <2>5, SumType
  <2> QED
    BY <1>2, <2>3, <2>6, <2>7, <2>8, <2>9
<1> QED
  BY <1>3, <1>4

\* What is not counted in a larger set counts for nothing.
LEMMA SumOfZeroes ==
    ASSUME NEW S, IsFiniteSet(S), NEW f \in [S -> Int], NEW V \in SUBSET S,
           \A x \in S \ V : f[x] = 0
    PROVE  SumOver(f, S) = SumOver(f, V)
<1> DEFINE Bad == {T \in SUBSET (S \ V) : SumOver(f, V \cup T) # SumOver(f, V)}
<1> SUFFICES Bad = {}
  <2>1. S \ V \notin Bad /\ V \cup (S \ V) = S
    OBVIOUS
  <2> QED
    BY <2>1
<1> SUFFICES ASSUME Bad # {} PROVE FALSE
  OBVIOUS
<1>1. PICK T \in Bad : \A U \in SUBSET T : U # T => U \notin Bad
  <2>1. IsFiniteSet(S \ V)
    BY FS_Subset
  <2> HIDE DEF Bad
  <2>2. Bad \subseteq SUBSET (S \ V)
    BY DEF Bad
  <2> QED
    BY <2>1, <2>2, SmallestBad
<1>2. T \in SUBSET (S \ V) /\ SumOver(f, V \cup T) # SumOver(f, V)
  OBVIOUS
<1>3. T # {}
  <2>1. V \cup {} = V
    OBVIOUS
  <2> QED
    BY <1>2, <2>1
<1>4. PICK x \in T : TRUE
  BY <1>3
<1> DEFINE R == T \ {x}
<1>5. R \in SUBSET T /\ R # T /\ R \in SUBSET (S \ V) /\ x \in S \ V
  BY <1>2, <1>4
<1>6. SumOver(f, V \cup R) = SumOver(f, V)
  BY <1>1, <1>5
<1>7. V \cup T \in SUBSET S /\ x \in V \cup T /\ (V \cup T) \ {x} = V \cup R /\ V \cup R \in SUBSET S
  BY <1>2, <1>4, <1>5
<1> HIDE DEF Bad, R
<1>8. SumOver(f, V \cup T) = f[x] + SumOver(f, V \cup R)
  BY <1>7, SumRemove
<1>9. SumOver(f, V \cup R) \in Int
  BY <1>7, SumType
<1>10. f[x] = 0
  BY <1>5
<1> QED
  BY <1>2, <1>6, <1>8, <1>9, <1>10

\* Where one element changes, and the others do not grow, the sum grows by no more.
LEMMA SumElsewhere ==
    ASSUME NEW S, IsFiniteSet(S), NEW f \in [S -> Nat], NEW e \in [S -> Nat], NEW x \in S,
           \A y \in S \ {x} : e[y] <= f[y]
    PROVE  SumOver(e, S) + f[x] <= SumOver(f, S) + e[x]
<1>1. f \in [S -> Int] /\ e \in [S -> Int] /\ S \in SUBSET S /\ S \ {x} \in SUBSET S
      /\ S \ {x} \in SUBSET (S \ {x})
  OBVIOUS
<1>2. SumOver(e, S) = e[x] + SumOver(e, S \ {x}) /\ SumOver(f, S) = f[x] + SumOver(f, S \ {x})
  BY <1>1, SumRemove
<1>3. SumOver(e, S \ {x}) <= SumOver(f, S \ {x})
  BY <1>1, SumOrder
<1>4. /\ SumOver(e, S \ {x}) \in Nat /\ SumOver(f, S \ {x}) \in Nat
      /\ e[x] \in Nat /\ f[x] \in Nat
  BY <1>1, SumType
<1> QED
  BY <1>2, <1>3, <1>4

\* Where one element changes, the sum changes by as much.
LEMMA SumChange ==
    ASSUME NEW S, IsFiniteSet(S), NEW f \in [S -> Int], NEW e \in [S -> Int], NEW x \in S,
           \A y \in S \ {x} : e[y] = f[y]
    PROVE  SumOver(e, S) = SumOver(f, S) + (e[x] - f[x])
<1>1. S \in SUBSET S /\ S \ {x} \in SUBSET S
  OBVIOUS
<1>2. SumOver(e, S) = e[x] + SumOver(e, S \ {x}) /\ SumOver(f, S) = f[x] + SumOver(f, S \ {x})
  BY <1>1, SumRemove
<1>3. SumOver(e, S \ {x}) = SumOver(f, S \ {x})
  BY SumSame
<1>4. SumOver(f, S \ {x}) \in Int /\ e[x] \in Int /\ f[x] \in Int
  BY <1>1, SumType
<1> QED
  BY <1>2, <1>3, <1>4

=============================================================================
