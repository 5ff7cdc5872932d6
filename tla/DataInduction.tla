---------------------------- MODULE DataInduction ----------------------------
(***************************************************************************)
(* Lemmas about what is defined by recursion over data: a function that is *)
(* iterated, a fold over a sequence, a sum over a set; and about the ranks *)
(* of a finite order.  That each satisfies its equation, and an induction  *)
(* over it, is reduced to the fact that a nonempty set of natural numbers  *)
(* has a least element, which is a statement about sets and needs no       *)
(* operator as a parameter.                                                *)
(***************************************************************************)
EXTENDS Integers, FiniteSets, FiniteSetsExt, Functions,
        FiniteSetTheorems, WellFoundedInduction, TLAPS

-----------------------------------------------------------------------------
(* Induction over the natural numbers.                                     *)

Less == {pair \in Nat \X Nat : pair[1] < pair[2]}

\* A nonempty set of natural numbers has a least element.
LEMMA LeastElement ==
  ASSUME NEW T \in SUBSET Nat, T # {}
  PROVE  \E x \in T : \A y \in T : x <= y
<1>1. IsWellFoundedOn(Less, Nat)
  <2>1. OpToRel(<, Nat) = Less BY DEF OpToRel, Less
  <2> QED BY <2>1, NatLessThanWellFounded
<1>2. PICK x \in T : \A y \in T : <<y, x>> \notin Less
  BY <1>1, WFMin
<1>3. ASSUME NEW y \in T PROVE x <= y
  <2>1. y \in Nat /\ x \in Nat OBVIOUS
  <2>2. ~ (y < x) BY <2>1, <1>2 DEF Less
  <2> QED BY <2>1, <2>2
<1> QED BY <1>3

\* A set that holds 0, and n + 1 with every n, holds every natural number.
LEMMA Inductive ==
  ASSUME NEW T, 0 \in T, \A n \in Nat : n \in T => n + 1 \in T
  PROVE  Nat \subseteq T
<1> SUFFICES ASSUME Nat \ T # {} PROVE FALSE
  OBVIOUS
<1>1. PICK x \in Nat \ T : \A y \in Nat \ T : x <= y
  BY LeastElement
<1>2. x # 0 /\ x - 1 \in Nat /\ x - 1 \notin Nat \ T
  BY <1>1
<1> QED BY <1>1, <1>2

\* g is the function on 0 .. n that starts at base and goes on by step.
Iterates(g, n, base, step) ==
  g = [i \in 0 .. n |-> IF i = 0 THEN base ELSE step[<<i, g[i - 1]>>]]

\* There is such a function, with its values where the step leaves them.
LEMMA Iterated ==
  ASSUME NEW n \in Nat, NEW V, NEW base \in V, NEW step \in [(1 .. n) \X V -> V]
  PROVE  \E g \in [0 .. n -> V] : Iterates(g, n, base, step)
<1> DEFINE Upto(k, g) ==
      g \in [0 .. k -> V] /\ g[0] = base
      /\ \A i \in 1 .. k : g[i] = step[<<i, g[i - 1]>>]
    T == {k \in Nat : k <= n => \E g : Upto(k, g)}
<1>1. 0 \in T
  <2>1. Upto(0, [i \in 0 .. 0 |-> base]) OBVIOUS
  <2> QED BY <2>1
<1>2. ASSUME NEW k \in Nat, k \in T PROVE k + 1 \in T
  <2> SUFFICES ASSUME k + 1 <= n PROVE \E g : Upto(k + 1, g)
    OBVIOUS
  <2>1. PICK g : Upto(k, g) BY <1>2
  <2> DEFINE h == [i \in 0 .. k + 1 |-> IF i <= k THEN g[i] ELSE step[<<k + 1, g[k]>>]]
  <2>2. step[<<k + 1, g[k]>>] \in V
    <3>1. <<k + 1, g[k]>> \in (1 .. n) \X V BY <2>1
    <3> QED BY <3>1
  <2>3. h \in [0 .. k + 1 -> V] BY <2>1, <2>2
  <2>4. h[0] = base BY <2>1
  <2>5. ASSUME NEW i \in 1 .. k + 1 PROVE h[i] = step[<<i, h[i - 1]>>]
    <3>1. CASE i <= k
      <4>1. i \in 1 .. k /\ i - 1 <= k /\ i - 1 \in 0 .. k + 1 BY <3>1
      <4>2. h[i] = g[i] /\ h[i - 1] = g[i - 1] BY <4>1
      <4> QED BY <4>1, <4>2, <2>1
    <3>2. CASE i = k + 1
      <4>1. h[k + 1] = step[<<k + 1, g[k]>>]
        <5>1. k + 1 \in 0 .. k + 1 /\ ~(k + 1 <= k) OBVIOUS
        <5> QED BY <5>1
      <4>2. h[k] = g[k]
        <5>1. k \in 0 .. k + 1 /\ k <= k OBVIOUS
        <5> QED BY <5>1
      <4>3. i - 1 = k BY <3>2
      <4> HIDE DEF h
      <4> QED BY <3>2, <4>1, <4>2, <4>3
    <3>3. i <= k \/ i = k + 1 OBVIOUS
    <3> QED BY <3>1, <3>2, <3>3
  <2>6. Upto(k + 1, h) BY <2>3, <2>4, <2>5
  <2> QED BY <2>6
<1> HIDE DEF T
<1>3. n \in T BY <1>1, <1>2, Inductive
<1>4. PICK g : Upto(n, g) BY <1>3 DEF T
<1>5. Iterates(g, n, base, step) BY <1>4 DEF Iterates
<1> QED BY <1>4, <1>5

-----------------------------------------------------------------------------
(* Folds over a sequence: the library takes the last position first.       *)

\* A nonempty set of positions has a last one.
LEMMA LastPosition ==
  ASSUME NEW n \in Nat, NEW s \in SUBSET (1 .. n), s # {}
  PROVE  /\ Max(s) \in s
         /\ \A x \in s : x <= Max(s)
<1>1. PICK m \in {n - x : x \in s} : \A y \in {n - x : x \in s} : m <= y
  <2>1. \A x \in s : n - x \in Nat OBVIOUS
  <2>2. {n - x : x \in s} \in SUBSET Nat BY <2>1
  <2>3. {n - x : x \in s} # {} OBVIOUS
  <2> QED BY <2>2, <2>3, LeastElement
<1>2. PICK x \in s : m = n - x BY <1>1
<1>3. \A y \in s : x >= y
  <2> TAKE y \in s
  <2>1. n - x <= n - y BY <1>1, <1>2
  <2> QED BY <2>1
<1>4. \E z \in s : \A y \in s : z >= y BY <1>3
<1>5. Max(s) \in s /\ \A y \in s : Max(s) >= y BY <1>4, Zenon DEF Max
<1> QED BY <1>5

\* iter folds step over every set of positions.
FoldsBy(iter, n, base, step) ==
  iter = [s \in SUBSET (1 .. n) |->
            IF s = {} THEN base ELSE step[<<Max(s), iter[s \ {Max(s)}]>>]]

\* There is such a function, with its values where the step leaves them.
LEMMA FoldExists ==
  ASSUME NEW n \in Nat, NEW V, NEW base \in V, NEW step \in [(1 .. n) \X V -> V]
  PROVE  \E iter \in [SUBSET (1 .. n) -> V] : FoldsBy(iter, n, base, step)
<1> DEFINE Upto(k, g) ==
      /\ g \in [SUBSET (1 .. k) -> V]
      /\ \A s \in SUBSET (1 .. k) :
           g[s] = IF s = {} THEN base ELSE step[<<Max(s), g[s \ {Max(s)}]>>]
    T == {k \in Nat : k <= n => \E g : Upto(k, g)}
<1>1. 0 \in T
  <2>1. \A s \in SUBSET (1 .. 0) : s = {} OBVIOUS
  <2>2. Upto(0, [s \in SUBSET (1 .. 0) |-> base]) BY <2>1
  <2> QED BY <2>2
<1>2. ASSUME NEW k \in Nat, k \in T PROVE k + 1 \in T
  <2> HIDE DEF Upto
  <2> SUFFICES ASSUME k + 1 <= n PROVE \E g : Upto(k + 1, g)
    OBVIOUS
  <2> USE DEF Upto
  <2>1. PICK g : Upto(k, g)
    <3> HIDE DEF Upto
    <3> QED BY <1>2
  <2> DEFINE Of(s) == IF s = {} THEN base ELSE step[<<Max(s), g[s \ {Max(s)}]>>]
             h == [s \in SUBSET (1 .. k + 1) |-> Of(s)]
  <2>2. ASSUME NEW s \in SUBSET (1 .. k + 1), s # {}
        PROVE  /\ Max(s) \in 1 .. n
               /\ s \ {Max(s)} \in SUBSET (1 .. k)
               /\ s \ {Max(s)} \in SUBSET (1 .. k + 1)
    <3>1. Max(s) \in s /\ \A x \in s : x <= Max(s)
      <4> HIDE DEF Upto
      <4>1. k + 1 \in Nat OBVIOUS
      <4> QED BY <2>2, <4>1, LastPosition
    <3>2. Max(s) \in 1 .. k + 1 BY <3>1
    <3>3. ASSUME NEW x \in s \ {Max(s)} PROVE x \in 1 .. k
      <4>1. x \in 1 .. k + 1 /\ x <= Max(s) /\ x # Max(s) BY <3>1
      <4> HIDE DEF Upto
      <4> QED BY <4>1, <3>2
    <3>4. 1 .. k + 1 \subseteq 1 .. n OBVIOUS
    <3>5. s \ {Max(s)} \subseteq 1 .. k BY <3>3
    <3> HIDE DEF Upto
    <3> QED BY <3>2, <3>4, <3>5
  <2>3. ASSUME NEW s \in SUBSET (1 .. k + 1) PROVE Of(s) \in V
    <3>1. CASE s = {} BY <3>1
    <3>2. CASE s # {}
      <4>1. g[s \ {Max(s)}] \in V BY <3>2, <2>2, <2>1
      <4>2. <<Max(s), g[s \ {Max(s)}]>> \in (1 .. n) \X V BY <4>1, <3>2, <2>2
      <4>3. step[<<Max(s), g[s \ {Max(s)}]>>] \in V BY <4>2, Zenon
      <4> QED BY <4>3, <3>2
    <3> QED BY <3>1, <3>2
  <2>4. \A s \in SUBSET (1 .. k) : Of(s) = g[s] BY <2>1
  <2> HIDE DEF Of
  <2>5. h \in [SUBSET (1 .. k + 1) -> V] BY <2>3
  <2>6. \A s \in SUBSET (1 .. k) : h[s] = g[s]
    <3>1. \A s \in SUBSET (1 .. k) : s \in SUBSET (1 .. k + 1) OBVIOUS
    <3> QED BY <2>4, <3>1
  <2>7. ASSUME NEW s \in SUBSET (1 .. k + 1)
        PROVE  h[s] = IF s = {} THEN base ELSE step[<<Max(s), h[s \ {Max(s)}]>>]
    <3>1. h[s] = Of(s) OBVIOUS
    <3>2. CASE s = {} BY <3>1, <3>2 DEF Of
    <3>3. CASE s # {}
      <4>1. h[s \ {Max(s)}] = g[s \ {Max(s)}] BY <2>2, <3>3, <2>6
      <4> HIDE DEF h
      <4> QED BY <3>1, <3>3, <4>1 DEF Of
    <3> QED BY <3>2, <3>3
  <2> HIDE DEF h
  <2> QED BY <2>5, <2>7
<1> HIDE DEF T
<1>3. n \in T BY <1>1, <1>2, Inductive
<1>4. PICK g : Upto(n, g)
  <2> HIDE DEF Upto
  <2> QED BY <1>3 DEF T
<1> QED BY <1>4 DEF FoldsBy

\* iter folds step as long as it is of values in V; h runs through n steps to
\* the result.
Folds(iter, n, V, base, step) ==
  /\ iter[{}] = base
  /\ \A s \in SUBSET (1 .. n) :
       s # {} /\ iter[s \ {Max(s)}] \in V =>
         iter[s] = step[<<Max(s), iter[s \ {Max(s)}]>>]

Runs(h, n, V, base, step, result) ==
  /\ h \in [0 .. n -> V]
  /\ h[0] = base
  /\ h[n] = result
  /\ \A i \in 1 .. n : h[i] = step[<<i, h[i - 1]>>]

\* What a fold has come to after each position is a run of its step.
LEMMA FoldRuns ==
  ASSUME NEW n \in Nat, NEW V, NEW base \in V, NEW step \in [(1 .. n) \X V -> V],
         NEW iter, Folds(iter, n, V, base, step)
  PROVE  \E h : Runs(h, n, V, base, step, iter[1 .. n])
<1> USE DEF Folds, Runs
<1> DEFINE T == {k \in Nat : k <= n => iter[1 .. k] \in V}
    h == [k \in 0 .. n |-> iter[1 .. k]]
<1>1. ASSUME NEW k \in Nat, k + 1 <= n, iter[1 .. k] \in V
      PROVE  iter[1 .. k + 1] = step[<<k + 1, iter[1 .. k]>>]
  <2>1. 1 .. k + 1 \in SUBSET (1 .. n) /\ 1 .. k + 1 # {}
    <3>1. 1 \in 1 .. k + 1 OBVIOUS
    <3>2. \A x \in 1 .. k + 1 : x \in 1 .. n BY <1>1
    <3> QED BY <3>1, <3>2
  <2>2. Max(1 .. k + 1) = k + 1
    <3>1. /\ Max(1 .. k + 1) \in 1 .. k + 1
          /\ \A x \in 1 .. k + 1 : x <= Max(1 .. k + 1)
      BY <2>1, LastPosition
    <3>2. k + 1 \in 1 .. k + 1 OBVIOUS
    <3> QED BY <3>1, <3>2
  <2>3. (1 .. k + 1) \ {k + 1} = 1 .. k OBVIOUS
  <2> QED BY <2>1, <2>2, <2>3, <1>1
<1>2. iter[1 .. 0] = base
  <2>1. 1 .. 0 = {} OBVIOUS
  <2> QED BY <2>1
<1>3. 0 \in T BY <1>2
<1>4. ASSUME NEW k \in Nat, k \in T PROVE k + 1 \in T
  <2> SUFFICES ASSUME k + 1 <= n PROVE iter[1 .. k + 1] \in V
    OBVIOUS
  <2>1. iter[1 .. k] \in V BY <1>4
  <2>2. <<k + 1, iter[1 .. k]>> \in (1 .. n) \X V BY <2>1
  <2> QED BY <2>1, <2>2, <1>1
<1> HIDE DEF T
<1>5. Nat \subseteq T BY <1>3, <1>4, Inductive
<1>6. h \in [0 .. n -> V] BY <1>5 DEF T
<1>7. ASSUME NEW i \in 1 .. n PROVE h[i] = step[<<i, h[i - 1]>>]
  <2>1. i - 1 \in Nat /\ (i - 1) + 1 = i /\ i - 1 \in 0 .. n /\ i \in 0 .. n OBVIOUS
  <2>2. iter[1 .. i - 1] \in V BY <2>1, <1>6
  <2>3. iter[1 .. i] = step[<<i, iter[1 .. i - 1]>>] BY <2>1, <2>2, <1>1
  <2> QED BY <2>1, <2>3
<1>8. h[0] = base /\ h[n] = iter[1 .. n] BY <1>2
<1> HIDE DEF h
<1> QED BY <1>6, <1>7, <1>8

-----------------------------------------------------------------------------
(* Sums over a finite set.                                                 *)

\* The element that a sum takes next.
Pick(T) == CHOOSE x \in T : TRUE

\* sums holds the sum of f over every subset of S.
SumsOf(sums, f, S) ==
     sums = [T \in SUBSET S |->
               IF T = {} THEN 0 ELSE f[Pick(T)] + sums[T \ {Pick(T)}]]

\* What is picked from a set is one of its members.
LEMMA PickIsIn == ASSUME NEW T, T # {} PROVE Pick(T) \in T
  BY DEF Pick

\* The recursion over the subsets of a finite set has a solution.
LEMMA SumsExist ==
  ASSUME NEW S, IsFiniteSet(S), NEW f, \A x \in S : f[x] \in Int
  PROVE  \E sums \in [SUBSET S -> Int] : SumsOf(sums, f, S)
<1> DEFINE Small(n) == {T \in SUBSET S : Cardinality(T) <= n}
    SumsUpto(n, g) ==
      /\ g \in [Small(n) -> Int]
      /\ \A T \in Small(n) :
           g[T] = IF T = {} THEN 0 ELSE f[Pick(T)] + g[T \ {Pick(T)}]
    N == {n \in Nat : \E g : SumsUpto(n, g)}
<1>0. \A T \in SUBSET S : IsFiniteSet(T) /\ Cardinality(T) \in Nat
                          /\ (Cardinality(T) = 0 <=> T = {})
  BY FS_Subset, FS_CardinalityType, FS_EmptySet
<1>1. 0 \in N
  <2>1. \A T \in Small(0) : T = {} BY <1>0
  <2>2. SumsUpto(0, [T \in Small(0) |-> 0]) BY <2>1
  <2> QED BY <2>2
<1>2. ASSUME NEW n \in Nat, n \in N PROVE n + 1 \in N
  <2>1. PICK g : SumsUpto(n, g) BY <1>2
  <2> DEFINE h == [T \in Small(n + 1) |->
                     IF T = {} THEN 0 ELSE f[Pick(T)] + g[T \ {Pick(T)}]]
  <2>2. ASSUME NEW T \in Small(n + 1), T # {}
        PROVE  /\ Pick(T) \in S /\ f[Pick(T)] \in Int
               /\ T \ {Pick(T)} \in Small(n) /\ T \ {Pick(T)} \in Small(n + 1)
    <3>1. Pick(T) \in T BY <2>2, PickIsIn
    <3>2. Cardinality(T \ {Pick(T)}) = Cardinality(T) - 1
      BY <3>1, <1>0, FS_RemoveElement
    <3> QED BY <3>1, <3>2, <1>0
  <2>3. h \in [Small(n + 1) -> Int]
    <3>1. ASSUME NEW T \in Small(n + 1)
          PROVE  (IF T = {} THEN 0 ELSE f[Pick(T)] + g[T \ {Pick(T)}]) \in Int
      <4>1. CASE T = {} BY <4>1
      <4>2. CASE T # {}
        <5>1. g[T \ {Pick(T)}] \in Int BY <4>2, <2>2, <2>1
        <5> QED BY <5>1, <4>2, <2>2
      <4> QED BY <4>1, <4>2
    <3> HIDE DEF Small
    <3> QED BY <3>1
  <2>4. \A T \in Small(n) : T \in Small(n + 1) /\ h[T] = g[T]
    <3> SUFFICES ASSUME NEW T \in Small(n) PROVE T \in Small(n + 1) /\ h[T] = g[T]
      OBVIOUS
    <3>1. T \in Small(n + 1) BY <1>0
    <3>2. g[T] = IF T = {} THEN 0 ELSE f[Pick(T)] + g[T \ {Pick(T)}] BY <2>1
    <3> QED BY <3>1, <3>2
  <2>5. ASSUME NEW T \in Small(n + 1)
        PROVE  h[T] = IF T = {} THEN 0 ELSE f[Pick(T)] + h[T \ {Pick(T)}]
    <3>1. CASE T = {} BY <3>1
    <3>2. CASE T # {}
      <4>1. h[T \ {Pick(T)}] = g[T \ {Pick(T)}] BY <3>2, <2>2, <2>4
      <4> QED BY <3>2, <4>1
    <3> QED BY <3>1, <3>2
  <2> HIDE DEF h, Small
  <2>6. SumsUpto(n + 1, h) BY <2>3, <2>5
  <2> QED BY <2>6
<1> HIDE DEF N
<1>3. Cardinality(S) \in N BY <1>0, <1>1, <1>2, Inductive
<1>4. PICK g : SumsUpto(Cardinality(S), g) BY <1>3 DEF N
<1>5. Small(Cardinality(S)) = SUBSET S BY <1>0, FS_Subset
<1>6. g \in [SUBSET S -> Int] /\ SumsOf(g, f, S) BY <1>4, <1>5 DEF SumsOf
<1> QED BY <1>6

\* Two sums of one function agree on the sets that both are about.
LEMMA SumsAgree ==
  ASSUME NEW S, NEW R, NEW f, NEW g, NEW h, SumsOf(g, f, S), SumsOf(h, f, R),
         NEW T \in SUBSET (S \cap R), IsFiniteSet(T)
  PROVE  g[T] = h[T]
<1> DEFINE N == {n \in Nat : \A U \in SUBSET T : Cardinality(U) = n => g[U] = h[U]}
<1>0. \A U \in SUBSET T : IsFiniteSet(U) /\ Cardinality(U) \in Nat
                          /\ (Cardinality(U) = 0 <=> U = {})
  BY FS_Subset, FS_CardinalityType, FS_EmptySet
<1>1. 0 \in N
  <2>1. g[{}] = 0 /\ h[{}] = 0 BY DEF SumsOf
  <2> QED BY <2>1, <1>0
<1>2. ASSUME NEW n \in Nat, n \in N PROVE n + 1 \in N
  <2> SUFFICES ASSUME NEW U \in SUBSET T, Cardinality(U) = n + 1 PROVE g[U] = h[U]
    OBVIOUS
  <2> DEFINE x == Pick(U)
  <2>1. U # {} BY <1>0
  <2>2. x \in U BY <2>1, PickIsIn
  <2>3. g[U] = f[x] + g[U \ {x}] /\ h[U] = f[x] + h[U \ {x}]
    <3> HIDE DEF N
    <3>1. U \in SUBSET S /\ U \in SUBSET R OBVIOUS
    <3> HIDE DEF x
    <3>2. g[U] = f[Pick(U)] + g[U \ {Pick(U)}] BY <2>1, <3>1, Zenon DEF SumsOf
    <3>3. h[U] = f[Pick(U)] + h[U \ {Pick(U)}] BY <2>1, <3>1, Zenon DEF SumsOf
    <3> QED BY <3>2, <3>3 DEF x
  <2>4. Cardinality(U \ {x}) = n
    <3>1. IsFiniteSet(U) BY <1>0
    <3>2. Cardinality(U \ {x}) = Cardinality(U) - 1 BY <2>2, <3>1, FS_RemoveElement
    <3> QED BY <3>2
  <2>5. g[U \ {x}] = h[U \ {x}] BY <2>4, <1>2
  <2> QED BY <2>3, <2>5
<1> HIDE DEF N
<1>3. Cardinality(T) \in N BY <1>0, <1>1, <1>2, Inductive
<1> QED BY <1>3 DEF N

\* The library's sum over S is the one that any sums over a larger set hold.
LEMMA SumIsAmongTheSums ==
  ASSUME NEW D, NEW sums, NEW f, SumsOf(sums, f, D),
         NEW S \in SUBSET D, IsFiniteSet(S), \A x \in S : f[x] \in Int
  PROVE  SumFunctionOnSet(f, S) = sums[S]
<1> DEFINE Solves(iter) ==
      iter = [T \in SUBSET S |->
                IF T = {} THEN 0 ELSE f[Pick(T)] + iter[T \ {Pick(T)}]]
    least == CHOOSE iter : Solves(iter)
<1>1. SumFunctionOnSet(f, S) = least[S]
  BY DEF SumFunctionOnSet, FoldFunctionOnSet, MapThenFoldSet, Pick
<1>2. Solves(least)
  <2>1. \E iter : Solves(iter)
    <3>1. PICK iter : SumsOf(iter, f, S) BY SumsExist
    <3> QED BY <3>1 DEF SumsOf
  <2> HIDE DEF Solves
  <2> QED BY <2>1
<1> HIDE DEF least
<1>3. SumsOf(least, f, S) BY <1>2 DEF SumsOf
<1> QED BY <1>1, <1>3, SumsAgree

\* The sum over the empty set, and the sum without any one element.
LEMMA SumOfNone ==
  ASSUME NEW f PROVE SumFunctionOnSet(f, {}) = 0
<1>1. PICK sums : SumsOf(sums, f, {}) BY SumsExist, FS_EmptySet
<1>2. SumFunctionOnSet(f, {}) = sums[{}] BY <1>1, FS_EmptySet, SumIsAmongTheSums
<1>3. sums[{}] = 0 BY <1>1 DEF SumsOf
<1> QED BY <1>2, <1>3

\* A sum of integers is an integer.
LEMMA SumIsInt ==
  ASSUME NEW S, IsFiniteSet(S), NEW f, \A x \in S : f[x] \in Int
  PROVE  SumFunctionOnSet(f, S) \in Int
<1>1. PICK sums \in [SUBSET S -> Int] : SumsOf(sums, f, S) BY SumsExist
<1>2. SumFunctionOnSet(f, S) = sums[S]
  <2>1. S \in SUBSET S OBVIOUS
  <2> QED BY <1>1, <2>1, SumIsAmongTheSums
<1> QED BY <1>1, <1>2

\* Whichever element is taken out, what is left is the rest of the sum.
LEMMA SumWithout ==
  ASSUME NEW S, IsFiniteSet(S), NEW f, \A y \in S : f[y] \in Int, NEW x \in S
  PROVE  SumFunctionOnSet(f, S) = f[x] + SumFunctionOnSet(f, S \ {x})
<1>1. PICK sums \in [SUBSET S -> Int] : SumsOf(sums, f, S) BY SumsExist
<1> DEFINE N == {n \in Nat : \A U \in SUBSET S : Cardinality(U) = n =>
                   \A y \in U : sums[U] = f[y] + sums[U \ {y}]}
<1>0. \A U \in SUBSET S : IsFiniteSet(U) /\ Cardinality(U) \in Nat
                          /\ (Cardinality(U) = 0 <=> U = {})
  BY FS_Subset, FS_CardinalityType, FS_EmptySet
<1>2. \A U \in SUBSET S : U # {} => sums[U] = f[Pick(U)] + sums[U \ {Pick(U)}]
  BY <1>1, Zenon DEF SumsOf
<1>3. 0 \in N BY <1>0
<1>4. ASSUME NEW n \in Nat, n \in N PROVE n + 1 \in N
  <2> SUFFICES ASSUME NEW U \in SUBSET S, Cardinality(U) = n + 1, NEW y \in U
               PROVE  sums[U] = f[y] + sums[U \ {y}]
    OBVIOUS
  <2>1. PICK z : z = Pick(U) OBVIOUS
  <2>2. z \in U /\ sums[U] = f[z] + sums[U \ {z}] BY <2>1, <1>2, PickIsIn
  <2>3. CASE z = y BY <2>3, <2>2
  <2>4. CASE z # y
    <3>1. \A v \in U : Cardinality(U \ {v}) = n
      <4>1. IsFiniteSet(U) BY <1>0
      <4>2. \A v \in U : Cardinality(U \ {v}) = Cardinality(U) - 1
        BY <4>1, FS_RemoveElement
      <4> QED BY <4>2
    <3>2. sums[U \ {z}] = f[y] + sums[(U \ {z}) \ {y}]
      <4>1. y \in U \ {z} /\ U \ {z} \in SUBSET S BY <2>4
      <4> QED BY <4>1, <3>1, <2>2, <1>4
    <3>3. sums[U \ {y}] = f[z] + sums[(U \ {y}) \ {z}]
      <4>1. z \in U \ {y} /\ U \ {y} \in SUBSET S BY <2>4, <2>2
      <4> QED BY <4>1, <3>1, <1>4
    <3>4. (U \ {z}) \ {y} = (U \ {y}) \ {z} OBVIOUS
    <3>5. f[y] \in Int /\ f[z] \in Int /\ sums[(U \ {y}) \ {z}] \in Int
      BY <1>1, <2>2
    <3> HIDE DEF N
    <3>6. PICK rest \in Int : rest = sums[(U \ {y}) \ {z}] BY <3>5
    <3>7. sums[U \ {z}] = f[y] + rest /\ sums[U \ {y}] = f[z] + rest
      BY <3>2, <3>3, <3>4, <3>6
    <3>8. sums[U] = f[z] + (f[y] + rest) BY <3>7, <2>2
    <3> QED BY <3>8, <3>7, <3>5
  <2> QED BY <2>3, <2>4
<1> HIDE DEF N
<1>5. Cardinality(S) \in N BY <1>0, <1>3, <1>4, Inductive
<1>6. sums[S] = f[x] + sums[S \ {x}] BY <1>5 DEF N
<1>7. SumFunctionOnSet(f, S) = sums[S]
  <2>1. S \in SUBSET S OBVIOUS
  <2> QED BY <1>1, <2>1, SumIsAmongTheSums
<1>8. SumFunctionOnSet(f, S \ {x}) = sums[S \ {x}]
  <2>1. S \ {x} \in SUBSET S /\ IsFiniteSet(S \ {x}) BY <1>0
  <2>2. \A y \in S \ {x} : f[y] \in Int OBVIOUS
  <2> QED BY <1>1, <2>1, <2>2, SumIsAmongTheSums
<1> QED BY <1>6, <1>7, <1>8

\* A sum is of the values of the function on the set, and of nothing else.
LEMMA SumOfSameValues ==
  ASSUME NEW S, IsFiniteSet(S), NEW f, NEW g, \A x \in S : f[x] \in Int /\ g[x] = f[x]
  PROVE  SumFunctionOnSet(g, S) = SumFunctionOnSet(f, S)
<1>1. PICK sums \in [SUBSET S -> Int] : SumsOf(sums, f, S) BY SumsExist
<1>2. SumsOf(sums, g, S)
  <2>1. ASSUME NEW T \in SUBSET S
        PROVE  (IF T = {} THEN 0 ELSE f[Pick(T)] + sums[T \ {Pick(T)}])
                 = (IF T = {} THEN 0 ELSE g[Pick(T)] + sums[T \ {Pick(T)}])
    <3>1. T # {} => Pick(T) \in S BY PickIsIn
    <3> QED BY <3>1
  <2>2. sums = [T \in SUBSET S |->
                  IF T = {} THEN 0 ELSE f[Pick(T)] + sums[T \ {Pick(T)}]]
    BY <1>1 DEF SumsOf
  <2> QED BY <2>1, <2>2 DEF SumsOf
<1>3. S \in SUBSET S /\ (\A x \in S : f[x] \in Int) /\ (\A x \in S : g[x] \in Int) OBVIOUS
<1>4. SumFunctionOnSet(f, S) = sums[S] BY <1>1, <1>3, SumIsAmongTheSums
<1>5. SumFunctionOnSet(g, S) = sums[S] BY <1>2, <1>3, SumIsAmongTheSums
<1> QED BY <1>4, <1>5

\* Sums of natural numbers grow with the set, and are positive where one of
\* the numbers is.
LEMMA SumGrows ==
  ASSUME NEW S, IsFiniteSet(S), NEW f, \A x \in S : f[x] \in Nat,
         NEW T \in SUBSET S
  PROVE  /\ SumFunctionOnSet(f, S) \in Nat
         /\ SumFunctionOnSet(f, T) \in Nat
         /\ SumFunctionOnSet(f, T) <= SumFunctionOnSet(f, S)
<1> DEFINE Total(U) == SumFunctionOnSet(f, U)
    N == {n \in Nat : \A U \in SUBSET S : Cardinality(U) = n =>
            Total(U) \in Nat /\ \A V \in SUBSET U : Total(V) \in Nat /\ Total(V) <= Total(U)}
<1>0. \A U \in SUBSET S : IsFiniteSet(U) /\ Cardinality(U) \in Nat
                          /\ (Cardinality(U) = 0 <=> U = {})
  BY FS_Subset, FS_CardinalityType, FS_EmptySet
<1>1. Total({}) = 0 BY SumOfNone
<1>2. ASSUME NEW U \in SUBSET S, NEW x \in U PROVE Total(U) = f[x] + Total(U \ {x})
  <2>1. IsFiniteSet(U) BY <1>0
  <2>2. \A y \in U : f[y] \in Int OBVIOUS
  <2> QED BY <2>1, <2>2, SumWithout
<1> HIDE DEF Total
<1>3. 0 \in N BY <1>0, <1>1
<1>4. ASSUME NEW n \in Nat, n \in N PROVE n + 1 \in N
  <2> SUFFICES ASSUME NEW U \in SUBSET S, Cardinality(U) = n + 1
               PROVE  /\ Total(U) \in Nat
                      /\ \A V \in SUBSET U : Total(V) \in Nat /\ Total(V) <= Total(U)
    OBVIOUS
  <2>1. ASSUME NEW x \in U
        PROVE  /\ U \ {x} \in SUBSET S /\ f[x] \in Nat
               /\ Total(U) = f[x] + Total(U \ {x})
               /\ Total(U \ {x}) \in Nat
               /\ \A V \in SUBSET (U \ {x}) : Total(V) \in Nat /\ Total(V) <= Total(U \ {x})
    <3>1. U \ {x} \in SUBSET S /\ f[x] \in Nat OBVIOUS
    <3>2. Cardinality(U \ {x}) = n
      <4>1. IsFiniteSet(U) BY <1>0
      <4>2. Cardinality(U \ {x}) = Cardinality(U) - 1 BY <4>1, FS_RemoveElement
      <4> QED BY <4>2
    <3> QED BY <3>1, <3>2, <1>2, <1>4
  <2> HIDE DEF N
  <2>2. PICK z \in U : TRUE BY <1>0
  <2>3. Total(U) \in Nat
    <3>1. Total(U) = f[z] + Total(U \ {z}) /\ f[z] \in Nat /\ Total(U \ {z}) \in Nat
      BY <2>1
    <3> QED BY <3>1
  <2>4. ASSUME NEW V \in SUBSET U PROVE Total(V) \in Nat /\ Total(V) <= Total(U)
    <3>1. CASE V = U BY <3>1, <2>3
    <3>2. CASE V # U
      <4>1. PICK x \in U : x \notin V BY <3>2
      <4>2. V \in SUBSET (U \ {x}) BY <4>1
      <4>3. Total(V) \in Nat /\ Total(V) <= Total(U \ {x}) BY <2>1, <4>1, <4>2
      <4>4. Total(U) = f[x] + Total(U \ {x}) /\ f[x] \in Nat /\ Total(U \ {x}) \in Nat
        BY <2>1
      <4> QED BY <4>3, <4>4
    <3> QED BY <3>1, <3>2
  <2> QED BY <2>3, <2>4
<1> HIDE DEF N
<1>5. Cardinality(S) \in N BY <1>0, <1>3, <1>4, Inductive
<1> QED BY <1>5 DEF N, Total

\* One positive number makes the sum of natural numbers positive.
LEMMA SumIsPositive ==
  ASSUME NEW S, IsFiniteSet(S), NEW f, \A x \in S : f[x] \in Nat,
         NEW x \in S, f[x] > 0
  PROVE  SumFunctionOnSet(f, S) > 0
<1>1. SumFunctionOnSet(f, S) = f[x] + SumFunctionOnSet(f, S \ {x})
  <2>1. \A y \in S : f[y] \in Int OBVIOUS
  <2> QED BY <2>1, SumWithout
<1>2. SumFunctionOnSet(f, S \ {x}) \in Nat
  <2>1. S \ {x} \in SUBSET S OBVIOUS
  <2> QED BY <2>1, SumGrows
<1> QED BY <1>1, <1>2

\* Elements of no weight do not change a sum.
LEMMA SumWithoutZeros ==
  ASSUME NEW S, IsFiniteSet(S), NEW f, \A x \in S : f[x] \in Nat,
         NEW T \in SUBSET S, \A x \in S \ T : f[x] = 0
  PROVE  SumFunctionOnSet(f, S) = SumFunctionOnSet(f, T)
<1> DEFINE Total(U) == SumFunctionOnSet(f, U)
    N == {n \in Nat : \A U \in SUBSET S : T \subseteq U /\ Cardinality(U \ T) = n =>
            Total(U) = Total(T)}
<1>0. \A U \in SUBSET S : IsFiniteSet(U) /\ Cardinality(U) \in Nat
                          /\ (Cardinality(U) = 0 <=> U = {})
  BY FS_Subset, FS_CardinalityType, FS_EmptySet
<1>1. 0 \in N
  <2>1. ASSUME NEW U \in SUBSET S, T \subseteq U, Cardinality(U \ T) = 0 PROVE U = T
    <3>1. U \ T \in SUBSET S OBVIOUS
    <3>2. U \ T = {} BY <1>0, <2>1, <3>1
    <3> QED BY <2>1, <3>2
  <2> QED BY <2>1
<1>2. ASSUME NEW n \in Nat, n \in N PROVE n + 1 \in N
  <2> SUFFICES ASSUME NEW U \in SUBSET S, T \subseteq U, Cardinality(U \ T) = n + 1
               PROVE  Total(U) = Total(T)
    OBVIOUS
  <2>1. U \ T \in SUBSET S /\ IsFiniteSet(U \ T) /\ IsFiniteSet(U) BY <1>0
  <2>2. PICK x : x \in U \ T BY <2>1, <1>0
  <2>3. Cardinality((U \ T) \ {x}) = n
    <3>1. Cardinality((U \ T) \ {x}) = Cardinality(U \ T) - 1
      BY <2>1, <2>2, FS_RemoveElement
    <3> QED BY <3>1
  <2>4. (U \ {x}) \ T = (U \ T) \ {x} /\ T \subseteq U \ {x} /\ U \ {x} \in SUBSET S
    BY <2>2
  <2>5. Total(U \ {x}) = Total(T) BY <2>3, <2>4, <1>2
  <2>6. Total(U) = f[x] + Total(U \ {x})
    <3>1. \A y \in U : f[y] \in Int OBVIOUS
    <3> QED BY <3>1, <2>1, <2>2, SumWithout
  <2>7. f[x] = 0 BY <2>2
  <2>8. Total(T) \in Nat BY SumGrows
  <2> HIDE DEF Total, N
  <2> QED BY <2>5, <2>6, <2>7, <2>8
<1> HIDE DEF N
<1>3. Cardinality(S \ T) \in N
  <2>1. S \ T \in SUBSET S OBVIOUS
  <2> QED BY <2>1, <1>0, <1>1, <1>2, Inductive
<1> QED BY <1>3 DEF N

-----------------------------------------------------------------------------
(* Finite strict orders.                                                   *)

\* R is a strict order of S; Below(x) are the elements of S before x.
StrictlyOrders(R, S) ==
  /\ \A x \in S : <<x, x>> \notin R
  /\ \A x, y, z \in S : <<x, y>> \in R /\ <<y, z>> \in R => <<x, z>> \in R

Below(R, S, x) == {y \in S : <<y, x>> \in R}

\* What is earlier in the order has fewer elements before it.
LEMMA RankGrows ==
  ASSUME NEW S, IsFiniteSet(S), NEW R, StrictlyOrders(R, S),
         NEW x \in S, NEW y \in S, <<x, y>> \in R
  PROVE  /\ Cardinality(Below(R, S, x)) \in Nat
         /\ Cardinality(Below(R, S, y)) \in Nat
         /\ Cardinality(Below(R, S, x)) < Cardinality(Below(R, S, y))
<1> DEFINE X == Below(R, S, x)
    Y == Below(R, S, y)
<1>1. X \in SUBSET Y /\ x \in Y /\ x \notin X BY DEF Below, StrictlyOrders
<1>2. IsFiniteSet(Y)
  <2>1. Y \in SUBSET S BY DEF Below
  <2> QED BY <2>1, FS_Subset
<1> HIDE DEF X, Y
<1>3. IsFiniteSet(X) /\ Cardinality(X) <= Cardinality(Y)
      /\ (Cardinality(X) = Cardinality(Y) => X = Y)
  BY <1>1, <1>2, FS_Subset
<1>4. Cardinality(X) \in Nat /\ Cardinality(Y) \in Nat
  BY <1>2, <1>3, FS_CardinalityType
<1>5. X # Y BY <1>1
<1> QED BY <1>3, <1>4, <1>5 DEF X, Y

\* A nonempty part of the set has a first element.
LEMMA FirstElement ==
  ASSUME NEW S, IsFiniteSet(S), NEW R, StrictlyOrders(R, S),
         NEW T \in SUBSET S, T # {}
  PROVE  \E x \in T : \A y \in T : <<y, x>> \notin R
<1> DEFINE rank(x) == Cardinality(Below(R, S, x))
    Ranks == {rank(x) : x \in T}
<1>1. \A x \in S : rank(x) \in Nat
  <2> SUFFICES ASSUME NEW x \in S PROVE rank(x) \in Nat
    OBVIOUS
  <2>1. Below(R, S, x) \in SUBSET S BY DEF Below
  <2> QED BY <2>1, FS_Subset, FS_CardinalityType
<1>2. \A x, y \in T : <<y, x>> \in R => rank(y) < rank(x)
  <2>1. \A x \in T : x \in S OBVIOUS
  <2> QED BY <2>1, RankGrows
<1> HIDE DEF rank
<1>3. Ranks \in SUBSET Nat /\ Ranks # {} BY <1>1
<1>4. PICK n \in Ranks : \A k \in Ranks : n <= k BY <1>3, LeastElement
<1>5. PICK x \in T : n = rank(x) BY <1>4
<1>6. ASSUME NEW y \in T, <<y, x>> \in R PROVE FALSE
  <2>1. rank(y) < rank(x) BY <1>6, <1>2
  <2>2. rank(x) <= rank(y) /\ rank(x) \in Nat /\ rank(y) \in Nat BY <1>1, <1>4, <1>5
  <2> QED BY <2>1, <2>2
<1> QED BY <1>6

\* Where any two elements are ordered, the ranks number the elements from 0.
LEMMA RanksNumber ==
  ASSUME NEW S, IsFiniteSet(S), NEW R, StrictlyOrders(R, S),
         \A x, y \in S : x # y => <<x, y>> \in R \/ <<y, x>> \in R
  PROVE  LET rank == [x \in S |-> Cardinality(Below(R, S, x))]
         IN  rank \in Bijection(S, 0 .. Cardinality(S) - 1)
<1> DEFINE n == Cardinality(S)
    rank == [x \in S |-> Cardinality(Below(R, S, x))]
<1>1. n \in Nat BY FS_CardinalityType
<1>2. rank \in [S -> 0 .. n - 1]
  <2> SUFFICES ASSUME NEW x \in S PROVE Cardinality(Below(R, S, x)) \in 0 .. n - 1
    OBVIOUS
  <2>1. Below(R, S, x) \in SUBSET (S \ {x}) BY DEF Below, StrictlyOrders
  <2>2. IsFiniteSet(S \ {x}) /\ Cardinality(S \ {x}) = n - 1
    BY FS_RemoveElement
  <2>3. IsFiniteSet(Below(R, S, x)) /\ Cardinality(Below(R, S, x)) <= n - 1
    BY <2>1, <2>2, FS_Subset
  <2>4. Cardinality(Below(R, S, x)) \in Nat BY <2>3, FS_CardinalityType
  <2> HIDE DEF n
  <2> QED BY <2>3, <2>4, <1>1
<1>3. \A x, y \in S : rank[x] = rank[y] => x = y
  <2> SUFFICES ASSUME NEW x \in S, NEW y \in S, x # y PROVE rank[x] # rank[y]
    OBVIOUS
  <2>1. CASE <<x, y>> \in R
    <3>1. rank[x] \in Nat /\ rank[y] \in Nat /\ rank[x] < rank[y] BY <2>1, RankGrows
    <3> QED BY <3>1
  <2>2. CASE <<y, x>> \in R
    <3>1. rank[x] \in Nat /\ rank[y] \in Nat /\ rank[y] < rank[x] BY <2>2, RankGrows
    <3> QED BY <3>1
  <2> QED BY <2>1, <2>2
<1>4. IsFiniteSet(0 .. n - 1) /\ Cardinality(0 .. n - 1) = n
  <2>1. Cardinality(0 .. n - 1) = IF 0 > n - 1 THEN 0 ELSE n - 1 - 0 + 1
    BY <1>1, FS_Interval
  <2> QED BY <2>1, <1>1, FS_Interval
<1>5. rank \in Injection(S, 0 .. n - 1)
  <2> HIDE DEF rank, n
  <2>1. \A x, y \in S : rank[x] = rank[y] => x = y BY <1>3
  <2> QED BY <1>2, <2>1 DEF Injection, IsInjective
<1>6. rank \in Surjection(S, 0 .. n - 1)
  <2> HIDE DEF rank
  <2> QED BY <1>4, <1>5, FS_Injection
<1> QED BY <1>5, <1>6 DEF Bijection

\* A nonempty finite set of integers has a greatest and a least element.
LEMMA Extremes ==
  ASSUME NEW S \in SUBSET Int, IsFiniteSet(S), S # {}
  PROVE  /\ Max(S) \in S /\ \A x \in S : x <= Max(S)
         /\ Min(S) \in S /\ \A x \in S : Min(S) <= x
<1> DEFINE Greater == {pair \in S \X S : pair[1] > pair[2]}
    Smaller == {pair \in S \X S : pair[1] < pair[2]}
<1>1. StrictlyOrders(Greater, S) /\ StrictlyOrders(Smaller, S)
  BY DEF StrictlyOrders
<1>2. PICK m \in S : \A x \in S : <<x, m>> \notin Greater
  <2> HIDE DEF Greater
  <2>1. S \in SUBSET S OBVIOUS
  <2> QED BY <1>1, <2>1, FirstElement
<1>3. PICK l \in S : \A x \in S : <<x, l>> \notin Smaller
  <2> HIDE DEF Smaller
  <2>1. S \in SUBSET S OBVIOUS
  <2> QED BY <1>1, <2>1, FirstElement
<1>4. \A x \in S : m >= x
  <2> TAKE x \in S
  <2>1. ~ (x > m) BY <1>2
  <2> QED BY <2>1
<1>5. \A x \in S : l <= x
  <2> TAKE x \in S
  <2>1. ~ (x < l) BY <1>3
  <2> QED BY <2>1
<1>6. Max(S) \in S /\ \A x \in S : Max(S) >= x
  <2>1. \E z \in S : \A x \in S : z >= x BY <1>4
  <2> QED BY <2>1, Zenon DEF Max
<1>7. Min(S) \in S /\ \A x \in S : Min(S) <= x
  <2>1. \E z \in S : \A x \in S : z <= x BY <1>5
  <2> QED BY <2>1, Zenon DEF Min
<1> QED BY <1>6, <1>7
==============================================================================
