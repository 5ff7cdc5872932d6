--------------------------- MODULE GuidanceProofs ---------------------------
(***************************************************************************)
(* Theorems about Guidance: compute_hotset fills the tier with the hottest *)
(* sites, compute_knapsack's table and its traceback find a best choice,   *)
(* and guide.py fails only where a tier is to stay empty, for every        *)
(* profile, every capacity and every number of increments.                 *)
(*                                                                         *)
(* Three things here are defined by recursion over data: a sum over a set, *)
(* the rows of the table, and the traceback; DataInduction has the lemmas. *)
(***************************************************************************)
EXTENDS Guidance, DataInduction, TLAPS

-----------------------------------------------------------------------------
(* The sites' values and weights.                                          *)

Typed == site_map \in SiteMaps /\ call \in Calls

\* Facts of arithmetic, each by itself.
LEMMA ProductIsNat == \A m, n \in Nat : m * n \in Nat
  OBVIOUS

\* A quotient is a number.
LEMMA QuotientIsNat == \A m \in Nat, n \in Nat \ {0} : m \div n \in Nat
  OBVIOUS

\* A divisor goes into a positive number at least once.
LEMMA QuotientIsPositive ==
  \A m \in Nat \ {0}, n \in Nat \ {0} : m % n = 0 => m \div n > 0
  OBVIOUS

\* The sites are finitely many, and what a profile has of each is a number.
LEMMA SitesType ==
  ASSUME Typed
  PROVE  /\ IsFiniteSet(Sites) /\ Sites \subseteq Int
         /\ \A p \in Sites : /\ accesses(p) \in Nat /\ touched(p) \in Nat
                             /\ touched(p) = 0 \/ Density % touched(p) = 0
<1>1. site_map \in Seq([accesses : Nat, touched : Nat])
  BY GuidanceAssumption DEF Typed
<1>2. Len(site_map) \in Nat BY <1>1
<1>3. IsFiniteSet(Sites) BY <1>2, FS_Interval DEF Sites
<1>4. \A p \in Sites : site_map[p] \in [accesses : Nat, touched : Nat]
  <2> SUFFICES ASSUME NEW p \in 1 .. Len(site_map), NEW R, site_map \in Seq(R)
               PROVE  site_map[p] \in R
    BY <1>1 DEF Sites
  <2> QED OBVIOUS
<1>5. \A p \in Sites : accesses(p) \in Nat /\ touched(p) \in Nat
  BY <1>4 DEF accesses, touched
<1>6. \A p \in Sites : touched(p) = 0 \/ Density % touched(p) = 0
  BY GuidanceAssumption DEF Typed, Sites, touched
<1> QED BY <1>2, <1>3, <1>5, <1>6 DEF Sites

\* The arguments of a call have the types that guide.py gives them.
LEMMA CallType ==
  ASSUME Typed
  PROVE  /\ call.type \in {"hotset", "knapsack", "rr_hotset"}
         /\ call.valkey \in {"accesses", "touched", "accs_site"}
         /\ call.capacity \in Nat /\ call.upper \in Int /\ call.lower \in Int
         /\ call.type = "rr_hotset" => call.upper <= call.lower + 1
  BY GuidanceAssumption DEF Typed

\* Accesses per byte are a number, and positive for a site that was accessed.
LEMMA AccessesPerByte ==
  ASSUME Typed, NEW p \in Sites, touched(p) # 0
  PROVE  /\ accesses(p) * (Density \div touched(p)) \in Nat
         /\ accesses(p) > 0 => accesses(p) * (Density \div touched(p)) > 0
<1>1. touched(p) \in Nat \ {0} /\ accesses(p) \in Nat /\ Density % touched(p) = 0
      /\ Density \in Nat \ {0}
  BY SitesType, GuidanceAssumption
<1>2. Density \div touched(p) \in Nat /\ Density \div touched(p) > 0
  BY <1>1, QuotientIsNat, QuotientIsPositive
<1> QED BY <1>1, <1>2, ProductIsNat

\* Every value is a natural number, and a used site's is positive.
LEMMA ValueType ==
  ASSUME Typed, NEW p \in Sites
  PROVE  /\ Value(p) \in Nat
         /\ accesses(p) > 0 /\ touched(p) > 0 => Value(p) > 0
<1>0. accesses(p) \in Nat /\ touched(p) \in Nat BY SitesType
<1>1. CASE call.valkey = "accesses"
  <2>1. Value(p) = accesses(p) BY <1>1, Zenon DEF Value
  <2> QED BY <2>1, <1>0
<1>2. CASE call.valkey = "touched"
  <2>1. Value(p) = touched(p) BY <1>2, Zenon DEF Value
  <2> QED BY <2>1, <1>0
<1>3. CASE call.valkey = "accs_site"
  <2>1. Value(p) = IF touched(p) = 0 THEN 0
                   ELSE accesses(p) * (Density \div touched(p))
    BY <1>3, Zenon DEF Value
  <2> QED BY <2>1, <1>0, AccessesPerByte
<1> QED BY <1>1, <1>2, <1>3, CallType

\* A site's weight is a number, and positive when the site was used.
LEMMA WeightType ==
  ASSUME Typed, NEW p \in Sites
  PROVE  /\ Weight(p) \in Nat
         /\ accesses(p) > 0 /\ touched(p) > 0 => Weight(p) > 0
  BY SitesType DEF Weight

\* The sums over parts of the sites grow with the part.
LEMMA ValuesGrow ==
  ASSUME Typed, NEW S \in SUBSET Sites, NEW T \in SUBSET S
  PROVE  ValueOf(S) \in Nat /\ ValueOf(T) \in Nat /\ ValueOf(T) <= ValueOf(S)
<1>1. IsFiniteSet(S) BY SitesType, FS_Subset
<1>2. \A p \in S : [q \in Sites |-> Value(q)][p] \in Nat BY ValueType
<1> QED BY <1>1, <1>2, SumGrows DEF ValueOf

\* More sites weigh no less.
LEMMA WeightsGrow ==
  ASSUME Typed, NEW S \in SUBSET Sites, NEW T \in SUBSET S
  PROVE  WeightOf(S) \in Nat /\ WeightOf(T) \in Nat /\ WeightOf(T) <= WeightOf(S)
<1>1. IsFiniteSet(S) BY SitesType, FS_Subset
<1>2. \A p \in S : [q \in Sites |-> Weight(q)][p] \in Nat BY WeightType
<1> QED BY <1>1, <1>2, SumGrows DEF WeightOf

\* A value is added to the values of the other sites.
LEMMA ValuesAdd ==
  ASSUME Typed, NEW S \in SUBSET Sites, NEW p \in S
  PROVE  ValueOf(S) = Value(p) + ValueOf(S \ {p})
<1>1. IsFiniteSet(S) BY SitesType, FS_Subset
<1>2. \A q \in S : [r \in Sites |-> Value(r)][q] \in Int BY ValueType
<1>3. [r \in Sites |-> Value(r)][p] = Value(p) OBVIOUS
<1> DEFINE f == [r \in Sites |-> Value(r)]
<1>4. SumFunctionOnSet(f, S) = f[p] + SumFunctionOnSet(f, S \ {p})
  <2> HIDE DEF f
  <2> QED BY <1>1, <1>2, SumWithout DEF f
<1> QED BY <1>3, <1>4 DEF ValueOf

\* The target is a natural number.
LEMMA TargetType ==
  ASSUME Typed
  PROVE  total_wgt \in Nat /\ target \in Nat
<1>1. total_wgt \in Nat
  <2>1. Sites \in SUBSET Sites OBVIOUS
  <2> QED BY <2>1, WeightsGrow DEF total_wgt
<1>2. 100 * call.capacity \in Nat /\ total_wgt * call.capacity \in Nat
  BY <1>1, CallType, ProductIsNat
<1> QED BY <1>1, <1>2 DEF target

-----------------------------------------------------------------------------
(* compute_hotset.                                                         *)

\* The order of the sort, as a relation.
Sorted == {pair \in Sites \X Sites : Before(pair[1], pair[2])}

\* The sort by value, stable as Python has it, is a strict order of the sites.
LEMMA SortedOrders ==
  ASSUME Typed
  PROVE  /\ StrictlyOrders(Sorted, Sites)
         /\ \A p, q \in Sites : p # q => Before(p, q) \/ Before(q, p)
<1>1. \A p \in Sites : Value(p) \in Nat /\ p \in Int BY ValueType, SitesType
<1>2. \A p \in Sites : ~ Before(p, p) BY <1>1 DEF Before
<1>3. \A p, q, r \in Sites : Before(p, q) /\ Before(q, r) => Before(p, r)
  BY <1>1 DEF Before
<1>4. \A p, q \in Sites : p # q => Before(p, q) \/ Before(q, p)
  BY <1>1 DEF Before
<1> QED BY <1>2, <1>3, <1>4 DEF StrictlyOrders, Sorted

\* Without an end, the loop would take every site; with it the sites that it
\* takes are a prefix of the sorted list.
LEMMA HotsetIsFirst ==
  ASSUME Typed, NEW p \in Hotset, NEW q \in Sites, Before(q, p)
  PROVE  q \in Hotset
<1>1. p \in Sites BY DEF Hotset
<1>2. Ahead(q) \subseteq Ahead(p)
  <2>1. \A r \in Sites : Before(r, q) => Before(r, p)
    BY <1>1, SortedOrders DEF StrictlyOrders, Sorted
  <2> QED BY <2>1 DEF Ahead
<1>3. Ahead(p) \in SUBSET Sites BY DEF Ahead
<1>4. WeightOf(Ahead(q)) \in Nat /\ WeightOf(Ahead(p)) \in Nat
      /\ WeightOf(Ahead(q)) <= WeightOf(Ahead(p))
  BY <1>2, <1>3, WeightsGrow
<1>5. 100 * WeightOf(Ahead(p)) <= target BY DEF Hotset, Reached
<1> QED BY <1>4, <1>5, TargetType DEF Hotset, Reached

\* The loop of compute_hotset chooses a set that fills the tier.
LEMMA HotsetFillsTheTier ==
  ASSUME Typed
  PROVE  FillsTheTier(Hotset)
<1> USE SitesType, TargetType
<1> DEFINE H == Hotset
    C == Sites \ H
<1>0. H \subseteq Sites /\ C \subseteq Sites BY DEF Hotset
<1>1. ASSUME NEW p \in H, NEW q \in C PROVE Value(p) >= Value(q)
  <2>1. ~ Before(q, p) BY <1>0, HotsetIsFirst
  <2>2. Value(p) \in Nat /\ Value(q) \in Nat BY <1>0, ValueType
  <2> QED BY <2>1, <2>2 DEF Before
<1>2. ASSUME H # Sites PROVE 100 * WeightOf(H) > target
  <2>1. PICK q \in C : \A r \in C : <<r, q>> \notin Sorted
    <3>1. C # {} BY <1>0, <1>2
    <3> HIDE DEF C
    <3> QED BY <1>0, <3>1, SortedOrders, FirstElement
  <2>2. Ahead(q) \subseteq H
    BY <1>0, <2>1 DEF Ahead, Sorted
  <2>3. ~ (100 * WeightOf(Ahead(q)) <= target)
    BY <1>0 DEF Hotset, Reached
  <2>4. WeightOf(H) \in Nat /\ WeightOf(Ahead(q)) \in Nat
        /\ WeightOf(Ahead(q)) <= WeightOf(H)
    BY <1>0, <2>2, WeightsGrow
  <2> QED BY <2>3, <2>4
<1>3. ASSUME H # {}
      PROVE  \E p \in H : /\ \A q \in H : Value(q) >= Value(p)
                             /\ 100 * WeightOf(H \ {p}) <= target
  <2> DEFINE Reversed == {pair \in Sites \X Sites : Before(pair[2], pair[1])}
  <2>1. StrictlyOrders(Reversed, Sites)
    BY SortedOrders DEF StrictlyOrders, Sorted
  <2>2. PICK p \in H : \A q \in H : <<q, p>> \notin Reversed
    <3> HIDE DEF Reversed
    <3> QED BY <1>0, <1>3, <2>1, FirstElement
  <2>3. \A q \in H : ~ Before(p, q) BY <1>0, <2>2
  <2>4. ASSUME NEW q \in H PROVE Value(q) >= Value(p)
    <3>1. Value(p) \in Nat /\ Value(q) \in Nat BY <1>0, ValueType
    <3> QED BY <3>1, <2>3 DEF Before
  <2>5. H \ {p} \subseteq Ahead(p)
    BY <1>0, <2>3, SortedOrders DEF Ahead
  <2>6. Ahead(p) \in SUBSET Sites BY DEF Ahead
  <2>7. WeightOf(H \ {p}) \in Nat /\ WeightOf(Ahead(p)) \in Nat
        /\ WeightOf(H \ {p}) <= WeightOf(Ahead(p))
    BY <2>5, <2>6, WeightsGrow
  <2>8. 100 * WeightOf(Ahead(p)) <= target BY DEF Hotset, Reached
  <2>9. 100 * WeightOf(H \ {p}) <= target BY <2>7, <2>8
  <2> QED BY <2>4, <2>9
<1> QED BY <1>1, <1>2, <1>3 DEF FillsTheTier

-----------------------------------------------------------------------------
(* compute_knapsack: the rounded weights, and the sites in their order.    *)

\* The rounded weights and the room left for them are numbers.
LEMMA RoundedType ==
  ASSUME Typed, total_wgt > 0
  PROVE  /\ \A p \in Sites : Rounded(p) \in Nat
         /\ Room \in Nat
<1> USE GuidanceAssumption, TargetType
<1>1. ASSUME NEW p \in Sites PROVE Rounded(p) \in Nat
  <2>1. Weight(p) * Increments \in Nat BY WeightType, ProductIsNat
  <2> QED BY <2>1, QuotientIsNat DEF Rounded
<1>2. Room \in Nat
  <2>1. target * Increments \in Nat BY ProductIsNat
  <2>2. 100 * total_wgt \in Nat \ {0} OBVIOUS
  <2> QED BY <2>1, <2>2, QuotientIsNat DEF Room
<1> QED BY <1>1, <1>2

\* The significant sites have a positive rounded weight.
LEMMA SigType ==
  ASSUME Typed, total_wgt > 0
  PROVE  /\ sig \in SUBSET Sites /\ IsFiniteSet(sig) /\ Cardinality(sig) \in Nat
         /\ \A p \in sig : Rounded(p) \in Nat \ {0} /\ Value(p) \in Nat
<1>1. sig \in SUBSET Sites BY DEF sig
<1>2. IsFiniteSet(sig) /\ Cardinality(sig) \in Nat
  BY <1>1, SitesType, FS_Subset, FS_CardinalityType
<1>3. ASSUME NEW p \in sig PROVE Rounded(p) \in Nat \ {0} /\ Value(p) \in Nat
  BY <1>1, RoundedType, ValueType DEF sig, insig_wgts
<1> QED BY <1>1, <1>2, <1>3

\* More sites have no smaller rounded weight.
LEMMA RoundedGrow ==
  ASSUME Typed, total_wgt > 0, NEW S \in SUBSET Sites, NEW T \in SUBSET S
  PROVE  RoundedOf(S) \in Nat /\ RoundedOf(T) \in Nat /\ RoundedOf(T) <= RoundedOf(S)
<1>1. IsFiniteSet(S) BY SitesType, FS_Subset
<1>2. \A p \in S : [q \in Sites |-> Rounded(q)][p] \in Nat BY RoundedType
<1> QED BY <1>1, <1>2, SumGrows DEF RoundedOf

\* The rounded weight of a set is that of a site and that of the others.
LEMMA RoundedAdd ==
  ASSUME Typed, total_wgt > 0, NEW S \in SUBSET Sites, NEW p \in S
  PROVE  RoundedOf(S) = Rounded(p) + RoundedOf(S \ {p})
<1>1. IsFiniteSet(S) BY SitesType, FS_Subset
<1>2. \A q \in S : [r \in Sites |-> Rounded(r)][q] \in Int BY RoundedType
<1>3. [r \in Sites |-> Rounded(r)][p] = Rounded(p) OBVIOUS
<1> DEFINE f == [r \in Sites |-> Rounded(r)]
<1>4. SumFunctionOnSet(f, S) = f[p] + SumFunctionOnSet(f, S \ {p})
  <2> HIDE DEF f
  <2> QED BY <1>1, <1>2, SumWithout DEF f
<1> QED BY <1>3, <1>4 DEF RoundedOf

\* Sites of an insignificant weight take no room.
LEMMA InsignificantIsFree ==
  ASSUME Typed, total_wgt > 0, NEW S \in SUBSET Sites
  PROVE  RoundedOf(S) = RoundedOf(S \cap sig)
<1>1. IsFiniteSet(S) BY SitesType, FS_Subset
<1> DEFINE f == [r \in Sites |-> Rounded(r)]
<1>2. \A q \in S : f[q] \in Nat BY RoundedType
<1>3. \A q \in S \ (S \cap sig) : f[q] = 0 BY DEF sig, insig_wgts
<1>4. S \cap sig \in SUBSET S OBVIOUS
<1> HIDE DEF f
<1>5. SumFunctionOnSet(f, S) = SumFunctionOnSet(f, S \cap sig)
  BY <1>1, <1>2, <1>3, <1>4, SumWithoutZeros
<1> QED BY <1>5 DEF RoundedOf, f

\* The sorted list holds every significant site once.
LEMMA SigWgtsAreSorted ==
  ASSUME Typed, total_wgt > 0
  PROVE  /\ sig_wgts \in [1 .. Cardinality(sig) -> sig]
         /\ \A i, j \in 1 .. Cardinality(sig) : sig_wgts[i] = sig_wgts[j] => i = j
         /\ \A p \in sig : \E i \in 1 .. Cardinality(sig) : sig_wgts[i] = p
<1> DEFINE n == Cardinality(sig)
    R == {pair \in sig \X sig : Heavier(pair[1], pair[2])}
    rank == [p \in sig |-> Cardinality(Below(R, sig, p))]
<1>1. n \in Nat /\ IsFiniteSet(sig) BY SigType
<1>2. \A p \in sig : Rounded(p) \in Nat /\ p \in Int BY SigType, SitesType
<1>3. StrictlyOrders(R, sig)
  <2>1. \A p \in sig : ~ Heavier(p, p) BY <1>2 DEF Heavier
  <2>2. \A p, q, r \in sig : Heavier(p, q) /\ Heavier(q, r) => Heavier(p, r)
    BY <1>2 DEF Heavier
  <2> QED BY <2>1, <2>2 DEF StrictlyOrders
<1>4. \A p, q \in sig : p # q => <<p, q>> \in R \/ <<q, p>> \in R
  BY <1>2 DEF Heavier
<1>5. rank \in Bijection(sig, 0 .. n - 1)
  <2> HIDE DEF R
  <2> QED BY <1>1, <1>3, <1>4, RanksNumber
<1>6. /\ rank \in [sig -> 0 .. n - 1]
      /\ \A p, q \in sig : rank[p] = rank[q] => p = q
      /\ \A k \in 0 .. n - 1 : \E p \in sig : rank[p] = k
  <2> HIDE DEF rank, n
  <2> QED BY <1>5 DEF Bijection, Injection, IsInjective, Surjection
<1>7. \A p \in sig : rank[p] = Cardinality({q \in sig : Heavier(q, p)})
  <2> SUFFICES ASSUME NEW p \in sig
               PROVE  Below(R, sig, p) = {q \in sig : Heavier(q, p)}
    OBVIOUS
  <2> QED BY DEF Below
<1> HIDE DEF rank
<1>8. \A i \in 1 .. n : sig_wgts[i] \in sig /\ rank[sig_wgts[i]] = i - 1
  <2> SUFFICES ASSUME NEW i \in 1 .. n
               PROVE  sig_wgts[i] \in sig /\ rank[sig_wgts[i]] = i - 1
    OBVIOUS
  <2> DEFINE IsIt(p) == Cardinality({q \in sig : Heavier(q, p)}) = i - 1
  <2>1. sig_wgts[i] = CHOOSE p \in sig : IsIt(p) BY DEF sig_wgts
  <2>2. i - 1 \in 0 .. n - 1 BY <1>1
  <2>3. PICK p \in sig : rank[p] = i - 1 BY <1>6, <2>2
  <2>4. IsIt(p) BY <2>3, <1>7
  <2> HIDE DEF IsIt
  <2>5. sig_wgts[i] \in sig /\ IsIt(sig_wgts[i]) BY <2>1, <2>4
  <2> QED BY <2>5, <1>7 DEF IsIt
<1>9. sig_wgts \in [1 .. n -> sig]
  <2>1. sig_wgts = [i \in 1 .. n |-> sig_wgts[i]] BY DEF sig_wgts
  <2> HIDE DEF n
  <2> QED BY <2>1, <1>8
<1>10. \A i, j \in 1 .. n : sig_wgts[i] = sig_wgts[j] => i = j
  <2> SUFFICES ASSUME NEW i \in 1 .. n, NEW j \in 1 .. n, sig_wgts[i] = sig_wgts[j]
               PROVE  i = j
    OBVIOUS
  <2>1. i - 1 = j - 1 BY <1>8
  <2> QED BY <2>1, <1>1
<1>11. \A p \in sig : \E i \in 1 .. n : sig_wgts[i] = p
  <2> SUFFICES ASSUME NEW p \in sig PROVE \E i \in 1 .. n : sig_wgts[i] = p
    OBVIOUS
  <2>1. rank[p] \in 0 .. n - 1 BY <1>6
  <2>2. rank[p] + 1 \in 1 .. n /\ (rank[p] + 1) - 1 = rank[p] BY <2>1, <1>1
  <2>3. sig_wgts[rank[p] + 1] \in sig /\ rank[sig_wgts[rank[p] + 1]] = rank[p]
    BY <2>2, <1>8
  <2>4. sig_wgts[rank[p] + 1] = p BY <2>3, <1>6
  <2> QED BY <2>2, <2>4
<1> QED BY <1>9, <1>10, <1>11

-----------------------------------------------------------------------------
(* compute_knapsack: the table.                                            *)

\* The maximum that a cell of the table takes is the greater of two numbers.
LEMMA MaxOfTwo ==
  \A a, b \in Int : Max({a, b}) = IF a >= b THEN a ELSE b
<1> SUFFICES ASSUME NEW a \in Int, NEW b \in Int
             PROVE  Max({a, b}) = IF a >= b THEN a ELSE b
  OBVIOUS
<1> DEFINE IsMax(x) == \A y \in {a, b} : x >= y
<1>1. Max({a, b}) = CHOOSE x \in {a, b} : IsMax(x) BY DEF Max
<1>2. \E x \in {a, b} : IsMax(x) OBVIOUS
<1>3. Max({a, b}) \in {a, b} /\ IsMax(Max({a, b}))
  <2> HIDE DEF IsMax
  <2> QED BY <1>1, <1>2
<1> QED BY <1>3

Row == [0 .. Room - 1 -> Nat]

\* With one more site, a column is the best of leaving it out and, where it
\* fits, taking it.
LEMMA RowWithSite ==
  ASSUME Typed, total_wgt > 0, NEW p \in sig, NEW row \in Row
  PROVE  /\ RowWith(p, row) \in Row
         /\ \A c \in 0 .. Room - 1 :
              LET new == RowWith(p, row)[c]
                  fits == Rounded(p) <= c
                  taken == row[c - Rounded(p)] + Value(p)
              IN  /\ fits => c - Rounded(p) \in 0 .. Room - 1
                  /\ row[c] <= new /\ (fits => taken <= new)
                  /\ new # row[c] => fits /\ new = taken
<1>1. Rounded(p) \in Nat /\ Value(p) \in Nat /\ Room \in Nat BY SigType, RoundedType
<1>2. DOMAIN row = 0 .. Room - 1 BY DEF Row
<1>3. ASSUME NEW c \in 0 .. Room - 1
      PROVE  LET new == RowWith(p, row)[c]
                 fits == Rounded(p) <= c
                 taken == row[c - Rounded(p)] + Value(p)
             IN  /\ fits => c - Rounded(p) \in 0 .. Room - 1
                 /\ row[c] <= new /\ (fits => taken <= new)
                 /\ new # row[c] => fits /\ new = taken
                 /\ new \in Nat
  <2>1. row[c] \in Nat BY DEF Row
  <2>2. CASE Rounded(p) <= c
    <3>1. c - Rounded(p) \in 0 .. Room - 1 BY <1>1, <2>2
    <3>2. row[c - Rounded(p)] \in Nat BY <3>1 DEF Row
    <3>3. RowWith(p, row)[c] = Max({row[c], row[c - Rounded(p)] + Value(p)})
      BY <1>2, <2>2 DEF RowWith
    <3>4. RowWith(p, row)[c] =
            IF row[c] >= row[c - Rounded(p)] + Value(p) THEN row[c]
            ELSE row[c - Rounded(p)] + Value(p)
      <4>1. row[c] \in Int /\ row[c - Rounded(p)] + Value(p) \in Int
        BY <2>1, <3>2, <1>1
      <4> QED BY <3>3, <4>1, MaxOfTwo
    <3> QED BY <3>1, <3>2, <3>4, <2>1, <2>2, <1>1
  <2>3. CASE ~ (Rounded(p) <= c)
    <3>1. RowWith(p, row)[c] = row[c] BY <1>2, <2>3 DEF RowWith
    <3> QED BY <3>1, <2>1, <2>3
  <2> QED BY <2>2, <2>3
<1>4. RowWith(p, row) \in Row
  <2>1. RowWith(p, row) = [c \in 0 .. Room - 1 |-> RowWith(p, row)[c]]
    BY <1>2 DEF RowWith
  <2>2. \A c \in 0 .. Room - 1 : RowWith(p, row)[c] \in Nat BY <1>3
  <2> QED BY <2>1, <2>2 DEF Row
<1> QED BY <1>3, <1>4

\* The table exists.
LEMMA RowsEquation ==
  ASSUME Typed, total_wgt > 0
  PROVE  /\ Rows \in [0 .. Cardinality(sig) -> Row]
         /\ Rows[0] = [c \in 0 .. Room - 1 |-> 0]
         /\ \A i \in 1 .. Cardinality(sig) : Rows[i] = RowWith(sig_wgts[i], Rows[i - 1])
<1> DEFINE n == Cardinality(sig)
    Solves(rows) ==
      rows = [i \in 0 .. n |-> IF i = 0 THEN [c \in 0 .. Room - 1 |-> 0]
                               ELSE RowWith(sig_wgts[i], rows[i - 1])]
    base == [c \in 0 .. Room - 1 |-> 0]
    step == [pair \in (1 .. n) \X Row |-> RowWith(sig_wgts[pair[1]], pair[2])]
<1>1. n \in Nat BY SigType
<1>2. base \in Row BY DEF Row
<1>3. step \in [(1 .. n) \X Row -> Row]
  <2> SUFFICES ASSUME NEW i \in 1 .. n, NEW row \in Row
               PROVE  RowWith(sig_wgts[i], row) \in Row
    OBVIOUS
  <2>1. sig_wgts[i] \in sig BY SigWgtsAreSorted
  <2> QED BY <2>1, RowWithSite
<1>4. PICK g \in [0 .. n -> Row] : Iterates(g, n, base, step)
  <2> HIDE DEF n, base, step
  <2> QED BY <1>1, <1>2, <1>3, Iterated
<1>5. Solves(g)
  <2>1. ASSUME NEW i \in 0 .. n, i # 0
        PROVE  step[<<i, g[i - 1]>>] = RowWith(sig_wgts[i], g[i - 1])
    <3>1. i \in 1 .. n /\ i - 1 \in 0 .. n BY <1>1, <2>1
    <3>2. <<i, g[i - 1]>> \in (1 .. n) \X Row BY <3>1, <1>4
    <3> QED BY <3>2
  <2> HIDE DEF step, n
  <2> QED BY <1>4, <2>1 DEF Iterates
<1>6. Solves(Rows)
  <2>1. Rows = CHOOSE rows : Solves(rows) BY DEF Rows
  <2> HIDE DEF Solves
  <2> QED BY <1>5, <2>1
<1>7. Rows[0] = base
  <2>1. 0 \in 0 .. n BY <1>1
  <2> HIDE DEF n
  <2> QED BY <2>1, <1>6
<1>8. ASSUME NEW i \in 1 .. n PROVE Rows[i] = RowWith(sig_wgts[i], Rows[i - 1])
  <2>1. i \in 0 .. n /\ i # 0 BY <1>1
  <2> HIDE DEF n
  <2> QED BY <2>1, <1>6
<1>9. ASSUME NEW i \in 0 .. n PROVE Rows[i] \in Row
  <2> DEFINE T == {k \in Nat : k <= n => Rows[k] \in Row}
  <2>1. 0 \in T BY <1>2, <1>7
  <2>2. ASSUME NEW k \in Nat, k \in T PROVE k + 1 \in T
    <3> SUFFICES ASSUME k + 1 <= n PROVE Rows[k + 1] \in Row
      OBVIOUS
    <3>1. k + 1 \in 1 .. n /\ (k + 1) - 1 = k /\ Rows[k] \in Row BY <1>1, <2>2
    <3>2. Rows[k + 1] = RowWith(sig_wgts[k + 1], Rows[k]) BY <3>1, <1>8
    <3>3. sig_wgts[k + 1] \in sig BY <3>1, SigWgtsAreSorted
    <3> QED BY <3>1, <3>2, <3>3, RowWithSite
  <2> HIDE DEF T
  <2>3. i \in T BY <1>1, <2>1, <2>2, Inductive
  <2> QED BY <2>3 DEF T
<1>10. Rows \in [0 .. n -> Row]
  <2>1. Rows = [i \in 0 .. n |-> Rows[i]] BY <1>6
  <2> HIDE DEF n
  <2> QED BY <2>1, <1>9
<1> QED BY <1>7, <1>8, <1>10

\* A row is at least as good as any choice among the sites it is about.
LEMMA RowsAreBest ==
  ASSUME Typed, total_wgt > 0, NEW i \in 0 .. Cardinality(sig),
         NEW c \in 0 .. Room - 1, NEW S \in SUBSET {sig_wgts[k] : k \in 1 .. i},
         RoundedOf(S) <= c
  PROVE  ValueOf(S) <= Rows[i][c]
<1> DEFINE n == Cardinality(sig)
    First(k) == {sig_wgts[j] : j \in 1 .. k}
    Good(k) == \A d \in 0 .. Room - 1 : \A U \in SUBSET First(k) :
                 RoundedOf(U) <= d => ValueOf(U) <= Rows[k][d]
    N == {k \in Nat : k <= n => Good(k)}
<1>1. n \in Nat /\ sig \in SUBSET Sites BY SigType
<1>2. \A k \in 0 .. n : Rows[k] \in Row BY RowsEquation
<1>3. 0 \in N
  <2>1. First(0) = {} OBVIOUS
  <2>2. ASSUME NEW d \in 0 .. Room - 1, NEW U \in SUBSET First(0)
        PROVE  ValueOf(U) <= Rows[0][d]
    <3>1. ValueOf(U) = 0 BY <2>1, SumOfNone DEF ValueOf
    <3>2. Rows[0][d] = 0 BY RowsEquation
    <3> QED BY <3>1, <3>2
  <2> QED BY <2>2
<1>4. ASSUME NEW k \in Nat, k \in N PROVE k + 1 \in N
  <2> SUFFICES ASSUME k + 1 <= n, NEW d \in 0 .. Room - 1,
                      NEW U \in SUBSET First(k + 1), RoundedOf(U) <= d
               PROVE  ValueOf(U) <= Rows[k + 1][d]
    OBVIOUS
  <2> DEFINE x == sig_wgts[k + 1]
      new == Rows[k + 1][d]
  <2>1. k + 1 \in 1 .. n /\ (k + 1) - 1 = k /\ k \in 0 .. n BY <1>1
  <2>2. x \in sig /\ Rows[k + 1] = RowWith(x, Rows[k])
    BY <2>1, SigWgtsAreSorted, RowsEquation
  <2>3. Good(k) BY <1>4, <2>1
  <2> HIDE DEF N, Good
  <2>4. Rows[k] \in Row /\ Rows[k + 1] \in Row
    <3>1. k + 1 \in 0 .. n BY <2>1
    <3> QED BY <3>1, <2>1, <1>2
  <2>5. First(k) \subseteq sig /\ First(k + 1) \subseteq sig
        /\ First(k + 1) \subseteq First(k) \cup {x}
    <3>1. \A j \in 1 .. k + 1 : j \in 1 .. n /\ (j \in 1 .. k \/ j = k + 1) BY <2>1, <1>1
    <3>2. \A j \in 1 .. k + 1 : sig_wgts[j] \in sig BY <3>1, SigWgtsAreSorted
    <3> QED BY <3>1, <3>2
  <2>6. U \in SUBSET Sites BY <2>5, <1>1
  <2> HIDE DEF First
  <2>7. /\ Rounded(x) \in Nat /\ Value(x) \in Nat /\ Room \in Nat
        /\ Rows[k][d] \in Nat /\ new \in Nat /\ Rows[k][d] <= new
        /\ Rounded(x) <= d =>
             /\ d - Rounded(x) \in 0 .. Room - 1
             /\ Rows[k][d - Rounded(x)] + Value(x) <= new
    <3>1. Rows[k][d] \in Nat /\ new \in Nat BY <2>4 DEF Row
    <3>2. /\ Rounded(x) <= d => d - Rounded(x) \in 0 .. Room - 1
          /\ Rows[k][d] <= RowWith(x, Rows[k])[d]
          /\ Rounded(x) <= d =>
               Rows[k][d - Rounded(x)] + Value(x) <= RowWith(x, Rows[k])[d]
      <4> HIDE DEF x
      <4> QED BY <2>2, <2>4, RowWithSite
    <3> QED BY <3>1, <3>2, <2>2, SigType, RoundedType
  <2> HIDE DEF x, new
  <2>8. CASE x \notin U
    <3>1. U \in SUBSET First(k) BY <2>5, <2>8
    <3>2. ValueOf(U) <= Rows[k][d] BY <3>1, <2>3 DEF Good
    <3>3. ValueOf(U) \in Nat BY <2>6, ValuesGrow
    <3> QED BY <3>2, <3>3, <2>7 DEF new
  <2>9. CASE x \in U
    <3> DEFINE rest == U \ {x}
    <3>1. RoundedOf(U) = Rounded(x) + RoundedOf(rest) /\ RoundedOf(rest) \in Nat
      BY <2>6, <2>9, RoundedAdd, RoundedGrow
    <3>2. ValueOf(U) = Value(x) + ValueOf(rest) /\ ValueOf(rest) \in Nat
      BY <2>6, <2>9, ValuesAdd, ValuesGrow
    <3>3. Rounded(x) <= d /\ RoundedOf(rest) <= d - Rounded(x) BY <3>1, <2>7
    <3>4. d - Rounded(x) \in 0 .. Room - 1 BY <2>7, <3>3
    <3>5. rest \in SUBSET First(k) BY <2>5
    <3>6. ValueOf(rest) <= Rows[k][d - Rounded(x)] BY <3>3, <3>4, <3>5, <2>3 DEF Good
    <3>7. Rows[k][d - Rounded(x)] \in Nat BY <2>4, <3>4 DEF Row
    <3>8. Rows[k][d - Rounded(x)] + Value(x) <= new BY <2>7, <3>3
    <3> HIDE DEF rest
    <3>9. ValueOf(U) <= new BY <3>2, <3>6, <3>7, <3>8, <2>7
    <3> QED BY <3>9 DEF new
  <2> QED BY <2>8, <2>9
<1> HIDE DEF N
<1>5. i \in N BY <1>3, <1>4, Inductive
<1> QED BY <1>1, <1>5 DEF N

-----------------------------------------------------------------------------
(* compute_knapsack: the traceback.                                        *)

At == [column : Int, chosen : SUBSET sig]

\* Looking at row k from the last.
TraceStep(k, at) ==
  LET i == Cardinality(sig) - k + 1
  IN  IF Rows[i][at.column] = Rows[i - 1][at.column] THEN at
      ELSE [column |-> at.column - Rounded(sig_wgts[i]),
            chosen |-> at.chosen \cup {sig_wgts[i]}]

\* A step back through the table leads to a place in it.
LEMMA TraceStepType ==
  ASSUME Typed, total_wgt > 0, NEW k \in 1 .. Cardinality(sig), NEW at \in At
  PROVE  TraceStep(k, at) \in At
<1> DEFINE i == Cardinality(sig) - k + 1
<1>1. i \in 1 .. Cardinality(sig) BY SigType
<1>2. sig_wgts[i] \in sig BY <1>1, SigWgtsAreSorted
<1>3. Rounded(sig_wgts[i]) \in Nat BY <1>2, SigType
<1>4. at.column \in Int /\ at.chosen \in SUBSET sig BY DEF At
<1> HIDE DEF i
<1>5. [column |-> at.column - Rounded(sig_wgts[i]),
       chosen |-> at.chosen \cup {sig_wgts[i]}] \in At
  BY <1>2, <1>3, <1>4 DEF At
<1> QED BY <1>5 DEF TraceStep, i

\* The traceback exists.
LEMMA TraceEquation ==
  ASSUME Typed, total_wgt > 0
  PROVE  /\ Trace[0] = [column |-> Room - 1, chosen |-> {}]
         /\ \A k \in 1 .. Cardinality(sig) : Trace[k] = TraceStep(k, Trace[k - 1])
<1> DEFINE n == Cardinality(sig)
    base == [column |-> Room - 1, chosen |-> {}]
    Solves(trace) ==
      trace = [k \in 0 .. n |-> IF k = 0 THEN base ELSE TraceStep(k, trace[k - 1])]
    step == [pair \in (1 .. n) \X At |-> TraceStep(pair[1], pair[2])]
<1>1. n \in Nat BY SigType
<1>2. base \in At BY RoundedType DEF At
<1>3. step \in [(1 .. n) \X At -> At] BY TraceStepType
<1>4. PICK g \in [0 .. n -> At] : Iterates(g, n, base, step)
  <2> HIDE DEF n, base, step
  <2> QED BY <1>1, <1>2, <1>3, Iterated
<1>5. Solves(g)
  <2>1. ASSUME NEW k \in 0 .. n, k # 0
        PROVE  step[<<k, g[k - 1]>>] = TraceStep(k, g[k - 1])
    <3>1. k \in 1 .. n /\ k - 1 \in 0 .. n BY <1>1, <2>1
    <3>2. <<k, g[k - 1]>> \in (1 .. n) \X At BY <3>1, <1>4
    <3> QED BY <3>2
  <2> HIDE DEF step, n, base
  <2> QED BY <1>4, <2>1 DEF Iterates
<1>6. Solves(Trace)
  <2>1. Trace = CHOOSE trace : Solves(trace) BY DEF Trace, TraceStep
  <2> HIDE DEF Solves
  <2> QED BY <1>5, <2>1
<1>7. Trace[0] = base
  <2>1. 0 \in 0 .. n BY <1>1
  <2> HIDE DEF n, base
  <2> QED BY <2>1, <1>6
<1>8. ASSUME NEW k \in 1 .. n PROVE Trace[k] = TraceStep(k, Trace[k - 1])
  <2>1. k \in 0 .. n /\ k # 0 BY <1>1
  <2> HIDE DEF n, base
  <2> QED BY <2>1, <1>6
<1> QED BY <1>7, <1>8

\* At every step of the traceback the chosen sites have filled the columns to
\* the right of where it is, and what they are worth is what the last row has
\* over the row that is reached.
LEMMA TraceFollowsTheTable ==
  ASSUME Typed, total_wgt > 0, Room > 0, NEW k \in 0 .. Cardinality(sig)
  PROVE  LET row == Rows[Cardinality(sig) - k]
             chosen == Trace[k].chosen
             column == Trace[k].column
         IN  /\ chosen \in SUBSET sig
             /\ column \in 0 .. Room - 1
             /\ RoundedOf(chosen) + column = Room - 1
             /\ ValueOf(chosen) + row[column] = Rows[Cardinality(sig)][Room - 1]
<1> DEFINE n == Cardinality(sig)
    best == Rows[n][Room - 1]
    Later(j) == {sig_wgts[h] : h \in n - j + 1 .. n}
    Good(j) == /\ Trace[j] \in At
               /\ Trace[j].chosen \in SUBSET Later(j)
               /\ Trace[j].column \in 0 .. Room - 1
               /\ RoundedOf(Trace[j].chosen) + Trace[j].column = Room - 1
               /\ ValueOf(Trace[j].chosen) + Rows[n - j][Trace[j].column] = best
    N == {j \in Nat : j <= n => Good(j)}
<1>1. n \in Nat /\ sig \in SUBSET Sites /\ Room \in Nat BY SigType, RoundedType
<1>2. \A j \in 0 .. n : Rows[j] \in Row BY RowsEquation
<1>3. best \in Nat
  <2>1. n \in 0 .. n /\ Room - 1 \in 0 .. Room - 1 BY <1>1
  <2> HIDE DEF n
  <2> QED BY <2>1, <1>2 DEF Row
<1>4. 0 \in N
  <2>1. Trace[0] = [column |-> Room - 1, chosen |-> {}] BY TraceEquation
  <2>2. Trace[0].column = Room - 1 /\ Trace[0].chosen = {} /\ Trace[0] \in At
    BY <2>1, <1>1 DEF At
  <2>3. RoundedOf({}) = 0 /\ ValueOf({}) = 0 BY SumOfNone DEF RoundedOf, ValueOf
  <2>4. n - 0 = n BY <1>1
  <2> HIDE DEF n, Later
  <2>5. Good(0) BY <2>2, <2>3, <2>4, <1>1, <1>3
  <2> QED BY <2>5
<1>5. ASSUME NEW j \in Nat, j \in N PROVE j + 1 \in N
  <2> SUFFICES ASSUME j + 1 <= n PROVE Good(j + 1)
    OBVIOUS
  <2>1. Good(j)
    <3>1. j <= n BY <1>1
    <3> HIDE DEF Good
    <3> QED BY <3>1, <1>5
  <2> HIDE DEF N
  <2> DEFINE i == n - j
      at == Trace[j]
      x == sig_wgts[i]
      column == at.column
      chosen == at.chosen
  <2>2. i \in 1 .. n /\ i \in 0 .. n /\ i - 1 \in 0 .. n /\ j + 1 \in 1 .. n
        /\ (j + 1) - 1 = j /\ n - (j + 1) + 1 = i /\ n - (j + 1) = i - 1
        /\ n - j = i
    BY <1>1
  <2>3. Trace[j + 1] = IF Rows[i][column] = Rows[i - 1][column] THEN at
                       ELSE [column |-> column - Rounded(x), chosen |-> chosen \cup {x}]
    <3>1. Trace[j + 1] = TraceStep(j + 1, Trace[j]) BY <2>2, TraceEquation
    <3> QED BY <3>1, <2>2 DEF TraceStep
  <2>4. x \in sig /\ Rows[i] = RowWith(x, Rows[i - 1])
    BY <2>2, SigWgtsAreSorted, RowsEquation
  <2>5. Later(j) \subseteq Later(j + 1) /\ x \in Later(j + 1) /\ x \notin Later(j)
        /\ Later(j) \subseteq sig
    <3>1. \A h \in n - j + 1 .. n : h \in n - (j + 1) + 1 .. n BY <1>1
    <3>2. i \in n - (j + 1) + 1 .. n BY <1>1
    <3>3. \A h \in n - j + 1 .. n : h \in 1 .. n /\ h # i BY <1>1, <2>2
    <3>4. \A h \in n - j + 1 .. n : sig_wgts[h] \in sig /\ sig_wgts[h] # x
      BY <3>3, <2>2, SigWgtsAreSorted
    <3> HIDE DEF n, i
    <3> QED BY <3>1, <3>2, <3>4
  <2>6. /\ at \in At /\ chosen \in SUBSET Later(j) /\ column \in 0 .. Room - 1
        /\ RoundedOf(chosen) + column = Room - 1
        /\ ValueOf(chosen) + Rows[i][column] = best
    BY <2>1, <2>2
  <2>7. Rows[i] \in Row /\ Rows[i - 1] \in Row BY <1>2, <2>2
  <2> HIDE DEF Later, n
  <2>8. CASE Rows[i][column] = Rows[i - 1][column]
    <3>1. Trace[j + 1] = at BY <2>3, <2>8
    <3>2. ValueOf(chosen) + Rows[i - 1][column] = best BY <2>6, <2>8
    <3>3. Rows[n - (j + 1)] = Rows[i - 1] BY <2>2
    <3>4. chosen \in SUBSET Later(j + 1) BY <2>5, <2>6
    <3> HIDE DEF at, i, best
    <3> QED BY <3>1, <3>2, <3>3, <3>4, <2>6
  <2>9. CASE Rows[i][column] # Rows[i - 1][column]
    <3> DEFINE with == chosen \cup {x}
        left == column - Rounded(x)
    <3>1. Trace[j + 1] = [column |-> left, chosen |-> with] BY <2>3, <2>9
    <3>2. Rounded(x) \in Nat /\ Value(x) \in Nat BY <2>4, SigType
    <3>3. Rounded(x) <= column /\ left \in 0 .. Room - 1
          /\ Rows[i][column] = Rows[i - 1][left] + Value(x)
      <4>1. /\ Rounded(x) <= column => left \in 0 .. Room - 1
            /\ RowWith(x, Rows[i - 1])[column] # Rows[i - 1][column] =>
                 /\ Rounded(x) <= column
                 /\ RowWith(x, Rows[i - 1])[column] = Rows[i - 1][left] + Value(x)
        <5> HIDE DEF x, column, i
        <5> QED BY <2>4, <2>6, <2>7, RowWithSite
      <4> QED BY <4>1, <2>4, <2>9
    <3>4. with \in SUBSET Sites /\ x \in with /\ with \ {x} = chosen
          /\ chosen \in SUBSET Sites /\ with \in SUBSET Later(j + 1) /\ with \in SUBSET sig
      BY <2>4, <2>5, <2>6, <1>1
    <3> HIDE DEF with, x, chosen, column, left
    <3>5. RoundedOf(with) = Rounded(x) + RoundedOf(chosen) /\ RoundedOf(chosen) \in Nat
      BY <3>4, RoundedAdd, RoundedGrow
    <3>6. ValueOf(with) = Value(x) + ValueOf(chosen) /\ ValueOf(chosen) \in Nat
      BY <3>4, ValuesAdd, ValuesGrow
    <3>7. column \in Nat /\ left = column - Rounded(x) BY <2>6 DEF left
    <3>8. RoundedOf(with) + left = Room - 1 BY <3>2, <3>5, <3>7, <2>6
    <3>9. Rows[i - 1][left] \in Nat BY <3>3, <2>7 DEF Row
    <3>10. ValueOf(with) + Rows[i - 1][left] = best
      <4> HIDE DEF i, best
      <4> QED BY <3>2, <3>3, <3>6, <3>9, <2>6
    <3>11. Trace[j + 1].column = left /\ Trace[j + 1].chosen = with BY <3>1
    <3>12. Trace[j + 1] \in At BY <3>1, <3>3, <3>4 DEF At
    <3>13. Rows[n - (j + 1)] = Rows[i - 1] BY <2>2
    <3> HIDE DEF i, best
    <3> QED BY <3>3, <3>4, <3>8, <3>10, <3>11, <3>12, <3>13
  <2> QED BY <2>8, <2>9
<1> HIDE DEF N
<1>6. k \in N BY <1>4, <1>5, Inductive
<1>7. Good(k) BY <1>1, <1>6 DEF N
<1> QED BY <1>7 DEF At

\* The knapsack takes every insignificant site and, of the others, a choice that
\* fits and is at least as good as every other one.
LEMMA KnapsackFindsTheBest ==
  ASSUME Typed, total_wgt > 0, Room > 0 \/ Sites = insig_wgts
  PROVE  IsBest(Knapsack) /\ Knapsack \subseteq Sites /\ insig_wgts \subseteq Knapsack
<1> DEFINE n == Cardinality(sig)
    chosen == Trace[n].chosen
<1>1. n \in Nat /\ sig \in SUBSET Sites /\ Room \in Nat /\ IsFiniteSet(sig)
  BY SigType, RoundedType
<1>2. insig_wgts \subseteq Sites /\ insig_wgts \cap sig = {} BY DEF insig_wgts, sig
<1>3. RoundedOf({}) = 0 /\ ValueOf({}) = 0 BY SumOfNone DEF RoundedOf, ValueOf
<1>4. Knapsack = insig_wgts \cup chosen BY DEF Knapsack
<1>5. CASE Room > 0
  <2>1. /\ chosen \in SUBSET sig
        /\ Trace[n].column \in Nat
        /\ RoundedOf(chosen) + Trace[n].column = Room - 1
        /\ ValueOf(chosen) + Rows[0][Trace[n].column] = Rows[n][Room - 1]
        /\ Trace[n].column \in 0 .. Room - 1
    <3>1. n \in 0 .. n /\ n - n = 0 BY <1>1
    <3> HIDE DEF n
    <3>2. LET row == Rows[n - n]
          IN  /\ Trace[n].chosen \in SUBSET sig
              /\ Trace[n].column \in 0 .. Room - 1
              /\ RoundedOf(Trace[n].chosen) + Trace[n].column = Room - 1
              /\ ValueOf(Trace[n].chosen) + row[Trace[n].column] = Rows[n][Room - 1]
      BY <3>1, <1>5, TraceFollowsTheTable DEF n
    <3> QED BY <3>1, <3>2
  <2> HIDE DEF chosen
  <2>2. Knapsack \cap sig = chosen /\ Knapsack \in SUBSET Sites BY <2>1, <1>1, <1>2, <1>4
  <2>3. RoundedOf(chosen) \in Nat /\ ValueOf(chosen) \in Nat
    <3>1. chosen \in SUBSET Sites BY <2>1, <1>1
    <3> QED BY <3>1, RoundedGrow, ValuesGrow
  <2>4. Fits(Knapsack)
    <3>1. RoundedOf(Knapsack) = RoundedOf(chosen) BY <2>2, InsignificantIsFree
    <3> QED BY <3>1, <2>1, <2>3, <1>1 DEF Fits
  <2>5. ValueOf(chosen) = Rows[n][Room - 1]
    <3>1. Rows[0][Trace[n].column] = 0 BY <2>1, RowsEquation
    <3>2. Rows[n][Room - 1] \in Nat
      <4>1. n \in 0 .. n /\ Room - 1 \in 0 .. Room - 1 BY <1>1, <1>5
      <4> HIDE DEF n
      <4> QED BY <4>1, RowsEquation DEF Row, n
    <3> QED BY <3>1, <3>2, <2>1, <2>3
  <2>6. ASSUME NEW S \in SUBSET sig, Fits(S) PROVE ValueOf(S) <= ValueOf(chosen)
    <3>1. S \in SUBSET {sig_wgts[k] : k \in 1 .. n} BY SigWgtsAreSorted
    <3>2. RoundedOf(S) <= Room - 1
      <4>1. S \in SUBSET Sites BY <1>1
      <4>2. RoundedOf(S) \in Nat BY <4>1, RoundedGrow
      <4> QED BY <4>2, <2>6, <1>1 DEF Fits
    <3>3. n \in 0 .. n /\ Room - 1 \in 0 .. Room - 1 BY <1>1, <1>5
    <3>4. ValueOf(S) <= Rows[n][Room - 1] BY <3>1, <3>2, <3>3, RowsAreBest
    <3> QED BY <3>4, <2>5
  <2> QED BY <2>2, <2>4, <2>6, <1>4 DEF IsBest
<1>6. CASE Sites = insig_wgts
  <2>1. sig = {} BY <1>6 DEF sig
  <2>2. n = 0 BY <2>1, FS_EmptySet
  <2>3. chosen = {} BY <2>2, TraceEquation
  <2>4. Knapsack = Sites /\ Knapsack \cap sig = {} BY <2>1, <2>3, <1>4, <1>6
  <2>5. \A S \in SUBSET sig : ValueOf(S) <= ValueOf(Knapsack \cap sig)
    BY <2>1, <2>4, <1>3
  <2> QED BY <2>4, <2>5, <1>6 DEF IsBest
<1> QED BY <1>5, <1>6

-----------------------------------------------------------------------------
(* guide.py.                                                               *)

\* No step changes the profile or the arguments, nor what is computed of them.
LEMMA ProfileKept ==
  ASSUME UNCHANGED <<site_map, call>>
  PROVE  /\ Typed' = Typed /\ Sites' = Sites /\ total_wgt' = total_wgt
         /\ target' = target /\ Room' = Room /\ sig' = sig /\ insig_wgts' = insig_wgts
         /\ Tiers' = Tiers
         /\ \A p : Value(p)' = Value(p)
         /\ \A S : /\ ValueOf(S)' = ValueOf(S) /\ WeightOf(S)' = WeightOf(S)
                   /\ RoundedOf(S)' = RoundedOf(S)
                   /\ AccessesOf(S)' = AccessesOf(S) /\ TouchedOf(S)' = TouchedOf(S)
<1>1. Sites' = Sites BY DEF Sites
<1>2. \A p : Value(p)' = Value(p) BY Zenon DEF Value, accesses, touched
<1>3. \A p : Weight(p)' = Weight(p) BY DEF Weight, accesses, touched
<1>4. \A S : WeightOf(S)' = WeightOf(S) BY <1>1, <1>3 DEF WeightOf
<1>5. \A S : ValueOf(S)' = ValueOf(S) BY <1>1, <1>2 DEF ValueOf
<1>6. \A S : AccessesOf(S)' = AccessesOf(S) BY <1>1 DEF AccessesOf, accesses
<1>7. \A S : TouchedOf(S)' = TouchedOf(S) BY <1>1 DEF TouchedOf, touched
<1>8. total_wgt' = total_wgt BY <1>1, <1>4 DEF total_wgt
<1>9. target' = target BY <1>8 DEF target
<1>10. Room' = Room BY <1>8, <1>9 DEF Room
<1>11. \A p : Rounded(p)' = Rounded(p) BY <1>3, <1>8 DEF Rounded
<1>12. \A S : RoundedOf(S)' = RoundedOf(S) BY <1>1, <1>11 DEF RoundedOf
<1>13. insig_wgts' = insig_wgts BY <1>1, <1>11 DEF insig_wgts
<1>14. sig' = sig BY <1>1, <1>13 DEF sig
<1>15. Typed' = Typed /\ Tiers' = Tiers BY DEF Typed, Tiers
<1> QED BY <1>1, <1>2, <1>4, <1>5, <1>6, <1>7, <1>8, <1>9, <1>10, <1>12, <1>13, <1>14, <1>15

\* What each of the three algorithms must be given to come to a result.
LEMMA ComputableIs ==
  /\ call.type = "hotset" => (Computable <=> TRUE)
  /\ call.type = "knapsack" =>
       (Computable <=> total_wgt > 0 /\ (Room > 0 \/ Sites = insig_wgts))
  /\ call.type = "rr_hotset" => (Computable <=> Tiers # 0 \/ Sites = {})
  BY Zenon DEF Computable

\* What the choice satisfies once it is made, and why guide.py failed.
Inv ==
  /\ TypeOK
  /\ pc \in {"record", "written"} => Computable
  /\ pc \in {"record", "failed"} /\ Computable => call.type # "rr_hotset"
  /\ pc # "compute" /\ Computable /\ call.type = "hotset" => FillsTheTier(hots)
  /\ pc # "compute" /\ Computable /\ call.type = "knapsack" =>
       IsBest(hots) /\ insig_wgts \subseteq hots
  /\ pc = "failed" /\ Computable => 0 \in Divisors

\* The part of the type invariant that the lemmas above ask for.
LEMMA TypedByType == TypeOK => Typed
  BY DEF TypeOK, Typed

\* The invariant holds when guide.py starts.
LEMMA InitInv == Init => Inv
<1> SUFFICES ASSUME Init PROVE Inv
  OBVIOUS
<1>1. TypeOK BY DEF Init, TypeOK
<1> QED BY <1>1 DEF Init, Inv

\* What makes a choice good does not change with a step.
LEMMA ChoiceKept ==
  ASSUME UNCHANGED <<site_map, call>>
  PROVE  /\ Computable' = Computable
         /\ \A S : FillsTheTier(S)' = FillsTheTier(S) /\ IsBest(S)' = IsBest(S)
         /\ hots' = hots => Divisors' = Divisors
<1> USE ProfileKept
<1>1. Computable' = Computable BY Zenon DEF Computable
<1>2. \A S : FillsTheTier(S)' = FillsTheTier(S) BY DEF FillsTheTier
<1>3. \A S : IsBest(S)' = IsBest(S) BY DEF IsBest, Fits
<1>4. hots' = hots => Divisors' = Divisors BY DEF Divisors, colds
<1> QED BY <1>1, <1>2, <1>3, <1>4

\* A round-robin tier is one of the tiers.
LEMMA RoundTierType ==
  ASSUME Typed, call.type = "rr_hotset", Tiers # 0, NEW cur \in Nat
  PROVE  RoundTier(cur) \in 0 .. Tiers - 1
<1>1. Tiers \in Nat \ {0} BY CallType DEF Tiers
<1>2. \A m \in Nat, n \in Nat \ {0} : m % n \in 0 .. n - 1 OBVIOUS
<1> QED BY <1>1, <1>2 DEF RoundTier

\* Each step of guide.py keeps it.
LEMMA NextInv == Inv /\ [Next]_vars => Inv'
<1> SUFFICES ASSUME Inv, [Next]_vars PROVE Inv'
  OBVIOUS
<1>0. TypeOK /\ Typed BY TypedByType DEF Inv
<1>1. CASE Choose
  <2>1. UNCHANGED <<site_map, call, guidance>> /\ pc' = "record" /\ Computable
        /\ call.type # "rr_hotset"
    BY <1>1 DEF Choose
  <2>2. Computable' = Computable BY <2>1, ChoiceKept
  <2>3. hots' \subseteq Sites
        /\ (call.type = "hotset" => FillsTheTier(hots'))
        /\ (call.type = "knapsack" => IsBest(hots') /\ insig_wgts \subseteq hots')
    <3>1. CASE call.type = "hotset"
      <4>1. hots' = Hotset BY <1>1, <3>1 DEF Choose
      <4>2. Hotset \subseteq Sites BY DEF Hotset
      <4>3. FillsTheTier(Hotset) BY <1>0, HotsetFillsTheTier
      <4> QED BY <3>1, <4>1, <4>2, <4>3, Zenon
    <3>2. CASE call.type = "knapsack"
      <4>1. hots' = Knapsack BY <1>1, <3>2 DEF Choose
      <4>2. total_wgt > 0 /\ (Room > 0 \/ Sites = insig_wgts)
        BY <2>1, <3>2, ComputableIs
      <4>3. IsBest(Knapsack) /\ Knapsack \subseteq Sites /\ insig_wgts \subseteq Knapsack
        BY <1>0, <4>2, KnapsackFindsTheBest
      <4> QED BY <3>2, <4>1, <4>3, Zenon
    <3> QED BY <3>1, <3>2, <2>1, <1>0, CallType
  <2>4. /\ (call.type = "hotset" => FillsTheTier(hots))'
        /\ (call.type = "knapsack" => IsBest(hots) /\ insig_wgts \subseteq hots)'
    BY <2>1, <2>3, ChoiceKept, ProfileKept
  <2>5. TypeOK'
    <3>1. (hots \subseteq Sites)' BY <2>1, <2>3, ProfileKept
    <3> QED BY <1>0, <2>1, <3>1 DEF TypeOK
  <2> QED BY <2>1, <2>2, <2>4, <2>5 DEF Inv
<1>2. ASSUME UNCHANGED <<site_map, call, hots>>,
             pc' \in {"written", "failed"}, TypeOK',
             pc # "compute" \/ ~ Computable \/ call.type = "rr_hotset",
             pc' = "written" => Computable,
             pc' = "failed" /\ Computable => call.type # "rr_hotset" /\ 0 \in Divisors
      PROVE  Inv'
  <2>1. Computable' = Computable /\ Divisors' = Divisors BY <1>2, ChoiceKept
  <2>2. Computable /\ call.type = "hotset" => FillsTheTier(hots) BY <1>2 DEF Inv
  <2>3. Computable /\ call.type = "knapsack" => IsBest(hots) /\ insig_wgts \subseteq hots
    BY <1>2 DEF Inv
  <2>4. /\ (Computable /\ call.type = "hotset" => FillsTheTier(hots))'
        /\ (Computable /\ call.type = "knapsack" => IsBest(hots) /\ insig_wgts \subseteq hots)'
    BY <1>2, <2>1, <2>2, <2>3, ChoiceKept, ProfileKept
  <2> QED BY <1>2, <2>1, <2>4 DEF Inv
<1>3. CASE Record
  <2>1. UNCHANGED <<site_map, call, hots>> /\ pc = "record" /\ pc' = "written"
    BY <1>3 DEF Record
  <2>2. Computable /\ call.type # "rr_hotset" BY <2>1 DEF Inv
  <2>3. TypeOK'
    <3>1. guidance' = [p \in Sites |->
                         IF (p \in hots) # call.swaptier THEN call.upper ELSE call.lower]
      BY <1>3 DEF Record
    <3>2. guidance' \in [Sites -> {call.upper, call.lower}] BY <3>1
    <3> QED BY <1>0, <2>1, <2>2, <3>2, ProfileKept DEF TypeOK
  <2> QED BY <1>2, <2>1, <2>2, <2>3
<1>4. CASE RoundRobin
  <2>1. UNCHANGED <<site_map, call, hots>> /\ pc' = "written" /\ Computable
        /\ call.type = "rr_hotset"
    BY <1>4 DEF RoundRobin
  <2>2. TypeOK'
    <3>1. guidance' = [p \in Sites |-> RoundTier(Cardinality(Ahead(p)))]
      BY <1>4 DEF RoundRobin
    <3>2. ASSUME NEW p \in Sites PROVE RoundTier(Cardinality(Ahead(p))) \in 0 .. Tiers - 1
      <4>1. Ahead(p) \in SUBSET Sites BY DEF Ahead
      <4>2. Cardinality(Ahead(p)) \in Nat
        BY <1>0, <4>1, SitesType, FS_Subset, FS_CardinalityType
      <4>3. Tiers # 0 BY <2>1, ComputableIs
      <4> QED BY <1>0, <2>1, <4>2, <4>3, RoundTierType
    <3>3. guidance' \in [Sites -> 0 .. Tiers - 1] BY <3>1, <3>2
    <3> QED BY <1>0, <2>1, <3>3, ProfileKept DEF TypeOK
  <2> QED BY <1>2, <2>1, <2>2
<1>5. CASE Fail
  <2>1. UNCHANGED <<site_map, call, hots>> /\ pc' = "failed"
        /\ ((pc = "compute" /\ ~ Computable) \/ (pc = "record" /\ 0 \in Divisors))
    BY <1>5 DEF Fail
  <2>2. TypeOK' BY <1>0, <2>1, ProfileKept DEF TypeOK
  <2>3. pc = "record" => Computable /\ call.type # "rr_hotset" BY DEF Inv
  <2> QED BY <1>2, <2>1, <2>2, <2>3
<1>6. CASE UNCHANGED vars
  <2>1. UNCHANGED <<site_map, call, pc, hots, guidance>> BY <1>6 DEF vars
  <2>2. Computable' = Computable /\ Divisors' = Divisors BY <2>1, ChoiceKept
  <2>3. FillsTheTier(hots)' = FillsTheTier(hots) /\ IsBest(hots)' = IsBest(hots)
        /\ (insig_wgts \subseteq hots)' = (insig_wgts \subseteq hots)
    BY <2>1, ChoiceKept, ProfileKept
  <2>4. TypeOK' BY <1>0, <2>1, ProfileKept DEF TypeOK
  <2> QED BY <2>1, <2>2, <2>3, <2>4 DEF Inv
<1> QED BY <1>1, <1>3, <1>4, <1>5, <1>6 DEF Next, Done

\* Where every site is used, every sum over some of the sites is positive.
LEMMA UsedSumsArePositive ==
  ASSUME Typed, AllUsed, NEW S \in SUBSET Sites, S # {}
  PROVE  ValueOf(S) > 0 /\ WeightOf(S) > 0 /\ AccessesOf(S) > 0 /\ TouchedOf(S) > 0
<1>1. PICK p \in S : TRUE OBVIOUS
<1>2. IsFiniteSet(S) /\ p \in Sites BY SitesType, FS_Subset
<1>3. accesses(p) > 0 /\ touched(p) > 0 BY <1>2 DEF AllUsed
<1>4. ValueOf(S) > 0
  <2> DEFINE f == [q \in Sites |-> Value(q)]
  <2>1. \A q \in S : f[q] \in Nat BY ValueType
  <2>2. f[p] > 0 BY <1>2, <1>3, ValueType
  <2> HIDE DEF f
  <2>3. SumFunctionOnSet(f, S) > 0 BY <1>2, <2>1, <2>2, SumIsPositive
  <2> QED BY <2>3 DEF ValueOf, f
<1>5. WeightOf(S) > 0
  <2> DEFINE f == [q \in Sites |-> Weight(q)]
  <2>1. \A q \in S : f[q] \in Nat BY WeightType
  <2>2. f[p] > 0 BY <1>2, <1>3, WeightType
  <2> HIDE DEF f
  <2>3. SumFunctionOnSet(f, S) > 0 BY <1>2, <2>1, <2>2, SumIsPositive
  <2> QED BY <2>3 DEF WeightOf, f
<1>6. AccessesOf(S) > 0
  <2> DEFINE f == [q \in Sites |-> accesses(q)]
  <2>1. \A q \in S : f[q] \in Nat BY SitesType
  <2>2. f[p] > 0 BY <1>2, <1>3
  <2> HIDE DEF f
  <2>3. SumFunctionOnSet(f, S) > 0 BY <1>2, <2>1, <2>2, SumIsPositive
  <2> QED BY <2>3 DEF AccessesOf, f
<1>7. TouchedOf(S) > 0
  <2> DEFINE f == [q \in Sites |-> touched(q)]
  <2>1. \A q \in S : f[q] \in Nat BY SitesType
  <2>2. f[p] > 0 BY <1>2, <1>3
  <2> HIDE DEF f
  <2>3. SumFunctionOnSet(f, S) > 0 BY <1>2, <2>1, <2>2, SumIsPositive
  <2> QED BY <2>3 DEF TouchedOf, f
<1> QED BY <1>4, <1>5, <1>6, <1>7

\* The report divides by zero only where a tier is empty.
LEMMA ReportFailsForAnEmptyTier ==
  ASSUME Typed, AllUsed, hots \subseteq Sites, 0 \in Divisors
  PROVE  hots = {} \/ hots = Sites
<1> SUFFICES ASSUME hots # {}, hots # Sites PROVE FALSE
  OBVIOUS
<1>1. Sites \in SUBSET Sites /\ Sites # {} BY DEF AllUsed
<1>2. colds \in SUBSET Sites /\ colds # {} /\ hots \in SUBSET Sites BY DEF colds
<1>3. /\ ValueOf(Sites) > 0 /\ total_wgt > 0 /\ TouchedOf(Sites) > 0
      /\ AccessesOf(Sites) > 0
  BY <1>1, UsedSumsArePositive DEF total_wgt
<1>4. AccessesOf(hots) > 0 /\ AccessesOf(colds) > 0
  BY <1>2, UsedSumsArePositive
<1> QED BY <1>3, <1>4 DEF Divisors

\* The invariant says why guide.py failed.
LEMMA InvFailsOnlyForAnEmptyTier == Inv => FailsOnlyForAnEmptyTier
<1> SUFFICES ASSUME Inv, pc = "failed", AllUsed
             PROVE  /\ call.type = "hotset" =>
                         \E p \in Sites : 100 * WeightOf(Sites \ {p}) <= target
                    /\ call.type = "knapsack" =>
                         \/ \A p \in Sites : Rounded(p) >= Room
                         \/ RoundedOf(Sites) < Room
                    /\ call.type = "rr_hotset" => Tiers = 0
  <2>1. TypeOK => call.type \in {"hotset", "knapsack", "rr_hotset"}
    BY TypedByType, CallType
  <2>2. Inv => TypeOK BY DEF Inv
  <2> QED BY <2>1, <2>2, Zenon DEF FailsOnlyForAnEmptyTier
<1>0. Typed /\ hots \subseteq Sites BY TypedByType DEF Inv, TypeOK
<1>1. Sites \in SUBSET Sites /\ Sites # {} BY DEF AllUsed
<1>2. Computable => hots = {} \/ hots = Sites
  BY <1>0, ReportFailsForAnEmptyTier DEF Inv
<1>3. WeightOf({}) = 0 /\ RoundedOf({}) = 0 /\ ValueOf({}) = 0
  BY SumOfNone DEF WeightOf, RoundedOf, ValueOf
<1>4. ASSUME call.type = "hotset"
      PROVE  \E p \in Sites : 100 * WeightOf(Sites \ {p}) <= target
  <2>1. Computable BY <1>4, ComputableIs
  <2>2. FillsTheTier(hots) BY <1>4, <2>1 DEF Inv
  <2>3. hots # {}
    <3> SUFFICES ASSUME hots = {} PROVE FALSE
      OBVIOUS
    <3>1. 100 * WeightOf({}) > target BY <1>1, <2>2 DEF FillsTheTier
    <3> QED BY <3>1, <1>3, <1>0, TargetType
  <2>4. hots = Sites BY <1>2, <2>1, <2>3
  <2> QED BY <2>2, <2>3, <2>4 DEF FillsTheTier
<1>5. ASSUME call.type = "knapsack"
      PROVE  \/ \A p \in Sites : Rounded(p) >= Room
             \/ RoundedOf(Sites) < Room
  <2>1. total_wgt > 0 BY <1>0, <1>1, UsedSumsArePositive DEF total_wgt
  <2>2. Room \in Nat /\ \A p \in Sites : Rounded(p) \in Nat BY <1>0, <2>1, RoundedType
  <2>3. CASE ~ Computable
    <3>1. Room = 0 BY <1>5, <2>1, <2>2, <2>3, ComputableIs
    <3> QED BY <3>1, <2>2
  <2>4. CASE Computable
    <3>1. IsBest(hots) /\ insig_wgts \subseteq hots BY <1>5, <2>4 DEF Inv
    <3>2. CASE hots = {}
      <4>1. ASSUME NEW p \in Sites, ~ (Rounded(p) >= Room) PROVE FALSE
        <5>1. p \in sig BY <3>1, <3>2 DEF sig
        <5>2. {p} \in SUBSET Sites /\ {p} # {} /\ {p} \in SUBSET sig /\ {p} \ {p} = {}
              /\ p \in {p}
          BY <5>1
        <5>3. RoundedOf({p}) = Rounded(p) + RoundedOf({p} \ {p})
          BY <5>2, <1>0, <2>1, RoundedAdd
        <5>4. Fits({p}) BY <5>2, <5>3, <1>3, <2>2, <4>1 DEF Fits
        <5>5. ValueOf({p}) <= ValueOf({})
          <6>1. hots \cap sig = {} BY <3>2
          <6> QED BY <3>1, <5>2, <5>4, <6>1 DEF IsBest
        <5>6. ValueOf({p}) > 0 BY <5>2, <1>0, UsedSumsArePositive
        <5>7. ValueOf({p}) \in Nat BY <5>2, <1>0, ValuesGrow
        <5> QED BY <5>5, <5>6, <5>7, <1>3
      <4> QED BY <4>1
    <3>3. CASE hots = Sites
      <4>1. CASE Sites \cap sig = {}
        <5>1. \A p \in Sites : Rounded(p) = 0 BY <4>1 DEF sig, insig_wgts
        <5>2. RoundedOf(Sites) = 0
          BY <1>0, <1>1, <1>3, <2>1, <4>1, InsignificantIsFree
        <5> QED BY <5>1, <5>2, <2>2
      <4>2. CASE Fits(Sites) BY <4>2 DEF Fits
      <4> QED BY <3>1, <3>3, <4>1, <4>2 DEF IsBest
    <3> QED BY <1>2, <2>4, <3>2, <3>3
  <2> QED BY <2>3, <2>4
<1>6. ASSUME call.type = "rr_hotset" PROVE Tiers = 0
  BY <1>6, ComputableIs DEF Inv
<1> QED BY <1>4, <1>5, <1>6

\* The invariant, from the call to the guidance written or the failure.
THEOREM InvHolds == Spec => []Inv
<1>1. Init => Inv BY InitInv
<1>2. Inv /\ [Next]_vars => Inv' BY NextInv
<1> QED BY <1>1, <1>2, PTL DEF Spec

\* A written guidance gives every site a tier, in every run of guide.py.
THEOREM TypeCorrect == Spec => []TypeOK
<1>1. Inv => TypeOK BY DEF Inv
<1> QED BY <1>1, InvHolds, PTL

\* compute_hotset leaves out no site for a less valuable one, fills the tier and
\* goes over the target by no more than one site, whatever the profile.
THEOREM HotsetFills == Spec => []HottestFillTheTier
<1>1. Inv => HottestFillTheTier BY DEF Inv, HottestFillTheTier, Chosen
<1> QED BY <1>1, InvHolds, PTL

\* compute_knapsack's table and traceback find a choice that fits, and none that
\* fits is worth more, whatever the profile and the number of increments.
THEOREM KnapsackOptimal == Spec => []KnapsackIsBest
<1>1. Inv => KnapsackIsBest BY DEF Inv, KnapsackIsBest, Chosen
<1> QED BY <1>1, InvHolds, PTL

\* With every site used, guide.py fails only where a tier is to stay empty.
THEOREM FailsForAnEmptyTier == Spec => []FailsOnlyForAnEmptyTier
  BY InvHolds, InvFailsOnlyForAnEmptyTier, PTL

=============================================================================
