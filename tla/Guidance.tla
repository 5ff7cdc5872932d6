------------------------------ MODULE Guidance ------------------------------
(***************************************************************************)
(* all/python/guide.py and the compute_* functions of lib/postprocess.py   *)
(* (418-641).  From a profiled site map guide.py chooses the sites that    *)
(* are to live in the upper memory tier, by one of three algorithms, and   *)
(* writes each site's tier into a guidance file.  A site is a position in  *)
(* the order of the profile.  Python's floats are taken as exact.          *)
(***************************************************************************)
EXTENDS Integers, Sequences, FiniteSets, FiniteSetsExt, Functions

CONSTANTS
  SiteMaps,    \* sequences of [accesses, touched]
  Calls,       \* [type, valkey, wgtkey, capacity, absolute, upper, lower,
               \*  swaptier]: guide.py's arguments
  Increments,  \* 10^sigfigs: the steps into which the knapsack cuts the weight
  Density      \* a multiple of every `touched`: the unit of accesses per byte

ASSUME GuidanceAssumption ==
  /\ Increments \in Nat \ {0} /\ Density \in Nat \ {0}
  /\ SiteMaps \subseteq Seq([accesses : Nat, touched : Nat])
  /\ \A map \in SiteMaps : \A p \in 1 .. Len(map) :
       map[p].touched = 0 \/ Density % map[p].touched = 0
  /\ Calls \subseteq [type : {"hotset", "knapsack", "rr_hotset"},
                     valkey : {"accesses", "touched", "accs_site"},
                     wgtkey : {"accesses", "touched"},
                     capacity : Nat, absolute : BOOLEAN,
                     upper : Int, lower : Int, swaptier : BOOLEAN]
  /\ \A c \in Calls : c.type = "rr_hotset" => c.upper <= c.lower + 1

VARIABLES
  site_map, call,
  pc,         \* where guide.py is
  hots,       \* the sites chosen for the upper tier
  guidance    \* the tier of each site, once written

vars == <<site_map, call, pc, hots, guidance>>

Sites == 1 .. Len(site_map)
colds == Sites \ hots

accesses(p) == site_map[p].accesses
touched(p) == site_map[p].touched

\* site_map[site][perkey][ABSOLUTE][valkey]; "accs_site" is accesses per byte.
Value(p) ==
  CASE call.valkey = "accesses" -> accesses(p)
    [] call.valkey = "touched" -> touched(p)
    [] call.valkey = "accs_site" ->
         IF touched(p) = 0 THEN 0 ELSE accesses(p) * (Density \div touched(p))

Weight(p) == IF call.wgtkey = "touched" THEN touched(p) ELSE accesses(p)

ValueOf(S) == SumFunctionOnSet([p \in Sites |-> Value(p)], S)
AccessesOf(S) == SumFunctionOnSet([p \in Sites |-> accesses(p)], S)
TouchedOf(S) == SumFunctionOnSet([p \in Sites |-> touched(p)], S)
WeightOf(S) == SumFunctionOnSet([p \in Sites |-> Weight(p)], S)
total_wgt == WeightOf(Sites)

\* The capacity, in hundredths of the weights' unit.
target == IF call.absolute THEN 100 * call.capacity ELSE total_wgt * call.capacity

\* The stable sort by value, the highest first.
Before(p, q) == Value(p) > Value(q) \/ (Value(p) = Value(q) /\ p < q)

Ahead(q) == {p \in Sites : Before(p, q)}

-----------------------------------------------------------------------------
(* compute_hotset.                                                         *)

\* Mutant: the loop has no break.
NeverFull(q) == TRUE

\* Mutant: the loop ends when the target is reached.
FullAtTarget(q) == Ahead(q) = {} \/ 100 * WeightOf(Ahead(q)) < target

\* The loop reaches site q if those ahead of it have not gone over the target.
Reached(q) == 100 * WeightOf(Ahead(q)) <= target

Hotset == {q \in Sites : Reached(q)}

-----------------------------------------------------------------------------
(* compute_knapsack.                                                       *)

Rounded(p) == (Weight(p) * Increments) \div total_wgt
RoundedOf(S) == SumFunctionOnSet([p \in Sites |-> Rounded(p)], S)

\* len(wgt_incs).  The table's columns are 0 .. Room - 1: the last one, from
\* which the hot sites are traced, is a column short of the capacity.
Room == (target * Increments) \div (100 * total_wgt)

insig_wgts == {p \in Sites : Rounded(p) = 0}
sig == Sites \ insig_wgts

\* The stable sort by weight, the heaviest first.
Heavier(p, q) == Rounded(p) > Rounded(q) \/ (Rounded(p) = Rounded(q) /\ p < q)

sig_wgts ==
  [k \in 1 .. Cardinality(sig) |->
     CHOOSE p \in sig : Cardinality({q \in sig : Heavier(q, p)}) = k - 1]

\* Mutant: a site does not fit where it fits exactly.
LooseRow(p, row) ==
  [c \in DOMAIN row |->
     IF Rounded(p) < c
     THEN Max({row[c], row[c - Rounded(p)] + Value(p)}) ELSE row[c]]

RowWith(p, row) ==
  [c \in DOMAIN row |->
     IF Rounded(p) <= c
     THEN Max({row[c], row[c - Rounded(p)] + Value(p)}) ELSE row[c]]

\* m
Rows[i \in 0 .. Cardinality(sig)] ==
  IF i = 0 THEN [c \in 0 .. Room - 1 |-> 0]
  ELSE RowWith(sig_wgts[i], Rows[i - 1])

\* j and hots when the last k rows have been looked at: a site whose row
\* differs from the one before it is hot.
Trace[k \in 0 .. Cardinality(sig)] ==
  IF k = 0 THEN [column |-> Room - 1, chosen |-> {}]
  ELSE LET i == Cardinality(sig) - k + 1
           at == Trace[k - 1]
       IN IF Rows[i][at.column] = Rows[i - 1][at.column] THEN at
          ELSE [column |-> at.column - Rounded(sig_wgts[i]),
                chosen |-> at.chosen \cup {sig_wgts[i]}]

Knapsack == insig_wgts \cup Trace[Cardinality(sig)].chosen

-----------------------------------------------------------------------------
(* compute_rr_hotset.                                                      *)

Tiers == call.lower - call.upper + 1

RoundTier(cur) == cur % Tiers

-----------------------------------------------------------------------------
(* guide.py.                                                               *)

Init ==
  /\ site_map \in SiteMaps /\ call \in Calls
  /\ pc = "compute"
  /\ hots = {} /\ guidance = <<>>

\* The divisions that the computation makes before it has chosen.
Computable ==
  CASE call.type = "hotset" -> TRUE
    [] call.type = "knapsack" ->
         total_wgt > 0 /\ (Room > 0 \/ Sites = insig_wgts)
    [] call.type = "rr_hotset" -> Tiers # 0 \/ Sites = {}

Choose ==
  /\ pc = "compute" /\ Computable /\ call.type # "rr_hotset"
  /\ hots' = IF call.type = "hotset" THEN Hotset ELSE Knapsack
  /\ pc' = "record"
  /\ UNCHANGED <<site_map, call, guidance>>

\* What record_guidance divides by for its report.
Divisors ==
  {ValueOf(Sites), total_wgt, TouchedOf(Sites)} \cup
  {AccessesOf(S) : S \in {Sites, hots, colds}}

\* The tiers are recorded in the site map, the report succeeds, and guide.py
\* writes the file.
Record ==
  /\ pc = "record" /\ 0 \notin Divisors
  /\ guidance' =
       [p \in Sites |->
          IF (p \in hots) # call.swaptier THEN call.upper ELSE call.lower]
  /\ pc' = "written"
  /\ UNCHANGED <<site_map, call, hots>>

RoundRobin ==
  /\ pc = "compute" /\ Computable /\ call.type = "rr_hotset"
  /\ guidance' = [p \in Sites |-> RoundTier(Cardinality(Ahead(p)))]
  /\ pc' = "written"
  /\ UNCHANGED <<site_map, call, hots>>

\* ZeroDivisionError, or IndexError for the last column of an empty table: no
\* file is written.
Fail ==
  /\ \/ pc = "compute" /\ ~ Computable
     \/ pc = "record" /\ 0 \in Divisors
  /\ pc' = "failed"
  /\ UNCHANGED <<site_map, call, hots, guidance>>

Done == pc \in {"written", "failed"} /\ UNCHANGED vars

Next == Choose \/ Record \/ RoundRobin \/ Fail \/ Done

Spec == Init /\ [][Next]_vars

-----------------------------------------------------------------------------
(* Properties.                                                             *)

\* Type invariant: a written guidance gives every site a tier.
TypeOK ==
  /\ site_map \in SiteMaps /\ call \in Calls
  /\ pc \in {"compute", "record", "written", "failed"}
  /\ hots \subseteq Sites
  /\ pc = "written" =>
       guidance \in [Sites -> IF call.type = "rr_hotset" THEN 0 .. Tiers - 1
                                ELSE {call.upper, call.lower}]

Chosen(type) == call.type = type /\ pc \in {"record", "written"}

FillsTheTier(S) ==
  /\ \A p \in S, q \in Sites \ S : Value(p) >= Value(q)
  /\ S # Sites => 100 * WeightOf(S) > target
  /\ S # {} =>
       \E p \in S : /\ \A q \in S : Value(q) >= Value(p)
                    /\ 100 * WeightOf(S \ {p}) <= target

\* compute_hotset never leaves out a site for one that is less valuable; it
\* fills the tier, and goes over the target by no more than its least valuable
\* site.
HottestFillTheTier == Chosen("hotset") => FillsTheTier(hots)

Fits(S) == RoundedOf(S) < Room

IsBest(S) ==
  /\ S \cap sig = {} \/ Fits(S)
  /\ \A T \in SUBSET sig : Fits(T) => ValueOf(T) <= ValueOf(S \cap sig)

\* compute_knapsack's choice fits the table, and no other choice that fits has
\* more value.
KnapsackIsBest == Chosen("knapsack") => IsBest(hots)

\* When every site is used, guide.py fails only if one of the tiers is to stay
\* empty.
AllUsed == Sites # {} /\ \A p \in Sites : accesses(p) > 0 /\ touched(p) > 0

FailsOnlyForAnEmptyTier ==
  pc = "failed" /\ AllUsed =>
    CASE call.type = "hotset" ->
           \E p \in Sites : 100 * WeightOf(Sites \ {p}) <= target
      [] call.type = "knapsack" ->
           \/ \A p \in Sites : Rounded(p) >= Room
           \/ RoundedOf(Sites) < Room
      [] call.type = "rr_hotset" -> Tiers = 0
=============================================================================
