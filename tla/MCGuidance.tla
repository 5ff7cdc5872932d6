----------------------------- MODULE MCGuidance -----------------------------
(* The profiles and the calls that the run of Guidance is about. *)
EXTENDS Guidance

Site == [accesses : {0, 1, 3}, touched : {0, 1, 2}]
UsedSite == [accesses : {1, 2}, touched : {1, 2, 3}]

Profiles ==
  {<<>>} \cup UNION {[1 .. n -> Site] : n \in 1 .. 2} \cup [1 .. 3 -> UsedSite]
  \cup [1 .. 4 -> {[accesses |-> 1, touched |-> 2], [accesses |-> 3, touched |-> 1]}]

Capacities == {0, 30, 50, 75, 100}

Call(type, valkey, wgtkey, capacity, absolute, upper, lower, swaptier) ==
  [type |-> type, valkey |-> valkey, wgtkey |-> wgtkey, capacity |-> capacity,
   absolute |-> absolute, upper |-> upper, lower |-> lower,
   swaptier |-> swaptier]

AllCalls ==
  {Call("hotset", "accs_site", "touched", c, FALSE, 1, 0, FALSE) : c \in Capacities}
  \cup {Call("hotset", "accesses", "touched", c, TRUE, 1, 0, TRUE) : c \in {0, 3}}
  \cup {Call("knapsack", "touched", "accesses", c, FALSE, 1, 0, FALSE) : c \in Capacities}
  \cup {Call("knapsack", "accesses", "touched", 3, TRUE, 1, 0, FALSE)}
  \cup {Call("rr_hotset", "accesses", "touched", 0, FALSE, tiers[1], tiers[2], FALSE) :
          tiers \in {<<0, 1>>, <<1, 3>>, <<1, 0>>}}
=============================================================================
