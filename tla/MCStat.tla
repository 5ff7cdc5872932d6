------------------------------- MODULE MCStat -------------------------------
EXTENDS Stat

\* Sequences of at most n members of S.
UpTo(n, S) == UNION {[1..k -> S] : k \in 0..n}

GnuLines == {[is |-> "Elapsed_m:ss", m |-> 2, s |-> 5],
             [is |-> "Elapsed_h:mm:ss", h |-> 1, m |-> 0, s |-> 7],
             [is |-> "Maximum_resident_set_size", val |-> 3]}

MemFreeLines == {[is |-> "MemFree", vals |-> <<a, b>>] : a \in {0, 3}, b \in {1, 8}}
                  \cup {[is |-> "other"]}

PhaseFiles == UpTo(3, {[is |-> "cycle_timer", val |-> v] : v \in 1..3}
                        \cup {[is |-> "Timestep_time", val |-> 2]})

Qmcpack(b, s, w, t) ==
    {[is |-> "blocks", val |-> b], [is |-> "steps", val |-> s],
     [is |-> "walkers/mpi", val |-> w], [is |-> "QMC_Execution_time", val |-> t]}

FomFiles == {SetToSeq(Qmcpack(2, 3, w, t)) : w \in {2, 3}, t \in {1, 4}}
              \cup [1..4 -> Qmcpack(1, 2, 3, 2)]
              \cup {<<[is |-> k, val |-> 4]>> :
                      k \in {"FOM", "Figure_of_Merit_(FOM_2)", "Grind_Time_(nanoseconds)"}}

ReserveFiles == UpTo(4, {[is |-> "BEGIN_GET_NUM_RESERVED_PAGES"],
                         [is |-> "END_GET_NUM_RESERVED_PAGES"],
                         [is |-> "Wrong_node", val |-> 2], [is |-> "Wrong_node", val |-> 0]})

OnlineFiles == UpTo(2, {[is |-> "Full_rebind_estimate", estimate |-> e, real |-> e + 1] : e \in 1..2})

\* An interval: which sites have accesses, and where.
Arena(s, dram, aep, peak) ==
    [site |-> s, hot |-> dram > 0, dev |-> IF dram > aep THEN 1 ELSE 0,
     dram |-> dram, aep |-> aep, peak |-> peak, current |-> peak]
Interval(arenas) == [time |-> Len(arenas), rss_time |-> 1, skt |-> <<1, 2>>,
                     reconfigure |-> 0, phase_change |-> Len(arenas) > 1, arenas |-> arenas]
Profiles ==
    {[has_profile_bw |-> TRUE, has_profile_all |-> all, has_profile_online |-> online,
      has_profile_rss |-> all, num_profile_all_events |-> 2, upper_capacity |-> 4,
      intervals |-> << Interval(<<Arena(1, a, 1, 2)>>),
                       Interval(<<Arena(1, 0, b, 2), Arena(2, c, 1, 1), Arena(3, 1, d, 4)>>) >>]
       : a \in {0, 5}, b \in {0, 2}, c \in {1, 3}, d \in {0, 4}, all \in BOOLEAN, online \in BOOLEAN}

Files(metric) ==
    CASE metric \in GnuTimeMetrics -> UpTo(3, GnuLines)
      [] metric \in NumastatMetrics -> UpTo(3, MemFreeLines)
      [] metric \in OnlineMetrics -> OnlineFiles
      [] metric \in SicmMetrics \ OnlineMetrics -> Profiles
      [] metric \in MemreserveMetrics -> ReserveFiles
      [] metric = "fom" -> FomFiles
      [] OTHER -> PhaseFiles

Few(S) == {CHOOSE x \in S : TRUE, CHOOSE x \in S \ {CHOOSE y \in S : TRUE} : TRUE}

Command(metric, configs, benches, groups, single) ==
    [metric |-> metric, configs |-> configs, benches |-> benches, path |-> Last(benches),
     groups |-> groups, groupsize |-> IF groups = 0 THEN 0 ELSE 1, labels |-> 0,
     single |-> single, site |-> NoSite, node |-> 0, title |-> None, paths |-> 1]

MCMetrics == Metrics \cup {"?"}
MCCommands ==
    {[Command("runtime", <<"c1">>, <<"b1">>, 0, FALSE) EXCEPT !.metric = None]} \cup
    {Command(m, <<"c1">>, <<"b1">>, g, single) : m \in MCMetrics, g \in 0..1, single \in BOOLEAN}
      \cup {Command(m, <<"c1", "c2">>, <<"b1", "b2">>, g, FALSE) :
              m \in {"runtime", "max_phase_time", "graph_runtime", "memfree",
                     "graph_heatmap_top100"}, g \in {0, 1, 2}}
      \cup {[Command(m, <<"c1">>, <<"b1">>, 0, TRUE) EXCEPT !.node = n, !.site = s, !.paths = p,
                                                            !.title = t] :
              m \in {"memfree", "graph_online_site_aep_acc", "graph_hotset_diff_top100"},
              n \in {NoNode, 1}, s \in {0, 2}, p \in {1, 2}, t \in {0, 3}}

\* One iteration with any file, or two with a few, or none, or a missing file.
Directories(metric) ==
    LET files == IF metric \in {"?", None} THEN {<<>>} ELSE Files(metric)
        few == IF metric \in {"?", None} THEN files ELSE Few(files)
    IN  [{"i0"} -> files] \cup [{"i0", "i1"} -> few \cup {Missing}] \cup {<<>>}

MCTreesOf(c) ==
    IF Len(c.configs) = 1
    THEN {[b \in Range(c.benches) |-> [k \in {"c1"} |-> d]] :
            d \in {e \in Directories(c.metric) : c.single => "i0" \in DOMAIN e}}
    ELSE {[b \in Range(c.benches) |-> d] :
            d \in [{"c1"} -> [{"i0"} -> Few(Files(c.metric))]]
                    \cup [{"c1", "c2"} -> [{"i0", "i1"} -> Few(Files(c.metric))]]}

=============================================================================
