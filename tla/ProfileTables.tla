---------------------------- MODULE ProfileTables ----------------------------
(****************************************************************************)
(* The tables that `stat` writes for its graphs of a profile                 *)
(* (all/c/table_helper.h) and which of them each graph is called with        *)
(* (all/c/sicm_graphs.h).                                                    *)
(*                                                                           *)
(* A profile is what sh_parse_profiling returns: a record of flags and of a  *)
(* sequence of intervals, each with a sequence of arenas.  A table is a      *)
(* header (empty for the tables of the online graphs) and rows.              *)
(****************************************************************************)
EXTENDS Parsers

CONSTANTS TopSites,    \* 100: how many sites the "top100" graphs show
          NameLength,  \* strlen("/tmp/XXXXXX")
          DefaultTitle \* the length of the default titles

Intervals(p) == DOMAIN p.intervals
LastInterval(p) == Len(p.intervals)

-----------------------------------------------------------------------------
(* SICM's packing library, as the tables use it.                            *)

\* The accesses to a site in one interval, and up to, or in, interval i.
SiteAccesses(arenas, site) ==
    SumOver(arenas, LAMBDA a : IF a.site = site THEN a.dram + a.aep ELSE 0)

Accesses(p, i, site, value) ==
    LET of == IF value = "PROFILE_ALL_TOTAL" THEN 1..i ELSE {i}
        In(n) == SiteAccesses(p.intervals[n].arenas, site)
    IN  SumOver([n \in 1..i |-> IF n \in of THEN In(n) ELSE 0], LAMBDA x : x)

\* The sites of an interval, with what they are ordered by.
SitesAt(p, i, value) ==
    LET arenas == p.intervals[i].arenas
    IN  {[site |-> arenas[n].site, value |-> Accesses(p, i, arenas[n].site, value),
          weight |-> arenas[n].peak, dev |-> arenas[n].dev, hot |-> arenas[n].hot]
           : n \in DOMAIN arenas}

\* The order that the options given to sh_packing_init ask for.
Before(s, t, sort) ==
    LET key == IF sort = "WEIGHT" THEN s.weight - t.weight
                                  ELSE s.value * t.weight - t.value * s.weight
    IN  key > 0 \/ (key = 0 /\ s.site < t.site)

Rank(s, sites, sort) == Cardinality({t \in sites : Before(t, s, sort)})

InOrder(sites, sort) ==
    [n \in 1..Cardinality(sites) |-> CHOOSE s \in sites : Rank(s, sites, sort) = n - 1]

\* sh_convert_to_site_tree
site_tree(p, i, value, sort) == InOrder(SitesAt(p, i, value), sort)

SitesOf(tree) == {tree[n].site : n \in DOMAIN tree}

\* sh_get_hot_sites: the first sites that fit the upper tier.
hot_sites(tree, capacity) ==
    {tree[n].site : n \in {m \in DOMAIN tree :
        SumOver(SubSeq(tree, 1, m), LAMBDA s : s.weight) <= capacity}}

\* sh_get_top_sites
top_sites(tree) == SitesOf(SubSeq(tree, 1, IF Len(tree) < TopSites THEN Len(tree) ELSE TopSites))

-----------------------------------------------------------------------------
(* Tables with one number for each interval.                                *)

PerInterval(p, Of(_)) ==
    [header |-> <<>>, rows |-> << [i \in Intervals(p) |-> Of(p.intervals[i])] >>]

generate_bandwidth_table(p) == PerInterval(p, LAMBDA i : Whole(SumOver(i.skt, LAMBDA bw : bw)))
generate_reconfigure_table(p) == PerInterval(p, LAMBDA i : i.reconfigure)
generate_phase_change_table(p) == PerInterval(p, LAMBDA i : i.phase_change)
generate_interval_time_table(p) == PerInterval(p, LAMBDA i : Whole(i.time))

\* The percentage of accesses that go to the lower tier.
Percentage(arenas) ==
    LET acc == SumOver(arenas, LAMBDA a : a.dram + a.aep)
        bad == SumOver(arenas, LAMBDA a : a.aep)
    IN  IF bad # 0 /\ acc # 0 THEN Frac(bad * 100, acc) ELSE Whole(0)

AepTable(p, Counts(_)) == PerInterval(p, LAMBDA i : Percentage(SelectSeq(i.arenas, Counts)))

generate_aep_acc_table(p) == AepTable(p, LAMBDA a : TRUE)
generate_hot_aep_acc_table(p) == AepTable(p, Hot)
generate_dev_aep_acc_table(p) == AepTable(p, LAMBDA a : a.dev # 0)

generate_offhot_aep_acc_table(p) ==
    LET offline_sites == site_tree(p, LastInterval(p), "PROFILE_ALL_TOTAL", "VALUE_PER_WEIGHT")
        offline_hotset == hot_sites(offline_sites, p.upper_capacity)
    IN  AepTable(p, LAMBDA a : a.site \in offline_hotset)

\* The arena of the site is looked up in the last interval, and its number is
\* used in all of them.
arena_index(p, site) ==
    LET arenas == p.intervals[LastInterval(p)].arenas
    IN  SelectInSeq(arenas, LAMBDA a : a.site = site)

generate_site_aep_acc_table(p, site) ==
    LET n == arena_index(p, site)
    IN  PerInterval(p, LAMBDA i :
          IF Len(i.arenas) >= n THEN Percentage(<<i.arenas[n]>>) ELSE Whole(0))

-----------------------------------------------------------------------------
(* Tables with a column for each site.                                      *)

TopOf(p, value) == top_sites(site_tree(p, LastInterval(p), value, "VALUE_PER_WEIGHT"))

\* The sites of the last interval, in the order of its tree; only the top ones
\* where `top100` is set.
Shown(p, value, sort, top100) ==
    InOrder({s \in SitesAt(p, LastInterval(p), value) : top100 => s.site \in TopOf(p, value)}, sort)

Columns(p, value, sort, top100) ==
    LET shown == Shown(p, value, sort, top100) IN [n \in DOMAIN shown |-> shown[n].site]

\* Whether the site is in DRAM, in the online and in the offline hotset.
State(site, dramset, hotset, offline) ==
      (IF site \in dramset THEN 4 ELSE 0)
    + (IF site \in hotset THEN 2 ELSE 0)
    + (IF site \in offline THEN 1 ELSE 0)

generate_hotset_diff_table(p, top100, sort) ==
    LET by_value == site_tree(p, LastInterval(p), "PROFILE_ALL_TOTAL", "VALUE_PER_WEIGHT")
        offline_hotset == hot_sites(by_value, p.upper_capacity)
        top == top_sites(by_value)
        header == Columns(p, "PROFILE_ALL_TOTAL", sort, top100)
        Row(i) ==
          LET online == {s \in SitesAt(p, i, "PROFILE_ALL_TOTAL") : top100 => s.site \in top}
              dramset == {s.site : s \in {t \in online : OnDevice(t)}}
              hotset == {s.site : s \in {t \in online : Hot(t)}}
          IN  [n \in DOMAIN header |-> State(header[n], dramset, hotset, offline_hotset)]
    IN  [header |-> header, rows |-> [i \in Intervals(p) |-> Row(i)]]

\* Mutant: the value of the heat map.
WeightRatioOfCurrent(p, top100, sort) ==
    LET shown == Shown(p, "PROFILE_ALL_CURRENT", sort, top100)
        total == SumOver(shown, LAMBDA s : s.weight)
    IN  [header |-> [n \in DOMAIN shown |-> shown[n].site],
         rows |-> << [n \in DOMAIN shown |-> Frac(shown[n].weight * 100, total)] >>]

generate_weight_ratio_table(p, top100, sort) ==
    LET shown == Shown(p, "PROFILE_ALL_TOTAL", sort, top100)
        total == SumOver(shown, LAMBDA s : s.weight)
    IN  [header |-> [n \in DOMAIN shown |-> shown[n].site],
         rows |-> << [n \in DOMAIN shown |-> Frac(shown[n].weight * 100, total)] >>]

generate_heatmap_table(p, top100, sort) ==
    LET header == Columns(p, "PROFILE_ALL_CURRENT", sort, top100)
        Heat(i, site) ==
          LET found == SelectSeq(site_tree(p, i, "PROFILE_ALL_CURRENT", sort),
                                 LAMBDA s : s.site = site)
          IN  IF found = <<>> THEN Whole(0) ELSE Frac(found[1].value, found[1].weight)
    IN  [header |-> header,
         rows |-> [i \in Intervals(p) |-> [n \in DOMAIN header |-> Heat(i, header[n])]]]

-----------------------------------------------------------------------------
(* The graphs of sicm_graphs.h: the profile each needs, its tables in the    *)
(* order they are passed to the script, and its string of arguments.        *)

OnlineTables(p) ==
    <<generate_reconfigure_table(p), generate_phase_change_table(p),
      generate_interval_time_table(p)>>

graph_online_bandwidth(p) == <<generate_bandwidth_table(p)>> \o OnlineTables(p)
graph_online_hot_aep_acc(p) == <<generate_hot_aep_acc_table(p)>> \o OnlineTables(p)
graph_online_aep_acc(p) == <<generate_aep_acc_table(p)>> \o OnlineTables(p)
graph_online_offhot_aep_acc(p) == <<generate_offhot_aep_acc_table(p)>> \o OnlineTables(p)
graph_online_dev_aep_acc(p) == <<generate_dev_aep_acc_table(p)>> \o OnlineTables(p)
graph_online_site_aep_acc(p, site) == <<generate_site_aep_acc_table(p, site)>> \o OnlineTables(p)

graph_hotset_diff(p, top100) ==
    <<generate_hotset_diff_table(p, top100, "VALUE_PER_WEIGHT"),
      generate_weight_ratio_table(p, top100, "VALUE_PER_WEIGHT")>>

graph_heatmap(p, top100, sort) ==
    <<generate_heatmap_table(p, top100, sort), generate_weight_ratio_table(p, top100, sort)>>

HotsetDiffs == {"graph_hotset_diff_weighted", "graph_hotset_diff_top100"}
Heatmaps == {"graph_heatmap_weighted", "graph_heatmap_top100", "graph_heatmap_proposal"}

\* Without what it needs of the profile a graph ends the program.
Drawable(metric, p, site) ==
    CASE metric \in HotsetDiffs \cup Heatmaps -> TRUE
      [] metric = "graph_online_bandwidth" -> p.has_profile_bw /\ p.has_profile_online
      [] OTHER -> /\ p.has_profile_all /\ p.has_profile_online
                  /\ p.num_profile_all_events >= 2
                  /\ metric = "graph_online_site_aep_acc" => arena_index(p, site) # 0

\* parse_sicm: the graph that a metric names.
Tables(metric, p, site) ==
    CASE metric = "graph_hotset_diff_weighted" -> graph_hotset_diff(p, FALSE)
      [] metric = "graph_hotset_diff_top100" -> graph_hotset_diff(p, TRUE)
      [] metric = "graph_heatmap_weighted" -> graph_heatmap(p, FALSE, "VALUE_PER_WEIGHT")
      [] metric = "graph_heatmap_top100" -> graph_heatmap(p, TRUE, "VALUE_PER_WEIGHT")
      [] metric = "graph_heatmap_proposal" -> graph_heatmap(p, TRUE, "WEIGHT")
      [] metric = "graph_online_bandwidth" -> graph_online_bandwidth(p)
      [] metric = "graph_online_hot_aep_acc" -> graph_online_hot_aep_acc(p)
      [] metric = "graph_online_aep_acc" -> graph_online_aep_acc(p)
      [] metric = "graph_online_offhot_aep_acc" -> graph_online_offhot_aep_acc(p)
      [] metric = "graph_online_dev_aep_acc" -> graph_online_dev_aep_acc(p)
      [] metric = "graph_online_site_aep_acc" -> graph_online_site_aep_acc(p, site)

=============================================================================
