------------------------------- MODULE Parsers -------------------------------
(****************************************************************************)
(* The parsers with which `stat` reads the files of an iteration             *)
(* (all/c/parse_*.h).  A file is a sequence of lines; a line is a record     *)
(* whose field `is` names the pattern it matches ("other" for none of them), *)
(* the other fields being what sscanf takes from it.  A profile is parsed by *)
(* SICM and is a record (ProfileTables).                                     *)
(*                                                                           *)
(* Doubles are exact: the fraction [num, den], or the root [num, root] where *)
(* the code takes a geometric mean.                                          *)
(****************************************************************************)
EXTENDS Integers, Sequences, FiniteSets, SequencesExt

CONSTANTS UnsignedRange,   \* 2^32: what QMCPACK's counts are multiplied in
          PageBytes,       \* sysconf(_SC_PAGESIZE)
          NoNode           \* UINT_MAX: --node was not given

Frac(n, d) == [num |-> n, den |-> d]
Root(n, r) == [num |-> n, root |-> r]
Whole(n) == Frac(n, 1)

\* Memory that malloc returned and nothing has written.
Garbage == [num |-> -1, den |-> 0]

\* The integer division of C, which rounds towards zero.
CDiv(a, b) == IF a >= 0 THEN a \div b ELSE -((-a) \div b)

-----------------------------------------------------------------------------
(* The metrics, and the file of the iteration that each is read from.       *)

GnuTimeMetrics == {"peak_rss", "peak_rss_kbytes", "runtime_seconds", "runtime", "graph_runtime"}

NumastatMetrics == {"memfree", "avg_memfree", "geomean_memfree",
                    "memfree_noreserve", "memfree_before"}

SicmGraphs == {"graph_hotset_diff_weighted", "graph_heatmap_weighted",
               "graph_hotset_diff_top100", "graph_heatmap_top100", "graph_heatmap_proposal",
               "graph_online_bandwidth", "graph_online_dev_aep_acc",
               "graph_online_hot_aep_acc", "graph_online_offhot_aep_acc",
               "graph_online_site_aep_acc", "graph_online_aep_acc"}

OnlineMetrics == {"online_num_rebinds", "online_total_rebind_time",
                  "online_total_rebind_estimate"}

ProfMetrics == {"prof_num_intervals", "prof_total_interval_time", "prof_num_phases",
                "prof_avg_interval_time", "prof_last_phase_time", "prof_total_rss_time",
                "prof_geomean_hotset_peak_size", "prof_geomean_device_peak_size",
                "prof_geomean_hotset_current_size", "prof_geomean_device_current_size"}

SicmMetrics == SicmGraphs \cup OnlineMetrics \cup ProfMetrics

MemreserveMetrics == {"num_reserved_bytes"}

BenchMetrics == {"fom", "avg_phase_time", "first_phase_time", "last_phase_time",
                 "total_phase_time", "num_phases", "graph_last_phase_time",
                 "graph_first_phase_time", "max_phase_time", "min_phase_time",
                 "graph_min_phase_time", "graph_max_phase_time"}

is_numastat_metric(metric) ==
    CASE metric = "memfree_noreserve" -> "numastat_noreserve.txt"
      [] metric = "memfree_before"    -> "numastat_before.txt"
      [] OTHER                        -> "numastat.txt"

is_sicm_metric(metric) == IF metric \in OnlineMetrics THEN "online.txt" ELSE "profile.txt"

\* parse_metrics: the first parser that knows the metric names the file; for
\* a metric that no parser knows, stat exits.
FileOf(metric) ==
    CASE metric \in GnuTimeMetrics \cup BenchMetrics -> "stdout.txt"
      [] metric \in NumastatMetrics   -> is_numastat_metric(metric)
      [] metric \in SicmMetrics       -> is_sicm_metric(metric)
      [] metric \in MemreserveMetrics -> "memreserve.txt"

-----------------------------------------------------------------------------
(* What the parsers look for in the files, and what sscanf takes from it.   *)

Unmatched == [is : {"other"}]

GnuTimeLines ==
    [is : {"Elapsed_m:ss"}, m : Nat, s : Nat] \cup [is : {"Elapsed_h:mm:ss"}, h : Nat, m : Nat, s : Nat]
      \cup [is : {"Maximum_resident_set_size"}, val : Nat] \cup Unmatched

NumastatLines == [is : {"MemFree"}, vals : Seq(Nat)] \cup Unmatched

OnlineLines == [is : {"Full_rebind_estimate"}, estimate : Nat, real : Nat] \cup Unmatched

MemreserveLines ==
    [is : {"Wrong_node"}, val : Nat]
      \cup [is : {"BEGIN_GET_NUM_RESERVED_PAGES", "END_GET_NUM_RESERVED_PAGES"}] \cup Unmatched

QmcpackLines == {"blocks", "steps", "walkers/mpi", "QMC_Execution_time"}
PhaseLines == {"cycle_timer", "Timestep_time"}
BenchLines ==
    [is : QmcpackLines \cup PhaseLines
            \cup {"FOM", "Figure_of_Merit_(FOM_2)", "Grind_Time_(nanoseconds)"}, val : Nat]
      \cup Unmatched

Arenas == [site : Nat, hot : BOOLEAN, dev : Nat, dram : Nat, aep : Nat,
           peak : Nat \ {0}, current : Nat]

\* A profile has an interval, and an interval has an arena for each of its sites.
IsProfile(p) ==
    /\ p.intervals \in Seq([time : Nat, rss_time : Nat, skt : Seq(Nat), reconfigure : Nat,
                            phase_change : BOOLEAN, arenas : Seq(Arenas)]) \ {<<>>}
    /\ \A i \in DOMAIN p.intervals :
         LET arenas == p.intervals[i].arenas
         IN  \A m, n \in DOMAIN arenas : m # n => arenas[m].site # arenas[n].site

\* All printouts of numastat have the same number of nodes.
SameNodes(file) ==
    \A m, n \in DOMAIN file :
      file[m].is = "MemFree" /\ file[n].is = "MemFree" => Len(file[m].vals) = Len(file[n].vals)

\* What a file is that a metric can be read from.
IsFileOf(metric, file) ==
    /\ metric \in GnuTimeMetrics => file \in Seq(GnuTimeLines)
    /\ metric \in NumastatMetrics => file \in Seq(NumastatLines) /\ SameNodes(file)
    /\ metric \in OnlineMetrics => file \in Seq(OnlineLines)
    /\ metric \in ProfMetrics \cup SicmGraphs => IsProfile(file)
    /\ metric \in MemreserveMetrics => file \in Seq(MemreserveLines)
    /\ metric \in BenchMetrics => file \in Seq(BenchLines)

-----------------------------------------------------------------------------
(* parse_gnu_time.h                                                         *)

init_gnu_time_metrics == [peak_rss_kbytes |-> 0, runtime_seconds |-> 0, cleanup |-> FALSE]

\* The output of GNU time ends, for the parser, with the resident set size.
gnu_time_line(info, line) ==
    CASE info.cleanup -> info
      [] ~info.cleanup /\ line.is = "Maximum_resident_set_size" ->
           [info EXCEPT !.peak_rss_kbytes = line.val, !.cleanup = TRUE]
      [] ~info.cleanup /\ line.is = "Elapsed_h:mm:ss" ->
           [info EXCEPT !.runtime_seconds = line.h * 60 * 60 + line.m * 60 + line.s]
      [] ~info.cleanup /\ line.is = "Elapsed_m:ss" ->
           [info EXCEPT !.runtime_seconds = line.m * 60 + line.s]
      [] OTHER -> info

parse_gnu_time(lines) == FoldLeft(gnu_time_line, init_gnu_time_metrics, lines)

set_gnu_time_metric(metric, info) ==
    CASE metric = "peak_rss"        -> Frac(info.peak_rss_kbytes, 1024 * 1024)
      [] metric = "peak_rss_kbytes" -> Whole(info.peak_rss_kbytes)
      [] OTHER                      -> Whole(info.runtime_seconds)

-----------------------------------------------------------------------------
(* parse_numastat.h                                                         *)

\* One row per MemFree line, one column per node (and one for the total).
numastat_line(rows, line) == IF line.is = "MemFree" THEN Append(rows, line.vals) ELSE rows
memfree_vals(lines) == FoldLeft(numastat_line, <<>>, lines)

\* The number of columns is that of the last line.  Without a line it is not
\* initialised, and without a column the values read are not the file's.
num_mem_nodes(rows) == IF rows = <<>> THEN 0 ELSE Len(Last(rows))

memfree_avgs(rows, node) ==
    LET Interval(avg, n) == avg + CDiv(rows[n][node] - avg, n)
    IN  FoldLeft(Interval, 0, [n \in 1..Len(rows) |-> n])

memfree_geomeans(rows, node) ==
    Root(FoldLeft(LAMBDA product, row : product * row[node], 1, rows), Len(rows))

set_numastat_metric(metric, lines, node) ==
    LET rows == memfree_vals(lines)
    IN  CASE node >= num_mem_nodes(rows) -> Garbage
          [] node < num_mem_nodes(rows) /\ metric = "avg_memfree" ->
               Whole(memfree_avgs(rows, node + 1))
          [] OTHER -> memfree_geomeans(rows, node + 1)

-----------------------------------------------------------------------------
(* parse_bench.h                                                            *)

\* `min_phase_time` starts at DBL_MAX; here -1.
init_bench_metrics ==
    [fom |-> Whole(0), qmcpack |-> [k \in {} |-> 0], found_qmcpack |-> 0,
     first |-> 0, last |-> 0, max |-> 0, min |-> -1, total |-> 0, num_phases |-> 0]

\* Mutant: the first phase is the second.
PhaseCountedFirst(info, time) ==
    [info EXCEPT !.total = @ + time,
                 !.num_phases = @ + 1,
                 !.max = IF time > @ THEN time ELSE @,
                 !.min = IF @ = -1 \/ time < @ THEN time ELSE @,
                 !.first = IF info.num_phases = 1 THEN time ELSE @,
                 !.last = time]

\* A time step of LULESH or AMG.
Phase(info, time) ==
    [info EXCEPT !.total = @ + time,
                 !.num_phases = @ + 1,
                 !.max = IF time > @ THEN time ELSE @,
                 !.min = IF @ = -1 \/ time < @ THEN time ELSE @,
                 !.first = IF info.num_phases = 0 THEN time ELSE @,
                 !.last = time]

\* QMCPACK's figure of merit, once four of its lines have been found.  Values
\* that none of them gave are not initialised.
qmcpack_fom(qmcpack) ==
    IF DOMAIN qmcpack # QmcpackLines \/ qmcpack["QMC_Execution_time"] = 0
    THEN Garbage
    ELSE Frac((qmcpack["blocks"] * qmcpack["steps"] * qmcpack["walkers/mpi"]) % UnsignedRange,
              qmcpack["QMC_Execution_time"])

bench_line(info, line) ==
    CASE line.is \in QmcpackLines ->
           [info EXCEPT !.qmcpack = [k \in DOMAIN @ \cup {line.is} |->
                                       IF k = line.is THEN line.val ELSE @[k]],
                        !.found_qmcpack = @ + 1]
      [] line.is \in {"Figure_of_Merit_(FOM_2)", "FOM"} -> [info EXCEPT !.fom = Whole(line.val)]
      [] line.is = "Grind_Time_(nanoseconds)" -> [info EXCEPT !.fom = Frac(1, line.val)]
      [] line.is \in PhaseLines -> Phase(info, line.val)
      [] OTHER -> info

parse_bench(lines) ==
    LET info == FoldLeft(bench_line, init_bench_metrics, lines)
    IN  IF info.found_qmcpack = 4 THEN [info EXCEPT !.fom = qmcpack_fom(info.qmcpack)] ELSE info

\* num_phases is parsed but never stored in the metric.
set_bench_metric(metric, info) ==
    CASE metric = "fom" -> info.fom
      [] metric = "avg_phase_time" ->
           IF info.total = 0 THEN Whole(0) ELSE Frac(info.total, info.num_phases)
      [] metric = "total_phase_time" -> Whole(info.total)
      [] metric \in {"first_phase_time", "graph_first_phase_time"} -> Whole(info.first)
      [] metric \in {"last_phase_time", "graph_last_phase_time"} -> Whole(info.last)
      [] metric \in {"min_phase_time", "graph_min_phase_time"} -> Whole(info.min)
      [] metric \in {"max_phase_time", "graph_max_phase_time"} -> Whole(info.max)
      [] OTHER -> Garbage

-----------------------------------------------------------------------------
(* parse_memreserve.h                                                       *)

memreserve_line(info, line) ==
    CASE ~info.flag /\ line.is = "BEGIN_GET_NUM_RESERVED_PAGES" -> [info EXCEPT !.flag = TRUE]
      [] info.flag /\ line.is = "END_GET_NUM_RESERVED_PAGES" -> [info EXCEPT !.flag = FALSE]
      [] info.flag /\ line.is = "Wrong_node" -> [info EXCEPT !.bytes = line.val * PageBytes]
      [] OTHER -> info

parse_memreserve(lines) == FoldLeft(memreserve_line, [flag |-> FALSE, bytes |-> 0], lines)

set_memreserve_metric(info) == Whole(info.bytes)

-----------------------------------------------------------------------------
(* parse_sicm.h: the metrics of the online approach and of the profile.     *)

parse_online(lines) ==
    LET rebinds == SelectSeq(lines, LAMBDA line : line.is = "Full_rebind_estimate")
        Total(field) == FoldLeft(LAMBDA sum, line : sum + line[field], 0, rebinds)
    IN  [online_num_rebinds |-> Len(rebinds),
         online_total_rebind_time |-> Total("real"),
         online_total_rebind_estimate |-> Total("estimate")]

SumOver(seq, Of(_)) == FoldLeft(LAMBDA sum, x : sum + Of(x), 0, seq)

\* What the arenas of an interval that are In the set have of `field`.
SetSize(p, interval, In(_), field) ==
    IF p.has_profile_rss
    THEN SumOver(interval.arenas, LAMBDA a : IF In(a) THEN a[field] ELSE 0)
    ELSE 0

\* The geometric mean over the intervals.  Those in which the set is empty are
\* left out of the product but counted in the root.
SizeGeomean(p, In(_), field) ==
    LET Factor(product, interval) ==
          LET size == SetSize(p, interval, In, field)
          IN  IF p.has_profile_online /\ size # 0 THEN product * size ELSE product
    IN  Root(FoldLeft(Factor, 1, p.intervals), Len(p.intervals))

Hot(a) == a.hot
OnDevice(a) == a.dev = 1

\* prof_last_phase_time is stored in the metric but computed nowhere, the
\* number of intervals and their time are computed but not stored.
set_prof_metric(metric, p) ==
    CASE metric = "prof_avg_interval_time" ->
           Frac(SumOver(p.intervals, LAMBDA i : i.time), Len(p.intervals))
      [] metric = "prof_last_phase_time" -> Whole(0)
      [] metric = "prof_num_phases" ->
           Whole(1 + SumOver(p.intervals, LAMBDA i :
                       IF p.has_profile_online /\ i.phase_change THEN 1 ELSE 0))
      [] metric = "prof_total_rss_time" ->
           Whole(SumOver(p.intervals, LAMBDA i : IF p.has_profile_rss THEN i.rss_time ELSE 0))
      [] metric = "prof_geomean_hotset_peak_size" -> SizeGeomean(p, Hot, "peak")
      [] metric = "prof_geomean_device_peak_size" -> SizeGeomean(p, OnDevice, "peak")
      [] metric = "prof_geomean_hotset_current_size" -> SizeGeomean(p, Hot, "current")
      [] metric = "prof_geomean_device_current_size" -> SizeGeomean(p, OnDevice, "current")
      [] OTHER -> Garbage

set_sicm_metric(metric, file) ==
    CASE metric \in OnlineMetrics -> Whole(parse_online(file)[metric])
      [] metric \in ProfMetrics   -> set_prof_metric(metric, file)
      [] OTHER                    -> Garbage

-----------------------------------------------------------------------------
(* parse_metrics of stat.h, once it has opened the file.                    *)

\* A metric of numastat without --node: stat exits.
NeedsNode(metric, node) == metric \in NumastatMetrics /\ node = NoNode

parse_metrics(metric, file, node) ==
    CASE metric \in GnuTimeMetrics -> set_gnu_time_metric(metric, parse_gnu_time(file))
      [] metric \in NumastatMetrics -> set_numastat_metric(metric, file, node)
      [] metric \in SicmMetrics -> set_sicm_metric(metric, file)
      [] metric \in MemreserveMetrics -> set_memreserve_metric(parse_memreserve(file))
      [] metric \in BenchMetrics -> set_bench_metric(metric, parse_bench(file))

=============================================================================
