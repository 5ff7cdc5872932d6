-------------------------------- MODULE Stat --------------------------------
(****************************************************************************)
(* `stat` (all/c/stat.c, stat.h, graphs.h, graph_helper.h): one command line *)
(* is checked, the metric is read from every iteration of every              *)
(* configuration, in whatever order readdir gives the iterations, and a      *)
(* table of geometric means, or graphs, come out.                            *)
(*                                                                           *)
(* The geometric mean of a cell is represented by the bag of the values it   *)
(* is of.  What the program keeps from one iteration to the next although    *)
(* it should not is modelled: the profile that table_helper.h parsed first,  *)
(* and the title that the first graph has freed.                             *)
(****************************************************************************)
EXTENDS ProfileTables, Bags

CONSTANTS Commands,   \* the command lines, see TypeOK
          TreesOf(_), \* the results directories that a command line may find
          NoSite,     \* --site was not given
          Missing,    \* there is no such file
          None

\* An iteration's files are what its metric is read from, or missing; with --single
\* the path is that of an iteration.
FilesAre(c, directory) ==
    /\ \A k \in DOMAIN directory :
         /\ IsFiniteSet(DOMAIN directory[k])
         /\ \A i \in DOMAIN directory[k] :
              directory[k][i] = Missing \/ IsFileOf(c.metric, directory[k][i])
    /\ c.single => /\ c.configs # <<>> /\ c.configs[1] \in DOMAIN directory
                   /\ "i0" \in DOMAIN directory[c.configs[1]]

ASSUME StatAssumption ==
    /\ UnsignedRange \in Nat \ {0} /\ PageBytes \in Nat /\ TopSites \in Nat
    /\ NameLength \in Nat /\ DefaultTitle \in Nat
    /\ \A c \in Commands :
         /\ c.benches \in Seq(STRING) /\ c.configs \in Seq(STRING)
         /\ c.node \in Nat /\ (c.title = None \/ c.title \in Nat) /\ c.single \in BOOLEAN
         /\ \A t \in TreesOf(c) : FilesAre(c, t[c.path])

VARIABLES cmd,         \* the command line
          tree,        \* tree[bench][config][iteration]: the metric's file
          pc,
          bench, config,   \* the indices of the cell
          todo,        \* the iterations that readdir has yet to return
          geomean,     \* the values of the iterations so far
          results,     \* results[bench][config], once computed
          graph_title, \* "unset", "set" or "freed"
          app_prof,    \* the iteration whose profile table_helper.h has parsed
          graphs,      \* what has been drawn
          printed      \* whether the table has been printed

vars == <<cmd, tree, pc, bench, config, todo, geomean, results,
          graph_title, app_prof, graphs, printed>>

Metrics == GnuTimeMetrics \cup NumastatMetrics \cup SicmMetrics
             \cup MemreserveMetrics \cup BenchMetrics

MultiConfigGraphs == {"graph_runtime", "graph_first_phase_time", "graph_max_phase_time",
                      "graph_min_phase_time", "graph_last_phase_time"}

Init ==
    /\ cmd \in Commands
    /\ tree \in TreesOf(cmd)
    /\ pc = "options"
    /\ bench = 1 /\ config = 1
    /\ todo = {} /\ geomean = EmptyBag
    /\ results = [b \in 1..Len(cmd.benches) |-> <<>>]
    /\ graph_title = IF cmd.title = None THEN "unset" ELSE "set"
    /\ app_prof = None
    /\ graphs = <<>>
    /\ printed = FALSE

-----------------------------------------------------------------------------
(* main: the command line.                                                  *)

Exit == pc' = "exited"

\* Of a command line with a metric, a configuration and a benchmark, the names
\* of the groups must be as many as there are groups.
CheckedArgs ==
    /\ cmd.metric # None /\ cmd.configs # <<>> /\ cmd.benches # <<>>
    /\ cmd.groupsize # 0 /\ cmd.groups # 0 =>
         Len(cmd.configs) = cmd.groupsize * cmd.groups

ValidOptions ==
    /\ cmd.site = NoSite \/ cmd.site > 0
    /\ cmd.single \/ CheckedArgs
    /\ cmd.paths = 1

Options ==
    /\ pc = "options"
    /\ IF ValidOptions
       THEN pc' = IF cmd.single THEN "single" ELSE "opendir"
       ELSE Exit
    /\ UNCHANGED <<cmd, tree, bench, config, todo, geomean, results,
                   graph_title, app_prof, graphs, printed>>

-----------------------------------------------------------------------------
(* get_geomean_result, and the loop around it.                              *)

Directory == tree[cmd.path]
ConfigName == cmd.configs[config]

\* The path has the configuration but not the benchmark in it.
OpenDirectory ==
    /\ pc = "opendir"
    /\ IF ConfigName \in DOMAIN Directory
       THEN /\ pc' = "readdir"
            /\ todo' = DOMAIN Directory[ConfigName]
       ELSE /\ Exit
            /\ UNCHANGED todo
    /\ geomean' = EmptyBag
    /\ UNCHANGED <<cmd, tree, bench, config, results, graph_title, app_prof, graphs, printed>>

Readable(file) ==
    /\ cmd.metric \in Metrics
    /\ file # Missing
    /\ ~NeedsNode(cmd.metric, cmd.node)

AddToGeomean(i, value) ==
    /\ todo' = todo \ {i}
    /\ geomean' = geomean (+) SetToBag({value})

ReadIteration(i) ==
    /\ pc = "readdir" /\ i \in todo
    /\ cmd.metric \notin SicmGraphs
    /\ LET file == Directory[ConfigName][i]
       IN  IF Readable(file)
           THEN AddToGeomean(i, parse_metrics(cmd.metric, file, cmd.node)) /\ UNCHANGED pc
           ELSE Exit /\ UNCHANGED <<todo, geomean>>
    /\ UNCHANGED <<cmd, tree, bench, config, results, graph_title, app_prof, graphs, printed>>

NextCell ==
    CASE config < Len(cmd.configs) ->
           config' = config + 1 /\ UNCHANGED bench /\ pc' = "opendir"
      [] config = Len(cmd.configs) /\ bench < Len(cmd.benches) ->
           config' = 1 /\ bench' = bench + 1 /\ pc' = "opendir"
      [] OTHER -> UNCHANGED <<bench, config>> /\ pc' = "print"

CloseDirectory ==
    /\ pc = "readdir" /\ todo = {}
    /\ IF geomean = EmptyBag
       THEN Exit /\ UNCHANGED <<bench, config, results>>
       ELSE results' = [results EXCEPT ![bench] = Append(@, geomean)] /\ NextCell
    /\ UNCHANGED <<cmd, tree, todo, geomean, graph_title, app_prof, graphs, printed>>

-----------------------------------------------------------------------------
(* parse_metrics, for a metric that is a graph of the profile.              *)

Titled == cmd.metric \in HotsetDiffs \cup Heatmaps

TitleLength == IF cmd.title = None THEN DefaultTitle ELSE cmd.title

\* Mutant: no room for a NUL.
ArgsRoomWithoutNul ==
    CASE cmd.metric \in HotsetDiffs -> 2 * NameLength + TitleLength + 4
      [] cmd.metric \in Heatmaps    -> 2 * NameLength + TitleLength + 8 + 5
      [] OTHER                      -> 4 * NameLength + 3

\* The bytes that sicm_graphs.h allocates for the arguments, ...
ArgsRoom ==
    CASE cmd.metric \in HotsetDiffs -> 2 * NameLength + TitleLength + 5
      [] cmd.metric \in Heatmaps    -> 2 * NameLength + TitleLength + 8 + 6
      [] OTHER                      -> 4 * NameLength + 4

\* ... and what it writes: names between spaces, a quoted title, a NUL.
ArgsLength ==
    CASE cmd.metric \in HotsetDiffs -> NameLength + 1 + NameLength + 2 + TitleLength + 1 + 1
      [] cmd.metric \in Heatmaps    -> NameLength + 1 + NameLength + 2 + TitleLength + 10 + 1
      [] OTHER                      -> NameLength + 3 * (1 + NameLength) + 1

\* packing_init_wrapper: the profile is parsed only once.
packing_init_wrapper(source) == IF app_prof = None THEN source ELSE app_prof

Profile(source) == Directory[source.config][source.iter]

\* Without --site the variable is not initialised.
SiteArguments == IF cmd.site = NoSite THEN {0, 1} ELSE {cmd.site}

Draws(source, site) ==
    LET of == packing_init_wrapper(source)
        p == Profile(of)
    IN  /\ app_prof' = of
        /\ IF Drawable(cmd.metric, p, site)
           THEN /\ graphs' = Append(graphs, [for |-> source, of |-> of,
                                             title |-> graph_title,
                                             room |-> ArgsRoom, length |-> ArgsLength,
                                             tables |-> Tables(cmd.metric, p, site)])
                /\ graph_title' = IF Titled THEN "freed" ELSE graph_title
           ELSE UNCHANGED <<graphs, graph_title>>

\* The title is freed after the first graph and used and freed by the next.
UsesFreedTitle == Titled /\ graph_title = "freed"

\* popen, the output, pclose: a script that fails ends the program.
jgraph_wrapper(onward) == pc' \in {onward, "exited"}

DrawIteration(i) ==
    /\ pc = "readdir" /\ i \in todo
    /\ cmd.metric \in SicmGraphs
    /\ Directory[ConfigName][i] # Missing
    /\ \E site \in SiteArguments : Draws([config |-> ConfigName, iter |-> i], site)
    /\ IF graphs' = graphs
       THEN Exit /\ UNCHANGED <<todo, geomean>>
       ELSE /\ jgraph_wrapper("readdir") \/ (UsesFreedTitle /\ pc' = "crashed")
            /\ AddToGeomean(i, Garbage)
    /\ UNCHANGED <<cmd, tree, bench, config, results, printed>>

DrawMissing(i) ==
    /\ pc = "readdir" /\ i \in todo
    /\ cmd.metric \in SicmGraphs
    /\ Directory[ConfigName][i] = Missing
    /\ Exit
    /\ UNCHANGED <<cmd, tree, bench, config, todo, geomean, results,
                   graph_title, app_prof, graphs, printed>>

-----------------------------------------------------------------------------
(* --single: the path is that of one iteration.                             *)

SinglePath == [config |-> cmd.configs[1], iter |-> "i0"]

SingleMetric ==
    /\ pc = "single"
    /\ cmd.metric \notin SicmGraphs
    /\ IF Readable(Profile(SinglePath))
       THEN /\ geomean' = SetToBag({parse_metrics(cmd.metric, Profile(SinglePath), cmd.node)})
            /\ printed' = TRUE
            /\ pc' = "done"
       ELSE Exit /\ UNCHANGED <<geomean, printed>>
    /\ UNCHANGED <<cmd, tree, bench, config, todo, results, graph_title, app_prof, graphs>>

SingleGraph ==
    /\ pc = "single"
    /\ cmd.metric \in SicmGraphs
    /\ IF Profile(SinglePath) = Missing
       THEN Exit /\ UNCHANGED <<graph_title, app_prof, graphs>>
       ELSE /\ \E site \in SiteArguments : Draws(SinglePath, site)
            /\ IF graphs' = graphs THEN Exit ELSE jgraph_wrapper("done")
    /\ printed' = (pc' = "done")
    /\ UNCHANGED <<cmd, tree, bench, config, todo, geomean, results>>

-----------------------------------------------------------------------------
(* The table, and the graph over several configurations.                    *)

PrintTable ==
    /\ pc = "print"
    /\ printed' = TRUE
    /\ pc' = IF cmd.metric \in MultiConfigGraphs THEN "graph" ELSE "done"
    /\ UNCHANGED <<cmd, tree, bench, config, todo, geomean, results,
                   graph_title, app_prof, graphs>>

\* The length of the first name is added to str_size before it is set to 0.
MetricArgsRoom == cmd.groups * (NameLength + 1)
MetricArgsLength == NameLength + cmd.groups * (NameLength + 1) + 1

\* The configurations whose results are the points of a group's curve.
GroupConfigs(group) ==
    LET configs_per_group == Len(cmd.configs) \div cmd.groups
    IN  (group - 1) * configs_per_group + 1 .. group * configs_per_group

graph_metric_memreserve ==
    /\ pc = "graph"
    /\ \/ cmd.groups = 0 /\ Exit /\ UNCHANGED graphs
       \/ /\ cmd.groups # 0
          /\ graphs' = Append(graphs,
               [room |-> MetricArgsRoom, length |-> MetricArgsLength,
                curves |-> [g \in 1..cmd.groups |-> {results[1][c] : c \in GroupConfigs(g)}]])
          /\ \/ jgraph_wrapper("done")
             \/ MetricArgsLength > MetricArgsRoom /\ pc' = "crashed"
    /\ UNCHANGED <<cmd, tree, bench, config, todo, geomean, results,
                   graph_title, app_prof, printed>>

Finished == pc \in {"done", "exited", "crashed"} /\ UNCHANGED vars

Next ==
    \/ Options \/ OpenDirectory \/ CloseDirectory
    \/ \E i \in todo : ReadIteration(i) \/ DrawIteration(i) \/ DrawMissing(i)
    \/ SingleMetric \/ SingleGraph
    \/ PrintTable \/ graph_metric_memreserve
    \/ Finished

Spec == Init /\ [][Next]_vars

-----------------------------------------------------------------------------
(* Properties.                                                              *)

(* Every variable has its type; a cell exists only for a configuration of    *)
(* the command line, and the table is printed only when all cells do.       *)
TypeOK ==
    /\ pc \in {"options", "single", "opendir", "readdir", "print", "graph",
               "done", "exited", "crashed"}
    /\ graph_title \in {"unset", "set", "freed"}
    /\ bench \in 1..Len(cmd.benches) + 1 /\ config \in 1..Len(cmd.configs) + 1
    /\ app_prof = None \/ app_prof.config \in DOMAIN Directory
    /\ \A b \in DOMAIN results : Len(results[b]) <= Len(cmd.configs)
    /\ printed /\ ~cmd.single => \A b \in DOMAIN results : Len(results[b]) = Len(cmd.configs)

\* The phases that a file tells of, and how long they took.
PhasesIn(file) == {n \in DOMAIN file : file[n].is \in PhaseLines}
TimesIn(file) == {file[n].val : n \in PhasesIn(file)}
TotalTime(file) == SumFunctionOnSet([n \in PhasesIn(file) |-> file[n].val], PhasesIn(file))

\* What the lines of MemFree say of a node.
MemFreeOf(file, node) ==
    {file[n].vals[node + 1] : n \in {k \in DOMAIN file : file[k].is = "MemFree"}}

\* The lines of a file before GNU time's resident set size.
UpToRss(file) ==
    {n \in DOMAIN file : \A m \in 1..n - 1 : file[m].is # "Maximum_resident_set_size"}

\* Whether line n is inside a block of the memory that could not be had.
InBlock(file, n) ==
    \E m \in 1..n - 1 : /\ file[m].is = "BEGIN_GET_NUM_RESERVED_PAGES"
                        /\ \A k \in m..n : file[k].is # "END_GET_NUM_RESERVED_PAGES"

LastOf(file, lines, Value(_)) == IF lines = {} THEN 0 ELSE Value(file[Max(lines)])

Seconds(line) == IF line.is = "Elapsed_m:ss" THEN line.m * 60 + line.s
                                             ELSE line.h * 3600 + line.m * 60 + line.s

\* QMCPACK's counts, in a file with one line for each.
CountIn(file, k) == file[CHOOSE n \in DOMAIN file : file[n].is = k].val
OneOfEach(file) == \A k \in QmcpackLines : Cardinality({n \in DOMAIN file : file[n].is = k}) = 1

\* What a metric is to mean, without the order in which a parser computes it.
Means(metric, file, node, value) ==
    /\ metric \in {"runtime", "runtime_seconds", "graph_runtime"} =>
         value = Whole(LastOf(file, {n \in UpToRss(file) :
                                file[n].is \in {"Elapsed_m:ss", "Elapsed_h:mm:ss"}}, Seconds))
    /\ metric = "peak_rss_kbytes" =>
         value = Whole(LastOf(file, {n \in UpToRss(file) :
                                file[n].is = "Maximum_resident_set_size"}, LAMBDA l : l.val))
    /\ metric = "num_reserved_bytes" =>
         value = Whole(LastOf(file, {n \in DOMAIN file :
                                file[n].is = "Wrong_node" /\ InBlock(file, n)},
                              LAMBDA l : l.val * PageBytes))
    /\ metric = "avg_memfree" /\ value # Garbage =>
         value.num \in Min(MemFreeOf(file, node))..Max(MemFreeOf(file, node))
    /\ metric = "total_phase_time" => value = Whole(TotalTime(file))
    /\ metric \in BenchMetrics /\ PhasesIn(file) # {} =>
         /\ metric \in {"max_phase_time", "graph_max_phase_time"} =>
              value = Whole(Max(TimesIn(file)))
         /\ metric \in {"min_phase_time", "graph_min_phase_time"} =>
              value = Whole(Min(TimesIn(file)))
         /\ metric \in {"first_phase_time", "graph_first_phase_time"} =>
              value = Whole(file[Min(PhasesIn(file))].val)
         /\ metric \in {"last_phase_time", "graph_last_phase_time"} =>
              value = Whole(file[Max(PhasesIn(file))].val)
         /\ metric = "avg_phase_time" =>
              value.num * Cardinality(PhasesIn(file)) = TotalTime(file) * value.den
    /\ metric = "fom" /\ OneOfEach(file) =>
         value.num * CountIn(file, "QMC_Execution_time") = value.den *
           ((CountIn(file, "blocks") * CountIn(file, "steps") * CountIn(file, "walkers/mpi"))
              % UnsignedRange)

\* How many values a bag has.
ValuesIn(bag) == SumFunctionOnSet(bag, BagToSet(bag))

(* A printed cell is the geometric mean of exactly one value for each        *)
(* iteration of its configuration, in whatever order the iterations come,    *)
(* and each value is what the metric's name says of the iteration's file.    *)
CellsHoldTheMetric ==
    printed /\ ~cmd.single =>
      \A b \in DOMAIN results : \A c \in DOMAIN cmd.configs :
        LET dir == Directory[cmd.configs[c]]
            \* the values that could stand for an iteration
            For(i) == {v \in BagToSet(results[b][c]) : Means(cmd.metric, dir[i], cmd.node, v)}
        IN  /\ ValuesIn(results[b][c]) = Cardinality(DOMAIN dir)
            /\ \A i \in DOMAIN dir : For(i) # {}
            /\ \A v \in BagToSet(results[b][c]) : \E i \in DOMAIN dir : v \in For(i)

SameColumns(graph) ==
    LET t == graph.tables
    IN  IF Titled
        THEN t[1].header = t[2].header
        ELSE \A n \in DOMAIN t : Len(t[n].rows[1]) = Len(t[1].rows[1])

RowsFitHeader(table) ==
    table.header # <<>> => \A r \in DOMAIN table.rows : Len(table.rows[r]) = Len(table.header)

(* The scripts that draw a graph read its tables side by side, column by     *)
(* column: of a hotset difference, of a heat map sorted by weight that shows *)
(* all sites and of an online graph, all tables have the same columns,       *)
(* although each was made from a site tree of its own.                       *)
ColumnsLineUp ==
    cmd.metric \in SicmGraphs =>
      \A g \in DOMAIN graphs :
        /\ \A n \in DOMAIN graphs[g].tables : RowsFitHeader(graphs[g].tables[n])
        /\ \/ SameColumns(graphs[g])
           \/ cmd.metric \in {"graph_heatmap_weighted", "graph_heatmap_top100"}
           \/ /\ cmd.metric = "graph_heatmap_proposal"
              /\ Len(Profile(graphs[g].of).intervals[LastInterval(Profile(graphs[g].of))].arenas)
                   > TopSites

(* What sicm_graphs.h writes into the buffer for the arguments of a script   *)
(* fits it, whatever the title.                                             *)
ArgsFit ==
    cmd.metric \in SicmGraphs =>
      \A g \in DOMAIN graphs : graphs[g].length <= graphs[g].room

=============================================================================
