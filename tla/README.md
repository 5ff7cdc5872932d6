# A TLA+ model of the SICM scripts

`sicm_scripts` runs benchmarks under the SICM memory allocator on machines
with two tiers of memory, profiles them, and turns the profiles into guidance
for later runs, into tables and into graphs. It carries two tools that its
scripts call: Intel PCM, which measures memory bandwidth, and jgraph, which
plots. This directory holds TLA+ modules of their logic, TLC configurations that
check them on small instances, and TLAPS proofs.

Paths below are relative to `src/`, the root of the repository.

## 1. Inventory

### Components

| component | state | operations | hard parts |
|---|---|---|---|
| run loop: `run.sh`, `all/args.sh` | shell variables, working directory, `run/run.sh` of each benchmark, `RESULTS_DIR` | for each benchmark and configuration: name the experiment, clear and make its directory, go to the benchmark, load its commands, write `run.sh`, call the configuration | no step's result is looked at; variables and directory live on; arguments are split unquoted |
| configurations: `all/cfgs/*.sh` | the iteration, exported SICM settings, process ids | per iteration: start helpers, run the benchmark, kill helpers, copy output | helpers run beside the script; Ctrl-C; faults of a helper are not noticed |
| helpers: `all/tools.sh` | `numastat` loop, `pcm-memory.x` under `sudo`, `memreserve`, `bpftrace` | start in the background, kill by id and by name, wait | processes that are not up yet when they are killed; kills by name hit others; a wait for the wrong thing |
| memreserve: `all/c/memreserve.c` | a buffer, one thread per processor, the free memory of a NUMA node | probe the unallocatable memory of the node, free the probe, reserve all but what is to be left, pause | threads without synchronisation but their joins; memory that others take and release meanwhile; unsigned arithmetic |
| guidance: `all/python/guide.py`, `lib/postprocess.py` | the site map, the chosen sites, the guidance file | knapsack, hot set, round robin; report; write | rounding, boundaries, divisions by zero |
| site map cache: `lib/postprocess.py`, `guide.py`, `site_stats.py`, `page_map.py` | five pickle files beside the profile | load or rebuild, `--clean`, page map sizes | files written in place; processes beside each other and beside a new run; kills |
| parsers: `all/c/parse_*.h` | globals of a parse: values so far, flags | make metrics of the lines of GNU time, numastat, the benchmarks, memreserve and the online profiler | metrics that no assignment reaches, divisions of small counts, products that wrap |
| `stat`: `all/c/stat.c`, `table_helper.h`, `sicm_graphs.h`, `graphs.h` | options, results by benchmark and configuration, the profile parsed first, temporary tables | check the options; for each cell read every iteration; geometric means; table or graphs | files missing or cut short; sites that differ between intervals; buffers counted by hand |
| jgraph: `tools/jgraph` | the reader's stack of files with one word and one character pushed back; pages of graphs; the writer's stack of fonts | read and edit a description, work the defaults and the places out, draw PostScript or print the description again | pushback across ends of files; defaults that depend on each other; lines cut into pieces; floats with no room for one more |
| PCM, processes: `tools/pcm/cpucounters.cpp`, `utils.cpp` | the kernel's NMI watchdog, a named lock, a count of instances, the counters of cores and uncore | constructor, `program()`, measuring, cleanup at exit and in signal handlers | processes beside each other; signals and kills at any step; state that outlives its process |
| PCM, daemon: `tools/pcm/daemon` | a shared memory segment, the file with its id | update the segment in place at each poll; a client finds it, waits, reads | no lock between writer and reader; two daemons and one file; kills |
| PCM, counter extension: `width_extender.h` | counter and last reading under a mutex, the pair of registers of a core | read; a watchdog thread reads before a wrap | three threads, two locks, registers that select what is read |
| PCM, readings and reports: `pcm.cpp`, `pcm-memory.cpp`, `cpucounters.*` | programmed events, readings of workers and main thread, tables and CSV | program, freeze, read, unfreeze, subtract, print | threads that freeze each other's counters; header and rows written by different code; models and options |
| distributions: `compute_map_stats`, `compute_ratio_stats` | the site map | percentiles of accesses over pages and lines | loops over floats |
| Perl: `all/perl`; Python reports: `lib/report.py`, `lib/results.py`; `report.sh`, `all/bash` | hashes and tables | convert profiles, aggregate, lay out, call gnuplot | – |
| benchmarks: `benchmarks/*` | commands for each size | set `${SIZE}_COMMANDS`, prepare a run | – |
| build: `build_*.sh`, `all/bench_build.sh` | – | call compilers | – |
| other PCM tools; `tools/online_aggregator` | – | not called by the scripts; a filter over one log | – |

### How they interact

`run.sh` calls a configuration, a shell function, in a subshell. The
configuration calls the helpers of `tools.sh` and executes `run/run.sh`, which
`run.sh` has just written. `memreserve` and `pcm-memory.x` are started by
`tools.sh` and killed by it; nothing tells the script whether they do their work.
All PCM processes of a machine meet in the kernel's watchdog, the named
semaphores and the counters. The profiler inside the benchmark writes
`sites.txt` and `pagemap.txt` into the results directory; the Python commands,
started by hand at any time, read them and keep pickles next to them; `run.sh`
removes all of it when the experiment is run again. `guide.py` writes a guidance
file that guided configurations read. `stat` reads the outputs of the
iterations, with its parsers, and hands tables to the scripts of `all/bash`,
which pipe descriptions into jgraph.

### What must be right

- *memreserve.* The threads share no byte and leave no page out; arguments
  outlive their threads; the call returns only when the pages are backed. The
  program leaves on the node what it was asked to leave.
- *Experiments.* While the benchmark runs, its helpers run, and the reservation
  is held; between iterations nothing of an iteration is left; no wait blocks.
- *Run loop.* A benchmark runs its own commands, results are filed under the
  name of what was run, and no result is lost to another experiment.
- *Guidance.* The chosen sites are the best by the algorithm's own measure and
  exceed the tier by no more than is inherent; every site gets a tier.
- *Cache.* What is loaded belongs to the present run; a torn file is always
  recoverable.
- *stat.* A cell is the metric of its own iterations; the tables of one graph
  have the same columns; what is written into a counted buffer fits.
- *PCM.* The machine is left as it was found; no process takes another's
  counters away; a number printed is the traffic of what it is printed under,
  between the two readings; what a client prints is one update.
- *jgraph.* The words read are those written; the box announced holds what is
  drawn; labels are in their own fonts and lines are whole.

`PROJECT.json` lists the main hazards line by line, with the properties that would
catch each going wrong. Others are in the models and no property speaks of them:
`graph_title` freed and used again (`sicm_graphs.h:31`), the interval of the hash
marks that never ends (`process.c:363`), the value that `-p` prints twice
(`show.c:199`), the count of instances that outlives a SIGKILL
(`cpucounters.cpp:3249`), `cleanup` taking the uncore from instances that still
measure (3123), the links' total stored under another socket's number
(`daemon.cpp:683`).

## 2. Modules

| module | models |
|---|---|
| `BackPages` | abstract: what the callers of `parallel_memset` count on |
| `ParallelMemset`, `MemreserveProofs`, `MCMemreserve` | `memreserve.c:16-87`; implements `BackPages` |
| `NodeReserve`, `MemreserveProofs`, `MCMemreserve` | `memreserve.c:96-265`, and the node's other users |
| `Experiment`, `ExperimentProofs`, `MCExperiment`, `MCRunSh` | `tools.sh:15-72`, the iterations of `cfgs/{firsttouch,online,offline}.sh` |
| `RunLoop`, `ExperimentProofs`, `MCRunLoop`, `MCRunSh` | `run.sh:147-243`, `args.sh:120-159` |
| `Guidance`, `GuidanceProofs`, `MCGuidance` | `guide.py`, `postprocess.py:418-641` |
| `DataInduction` | nothing of the code: lemmas by which the proofs reason about recursive functions, folds and sums |
| `SiteMapCache`, `SiteMapCacheProofs`, `MCSiteMapCache` | `postprocess.py:262-416`, the three commands |
| `Parsers` | `all/c/parse_*.h` |
| `ProfileTables` | `all/c/table_helper.h`, `sicm_graphs.h` |
| `Stat`, `StatProofs`, `MCStat` | `all/c/stat.c`, `stat.h`, `graphs.h`, `graph_helper.h`, over the two above |
| `JgraphTokens` | `token.c`, `list.c`: the reader |
| `JgraphObjects` | `jgraph.h`, `jgraph.c`, `prio_list.c`: what is edited |
| `JgraphEdit` | `edit.c`: every attribute of every object |
| `JgraphProcess` | `process.c`: defaults, scaling, layout, bounding box |
| `JgraphDraw` | `draw.c`, `printline.c`: PostScript |
| `JgraphShow` | `show.c`: the description printed again |
| `Jgraph`, `MCJgraph` | the program, `main` and the recursion of `edit.c`, over the six above |
| `Pcm`, `PcmProofs`, `MCPcm` | PCM's processes on one machine |
| `PcmDaemon`, `PcmDaemonProofs`, `MCPcmDaemon` | `daemon/daemon`, `daemon/client` |
| `WidthExtender`, `PcmProofs` | `width_extender.h`, `SafeMsrHandle`'s lock, the bandwidth counters |
| `PcmMachine` | what a model and its stepping can measure |
| `PcmEvents` | core events and the metrics made of them |
| `PcmColumns` | `pcm.cpp`'s header and rows, tables and CSV |
| `PcmMemory` | memory controllers' events, `pcm-memory.cpp`'s computation and printing |
| `PcmReport`, `MCPcmReport` | a run of `pcm.x` or `pcm-memory.x` over the four above |

Compositions: `MCMemreserve` puts memreserve's two fills behind one another.
`Stat`, `Jgraph` and `PcmReport` are built in layers, each layer a module of
operators for one source file, the top module the state machine. Three MC modules
hold two levels of one program, of which a behaviour follows one while the other
stands still: `MCMemreserve` the fills and the pages, `MCRunSh` the loop of
`run.sh` and the experiments that its configurations are, `MCPcmReport` the
counters' threads and the reports.

An operator marked `Mutant` is not part of a model: it is the definition below
it with a plausible bug, kept to show that a property notices the bug.

### `ParallelMemset`

One process per thread and one for the caller. `CreateThread` is one turn of the
create loop (61-74); `JoinThread` one turn of the join loop (77-80) with its
`free`; `StartFilling`, `WriteByte`, `StopFilling` are `fill_pages` (18-28),
a byte at a time. Addresses are offsets from `data`; `Slack` is what happens to
be mapped behind the buffer; beyond it a write is a fault and ends the process.
`pthread_create` may fail, in which case the join reads an uninitialised handle:
it may return or crash. `malloc` is taken to succeed. The caller's variable
`data_ptr` and its last slice follow from `ptr`.

### `NodeReserve`

A node of `NodePages` pages, counted, not named. `free` is what
`numa_node_size64` reports, of which `Unallocatable` pages can never be had. A
fill takes pages of the node while there are any (`BackOnNode`) and then of
other nodes (`BackElsewhere`): `mbind` is called with `MPOL_PREFERRED`.
`move_pages` tells where the pages are (`CountPages`). Sizes are computed
modulo `AddressPages`, the pages in 2^64 bytes; a size beyond the node is one
that wrapped, and `valloc` refuses it. With fewer pages than processors the
fill crashes, which is what `ParallelMemset` shows of it. A thread that could not
be created leaves its pages unbacked (`LosePage`; `ParallelMemset` loses whole
slices, here any pages may be lost), which makes the join that reads its handle a
possible crash (`FillCrashes`), and `move_pages` gives such a page a negative
status, not another node. `lost` counts them in the current fill, `unprobed` those
of the probe. `OthersTake` and
`OthersRelease` are everything else on the machine; `churn` counts their pages
and is bounded by `MaxChurn` for the runs.

### `Experiment`

The script of a configuration is a sequence of steps; a helper is a member of a
set. `sudo` forks, its child execs, and only then has the child the name that
`pkill` looks for; `bpftrace` is deaf to SIGINT until it has installed its
handler, because a shell without job control starts background commands with
SIGINT ignored. One probe stands for the eight of `control`. `sleep 60` is
longer than memreserve takes, unless the fault `"slow"` is on. The faults that
may happen are part of a scenario: `"usage"` (an empty `NUM_PAGES`), `"slow"`,
`"dies"`, `"interrupt"`. `spoilt`, `hurried` and `interrupted` are history, used
in properties only.

### `RunLoop`

Three steps per experiment: clear, write, execute. `commands` is the benchmark
whose commands the array `${SIZE}_COMMANDS` holds at present, `runsh` what each
benchmark's `run/run.sh` holds, `cwd` where the shell is. A benchmark in
`Missing` has no directory (every `cd` fails and is passed over), one in
`Unsized` no array for the size. `results` records for each execution what ran
and where its output went.

### `Guidance`

One behaviour per profile and call: choose, report, write. The knapsack's table
is built row by row as in the code, its last column being one short of the
capacity, and traced back from the last row. Floats are exact rationals scaled
to integers: `target` is in hundredths, `Density` makes accesses per byte whole,
`Increments` is `10^sigfigs`. Rounding down by `int()` is modelled; binary
rounding errors are not.

### `SiteMapCache`

The five pickles in the order of `build_site_map`. A file is there or not, whole
or torn, and holds the data of a pair of runs: that of `sites.txt` and that of
`pagemap.txt` when they were parsed. Opening truncates; because `pklf` is
rebound, a file is closed only after the next is open, and the last when the
function returns. Two writers of one file leave one's data, the other's, or a
mixture that does not load. A killed process leaves what it had open torn.
`Rerun` is `rm -rf` by `run.sh`, `MakeDirectory` the `mkdir`, `Profile` the
profiler. `get_proc_rss`, which only reads `stdout.txt`, is left out.
A process that finds the directory gone while it parses or opens dies.

### `Parsers`, `ProfileTables`, `Stat`

A file is a sequence of lines, a line the pattern of `sscanf` it matches and what
the pattern takes from it; each parser is the fold of an operator that says what one
line does (`memreserve_line`, `gnu_time_line`, `numastat_line`, `bench_line`), and
`IsFileOf` says which lines a metric's file may have. Doubles are fractions; a
geometric mean is the bag of the values it is of. The sites of a profile are a set,
shown in the order of `Before`, which compares ratios by their cross products. C's integer division and `unsigned` products are modelled
(`CDiv`, `UnsignedRange`), as is what `malloc`'s memory holds before it is
written (`Garbage`). `Stat` goes through the cells in the order of the code and
takes the iterations in whatever order `readdir` may return them; `app_prof` is
the profile that `table_helper.h` keeps from the first call on, `graph_title` the
title that the first graph has freed. `ProfileTables` builds every table row by
row and names the tables a graph is called with; SICM's packing library, which
sorts the sites, is external.

### `JgraphTokens` … `Jgraph`

The unit is the word: a name, a number, a blank; a text has a length and a number
of lines. The reader's stack, its character and its token of pushback, nested
comments, `include` and `shell` are those of `token.c`. `edit.c`'s functions call
each other; `at` is the stack of the objects in hand, so that one action reads one
attribute, puts a word back that the object does not know and goes on with the
object around it. `JgraphProcess` follows `process.c` in its order, in hundredths of
a unit; `Precise` is the value from which a float has no room for one more
(2^24), where the loops over hash marks would not end. `JgraphDraw` makes a
sequence of marks with their boxes; `LineChunk` and `BezierChunk` are the points
after which a path is stroked and begun again. With `-p` the output may be read by
a second jgraph. An eps mark ends the program when its file or its bounding box is
missing (`BadEps`). `x` of the writer is `draw_legend`'s variable, which an entry
without a line leaves as the entry before it did, or uninitialised: the arrows of
such an entry start there. The turn of a whole legend by its defaults' `rotate` is
left out, and `Covered` leaves such legends out of the bounding box.

### `Pcm`

A process goes through `PCM::PCM` (watchdog, uncore objects, RMIDs), its
arguments, `program()` under `InstanceLock`, its measurement, and the exit
handler's `cleanup()`. With `-m` the lock is a named semaphore and the count of
instances another; without it a mutex of the process. `counters` says per core who
programmed it directly, `groups` who has perf events open. `SignalUnderLock` is a
signal whose handler waits for a lock of its own thread, `SignalElsewhere` one
that leads to cleanup, `Kill` SIGKILL or a second signal during the cleanup,
`ExecFails` the child of a fork that runs the parent's exit handler. An instance
that `program()` refuses is counted and discounted there (2030, 2054-2066) and
discounted again by its own cleanup (3120): if others are counted the second time
is at their expense, and the next of them to leave takes itself for the last and
zeroes counters in use. The model counts as the code does. `disturbed` and
`discounted` are history; a fleet is a set of processes with their tools, and
`MaxFaults` bounds the faults by the size of the fleet.

### `PcmDaemon`

A counter state is the number of the reading it was taken at, a published value
the pair of readings it is the difference of: what matters is which readings the
code subtracts, divides by and shifts, not what they count. The segment is
written table by table in the order of `getPCMCounters`, the client reads table
by table, and no lock orders them. Two daemons share the id file and the PMU.

### `WidthExtender`

The hardware counts; `raw` is what a counter of width `W` shows. A thread takes
the extender's mutex, then the register pair's, selects, reads, releases and
extends. `Counts` stays `W - 1` behind a wrap of an unread counter: that is what
the watchdog's delay promises, and the only assumption about time.

### `PcmMachine` … `PcmReport`

A machine is a record: model, stepping, cores by socket, cores offline, links,
channels, and what CPUID tells. Traffic is a sequence of events (a load of a core
with the level that served it, an access of a channel with its rank, flits of a
link), each counted by whatever is not frozen when it comes. A programmed event is
the set of events it counts. Workers read cores, one worker per socket reads its
memory after `freezeCounters`, the main thread the links with its own freezing, in
steps that interleave with the traffic. What is printed is a row of cells
`<<scope, label, value>>`; the header is computed by the code that writes headers.
`MaxChannels` is 8 in the code and 3 here.

## 3. Runs

Every run is of the unchanged modules under the constants of its configuration.
The next-state relations of the runs between them take every action of every
module.

| run | bounds | shows |
|---|---|---|
| `memreserve` | fills: 3 threads, 5 pages of 3 bytes, any creation may fail; then 2 pages. Pages: 8, 2 unallocatable, 2 processors, churn up to 3, 64 pages to an address space, any page lost with its thread | disjoint slices, live arguments, the refinement of `BackPages`; a reservation with fewer pages than processors always ends in a crash; memreserve's result is off by no more than the churn and the losses; it always settles |
| `run_sh` | experiments: `online_memreserve` beside `control`, memreserve may be late; `online_memreserve` beside `firsttouch_memreserve`; 3 configurations with 2 iterations and a memreserve that exits at once, is late or gives up; the same 3 with Ctrl-C at any step and a second launch. Loop: 2–3 benchmarks (one list with a repeated one), 2–3 configurations, 7 argument lists, 1 benchmark missing, 1 unsized | the reservation around the benchmark, nothing left but what was killed before it was up, the end is reached; own commands, own directory, nothing lost |
| `experiment_unreserved` | fault `"usage"` | *violation*: the benchmark runs on an unreserved node |
| `guidance` | all profiles of up to 2 sites (zeros included), all of 3 used sites, some of 4; 10 increments | the choices against their definitions over all subsets |
| `site_map_cache` | `site_stats.py --clean`, `page_map.py`, 2 runs, kills | cache of the run, torn files only by kills, repair by `--clean` |
| `stat` | every metric, 0–2 iterations with missing files, 2 benchmarks × 2 configurations for some; files of up to 4 lines; profiles of 2 intervals and 3 sites; `UnsignedRange` 16, `TopSites` 2 | cells, columns, the buffer of the arguments |
| `jgraph` | 4 axis × 4 curve × 4 legend × 3 ending parts, 6 descriptions with the attributes these leave out, 3 whose include or shell statement ends its file without a newline, 25 that jgraph refuses or cannot finish, `-p`, `-P`, `-L`; chunks of 2 | words, axes, box, fonts, lines |
| `jgraph_include` | the 3 of `Unended` | *violation*: an included file is not read |
| `jgraph_hash_label` | as `jgraph` | *violation*: a hash label stands at the first hash mark, not at the latest |
| `pcm_daemon` | 2 daemons, 1 client, sockets 0 and 2 online, 3 command lines, 2 polls | one update in a picture, successive windows, the file, the client hears |
| `pcm` | 8 fleets of 2 processes with 1 fault, 2 fleets of 3 without; 2 cores | the watchdog, the counters, the machine, everybody leaves |
| `pcm_report` | 2 bandwidth counters, a worker and 2 watchdog threads, `W` 3, 4 counts; 22 command lines on 8 kinds of machines, up to 3 accesses | extended counters, cells, headers |

Why the bounds are enough. Three threads and five pages are the smallest
instance with threads of both kinds of slice, the extra page starting in the
middle; three bytes a page distinguish a page's first, last and inner byte. Two
iterations show what one leaves for the next; two launches the same for Ctrl-C;
a third repeats the second, the steps depending only on the present job and on
what is left behind. `control` is left out of the interrupted runs for the number
of its states; two experiments that both reserve take each other's
reservation, because memreserve is killed by name: they are there for the helpers
that each leaves (`CleansUp`), and the reservation is promised to one that is alone
(`Sole`). Three configurations
contain a repeated one with another between; three benchmarks a broken one
between sound ones. Three sites are needed for a knapsack that is not greedy,
four for a second round of two tiers. Two runs are one change of the cached data;
of two processes that a new run finds active, the second does nothing that the
first does not (`AcrossRuns`).

Two intervals show a site that comes, one that goes and one that changes place;
with `TopSites` 2 three sites are one too many, with `UnsignedRange` 16
QMCPACK's product wraps. Chunks of two points cut every line that has three. The
parts of a description are chosen for what they change in the layout of each other,
and all combinations are taken; the attributes of `edit.c` that they leave out are
in the whole descriptions (`Others`), so that each occurs in some run to the end.
Two daemons are one and the other that takes its file;
two polls the first update, whose uncore state was never read, and one like all
further ones; sockets 0 and 2 a table whose rows are not numbered like the
sockets. Three processes are the first, one between and the last to leave; for two, one
fault at any step reaches every state that a fault leaves behind. The theorems of
`PcmProofs` are about any number of processes and faults. `W` is 3 so that four counts wrap.
The machines are one for each branch that the code takes by model: with PCI and
MSR uncore, with links and without, with ranks, persistent memory, MCDRAM, two
or four counters, or unsupported; the traffic is one access of each kind that the
command line can tell apart, coming at every moment of two readings.

Where deadlock is not checked the system may stop: the commands and the last run
of `site_map_cache` come to an end, `jgraph` exits, the daemons of `pcm_daemon`
have their last poll or are killed and a client may wait for ever, and all
processes of `pcm` leave or are stuck or killed. The other modules say where they
may stop with a stuttering step of their own (`Terminated`, `Quiet`, `Finished`,
`Done`).

### Fairness

- `ParallelMemset`: weak fairness of the caller and of every thread: the kernel
  schedules whatever can run, and nothing there blocks but the join.
- `NodeReserve`: weak fairness of memreserve, which has no blocking call before
  its pause. None for other processes, for the kill and for a failing `pthread_create`.
- `Experiment`: weak fairness of each script and of each helper's own progress:
  a `numastat` ends, `sudo` forks and ends after its child, memreserve settles
  (`NodeReserve!Settles`), `bpftrace` comes up, and the benchmark ends. None for
  Ctrl-C or for the loop's next sample.
- `Pcm`: weak fairness of each process's own steps, a measurement being as long
  as its command. The lock is a semaphore, and with three processes that each take
  it twice nobody is passed over for ever. None for signals, kills and failures.
- `PcmDaemon`: weak fairness of each daemon and each client; the sleeps of both
  are finite. None for signals and kills.

### What the violations say

`experiment_unreserved`: the `*_memreserve` wrappers never give memreserve its
number of pages, so that the benchmark that is to be measured on a reserved node
runs on an unreserved one.

`jgraph_include`: the character that ended a word is put back and becomes the first
character of the file that `include` or `shell` opens. Where it was the end of file,
because the statement is the last of its file and no newline follows, the opened
file is closed unread; `jgraph.1:127` has its contents included at that point.

`jgraph_hash_label`: a hash label without `at` takes the place of the first
`hash_at` or `mhash_at` of its axis (`edit.c:756-757`); `jgraph.1:1470-1475` says the
most recent one.

`PROJECT.json` quotes the lines.

Other places where code and words part, met while modelling; they are in the
model as the code has them, and are not runs of their own:

- `fill_pages` is said to fill its range (`memreserve.c:16-17`) but writes first
  and looks at the end afterwards: with an empty range it runs off the buffer
  (`FewPagesNeverReserve` is what comes of it).
- a benchmark without commands for a size runs those of the benchmark before; too
  few arguments name a directory that holds other configurations' results
  (`RunLoop`'s properties are about sound benchmarks and well-formed lines).
- `stat`'s path has no benchmark (`stat.c:261`) where the comment has one
  (`stat.c:101`).
- `jgraph -p` prints the value in place of the point for `y_epts`
  (`show.c:199`), though `jgraph.1:99-102` promises the input with its defaults
  made explicit.
- the daemon stores the links' totals by the socket's number and their rows by
  the number among the sockets online (`daemon.cpp:683`).

### Properties that hold with a condition

They say so in the condition, and the condition is part of what a run shows.

- *Cache*: it belongs to the present run unless a process was about before the
  run was over: a build that spans a rerun carries the old data into the new
  directory, one that precedes `pagemap.txt` is cached without pages.
- *Experiment*: the reservation is there unless its memreserve met a fault or
  another experiment on the machine reserves too; a probe of `bpftrace` or a `pcm-memory.x` is gone after its
  iteration unless the benchmark ended before it was up.
- *Guidance*: a guidance file is written unless a tier stays empty.
- *stat*: `ColumnsLineUp` excepts the heat maps that take each interval's own
  best sites, and the proposal with more sites than it shows.
- *jgraph*: `BoundingBoxHolds` excepts `-P`, a `bbox` that the user gave and the
  further pages of a landscape, for which the code promises nothing, and what the
  box never covers: legends of several columns and custom ones, marks that are
  texts, hash marks longer than the standard, legends turned as a whole (`Covered`).
  `ReadAsWritten` excepts the file of an include or shell statement that ends its own
  file without a newline, which is not read, and descriptions that name a font `:`,
  after which the reference reading would take a string for words.
- *pcm*: `CountersKept` and `MachineLeftClean` are about executions that `-r`,
  SIGKILL, a failed `exec`, a signal while waiting for the lock, two tools
  without `-m` that both find the PMU free, or a refused instance that discounts
  another's count have not disturbed, and about machines where the instances with
  `-m` go through perf all of them or none (`Alike`): one that joins others does
  not program, on the ground that they have, and theirs are not the same counters. `CountersKept`
  promises the cores' counters, not the uncore's: every cleanup unprograms that.
- *daemon*: a picture is one update unless the daemon began or was in one while
  the client read; the file is a daemon's own unless another was about.
- *reports*: `RowsTellTheTraffic` is about cells that are of some traffic; a
  channel without any is shown as missing. Persistent memory in a channel
  that is idle, the per-socket `Memory` of the CSV (which leaves persistent memory
  out), MCDRAM with `-columns=1` and partial writes on KNL are printed otherwise
  or not at all and are not claimed. `HeadersNameTheValues` says for
  `pcm-memory.x`'s CSV exactly when the header fits: as long as the channels with
  traffic are those of its first row. Rank options are accepted on HASWELLX
  machines only in the scenarios.

## 4. Proofs

Proved with TLAPS for all values of the constants that satisfy the named
assumptions (`MemsetAssumption`, `ReserveAssumption`, `ExperimentAssumption`,
`LinesAssumption`, `CacheAssumption`, `ExtenderAssumption`, `ProcsAndFleets`,
`DaemonsAndClients`, `GuidanceAssumption`, `StatAssumption`). They ask for little:
numbers are numbers, special values are not members, the processes of a machine are
finitely many (their count is compared with their number), a machine has a socket
online and its sockets are in order; the unit in which `Guidance` counts accesses per
byte is a multiple of every size, and the last tier of a round robin is at most one
below the first; the files that `stat` finds have the lines that the programs behind
them print.

`MemreserveProofs`, of `ParallelMemset`. `TypeCorrect` first. Then the control invariant, which
ties every thread's state to the caller's position in its two loops: a thread
exists iff the create loop has passed it, has ended if the join loop has passed
it, and its argument is live in between. From it follow `ArgumentsAreLive` and
`NoThreadSurvives`. `SlicesCorrect` gives the closed form of a slice: the pages
before thread t are `t * pages_per_thread` and one more for each runoff thread
before it; disjointness (`SlicesDisjoint`) follows from the form being
increasing. `FillCorrect` says that a thread has written exactly the bytes of
its slice below its cursor; hence `WritesInBuffer`, and with the fact that the
slices of all threads cover the buffer, `PagesBacked`. `Implements` maps each
step to one of `BackPages`: a byte backs its page, a failed creation loses its
slice, the return is allowed because of `PagesBacked`.

`MemreserveProofs`, of `NodeReserve`. `ReserveTypeCorrect` with `NothingMapped`
(between the fills nothing of memreserve is on the node). `Bounded` is the inductive invariant:
during a fill, the pages on the node, those still to place and those available
add up to the size up to the churn and the pages that lost threads left unbacked.
From it `ProbeIsWithinChurn`,
`LeftIsWithinChurn`, `UndisturbedIsOnNode`, `FailsOnlyForLackOfPages`. The bound
on the churn is only for TLC: the theorems hold for every `MaxChurn`.

`ExperimentProofs`, of `Experiment`. `CleansUp` and `StraysWereHurried` speak of iterations that are
over; the invariant `Accounted` says why nothing is left of them: as long as
a helper is there, the step that takes it down is still ahead in the script of its
iteration, or Ctrl-C ended that, or the step came before the helper was up
(`hurried`). `NodeIsReserved` has the invariant `InPlace`: between its start and
its kill an experiment's memreserve is filling while the script sleeps and holds
once it has slept, or met a fault; `MemreserveSteps` are the steps of any script that
touch a memreserve, and of another experiment's only those of a reserving one,
which `Sole` denies, could take it. `Order` reads off the four scripts that each step that starts a helper
comes before those that take it down, and the kill of sudo before that of its
child; `StillPending` that a script only leaves the step it is at.

`PcmProofs`, of `WidthExtender`. `ReadingsTellTheTraffic` is not inductive: what a reading
is worth depends on the locks. The invariant has two parts. `Locked`: a thread
between select and read holds the registers, whoever extends holds its
extender's mutex, and the selected event is the one about to be read. `Exact`:
the extended value equals the count at the last extension, and the distance of
the raw counter from the last reading is that of the counts
(`Apart`), for the counter now and for the value that a thread carries out of the
registers. `DifferenceIsExact` does the modular arithmetic once: as long as fewer
than `W` counts lie between two readings, their difference, corrected for a
wrap, is exact.

`PcmProofs`, of `Pcm`. `Typed` is what the rest needs of the types, above all that a
process that has not gone has a tool. `WatchdogComesBack` is inductive relative
to it: whoever turns the watchdog off is on the line before setting its mark,
and the mark is dropped only with the watchdog on. `LockHeld` says that an
instance with `-m` inside `program()` or `cleanup()` is the holder of the lock;
`AloneUnderTheLock` follows, and with it that the count of instances that one
reads is the one it acts on.

`CountersAreKept` and `MachineIsLeftClean` need more, since who zeroes what depends
on a count that outlives the one who counts. `CoresKept` collects it. `Flags`: what
a process's own flags tell of where it is. `Counting`: undisturbed, the count of
instances is never above the number of those counted (`Countees`), and equal to it
unless perf is in play, where a refused instance may discount another's. `Held`: a
core that a process has programmed and not taken back is programmed by it, or with
`-m` by one of the instances. `LastIsAlone`: while an instance zeroes cores, nobody
is counted, which is what keeps it from zeroing another's. `Owed` is the converse
for the end: each programmed core is owed by someone who is still to take it back.
`PerfKept` and `Traces` say the same of perf's groups, the lock, the uncore and the
RMIDs. `TypeCorrect` adds what only counting shows: the count never exceeds the
instances that opened the semaphore (`Bounded`).

`PcmDaemonProofs`. `TypeCorrect` first. `Timestamps`, `Readings` and `Contents` are
about each daemon alone: by place in the update, what number the timestamp has,
which reading each saved state is of, and which pair of readings each table
already written is the difference of. `WindowsAlwaysFollow` follows.
`PictureIsAlwaysOneUpdate` adds `Views`: an undisturbed client's segment is a
published one, every table it has copied is of the update of its timestamp. For
`FoundAlwaysUnlessInCompany`, `Mutual` says that of two daemons about at once each
is the other's company, and `Findable` that the file can name another only in
company.

`ExperimentProofs`, of `RunLoop`. `InPlace` says that when a sound benchmark is about to be
executed the shell is in its directory and its `run.sh` holds its own commands:
the one place where what an earlier benchmark left could show. For
`NothingIsCleared` the invariant `Passed` says that every result belongs to
a benchmark, or to a configuration of this benchmark, that the loops have passed;
`OnwardMoves` says how the two counters move on. In a well-formed command line what
is cleared next is none of what has been passed.

`SiteMapCacheProofs`. `Tidy` is what every process's own books say: what it has to
do first, and that the files it holds open are the last it has opened. It holds
always. `ThisRun` adds, as long as no process was about too early, that whoever is
about finds the run over, that what it has parsed and loaded is of this run, and
that a file that is not whole is accounted for: whoever truncated it last holds it
or was killed. `FilesAreOfThisRun` follows. `AllAlone` is about a process that was
never disturbed: it is the only one, each file it holds it has truncated last, what
it has closed is whole, and with `--clean` only what it has not come to may be
torn (`Repaired`), which it will come to before it loads (`CleansOnce`).
`TheCarefulSucceed` and `CleanIsARepair` follow.

`DataInduction`. What a recursive function or a fold of the library computes is known
only once it is shown that there is a function with its equations, which takes an
induction; and the library's induction theorems take an operator as a parameter,
which the provers cannot instantiate. So every induction here is over a set of
numbers: a nonempty one has a least element (`LeastElement`), hence a set with 0 that
is closed under successor is `Nat` (`Inductive`). From that: functions that go on
from 0 (`Iterated`), folds over sequences, which are runs of their step
(`FoldExists`, `FoldRuns`), sums over finite sets, whichever way they are taken
(`SumsExist`, `SumsAgree`, `SumWithout`, `SumGrows`), and strict orders of finite
sets, whose elements are numbered by their rank (`RanksNumber`).

`GuidanceProofs`. That `compute_hotset` takes the sites in the order of their value
until the tier is full is a fact about ranks and growing sums (`HotsetIsFirst`,
`HotsetFillsTheTier`). The knapsack is an induction over the rows of its table:
`RowsAreBest` says that a cell is the most that the sites so far are worth in its
capacity, and that some choice of them is worth as much; `TraceFollowsTheTable` that
the way back from the last cell collects such a choice. `HotsetFills`
and `KnapsackOptimal` are about all subsets of the sites, whatever the profile.
The invariant `Inv` adds to the types what a choice was worth when it was made and
why guide.py may have failed: with sites of positive weight every tier in use has
accesses (`UsedSumsArePositive`), so that a failed report had an empty tier
(`FailsForAnEmptyTier`).

`StatProofs`. Each parser is a run of its step over the lines, and along that run
an invariant says what the lines so far amount to: `ReservedMeans`, `TimeMeans`,
`MemFreeMeans` (the running average, divided as C does it, stays between the least and
the greatest value), `PhasesAreTold`, `CountsAreCollected`. Together they are
`MetricMeans`: what the program takes from a file is what the metric's name says.
The invariant `StatInv` says how many cells there are by where the program is, and
that each holds one value for every iteration of its configuration (`Filled`, by
`OneMoreValue`); that the cell in the making holds those that `readdir` has already
returned (`Reading`); and that every graph is a picture of an iteration with a file
(`Drawn`). `CellsAreTheMetric` and `ArgsAlwaysFit` follow. `TablesLineUp` rests on the
order of the sites: it is strict and total, ratios being compared by products with
positive sizes (`BeforeOrders`), so the columns list each site once (`InOrderLists`);
sorted by weight it depends on the last interval alone (`SameOrder`), which is why the
heat map of the proposal has the other tables' columns as long as all sites are shown
(`AllAreTop`).

Only model-checked: liveness (`EveryRunEnds`, `Settles`, `FewPagesNeverReserve`,
`ClientHears`, `EveryoneLeaves`), which is out of this prover's reach; the five
properties of `Jgraph`, whose reader, editor and drawing are `RECURSIVE` operators
over words and lines; and `PcmReport`'s `RowsTellTheTraffic` and
`HeadersNameTheValues`.

## 5. Plan

Done: every component of the inventory that keeps state across steps has its
module and its run. Every safety property of memreserve, the experiments, the run
loop, the cache, the guidance, stat, and of PCM's processes, daemon and extender is
proved.

Left, in this order:

1. that the detailed modules implement more abstract ones: a reservation as
   `Experiment` sees it by `NodeReserve`, PCM's processes as users of one shared
   resource;
2. the inputs of `multi_iter` and the guided configurations, whose profile is
   another experiment's result, with `guided_compress`'s cgroup (`tools.sh:78-110`);
3. `compute_map_stats` and the interval matching of `convert_pebs.pl` as algorithm
   modules;
4. compositions: `Experiment` with `NodeReserve` in place of its memreserve,
   `RunLoop` with `SiteMapCache`'s runs, `Experiment` with `Pcm` in place of its
   pcm-memory.x.

## 6. Not modelled

- PCM: the Beckton uncore, C-states, energy and temperature, Windows and macOS,
  register addresses, `-f` and `-r` inside a report; and the other tools
  (`pcm-pcie`, `pcm-power`, `pcm-core`, `pcm-numa`, `pcm-latency`, ...), which no
  script of the repository calls and which print other events of the same counters.
- `compute_map_stats`, `compute_ratio_stats`: sequential arithmetic on floats (5.3).
- the Perl and Python reports: older parsers of the same files, layout, means.
- `all/bash`, gnuplot and `report.sh`: they draw what `stat` hands them.
- `drop_caches`, zswap and the cgroups of `guided_compress`: their effects are the
  kernel's.
- build scripts, the online aggregator and the benchmarks' commands: sequences of
  calls, a filter over one log, and data.
- SICM's packing library, libnuma, Ghostscript: external; modelled, where
  they are, from how the code uses them.
