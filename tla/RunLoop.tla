------------------------------- MODULE RunLoop -------------------------------
(***************************************************************************)
(* run.sh:147-243 and all/args.sh:117-159.  run.sh goes through every      *)
(* benchmark and configuration of its command line: it clears the          *)
(* experiment's results directory, goes to the benchmark, loads its        *)
(* commands for the size, writes them into the benchmark's run/run.sh and  *)
(* calls the configuration, which executes ./run.sh.  No step looks at     *)
(* whether the one before it succeeded, and the shell's variables and      *)
(* working directory live on from one experiment to the next.              *)
(***************************************************************************)
EXTENDS Naturals, Sequences

CONSTANTS
  CommandLines,  \* [benches, configs, args]: sequences of --bench, --config
                 \* and --args values, in the order they are given
  Missing,       \* benchmarks whose directory is not in BENCH_DIR
  Unsized,       \* benchmarks whose _sizes.sh does not set ${SIZE}_COMMANDS
  Manual         \* configurations with "manual" in their name

\* Without a benchmark or a configuration run.sh has nothing to do.
ASSUME LinesAssumption ==
  CommandLines \subseteq [benches : Seq(STRING) \ {<<>>}, configs : Seq(STRING) \ {<<>>},
                         args : Seq(STRING)]

VARIABLES
  cli,       \* the command line
  pc,        \* the step of the current experiment
  BENCH_INDEX, CONFIG_INDEX,   \* of the current experiment, from 1
  cwd,       \* the benchmark whose directory the shell is in
  commands,  \* the benchmark whose commands ${SIZE}_COMMANDS holds
  runsh,     \* runsh[b]: the benchmark whose commands are in b's run/run.sh
  results    \* what RESULTS_DIR holds of this run

loopVars == <<cli, pc, BENCH_INDEX, CONFIG_INDEX, cwd, commands, runsh, results>>

Nowhere == "nowhere"

-----------------------------------------------------------------------------
(* all/args.sh.                                                            *)

\* An --args value that is empty is no word of the loop over the values, which
\* are not quoted.
Words(values) == SelectSeq(values, LAMBDA a : a # "")
CONFIG_ARGS == Words(cli.args)

\* Mutant: the names are made of the values as they were given.
FullConfigsAsGiven ==
  [k \in 1 .. Len(cli.configs) |->
     IF k <= Len(cli.args) THEN <<cli.configs[k], cli.args[k]>> ELSE <<>>]

\* The directory's name for each configuration: nothing for those that have no
\* arguments left.
FULL_CONFIGS ==
  [k \in 1 .. Len(cli.configs) |->
     IF k <= Len(CONFIG_ARGS) THEN <<cli.configs[k], CONFIG_ARGS[k]>> ELSE <<>>]

-----------------------------------------------------------------------------
(* run.sh.                                                                 *)

BENCH == cli.benches[BENCH_INDEX]
CONFIG == cli.configs[CONFIG_INDEX]
ARGS == IF CONFIG_INDEX <= Len(CONFIG_ARGS) THEN CONFIG_ARGS[CONFIG_INDEX] ELSE ""
FULL_CONFIG == FULL_CONFIGS[CONFIG_INDEX]

Named(line) == {line.benches[k] : k \in 1 .. Len(line.benches)}

LoopInit ==
  /\ cli \in CommandLines
  /\ pc = "clear"
  /\ BENCH_INDEX = 1 /\ CONFIG_INDEX = 1
  /\ cwd = Nowhere /\ commands = Nowhere
  /\ runsh = [b \in Named(cli) |-> Nowhere]
  /\ results = {}

\* Mutant: the results of all configurations are cleared for each of them.
ClearedByBench(result) == result.bench = BENCH

\* What lies at or below DIRECTORY: without a full configuration this is the
\* directory of all of the benchmark's results.
Cleared(result) ==
  result.bench = BENCH /\ (FULL_CONFIG = <<>> \/ result.full = FULL_CONFIG)

\* rm -rf ${DIRECTORY}; mkdir -p ${DIRECTORY}
ClearResults ==
  /\ pc = "clear"
  /\ results' = IF CONFIG \in Manual THEN results
                ELSE {result \in results : ~ Cleared(result)}
  /\ pc' = "write"
  /\ UNCHANGED <<cli, BENCH_INDEX, CONFIG_INDEX, cwd, commands, runsh>>

\* Mutant: commands that are loaded are not loaded again.
LoadedOnce ==
  IF BENCH \in Unsized \/ commands # Nowhere THEN commands ELSE BENCH

\* source _sizes.sh: the array of another benchmark stays where this one has
\* none of the name.
Loaded == IF BENCH \in Unsized THEN commands ELSE BENCH

\* cd; source _sizes.sh; write run/run.sh, which fails where there is no run/.
WriteCommands ==
  /\ pc = "write"
  /\ commands' = Loaded
  /\ IF BENCH \in Missing
     THEN UNCHANGED <<cwd, runsh>>
     ELSE /\ cwd' = BENCH
          /\ runsh' = [runsh EXCEPT ![BENCH] = Loaded]
  /\ pc' = "execute"
  /\ UNCHANGED <<cli, BENCH_INDEX, CONFIG_INDEX, results>>

MoreConfigs == CONFIG_INDEX < Len(cli.configs)
MoreBenches == BENCH_INDEX < Len(cli.benches)

\* The two loops: configurations within benchmarks.
Onward ==
  \/ /\ MoreConfigs
     /\ CONFIG_INDEX' = CONFIG_INDEX + 1 /\ pc' = "clear" /\ UNCHANGED BENCH_INDEX
  \/ /\ ~ MoreConfigs /\ MoreBenches
     /\ BENCH_INDEX' = BENCH_INDEX + 1 /\ CONFIG_INDEX' = 1 /\ pc' = "clear"
  \/ /\ ~ MoreConfigs /\ ~ MoreBenches
     /\ pc' = "done" /\ UNCHANGED <<BENCH_INDEX, CONFIG_INDEX>>

\* cd run; ( eval "$CONFIG ${ARGS_SPACES}" ): the configuration runs the run.sh
\* of the directory it is called in and stores its output in DIRECTORY.
Execute ==
  /\ pc = "execute" /\ Onward
  /\ results' = results \cup
       {[bench |-> BENCH, full |-> FULL_CONFIG, config |-> CONFIG, args |-> ARGS,
         commands |-> IF cwd = Nowhere THEN Nowhere ELSE runsh[cwd]]}
  /\ UNCHANGED <<cli, cwd, commands, runsh>>

Done == pc = "done" /\ UNCHANGED loopVars

LoopNext == ClearResults \/ WriteCommands \/ Execute \/ Done

LoopSpec == LoopInit /\ [][LoopNext]_loopVars

-----------------------------------------------------------------------------
(* Properties.                                                             *)

Results ==
  [bench : Named(cli), full : Seq(STRING), config : STRING, args : STRING,
   commands : Named(cli) \cup {Nowhere}]

\* Type invariant.
LoopTypeOK ==
  /\ cli \in CommandLines
  /\ pc \in {"clear", "write", "execute", "done"}
  /\ BENCH_INDEX \in 1 .. Len(cli.benches) /\ CONFIG_INDEX \in 1 .. Len(cli.configs)
  /\ cwd \in Named(cli) \cup {Nowhere}
  /\ commands \in Named(cli) \cup {Nowhere}
  /\ runsh \in [Named(cli) -> Named(cli) \cup {Nowhere}]
  /\ results \subseteq Results

\* A benchmark that is where it should be, with commands for the size, runs its
\* own commands, whatever broken benchmarks came before it.
SoundBenchmarksRunTheirOwn ==
  \A result \in results :
    result.bench \notin Missing \cup Unsized => result.commands = result.bench

\* A results directory is named after the configuration and the arguments that
\* were run in it, even where the command line's arguments are misaligned.
DirectoryTellsTheRun ==
  \A result \in results :
    result.full # <<>> => result.full = <<result.config, result.args>>

\* Every configuration has its arguments, and no experiment is asked for twice.
WellFormed ==
  /\ Len(cli.args) = Len(cli.configs) /\ CONFIG_ARGS = cli.args
  /\ \A j, l \in 1 .. Len(cli.benches) : cli.benches[j] = cli.benches[l] => j = l
  /\ \A k, m \in 1 .. Len(cli.configs) :
       cli.configs[k] = cli.configs[m] /\ cli.args[k] = cli.args[m] => k = m

\* No step clears what this very command line has measured.
NothingMeasuredIsCleared == [][WellFormed => results \subseteq results']_loopVars

=============================================================================
