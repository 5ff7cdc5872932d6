----------------------------- MODULE Experiment -----------------------------
(***************************************************************************)
(* all/tools.sh and the configurations of all/cfgs.  An iteration of an    *)
(* experiment surrounds one run of the benchmark with helpers that run     *)
(* beside it: a loop that samples numastat, pcm-memory.x under sudo,       *)
(* memreserve, bpftrace.  The configuration's script starts them, runs the *)
(* benchmark and takes them down again, by process id and by name, before  *)
(* the next iteration.  The helpers come up and go down at their own pace. *)
(*                                                                         *)
(* A job <<r, a, n>> is iteration n of the a-th launch of experiment r;    *)
(* each job starts at most one helper of a kind (the eight bpftrace probes *)
(* of `control` are alike: one stands for all).  A helper's life is        *)
(* membership of its job in one of the sets below.                         *)
(***************************************************************************)
EXTENDS Naturals, Sequences

CONSTANTS
  Scenarios  \* what may happen on the machine: records of
             \*   config      the experiments that run at the same time, and what
             \*   iterations  ITERS: the iterations of an experiment
             \*   launches    bound on the launches of an experiment
             \*   faults      what may go wrong; see below

\* "usage"     NUM_PAGES is empty and memreserve exits with its usage message
\* "slow"      memreserve takes longer than the minute it is given
\* "dies"      memreserve gives up (NodeReserve: exited, crashed, failed)
\* "interrupt" the user types Ctrl-C
ASSUME ExperimentAssumption ==
  \A sc \in Scenarios :
    /\ \A r \in DOMAIN sc.config :
         sc.config[r] \in {"firsttouch", "firsttouch_memreserve", "online_memreserve", "control"}
    /\ sc.iterations \in Nat \ {0} /\ sc.launches \in Nat \ {0}
    /\ sc.faults \subseteq {"usage", "slow", "dies", "interrupt"}

VARIABLES
  scenario,    \* what happens
  launch,      \* how many times an experiment has been launched
  iter,        \* the iteration its script is in
  step,        \* the position in the iteration's script
  loops,       \* numastat_loop
  samplers,    \* the `numastat -m` a loop runs in the foreground
  sudos,       \* the sudo of pcm_background
  unborn,      \* those of them that have not forked yet
  forked,      \* their children that have not exec'ed pcm-memory.x yet
  monitoring,  \* those that have
  filling,     \* memreserve until it pauses
  holding,     \* memreserve once it pauses
  deaf,        \* bpftrace until it handles SIGINT
  probing,     \* bpftrace once it does
  hurried,     \* history: jobs whose helper was killed before it was up
  spoilt,      \* history: jobs whose memreserve met a fault
  interrupted  \* history: <<r, a>> ended by Ctrl-C

script == <<scenario, launch, iter, step>>
numastat == <<loops, samplers>>
pcm == <<sudos, unborn, forked, monitoring>>
mem == <<filling, holding>>
bpftrace == <<deaf, probing>>
history == <<hurried, spoilt, interrupted>>
vars == <<script, numastat, pcm, mem, bpftrace, history>>

config == scenario.config
Runners == DOMAIN config
Iterations == scenario.iterations
Launches == scenario.launches
Faults == scenario.faults

-----------------------------------------------------------------------------
(* The scripts.                                                            *)

pcm_kill == <<"kill_sudo", "pkill_pcm", "wait_sudo">>
numastat_kill == <<"kill_loop", "wait_loop">>

\* The configurations whose wrapper sets DO_MEMRESERVE.
DO_MEMRESERVE == {"firsttouch_memreserve", "online_memreserve"}

\* Mutant: the script does not give memreserve the time to fill the node.
NoSleep(cfg) ==
  IF cfg \in DO_MEMRESERVE THEN <<"memreserve">> ELSE <<>>

memreserve(cfg) ==
  IF cfg \in DO_MEMRESERVE THEN <<"memreserve", "sleep">> ELSE <<>>

\* Mutant: memreserve is not killed.
NoKill(cfg) == <<>>

memreserve_kill(cfg) ==
  IF cfg \in DO_MEMRESERVE
  THEN <<"kill_memreserve", "pkill_memreserve", "wait_all">> ELSE <<>>

Monitors ==
  [firsttouch |-> <<"pcm", "loop">>,
   firsttouch_memreserve |-> <<"pcm", "loop">>,
   online_memreserve |-> <<"loop", "pcm">>,
   control |-> <<"loop", "pcm", "bpftrace">>]

\* What a configuration does in an iteration, in order.
Script(cfg) ==
  memreserve(cfg) \o Monitors[cfg] \o <<"command">>
    \o (IF cfg = "control" THEN <<"kill_bpftrace">> ELSE <<>>)
    \o numastat_kill \o pcm_kill \o memreserve_kill(cfg)

Steps(r) == Script(config[r])

Over(r) == iter[r] = Iterations

At(r, name) == ~ Over(r) /\ Steps(r)[step[r]] = name

\* The script goes on: to its next step, or to the next iteration.
Advance(r) ==
  IF step[r] < Len(Steps(r))
  THEN /\ step' = [step EXCEPT ![r] = @ + 1]
       /\ UNCHANGED <<scenario, launch, iter>>
  ELSE /\ step' = [step EXCEPT ![r] = 1]
       /\ iter' = [iter EXCEPT ![r] = @ + 1]
       /\ UNCHANGED <<scenario, launch>>

Job(r) == <<r, launch[r], iter[r]>>

JobsOf(sc) == (DOMAIN sc.config) \X (1 .. sc.launches) \X (0 .. sc.iterations - 1)
Jobs == JobsOf(scenario)

\* The processes a script's shell has started and not yet seen end.
Children(r) ==
  {j \in loops \cup sudos \cup filling \cup holding \cup deaf \cup probing :
     j[1] = r /\ j[2] = launch[r]}

Init ==
  /\ scenario \in Scenarios
  /\ launch = [r \in Runners |-> 1]
  /\ iter = [r \in Runners |-> 0]
  /\ step = [r \in Runners |-> 1]
  /\ loops = {} /\ samplers = {}
  /\ sudos = {} /\ unborn = {} /\ forked = {} /\ monitoring = {}
  /\ filling = {} /\ holding = {}
  /\ deaf = {} /\ probing = {}
  /\ hurried = {} /\ spoilt = {} /\ interrupted = {}

-----------------------------------------------------------------------------
(* numastat.                                                               *)

numastat_background(r) ==
  /\ At(r, "loop") /\ Advance(r)
  /\ loops' = loops \cup {Job(r)}
  /\ UNCHANGED <<samplers, pcm, mem, bpftrace, history>>

\* The loop starts a numastat when it has none, and sleeps when that has ended.
StartSample(j) ==
  /\ j \in loops \ samplers
  /\ samplers' = samplers \cup {j}
  /\ UNCHANGED <<script, loops, pcm, mem, bpftrace, history>>

EndSample(j) ==
  /\ j \in samplers
  /\ samplers' = samplers \ {j}
  /\ UNCHANGED <<script, loops, pcm, mem, bpftrace, history>>

\* Mutant: numastat_pid is not the loop's.
KillNoLoop(r) ==
  /\ At(r, "kill_loop") /\ Advance(r)
  /\ UNCHANGED <<numastat, pcm, mem, bpftrace, history>>

\* The loop dies; a numastat it is waiting for runs on.
KillLoop(r) ==
  /\ At(r, "kill_loop") /\ Advance(r)
  /\ loops' = loops \ {Job(r)}
  /\ UNCHANGED <<samplers, pcm, mem, bpftrace, history>>

WaitLoop(r) ==
  /\ At(r, "wait_loop") /\ Job(r) \notin loops /\ Advance(r)
  /\ UNCHANGED <<numastat, pcm, mem, bpftrace, history>>

-----------------------------------------------------------------------------
(* pcm-memory.x.                                                           *)

pcm_background(r) ==
  /\ At(r, "pcm") /\ Advance(r)
  /\ sudos' = sudos \cup {Job(r)} /\ unborn' = unborn \cup {Job(r)}
  /\ UNCHANGED <<forked, monitoring, numastat, mem, bpftrace, history>>

SudoForks(j) ==
  /\ j \in unborn
  /\ unborn' = unborn \ {j} /\ forked' = forked \cup {j}
  /\ UNCHANGED <<script, sudos, monitoring, numastat, mem, bpftrace, history>>

PcmExecs(j) ==
  /\ j \in forked
  /\ forked' = forked \ {j} /\ monitoring' = monitoring \cup {j}
  /\ UNCHANGED <<script, sudos, unborn, numastat, mem, bpftrace, history>>

\* sudo ends after its child.
SudoEnds(j) ==
  /\ j \in sudos \ (unborn \cup forked \cup monitoring)
  /\ sudos' = sudos \ {j}
  /\ UNCHANGED <<script, unborn, forked, monitoring, numastat, mem, bpftrace,
                 history>>

\* kill -9 takes sudo down, not its child.
KillSudo(r) ==
  /\ At(r, "kill_sudo") /\ Advance(r)
  /\ sudos' = sudos \ {Job(r)} /\ unborn' = unborn \ {Job(r)}
  /\ hurried' = IF Job(r) \in forked THEN hurried \cup {Job(r)} ELSE hurried
  /\ UNCHANGED <<forked, monitoring, numastat, mem, bpftrace, spoilt,
                 interrupted>>

\* Mutant: pcm_kill trusts the kill of sudo.
PkillNoPcm(r) ==
  /\ At(r, "pkill_pcm") /\ Advance(r)
  /\ UNCHANGED <<pcm, numastat, mem, bpftrace, history>>

\* By name: whoever started it; but a child of sudo still has sudo's name.
PkillPcm(r) ==
  /\ At(r, "pkill_pcm") /\ Advance(r)
  /\ monitoring' = {}
  /\ UNCHANGED <<sudos, unborn, forked, numastat, mem, bpftrace, history>>

WaitSudo(r) ==
  /\ At(r, "wait_sudo") /\ Job(r) \notin sudos /\ Advance(r)
  /\ UNCHANGED <<numastat, pcm, mem, bpftrace, history>>

-----------------------------------------------------------------------------
(* memreserve.                                                             *)

StartMemreserve(r) ==
  /\ At(r, "memreserve") /\ Advance(r)
  /\ filling' = filling \cup {Job(r)}
  /\ UNCHANGED <<holding, numastat, pcm, bpftrace, history>>

\* With an empty NUM_PAGES the node is taken for the pages and memreserve has
\* an argument too few.
Usage(r) ==
  /\ "usage" \in Faults
  /\ At(r, "memreserve") /\ Advance(r)
  /\ spoilt' = spoilt \cup {Job(r)}
  /\ UNCHANGED <<mem, numastat, pcm, bpftrace, hurried, interrupted>>

\* sleep 60
SleepEnds(r) ==
  /\ At(r, "sleep") /\ Advance(r)
  /\ Job(r) \notin filling
  /\ UNCHANGED <<numastat, pcm, mem, bpftrace, history>>

SleepTooShort(r) ==
  /\ "slow" \in Faults
  /\ At(r, "sleep") /\ Advance(r)
  /\ Job(r) \in filling
  /\ spoilt' = spoilt \cup {Job(r)}
  /\ UNCHANGED <<numastat, pcm, mem, bpftrace, hurried, interrupted>>

Holds(j) ==
  /\ j \in filling
  /\ filling' = filling \ {j} /\ holding' = holding \cup {j}
  /\ UNCHANGED <<script, numastat, pcm, bpftrace, history>>

GivesUp(j) ==
  /\ j \in filling /\ "dies" \in Faults
  /\ filling' = filling \ {j}
  /\ spoilt' = spoilt \cup {j}
  /\ UNCHANGED <<script, holding, numastat, pcm, bpftrace, hurried, interrupted>>

KillMemreserve(r) ==
  /\ At(r, "kill_memreserve") /\ Advance(r)
  /\ filling' = filling \ {Job(r)} /\ holding' = holding \ {Job(r)}
  /\ UNCHANGED <<numastat, pcm, bpftrace, history>>

\* By name: whoever started it.
PkillMemreserve(r) ==
  /\ At(r, "pkill_memreserve") /\ Advance(r)
  /\ filling' = {} /\ holding' = {}
  /\ UNCHANGED <<numastat, pcm, bpftrace, history>>

\* `wait $memreserve`: the variable is never set, so the shell waits for all of
\* its children.
WaitAll(r) ==
  /\ At(r, "wait_all") /\ Children(r) = {} /\ Advance(r)
  /\ UNCHANGED <<numastat, pcm, mem, bpftrace, history>>

-----------------------------------------------------------------------------
(* bpftrace.                                                               *)

\* A shell without job control starts it with SIGINT ignored.
StartProbes(r) ==
  /\ At(r, "bpftrace") /\ Advance(r)
  /\ deaf' = deaf \cup {Job(r)}
  /\ UNCHANGED <<probing, numastat, pcm, mem, history>>

Attach(j) ==
  /\ j \in deaf
  /\ deaf' = deaf \ {j} /\ probing' = probing \cup {j}
  /\ UNCHANGED <<script, numastat, pcm, mem, history>>

\* kill -2
KillProbes(r) ==
  /\ At(r, "kill_bpftrace") /\ Advance(r)
  /\ probing' = probing \ {Job(r)}
  /\ hurried' = IF Job(r) \in deaf THEN hurried \cup {Job(r)} ELSE hurried
  /\ UNCHANGED <<deaf, numastat, pcm, mem, spoilt, interrupted>>

-----------------------------------------------------------------------------

\* The benchmark ends, after whatever time.
CommandEnds(r) ==
  /\ At(r, "command") /\ Advance(r)
  /\ UNCHANGED <<numastat, pcm, mem, bpftrace, history>>

\* Ctrl-C ends the scripts and what handles SIGINT.  The shell's background
\* commands ignore it.  The user launches the experiment again.
Interrupt(r) ==
  /\ "interrupt" \in Faults /\ ~ Over(r) /\ launch[r] < Launches
  /\ interrupted' = interrupted \cup {<<r, launch[r]>>}
  /\ launch' = [launch EXCEPT ![r] = @ + 1] /\ UNCHANGED scenario
  /\ iter' = [iter EXCEPT ![r] = 0]
  /\ step' = [step EXCEPT ![r] = 1]
  /\ probing' = probing \ {Job(r)}
  /\ monitoring' \in {monitoring, monitoring \ {Job(r)}}
  /\ UNCHANGED <<numastat, sudos, unborn, forked, mem, deaf, hurried, spoilt>>

Run(r) ==
  \/ numastat_background(r) \/ KillLoop(r) \/ WaitLoop(r)
  \/ pcm_background(r) \/ KillSudo(r) \/ PkillPcm(r) \/ WaitSudo(r)
  \/ StartMemreserve(r) \/ Usage(r) \/ SleepEnds(r) \/ SleepTooShort(r)
  \/ KillMemreserve(r) \/ PkillMemreserve(r) \/ WaitAll(r)
  \/ StartProbes(r) \/ KillProbes(r)
  \/ CommandEnds(r)

Helper(j) ==
  \/ EndSample(j)
  \/ SudoForks(j) \/ PcmExecs(j) \/ SudoEnds(j)
  \/ Holds(j) \/ GivesUp(j)
  \/ Attach(j)

\* Every experiment is over; what still runs, runs on.
Finished == (\A r \in Runners : Over(r)) /\ UNCHANGED vars

Next ==
  \/ \E r \in Runners : Run(r) \/ Interrupt(r)
  \/ \E j \in Jobs : Helper(j) \/ StartSample(j)
  \/ Finished

Spec == Init /\ [][Next]_vars

\* The scripts and the helpers run; the benchmark ends; nobody has to type
\* Ctrl-C.
FairSpec ==
  /\ Spec
  /\ \A sc \in Scenarios : \A r \in DOMAIN sc.config : WF_vars(r \in Runners /\ Run(r))
  /\ \A sc \in Scenarios : \A j \in JobsOf(sc) : WF_vars(j \in Jobs /\ Helper(j))

-----------------------------------------------------------------------------
(* Properties.                                                             *)

\* Type invariant.
TypeOK ==
  /\ scenario \in Scenarios
  /\ launch \in [Runners -> 1 .. Launches]
  /\ iter \in [Runners -> 0 .. Iterations]
  /\ step \in [Runners -> Nat]
  /\ \A r \in Runners : step[r] \in 1 .. Len(Steps(r))
  /\ {loops, samplers, sudos, unborn, forked, monitoring, filling, holding,
      deaf, probing, hurried, spoilt} \subseteq SUBSET Jobs
  /\ interrupted \subseteq Runners \X (1 .. Launches)

Current(j) == j = Job(j[1])
Interrupted(j) == <<j[1], j[2]>> \in interrupted

\* What a script starts is gone before its next iteration starts, unless
\* Ctrl-C cuts the script short: no reservation shrinks the node under a later
\* measurement and no loop samples on.
CleansUp ==
  \A j \in loops \cup sudos \cup filling \cup holding :
    Current(j) \/ Interrupted(j)

\* pcm-memory.x and bpftrace outlive their iteration only if the benchmark
\* ended before they were up: kill -9 then takes sudo but not its child, which
\* pkill does not know by its name yet, and bpftrace is deaf to kill -2.
StraysWereHurried ==
  \A j \in unborn \cup forked \cup monitoring \cup deaf \cup probing :
    Current(j) \/ Interrupted(j) \/ j \in hurried

Reserving(r) == At(r, "command") /\ config[r] \in DO_MEMRESERVE

\* No other experiment that reserves a node runs on the machine: it would kill
\* this one's memreserve by name.
Sole(r) == \A s \in Runners \ {r} : config[s] \notin DO_MEMRESERVE

\* The benchmark of a *_memreserve configuration runs on a reserved node: the
\* reservation is this iteration's, complete, and nobody's kill by name has
\* taken it.  Only a memreserve that met a fault, or that shares the machine
\* with another experiment's, is not there, unnoticed.
ReservedUnlessSpoilt ==
  \A r \in Runners : Reserving(r) /\ Sole(r) => Job(r) \in holding \cup spoilt

\* firsttouch.sh:69: the configuration takes "a percentage that should be left
\* available on the upper tier"; tools.sh:55: "Second arg is the amount that
\* should be left on the node".  So the node must be reserved while the
\* benchmark runs.
ReservedWhileMeasured == \A r \in Runners : Reserving(r) => Job(r) \in holding

\* Every launch ends: none of the waits, of which one is for all children,
\* blocks for good.
EveryRunEnds == <>(\A r \in Runners : Over(r))
=============================================================================
