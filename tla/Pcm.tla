-------------------------------- MODULE Pcm --------------------------------
(***************************************************************************)
(* How processes of Intel PCM (tools/pcm) share one machine: the NMI       *)
(* watchdog, the named lock and the count of instances (option -m), the    *)
(* counters of the cores, the uncore and the RMIDs, from the constructor   *)
(* PCM::PCM through PCM::program to the exit handler's PCM::cleanup, with  *)
(* signals, failed commands and kills in between.                          *)
(***************************************************************************)
EXTENDS Integers, FiniteSets

CONSTANTS Procs,      \* processes
          Cores,
          Fleets,     \* what may run: functions from the processes started to tools
          MaxFaults,  \* bound, by the size of the fleet: signals in bad places, failed commands and kills
          Nobody

\* A tool: does it call program(), with -m, through Linux perf, after -r.
Tools == [programs : BOOLEAN, multi : BOOLEAN, perf : BOOLEAN, reset : BOOLEAN]

ASSUME ProcsAndFleets ==
    /\ Nobody \notin Procs /\ IsFiniteSet(Procs)
    /\ Fleets \subseteq UNION {[Started -> Tools] : Started \in SUBSET Procs}
    /\ MaxFaults \in [0..Cardinality(Procs) -> Nat]

VARIABLES
    tool,      \* which tool each process runs
    pc,
    \* of the machine
    watchdog,  \* the kernel's NMI watchdog is on
    lock,      \* holder of the named semaphore "PCM inst lock"
    instances, \* value of the semaphore with the number of instances
    counters,  \* per core: who programmed the generic counters directly
    groups,    \* per core: who has perf event groups open
    uncore,    \* who programmed the uncore last
    rmid,      \* who gave the cores their RMIDs last
    \* of a process
    needToRestoreNMIWatchdog, programmed_pmu,
    allow_multiple_instances,
    numInstancesSemaphore,   \* the pointer is not NULL
    todo,      \* cores it has still to program or to zero
    \* ghosts
    faults, disturbed,
    discounted \* the instances that program() refused, and so discounted already

machine == <<watchdog, lock, instances, counters, groups, uncore, rmid>>
own == <<needToRestoreNMIWatchdog, programmed_pmu, allow_multiple_instances, numInstancesSemaphore>>
ghosts == <<faults, disturbed, discounted>>
vars == <<tool, pc, machine, own, todo, ghosts>>

Gone == {"gone", "killed"}
InProgram == {"locked", "cores"}
InCleanup == {"cleanup", "zero", "zero uncore", "watchdog on"}
Places == {"start", "disable", "flag", "objects", "arguments", "program", "measure", "exit", "stuck"}
             \cup InProgram \cup InCleanup \cup Gone

Init ==
    /\ tool \in Fleets
    /\ pc = [p \in Procs |-> IF p \in DOMAIN tool THEN "start" ELSE "gone"]
    /\ watchdog = TRUE /\ lock = Nobody /\ instances = 0
    /\ counters = [c \in Cores |-> Nobody]
    /\ groups = [c \in Cores |-> {}]
    /\ uncore = Nobody /\ rmid = Nobody
    /\ needToRestoreNMIWatchdog = [p \in Procs |-> FALSE]
    /\ programmed_pmu = [p \in Procs |-> FALSE]
    /\ allow_multiple_instances = [p \in Procs |-> FALSE]
    /\ numInstancesSemaphore = [p \in Procs |-> FALSE]
    /\ todo = [p \in Procs |-> {}]
    /\ faults = 0 /\ disturbed = FALSE /\ discounted = {}

FaultToCome == faults < MaxFaults[Cardinality(DOMAIN tool)]

Goto(p, from, to) == pc[p] = from /\ pc' = [pc EXCEPT ![p] = to]

(***************************************************************************)
(* PCM::PCM: the watchdog, then the uncore objects and the RMIDs.          *)
(***************************************************************************)
isNMIWatchdogEnabled(p) ==
    /\ Goto(p, "start", IF watchdog THEN "disable" ELSE "objects")
    /\ UNCHANGED <<tool, machine, own, todo, ghosts>>

disableNMIWatchdog(p) ==
    /\ Goto(p, "disable", "flag")
    /\ watchdog' = FALSE
    /\ UNCHANGED <<tool, lock, instances, counters, groups, uncore, rmid, own, todo, ghosts>>

SetNeedToRestore(p) ==
    /\ Goto(p, "flag", "objects")
    /\ needToRestoreNMIWatchdog' = [needToRestoreNMIWatchdog EXCEPT ![p] = TRUE]
    /\ UNCHANGED <<tool, machine, programmed_pmu, allow_multiple_instances, numInstancesSemaphore, todo, ghosts>>

initRMID(p) ==
    /\ Goto(p, "objects", "arguments")
    /\ rmid' = p
    /\ UNCHANGED <<tool, watchdog, lock, instances, counters, groups, uncore, own, todo, ghosts>>

(***************************************************************************)
(* The command line: --help and mistakes exit; -r zeroes the counters of   *)
(* whoever uses them; pcm-memory programs the uncore and nothing else.     *)
(***************************************************************************)
BadArguments(p) ==
    /\ Goto(p, "arguments", "exit")
    /\ UNCHANGED <<tool, machine, own, todo, ghosts>>

allowMultipleInstances(p) ==
    allow_multiple_instances' = [allow_multiple_instances EXCEPT ![p] = tool[p].multi]

resetPMU(p) ==
    /\ Goto(p, "arguments", "program")
    /\ tool[p].programs /\ tool[p].reset
    /\ counters' = [c \in Cores |-> Nobody]
    /\ disturbed' = TRUE
    /\ allowMultipleInstances(p)
    /\ UNCHANGED <<tool, watchdog, lock, instances, groups, uncore, rmid, needToRestoreNMIWatchdog,
                   programmed_pmu, numInstancesSemaphore, todo, faults, discounted>>

CallProgram(p) ==
    /\ Goto(p, "arguments", "program")
    /\ tool[p].programs /\ ~tool[p].reset
    /\ allowMultipleInstances(p)
    /\ UNCHANGED <<tool, machine, needToRestoreNMIWatchdog, programmed_pmu, numInstancesSemaphore, todo, ghosts>>

programServerUncoreMemoryMetrics(p) ==
    /\ Goto(p, "arguments", "measure")
    /\ ~tool[p].programs
    /\ uncore' = p
    /\ UNCHANGED <<tool, watchdog, lock, instances, counters, groups, rmid, own, todo, ghosts>>

(***************************************************************************)
(* PCM::program.  InstanceLock takes the named semaphore with -m; without, *)
(* a mutex of the process, which orders nothing between processes.         *)
(***************************************************************************)
Acquire(p) == IF allow_multiple_instances[p] THEN lock = Nobody /\ lock' = p ELSE UNCHANGED lock
Release(p) == lock' = IF lock = p THEN Nobody ELSE lock

EnterProgram(p) ==
    /\ Goto(p, "program", "locked")
    /\ Acquire(p)
    /\ UNCHANGED <<tool, watchdog, instances, counters, groups, uncore, rmid, own, todo, ghosts>>

\* The event selectors are not zero: programmed by PCM, or by the kernel for perf.
PMUinUse == \E c \in Cores : counters[c] # Nobody \/ groups[c] # {}

\* decrementInstanceSemaphore: the new value, and whether this was the last instance.
Decremented(p) ==
    IF allow_multiple_instances[p] /\ numInstancesSemaphore[p] /\ instances > 0 THEN instances - 1 ELSE instances
LastInstance(p) ==
    IF ~allow_multiple_instances[p] THEN programmed_pmu[p]
    ELSE ~numInstancesSemaphore[p] \/ instances = 1

\* curValue <= 1: sem_post came before, so the value counts this instance.
FirstInstance(p) == allow_multiple_instances[p] => instances = 0

OpenSemaphore(p) ==
    numInstancesSemaphore' = [numInstancesSemaphore EXCEPT ![p] = allow_multiple_instances[p]]

\* Another instance has programmed already, and perf is not used: this one reads its counters.
JoinOthers(p) ==
    /\ Goto(p, "locked", "measure")
    /\ ~FirstInstance(p) /\ ~tool[p].perf
    /\ instances' = instances + 1
    /\ OpenSemaphore(p)
    /\ Release(p)
    /\ UNCHANGED <<tool, watchdog, counters, groups, uncore, rmid, needToRestoreNMIWatchdog, programmed_pmu,
                   allow_multiple_instances, todo, ghosts>>

\* A refusal discounts what sem_post counted; the cleanup at the exit will discount again.
Discount(p) == discounted' = IF allow_multiple_instances[p] THEN discounted \cup {p} ELSE discounted

\* Several clients cannot share perf counters: counted, discounted, and UnknownError.
RefusedByPerf(p) ==
    /\ Goto(p, "locked", "exit")
    /\ ~FirstInstance(p) /\ tool[p].perf
    /\ OpenSemaphore(p)
    /\ Release(p) /\ Discount(p)
    /\ UNCHANGED <<tool, watchdog, instances, counters, groups, uncore, rmid, needToRestoreNMIWatchdog,
                   programmed_pmu, allow_multiple_instances, todo, faults, disturbed>>

\* PMUBusy, looked at only when perf is not used; with -m counted and discounted as well.
PMUBusy(p) ==
    /\ Goto(p, "locked", "exit")
    /\ FirstInstance(p) /\ ~tool[p].perf /\ PMUinUse
    /\ OpenSemaphore(p)
    /\ Release(p) /\ Discount(p)
    /\ UNCHANGED <<tool, watchdog, instances, counters, groups, uncore, rmid, needToRestoreNMIWatchdog,
                   programmed_pmu, allow_multiple_instances, todo, faults, disturbed>>

StartProgramming(p) ==
    /\ Goto(p, "locked", "cores")
    /\ FirstInstance(p) /\ (tool[p].perf \/ ~PMUinUse)
    /\ instances' = IF allow_multiple_instances[p] THEN instances + 1 ELSE instances
    /\ OpenSemaphore(p)
    /\ programmed_pmu' = [programmed_pmu EXCEPT ![p] = TRUE]
    /\ todo' = [todo EXCEPT ![p] = Cores]
    /\ UNCHANGED <<tool, watchdog, lock, counters, groups, uncore, rmid, needToRestoreNMIWatchdog,
                   allow_multiple_instances, ghosts>>

\* programCoreCounters: another's direct programming is overwritten.
programCoreCounters(p, c) ==
    /\ pc[p] = "cores" /\ c \in todo[p]
    /\ todo' = [todo EXCEPT ![p] = @ \ {c}]
    /\ IF tool[p].perf
         THEN groups' = [groups EXCEPT ![c] = @ \cup {p}] /\ UNCHANGED <<counters, disturbed>>
         ELSE /\ counters' = [counters EXCEPT ![c] = p] /\ UNCHANGED groups
              /\ disturbed' = (disturbed \/ counters[c] # Nobody)
    /\ UNCHANGED <<tool, pc, watchdog, lock, instances, uncore, rmid, own, faults, discounted>>

\* perf_event_open fails, too many open files: discounted, and UnknownError.
PerfFails(p) ==
    /\ pc[p] = "cores" /\ tool[p].perf /\ todo[p] # {}
    /\ FaultToCome /\ faults' = faults + 1
    /\ pc' = [pc EXCEPT ![p] = "exit"]
    /\ instances' = Decremented(p)
    /\ Release(p) /\ Discount(p)
    /\ UNCHANGED <<tool, watchdog, counters, groups, uncore, rmid, own, todo, disturbed>>

\* ServerPCICFGUncore::program and programLLCReadMissLatencyEvents; Success.
programUncore(p) ==
    /\ Goto(p, "cores", "measure")
    /\ todo[p] = {}
    /\ uncore' = p
    /\ Release(p)
    /\ UNCHANGED <<tool, watchdog, instances, counters, groups, rmid, own, todo, ghosts>>

(***************************************************************************)
(* Measuring, and the command MySystem starts.  The child of a fork whose  *)
(* exec fails calls exit, and so the exit handler, with the parent's state.*)
(***************************************************************************)
FinishMeasuring(p) ==
    /\ Goto(p, "measure", "exit")
    /\ UNCHANGED <<tool, machine, own, todo, ghosts>>

\* Mutant: every instance thinks it is the last.
AlwaysLast(p) == TRUE

\* Mutant: an instance that joined leaves the others' programming, even when it is the last.
LastIfProgrammed(p) == LastInstance(p) /\ programmed_pmu[p]

\* Whether cleanup zeroes the counters: only the last instance does.
CleansPMU(p) == LastInstance(p)

\* Mutant: the watchdog is restored by the instance that zeroes the counters.
RestoresIfProgrammed(p) == needToRestoreNMIWatchdog[p] /\ programmed_pmu[p]

RestoresWatchdog(p) == needToRestoreNMIWatchdog[p]

ExecFails(p) ==
    /\ pc[p] = "measure"
    /\ FaultToCome /\ faults' = faults + 1
    /\ allow_multiple_instances[p] => lock = Nobody
    /\ pc' \in {[pc EXCEPT ![p] = "exit"], pc}       \* SIGCHLD ends a parent that does not block
    /\ counters' = IF CleansPMU(p) /\ ~tool[p].perf THEN [c \in Cores |-> Nobody] ELSE counters
    /\ instances' = Decremented(p)
    /\ uncore' = Nobody /\ rmid' = Nobody
    /\ watchdog' = (watchdog \/ RestoresWatchdog(p))
    /\ disturbed' = TRUE
    /\ UNCHANGED <<tool, lock, groups, own, todo, discounted>>

(***************************************************************************)
(* exit_cleanup: signals take their default action from here on.           *)
(***************************************************************************)
EnterCleanup(p) ==
    /\ Goto(p, "exit", "cleanup")
    /\ Acquire(p)
    /\ UNCHANGED <<tool, watchdog, instances, counters, groups, uncore, rmid, own, todo, ghosts>>

\* An instance that was refused discounts another's: that one is no longer known.
decrementInstanceSemaphore(p) ==
    /\ Goto(p, "cleanup", IF CleansPMU(p) THEN "zero" ELSE "zero uncore")
    /\ instances' = Decremented(p)
    /\ todo' = [todo EXCEPT ![p] = Cores]
    /\ disturbed' = (disturbed \/ (p \in discounted /\ instances > 0 /\ ~tool[p].perf))
    /\ UNCHANGED <<tool, watchdog, lock, counters, groups, uncore, rmid, own, faults, discounted>>

\* cleanupPMU, core by core: perf handles are closed, registers are zeroed whoever set them.
cleanupPMU(p, c) ==
    /\ pc[p] = "zero" /\ c \in todo[p]
    /\ todo' = [todo EXCEPT ![p] = @ \ {c}]
    /\ IF tool[p].perf THEN groups' = [groups EXCEPT ![c] = @ \ {p}] /\ UNCHANGED counters
                       ELSE counters' = [counters EXCEPT ![c] = Nobody] /\ UNCHANGED groups
    /\ UNCHANGED <<tool, pc, watchdog, lock, instances, uncore, rmid, own, ghosts>>

ZeroedPMU(p) ==
    /\ Goto(p, "zero", "zero uncore")
    /\ todo[p] = {}
    /\ UNCHANGED <<tool, machine, own, todo, ghosts>>

\* cleanupUncorePMUs and freeRMID, of whoever programmed them.
cleanupUncorePMUs(p) ==
    /\ Goto(p, "zero uncore", "watchdog on")
    /\ uncore' = Nobody /\ rmid' = Nobody
    /\ UNCHANGED <<tool, watchdog, lock, instances, counters, groups, own, todo, ghosts>>

\* Mutant: the lock is left to the exit of the process.
KeepLock(p) == UNCHANGED lock

Unlock(p) == Release(p)

\* The watchdog, the lock's destructor and _exit, which closes what is open.
LeaveCleanup(p) ==
    /\ Goto(p, "watchdog on", "gone")
    /\ watchdog' = (watchdog \/ RestoresWatchdog(p))
    /\ needToRestoreNMIWatchdog' = [needToRestoreNMIWatchdog EXCEPT ![p] = FALSE]
    /\ groups' = [c \in Cores |-> groups[c] \ {p}]
    /\ Unlock(p)
    /\ UNCHANGED <<tool, instances, counters, uncore, rmid, programmed_pmu, allow_multiple_instances,
                   numInstancesSemaphore, todo, ghosts>>

(***************************************************************************)
(* Signals and kills.                                                      *)
(***************************************************************************)
\* The handler waits for a lock that its own thread holds: of getInstance in the constructor,
\* of program afterwards.
SignalUnderLock(p) ==
    /\ pc[p] \in {"start", "disable", "flag", "objects"} \cup InProgram
    /\ FaultToCome /\ faults' = faults + 1
    /\ pc' = [pc EXCEPT ![p] = "stuck"]
    /\ UNCHANGED <<tool, machine, own, todo, disturbed, discounted>>

\* While it waits for the lock with -m, its semaphore pointer is NULL: "last instance".
SignalElsewhere(p) ==
    /\ pc[p] \in {"arguments", "program", "measure"}
    /\ pc[p] = "program" => allow_multiple_instances[p] /\ FaultToCome
    /\ faults' = IF pc[p] = "program" THEN faults + 1 ELSE faults
    /\ disturbed' = (disturbed \/ pc[p] = "program")
    /\ pc' = [pc EXCEPT ![p] = "exit"]
    /\ UNCHANGED <<tool, machine, own, todo, discounted>>

\* SIGKILL, or a second signal in the cleanup: the kernel closes the perf groups, no more.
Kill(p) ==
    /\ pc[p] \notin Gone \cup {"start"}
    /\ FaultToCome /\ faults' = faults + 1
    /\ pc' = [pc EXCEPT ![p] = "killed"]
    /\ groups' = [c \in Cores |-> groups[c] \ {p}]
    /\ disturbed' = TRUE
    /\ UNCHANGED <<tool, watchdog, lock, instances, counters, uncore, rmid, own, todo, discounted>>

Step(p) ==
    \/ isNMIWatchdogEnabled(p) \/ disableNMIWatchdog(p) \/ SetNeedToRestore(p) \/ initRMID(p)
    \/ resetPMU(p) \/ CallProgram(p) \/ programServerUncoreMemoryMetrics(p)
    \/ EnterProgram(p) \/ JoinOthers(p) \/ RefusedByPerf(p) \/ PMUBusy(p) \/ StartProgramming(p)
    \/ (\E c \in Cores : programCoreCounters(p, c)) \/ programUncore(p)
    \/ FinishMeasuring(p)
    \/ EnterCleanup(p) \/ decrementInstanceSemaphore(p)
    \/ (\E c \in Cores : cleanupPMU(p, c)) \/ ZeroedPMU(p)
    \/ cleanupUncorePMUs(p) \/ LeaveCleanup(p)

Fault(p) == \/ BadArguments(p) \/ PerfFails(p) \/ ExecFails(p)
            \/ SignalUnderLock(p) \/ SignalElsewhere(p) \/ Kill(p)

Next == \E p \in Procs : Step(p) \/ Fault(p)

\* A process that can go on does; a measurement is as long as its command.
Spec == Init /\ [][Next]_vars /\ \A p \in Procs : WF_vars(Step(p))

-----------------------------------------------------------------------------
TypeOK ==
    /\ tool \in Fleets
    /\ pc \in [Procs -> Places]
    /\ watchdog \in BOOLEAN /\ disturbed \in BOOLEAN
    /\ lock \in Procs \cup {Nobody} /\ uncore \in Procs \cup {Nobody} /\ rmid \in Procs \cup {Nobody}
    /\ instances \in 0 .. Cardinality(Procs) /\ faults \in 0 .. MaxFaults[Cardinality(DOMAIN tool)]
    /\ counters \in [Cores -> Procs \cup {Nobody}]
    /\ groups \in [Cores -> SUBSET Procs]
    /\ needToRestoreNMIWatchdog \in [Procs -> BOOLEAN] /\ programmed_pmu \in [Procs -> BOOLEAN]
    /\ allow_multiple_instances \in [Procs -> BOOLEAN] /\ numInstancesSemaphore \in [Procs -> BOOLEAN]
    /\ todo \in [Procs -> SUBSET Cores] /\ discounted \in SUBSET Procs

\* The watchdog is off only while somebody is there to turn it on again, or was killed or got
\* stuck: whatever the processes that found it off do, the ones that left did not leave it off.
WatchdogComesBack ==
    ~watchdog => \E p \in Procs : pc[p] \in {"flag", "stuck", "killed"} \/ needToRestoreNMIWatchdog[p]

\* The instances with -m go through perf all of them or none: "already programmed since another
\* instance exists" (cpucounters.cpp) is not so when the other one programmed perf events.
Alike == \A p, q \in DOMAIN tool : tool[p].multi /\ tool[q].multi => tool[p].perf = tool[q].perf

\* Nobody's counters are taken away while it measures: instances with -m share one programming,
\* which lasts until the last of them leaves, and whoever comes without -m finds the PMU busy.
\* Not so after -r, kill -9, a failed exec, a signal while waiting for the lock, when two tools
\* without the lock both find the PMU free, or when an instance that was refused leaves while
\* others are counted: those disturb.
CountersKept ==
    ~disturbed /\ Alike =>
        \A p \in Procs, c \in Cores :
            pc[p] = "measure" /\ tool[p].programs =>
                IF tool[p].perf THEN p \in groups[c]
                ELSE IF tool[p].multi THEN counters[c] # Nobody ELSE counters[c] = p

\* When all have left undisturbed, the machine is as they found it.
MachineLeftClean ==
    (\A p \in Procs : pc[p] = "gone") /\ ~disturbed /\ Alike =>
        /\ watchdog /\ lock = Nobody /\ instances = 0
        /\ \A c \in Cores : counters[c] = Nobody /\ groups[c] = {}
        /\ uncore = Nobody /\ rmid = Nobody

\* Without a fault every process gets the lock, measures, cleans up and leaves.
EveryoneLeaves == <>(faults > 0 \/ \A p \in Procs : pc[p] = "gone")

=============================================================================
