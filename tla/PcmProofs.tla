----------------------------- MODULE PcmProofs -----------------------------
(***************************************************************************)
(* Proofs about Pcm, for any number of processes, of cores and of faults:  *)
(* instances with -m are alone where the named lock is held; the NMI       *)
(* watchdog is never left off by processes that end in order; whoever      *)
(* measures reads its own programming; and the last to leave leaves the    *)
(* machine as the first found it.                                          *)
(***************************************************************************)
EXTENDS Pcm, WidthExtender, FiniteSetTheorems, TLAPS

\* The part of the types that the invariants below rest on.
Typed ==
    /\ tool \in UNION {[Started -> Tools] : Started \in SUBSET Procs}
    /\ pc \in [Procs -> Places]
    /\ \A p \in Procs : pc[p] # "gone" => p \in DOMAIN tool
    /\ watchdog \in BOOLEAN
    /\ needToRestoreNMIWatchdog \in [Procs -> BOOLEAN]
    /\ allow_multiple_instances \in [Procs -> BOOLEAN]

\* An instance with -m that is inside program() or cleanup() holds the lock.
LockHeld ==
    \A p \in Procs :
        pc[p] \in InProgram \cup InCleanup /\ allow_multiple_instances[p] => lock = p

\* Two instances with -m are never both between the lock and its release: what one reads of the
\* count of instances, no other changes before it has acted on it.
AloneUnderTheLock ==
    \A p, q \in Procs :
        /\ pc[p] \in InProgram \cup InCleanup /\ allow_multiple_instances[p]
        /\ pc[q] \in InProgram \cup InCleanup /\ allow_multiple_instances[q]
        => p = q

-----------------------------------------------------------------------------
\* Only processes of the fleet run, and none has a mark yet.
LEMMA TypedInit == Init => Typed
  <1> SUFFICES ASSUME Init PROVE Typed
    OBVIOUS
  <1>1. tool \in UNION {[Started -> Tools] : Started \in SUBSET Procs}
    BY ProcsAndFleets DEF Init
  <1> QED
    BY <1>1 DEF Init, Typed, Places, Gone

\* The flag that -m sets is a flag: a process that has arguments has a tool.
LEMMA MultiIsAFlag ==
  ASSUME Typed, NEW p \in Procs, pc[p] # "gone"
  PROVE  tool[p].multi \in BOOLEAN
  <1>1. PICK Started \in SUBSET Procs : tool \in [Started -> Tools]
    BY DEF Typed
  <1>2. tool[p] \in Tools
    BY <1>1 DEF Typed
  <1> QED
    BY <1>2 DEF Tools

\* Every step goes to a place of Places, and no process comes back from where it has gone.
LEMMA TypedNext == Typed /\ [Next]_vars => Typed'
  <1> SUFFICES ASSUME Typed, [Next]_vars PROVE Typed'
    OBVIOUS
  <1> USE DEF Typed, own, machine, ghosts, Goto
  <1>1. CASE UNCHANGED vars
    BY <1>1 DEF vars
  <1>2. ASSUME NEW p \in Procs, Step(p) PROVE Typed'
    <2>1. CASE isNMIWatchdogEnabled(p)
      BY <2>1 DEF isNMIWatchdogEnabled, Places
    <2>2. CASE disableNMIWatchdog(p)
      BY <2>2 DEF disableNMIWatchdog, Places
    <2>3. CASE SetNeedToRestore(p)
      BY <2>3 DEF SetNeedToRestore, Places
    <2>4. CASE initRMID(p)
      BY <2>4 DEF initRMID, Places
    <2>5. CASE resetPMU(p) \/ CallProgram(p)
      <3>1. tool[p].multi \in BOOLEAN
        BY <2>5, MultiIsAFlag DEF resetPMU, CallProgram
      <3> QED
        BY <2>5, <3>1 DEF resetPMU, CallProgram, allowMultipleInstances, Places
    <2>6. CASE programServerUncoreMemoryMetrics(p)
      BY <2>6 DEF programServerUncoreMemoryMetrics, Places
    <2>7. CASE EnterProgram(p)
      BY <2>7 DEF EnterProgram, Places, InProgram
    <2>8. CASE JoinOthers(p)
      BY <2>8 DEF JoinOthers, Places
    <2>9. CASE RefusedByPerf(p)
      BY <2>9 DEF RefusedByPerf, Places
    <2>10. CASE PMUBusy(p)
      BY <2>10 DEF PMUBusy, Places
    <2>11. CASE StartProgramming(p)
      BY <2>11 DEF StartProgramming, Places, InProgram
    <2>12. ASSUME NEW c \in Cores, programCoreCounters(p, c) PROVE Typed'
      BY <2>12 DEF programCoreCounters
    <2>13. CASE programUncore(p)
      BY <2>13 DEF programUncore, Places
    <2>14. CASE FinishMeasuring(p)
      BY <2>14 DEF FinishMeasuring, Places
    <2>15. CASE EnterCleanup(p)
      BY <2>15 DEF EnterCleanup, Places, InCleanup
    <2>16. CASE decrementInstanceSemaphore(p)
      BY <2>16 DEF decrementInstanceSemaphore, Places, InCleanup
    <2>17. ASSUME NEW c \in Cores, cleanupPMU(p, c) PROVE Typed'
      BY <2>17 DEF cleanupPMU
    <2>18. CASE ZeroedPMU(p)
      BY <2>18 DEF ZeroedPMU, Places, InCleanup
    <2>19. CASE cleanupUncorePMUs(p)
      BY <2>19 DEF cleanupUncorePMUs, Places, InCleanup
    <2>20. CASE LeaveCleanup(p)
      BY <2>20 DEF LeaveCleanup, RestoresWatchdog, Places, Gone
    <2> QED
      BY <1>2, <2>1, <2>2, <2>3, <2>4, <2>5, <2>6, <2>7, <2>8, <2>9, <2>10, <2>11, <2>12,
         <2>13, <2>14, <2>15, <2>16, <2>17, <2>18, <2>19, <2>20 DEF Step
  <1>3. ASSUME NEW p \in Procs, Fault(p) PROVE Typed'
    <2>1. CASE BadArguments(p)
      BY <2>1 DEF BadArguments, Places
    <2>2. CASE PerfFails(p)
      BY <2>2 DEF PerfFails, Places
    <2>3. CASE ExecFails(p)
      BY <2>3 DEF ExecFails, RestoresWatchdog, Places
    <2>4. CASE SignalUnderLock(p)
      BY <2>4 DEF SignalUnderLock, Places, InProgram
    <2>5. CASE SignalElsewhere(p)
      BY <2>5 DEF SignalElsewhere, Places
    <2>6. CASE Kill(p)
      BY <2>6 DEF Kill, Places, Gone
    <2> QED
      BY <1>3, <2>1, <2>2, <2>3, <2>4, <2>5, <2>6 DEF Fault
  <1> QED
    BY <1>1, <1>2, <1>3 DEF Next

-----------------------------------------------------------------------------
\* Who turns the watchdog off notes so in the next step, or is killed or stuck before it; the
\* note is torn up only together with turning it on.
LEMMA WatchdogNext == Typed /\ WatchdogComesBack /\ [Next]_vars => WatchdogComesBack'
  <1> SUFFICES ASSUME Typed, WatchdogComesBack, [Next]_vars PROVE WatchdogComesBack'
    OBVIOUS
  <1> USE DEF Typed, WatchdogComesBack, own, machine, ghosts, Goto
  <1>1. CASE UNCHANGED vars
    BY <1>1 DEF vars
  <1>2. ASSUME NEW p \in Procs, disableNMIWatchdog(p) PROVE WatchdogComesBack'
    BY <1>2 DEF disableNMIWatchdog
  <1>3. ASSUME NEW p \in Procs, SetNeedToRestore(p) PROVE WatchdogComesBack'
    BY <1>3 DEF SetNeedToRestore
  <1>4. ASSUME NEW p \in Procs, LeaveCleanup(p) PROVE WatchdogComesBack'
    BY <1>4 DEF LeaveCleanup, RestoresWatchdog
  <1>5. ASSUME NEW p \in Procs, ExecFails(p) PROVE WatchdogComesBack'
    BY <1>5 DEF ExecFails, RestoresWatchdog
  <1>6. ASSUME NEW p \in Procs, SignalUnderLock(p) \/ Kill(p) PROVE WatchdogComesBack'
    BY <1>6 DEF SignalUnderLock, Kill, Gone
  \* Every other step leaves the watchdog and the notes alone, and the places that count too.
  <1>7. ASSUME NEW p \in Procs,
               \/ UNCHANGED pc
               \/ pc[p] \notin {"flag", "stuck", "killed"} /\ \E to : pc' = [pc EXCEPT ![p] = to],
               UNCHANGED <<watchdog, needToRestoreNMIWatchdog>>
        PROVE  WatchdogComesBack'
    BY <1>7
  <1>8. ASSUME NEW p \in Procs, Step(p) PROVE WatchdogComesBack'
    <2>1. CASE isNMIWatchdogEnabled(p) \/ initRMID(p)
      BY <2>1, <1>7 DEF isNMIWatchdogEnabled, initRMID
    <2>2. CASE resetPMU(p) \/ CallProgram(p) \/ programServerUncoreMemoryMetrics(p)
      BY <2>2, <1>7 DEF resetPMU, CallProgram, programServerUncoreMemoryMetrics
    <2>3. CASE EnterProgram(p) \/ JoinOthers(p) \/ RefusedByPerf(p)
      BY <2>3, <1>7 DEF EnterProgram, JoinOthers, RefusedByPerf
    <2>4. CASE PMUBusy(p) \/ StartProgramming(p)
      BY <2>4, <1>7 DEF PMUBusy, StartProgramming
    <2>5. ASSUME NEW c \in Cores, programCoreCounters(p, c) \/ cleanupPMU(p, c)
          PROVE  WatchdogComesBack'
      BY <2>5, <1>7 DEF programCoreCounters, cleanupPMU
    <2>6. CASE programUncore(p) \/ FinishMeasuring(p) \/ EnterCleanup(p)
      BY <2>6, <1>7 DEF programUncore, FinishMeasuring, EnterCleanup
    <2>7. CASE decrementInstanceSemaphore(p) \/ ZeroedPMU(p) \/ cleanupUncorePMUs(p)
      BY <2>7, <1>7 DEF decrementInstanceSemaphore, ZeroedPMU, cleanupUncorePMUs
    <2> QED
      BY <1>2, <1>3, <1>4, <1>8, <2>1, <2>2, <2>3, <2>4, <2>5, <2>6, <2>7 DEF Step
  <1>9. ASSUME NEW p \in Procs, Fault(p) PROVE WatchdogComesBack'
    <2>1. CASE BadArguments(p) \/ PerfFails(p) \/ SignalElsewhere(p)
      BY <2>1, <1>7 DEF BadArguments, PerfFails, SignalElsewhere
    <2> QED
      BY <1>5, <1>6, <1>9, <2>1 DEF Fault
  <1> QED
    BY <1>1, <1>8, <1>9 DEF Next

\* What the watchdog of the machine is owed: whatever processes found it off and whoever was
\* interrupted, it is off only while somebody is there to turn it on, or was killed or got stuck.
THEOREM WatchdogIsRestored == Spec => []WatchdogComesBack
  <1>1. Init => WatchdogComesBack
    BY DEF Init, WatchdogComesBack
  <1> QED
    BY <1>1, TypedInit, TypedNext, WatchdogNext, PTL DEF Spec

-----------------------------------------------------------------------------
\* At first nobody is inside.
LEMMA LockHeldInit == Init => LockHeld
  BY DEF Init, LockHeld, InProgram, InCleanup

\* Who comes in takes the lock, who leaves gives it back, and nobody is given -m inside.
LEMMA LockHeldNext == Typed /\ LockHeld /\ [Next]_vars => LockHeld'
  <1> SUFFICES ASSUME Typed, LockHeld, [Next]_vars PROVE LockHeld'
    OBVIOUS
  <1> USE DEF Typed, LockHeld, own, machine, ghosts, Goto, InProgram, InCleanup
  <1>0. Nobody \notin Procs
    BY ProcsAndFleets
  <1>1. CASE UNCHANGED vars
    BY <1>1 DEF vars
  \* Comes in.
  <1>2. ASSUME NEW p \in Procs, NEW to, pc' = [pc EXCEPT ![p] = to], Acquire(p),
               UNCHANGED allow_multiple_instances
        PROVE  LockHeld'
    BY <1>0, <1>2 DEF Acquire
  \* Leaves.
  <1>3. ASSUME NEW p \in Procs, NEW to \in {"measure", "exit", "gone"},
               pc[p] \in InProgram \cup InCleanup,
               pc' = [pc EXCEPT ![p] = to], Release(p), UNCHANGED allow_multiple_instances
        PROVE  LockHeld'
    BY <1>0, <1>3 DEF Release
  \* Goes on, inside or outside.
  <1>4. ASSUME NEW p \in Procs, NEW to, pc' = [pc EXCEPT ![p] = to],
               to \in InProgram \cup InCleanup => pc[p] \in InProgram \cup InCleanup,
               UNCHANGED <<lock, allow_multiple_instances>>
        PROVE  LockHeld'
    BY <1>4
  <1>5. ASSUME NEW p \in Procs, Step(p) PROVE LockHeld'
    <2>1. CASE isNMIWatchdogEnabled(p) \/ disableNMIWatchdog(p) \/ SetNeedToRestore(p)
      <3>1. PICK to \in {"disable", "objects", "flag"} : pc' = [pc EXCEPT ![p] = to]
        BY <2>1 DEF isNMIWatchdogEnabled, disableNMIWatchdog, SetNeedToRestore
      <3>2. UNCHANGED <<lock, allow_multiple_instances>>
        BY <2>1 DEF isNMIWatchdogEnabled, disableNMIWatchdog, SetNeedToRestore
      <3> QED
        BY <3>1, <3>2, <1>4
    <2>2. CASE initRMID(p) \/ programServerUncoreMemoryMetrics(p) \/ FinishMeasuring(p)
      <3>1. PICK to \in {"arguments", "measure", "exit"} : pc' = [pc EXCEPT ![p] = to]
        BY <2>2 DEF initRMID, programServerUncoreMemoryMetrics, FinishMeasuring
      <3>2. UNCHANGED <<lock, allow_multiple_instances>>
        BY <2>2 DEF initRMID, programServerUncoreMemoryMetrics, FinishMeasuring
      <3> QED
        BY <3>1, <3>2, <1>4
    <2>3. CASE resetPMU(p) \/ CallProgram(p)
      <3>1. /\ pc' = [pc EXCEPT ![p] = "program"] /\ UNCHANGED lock
            /\ allow_multiple_instances' = [allow_multiple_instances EXCEPT ![p] = tool[p].multi]
        BY <2>3 DEF resetPMU, CallProgram, allowMultipleInstances
      <3> QED
        BY <3>1
    <2>4. CASE EnterProgram(p)
      BY <2>4, <1>2 DEF EnterProgram
    <2>5. CASE EnterCleanup(p)
      BY <2>5, <1>2 DEF EnterCleanup
    <2>6. CASE JoinOthers(p)
      BY <2>6, <1>3 DEF JoinOthers
    <2>7. CASE RefusedByPerf(p)
      BY <2>7, <1>3 DEF RefusedByPerf
    <2>8. CASE PMUBusy(p)
      BY <2>8, <1>3 DEF PMUBusy
    <2>9. CASE StartProgramming(p)
      BY <2>9, <1>4 DEF StartProgramming
    <2>10. ASSUME NEW c \in Cores, programCoreCounters(p, c) \/ cleanupPMU(p, c)
           PROVE  LockHeld'
      BY <2>10 DEF programCoreCounters, cleanupPMU
    <2>11. CASE programUncore(p)
      BY <2>11, <1>3 DEF programUncore
    <2>12. CASE decrementInstanceSemaphore(p)
      BY <2>12, <1>4 DEF decrementInstanceSemaphore
    <2>13. CASE ZeroedPMU(p) \/ cleanupUncorePMUs(p)
      BY <2>13, <1>4 DEF ZeroedPMU, cleanupUncorePMUs
    <2>14. CASE LeaveCleanup(p)
      BY <2>14, <1>3 DEF LeaveCleanup, Unlock
    <2> QED
      BY <1>5, <2>1, <2>2, <2>3, <2>4, <2>5, <2>6, <2>7, <2>8, <2>9, <2>10, <2>11, <2>12,
         <2>13, <2>14 DEF Step
  <1>6. ASSUME NEW p \in Procs, Fault(p) PROVE LockHeld'
    <2>1. CASE BadArguments(p) \/ SignalUnderLock(p) \/ SignalElsewhere(p) \/ Kill(p)
      <3>1. PICK to \in {"exit", "stuck", "killed"} : pc' = [pc EXCEPT ![p] = to]
        BY <2>1 DEF BadArguments, SignalUnderLock, SignalElsewhere, Kill
      <3>2. UNCHANGED <<lock, allow_multiple_instances>>
        BY <2>1 DEF BadArguments, SignalUnderLock, SignalElsewhere, Kill
      <3> QED
        BY <3>1, <3>2, <1>4
    <2>2. CASE ExecFails(p)
      BY <2>2 DEF ExecFails
    <2>3. CASE PerfFails(p)
      BY <2>3, <1>3 DEF PerfFails
    <2> QED
      BY <1>6, <2>1, <2>2, <2>3 DEF Fault
  <1> QED
    BY <1>1, <1>5, <1>6 DEF Next

\* With -m, however many instances there are and whoever of them is killed inside, at most one
\* is between taking and giving back the lock.
THEOREM AloneInside == Spec => []AloneUnderTheLock
  <1>1. LockHeld => AloneUnderTheLock
    BY DEF LockHeld, AloneUnderTheLock
  <1> QED
    BY <1>1, TypedInit, TypedNext, LockHeldInit, LockHeldNext, PTL DEF Spec

-----------------------------------------------------------------------------
(***************************************************************************)
(* The counters.  The strengthening: the types of what belongs to the      *)
(* machine; what the flags of a process tell of where it is (Flags); whose *)
(* the traces on the machine are (Traces, Owed); that the semaphore counts *)
(* the instances (Counting); and that a core that a process programmed is  *)
(* as it left it until it cleans up (PerfKept, Held).                      *)
(***************************************************************************)
MachineTyped ==
    /\ lock \in Procs \cup {Nobody} /\ uncore \in Procs \cup {Nobody} /\ rmid \in Procs \cup {Nobody}
    /\ instances \in Nat
    /\ counters \in [Cores -> Procs \cup {Nobody}]
    /\ groups \in [Cores -> SUBSET Procs]
    /\ programmed_pmu \in [Procs -> BOOLEAN] /\ numInstancesSemaphore \in [Procs -> BOOLEAN]
    /\ todo \in [Procs -> SUBSET Cores]
    /\ disturbed \in BOOLEAN /\ discounted \in SUBSET Procs

Early == {"start", "disable", "flag", "objects", "arguments"}

\* Where a process is tells whether -m is in force, whether it programmed and is counted.
Flags(p) ==
    /\ pc[p] \in Early => ~allow_multiple_instances[p]
    /\ pc[p] \in Early \cup {"program", "locked"} => ~numInstancesSemaphore[p] /\ ~programmed_pmu[p]
    /\ pc[p] \in {"program", "locked", "cores"} => tool[p].programs
    /\ pc[p] \in {"program", "locked", "cores", "measure"} /\ tool[p].programs =>
          allow_multiple_instances[p] = tool[p].multi
    /\ pc[p] = "cores" => programmed_pmu[p]
    /\ pc[p] = "measure" /\ tool[p].programs =>
          programmed_pmu[p] \/ (allow_multiple_instances[p] /\ ~tool[p].perf)
    /\ pc[p] \in {"cores", "measure"} /\ allow_multiple_instances[p] => numInstancesSemaphore[p]
    /\ numInstancesSemaphore[p] => allow_multiple_instances[p]
    /\ allow_multiple_instances[p] => p \in DOMAIN tool /\ tool[p].multi
    /\ ~disturbed /\ pc[p] \in {"exit", "cleanup"} /\ allow_multiple_instances[p] => numInstancesSemaphore[p]
    /\ p \in discounted => pc[p] \in {"exit"} \cup InCleanup \cup Gone
    /\ pc[p] = "zero" /\ ~allow_multiple_instances[p] => programmed_pmu[p]
    /\ pc[p] = "gone" => ~needToRestoreNMIWatchdog[p]

AllFlags == \A p \in Procs : Flags(p)

\* Who is stuck in program() with -m holds the lock for ever.
StuckHolds == \A p \in Procs : pc[p] = "stuck" /\ allow_multiple_instances[p] => lock = p

\* What a process leaves of itself on the machine it takes away before it is gone.
Traces ==
    /\ lock \in Procs => pc[lock] \in InProgram \cup InCleanup \cup {"stuck", "killed"}
    /\ rmid \in Procs => pc[rmid] \notin {"start", "disable", "flag", "objects", "watchdog on", "gone"}
    /\ uncore \in Procs => pc[uncore] \in {"measure", "exit", "cleanup", "zero", "zero uncore", "killed"}
    /\ \A c \in Cores : \A p \in groups[c] : pc[p] # "gone"

\* Whoever programmed a core through perf has its group there until it cleans up.
PerfKept ==
    \A p \in Procs, c \in Cores :
        /\ programmed_pmu[p] /\ (pc[p] = "measure" \/ (pc[p] = "cores" /\ c \notin todo[p]))
        /\ tool[p].perf
        => p \in groups[c]

\* The instances that the semaphore counts, a refusal and a cleanup having discounted others.
Counted(p) ==
    /\ allow_multiple_instances[p] /\ numInstancesSemaphore[p] /\ p \notin discounted
    /\ pc[p] \in {"cores", "measure", "exit", "cleanup", "stuck"}
Countees == {p \in Procs : Counted(p)}

AllDirect == \A p \in DOMAIN tool : tool[p].multi => ~tool[p].perf

\* Never more are counted than there are; with perf a refused instance may discount another's.
Counting ==
    ~disturbed => /\ instances <= Cardinality(Countees)
                  /\ AllDirect => instances = Cardinality(Countees)

Quiet == ~disturbed /\ Alike

\* Core c is programmed by p, which has not taken that back.
Holds(p, c) ==
    /\ \/ pc[p] = "cores" /\ c \notin todo[p]
       \/ /\ pc[p] \in {"measure", "exit", "cleanup"}
          /\ IF allow_multiple_instances[p] THEN Counted(p) ELSE programmed_pmu[p]
       \/ pc[p] = "zero" /\ c \in todo[p]
    /\ ~tool[p].perf

\* Without -m a core is held alone; with -m any of the instances may have programmed it.
HeldBy(p, c) ==
    IF allow_multiple_instances[p] THEN counters[c] \in Procs /\ allow_multiple_instances[counters[c]]
                                   ELSE counters[c] = p
Held == Quiet => \A p \in Procs, c \in Cores : Holds(p, c) => HeldBy(p, c)

\* The last instance zeroes the counters when nobody is counted any more.
LastIsAlone ==
    Quiet => \A p \in Procs : pc[p] = "zero" /\ allow_multiple_instances[p] /\ ~tool[p].perf => Countees = {}

\* Who programmed a core is still to take that back, or another instance is.
Owes(q, c) ==
    /\ ~tool[q].perf
    /\ allow_multiple_instances[q] =>
          Countees # {} \/ \E p \in Procs : pc[p] = "zero" /\ allow_multiple_instances[p] /\ c \in todo[p]
    /\ ~allow_multiple_instances[q] => Holds(q, c) \/ pc[q] = "stuck"
Owed == Quiet => \A q \in Procs, c \in Cores : counters[c] = q => Owes(q, c)

-----------------------------------------------------------------------------
\* What a step of p leaves alone: the tools, and what belongs to the others.
LEMMA Frame ==
    ASSUME Typed, MachineTyped, NEW p \in Procs, Step(p) \/ Fault(p)
    PROVE  /\ UNCHANGED tool /\ (disturbed => disturbed')
           /\ \A q \in Procs \ {p} :
                 /\ pc'[q] = pc[q] /\ todo'[q] = todo[q] /\ programmed_pmu'[q] = programmed_pmu[q]
                 /\ numInstancesSemaphore'[q] = numInstancesSemaphore[q]
                 /\ allow_multiple_instances'[q] = allow_multiple_instances[q]
                 /\ needToRestoreNMIWatchdog'[q] = needToRestoreNMIWatchdog[q]
                 /\ (q \in discounted' <=> q \in discounted)
  <1> DEFINE Goal == /\ UNCHANGED tool /\ (disturbed => disturbed')
                     /\ \A q \in Procs \ {p} :
                           /\ pc'[q] = pc[q] /\ todo'[q] = todo[q] /\ programmed_pmu'[q] = programmed_pmu[q]
                           /\ numInstancesSemaphore'[q] = numInstancesSemaphore[q]
                           /\ allow_multiple_instances'[q] = allow_multiple_instances[q]
                           /\ needToRestoreNMIWatchdog'[q] = needToRestoreNMIWatchdog[q]
                           /\ (q \in discounted' <=> q \in discounted)
  <1>0. /\ pc \in [Procs -> Places] /\ todo \in [Procs -> SUBSET Cores]
        /\ programmed_pmu \in [Procs -> BOOLEAN] /\ numInstancesSemaphore \in [Procs -> BOOLEAN]
        /\ allow_multiple_instances \in [Procs -> BOOLEAN] /\ needToRestoreNMIWatchdog \in [Procs -> BOOLEAN]
    BY DEF Typed, MachineTyped
  <1> USE DEF Goto, machine, own, ghosts
  <1>1. CASE isNMIWatchdogEnabled(p)
    BY <1>0, <1>1 DEF isNMIWatchdogEnabled
  <1>2. CASE disableNMIWatchdog(p)
    BY <1>0, <1>2 DEF disableNMIWatchdog
  <1>3. CASE SetNeedToRestore(p)
    BY <1>0, <1>3 DEF SetNeedToRestore
  <1>4. CASE initRMID(p)
    BY <1>0, <1>4 DEF initRMID
  <1>5. CASE resetPMU(p)
    BY <1>0, <1>5 DEF resetPMU, allowMultipleInstances
  <1>6. CASE CallProgram(p)
    BY <1>0, <1>6 DEF CallProgram, allowMultipleInstances
  <1>7. CASE programServerUncoreMemoryMetrics(p)
    BY <1>0, <1>7 DEF programServerUncoreMemoryMetrics
  <1>8. CASE EnterProgram(p)
    BY <1>0, <1>8 DEF EnterProgram, Acquire
  <1>9. CASE JoinOthers(p)
    BY <1>0, <1>9 DEF JoinOthers, OpenSemaphore, Release
  <1>10. CASE RefusedByPerf(p)
    BY <1>0, <1>10 DEF RefusedByPerf, OpenSemaphore, Release, Discount
  <1>11. CASE PMUBusy(p)
    BY <1>0, <1>11 DEF PMUBusy, OpenSemaphore, Release, Discount
  <1>12. CASE StartProgramming(p)
    BY <1>0, <1>12 DEF StartProgramming, OpenSemaphore
  <1>13. ASSUME NEW c \in Cores, programCoreCounters(p, c)
        PROVE  Goal
    BY <1>0, <1>13 DEF programCoreCounters
  <1>14. CASE programUncore(p)
    BY <1>0, <1>14 DEF programUncore, Release
  <1>15. CASE FinishMeasuring(p)
    BY <1>0, <1>15 DEF FinishMeasuring
  <1>16. CASE EnterCleanup(p)
    BY <1>0, <1>16 DEF EnterCleanup, Acquire
  <1>17. CASE decrementInstanceSemaphore(p)
    BY <1>0, <1>17 DEF decrementInstanceSemaphore, Decremented
  <1>18. ASSUME NEW c \in Cores, cleanupPMU(p, c)
        PROVE  Goal
    BY <1>0, <1>18 DEF cleanupPMU
  <1>19. CASE ZeroedPMU(p)
    BY <1>0, <1>19 DEF ZeroedPMU
  <1>20. CASE cleanupUncorePMUs(p)
    BY <1>0, <1>20 DEF cleanupUncorePMUs
  <1>21. CASE LeaveCleanup(p)
    BY <1>0, <1>21 DEF LeaveCleanup, RestoresWatchdog, Unlock, Release
  <1>22. CASE BadArguments(p)
    BY <1>0, <1>22 DEF BadArguments
  <1>23. CASE PerfFails(p)
    BY <1>0, <1>23 DEF PerfFails, Decremented, Release, Discount
  <1>24. CASE ExecFails(p)
    BY <1>0, <1>24 DEF ExecFails, Decremented, RestoresWatchdog
  <1>25. CASE SignalUnderLock(p)
    BY <1>0, <1>25 DEF SignalUnderLock
  <1>26. CASE SignalElsewhere(p)
    BY <1>0, <1>26 DEF SignalElsewhere
  <1>27. CASE Kill(p)
    BY <1>0, <1>27 DEF Kill
  <1> QED
    BY <1>1, <1>2, <1>3, <1>4, <1>5, <1>6, <1>7, <1>8, <1>9, <1>10, <1>11, <1>12, <1>13, <1>14,
       <1>15, <1>16, <1>17, <1>18, <1>19, <1>20, <1>21, <1>22, <1>23, <1>24, <1>25, <1>26, <1>27 DEF
       Step, Fault

\* At first nothing is programmed and nobody is counted.
LEMMA MachineTypedInit == Init => MachineTyped
  <1> SUFFICES ASSUME Init PROVE MachineTyped
    OBVIOUS
  <1> QED
    BY DEF Init, MachineTyped

LEMMA DecrementedType ==
    ASSUME MachineTyped, NEW p \in Procs
    PROVE  Decremented(p) \in Nat
  BY DEF MachineTyped, Decremented

\* A step of p keeps the types of what belongs to the machine and of the ghosts.
LEMMA MachineTypedStep ==
    ASSUME Typed, MachineTyped, NEW p \in Procs, Step(p) \/ Fault(p)
    PROVE  MachineTyped'
  <1>0. \A q \in Procs : Decremented(q) \in Nat
    BY DecrementedType
  <1> USE DEF MachineTyped, Goto, machine, own, ghosts
  <1>1. CASE isNMIWatchdogEnabled(p)
    BY <1>1 DEF isNMIWatchdogEnabled
  <1>2. CASE disableNMIWatchdog(p)
    BY <1>2 DEF disableNMIWatchdog
  <1>3. CASE SetNeedToRestore(p)
    BY <1>3 DEF SetNeedToRestore
  <1>4. CASE initRMID(p)
    BY <1>4 DEF initRMID
  <1>5. CASE resetPMU(p)
    BY <1>5 DEF resetPMU, allowMultipleInstances
  <1>6. CASE CallProgram(p)
    BY <1>6 DEF CallProgram, allowMultipleInstances
  <1>7. CASE programServerUncoreMemoryMetrics(p)
    BY <1>7 DEF programServerUncoreMemoryMetrics
  <1>8. CASE EnterProgram(p)
    BY <1>8 DEF EnterProgram, Acquire
  <1>9. CASE JoinOthers(p)
    BY <1>9 DEF JoinOthers, OpenSemaphore, Release, Typed
  <1>10. CASE RefusedByPerf(p)
    BY <1>10 DEF RefusedByPerf, OpenSemaphore, Release, Discount, Typed
  <1>11. CASE PMUBusy(p)
    BY <1>11 DEF PMUBusy, OpenSemaphore, Release, Discount, Typed
  <1>12. CASE StartProgramming(p)
    BY <1>12 DEF StartProgramming, OpenSemaphore, Typed
  <1>13. ASSUME NEW c \in Cores, programCoreCounters(p, c)
        PROVE  MachineTyped'
    <2>1. CASE tool[p].perf
      <3>1. groups' = [groups EXCEPT ![c] = @ \cup {p}] /\ UNCHANGED <<counters, disturbed>>
        BY <1>13, <2>1 DEF programCoreCounters
      <3>2. groups' \in [Cores -> SUBSET Procs]
        BY <3>1
      <3> QED
        BY <1>13, <3>1, <3>2 DEF programCoreCounters
    <2>2. CASE ~tool[p].perf
      <3>1. /\ counters' = [counters EXCEPT ![c] = p] /\ UNCHANGED groups
            /\ disturbed' = (disturbed \/ counters[c] # Nobody)
        BY <1>13, <2>2 DEF programCoreCounters
      <3>2. counters' \in [Cores -> Procs \cup {Nobody}]
        BY <3>1
      <3>3. disturbed' \in BOOLEAN
        BY <3>1
      <3> QED
        BY <1>13, <3>1, <3>2, <3>3 DEF programCoreCounters
    <2> QED
      BY <2>1, <2>2
  <1>14. CASE programUncore(p)
    BY <1>14 DEF programUncore, Release
  <1>15. CASE FinishMeasuring(p)
    BY <1>15 DEF FinishMeasuring
  <1>16. CASE EnterCleanup(p)
    BY <1>16 DEF EnterCleanup, Acquire
  <1>17. CASE decrementInstanceSemaphore(p)
    BY <1>17, <1>0 DEF decrementInstanceSemaphore
  <1>18. ASSUME NEW c \in Cores, cleanupPMU(p, c)
        PROVE  MachineTyped'
    BY <1>18 DEF cleanupPMU
  <1>19. CASE ZeroedPMU(p)
    BY <1>19 DEF ZeroedPMU
  <1>20. CASE cleanupUncorePMUs(p)
    BY <1>20 DEF cleanupUncorePMUs
  <1>21. CASE LeaveCleanup(p)
    BY <1>21 DEF LeaveCleanup, RestoresWatchdog, Unlock, Release
  <1>22. CASE BadArguments(p)
    BY <1>22 DEF BadArguments
  <1>23. CASE PerfFails(p)
    BY <1>23, <1>0 DEF PerfFails, Release, Discount
  <1>24. CASE ExecFails(p)
    BY <1>24, <1>0 DEF ExecFails, RestoresWatchdog
  <1>25. CASE SignalUnderLock(p)
    BY <1>25 DEF SignalUnderLock
  <1>26. CASE SignalElsewhere(p)
    BY <1>26 DEF SignalElsewhere
  <1>27. CASE Kill(p)
    BY <1>27 DEF Kill
  <1> QED
    BY <1>1, <1>2, <1>3, <1>4, <1>5, <1>6, <1>7, <1>8, <1>9, <1>10, <1>11, <1>12, <1>13, <1>14,
       <1>15, <1>16, <1>17, <1>18, <1>19, <1>20, <1>21, <1>22, <1>23, <1>24, <1>25, <1>26, <1>27 DEF
       Step, Fault

-----------------------------------------------------------------------------
LEMMA FlagsInit == Init => AllFlags
  <1> SUFFICES ASSUME Init, NEW p \in Procs PROVE Flags(p)
    BY DEF AllFlags
  <1> QED
    BY DEF Init, Flags, Early, InCleanup, Gone

\* A step of p keeps what the flags of p tell.
LEMMA FlagsHere ==
    ASSUME Typed, MachineTyped, NEW p \in Procs, Flags(p), Step(p) \/ Fault(p)
    PROVE  Flags(p)'
  <1>0. /\ pc \in [Procs -> Places] /\ programmed_pmu \in [Procs -> BOOLEAN]
        /\ numInstancesSemaphore \in [Procs -> BOOLEAN] /\ allow_multiple_instances \in [Procs -> BOOLEAN]
        /\ needToRestoreNMIWatchdog \in [Procs -> BOOLEAN] /\ disturbed \in BOOLEAN
        /\ pc[p] # "gone" => p \in DOMAIN tool
    BY DEF Typed, MachineTyped
  <1> USE DEF Flags, Early, InProgram, InCleanup, Gone, Goto, machine, own, ghosts
  <1>1. CASE isNMIWatchdogEnabled(p)
    BY <1>0, <1>1 DEF isNMIWatchdogEnabled
  <1>2. CASE disableNMIWatchdog(p)
    BY <1>0, <1>2 DEF disableNMIWatchdog
  <1>3. CASE SetNeedToRestore(p)
    BY <1>0, <1>3 DEF SetNeedToRestore
  <1>4. CASE initRMID(p)
    BY <1>0, <1>4 DEF initRMID
  <1>5. CASE resetPMU(p)
    BY <1>0, <1>5 DEF resetPMU, allowMultipleInstances
  <1>6. CASE CallProgram(p)
    BY <1>0, <1>6 DEF CallProgram, allowMultipleInstances
  <1>7. CASE programServerUncoreMemoryMetrics(p)
    BY <1>0, <1>7 DEF programServerUncoreMemoryMetrics
  <1>8. CASE EnterProgram(p)
    BY <1>0, <1>8 DEF EnterProgram
  <1>9. CASE JoinOthers(p)
    BY <1>0, <1>9 DEF JoinOthers, OpenSemaphore, FirstInstance
  <1>10. CASE RefusedByPerf(p)
    BY <1>0, <1>10 DEF RefusedByPerf, OpenSemaphore, Discount
  <1>11. CASE PMUBusy(p)
    BY <1>0, <1>11 DEF PMUBusy, OpenSemaphore, Discount
  <1>12. CASE StartProgramming(p)
    BY <1>0, <1>12 DEF StartProgramming, OpenSemaphore
  <1>13. ASSUME NEW c \in Cores, programCoreCounters(p, c)
        PROVE  Flags(p)'
    BY <1>0, <1>13 DEF programCoreCounters
  <1>14. CASE programUncore(p)
    BY <1>0, <1>14 DEF programUncore
  <1>15. CASE FinishMeasuring(p)
    BY <1>0, <1>15 DEF FinishMeasuring
  <1>16. CASE EnterCleanup(p)
    BY <1>0, <1>16 DEF EnterCleanup
  <1>17. CASE decrementInstanceSemaphore(p)
    BY <1>0, <1>17 DEF decrementInstanceSemaphore, CleansPMU, LastInstance
  <1>18. ASSUME NEW c \in Cores, cleanupPMU(p, c)
        PROVE  Flags(p)'
    BY <1>0, <1>18 DEF cleanupPMU
  <1>19. CASE ZeroedPMU(p)
    BY <1>0, <1>19 DEF ZeroedPMU
  <1>20. CASE cleanupUncorePMUs(p)
    BY <1>0, <1>20 DEF cleanupUncorePMUs
  <1>21. CASE LeaveCleanup(p)
    BY <1>0, <1>21 DEF LeaveCleanup
  <1>22. CASE BadArguments(p)
    BY <1>0, <1>22 DEF BadArguments
  <1>23. CASE PerfFails(p)
    BY <1>0, <1>23 DEF PerfFails, Discount
  <1>24. CASE ExecFails(p)
    BY <1>0, <1>24 DEF ExecFails
  <1>25. CASE SignalUnderLock(p)
    BY <1>0, <1>25 DEF SignalUnderLock
  <1>26. CASE SignalElsewhere(p)
    BY <1>0, <1>26 DEF SignalElsewhere
  <1>27. CASE Kill(p)
    BY <1>0, <1>27 DEF Kill
  <1> QED
    BY <1>1, <1>2, <1>3, <1>4, <1>5, <1>6, <1>7, <1>8, <1>9, <1>10, <1>11, <1>12, <1>13, <1>14,
       <1>15, <1>16, <1>17, <1>18, <1>19, <1>20, <1>21, <1>22, <1>23, <1>24, <1>25, <1>26, <1>27 DEF
       Step, Fault

\* And what the flags of the others tell.
LEMMA FlagsStep ==
    ASSUME Typed, MachineTyped, AllFlags, NEW p \in Procs, Step(p) \/ Fault(p)
    PROVE  AllFlags'
  <1> SUFFICES ASSUME NEW q \in Procs PROVE Flags(q)'
    BY DEF AllFlags
  <1>1. CASE q = p
    BY <1>1, FlagsHere DEF AllFlags
  <1>2. CASE q # p
    BY <1>2, Frame DEF AllFlags, Flags
  <1> QED
    BY <1>1, <1>2

-----------------------------------------------------------------------------
\* What is on the machine before and after a step of p, as far as the lock and the groups tell.
LEMMA GroupsOfTheOthers ==
    ASSUME Typed, MachineTyped, NEW p \in Procs, Step(p) \/ Fault(p),
           NEW q \in Procs \ {p}, NEW d \in Cores
    PROVE  q \in groups'[d] <=> q \in groups[d]
  <1>0. groups \in [Cores -> SUBSET Procs]
    BY DEF MachineTyped
  <1> USE DEF machine
  <1>a. UNCHANGED groups \/ groups' = [c \in Cores |-> groups[c] \ {p}] => (q \in groups'[d] <=> q \in groups[d])
    BY <1>0
  <1>1. CASE isNMIWatchdogEnabled(p)
    BY <1>a, <1>1 DEF isNMIWatchdogEnabled
  <1>2. CASE disableNMIWatchdog(p)
    BY <1>a, <1>2 DEF disableNMIWatchdog
  <1>3. CASE SetNeedToRestore(p)
    BY <1>a, <1>3 DEF SetNeedToRestore
  <1>4. CASE initRMID(p)
    BY <1>a, <1>4 DEF initRMID
  <1>5. CASE resetPMU(p)
    BY <1>a, <1>5 DEF resetPMU
  <1>6. CASE CallProgram(p)
    BY <1>a, <1>6 DEF CallProgram
  <1>7. CASE programServerUncoreMemoryMetrics(p)
    BY <1>a, <1>7 DEF programServerUncoreMemoryMetrics
  <1>8. CASE EnterProgram(p)
    BY <1>a, <1>8 DEF EnterProgram
  <1>9. CASE JoinOthers(p)
    BY <1>a, <1>9 DEF JoinOthers
  <1>10. CASE RefusedByPerf(p)
    BY <1>a, <1>10 DEF RefusedByPerf
  <1>11. CASE PMUBusy(p)
    BY <1>a, <1>11 DEF PMUBusy
  <1>12. CASE StartProgramming(p)
    BY <1>a, <1>12 DEF StartProgramming
  <1>13. ASSUME NEW c \in Cores, programCoreCounters(p, c)
        PROVE  q \in groups'[d] <=> q \in groups[d]
    <2>1. CASE groups' = [groups EXCEPT ![c] = @ \cup {p}]
      BY <1>0, <2>1
    <2>2. CASE UNCHANGED groups
      BY <2>2
    <2> QED
      BY <1>13, <2>1, <2>2 DEF programCoreCounters
  <1>14. CASE programUncore(p)
    BY <1>a, <1>14 DEF programUncore
  <1>15. CASE FinishMeasuring(p)
    BY <1>a, <1>15 DEF FinishMeasuring
  <1>16. CASE EnterCleanup(p)
    BY <1>a, <1>16 DEF EnterCleanup
  <1>17. CASE decrementInstanceSemaphore(p)
    BY <1>a, <1>17 DEF decrementInstanceSemaphore
  <1>18. ASSUME NEW c \in Cores, cleanupPMU(p, c)
        PROVE  q \in groups'[d] <=> q \in groups[d]
    <2>1. CASE groups' = [groups EXCEPT ![c] = @ \ {p}]
      BY <1>0, <2>1
    <2>2. CASE UNCHANGED groups
      BY <2>2
    <2> QED
      BY <1>18, <2>1, <2>2 DEF cleanupPMU
  <1>19. CASE ZeroedPMU(p)
    BY <1>a, <1>19 DEF ZeroedPMU
  <1>20. CASE cleanupUncorePMUs(p)
    BY <1>a, <1>20 DEF cleanupUncorePMUs
  <1>21. CASE LeaveCleanup(p)
    BY <1>a, <1>21 DEF LeaveCleanup
  <1>22. CASE BadArguments(p)
    BY <1>a, <1>22 DEF BadArguments
  <1>23. CASE PerfFails(p)
    BY <1>a, <1>23 DEF PerfFails
  <1>24. CASE ExecFails(p)
    BY <1>a, <1>24 DEF ExecFails
  <1>25. CASE SignalUnderLock(p)
    BY <1>a, <1>25 DEF SignalUnderLock
  <1>26. CASE SignalElsewhere(p)
    BY <1>a, <1>26 DEF SignalElsewhere
  <1>27. CASE Kill(p)
    BY <1>a, <1>27 DEF Kill
  <1> QED
    BY <1>1, <1>2, <1>3, <1>4, <1>5, <1>6, <1>7, <1>8, <1>9, <1>10, <1>11, <1>12, <1>13, <1>14,
       <1>15, <1>16, <1>17, <1>18, <1>19, <1>20, <1>21, <1>22, <1>23, <1>24, <1>25, <1>26, <1>27 DEF
       Step, Fault

LEMMA StuckInit == Init => StuckHolds
  BY DEF Init, StuckHolds

\* Whoever holds the lock is the one to give it back.
LEMMA LockOfTheOthers ==
    ASSUME Typed, MachineTyped, NEW p \in Procs, Step(p) \/ Fault(p), lock \in Procs \ {p}
    PROVE  UNCHANGED lock
  <1>0. Nobody \notin Procs
    BY ProcsAndFleets
  <1> USE DEF machine
  <1>1. CASE isNMIWatchdogEnabled(p)
    BY <1>0, <1>1 DEF isNMIWatchdogEnabled
  <1>2. CASE disableNMIWatchdog(p)
    BY <1>0, <1>2 DEF disableNMIWatchdog
  <1>3. CASE SetNeedToRestore(p)
    BY <1>0, <1>3 DEF SetNeedToRestore
  <1>4. CASE initRMID(p)
    BY <1>0, <1>4 DEF initRMID
  <1>5. CASE resetPMU(p)
    BY <1>0, <1>5 DEF resetPMU
  <1>6. CASE CallProgram(p)
    BY <1>0, <1>6 DEF CallProgram
  <1>7. CASE programServerUncoreMemoryMetrics(p)
    BY <1>0, <1>7 DEF programServerUncoreMemoryMetrics
  <1>8. CASE EnterProgram(p)
    BY <1>0, <1>8 DEF EnterProgram, Acquire
  <1>9. CASE JoinOthers(p)
    BY <1>0, <1>9 DEF JoinOthers, Release
  <1>10. CASE RefusedByPerf(p)
    BY <1>0, <1>10 DEF RefusedByPerf, Release
  <1>11. CASE PMUBusy(p)
    BY <1>0, <1>11 DEF PMUBusy, Release
  <1>12. CASE StartProgramming(p)
    BY <1>0, <1>12 DEF StartProgramming
  <1>13. ASSUME NEW c \in Cores, programCoreCounters(p, c)
        PROVE  UNCHANGED lock
    BY <1>0, <1>13 DEF programCoreCounters
  <1>14. CASE programUncore(p)
    BY <1>0, <1>14 DEF programUncore, Release
  <1>15. CASE FinishMeasuring(p)
    BY <1>0, <1>15 DEF FinishMeasuring
  <1>16. CASE EnterCleanup(p)
    BY <1>0, <1>16 DEF EnterCleanup, Acquire
  <1>17. CASE decrementInstanceSemaphore(p)
    BY <1>0, <1>17 DEF decrementInstanceSemaphore
  <1>18. ASSUME NEW c \in Cores, cleanupPMU(p, c)
        PROVE  UNCHANGED lock
    BY <1>0, <1>18 DEF cleanupPMU
  <1>19. CASE ZeroedPMU(p)
    BY <1>0, <1>19 DEF ZeroedPMU
  <1>20. CASE cleanupUncorePMUs(p)
    BY <1>0, <1>20 DEF cleanupUncorePMUs
  <1>21. CASE LeaveCleanup(p)
    BY <1>0, <1>21 DEF LeaveCleanup, Unlock, Release
  <1>22. CASE BadArguments(p)
    BY <1>0, <1>22 DEF BadArguments
  <1>23. CASE PerfFails(p)
    BY <1>0, <1>23 DEF PerfFails, Release
  <1>24. CASE ExecFails(p)
    BY <1>0, <1>24 DEF ExecFails
  <1>25. CASE SignalUnderLock(p)
    BY <1>0, <1>25 DEF SignalUnderLock
  <1>26. CASE SignalElsewhere(p)
    BY <1>0, <1>26 DEF SignalElsewhere
  <1>27. CASE Kill(p)
    BY <1>0, <1>27 DEF Kill
  <1> QED
    BY <1>1, <1>2, <1>3, <1>4, <1>5, <1>6, <1>7, <1>8, <1>9, <1>10, <1>11, <1>12, <1>13, <1>14,
       <1>15, <1>16, <1>17, <1>18, <1>19, <1>20, <1>21, <1>22, <1>23, <1>24, <1>25, <1>26, <1>27 DEF
       Step, Fault

\* Nobody takes the lock from who is stuck with it, and with -m nobody gets stuck without it.
LEMMA StuckStep ==
    ASSUME Typed, MachineTyped, AllFlags, LockHeld, StuckHolds, NEW p \in Procs, Step(p) \/ Fault(p)
    PROVE  StuckHolds'
  <1> SUFFICES ASSUME NEW q \in Procs, pc'[q] = "stuck", allow_multiple_instances'[q] PROVE lock' = q
    BY DEF StuckHolds
  <1>1. CASE q # p
    <2>1. lock = q
      BY <1>1, Frame DEF StuckHolds
    <2> QED
      BY <1>1, <2>1, LockOfTheOthers
  <1>2. CASE q = p
    <2>0. /\ q = p /\ pc \in [Procs -> Places]
          /\ pc[p] \in Early => ~allow_multiple_instances[p]
          /\ pc[p] \in InProgram /\ allow_multiple_instances[p] => lock = p
          /\ pc'[p] = "stuck" /\ allow_multiple_instances'[p]
      BY <1>2 DEF Typed, AllFlags, Flags, LockHeld
    <2> USE DEF Goto, machine, own
    <2>1. CASE isNMIWatchdogEnabled(p)
      BY <2>0, <2>1 DEF isNMIWatchdogEnabled
    <2>2. CASE disableNMIWatchdog(p)
      BY <2>0, <2>2 DEF disableNMIWatchdog
    <2>3. CASE SetNeedToRestore(p)
      BY <2>0, <2>3 DEF SetNeedToRestore
    <2>4. CASE initRMID(p)
      BY <2>0, <2>4 DEF initRMID
    <2>5. CASE resetPMU(p)
      BY <2>0, <2>5 DEF resetPMU
    <2>6. CASE CallProgram(p)
      BY <2>0, <2>6 DEF CallProgram
    <2>7. CASE programServerUncoreMemoryMetrics(p)
      BY <2>0, <2>7 DEF programServerUncoreMemoryMetrics
    <2>8. CASE EnterProgram(p)
      BY <2>0, <2>8 DEF EnterProgram
    <2>9. CASE JoinOthers(p)
      BY <2>0, <2>9 DEF JoinOthers
    <2>10. CASE RefusedByPerf(p)
      BY <2>0, <2>10 DEF RefusedByPerf
    <2>11. CASE PMUBusy(p)
      BY <2>0, <2>11 DEF PMUBusy
    <2>12. CASE StartProgramming(p)
      BY <2>0, <2>12 DEF StartProgramming
    <2>13. ASSUME NEW c \in Cores, programCoreCounters(p, c)
          PROVE  lock' = q
      BY <2>0, <2>13 DEF programCoreCounters
    <2>14. CASE programUncore(p)
      BY <2>0, <2>14 DEF programUncore
    <2>15. CASE FinishMeasuring(p)
      BY <2>0, <2>15 DEF FinishMeasuring
    <2>16. CASE EnterCleanup(p)
      BY <2>0, <2>16 DEF EnterCleanup
    <2>17. CASE decrementInstanceSemaphore(p)
      BY <2>0, <2>17 DEF decrementInstanceSemaphore
    <2>18. ASSUME NEW c \in Cores, cleanupPMU(p, c)
          PROVE  lock' = q
      BY <2>0, <2>18 DEF cleanupPMU
    <2>19. CASE ZeroedPMU(p)
      BY <2>0, <2>19 DEF ZeroedPMU
    <2>20. CASE cleanupUncorePMUs(p)
      BY <2>0, <2>20 DEF cleanupUncorePMUs
    <2>21. CASE LeaveCleanup(p)
      BY <2>0, <2>21 DEF LeaveCleanup
    <2>22. CASE BadArguments(p)
      BY <2>0, <2>22 DEF BadArguments
    <2>23. CASE PerfFails(p)
      BY <2>0, <2>23 DEF PerfFails
    <2>24. CASE ExecFails(p)
      BY <2>0, <2>24 DEF ExecFails
    <2>25. CASE SignalUnderLock(p)
      BY <2>0, <2>25 DEF SignalUnderLock, Early
    <2>26. CASE SignalElsewhere(p)
      BY <2>0, <2>26 DEF SignalElsewhere
    <2>27. CASE Kill(p)
      BY <2>0, <2>27 DEF Kill
    <2> QED
      BY <2>1, <2>2, <2>3, <2>4, <2>5, <2>6, <2>7, <2>8, <2>9, <2>10, <2>11, <2>12, <2>13, <2>14,
         <2>15, <2>16, <2>17, <2>18, <2>19, <2>20, <2>21, <2>22, <2>23, <2>24, <2>25, <2>26, <2>27
         DEF Step, Fault
  <1> QED
    BY <1>1, <1>2

LEMMA TracesInit == Init => Traces
  <1> SUFFICES ASSUME Init PROVE Traces
    OBVIOUS
  <1> QED
    BY ProcsAndFleets DEF Init, Traces

\* Nobody leaves with the lock, with its uncore or RMIDs unfreed, or with an open group.
LEMMA TracesStep ==
    ASSUME Typed, MachineTyped, Traces, NEW p \in Procs, Step(p) \/ Fault(p)
    PROVE  Traces'
  <1> DEFINE
      Lock == lock \in Procs => pc[lock] \in InProgram \cup InCleanup \cup {"stuck", "killed"}
      Rest == /\ rmid \in Procs => pc[rmid] \notin {"start", "disable", "flag", "objects", "watchdog on", "gone"}
              /\ uncore \in Procs =>
                    pc[uncore] \in {"measure", "exit", "cleanup", "zero", "zero uncore", "killed"}
      Open == \A c \in Cores : \A q \in groups[c] : pc[q] # "gone"
  <1>0. /\ Nobody \notin Procs /\ pc \in [Procs -> Places]
        /\ \A q \in Procs \ {p} : pc'[q] = pc[q]
    BY ProcsAndFleets, Frame DEF Typed
  <1>a. Lock'
    <2>0. Lock
      BY DEF Traces
    <2>1. CASE lock \in Procs \ {p}
      BY <1>0, <2>0, <2>1, LockOfTheOthers
    <2>2. CASE ~(lock \in Procs \ {p})
      <3>0. /\ lock \notin Procs \/ lock = p
            /\ lock = p => pc[p] \in InProgram \cup InCleanup \cup {"stuck", "killed"}
        BY <2>0, <2>2
      <3> USE DEF Goto, machine, InProgram, InCleanup, Gone
      <3>1. CASE isNMIWatchdogEnabled(p)
        BY <1>0, <3>0, <3>1 DEF isNMIWatchdogEnabled
      <3>2. CASE disableNMIWatchdog(p)
        BY <1>0, <3>0, <3>2 DEF disableNMIWatchdog
      <3>3. CASE SetNeedToRestore(p)
        BY <1>0, <3>0, <3>3 DEF SetNeedToRestore
      <3>4. CASE initRMID(p)
        BY <1>0, <3>0, <3>4 DEF initRMID
      <3>5. CASE resetPMU(p)
        BY <1>0, <3>0, <3>5 DEF resetPMU
      <3>6. CASE CallProgram(p)
        BY <1>0, <3>0, <3>6 DEF CallProgram
      <3>7. CASE programServerUncoreMemoryMetrics(p)
        BY <1>0, <3>0, <3>7 DEF programServerUncoreMemoryMetrics
      <3>8. CASE EnterProgram(p)
        BY <1>0, <3>0, <3>8 DEF EnterProgram, Acquire
      <3>9. CASE JoinOthers(p)
        BY <1>0, <3>0, <3>9 DEF JoinOthers, Release
      <3>10. CASE RefusedByPerf(p)
        BY <1>0, <3>0, <3>10 DEF RefusedByPerf, Release
      <3>11. CASE PMUBusy(p)
        BY <1>0, <3>0, <3>11 DEF PMUBusy, Release
      <3>12. CASE StartProgramming(p)
        BY <1>0, <3>0, <3>12 DEF StartProgramming
      <3>13. ASSUME NEW c \in Cores, programCoreCounters(p, c)
            PROVE  Lock'
        BY <1>0, <3>0, <3>13 DEF programCoreCounters
      <3>14. CASE programUncore(p)
        BY <1>0, <3>0, <3>14 DEF programUncore, Release
      <3>15. CASE FinishMeasuring(p)
        BY <1>0, <3>0, <3>15 DEF FinishMeasuring
      <3>16. CASE EnterCleanup(p)
        BY <1>0, <3>0, <3>16 DEF EnterCleanup, Acquire
      <3>17. CASE decrementInstanceSemaphore(p)
        BY <1>0, <3>0, <3>17 DEF decrementInstanceSemaphore
      <3>18. ASSUME NEW c \in Cores, cleanupPMU(p, c)
            PROVE  Lock'
        BY <1>0, <3>0, <3>18 DEF cleanupPMU
      <3>19. CASE ZeroedPMU(p)
        BY <1>0, <3>0, <3>19 DEF ZeroedPMU
      <3>20. CASE cleanupUncorePMUs(p)
        BY <1>0, <3>0, <3>20 DEF cleanupUncorePMUs
      <3>21. CASE LeaveCleanup(p)
        BY <1>0, <3>0, <3>21 DEF LeaveCleanup, Unlock, Release
      <3>22. CASE BadArguments(p)
        BY <1>0, <3>0, <3>22 DEF BadArguments
      <3>23. CASE PerfFails(p)
        BY <1>0, <3>0, <3>23 DEF PerfFails, Release
      <3>24. CASE ExecFails(p)
        BY <1>0, <3>0, <3>24 DEF ExecFails
      <3>25. CASE SignalUnderLock(p)
        BY <1>0, <3>0, <3>25 DEF SignalUnderLock
      <3>26. CASE SignalElsewhere(p)
        BY <1>0, <3>0, <3>26 DEF SignalElsewhere
      <3>27. CASE Kill(p)
        BY <1>0, <3>0, <3>27 DEF Kill
      <3> QED
        BY <3>1, <3>2, <3>3, <3>4, <3>5, <3>6, <3>7, <3>8, <3>9, <3>10, <3>11, <3>12, <3>13, <3>14,
           <3>15, <3>16, <3>17, <3>18, <3>19, <3>20, <3>21, <3>22, <3>23, <3>24, <3>25, <3>26, <3>27
           DEF Step, Fault
    <2> QED
      BY <2>1, <2>2
  <1>b. Rest'
    <2>0. Rest
      BY DEF Traces
    <2> USE DEF Goto, machine, Gone, InProgram
    <2>1. CASE isNMIWatchdogEnabled(p)
      BY <1>0, <2>0, <2>1 DEF isNMIWatchdogEnabled
    <2>2. CASE disableNMIWatchdog(p)
      BY <1>0, <2>0, <2>2 DEF disableNMIWatchdog
    <2>3. CASE SetNeedToRestore(p)
      BY <1>0, <2>0, <2>3 DEF SetNeedToRestore
    <2>4. CASE initRMID(p)
      BY <1>0, <2>0, <2>4 DEF initRMID
    <2>5. CASE resetPMU(p)
      BY <1>0, <2>0, <2>5 DEF resetPMU
    <2>6. CASE CallProgram(p)
      BY <1>0, <2>0, <2>6 DEF CallProgram
    <2>7. CASE programServerUncoreMemoryMetrics(p)
      BY <1>0, <2>0, <2>7 DEF programServerUncoreMemoryMetrics
    <2>8. CASE EnterProgram(p)
      BY <1>0, <2>0, <2>8 DEF EnterProgram
    <2>9. CASE JoinOthers(p)
      BY <1>0, <2>0, <2>9 DEF JoinOthers
    <2>10. CASE RefusedByPerf(p)
      BY <1>0, <2>0, <2>10 DEF RefusedByPerf
    <2>11. CASE PMUBusy(p)
      BY <1>0, <2>0, <2>11 DEF PMUBusy
    <2>12. CASE StartProgramming(p)
      BY <1>0, <2>0, <2>12 DEF StartProgramming
    <2>13. ASSUME NEW c \in Cores, programCoreCounters(p, c)
          PROVE  Rest'
      BY <1>0, <2>0, <2>13 DEF programCoreCounters
    <2>14. CASE programUncore(p)
      BY <1>0, <2>0, <2>14 DEF programUncore
    <2>15. CASE FinishMeasuring(p)
      BY <1>0, <2>0, <2>15 DEF FinishMeasuring
    <2>16. CASE EnterCleanup(p)
      BY <1>0, <2>0, <2>16 DEF EnterCleanup
    <2>17. CASE decrementInstanceSemaphore(p)
      BY <1>0, <2>0, <2>17 DEF decrementInstanceSemaphore
    <2>18. ASSUME NEW c \in Cores, cleanupPMU(p, c)
          PROVE  Rest'
      BY <1>0, <2>0, <2>18 DEF cleanupPMU
    <2>19. CASE ZeroedPMU(p)
      BY <1>0, <2>0, <2>19 DEF ZeroedPMU
    <2>20. CASE cleanupUncorePMUs(p)
      BY <1>0, <2>0, <2>20 DEF cleanupUncorePMUs
    <2>21. CASE LeaveCleanup(p)
      BY <1>0, <2>0, <2>21 DEF LeaveCleanup
    <2>22. CASE BadArguments(p)
      BY <1>0, <2>0, <2>22 DEF BadArguments
    <2>23. CASE PerfFails(p)
      BY <1>0, <2>0, <2>23 DEF PerfFails
    <2>24. CASE ExecFails(p)
      BY <1>0, <2>0, <2>24 DEF ExecFails
    <2>25. CASE SignalUnderLock(p)
      BY <1>0, <2>0, <2>25 DEF SignalUnderLock
    <2>26. CASE SignalElsewhere(p)
      BY <1>0, <2>0, <2>26 DEF SignalElsewhere
    <2>27. CASE Kill(p)
      BY <1>0, <2>0, <2>27 DEF Kill
    <2> QED
      BY <2>1, <2>2, <2>3, <2>4, <2>5, <2>6, <2>7, <2>8, <2>9, <2>10, <2>11, <2>12, <2>13, <2>14,
         <2>15, <2>16, <2>17, <2>18, <2>19, <2>20, <2>21, <2>22, <2>23, <2>24, <2>25, <2>26, <2>27
         DEF Step, Fault
  <1>c. Open'
    <2> SUFFICES ASSUME NEW d \in Cores, NEW q \in groups'[d] PROVE pc'[q] # "gone"
      OBVIOUS
    <2>0. q \in Procs /\ (q \in groups[d] => pc[q] # "gone") /\ groups \in [Cores -> SUBSET Procs]
      BY MachineTypedStep DEF Traces, MachineTyped
    <2>1. CASE q # p
      BY <1>0, <2>0, <2>1, GroupsOfTheOthers
    <2>2. CASE q = p
      <3> USE DEF Goto, machine
      <3>1. CASE isNMIWatchdogEnabled(p)
        BY <1>0, <2>0, <2>2, <3>1 DEF isNMIWatchdogEnabled
      <3>2. CASE disableNMIWatchdog(p)
        BY <1>0, <2>0, <2>2, <3>2 DEF disableNMIWatchdog
      <3>3. CASE SetNeedToRestore(p)
        BY <1>0, <2>0, <2>2, <3>3 DEF SetNeedToRestore
      <3>4. CASE initRMID(p)
        BY <1>0, <2>0, <2>2, <3>4 DEF initRMID
      <3>5. CASE resetPMU(p)
        BY <1>0, <2>0, <2>2, <3>5 DEF resetPMU
      <3>6. CASE CallProgram(p)
        BY <1>0, <2>0, <2>2, <3>6 DEF CallProgram
      <3>7. CASE programServerUncoreMemoryMetrics(p)
        BY <1>0, <2>0, <2>2, <3>7 DEF programServerUncoreMemoryMetrics
      <3>8. CASE EnterProgram(p)
        BY <1>0, <2>0, <2>2, <3>8 DEF EnterProgram
      <3>9. CASE JoinOthers(p)
        BY <1>0, <2>0, <2>2, <3>9 DEF JoinOthers
      <3>10. CASE RefusedByPerf(p)
        BY <1>0, <2>0, <2>2, <3>10 DEF RefusedByPerf
      <3>11. CASE PMUBusy(p)
        BY <1>0, <2>0, <2>2, <3>11 DEF PMUBusy
      <3>12. CASE StartProgramming(p)
        BY <1>0, <2>0, <2>2, <3>12 DEF StartProgramming
      <3>13. ASSUME NEW c \in Cores, programCoreCounters(p, c)
            PROVE  pc'[q] # "gone"
        BY <1>0, <2>0, <2>2, <3>13 DEF programCoreCounters
      <3>14. CASE programUncore(p)
        BY <1>0, <2>0, <2>2, <3>14 DEF programUncore
      <3>15. CASE FinishMeasuring(p)
        BY <1>0, <2>0, <2>2, <3>15 DEF FinishMeasuring
      <3>16. CASE EnterCleanup(p)
        BY <1>0, <2>0, <2>2, <3>16 DEF EnterCleanup
      <3>17. CASE decrementInstanceSemaphore(p)
        BY <1>0, <2>0, <2>2, <3>17 DEF decrementInstanceSemaphore
      <3>18. ASSUME NEW c \in Cores, cleanupPMU(p, c)
            PROVE  pc'[q] # "gone"
        BY <1>0, <2>0, <2>2, <3>18 DEF cleanupPMU
      <3>19. CASE ZeroedPMU(p)
        BY <1>0, <2>0, <2>2, <3>19 DEF ZeroedPMU
      <3>20. CASE cleanupUncorePMUs(p)
        BY <1>0, <2>0, <2>2, <3>20 DEF cleanupUncorePMUs
      <3>21. CASE LeaveCleanup(p)
        BY <1>0, <2>0, <2>2, <3>21 DEF LeaveCleanup
      <3>22. CASE BadArguments(p)
        BY <1>0, <2>0, <2>2, <3>22 DEF BadArguments
      <3>23. CASE PerfFails(p)
        BY <1>0, <2>0, <2>2, <3>23 DEF PerfFails
      <3>24. CASE ExecFails(p)
        BY <1>0, <2>0, <2>2, <3>24 DEF ExecFails
      <3>25. CASE SignalUnderLock(p)
        BY <1>0, <2>0, <2>2, <3>25 DEF SignalUnderLock
      <3>26. CASE SignalElsewhere(p)
        BY <1>0, <2>0, <2>2, <3>26 DEF SignalElsewhere
      <3>27. CASE Kill(p)
        BY <1>0, <2>0, <2>2, <3>27 DEF Kill
      <3> QED
        BY <3>1, <3>2, <3>3, <3>4, <3>5, <3>6, <3>7, <3>8, <3>9, <3>10, <3>11, <3>12, <3>13, <3>14,
           <3>15, <3>16, <3>17, <3>18, <3>19, <3>20, <3>21, <3>22, <3>23, <3>24, <3>25, <3>26, <3>27
           DEF Step, Fault
    <2> QED
      BY <2>1, <2>2
  <1> QED
    BY <1>a, <1>b, <1>c DEF Traces

LEMMA PerfKeptInit == Init => PerfKept
  BY DEF Init, PerfKept

\* Groups are opened core by core, and closed only by the cleanup.
LEMMA PerfKeptStep ==
    ASSUME Typed, MachineTyped, AllFlags, PerfKept, NEW p \in Procs, Step(p) \/ Fault(p)
    PROVE  PerfKept'
  <1> SUFFICES ASSUME NEW q \in Procs, NEW d \in Cores,
                      programmed_pmu'[q],
                      pc'[q] = "measure" \/ (pc'[q] = "cores" /\ d \notin todo'[q]),
                      tool'[q].perf
               PROVE  q \in groups'[d]
    BY DEF PerfKept
  <1>1. CASE q # p
    <2>1. q \in groups[d]
      BY <1>1, Frame DEF PerfKept
    <2> QED
      BY <1>1, <2>1, GroupsOfTheOthers
  <1>2. CASE q = p
    <2>0. /\ q = p /\ pc \in [Procs -> Places] /\ tool'[p] = tool[p]
          /\ groups \in [Cores -> SUBSET Procs] /\ todo \in [Procs -> SUBSET Cores]
          /\ programmed_pmu \in [Procs -> BOOLEAN]
          /\ programmed_pmu[p] /\ (pc[p] = "measure" \/ (pc[p] = "cores" /\ d \notin todo[p])) /\ tool[p].perf
               => p \in groups[d]
          /\ pc[p] \in Early \cup {"program", "locked"} => ~programmed_pmu[p]
      BY <1>2, Frame DEF Typed, MachineTyped, AllFlags, Flags, PerfKept
    <2>a. programmed_pmu'[p] /\ (pc'[p] = "measure" \/ (pc'[p] = "cores" /\ d \notin todo'[p])) /\ tool[p].perf
      BY <1>2, <2>0
    <2> USE DEF Goto, machine, own, Early
    <2>1. CASE isNMIWatchdogEnabled(p)
      BY <2>0, <2>a, <2>1 DEF isNMIWatchdogEnabled
    <2>2. CASE disableNMIWatchdog(p)
      BY <2>0, <2>a, <2>2 DEF disableNMIWatchdog
    <2>3. CASE SetNeedToRestore(p)
      BY <2>0, <2>a, <2>3 DEF SetNeedToRestore
    <2>4. CASE initRMID(p)
      BY <2>0, <2>a, <2>4 DEF initRMID
    <2>5. CASE resetPMU(p)
      BY <2>0, <2>a, <2>5 DEF resetPMU
    <2>6. CASE CallProgram(p)
      BY <2>0, <2>a, <2>6 DEF CallProgram
    <2>7. CASE programServerUncoreMemoryMetrics(p)
      BY <2>0, <2>a, <2>7 DEF programServerUncoreMemoryMetrics
    <2>8. CASE EnterProgram(p)
      BY <2>0, <2>a, <2>8 DEF EnterProgram
    <2>9. CASE JoinOthers(p)
      BY <2>0, <2>a, <2>9 DEF JoinOthers
    <2>10. CASE RefusedByPerf(p)
      BY <2>0, <2>a, <2>10 DEF RefusedByPerf
    <2>11. CASE PMUBusy(p)
      BY <2>0, <2>a, <2>11 DEF PMUBusy
    <2>12. CASE StartProgramming(p)
      BY <2>0, <2>a, <2>12 DEF StartProgramming
    <2>13. ASSUME NEW c \in Cores, programCoreCounters(p, c)
          PROVE  q \in groups'[d]
      BY <2>0, <2>a, <2>13 DEF programCoreCounters
    <2>14. CASE programUncore(p)
      BY <2>0, <2>a, <2>14 DEF programUncore
    <2>15. CASE FinishMeasuring(p)
      BY <2>0, <2>a, <2>15 DEF FinishMeasuring
    <2>16. CASE EnterCleanup(p)
      BY <2>0, <2>a, <2>16 DEF EnterCleanup
    <2>17. CASE decrementInstanceSemaphore(p)
      BY <2>0, <2>a, <2>17 DEF decrementInstanceSemaphore
    <2>18. ASSUME NEW c \in Cores, cleanupPMU(p, c)
          PROVE  q \in groups'[d]
      BY <2>0, <2>a, <2>18 DEF cleanupPMU
    <2>19. CASE ZeroedPMU(p)
      BY <2>0, <2>a, <2>19 DEF ZeroedPMU
    <2>20. CASE cleanupUncorePMUs(p)
      BY <2>0, <2>a, <2>20 DEF cleanupUncorePMUs
    <2>21. CASE LeaveCleanup(p)
      BY <2>0, <2>a, <2>21 DEF LeaveCleanup
    <2>22. CASE BadArguments(p)
      BY <2>0, <2>a, <2>22 DEF BadArguments
    <2>23. CASE PerfFails(p)
      BY <2>0, <2>a, <2>23 DEF PerfFails
    <2>24. CASE ExecFails(p)
      BY <2>0, <2>a, <2>24 DEF ExecFails
    <2>25. CASE SignalUnderLock(p)
      BY <2>0, <2>a, <2>25 DEF SignalUnderLock
    <2>26. CASE SignalElsewhere(p)
      BY <2>0, <2>a, <2>26 DEF SignalElsewhere
    <2>27. CASE Kill(p)
      BY <2>0, <2>a, <2>27 DEF Kill
    <2> QED
      BY <2>1, <2>2, <2>3, <2>4, <2>5, <2>6, <2>7, <2>8, <2>9, <2>10, <2>11, <2>12, <2>13, <2>14,
         <2>15, <2>16, <2>17, <2>18, <2>19, <2>20, <2>21, <2>22, <2>23, <2>24, <2>25, <2>26, <2>27
         DEF Step, Fault
  <1> QED
    BY <1>1, <1>2

-----------------------------------------------------------------------------
LEMMA CounteesFinite == IsFiniteSet(Countees) /\ Cardinality(Countees) \in Nat
  <1>1. Countees \in SUBSET Procs
    BY DEF Countees
  <1> QED
    BY <1>1, ProcsAndFleets, FS_Subset, FS_CardinalityType

\* Of the others a step of p counts the same.
LEMMA CountedOthers ==
    ASSUME Typed, MachineTyped, NEW p \in Procs, Step(p) \/ Fault(p), NEW q \in Procs \ {p}
    PROVE  Counted(q)' <=> Counted(q)
  BY Frame DEF Counted

LEMMA CountingInit == Init => Counting
  <1> SUFFICES ASSUME Init PROVE Counting
    OBVIOUS
  <1>1. Countees = {}
    BY DEF Init, Countees, Counted
  <1> QED
    BY <1>1, FS_EmptySet DEF Init, Counting

\* The semaphore and the set of the counted change together: one comes, one goes, none does, or
\* an instance that perf refused takes another's place away.
LEMMA CountsTogether ==
    ASSUME Typed, MachineTyped, Counting, NEW p \in Procs, Step(p) \/ Fault(p),
           \/ disturbed'
           \/ instances' = instances /\ (Counted(p)' <=> Counted(p))
           \/ instances' = instances + 1 /\ ~Counted(p) /\ Counted(p)'
           \/ /\ instances' = IF instances > 0 THEN instances - 1 ELSE instances
              /\ ~Counted(p)' /\ (Counted(p) \/ instances = 0 \/ ~AllDirect)
    PROVE  Counting'
  <1> SUFFICES ASSUME ~disturbed'
               PROVE  /\ instances' <= Cardinality(Countees')
                      /\ AllDirect' => instances' = Cardinality(Countees')
    BY DEF Counting
  <1>0. /\ instances \in Nat /\ IsFiniteSet(Countees) /\ Cardinality(Countees) \in Nat
        /\ instances <= Cardinality(Countees) /\ (AllDirect => instances = Cardinality(Countees))
        /\ (AllDirect' <=> AllDirect)
    BY CounteesFinite, Frame DEF MachineTyped, Counting, AllDirect
  <1>a. \A q \in Procs \ {p} : Counted(q)' <=> Counted(q)
    BY CountedOthers
  <1>1. CASE Counted(p)' <=> Counted(p)
    <2>1. Countees' = Countees
      BY <1>a, <1>1 DEF Countees
    <2>2. CASE ~Counted(p)
      BY <1>0, <1>1, <2>1, <2>2
    <2>3. CASE Counted(p)
      <3>1. instances' = instances
        BY <1>1, <2>3
      <3> QED
        BY <1>0, <2>1, <3>1
    <2> QED
      BY <2>2, <2>3
  <1>2. CASE ~Counted(p) /\ Counted(p)'
    <2>1. Countees' = Countees \cup {p} /\ p \notin Countees
      BY <1>a, <1>2 DEF Countees
    <2>2. Cardinality(Countees') = Cardinality(Countees) + 1
      BY <1>0, <2>1, FS_AddElement
    <2> QED
      BY <1>0, <1>2, <2>2
  <1>3. CASE Counted(p) /\ ~Counted(p)'
    <2>1. Countees' = Countees \ {p} /\ p \in Countees
      BY <1>a, <1>3 DEF Countees
    <2>2. Cardinality(Countees') = Cardinality(Countees) - 1
      BY <1>0, <2>1, FS_RemoveElement
    <2>3. instances' = IF instances > 0 THEN instances - 1 ELSE instances
      BY <1>3
    <2>4. Cardinality(Countees) > 0
      BY <1>0, <2>1, FS_EmptySet
    <2> QED
      BY <1>0, <2>2, <2>3, <2>4
  <1> QED
    BY <1>1, <1>2, <1>3

\* Every action is one of those cases.
LEMMA CountingStep ==
    ASSUME Typed, MachineTyped, AllFlags, Counting, NEW p \in Procs, Step(p) \/ Fault(p)
    PROVE  Counting'
  <1> DEFINE
      Gone1 == IF instances > 0 THEN instances - 1 ELSE instances
      Goal == \/ disturbed'
              \/ instances' = instances /\ (Counted(p)' <=> Counted(p))
              \/ instances' = instances + 1 /\ ~Counted(p) /\ Counted(p)'
              \/ instances' = Gone1 /\ ~Counted(p)' /\ (Counted(p) \/ instances = 0 \/ ~AllDirect)
  <1>0. /\ pc \in [Procs -> Places] /\ numInstancesSemaphore \in [Procs -> BOOLEAN]
        /\ allow_multiple_instances \in [Procs -> BOOLEAN] /\ disturbed \in BOOLEAN
        /\ Flags(p) /\ instances \in Nat
    BY DEF Typed, MachineTyped, AllFlags
  <1>b. allow_multiple_instances[p] /\ tool[p].perf /\ pc[p] # "gone" => ~AllDirect
    BY <1>0 DEF AllDirect, Flags, Typed
  <1> USE DEF Flags, Early, Counted, InProgram, InCleanup, Gone, Goto, machine, own, ghosts
  <1>c. Goal
    <2>1. CASE isNMIWatchdogEnabled(p)
      BY <1>0, <2>1 DEF isNMIWatchdogEnabled
    <2>2. CASE disableNMIWatchdog(p)
      BY <1>0, <2>2 DEF disableNMIWatchdog
    <2>3. CASE SetNeedToRestore(p)
      BY <1>0, <2>3 DEF SetNeedToRestore
    <2>4. CASE initRMID(p)
      BY <1>0, <2>4 DEF initRMID
    <2>5. CASE resetPMU(p)
      BY <1>0, <2>5 DEF resetPMU
    <2>6. CASE CallProgram(p)
      BY <1>0, <2>6 DEF CallProgram
    <2>7. CASE programServerUncoreMemoryMetrics(p)
      BY <1>0, <2>7 DEF programServerUncoreMemoryMetrics
    <2>8. CASE EnterProgram(p)
      BY <1>0, <2>8 DEF EnterProgram
    <2>9. CASE JoinOthers(p)
      BY <1>0, <2>9 DEF JoinOthers, OpenSemaphore, FirstInstance
    <2>10. CASE RefusedByPerf(p)
      BY <1>0, <2>10 DEF RefusedByPerf, OpenSemaphore, Discount
    <2>11. CASE PMUBusy(p)
      BY <1>0, <2>11 DEF PMUBusy, OpenSemaphore, Discount
    <2>12. CASE StartProgramming(p)
      BY <1>0, <2>12 DEF StartProgramming, OpenSemaphore
    <2>13. ASSUME NEW c \in Cores, programCoreCounters(p, c)
          PROVE  Goal
      BY <1>0, <2>13 DEF programCoreCounters
    <2>14. CASE programUncore(p)
      BY <1>0, <2>14 DEF programUncore
    <2>15. CASE FinishMeasuring(p)
      BY <1>0, <2>15 DEF FinishMeasuring
    <2>16. CASE EnterCleanup(p)
      BY <1>0, <2>16 DEF EnterCleanup
    <2>17. CASE decrementInstanceSemaphore(p)
      BY <1>0, <2>17, <1>b DEF decrementInstanceSemaphore, Decremented
    <2>18. ASSUME NEW c \in Cores, cleanupPMU(p, c)
          PROVE  Goal
      BY <1>0, <2>18 DEF cleanupPMU
    <2>19. CASE ZeroedPMU(p)
      BY <1>0, <2>19 DEF ZeroedPMU
    <2>20. CASE cleanupUncorePMUs(p)
      BY <1>0, <2>20 DEF cleanupUncorePMUs
    <2>21. CASE LeaveCleanup(p)
      BY <1>0, <2>21 DEF LeaveCleanup
    <2>22. CASE BadArguments(p)
      BY <1>0, <2>22 DEF BadArguments
    <2>23. CASE PerfFails(p)
      BY <1>0, <2>23 DEF PerfFails, Decremented, Discount
    <2>24. CASE ExecFails(p)
      BY <1>0, <2>24 DEF ExecFails, Decremented
    <2>25. CASE SignalUnderLock(p)
      BY <1>0, <2>25 DEF SignalUnderLock
    <2>26. CASE SignalElsewhere(p)
      BY <1>0, <2>26 DEF SignalElsewhere
    <2>27. CASE Kill(p)
      BY <1>0, <2>27 DEF Kill
    <2> QED
      BY <2>1, <2>2, <2>3, <2>4, <2>5, <2>6, <2>7, <2>8, <2>9, <2>10, <2>11, <2>12, <2>13, <2>14,
         <2>15, <2>16, <2>17, <2>18, <2>19, <2>20, <2>21, <2>22, <2>23, <2>24, <2>25, <2>26, <2>27
         DEF Step, Fault
  <1> HIDE DEF Counted, Flags
  <1> QED
    BY <1>c, CountsTogether

-----------------------------------------------------------------------------
\* -m comes into force with the arguments, once.
LEMMA AllowIsKept ==
    ASSUME Typed, MachineTyped, NEW p \in Procs, Step(p) \/ Fault(p), pc[p] # "arguments",
           NEW q \in Procs
    PROVE  allow_multiple_instances'[q] = allow_multiple_instances[q]
  <1>1. CASE q # p
    BY <1>1, Frame
  <1>2. CASE q = p
    <2> USE DEF Goto, machine, own
    <2>1. CASE isNMIWatchdogEnabled(p) \/ disableNMIWatchdog(p) \/ SetNeedToRestore(p) \/ initRMID(p)
      BY <1>2, <2>1 DEF isNMIWatchdogEnabled, disableNMIWatchdog, SetNeedToRestore, initRMID
    <2>2. CASE CallProgram(p) \/ programServerUncoreMemoryMetrics(p) \/ BadArguments(p)
      BY <1>2, <2>2 DEF CallProgram, programServerUncoreMemoryMetrics, BadArguments,
         allowMultipleInstances
    <2>3. CASE EnterProgram(p) \/ FinishMeasuring(p) \/ EnterCleanup(p)
      BY <1>2, <2>3 DEF EnterProgram, FinishMeasuring, EnterCleanup
    <2>4. CASE RefusedByPerf(p) \/ PMUBusy(p)
      BY <1>2, <2>4 DEF RefusedByPerf, PMUBusy
    <2>5. CASE JoinOthers(p)
      BY <1>2, <2>5 DEF JoinOthers
    <2>6. CASE StartProgramming(p)
      BY <1>2, <2>6 DEF StartProgramming
    <2>7. ASSUME NEW c \in Cores, programCoreCounters(p, c)
          PROVE  allow_multiple_instances'[q] = allow_multiple_instances[q]
      BY <1>2, <2>7 DEF programCoreCounters
    <2>8. CASE programUncore(p)
      BY <1>2, <2>8 DEF programUncore
    <2>9. CASE PerfFails(p)
      BY <1>2, <2>9 DEF PerfFails
    <2>10. CASE decrementInstanceSemaphore(p)
      BY <1>2, <2>10 DEF decrementInstanceSemaphore
    <2>11. ASSUME NEW c \in Cores, cleanupPMU(p, c)
          PROVE  allow_multiple_instances'[q] = allow_multiple_instances[q]
      BY <1>2, <2>11 DEF cleanupPMU
    <2>12. CASE ZeroedPMU(p) \/ cleanupUncorePMUs(p) \/ LeaveCleanup(p)
      BY <1>2, <2>12 DEF ZeroedPMU, cleanupUncorePMUs, LeaveCleanup, Release
    <2>13. CASE SignalUnderLock(p) \/ SignalElsewhere(p)
      BY <1>2, <2>13 DEF SignalUnderLock, SignalElsewhere
    <2>14. CASE resetPMU(p) \/ ExecFails(p) \/ Kill(p)
      BY <1>2, <2>14 DEF resetPMU, ExecFails, Kill, RestoresWatchdog
    <2> QED
      BY <2>1, <2>2, <2>3, <2>4, <2>5, <2>6, <2>7, <2>8, <2>9, <2>10, <2>11, <2>12, <2>13, <2>14 DEF
         Step, Fault
  <1> QED
    BY <1>1, <1>2

\* What an undisturbed step does to a core: nothing, or p zeroes it at the end, or p programs it,
\* nobody else having done so.
CoreKept(c) == counters'[c] = counters[c]
CoreZeroed(p, c) ==
    counters'[c] = Nobody /\ pc[p] = "zero" /\ pc'[p] = "zero" /\ c \in todo[p] \ todo'[p]
CoreProgrammed(p, c) ==
    counters'[c] = p /\ counters[c] = Nobody /\ pc[p] = "cores" /\ pc'[p] = "cores" /\ c \notin todo'[p]

LEMMA OneCoreAtATime ==
    ASSUME Typed, MachineTyped, NEW p \in Procs, Step(p) \/ Fault(p), ~disturbed', NEW c \in Cores
    PROVE  \/ CoreKept(c)
           \/ /\ CoreZeroed(p, c) \/ CoreProgrammed(p, c)
              /\ ~tool[p].perf
  <1> DEFINE Goal == CoreKept(c) \/ ((CoreZeroed(p, c) \/ CoreProgrammed(p, c)) /\ ~tool[p].perf)
  <1>0. /\ pc \in [Procs -> Places] /\ todo \in [Procs -> SUBSET Cores]
        /\ counters \in [Cores -> Procs \cup {Nobody}]
        /\ programmed_pmu \in [Procs -> BOOLEAN] /\ numInstancesSemaphore \in [Procs -> BOOLEAN]
        /\ allow_multiple_instances \in [Procs -> BOOLEAN] /\ disturbed \in BOOLEAN /\ instances \in Nat
    BY DEF Typed, MachineTyped
  <1>a. Goal
    <2> USE DEF CoreKept, CoreZeroed, CoreProgrammed, Goto, machine, ghosts
    <2>1. CASE isNMIWatchdogEnabled(p) \/ disableNMIWatchdog(p) \/ SetNeedToRestore(p) \/ initRMID(p)
      BY <1>0, <2>1 DEF isNMIWatchdogEnabled, disableNMIWatchdog, SetNeedToRestore, initRMID
    <2>2. CASE CallProgram(p) \/ programServerUncoreMemoryMetrics(p) \/ BadArguments(p)
      BY <1>0, <2>2 DEF CallProgram, programServerUncoreMemoryMetrics, BadArguments,
         allowMultipleInstances
    <2>3. CASE EnterProgram(p) \/ FinishMeasuring(p) \/ EnterCleanup(p)
      BY <1>0, <2>3 DEF EnterProgram, FinishMeasuring, EnterCleanup
    <2>4. CASE RefusedByPerf(p) \/ PMUBusy(p)
      BY <1>0, <2>4 DEF RefusedByPerf, PMUBusy
    <2>5. CASE JoinOthers(p)
      BY <1>0, <2>5 DEF JoinOthers
    <2>6. CASE StartProgramming(p)
      BY <1>0, <2>6 DEF StartProgramming
    <2>7. ASSUME NEW d \in Cores, programCoreCounters(p, d)
          PROVE  Goal
      BY <1>0, <2>7 DEF programCoreCounters
    <2>8. CASE programUncore(p)
      BY <1>0, <2>8 DEF programUncore
    <2>9. CASE PerfFails(p)
      BY <1>0, <2>9 DEF PerfFails
    <2>10. CASE decrementInstanceSemaphore(p)
      BY <1>0, <2>10 DEF decrementInstanceSemaphore
    <2>11. ASSUME NEW d \in Cores, cleanupPMU(p, d)
          PROVE  Goal
      BY <1>0, <2>11 DEF cleanupPMU
    <2>12. CASE ZeroedPMU(p) \/ cleanupUncorePMUs(p) \/ LeaveCleanup(p)
      BY <1>0, <2>12 DEF ZeroedPMU, cleanupUncorePMUs, LeaveCleanup, Release
    <2>13. CASE SignalUnderLock(p) \/ SignalElsewhere(p)
      BY <1>0, <2>13 DEF SignalUnderLock, SignalElsewhere
    <2>14. CASE resetPMU(p) \/ ExecFails(p) \/ Kill(p)
      BY <1>0, <2>14 DEF resetPMU, ExecFails, Kill, RestoresWatchdog
    <2> QED
      BY <2>1, <2>2, <2>3, <2>4, <2>5, <2>6, <2>7, <2>8, <2>9, <2>10, <2>11, <2>12, <2>13, <2>14 DEF
         Step, Fault
  <1> QED
    BY <1>a

\* An instance begins to be counted under the lock.
LEMMA CountedUnderTheLock ==
    ASSUME Typed, MachineTyped, NEW p \in Procs, Flags(p), Step(p) \/ Fault(p), ~disturbed',
           ~Counted(p), Counted(p)'
    PROVE  pc[p] = "locked" /\ allow_multiple_instances[p]
  <1>0. /\ pc \in [Procs -> Places] /\ todo \in [Procs -> SUBSET Cores]
        /\ counters \in [Cores -> Procs \cup {Nobody}]
        /\ programmed_pmu \in [Procs -> BOOLEAN] /\ numInstancesSemaphore \in [Procs -> BOOLEAN]
        /\ allow_multiple_instances \in [Procs -> BOOLEAN] /\ disturbed \in BOOLEAN /\ instances \in Nat
    BY DEF Typed, MachineTyped
  <1> USE DEF Counted, Flags, Early, InProgram, InCleanup, Gone, Goto, machine, own, ghosts
  <1>1. CASE isNMIWatchdogEnabled(p) \/ disableNMIWatchdog(p) \/ SetNeedToRestore(p) \/ initRMID(p)
    BY <1>0, <1>1 DEF isNMIWatchdogEnabled, disableNMIWatchdog, SetNeedToRestore, initRMID
  <1>2. CASE CallProgram(p) \/ programServerUncoreMemoryMetrics(p) \/ BadArguments(p)
    BY <1>0, <1>2 DEF CallProgram, programServerUncoreMemoryMetrics, BadArguments,
       allowMultipleInstances
  <1>3. CASE EnterProgram(p) \/ FinishMeasuring(p) \/ EnterCleanup(p)
    BY <1>0, <1>3 DEF EnterProgram, FinishMeasuring, EnterCleanup
  <1>4. CASE RefusedByPerf(p) \/ PMUBusy(p)
    BY <1>0, <1>4 DEF RefusedByPerf, PMUBusy, OpenSemaphore, Discount
  <1>5. CASE JoinOthers(p)
    BY <1>0, <1>5 DEF JoinOthers, OpenSemaphore, FirstInstance
  <1>6. CASE StartProgramming(p)
    BY <1>0, <1>6 DEF StartProgramming, OpenSemaphore
  <1>7. ASSUME NEW c \in Cores, programCoreCounters(p, c)
        PROVE  pc[p] = "locked" /\ allow_multiple_instances[p]
    BY <1>0, <1>7 DEF programCoreCounters
  <1>8. CASE programUncore(p)
    BY <1>0, <1>8 DEF programUncore
  <1>9. CASE PerfFails(p)
    BY <1>0, <1>9 DEF PerfFails, Discount
  <1>10. CASE decrementInstanceSemaphore(p)
    BY <1>0, <1>10 DEF decrementInstanceSemaphore
  <1>11. ASSUME NEW c \in Cores, cleanupPMU(p, c)
        PROVE  pc[p] = "locked" /\ allow_multiple_instances[p]
    BY <1>0, <1>11 DEF cleanupPMU
  <1>12. CASE ZeroedPMU(p) \/ cleanupUncorePMUs(p) \/ LeaveCleanup(p)
    BY <1>0, <1>12 DEF ZeroedPMU, cleanupUncorePMUs, LeaveCleanup
  <1>13. CASE SignalUnderLock(p) \/ SignalElsewhere(p)
    BY <1>0, <1>13 DEF SignalUnderLock, SignalElsewhere
  <1>14. CASE resetPMU(p) \/ ExecFails(p) \/ Kill(p)
    BY <1>0, <1>14 DEF resetPMU, ExecFails, Kill, allowMultipleInstances, RestoresWatchdog
  <1> QED
    BY <1>1, <1>2, <1>3, <1>4, <1>5, <1>6, <1>7, <1>8, <1>9, <1>10, <1>11, <1>12, <1>13, <1>14 DEF
       Step, Fault

\* It ceases to be when perf fails, or at its end: the last of them goes on to zero all cores.
LEMMA CountedUntilTheEnd ==
    ASSUME Typed, MachineTyped, NEW p \in Procs, Flags(p), Step(p) \/ Fault(p), ~disturbed',
           Counted(p), ~Counted(p)'
    PROVE  \/ tool[p].perf
           \/ pc[p] = "cleanup" /\ (instances = 1 => pc'[p] = "zero" /\ todo'[p] = Cores)
  <1> DEFINE Goal == \/ tool[p].perf
                     \/ pc[p] = "cleanup" /\ (instances = 1 => pc'[p] = "zero" /\ todo'[p] = Cores)
  <1>0. /\ pc \in [Procs -> Places] /\ todo \in [Procs -> SUBSET Cores]
        /\ counters \in [Cores -> Procs \cup {Nobody}]
        /\ programmed_pmu \in [Procs -> BOOLEAN] /\ numInstancesSemaphore \in [Procs -> BOOLEAN]
        /\ allow_multiple_instances \in [Procs -> BOOLEAN] /\ disturbed \in BOOLEAN /\ instances \in Nat
    BY DEF Typed, MachineTyped
  <1>a. Goal
    <2> USE DEF Counted, Flags, Early, InProgram, InCleanup, Gone, Goto, machine, own, ghosts
    <2>1. CASE isNMIWatchdogEnabled(p) \/ disableNMIWatchdog(p) \/ SetNeedToRestore(p) \/ initRMID(p)
      BY <1>0, <2>1 DEF isNMIWatchdogEnabled, disableNMIWatchdog, SetNeedToRestore, initRMID
    <2>2. CASE CallProgram(p) \/ programServerUncoreMemoryMetrics(p) \/ BadArguments(p)
      BY <1>0, <2>2 DEF CallProgram, programServerUncoreMemoryMetrics, BadArguments,
         allowMultipleInstances
    <2>3. CASE EnterProgram(p) \/ FinishMeasuring(p) \/ EnterCleanup(p)
      BY <1>0, <2>3 DEF EnterProgram, FinishMeasuring, EnterCleanup
    <2>4. CASE RefusedByPerf(p) \/ PMUBusy(p)
      BY <1>0, <2>4 DEF RefusedByPerf, PMUBusy, OpenSemaphore, Discount
    <2>5. CASE JoinOthers(p)
      BY <1>0, <2>5 DEF JoinOthers, OpenSemaphore
    <2>6. CASE StartProgramming(p)
      BY <1>0, <2>6 DEF StartProgramming, OpenSemaphore
    <2>7. ASSUME NEW c \in Cores, programCoreCounters(p, c)
          PROVE  Goal
      BY <1>0, <2>7 DEF programCoreCounters
    <2>8. CASE programUncore(p)
      BY <1>0, <2>8 DEF programUncore
    <2>9. CASE PerfFails(p)
      BY <1>0, <2>9 DEF PerfFails, Discount
    <2>10. CASE decrementInstanceSemaphore(p)
      BY <1>0, <2>10 DEF decrementInstanceSemaphore, CleansPMU, LastInstance
    <2>11. ASSUME NEW c \in Cores, cleanupPMU(p, c)
          PROVE  Goal
      BY <1>0, <2>11 DEF cleanupPMU
    <2>12. CASE ZeroedPMU(p) \/ cleanupUncorePMUs(p) \/ LeaveCleanup(p)
      BY <1>0, <2>12 DEF ZeroedPMU, cleanupUncorePMUs, LeaveCleanup, Release
    <2>13. CASE SignalUnderLock(p) \/ SignalElsewhere(p)
      BY <1>0, <2>13 DEF SignalUnderLock, SignalElsewhere
    <2>14. CASE resetPMU(p) \/ ExecFails(p) \/ Kill(p)
      BY <1>0, <2>14 DEF resetPMU, ExecFails, Kill, RestoresWatchdog
    <2> QED
      BY <2>1, <2>2, <2>3, <2>4, <2>5, <2>6, <2>7, <2>8, <2>9, <2>10, <2>11, <2>12, <2>13, <2>14 DEF
         Step, Fault
  <1> QED
    BY <1>a

\* With -m the one that begins to zero was counted, alone.
LEMMA LastBegins ==
    ASSUME Typed, MachineTyped, NEW p \in Procs, Flags(p), Step(p) \/ Fault(p), ~disturbed',
           pc[p] # "zero", pc'[p] = "zero", allow_multiple_instances'[p], ~tool[p].perf
    PROVE  Counted(p) /\ ~Counted(p)' /\ instances = 1
  <1> DEFINE Goal == Counted(p) /\ ~Counted(p)' /\ instances = 1
  <1>0. /\ pc \in [Procs -> Places] /\ todo \in [Procs -> SUBSET Cores]
        /\ counters \in [Cores -> Procs \cup {Nobody}]
        /\ programmed_pmu \in [Procs -> BOOLEAN] /\ numInstancesSemaphore \in [Procs -> BOOLEAN]
        /\ allow_multiple_instances \in [Procs -> BOOLEAN] /\ disturbed \in BOOLEAN /\ instances \in Nat
    BY DEF Typed, MachineTyped
  <1>a. Goal
    <2> USE DEF Counted, Flags, Early, InProgram, InCleanup, Gone, Goto, machine, own, ghosts
    <2>1. CASE isNMIWatchdogEnabled(p) \/ disableNMIWatchdog(p) \/ SetNeedToRestore(p) \/ initRMID(p)
      BY <1>0, <2>1 DEF isNMIWatchdogEnabled, disableNMIWatchdog, SetNeedToRestore, initRMID
    <2>2. CASE CallProgram(p) \/ programServerUncoreMemoryMetrics(p) \/ BadArguments(p)
      BY <1>0, <2>2 DEF CallProgram, programServerUncoreMemoryMetrics, BadArguments,
         allowMultipleInstances
    <2>3. CASE EnterProgram(p) \/ FinishMeasuring(p) \/ EnterCleanup(p)
      BY <1>0, <2>3 DEF EnterProgram, FinishMeasuring, EnterCleanup
    <2>4. CASE RefusedByPerf(p) \/ PMUBusy(p)
      BY <1>0, <2>4 DEF RefusedByPerf, PMUBusy, OpenSemaphore, Discount
    <2>5. CASE JoinOthers(p)
      BY <1>0, <2>5 DEF JoinOthers, OpenSemaphore
    <2>6. CASE StartProgramming(p)
      BY <1>0, <2>6 DEF StartProgramming, OpenSemaphore
    <2>7. ASSUME NEW c \in Cores, programCoreCounters(p, c)
          PROVE  Goal
      BY <1>0, <2>7 DEF programCoreCounters
    <2>8. CASE programUncore(p)
      BY <1>0, <2>8 DEF programUncore
    <2>9. CASE PerfFails(p)
      BY <1>0, <2>9 DEF PerfFails, Discount
    <2>10. CASE decrementInstanceSemaphore(p)
      <3>1. /\ pc[p] = "cleanup" /\ LastInstance(p) /\ pc'[p] = "zero"
            /\ allow_multiple_instances[p]
        BY <1>0, <2>10 DEF decrementInstanceSemaphore, CleansPMU
      <3>2. disturbed' = (disturbed \/ (p \in discounted /\ instances > 0 /\ ~tool[p].perf))
        BY <2>10 DEF decrementInstanceSemaphore
      <3>a. ~disturbed
        BY <1>0, <3>2
      <3>b. numInstancesSemaphore[p]
        BY <3>1, <3>a
      <3> HIDE DEF Flags
      <3>3. instances = 1 /\ instances > 0
        BY <3>1, <3>b DEF LastInstance
      <3>4. p \in discounted => ~(instances > 0)
        BY <3>2, Zenon
      <3> QED
        BY <3>1, <3>b, <3>3, <3>4
    <2>11. ASSUME NEW c \in Cores, cleanupPMU(p, c)
          PROVE  Goal
      BY <1>0, <2>11 DEF cleanupPMU
    <2>12. CASE ZeroedPMU(p) \/ cleanupUncorePMUs(p) \/ LeaveCleanup(p)
      BY <1>0, <2>12 DEF ZeroedPMU, cleanupUncorePMUs, LeaveCleanup, Release
    <2>13. CASE SignalUnderLock(p) \/ SignalElsewhere(p)
      BY <1>0, <2>13 DEF SignalUnderLock, SignalElsewhere
    <2>14. CASE resetPMU(p) \/ ExecFails(p) \/ Kill(p)
      BY <1>0, <2>14 DEF resetPMU, ExecFails, Kill, RestoresWatchdog
    <2> QED
      BY <2>1, <2>2, <2>3, <2>4, <2>5, <2>6, <2>7, <2>8, <2>9, <2>10, <2>11, <2>12, <2>13, <2>14 DEF
         Step, Fault
  <1> QED
    BY <1>a

\* How a process comes to hold a core: it programs it, or joins others under the lock.
LEMMA HoldsComes ==
    ASSUME Typed, MachineTyped, NEW p \in Procs, Flags(p), Step(p) \/ Fault(p), ~disturbed',
           NEW d \in Cores, Holds(p, d)'
    PROVE  \/ Holds(p, d)
           \/ counters'[d] = p
           \/ pc[p] = "locked" /\ allow_multiple_instances[p] /\ instances > 0
  <1> DEFINE Goal == \/ Holds(p, d)
                     \/ counters'[d] = p
                     \/ pc[p] = "locked" /\ allow_multiple_instances[p] /\ instances > 0
  <1>0. /\ pc \in [Procs -> Places] /\ todo \in [Procs -> SUBSET Cores]
        /\ counters \in [Cores -> Procs \cup {Nobody}]
        /\ programmed_pmu \in [Procs -> BOOLEAN] /\ numInstancesSemaphore \in [Procs -> BOOLEAN]
        /\ allow_multiple_instances \in [Procs -> BOOLEAN] /\ disturbed \in BOOLEAN /\ instances \in Nat
    BY DEF Typed, MachineTyped
  <1>a. Goal
    <2> USE DEF Holds, Counted, Flags, Early, InProgram, InCleanup, Gone, Goto, machine, own, ghosts
    <2>1. CASE isNMIWatchdogEnabled(p) \/ disableNMIWatchdog(p) \/ SetNeedToRestore(p) \/ initRMID(p)
      BY <1>0, <2>1 DEF isNMIWatchdogEnabled, disableNMIWatchdog, SetNeedToRestore, initRMID
    <2>2. CASE CallProgram(p) \/ programServerUncoreMemoryMetrics(p) \/ BadArguments(p)
      BY <1>0, <2>2 DEF CallProgram, programServerUncoreMemoryMetrics, BadArguments,
         allowMultipleInstances
    <2>3. CASE EnterProgram(p) \/ FinishMeasuring(p) \/ EnterCleanup(p)
      BY <1>0, <2>3 DEF EnterProgram, FinishMeasuring, EnterCleanup
    <2>4. CASE RefusedByPerf(p) \/ PMUBusy(p)
      BY <1>0, <2>4 DEF RefusedByPerf, PMUBusy, OpenSemaphore, Discount
    <2>5. CASE JoinOthers(p)
      BY <1>0, <2>5 DEF JoinOthers, OpenSemaphore, FirstInstance
    <2>6. CASE StartProgramming(p)
      BY <1>0, <2>6 DEF StartProgramming, OpenSemaphore
    <2>7. ASSUME NEW c \in Cores, programCoreCounters(p, c)
          PROVE  Goal
      BY <1>0, <2>7 DEF programCoreCounters
    <2>8. CASE programUncore(p)
      BY <1>0, <2>8 DEF programUncore
    <2>9. CASE PerfFails(p)
      BY <1>0, <2>9 DEF PerfFails, Discount
    <2>10. CASE decrementInstanceSemaphore(p)
      <3>1. pc[p] = "cleanup" /\ pc'[p] = "zero" /\ UNCHANGED <<allow_multiple_instances, tool>> /\ LastInstance(p)
        BY <1>0, <2>10 DEF decrementInstanceSemaphore, CleansPMU
      <3>2. CASE allow_multiple_instances[p]
        BY <3>1, <3>2, LastBegins DEF Holds
      <3>3. CASE ~allow_multiple_instances[p]
        BY <3>1, <3>3 DEF LastInstance
      <3> QED
        BY <3>2, <3>3
    <2>11. ASSUME NEW c \in Cores, cleanupPMU(p, c)
          PROVE  Goal
      BY <1>0, <2>11 DEF cleanupPMU
    <2>12. CASE ZeroedPMU(p) \/ cleanupUncorePMUs(p) \/ LeaveCleanup(p)
      BY <1>0, <2>12 DEF ZeroedPMU, cleanupUncorePMUs, LeaveCleanup, Release
    <2>13. CASE SignalUnderLock(p) \/ SignalElsewhere(p)
      BY <1>0, <2>13 DEF SignalUnderLock, SignalElsewhere
    <2>14. CASE resetPMU(p) \/ ExecFails(p) \/ Kill(p)
      BY <1>0, <2>14 DEF resetPMU, ExecFails, Kill, allowMultipleInstances, RestoresWatchdog
    <2> QED
      BY <2>1, <2>2, <2>3, <2>4, <2>5, <2>6, <2>7, <2>8, <2>9, <2>10, <2>11, <2>12, <2>13, <2>14 DEF
         Step, Fault
  <1> QED
    BY <1>a

\* Without -m it holds what it programmed until it has zeroed it, or is stuck; and whoever zeroes
\* goes on until all is done.
LEMMA HoldsUntilZeroed ==
    ASSUME Typed, MachineTyped, NEW p \in Procs, Flags(p), Step(p) \/ Fault(p), ~disturbed',
           NEW d \in Cores, Holds(p, d), counters'[d] # Nobody,
           ~allow_multiple_instances[p] \/ pc[p] = "zero"
    PROVE  \/ Holds(p, d)' /\ (pc[p] = "zero" => pc'[p] = "zero")
           \/ pc'[p] = "stuck" /\ pc[p] # "zero"
  <1> DEFINE Goal == \/ Holds(p, d)' /\ (pc[p] = "zero" => pc'[p] = "zero")
                     \/ pc'[p] = "stuck" /\ pc[p] # "zero"
  <1>0. /\ pc \in [Procs -> Places] /\ todo \in [Procs -> SUBSET Cores]
        /\ counters \in [Cores -> Procs \cup {Nobody}]
        /\ programmed_pmu \in [Procs -> BOOLEAN] /\ numInstancesSemaphore \in [Procs -> BOOLEAN]
        /\ allow_multiple_instances \in [Procs -> BOOLEAN] /\ disturbed \in BOOLEAN /\ instances \in Nat
    BY DEF Typed, MachineTyped
  <1>a. Goal
    <2> USE DEF Holds, Counted, Flags, Early, InProgram, InCleanup, Gone, Goto, machine, own, ghosts
    <2>1. CASE isNMIWatchdogEnabled(p) \/ disableNMIWatchdog(p) \/ SetNeedToRestore(p) \/ initRMID(p)
      BY <1>0, <2>1 DEF isNMIWatchdogEnabled, disableNMIWatchdog, SetNeedToRestore, initRMID
    <2>2. CASE CallProgram(p) \/ programServerUncoreMemoryMetrics(p) \/ BadArguments(p)
      BY <1>0, <2>2 DEF CallProgram, programServerUncoreMemoryMetrics, BadArguments,
         allowMultipleInstances
    <2>3. CASE EnterProgram(p) \/ FinishMeasuring(p) \/ EnterCleanup(p)
      BY <1>0, <2>3 DEF EnterProgram, FinishMeasuring, EnterCleanup
    <2>4. CASE RefusedByPerf(p) \/ PMUBusy(p)
      BY <1>0, <2>4 DEF RefusedByPerf, PMUBusy, OpenSemaphore, Discount
    <2>5. CASE JoinOthers(p)
      BY <1>0, <2>5 DEF JoinOthers, OpenSemaphore, FirstInstance
    <2>6. CASE StartProgramming(p)
      BY <1>0, <2>6 DEF StartProgramming, OpenSemaphore
    <2>7. ASSUME NEW c \in Cores, programCoreCounters(p, c)
          PROVE  Goal
      BY <1>0, <2>7 DEF programCoreCounters
    <2>8. CASE programUncore(p)
      BY <1>0, <2>8 DEF programUncore
    <2>9. CASE PerfFails(p)
      BY <1>0, <2>9 DEF PerfFails, Discount
    <2>10. CASE decrementInstanceSemaphore(p)
      BY <1>0, <2>10 DEF decrementInstanceSemaphore, CleansPMU, LastInstance
    <2>11. ASSUME NEW c \in Cores, cleanupPMU(p, c)
          PROVE  Goal
      BY <1>0, <2>11 DEF cleanupPMU
    <2>12. CASE ZeroedPMU(p) \/ cleanupUncorePMUs(p) \/ LeaveCleanup(p)
      BY <1>0, <2>12 DEF ZeroedPMU, cleanupUncorePMUs, LeaveCleanup, Release
    <2>13. CASE SignalUnderLock(p) \/ SignalElsewhere(p)
      BY <1>0, <2>13 DEF SignalUnderLock, SignalElsewhere
    <2>14. CASE resetPMU(p) \/ ExecFails(p) \/ Kill(p)
      BY <1>0, <2>14 DEF resetPMU, ExecFails, Kill, allowMultipleInstances, RestoresWatchdog
    <2> QED
      BY <2>1, <2>2, <2>3, <2>4, <2>5, <2>6, <2>7, <2>8, <2>9, <2>10, <2>11, <2>12, <2>13, <2>14 DEF
         Step, Fault
  <1> QED
    BY <1>a

\* Who is stuck is there until it is killed.
LEMMA StuckForEver ==
    ASSUME Typed, MachineTyped, NEW p \in Procs, Step(p) \/ Fault(p), pc[p] = "stuck"
    PROVE  disturbed'
  <1> USE DEF Goto, InProgram
  <1>1. CASE isNMIWatchdogEnabled(p) \/ disableNMIWatchdog(p) \/ SetNeedToRestore(p) \/ initRMID(p)
    BY <1>1 DEF isNMIWatchdogEnabled, disableNMIWatchdog, SetNeedToRestore, initRMID
  <1>2. CASE CallProgram(p) \/ programServerUncoreMemoryMetrics(p) \/ BadArguments(p)
    BY <1>2 DEF CallProgram, programServerUncoreMemoryMetrics, BadArguments
  <1>3. CASE EnterProgram(p) \/ FinishMeasuring(p) \/ EnterCleanup(p)
    BY <1>3 DEF EnterProgram, FinishMeasuring, EnterCleanup
  <1>4. CASE RefusedByPerf(p) \/ PMUBusy(p)
    BY <1>4 DEF RefusedByPerf, PMUBusy
  <1>5. CASE JoinOthers(p)
    BY <1>5 DEF JoinOthers
  <1>6. CASE StartProgramming(p)
    BY <1>6 DEF StartProgramming
  <1>7. ASSUME NEW c \in Cores, programCoreCounters(p, c)
        PROVE  disturbed'
    BY <1>7 DEF programCoreCounters
  <1>8. CASE programUncore(p)
    BY <1>8 DEF programUncore
  <1>9. CASE PerfFails(p)
    BY <1>9 DEF PerfFails
  <1>10. CASE decrementInstanceSemaphore(p)
    BY <1>10 DEF decrementInstanceSemaphore
  <1>11. ASSUME NEW c \in Cores, cleanupPMU(p, c)
        PROVE  disturbed'
    BY <1>11 DEF cleanupPMU
  <1>12. CASE ZeroedPMU(p) \/ cleanupUncorePMUs(p) \/ LeaveCleanup(p)
    BY <1>12 DEF ZeroedPMU, cleanupUncorePMUs, LeaveCleanup
  <1>13. CASE SignalUnderLock(p) \/ SignalElsewhere(p)
    BY <1>13 DEF SignalUnderLock, SignalElsewhere
  <1>14. CASE resetPMU(p) \/ ExecFails(p) \/ Kill(p)
    BY <1>14 DEF resetPMU, ExecFails, Kill
  <1> QED
    BY <1>1, <1>2, <1>3, <1>4, <1>5, <1>6, <1>7, <1>8, <1>9, <1>10, <1>11, <1>12, <1>13, <1>14 DEF
       Step, Fault

-----------------------------------------------------------------------------
\* All of the invariant.
CoresKept ==
    /\ Typed /\ MachineTyped /\ LockHeld /\ AllFlags /\ StuckHolds /\ Traces
    /\ PerfKept /\ Counting /\ Held /\ LastIsAlone /\ Owed

\* Instances with -m that may run together all go through perf, or all do not.
LEMMA DirectTogether ==
    ASSUME Alike, AllFlags, NEW p \in Procs, allow_multiple_instances[p], ~tool[p].perf
    PROVE  /\ AllDirect
           /\ \A q \in Procs : allow_multiple_instances[q] => ~tool[q].perf
  <1>1. \A q \in Procs : allow_multiple_instances[q] => q \in DOMAIN tool /\ tool[q].multi
    BY DEF AllFlags, Flags
  <1> QED
    BY <1>1 DEF Alike, AllDirect

\* While any instance is counted, one of them is outside of the lock, measuring or leaving,
\* unless it is the holder of the lock.
LEMMA SomeoneMeasures ==
    ASSUME Typed, MachineTyped, LockHeld, StuckHolds, AllFlags, Counting, ~disturbed, instances > 0,
           NEW p \in Procs, lock = p, ~Counted(p)
    PROVE  \E q \in Procs : Counted(q) /\ pc[q] \in {"measure", "exit"}
  <1>1. Countees # {}
    <2>1. instances \in Nat /\ instances <= Cardinality(Countees)
      BY DEF MachineTyped, Counting
    <2>2. Countees = {} => Cardinality(Countees) = 0
      BY FS_EmptySet
    <2> QED
      BY <2>1, <2>2
  <1>2. PICK q \in Procs : Counted(q)
    BY <1>1 DEF Countees
  <1>3. q # p /\ allow_multiple_instances[q] /\ pc[q] \in {"cores", "measure", "exit", "cleanup", "stuck"}
    BY <1>2 DEF Counted
  <1>4. lock # q
    BY <1>3
  <1>5. pc[q] \notin {"cores", "cleanup", "stuck"}
    BY <1>3, <1>4 DEF LockHeld, StuckHolds, InProgram, InCleanup
  <1> QED
    BY <1>2, <1>3, <1>5

\* With -m, who holds a core is counted, or is the last and zeroes it.
LEMMA HoldersAreCounted ==
    ASSUME Typed, AllFlags, NEW q \in Procs, NEW d \in Cores, Holds(q, d), allow_multiple_instances[q]
    PROVE  Counted(q) \/ pc[q] = "zero"
  BY DEF Holds, Counted, AllFlags, Flags, InCleanup, Gone

\* Of the others a step of p leaves what they hold.
LEMMA HoldsOthers ==
    ASSUME Typed, MachineTyped, NEW p \in Procs, Step(p) \/ Fault(p), NEW q \in Procs \ {p}, NEW d \in Cores
    PROVE  Holds(q, d)' <=> Holds(q, d)
  <1>1. Counted(q)' <=> Counted(q)
    BY CountedOthers
  <1> QED
    BY <1>1, Frame DEF Holds

-----------------------------------------------------------------------------
LEMMA HeldInit == Init => Held /\ LastIsAlone /\ Owed
  <1> SUFFICES ASSUME Init PROVE Held /\ LastIsAlone /\ Owed
    OBVIOUS
  <1>1. \A p \in Procs : pc[p] \in {"start", "gone"}
    BY DEF Init
  <1>2. Held /\ LastIsAlone
    BY <1>1 DEF Held, Holds, LastIsAlone
  <1>3. \A q \in Procs, c \in Cores : counters[c] # q
    BY ProcsAndFleets DEF Init
  <1> QED
    BY <1>2, <1>3 DEF Owed

\* A core that someone holds stays as it is until its holder zeroes it: who programs a core found
\* it free, and the last instance with -m zeroes what no other instance uses.
LEMMA HeldStep ==
    ASSUME CoresKept, NEW p \in Procs, Step(p) \/ Fault(p)
    PROVE  Held'
  <1> SUFFICES ASSUME Quiet', NEW q \in Procs, NEW d \in Cores, Holds(q, d)'
               PROVE  HeldBy(q, d)'
    BY DEF Held
  <1>0. /\ Typed /\ MachineTyped /\ LockHeld /\ AllFlags /\ StuckHolds /\ Counting /\ Flags(p)
        /\ Nobody \notin Procs
    BY ProcsAndFleets DEF CoresKept, AllFlags
  <1>1. Quiet /\ ~disturbed'
    BY <1>0, Frame DEF Quiet, Alike
  <1>2. \A r \in Procs, c \in Cores : Holds(r, c) => HeldBy(r, c)
    BY <1>1 DEF CoresKept, Held
  <1>3. \A r \in Procs : allow_multiple_instances[r] => allow_multiple_instances'[r] /\ tool' = tool
    <2>1. pc[p] = "arguments" => ~allow_multiple_instances[p]
      BY <1>0 DEF Flags, Early
    <2> QED
      BY <1>0, <2>1, Frame, AllowIsKept
  \* Who is held stays held when the core is left alone.
  <1>4. ASSUME Holds(q, d), CoreKept(d), allow_multiple_instances'[q] = allow_multiple_instances[q]
        PROVE  HeldBy(q, d)'
    BY <1>2, <1>3, <1>4 DEF HeldBy, CoreKept
  <1>5. CASE q # p
    <2>1. Holds(q, d) /\ allow_multiple_instances'[q] = allow_multiple_instances[q]
      BY <1>0, <1>5, HoldsOthers, Frame
    <2>2. HeldBy(q, d)
      BY <1>2, <2>1
    <2>3. counters[d] \in Procs
      BY <2>2 DEF HeldBy
    <2>4. CASE CoreKept(d)
      BY <1>4, <2>1, <2>4
    <2>5. ~CoreProgrammed(p, d)
      BY <1>0, <2>3 DEF CoreProgrammed
    <2>6. ~(CoreZeroed(p, d) /\ ~tool[p].perf)
      <3> SUFFICES ASSUME CoreZeroed(p, d), ~tool[p].perf PROVE FALSE
        OBVIOUS
      <3>1. pc[p] = "zero" /\ Holds(p, d)
        BY DEF CoreZeroed, Holds
      <3>2. HeldBy(p, d)
        BY <1>2, <3>1
      <3>3. allow_multiple_instances[p] /\ allow_multiple_instances[q]
        BY <1>5, <2>2, <3>2 DEF HeldBy
      <3>4. Countees = {}
        BY <1>1, <3>1, <3>3 DEF CoresKept, LastIsAlone
      <3>5. pc[q] = "zero"
        BY <1>0, <2>1, <3>3, <3>4, HoldersAreCounted DEF Countees
      <3>6. lock = p /\ lock = q
        BY <1>0, <3>1, <3>3, <3>5 DEF LockHeld, InCleanup
      <3> QED
        BY <1>5, <3>6
    <2> QED
      BY <1>0, <1>1, <2>4, <2>5, <2>6, OneCoreAtATime
  <1>6. CASE q = p
    <2>0. Holds(p, d)'
      BY <1>6
    <2>1. CASE Holds(p, d)
      <3>1. pc[p] # "arguments" /\ allow_multiple_instances'[p] = allow_multiple_instances[p]
        BY <1>0, <2>1, AllowIsKept DEF Holds
      <3>2. ~CoreZeroed(p, d)
        BY <2>0 DEF CoreZeroed, Holds
      <3>3. CASE CoreProgrammed(p, d)
        BY <1>3, <1>6, <3>1, <3>3 DEF CoreProgrammed, HeldBy
      <3>4. CASE CoreKept(d)
        BY <1>4, <1>6, <2>1, <3>1, <3>4
      <3> QED
        BY <1>0, <1>1, <3>2, <3>3, <3>4, OneCoreAtATime
    <2>2. CASE ~Holds(p, d) /\ counters'[d] = p
      BY <1>6, <2>2 DEF HeldBy
    <2>3. CASE ~Holds(p, d) /\ pc[p] = "locked" /\ allow_multiple_instances[p] /\ instances > 0
      <3>1. lock = p /\ ~Counted(p)
        BY <1>0, <2>3 DEF LockHeld, InProgram, Counted
      <3>2. PICK r \in Procs : Counted(r) /\ pc[r] \in {"measure", "exit"}
        BY <1>0, <1>1, <2>3, <3>1, SomeoneMeasures DEF Quiet
      <3>3. ~tool[p].perf
        BY <1>0, <1>6, Frame DEF Holds
      <3>4. ~tool[r].perf /\ allow_multiple_instances[r]
        BY <1>0, <1>1, <2>3, <3>2, <3>3, DirectTogether DEF Quiet, Counted
      <3>5. Holds(r, d)
        BY <3>2, <3>4 DEF Holds
      <3>6. counters[d] \in Procs /\ allow_multiple_instances[counters[d]]
        BY <1>2, <3>4, <3>5 DEF HeldBy
      <3>7. ~CoreZeroed(p, d) /\ ~CoreProgrammed(p, d)
        BY <2>3 DEF CoreZeroed, CoreProgrammed
      <3>8. counters'[d] = counters[d]
        BY <1>0, <1>1, <3>7, OneCoreAtATime DEF CoreKept
      <3> QED
        BY <1>3, <1>6, <2>3, <3>6, <3>8 DEF HeldBy
    <2> QED
      BY <1>0, <1>1, <2>0, <2>1, <2>2, <2>3, HoldsComes
  <1> QED
    BY <1>5, <1>6

\* The last instance counts nobody but itself, and nobody else can come under its lock.
LEMMA LastIsAloneStep ==
    ASSUME CoresKept, NEW p \in Procs, Step(p) \/ Fault(p)
    PROVE  LastIsAlone'
  <1> SUFFICES ASSUME Quiet', NEW q \in Procs, pc'[q] = "zero", allow_multiple_instances'[q], ~tool'[q].perf,
                      NEW r \in Procs, Counted(r)'
               PROVE  FALSE
    BY DEF LastIsAlone, Countees
  <1>0. /\ Typed /\ MachineTyped /\ LockHeld /\ AllFlags /\ Counting /\ Flags(p)
    BY DEF CoresKept, AllFlags
  <1>1. Quiet /\ ~disturbed' /\ tool' = tool
    BY <1>0, Frame DEF Quiet, Alike
  <1>2. \A s \in Procs : pc[s] = "zero" /\ allow_multiple_instances[s] /\ ~tool[s].perf => Countees = {}
    BY <1>1 DEF CoresKept, LastIsAlone
  <1>3. Counted(r) \/ (r = p /\ pc[p] = "locked" /\ allow_multiple_instances[p])
    <2>1. CASE r # p
      BY <1>0, <2>1, CountedOthers
    <2>2. CASE r = p
      BY <1>0, <1>1, <2>2, CountedUnderTheLock
    <2> QED
      BY <2>1, <2>2
  <1>4. CASE pc[q] = "zero"
    <2>1. allow_multiple_instances[q]
      BY <1>0, <1>4, AllowIsKept, Frame
    <2>2. r \notin Countees
      BY <1>1, <1>2, <1>4, <2>1
    <2>3. pc[p] = "locked" /\ allow_multiple_instances[p]
      BY <1>3, <2>2 DEF Countees
    <2>4. lock = p /\ lock = q
      BY <1>0, <1>4, <2>1, <2>3 DEF LockHeld, InProgram, InCleanup
    <2> QED
      BY <1>4, <2>3, <2>4
  <1>5. CASE pc[q] # "zero"
    <2>1. q = p
      BY <1>0, <1>5, Frame
    <2>2. Counted(p) /\ ~Counted(p)' /\ instances = 1
      BY <1>0, <1>1, <1>5, <2>1, LastBegins
    <2>3. AllDirect
      <3>1. allow_multiple_instances[p]
        BY <2>2 DEF Counted
      <3> QED
        BY <1>0, <1>1, <2>1, <3>1, DirectTogether DEF Quiet
    <2>4. Cardinality(Countees) = 1 /\ p \in Countees
      BY <1>0, <1>1, <2>2, <2>3 DEF Counting, Quiet, Countees
    <2>5. Countees = {p}
      BY <2>4, CounteesFinite, FS_Singleton
    <2>6. r # p
      BY <2>2
    <2>7. r \in Countees
      BY <1>3, <2>6 DEF Countees
    <2> QED
      BY <2>5, <2>6, <2>7
  <1> QED
    BY <1>4, <1>5

\* Someone is there to zero every core that is programmed: its holder, an instance that is counted,
\* or the last one, which has it still to do.
LEMMA OwedStep ==
    ASSUME CoresKept, NEW p \in Procs, Step(p) \/ Fault(p)
    PROVE  Owed'
  <1> SUFFICES ASSUME Quiet', NEW q \in Procs, NEW c \in Cores, counters'[c] = q
               PROVE  Owes(q, c)'
    BY DEF Owed
  <1>0. /\ Typed /\ MachineTyped /\ LockHeld /\ AllFlags /\ Counting /\ Flags(p) /\ Nobody \notin Procs
        /\ pc \in [Procs -> Places]
    BY ProcsAndFleets DEF CoresKept, AllFlags, Typed
  <1>1. Quiet /\ ~disturbed /\ ~disturbed' /\ tool' = tool
    BY <1>0, Frame DEF Quiet, Alike
  <1>2. ~CoreZeroed(p, c)
    BY <1>0 DEF CoreZeroed
  <1>3. CASE CoreProgrammed(p, c) /\ ~tool[p].perf
    <2>1. q = p /\ pc[p] = "cores" /\ pc'[p] = "cores" /\ c \notin todo'[p]
      BY <1>3 DEF CoreProgrammed
    <2>2. Holds(p, c)'
      BY <1>1, <1>3, <2>1 DEF Holds
    <2>3. CASE allow_multiple_instances'[p]
      <3>1. Counted(p)'
        BY <1>0, <2>1, <2>3, FlagsHere DEF Flags, Counted, InCleanup, Gone
      <3>2. Countees' # {}
        BY <3>1 DEF Countees
      <3> QED
        BY <1>1, <1>3, <2>1, <2>2, <3>2 DEF Owes
    <2> QED
      BY <1>1, <1>3, <2>1, <2>2, <2>3 DEF Owes
  <1>4. CASE CoreKept(c)
    <2>0. counters[c] = q
      BY <1>4 DEF CoreKept
    <2>1. Owes(q, c)
      BY <1>1, <2>0 DEF CoresKept, Owed
    <2>2. ~tool[q].perf /\ ~tool'[q].perf
      BY <1>1, <2>1 DEF Owes
    <2>3. CASE ~allow_multiple_instances[q]
      <3>1. Holds(q, c) \/ pc[q] = "stuck"
        BY <2>1, <2>3 DEF Owes
      <3>2. pc[q] # "arguments"
        BY <3>1 DEF Holds
      <3>3. ~allow_multiple_instances'[q]
        BY <1>0, <2>0, <2>3, <3>2, AllowIsKept, Frame
      <3>4. Holds(q, c)' \/ pc'[q] = "stuck"
        <4>1. CASE q # p
          BY <1>0, <2>0, <3>1, <4>1, HoldsOthers, Frame
        <4>2. CASE q = p /\ Holds(p, c)
          <5>1. counters'[c] # Nobody
            BY <1>0
          <5> QED
            BY <1>0, <1>1, <2>3, <4>2, <5>1, HoldsUntilZeroed
        <4>3. CASE q = p /\ pc[p] = "stuck"
          BY <1>0, <1>1, <4>3, StuckForEver
        <4> QED
          BY <3>1, <4>1, <4>2, <4>3
      <3> QED
        BY <2>0, <2>2, <3>3, <3>4 DEF Owes
    <2>4. CASE allow_multiple_instances[q]
      <3>0. pc[p] = "arguments" => ~allow_multiple_instances[p]
        BY <1>0 DEF Flags, Early
      <3>1. \A s \in Procs : allow_multiple_instances[s] => allow_multiple_instances'[s]
        BY <1>0, <3>0, AllowIsKept, Frame
      <3>2. AllDirect /\ \A s \in Procs : allow_multiple_instances[s] => ~tool[s].perf
        BY <1>0, <1>1, <2>0, <2>2, <2>4, DirectTogether DEF Quiet
      <3> DEFINE Zeroes(s) == pc[s] = "zero" /\ allow_multiple_instances[s] /\ c \in todo[s]
      <3>3. ASSUME NEW s \in Procs, Zeroes(s) PROVE Zeroes(s)'
        <4>1. CASE s # p
          BY <1>0, <3>3, <4>1, Frame
        <4>2. CASE s = p
          <5>1. Holds(p, c)
            BY <3>2, <3>3, <4>2 DEF Holds
          <5>2. pc'[p] = "zero" /\ Holds(p, c)'
            BY <1>0, <1>1, <3>3, <4>2, <5>1, HoldsUntilZeroed
          <5> QED
            BY <3>1, <3>3, <4>2, <5>2 DEF Holds
        <4> QED
          BY <4>1, <4>2
      <3>4. ASSUME NEW s \in Procs, Counted(s)
            PROVE  Countees' # {} \/ \E r \in Procs : Zeroes(r)'
        <4>1. CASE Counted(s)'
          BY <4>1 DEF Countees
        <4>2. CASE ~Counted(s)'
          <5>1. s = p /\ allow_multiple_instances[p]
            BY <1>0, <3>4, <4>2, CountedOthers DEF Counted
          <5>2. instances = 1 => pc'[p] = "zero" /\ todo'[p] = Cores
            BY <1>0, <1>1, <3>2, <3>4, <4>2, <5>1, CountedUntilTheEnd
          <5>3. CASE instances = 1
            BY <3>1, <5>1, <5>2, <5>3
          <5>4. CASE instances # 1
            <6>1. Cardinality(Countees) # 1
              BY <1>0, <1>1, <3>2, <5>4 DEF Counting
            <6>2. Countees # {p} /\ p \in Countees
              BY <3>4, <5>1, <6>1, FS_Singleton DEF Countees
            <6>3. PICK r \in Countees : r # p
              BY <6>2
            <6>4. r \in Procs /\ Counted(r)'
              BY <1>0, <6>3, CountedOthers DEF Countees
            <6> QED
              BY <6>4 DEF Countees
          <5> QED
            BY <5>3, <5>4
        <4> QED
          BY <4>1, <4>2
      <3>5. Countees # {} \/ \E s \in Procs : Zeroes(s)
        BY <2>1, <2>4 DEF Owes
      <3>6. Countees' # {} \/ \E s \in Procs : Zeroes(s)'
        <4>1. CASE Countees # {}
          BY <3>4, <4>1 DEF Countees
        <4>2. CASE \E s \in Procs : Zeroes(s)
          BY <3>3, <4>2
        <4> QED
          BY <3>5, <4>1, <4>2
      <3> QED
        BY <2>0, <2>2, <2>4, <3>1, <3>6 DEF Owes
    <2> QED
      BY <2>3, <2>4
  <1> QED
    BY <1>0, <1>1, <1>2, <1>3, <1>4, OneCoreAtATime

-----------------------------------------------------------------------------
LEMMA CoresKeptInit == Init => CoresKept
  BY TypedInit, MachineTypedInit, LockHeldInit, FlagsInit, StuckInit, TracesInit, PerfKeptInit,
     CountingInit, HeldInit DEF CoresKept

\* The parts support one another: every step keeps them all.
LEMMA CoresKeptNext == CoresKept /\ [Next]_vars => CoresKept'
  <1> SUFFICES ASSUME CoresKept, [Next]_vars PROVE CoresKept'
    OBVIOUS
  <1>1. CASE UNCHANGED vars
    <2> USE <1>1 DEF vars, machine, own, ghosts, CoresKept
    <2>1. Typed' /\ LockHeld'
      BY TypedNext, LockHeldNext
    <2>2. MachineTyped'
      BY DEF MachineTyped
    <2>3. AllFlags' /\ StuckHolds' /\ Traces' /\ PerfKept'
      BY DEF AllFlags, Flags, StuckHolds, Traces, PerfKept
    <2>4. /\ \A p \in Procs : Counted(p)' <=> Counted(p)
          /\ \A p \in Procs, c \in Cores : (Holds(p, c)' <=> Holds(p, c)) /\ (HeldBy(p, c)' <=> HeldBy(p, c))
      BY DEF Counted, Holds, HeldBy
    <2>5. Countees' = Countees
      BY <2>4 DEF Countees
    <2>6. Counting'
      BY <2>5 DEF Counting, AllDirect
    <2>7. Held' /\ LastIsAlone'
      BY <2>4, <2>5 DEF Held, LastIsAlone, Quiet, Alike
    <2>8. Owed'
      BY <2>4, <2>5 DEF Owed, Owes, Quiet, Alike
    <2> QED
      BY <2>1, <2>2, <2>3, <2>6, <2>7, <2>8
  <1>2. CASE Next
    <2>1. PICK p \in Procs : Step(p) \/ Fault(p)
      BY <1>2 DEF Next
    <2>2. Typed' /\ LockHeld'
      BY TypedNext, LockHeldNext DEF CoresKept
    <2>3. /\ MachineTyped' /\ AllFlags' /\ StuckHolds' /\ Traces' /\ PerfKept' /\ Counting'
      BY <2>1, MachineTypedStep, FlagsStep, StuckStep, TracesStep, PerfKeptStep, CountingStep DEF CoresKept
    <2>4. Held' /\ LastIsAlone' /\ Owed'
      BY <2>1, HeldStep, LastIsAloneStep, OwedStep
    <2> QED
      BY <2>2, <2>3, <2>4 DEF CoresKept
  <1> QED
    BY <1>1, <1>2

\* However many processes measure, with and without -m, directly or through perf: unless one of the
\* disturbances that CountersKept names has happened, whoever measures reads its own programming.
THEOREM CountersAreKept == Spec => []CountersKept
  <1>1. CoresKept => CountersKept
    <2> SUFFICES ASSUME CoresKept, ~disturbed, Alike, NEW p \in Procs, NEW c \in Cores,
                        pc[p] = "measure", tool[p].programs
                 PROVE  IF tool[p].perf THEN p \in groups[c]
                        ELSE IF tool[p].multi THEN counters[c] # Nobody ELSE counters[c] = p
      BY DEF CountersKept
    <2>1. /\ Flags(p) /\ Nobody \notin Procs /\ allow_multiple_instances[p] = tool[p].multi
          /\ programmed_pmu[p] \/ (allow_multiple_instances[p] /\ ~tool[p].perf)
      BY ProcsAndFleets DEF CoresKept, AllFlags, Flags
    <2>2. CASE tool[p].perf
      BY <2>1, <2>2 DEF CoresKept, PerfKept
    <2>3. CASE ~tool[p].perf
      <3>1. allow_multiple_instances[p] => Counted(p)
        BY <2>1 DEF Flags, Counted, InCleanup, Gone
      <3>2. Holds(p, c)
        BY <2>1, <2>3, <3>1 DEF Holds
      <3>3. HeldBy(p, c)
        BY <3>2 DEF CoresKept, Held, Quiet
      <3> QED
        BY <2>1, <2>3, <3>3 DEF HeldBy
    <2> QED
      BY <2>2, <2>3
  <1> QED
    BY <1>1, CoresKeptInit, CoresKeptNext, PTL DEF Spec

\* When all have left, of their own accord or by a signal that the exit handler could serve, the
\* watchdog is on, the lock free, the semaphore zero, and nothing programmed, open or assigned.
THEOREM MachineIsLeftClean == Spec => []MachineLeftClean
  <1>1. CoresKept /\ WatchdogComesBack => MachineLeftClean
    <2> SUFFICES ASSUME CoresKept, WatchdogComesBack, \A p \in Procs : pc[p] = "gone", ~disturbed, Alike
                 PROVE  /\ watchdog /\ lock = Nobody /\ instances = 0
                        /\ \A c \in Cores : counters[c] = Nobody /\ groups[c] = {}
                        /\ uncore = Nobody /\ rmid = Nobody
      BY DEF MachineLeftClean
    <2>0. MachineTyped /\ AllFlags /\ Traces /\ Counting
      BY DEF CoresKept
    <2>1. watchdog
      BY <2>0 DEF WatchdogComesBack, AllFlags, Flags
    <2>2. lock = Nobody /\ uncore = Nobody /\ rmid = Nobody
      BY <2>0 DEF MachineTyped, Traces, InProgram, InCleanup
    <2>3. Countees = {}
      BY DEF Countees, Counted
    <2>4. instances = 0
      <3>1. instances \in Nat /\ instances <= Cardinality(Countees)
        BY <2>0 DEF MachineTyped, Counting
      <3>2. Cardinality(Countees) = 0
        BY <2>3, FS_EmptySet
      <3> QED
        BY <3>1, <3>2
    <2>5. ASSUME NEW c \in Cores PROVE counters[c] = Nobody
      <3> SUFFICES ASSUME NEW q \in Procs, counters[c] = q PROVE FALSE
        BY <2>0 DEF MachineTyped
      <3>1. Owes(q, c)
        BY DEF CoresKept, Owed, Quiet
      <3> QED
        BY <2>3, <3>1 DEF Owes, Holds
    <2>6. ASSUME NEW c \in Cores PROVE groups[c] = {}
      <3>1. groups[c] \in SUBSET Procs /\ \A p \in groups[c] : pc[p] # "gone"
        BY <2>0 DEF MachineTyped, Traces
      <3> QED
        BY <3>1
    <2> QED
      BY <2>1, <2>2, <2>4, <2>5, <2>6
  <1>2. Init => WatchdogComesBack
    BY DEF Init, WatchdogComesBack
  <1>3. CoresKept /\ WatchdogComesBack /\ [Next]_vars => WatchdogComesBack'
    BY WatchdogNext DEF CoresKept
  <1> QED
    BY <1>1, <1>2, <1>3, CoresKeptInit, CoresKeptNext, PTL DEF Spec

-----------------------------------------------------------------------------
\* The semaphore never counts more than the instances that opened it, each of which posted once.
Openers == {p \in Procs : numInstancesSemaphore[p]}
Bounded == /\ tool \in Fleets /\ faults \in 0 .. MaxFaults[Cardinality(DOMAIN tool)]
           /\ instances <= Cardinality(Openers)

LEMMA FaultsFinite == ASSUME tool \in Fleets PROVE MaxFaults[Cardinality(DOMAIN tool)] \in Nat
  <1>1. DOMAIN tool \in SUBSET Procs
    BY ProcsAndFleets
  <1>2. Cardinality(DOMAIN tool) \in 0 .. Cardinality(Procs)
    BY <1>1, ProcsAndFleets, FS_Subset, FS_CardinalityType
  <1> QED
    BY <1>2, ProcsAndFleets

LEMMA BoundedInit == Init => Bounded
  <1> SUFFICES ASSUME Init PROVE Bounded
    OBVIOUS
  <1>1. tool \in Fleets /\ faults = 0 /\ instances = 0 /\ Openers = {}
    BY DEF Init, Openers
  <1> QED
    BY <1>1, FaultsFinite, FS_EmptySet DEF Bounded

\* Faults are within the bound by their guard; a post opens the semaphore that was not open.
LEMMA BoundedStep ==
    ASSUME Typed, MachineTyped, AllFlags, Bounded, NEW p \in Procs, Step(p) \/ Fault(p)
    PROVE  Bounded'
  <1> DEFINE Goal == /\ faults' = faults \/ (FaultToCome /\ faults' = faults + 1)
                     /\ \/ /\ instances' \in {instances, Decremented(p)}
                           /\ numInstancesSemaphore[p] => numInstancesSemaphore'[p]
                        \/ instances' = instances + 1 /\ ~numInstancesSemaphore[p] /\ numInstancesSemaphore'[p]
  <1>0. /\ (pc[p] = "locked" => ~numInstancesSemaphore[p]) /\ instances \in Nat /\ tool' = tool
        /\ numInstancesSemaphore \in [Procs -> BOOLEAN]
        /\ allow_multiple_instances \in [Procs -> BOOLEAN]
    BY Frame DEF AllFlags, Flags, MachineTyped, Typed
  <1>1. Decremented(p) <= instances
    BY <1>0 DEF Decremented
  <1>a. Goal
    <2> USE DEF Goto, machine, own, ghosts
    <2>1. CASE isNMIWatchdogEnabled(p) \/ disableNMIWatchdog(p) \/ SetNeedToRestore(p) \/ initRMID(p)
      BY <1>0, <2>1 DEF isNMIWatchdogEnabled, disableNMIWatchdog, SetNeedToRestore, initRMID
    <2>2. CASE CallProgram(p) \/ programServerUncoreMemoryMetrics(p) \/ BadArguments(p)
      BY <1>0, <2>2 DEF CallProgram, programServerUncoreMemoryMetrics, BadArguments,
         allowMultipleInstances
    <2>3. CASE EnterProgram(p) \/ FinishMeasuring(p) \/ EnterCleanup(p)
      BY <1>0, <2>3 DEF EnterProgram, FinishMeasuring, EnterCleanup
    <2>4. CASE RefusedByPerf(p) \/ PMUBusy(p)
      BY <1>0, <2>4 DEF RefusedByPerf, PMUBusy, OpenSemaphore
    <2>5. CASE JoinOthers(p)
      BY <1>0, <2>5 DEF JoinOthers, OpenSemaphore, FirstInstance
    <2>6. CASE StartProgramming(p)
      BY <1>0, <2>6 DEF StartProgramming, OpenSemaphore
    <2>7. ASSUME NEW c \in Cores, programCoreCounters(p, c)
          PROVE  Goal
      BY <1>0, <2>7 DEF programCoreCounters
    <2>8. CASE programUncore(p)
      BY <1>0, <2>8 DEF programUncore
    <2>9. CASE PerfFails(p)
      BY <1>0, <2>9 DEF PerfFails
    <2>10. CASE decrementInstanceSemaphore(p)
      BY <1>0, <2>10 DEF decrementInstanceSemaphore
    <2>11. ASSUME NEW c \in Cores, cleanupPMU(p, c)
          PROVE  Goal
      BY <1>0, <2>11 DEF cleanupPMU
    <2>12. CASE ZeroedPMU(p) \/ cleanupUncorePMUs(p) \/ LeaveCleanup(p)
      BY <1>0, <2>12 DEF ZeroedPMU, cleanupUncorePMUs, LeaveCleanup, Release
    <2>13. CASE SignalUnderLock(p) \/ SignalElsewhere(p)
      BY <1>0, <2>13 DEF SignalUnderLock, SignalElsewhere
    <2>14. CASE resetPMU(p) \/ ExecFails(p) \/ Kill(p)
      BY <1>0, <2>14 DEF resetPMU, ExecFails, Kill, RestoresWatchdog
    <2> QED
      BY <2>1, <2>2, <2>3, <2>4, <2>5, <2>6, <2>7, <2>8, <2>9, <2>10, <2>11, <2>12, <2>13, <2>14 DEF
         Step, Fault
  <1>2. faults' \in 0 .. MaxFaults[Cardinality(DOMAIN tool)]
    BY <1>a, FaultsFinite DEF Bounded, FaultToCome
  <1>3. IsFiniteSet(Openers) /\ IsFiniteSet(Openers')
    <2>1. Openers \in SUBSET Procs /\ Openers' \in SUBSET Procs
      BY DEF Openers
    <2> QED
      BY <2>1, ProcsAndFleets, FS_Subset
  <1>4. \A q \in Procs \ {p} : numInstancesSemaphore'[q] = numInstancesSemaphore[q]
    BY Frame
  <1>5. instances' <= Cardinality(Openers')
    <2>0. /\ Cardinality(Openers) \in Nat /\ Cardinality(Openers') \in Nat /\ instances' \in Nat
          /\ instances <= Cardinality(Openers)
      BY <1>3, FS_CardinalityType, MachineTypedStep DEF Bounded, MachineTyped
    <2>1. CASE /\ instances' \in {instances, Decremented(p)}
               /\ numInstancesSemaphore[p] => numInstancesSemaphore'[p]
      <3>1. Openers \subseteq Openers'
        BY <1>4, <2>1 DEF Openers
      <3>2. Cardinality(Openers) <= Cardinality(Openers')
        BY <1>3, <3>1, FS_Subset
      <3>3. instances' <= instances
        BY <1>0, <1>1, <2>1
      <3> QED
        BY <1>0, <2>0, <3>2, <3>3
    <2>2. CASE instances' = instances + 1 /\ ~numInstancesSemaphore[p] /\ numInstancesSemaphore'[p]
      <3>1. Openers' = Openers \cup {p} /\ p \notin Openers
        BY <1>4, <2>2 DEF Openers
      <3>2. Cardinality(Openers') = Cardinality(Openers) + 1
        BY <1>3, <3>1, FS_AddElement
      <3> QED
        BY <1>0, <2>0, <2>2, <3>2
    <2> QED
      BY <1>a, <2>1, <2>2
  <1> QED
    BY <1>0, <1>2, <1>5 DEF Bounded

\* Every variable keeps its type and its bound; the count of the instances too, which is a counter
\* in the kernel that outlives whoever is killed.
THEOREM TypeCorrect == Spec => []TypeOK
  <1>1. Typed /\ MachineTyped /\ Bounded => TypeOK
    <2> SUFFICES ASSUME Typed, MachineTyped, Bounded PROVE TypeOK
      OBVIOUS
    <2>1. instances \in 0 .. Cardinality(Procs)
      <3>1. Openers \in SUBSET Procs
        BY DEF Openers
      <3>2. /\ Cardinality(Openers) <= Cardinality(Procs)
            /\ Cardinality(Openers) \in Nat /\ Cardinality(Procs) \in Nat
        BY <3>1, ProcsAndFleets, FS_Subset, FS_CardinalityType
      <3> QED
        BY <3>2 DEF MachineTyped, Bounded
    <2> QED
      BY <2>1 DEF TypeOK, Typed, MachineTyped, Bounded
  <1>2. CoresKept /\ Bounded /\ [Next]_vars => Bounded'
    <2> SUFFICES ASSUME CoresKept, Bounded, [Next]_vars PROVE Bounded'
      OBVIOUS
    <2>1. CASE UNCHANGED vars
      BY <2>1 DEF vars, machine, own, ghosts, Bounded, Openers
    <2>2. CASE Next
      BY <2>2, BoundedStep DEF Next, CoresKept
    <2> QED
      BY <2>1, <2>2
  <1>3. CoresKept => Typed /\ MachineTyped
    BY DEF CoresKept
  <1> QED
    BY <1>1, <1>2, <1>3, BoundedInit, CoresKeptInit, CoresKeptNext, PTL DEF Spec
-----------------------------------------------------------------------------
(* The bandwidth counters of a core, for every set of threads and every     *)
(* width of the counters (WidthExtender).                                   *)

\* The differences of a wrapping counter: one that counts on stays as far
\* from the last reading as it counted, and the sum of differences is exact.
LEMMA CountingOn ==
  ASSUME NEW s \in Nat, NEW c \in Nat, NEW last \in 0 .. W - 1, NEW new \in 0 .. W - 1,
         Apart(s, c, last, new), c - s < W - 1
  PROVE  Apart(s, c + 1, last, IF new + 1 < W THEN new + 1 ELSE 0)
BY ExtenderAssumption DEF Apart

LEMMA DifferenceIsExact ==
  ASSUME NEW s \in Nat, NEW c \in Nat, NEW last \in 0 .. W - 1, NEW new \in 0 .. W - 1,
         Apart(s, c, last, new)
  PROVE  Difference(last, new) = c - s
BY ExtenderAssumption DEF Apart, Difference

LEMMA ReadAgain ==
  ASSUME NEW s \in Nat, NEW a \in Nat, NEW c \in Nat,
         NEW last \in 0 .. W - 1, NEW new \in 0 .. W - 1, NEW now \in 0 .. W - 1,
         Apart(s, c, last, now), Apart(s, a, last, new), a <= c
  PROVE  Apart(a, c, new, now)
BY ExtenderAssumption DEF Apart

Locked == RegistersLocked /\ ReadsWhatItSelected /\ ExtenderLocked /\ OnlyBandwidthExtends
Exact == ExactSoFar /\ ExactWhenExtended
ExtenderInv == ExtenderTypeOK /\ Locked /\ Exact

\* The invariant holds when the extenders are made.
LEMMA ExtenderInvInit == ExtenderInit => ExtenderInv
<1> SUFFICES ASSUME ExtenderInit PROVE ExtenderInv
  OBVIOUS
<1>1. ExtenderTypeOK
  BY ExtenderAssumption DEF ExtenderInit, ExtenderTypeOK, InRegisters, Events
<1>2. Locked
  BY ExtenderAssumption
  DEF ExtenderInit, Locked, RegistersLocked, ReadsWhatItSelected, ExtenderLocked,
      OnlyBandwidthExtends, InRegisters
<1>3. Exact
  BY ExtenderAssumption, <1>1
  DEF ExtenderInit, Exact, ExactSoFar, ExactWhenExtended, Apart, ExtenderTypeOK
<1> QED BY <1>1, <1>2, <1>3 DEF ExtenderInv

\* The reading that is extended is one of its own counter: between it and the
\* last one lie as many counts as the raw values differ by.
LEMMA ExtendIsExact ==
  ASSUME ExtenderInv, NEW t \in Threads, step[t] = "extend"
  PROVE  /\ event[t] \in Bandwidth
         /\ Difference(last_raw_value[event[t]], new_raw_value[t]) = at[t] - seen[event[t]]
         /\ Apart(at[t], count[event[t]], new_raw_value[t], raw[event[t]])
<1> DEFINE e == event[t]
<1>1. e \in Bandwidth
  BY DEF ExtenderInv, Locked, OnlyBandwidthExtends
<1>2. /\ at[t] \in Nat /\ count[e] \in Nat /\ seen[e] \in Nat
      /\ last_raw_value[e] \in 0 .. W - 1 /\ raw[e] \in 0 .. W - 1
      /\ new_raw_value[t] \in 0 .. W - 1
  BY <1>1 DEF ExtenderInv, ExtenderTypeOK
<1>3. /\ at[t] <= count[e]
      /\ Apart(seen[e], at[t], last_raw_value[e], new_raw_value[t])
      /\ Apart(seen[e], count[e], last_raw_value[e], raw[e])
  BY <1>1 DEF ExtenderInv, Exact, ExactSoFar, ExactWhenExtended
<1>4. Difference(last_raw_value[e], new_raw_value[t]) = at[t] - seen[e]
  BY <1>2, <1>3, DifferenceIsExact
<1>5. Apart(at[t], count[e], new_raw_value[t], raw[e])
  BY <1>2, <1>3, ReadAgain
<1> QED BY <1>1, <1>4, <1>5

\* No step of the hardware or of a thread breaks the types.
LEMMA ExtenderTypesKept ==
  ASSUME ExtenderInv, [ExtenderNext]_extenderVars
  PROVE  ExtenderTypeOK'
<1> USE ExtenderAssumption DEF ExtenderTypeOK, InRegisters, hardware, extender
<1>0. ExtenderTypeOK
  BY DEF ExtenderInv
<1>1. ASSUME NEW e \in Bandwidth, Counts(e) PROVE ExtenderTypeOK'
  BY <1>0, <1>1 DEF Counts
<1>2. ASSUME NEW t \in Threads, NEW e \in Events, Begin(t, e) PROVE ExtenderTypeOK'
  BY <1>0, <1>2 DEF Begin
<1>3. ASSUME NEW t \in Threads, LockMsr(t) PROVE ExtenderTypeOK'
  BY <1>0, <1>3 DEF LockMsr
<1>4. ASSUME NEW t \in Threads, Select(t) PROVE ExtenderTypeOK'
  BY <1>0, <1>4 DEF Select
<1>5. ASSUME NEW t \in Threads, ReadCounter(t) PROVE ExtenderTypeOK'
  BY <1>0, <1>5 DEF ReadCounter
<1>6. ASSUME NEW t \in Threads, UnlockMsr(t) PROVE ExtenderTypeOK'
  BY <1>0, <1>6 DEF UnlockMsr
<1>7. ASSUME NEW t \in Threads, Extend(t) PROVE ExtenderTypeOK'
  <2> DEFINE e == event[t]
  <2>1. e \in Bandwidth /\ Difference(last_raw_value[e], new_raw_value[t]) = at[t] - seen[e]
    BY <1>7, ExtendIsExact DEF Extend
  <2>2. extended_value[e] = seen[e]
    BY <2>1 DEF ExtenderInv, Exact, ExactSoFar
  <2>3. extended_value[e] + Difference(last_raw_value[e], new_raw_value[t]) = at[t]
    BY <1>0, <2>1, <2>2
  <2>4. extended_value' = [extended_value EXCEPT ![e] = at[t]]
    BY <1>7, <2>3 DEF Extend
  <2> QED BY <1>0, <1>7, <2>1, <2>4 DEF Extend
<1>8. ASSUME NEW t \in Threads, Return(t) PROVE ExtenderTypeOK'
  BY <1>0, <1>8 DEF Return, Events
<1>9. CASE UNCHANGED extenderVars
  BY <1>0, <1>9 DEF extenderVars
<1> QED BY <1>1, <1>2, <1>3, <1>4, <1>5, <1>6, <1>7, <1>8, <1>9 DEF ExtenderNext

\* The two locks are held by those who are inside them.
LEMMA ExtenderLocksKept ==
  ASSUME ExtenderInv, [ExtenderNext]_extenderVars
  PROVE  Locked'
<1> USE ExtenderAssumption
    DEF Locked, RegistersLocked, ReadsWhatItSelected, ExtenderLocked, OnlyBandwidthExtends,
        ExtenderTypeOK, InRegisters, hardware, extender
<1>0. ExtenderTypeOK /\ Locked
  BY DEF ExtenderInv
<1>1. ASSUME NEW e \in Bandwidth, Counts(e) PROVE Locked'
  BY <1>0, <1>1 DEF Counts
<1>2. ASSUME NEW t \in Threads, NEW e \in Events, Begin(t, e) PROVE Locked'
  BY <1>0, <1>2 DEF Begin
<1>3. ASSUME NEW t \in Threads, LockMsr(t) PROVE Locked'
  BY <1>0, <1>3 DEF LockMsr
<1>4. ASSUME NEW t \in Threads, Select(t) PROVE Locked'
  BY <1>0, <1>4 DEF Select
<1>5. ASSUME NEW t \in Threads, ReadCounter(t) PROVE Locked'
  BY <1>0, <1>5 DEF ReadCounter
<1>6. ASSUME NEW t \in Threads, UnlockMsr(t) PROVE Locked'
  BY <1>0, <1>6 DEF UnlockMsr
<1>7. ASSUME NEW t \in Threads, Extend(t) PROVE Locked'
  BY <1>0, <1>7 DEF Extend
<1>8. ASSUME NEW t \in Threads, Return(t) PROVE Locked'
  BY <1>0, <1>8 DEF Return, Events
<1>9. CASE UNCHANGED extenderVars
  BY <1>0, <1>9 DEF extenderVars
<1> QED BY <1>1, <1>2, <1>3, <1>4, <1>5, <1>6, <1>7, <1>8, <1>9 DEF ExtenderNext

\* What is extended stays exact: only the hardware's counting and a thread's
\* reading move the counts, and only Extend moves what was extended.
LEMMA ExtenderExactKept ==
  ASSUME ExtenderInv, [ExtenderNext]_extenderVars
  PROVE  Exact'
<1> USE ExtenderAssumption
    DEF Exact, ExactSoFar, ExactWhenExtended, ExtenderTypeOK, InRegisters, hardware, extender
<1>0. ExtenderTypeOK /\ Locked /\ Exact
  BY DEF ExtenderInv
<1>1. ASSUME NEW e \in Bandwidth, Counts(e) PROVE Exact'
  <2>1. Apart(seen[e], count[e] + 1, last_raw_value[e], IF raw[e] + 1 < W THEN raw[e] + 1 ELSE 0)
    BY <1>0, <1>1, CountingOn DEF Counts
  <2>2. ExactSoFar'
    BY <1>0, <1>1, <2>1 DEF Counts
  <2>3. ExactWhenExtended'
    BY <1>0, <1>1 DEF Counts
  <2> QED BY <2>2, <2>3
<1>2. ASSUME NEW t \in Threads, NEW e \in Events, Begin(t, e) PROVE Exact'
  BY <1>0, <1>2 DEF Begin
<1>3. ASSUME NEW t \in Threads, LockMsr(t) PROVE Exact'
  BY <1>0, <1>3 DEF LockMsr
<1>4. ASSUME NEW t \in Threads, Select(t) PROVE Exact'
  BY <1>0, <1>4 DEF Select
<1>5. ASSUME NEW t \in Threads, ReadCounter(t) PROVE Exact'
  <2>1. evtsel = event[t]
    BY <1>0, <1>5 DEF ReadCounter, Locked, ReadsWhatItSelected
  <2> QED BY <1>0, <1>5, <2>1 DEF ReadCounter
<1>6. ASSUME NEW t \in Threads, UnlockMsr(t) PROVE Exact'
  BY <1>0, <1>6 DEF UnlockMsr, Events
<1>7. ASSUME NEW t \in Threads, Extend(t) PROVE Exact'
  <2> DEFINE e == event[t]
  <2>1. /\ e \in Bandwidth
        /\ Difference(last_raw_value[e], new_raw_value[t]) = at[t] - seen[e]
        /\ Apart(at[t], count[e], new_raw_value[t], raw[e])
    BY <1>7, ExtendIsExact DEF Extend
  <2>2. extended_value[e] + Difference(last_raw_value[e], new_raw_value[t]) = at[t]
    BY <1>0, <2>1
  <2>3. /\ extended_value' = [extended_value EXCEPT ![e] = at[t]]
        /\ last_raw_value' = [last_raw_value EXCEPT ![e] = new_raw_value[t]]
        /\ seen' = [seen EXCEPT ![e] = at[t]]
        /\ step' = [step EXCEPT ![t] = "return"]
    BY <1>7, <2>2 DEF Extend
  <2>4. ExactSoFar'
    BY <1>0, <1>7, <2>1, <2>3 DEF Extend
  <2>5. \A u \in Threads : u # t /\ step[u] # "idle" => event[u] # e
    BY <1>0, <1>7, <2>1 DEF Extend, Locked, ExtenderLocked
  <2>6. ExactWhenExtended'
    BY <1>0, <1>7, <2>1, <2>3, <2>5 DEF Extend
  <2> QED BY <2>4, <2>6
<1>8. ASSUME NEW t \in Threads, Return(t) PROVE Exact'
  BY <1>0, <1>8 DEF Return
<1>9. CASE UNCHANGED extenderVars
  BY <1>0, <1>9 DEF extenderVars
<1> QED BY <1>1, <1>2, <1>3, <1>4, <1>5, <1>6, <1>7, <1>8, <1>9 DEF ExtenderNext

\* The types hold throughout, with the locks and the exactness.
THEOREM ExtenderInvariant == ExtenderSpec => []ExtenderInv
<1>1. ExtenderInv /\ [ExtenderNext]_extenderVars => ExtenderInv'
  BY ExtenderTypesKept, ExtenderLocksKept, ExtenderExactKept DEF ExtenderInv
<1> QED BY ExtenderInvInit, <1>1, PTL DEF ExtenderSpec

\* A reading returned lies between the traffic at the call and the traffic at
\* the return, for every number of threads, every width and every schedule.
THEOREM ReadingsTellTheTraffic == ExtenderSpec => []ReadingIsOfItsTime
<1>1. ExtenderInv => ReadingIsOfItsTime
  <2> SUFFICES ASSUME ExtenderInv, NEW t \in Threads, step[t] = "return", event[t] \in Bandwidth
               PROVE  extended_value[event[t]] \in began[t] .. count[event[t]]
    BY DEF ReadingIsOfItsTime
  <2> DEFINE e == event[t]
  <2>1. extended_value[e] = seen[e] /\ count[e] - seen[e] \in 0 .. W - 1
    BY DEF ExtenderInv, Exact, ExactSoFar, Apart
  <2>2. began[t] <= seen[e]
    BY DEF ExtenderInv, Exact, ExactWhenExtended
  <2>3. seen[e] \in Nat /\ count[e] \in Nat /\ began[t] \in Nat
    BY DEF ExtenderInv, ExtenderTypeOK
  <2> QED BY <2>1, <2>2, <2>3, ExtenderAssumption
<1> QED BY ExtenderInvariant, <1>1, PTL
=============================================================================
