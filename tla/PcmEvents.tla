------------------------------ MODULE PcmEvents ------------------------------
(***************************************************************************)
(* The core events of Intel PCM: what PCM::program puts into the four      *)
(* counters of a core, what readAndAggregate makes of them, and the        *)
(* metrics computed from two readings.  A load is served by the L2, by the *)
(* L3 alone, by the L3 after a snoop, or by memory; an event is the set of *)
(* the loads it counts, a reading the four counts.                         *)
(***************************************************************************)
EXTENDS PcmMachine

Loads == {"L2", "L3", "L3 snoop", "memory"}
BeyondL2 == {"L3", "L3 snoop", "memory"}

Zeros == <<0, 0, 0, 0>>

\* What the counters count.  The Nehalem case runs on into the default one,
\* whose events are its own but for the name of the first.
CoreEvents(m) ==
    CASE TwoCounters(m) -> <<BeyondL2, Loads, {}, {}>>
      [] useSkylakeEvents(m) -> <<{"memory"}, {"L3", "L3 snoop"}, BeyondL2, {"L2"}>>
      [] OTHER -> <<{"memory"}, {"L3"}, {"L3 snoop"}, {"L2"}>>

\* readAndAggregate: the counters of the core; two of them on ATOM and KNL.
ReadCore(m, loads) ==
    LET used == IF TwoCounters(m) THEN 1 .. 2 ELSE 1 .. 4
        counted(class, i) == IF class \in CoreEvents(m)[i] THEN loads[class] ELSE 0
    IN  [i \in 1 .. 4 |->
           IF i \in used THEN counted("L2", i) + counted("L3", i) + counted("L3 snoop", i) + counted("memory", i)
           ELSE 0]

\* operator += and accumulateCoreState, over the cores of a set.
AddCores(m, cores, f) ==
    [i \in 1 .. 4 |-> SumTo(Len(m.socket), [c \in 0 .. Len(m.socket) - 1 |-> IF c \in cores THEN f[c][i] ELSE 0])]

\* What was counted between two readings; the fields of a reading are unions,
\* so that a counter has a name for each family of processors.
Between(before, after) == [i \in 1 .. 4 |-> after[i] - before[i]]
L3Miss(d) == d[1]
ArchLLCMiss(d) == d[1]
L3UnsharedHit(d) == d[2]
ArchLLCRef(d) == d[2]
SKLL3Hit(d) == d[2]
L2HitM(d) == d[3]
SKLL2Miss(d) == d[3]
L2Hit(d) == d[4]

\* A ratio as hits and references; none is 1.
Ratio(hits, refs) == IF refs = 0 THEN <<1, 1>> ELSE <<hits, refs>>

getL3CacheMisses(m, d) == IF isL3CacheMissesAvailable(m) THEN L3Miss(d) ELSE 0

getL2CacheMisses(m, d) ==
    CASE useSkylakeEvents(m) -> SKLL2Miss(d)
      [] TwoCounters(m) -> ArchLLCMiss(d)
      [] OTHER -> L2HitM(d) + L3UnsharedHit(d) + L3Miss(d)

getL2CacheHits(m, d) == IF TwoCounters(m) THEN ArchLLCRef(d) - ArchLLCMiss(d) ELSE L2Hit(d)

getL2CacheHitRatio(m, d) ==
    CASE useSkylakeEvents(m) -> Ratio(L2Hit(d), L2Hit(d) + SKLL2Miss(d))
      [] TwoCounters(m) -> Ratio(ArchLLCRef(d) - ArchLLCMiss(d), ArchLLCRef(d))
      [] OTHER -> Ratio(L2Hit(d), L2Hit(d) + L2HitM(d) + L3UnsharedHit(d) + L3Miss(d))

getL3CacheHitRatio(m, d) ==
    IF useSkylakeEvents(m) THEN Ratio(SKLL3Hit(d), SKLL3Hit(d) + L3Miss(d))
    ELSE Ratio(L3UnsharedHit(d) + L2HitM(d), L2HitM(d) + L3UnsharedHit(d) + L3Miss(d))

getL3CacheHitsNoSnoop(m, d) == IF isL3CacheHitsNoSnoopAvailable(m) THEN L3UnsharedHit(d) ELSE 0

getL3CacheHitsSnoop(m, d) ==
    CASE ~isL3CacheHitsSnoopAvailable(m) -> 0
      [] useSkylakeEvents(m) -> SKLL3Hit(d)
      [] OTHER -> L2HitM(d)

getL3CacheHits(m, d) ==
    IF isL3CacheHitsAvailable(m) THEN getL3CacheHitsSnoop(m, d) + getL3CacheHitsNoSnoop(m, d) ELSE 0

\* The assertions of pcm's main: the metrics and the counters agree.
CoreChecks(m, d) ==
    IF TwoCounters(m)
    THEN d[1] = getL2CacheMisses(m, d) /\ d[2] = getL2CacheMisses(m, d) + getL2CacheHits(m, d)
    ELSE /\ d[1] = getL3CacheMisses(m, d) /\ d[4] = getL2CacheHits(m, d)
         /\ IF useSkylakeEvents(m)
            THEN d[2] = getL3CacheHits(m, d) /\ d[3] = getL2CacheMisses(m, d)
            ELSE d[2] = getL3CacheHitsNoSnoop(m, d) /\ d[3] = getL3CacheHitsSnoop(m, d)
=============================================================================
