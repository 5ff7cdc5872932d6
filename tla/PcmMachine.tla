----------------------------- MODULE PcmMachine -----------------------------
(***************************************************************************)
(* What Intel PCM (tools/pcm) says a machine can measure.  A machine m is  *)
(* a record: its model and stepping, the number of sockets, the socket of  *)
(* each core, the cores offline, the links and the MCDRAM channels of a    *)
(* socket, the channels of each of its memory controllers, the C-states of *)
(* a core and of a package that it counts, and what CPUID tells.           *)
(***************************************************************************)
EXTENDS Integers, Sequences

Sockets(m) == 0 .. m.sockets - 1
Cores(m) == 0 .. Len(m.socket) - 1
SocketOf(m, c) == m.socket[c + 1]
Links(m) == 0 .. m.links - 1
Online(m, s) == {c \in Cores(m) \ m.offline : SocketOf(m, c) = s}

\* f[0] + ... + f[n - 1]
SumTo(n, f) ==
    LET sum[i \in 0 .. n] == IF i = 0 THEN 0 ELSE sum[i - 1] + f[i - 1]
    IN  sum[n]

\* s[0] \o ... \o s[n - 1]
JoinTo(n, s) ==
    LET join[i \in 0 .. n] == IF i = 0 THEN << >> ELSE join[i - 1] \o s[i - 1]
    IN  join[n]

When(cond, seq) == IF cond THEN seq ELSE << >>

Client == {"SANDY_BRIDGE", "IVY_BRIDGE", "HASWELL", "BROADWELL", "SKL", "KBL"}
hasPCICFGUncore(m) == m.model \in {"JAKETOWN", "IVYTOWN", "HASWELLX", "BDX_DE", "SKX", "BDX", "KNL"}
useSkylakeEvents(m) == m.model \in {"SKL", "SKX", "KBL"}
\* The L2 is the last level: two counters tell of it.
TwoCounters(m) == m.model \in {"ATOM", "KNL"}
isCLX(m) == m.model = "SKX" /\ m.stepping > 4

packageEnergyMetricsAvailable(m) ==
    \/ m.model \in Client \cup {"JAKETOWN", "IVYTOWN", "HASWELLX", "BDX_DE", "BDX", "KNL", "SKX"}
    \/ m.model = "ATOM" /\ m.energy

dramEnergyMetricsAvailable(m) ==
    m.model \in {"JAKETOWN", "IVYTOWN", "HASWELLX", "BDX_DE", "BDX", "KNL", "SKX"}

outgoingQPITrafficMetricsAvailable(m) ==
    /\ m.links > 0
    /\ m.model \in {"NEHALEM_EX", "WESTMERE_EX", "JAKETOWN", "IVYTOWN", "HASWELLX", "BDX", "SKX"}

incomingQPITrafficMetricsAvailable(m) ==
    /\ m.links > 0
    /\ \/ m.model \in {"NEHALEM_EX", "WESTMERE_EX", "JAKETOWN", "IVYTOWN"}
       \/ m.model = "SKX" /\ m.stepping > 1

qpiUtilizationMetricsAvailable(m) == outgoingQPITrafficMetricsAvailable(m)
memoryTrafficMetricsAvailable(m) == m.model \notin {"ATOM", "CLARKDALE"}
MCDRAMmemoryTrafficMetricsAvailable(m) == m.model = "KNL"
memoryIOTrafficMetricAvailable(m) == m.model \in Client
PMMTrafficMetricsAvailable(m) == isCLX(m)

LLCReadMissLatencyMetricsAvailable(m) ==
    \/ m.model \in {"HASWELLX", "BDX_DE", "BDX"}
    \/ m.model = "SKX" /\ m.sockets = 1

isActiveRelativeFrequencyAvailable(m) == m.model # "ATOM"

\* The monitoring of the L3 by RMID; bandwidth is left alone on SKX (an erratum).
L3CacheOccupancyMetricAvailable(m) == m.qos
CoreLocalMemoryBWMetricAvailable(m) == m.qos /\ m.model # "SKX"
CoreRemoteMemoryBWMetricAvailable(m) == m.qos /\ m.model # "SKX"

\* What program() sets for the default events.
isL2CacheHitRatioAvailable(m) == TRUE
isL2CacheMissesAvailable(m) == TRUE
isL3CacheMissesAvailable(m) == ~TwoCounters(m)
isL3CacheHitRatioAvailable(m) == ~TwoCounters(m)
isL3CacheHitsSnoopAvailable(m) == ~TwoCounters(m)
isL3CacheHitsAvailable(m) == ~TwoCounters(m)
isL3CacheHitsNoSnoopAvailable(m) == ~TwoCounters(m) /\ ~useSkylakeEvents(m)
=============================================================================
