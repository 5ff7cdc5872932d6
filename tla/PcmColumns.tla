----------------------------- MODULE PcmColumns -----------------------------
(***************************************************************************)
(* The columns of Intel PCM's pcm.x (pcm.cpp): the header and the rows of  *)
(* its tables and of its CSV, each written by code of its own.  A cell is  *)
(* <<scope, label, value>>, what its value is of; a header of a table is   *)
(* the labels over its columns, one of the CSV the two lines, what each of *)
(* their semicolons closes.  A window w has the counts of each core, the   *)
(* traffic of each socket's memory and that of each of its links.          *)
(***************************************************************************)
EXTENDS PcmEvents

Label(name) == <<name, 0>>
System == <<"System", 0>>
Skt(s) == <<"SKT", s>>
Core(c) == <<"Core", c>>
Cell(scope, name, value) == <<scope, <<name, 0>>, value>>

\* What is not told of the traffic: times, temperatures, joules and the like.
Other == 0

Labels(names) == [k \in DOMAIN names |-> Label(names[k])]
Above(scope, n) == [k \in 1 .. n |-> scope]

\* The sums over a socket and over the system.
SocketCores(m, w, s) == AddCores(m, Online(m, s), w.core)
SystemCores(m, w) == AddCores(m, Cores(m) \ m.offline, w.core)
SystemMem(m, w) == [x \in DOMAIN w.mem[0] |-> SumTo(m.sockets, [s \in Sockets(m) |-> w.mem[s][x]])]
AllLinks(m, of) == SumTo(m.sockets, [s \in Sockets(m) |-> SumTo(m.links, of[s])])

print_basic_metrics(m, scope, d) ==
    <<Cell(scope, "EXEC", Other), Cell(scope, "IPC", Other), Cell(scope, "FREQ", Other)>>
    \o When(isActiveRelativeFrequencyAvailable(m), <<Cell(scope, "AFREQ", Other)>>)
    \o When(isL3CacheMissesAvailable(m), <<Cell(scope, "L3MISS", getL3CacheMisses(m, d))>>)
    \o When(isL2CacheMissesAvailable(m), <<Cell(scope, "L2MISS", getL2CacheMisses(m, d))>>)
    \o When(isL3CacheHitRatioAvailable(m), <<Cell(scope, "L3HIT", getL3CacheHitRatio(m, d))>>)
    \o When(isL2CacheHitRatioAvailable(m), <<Cell(scope, "L2HIT", getL2CacheHitRatio(m, d))>>)
    \o When(isL3CacheMissesAvailable(m), <<Cell(scope, "L3MPI", Other)>>)
    \o When(isL2CacheMissesAvailable(m), <<Cell(scope, "L2MPI", Other)>>)

\* The monitoring by RMID, of one core; the sums over cores are left out.
Monitored(m, scope) ==
    When(L3CacheOccupancyMetricAvailable(m), <<Cell(scope, "L3OCC", Other)>>)
    \o When(CoreLocalMemoryBWMetricAvailable(m), <<Cell(scope, "LMB", Other)>>)
    \o When(CoreRemoteMemoryBWMetricAvailable(m), <<Cell(scope, "RMB", Other)>>)

print_other_metrics(m, scope) == Monitored(m, scope) \o <<Cell(scope, "TEMP", Other)>>

TableHeader(m) ==
    Labels(<<"EXEC", "IPC", "FREQ">>
           \o When(isActiveRelativeFrequencyAvailable(m), <<"AFREQ">>)
           \o When(isL3CacheMissesAvailable(m), <<"L3MISS">>)
           \o When(isL2CacheMissesAvailable(m), <<"L2MISS">>)
           \o When(isL3CacheHitRatioAvailable(m), <<"L3HIT">>)
           \o When(isL2CacheHitRatioAvailable(m), <<"L2HIT">>)
           \o When(isL3CacheMissesAvailable(m), <<"L3MPI">>)
           \o When(isL2CacheMissesAvailable(m), <<"L2MPI">>)
           \o When(L3CacheOccupancyMetricAvailable(m), <<"L3OCC">>)
           \o When(CoreLocalMemoryBWMetricAvailable(m), <<"LMB">>)
           \o When(CoreRemoteMemoryBWMetricAvailable(m), <<"RMB">>)
           \o <<"TEMP">>)

\* A line under a header; a line that names its values itself has none.
Line(header, cells) == <<[table |-> TRUE, header |-> header, cells |-> cells]>>

CoreRows(m, show, w) ==
    JoinTo(Len(m.socket), [c \in Cores(m) |->
      When(c \notin m.offline /\ (show.partial => c \in show.ycores),
           Line(TableHeader(m), print_basic_metrics(m, Core(c), w.core[c]) \o print_other_metrics(m, Core(c))))])

\* The only socket of an ATOM or a KNL has no row.
SocketRows(m, w) ==
    When(~(m.sockets = 1 /\ TwoCounters(m)),
         JoinTo(m.sockets, [s \in Sockets(m) |->
           Line(TableHeader(m), print_basic_metrics(m, Skt(s), SocketCores(m, w, s)) \o print_other_metrics(m, Skt(s)))]))

\* What is monitored and the temperature of the system is N/A.
SystemRow(m, w) == Line(TableHeader(m), print_basic_metrics(m, System, SystemCores(m, w)) \o print_other_metrics(m, System))

LinkLabels(m) == [l \in 1 .. m.links |-> <<"xPI", l - 1>>]
LinkCells(m, scope, of) == [l \in 1 .. m.links |-> <<scope, <<"xPI", l - 1>>, of[l - 1]>>]

\* A row of a socket's links; how far they are used is printed beside.
IncomingRows(m, w) ==
    When(m.sockets > 1 /\ incomingQPITrafficMetricsAvailable(m),
         JoinTo(m.sockets, [s \in Sockets(m) |->
           Line(LinkLabels(m) \o When(qpiUtilizationMetricsAvailable(m), LinkLabels(m)),
                LinkCells(m, <<"dataIn", s>>, w.in[s])
                \o When(qpiUtilizationMetricsAvailable(m), LinkCells(m, <<"dataIn (percent)", s>>, w.in[s])))]))

IncomingTotal(m, w) ==
    When(m.sockets > 1 /\ incomingQPITrafficMetricsAvailable(m),
         Line(<< >>, <<Cell(System, "Total in", AllLinks(m, w.in))>>))

OutgoingRows(m, w) ==
    When(m.sockets > 1 /\ outgoingQPITrafficMetricsAvailable(m),
         JoinTo(m.sockets, [s \in Sockets(m) |->
           Line(LinkLabels(m) \o LinkLabels(m),
                LinkCells(m, <<"trafficOut", s>>, w.out[s]) \o LinkCells(m, <<"trafficOut (percent)", s>>, w.out[s]))])
         \o Line(<< >>, <<Cell(System, "Total out", AllLinks(m, w.out))>>))

DRAMCells(m, scope, v) ==
    When(memoryTrafficMetricsAvailable(m), <<Cell(scope, "READ", v["READ"]), Cell(scope, "WRITE", v["WRITE"])>>)
    \o When(PMMTrafficMetricsAvailable(m), <<Cell(scope, "PMM RD", v["PMM RD"]), Cell(scope, "PMM WR", v["PMM WR"])>>)

MCDRAMCells(m, scope, v) ==
    When(MCDRAMmemoryTrafficMetricsAvailable(m),
         <<Cell(scope, "MCDRAM READ", v["MCDRAM READ"]), Cell(scope, "MCDRAM WRITE", v["MCDRAM WRITE"])>>)

RestOfMemory(m, scope, v) ==
    When(memoryIOTrafficMetricAvailable(m), <<Cell(scope, "IO", v["IO"])>>)
    \o When(packageEnergyMetricsAvailable(m), <<Cell(scope, "CPU energy", Other)>>)
    \o When(dramEnergyMetricsAvailable(m), <<Cell(scope, "DIMM energy", Other)>>)
    \o When(LLCReadMissLatencyMetricsAvailable(m), <<Cell(scope, "LLCRDMISSLAT", Other)>>)

MemoryHeader(m) ==
    Labels(When(memoryTrafficMetricsAvailable(m), <<"READ", "WRITE">>)
           \o When(PMMTrafficMetricsAvailable(m), <<"PMM RD", "PMM WR">>)
           \o When(MCDRAMmemoryTrafficMetricsAvailable(m), <<"MCDRAM READ", "MCDRAM WRITE">>)
           \o When(memoryIOTrafficMetricAvailable(m), <<"IO">>)
           \o When(packageEnergyMetricsAvailable(m), <<"CPU energy">>)
           \o When(dramEnergyMetricsAvailable(m), <<"DIMM energy">>)
           \o When(LLCReadMissLatencyMetricsAvailable(m), <<"LLCRDMISSLAT">>))

\* The total of several sockets leaves the MCDRAM out: a KNL has one.
MemoryRows(m, w) ==
    JoinTo(m.sockets, [s \in Sockets(m) |->
      Line(MemoryHeader(m), DRAMCells(m, Skt(s), w.mem[s]) \o MCDRAMCells(m, Skt(s), w.mem[s])
                            \o RestOfMemory(m, Skt(s), w.mem[s]))])
    \o When(m.sockets > 1,
            Line(MemoryHeader(m), DRAMCells(m, System, SystemMem(m, w)) \o RestOfMemory(m, System, SystemMem(m, w))))

print_output(m, show, w) ==
    When(show.cores, CoreRows(m, show, w))
    \o When(show.sockets, SocketRows(m, w))
    \o When(show.system, SystemRow(m, w))
    \o When(show.sockets, IncomingRows(m, w))
    \o When(show.system, IncomingTotal(m, w))
    \o When(show.sockets, OutgoingRows(m, w) \o MemoryRows(m, w))
-----------------------------------------------------------------------------
(* The CSV: the first line of its header.                                  *)

\* print_basic_metrics_csv_semicolons: a semicolon for every basic metric.
BasicSemicolons(m) ==
    3 + Len(When(isActiveRelativeFrequencyAvailable(m), <<"AFREQ">>)
            \o When(isL3CacheMissesAvailable(m), <<"L3MISS">>)
            \o When(isL2CacheMissesAvailable(m), <<"L2MISS">>)
            \o When(isL3CacheHitRatioAvailable(m), <<"L3HIT">>)
            \o When(isL2CacheHitRatioAvailable(m), <<"L2HIT">>)
            \o When(isL3CacheMissesAvailable(m), <<"L3MPI">>)
            \o When(isL2CacheMissesAvailable(m), <<"L2MPI">>))

MonitoredSemicolons(m) ==
    Len(When(L3CacheOccupancyMetricAvailable(m), <<"L3OCC">>)
        \o When(CoreLocalMemoryBWMetricAvailable(m), <<"LMB">>)
        \o When(CoreRemoteMemoryBWMetricAvailable(m), <<"RMB">>))

MemorySemicolons(m) ==
    2 * Len(When(memoryTrafficMetricsAvailable(m), <<"READ">>)
            \o When(PMMTrafficMetricsAvailable(m), <<"PMM_RD">>)
            \o When(MCDRAMmemoryTrafficMetricsAvailable(m), <<"MCDRAM_READ">>))

CoreCStates == <<"System Core C-States", 0>>
PackCStates == <<"System Pack C-States", 0>>

\* The joules have no heading of their own: they stand under the package's C-states.
SystemLine1(m) ==
    Above(System, BasicSemicolons(m) + MemorySemicolons(m) + 7)
    \o When(m.sockets > 1 /\ incomingQPITrafficMetricsAvailable(m), Above(System, 2))
    \o When(m.sockets > 1 /\ outgoingQPITrafficMetricsAvailable(m), Above(System, 1))
    \o Above(CoreCStates, Len(m.coreC))
    \o Above(PackCStates, Len(m.packC))
    \o When(packageEnergyMetricsAvailable(m), Above(PackCStates, 1))
    \o When(dramEnergyMetricsAvailable(m), Above(PackCStates, 1))
    \o When(LLCReadMissLatencyMetricsAvailable(m), Above(PackCStates, 1))

\* The semicolon after a socket's name is that of its temperature.
SocketLine1(m) ==
    JoinTo(m.sockets, [s \in Sockets(m) |->
      Above(Skt(s), 1 + BasicSemicolons(m) + MonitoredSemicolons(m) + MemorySemicolons(m))])
    \o When(m.sockets > 1 /\ incomingQPITrafficMetricsAvailable(m),
            JoinTo(m.sockets, [s \in Sockets(m) |->
              Above(<<"dataIn", s>>, m.links)
              \o When(qpiUtilizationMetricsAvailable(m), Above(<<"dataIn (percent)", s>>, m.links))]))
    \o When(m.sockets > 1 /\ outgoingQPITrafficMetricsAvailable(m),
            JoinTo(m.sockets, [s \in Sockets(m) |->
              Above(<<"trafficOut", s>>, m.links) \o Above(<<"trafficOut (percent)", s>>, m.links)]))
    \o JoinTo(m.sockets, [s \in Sockets(m) |->
         Above(<<"SKT Core C-State", s>>, Len(m.coreC)) \o Above(<<"SKT Package C-State", s>>, Len(m.packC))])
    \o When(packageEnergyMetricsAvailable(m), Above(Label("Proc Energy"), m.sockets))
    \o When(dramEnergyMetricsAvailable(m), Above(Label("DRAM Energy"), m.sockets))
    \o When(LLCReadMissLatencyMetricsAvailable(m), Above(Label("LLCRDMISSLAT"), m.sockets))

CoreLine1(m) ==
    JoinTo(Len(m.socket), [c \in Cores(m) |->
      Above(Core(c), BasicSemicolons(m) + MonitoredSemicolons(m) + Len(m.coreC) + 1)])
-----------------------------------------------------------------------------
(* The second line.                                                        *)

print_basic_metrics_csv_header(m) ==
    Labels(<<"EXEC", "IPC", "FREQ">>
           \o When(isActiveRelativeFrequencyAvailable(m), <<"AFREQ">>)
           \o When(isL3CacheMissesAvailable(m), <<"L3MISS">>)
           \o When(isL2CacheMissesAvailable(m), <<"L2MISS">>)
           \o When(isL3CacheHitRatioAvailable(m), <<"L3HIT">>)
           \o When(isL2CacheHitRatioAvailable(m), <<"L2HIT">>)
           \o When(isL3CacheMissesAvailable(m), <<"L3MPI">>)
           \o When(isL2CacheMissesAvailable(m), <<"L2MPI">>))

MonitoredNames(m) ==
    Labels(When(L3CacheOccupancyMetricAvailable(m), <<"L3OCC">>)
           \o When(CoreLocalMemoryBWMetricAvailable(m), <<"LMB">>)
           \o When(CoreRemoteMemoryBWMetricAvailable(m), <<"RMB">>))

MemoryNames(m) ==
    Labels(When(memoryTrafficMetricsAvailable(m), <<"READ", "WRITE">>)
           \o When(PMMTrafficMetricsAvailable(m), <<"PMM RD", "PMM WR">>)
           \o When(MCDRAMmemoryTrafficMetricsAvailable(m), <<"MCDRAM READ", "MCDRAM WRITE">>))

CStateNames(states) == [k \in DOMAIN states |-> <<"C", states[k]>>]

Totals == <<"INST", "ACYC", "TIME(ticks)", "PhysIPC", "PhysIPC%", "INSTnom", "INSTnom%">>

SystemLine2(m) ==
    print_basic_metrics_csv_header(m) \o MemoryNames(m) \o Labels(Totals)
    \o When(m.sockets > 1 /\ incomingQPITrafficMetricsAvailable(m), Labels(<<"Total in", "xPI to MC">>))
    \o When(m.sockets > 1 /\ outgoingQPITrafficMetricsAvailable(m), Labels(<<"Total out">>))
    \o CStateNames(m.coreC) \o CStateNames(m.packC)
    \o When(packageEnergyMetricsAvailable(m), Labels(<<"Proc Energy">>))
    \o When(dramEnergyMetricsAvailable(m), Labels(<<"DRAM Energy">>))
    \o When(LLCReadMissLatencyMetricsAvailable(m), Labels(<<"LLCRDMISSLAT">>))

SocketLine2(m) ==
    LET eachSocket == [k \in 1 .. m.sockets |-> Skt(k - 1)]
    IN  JoinTo(m.sockets, [s \in Sockets(m) |->
          print_basic_metrics_csv_header(m) \o MonitoredNames(m) \o MemoryNames(m) \o Labels(<<"TEMP">>)])
        \o When(m.sockets > 1 /\ incomingQPITrafficMetricsAvailable(m),
                JoinTo(m.sockets, [s \in Sockets(m) |->
                  LinkLabels(m) \o When(qpiUtilizationMetricsAvailable(m), LinkLabels(m))]))
        \o When(m.sockets > 1 /\ outgoingQPITrafficMetricsAvailable(m),
                JoinTo(m.sockets, [s \in Sockets(m) |-> LinkLabels(m) \o LinkLabels(m)]))
        \o JoinTo(m.sockets, [s \in Sockets(m) |-> CStateNames(m.coreC) \o CStateNames(m.packC)])
        \o When(packageEnergyMetricsAvailable(m), eachSocket)
        \o When(dramEnergyMetricsAvailable(m), eachSocket)
        \o When(LLCReadMissLatencyMetricsAvailable(m), eachSocket)

CoreLine2(m) ==
    JoinTo(Len(m.socket), [c \in Cores(m) |->
      print_basic_metrics_csv_header(m) \o MonitoredNames(m) \o CStateNames(m.coreC) \o Labels(<<"TEMP">>)])

\* Mutant: the second line has no names for what is monitored of a core.
UnmonitoredCores(m, show) ==
    [line1 |-> Above(System, 2) \o When(show.system, SystemLine1(m)) \o When(show.sockets, SocketLine1(m))
               \o When(show.cores, CoreLine1(m)),
     line2 |-> Labels(<<"Date", "Time">>) \o When(show.system, SystemLine2(m)) \o When(show.sockets, SocketLine2(m))
               \o When(show.cores, JoinTo(Len(m.socket), [c \in Cores(m) |->
                    print_basic_metrics_csv_header(m) \o CStateNames(m.coreC) \o Labels(<<"TEMP">>)]))]

print_csv_header(m, show) ==
    [line1 |-> Above(System, 2) \o When(show.system, SystemLine1(m)) \o When(show.sockets, SocketLine1(m))
               \o When(show.cores, CoreLine1(m)),
     line2 |-> Labels(<<"Date", "Time">>) \o When(show.system, SystemLine2(m)) \o When(show.sockets, SocketLine2(m))
               \o When(show.cores, CoreLine2(m))]
-----------------------------------------------------------------------------
(* The rows of the CSV.                                                    *)

\* The basic metrics are the table's; the other metrics lack the temperature.
print_basic_metrics_csv(m, scope, d) == print_basic_metrics(m, scope, d)
print_other_metrics_csv(m, scope) == Monitored(m, scope)

CStateCells(scope, states) == [k \in DOMAIN states |-> <<scope, <<"C", states[k]>>, Other>>]
OtherCells(scope, names) == [k \in DOMAIN names |-> Cell(scope, names[k], Other)]

SystemCsv(m, w) ==
    print_basic_metrics_csv(m, System, SystemCores(m, w))
    \o DRAMCells(m, System, SystemMem(m, w)) \o MCDRAMCells(m, System, SystemMem(m, w))
    \o OtherCells(System, Totals)
    \o When(m.sockets > 1 /\ incomingQPITrafficMetricsAvailable(m),
            <<Cell(System, "Total in", AllLinks(m, w.in)), Cell(System, "xPI to MC", Other)>>)
    \o When(m.sockets > 1 /\ outgoingQPITrafficMetricsAvailable(m),
            <<Cell(System, "Total out", AllLinks(m, w.out))>>)
    \o CStateCells(CoreCStates, m.coreC) \o CStateCells(PackCStates, m.packC)
    \o When(packageEnergyMetricsAvailable(m), <<Cell(PackCStates, "Proc Energy", Other)>>)
    \o When(dramEnergyMetricsAvailable(m), <<Cell(PackCStates, "DRAM Energy", Other)>>)
    \o When(LLCReadMissLatencyMetricsAvailable(m), <<Cell(PackCStates, "LLCRDMISSLAT", Other)>>)

SocketsCsv(m, w) ==
    JoinTo(m.sockets, [s \in Sockets(m) |->
      print_basic_metrics_csv(m, Skt(s), SocketCores(m, w, s)) \o print_other_metrics_csv(m, Skt(s))
      \o DRAMCells(m, Skt(s), w.mem[s]) \o MCDRAMCells(m, Skt(s), w.mem[s]) \o <<Cell(Skt(s), "TEMP", Other)>>])

LinksCsv(m, w) ==
    When(m.sockets > 1 /\ incomingQPITrafficMetricsAvailable(m),
         JoinTo(m.sockets, [s \in Sockets(m) |->
           LinkCells(m, <<"dataIn", s>>, w.in[s])
           \o When(qpiUtilizationMetricsAvailable(m), LinkCells(m, <<"dataIn (percent)", s>>, w.in[s]))]))
    \o When(m.sockets > 1 /\ outgoingQPITrafficMetricsAvailable(m),
            JoinTo(m.sockets, [s \in Sockets(m) |->
              LinkCells(m, <<"trafficOut", s>>, w.out[s]) \o LinkCells(m, <<"trafficOut (percent)", s>>, w.out[s])]))

PackagesCsv(m) ==
    LET ofEach(name) == [k \in 1 .. m.sockets |-> Cell(Skt(k - 1), name, Other)]
    IN  JoinTo(m.sockets, [s \in Sockets(m) |->
          CStateCells(<<"SKT Core C-State", s>>, m.coreC) \o CStateCells(<<"SKT Package C-State", s>>, m.packC)])
        \o When(packageEnergyMetricsAvailable(m), ofEach("Proc Energy"))
        \o When(dramEnergyMetricsAvailable(m), ofEach("DRAM Energy"))
        \o When(LLCReadMissLatencyMetricsAvailable(m), ofEach("LLCRDMISSLAT"))

\* The cores that are offline have their columns too.
CoresCsv(m, w) ==
    JoinTo(Len(m.socket), [c \in Cores(m) |->
      print_basic_metrics_csv(m, Core(c), w.core[c]) \o print_other_metrics_csv(m, Core(c))
      \o CStateCells(Core(c), m.coreC) \o <<Cell(Core(c), "TEMP", Other)>>])

print_csv(m, show, header, w) ==
    <<[table |-> FALSE, header |-> header,
       cells |-> <<Cell(System, "Date", Other), Cell(System, "Time", Other)>>
                 \o When(show.system, SystemCsv(m, w))
                 \o When(show.sockets, SocketsCsv(m, w) \o LinksCsv(m, w) \o PackagesCsv(m))
                 \o When(show.cores, CoresCsv(m, w))]>>
=============================================================================
