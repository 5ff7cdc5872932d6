----------------------------- MODULE PcmReport -----------------------------
(***************************************************************************)
(* A run of Intel PCM's pcm.x or pcm-memory.x, from its command line to    *)
(* the rows it prints, while the machine's cores and memory are at work.   *)
(* pcm.x lets a worker thread on every core read the core's counters and   *)
(* one of each socket's workers the memory's, while the main thread reads  *)
(* the links; both stop the socket's counters meanwhile, and start them    *)
(* again.  pcm-memory.x reads everything in its only thread.               *)
(***************************************************************************)
EXTENDS PcmMemory, FiniteSets

CONSTANT Scenarios   \* the tool, the machine m, the arguments, the traffic there may be
                     \* and the bound budget on it

VARIABLES
    scenario,
    opts,        \* what the command line asks for
    pc,          \* of the main thread
    happened,    \* the traffic, in the order it came
    counted,     \* and what of it the counters counted
    frozen,      \* the boxes of counters that are stopped
    pending,     \* cores whose workers have their counters yet to read
    at,          \* steps the worker of a socket has taken of its memory's reading
    main,        \* and the main thread of its own
    reading,     \* what has been read
    before,      \* the last reading
    i,           \* iteration of the loop, 0 before it
    header, live,\* of the CSV, and the channels it has columns for
    report,      \* the lines printed last
    marks        \* ghost: how much had happened when the last reading began and
                 \* ended, and when this one began and ended

run == <<scenario, opts>>
hardware == <<happened, counted, frozen>>
threads == <<pending, at, main, reading>>
printed == <<i, header, live, report>>
vars == <<run, pc, hardware, threads, before, printed, marks>>

m == scenario.m
IsPcm == scenario.tool = "pcm"

Defaults ==
    [refused |-> FALSE, cores |-> TRUE, sockets |-> TRUE, system |-> TRUE, partial |-> FALSE, ycores |-> {},
     csv |-> FALSE, iterations |-> 0, command |-> FALSE, delay |-> -1,
     columns |-> 2, rankA |-> -1, rankB |-> -1, PMM |-> FALSE, channels |-> TRUE]

\* An argument of pcm.x.  "-nsys" begins with "-ns", which is looked for before it.
PcmArgument(o, a) ==
    CASE a[1] = "-yc" -> [o EXCEPT !.partial = TRUE, !.ycores = @ \cup a[2]]
      [] a[1] = "-nc" -> [o EXCEPT !.cores = FALSE]
      [] a[1] \in {"-ns", "-nsys"} -> [o EXCEPT !.sockets = FALSE]
      [] a[1] = "--nosystem" -> [o EXCEPT !.system = FALSE]
      [] a[1] = "-csv" -> [o EXCEPT !.csv = TRUE]
      [] a[1] = "-i" -> [o EXCEPT !.iterations = a[2]]
      [] a[1] = "--" -> [o EXCEPT !.command = TRUE]
      [] a[1] = "delay" /\ o.delay = -1 -> [o EXCEPT !.delay = a[2]]
      [] OTHER -> [o EXCEPT !.refused = TRUE]

\* An argument of pcm-memory.x.
MemoryArgument(o, a) ==
    CASE a[1] = "-csv" -> [o EXCEPT !.csv = TRUE]
      [] a[1] = "-i" -> [o EXCEPT !.iterations = a[2]]
      [] a[1] = "-columns" -> [o EXCEPT !.columns = IF a[2] = 0 THEN 2 ELSE IF a[2] > m.sockets THEN m.sockets ELSE a[2]]
      [] a[1] = "-rank" /\ (o.rankA < 0 \/ o.rankB < 0) /\ a[2] <= 7 ->
           IF o.rankA < 0 THEN [o EXCEPT !.rankA = a[2]] ELSE [o EXCEPT !.rankB = a[2]]
      [] a[1] = "-nc" -> [o EXCEPT !.channels = FALSE]
      [] a[1] = "-pmm" -> [o EXCEPT !.PMM = TRUE]
      [] a[1] = "--" -> [o EXCEPT !.command = TRUE]
      [] a[1] = "delay" -> [o EXCEPT !.delay = a[2]]
      [] OTHER -> [o EXCEPT !.refused = TRUE]

Parsed ==
    LET parsed[k \in 0 .. Len(scenario.args)] ==
          IF k = 0 THEN Defaults
          ELSE IF IsPcm THEN PcmArgument(parsed[k - 1], scenario.args[k])
          ELSE MemoryArgument(parsed[k - 1], scenario.args[k])
    IN  parsed[Len(scenario.args)]

\* What pcm-memory.x has to have.
MemoryChecks(o) ==
    /\ hasPCICFGUncore(m)
    /\ o.PMM => PMMTrafficMetricsAvailable(m)
    /\ o.rankA >= 0 \/ o.rankB >= 0 => ~o.PMM /\ o.channels

\* Nobody runs beside the command that is waited for.
Blocked == opts.command /\ opts.delay <= 0
-----------------------------------------------------------------------------
(* The counters.  Traffic is a load of a core <<"load", c, class>>, an     *)
(* access of a channel <<"access", s, ch, operation, rank>>, of the MCDRAM *)
(* <<"mcdram", s, ch, operation>>, data on a link <<"link", s, l, way>> or *)
(* a request <<"io">>.                                                     *)

MCEvents ==
    IF IsPcm THEN programUncore(m) ELSE programServerUncoreMemoryMetrics(m, opts.rankA, opts.rankB, opts.PMM)

Box(x) == IF x[1] = "mcdram" THEN <<"mcdram", x[2]>> ELSE IF x[1] \in {"access", "link"} THEN <<"uncore", x[2]>> ELSE x
Boxes(s) == {<<"uncore", s>>, <<"mcdram", s>>}

Loaded(c) == [class \in Loads |-> Cardinality({k \in counted : happened[k] = <<"load", c, class>>})]

getMCCounter(s, ch, event) ==
    Cardinality({k \in counted :
      LET x == happened[k] IN x[1] = "access" /\ x[2] = s /\ x[3] = ch /\ <<x[4], x[5]>> \in event})

\* The sum over the channels, of getImcReads, getImcWrites, getPMMReads and getPMMWrites.
getImc(s, event) == SumTo(MaxChannels, [ch \in Channels |-> getMCCounter(s, ch, event)])

getEDCCounter(s, ch, event) ==
    Cardinality({k \in counted :
      LET x == happened[k] IN x[1] = "mcdram" /\ x[2] = s /\ x[3] = ch /\ x[4] \in event})

getEdc(s, event) == SumTo(MaxChannels, [ch \in Channels |-> getEDCCounter(s, ch, event)])

\* The boxes between the memory and the mesh: near memory's hits of a controller.
getM2MCounter(s, controller) ==
    SumTo(MaxChannels, [ch \in Channels |->
      IF ControllerOf(m, ch) = controller THEN getMCCounter(s, ch, Of(NearHits)) ELSE 0])

Flits(s, l, way) == Cardinality({k \in counted : happened[k] = <<"link", s, l, way>>})

MemNames == {"READ", "WRITE", "PMM RD", "PMM WR", "MCDRAM READ", "MCDRAM WRITE", "IO"}

\* readAndAggregateUncoreMCCounters: the steps of a socket's worker.
SocketSteps ==
    CASE hasPCICFGUncore(m) ->
           <<"freeze", "READ", "WRITE">>
           \o When(PMMTrafficMetricsAvailable(m), <<"PMM RD", "PMM WR">>)
           \o When(MCDRAMmemoryTrafficMetricsAvailable(m), <<"MCDRAM READ", "MCDRAM WRITE">>)
           \o <<"unfreeze">>
      [] m.model \in Client -> <<"READ", "WRITE", "IO">>
      [] m.model \in {"NEHALEM_EP", "WESTMERE_EP"} -> <<"WRITE", "READ">>
      [] OTHER -> << >>

MemCounter(s, name) ==
    CASE name = "READ" -> getImc(s, MCEvents[1])
      [] name = "WRITE" -> getImc(s, MCEvents[2])
      [] name = "PMM RD" -> getImc(s, MCEvents[3])
      [] name = "PMM WR" -> getImc(s, MCEvents[4])
      [] name = "MCDRAM READ" -> getEdc(s, EDCEvents[1])
      [] name = "MCDRAM WRITE" -> getEdc(s, EDCEvents[2])
      [] name = "IO" -> Cardinality({k \in counted : happened[k] = <<"io">>})

\* The main thread's steps at a socket: the links, or for pcm-memory.x all channels.
MainSteps ==
    IF IsPcm
    THEN When(hasPCICFGUncore(m), <<"freeze">> \o [l \in 1 .. m.links |-> "link"] \o <<"unfreeze">>)
    ELSE <<"freeze", "channels", "unfreeze">>

\* An empty state of the counters; only what the tool reads is there.
NoMem == [x \in MemNames |-> 0]
Blank ==
    IF IsPcm
    THEN [core |-> [c \in Cores(m) |-> Zeros], mem |-> [s \in Sockets(m) |-> NoMem],
          in |-> [s \in Sockets(m) |-> [l \in Links(m) |-> 0]], out |-> [s \in Sockets(m) |-> [l \in Links(m) |-> 0]]]
    ELSE [mc |-> [s \in Sockets(m) |-> [ch \in Channels |-> Zeros]],
          edc |-> [s \in Sockets(m) |-> [ch \in Channels |-> <<0, 0>>]],
          m2m |-> [s \in Sockets(m) |-> [c \in Controllers |-> 0]]]

\* What two readings are apart.
Window(a, b) ==
    IF IsPcm
    THEN [core |-> [c \in Cores(m) |-> Between(a.core[c], b.core[c])],
          mem |-> [s \in Sockets(m) |-> [x \in MemNames |-> b.mem[s][x] - a.mem[s][x]]],
          in |-> [s \in Sockets(m) |-> [l \in Links(m) |-> b.in[s][l] - a.in[s][l]]],
          out |-> [s \in Sockets(m) |-> [l \in Links(m) |-> b.out[s][l] - a.out[s][l]]]]
    ELSE [mc |-> [s \in Sockets(m) |-> [ch \in Channels |-> Between(a.mc[s][ch], b.mc[s][ch])]],
          edc |-> [s \in Sockets(m) |-> [ch \in Channels |-> [k \in 1 .. 2 |-> b.edc[s][ch][k] - a.edc[s][ch][k]]]],
          m2m |-> [s \in Sockets(m) |-> [c \in Controllers |-> b.m2m[s][c] - a.m2m[s][c]]]]
-----------------------------------------------------------------------------
Init ==
    /\ scenario \in Scenarios
    /\ opts = Parsed
    /\ pc = "start"
    /\ happened = << >> /\ counted = {} /\ frozen = {}
    /\ pending = {} /\ at = [s \in Sockets(m) |-> 0] /\ main = 0
    /\ reading = Blank /\ before = Blank
    /\ i = 0 /\ header = << >> /\ live = {} /\ report = << >>
    /\ marks = <<0, 0, 0, 0>>

\* The machine is at work; a box that is stopped counts nothing.
Traffic(x) ==
    /\ pc \notin {"start", "exit"} /\ Len(happened) < scenario.budget
    /\ happened' = Append(happened, x)
    /\ counted' = IF Box(x) \in frozen THEN counted ELSE counted \cup {Len(happened) + 1}
    /\ UNCHANGED <<run, pc, frozen, threads, before, printed, marks>>

Refused ==
    /\ pc = "start"
    /\ opts.refused \/ (~IsPcm /\ ~MemoryChecks(opts))
    /\ pc' = "exit"
    /\ UNCHANGED <<run, hardware, threads, before, printed, marks>>

\* The events are programmed and counted from 0; the MCDRAM's boxes are left
\* stopped.  pcm.x prints the header of its CSV now.
Program ==
    /\ pc = "start" /\ ~opts.refused /\ (IsPcm \/ MemoryChecks(opts))
    /\ pc' = "read"
    /\ frozen' = IF MCDRAMmemoryTrafficMetricsAvailable(m) THEN {<<"mcdram", s>> : s \in Sockets(m)} ELSE {}
    /\ header' = IF IsPcm /\ opts.csv THEN print_csv_header(m, opts) ELSE header
    /\ UNCHANGED <<run, happened, counted, threads, before, i, live, report, marks>>

\* getAllCounterStates hands the tasks to the workers; a worker has its core's
\* counters to read before its socket's memory.
Begin ==
    /\ pc = "read" /\ pc' = "reading"
    /\ i = 0 \/ opts.iterations = 0 \/ i <= opts.iterations
    /\ reading' = Blank
    /\ pending' = IF IsPcm THEN Cores(m) \ m.offline ELSE {}
    /\ at' = [s \in Sockets(m) |-> 0] /\ main' = 0
    /\ marks' = [marks EXCEPT ![3] = Len(happened)]
    /\ UNCHANGED <<run, hardware, before, printed>>

\* The worker runs on the core it reads: the core has no other loads meanwhile.
ReadsCore(c) ==
    /\ pc = "reading" /\ c \in pending
    /\ pending' = pending \ {c}
    /\ reading' = [reading EXCEPT !.core[c] = ReadCore(m, Loaded(c))]
    /\ UNCHANGED <<run, pc, hardware, at, main, before, printed, marks>>

\* The worker with the socket's task is that of its last core online.
socketRefCore(s) == CHOOSE c \in Online(m, s) : \A d \in Online(m, s) : d <= c

freezeCounters(s) == frozen' = frozen \cup Boxes(s)

\* Mutant: the boxes are not started again.
StayFrozen(s) == frozen' = frozen

unfreezeCounters(s) == frozen' = frozen \ Boxes(s)

ReadsSocket(s) ==
    /\ pc = "reading" /\ IsPcm
    /\ socketRefCore(s) \notin pending /\ at[s] < Len(SocketSteps)
    /\ at' = [at EXCEPT ![s] = @ + 1]
    /\ LET step == SocketSteps[at[s] + 1]
       IN  CASE step = "freeze" -> freezeCounters(s) /\ reading' = reading
             [] step = "unfreeze" -> unfreezeCounters(s) /\ reading' = reading
             [] OTHER -> /\ reading' = [reading EXCEPT !.mem[s][step] = MemCounter(s, step)]
                         /\ frozen' = frozen
    /\ UNCHANGED <<run, pc, happened, counted, pending, main, before, printed, marks>>

\* readQPICounters, and getServerUncorePowerState: one socket after the other.
ReadsMain ==
    LET n == Len(MainSteps)
        s == main \div n
        k == main % n
    IN  /\ pc = "reading" /\ main < n * m.sockets
        /\ main' = main + 1
        /\ CASE MainSteps[k + 1] = "freeze" -> freezeCounters(s) /\ reading' = reading
             [] MainSteps[k + 1] = "unfreeze" -> unfreezeCounters(s) /\ reading' = reading
             [] MainSteps[k + 1] = "link" ->
                  /\ reading' = [reading EXCEPT !.in[s][k - 1] = Flits(s, k - 1, "in"), !.out[s][k - 1] = Flits(s, k - 1, "out")]
                  /\ frozen' = frozen
             [] OTHER ->
                  /\ reading' = [reading EXCEPT
                       !.mc[s] = [ch \in Channels |-> [e \in 1 .. 4 |-> getMCCounter(s, ch, MCEvents[e])]],
                       !.edc[s] = [ch \in Channels |-> [e \in 1 .. 2 |-> getEDCCounter(s, ch, EDCEvents[e])]],
                       !.m2m[s] = [c \in Controllers |-> getM2MCounter(s, c)]]
                  /\ frozen' = frozen
    /\ UNCHANGED <<run, pc, happened, counted, pending, at, before, printed, marks>>

AllRead ==
    /\ pc = "reading" /\ pending = {} /\ main = Len(MainSteps) * m.sockets
    /\ IsPcm => \A s \in Sockets(m) : at[s] = Len(SocketSteps)

\* The first reading is what the loop starts from.
FirstReading ==
    /\ AllRead /\ i = 0
    /\ pc' = "read" /\ i' = 1
    /\ before' = reading
    /\ marks' = <<marks[3], Len(happened), 0, 0>>
    /\ UNCHANGED <<run, hardware, threads, header, live, report>>

\* The channels a row of pcm-memory.x has columns for.
Live(md) ==
    {<<s, ch>> \in Sockets(m) \X Channels : ~Missing(md, s, ch)}
    \cup {<<s, MaxChannels + ch>> : <<s, ch>> \in {x \in Sockets(m) \X Channels : ~MissingEDC(md, x[1], x[2])}}

PrintPcm ==
    /\ IsPcm
    /\ report' = IF opts.csv THEN print_csv(m, opts, header, Window(before, reading))
                 ELSE print_output(m, opts, Window(before, reading))
    /\ UNCHANGED <<header, live>>

\* The ranks' rows are printed whatever -csv says; the header comes with the first row.
PrintMemory ==
    LET w == Window(before, reading)
        md == calculate_bandwidth(m, w, opts.PMM)
        first == i = 1
    IN  /\ ~IsPcm
        /\ IF opts.rankA >= 0 \/ opts.rankB >= 0
           THEN report' = RankRows(m, w, opts.rankA, opts.rankB) /\ UNCHANGED <<header, live>>
           ELSE IF opts.csv
           THEN /\ header' = IF first THEN display_bandwidth_csv_header(m, md, opts.channels) ELSE header
                /\ live' = IF first THEN Live(md) ELSE live
                /\ report' = display_bandwidth_csv(m, md, header', opts.channels)
           ELSE report' = display_bandwidth(m, md, opts.columns, opts.channels) /\ UNCHANGED <<header, live>>

PrintBandwidth ==
    /\ AllRead /\ i > 0
    /\ pc' = "printed"
    /\ PrintPcm \/ PrintMemory
    /\ marks' = [marks EXCEPT ![4] = Len(happened)]
    /\ UNCHANGED <<run, hardware, threads, before, i>>

\* The reading is the next window's first.
EndOfRound ==
    /\ pc = "printed"
    /\ before' = reading /\ report' = << >>
    /\ marks' = <<marks[3], marks[4], 0, 0>>
    /\ IF Blocked THEN pc' = "exit" /\ i' = i ELSE pc' = "read" /\ i' = i + 1
    /\ UNCHANGED <<run, hardware, threads, header, live>>

EndOfLoop ==
    /\ pc = "read" /\ i > opts.iterations /\ opts.iterations # 0
    /\ pc' = "exit"
    /\ UNCHANGED <<run, hardware, threads, before, printed, marks>>

Terminating == pc = "exit" /\ UNCHANGED vars

Next ==
    \/ \E x \in scenario.items : Traffic(x)
    \/ Refused \/ Program \/ Begin
    \/ \E c \in Cores(m) : ReadsCore(c)
    \/ \E s \in Sockets(m) : ReadsSocket(s)
    \/ ReadsMain \/ FirstReading \/ PrintBandwidth \/ EndOfRound \/ EndOfLoop \/ Terminating

Spec == Init /\ [][Next]_vars
-----------------------------------------------------------------------------
(* What a cell stands for: the traffic it tells of.                        *)

CoresIn(scope) ==
    CASE scope = System -> Cores(m) \ m.offline
      [] scope[1] = "SKT" -> Online(m, scope[2])
      [] OTHER -> {scope[2]}

SocketsIn(scope) == IF scope = System THEN Sockets(m) ELSE {scope[2]}

LoadsOf(scope, classes) == {"load"} \X CoresIn(scope) \X classes
DRAM(scope, chs, operations, ranks) == {"access"} \X SocketsIn(scope) \X chs \X operations \X ranks
MCDRAM(scope, chs, operations) == {"mcdram"} \X SocketsIn(scope) \X chs \X operations
LinkOf(scope, ls, way) == {"link"} \X SocketsIn(scope) \X ls \X {way}

Hits == {"L3", "L3 snoop"}

\* Persistent memory is in the totals of the tables with -pmm, not in those of
\* a socket in the CSV; the MCDRAM is in the system's, unless -columns=1 has its
\* only socket share a row with none.
InTotal(scope, DRAMops, PMMop, MCDRAMop) ==
    DRAM(scope, Channels, DRAMops, Ranks)
    \cup (IF opts.PMM /\ (scope = System \/ ~opts.csv) THEN DRAM(scope, Channels, {PMMop}, Ranks) ELSE {})
    \cup (IF scope = System /\ (opts.csv \/ opts.columns > m.sockets) THEN MCDRAM(scope, Channels, {MCDRAMop}) ELSE {})

\* A column of what the cores load or the memory serves.
Counted(scope, label) ==
    LET name == label[1]
        n == label[2]
    IN  CASE name = "L3MISS" -> LoadsOf(scope, {"memory"})
          [] name = "L2MISS" -> LoadsOf(scope, BeyondL2)
          [] name \in {"READ", "Mem Read", "DRAM Read"} -> DRAM(scope, Channels, ReadEvents, Ranks)
          [] name \in {"WRITE", "Mem Write", "DRAM Write"} -> DRAM(scope, Channels, {"write"}, Ranks)
          [] name \in {"PMM RD", "PMM Read"} -> DRAM(scope, Channels, {"PMM read"}, Ranks)
          [] name \in {"PMM WR", "PMM Write"} -> DRAM(scope, Channels, {"PMM write"}, Ranks)
          [] name \in {"MCDRAM READ", "MCDRAM Read"} -> MCDRAM(scope, Channels, {"read"})
          [] name \in {"MCDRAM WRITE", "MCDRAM Write"} -> MCDRAM(scope, Channels, {"write"})
          [] name = "MCDRAM" -> MCDRAM(scope, Channels, {"read", "write"})
          [] name = "IO" -> {<<"io">>}
          [] name = "xPI" -> LinkOf(scope, {n}, IF scope[1] \in {"dataIn", "dataIn (percent)"} THEN "in" ELSE "out")
          [] name = "Total in" -> LinkOf(scope, Links(m), "in")
          [] name = "Total out" -> LinkOf(scope, Links(m), "out")
          [] name = "P. Write" /\ m.model # "KNL" -> DRAM(scope, Channels, {"underfill"}, Ranks)
          [] name = "Ch Read" -> DRAM(scope, {n}, ReadEvents, Ranks)
          [] name = "Ch Write" -> DRAM(scope, {n}, {"write"}, Ranks)
          [] name = "Ch PMM Read" -> DRAM(scope, {n}, {"PMM read"}, Ranks)
          [] name = "Ch PMM Write" -> DRAM(scope, {n}, {"PMM write"}, Ranks)
          [] name = "EDC Read" -> MCDRAM(scope, {n}, {"read"})
          [] name = "EDC Write" -> MCDRAM(scope, {n}, {"write"})
          [] name = "Rank Read" -> DRAM(scope, {n}, ReadEvents, {label[3]})
          [] name = "Rank Write" -> DRAM(scope, {n}, {"write"}, {label[3]})
          [] name = "Read" -> InTotal(scope, ReadEvents, "PMM read", "read")
          [] name = "Write" -> InTotal(scope, {"write"}, "PMM write", "write")
          [] name = "Memory" -> InTotal(scope, ReadEvents, "PMM read", "read") \cup InTotal(scope, {"write"}, "PMM write", "write")
          [] OTHER -> {}

\* A column of a share: what there is of it, and of what.
Shared(scope, label) ==
    LET ofController == {ch \in Channels : ControllerOf(m, ch) = label[2]}
    IN  CASE label[1] = "L3HIT" -> <<LoadsOf(scope, Hits), LoadsOf(scope, BeyondL2)>>
          [] label[1] = "L2HIT" -> <<LoadsOf(scope, {"L2"}), LoadsOf(scope, Loads)>>
          [] label[1] = "NM hit" -> <<DRAM(scope, ofController, NearHits, Ranks), DRAM(scope, ofController, ReadEvents, Ranks)>>
          [] OTHER -> << >>

HowMany(ks, items) == Cardinality({k \in ks : happened[k] \in items})

\* Of the traffic between the readings all is told, of that during them any part.
AtLeast(items) == HowMany(marks[2] + 1 .. marks[3], items)
AtMost(items) == HowMany(marks[1] + 1 .. marks[4], items)

\* A channel without traffic is shown as missing.
TellsOf(value, items) == value \in AtLeast(items) .. AtMost(items) \/ (value < 0 /\ AtLeast(items) = 0)

TellsShare(value, share) ==
    \/ TellsOf(value[1], share[1]) /\ TellsOf(value[2], share[2])
    \/ AtLeast(share[2]) = 0 /\ value \in {<<0, 0>>, <<1, 1>>}

TellsTheTraffic(cell) ==
    /\ Counted(cell[1], cell[2]) # {} => TellsOf(cell[3], Counted(cell[1], cell[2]))
    /\ Shared(cell[1], cell[2]) # << >> => TellsShare(cell[3], Shared(cell[1], cell[2]))

\* What is printed is the traffic of its own core, channel, rank, link or
\* memory: all there was between two readings, and no more than there was from
\* the beginning of the one to the end of the other, although the readings are
\* taken by several threads that stop and start one another's counters
\* (getAllCounterStates, readAndAggregateUncoreMCCounters, readQPICounters,
\* getServerUncorePowerState), and the events depend on the model and on the
\* options.  The assertions of pcm.x's loop hold.
RowsTellTheTraffic ==
    pc = "printed" =>
      /\ \A k \in DOMAIN report : \A c \in DOMAIN report[k].cells : TellsTheTraffic(report[k].cells[c])
      /\ IsPcm => CoreChecks(m, SystemCores(m, Window(before, reading)))

\* Over every value stands the name of what it is, although header and rows are
\* written by code of their own (print_csv_header and print_csv, print_output,
\* display_bandwidth_csv_header and display_bandwidth_csv): in pcm.x's tables
\* and CSV always, in pcm-memory.x's CSV as long as the channels with traffic
\* are those of the first row.
HeadersNameTheValues ==
    pc = "printed" =>
      \A k \in DOMAIN report :
        LET line == report[k]
            labels == [c \in DOMAIN line.cells |-> line.cells[c][2]]
            over == line.header
        IN  IF line.table
            THEN over # << >> => labels = over
            ELSE LET linesUp == /\ Len(over.line1) = Len(line.cells) /\ Len(over.line2) = Len(line.cells)
                                /\ \A c \in DOMAIN line.cells :
                                     {over.line1[c], over.line2[c]} = {line.cells[c][1], line.cells[c][2]}
                 IN  linesUp <=> \/ IsPcm \/ ~opts.channels
                                 \/ live = Live(calculate_bandwidth(m, Window(before, reading), opts.PMM))
=============================================================================
