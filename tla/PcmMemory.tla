----------------------------- MODULE PcmMemory -----------------------------
(***************************************************************************)
(* The memory controllers under Intel PCM: the events their channels are   *)
(* programmed with (ServerPCICFGUncore), the counters read, and what       *)
(* pcm-memory.x makes of two readings and prints (pcm-memory.cpp).  An     *)
(* access of a channel is <<operation, rank>>, an event the set of the     *)
(* accesses it counts.  A window w has the four counts of each channel, the *)
(* two of each MCDRAM channel and the hits of each controller's near       *)
(* memory.                                                                 *)
(***************************************************************************)
EXTENDS PcmColumns

Ranks == {0, 1}
\* Eight in the code: the arrays have room for channels the machine lacks.
MaxChannels == 3
Channels == 0 .. MaxChannels - 1
Controllers == {0, 1}

\* A near read is one the DRAM serves for the persistent memory behind it.
ReadEvents == {"read", "near read", "underfill"}
Of(operations) == operations \X Ranks
NoEvents == <<{}, {}, {}, {}>>

RankEvents(m, rankA, rankB) ==
    CASE m.model = "KNL" -> <<Of(ReadEvents), Of({"write"}), {}, {}>>
      [] m.model \in {"IVYTOWN", "HASWELLX", "BDX_DE", "BDX", "SKX"} ->
           <<ReadEvents \X {rankA}, {"write"} \X {rankA}, ReadEvents \X {rankB}, {"write"} \X {rankB}>>
      [] OTHER -> NoEvents

\* pcm-memory's events; a rank below 0 is none.
programServerUncoreMemoryMetrics(m, rankA, rankB, PMM) ==
    IF rankA >= 0 \/ rankB >= 0 THEN RankEvents(m, rankA, rankB)
    ELSE CASE m.model = "KNL" -> <<Of(ReadEvents), Of({"write"}), {}, {}>>
           [] m.model # "KNL" /\ PMM -> <<Of(ReadEvents), Of({"write"}), Of({"PMM read"}), Of({"PMM write"})>>
           [] OTHER -> <<Of(ReadEvents), Of({"write"}), Of({"underfill"}), {}>>

\* pcm's: the third and fourth counter are for persistent memory where there is any.
programUncore(m) ==
    <<Of(ReadEvents), Of({"write"})>>
    \o (IF m.model # "KNL" /\ PMMTrafficMetricsAvailable(m) THEN <<Of({"PMM read"}), Of({"PMM write"})>>
        ELSE <<{}, {}>>)

\* The MCDRAM's events, and that of the near memory (programEDC, programM2M).
EDCEvents == <<{"read"}, {"write"}>>
NearHits == {"near read"}

\* Controller of a channel: the channels of the second follow those of the first.
ControllerOf(m, channel) == IF channel < m.channels[1] THEN 0 ELSE 1
-----------------------------------------------------------------------------
(* calculate_bandwidth: what is printed of each channel and socket; -1     *)
(* stands for a channel without traffic, which is taken for missing.       *)

IsIdle(w, PMM, s, ch) ==
    /\ w.mc[s][ch][1] = 0 /\ w.mc[s][ch][2] = 0
    /\ PMM => w.mc[s][ch][3] = 0 /\ w.mc[s][ch][4] = 0

\* Never written for an idle channel, and printed beside another socket's.
Garbage == -2

OfChannel(w, PMM, i, idle) ==
    [s \in DOMAIN w.mc |-> [ch \in Channels |-> IF IsIdle(w, PMM, s, ch) THEN idle ELSE w.mc[s][ch][i]]]

OfSocket(w, i) == [s \in DOMAIN w.mc |-> SumTo(MaxChannels, [ch \in Channels |-> w.mc[s][ch][i]])]

OfEDCChannel(w, i) ==
    [s \in DOMAIN w.edc |-> [ch \in Channels |->
       IF w.edc[s][ch][1] = 0 /\ w.edc[s][ch][2] = 0 THEN -1 ELSE w.edc[s][ch][i]]]

OfEDC(w, i) == [s \in DOMAIN w.edc |-> SumTo(MaxChannels, [ch \in Channels |-> w.edc[s][ch][i]])]

\* The near memory's hits and the reads they are a share of; no reads leave a 0.
HitRate(m, w) ==
    [s \in DOMAIN w.mc |-> [c \in Controllers |->
       LET reads == SumTo(MaxChannels, [ch \in Channels |-> IF ControllerOf(m, ch) = c THEN w.mc[s][ch][1] ELSE 0])
       IN  IF reads = 0 THEN <<0, 0>> ELSE <<w.m2m[s][c], reads>>]]

None(w) == [s \in DOMAIN w.mc |-> 0]

calculate_bandwidth(m, w, PMM) ==
    [PMM |-> PMM,
     iMC_Rd_socket_chan |-> OfChannel(w, PMM, 1, -1), iMC_Wr_socket_chan |-> OfChannel(w, PMM, 2, -1),
     iMC_PMM_Rd_socket_chan |-> OfChannel(w, PMM, 3, Garbage),
     iMC_PMM_Wr_socket_chan |-> OfChannel(w, PMM, 4, Garbage),
     iMC_Rd_socket |-> OfSocket(w, 1), iMC_Wr_socket |-> OfSocket(w, 2),
     iMC_PMM_Rd_socket |-> IF PMM THEN OfSocket(w, 3) ELSE None(w),
     iMC_PMM_Wr_socket |-> IF PMM THEN OfSocket(w, 4) ELSE None(w),
     partial_write |-> IF PMM THEN None(w) ELSE OfSocket(w, 3),
     M2M_NM_read_hit_rate |-> HitRate(m, w),
     EDC_Rd_socket_chan |-> OfEDCChannel(w, 1), EDC_Wr_socket_chan |-> OfEDCChannel(w, 2),
     EDC_Rd_socket |-> OfEDC(w, 1), EDC_Wr_socket |-> OfEDC(w, 2)]

Missing(md, s, ch) == md.iMC_Rd_socket_chan[s][ch] < 0 \/ md.iMC_Wr_socket_chan[s][ch] < 0
MissingEDC(md, s, ch) == md.EDC_Rd_socket_chan[s][ch] < 0 \/ md.EDC_Wr_socket_chan[s][ch] < 0
-----------------------------------------------------------------------------
(* The tables: their lines name what they tell, and have no header.        *)

Named(cells) == When(cells # << >>, Line(<< >>, cells))
OfCh(s, name, ch, value) == <<Skt(s), <<name, ch>>, value>>

ChannelCells(md, s, ch) ==
    <<OfCh(s, "Ch Read", ch, md.iMC_Rd_socket_chan[s][ch]), OfCh(s, "Ch Write", ch, md.iMC_Wr_socket_chan[s][ch])>>
    \o When(md.PMM, <<OfCh(s, "Ch PMM Read", ch, md.iMC_PMM_Rd_socket_chan[s][ch]),
                      OfCh(s, "Ch PMM Write", ch, md.iMC_PMM_Wr_socket_chan[s][ch])>>)

\* A row of sockets shows a channel that one of them has.
printSocketChannelBW(md, first, columns) ==
    JoinTo(MaxChannels, [ch \in Channels |->
      When(\E s \in first .. first + columns - 1 : ~Missing(md, s, ch),
           JoinTo(columns, [k \in 0 .. columns - 1 |-> ChannelCells(md, first + k, ch)]))])

SocketCells(md, s) ==
    <<Cell(Skt(s), "Mem Read", md.iMC_Rd_socket[s]), Cell(Skt(s), "Mem Write", md.iMC_Wr_socket[s])>>
    \o (IF md.PMM
        THEN <<Cell(Skt(s), "PMM Read", md.iMC_PMM_Rd_socket[s]), Cell(Skt(s), "PMM Write", md.iMC_PMM_Wr_socket[s]),
               <<Skt(s), <<"NM hit", 0>>, md.M2M_NM_read_hit_rate[s][0]>>,
               <<Skt(s), <<"NM hit", 1>>, md.M2M_NM_read_hit_rate[s][1]>>>>
        ELSE <<Cell(Skt(s), "P. Write", md.partial_write[s])>>)
    \o <<Cell(Skt(s), "Memory", md.iMC_Rd_socket[s] + md.iMC_Wr_socket[s]
                                + md.iMC_PMM_Rd_socket[s] + md.iMC_PMM_Wr_socket[s])>>

printSocketBWFooter(md, first, columns) ==
    JoinTo(columns, [k \in 0 .. columns - 1 |-> SocketCells(md, first + k)])

\* A socket of a KNL, its two memories beside each other.
BothMemories(md, s, channels) ==
    When(channels, JoinTo(MaxChannels, [ch \in Channels |->
      When(~Missing(md, s, ch), ChannelCells(md, s, ch))
      \o When(~MissingEDC(md, s, ch), <<OfCh(s, "EDC Read", ch, md.EDC_Rd_socket_chan[s][ch]),
                                        OfCh(s, "EDC Write", ch, md.EDC_Wr_socket_chan[s][ch])>>)]))
    \o <<Cell(Skt(s), "Mem Read", md.iMC_Rd_socket[s]), Cell(Skt(s), "MCDRAM Read", md.EDC_Rd_socket[s]),
         Cell(Skt(s), "Mem Write", md.iMC_Wr_socket[s]), Cell(Skt(s), "MCDRAM Write", md.EDC_Wr_socket[s]),
         Cell(Skt(s), "Memory", md.iMC_Rd_socket[s] + md.iMC_Wr_socket[s]),
         Cell(Skt(s), "MCDRAM", md.EDC_Rd_socket[s] + md.EDC_Wr_socket[s])>>

OneSocket(md, s, channels) ==
    When(channels, JoinTo(MaxChannels, [ch \in Channels |-> When(~Missing(md, s, ch), ChannelCells(md, s, ch))]))
    \o SocketCells(md, s)

\* The sums over the system; those of DRAM have the MCDRAM in them where mcdram says so.
SystemCells(m, md, mcdram) ==
    LET sum(f) == SumTo(m.sockets, f)
        readDRAM == sum(md.iMC_Rd_socket) + sum([s \in Sockets(m) |-> IF mcdram[s] THEN md.EDC_Rd_socket[s] ELSE 0])
        writeDRAM == sum(md.iMC_Wr_socket) + sum([s \in Sockets(m) |-> IF mcdram[s] THEN md.EDC_Wr_socket[s] ELSE 0])
        readPMM == sum(md.iMC_PMM_Rd_socket)
        writePMM == sum(md.iMC_PMM_Wr_socket)
    IN  When(md.PMM, <<Cell(System, "DRAM Read", readDRAM), Cell(System, "DRAM Write", writeDRAM),
                       Cell(System, "PMM Read", readPMM), Cell(System, "PMM Write", writePMM)>>)
        \o <<Cell(System, "Read", readDRAM + readPMM), Cell(System, "Write", writeDRAM + writePMM),
             Cell(System, "Memory", readDRAM + readPMM + writeDRAM + writePMM)>>

\* Sockets that share a row; the others have one of their own.
InFullRows(m, columns) == (m.sockets \div columns) * columns

display_bandwidth(m, md, columns, channels) ==
    LET full == InFullRows(m, columns)
        row(first) == When(channels, printSocketChannelBW(md, first, columns)) \o printSocketBWFooter(md, first, columns)
        own(s) == IF MCDRAMmemoryTrafficMetricsAvailable(m) THEN BothMemories(md, s, channels)
                  ELSE OneSocket(md, s, channels)
    IN  JoinTo(m.sockets, [s \in Sockets(m) |->
          Named(CASE s >= full -> own(s)
                  [] s < full /\ s % columns = 0 -> row(s)
                  [] OTHER -> << >>)])
        \o Named(SystemCells(m, md, [s \in Sockets(m) |-> s >= full /\ MCDRAMmemoryTrafficMetricsAvailable(m)]))

\* calculate_bandwidth for ranks: every channel there might be.
RankCells(w, s, rank, i) ==
    When(rank >= 0, JoinTo(MaxChannels, [ch \in Channels |->
      <<<<Skt(s), <<"Rank Read", ch, rank>>, w.mc[s][ch][i]>>, <<Skt(s), <<"Rank Write", ch, rank>>, w.mc[s][ch][i + 1]>>>>]))

RankRows(m, w, rankA, rankB) ==
    JoinTo(m.sockets, [s \in Sockets(m) |-> Named(RankCells(w, s, rankA, 1) \o RankCells(w, s, rankB, 3))])
-----------------------------------------------------------------------------
(* The CSV: two lines of header, printed with the first row, and a row.    *)

Line1(m, md, channels) ==
    Above(System, 2)
    \o JoinTo(m.sockets, [s \in Sockets(m) |->
         When(channels, JoinTo(MaxChannels, [ch \in Channels |->
           When(~Missing(md, s, ch), Above(Skt(s), 2) \o When(md.PMM, Above(Skt(s), 2)))]))
         \o Above(Skt(s), 3)
         \o When(m.model # "KNL", Above(Skt(s), IF md.PMM THEN 2 ELSE 1))
         \o When(MCDRAMmemoryTrafficMetricsAvailable(m),
                 When(channels, JoinTo(MaxChannels, [ch \in Channels |->
                   When(~MissingEDC(md, s, ch), Above(Skt(s), 2))]))
                 \o Above(Skt(s), 3))])
    \o When(md.PMM, Above(System, 4)) \o Above(System, 3)

Line2(m, md, channels) ==
    Labels(<<"Date", "Time">>)
    \o JoinTo(m.sockets, [s \in Sockets(m) |->
         When(channels, JoinTo(MaxChannels, [ch \in Channels |->
           When(~Missing(md, s, ch), <<<<"Ch Read", ch>>, <<"Ch Write", ch>>>>
                                     \o When(md.PMM, <<<<"Ch PMM Read", ch>>, <<"Ch PMM Write", ch>>>>))]))
         \o Labels(CASE m.model = "KNL" -> <<"Mem Read", "Mem Write", "Memory">>
                     [] m.model # "KNL" /\ md.PMM -> <<"Mem Read", "Mem Write", "PMM Read", "PMM Write", "Memory">>
                     [] OTHER -> <<"Mem Read", "Mem Write", "P. Write", "Memory">>)
         \o When(MCDRAMmemoryTrafficMetricsAvailable(m),
                 When(channels, JoinTo(MaxChannels, [ch \in Channels |->
                   When(~MissingEDC(md, s, ch), <<<<"EDC Read", ch>>, <<"EDC Write", ch>>>>)]))
                 \o Labels(<<"MCDRAM Read", "MCDRAM Write", "MCDRAM">>))])
    \o When(md.PMM, Labels(<<"DRAM Read", "DRAM Write", "PMM Read", "PMM Write">>))
    \o Labels(<<"Read", "Write", "Memory">>)

display_bandwidth_csv_header(m, md, channels) == [line1 |-> Line1(m, md, channels), line2 |-> Line2(m, md, channels)]

\* The memory of a socket leaves the persistent memory out, unlike the table's.
SocketCsv(m, md, s, channels) ==
    When(channels, JoinTo(MaxChannels, [ch \in Channels |-> When(~Missing(md, s, ch), ChannelCells(md, s, ch))]))
    \o <<Cell(Skt(s), "Mem Read", md.iMC_Rd_socket[s]), Cell(Skt(s), "Mem Write", md.iMC_Wr_socket[s])>>
    \o When(md.PMM, <<Cell(Skt(s), "PMM Read", md.iMC_PMM_Rd_socket[s]),
                      Cell(Skt(s), "PMM Write", md.iMC_PMM_Wr_socket[s])>>)
    \o When(m.model # "KNL" /\ ~md.PMM, <<Cell(Skt(s), "P. Write", md.partial_write[s])>>)
    \o <<Cell(Skt(s), "Memory", md.iMC_Rd_socket[s] + md.iMC_Wr_socket[s])>>

MCDRAMCsv(m, md, s, channels) ==
    When(MCDRAMmemoryTrafficMetricsAvailable(m),
         When(channels, JoinTo(MaxChannels, [ch \in Channels |->
           When(~MissingEDC(md, s, ch), <<OfCh(s, "EDC Read", ch, md.EDC_Rd_socket_chan[s][ch]),
                                          OfCh(s, "EDC Write", ch, md.EDC_Wr_socket_chan[s][ch])>>)]))
         \o <<Cell(Skt(s), "MCDRAM Read", md.EDC_Rd_socket[s]), Cell(Skt(s), "MCDRAM Write", md.EDC_Wr_socket[s]),
              Cell(Skt(s), "MCDRAM", md.EDC_Rd_socket[s] + md.EDC_Wr_socket[s])>>)

display_bandwidth_csv(m, md, header, channels) ==
    <<[table |-> FALSE, header |-> header,
       cells |-> <<Cell(System, "Date", Other), Cell(System, "Time", Other)>>
                 \o JoinTo(m.sockets, [s \in Sockets(m) |-> SocketCsv(m, md, s, channels) \o MCDRAMCsv(m, md, s, channels)])
                 \o SystemCells(m, md, [s \in Sockets(m) |-> MCDRAMmemoryTrafficMetricsAvailable(m)])]>>
=============================================================================
