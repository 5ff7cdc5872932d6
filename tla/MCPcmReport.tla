---------------------------- MODULE MCPcmReport ----------------------------
(***************************************************************************)
(* The two halves of what Intel PCM reads, one at a time: the bandwidth    *)
(* counters of a core under its threads (WidthExtender), and the runs of   *)
(* pcm.x and pcm-memory.x on machines of several kinds (PcmReport).        *)
(***************************************************************************)
EXTENDS WidthExtender, Sequences

VARIABLES part,
          scenario, opts, rpc, happened, counted, frozen, pending, rat, main, reading, before, i,
          header, live, report, marks

reportVars == <<scenario, opts, rpc, happened, counted, frozen, pending, rat, main, reading, before, i,
                header, live, report, marks>>

WorkerReads == [t \in Threads |-> IF t = "worker" THEN Events ELSE {t}]

SKX ==
    [model |-> "SKX", stepping |-> 7, sockets |-> 2, socket |-> <<0, 1>>, offline |-> {}, links |-> 1,
     channels |-> <<2, 1>>, energy |-> FALSE, qos |-> TRUE, coreC |-> <<3, 6>>, packC |-> <<6>>]
OneSKX == [SKX EXCEPT !.sockets = 1, !.socket = <<0>>]
HASWELLX ==
    [SKX EXCEPT !.model = "HASWELLX", !.sockets = 1, !.socket = <<0, 0, 0>>, !.offline = {1}, !.channels = <<2>>]
JAKETOWN == [SKX EXCEPT !.model = "JAKETOWN", !.stepping = 2, !.channels = <<2>>, !.qos = FALSE]
KNL == [OneSKX EXCEPT !.model = "KNL", !.links = 0, !.channels = <<1, 2>>, !.qos = FALSE]
IVY_BRIDGE == [KNL EXCEPT !.model = "IVY_BRIDGE", !.channels = <<2>>]
NEHALEM_EP == [IVY_BRIDGE EXCEPT !.model = "NEHALEM_EP", !.sockets = 2, !.socket = <<0, 1>>]
ATOM == [IVY_BRIDGE EXCEPT !.model = "ATOM", !.socket = <<0, 0>>, !.energy = TRUE]

load(c, classes) == {"load"} \X {c} \X classes
access(s, chs, operations) == {"access"} \X {s} \X chs \X operations \X {0}
onLink(ways) == {"link"} \X {0} \X {0} \X ways

Case(tool, m, args, items, budget) ==
    [tool |-> tool, m |-> m, args |-> args, items |-> items, budget |-> budget]
Once == <<"-i", 1>>
Twice == <<"-i", 2>>

Refusals ==
    {Case("pcm", ATOM, <<Once, <<"-z", 0>>>>, {}, 0), Case("pcm-memory", ATOM, << >>, {}, 0),
     Case("pcm-memory", SKX, <<<<"-rank", 0>>, <<"-pmm", 0>>>>, {}, 0),
     Case("pcm-memory", HASWELLX, <<<<"-rank", 0>>, <<"-nc", 0>>>>, {}, 0),
     Case("pcm-memory", HASWELLX, <<<<"-pmm", 0>>>>, {}, 0)}

CoreScenarios ==
    {Case("pcm", HASWELLX, <<<<"-yc", {0}>>, <<"delay", 1>>, Once>>, load(0, {"L2", "L3 snoop"}) \cup load(2, {"memory"}), 2),
     Case("pcm", HASWELLX, <<<<"-csv", 0>>, Twice>>, load(0, {"L3"}) \cup access(0, {1}, {"write"}), 2),
     Case("pcm", ATOM, <<Once>>, load(1, {"L2", "memory"}), 3),
     Case("pcm", IVY_BRIDGE, <<<<"--", 0>>>>, load(0, {"L3 snoop"}) \cup {<<"io">>} \cup access(0, {0}, {"read"}), 2),
     Case("pcm", NEHALEM_EP, <<<<"-nsys", 0>>, Twice>>, load(1, {"L3"}) \cup access(1, {0}, {"read"}), 2)}

SocketScenarios ==
    {Case("pcm", OneSKX, <<Once>>, load(0, {"L3"}) \cup access(0, {1}, {"PMM read"}), 2),
     Case("pcm", SKX, <<<<"-csv", 0>>, Once>>, load(0, {"L3 snoop"}) \cup onLink({"in"}), 2),
     Case("pcm", JAKETOWN, <<<<"-nc", 0>>, Once>>, access(1, {1}, {"write"}) \cup onLink({"out"}), 2),
     Case("pcm", KNL, <<<<"-csv", 0>>, <<"--nosystem", 0>>, Once>>, load(0, {"memory"}) \cup {<<"mcdram", 0, 1, "read">>}, 2)}

MemoryScenarios ==
    {Case("pcm-memory", SKX, <<<<"-pmm", 0>>, Once>>, access(0, {0, 2}, {"near read", "PMM write"}), 2),
     Case("pcm-memory", SKX, <<<<"-pmm", 0>>, <<"-csv", 0>>, Twice>>, access(0, {1}, {"near read"}) \cup access(1, {2}, {"PMM read"}), 2),
     Case("pcm-memory", SKX, <<<<"-columns", 1>>, Once>>, access(0, {1}, {"underfill", "write"}), 3),
     Case("pcm-memory", SKX, <<<<"-columns", 0>>, <<"-nc", 0>>, <<"-csv", 0>>, Twice>>, access(1, {1}, {"underfill", "write"}), 3),
     Case("pcm-memory", HASWELLX, <<<<"-rank", 1>>, <<"-rank", 0>>, <<"-csv", 0>>, Once>>,
          access(0, {1}, {"read", "write"}) \cup {<<"access", 0, 0, "read", 1>>}, 3),
     Case("pcm-memory", KNL, <<<<"--", 0>>>>, access(0, {2}, {"read"}) \cup {<<"mcdram", 0, 1, "write">>}, 3),
     Case("pcm-memory", KNL, <<<<"-columns", 3>>, <<"delay", 1>>, Once>>, access(0, {2}, {"write"}) \cup {<<"mcdram", 0, 1, "write">>}, 3),
     Case("pcm-memory", KNL, <<<<"-csv", 0>>, Twice>>, access(0, {2}, {"read"}) \cup {<<"mcdram", 0, 1, "write">>}, 2)}

Scenarios == Refusals \cup CoreScenarios \cup SocketScenarios \cup MemoryScenarios

Report == INSTANCE PcmReport WITH pc <- rpc, at <- rat

MCInit ==
    /\ part \in {"counters", "report"}
    /\ ExtenderInit /\ Report!Init
    /\ IF part = "counters" THEN scenario = Case("pcm-memory", ATOM, << >>, {}, 0)
       ELSE count = [e \in Bandwidth |-> 0] /\ evtsel = Occupancy

MCNext ==
    \/ part = "counters" /\ ExtenderNext /\ UNCHANGED <<part, reportVars>>
    \/ part = "report" /\ Report!Next /\ UNCHANGED <<part, extenderVars>>

MCSpec == MCInit /\ [][MCNext]_<<part, extenderVars, reportVars>>

\* What pcm.x and pcm-memory.x print is the traffic between their readings,
\* each cell that of its own core, channel, rank, link or memory (PcmReport).
RowsTellTheTraffic == Report!RowsTellTheTraffic

\* Over every value stands its name, in pcm-memory.x's CSV as long as the
\* channels with traffic are those of the first row (PcmReport).
HeadersNameTheValues == Report!HeadersNameTheValues
=============================================================================
