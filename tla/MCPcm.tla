------------------------------- MODULE MCPcm -------------------------------
EXTENDS Pcm, TLC

CONSTANTS p1, p2, p3

Pcm_(m, perf) == [programs |-> TRUE, multi |-> m, perf |-> perf, reset |-> FALSE]
PcmMemory == [programs |-> FALSE, multi |-> FALSE, perf |-> FALSE, reset |-> FALSE]
PcmReset == [programs |-> TRUE, multi |-> FALSE, perf |-> FALSE, reset |-> TRUE]

Fleet2(a, b) == p1 :> a @@ p2 :> b
Fleet3(a, b, c) == p1 :> a @@ p2 :> b @@ p3 :> c

\* Three instances with -m, or two and one without; two with -m, through perf both, one or none;
\* two tools without -m; one with -m beside one without, the same through perf, or one that resets
\* the PMU; a pcm-memory.
MCFleets ==
    LET multi == Pcm_(TRUE, FALSE)   multiPerf == Pcm_(TRUE, TRUE)   single == Pcm_(FALSE, FALSE) IN
    {Fleet3(multi, multi, multi), Fleet3(single, multi, multi),
     Fleet2(multi, multi), Fleet2(multiPerf, multiPerf), Fleet2(multiPerf, multi), Fleet2(single, single),
     Fleet2(multi, single), Fleet2(multi, Pcm_(FALSE, TRUE)), Fleet2(multi, PcmReset), Fleet2(single, PcmMemory)}

\* Faults where two run; three run undisturbed by them.
MCMaxFaults == [n \in 0..3 |-> IF n = 3 THEN 0 ELSE 1]
=============================================================================
