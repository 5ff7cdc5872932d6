------------------------------ MODULE MCRunLoop ------------------------------
(* The command lines that the runs of RunLoop are about. *)
EXTENDS RunLoop

Benchmarks == {<<"lulesh", "amg">>, <<"lulesh", "amg", "snap">>, <<"snap", "amg", "snap">>}

Configurations ==
  {<<"firsttouch", "online">>, <<"firsttouch", "firsttouch">>,
   <<"firsttouch", "online", "firsttouch">>, <<"online", "offline_manual">>}

\* As many arguments as configurations, or more, or fewer, or empty ones.
Arguments ==
  {<<"16", "32">>, <<"-", "16">>, <<"-", "16", "8">>, <<"16", "32", "8">>,
   <<"", "16", "8">>, <<"-", "", "8">>, <<"8">>}

Lines ==
  {[benches |-> b, configs |-> c, args |-> a] :
     b \in Benchmarks, c \in Configurations, a \in Arguments}
=============================================================================
