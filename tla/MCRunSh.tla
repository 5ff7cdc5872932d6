------------------------------- MODULE MCRunSh -------------------------------
(***************************************************************************)
(* run.sh's two levels, one of them at a time: on an idle machine the loop *)
(* over its command line, for which a configuration is one step, and then  *)
(* the experiments that configurations are, beside one another.            *)
(***************************************************************************)
EXTENDS MCExperiment, MCRunLoop

\* No experiment runs.
Idle == [config |-> <<>>, iterations |-> 1, launches |-> 1, faults |-> {}]

Everything == Happenings \cup {Idle}

\* A command line whose last experiment is over.
LoopIsOver ==
  /\ cli = CHOOSE line \in CommandLines : TRUE
  /\ pc = "done"
  /\ BENCH_INDEX = Len(cli.benches) /\ CONFIG_INDEX = Len(cli.configs)
  /\ cwd = Nowhere /\ commands = Nowhere
  /\ runsh = [b \in Named(cli) |-> Nowhere]
  /\ results = {}

MCInit == Init /\ IF scenario = Idle THEN LoopInit ELSE LoopIsOver

Looping == scenario = Idle /\ LoopNext /\ UNCHANGED vars

Beside(A) == scenario # Idle /\ A /\ UNCHANGED loopVars

all == <<vars, loopVars>>

MCSpec ==
  /\ MCInit /\ [][Looping \/ Beside(Next)]_all
  /\ \A sc \in Scenarios : \A r \in DOMAIN sc.config :
       WF_all(Beside(r \in Runners /\ Run(r)))
  /\ \A sc \in Scenarios : \A j \in JobsOf(sc) :
       WF_all(Beside(j \in Jobs /\ Helper(j)))
=============================================================================
