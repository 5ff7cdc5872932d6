---------------------------- MODULE MCExperiment ----------------------------
(* What happens on the machine in the runs of Experiment. *)
EXTENDS Experiment, TLC

CONSTANTS r1, r2

\* The monitors come before or after one another, with a reservation and without.
Measured == {"firsttouch", "firsttouch_memreserve", "online_memreserve"}

\* Two experiments: one reserves the node, or both do.
SideBySide ==
  {[config |-> r1 :> "online_memreserve" @@ r2 :> "control", iterations |-> 1, launches |-> 1,
    faults |-> {"slow"}],
   [config |-> r1 :> "online_memreserve" @@ r2 :> "firsttouch_memreserve", iterations |-> 1,
    launches |-> 1, faults |-> {}]}

\* Ctrl-C at any step and a second launch beside what the first one left.
Relaunched ==
  {[config |-> r1 :> cfg, iterations |-> 1, launches |-> 2, faults |-> {"interrupt"}] :
      cfg \in Measured}

\* An iteration after another.
Repeated ==
  {[config |-> r1 :> cfg, iterations |-> 2, launches |-> 1, faults |-> {"usage", "slow", "dies"}] :
      cfg \in Measured}

Happenings == SideBySide \cup Relaunched \cup Repeated

Unreserved ==
  {[config |-> r1 :> "firsttouch_memreserve", iterations |-> 1, launches |-> 1, faults |-> {"usage"}]}
=============================================================================
