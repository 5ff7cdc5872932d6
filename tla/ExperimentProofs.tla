-------------------------- MODULE ExperimentProofs --------------------------
(***************************************************************************)
(* Proofs about Experiment for every scenario: any number of experiments   *)
(* at the same time, of iterations and of launches; and about RunLoop, for *)
(* every command line.                                                     *)
(***************************************************************************)
EXTENDS Experiment, RunLoop, TLAPS

Configs == {"firsttouch", "firsttouch_memreserve", "online_memreserve", "control"}

\* The script of an experiment has the step before it, or is at it.
Ahead(r, name) == \E n \in step[r] .. Len(Steps(r)) : Steps(r)[n] = name

\* The script of a job's iteration will come to the step, unless Ctrl-C has
\* ended it.
Pending(j, name) == Interrupted(j) \/ (Current(j) /\ Ahead(j[1], name))

\* A helper is there only as long as the step that takes it down is ahead, or
\* if that step came too early for it.
Accounted ==
  /\ \A j \in loops : Pending(j, "wait_loop")
  /\ \A j \in sudos : Pending(j, "wait_sudo")
  /\ \A j \in filling \cup holding : Pending(j, "kill_memreserve")
  /\ \A j \in unborn : Pending(j, "kill_sudo")
  /\ \A j \in forked : Pending(j, "kill_sudo") \/ j \in hurried
  /\ \A j \in monitoring : Pending(j, "pkill_pcm") \/ j \in hurried
  /\ \A j \in deaf \cup probing : Pending(j, "kill_bpftrace") \/ j \in hurried

-----------------------------------------------------------------------------
(* The scripts.                                                            *)

LEMMA Firsttouch ==
  LET s == Script("firsttouch") IN
  /\ Len(s) = 8
  /\ s[1] = "pcm" /\ s[2] = "loop" /\ s[3] = "command" /\ s[4] = "kill_loop"
  /\ s[5] = "wait_loop" /\ s[6] = "kill_sudo" /\ s[7] = "pkill_pcm" /\ s[8] = "wait_sudo"
  BY DEF Script, memreserve, Monitors, DO_MEMRESERVE, numastat_kill, pcm_kill, memreserve_kill

LEMMA FirsttouchMemreserve ==
  LET s == Script("firsttouch_memreserve") IN
  /\ Len(s) = 13
  /\ s[1] = "memreserve" /\ s[2] = "sleep" /\ s[3] = "pcm" /\ s[4] = "loop"
  /\ s[5] = "command" /\ s[6] = "kill_loop" /\ s[7] = "wait_loop" /\ s[8] = "kill_sudo"
  /\ s[9] = "pkill_pcm" /\ s[10] = "wait_sudo" /\ s[11] = "kill_memreserve"
  /\ s[12] = "pkill_memreserve" /\ s[13] = "wait_all"
  BY DEF Script, memreserve, Monitors, DO_MEMRESERVE, numastat_kill, pcm_kill, memreserve_kill

LEMMA OnlineMemreserve ==
  LET s == Script("online_memreserve") IN
  /\ Len(s) = 13
  /\ s[1] = "memreserve" /\ s[2] = "sleep" /\ s[3] = "loop" /\ s[4] = "pcm"
  /\ s[5] = "command" /\ s[6] = "kill_loop" /\ s[7] = "wait_loop" /\ s[8] = "kill_sudo"
  /\ s[9] = "pkill_pcm" /\ s[10] = "wait_sudo" /\ s[11] = "kill_memreserve"
  /\ s[12] = "pkill_memreserve" /\ s[13] = "wait_all"
  BY DEF Script, memreserve, Monitors, DO_MEMRESERVE, numastat_kill, pcm_kill, memreserve_kill

LEMMA Control ==
  LET s == Script("control") IN
  /\ Len(s) = 10
  /\ s[1] = "loop" /\ s[2] = "pcm" /\ s[3] = "bpftrace" /\ s[4] = "command"
  /\ s[5] = "kill_bpftrace" /\ s[6] = "kill_loop" /\ s[7] = "wait_loop"
  /\ s[8] = "kill_sudo" /\ s[9] = "pkill_pcm" /\ s[10] = "wait_sudo"
  BY DEF Script, memreserve, Monitors, DO_MEMRESERVE, numastat_kill, pcm_kill, memreserve_kill

\* What a script starts it takes down later.
LEMMA Order ==
  ASSUME NEW cfg \in Configs, NEW k \in 1 .. Len(Script(cfg))
  PROVE  LET later(name) == \E n \in k .. Len(Script(cfg)) : Script(cfg)[n] = name IN
         /\ Script(cfg)[k] = "loop" => later("wait_loop")
         /\ Script(cfg)[k] = "pcm" => later("kill_sudo") /\ later("wait_sudo")
         /\ Script(cfg)[k] = "memreserve" => later("kill_memreserve")
         /\ Script(cfg)[k] = "bpftrace" => later("kill_bpftrace")
         /\ Script(cfg)[k] = "kill_sudo" => later("pkill_pcm")
  <1>1. CASE cfg = "firsttouch"
    BY <1>1, Firsttouch
  <1>2. CASE cfg = "firsttouch_memreserve"
    <2> DEFINE s == Script(cfg)
    <2>1. Len(s) = 13 /\ s[7] = "wait_loop" /\ s[8] = "kill_sudo" /\ s[9] = "pkill_pcm"
          /\ s[10] = "wait_sudo" /\ s[11] = "kill_memreserve"
      BY <1>2, FirsttouchMemreserve
    <2>2. s[k] \in {"loop", "pcm", "memreserve"} => k <= 4
      <3>1. k \in 1 .. 4 \/ k \in {5, 6, 7, 8, 9, 10, 11, 12, 13}
        BY <2>1
      <3> QED
        BY <3>1, <1>2, FirsttouchMemreserve
    <2>3. s[k] # "bpftrace" /\ (s[k] = "kill_sudo" => k = 8)
      <3>1. k \in {1, 2, 3, 4, 5, 6, 7, 8, 9, 10, 11, 12, 13}
        BY <2>1
      <3>2. CASE k \in {1, 2, 3, 4, 5, 6, 7}
        BY <3>2, <1>2, FirsttouchMemreserve
      <3>3. CASE k \in {9, 10, 11, 12, 13}
        BY <3>3, <1>2, FirsttouchMemreserve
      <3>4. CASE k = 8
        BY <3>4, <2>1
      <3> QED
        BY <3>1, <3>2, <3>3, <3>4
    <2> HIDE DEF s
    <2>4. k \in 1 .. Len(s)
      BY DEF s
    <2>5. s[k] \in {"loop", "pcm", "memreserve"}
          => /\ \E n \in k .. Len(s) : s[n] = "wait_loop"
             /\ \E n \in k .. Len(s) : s[n] = "kill_sudo"
             /\ \E n \in k .. Len(s) : s[n] = "wait_sudo"
             /\ \E n \in k .. Len(s) : s[n] = "kill_memreserve"
      BY <2>1, <2>2, <2>4
    <2>6. s[k] = "kill_sudo" => \E n \in k .. Len(s) : s[n] = "pkill_pcm"
      BY <2>1, <2>3, <2>4
    <2> QED
      BY <2>3, <2>5, <2>6 DEF s
  <1>3. CASE cfg = "online_memreserve"
    <2> DEFINE s == Script(cfg)
    <2>1. Len(s) = 13 /\ s[7] = "wait_loop" /\ s[8] = "kill_sudo" /\ s[9] = "pkill_pcm"
          /\ s[10] = "wait_sudo" /\ s[11] = "kill_memreserve"
      BY <1>3, OnlineMemreserve
    <2>2. s[k] \in {"loop", "pcm", "memreserve"} => k <= 4
      <3>1. k \in 1 .. 4 \/ k \in {5, 6, 7, 8, 9, 10, 11, 12, 13}
        BY <2>1
      <3> QED
        BY <3>1, <1>3, OnlineMemreserve
    <2>3. s[k] # "bpftrace" /\ (s[k] = "kill_sudo" => k = 8)
      <3>1. k \in {1, 2, 3, 4, 5, 6, 7, 8, 9, 10, 11, 12, 13}
        BY <2>1
      <3>2. CASE k \in {1, 2, 3, 4, 5, 6, 7}
        BY <3>2, <1>3, OnlineMemreserve
      <3>3. CASE k \in {9, 10, 11, 12, 13}
        BY <3>3, <1>3, OnlineMemreserve
      <3>4. CASE k = 8
        BY <3>4, <2>1
      <3> QED
        BY <3>1, <3>2, <3>3, <3>4
    <2> HIDE DEF s
    <2>4. k \in 1 .. Len(s)
      BY DEF s
    <2>5. s[k] \in {"loop", "pcm", "memreserve"}
          => /\ \E n \in k .. Len(s) : s[n] = "wait_loop"
             /\ \E n \in k .. Len(s) : s[n] = "kill_sudo"
             /\ \E n \in k .. Len(s) : s[n] = "wait_sudo"
             /\ \E n \in k .. Len(s) : s[n] = "kill_memreserve"
      BY <2>1, <2>2, <2>4
    <2>6. s[k] = "kill_sudo" => \E n \in k .. Len(s) : s[n] = "pkill_pcm"
      BY <2>1, <2>3, <2>4
    <2> QED
      BY <2>3, <2>5, <2>6 DEF s
  <1>4. CASE cfg = "control"
    <2> DEFINE s == Script(cfg)
    <2>1. Len(s) = 10 /\ s[5] = "kill_bpftrace" /\ s[7] = "wait_loop" /\ s[8] = "kill_sudo"
          /\ s[9] = "pkill_pcm" /\ s[10] = "wait_sudo"
      BY <1>4, Control
    <2>2. k \in {1, 2, 3, 4} \/ k \in {5, 6, 7, 8, 9, 10}
      BY <2>1
    <2>3. s[k] \in {"loop", "pcm", "bpftrace"} => k <= 4
      BY <2>2, <1>4, Control
    <2>4. s[k] # "memreserve" /\ (s[k] = "kill_sudo" => k = 8)
      BY <2>2, <1>4, Control
    <2> HIDE DEF s
    <2>5. k \in 1 .. Len(s)
      BY DEF s
    <2>6. s[k] \in {"loop", "pcm", "bpftrace"}
          => /\ \E n \in k .. Len(s) : s[n] = "wait_loop"
             /\ \E n \in k .. Len(s) : s[n] = "kill_sudo"
             /\ \E n \in k .. Len(s) : s[n] = "wait_sudo"
             /\ \E n \in k .. Len(s) : s[n] = "kill_bpftrace"
      BY <2>1, <2>3, <2>5
    <2>7. s[k] = "kill_sudo" => \E n \in k .. Len(s) : s[n] = "pkill_pcm"
      BY <2>1, <2>4, <2>5
    <2> QED
      BY <2>4, <2>6, <2>7 DEF s
  <1> QED
    BY <1>1, <1>2, <1>3, <1>4 DEF Configs

LEMMA ConfigOf ==
  ASSUME scenario \in Scenarios, NEW r \in Runners
  PROVE  /\ config[r] \in Configs /\ Len(Steps(r)) \in Nat \ {0}
         /\ Iterations \in Nat \ {0} /\ Launches \in Nat \ {0}
  <1>1. config[r] \in Configs /\ Iterations \in Nat \ {0} /\ Launches \in Nat \ {0}
    BY ExperimentAssumption DEF Runners, config, Configs, Iterations, Launches
  <1>2. Len(Script(config[r])) \in Nat \ {0}
    BY <1>1, Firsttouch, FirsttouchMemreserve, OnlineMemreserve, Control DEF Configs
  <1> QED
    BY <1>1, <1>2 DEF Steps

\* What an experiment starts in its current step it takes down later in the
\* same iteration.
LEMMA TakenDown ==
  ASSUME TypeOK, NEW r \in Runners
  PROVE  /\ At(r, "loop") => Ahead(r, "wait_loop")
         /\ At(r, "pcm") => Ahead(r, "kill_sudo") /\ Ahead(r, "wait_sudo")
         /\ At(r, "memreserve") => Ahead(r, "kill_memreserve")
         /\ At(r, "bpftrace") => Ahead(r, "kill_bpftrace")
  <1>1. config[r] \in Configs /\ step[r] \in 1 .. Len(Script(config[r]))
    BY ConfigOf DEF TypeOK, Steps
  <1> QED
    BY <1>1, Order DEF At, Ahead, Steps

\* kill -9 of sudo comes before the pkill of its child.
LEMMA SudoFirst ==
  ASSUME TypeOK, NEW j \in Jobs, Pending(j, "kill_sudo")
  PROVE  Pending(j, "pkill_pcm")
  <1>1. CASE Interrupted(j)
    BY <1>1 DEF Pending
  <1>2. CASE Current(j) /\ Ahead(j[1], "kill_sudo")
    <2>1. j[1] \in Runners
      BY DEF Jobs, JobsOf, Runners, config
    <2>2. /\ config[j[1]] \in Configs
          /\ step[j[1]] \in 1 .. Len(Steps(j[1])) /\ Len(Steps(j[1])) \in Nat
      BY <2>1, ConfigOf DEF TypeOK
    <2>3. PICK n \in step[j[1]] .. Len(Steps(j[1])) : Steps(j[1])[n] = "kill_sudo"
      BY <1>2 DEF Ahead
    <2>4. n \in 1 .. Len(Script(config[j[1]]))
      BY <2>2, <2>3 DEF Steps
    <2>5. PICK m \in n .. Len(Steps(j[1])) : Steps(j[1])[m] = "pkill_pcm"
      BY <2>2, <2>3, <2>4, Order DEF Steps
    <2> QED
      BY <1>2, <2>2, <2>3, <2>5 DEF Pending, Ahead
  <1> QED
    BY <1>1, <1>2 DEF Pending

-----------------------------------------------------------------------------
(* Types.                                                                  *)

\* A script that is not over is in a job, and goes on.
LEMMA AdvanceTyped ==
  ASSUME TypeOK, NEW r \in Runners, ~ Over(r), Advance(r)
  PROVE  /\ scenario' = scenario /\ launch' = launch /\ Job(r) \in Jobs
         /\ iter' \in [Runners -> 0 .. Iterations]
         /\ step' \in [Runners -> Nat]
         /\ \A s \in Runners : step'[s] \in 1 .. Len(Steps(s))
  <1>1. /\ Len(Steps(r)) \in Nat \ {0} /\ Iterations \in Nat \ {0}
        /\ Launches \in Nat \ {0}
    BY ConfigOf DEF TypeOK
  <1>2. /\ step \in [Runners -> Nat] /\ step[r] \in 1 .. Len(Steps(r))
        /\ iter \in [Runners -> 0 .. Iterations] /\ iter[r] # Iterations
        /\ launch[r] \in 1 .. Launches
    BY DEF TypeOK, Over
  <1>3. Job(r) \in Jobs
    BY <1>1, <1>2 DEF Job, Jobs, JobsOf, Runners, config, Iterations, Launches
  <1>4. scenario' = scenario /\ launch' = launch
    BY DEF Advance
  <1>5. iter' \in [Runners -> 0 .. Iterations]
    BY <1>1, <1>2 DEF Advance
  <1>6. step' \in [Runners -> Nat] /\ step'[r] \in 1 .. Len(Steps(r))
        /\ \A s \in Runners \ {r} : step'[s] = step[s]
    BY <1>1, <1>2 DEF Advance
  <1> QED
    BY <1>3, <1>4, <1>5, <1>6 DEF TypeOK

LEMMA TypedInit == Init => TypeOK
  <1> SUFFICES ASSUME Init PROVE TypeOK
    OBVIOUS
  <1>1. /\ scenario \in Scenarios
        /\ \A r \in Runners : Len(Steps(r)) \in Nat \ {0} /\ Iterations \in Nat \ {0}
                              /\ Launches \in Nat \ {0}
    BY ConfigOf DEF Init
  <1> QED
    BY <1>1 DEF Init, TypeOK

LEMMA TypedNext == TypeOK /\ [Next]_vars => TypeOK'
  <1> SUFFICES ASSUME TypeOK, [Next]_vars PROVE TypeOK'
    OBVIOUS
  <1> USE DEF TypeOK, history
  <1>1. ASSUME NEW r \in Runners, Run(r) PROVE TypeOK'
    <2>1. ~ Over(r) /\ Advance(r)
      BY <1>1 DEF Run, At, numastat_background, KillLoop, WaitLoop, pcm_background, KillSudo,
        PkillPcm, WaitSudo, StartMemreserve, Usage, SleepEnds, SleepTooShort, KillMemreserve,
        PkillMemreserve, WaitAll, StartProbes, KillProbes, CommandEnds
    <2>2. /\ scenario' = scenario /\ launch' = launch /\ Job(r) \in Jobs
          /\ iter' \in [Runners -> 0 .. Iterations]
          /\ step' \in [Runners -> Nat]
          /\ \A s \in Runners : step'[s] \in 1 .. Len(Steps(s))
      BY <2>1, AdvanceTyped
    <2>3. /\ Runners' = Runners /\ Iterations' = Iterations /\ Launches' = Launches
          /\ Jobs' = Jobs /\ \A s \in Runners : Steps(s)' = Steps(s)
      BY <2>2 DEF Runners, Iterations, Launches, Jobs, Steps, config
    <2>4. /\ {loops, samplers, sudos, unborn, forked, monitoring, filling, holding,
              deaf, probing, hurried, spoilt}' \subseteq SUBSET Jobs
          /\ interrupted' = interrupted
      BY <1>1, <2>2 DEF Run, numastat_background, KillLoop, WaitLoop, pcm_background, KillSudo,
        PkillPcm, WaitSudo, StartMemreserve, Usage, SleepEnds, SleepTooShort, KillMemreserve,
        PkillMemreserve, WaitAll, StartProbes, KillProbes, CommandEnds, numastat, pcm, mem, bpftrace
    <2> QED
      BY <2>2, <2>3, <2>4
  <1>2. ASSUME NEW r \in Runners, Interrupt(r) PROVE TypeOK'
    <2>1. /\ Len(Steps(r)) \in Nat \ {0} /\ Iterations \in Nat \ {0}
          /\ Launches \in Nat \ {0}
      BY ConfigOf
    <2>2. scenario' = scenario
      BY <1>2 DEF Interrupt
    <2>3. /\ Runners' = Runners /\ Iterations' = Iterations /\ Launches' = Launches
          /\ Jobs' = Jobs /\ \A s \in Runners : Steps(s)' = Steps(s)
      BY <2>2 DEF Runners, Iterations, Launches, Jobs, Steps, config
    <2>4. /\ launch' \in [Runners -> 1 .. Launches] /\ iter' \in [Runners -> 0 .. Iterations]
          /\ step' \in [Runners -> Nat]
          /\ \A s \in Runners : step'[s] \in 1 .. Len(Steps(s))
      BY <1>2, <2>1 DEF Interrupt
    <2>5. /\ {loops, samplers, sudos, unborn, forked, monitoring, filling, holding,
              deaf, probing, hurried, spoilt}' \subseteq SUBSET Jobs
      BY <1>2 DEF Interrupt, mem, numastat
    <2>6. interrupted' \subseteq Runners \X (1 .. Launches)
      BY <1>2 DEF Interrupt
    <2> QED
      BY <2>2, <2>3, <2>4, <2>5, <2>6
  <1>3. ASSUME NEW j \in Jobs, Helper(j) \/ StartSample(j) PROVE TypeOK'
    <2>1. UNCHANGED <<script, interrupted>>
      BY <1>3 DEF Helper, StartSample, EndSample, SudoForks, PcmExecs, SudoEnds, Holds, GivesUp,
        Attach
    <2>2. {loops, samplers, sudos, unborn, forked, monitoring, filling, holding,
           deaf, probing, hurried, spoilt}' \subseteq SUBSET Jobs
      BY <1>3 DEF Helper, StartSample, EndSample, SudoForks, PcmExecs, SudoEnds, Holds, GivesUp,
        Attach, numastat, pcm, mem, bpftrace
    <2> QED
      BY <2>1, <2>2 DEF script, Runners, Iterations, Launches, Jobs, Steps, config
  <1>4. CASE UNCHANGED vars
    BY <1>4 DEF vars, script, numastat, pcm, mem, bpftrace, Runners, Iterations, Launches, Jobs,
      Steps, config
  <1> QED
    BY <1>1, <1>2, <1>3, <1>4 DEF Next, Finished

\* Every reachable state is well typed, whatever the scenario.
THEOREM TypeCorrect == Spec => []TypeOK
  BY TypedInit, TypedNext, PTL DEF Spec

-----------------------------------------------------------------------------
(* What is ahead.                                                          *)

LEMMA JobIsOfARunner ==
  ASSUME NEW j \in Jobs
  PROVE  j[1] \in Runners
  BY DEF Jobs, JobsOf, Runners, config

\* Only the step that a script is at ceases to be ahead of it.
LEMMA StillPending ==
  ASSUME TypeOK, NEW r \in Runners, ~ Over(r), Advance(r), interrupted' = interrupted,
         NEW j \in Jobs, NEW name, Pending(j, name), ~ (j = Job(r) /\ At(r, name))
  PROVE  Pending(j, name)'
  <1>1. CASE Interrupted(j)
    BY <1>1 DEF Interrupted, Pending
  <1>2. CASE Current(j) /\ Ahead(j[1], name)
    <2>1. /\ j[1] \in Runners /\ \A s \in Runners : Steps(s)' = Steps(s)
          /\ launch' = launch
      BY JobIsOfARunner DEF Steps, config, Advance
    <2>2. PICK n \in step[j[1]] .. Len(Steps(j[1])) : Steps(j[1])[n] = name
      BY <1>2 DEF Ahead
    <2>3. CASE j[1] # r
      <3>1. step'[j[1]] = step[j[1]] /\ iter'[j[1]] = iter[j[1]]
        BY <2>1, <2>3 DEF Advance, TypeOK
      <3>2. Current(j)'
        BY <1>2, <2>1, <3>1 DEF Current, Job
      <3>3. Ahead(j[1], name)'
        BY <2>1, <2>2, <3>1 DEF Ahead
      <3> QED
        BY <3>2, <3>3 DEF Pending
    <2>4. CASE j[1] = r
      <3>1. /\ step[r] \in 1 .. Len(Steps(r)) /\ step \in [Runners -> Nat]
            /\ Len(Steps(r)) \in Nat
        BY ConfigOf DEF TypeOK
      <3>2. n # step[r]
        BY <1>2, <2>2, <2>4 DEF At, Current
      <3>3. step[r] < Len(Steps(r)) /\ n \in step[r] + 1 .. Len(Steps(r))
        BY <2>2, <2>4, <3>1, <3>2
      <3>4. step'[r] = step[r] + 1 /\ iter' = iter
        BY <3>1, <3>3 DEF Advance
      <3>5. Current(j)'
        BY <1>2, <2>1, <3>4 DEF Current, Job
      <3>6. Ahead(j[1], name)'
        BY <2>1, <2>2, <2>4, <3>3, <3>4 DEF Ahead
      <3> QED
        BY <3>5, <3>6 DEF Pending
    <2> QED
      BY <2>3, <2>4
  <1> QED
    BY <1>1, <1>2 DEF Pending

\* Helpers come up and go down beside the scripts.
LEMMA PendingBeside ==
  ASSUME UNCHANGED <<script, interrupted>>, NEW j, NEW name, Pending(j, name)
  PROVE  Pending(j, name)'
  BY DEF Pending, Interrupted, Current, Job, Ahead, Steps, config, script

\* Ctrl-C ends the job that the script is in; others have nothing to do with it.
LEMMA PendingInterrupted ==
  ASSUME TypeOK, NEW r \in Runners, Interrupt(r), NEW j \in Jobs, NEW name, Pending(j, name)
  PROVE  Pending(j, name)'
  <1>1. interrupted' = interrupted \cup {<<r, launch[r]>>} /\ scenario' = scenario
    BY DEF Interrupt
  <1>2. CASE Interrupted(j)
    BY <1>1, <1>2 DEF Interrupted, Pending
  <1>3. CASE Current(j) /\ j[1] = r
    BY <1>1, <1>3 DEF Current, Job, Interrupted, Pending
  <1>4. CASE Current(j) /\ j[1] # r /\ Ahead(j[1], name)
    <2>1. j[1] \in Runners
      BY JobIsOfARunner
    <2>2. /\ launch'[j[1]] = launch[j[1]] /\ iter'[j[1]] = iter[j[1]]
          /\ step'[j[1]] = step[j[1]]
      BY <1>4, <2>1 DEF Interrupt, TypeOK
    <2> QED
      BY <1>1, <1>4, <2>2 DEF Current, Job, Ahead, Steps, config, Pending
  <1> QED
    BY <1>2, <1>3, <1>4 DEF Pending

\* What is started in this step is taken down in one of those that remain.
LEMMA StartsPending ==
  ASSUME TypeOK, NEW r \in Runners, ~ Over(r), Advance(r), interrupted' = interrupted,
         NEW j \in Jobs, j = Job(r)
  PROVE  /\ At(r, "loop") => Pending(j, "wait_loop")'
         /\ At(r, "pcm") => Pending(j, "kill_sudo")' /\ Pending(j, "wait_sudo")'
         /\ At(r, "memreserve") => Pending(j, "kill_memreserve")'
         /\ At(r, "bpftrace") => Pending(j, "kill_bpftrace")'
  <1>1. ASSUME NEW start, NEW end, At(r, start), Ahead(r, end), start # end
        PROVE  Pending(j, end)'
    <2>1. Pending(j, end)
      BY <1>1 DEF Pending, Current, Job
    <2>2. ~ At(r, end)
      BY <1>1 DEF At
    <2> QED
      BY <2>1, <2>2, StillPending
  <1>2. /\ At(r, "loop") => Ahead(r, "wait_loop")
        /\ At(r, "pcm") => Ahead(r, "kill_sudo") /\ Ahead(r, "wait_sudo")
        /\ At(r, "memreserve") => Ahead(r, "kill_memreserve")
        /\ At(r, "bpftrace") => Ahead(r, "kill_bpftrace")
    BY TakenDown
  <1> QED
    BY <1>1, <1>2

-----------------------------------------------------------------------------
(* What the scripts take down.                                             *)

LEMMA AccountedInit == Init => Accounted
  BY DEF Init, Accounted

LEMMA AccountedNext == TypeOK /\ Accounted /\ [Next]_vars => Accounted'
  <1> SUFFICES ASSUME TypeOK, Accounted, [Next]_vars PROVE Accounted'
    OBVIOUS
  <1>types. /\ loops \subseteq Jobs /\ sudos \subseteq Jobs /\ unborn \subseteq Jobs
        /\ forked \subseteq Jobs /\ monitoring \subseteq Jobs /\ filling \subseteq Jobs
        /\ holding \subseteq Jobs /\ deaf \subseteq Jobs /\ probing \subseteq Jobs
    BY DEF TypeOK
  <1>1. ASSUME NEW r \in Runners, Run(r) PROVE Accounted'
    <2>1. ~ Over(r) /\ Advance(r) /\ interrupted' = interrupted
      BY <1>1 DEF Run, At, numastat_background, KillLoop, WaitLoop, pcm_background, KillSudo,
        PkillPcm, WaitSudo, StartMemreserve, Usage, SleepEnds, SleepTooShort, KillMemreserve,
        PkillMemreserve, WaitAll, StartProbes, KillProbes, CommandEnds, history
    <2>2. Job(r) \in Jobs
      BY <2>1, AdvanceTyped
    \* What was accounted for still is, but for this job's helper of the step
    \* that the script is at.
    <2>3. ASSUME NEW j \in Jobs, NEW name, Pending(j, name), ~ (j = Job(r) /\ At(r, name))
          PROVE  Pending(j, name)'
      BY <2>1, <2>3, StillPending
    <2>4. ASSUME NEW j, j = Job(r)
          PROVE  /\ At(r, "loop") => Pending(j, "wait_loop")'
                 /\ At(r, "pcm") => Pending(j, "kill_sudo")' /\ Pending(j, "wait_sudo")'
                 /\ At(r, "memreserve") => Pending(j, "kill_memreserve")'
                 /\ At(r, "bpftrace") => Pending(j, "kill_bpftrace")'
      BY <2>1, <2>2, <2>4, StartsPending
    <2>hurried. hurried \subseteq hurried'
      BY <1>1 DEF Run, numastat_background, KillLoop, WaitLoop, pcm_background, KillSudo, PkillPcm,
          WaitSudo, StartMemreserve, Usage, SleepEnds, SleepTooShort, KillMemreserve, PkillMemreserve,
          WaitAll, StartProbes, KillProbes, CommandEnds, numastat, pcm, mem, bpftrace, history
    <2>5. ASSUME NEW j \in loops' PROVE Pending(j, "wait_loop")'
      <3>1. \/ j \in loops /\ ~ (j = Job(r) /\ At(r, "wait_loop"))
            \/ j = Job(r) /\ At(r, "loop")
        BY <1>1, <2>5 DEF Run, At, numastat_background, KillLoop, WaitLoop, pcm_background, KillSudo, PkillPcm,
          WaitSudo, StartMemreserve, Usage, SleepEnds, SleepTooShort, KillMemreserve, PkillMemreserve,
          WaitAll, StartProbes, KillProbes, CommandEnds, numastat, pcm, mem, bpftrace, history
      <3> QED
        BY <3>1, <1>types, <2>3, <2>4 DEF Accounted
    <2>6. ASSUME NEW j \in sudos' PROVE Pending(j, "wait_sudo")'
      <3>1. \/ j \in sudos /\ ~ (j = Job(r) /\ At(r, "wait_sudo"))
            \/ j = Job(r) /\ At(r, "pcm")
        BY <1>1, <2>6 DEF Run, At, numastat_background, KillLoop, WaitLoop, pcm_background, KillSudo, PkillPcm,
          WaitSudo, StartMemreserve, Usage, SleepEnds, SleepTooShort, KillMemreserve, PkillMemreserve,
          WaitAll, StartProbes, KillProbes, CommandEnds, numastat, pcm, mem, bpftrace, history
      <3> QED
        BY <3>1, <1>types, <2>3, <2>4 DEF Accounted
    <2>7. ASSUME NEW j \in filling' \cup holding' PROVE Pending(j, "kill_memreserve")'
      <3>1. \/ j \in filling \cup holding /\ ~ (j = Job(r) /\ At(r, "kill_memreserve"))
            \/ j = Job(r) /\ At(r, "memreserve")
        BY <1>1, <2>7 DEF Run, At, numastat_background, KillLoop, WaitLoop, pcm_background, KillSudo, PkillPcm,
          WaitSudo, StartMemreserve, Usage, SleepEnds, SleepTooShort, KillMemreserve, PkillMemreserve,
          WaitAll, StartProbes, KillProbes, CommandEnds, numastat, pcm, mem, bpftrace, history
      <3> QED
        BY <3>1, <1>types, <2>3, <2>4 DEF Accounted
    <2>8. ASSUME NEW j \in unborn' PROVE Pending(j, "kill_sudo")'
      <3>1. \/ j \in unborn /\ ~ (j = Job(r) /\ At(r, "kill_sudo"))
            \/ j = Job(r) /\ At(r, "pcm")
        BY <1>1, <2>8 DEF Run, At, numastat_background, KillLoop, WaitLoop, pcm_background, KillSudo, PkillPcm,
          WaitSudo, StartMemreserve, Usage, SleepEnds, SleepTooShort, KillMemreserve, PkillMemreserve,
          WaitAll, StartProbes, KillProbes, CommandEnds, numastat, pcm, mem, bpftrace, history
      <3> QED
        BY <3>1, <1>types, <2>3, <2>4 DEF Accounted
    <2>9. ASSUME NEW j \in forked' PROVE Pending(j, "kill_sudo")' \/ j \in hurried'
      <3>1. \/ j \in forked /\ ~ (j = Job(r) /\ At(r, "kill_sudo"))
            \/ j \in hurried'
        BY <1>1, <2>9 DEF Run, At, numastat_background, KillLoop, WaitLoop, pcm_background, KillSudo, PkillPcm,
          WaitSudo, StartMemreserve, Usage, SleepEnds, SleepTooShort, KillMemreserve, PkillMemreserve,
          WaitAll, StartProbes, KillProbes, CommandEnds, numastat, pcm, mem, bpftrace, history
      <3> QED
        BY <3>1, <2>hurried, <1>types, <2>3 DEF Accounted
    <2>10. ASSUME NEW j \in monitoring' PROVE Pending(j, "pkill_pcm")' \/ j \in hurried'
      <3>1. \/ j \in monitoring /\ ~ (j = Job(r) /\ At(r, "pkill_pcm"))
            \/ j \in hurried'
        BY <1>1, <2>10 DEF Run, At, numastat_background, KillLoop, WaitLoop, pcm_background, KillSudo, PkillPcm,
          WaitSudo, StartMemreserve, Usage, SleepEnds, SleepTooShort, KillMemreserve, PkillMemreserve,
          WaitAll, StartProbes, KillProbes, CommandEnds, numastat, pcm, mem, bpftrace, history
      <3> QED
        BY <3>1, <2>hurried, <1>types, <2>3 DEF Accounted
    <2>11. ASSUME NEW j \in deaf' \cup probing' PROVE Pending(j, "kill_bpftrace")' \/ j \in hurried'
      <3>1. \/ j \in deaf \cup probing /\ ~ (j = Job(r) /\ At(r, "kill_bpftrace"))
            \/ j \in hurried'
            \/ j = Job(r) /\ At(r, "bpftrace")
        BY <1>1, <2>11 DEF Run, At, numastat_background, KillLoop, WaitLoop, pcm_background, KillSudo, PkillPcm,
          WaitSudo, StartMemreserve, Usage, SleepEnds, SleepTooShort, KillMemreserve, PkillMemreserve,
          WaitAll, StartProbes, KillProbes, CommandEnds, numastat, pcm, mem, bpftrace, history
      <3> QED
        BY <3>1, <2>hurried, <1>types, <2>3, <2>4 DEF Accounted
    <2> QED
      BY <2>5, <2>6, <2>7, <2>8, <2>9, <2>10, <2>11 DEF Accounted
  <1>2. ASSUME NEW r \in Runners, Interrupt(r) PROVE Accounted'
    <2>1. /\ UNCHANGED <<loops, sudos, unborn, forked, filling, holding, deaf, hurried>>
          /\ probing' \subseteq probing /\ monitoring' \subseteq monitoring
      BY <1>2 DEF Interrupt, numastat, mem
    <2>2. ASSUME NEW j \in Jobs, NEW name, Pending(j, name) PROVE Pending(j, name)'
      BY <1>2, <2>2, PendingInterrupted
    <2> QED
      BY <2>1, <2>2, <1>types DEF Accounted
  <1>3. ASSUME NEW k \in Jobs, Helper(k) \/ StartSample(k) PROVE Accounted'
    <2>1. UNCHANGED <<script, interrupted>> /\ hurried' = hurried
      BY <1>3 DEF Helper, StartSample, EndSample, SudoForks, PcmExecs, SudoEnds, Holds, GivesUp,
        Attach, history
    <2>2. ASSUME NEW j, NEW name, Pending(j, name) PROVE Pending(j, name)'
      BY <2>1, <2>2, PendingBeside
    <2>3. /\ loops' \subseteq loops /\ sudos' \subseteq sudos /\ unborn' \subseteq unborn
          /\ forked' \subseteq forked \cup unborn /\ monitoring' \subseteq monitoring \cup forked
          /\ filling' \cup holding' \subseteq filling \cup holding
          /\ deaf' \cup probing' \subseteq deaf \cup probing
      BY <1>3 DEF Helper, StartSample, EndSample, SudoForks, PcmExecs, SudoEnds, Holds, GivesUp,
        Attach, numastat, pcm, mem, bpftrace
    <2>4. \A j \in forked : Pending(j, "pkill_pcm") \/ j \in hurried
      BY <1>types, SudoFirst DEF Accounted
    <2> QED
      BY <2>1, <2>2, <2>3, <2>4 DEF Accounted
  <1>4. CASE UNCHANGED vars
    <2>1. UNCHANGED <<script, interrupted>>
      BY <1>4 DEF vars, script, history
    <2>2. ASSUME NEW j, NEW name, Pending(j, name) PROVE Pending(j, name)'
      BY <2>1, <2>2, PendingBeside
    <2> QED
      BY <1>4, <2>2 DEF Accounted, vars, numastat, pcm, mem, bpftrace, history
  <1> QED
    BY <1>1, <1>2, <1>3, <1>4 DEF Next, Finished

LEMMA AccountedAlways == Spec => []Accounted
  BY AccountedInit, AccountedNext, TypedInit, TypedNext, PTL DEF Spec

\* Whatever experiments run side by side, whenever Ctrl-C comes and whatever
\* memreserve does, no loop, sudo or reservation that a script has started is
\* there when its next iteration starts, unless Ctrl-C cut the script short.
THEOREM NothingIsLeft == Spec => []CleansUp
  <1>1. Accounted => CleansUp
    BY DEF Accounted, Pending, CleansUp
  <1> QED
    BY <1>1, AccountedAlways, PTL

\* In every scenario pcm-memory.x and bpftrace outlive their iteration only if
\* they were killed before they were up.
THEOREM StraysAreTheHurried == Spec => []StraysWereHurried
  <1>1. Accounted => StraysWereHurried
    BY DEF Accounted, Pending, StraysWereHurried
  <1> QED
    BY <1>1, AccountedAlways, PTL

-----------------------------------------------------------------------------
(* The reservation.                                                        *)

\* From the sleep to the kill of memreserve the job has one: filling while the
\* script sleeps, holding once it has slept, unless it met a fault.
InPlace ==
  \A r \in Runners :
    config[r] \in DO_MEMRESERVE /\ Sole(r) /\ ~ Over(r) =>
      /\ step[r] = 2 => Job(r) \in filling \cup holding \cup spoilt
      /\ step[r] \in 3 .. 11 => Job(r) \in holding \cup spoilt

MemreserveSteps == {"memreserve", "sleep", "kill_memreserve", "pkill_memreserve"}

\* A reserving script starts memreserve, sleeps, measures and kills it.
LEMMA ReservingScript ==
  ASSUME NEW cfg \in DO_MEMRESERVE
  PROVE  /\ Len(Script(cfg)) = 13 /\ cfg \in Configs
         /\ Script(cfg)[1] = "memreserve" /\ Script(cfg)[2] = "sleep"
         /\ \A k \in 3 .. 10 : Script(cfg)[k] \notin MemreserveSteps
         /\ Script(cfg)[11] = "kill_memreserve"
         /\ \A k \in 1 .. 13 : Script(cfg)[k] = "command" => k = 5
  <1>1. \A k \in 3 .. 10 : k \in {3, 4, 5, 6, 7, 8, 9, 10}
    OBVIOUS
  <1>2. \A k \in 1 .. 13 : k \in {1, 2, 3, 4, 5, 6, 7, 8, 9, 10, 11, 12, 13}
    OBVIOUS
  <1>3. CASE cfg = "firsttouch_memreserve"
    BY <1>1, <1>2, <1>3, FirsttouchMemreserve DEF Configs, MemreserveSteps
  <1>4. CASE cfg = "online_memreserve"
    BY <1>1, <1>2, <1>4, OnlineMemreserve DEF Configs, MemreserveSteps
  <1> QED
    BY <1>3, <1>4 DEF DO_MEMRESERVE

\* The other scripts kill nobody's memreserve.
LEMMA OtherScript ==
  ASSUME NEW cfg \in Configs \ DO_MEMRESERVE, NEW k \in 1 .. Len(Script(cfg))
  PROVE  Script(cfg)[k] \notin MemreserveSteps
  <1>1. CASE cfg = "firsttouch"
    <2>1. Len(Script(cfg)) = 8
      BY <1>1, Firsttouch
    <2>2. k \in {1, 2, 3, 4, 5, 6, 7, 8}
      BY <2>1
    <2> QED
      BY <1>1, <2>2, Firsttouch DEF MemreserveSteps
  <1>2. CASE cfg = "control"
    <2>1. Len(Script(cfg)) = 10
      BY <1>2, Control
    <2>2. k \in {1, 2, 3, 4, 5, 6, 7, 8, 9, 10}
      BY <2>1
    <2> QED
      BY <1>2, <2>2, Control DEF MemreserveSteps
  <1> QED
    BY <1>1, <1>2 DEF Configs, DO_MEMRESERVE

\* What the steps of a script do to the reservations.
LEMMA MemreserveRun ==
  ASSUME TypeOK, NEW r \in Runners, Run(r)
  PROVE  /\ ~ Over(r) /\ Advance(r) /\ spoilt \subseteq spoilt'
         /\ Steps(r)[step[r]] \notin MemreserveSteps => UNCHANGED mem
         /\ At(r, "memreserve") => /\ Job(r) \in filling' \cup spoilt'
                                   /\ filling \subseteq filling' /\ holding \subseteq holding'
         /\ At(r, "sleep") => UNCHANGED mem /\ (Job(r) \in filling => Job(r) \in spoilt')
  <1>1. ~ Over(r) /\ Advance(r)
    BY DEF Run, At, numastat_background, KillLoop, WaitLoop, pcm_background, KillSudo,
      PkillPcm, WaitSudo, StartMemreserve, Usage, SleepEnds, SleepTooShort, KillMemreserve,
      PkillMemreserve, WaitAll, StartProbes, KillProbes, CommandEnds
  <1>2. spoilt \subseteq spoilt'
    BY DEF Run, numastat_background, KillLoop, WaitLoop, pcm_background, KillSudo,
      PkillPcm, WaitSudo, StartMemreserve, Usage, SleepEnds, SleepTooShort, KillMemreserve,
      PkillMemreserve, WaitAll, StartProbes, KillProbes, CommandEnds, history
  <1>3. Steps(r)[step[r]] \notin MemreserveSteps => UNCHANGED mem
    BY DEF Run, At, MemreserveSteps, numastat_background, KillLoop, WaitLoop, pcm_background, KillSudo,
      PkillPcm, WaitSudo, StartMemreserve, Usage, SleepEnds, SleepTooShort, KillMemreserve,
      PkillMemreserve, WaitAll, StartProbes, KillProbes, CommandEnds
  <1>4. At(r, "memreserve") => /\ Job(r) \in filling' \cup spoilt'
                               /\ filling \subseteq filling' /\ holding \subseteq holding'
    BY DEF Run, At, numastat_background, KillLoop, WaitLoop, pcm_background, KillSudo,
      PkillPcm, WaitSudo, StartMemreserve, Usage, SleepEnds, SleepTooShort, KillMemreserve,
      PkillMemreserve, WaitAll, StartProbes, KillProbes, CommandEnds, mem
  <1>5. At(r, "sleep") => UNCHANGED mem /\ (Job(r) \in filling => Job(r) \in spoilt')
    BY DEF Run, At, numastat_background, KillLoop, WaitLoop, pcm_background, KillSudo,
      PkillPcm, WaitSudo, StartMemreserve, Usage, SleepEnds, SleepTooShort, KillMemreserve,
      PkillMemreserve, WaitAll, StartProbes, KillProbes, CommandEnds
  <1> QED
    BY <1>1, <1>2, <1>3, <1>4, <1>5

LEMMA InPlaceInit == Init => InPlace
  BY DEF Init, InPlace

LEMMA InPlaceNext == TypeOK /\ InPlace /\ [Next]_vars => InPlace'
  <1> SUFFICES ASSUME TypeOK, InPlace, [Next]_vars, NEW r \in Runners', config'[r] \in DO_MEMRESERVE,
                      Sole(r)', ~ Over(r)'
               PROVE  /\ step'[r] = 2 => Job(r)' \in filling' \cup holding' \cup spoilt'
                      /\ step'[r] \in 3 .. 11 => Job(r)' \in holding' \cup spoilt'
    BY DEF InPlace
  <1> DEFINE Goal == /\ step'[r] = 2 => Job(r)' \in filling' \cup holding' \cup spoilt'
                     /\ step'[r] \in 3 .. 11 => Job(r)' \in holding' \cup spoilt'
  <1>0. scenario' = scenario
    BY DEF Next, Run, Interrupt, Helper, StartSample, EndSample, SudoForks, PcmExecs, SudoEnds, Holds,
      GivesUp, Attach, Finished, vars, script, Advance, numastat_background, KillLoop, WaitLoop,
      pcm_background, KillSudo, PkillPcm, WaitSudo, StartMemreserve, Usage, SleepEnds, SleepTooShort,
      KillMemreserve, PkillMemreserve, WaitAll, StartProbes, KillProbes, CommandEnds
  <1>a. r \in Runners /\ config[r] \in DO_MEMRESERVE /\ Sole(r)
    BY <1>0 DEF Runners, config, Sole
  <1>b. /\ step \in [Runners -> Nat] /\ iter \in [Runners -> 0 .. Iterations]
        /\ step[r] \in 1 .. 13 /\ Len(Steps(r)) = 13
        /\ launch \in [Runners -> 1 .. Launches]
    BY <1>a, ReservingScript DEF TypeOK, Steps
  <1>c. ~ Over(r) => /\ step[r] = 2 => Job(r) \in filling \cup holding \cup spoilt
                     /\ step[r] \in 3 .. 11 => Job(r) \in holding \cup spoilt
    BY <1>a DEF InPlace
  \* Steps that leave its script and its reservation alone.
  <1>d. ASSUME Job(r)' = Job(r), step'[r] = step[r], Over(r)' <=> Over(r),
               filling \subseteq filling', holding \subseteq holding', spoilt \subseteq spoilt'
        PROVE  Goal
    BY <1>c, <1>d
  <1>1. ASSUME NEW s \in Runners, Run(s), s # r PROVE Goal
    <2>1. ~ Over(s) /\ Advance(s) /\ spoilt \subseteq spoilt'
      BY <1>1, MemreserveRun
    <2>2. launch' = launch /\ step'[r] = step[r] /\ iter'[r] = iter[r]
      BY <1>1, <1>a, <1>b, <2>1 DEF Advance
    <2>3. config[s] \in Configs \ DO_MEMRESERVE /\ step[s] \in 1 .. Len(Script(config[s]))
      BY <1>1, <1>a, ConfigOf DEF TypeOK, Sole, Steps
    <2>4. UNCHANGED mem
      BY <1>1, <2>3, OtherScript, MemreserveRun DEF Steps
    <2> QED
      BY <1>0, <1>d, <2>1, <2>2, <2>4 DEF Job, Over, mem, Iterations
  <1>2. ASSUME Run(r) PROVE Goal
    <2> DEFINE j == Job(r)
    <2>1. ~ Over(r) /\ Advance(r) /\ spoilt \subseteq spoilt'
      BY <1>2, <1>a, MemreserveRun
    <2>2. CASE step[r] = 13
      <3>1. step'[r] = 1
        BY <1>a, <1>b, <2>1, <2>2 DEF Advance
      <3> QED
        BY <3>1
    <2>3. CASE step[r] # 13
      <3>1. step'[r] = step[r] + 1 /\ Job(r)' = Job(r)
        BY <1>a, <1>b, <2>1, <2>3 DEF Advance, Job
      <3>2. CASE step[r] = 1
        <4>1. At(r, "memreserve")
          BY <1>a, <2>1, <3>2, ReservingScript DEF At, Steps
        <4>2. j \in filling' \cup spoilt'
          BY <1>2, <1>a, <4>1, MemreserveRun
        <4> QED
          BY <3>1, <3>2, <4>2
      <3>3. CASE step[r] = 2
        <4>1. At(r, "sleep")
          BY <1>a, <2>1, <3>3, ReservingScript DEF At, Steps
        <4>2. UNCHANGED mem /\ (j \in filling => j \in spoilt')
          BY <1>2, <1>a, <4>1, MemreserveRun
        <4>3. j \in holding' \cup spoilt'
          BY <1>c, <2>1, <3>3, <4>2 DEF mem
        <4> QED
          BY <3>1, <3>3, <4>3
      <3>4. CASE step[r] \in 3 .. 10
        <4>1. Steps(r)[step[r]] \notin MemreserveSteps
          BY <1>a, <3>4, ReservingScript DEF Steps
        <4>2. UNCHANGED mem
          BY <1>2, <1>a, <4>1, MemreserveRun
        <4>3. j \in holding' \cup spoilt'
          BY <1>c, <2>1, <3>4, <4>2 DEF mem
        <4> QED
          BY <3>1, <3>4, <4>3
      <3>5. CASE step[r] \in {11, 12}
        BY <3>1, <3>5
      <3> QED
        BY <1>b, <2>3, <3>2, <3>3, <3>4, <3>5
    <2> QED
      BY <2>2, <2>3
  <1>3. ASSUME NEW s \in Runners, Interrupt(s) PROVE Goal
    <2>1. CASE s = r
      <3>1. step'[r] = 1
        BY <1>3, <1>b, <2>1 DEF Interrupt
      <3> QED
        BY <3>1
    <2>2. CASE s # r
      <3>1. /\ launch'[r] = launch[r] /\ step'[r] = step[r] /\ iter'[r] = iter[r]
            /\ UNCHANGED <<filling, holding, spoilt>>
        BY <1>3, <1>a, <1>b, <2>2 DEF Interrupt, mem
      <3> QED
        BY <1>0, <1>d, <3>1 DEF Job, Over, Iterations
    <2> QED
      BY <2>1, <2>2
  <1>4. ASSUME NEW k \in Jobs, Helper(k) \/ StartSample(k) PROVE Goal
    <2>1. UNCHANGED script
      BY <1>4 DEF Helper, StartSample, EndSample, SudoForks, PcmExecs, SudoEnds, Holds, GivesUp, Attach
    <2>2. /\ holding \subseteq holding' /\ spoilt \subseteq spoilt'
          /\ filling \subseteq filling' \cup holding' \cup spoilt'
      BY <1>4 DEF Helper, StartSample, EndSample, SudoForks, PcmExecs, SudoEnds, Holds, GivesUp, Attach,
        mem, history
    <2>3. Job(r)' = Job(r) /\ step' = step /\ (Over(r)' <=> Over(r))
      BY <2>1 DEF script, Job, Over, Iterations
    <2> QED
      BY <1>c, <2>2, <2>3
  <1>5. CASE UNCHANGED vars
    BY <1>5, <1>d DEF vars, script, mem, history, Job, Over, Iterations
  <1> QED
    BY <1>1, <1>2, <1>3, <1>4, <1>5 DEF Next, Finished

\* Whatever else runs on the machine, as long as it does not reserve too, and
\* whenever Ctrl-C comes: when the benchmark of a reserving configuration runs,
\* its iteration's memreserve holds the node, unless it met a fault.
THEOREM NodeIsReserved == Spec => []ReservedUnlessSpoilt
  <1>1. TypeOK /\ InPlace => ReservedUnlessSpoilt
    <2> SUFFICES ASSUME TypeOK, InPlace, NEW r \in Runners, Reserving(r), Sole(r)
                 PROVE  Job(r) \in holding \cup spoilt
      BY DEF ReservedUnlessSpoilt
    <2>1. /\ config[r] \in DO_MEMRESERVE /\ ~ Over(r) /\ Script(config[r])[step[r]] = "command"
          /\ step[r] \in 1 .. Len(Script(config[r]))
      BY DEF Reserving, At, Steps, TypeOK
    <2>2. step[r] = 5
      BY <2>1, ReservingScript
    <2> QED
      BY <2>1, <2>2 DEF InPlace
  <1> QED
    BY <1>1, InPlaceInit, InPlaceNext, TypedInit, TypedNext, PTL DEF Spec

-----------------------------------------------------------------------------
(* run.sh's loops over the benchmarks and configurations (RunLoop), for     *)
(* every command line: whatever benchmarks and configurations it names, in *)
(* whatever order, with whatever arguments.                                *)

\* The loops are inside the command line.
LoopTyped ==
  /\ cli \in CommandLines
  /\ pc \in {"clear", "write", "execute", "done"}
  /\ BENCH_INDEX \in 1 .. Len(cli.benches) /\ CONFIG_INDEX \in 1 .. Len(cli.configs)
  /\ DOMAIN runsh = Named(cli)

\* What the benchmark about to be executed will run.
CommandsInPlace ==
  pc = "execute" /\ BENCH \notin Missing \cup Unsized => cwd = BENCH /\ runsh[BENCH] = BENCH

\* The result is of an experiment that the loops have passed.
PassedBy(result, j, k) ==
  /\ result.bench = cli.benches[j] /\ result.full = FULL_CONFIGS[k]
  /\ j < BENCH_INDEX \/ (j = BENCH_INDEX /\ k < CONFIG_INDEX) \/ pc = "done"

Passed ==
  \A result \in results :
    \E j \in 1 .. Len(cli.benches), k \in 1 .. Len(cli.configs) : PassedBy(result, j, k)

\* A command line names something to do.
LEMMA Line ==
  ASSUME NEW line \in CommandLines
  PROVE  /\ line.benches \in Seq(STRING) /\ Len(line.benches) \in Nat \ {0}
         /\ line.configs \in Seq(STRING) /\ Len(line.configs) \in Nat \ {0}
  <1>1. line \in [benches : Seq(STRING) \ {<<>>}, configs : Seq(STRING) \ {<<>>}, args : Seq(STRING)]
    BY LinesAssumption
  <1>2. /\ line.benches \in Seq(STRING) /\ line.benches # <<>>
        /\ line.configs \in Seq(STRING) /\ line.configs # <<>>
    BY <1>1
  <1> QED
    BY <1>2

\* The loops go on to the next experiment of the command line, or end.
LEMMA OnwardMoves ==
  ASSUME LoopTyped, Onward
  PROVE  /\ BENCH_INDEX' \in 1 .. Len(cli.benches) /\ CONFIG_INDEX' \in 1 .. Len(cli.configs)
         /\ pc' \in {"clear", "done"}
         /\ \/ BENCH_INDEX' = BENCH_INDEX /\ CONFIG_INDEX' = CONFIG_INDEX + 1
            \/ BENCH_INDEX' = BENCH_INDEX + 1
            \/ BENCH_INDEX' = BENCH_INDEX /\ CONFIG_INDEX' = CONFIG_INDEX /\ pc' = "done"
  <1>1. Len(cli.benches) \in Nat \ {0} /\ Len(cli.configs) \in Nat \ {0}
    BY Line DEF LoopTyped
  <1> QED
    BY <1>1 DEF LoopTyped, Onward, MoreConfigs, MoreBenches

LEMMA LoopTypedInit == LoopInit => LoopTyped
  <1> SUFFICES ASSUME LoopInit PROVE LoopTyped
    OBVIOUS
  <1>1. Len(cli.benches) \in Nat \ {0} /\ Len(cli.configs) \in Nat \ {0}
    BY Line DEF LoopInit
  <1> QED
    BY <1>1 DEF LoopInit, LoopTyped

LEMMA LoopTypedNext == LoopTyped /\ [LoopNext]_loopVars => LoopTyped'
  <1> SUFFICES ASSUME LoopTyped, [LoopNext]_loopVars PROVE LoopTyped'
    OBVIOUS
  <1>1. CASE ClearResults
    BY <1>1 DEF LoopTyped, ClearResults
  <1>2. CASE WriteCommands
    BY <1>2 DEF LoopTyped, WriteCommands
  <1>3. CASE Execute
    BY <1>3, OnwardMoves DEF LoopTyped, Execute
  <1>4. CASE UNCHANGED loopVars
    BY <1>4 DEF LoopTyped, loopVars
  <1> QED
    BY <1>1, <1>2, <1>3, <1>4 DEF LoopNext, Done

\* The commands that a sound benchmark has just written are its own, whatever
\* its predecessors left in the shell.
LEMMA CommandsInPlaceNext == LoopTyped /\ CommandsInPlace /\ [LoopNext]_loopVars => CommandsInPlace'
  <1> SUFFICES ASSUME LoopTyped, CommandsInPlace, [LoopNext]_loopVars PROVE CommandsInPlace'
    OBVIOUS
  <1>1. CASE ClearResults
    BY <1>1 DEF CommandsInPlace, ClearResults
  <1>2. CASE WriteCommands
    <2>1. BENCH' = BENCH /\ BENCH \in Named(cli)
      BY <1>2 DEF WriteCommands, BENCH, LoopTyped, Named
    <2>2. BENCH \notin Missing \cup Unsized => cwd' = BENCH /\ runsh' = [runsh EXCEPT ![BENCH] = BENCH]
      BY <1>2 DEF WriteCommands, Loaded
    <2> QED
      BY <2>1, <2>2 DEF CommandsInPlace, LoopTyped
  <1>3. CASE Execute
    BY <1>3, OnwardMoves DEF CommandsInPlace, Execute
  <1>4. CASE UNCHANGED loopVars
    BY <1>4 DEF CommandsInPlace, loopVars, BENCH
  <1> QED
    BY <1>1, <1>2, <1>3, <1>4 DEF LoopNext, Done

\* Broken benchmarks before it, without a directory or without commands for the
\* size, never make a sound benchmark run anything but its own commands.
THEOREM SoundRunTheirOwn == LoopSpec => []SoundBenchmarksRunTheirOwn
  <1>1. LoopInit => CommandsInPlace /\ SoundBenchmarksRunTheirOwn
    BY DEF LoopInit, CommandsInPlace, SoundBenchmarksRunTheirOwn
  <1>2. LoopTyped /\ CommandsInPlace /\ SoundBenchmarksRunTheirOwn /\ [LoopNext]_loopVars => SoundBenchmarksRunTheirOwn'
    <2> SUFFICES ASSUME LoopTyped, CommandsInPlace, SoundBenchmarksRunTheirOwn, [LoopNext]_loopVars
                 PROVE  SoundBenchmarksRunTheirOwn'
      OBVIOUS
    <2>1. CASE ClearResults
      BY <2>1 DEF ClearResults, SoundBenchmarksRunTheirOwn
    <2>2. CASE WriteCommands
      BY <2>2 DEF WriteCommands, SoundBenchmarksRunTheirOwn
    <2>3. CASE Execute
      BY <2>3 DEF Execute, SoundBenchmarksRunTheirOwn, CommandsInPlace
    <2>4. CASE UNCHANGED loopVars
      BY <2>4 DEF loopVars, SoundBenchmarksRunTheirOwn
    <2> QED
      BY <2>1, <2>2, <2>3, <2>4 DEF LoopNext, Done
  <1> QED
    BY <1>1, <1>2, LoopTypedInit, LoopTypedNext, CommandsInPlaceNext, PTL DEF LoopSpec

\* However the arguments are misaligned, a directory that has a full name has
\* the name of what was run in it.
THEOREM NamesTellTheRun == LoopSpec => []DirectoryTellsTheRun
  <1>1. LoopInit => DirectoryTellsTheRun
    BY DEF LoopInit, DirectoryTellsTheRun
  <1>2. LoopTyped /\ DirectoryTellsTheRun /\ [LoopNext]_loopVars => DirectoryTellsTheRun'
    <2> SUFFICES ASSUME LoopTyped, DirectoryTellsTheRun, [LoopNext]_loopVars PROVE DirectoryTellsTheRun'
      OBVIOUS
    <2>1. CASE ClearResults
      BY <2>1 DEF ClearResults, DirectoryTellsTheRun
    <2>2. CASE WriteCommands
      BY <2>2 DEF WriteCommands, DirectoryTellsTheRun
    <2>3. CASE Execute
      <3>1. FULL_CONFIG # <<>> => FULL_CONFIG = <<CONFIG, ARGS>>
        BY DEF FULL_CONFIG, FULL_CONFIGS, CONFIG, ARGS, LoopTyped
      <3> QED
        BY <2>3, <3>1 DEF Execute, DirectoryTellsTheRun
    <2>4. CASE UNCHANGED loopVars
      BY <2>4 DEF loopVars, DirectoryTellsTheRun
    <2> QED
      BY <2>1, <2>2, <2>3, <2>4 DEF LoopNext, Done
  <1> QED
    BY <1>1, <1>2, LoopTypedInit, LoopTypedNext, PTL DEF LoopSpec

LEMMA PassedInit == LoopInit => Passed
  BY DEF LoopInit, Passed

\* Whatever result there is stays behind the loops as they go on.
LEMMA PassedNext == LoopTyped /\ Passed /\ [LoopNext]_loopVars => Passed'
  <1> SUFFICES ASSUME LoopTyped, Passed, [LoopNext]_loopVars PROVE Passed'
    OBVIOUS
  <1>0. cli' = cli => FULL_CONFIGS' = FULL_CONFIGS
    BY DEF FULL_CONFIGS, CONFIG_ARGS
  <1>1. CASE ClearResults
    BY <1>0, <1>1 DEF Passed, PassedBy, ClearResults
  <1>2. CASE WriteCommands
    BY <1>0, <1>2 DEF Passed, PassedBy, WriteCommands
  <1>3. CASE Execute
    <2> SUFFICES ASSUME NEW result \in results'
                 PROVE  \E j \in 1 .. Len(cli.benches), k \in 1 .. Len(cli.configs) :
                          PassedBy(result, j, k)'
      BY <1>3 DEF Passed, Execute
    <2>1. CASE result \in results
      <3>1. PICK j \in 1 .. Len(cli.benches), k \in 1 .. Len(cli.configs) : PassedBy(result, j, k)
        BY <2>1 DEF Passed
      <3>2. pc # "done"
        BY <1>3 DEF Execute
      <3> QED
        BY <1>0, <1>3, <3>1, <3>2, OnwardMoves DEF PassedBy, Execute, LoopTyped
    <2>2. CASE result \notin results
      <3>1. result.bench = cli.benches[BENCH_INDEX] /\ result.full = FULL_CONFIGS[CONFIG_INDEX]
        BY <1>3, <2>2 DEF Execute, BENCH, FULL_CONFIG
      <3> QED
        BY <1>0, <1>3, <3>1, OnwardMoves DEF PassedBy, Execute, LoopTyped
    <2> QED
      BY <2>1, <2>2
  <1>4. CASE UNCHANGED loopVars
    BY <1>0, <1>4 DEF Passed, PassedBy, loopVars
  <1> QED
    BY <1>1, <1>2, <1>3, <1>4 DEF LoopNext, Done

\* With a command line in which every configuration has its arguments and no
\* experiment comes twice, `rm -rf` never takes a result of the same command line.
THEOREM NothingIsCleared == LoopSpec => NothingMeasuredIsCleared
  <1>1. LoopTyped /\ Passed /\ [LoopNext]_loopVars => [WellFormed => results \subseteq results']_loopVars
    <2> SUFFICES ASSUME LoopTyped, Passed, LoopNext, WellFormed PROVE results \subseteq results'
      BY DEF loopVars
    <2>1. CASE ClearResults
      <3> SUFFICES ASSUME NEW result \in results, Cleared(result) PROVE FALSE
        BY <2>1 DEF ClearResults
      <3>1. PICK j \in 1 .. Len(cli.benches), k \in 1 .. Len(cli.configs) : PassedBy(result, j, k)
        BY DEF Passed
      <3>2. \A l \in 1 .. Len(cli.configs) : FULL_CONFIGS[l] = <<cli.configs[l], cli.args[l]>>
        <4>1. Len(cli.configs) \in Nat
          BY Line DEF LoopTyped
        <4>2. CONFIG_ARGS = cli.args /\ Len(CONFIG_ARGS) = Len(cli.configs)
          BY DEF WellFormed
        <4> QED
          BY <4>1, <4>2 DEF FULL_CONFIGS
      <3>3. result.full = FULL_CONFIGS[k] /\ result.full = FULL_CONFIGS[CONFIG_INDEX] /\ result.bench = cli.benches[BENCH_INDEX]
        BY <3>1, <3>2 DEF PassedBy, Cleared, FULL_CONFIG, BENCH, LoopTyped
      <3>4. k = CONFIG_INDEX
        <4>1. <<cli.configs[k], cli.args[k]>> = <<cli.configs[CONFIG_INDEX], cli.args[CONFIG_INDEX]>>
          BY <3>2, <3>3 DEF LoopTyped
        <4>2. cli.configs[k] = cli.configs[CONFIG_INDEX] /\ cli.args[k] = cli.args[CONFIG_INDEX]
          BY <4>1
        <4> QED
          BY <4>2 DEF WellFormed, LoopTyped
      <3>5. j = BENCH_INDEX
        BY <3>1, <3>3 DEF PassedBy, WellFormed, LoopTyped
      <3> QED
        BY <2>1, <3>1, <3>4, <3>5 DEF PassedBy, ClearResults, LoopTyped
    <2>2. CASE WriteCommands \/ Execute \/ Done
      BY <2>2 DEF WriteCommands, Execute, Done, loopVars
    <2> QED
      BY <2>1, <2>2 DEF LoopNext
  <1> QED
    BY <1>1, LoopTypedInit, LoopTypedNext, PassedInit, PassedNext, PTL DEF LoopSpec, NothingMeasuredIsCleared
=============================================================================
