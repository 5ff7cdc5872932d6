----------------------------- MODULE PcmDaemon -----------------------------
(***************************************************************************)
(* The PCM daemon and its clients (tools/pcm/daemon).  A daemon makes a    *)
(* System V shared memory segment, writes its id to a file, programs the   *)
(* PMU and then updates the segment in place at every poll; a client finds *)
(* the segment through the file, waits until lastUpdateTscEnd changes and  *)
(* reads the tables where they are.  No lock orders the two.               *)
(*                                                                         *)
(* A counter state is abstracted to the reading it was taken at: 1 is the  *)
(* reading of the constructor, k + 1 that of the k-th poll, NeverRead a    *)
(* default-constructed state, Garbage an uninitialised time.  A published  *)
(* number is then the pair of readings it is the difference of.            *)
(***************************************************************************)
EXTENDS Integers, Sequences, FiniteSets

CONSTANTS Daemons,       \* runs of the daemon; each makes its own segment
          Clients,
          OnlineSockets, \* the online sockets, in order; sockets are 0, 1, ...
          Options,       \* the command lines: records of mode (-m), subscribers (-c), group (-g)
          UsePerf,       \* canUsePerf: the kernel arbitrates, PMUinUse is not asked
          MaxPolls,      \* bound: polls of one daemon
          NoFile, Empty, Nobody

Modes == {"difference", "absolute"}
Tables == {"core", "memory", "qpi"}
NeverRead == 0
Garbage == -1
Rows == 1..Len(OnlineSockets)

ASSUME DaemonsAndClients ==
    /\ {NoFile, Empty, Nobody} \cap Daemons = {}
    /\ OnlineSockets \in Seq(Nat) /\ OnlineSockets # <<>>     \* a machine that runs has one
    /\ Options \subseteq [mode : Modes, subscribers : (SUBSET Tables) \ {{}}, group : {"none", "unknown"}]
    /\ \A i, j \in Rows : i < j => OnlineSockets[i] < OnlineSockets[j]
    /\ MaxPolls \in Nat /\ UsePerf \in BOOLEAN

VARIABLES
    pc,        \* what each daemon is doing
    options,   \* its command line
    file,      \* whose id is in the file at shmIdLocation
    pmu,       \* who programmed the PMU
    segment,   \* the shared memory of each daemon
    system,    \* systemStates (and socket, core): before, after, forQPIBefore
    uncore,    \* serverUncorePowerStates: before, after
    time,      \* collectionTime: before, after
    polls,
    outdated,  \* the clients built with another VERSION
    cpc, seen, last, picture,   \* a client: step, its segment, lastUpdatedClientTsc, what it read
    undisturbed, \* ghost: no update was under way since the client saw the new timestamp
    company      \* ghost: the other daemons about since a daemon opened the id file

daemonVars == <<pc, options, pmu, system, uncore, time, polls>>
clientVars == <<outdated, cpc, seen, last, picture>>
vars == <<daemonVars, file, segment, clientVars, undisturbed, company>>

Window(from, to) == <<from, to>>
NoWindow == Window(NeverRead, NeverRead)

\* SharedPCMState as the placement new leaves it; before that the segment is all zero.
EmptyState == [version |-> FALSE, tscEnd |-> 0, core |-> NoWindow,
               memory |-> [k \in Rows |-> [socket |-> 0, counts |-> NoWindow, elapsed |-> NoWindow]],
               qpi |-> [k \in Rows |-> [socket |-> 0, bytes |-> NoWindow, utilization |-> NoWindow]],
               total |-> [i \in {OnlineSockets[k] : k \in Rows} \cup {k - 1 : k \in Rows} |->
                             [socket |-> -1, bytes |-> NoWindow]],
               removed |-> FALSE, there |-> FALSE]

Init ==
    /\ pc = [d \in Daemons |-> "arguments"]
    /\ options \in [Daemons -> Options]
    /\ file = NoFile /\ pmu = Nobody
    /\ segment = [d \in Daemons |-> EmptyState]
    /\ system = [d \in Daemons |-> [before |-> NeverRead, after |-> NeverRead, forQPIBefore |-> NeverRead]]
    /\ uncore = [d \in Daemons |-> [before |-> NeverRead, after |-> NeverRead]]
    /\ time = [d \in Daemons |-> [before |-> Garbage, after |-> Garbage]]
    /\ polls = [d \in Daemons |-> 0]
    /\ outdated \in SUBSET Clients
    /\ cpc = [c \in Clients |-> "start"]
    /\ seen = [c \in Clients |-> Nobody]
    /\ last = [c \in Clients |-> 0]
    /\ picture = [c \in Clients |-> <<>>]
    /\ undisturbed = [c \in Clients |-> TRUE]
    /\ company = [d \in Daemons |-> {}]

Step(d, from, to) == pc[d] = from /\ pc' = [pc EXCEPT ![d] = to]
Gone == {"ended", "killed", "refused"}
Running == {"sleep", "core", "memory", "qpi", "publish"}

\* An update is under way until its timestamp is written.
UnderWay(d) == polls[d] # segment[d].tscEnd

\* Mutant: the timestamp is written before the QPI tables.
TimestampBeforeQPI(step) ==
    CASE step = "core" -> "memory" [] step = "memory" -> "publish"
      [] step = "publish" -> "qpi" [] step = "qpi" -> "sleep"

\* The order in which getPCMCounters fills the segment.
After(step) ==
    CASE step = "core" -> "memory" [] step = "memory" -> "qpi"
      [] step = "qpi" -> "publish" [] step = "publish" -> "sleep"

(***************************************************************************)
(* Starting: Daemon::setupSharedMemory, then setupPCM.                     *)
(***************************************************************************)
\* shmget, and fopen(shmIdLocation, "w") truncates the file.
CreateSegment(d) ==
    /\ Step(d, "arguments", "write id")
    /\ segment' = [segment EXCEPT ![d].there = TRUE]
    /\ file' = Empty
    /\ company' = [e \in Daemons |->
                      IF e = d THEN {o \in Daemons : pc[o] \notin Gone \cup {"arguments"}}
                               ELSE company[e] \cup {d}]
    /\ UNCHANGED <<options, pmu, system, uncore, time, polls, clientVars, undisturbed>>

\* Mutant: the file is not closed, its buffer holds the id until the exit.
WriteIdUnflushed(d) ==
    /\ Step(d, "write id", IF options[d].group = "unknown" THEN "group" ELSE "attach")
    /\ UNCHANGED <<options, pmu, system, uncore, time, polls, file, segment, clientVars, undisturbed, company>>

WriteId(d) ==
    /\ Step(d, "write id", IF options[d].group = "unknown" THEN "group" ELSE "attach")
    /\ file' = d
    /\ UNCHANGED <<options, pmu, system, uncore, time, polls, segment, clientVars,
                   undisturbed, company>>

\* resolveGroupName exits before the exit handler is installed: nothing is removed.
UnknownGroup(d) ==
    /\ Step(d, "group", "refused")
    /\ UNCHANGED <<options, pmu, system, uncore, time, polls, file, segment, clientVars,
                   undisturbed, company>>

\* shmat and the placement new.
Attach(d) ==
    /\ Step(d, "attach", "program")
    /\ segment' = [segment EXCEPT ![d] = [EmptyState EXCEPT !.there = TRUE]]
    /\ UNCHANGED <<options, pmu, system, uncore, time, polls, file, clientVars, undisturbed, company>>

\* checkAccessAndProgramPCM; then the first reading, which is "before".
Program(d) ==
    /\ UsePerf \/ pmu = Nobody
    /\ Step(d, "program", "sleep")
    /\ pmu' = d
    /\ system' = [system EXCEPT ![d] = [@ EXCEPT !.before = 1, !.forQPIBefore = 1]]
    /\ time' = [time EXCEPT ![d].after = 1]
    /\ UNCHANGED <<options, uncore, polls, file, segment, clientVars, undisturbed, company>>

\* Daemon::cleanup, the post cleanup callback: detach and remove the segment, remove the file.
Cleanup(d) ==
    /\ segment' = [segment EXCEPT ![d].removed = TRUE]
    /\ file' = NoFile

\* PMUBusy: the user may have the PMU reset, then exit() runs the exit handler.
ProgramBusy(d) ==
    /\ ~UsePerf /\ pmu # Nobody
    /\ Step(d, "program", "ended")
    /\ \E reset \in BOOLEAN : pmu' = IF reset THEN Nobody ELSE pmu
    /\ Cleanup(d)
    /\ UNCHANGED <<options, system, uncore, time, polls, clientVars, undisturbed, company>>

(***************************************************************************)
(* A poll: Daemon::run and getPCMCounters, one table after the other.      *)
(***************************************************************************)
Wanted(d, t) == t \in options[d].subscribers

\* Begin of an update: the version, updatePCMState and getPCMSystem.
BeginUpdate(d) ==
    /\ polls[d] < MaxPolls
    /\ Step(d, "sleep", "core")
    /\ polls' = [polls EXCEPT ![d] = @ + 1]
    /\ segment' = [segment EXCEPT ![d].version = TRUE]
    /\ system' = [system EXCEPT ![d].after = polls'[d] + 1]
    /\ time' = [time EXCEPT ![d].after = polls'[d] + 1]
    /\ undisturbed' = [c \in Clients |-> undisturbed[c] /\ seen[c] # d]
    /\ UNCHANGED <<options, pmu, uncore, file, clientVars, company>>

getPCMCore(d) ==
    /\ Step(d, "core", After("core"))
    /\ segment' = IF Wanted(d, "core")
                    THEN [segment EXCEPT ![d].core = Window(system[d].before, system[d].after)]
                    ELSE segment
    /\ UNCHANGED <<options, pmu, system, uncore, time, polls, file, clientVars, undisturbed, company>>

\* The rows are those of the online sockets; the rates divide by the collection times.
MemoryRows(d) ==
    [k \in Rows |-> [socket |-> OnlineSockets[k],
                     counts |-> Window(uncore[d].before, polls[d] + 1),
                     elapsed |-> Window(time[d].before, time[d].after)]]

getPCMMemory(d) ==
    /\ Step(d, "memory", After("memory"))
    /\ IF Wanted(d, "memory")
         THEN /\ uncore' = [uncore EXCEPT ![d].after = polls[d] + 1]
              /\ segment' = [segment EXCEPT ![d].memory = MemoryRows(d)]
         ELSE UNCHANGED <<uncore, segment>>
    /\ UNCHANGED <<options, pmu, system, time, polls, file, clientVars, undisturbed, company>>

\* A row per online socket, but the total goes to the row numbered like the socket.
QPIRows(d) ==
    [k \in Rows |-> [socket |-> OnlineSockets[k],
                     bytes |-> Window(system[d].before, system[d].after),
                     utilization |-> Window(system[d].forQPIBefore, system[d].after)]]
QPITotals(d, total) ==
    [i \in DOMAIN total |->
        IF \E k \in Rows : OnlineSockets[k] = i
          THEN [socket |-> i, bytes |-> Window(system[d].before, system[d].after)]
          ELSE total[i]]

getPCMQPI(d) ==
    /\ Step(d, "qpi", After("qpi"))
    /\ segment' = IF Wanted(d, "qpi")
                    THEN [segment EXCEPT ![d].qpi = QPIRows(d), ![d].total = QPITotals(d, @)]
                    ELSE segment
    /\ UNCHANGED <<options, pmu, system, uncore, time, polls, file, clientVars, undisturbed, company>>

\* Mutant: the states are swapped in absolute mode too.
SwapAlways(d, s) == [before |-> s.after, after |-> s.before]

\* swapPCMBeforeAfterState, in difference mode only.
Swapped(d, s) ==
    IF options[d].mode = "difference" THEN [before |-> s.after, after |-> s.before]
                              ELSE [before |-> s.before, after |-> s.after]

\* The time of this update, as far as it is told from the others.
Timestamp(d) == polls[d]

\* The collection times are swapped in every mode, the QPI state is taken after the swap.
Publish(d) ==
    /\ Step(d, "publish", After("publish"))
    /\ segment' = [segment EXCEPT ![d].tscEnd = Timestamp(d)]
    /\ LET s == Swapped(d, system[d]) IN
         system' = [system EXCEPT ![d] =
             [before |-> s.before, after |-> s.after,
              forQPIBefore |-> IF Wanted(d, "qpi") THEN s.after ELSE @.forQPIBefore]]
    /\ uncore' = [uncore EXCEPT ![d] = Swapped(d, @)]
    /\ time' = [time EXCEPT ![d] = [before |-> @.after, after |-> @.before]]
    /\ UNCHANGED <<options, pmu, polls, file, clientVars, undisturbed, company>>

(***************************************************************************)
(* Ending: a signal runs exit_cleanup once setupPCM installed the handler; *)
(* before that, and for SIGKILL at any time, nothing is undone.            *)
(***************************************************************************)
Signal(d) ==
    /\ pc[d] \in {"program"} \cup Running
    /\ pc' = [pc EXCEPT ![d] = "ended"]
    /\ Cleanup(d)
    /\ pmu' = IF pmu = d THEN Nobody ELSE pmu
    /\ UNCHANGED <<options, system, uncore, time, polls, clientVars, undisturbed, company>>

Kill(d) ==
    /\ pc[d] \notin Gone \cup {"arguments"}
    /\ pc' = [pc EXCEPT ![d] = "killed"]
    /\ UNCHANGED <<options, pmu, system, uncore, time, polls, file, segment, clientVars,
                   undisturbed, company>>

(***************************************************************************)
(* A client: Client::connect and read, then the program in client/main.cpp.*)
(***************************************************************************)
CStep(c, from, to) == cpc[c] = from /\ cpc' = [cpc EXCEPT ![c] = to]

\* setupSharedMemory: the id in an empty file is what the stack buffer held.
ReadId(c) ==
    /\ cpc[c] = "start"
    /\ IF file = NoFile
         THEN CStep(c, "start", "failed") /\ UNCHANGED seen
         ELSE \E d \in IF file = Empty THEN Daemons \cup {Nobody} ELSE {file} :
                IF d # Nobody /\ segment[d].there /\ ~segment[d].removed
                  THEN CStep(c, "start", "connect") /\ seen' = [seen EXCEPT ![c] = d]
                  ELSE CStep(c, "start", "failed") /\ UNCHANGED seen
    /\ UNCHANGED <<daemonVars, file, segment, outdated, last, picture, undisturbed, company>>

\* connect notes the present timestamp "to avoid a detected change when the client starts".
Connect(c) ==
    /\ CStep(c, "connect", "wait")
    /\ last' = [last EXCEPT ![c] = segment[seen[c]].tscEnd]
    /\ UNCHANGED <<daemonVars, file, segment, outdated, seen, picture, undisturbed, company>>

OutOfDate(c) ==
    /\ CStep(c, "wait", "failed")
    /\ c \in outdated /\ segment[seen[c]].version
    /\ UNCHANGED <<daemonVars, file, segment, outdated, seen, last, picture, undisturbed, company>>

\* Mutant: only the first update is noticed.
UpdatedOnce(c) == last[c] = 0 /\ segment[seen[c]].tscEnd # 0

countersHaveUpdated(c) == last[c] # segment[seen[c]].tscEnd

\* read: there is new data.
Notice(c) ==
    /\ cpc[c] = "wait"
    /\ ~(c \in outdated /\ segment[seen[c]].version)
    /\ countersHaveUpdated(c)
    /\ CStep(c, "wait", "note")
    /\ undisturbed' = [undisturbed EXCEPT ![c] = ~UnderWay(seen[c])]
    /\ UNCHANGED <<daemonVars, file, segment, outdated, seen, last, picture, company>>

\* lastUpdatedClientTsc is read once more, and a reference to the segment returned.
Note(c) ==
    /\ CStep(c, "note", "core")
    /\ last' = [last EXCEPT ![c] = segment[seen[c]].tscEnd]
    /\ picture' = [picture EXCEPT ![c] = <<>>]
    /\ UNCHANGED <<daemonVars, file, segment, outdated, seen, undisturbed, company>>

\* What main prints of a table it was subscribed to.
Look(c, t, from, to, value) ==
    /\ CStep(c, from, to)
    /\ picture' = [picture EXCEPT ![c] =
                      IF t \in options[seen[c]].subscribers THEN Append(@, value) ELSE @]
    /\ UNCHANGED <<daemonVars, file, segment, outdated, seen, last, undisturbed, company>>

LookAtCore(c) == cpc[c] = "core" /\ Look(c, "core", "core", "memory", segment[seen[c]].core)
LookAtMemory(c) == cpc[c] = "memory" /\ Look(c, "memory", "memory", "qpi", segment[seen[c]].memory[1].counts)
LookAtQPI(c) == cpc[c] = "qpi" /\ Look(c, "qpi", "qpi", "printed", segment[seen[c]].qpi[1].bytes)

ReadAgain(c) ==
    /\ CStep(c, "printed", "wait")
    /\ UNCHANGED <<daemonVars, file, segment, outdated, seen, last, picture, undisturbed, company>>

DaemonStep(d) ==
    \/ CreateSegment(d) \/ WriteId(d) \/ UnknownGroup(d) \/ Attach(d) \/ Program(d) \/ ProgramBusy(d)
    \/ BeginUpdate(d) \/ getPCMCore(d) \/ getPCMMemory(d) \/ getPCMQPI(d) \/ Publish(d)
ClientStep(c) ==
    \/ ReadId(c) \/ Connect(c) \/ OutOfDate(c) \/ Notice(c) \/ Note(c)
    \/ LookAtCore(c) \/ LookAtMemory(c) \/ LookAtQPI(c) \/ ReadAgain(c)

Next == \/ \E d \in Daemons : DaemonStep(d) \/ Signal(d) \/ Kill(d)
        \/ \E c \in Clients : ClientStep(c)

\* A daemon that is not ended runs on, and so does a client.
Fairness == /\ \A d \in Daemons : WF_vars(DaemonStep(d))
            /\ \A c \in Clients : WF_vars(ClientStep(c))

Spec == Init /\ [][Next]_vars /\ Fairness

-----------------------------------------------------------------------------
Windows == (Int \X Int)
Segments ==
    [version : BOOLEAN, tscEnd : 0..MaxPolls, core : Windows,
     memory : [Rows -> [socket : Nat, counts : Windows, elapsed : Windows]],
     qpi : [Rows -> [socket : Nat, bytes : Windows, utilization : Windows]],
     total : [DOMAIN EmptyState.total -> [socket : Int, bytes : Windows]],
     removed : BOOLEAN, there : BOOLEAN]

DaemonTypes ==
    /\ pc \in [Daemons -> {"arguments", "write id", "group", "attach", "program"} \cup Running \cup Gone]
    /\ options \in [Daemons -> Options]
    /\ file \in Daemons \cup {NoFile, Empty}
    /\ pmu \in Daemons \cup {Nobody}
    /\ segment \in [Daemons -> Segments]
    /\ system \in [Daemons -> [before : Int, after : Int, forQPIBefore : Int]]
    /\ uncore \in [Daemons -> [before : Int, after : Int]]
    /\ time \in [Daemons -> [before : Int, after : Int]]
    /\ polls \in [Daemons -> 0..MaxPolls]
    /\ company \in [Daemons -> SUBSET Daemons]

ClientTypes ==
    /\ outdated \in SUBSET Clients
    /\ cpc \in [Clients -> {"start", "connect", "wait", "note", "core", "memory", "qpi", "printed", "failed"}]
    /\ seen \in [Clients -> Daemons \cup {Nobody}]
    /\ \A c \in Clients : cpc[c] \notin {"start", "failed"} => seen[c] \in Daemons
    /\ last \in [Clients -> 0..MaxPolls]
    /\ picture \in [Clients -> Seq(Windows)]
    /\ undisturbed \in [Clients -> BOOLEAN]

TypeOK == DaemonTypes /\ ClientTypes

(***************************************************************************)
(* What a client prints after it saw a new timestamp is one update, the    *)
(* one of that timestamp, unless the daemon was or began updating: "All    *)
(* the data has to be in shm before" (daemon.cpp) is what this rests on.   *)
(***************************************************************************)
PictureIsOneUpdate ==
    \A c \in Clients : cpc[c] = "printed" /\ undisturbed[c] =>
        \A i \in DOMAIN picture[c] : picture[c][i][2] = last[c] + 1

(***************************************************************************)
(* In difference mode the windows of successive updates follow one another *)
(* and the memory rates divide by the time of their own window (the first  *)
(* update apart, whose uncore state and time were never read); in absolute *)
(* mode the core numbers count from the daemon's first reading.            *)
(***************************************************************************)
WindowsFollow ==
    \A d \in Daemons : pc[d] = "sleep" /\ polls[d] > 0 =>
        LET s == segment[d]   n == polls[d]   from == IF options[d].mode = "difference" THEN n ELSE 1 IN
        /\ Wanted(d, "core") => s.core = Window(from, n + 1)
        /\ Wanted(d, "qpi") => \A k \in Rows : s.qpi[k].bytes = Window(from, n + 1)
        /\ Wanted(d, "memory") /\ options[d].mode = "difference" /\ n > 1 =>
              \A k \in Rows : s.memory[k].counts = Window(n, n + 1) /\ s.memory[k].elapsed = Window(n, n + 1)

(***************************************************************************)
(* A daemon that measures can be found by new clients unless another was   *)
(* about: a later one takes over the file, and removes it when it is       *)
(* refused the PMU; an earlier one that ends removes it too.               *)
(***************************************************************************)
FoundUnlessInCompany ==
    \A d \in Daemons : pc[d] \in Running /\ file # d => company[d] # {}

(***************************************************************************)
(* A client that waits on a daemon with updates to come sees one, unless   *)
(* the daemon goes; it is not told when that happens.                      *)
(***************************************************************************)
ClientHears ==
    \A c \in Clients, d \in Daemons :
        (c \notin outdated /\ cpc[c] = "wait" /\ seen[c] = d /\ last[c] # MaxPolls /\ pc[d] \in Running)
            ~> (cpc[c] = "note" \/ pc[d] \in Gone)

=============================================================================
