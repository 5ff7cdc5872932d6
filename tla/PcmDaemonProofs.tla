--------------------------- MODULE PcmDaemonProofs ---------------------------
(***************************************************************************)
(* Proofs about the PCM daemon and its clients, for any number of each,    *)
(* any sockets, any options and any number of polls.                       *)
(***************************************************************************)
EXTENDS PcmDaemon, TLAPS

(***************************************************************************)
(* The strengthening.  Timed: the timestamp in the segment is the number   *)
(* of the last update, and one less than polls from the begin of an update *)
(* to its publication.                                                     *)
(***************************************************************************)
Filling == {"core", "memory", "qpi", "publish"}

Timed(d) ==
    /\ pc[d] \in Filling => polls[d] = segment[d].tscEnd + 1
    /\ pc[d] = "sleep" => polls[d] = segment[d].tscEnd
    /\ pc[d] \notin Running \cup Gone => polls[d] = 0 /\ segment[d].tscEnd = 0

Timestamps == \A d \in Daemons : Timed(d)

\* The states a daemon holds between its updates: which reading each of them is.
HeldSystem(d) ==
    /\ options[d].mode = "difference" => system[d].before = segment[d].tscEnd + 1
    /\ options[d].mode # "difference" => system[d].before = 1
    /\ pc[d] \in Filling => system[d].after = segment[d].tscEnd + 2

HeldTime(d) ==
    /\ segment[d].tscEnd > 0 => time[d].before = segment[d].tscEnd + 1
    /\ pc[d] \in Filling => time[d].after = segment[d].tscEnd + 2

HeldUncore(d) ==
    Wanted(d, "memory") =>
        /\ options[d].mode = "difference" /\ segment[d].tscEnd > 0 => uncore[d].before = segment[d].tscEnd + 1
        /\ pc[d] \in {"qpi", "publish"} => uncore[d].after = segment[d].tscEnd + 2

Held(d) == pc[d] \in Running => HeldSystem(d) /\ HeldTime(d) /\ HeldUncore(d)

Readings == \A d \in Daemons : Held(d)

\* A table is filled for update polls[d] once the daemon passed it, and in every published segment.
Filled(d, places) == pc[d] \in places \/ (polls[d] = segment[d].tscEnd /\ polls[d] > 0)

From(d) == IF options[d].mode = "difference" THEN polls[d] ELSE 1

CoreHolds(d) ==
    Filled(d, {"memory", "qpi", "publish"}) /\ Wanted(d, "core") =>
        segment[d].core = Window(From(d), polls[d] + 1)

MemoryHolds(d) ==
    Filled(d, {"qpi", "publish"}) /\ Wanted(d, "memory") =>
        \A k \in Rows :
            /\ segment[d].memory[k].counts[2] = polls[d] + 1
            /\ options[d].mode = "difference" /\ polls[d] > 1 =>
                  /\ segment[d].memory[k].counts = Window(polls[d], polls[d] + 1)
                  /\ segment[d].memory[k].elapsed = Window(polls[d], polls[d] + 1)

QPIHolds(d) ==
    Filled(d, {"publish"}) /\ Wanted(d, "qpi") =>
        \A k \in Rows : segment[d].qpi[k].bytes = Window(From(d), polls[d] + 1)

Contents == \A d \in Daemons : CoreHolds(d) /\ MemoryHolds(d) /\ QPIHolds(d)

\* What a client that reads undisturbed relies on: its segment is published and stays as it is.
Reading == {"note", "core", "memory", "qpi", "printed"}

Sees(c) ==
    /\ cpc[c] \in Reading \cup {"wait"} /\ segment[seen[c]].tscEnd = 0 => last[c] = 0
    /\ cpc[c] \in Reading /\ undisturbed[c] =>
          /\ polls[seen[c]] = segment[seen[c]].tscEnd /\ polls[seen[c]] > 0
          /\ cpc[c] # "note" =>
                /\ last[c] = segment[seen[c]].tscEnd
                /\ \A i \in DOMAIN picture[c] : picture[c][i][2] = last[c] + 1

Views == \A c \in Clients : Sees(c)

\* Of two daemons that are about at once, each is in the company of the other.
About(d) == pc[d] \notin Gone \cup {"arguments"}

Mutual == \A d, e \in Daemons : d # e /\ About(d) /\ About(e) => e \in company[d]

Findable ==
    \A d \in Daemons :
        pc[d] \in {"group", "attach", "program"} \cup Running /\ file # d => company[d] # {}

-----------------------------------------------------------------------------
(***************************************************************************)
(* Types.                                                                  *)
(***************************************************************************)
LEMMA SocketRows ==
    /\ 1 \in Rows
    /\ \A k \in Rows : OnlineSockets[k] \in Nat
BY DaemonsAndClients DEF Rows

LEMMA Bound == MaxPolls \in Nat
BY DaemonsAndClients

LEMMA Names == Nobody \notin Daemons /\ NoFile \notin Daemons /\ Empty \notin Daemons
BY DaemonsAndClients

LEMMA EmptyStateType == EmptyState \in Segments /\ \A b \in BOOLEAN : [EmptyState EXCEPT !.there = b] \in Segments
<1>1. NoWindow \in Windows
  BY DEF NoWindow, Window, Windows, NeverRead
<1>2. EmptyState.total \in [DOMAIN EmptyState.total -> [socket : Int, bytes : Windows]]
  BY <1>1 DEF EmptyState
<1>3. EmptyState.memory \in [Rows -> [socket : Nat, counts : Windows, elapsed : Windows]]
  BY <1>1 DEF EmptyState
<1>4. EmptyState.qpi \in [Rows -> [socket : Nat, bytes : Windows, utilization : Windows]]
  BY <1>1 DEF EmptyState
<1>5. EmptyState \in Segments
  <2>1. ASSUME NEW T, T = EmptyState.total, NEW M, M = EmptyState.memory, NEW Q, Q = EmptyState.qpi
        PROVE  EmptyState = [version |-> FALSE, tscEnd |-> 0, core |-> NoWindow, memory |-> M, qpi |-> Q,
                             total |-> T, removed |-> FALSE, there |-> FALSE]
    BY <2>1 DEF EmptyState
  <2>2. 0 \in 0..MaxPolls
    BY Bound
  <2>3. [version |-> FALSE, tscEnd |-> 0, core |-> NoWindow, memory |-> EmptyState.memory,
         qpi |-> EmptyState.qpi, total |-> EmptyState.total, removed |-> FALSE, there |-> FALSE] \in Segments
    BY <1>1, <1>2, <1>3, <1>4, <2>2 DEF Segments
  <2>4. QED
    BY <2>1, <2>3
<1>6. QED
  BY <1>5 DEF Segments

LEMMA RowTypes ==
    ASSUME TypeOK, NEW d \in Daemons
    PROVE  /\ Window(system[d].before, system[d].after) \in Windows
           /\ MemoryRows(d) \in [Rows -> [socket : Nat, counts : Windows, elapsed : Windows]]
           /\ QPIRows(d) \in [Rows -> [socket : Nat, bytes : Windows, utilization : Windows]]
           /\ \A total \in [DOMAIN EmptyState.total -> [socket : Int, bytes : Windows]] :
                 QPITotals(d, total) \in [DOMAIN EmptyState.total -> [socket : Int, bytes : Windows]]
<1>1. /\ system[d].before \in Int /\ system[d].after \in Int /\ system[d].forQPIBefore \in Int
      /\ uncore[d].before \in Int /\ time[d].before \in Int /\ time[d].after \in Int
      /\ polls[d] \in Int
  <2>1. system[d] \in [before : Int, after : Int, forQPIBefore : Int]
    BY DEF TypeOK, DaemonTypes
  <2>2. uncore[d] \in [before : Int, after : Int] /\ time[d] \in [before : Int, after : Int]
    BY DEF TypeOK, DaemonTypes
  <2>3. polls \in [Daemons -> 0..MaxPolls]
    BY DEF TypeOK, DaemonTypes
  <2>4. polls[d] \in Int
    BY <2>3, Bound
  <2>5. QED
    BY <2>1, <2>2, <2>4
<1>2. Window(system[d].before, system[d].after) \in Windows
  BY <1>1 DEF Window, Windows
<1>3. MemoryRows(d) \in [Rows -> [socket : Nat, counts : Windows, elapsed : Windows]]
  BY <1>1, SocketRows DEF MemoryRows, Window, Windows
<1>4. QPIRows(d) \in [Rows -> [socket : Nat, bytes : Windows, utilization : Windows]]
  BY <1>1, SocketRows DEF QPIRows, Window, Windows
<1>5. ASSUME NEW D, D = DOMAIN EmptyState.total, NEW total \in [D -> [socket : Int, bytes : Windows]]
      PROVE  QPITotals(d, total) \in [D -> [socket : Int, bytes : Windows]]
  <2>1. ASSUME NEW i \in D, \E k \in Rows : OnlineSockets[k] = i
        PROVE  i \in Int
    BY <2>1, SocketRows
  <2>2. QED
    BY <1>2, <2>1, <1>5 DEF QPITotals
<1>6. QED
  BY <1>2, <1>3, <1>4, <1>5

\* A segment stays one when a field of it is written.
LEMMA SegmentWritten ==
    ASSUME NEW s \in Segments
    PROVE  /\ \A b \in BOOLEAN : /\ [s EXCEPT !.version = b] \in Segments
                                 /\ [s EXCEPT !.removed = b] \in Segments
                                 /\ [s EXCEPT !.there = b] \in Segments
           /\ \A k \in 0..MaxPolls : [s EXCEPT !.tscEnd = k] \in Segments
           /\ \A w \in Windows : [s EXCEPT !.core = w] \in Segments
           /\ \A rows \in [Rows -> [socket : Nat, counts : Windows, elapsed : Windows]] :
                 [s EXCEPT !.memory = rows] \in Segments
           /\ \A rows \in [Rows -> [socket : Nat, bytes : Windows, utilization : Windows]],
                 total \in [DOMAIN EmptyState.total -> [socket : Int, bytes : Windows]] :
                 [s EXCEPT !.qpi = rows, !.total = total] \in Segments
BY DEF Segments

LEMMA InitType == Init => TypeOK
<1> SUFFICES ASSUME Init PROVE TypeOK
  OBVIOUS
<1>1. segment \in [Daemons -> Segments]
  BY EmptyStateType DEF Init
<1>2. /\ system \in [Daemons -> [before : Int, after : Int, forQPIBefore : Int]]
      /\ uncore \in [Daemons -> [before : Int, after : Int]]
      /\ time \in [Daemons -> [before : Int, after : Int]]
  BY DEF Init, NeverRead, Garbage
<1>3. polls \in [Daemons -> 0..MaxPolls] /\ last \in [Clients -> 0..MaxPolls]
  BY Bound DEF Init
<1>4. picture \in [Clients -> Seq(Windows)]
  BY DEF Init
<1>5. DaemonTypes
  BY <1>1, <1>2, <1>3 DEF Init, DaemonTypes
<1>6. ClientTypes
  BY <1>3, <1>4 DEF Init, ClientTypes
<1>7. QED
  BY <1>5, <1>6 DEF TypeOK

LEMMA FirstReading ==
    ASSUME NEW r \in [before : Int, after : Int, forQPIBefore : Int]
    PROVE  [r EXCEPT !.before = 1, !.forQPIBefore = 1] \in [before : Int, after : Int, forQPIBefore : Int]
<1>1. [r EXCEPT !.before = 1] \in [before : Int, after : Int, forQPIBefore : Int]
  OBVIOUS
<1>2. QED
  BY <1>1

LEMMA DaemonStepType ==
    ASSUME TypeOK, NEW d \in Daemons, DaemonStep(d) \/ Signal(d) \/ Kill(d)
    PROVE  TypeOK'
<1>0. /\ segment \in [Daemons -> Segments] /\ segment[d] \in Segments
      /\ polls \in [Daemons -> 0..MaxPolls]
      /\ system \in [Daemons -> [before : Int, after : Int, forQPIBefore : Int]]
      /\ uncore \in [Daemons -> [before : Int, after : Int]]
      /\ time \in [Daemons -> [before : Int, after : Int]]
      /\ company \in [Daemons -> SUBSET Daemons]
  BY DEF TypeOK, DaemonTypes
<1>1. CASE CreateSegment(d)
  <2>1. segment' \in [Daemons -> Segments]
    BY <1>0, <1>1, SegmentWritten DEF CreateSegment
  <2>2. company' \in [Daemons -> SUBSET Daemons]
    BY <1>0, <1>1 DEF CreateSegment
  <2>3. QED
    BY <1>1, <2>1, <2>2 DEF CreateSegment, Step, TypeOK, DaemonTypes, ClientTypes, clientVars
<1>2. CASE WriteId(d)
  BY <1>2 DEF WriteId, Step, TypeOK, DaemonTypes, ClientTypes, clientVars
<1>3. CASE UnknownGroup(d)
  BY <1>3 DEF UnknownGroup, Step, Gone, TypeOK, DaemonTypes, ClientTypes, clientVars
<1>4. CASE Attach(d)
  BY <1>4, EmptyStateType DEF Attach, Step, TypeOK, DaemonTypes, ClientTypes, clientVars
<1>5. CASE Program(d)
  <2>1. system' \in [Daemons -> [before : Int, after : Int, forQPIBefore : Int]]
    <3>1. [system[d] EXCEPT !.before = 1, !.forQPIBefore = 1] \in [before : Int, after : Int, forQPIBefore : Int]
      BY <1>0, FirstReading
    <3>2. QED
      BY <1>0, <1>5, <3>1 DEF Program
  <2>2. time' \in [Daemons -> [before : Int, after : Int]]
    <3>1. [time[d] EXCEPT !.after = 1] \in [before : Int, after : Int]
      BY <1>0
    <3>2. QED
      BY <1>0, <1>5, <3>1 DEF Program
  <2>3. QED
    BY <1>5, <2>1, <2>2 DEF Program, Step, Running, TypeOK, DaemonTypes, ClientTypes, clientVars
<1>6. CASE ProgramBusy(d)
  <2>1. segment' \in [Daemons -> Segments]
    BY <1>0, <1>6, SegmentWritten DEF ProgramBusy, Cleanup
  <2>2. QED
    BY <1>6, <2>1 DEF ProgramBusy, Cleanup, Step, Gone, TypeOK, DaemonTypes, ClientTypes, clientVars
<1>7. CASE BeginUpdate(d)
  <2>1. segment' \in [Daemons -> Segments]
    BY <1>0, <1>7, SegmentWritten DEF BeginUpdate
  <2>2. polls' \in [Daemons -> 0..MaxPolls] /\ polls'[d] + 1 \in Int
    BY <1>0, <1>7, Bound DEF BeginUpdate
  <2>3. /\ system' \in [Daemons -> [before : Int, after : Int, forQPIBefore : Int]]
        /\ time' \in [Daemons -> [before : Int, after : Int]]
    <3>1. ASSUME NEW n \in Int
          PROVE  /\ [system[d] EXCEPT !.after = n] \in [before : Int, after : Int, forQPIBefore : Int]
                 /\ [time[d] EXCEPT !.after = n] \in [before : Int, after : Int]
      BY <1>0
    <3>2. system' = [system EXCEPT ![d] = [system[d] EXCEPT !.after = polls'[d] + 1]]
      BY <1>0, <1>7 DEF BeginUpdate
    <3>3. time' = [time EXCEPT ![d] = [time[d] EXCEPT !.after = polls'[d] + 1]]
      BY <1>0, <1>7 DEF BeginUpdate
    <3>4. QED
      BY <1>0, <2>2, <3>1, <3>2, <3>3
  <2>4. undisturbed' \in [Clients -> BOOLEAN]
    BY <1>7 DEF BeginUpdate, TypeOK, ClientTypes
  <2>5. QED
    BY <1>7, <2>1, <2>2, <2>3, <2>4
       DEF BeginUpdate, Step, Running, TypeOK, DaemonTypes, ClientTypes, clientVars
<1>8. CASE getPCMCore(d)
  <2>1. segment' \in [Daemons -> Segments]
    BY <1>0, <1>8, RowTypes, SegmentWritten DEF getPCMCore
  <2>2. QED
    BY <1>8, <2>1 DEF getPCMCore, Step, After, Running, TypeOK, DaemonTypes, ClientTypes, clientVars
<1>9. CASE getPCMMemory(d)
  <2>1. segment' \in [Daemons -> Segments]
    <3>1. [segment[d] EXCEPT !.memory = MemoryRows(d)] \in Segments
      BY <1>0, RowTypes, SegmentWritten
    <3>2. segment' = segment \/ segment' = [segment EXCEPT ![d] = [segment[d] EXCEPT !.memory = MemoryRows(d)]]
      BY <1>0, <1>9 DEF getPCMMemory
    <3>3. QED
      BY <1>0, <3>1, <3>2
  <2>2. uncore' \in [Daemons -> [before : Int, after : Int]]
    <3>1. [uncore[d] EXCEPT !.after = polls[d] + 1] \in [before : Int, after : Int]
      BY <1>0, Bound
    <3>2. QED
      BY <1>0, <1>9, <3>1 DEF getPCMMemory
  <2>3. QED
    BY <1>9, <2>1, <2>2
       DEF getPCMMemory, Step, After, Running, TypeOK, DaemonTypes, ClientTypes, clientVars
<1>10. CASE getPCMQPI(d)
  <2>1. segment' \in [Daemons -> Segments]
    <3>1. segment[d].total \in [DOMAIN EmptyState.total -> [socket : Int, bytes : Windows]]
      BY <1>0 DEF Segments
    <3>2. [segment[d] EXCEPT !.qpi = QPIRows(d), !.total = QPITotals(d, segment[d].total)] \in Segments
      BY <1>0, <3>1, RowTypes, SegmentWritten
    <3>3. segment' = IF Wanted(d, "qpi")
                       THEN [segment EXCEPT ![d] = [segment[d] EXCEPT !.qpi = QPIRows(d),
                                                                      !.total = QPITotals(d, segment[d].total)]]
                       ELSE segment
      BY <1>0, <1>10 DEF getPCMQPI
    <3>4. QED
      BY <1>0, <3>2, <3>3
  <2>2. QED
    BY <1>10, <2>1 DEF getPCMQPI, Step, After, Running, TypeOK, DaemonTypes, ClientTypes, clientVars
<1>11. CASE Publish(d)
  <2>1. segment' \in [Daemons -> Segments]
    BY <1>0, <1>11, SegmentWritten DEF Publish, Timestamp
  <2>2. system' \in [Daemons -> [before : Int, after : Int, forQPIBefore : Int]]
    BY <1>0, <1>11 DEF Publish, Swapped
  <2>3. /\ uncore' \in [Daemons -> [before : Int, after : Int]]
        /\ time' \in [Daemons -> [before : Int, after : Int]]
    BY <1>0, <1>11 DEF Publish, Swapped
  <2>4. QED
    BY <1>11, <2>1, <2>2, <2>3
       DEF Publish, Step, After, Running, TypeOK, DaemonTypes, ClientTypes, clientVars
<1>12. CASE Signal(d)
  <2>1. segment' \in [Daemons -> Segments]
    BY <1>0, <1>12, SegmentWritten DEF Signal, Cleanup
  <2>2. QED
    BY <1>12, <2>1 DEF Signal, Cleanup, Gone, TypeOK, DaemonTypes, ClientTypes, clientVars
<1>13. CASE Kill(d)
  BY <1>13 DEF Kill, Gone, TypeOK, DaemonTypes, ClientTypes, clientVars
<1>14. QED
  BY <1>1, <1>2, <1>3, <1>4, <1>5, <1>6, <1>7, <1>8, <1>9, <1>10, <1>11, <1>12, <1>13 DEF DaemonStep

\* What a client reads of its segment.
LEMMA SegmentRead ==
    ASSUME TypeOK, NEW d \in Daemons
    PROVE  /\ segment[d].tscEnd \in 0..MaxPolls /\ segment[d].core \in Windows
           /\ segment[d].memory[1].counts \in Windows /\ segment[d].qpi[1].bytes \in Windows
<1>1. segment[d] \in Segments
  BY DEF TypeOK, DaemonTypes
<1>2. QED
  BY <1>1, SocketRows DEF Segments

LEMMA ClientStepType ==
    ASSUME TypeOK, NEW c \in Clients, ClientStep(c)
    PROVE  TypeOK'
<1>1. UNCHANGED <<daemonVars, file, segment, company, outdated>>
  BY DEF ClientStep, ReadId, Connect, OutOfDate, Notice, Note, LookAtCore, LookAtMemory, LookAtQPI, Look,
         ReadAgain
<1>2. DaemonTypes'
  BY <1>1 DEF TypeOK, DaemonTypes, daemonVars
<1>3. \A d \in Daemons : segment[d].tscEnd \in 0..MaxPolls
  BY SegmentRead
<1> USE DEF TypeOK, ClientTypes, CStep
<1>4. CASE ReadId(c)
  <2>1. \/ cpc' = [cpc EXCEPT ![c] = "failed"] /\ seen' = seen
        \/ \E d \in Daemons : cpc' = [cpc EXCEPT ![c] = "connect"] /\ seen' = [seen EXCEPT ![c] = d]
    BY <1>4 DEF ReadId, DaemonTypes
  <2>2. QED
    BY <1>4, <1>2, <2>1 DEF ReadId
<1>5. CASE Connect(c)
  BY <1>5, <1>2, <1>3 DEF Connect
<1>6. CASE OutOfDate(c)
  BY <1>6, <1>2 DEF OutOfDate
<1>7. CASE Notice(c)
  BY <1>7, <1>2 DEF Notice, UnderWay
<1>8. CASE Note(c)
  <2>1. last' \in [Clients -> 0..MaxPolls]
    BY <1>8, <1>3 DEF Note
  <2>2. picture' \in [Clients -> Seq(Windows)]
    <3>1. <<>> \in Seq(Windows)
      OBVIOUS
    <3>2. QED
      BY <1>8, <3>1 DEF Note
  <2>3. QED
    BY <1>8, <1>2, <2>1, <2>2 DEF Note
<1>9. ASSUME NEW t, NEW from \in {"core", "memory", "qpi"}, NEW to \in {"memory", "qpi", "printed"},
             NEW value \in Windows, Look(c, t, from, to, value)
      PROVE  TypeOK'
  <2>1. picture' \in [Clients -> Seq(Windows)]
    BY <1>9 DEF Look
  <2>2. QED
    BY <1>9, <1>2, <2>1 DEF Look
<1>10. CASE LookAtCore(c)
  BY <1>10, <1>9, SegmentRead DEF LookAtCore
<1>11. CASE LookAtMemory(c)
  BY <1>11, <1>9, SegmentRead DEF LookAtMemory
<1>12. CASE LookAtQPI(c)
  BY <1>12, <1>9, SegmentRead DEF LookAtQPI
<1>13. CASE ReadAgain(c)
  BY <1>13, <1>2 DEF ReadAgain
<1>14. QED
  BY <1>4, <1>5, <1>6, <1>7, <1>8, <1>10, <1>11, <1>12, <1>13 DEF ClientStep

LEMMA NextType == TypeOK /\ [Next]_vars => TypeOK'
<1>1. ASSUME TypeOK, UNCHANGED vars PROVE TypeOK'
  BY <1>1 DEF TypeOK, DaemonTypes, ClientTypes, vars, daemonVars, clientVars
<1>2. QED
  BY <1>1, DaemonStepType, ClientStepType DEF Next

\* The daemons' and the clients' variables keep their types: a client reads only a segment there is.
THEOREM TypeCorrect == Spec => []TypeOK
BY InitType, NextType, PTL DEF Spec

-----------------------------------------------------------------------------
(***************************************************************************)
(* What a step of daemon d leaves alone: the other daemons, and all that   *)
(* clients keep but the ghost; a client's step leaves the daemons alone.   *)
(***************************************************************************)
LEMMA Frame ==
    ASSUME TypeOK, NEW d \in Daemons, DaemonStep(d) \/ Signal(d) \/ Kill(d)
    PROVE  /\ UNCHANGED <<options, clientVars>>
           /\ \A e \in Daemons \ {d} :
                 /\ pc'[e] = pc[e] /\ segment'[e] = segment[e] /\ system'[e] = system[e]
                 /\ uncore'[e] = uncore[e] /\ time'[e] = time[e] /\ polls'[e] = polls[e]
<1> USE DEF TypeOK, DaemonTypes, Step
<1>1. CASE CreateSegment(d)
  BY <1>1 DEF CreateSegment
<1>2. CASE WriteId(d)
  BY <1>2 DEF WriteId
<1>3. CASE UnknownGroup(d)
  BY <1>3 DEF UnknownGroup
<1>4. CASE Attach(d)
  BY <1>4 DEF Attach
<1>5. CASE Program(d)
  BY <1>5 DEF Program
<1>6. CASE ProgramBusy(d)
  BY <1>6 DEF ProgramBusy, Cleanup
<1>7. CASE BeginUpdate(d)
  BY <1>7 DEF BeginUpdate
<1>8. CASE getPCMCore(d)
  BY <1>8 DEF getPCMCore
<1>9. CASE getPCMMemory(d)
  BY <1>9 DEF getPCMMemory
<1>10. CASE getPCMQPI(d)
  BY <1>10 DEF getPCMQPI
<1>11. CASE Publish(d)
  BY <1>11 DEF Publish
<1>12. CASE Signal(d)
  BY <1>12 DEF Signal, Cleanup
<1>13. CASE Kill(d)
  BY <1>13 DEF Kill
<1>14. QED
  BY <1>1, <1>2, <1>3, <1>4, <1>5, <1>6, <1>7, <1>8, <1>9, <1>10, <1>11, <1>12, <1>13 DEF DaemonStep

LEMMA ClientFrame ==
    ASSUME NEW c \in Clients, ClientStep(c)
    PROVE  UNCHANGED <<daemonVars, file, segment, company, outdated>>
BY DEF ClientStep, ReadId, Connect, OutOfDate, Notice, Note, LookAtCore, LookAtMemory, LookAtQPI, Look,
       ReadAgain

(***************************************************************************)
(* The daemon's own invariants.                                            *)
(***************************************************************************)
LEMMA InitDaemon == Init => Timestamps /\ Readings /\ Contents
BY DEF Init, Timestamps, Timed, Readings, Held, Contents, CoreHolds, MemoryHolds, QPIHolds, Filled,
       Filling, Running, Gone, EmptyState

\* The fields a daemon's own step writes, of the shapes the provers need them in.
LEMMA OwnFields ==
    ASSUME TypeOK, NEW d \in Daemons
    PROVE  /\ polls[d] \in Nat /\ segment[d].tscEnd \in Nat
           /\ system[d].before \in Int /\ system[d].after \in Int
           /\ uncore[d].before \in Int /\ uncore[d].after \in Int
           /\ time[d].before \in Int /\ time[d].after \in Int
<1>1. polls[d] \in 0..MaxPolls /\ segment[d] \in Segments
  BY DEF TypeOK, DaemonTypes
<1>2. segment[d].tscEnd \in 0..MaxPolls
  BY <1>1 DEF Segments
<1>3. /\ system[d] \in [before : Int, after : Int, forQPIBefore : Int]
      /\ uncore[d] \in [before : Int, after : Int] /\ time[d] \in [before : Int, after : Int]
  BY DEF TypeOK, DaemonTypes
<1>4. QED
  BY <1>1, <1>2, <1>3, Bound

\* What the filling of a table writes to the segment.
LEMMA CoreWritten ==
    ASSUME TypeOK, NEW d \in Daemons, getPCMCore(d)
    PROVE  /\ segment'[d].tscEnd = segment[d].tscEnd
           /\ segment'[d].memory = segment[d].memory /\ segment'[d].qpi = segment[d].qpi
           /\ Wanted(d, "core") => segment'[d].core = Window(system[d].before, system[d].after)
<1>1. segment \in [Daemons -> Segments] /\ segment[d] \in Segments
  BY DEF TypeOK, DaemonTypes
<1>2. QED
  BY <1>1 DEF getPCMCore, Segments

LEMMA MemoryWritten ==
    ASSUME TypeOK, NEW d \in Daemons, getPCMMemory(d)
    PROVE  /\ segment'[d].tscEnd = segment[d].tscEnd
           /\ segment'[d].core = segment[d].core /\ segment'[d].qpi = segment[d].qpi
           /\ Wanted(d, "memory") => segment'[d].memory = MemoryRows(d)
<1>1. segment \in [Daemons -> Segments] /\ segment[d] \in Segments
  BY DEF TypeOK, DaemonTypes
<1>2. QED
  BY <1>1 DEF getPCMMemory, Segments

LEMMA QPIWritten ==
    ASSUME TypeOK, NEW d \in Daemons, getPCMQPI(d)
    PROVE  /\ segment'[d].tscEnd = segment[d].tscEnd
           /\ segment'[d].core = segment[d].core /\ segment'[d].memory = segment[d].memory
           /\ Wanted(d, "qpi") => segment'[d].qpi = QPIRows(d)
<1>1. segment \in [Daemons -> Segments] /\ segment[d] \in Segments
  BY DEF TypeOK, DaemonTypes
<1> DEFINE written == [segment[d] EXCEPT !.qpi = QPIRows(d), !.total = QPITotals(d, segment[d].total)]
<1>2. segment' = IF Wanted(d, "qpi") THEN [segment EXCEPT ![d] = written] ELSE segment
  BY <1>1 DEF getPCMQPI
<1>3. /\ written.tscEnd = segment[d].tscEnd /\ written.core = segment[d].core
      /\ written.memory = segment[d].memory /\ written.qpi = QPIRows(d)
  BY <1>1 DEF Segments
<1> HIDE DEF written
<1>4. QED
  BY <1>1, <1>2, <1>3

LEMMA StepTimed ==
    ASSUME TypeOK, Timestamps, NEW d \in Daemons, DaemonStep(d) \/ Signal(d) \/ Kill(d)
    PROVE  Timed(d)'
<1>0. /\ Timed(d) /\ segment \in [Daemons -> Segments] /\ segment[d] \in Segments
      /\ polls \in [Daemons -> 0..MaxPolls] /\ pc \in [Daemons -> {"arguments", "write id", "group", "attach", "program"} \cup Running \cup Gone]
      /\ polls[d] \in Nat /\ segment[d].tscEnd \in Nat
  BY OwnFields DEF Timestamps, TypeOK, DaemonTypes
<1> USE DEF Step, Timed, Filling, Running, Gone
<1>1. CASE CreateSegment(d)
  BY <1>0, <1>1 DEF CreateSegment, Segments
<1>2. CASE WriteId(d)
  BY <1>0, <1>2 DEF WriteId
<1>3. CASE UnknownGroup(d)
  BY <1>0, <1>3 DEF UnknownGroup
<1>4. CASE Attach(d)
  BY <1>0, <1>4 DEF Attach, EmptyState
<1>5. CASE Program(d)
  BY <1>0, <1>5 DEF Program
<1>6. CASE ProgramBusy(d)
  BY <1>0, <1>6 DEF ProgramBusy, Cleanup
<1>7. CASE BeginUpdate(d)
  BY <1>0, <1>7 DEF BeginUpdate, Segments
<1>8. CASE getPCMCore(d)
  BY <1>0, <1>8, CoreWritten DEF getPCMCore, After
<1>9. CASE getPCMMemory(d)
  BY <1>0, <1>9, MemoryWritten DEF getPCMMemory, After
<1>10. CASE getPCMQPI(d)
  BY <1>0, <1>10, QPIWritten DEF getPCMQPI, After
<1>11. CASE Publish(d)
  BY <1>0, <1>11 DEF Publish, After, Timestamp, Segments
<1>12. CASE Signal(d)
  BY <1>0, <1>12 DEF Signal, Cleanup
<1>13. CASE Kill(d)
  BY <1>0, <1>13 DEF Kill
<1>14. QED
  BY <1>1, <1>2, <1>3, <1>4, <1>5, <1>6, <1>7, <1>8, <1>9, <1>10, <1>11, <1>12, <1>13 DEF DaemonStep


LEMMA StepHeld ==
    ASSUME TypeOK, Timestamps, Readings, NEW d \in Daemons, DaemonStep(d) \/ Signal(d) \/ Kill(d)
    PROVE  Held(d)'
<1>0. /\ Timed(d) /\ Held(d) /\ segment \in [Daemons -> Segments] /\ segment[d] \in Segments
      /\ system \in [Daemons -> [before : Int, after : Int, forQPIBefore : Int]]
      /\ uncore \in [Daemons -> [before : Int, after : Int]] /\ time \in [Daemons -> [before : Int, after : Int]]
      /\ polls \in [Daemons -> 0..MaxPolls]
      /\ pc \in [Daemons -> {"arguments", "write id", "group", "attach", "program"} \cup Running \cup Gone]
  BY DEF Timestamps, Readings, TypeOK, DaemonTypes
<1>t. /\ polls[d] \in Nat /\ segment[d].tscEnd \in Nat
      /\ system[d] \in [before : Int, after : Int, forQPIBefore : Int]
      /\ uncore[d] \in [before : Int, after : Int] /\ time[d] \in [before : Int, after : Int]
  BY <1>0, OwnFields
<1>n. polls[d] \in Nat /\ segment[d].tscEnd \in Nat
  BY <1>t
<1>f. UNCHANGED options
  BY Frame
<1> USE DEF Step, Held
<1>1. ASSUME pc'[d] \notin Running
      PROVE  Held(d)'
  BY <1>1
<1>2. CASE CreateSegment(d) \/ WriteId(d) \/ UnknownGroup(d) \/ Attach(d) \/ ProgramBusy(d) \/ Signal(d) \/ Kill(d)
  <2>1. pc'[d] \notin Running
    BY <1>0, <1>2 DEF CreateSegment, WriteId, UnknownGroup, Attach, ProgramBusy, Signal, Kill, Running
  <2>2. QED
    BY <1>1, <2>1
<1>3. CASE Program(d)
  <2>1. system'[d].before = 1 /\ segment' = segment /\ pc'[d] = "sleep" /\ segment[d].tscEnd = 0
    BY <1>0, <1>t, <1>3 DEF Program, Timed, Running, Gone
  <2>2. QED
    BY <2>1 DEF Filling, HeldSystem, HeldTime, HeldUncore
<1>4. CASE BeginUpdate(d)
  <2>1. /\ system'[d].before = system[d].before /\ system'[d].after = polls'[d] + 1
        /\ time'[d].before = time[d].before /\ time'[d].after = polls'[d] + 1
        /\ uncore' = uncore /\ pc[d] = "sleep" /\ pc'[d] = "core" /\ polls'[d] = polls[d] + 1
    BY <1>0, <1>t, <1>4 DEF BeginUpdate
  <2>2. segment'[d].tscEnd = segment[d].tscEnd /\ polls[d] = segment[d].tscEnd
    BY <1>0, <1>4, <2>1 DEF BeginUpdate, Timed, Segments
  <2>3. HeldSystem(d) /\ HeldTime(d) /\ HeldUncore(d)
    BY <1>0, <2>1 DEF Running
  <2>4. polls'[d] + 1 = segment[d].tscEnd + 2
    BY <1>n, <2>1, <2>2
  <2>5. HeldSystem(d)'
    BY <1>f, <2>1, <2>2, <2>3, <2>4 DEF HeldSystem
  <2>6. HeldTime(d)'
    BY <2>1, <2>2, <2>3, <2>4 DEF HeldTime
  <2>7. HeldUncore(d)'
    BY <1>f, <2>1, <2>2, <2>3 DEF HeldUncore, Wanted
  <2>8. QED
    BY <2>5, <2>6, <2>7
<1>5. CASE getPCMCore(d)
  <2>1. pc[d] = "core" /\ pc'[d] = "memory" /\ UNCHANGED <<system, uncore, time>>
    BY <1>0, <1>5 DEF getPCMCore, After
  <2>2. QED
    BY <1>0, <1>5, <1>f, <2>1, CoreWritten DEF Running, Filling, HeldSystem, HeldTime, HeldUncore, Wanted
<1>6. CASE getPCMMemory(d)
  <2>1. pc[d] = "memory" /\ pc'[d] = "qpi" /\ UNCHANGED <<system, time>>
    BY <1>0, <1>6 DEF getPCMMemory, After
  <2>2. /\ uncore'[d].before = uncore[d].before
        /\ Wanted(d, "memory") => uncore'[d].after = polls[d] + 1
    <3>1. CASE Wanted(d, "memory")
      <4>1. uncore' = [uncore EXCEPT ![d] = [uncore[d] EXCEPT !.after = polls[d] + 1]]
        BY <1>6, <3>1 DEF getPCMMemory
      <4>2. uncore'[d] = [uncore[d] EXCEPT !.after = polls[d] + 1]
        BY <1>0, <4>1
      <4>3. QED
        BY <1>t, <4>2
    <3>2. CASE ~Wanted(d, "memory")
      BY <1>6, <3>2 DEF getPCMMemory
    <3>3. QED
      BY <3>1, <3>2
  <2>3. polls[d] = segment[d].tscEnd + 1
    BY <1>0, <2>1 DEF Timed, Filling
  <2>4. /\ HeldSystem(d) /\ HeldTime(d) /\ HeldUncore(d) /\ polls[d] + 1 = segment[d].tscEnd + 2
        /\ segment'[d].tscEnd = segment[d].tscEnd
    <3>1. HeldSystem(d) /\ HeldTime(d) /\ HeldUncore(d)
      BY <1>0, <2>1 DEF Running
    <3>2. polls[d] + 1 = segment[d].tscEnd + 2
      BY <1>n, <2>3
    <3>3. QED
      BY <1>6, <3>1, <3>2, MemoryWritten
  <2>5. HeldSystem(d)' /\ HeldTime(d)' /\ HeldUncore(d)'
    BY <1>f, <2>1, <2>2, <2>4 DEF Filling, HeldSystem, HeldTime, HeldUncore, Wanted
  <2>6. QED
    BY <2>5
<1>7. CASE getPCMQPI(d)
  <2>1. pc[d] = "qpi" /\ pc'[d] = "publish" /\ UNCHANGED <<system, uncore, time>>
    BY <1>0, <1>7 DEF getPCMQPI, After
  <2>2. QED
    BY <1>0, <1>7, <1>f, <2>1, QPIWritten DEF Running, Filling, HeldSystem, HeldTime, HeldUncore, Wanted
<1>8. CASE Publish(d)
  <2>1. pc[d] = "publish" /\ pc'[d] = "sleep" /\ polls[d] = segment[d].tscEnd + 1
    BY <1>0, <1>8 DEF Publish, After, Timed, Filling
  <2>2. segment'[d].tscEnd = polls[d]
    BY <1>0, <1>8 DEF Publish, Timestamp, Segments
  <2>3. /\ time'[d].before = time[d].after
        /\ options[d].mode = "difference" => system'[d].before = system[d].after /\ uncore'[d].before = uncore[d].after
        /\ options[d].mode # "difference" => system'[d].before = system[d].before
    BY <1>0, <1>t, <1>8 DEF Publish, Swapped
  <2>4. /\ HeldSystem(d) /\ HeldTime(d) /\ HeldUncore(d)
        /\ segment'[d].tscEnd = segment[d].tscEnd + 1 /\ segment[d].tscEnd + 2 = segment'[d].tscEnd + 1
    <3>1. HeldSystem(d) /\ HeldTime(d) /\ HeldUncore(d)
      BY <1>0, <2>1 DEF Running
    <3>2. polls[d] = segment[d].tscEnd + 1 /\ polls[d] + 1 = segment[d].tscEnd + 2
      BY <1>n, <2>1
    <3>3. QED
      BY <2>2, <3>1, <3>2
  <2>5. HeldSystem(d)' /\ HeldTime(d)' /\ HeldUncore(d)'
    BY <1>f, <2>1, <2>3, <2>4 DEF Filling, HeldSystem, HeldTime, HeldUncore, Wanted
  <2>6. QED
    BY <2>5
<1>9. QED
  BY <1>2, <1>3, <1>4, <1>5, <1>6, <1>7, <1>8 DEF DaemonStep

\* What a step that fills no table does to the ones there are.
TablesStay(d) ==
    /\ segment'[d].core = segment[d].core /\ segment'[d].memory = segment[d].memory
    /\ segment'[d].qpi = segment[d].qpi

LEMMA StepContents ==
    ASSUME TypeOK, Timestamps, Readings, Contents, NEW d \in Daemons, DaemonStep(d) \/ Signal(d) \/ Kill(d)
    PROVE  CoreHolds(d)' /\ MemoryHolds(d)' /\ QPIHolds(d)'
<1>0. /\ Timed(d) /\ Held(d) /\ CoreHolds(d) /\ MemoryHolds(d) /\ QPIHolds(d)
  BY DEF Timestamps, Readings, Contents
<1>1. /\ segment \in [Daemons -> Segments] /\ segment[d] \in Segments /\ polls \in [Daemons -> 0..MaxPolls]
      /\ pc \in [Daemons -> {"arguments", "write id", "group", "attach", "program"} \cup Running \cup Gone]
  BY DEF TypeOK, DaemonTypes
<1>2. polls[d] \in Nat /\ segment[d].tscEnd \in Nat
  BY OwnFields
<1>3. UNCHANGED options
  BY Frame
<1> USE DEF Step, Window
<1>4. CASE CreateSegment(d) \/ WriteId(d) \/ UnknownGroup(d) \/ Attach(d) \/ Program(d)
  <2>1. pc'[d] \in {"write id", "group", "attach", "refused", "program", "sleep"} /\ polls'[d] = polls[d]
    BY <1>1, <1>4 DEF CreateSegment, WriteId, UnknownGroup, Attach, Program
  <2>2. polls[d] = 0
    BY <1>0, <1>4 DEF Timed, Running, Gone, CreateSegment, WriteId, UnknownGroup, Attach, Program
  <2>3. ~(polls'[d] > 0) /\ pc'[d] \notin {"memory", "qpi", "publish"}
    <3>1. polls'[d] = 0
      BY <2>1, <2>2
    <3>2. ~(polls'[d] > 0)
      BY <3>1
    <3>3. QED
      BY <2>1, <3>2
  <2>4. QED
    BY <2>3 DEF CoreHolds, MemoryHolds, QPIHolds, Filled
<1>5. CASE ProgramBusy(d) \/ Signal(d) \/ Kill(d)
  <2>1. pc'[d] \in Gone /\ polls' = polls /\ segment'[d].tscEnd = segment[d].tscEnd /\ TablesStay(d)
    <3>1. CASE ProgramBusy(d)
      BY <1>1, <3>1 DEF ProgramBusy, Cleanup, Gone, Segments, TablesStay
    <3>2. CASE Signal(d)
      BY <1>1, <3>2 DEF Signal, Cleanup, Gone, Segments, TablesStay
    <3>3. CASE Kill(d)
      BY <1>1, <3>3 DEF Kill, Gone, TablesStay
    <3>4. QED
      BY <1>5, <3>1, <3>2, <3>3
  <2>2. QED
    BY <1>0, <1>3, <2>1 DEF CoreHolds, MemoryHolds, QPIHolds, Filled, Gone, TablesStay, From, Wanted
<1>6. CASE BeginUpdate(d)
  <2>1. pc[d] = "sleep" /\ pc'[d] = "core" /\ polls'[d] = polls[d] + 1
    BY <1>1, <1>6 DEF BeginUpdate
  <2>2. segment'[d].tscEnd = segment[d].tscEnd /\ polls[d] = segment[d].tscEnd
    BY <1>0, <1>1, <1>6, <2>1 DEF BeginUpdate, Timed, Segments
  <2>3. polls'[d] # segment'[d].tscEnd
    BY <1>2, <2>1, <2>2
  <2>4. QED
    BY <2>1, <2>3 DEF CoreHolds, MemoryHolds, QPIHolds, Filled
<1>7. CASE getPCMCore(d)
  <2>1. pc[d] = "core" /\ pc'[d] = "memory" /\ polls' = polls
    BY <1>1, <1>7 DEF getPCMCore, After
  <2>2. polls[d] = segment[d].tscEnd + 1 /\ HeldSystem(d)
    BY <1>0, <2>1 DEF Timed, Held, Filling, Running
  <2>3. system[d].before = From(d) /\ system[d].after = polls[d] + 1
    BY <1>2, <2>1, <2>2 DEF HeldSystem, Filling, From
  <2>4. polls'[d] # segment'[d].tscEnd
    BY <1>2, <1>7, <2>1, <2>2, CoreWritten
  <2>5. QED
    BY <1>3, <1>7, <2>1, <2>3, <2>4, CoreWritten DEF CoreHolds, MemoryHolds, QPIHolds, Filled, Wanted, From
<1>8. CASE getPCMMemory(d)
  <2>1. pc[d] = "memory" /\ pc'[d] = "qpi" /\ polls' = polls
    BY <1>1, <1>8 DEF getPCMMemory, After
  <2>2. polls[d] = segment[d].tscEnd + 1 /\ HeldTime(d) /\ HeldUncore(d)
    BY <1>0, <2>1 DEF Timed, Held, Filling, Running
  <2>3. polls'[d] # segment'[d].tscEnd /\ segment'[d].core = segment[d].core
    BY <1>2, <1>8, <2>1, <2>2, MemoryWritten
  <2>4. CoreHolds(d)' /\ QPIHolds(d)'
    BY <1>0, <1>3, <2>1, <2>3 DEF CoreHolds, QPIHolds, Filled, Wanted, From
  <2>5. ASSUME options[d].mode = "difference", polls[d] > 1, Wanted(d, "memory")
        PROVE  uncore[d].before = polls[d] /\ time[d].before = polls[d] /\ time[d].after = polls[d] + 1
    BY <1>2, <2>1, <2>2, <2>5 DEF HeldTime, HeldUncore, Filling
  <2>6. Wanted(d, "memory") => segment'[d].memory = MemoryRows(d)
    BY <1>8, MemoryWritten
  <2>7. MemoryHolds(d)'
    BY <1>3, <2>1, <2>5, <2>6 DEF MemoryHolds, MemoryRows, Wanted
  <2>8. QED
    BY <2>4, <2>7
<1>9. CASE getPCMQPI(d)
  <2>1. pc[d] = "qpi" /\ pc'[d] = "publish" /\ polls' = polls
    BY <1>1, <1>9 DEF getPCMQPI, After
  <2>2. polls[d] = segment[d].tscEnd + 1 /\ HeldSystem(d)
    BY <1>0, <2>1 DEF Timed, Held, Filling, Running
  <2>3. system[d].before = From(d) /\ system[d].after = polls[d] + 1
    BY <1>2, <2>1, <2>2 DEF HeldSystem, Filling, From
  <2>4. CoreHolds(d)' /\ MemoryHolds(d)'
    BY <1>0, <1>3, <1>9, <2>1, QPIWritten DEF CoreHolds, MemoryHolds, Filled, Wanted, From
  <2>5. Wanted(d, "qpi") => segment'[d].qpi = QPIRows(d)
    BY <1>9, QPIWritten
  <2>6. QPIHolds(d)'
    BY <1>3, <2>1, <2>3, <2>5 DEF QPIHolds, QPIRows, Wanted, From
  <2>7. QED
    BY <2>4, <2>6
<1>10. CASE Publish(d)
  <2>1. pc[d] = "publish" /\ polls' = polls /\ TablesStay(d)
    BY <1>1, <1>10 DEF Publish, After, Segments, TablesStay
  <2>2. QED
    BY <1>0, <1>3, <2>1 DEF CoreHolds, MemoryHolds, QPIHolds, Filled, TablesStay, From, Wanted
<1>11. QED
  BY <1>4, <1>5, <1>6, <1>7, <1>8, <1>9, <1>10 DEF DaemonStep

LEMMA NextDaemon ==
    TypeOK /\ Timestamps /\ Readings /\ Contents /\ [Next]_vars => (Timestamps /\ Readings /\ Contents)'
<1> SUFFICES ASSUME TypeOK, Timestamps, Readings, Contents, [Next]_vars
             PROVE  (Timestamps /\ Readings /\ Contents)'
  OBVIOUS
<1> USE DEF Timestamps, Timed, Readings, Held, HeldSystem, HeldTime, HeldUncore,
            Contents, CoreHolds, MemoryHolds, QPIHolds, Filled, From, Wanted
<1>1. ASSUME NEW d \in Daemons, DaemonStep(d) \/ Signal(d) \/ Kill(d)
      PROVE  (Timestamps /\ Readings /\ Contents)'
  <2>1. ASSUME NEW e \in Daemons, e # d
        PROVE  Timed(e)' /\ Held(e)' /\ CoreHolds(e)' /\ MemoryHolds(e)' /\ QPIHolds(e)'
    <3>1. /\ pc'[e] = pc[e] /\ segment'[e] = segment[e] /\ system'[e] = system[e] /\ uncore'[e] = uncore[e]
          /\ time'[e] = time[e] /\ polls'[e] = polls[e] /\ options' = options
      BY <1>1, <2>1, Frame
    <3>2. QED
      BY <3>1
  <2>2. Timed(d)' /\ Held(d)' /\ CoreHolds(d)' /\ MemoryHolds(d)' /\ QPIHolds(d)'
    BY <1>1, StepTimed, StepHeld, StepContents
  <2> HIDE DEF Timed, Held, CoreHolds, MemoryHolds, QPIHolds
  <2>3. QED
    BY <2>1, <2>2
<1>2. ASSUME UNCHANGED <<daemonVars, segment>>
      PROVE  (Timestamps /\ Readings /\ Contents)'
  BY <1>2 DEF daemonVars
<1>3. ASSUME NEW c \in Clients, ClientStep(c)
      PROVE  (Timestamps /\ Readings /\ Contents)'
  BY <1>3, <1>2, ClientFrame
<1>4. CASE UNCHANGED vars
  BY <1>4, <1>2 DEF vars
<1>5. QED
  BY <1>1, <1>3, <1>4 DEF Next

LEMMA DaemonInvariants == Spec => [](TypeOK /\ Timestamps /\ Readings /\ Contents)
BY InitType, InitDaemon, NextType, NextDaemon, PTL DEF Spec

\* In difference mode the windows of successive updates follow one another and the rates divide by
\* the time of their own window; in absolute mode the numbers count from the first reading.
THEOREM WindowsAlwaysFollow == Spec => []WindowsFollow
<1>1. TypeOK /\ Timestamps /\ Contents => WindowsFollow
  <2> SUFFICES ASSUME TypeOK, Timestamps, Contents, NEW d \in Daemons, pc[d] = "sleep", polls[d] > 0
               PROVE  LET s == segment[d]
                          n == polls[d]
                          from == IF options[d].mode = "difference" THEN n ELSE 1 IN
                      /\ Wanted(d, "core") => s.core = Window(from, n + 1)
                      /\ Wanted(d, "qpi") => \A k \in Rows : s.qpi[k].bytes = Window(from, n + 1)
                      /\ Wanted(d, "memory") /\ options[d].mode = "difference" /\ n > 1 =>
                            \A k \in Rows : /\ s.memory[k].counts = Window(n, n + 1)
                                            /\ s.memory[k].elapsed = Window(n, n + 1)
    BY DEF WindowsFollow
  <2>1. polls[d] = segment[d].tscEnd
    BY DEF Timestamps, Timed
  <2>2. CoreHolds(d) /\ MemoryHolds(d) /\ QPIHolds(d)
    BY DEF Contents
  <2>3. QED
    BY <2>1, <2>2 DEF CoreHolds, MemoryHolds, QPIHolds, Filled, From
<1>2. QED
  BY <1>1, DaemonInvariants, PTL

-----------------------------------------------------------------------------
(***************************************************************************)
(* Clients.  A daemon whose segment a client has seen updated changes it   *)
(* only in an update, and the begin of one disturbs that client.           *)
(***************************************************************************)
LEMMA StepPublished ==
    ASSUME TypeOK, Timestamps, NEW d \in Daemons, DaemonStep(d) \/ Signal(d) \/ Kill(d)
    PROVE  /\ segment'[d].tscEnd = 0 => segment[d].tscEnd = 0
           /\ polls[d] = segment[d].tscEnd /\ polls[d] > 0 =>
                 \/ polls'[d] = polls[d] /\ segment'[d].tscEnd = segment[d].tscEnd
                 \/ undisturbed' = [c \in Clients |-> undisturbed[c] /\ seen[c] # d]
<1>0. /\ Timed(d) /\ segment \in [Daemons -> Segments] /\ segment[d] \in Segments
      /\ polls \in [Daemons -> 0..MaxPolls]
      /\ polls[d] \in Nat /\ segment[d].tscEnd \in Nat
  BY OwnFields DEF Timestamps, TypeOK, DaemonTypes
<1> USE DEF Step, Timed, Filling, Running, Gone
<1>1. CASE CreateSegment(d)
  BY <1>0, <1>1 DEF CreateSegment, Segments
<1>2. CASE WriteId(d)
  BY <1>0, <1>2 DEF WriteId
<1>3. CASE UnknownGroup(d)
  BY <1>0, <1>3 DEF UnknownGroup
<1>4. CASE Attach(d)
  <2>1. polls[d] = 0 /\ segment[d].tscEnd = 0
    BY <1>0, <1>4 DEF Attach
  <2>2. QED
    BY <2>1
<1>5. CASE Program(d)
  BY <1>0, <1>5 DEF Program
<1>6. CASE ProgramBusy(d)
  BY <1>0, <1>6 DEF ProgramBusy, Cleanup
<1>7. CASE BeginUpdate(d)
  <2>1. segment'[d].tscEnd = segment[d].tscEnd
    BY <1>0, <1>7 DEF BeginUpdate, Segments
  <2>2. QED
    BY <1>7, <2>1 DEF BeginUpdate
<1>8. CASE getPCMCore(d)
  BY <1>0, <1>8, CoreWritten DEF getPCMCore
<1>9. CASE getPCMMemory(d)
  BY <1>0, <1>9, MemoryWritten DEF getPCMMemory
<1>10. CASE getPCMQPI(d)
  BY <1>0, <1>10, QPIWritten DEF getPCMQPI
<1>11. CASE Publish(d)
  <2>1. polls[d] = segment[d].tscEnd + 1 /\ segment'[d].tscEnd = polls[d]
    BY <1>0, <1>11 DEF Publish, Timestamp, Segments
  <2>2. QED
    BY <1>0, <2>1
<1>12. CASE Signal(d)
  BY <1>0, <1>12 DEF Signal, Cleanup
<1>13. CASE Kill(d)
  BY <1>0, <1>13 DEF Kill
<1>14. QED
  BY <1>1, <1>2, <1>3, <1>4, <1>5, <1>6, <1>7, <1>8, <1>9, <1>10, <1>11, <1>12, <1>13 DEF DaemonStep

\* No step of a daemon makes a client undisturbed.
LEMMA StepDisturbs ==
    ASSUME TypeOK, NEW d \in Daemons, DaemonStep(d) \/ Signal(d) \/ Kill(d), NEW c \in Clients,
           undisturbed'[c]
    PROVE  undisturbed[c]
BY DEF DaemonStep, CreateSegment, WriteId, UnknownGroup, Attach, Program, ProgramBusy, BeginUpdate, getPCMCore,
       getPCMMemory, getPCMQPI, Publish, Signal, Kill

LEMMA DaemonStepViews ==
    ASSUME TypeOK, Timestamps, Views, NEW d \in Daemons, DaemonStep(d) \/ Signal(d) \/ Kill(d)
    PROVE  Views'
<1>1. UNCHANGED clientVars
  BY Frame
<1> SUFFICES ASSUME NEW c \in Clients PROVE Sees(c)'
  BY DEF Views
<1>2. Sees(c) /\ (cpc[c] \in Reading \cup {"wait"} => seen[c] \in Daemons)
  BY DEF Views, Reading, TypeOK, ClientTypes
<1>3. UNCHANGED <<cpc, seen, last, picture>>
  BY <1>1 DEF clientVars
<1>4. CASE seen[c] # d
  <2>1. seen[c] \in Daemons => segment'[seen[c]] = segment[seen[c]] /\ polls'[seen[c]] = polls[seen[c]]
    BY <1>4, Frame
  <2>2. undisturbed'[c] => undisturbed[c]
    BY StepDisturbs
  <2>3. QED
    BY <1>2, <1>3, <2>1, <2>2 DEF Sees
<1>5. CASE seen[c] = d
  <2>1. cpc[c] \in Reading \cup {"wait"} /\ segment'[d].tscEnd = 0 => last[c] = 0
    BY <1>2, <1>5, StepPublished DEF Sees
  <2>2. ASSUME cpc[c] \in Reading, undisturbed'[c]
        PROVE  /\ polls'[d] = segment'[d].tscEnd /\ polls'[d] > 0 /\ segment'[d].tscEnd = segment[d].tscEnd
    <3>1. undisturbed[c]
      BY <2>2, StepDisturbs
    <3>2. polls[d] = segment[d].tscEnd /\ polls[d] > 0
      BY <1>2, <1>5, <2>2, <3>1 DEF Sees
    <3>3. ~(undisturbed' = [b \in Clients |-> undisturbed[b] /\ seen[b] # d])
      BY <1>5, <2>2
    <3>4. QED
      BY <3>2, <3>3, StepPublished
  <2>3. undisturbed'[c] => undisturbed[c]
    BY StepDisturbs
  <2>4. QED
    BY <1>2, <1>3, <1>5, <2>1, <2>2, <2>3 DEF Sees
<1>6. QED
  BY <1>4, <1>5

\* What is published ends with the reading of its update.
LEMMA PublishedEnds ==
    ASSUME TypeOK, Contents, NEW d \in Daemons, polls[d] = segment[d].tscEnd, polls[d] > 0
    PROVE  /\ Wanted(d, "core") => segment[d].core[2] = polls[d] + 1
           /\ Wanted(d, "memory") => segment[d].memory[1].counts[2] = polls[d] + 1
           /\ Wanted(d, "qpi") => segment[d].qpi[1].bytes[2] = polls[d] + 1
BY SocketRows DEF Contents, CoreHolds, MemoryHolds, QPIHolds, Filled, Window

LEMMA ClientStepViews ==
    ASSUME TypeOK, Contents, Views, NEW c \in Clients, ClientStep(c)
    PROVE  Views'
<1>1. UNCHANGED <<segment, polls, options>>
  BY ClientFrame DEF daemonVars
<1>2. /\ cpc \in [Clients -> {"start", "connect", "wait", "note", "core", "memory", "qpi", "printed", "failed"}]
      /\ seen \in [Clients -> Daemons \cup {Nobody}] /\ last \in [Clients -> 0..MaxPolls]
      /\ picture \in [Clients -> Seq(Windows)] /\ undisturbed \in [Clients -> BOOLEAN]
  BY DEF TypeOK, ClientTypes
<1>3. ASSUME NEW b \in Clients, b # c
      PROVE  Sees(b)'
  <2>1. /\ cpc'[b] = cpc[b] /\ seen'[b] = seen[b] /\ last'[b] = last[b] /\ picture'[b] = picture[b]
        /\ undisturbed'[b] = undisturbed[b]
    BY <1>2, <1>3 DEF ClientStep, CStep, ReadId, Connect, OutOfDate, Notice, Note, LookAtCore, LookAtMemory,
                      LookAtQPI, Look, ReadAgain
  <2>2. QED
    BY <1>1, <2>1 DEF Views, Sees
<1>4. Sees(c) /\ (cpc[c] \notin {"start", "failed"} => seen[c] \in Daemons)
  BY DEF Views, TypeOK, ClientTypes
<1>5. CASE ReadId(c)
  <2>1. cpc'[c] \in {"failed", "connect"}
    BY <1>2, <1>5 DEF ReadId, CStep
  <2>2. Sees(c)'
    BY <2>1 DEF Sees, Reading
  <2>3. QED
    BY <1>3, <2>2 DEF Views
<1>6. CASE Connect(c) \/ OutOfDate(c)
  <2>1. /\ cpc'[c] \in {"wait", "failed"} /\ seen' = seen
        /\ cpc'[c] = "wait" => last'[c] = segment[seen[c]].tscEnd
    BY <1>2, <1>6 DEF Connect, OutOfDate, CStep
  <2>2. Sees(c)'
    BY <1>1, <2>1 DEF Sees, Reading
  <2>3. QED
    BY <1>3, <2>2 DEF Views
<1>7. CASE Notice(c)
  <2>1. /\ cpc[c] = "wait" /\ cpc'[c] = "note" /\ UNCHANGED <<seen, last>>
        /\ last[c] # segment[seen[c]].tscEnd
        /\ undisturbed'[c] = (polls[seen[c]] = segment[seen[c]].tscEnd)
    BY <1>2, <1>7 DEF Notice, CStep, countersHaveUpdated, UnderWay
  <2>2. seen[c] \in Daemons /\ segment[seen[c]].tscEnd \in Nat /\ (segment[seen[c]].tscEnd = 0 => last[c] = 0)
    BY <1>4, <2>1, OwnFields DEF Sees
  <2>3. segment[seen[c]].tscEnd > 0
    BY <2>1, <2>2
  <2>4. Sees(c)'
    BY <1>1, <2>1, <2>2, <2>3 DEF Sees
  <2>5. QED
    BY <1>3, <2>4 DEF Views
<1>8. CASE Note(c)
  <2>1. /\ cpc[c] = "note" /\ cpc'[c] = "core" /\ UNCHANGED <<seen, undisturbed>>
        /\ last'[c] = segment[seen[c]].tscEnd /\ picture'[c] = <<>>
    BY <1>2, <1>8 DEF Note, CStep
  <2>2. Sees(c)'
    BY <1>1, <1>4, <2>1 DEF Sees, Reading
  <2>3. QED
    BY <1>3, <2>2 DEF Views
<1>9. ASSUME NEW t, NEW from \in {"core", "memory", "qpi"}, NEW to \in {"memory", "qpi", "printed"},
             NEW value \in Windows, Look(c, t, from, to, value),
             undisturbed[c] /\ t \in options[seen[c]].subscribers => value[2] = segment[seen[c]].tscEnd + 1
      PROVE  Views'
  <2>1. /\ cpc[c] = from /\ cpc'[c] = to /\ UNCHANGED <<seen, undisturbed, last>>
        /\ picture'[c] = IF t \in options[seen[c]].subscribers THEN Append(picture[c], value) ELSE picture[c]
    BY <1>2, <1>9 DEF Look, CStep
  <2>2. from \in Reading /\ from # "note" /\ to \in Reading /\ to # "note"
    BY <1>9 DEF Reading
  <2>3. ASSUME undisturbed[c]
        PROVE  \A i \in DOMAIN picture'[c] : picture'[c][i][2] = last[c] + 1
    <3>1. last[c] = segment[seen[c]].tscEnd /\ \A i \in DOMAIN picture[c] : picture[c][i][2] = last[c] + 1
      BY <1>4, <2>1, <2>2, <2>3 DEF Sees
    <3>2. CASE t \notin options[seen[c]].subscribers
      BY <2>1, <3>1, <3>2
    <3>3. CASE t \in options[seen[c]].subscribers
      <4>1. picture[c] \in Seq(Windows) /\ picture'[c] = Append(picture[c], value)
        BY <1>2, <2>1, <3>3
      <4>2. value[2] = last[c] + 1
        BY <1>9, <2>3, <3>1, <3>3
      <4>3. QED
        BY <3>1, <4>1, <4>2
    <3>4. QED
      BY <3>2, <3>3
  <2>4. Sees(c)'
    BY <1>1, <1>4, <2>1, <2>2, <2>3 DEF Sees
  <2>5. QED
    BY <1>3, <2>4 DEF Views
<1>10. ASSUME cpc[c] \in {"core", "memory", "qpi"}
       PROVE  /\ seen[c] \in Daemons
              /\ undisturbed[c] => polls[seen[c]] = segment[seen[c]].tscEnd /\ polls[seen[c]] > 0
  BY <1>4, <1>10 DEF Sees, Reading
<1>11. CASE LookAtCore(c)
  <2>1. cpc[c] = "core" /\ Look(c, "core", "core", "memory", segment[seen[c]].core)
    BY <1>11 DEF LookAtCore
  <2>2. /\ segment[seen[c]].core \in Windows
        /\ undisturbed[c] /\ "core" \in options[seen[c]].subscribers =>
              segment[seen[c]].core[2] = segment[seen[c]].tscEnd + 1
    BY <1>10, <2>1, SegmentRead, PublishedEnds DEF Wanted
  <2>3. QED
    BY <1>9, <2>1, <2>2
<1>12. CASE LookAtMemory(c)
  <2>1. cpc[c] = "memory" /\ Look(c, "memory", "memory", "qpi", segment[seen[c]].memory[1].counts)
    BY <1>12 DEF LookAtMemory
  <2>2. /\ segment[seen[c]].memory[1].counts \in Windows
        /\ undisturbed[c] /\ "memory" \in options[seen[c]].subscribers =>
              segment[seen[c]].memory[1].counts[2] = segment[seen[c]].tscEnd + 1
    BY <1>10, <2>1, SegmentRead, PublishedEnds DEF Wanted
  <2>3. QED
    BY <1>9, <2>1, <2>2
<1>13. CASE LookAtQPI(c)
  <2>1. cpc[c] = "qpi" /\ Look(c, "qpi", "qpi", "printed", segment[seen[c]].qpi[1].bytes)
    BY <1>13 DEF LookAtQPI
  <2>2. /\ segment[seen[c]].qpi[1].bytes \in Windows
        /\ undisturbed[c] /\ "qpi" \in options[seen[c]].subscribers =>
              segment[seen[c]].qpi[1].bytes[2] = segment[seen[c]].tscEnd + 1
    BY <1>10, <2>1, SegmentRead, PublishedEnds DEF Wanted
  <2>3. QED
    BY <1>9, <2>1, <2>2
<1>14. CASE ReadAgain(c)
  <2>1. cpc[c] = "printed" /\ cpc'[c] = "wait" /\ UNCHANGED <<seen, last>>
    BY <1>2, <1>14 DEF ReadAgain, CStep
  <2>2. Sees(c)'
    BY <1>1, <1>4, <2>1 DEF Sees, Reading
  <2>3. QED
    BY <1>3, <2>2 DEF Views
<1>15. QED
  BY <1>5, <1>6, <1>7, <1>8, <1>11, <1>12, <1>13, <1>14 DEF ClientStep

LEMMA InitViews == Init => Views
BY DEF Init, Views, Sees, Reading

LEMMA NextViews == TypeOK /\ Timestamps /\ Contents /\ Views /\ [Next]_vars => Views'
<1>1. ASSUME Views, UNCHANGED vars PROVE Views'
  BY <1>1 DEF Views, Sees, vars, daemonVars, clientVars
<1>2. QED
  BY <1>1, DaemonStepViews, ClientStepViews DEF Next

\* What a client prints is one update, that of the timestamp it saw, unless the daemon was or began
\* updating meanwhile: all the data is in shared memory before the timestamp is.
THEOREM PictureIsAlwaysOneUpdate == Spec => []PictureIsOneUpdate
<1>1. TypeOK /\ Views => PictureIsOneUpdate
  BY DEF Views, Sees, Reading, PictureIsOneUpdate
<1>2. QED
  BY <1>1, InitViews, NextViews, DaemonInvariants, PTL DEF Spec

-----------------------------------------------------------------------------
(***************************************************************************)
(* Finding a daemon.                                                       *)
(***************************************************************************)
LEMMA InitFindable == Init => Mutual /\ Findable
BY DEF Init, Mutual, Findable, About, Running

\* A daemon that was alone when it wrote its id, and alone since, is named by the file: whoever writes
\* or removes the file is about, and so in its company.
LEMMA DaemonStepFindable ==
    ASSUME TypeOK, Mutual, Findable, NEW d \in Daemons, DaemonStep(d) \/ Signal(d) \/ Kill(d)
    PROVE  (Mutual /\ Findable)'
<1>1. /\ pc \in [Daemons -> {"arguments", "write id", "group", "attach", "program"} \cup Running \cup Gone]
      /\ company \in [Daemons -> SUBSET Daemons]
  BY DEF TypeOK, DaemonTypes
<1>2. \A e \in Daemons \ {d} : pc'[e] = pc[e]
  BY Frame
<1> USE DEF Step
<1>3. CASE CreateSegment(d)
  <2>1. /\ company'[d] = {o \in Daemons : About(o)} /\ pc[d] = "arguments" /\ pc'[d] = "write id"
        /\ \A e \in Daemons \ {d} : company'[e] = company[e] \cup {d}
    BY <1>1, <1>3 DEF CreateSegment, About
  <2>2. Mutual'
    <3>1. ASSUME NEW a \in Daemons, NEW e \in Daemons, a # e, About(a)', About(e)'
          PROVE  e \in company'[a]
      <4>1. CASE a = d
        BY <1>2, <2>1, <3>1, <4>1 DEF About
      <4>2. CASE a # d /\ e = d
        BY <2>1, <4>2
      <4>3. CASE a # d /\ e # d
        BY <1>2, <2>1, <3>1, <4>3 DEF About, Mutual
      <4>4. QED
        BY <4>1, <4>2, <4>3
    <3>2. QED
      BY <3>1 DEF Mutual
  <2>3. Findable'
    <3>1. \A e \in Daemons \ {d} : company'[e] # {}
      BY <2>1
    <3>2. pc'[d] \notin {"group", "attach", "program"} \cup Running
      BY <2>1 DEF Running
    <3>3. QED
      BY <3>1, <3>2 DEF Findable
  <2>4. QED
    BY <2>2, <2>3
<1>4. ASSUME company' = company, About(d)' => About(d)
      PROVE  Mutual'
  BY <1>2, <1>4 DEF Mutual, About
\* Whoever is about when d is has d in its company.
<1>5. ASSUME NEW e \in Daemons, e # d, About(e), About(d)
      PROVE  company[e] # {}
  BY <1>5 DEF Mutual
<1>6. CASE WriteId(d)
  <2>1. file' = d /\ company' = company /\ About(d)
    BY <1>1, <1>6 DEF WriteId, About, Gone
  <2>2. \A e \in Daemons \ {d} : pc[e] \in {"group", "attach", "program"} \cup Running => About(e)
    BY DEF About, Running, Gone
  <2>3. Findable'
    BY <1>2, <1>5, <2>1, <2>2 DEF Findable
  <2>4. QED
    BY <1>4, <2>1, <2>3
<1>7. ASSUME file' = file, company' = company, About(d)' => About(d),
             pc'[d] \in {"group", "attach", "program"} \cup Running =>
                pc[d] \in {"group", "attach", "program"} \cup Running
      PROVE  (Mutual /\ Findable)'
  <2>1. Findable'
    BY <1>2, <1>7 DEF Findable
  <2>2. QED
    BY <1>4, <1>7, <2>1
<1>8. CASE ProgramBusy(d) \/ Signal(d)
  <2>1. company' = company /\ pc'[d] = "ended" /\ About(d)
    BY <1>1, <1>8 DEF ProgramBusy, Signal, Cleanup, About, Gone, Running
  <2>2. \A e \in Daemons \ {d} : pc[e] \in {"group", "attach", "program"} \cup Running => About(e)
    BY DEF About, Running, Gone
  <2>3. Findable'
    BY <1>2, <1>5, <2>1, <2>2 DEF Findable, Running
  <2>4. QED
    BY <1>4, <2>1, <2>3
<1>9. CASE UnknownGroup(d) \/ Attach(d) \/ Program(d) \/ Kill(d)
  BY <1>1, <1>7, <1>9 DEF UnknownGroup, Attach, Program, Kill, About, Running, Gone
<1>10. CASE BeginUpdate(d) \/ getPCMCore(d) \/ getPCMMemory(d) \/ getPCMQPI(d) \/ Publish(d)
  BY <1>1, <1>7, <1>10 DEF BeginUpdate, getPCMCore, getPCMMemory, getPCMQPI, Publish, After, About, Running, Gone
<1>11. QED
  BY <1>3, <1>6, <1>8, <1>9, <1>10 DEF DaemonStep

LEMMA NextFindable == TypeOK /\ Mutual /\ Findable /\ [Next]_vars => (Mutual /\ Findable)'
<1>1. ASSUME Mutual, Findable, UNCHANGED <<daemonVars, file, company>>
      PROVE  (Mutual /\ Findable)'
  BY <1>1 DEF Mutual, Findable, About, daemonVars
<1>2. QED
  BY <1>1, DaemonStepFindable, ClientFrame DEF Next, vars

\* A daemon that measures is the one the file names, unless another was about since it opened the file.
THEOREM FoundAlwaysUnlessInCompany == Spec => []FoundUnlessInCompany
<1>1. Findable => FoundUnlessInCompany
  BY DEF Findable, FoundUnlessInCompany
<1>2. QED
  BY <1>1, InitType, NextType, InitFindable, NextFindable, PTL DEF Spec

=============================================================================
