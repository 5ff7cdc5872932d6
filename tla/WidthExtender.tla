--------------------------- MODULE WidthExtender ---------------------------
(***************************************************************************)
(* The bandwidth counters of one core in Intel PCM (tools/pcm):            *)
(* IA32_QM_CTR shows the counter that IA32_QM_EVTSEL selects, is W wide    *)
(* and wraps; CounterWidthExtender makes an ever growing count of it.  The *)
(* core's worker reads both counters and the cache occupancy through the   *)
(* same pair of registers, and every extender has a watchdog thread that   *)
(* reads now and then, so that no wrap is missed.                          *)
(***************************************************************************)
EXTENDS Integers

CONSTANTS Bandwidth,   \* the counters extended: local and total bandwidth
          Occupancy,   \* the third event read through the registers
          Threads,     \* the worker and the watchdog threads
          Reads,       \* the events each thread reads
          W,           \* 2 to the width of the counters
          MaxCount,    \* bound on what the hardware counts
          NoThread

Events == Bandwidth \cup {Occupancy}

ASSUME ExtenderAssumption ==
    /\ Occupancy \notin Bandwidth
    /\ NoThread \notin Threads
    /\ Reads \in [Threads -> SUBSET Events]
    /\ W \in Nat \ {0} /\ MaxCount \in Nat

VARIABLES
    count,            \* of the hardware: what was counted in all
    raw,              \* and what is left of it in the counter
    evtsel,           \* event in IA32_QM_EVTSEL
    msr,              \* holder of the lock of the core's SafeMsrHandle
    CounterMutex,     \* per extender: holder of its lock
    extended_value, last_raw_value,
    seen,             \* ghost: count at the last reading that was extended
    \* of a thread
    step, event, new_raw_value,
    at,               \* ghost: count when it read IA32_QM_CTR
    began             \* ghost: count when it called read()

hardware == <<count, raw>>
extender == <<extended_value, last_raw_value, seen>>
extenderVars == <<hardware, evtsel, msr, CounterMutex, extender, step, event, new_raw_value, at, began>>

\* The constructor has taken the first reading.
ExtenderInit ==
    /\ count \in [Bandwidth -> {0, W - 1}] /\ raw = count
    /\ evtsel \in Events
    /\ msr = NoThread /\ CounterMutex = [e \in Bandwidth |-> NoThread]
    /\ extended_value = raw /\ last_raw_value = raw /\ seen = count
    /\ step = [t \in Threads |-> "idle"]
    /\ event = [t \in Threads |-> Occupancy]
    /\ new_raw_value = [t \in Threads |-> 0]
    /\ at = [t \in Threads |-> 0] /\ began = [t \in Threads |-> 0]

\* The hardware counts.  The watchdog's delay is shorter than a wrap takes:
\* less than W is counted between two readings.
Counts(e) ==
    /\ count[e] - seen[e] < W - 1 /\ count[e] < MaxCount
    /\ count' = [count EXCEPT ![e] = @ + 1]
    /\ raw' = [raw EXCEPT ![e] = IF @ + 1 < W THEN @ + 1 ELSE 0]
    /\ UNCHANGED <<evtsel, msr, CounterMutex, extender, step, event, new_raw_value, at, began>>

\* internal_read takes the extender's lock; the occupancy has none.
Begin(t, e) ==
    /\ step[t] = "idle" /\ e \in Reads[t]
    /\ IF e \in Bandwidth
       THEN /\ CounterMutex[e] = NoThread
            /\ CounterMutex' = [CounterMutex EXCEPT ![e] = t]
            /\ began' = [began EXCEPT ![t] = count[e]]
       ELSE UNCHANGED <<CounterMutex, began>>
    /\ step' = [step EXCEPT ![t] = "lock"] /\ event' = [event EXCEPT ![t] = e]
    /\ UNCHANGED <<hardware, evtsel, msr, extender, new_raw_value, at>>

\* Mutant: the counter's operator() takes no lock.
NoLock(t) ==
    /\ step[t] = "lock" /\ step' = [step EXCEPT ![t] = "select"]
    /\ UNCHANGED <<hardware, evtsel, msr, CounterMutex, extender, event, new_raw_value, at, began>>

LockMsr(t) ==
    /\ step[t] = "lock" /\ msr = NoThread
    /\ msr' = t /\ step' = [step EXCEPT ![t] = "select"]
    /\ UNCHANGED <<hardware, evtsel, CounterMutex, extender, event, new_raw_value, at, began>>

Select(t) ==
    /\ step[t] = "select"
    /\ evtsel' = event[t] /\ step' = [step EXCEPT ![t] = "read"]
    /\ UNCHANGED <<hardware, msr, CounterMutex, extender, event, new_raw_value, at, began>>

\* The register shows the event selected; what it says of the occupancy is left out.
ReadCounter(t) ==
    /\ step[t] = "read"
    /\ new_raw_value' = [new_raw_value EXCEPT ![t] = IF evtsel \in Bandwidth THEN raw[evtsel] ELSE 0]
    /\ at' = [at EXCEPT ![t] = IF event[t] \in Bandwidth THEN count[event[t]] ELSE 0]
    /\ step' = [step EXCEPT ![t] = "unlock"]
    /\ UNCHANGED <<hardware, evtsel, msr, CounterMutex, extender, event, began>>

UnlockMsr(t) ==
    /\ step[t] = "unlock"
    /\ msr' = NoThread
    /\ step' = [step EXCEPT ![t] = IF event[t] \in Bandwidth THEN "extend" ELSE "return"]
    /\ UNCHANGED <<hardware, evtsel, CounterMutex, extender, event, new_raw_value, at, began>>

\* What was counted between two raw readings.
Difference(last, new) == IF new < last THEN (W - last) + new ELSE new - last

Extend(t) ==
    LET e == event[t]
    IN  /\ step[t] = "extend"
        /\ extended_value' = [extended_value EXCEPT ![e] = @ + Difference(last_raw_value[e], new_raw_value[t])]
        /\ last_raw_value' = [last_raw_value EXCEPT ![e] = new_raw_value[t]]
        /\ seen' = [seen EXCEPT ![e] = at[t]]
        /\ step' = [step EXCEPT ![t] = "return"]
        /\ UNCHANGED <<hardware, evtsel, msr, CounterMutex, event, new_raw_value, at, began>>

\* read() returns extended_value and gives the extender's lock back.
Return(t) ==
    /\ step[t] = "return" /\ step' = [step EXCEPT ![t] = "idle"]
    /\ CounterMutex' = [e \in Bandwidth |-> IF e = event[t] THEN NoThread ELSE CounterMutex[e]]
    /\ event' = [event EXCEPT ![t] = Occupancy]
    /\ new_raw_value' = [new_raw_value EXCEPT ![t] = 0]
    /\ at' = [at EXCEPT ![t] = 0] /\ began' = [began EXCEPT ![t] = 0]
    /\ UNCHANGED <<hardware, evtsel, msr, extender>>

ExtenderNext ==
    \/ \E e \in Bandwidth : Counts(e)
    \/ \E t \in Threads :
         \/ \E e \in Events : Begin(t, e)
         \/ LockMsr(t) \/ Select(t) \/ ReadCounter(t) \/ UnlockMsr(t) \/ Extend(t) \/ Return(t)

ExtenderSpec == ExtenderInit /\ [][ExtenderNext]_extenderVars
-----------------------------------------------------------------------------
(* What goes by from a reading s to c shows as the way from last to new.   *)
Apart(s, c, last, new) ==
    /\ c - s \in 0 .. W - 1
    /\ new = IF last + (c - s) < W THEN last + (c - s) ELSE last + (c - s) - W

InRegisters == {"select", "read", "unlock"}

ExtenderTypeOK ==
    /\ count \in [Bandwidth -> Nat] /\ raw \in [Bandwidth -> 0 .. W - 1]
    /\ evtsel \in Events
    /\ msr \in Threads \cup {NoThread} /\ CounterMutex \in [Bandwidth -> Threads \cup {NoThread}]
    /\ extended_value \in [Bandwidth -> Nat] /\ last_raw_value \in [Bandwidth -> 0 .. W - 1]
    /\ seen \in [Bandwidth -> Nat]
    /\ step \in [Threads -> {"idle", "lock", "extend", "return"} \cup InRegisters]
    /\ event \in [Threads -> Events]
    /\ new_raw_value \in [Threads -> 0 .. W - 1]
    /\ at \in [Threads -> Nat] /\ began \in [Threads -> Nat]

\* One thread is at the registers, and it holds their lock.
RegistersLocked == \A t \in Threads : step[t] \in InRegisters <=> msr = t

\* The event it reads is the one it has selected.
ReadsWhatItSelected == \A t \in Threads : step[t] = "read" => evtsel = event[t]

\* One thread at a time reads for an extender.
ExtenderLocked ==
    \A t \in Threads : \A e \in Bandwidth :
      CounterMutex[e] = t <=> step[t] # "idle" /\ event[t] = e

OnlyBandwidthExtends == \A t \in Threads : step[t] = "extend" => event[t] \in Bandwidth

ExactSoFar ==
    \A e \in Bandwidth :
      extended_value[e] = seen[e] /\ Apart(seen[e], count[e], last_raw_value[e], raw[e])

ExactWhenExtended ==
    \A t \in Threads : \A e \in Bandwidth :
      /\ step[t] \in {"unlock", "extend"} /\ event[t] = e =>
           at[t] <= count[e] /\ Apart(seen[e], at[t], last_raw_value[e], new_raw_value[t])
      /\ step[t] # "idle" /\ event[t] = e => began[t] <= count[e]
      /\ step[t] \in {"unlock", "extend"} /\ event[t] = e => began[t] <= at[t]
      /\ step[t] = "return" /\ event[t] = e => began[t] <= seen[e]

\* A reading tells the traffic as it was at a moment between the call and the
\* return, however the threads get into one another's way and however often
\* the counter wrapped meanwhile (internal_read, MBLCounter and MBTCounter).
ReadingIsOfItsTime ==
    \A t \in Threads :
      step[t] = "return" /\ event[t] \in Bandwidth =>
        extended_value[event[t]] \in began[t] .. count[event[t]]
=============================================================================
