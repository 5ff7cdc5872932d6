--------------------------- MODULE MemreserveProofs ---------------------------
(***************************************************************************)
(* Proofs about the two parts of memreserve: ParallelMemset for every      *)
(* number of threads, pages and bytes per page, and NodeReserve for every  *)
(* node, argument, number of processors and amount of churn.               *)
(*                                                                         *)
(* ParallelMemset: Start(t) is the closed form of the page at which the    *)
(* slice of thread t starts; the loop computes it by addition.             *)
(*                                                                         *)
(* NodeReserve: free + onNode, the pages that are not other processes',    *)
(* moves only with the churn.  In the probe it starts equal to the size of *)
(* the mapping, so the count of misplaced pages misses the unallocatable   *)
(* ones by the churn at most; a page is misplaced only when the node has   *)
(* none left, which bounds the count from above.  In the fill, Available - *)
(* left starts at ArgPages off by that error and again moves only with the *)
(* churn, or when a page goes elsewhere: then nothing is available.        *)
(***************************************************************************)
EXTENDS ParallelMemset, NodeReserve, TLAPS

-----------------------------------------------------------------------------
(* parallel_memset: the slices.                                            *)

Start(t) ==
  t * pages_per_thread
    + (IF t > NumThreads - runoff THEN t - (NumThreads - runoff) ELSE 0)

-----------------------------------------------------------------------------
(* Arithmetic of the shares.                                               *)

\* Quotient and remainder of the pages by the threads.
LEMMA Shares ==
  /\ pages_per_thread \in Nat
  /\ runoff \in 0 .. NumThreads - 1
  /\ NumPages = NumThreads * pages_per_thread + runoff
BY MemsetAssumption DEF pages_per_thread, runoff

\* Multiplication by a natural number is monotone.
LEMMA TimesMonotone ==
  ASSUME NEW a \in Int, NEW b \in Int, NEW c \in Nat, a <= b
  PROVE  a * c <= b * c
OBVIOUS

\* Multiplication distributes over addition.
LEMMA TimesDistributes ==
  ASSUME NEW a \in Int, NEW b \in Int, NEW c \in Int
  PROVE  (a + b) * c = a * c + b * c
OBVIOUS

\* The loop's additions compute Start.
LEMMA StartSteps ==
  /\ Start(0) = 0
  /\ Start(NumThreads) = NumPages
  /\ \A t \in 0 .. NumThreads : Start(t) \in Nat
  /\ \A t \in Threads : Start(t + 1) = Start(t) + PagesOf(t)
  /\ \A t \in Threads : PagesOf(t) \in Nat
<1>1. Start(0) = 0
  BY Shares, MemsetAssumption DEF Start
<1>2. Start(NumThreads) = NumPages
  BY Shares, MemsetAssumption DEF Start
<1>3. \A t \in 0 .. NumThreads : Start(t) \in Nat
  BY Shares, MemsetAssumption DEF Start
<1>4. \A t \in Threads : Start(t + 1) = Start(t) + PagesOf(t)
  BY Shares, MemsetAssumption DEF Start, PagesOf, Threads
<1>5. \A t \in Threads : PagesOf(t) \in Nat
  BY Shares, MemsetAssumption DEF PagesOf, Threads
<1> QED BY <1>1, <1>2, <1>3, <1>4, <1>5

\* The slices follow one another.
LEMMA StartMonotone ==
  ASSUME NEW s \in 0 .. NumThreads, NEW t \in 0 .. NumThreads, s <= t
  PROVE  Start(s) <= Start(t)
<1>1. s * pages_per_thread <= t * pages_per_thread
  BY Shares, TimesMonotone
<1> QED BY <1>1, Shares, MemsetAssumption DEF Start

\* With a page per thread every slice has a page.
LEMMA SharesNotEmpty ==
  ASSUME NumPages >= NumThreads, NEW t \in Threads
  PROVE  PagesOf(t) >= 1
<1>1. pages_per_thread >= 1
  BY Shares, MemsetAssumption
<1> QED BY <1>1, Shares, MemsetAssumption DEF PagesOf

\* Every page of the buffer is in the slice of some thread.
LEMMA PageHasOwner ==
  ASSUME NEW p \in Pages
  PROVE  \E t \in Threads : Start(t) <= p /\ p < Start(t + 1)
<1> DEFINE q == NumThreads - runoff
           B == q * pages_per_thread
<1>0. q \in 1 .. NumThreads /\ B \in Nat /\ p \in Nat /\ p < NumPages
  BY Shares, MemsetAssumption DEF Pages
<1>1. CASE p < B
  <2> DEFINE t == p \div pages_per_thread
  <2>1. pages_per_thread > 0
    BY <1>1, <1>0, Shares
  <2>2. t \in Nat /\ t * pages_per_thread <= p /\ p < (t + 1) * pages_per_thread
    BY <2>1, <1>0, Shares
  <2>3. t < q
    <3> SUFFICES ASSUME t >= q PROVE FALSE
      BY <2>2, <1>0
    <3>1. q * pages_per_thread <= t * pages_per_thread
      BY <2>2, <1>0, Shares, TimesMonotone
    <3>2. B <= t * pages_per_thread /\ t * pages_per_thread \in Int
      BY <3>1, <2>2, Shares
    <3> HIDE DEF t, B, q
    <3> QED BY <3>2, <2>2, <1>1, <1>0
  <2>4. t \in Threads /\ Start(t) = t * pages_per_thread
                      /\ Start(t + 1) = (t + 1) * pages_per_thread
    BY <2>2, <2>3, <1>0, Shares, MemsetAssumption DEF Start, Threads
  <2> QED BY <2>4, <2>2
<1>2. CASE p >= B
  <2> DEFINE d == (p - B) \div (pages_per_thread + 1)
             t == q + d
  <2>1. d \in Nat /\ d * (pages_per_thread + 1) <= p - B
                  /\ p - B < (d + 1) * (pages_per_thread + 1)
    BY <1>2, <1>0, Shares
  <2>2. NumPages = B + runoff * (pages_per_thread + 1)
    BY Shares, MemsetAssumption
  <2>3. d < runoff
    <3> SUFFICES ASSUME d >= runoff PROVE FALSE
      BY <2>1, Shares
    <3>1. runoff * (pages_per_thread + 1) <= d * (pages_per_thread + 1)
      BY <2>1, Shares, TimesMonotone
    <3> QED BY <3>1, <2>1, <2>2, <1>0, Shares
  <2>4. t \in Threads
    BY <2>1, <2>3, <1>0, Shares, MemsetAssumption DEF Threads
  <2>5. Start(t) = B + d * (pages_per_thread + 1)
    BY <2>1, <1>0, Shares, MemsetAssumption DEF Start
  <2>6. Start(t + 1) = B + (d + 1) * (pages_per_thread + 1)
    <3>1. (q + (d + 1)) * pages_per_thread
            = q * pages_per_thread + (d + 1) * pages_per_thread
      <4> HIDE DEF d, q
      <4> QED BY <2>1, <1>0, Shares, TimesDistributes
    <3>2. Start(t + 1) = (q + (d + 1)) * pages_per_thread + (d + 1)
      <4>1. t + 1 = q + (d + 1) /\ t + 1 > q /\ (t + 1) - q = d + 1
        <5> HIDE DEF d, q
        <5> QED BY <2>1, <1>0
      <4> QED BY <4>1 DEF Start
    <3>3. (d + 1) * (pages_per_thread + 1)
            = (d + 1) * pages_per_thread + (d + 1)
      <4> HIDE DEF d, q
      <4> QED BY <2>1, Shares
    <3> HIDE DEF d, t, q
    <3> QED BY <3>1, <3>2, <3>3, <2>1, <1>0, Shares
  <2>7. Start(t) <= p /\ p < Start(t + 1)
    <3> HIDE DEF d, t, B, q
    <3> QED BY <2>1, <2>5, <2>6, <1>0, Shares
  <2> QED BY <2>4, <2>7
<1> QED BY <1>0, <1>1, <1>2

-----------------------------------------------------------------------------
(* The inductive invariants.                                               *)

\* Which threads exist, and which of them can still run.
ControlInv ==
  /\ pc = "create" =>
       \A t \in Threads : /\ t < i <=> thread[t] # "none"
                          /\ t < i => t \in live
  /\ pc = "join" =>
       \A t \in Threads : /\ thread[t] # "none"
                          /\ t < i => ~ Running(t)
                          /\ t >= i => t \in live
  /\ pc = "done" => \A t \in Threads : thread[t] \in {"done", "failed"}

\* The slice a thread is given.
SliceInv ==
  /\ pc = "create" => ptr = Start(i) * PageSize
  /\ \A t \in Threads :
       thread[t] # "none" =>
         ranges[t] = [lo |-> Start(t) * PageSize,
                      hi |-> Start(t + 1) * PageSize - 1]

\* What a thread has written.
FillInv ==
  /\ \A t \in Threads :
       thread[t] = "filling" =>
         /\ ranges[t].lo <= cursor[t] /\ cursor[t] <= ranges[t].hi
         /\ \A a \in Int : ranges[t].lo <= a /\ a < cursor[t] => a \in written
  /\ \A t \in Threads :
       thread[t] = "done" =>
         \A a \in Int : ranges[t].lo <= a /\ a < ranges[t].hi => a \in written
  /\ \A a \in written : 0 <= a /\ a < DataSize

\* The variables keep their types.
THEOREM TypeCorrect == Spec => []TypeOK
<1>1. Init => TypeOK
  BY MemsetAssumption DEF Init, TypeOK, Threads, ThreadStates
<1>2. TypeOK /\ [Next]_vars => TypeOK'
  <2> SUFFICES ASSUME TypeOK, [Next]_vars PROVE TypeOK'
    OBVIOUS
  <2> USE DEF TypeOK, ThreadStates
  <2>1. CASE CreateThread
    <3>1. i \in Threads /\ i + 1 \in 0 .. NumThreads
      BY <2>1, MemsetAssumption DEF CreateThread, MoreThreads, Threads
    <3>2. PagesOf(i) * PageSize \in Nat
      BY <3>1, StartSteps, MemsetAssumption
    <3>3. ptr' \in Nat
      BY <3>2, <2>1 DEF CreateThread, MoreThreads
    <3>4. ranges' \in [Threads -> [lo : Int, hi : Int]]
      <4> DEFINE r == [lo |-> ptr, hi |-> RangeEnd(ptr + PagesOf(i) * PageSize)]
      <4>1. ranges' = [ranges EXCEPT ![i] = r]
        BY <2>1 DEF CreateThread, MoreThreads
      <4>2. r \in [lo : Int, hi : Int]
        BY <3>2 DEF RangeEnd
      <4> HIDE DEF r
      <4> QED BY <4>1, <4>2
    <3>5. thread' \in [Threads -> ThreadStates]
      BY <2>1 DEF CreateThread, MoreThreads
    <3> QED BY <2>1, <3>1, <3>3, <3>4, <3>5 DEF CreateThread, MoreThreads
  <2>2. CASE StartJoining
    BY <2>2, MemsetAssumption DEF StartJoining
  <2>3. CASE JoinThread
    BY <2>3, MemsetAssumption DEF JoinThread
  <2>4. CASE JoinGarbage
    BY <2>4 DEF JoinGarbage
  <2>5. CASE Return
    BY <2>5 DEF Return
  <2>6. ASSUME NEW t \in Threads, StartFilling(t) PROVE TypeOK'
    BY <2>6 DEF StartFilling
  <2>7. ASSUME NEW t \in Threads, WriteByte(t) PROVE TypeOK'
    <3>1. /\ cursor' = [cursor EXCEPT ![t] = cursor[t] + 1]
          /\ written' = written \cup {cursor[t]}
      BY <2>7 DEF WriteByte, NextAddress
    <3>2. cursor[t] \in Int
      OBVIOUS
    <3>3. cursor' \in [Threads -> Int]
      BY <3>1, <3>2
    <3>4. written' \in SUBSET Int
      BY <3>1, <3>2
    <3> QED BY <3>3, <3>4, <2>7 DEF WriteByte
  <2>8. ASSUME NEW t \in Threads, Segfault(t) PROVE TypeOK'
    BY <2>8 DEF Segfault
  <2>9. ASSUME NEW t \in Threads, StopFilling(t) PROVE TypeOK'
    BY <2>9 DEF StopFilling
  <2>10. CASE Terminated \/ UNCHANGED vars
    BY <2>10 DEF Terminated, vars
  <2> QED BY <2>1, <2>2, <2>3, <2>4, <2>5, <2>6, <2>7, <2>8, <2>9, <2>10
          DEF Next, Caller, FillPages
<1> QED BY <1>1, <1>2, PTL DEF Spec

\* The control invariant holds, for any outcome of pthread_create.
THEOREM ControlCorrect == Spec => []ControlInv
<1>1. Init => ControlInv
  BY MemsetAssumption DEF Init, ControlInv, Threads
<1>2. TypeOK /\ ControlInv /\ [Next]_vars => ControlInv'
  <2> SUFFICES ASSUME TypeOK, ControlInv, [Next]_vars PROVE ControlInv'
    OBVIOUS
  <2> USE DEF TypeOK, ThreadStates, ControlInv, Running
  <2>1. CASE CreateThread
    <3>1. PICK s \in {"started", "failed"} : thread' = [thread EXCEPT ![i] = s]
      BY <2>1 DEF CreateThread, MoreThreads
    <3>2. /\ pc = "create" /\ pc' = "create" /\ i < NumThreads
          /\ i' = i + 1 /\ live' = live \cup {i}
      BY <2>1 DEF CreateThread, MoreThreads
    <3>3. ASSUME NEW t \in Threads
          PROVE  /\ t < i' <=> thread'[t] # "none"
                 /\ t < i' => t \in live'
      <4>1. CASE t = i
        BY <4>1, <3>1, <3>2, MemsetAssumption DEF Threads
      <4>2. CASE t # i
        BY <4>2, <3>1, <3>2, MemsetAssumption DEF Threads
      <4> QED BY <4>1, <4>2
    <3> QED BY <3>2, <3>3
  <2>2. CASE StartJoining
    BY <2>2, MemsetAssumption DEF StartJoining, Threads
  <2>3. CASE JoinThread
    BY <2>3, MemsetAssumption DEF JoinThread, JoinReturns, Threads
  <2>4. CASE JoinGarbage
    BY <2>4 DEF JoinGarbage
  <2>5. CASE Return
    BY <2>5, MemsetAssumption DEF Return, Threads
  <2>6. ASSUME NEW t \in Threads, StartFilling(t) PROVE ControlInv'
    BY <2>6 DEF StartFilling
  <2>7. ASSUME NEW t \in Threads, WriteByte(t) PROVE ControlInv'
    BY <2>7 DEF WriteByte
  <2>8. ASSUME NEW t \in Threads, Segfault(t) PROVE ControlInv'
    BY <2>8 DEF Segfault
  <2>9. ASSUME NEW t \in Threads, StopFilling(t) PROVE ControlInv'
    BY <2>9 DEF StopFilling
  <2>10. CASE Terminated \/ UNCHANGED vars
    BY <2>10 DEF Terminated, vars
  <2> QED BY <2>1, <2>2, <2>3, <2>4, <2>5, <2>6, <2>7, <2>8, <2>9, <2>10
          DEF Next, Caller, FillPages
<1> QED BY <1>1, <1>2, TypeCorrect, PTL DEF Spec

\* fill_pages never reads an argument that has been freed.
THEOREM ArgumentsAreLive == Spec => []ArgumentsOutliveThreads
<1>1. TypeOK /\ ControlInv => ArgumentsOutliveThreads
  BY DEF TypeOK, ControlInv, ArgumentsOutliveThreads, Running, Threads
<1> QED BY <1>1, TypeCorrect, ControlCorrect, PTL

\* No thread survives the call.
THEOREM NoThreadSurvives == Spec => []NothingRunsAfterReturn
<1>1. ControlInv => NothingRunsAfterReturn
  BY DEF ControlInv, NothingRunsAfterReturn, Running
<1> QED BY <1>1, ControlCorrect, PTL

-----------------------------------------------------------------------------
(* The slices and what is written into them.                               *)

\* The loop hands out the slices that Start describes.
THEOREM SlicesCorrect == Spec => []SliceInv
<1>1. Init => SliceInv
  BY StartSteps, MemsetAssumption DEF Init, SliceInv, Threads
<1>2. TypeOK /\ ControlInv /\ SliceInv /\ [Next]_vars => SliceInv'
  <2> SUFFICES ASSUME TypeOK, ControlInv, SliceInv, [Next]_vars
               PROVE  SliceInv'
    OBVIOUS
  <2>1. CASE CreateThread
    <3>1. /\ pc = "create" /\ i < NumThreads /\ pc' = "create"
          /\ i' = i + 1
          /\ ptr' = ptr + PagesOf(i) * PageSize
          /\ ranges' = [ranges EXCEPT ![i] = [lo |-> ptr, hi |-> ptr' - 1]]
      BY <2>1 DEF CreateThread, MoreThreads, RangeEnd
    <3>2. i \in Threads
      BY <3>1, MemsetAssumption DEF TypeOK, Threads
    <3>3. ptr = Start(i) * PageSize
      BY <3>1 DEF SliceInv
    <3>4. ptr' = Start(i + 1) * PageSize
      <4>1. Start(i) \in Int /\ PagesOf(i) \in Int /\ PageSize \in Int
        BY <3>2, StartSteps, MemsetAssumption DEF Threads
      <4>2. (Start(i) + PagesOf(i)) * PageSize
              = Start(i) * PageSize + PagesOf(i) * PageSize
        BY <4>1, TimesDistributes
      <4>3. Start(i + 1) = Start(i) + PagesOf(i)
        BY <3>2, StartSteps
      <4> QED BY <3>1, <3>3, <4>2, <4>3
    <3>5. ASSUME NEW t \in Threads, thread'[t] # "none"
          PROVE  ranges'[t] = [lo |-> Start(t) * PageSize,
                               hi |-> Start(t + 1) * PageSize - 1]
      <4>1. CASE t = i
        BY <4>1, <3>1, <3>2, <3>3, <3>4 DEF TypeOK
      <4>2. CASE t # i
        <5>1. thread[t] # "none"
          BY <4>2, <3>5, <2>1 DEF CreateThread, MoreThreads, TypeOK
        <5>2. ranges'[t] = ranges[t]
          BY <4>2, <3>1 DEF TypeOK
        <5> QED BY <5>1, <5>2 DEF SliceInv
      <4> QED BY <4>1, <4>2
    <3> QED BY <3>1, <3>4, <3>5 DEF SliceInv
  <2>2. CASE StartJoining \/ JoinThread \/ JoinGarbage \/ Return
    BY <2>2 DEF StartJoining, JoinThread, JoinGarbage, Return, SliceInv
  <2>3. ASSUME NEW t \in Threads, FillPages(t) PROVE SliceInv'
    <3>1. /\ UNCHANGED <<i, ptr, ranges>>
          /\ pc' \in {pc, "crashed"}
          /\ thread[t] # "none"
          /\ \E s \in ThreadStates : thread' = [thread EXCEPT ![t] = s]
      BY <2>3 DEF FillPages, StartFilling, WriteByte, Segfault, StopFilling,
                  TypeOK, ThreadStates
    <3> QED BY <3>1 DEF SliceInv, TypeOK
  <2>4. CASE Terminated \/ UNCHANGED vars
    BY <2>4 DEF Terminated, vars, SliceInv
  <2> QED BY <2>1, <2>2, <2>3, <2>4 DEF Next, Caller
<1> QED BY <1>1, <1>2, TypeCorrect, ControlCorrect, PTL DEF Spec

\* The bytes of a slice in terms of Start.
LEMMA SliceBounds ==
  ASSUME TypeOK, SliceInv, NEW t \in Threads, thread[t] # "none"
  PROVE  /\ ranges[t].lo = Start(t) * PageSize
         /\ ranges[t].hi = Start(t + 1) * PageSize - 1
         /\ Start(t) * PageSize \in Nat
         /\ Start(t + 1) * PageSize \in Nat
         /\ 0 <= ranges[t].lo
         /\ ranges[t].hi < DataSize
<1>1. t + 1 \in 0 .. NumThreads /\ t \in 0 .. NumThreads
  BY MemsetAssumption DEF Threads
<1>2. Start(t) \in Nat /\ Start(t + 1) \in Nat /\ Start(t + 1) <= NumPages
  BY <1>1, StartSteps, StartMonotone, MemsetAssumption
<1>3. Start(t) * PageSize \in Nat /\ Start(t + 1) * PageSize \in Nat
  BY <1>2, MemsetAssumption
<1>4. Start(t + 1) * PageSize <= NumPages * PageSize
  BY <1>2, TimesMonotone, MemsetAssumption
<1>5. NumPages * PageSize \in Nat
  BY MemsetAssumption
<1>6. /\ ranges[t].lo = Start(t) * PageSize
      /\ ranges[t].hi = Start(t + 1) * PageSize - 1
  <2>1. ranges[t] = [lo |-> Start(t) * PageSize,
                     hi |-> Start(t + 1) * PageSize - 1]
    BY Zenon DEF SliceInv
  <2> QED BY <2>1
<1> DEFINE lo == Start(t) * PageSize
           next == Start(t + 1) * PageSize
           bytes == NumPages * PageSize
<1>7. lo \in Nat /\ next \in Nat /\ bytes \in Nat /\ next <= bytes
  BY <1>3, <1>4, <1>5
<1>8. ranges[t].lo = lo /\ ranges[t].hi = next - 1 /\ DataSize = bytes
  BY <1>6 DEF DataSize
<1>9. 0 <= ranges[t].lo /\ ranges[t].hi < DataSize
  <2> HIDE DEF lo, next, bytes
  <2> QED BY <1>7, <1>8
<1> QED BY <1>3, <1>6, <1>9

\* A slice that holds a page ends behind its start.
LEMMA SliceNotEmpty ==
  ASSUME TypeOK, SliceInv, NumPages >= NumThreads,
         NEW t \in Threads, thread[t] # "none"
  PROVE  ranges[t].lo <= ranges[t].hi
<1>1. t \in 0 .. NumThreads /\ t + 1 \in 0 .. NumThreads
  BY MemsetAssumption DEF Threads
<1>2. Start(t) + 1 <= Start(t + 1) /\ Start(t) \in Int /\ Start(t + 1) \in Int
  BY <1>1, StartSteps, SharesNotEmpty
<1>3. (Start(t) + 1) * PageSize <= Start(t + 1) * PageSize
  BY <1>2, TimesMonotone, MemsetAssumption
<1>4. (Start(t) + 1) * PageSize = Start(t) * PageSize + PageSize
  BY <1>2, TimesDistributes, MemsetAssumption
<1> QED BY <1>3, <1>4, SliceBounds, MemsetAssumption

\* No two threads share a byte, whatever the numbers of pages and threads.
THEOREM SlicesDisjoint == Spec => []NoSharedBytes
<1>1. TypeOK /\ SliceInv => NoSharedBytes
  <2> SUFFICES ASSUME TypeOK, SliceInv,
                      NEW s \in Threads, NEW t \in Threads, s # t,
                      thread[s] # "none", thread[t] # "none"
               PROVE  ranges[s].hi < ranges[t].lo \/ ranges[t].hi < ranges[s].lo
    BY DEF NoSharedBytes
  <2>1. ASSUME NEW x \in Threads, NEW y \in Threads, x < y,
               thread[x] # "none", thread[y] # "none"
        PROVE  ranges[x].hi < ranges[y].lo
    <3>1. x + 1 \in 0 .. NumThreads /\ y \in 0 .. NumThreads /\ x + 1 <= y
      BY <2>1, MemsetAssumption DEF Threads
    <3>2. Start(x + 1) <= Start(y) /\ Start(x + 1) \in Int /\ Start(y) \in Int
      BY <3>1, StartMonotone, StartSteps
    <3>3. Start(x + 1) * PageSize <= Start(y) * PageSize
      BY <3>2, TimesMonotone, MemsetAssumption
    <3> QED BY <3>3, <2>1, SliceBounds
  <2>2. s < t \/ t < s
    BY MemsetAssumption DEF Threads
  <2> QED BY <2>1, <2>2
<1> QED BY <1>1, TypeCorrect, SlicesCorrect, PTL

\* With a page per thread, fill_pages fills its slice from the left, up to but
\* not including the last byte, and touches nothing else.
THEOREM FillCorrect == ASSUME NumPages >= NumThreads PROVE Spec => []FillInv
<1>1. Init => FillInv
  BY DEF Init, FillInv
<1>2. TypeOK /\ ControlInv /\ SliceInv /\ FillInv /\ [Next]_vars => FillInv'
  <2> SUFFICES ASSUME TypeOK, ControlInv, SliceInv, FillInv, [Next]_vars
               PROVE  FillInv'
    OBVIOUS
  <2>1. CASE CreateThread
    <3>1. /\ pc = "create" /\ i < NumThreads
          /\ \E r \in [lo : Int, hi : Int] : ranges' = [ranges EXCEPT ![i] = r]
          /\ \E s \in {"started", "failed"} : thread' = [thread EXCEPT ![i] = s]
          /\ UNCHANGED <<cursor, written>>
      <4>0. i \in Threads
        BY <2>1, MemsetAssumption DEF CreateThread, MoreThreads, TypeOK, Threads
      <4>1. PagesOf(i) * PageSize \in Int
        BY <4>0, StartSteps, MemsetAssumption
      <4> DEFINE r == [lo |-> ptr, hi |-> RangeEnd(ptr + PagesOf(i) * PageSize)]
      <4>2. r \in [lo : Int, hi : Int]
        BY <4>1 DEF TypeOK, RangeEnd
      <4>3. ranges' = [ranges EXCEPT ![i] = r]
        BY <2>1 DEF CreateThread, MoreThreads
      <4> HIDE DEF r
      <4> QED BY <4>2, <4>3, <2>1 DEF CreateThread, MoreThreads
    <3>2. thread[i] = "none"
      BY <3>1, MemsetAssumption DEF ControlInv, TypeOK, Threads
    <3>3. ASSUME NEW t \in Threads, thread'[t] \in {"filling", "done"}
          PROVE  thread'[t] = thread[t] /\ ranges'[t] = ranges[t]
      BY <3>1, <3>3 DEF TypeOK
    <3> QED BY <3>1, <3>3 DEF FillInv
  <2>2. CASE StartJoining \/ JoinThread \/ JoinGarbage \/ Return
    BY <2>2 DEF StartJoining, JoinThread, JoinGarbage, Return, FillInv
  <2>3. ASSUME NEW t \in Threads, StartFilling(t) PROVE FillInv'
    <3>1. ranges[t].lo <= ranges[t].hi /\ ranges[t].lo \in Int
      BY <2>3, SliceNotEmpty DEF StartFilling, TypeOK
    <3>2. /\ thread' = [thread EXCEPT ![t] = "filling"]
          /\ cursor' = [cursor EXCEPT ![t] = ranges[t].lo]
          /\ UNCHANGED <<ranges, written>>
      BY <2>3 DEF StartFilling
    <3>3. ASSUME NEW s \in Threads, thread'[s] = "filling"
          PROVE  /\ ranges'[s].lo <= cursor'[s] /\ cursor'[s] <= ranges'[s].hi
                 /\ \A a \in Int :
                      ranges'[s].lo <= a /\ a < cursor'[s] => a \in written'
      <4>1. CASE s = t
        BY <4>1, <3>1, <3>2 DEF TypeOK
      <4>2. CASE s # t
        BY <4>2, <3>2, <3>3 DEF FillInv, TypeOK
      <4> QED BY <4>1, <4>2
    <3>4. ASSUME NEW s \in Threads, thread'[s] = "done"
          PROVE  \A a \in Int :
                   ranges'[s].lo <= a /\ a < ranges'[s].hi => a \in written'
      BY <3>4, <3>2 DEF FillInv, TypeOK
    <3>5. \A a \in written' : 0 <= a /\ a < DataSize
      BY <3>2 DEF FillInv
    <3> QED BY <3>3, <3>4, <3>5 DEF FillInv, DataSize
  <2>4. ASSUME NEW t \in Threads, WriteByte(t) PROVE FillInv'
    <3>1. /\ thread[t] = "filling" /\ cursor[t] # ranges[t].hi
          /\ written' = written \cup {cursor[t]}
          /\ cursor' = [cursor EXCEPT ![t] = cursor[t] + 1]
          /\ UNCHANGED <<thread, ranges>>
      BY <2>4 DEF WriteByte, NextAddress
    <3>2. /\ ranges[t].lo <= cursor[t] /\ cursor[t] < ranges[t].hi
          /\ cursor[t] \in Int /\ ranges[t].lo \in Int /\ ranges[t].hi \in Int
          /\ \A a \in Int : ranges[t].lo <= a /\ a < cursor[t] => a \in written
      <4>1. cursor[t] \in Int /\ ranges[t].lo \in Int /\ ranges[t].hi \in Int
        BY DEF TypeOK
      <4>2. ranges[t].lo <= cursor[t] /\ cursor[t] <= ranges[t].hi
        BY <3>1 DEF FillInv
      <4>3. \A a \in Int : ranges[t].lo <= a /\ a < cursor[t] => a \in written
        BY <3>1 DEF FillInv
      <4> QED BY <3>1, <4>1, <4>2, <4>3
    <3>3. DataSize \in Int
      BY MemsetAssumption DEF DataSize
    <3>4. 0 <= cursor[t] /\ cursor[t] < DataSize
      BY <3>1, <3>2, <3>3, SliceBounds
    <3>5. ASSUME NEW s \in Threads, thread'[s] = "filling"
          PROVE  /\ ranges'[s].lo <= cursor'[s] /\ cursor'[s] <= ranges'[s].hi
                 /\ \A a \in Int :
                      ranges'[s].lo <= a /\ a < cursor'[s] => a \in written'
      <4>1. CASE s = t
        BY <4>1, <3>1, <3>2 DEF TypeOK
      <4>2. CASE s # t
        BY <4>2, <3>1, <3>5 DEF FillInv, TypeOK
      <4> QED BY <4>1, <4>2
    <3>6. ASSUME NEW s \in Threads, thread'[s] = "done"
          PROVE  \A a \in Int :
                   ranges'[s].lo <= a /\ a < ranges'[s].hi => a \in written'
      BY <3>6, <3>1 DEF FillInv
    <3>7. \A a \in written' : 0 <= a /\ a < DataSize
      BY <3>1, <3>4 DEF FillInv
    <3> QED BY <3>5, <3>6, <3>7 DEF FillInv, DataSize
  <2>5. ASSUME NEW t \in Threads, Segfault(t) PROVE FillInv'
    BY <2>5 DEF Segfault, FillInv
  <2>6. ASSUME NEW t \in Threads, StopFilling(t) PROVE FillInv'
    BY <2>6 DEF StopFilling, FillInv, TypeOK
  <2>7. CASE Terminated \/ UNCHANGED vars
    BY <2>7 DEF Terminated, vars, FillInv
  <2> QED BY <2>1, <2>2, <2>3, <2>4, <2>5, <2>6, <2>7 DEF Next, Caller, FillPages
<1> QED BY <1>1, <1>2, TypeCorrect, ControlCorrect, SlicesCorrect, PTL DEF Spec

\* No thread writes outside the buffer.
THEOREM WritesInBuffer == Spec => []StaysInBuffer
<1>1. CASE NumPages >= NumThreads
  <2>1. FillInv => StaysInBuffer
    BY DEF FillInv, StaysInBuffer
  <2> QED BY <1>1, <2>1, FillCorrect, PTL
<1>2. CASE ~ (NumPages >= NumThreads)
  <2>1. StaysInBuffer
    BY <1>2 DEF StaysInBuffer
  <2> QED BY <2>1, PTL
<1> QED BY <1>1, <1>2

\* parallel_memset returns only when every page is backed.
THEOREM PagesBacked == Spec => []BackedOnReturn
<1>1. CASE NumPages >= NumThreads
  <2>1. TypeOK /\ ControlInv /\ SliceInv /\ FillInv => BackedOnReturn
    <3> SUFFICES ASSUME TypeOK, ControlInv, SliceInv, FillInv, pc = "done",
                        NEW p \in Pages
                 PROVE  Backed(p) \/ Lost(p)
      BY DEF BackedOnReturn
    <3>1. PICK t \in Threads : Start(t) <= p /\ p < Start(t + 1)
      BY PageHasOwner
    <3>2. thread[t] \in {"done", "failed"}
      BY DEF ControlInv
    <3>3. /\ Start(t) \in Int /\ Start(t + 1) \in Int /\ p \in Int
          /\ PageSize \in Nat /\ PageSize >= 2
      BY StartSteps, MemsetAssumption DEF Threads, Pages
    <3>4. Start(t) * PageSize <= p * PageSize
      BY <3>1, <3>3, TimesMonotone
    <3>5. (p + 1) * PageSize <= Start(t + 1) * PageSize
      BY <3>1, <3>3, TimesMonotone
    <3>6. (p + 1) * PageSize = p * PageSize + PageSize /\ p * PageSize \in Int
      BY <3>3, TimesDistributes
    <3>7. ranges[t].lo <= p * PageSize /\ p * PageSize < ranges[t].hi
      BY <3>2, <3>3, <3>4, <3>5, <3>6, SliceBounds
    <3>8. CASE thread[t] = "done"
      <4>1. p * PageSize \in written
        BY <3>8, <3>7, <3>6 DEF FillInv
      <4> QED BY <4>1, <3>6, <3>3 DEF Backed
    <3>9. CASE thread[t] = "failed"
      BY <3>9, <3>7, <3>3, <3>6, SliceBounds DEF Lost
    <3> QED BY <3>2, <3>8, <3>9
  <2> QED BY <1>1, <2>1, TypeCorrect, ControlCorrect, SlicesCorrect, FillCorrect,
             PTL
<1>2. CASE ~ (NumPages >= NumThreads)
  <2>1. BackedOnReturn
    BY <1>2 DEF BackedOnReturn
  <2> QED BY <2>1, PTL
<1> QED BY <1>1, <1>2

\* parallel_memset implements BackPages: each step of a thread backs at most one
\* page, a creation that fails loses the thread's pages, and the call returns
\* only when no other page is left.
THEOREM Implements ==
  ASSUME NumPages >= NumThreads
  PROVE  Spec => BacksThePages
<1> DEFINE BackedPages == {p \in Pages : Backed(p)}
           LostPages == {p \in Pages : Lost(p)}
<1>1. Init => Abstract!Init
  BY MemsetAssumption DEF Init, Abstract!Init, Backed, Lost
<1>2. TypeOK /\ ControlInv /\ [Next]_vars => CreateThread \/ UNCHANGED LostPages
  <2> SUFFICES ASSUME TypeOK, ControlInv, [Next]_vars
               PROVE  CreateThread \/ UNCHANGED LostPages
    OBVIOUS
  <2>1. CASE \E t \in Threads : StartFilling(t) \/ StopFilling(t)
    <3>1. PICK t \in Threads : StartFilling(t) \/ StopFilling(t)
      BY <2>1
    <3>2. /\ UNCHANGED ranges
          /\ thread[t] # "failed" /\ thread'[t] # "failed"
          /\ \A s \in Threads : s # t => thread'[s] = thread[s]
      BY <3>1 DEF StartFilling, StopFilling, TypeOK
    <3> QED BY <3>2 DEF Lost
  <2>2. CASE UNCHANGED <<thread, ranges>>
    BY <2>2 DEF Lost
  <2>3. \/ CreateThread \/ UNCHANGED <<thread, ranges>>
        \/ \E t \in Threads : StartFilling(t) \/ StopFilling(t)
    BY DEF Next, vars, Caller, StartJoining, JoinThread, JoinGarbage, Return,
           FillPages, WriteByte, Segfault, Terminated
  <2> QED BY <2>1, <2>2, <2>3
<1>3. TypeOK /\ TypeOK' /\ ControlInv /\ ControlInv' /\ FillInv
        /\ FillInv' /\ BackedOnReturn' /\ [Next]_vars
        => [Abstract!Next]_(Abstract!vars)
  <2> SUFFICES ASSUME TypeOK, TypeOK', ControlInv, ControlInv',
                      FillInv, FillInv', BackedOnReturn', [Next]_vars
               PROVE  [Abstract!Next]_(Abstract!vars)
    OBVIOUS
  <2>0. CASE CreateThread
    <3>1. PICK s \in {"started"} \cup (IF CreateMayFail THEN {"failed"} ELSE {}) :
            thread' = [thread EXCEPT ![i] = s]
      BY <2>0 DEF CreateThread
    <3>2. /\ pc = "create" /\ pc' = "create" /\ UNCHANGED written
          /\ i \in Threads /\ thread[i] = "none"
      BY <2>0, MemsetAssumption
         DEF CreateThread, MoreThreads, ControlInv, TypeOK, Threads
    <3>3. \A t \in Threads : t # i => thread'[t] = thread[t] /\ ranges'[t] = ranges[t]
      BY <2>0 DEF CreateThread, TypeOK
    <3>4. BackedPages' = BackedPages
      BY <3>2 DEF Backed
    <3>5. LostPages' = LostPages \cup LostPages'
      BY <3>2, <3>3 DEF Lost
    <3>6. CASE CreateMayFail
      <4>1. Abstract!Lose(LostPages')
        BY <3>2, <3>4, <3>5, <3>6 DEF Abstract!Lose
      <4>2. LostPages' \in SUBSET Pages
        BY DEF Pages
      <4> QED BY <4>1, <4>2 DEF Abstract!Next, Abstract!Pages, Pages
    <3>7. CASE ~ CreateMayFail
      <4>1. thread'[i] # "failed"
        BY <3>1, <3>2, <3>7 DEF TypeOK
      <4>2. LostPages' = LostPages
        BY <4>1, <3>2, <3>3 DEF Lost
      <4> QED BY <4>2, <3>2, <3>4 DEF Abstract!vars
    <3> QED BY <3>6, <3>7
  <2> SUFFICES ASSUME UNCHANGED LostPages
               PROVE  [Abstract!Next]_(Abstract!vars)
    BY <1>2, <2>0
  <2>1. CASE UNCHANGED <<written, pc>>
    BY <2>1 DEF Abstract!vars, Backed
  <2>2. CASE /\ UNCHANGED written
             /\ pc # "done" /\ pc' # "done"
    <3>1. BackedPages' = BackedPages
      BY <2>2 DEF Backed
    <3> QED BY <2>2, <3>1 DEF Abstract!vars
  <2>3. CASE Return
    <3>1. /\ pc # "done" /\ pc' = "done" /\ UNCHANGED <<written, thread>>
      BY <2>3 DEF Return
    <3>2. \A p \in Pages : Backed(p)' \/ Lost(p)'
      BY <3>1 DEF BackedOnReturn
    <3>3. BackedPages \cup LostPages = Pages /\ BackedPages' = BackedPages
      <4>1. BackedPages' = BackedPages
        BY <3>1 DEF Backed
      <4>2. BackedPages' \cup LostPages' = Pages
        BY <3>2
      <4> QED BY <4>1, <4>2
    <3> QED BY <3>1, <3>3 DEF Abstract!Next, Abstract!Return, Abstract!Pages, Pages
  <2>4. ASSUME NEW t \in Threads, WriteByte(t)
        PROVE  [Abstract!Next]_(Abstract!vars)
    <3>1. /\ thread[t] = "filling" /\ UNCHANGED pc
          /\ cursor[t] \in Int /\ written \in SUBSET Int
          /\ written' = written \cup {cursor[t]}
      BY <2>4 DEF WriteByte, TypeOK
    <3>2. pc # "done"
      BY <3>1 DEF ControlInv
    <3>3. 0 <= cursor[t] /\ cursor[t] < NumPages * PageSize
      BY <3>1 DEF FillInv, DataSize
    <3> DEFINE p == cursor[t] \div PageSize
    <3>4. /\ p \in Nat
          /\ p * PageSize <= cursor[t] /\ cursor[t] < (p + 1) * PageSize
      BY <3>1, <3>3, MemsetAssumption
    <3>5. p \in Pages
      <4> SUFFICES ASSUME p >= NumPages PROVE FALSE
        BY <3>4, MemsetAssumption DEF Pages
      <4>1. NumPages * PageSize <= p * PageSize
        BY <3>4, TimesMonotone, MemsetAssumption
      <4>2. NumPages * PageSize \in Int /\ p * PageSize \in Int
        BY <3>4, MemsetAssumption
      <4> HIDE DEF p
      <4> QED BY <4>1, <4>2, <3>3, <3>4, <3>1
    <3>6. ASSUME NEW x \in Pages,
                 x * PageSize <= cursor[t], cursor[t] < (x + 1) * PageSize
          PROVE  x = p
      <4>1. x \in Int /\ p \in Int /\ PageSize \in Nat
        BY <3>4, MemsetAssumption DEF Pages
      <4>2. CASE x < p
        <5>1. (x + 1) * PageSize <= p * PageSize
          BY <4>1, <4>2, TimesMonotone
        <5>2. (x + 1) * PageSize \in Int /\ p * PageSize \in Int
          BY <4>1
        <5> HIDE DEF p
        <5> QED BY <5>1, <5>2, <3>4, <3>6, <3>1
      <4>3. CASE p < x
        <5>1. (p + 1) * PageSize <= x * PageSize
          BY <4>1, <4>3, TimesMonotone
        <5>2. (p + 1) * PageSize \in Int /\ x * PageSize \in Int
          BY <4>1
        <5> HIDE DEF p
        <5> QED BY <5>1, <5>2, <3>4, <3>6, <3>1
      <4> HIDE DEF p
      <4> QED BY <4>1, <4>2, <4>3
    <3>7. BackedPages' = BackedPages \cup {p}
      <4>1. ASSUME NEW x \in Pages
            PROVE  Backed(x)' <=> Backed(x) \/ x = p
        <5>1. Backed(x)' <=> \/ Backed(x)
                             \/ x * PageSize <= cursor[t]
                                /\ cursor[t] < (x + 1) * PageSize
          BY <3>1 DEF Backed
        <5> HIDE DEF p
        <5> QED BY <5>1, <3>4, <3>6
      <4> HIDE DEF p
      <4> QED BY <4>1, <3>5
    <3> HIDE DEF p
    <3>8. Abstract!Back(p)
      BY <3>1, <3>2, <3>7 DEF Abstract!Back
    <3> QED BY <3>8, <3>5 DEF Abstract!Next, Abstract!Pages, Pages
  <2>5. UNCHANGED written \/ \E t \in Threads : WriteByte(t)
    <3>1. CASE \E t \in Threads : FillPages(t)
      BY <3>1 DEF FillPages, StartFilling, Segfault, StopFilling
    <3>2. CASE Caller
      <4>1. CASE CreateThread
        BY <4>1 DEF CreateThread, MoreThreads
      <4> QED BY <3>2, <4>1 DEF Caller, StartJoining, JoinThread, JoinGarbage,
                                Return
    <3> QED BY <3>1, <3>2 DEF Next, vars, Terminated
  <2>6. UNCHANGED pc \/ (pc # "done" /\ pc' # "done") \/ Return
    <3>1. CASE \E t \in Threads : FillPages(t)
      <4>1. UNCHANGED pc \/ \E t \in Threads : Segfault(t)
        BY <3>1 DEF FillPages, StartFilling, WriteByte, StopFilling
      <4>2. CASE \E t \in Threads : Segfault(t)
        BY <4>2 DEF Segfault, ControlInv
      <4> QED BY <4>1, <4>2
    <3>2. CASE Caller
      <4>1. CASE CreateThread
        BY <4>1 DEF CreateThread, MoreThreads
      <4> QED BY <3>2, <4>1 DEF Caller, StartJoining, JoinThread, JoinGarbage
    <3> QED BY <3>1, <3>2 DEF Next, vars, Terminated
  <2> QED BY <2>1, <2>2, <2>3, <2>4, <2>5, <2>6
<1> QED BY <1>1, <1>3, TypeCorrect, ControlCorrect, FillCorrect, PagesBacked,
           PTL DEF Spec, BacksThePages, Abstract!Spec

-----------------------------------------------------------------------------
(* main and get_num_reserved_pages: the sizes.                             *)

\* A size that is not negative does not wrap.
LEMMA SmallSize ==
  ASSUME NEW n \in Nat, n > 0, NEW x \in Nat, x < n
  PROVE  x % n = x
BY SMT

\* A negative size wraps once.
LEMMA NegativeSize ==
  ASSUME NEW n \in Nat, n > 0, NEW x \in Int, -n <= x, x < 0
  PROVE  x % n = x + n
BY SMT

\* What valloc is asked for: the pages to allocate, or, if they are fewer than
\* none, more than the node has.
LEMMA AllocatesOrRefuses ==
  ASSUME ReserveTypeOK
  PROVE  LET pages == free - reserved - ArgPages IN
           /\ PagesToAllocate \in Nat
           /\ pages >= 0 => PagesToAllocate = pages
           /\ pages < 0 => PagesToAllocate > NodePages
<1> DEFINE pages == free - reserved - ArgPages
<1>1. /\ pages \in Int /\ AddressPages \in Nat /\ AddressPages > 0
      /\ -AddressPages <= pages /\ pages < AddressPages
      /\ pages + AddressPages > NodePages
  BY ReserveAssumption DEF ReserveTypeOK
<1>2. PagesToAllocate = pages % AddressPages
  BY DEF PagesToAllocate
<1> HIDE DEF pages
<1>3. pages >= 0 => PagesToAllocate = pages
  BY <1>1, <1>2, SmallSize
<1>4. pages < 0 => PagesToAllocate = pages + AddressPages
  BY <1>1, <1>2, NegativeSize
<1>5. pages >= 0 => PagesToAllocate = pages
  BY <1>3
<1>6. pages < 0 => PagesToAllocate > NodePages
  BY <1>1, <1>4
<1>7. PagesToAllocate \in Nat
  BY <1>1, <1>3, <1>4
<1> QED BY <1>5, <1>6, <1>7 DEF pages

-----------------------------------------------------------------------------
(* The type invariant.                                                     *)

\* Whenever memreserve maps memory it holds none, and no page of it is lost; the
\* probe's lost pages are written off when its pages have been counted.
NothingMapped ==
  /\ phase \in {"start", "reread"} => onNode = 0
  /\ phase \in {"start", "counted", "reread"} => lost = 0

\* Every variable keeps its type; in particular the node never has more than
\* all of its pages.
THEOREM ReserveTypeCorrect == ReserveSpec => []ReserveTypeOK /\ []NothingMapped
<1>1. ReserveInit => ReserveTypeOK /\ NothingMapped
  BY ReserveAssumption DEF ReserveInit, ReserveTypeOK, NothingMapped
<1>2. ReserveTypeOK /\ NothingMapped /\ [ReserveNext]_reserveVars =>
        ReserveTypeOK' /\ NothingMapped'
  <2> SUFFICES ASSUME ReserveTypeOK, NothingMapped, [ReserveNext]_reserveVars
               PROVE  ReserveTypeOK' /\ NothingMapped'
    OBVIOUS
  <2> USE ReserveAssumption DEF ReserveTypeOK, NothingMapped, Dead, Available, history
  <2>1. ASSUME NEW how \in Dead, Die(how) 
        PROVE  ReserveTypeOK' /\ NothingMapped'
    BY <2>1 DEF Die
  <2>2. CASE MapProbe
    BY <2>2 DEF MapProbe
  <2>3. CASE CallFails \/ FillCrashes \/ RefuseSize \/ Kill
    BY <2>1, <2>3 DEF CallFails, FillCrashes, RefuseSize, Kill
  <2>4. CASE BackOnNode
    BY <2>4 DEF BackOnNode
  <2>5. CASE BackElsewhere
    BY <2>5 DEF BackElsewhere
  <2>6. CASE CountPages
    BY <2>6 DEF CountPages, WrongNode
  <2>7. CASE FreeProbe
    BY <2>7 DEF FreeProbe
  <2>8. CASE MapReservation
    <3>1. PagesToAllocate \in 0 .. NodePages
      <4>1. PagesToAllocate <= NodePages
        BY <2>8 DEF MapReservation
      <4>2. free - reserved - ArgPages \in Int /\ NodePages \in Int
        OBVIOUS
      <4>3. free - reserved - ArgPages >= 0
        BY <4>1, <4>2, AllocatesOrRefuses
      <4> QED BY <4>1, <4>2, <4>3, AllocatesOrRefuses
    <3>2. /\ size' = PagesToAllocate /\ left' = PagesToAllocate
          /\ phase' = "reserve"
          /\ UNCHANGED <<free, onNode, lost, reserved, churn, unprobed>>
      BY <2>8 DEF MapReservation
    <3>3. onNode = 0 /\ lost = 0
      BY <2>8 DEF MapReservation
    <3> QED BY <3>1, <3>2, <3>3
  <2>9. CASE Hold
    BY <2>9 DEF Hold
  <2>10. CASE OthersTake
    BY <2>10 DEF OthersTake
  <2>11. CASE OthersRelease
    BY <2>11 DEF OthersRelease
  <2>12. CASE UNCHANGED reserveVars
    BY <2>12 DEF reserveVars
  <2>13. CASE LosePage
    BY <2>13 DEF LosePage
  <2> QED BY <2>2, <2>3, <2>4, <2>5, <2>6, <2>7, <2>8, <2>9, <2>10, <2>11,
             <2>12, <2>13 DEF ReserveNext, Memreserve, Quiet
<1> QED BY <1>1, <1>2, PTL DEF ReserveSpec
-----------------------------------------------------------------------------
(* The error of the estimate and of the reservation.                       *)

\* What the probe has found so far: the pages that are not other processes'
\* differ from the mapping by the churn, and the misplaced pages exceed the
\* unallocatable ones by the churn at most; the lost ones are not misplaced.
ProbeInv ==
  phase = "probe" =>
    /\ Within(free + onNode, size, churn)
    /\ size - left - onNode - lost <= Unallocatable + churn

\* How far the fill is from its target.
ReservationInv ==
  phase \in {"reserve", "holding"} =>
    /\ Within(Available - left, ArgPages, churn + unprobed + lost)
    /\ Undisturbed => size = left + onNode
    /\ phase = "holding" => left = 0

ReserveInv ==
  ProbeInv /\ ProbeFindsUnallocatable /\ ReservationInv /\ ReservesWhenItCan

\* The bounds hold throughout a run: one step for each action that moves a page
\* or measures.
THEOREM Bounded == ReserveSpec => []ReserveInv
<1> USE ReserveAssumption
<1>1. ReserveInit => ReserveInv
  BY DEF ReserveInit, ReserveInv, ProbeInv, ProbeFindsUnallocatable, ReservationInv,
         ReservesWhenItCan
<1>2. ReserveTypeOK /\ NothingMapped /\ ReserveInv /\ [ReserveNext]_reserveVars =>
        ReserveInv'
  <2> SUFFICES ASSUME ReserveTypeOK, NothingMapped, ReserveInv,
                      [ReserveNext]_reserveVars
               PROVE  ReserveInv'
    OBVIOUS
  <2> USE DEF ReserveTypeOK, NothingMapped, ReserveInv, ProbeInv, ProbeFindsUnallocatable,
              ReservationInv, ReservesWhenItCan, Undisturbed, Dead, Available, Within,
              history
  <2>1. CASE MapProbe
    BY <2>1 DEF MapProbe
  <2>2. CASE CallFails \/ Kill
    BY <2>2 DEF CallFails, Kill, Die
  <2>3. CASE FillCrashes
    BY <2>3 DEF FillCrashes, Die, TooFew
  <2>4. CASE RefuseSize
    <3>1. free - reserved - ArgPages < 0
      BY <2>4, AllocatesOrRefuses DEF RefuseSize
    <3> QED BY <2>4, <3>1 DEF RefuseSize, Die
  <2>5. CASE BackOnNode
    BY <2>5 DEF BackOnNode
  <2>6. CASE BackElsewhere
    BY <2>6 DEF BackElsewhere
  <2>7. CASE CountPages
    BY <2>7 DEF CountPages, WrongNode
  <2>8. CASE FreeProbe
    BY <2>8 DEF FreeProbe
  <2>9. CASE MapReservation
    <3>1. /\ free - reserved - ArgPages >= 0
          /\ PagesToAllocate = free - reserved - ArgPages
      BY <2>9, AllocatesOrRefuses DEF MapReservation
    <3>2. /\ size' = PagesToAllocate /\ left' = PagesToAllocate
          /\ phase = "reread" /\ phase' = "reserve"
          /\ UNCHANGED <<free, onNode, lost, reserved, churn, unprobed>>
      BY <2>9 DEF MapReservation
    <3> HIDE DEF PagesToAllocate
    <3> QED BY <3>1, <3>2
  <2>10. CASE Hold
    BY <2>10 DEF Hold
  <2>11. CASE OthersTake
    BY <2>11 DEF OthersTake
  <2>12. CASE OthersRelease
    BY <2>12 DEF OthersRelease
  <2>13. CASE UNCHANGED reserveVars
    BY <2>13 DEF reserveVars
  <2>14. CASE LosePage
    BY <2>14 DEF LosePage
  <2> QED BY <2>1, <2>2, <2>3, <2>4, <2>5, <2>6, <2>7, <2>8, <2>9, <2>10,
             <2>11, <2>12, <2>13, <2>14 DEF ReserveNext, Memreserve, Quiet
<1> QED BY <1>1, <1>2, ReserveTypeCorrect, PTL DEF ReserveSpec

\* The probe is off by the churn and the pages lost to it at most, on every node.
THEOREM ProbeIsWithinChurn == ReserveSpec => []ProbeFindsUnallocatable
<1>1. ReserveInv => ProbeFindsUnallocatable
  BY DEF ReserveInv
<1> QED BY <1>1, Bounded, PTL

\* So is what memreserve leaves, however the churn and the losses are placed.
THEOREM LeftIsWithinChurn == ReserveSpec => []LeavesWithinChurn
<1>1. ReserveTypeOK /\ ReserveInv => LeavesWithinChurn
  <2> SUFFICES ASSUME ReserveTypeOK, ReserveInv, phase = "holding" PROVE LeavesWithinChurn
    BY DEF LeavesWithinChurn
  <2>1. Within(Available - left, ArgPages, churn + unprobed + lost) /\ left = 0
    BY DEF ReserveInv, ReservationInv
  <2>2. Available \in Int
    BY ReserveAssumption DEF ReserveTypeOK, Available
  <2> QED BY <2>1, <2>2 DEF LeavesWithinChurn, Within
<1> QED BY <1>1, ReserveTypeCorrect, Bounded, PTL

\* Without churn and losses the reservation is all on the node.
THEOREM UndisturbedIsOnNode == ReserveSpec => []UndisturbedStaysOnNode
<1>1. ReserveTypeOK /\ ReserveInv => UndisturbedStaysOnNode
  BY DEF ReserveTypeOK, ReserveInv, ReservationInv, UndisturbedStaysOnNode, Undisturbed
<1> QED BY <1>1, ReserveTypeCorrect, Bounded, PTL

\* Without churn and losses memreserve fails only where there is too little to reserve.
THEOREM FailsOnlyForLackOfPages == ReserveSpec => []ReservesWhenItCan
<1>1. ReserveInv => ReservesWhenItCan
  BY DEF ReserveInv
<1> QED BY <1>1, Bounded, PTL
=============================================================================
