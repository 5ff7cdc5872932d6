--------------------------- MODULE ParallelMemset ---------------------------
(***************************************************************************)
(* all/c/memreserve.c:16-87.  `parallel_memset` physically backs a buffer  *)
(* of num_pages pages: it cuts the buffer into one slice per processor,    *)
(* starts one `fill_pages` thread per slice, joins the threads in order    *)
(* and frees the slices' descriptions.  Addresses are byte offsets from    *)
(* `data`.  A write behind the mapped memory kills the whole process.      *)
(***************************************************************************)
EXTENDS Integers

CONSTANTS
  NumThreads,    \* get_nprocs(): one thread per processor
  NumPages,      \* the argument num_pages
  PageSize,      \* getpagesize()
  Slack,         \* mapped bytes that follow the buffer and belong to others
  CreateMayFail  \* TRUE if pthread_create can run out of resources

ASSUME MemsetAssumption ==
  /\ NumThreads \in Nat \ {0}
  /\ NumPages \in Nat
  /\ PageSize \in Nat /\ PageSize >= 2
  /\ Slack \in Nat
  /\ CreateMayFail \in BOOLEAN

VARIABLES
  pc,       \* where the caller of parallel_memset is
  i,        \* its loop variable, of the create loop and then of the join loop
  ptr,      \* where the next slice starts
  ranges,   \* the two pointers of each thread's argument
  live,     \* the arguments that are malloc'ed and not yet freed
  thread,   \* the state of each fill_pages thread
  cursor,   \* the variable i of each fill_pages thread
  written   \* the addresses written so far

vars == <<pc, i, ptr, ranges, live, thread, cursor, written>>

Threads == 0 .. NumThreads - 1
Pages == 0 .. NumPages - 1
DataSize == NumPages * PageSize

-----------------------------------------------------------------------------
(* How the pages are shared out.                                           *)

runoff == NumPages % NumThreads
pages_per_thread == NumPages \div NumThreads

\* Mutant: the extra pages go to one thread too few.
OneRunoffThreadShort(t) ==
  IF t > NumThreads - runoff THEN pages_per_thread + 1 ELSE pages_per_thread

\* The last `runoff` threads get one extra page.
PagesOf(t) ==
  IF t >= NumThreads - runoff THEN pages_per_thread + 1 ELSE pages_per_thread

\* Mutant: the range ends one byte further, as an inclusive reading would.
EndOnNextSlice(next) == next + 1

\* ranges[i][1]: the byte before the next slice.
RangeEnd(next) == next - 1

-----------------------------------------------------------------------------
(* The caller.                                                             *)

Init ==
  /\ pc = "create"
  /\ i = 0
  /\ ptr = 0
  /\ ranges = [t \in Threads |-> [lo |-> 0, hi |-> 0]]
  /\ live = {}
  /\ thread = [t \in Threads |-> "none"]
  /\ cursor = [t \in Threads |-> 0]
  /\ written = {}

MoreThreads == i < NumThreads

\* pthread_create's result is not looked at: a thread that could not be
\* created is simply not there.
CreateThread ==
  /\ pc = "create" /\ MoreThreads
  /\ LET next == ptr + PagesOf(i) * PageSize IN
       /\ ranges' = [ranges EXCEPT ![i] = [lo |-> ptr, hi |-> RangeEnd(next)]]
       /\ ptr' = next
  /\ live' = live \cup {i}
  /\ \E s \in {"started"} \cup (IF CreateMayFail THEN {"failed"} ELSE {}) :
       thread' = [thread EXCEPT ![i] = s]
  /\ i' = i + 1
  /\ UNCHANGED <<pc, cursor, written>>

StartJoining ==
  /\ pc = "create" /\ i = NumThreads
  /\ pc' = "join"
  /\ i' = 0
  /\ UNCHANGED <<ptr, ranges, live, thread, cursor, written>>

\* Mutant: the join does not wait for the thread.
JoinWithoutWaiting(t) == thread[t] # "none"

\* pthread_join returns once the thread has ended.  On a thread that was never
\* created it reads an uninitialised handle: it may return an error.
JoinReturns(t) == thread[t] \in {"done", "failed"}

JoinThread ==
  /\ pc = "join" /\ i < NumThreads
  /\ JoinReturns(i)
  /\ live' = live \ {i}
  /\ i' = i + 1
  /\ UNCHANGED <<pc, ptr, ranges, thread, cursor, written>>

\* ... or dereference the garbage handle and crash.
JoinGarbage ==
  /\ pc = "join" /\ i < NumThreads
  /\ thread[i] = "failed"
  /\ pc' = "crashed"
  /\ UNCHANGED <<i, ptr, ranges, live, thread, cursor, written>>

Return ==
  /\ pc = "join" /\ i = NumThreads
  /\ pc' = "done"
  /\ UNCHANGED <<i, ptr, ranges, live, thread, cursor, written>>

-----------------------------------------------------------------------------
(* fill_pages.                                                             *)

StartFilling(t) ==
  /\ pc # "crashed"
  /\ thread[t] = "started"
  /\ thread' = [thread EXCEPT ![t] = "filling"]
  /\ cursor' = [cursor EXCEPT ![t] = ranges[t].lo]
  /\ UNCHANGED <<pc, i, ptr, ranges, live, written>>

NextAddress(a) == a + 1

WriteByte(t) ==
  /\ pc # "crashed"
  /\ thread[t] = "filling"
  /\ cursor[t] # ranges[t].hi
  /\ cursor[t] < DataSize + Slack
  /\ written' = written \cup {cursor[t]}
  /\ cursor' = [cursor EXCEPT ![t] = NextAddress(@)]
  /\ UNCHANGED <<pc, i, ptr, ranges, live, thread>>

\* The loop has run off the mapped memory: SIGSEGV ends the process.
Segfault(t) ==
  /\ pc # "crashed"
  /\ thread[t] = "filling"
  /\ cursor[t] # ranges[t].hi
  /\ cursor[t] >= DataSize + Slack
  /\ pc' = "crashed"
  /\ UNCHANGED <<i, ptr, ranges, live, thread, cursor, written>>

StopFilling(t) ==
  /\ pc # "crashed"
  /\ thread[t] = "filling"
  /\ cursor[t] = ranges[t].hi
  /\ thread' = [thread EXCEPT ![t] = "done"]
  /\ UNCHANGED <<pc, i, ptr, ranges, live, cursor, written>>

FillPages(t) == StartFilling(t) \/ WriteByte(t) \/ Segfault(t) \/ StopFilling(t)

Caller == CreateThread \/ StartJoining \/ JoinThread \/ JoinGarbage \/ Return

\* The call is over: nothing of it runs any more.
Terminated ==
  /\ \/ pc = "crashed"
     \/ pc = "done" /\ \A t \in Threads : thread[t] \in {"done", "failed"}
  /\ UNCHANGED vars

Next == Caller \/ (\E t \in Threads : FillPages(t)) \/ Terminated

Spec == Init /\ [][Next]_vars

\* The kernel runs the caller and every runnable thread eventually.
FairSpec == Spec /\ WF_vars(Caller) /\ \A t \in Threads : WF_vars(FillPages(t))

-----------------------------------------------------------------------------
(* Properties.                                                             *)

ThreadStates == {"none", "started", "filling", "done", "failed"}

\* Type invariant of the call's variables.
TypeOK ==
  /\ pc \in {"create", "join", "done", "crashed"}
  /\ i \in 0 .. NumThreads
  /\ ptr \in Nat
  /\ ranges \in [Threads -> [lo : Int, hi : Int]]
  /\ live \in SUBSET Threads
  /\ thread \in [Threads -> ThreadStates]
  /\ cursor \in [Threads -> Int]
  /\ written \in SUBSET Int

Running(t) == thread[t] \in {"started", "filling"}

\* A page is backed once some byte of it has been written.
Backed(p) == \E a \in written : p * PageSize <= a /\ a < (p + 1) * PageSize

\* With at least one page per thread no thread ever writes outside the buffer
\* (fill_pages compares for equality only, so a range that is empty is never
\* left: the condition is needed).
StaysInBuffer ==
  NumPages >= NumThreads => \A a \in written : 0 <= a /\ a < DataSize

\* No byte is in the slices of two threads: nothing synchronises them, so they
\* must share nothing, however unevenly the pages divide.
NoSharedBytes ==
  \A s, t \in Threads :
    s # t /\ thread[s] # "none" /\ thread[t] # "none" =>
      ranges[s].hi < ranges[t].lo \/ ranges[t].hi < ranges[s].lo

\* The page belongs to a thread that could not be created.
Lost(p) ==
  \E t \in Threads : /\ thread[t] = "failed"
                     /\ ranges[t].lo <= p * PageSize
                     /\ p * PageSize <= ranges[t].hi

\* When parallel_memset returns, every page of the buffer is backed, but for
\* those of a thread that could not be created: the callers count on it when
\* they ask where the pages are (move_pages) or rely on their being taken.
BackedOnReturn ==
  NumPages >= NumThreads /\ pc = "done" =>
    \A p \in Pages : Backed(p) \/ Lost(p)

\* A thread that has not ended still has its argument: it is freed only after
\* the join, although fill_pages rereads range[1] at every byte.
ArgumentsOutliveThreads ==
  pc # "crashed" => \A t \in Threads : Running(t) => t \in live

\* parallel_memset leaves no thread behind that could write into the buffer
\* after the caller has freed it.
NothingRunsAfterReturn == pc = "done" => \A t \in Threads : ~ Running(t)

\* parallel_memset implements BackPages: the callers need to know no more of it
\* than that.
Abstract == INSTANCE BackPages WITH
  MayLose <- CreateMayFail,
  backed <- {p \in Pages : Backed(p)},
  lost <- {p \in Pages : Lost(p)},
  returned <- (pc = "done")

\* With a page per thread, the threads and the joins of parallel_memset amount
\* to backing the pages one by one and then returning: it never returns early
\* and never loses a page but by a thread that could not be created.
BacksThePages == Abstract!Spec

\* The call returns, given a page per thread and threads that can be created.
Returns ==
  NumPages >= NumThreads /\ [](\A t \in Threads : thread[t] # "failed") =>
    <>(pc = "done")

=============================================================================
