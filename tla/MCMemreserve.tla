----------------------------- MODULE MCMemreserve -----------------------------
(***************************************************************************)
(* memreserve's two levels, one of them at a time.                          *)
(*                                                                          *)
(* The fills: the probe (get_num_reserved_pages) with a page for every      *)
(* thread, then the reservation (main), which may be left with fewer pages  *)
(* than processors.                                                         *)
(*                                                                          *)
(* The pages: NodeReserve, for which a fill is a sequence of pages.         *)
(***************************************************************************)
EXTENDS ParallelMemset, NodeReserve

CONSTANT FewPages

VARIABLES part, pc2, i2, ptr2, ranges2, live2, thread2, cursor2, written2

vars2 == <<pc2, i2, ptr2, ranges2, live2, thread2, cursor2, written2>>

Reservation == INSTANCE ParallelMemset WITH
  NumPages <- FewPages, CreateMayFail <- FALSE,
  pc <- pc2, i <- i2, ptr <- ptr2, ranges <- ranges2, live <- live2,
  thread <- thread2, cursor <- cursor2, written <- written2

\* The fills that are not looked at do not begin; a memreserve that is not
\* looked at has ended.
MCInit ==
  /\ part \in {"fills", "pages"}
  /\ Init /\ Reservation!Init
  /\ IF part = "pages" THEN ReserveInit
     ELSE /\ phase = "failed" /\ free = Unallocatable /\ reserved = 0
          /\ size = 0 /\ left = 0 /\ onNode = 0 /\ lost = 0
          /\ churn = 0 /\ unprobed = 0

Probing(A) == part = "fills" /\ A /\ UNCHANGED <<part, vars2, reserveVars>>
Reserving(A) == part = "fills" /\ pc = "done" /\ A /\ UNCHANGED <<part, vars, reserveVars>>
Paging(A) == part = "pages" /\ A /\ UNCHANGED <<part, vars, vars2>>

MCNext == Probing(Next) \/ Reserving(Reservation!Next) \/ Paging(ReserveNext)

all == <<part, vars, vars2, reserveVars>>

MCSpec ==
  /\ MCInit /\ [][MCNext]_all
  /\ WF_all(Probing(Caller))
  /\ \A t \in Threads : WF_all(Probing(FillPages(t)))
  /\ WF_all(Reserving(Reservation!Caller))
  /\ \A t \in Threads : WF_all(Reserving(Reservation!FillPages(t)))
  /\ WF_all(Paging(Memreserve))

\* A reservation of fewer pages than processors never stands: a thread without
\* a page runs off its range, in the end off the mapped memory, and takes the
\* process with it (main passes any num_pages_to_allocate to parallel_memset).
FewPagesNeverReserve == pc = "done" ~> pc2 = "crashed"
=============================================================================
