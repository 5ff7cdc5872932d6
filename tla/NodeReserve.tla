----------------------------- MODULE NodeReserve -----------------------------
(***************************************************************************)
(* all/c/memreserve.c:89-265.  memreserve is to leave ArgPages allocatable *)
(* pages on a NUMA node and to sit on all the others.  Some pages that the *)
(* node reports as free can not be allocated; to find out how many, it     *)
(* first maps as many pages as the node has free, backs them, and counts   *)
(* those the kernel put on another node (MPOL_PREFERRED: a page the node   *)
(* cannot provide comes from elsewhere).  Meanwhile other processes take   *)
(* and release pages of the node.                                          *)
(*                                                                         *)
(* parallel_memset backs one page after the other, or loses the pages of a  *)
(* thread that could not be created: that is BackPages, which               *)
(* ParallelMemset implements when there is a page per processor.            *)
(***************************************************************************)
EXTENDS Integers

CONSTANTS
  NodePages,      \* the pages of the node
  Unallocatable,  \* those that count as free but cannot be allocated
  ArgPages,       \* the argument num_pages
  Processors,     \* get_nprocs()
  AddressPages,   \* the pages that 2^64 bytes make: sizes wrap here
  MaxChurn        \* bound on the steps of the other processes

ASSUME ReserveAssumption ==
  /\ NodePages \in Nat /\ Unallocatable \in Nat /\ ArgPages \in Nat
  /\ Unallocatable <= NodePages
  /\ Processors \in Nat \ {0}
  /\ AddressPages \in Nat
  /\ ArgPages + NodePages < AddressPages - NodePages
  /\ MaxChurn \in Nat

VARIABLES
  phase,     \* where memreserve is
  free,      \* the node's free pages, as numa_node_size64 reports them
  size,      \* the pages of the current mapping
  left,      \* those of them that are not backed yet
  onNode,    \* those that the node provided
  lost,      \* those whose thread could not be created: never backed
  reserved,  \* num_reserved_pages
  churn,     \* history: the pages other processes have taken or released
  unprobed   \* history: the pages that were lost to the probe

reserveVars == <<phase, free, size, left, onNode, lost, reserved, churn, unprobed>>
history == <<churn, unprobed>>

Available == free - Unallocatable

-----------------------------------------------------------------------------
(* The process.                                                            *)

ReserveInit ==
  /\ phase = "start"
  /\ free \in Unallocatable .. NodePages
  /\ size = 0 /\ left = 0 /\ onNode = 0 /\ lost = 0
  /\ reserved = 0
  /\ churn = 0 /\ unprobed = 0

\* get_num_reserved_pages maps the amount of free memory.
MapProbe ==
  /\ phase = "start"
  /\ size' = free /\ left' = free
  /\ phase' = "probe"
  /\ UNCHANGED <<free, onNode, lost, reserved, history>>

\* The process ends: its pages go back to the node.
Die(how) ==
  /\ phase' = how
  /\ free' = free + onNode
  /\ onNode' = 0 /\ left' = 0
  /\ UNCHANGED <<size, lost, reserved, history>>

\* numa_node_size64, valloc or mbind fail (no such node, no memory): exit(1).
CallFails ==
  /\ phase \in {"start", "reread"}
  /\ Die("failed")

\* With fewer pages than processors parallel_memset crashes, at any moment of
\* the fill; with a thread that was not created it may, when it joins it
\* (ParallelMemset!Segfault, JoinGarbage).
TooFew(pages) == pages < Processors

FillCrashes ==
  /\ phase \in {"probe", "reserve"}
  /\ TooFew(size) \/ lost > 0
  /\ Die("crashed")

BackOnNode ==
  /\ phase \in {"probe", "reserve"} /\ left > 0
  /\ Available > 0
  /\ free' = free - 1 /\ onNode' = onNode + 1 /\ left' = left - 1
  /\ UNCHANGED <<phase, size, lost, reserved, history>>

\* Mutant: insist on the node and try the page again.
InsistOnNode ==
  /\ phase \in {"probe", "reserve"} /\ left > 0
  /\ Available = 0
  /\ UNCHANGED reserveVars

BackElsewhere ==
  /\ phase \in {"probe", "reserve"} /\ left > 0
  /\ Available = 0
  /\ left' = left - 1
  /\ UNCHANGED <<phase, free, size, onNode, lost, reserved, history>>

\* A page of a thread that could not be created; that its neighbours in the
\* slice are lost with it is left open.
LosePage ==
  /\ phase \in {"probe", "reserve"} /\ left > 0
  /\ left' = left - 1 /\ lost' = lost + 1
  /\ UNCHANGED <<phase, free, size, onNode, reserved, history>>

\* Mutant: count the pages that succeeded.
RightNode == onNode

\* status_wrongnode: a page that was never backed has a negative status.
WrongNode == size - onNode - lost

\* move_pages says where the pages are.
CountPages ==
  /\ phase = "probe" /\ left = 0 /\ ~ TooFew(size)
  /\ reserved' = WrongNode
  /\ phase' = "counted"
  /\ unprobed' = lost /\ lost' = 0
  /\ UNCHANGED <<free, size, left, onNode, churn>>

\* Mutant: the probe is never given back.
KeepProbe ==
  /\ phase = "counted"
  /\ phase' = "reread"
  /\ UNCHANGED <<free, size, left, onNode, lost, reserved, history>>

FreeProbe ==
  /\ phase = "counted"
  /\ free' = free + onNode /\ onNode' = 0
  /\ phase' = "reread"
  /\ UNCHANGED <<size, left, lost, reserved, history>>

\* Mutant: the unallocatable pages are not set aside.
AllFreePages == (free - ArgPages) % AddressPages

\* num_pages_to_allocate: the bytes of it wrap at 2^64.
PagesToAllocate == (free - reserved - ArgPages) % AddressPages

\* main reads the free memory again and sizes the reservation.  A size that has
\* wrapped is beyond any address space: valloc returns NULL and main exits.
MapReservation ==
  /\ phase = "reread" /\ PagesToAllocate <= NodePages
  /\ size' = PagesToAllocate /\ left' = PagesToAllocate
  /\ phase' = "reserve"
  /\ UNCHANGED <<free, onNode, lost, reserved, history>>

RefuseSize ==
  /\ phase = "reread" /\ PagesToAllocate > NodePages
  /\ Die("exited")

\* It prints what it has done and pauses.
Hold ==
  /\ phase = "reserve" /\ left = 0 /\ ~ TooFew(size)
  /\ phase' = "holding"
  /\ UNCHANGED <<free, size, left, onNode, lost, reserved, history>>

Memreserve ==
  \/ MapProbe \/ CallFails \/ FillCrashes \/ BackOnNode \/ BackElsewhere
  \/ CountPages \/ FreeProbe \/ MapReservation \/ RefuseSize \/ Hold

Dead == {"failed", "crashed", "exited", "killed"}

\* all/tools.sh:65-72: kill -9, which may come before memreserve is done.
Kill == phase \notin Dead /\ Die("killed")

-----------------------------------------------------------------------------
(* The other processes on the node.                                        *)

OthersTake ==
  /\ churn < MaxChurn /\ Available > 0
  /\ free' = free - 1 /\ churn' = churn + 1
  /\ UNCHANGED <<phase, size, left, onNode, lost, reserved, unprobed>>

OthersRelease ==
  /\ churn < MaxChurn /\ free + onNode < NodePages
  /\ free' = free + 1 /\ churn' = churn + 1
  /\ UNCHANGED <<phase, size, left, onNode, lost, reserved, unprobed>>

\* memreserve pauses, or is no more, and the others are at rest.
Quiet == phase \in Dead \cup {"holding"} /\ UNCHANGED reserveVars

ReserveNext == Memreserve \/ LosePage \/ Kill \/ OthersTake \/ OthersRelease \/ Quiet

ReserveSpec == ReserveInit /\ [][ReserveNext]_reserveVars

\* memreserve itself is never blocked and keeps running; no thread has to be lost.
FairReserveSpec == ReserveSpec /\ WF_reserveVars(Memreserve)

-----------------------------------------------------------------------------
(* Properties.                                                             *)

\* Type invariant.
ReserveTypeOK ==
  /\ phase \in {"start", "probe", "counted", "reread", "reserve", "holding"}
               \cup Dead
  /\ free \in Unallocatable .. NodePages
  /\ size \in 0 .. NodePages
  /\ left \in 0 .. size
  /\ onNode \in 0 .. size
  /\ lost \in 0 .. size
  /\ left + onNode + lost <= size
  /\ free + onNode <= NodePages
  /\ reserved \in 0 .. NodePages
  /\ churn \in 0 .. MaxChurn
  /\ unprobed \in 0 .. NodePages

Within(a, b, distance) == a - b <= distance /\ b - a <= distance

\* The probe finds the unallocatable pages, but for the pages that others took
\* or released while it ran and those that it could not back for want of a thread.
ProbeFindsUnallocatable ==
  phase \in {"counted", "reread", "reserve", "holding"} =>
    Within(reserved, Unallocatable, churn + unprobed)

\* memreserve leaves what it was asked to leave, but for the pages that others
\* took or released since it started, whenever they did so (in the middle of the
\* probe, between the two readings of the free memory, or during the fill), and
\* for the pages of threads that could not be created, in the probe or in the fill.
LeavesWithinChurn ==
  phase = "holding" => Within(Available, ArgPages, churn + unprobed + lost)

\* Neither other processes nor a lack of threads interfered.
Undisturbed == churn = 0 /\ unprobed = 0 /\ lost = 0

\* Undisturbed, the reservation takes nothing from the other nodes.
UndisturbedStaysOnNode == phase = "holding" /\ Undisturbed => onNode = size

\* Undisturbed, memreserve gives up only where there is less to reserve than a
\* page per processor: neither its probe nor a wrapped size makes it fail.
ReservesWhenItCan ==
  phase \in {"exited", "crashed"} /\ Undisturbed =>
    Available < ArgPages + Processors

\* memreserve ends up holding its reservation, or dead; it never hangs.
Settles == <>(phase \in Dead \cup {"holding"})
=============================================================================
