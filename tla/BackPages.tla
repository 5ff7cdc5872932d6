------------------------------ MODULE BackPages ------------------------------
(***************************************************************************)
(* What memreserve.c expects of parallel_memset (lines 30-87): the pages   *)
(* of the buffer get physical memory in some order, nothing else changes,  *)
(* and the call returns once all of them have it.  If a thread cannot be   *)
(* created its pages are lost, and only those.                             *)
(***************************************************************************)
EXTENDS Integers

CONSTANTS NumPages, MayLose

VARIABLES
  backed,    \* the pages of the buffer that have physical memory
  lost,      \* the pages that no thread is there for
  returned   \* whether the call is over

vars == <<backed, lost, returned>>

Pages == 0 .. NumPages - 1

Init ==
  /\ backed = {} /\ lost = {}
  /\ returned = FALSE

Back(p) ==
  /\ ~ returned
  /\ backed' = backed \cup {p}
  /\ UNCHANGED <<lost, returned>>

Lose(pages) ==
  /\ ~ returned /\ MayLose
  /\ lost' = lost \cup pages
  /\ UNCHANGED <<backed, returned>>

Return ==
  /\ ~ returned
  /\ backed \cup lost = Pages
  /\ returned' = TRUE
  /\ UNCHANGED <<backed, lost>>

Next ==
  \/ \E p \in Pages : Back(p)
  \/ \E pages \in SUBSET Pages : Lose(pages)
  \/ Return

Spec == Init /\ [][Next]_vars
=============================================================================
