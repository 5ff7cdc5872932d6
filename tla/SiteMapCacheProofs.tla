------------------------- MODULE SiteMapCacheProofs -------------------------
(***************************************************************************)
(* Proofs about SiteMapCache for every set of commands and every number of *)
(* runs: what a pickle holds while no process is about before a run is     *)
(* over, and what a process that is alone comes to.                        *)
(***************************************************************************)
EXTENDS SiteMapCache, SequenceTheorems, TLAPS

Data == Nat \X Nat
Files == [there : BOOLEAN, whole : BOOLEAN, by : Processes \cup {"nobody"}, data : Data]
Handles == [kind : Kinds, run : Nat]
Tasks == {"site", "page", "huge", "gb", "sizes", "sizes?", "sizes!"}
Places == {"idle", "next", "load", "parse", "parsepages", "build", "sizes", "done", "died", "killed"}

Typed ==
  /\ run \in Nat \ {0} /\ stage \in {"removed", "running", "over"}
  /\ sites \in {0, run} /\ pages \in {0, run}
  /\ stage = "over" => sites = run /\ pages = run
  /\ pickle \in [Kinds -> Files]
  /\ pc \in [Processes -> Places]
  /\ todo \in [Processes -> Seq(Tasks)]
  /\ parsed \in [Processes -> Data]
  /\ built \in [Processes -> 0 .. 5]
  /\ held \in [Processes -> Seq(Handles)]
  /\ got \in [Processes -> SUBSET Data]
  /\ overlapped \in BOOLEAN

\* What a process has to do first, where it needs to know.
KnowsItsKind(p) ==
  pc[p] \in {"load", "parse", "parsepages", "build"} => todo[p] # <<>> /\ Head(todo[p]) \in Kinds

\* The pickles that build_site_map holds open are the last it has opened.
HoldsTheLast(p) ==
  /\ held[p] # <<>> => pc[p] \in {"build", "sizes"}
  /\ pc[p] = "build" =>
       /\ Len(held[p]) <= 2 /\ Len(held[p]) <= built[p]
       /\ \A n \in 1 .. Len(held[p]) : held[p][n].kind = Pickles[built[p] - Len(held[p]) + n]
  /\ pc[p] = "sizes" => Len(held[p]) = 1 /\ held[p][1].kind = "sizes"

\* A process that is not about has nothing.
IdleHasNothing(p) ==
  pc[p] \in {"idle", "done", "died", "killed"} => got[p] = {} /\ held[p] = <<>> /\ built[p] = 0

Books(p) == KnowsItsKind(p) /\ HoldsTheLast(p) /\ IdleHasNothing(p)

Tidy == Typed /\ \A p \in Processes : Books(p)

LEMMA PairExcept ==
  ASSUME NEW d \in Data, NEW n \in Nat
  PROVE  [d EXCEPT ![2] = n] \in Data /\ [d EXCEPT ![2] = n] = <<d[1], n>>
BY DEF Data

\* Facts about short sequences.
LEMMA ShortSeq ==
  ASSUME NEW S, NEW s \in Seq(S)
  PROVE  /\ Len(s) \in Nat
         /\ Len(s) = 0 <=> s = <<>>
         /\ Len(s) = 1 => Tail(s) = <<>>
         /\ Len(s) = 2 => Tail(s) \in Seq(S) /\ Len(Tail(s)) = 1 /\ Tail(s)[1] = s[2]
<1>1. Len(s) \in Nat /\ (Len(s) = 0 <=> s = <<>>)
  BY EmptySeq
<1>2. s # <<>> => /\ Tail(s) \in Seq(S) /\ Len(Tail(s)) = Len(s) - 1
                  /\ \A i \in 1 .. Len(Tail(s)) : Tail(s)[i] = s[i + 1]
  BY HeadTailProperties
<1>3. Len(s) = 1 => Tail(s) = <<>>
  <2>1. \A t \in Seq(S) : Len(t) = 0 => t = <<>>
    BY EmptySeq
  <2>2. Len(s) = 1 => Tail(s) \in Seq(S) /\ Len(Tail(s)) = 0
    BY <1>1, <1>2
  <2> QED
    BY <2>1, <2>2
<1>4. Len(s) = 2 => Tail(s) \in Seq(S) /\ Len(Tail(s)) = 1 /\ Tail(s)[1] = s[2]
  BY <1>1, <1>2
<1> QED
  BY <1>1, <1>3, <1>4

LEMMA FiveKinds == \A i \in 1 .. 5 : Pickles[i] \in Kinds
BY DEF Pickles, Kinds

LEMMA LenPickles == Len(Pickles) = 5
BY DEF Pickles

\* Closing a pickle leaves it a file, and all others alone.
LEMMA CloseFirstTyped ==
  ASSUME Typed, NEW p \in Processes, held[p] # <<>>, CloseFirst(p)
  PROVE  /\ held' = [held EXCEPT ![p] = Tail(@)] /\ held' \in [Processes -> Seq(Handles)]
         /\ pickle' \in [Kinds -> Files]
<1> DEFINE first == Head(held[p])
<1>1. held[p] \in Seq(Handles) /\ first \in Handles /\ Tail(held[p]) \in Seq(Handles)
  BY DEF Typed
<1>2. held' = [held EXCEPT ![p] = Tail(@)]
  BY DEF CloseFirst
<1>3. pickle' \in [Kinds -> Files]
  <2>1. CASE UNCHANGED pickle
    BY <2>1 DEF Typed
  <2>2. CASE \E file \in Closed(p, pickle[first.kind]) : pickle' = [pickle EXCEPT ![first.kind] = file]
    <3>1. first.kind \in Kinds /\ pickle[first.kind] \in Files /\ parsed[p] \in Data
      BY <1>1 DEF Handles, Typed
    <3>2. Closed(p, pickle[first.kind]) \subseteq Files
      BY <3>1 DEF Closed, Files
    <3> QED
      BY <2>2, <3>1, <3>2 DEF Typed
  <2> QED
    BY <2>1, <2>2 DEF CloseFirst
<1> QED
  BY <1>1, <1>2, <1>3 DEF Typed

LEMMA TidyInit == Init => Tidy
<1> SUFFICES ASSUME Init PROVE Tidy
  OBVIOUS
<1>1. Absent \in Files /\ <<0, 0>> \in Data
  BY DEF Absent, Files, Data
<1>2. pickle \in [Kinds -> Files] /\ parsed \in [Processes -> Data]
  BY <1>1 DEF Init
<1>3. todo \in [Processes -> Seq(Tasks)] /\ held \in [Processes -> Seq(Handles)]
  <2>1. <<>> \in Seq(Tasks) /\ <<>> \in Seq(Handles)
    OBVIOUS
  <2> QED
    BY <2>1 DEF Init
<1>4. Typed
  <2>1. run \in Nat \ {0} /\ sites \in {0, run} /\ pages \in {0, run}
    BY SMT DEF Init
  <2>3. stage \in {"removed", "running", "over"} /\ stage # "over" /\ overlapped \in BOOLEAN
    BY DEF Init
  <2>2. /\ pc \in [Processes -> Places] /\ built \in [Processes -> 0 .. 5]
        /\ got \in [Processes -> SUBSET Data]
    BY DEF Init, Places
  <2> QED
    BY <1>2, <1>3, <2>1, <2>2, <2>3 DEF Typed
<1> QED
  BY <1>4 DEF Init, Tidy, Books, KnowsItsKind, HoldsTheLast, IdleHasNothing

\* What one process does keeps the others' affairs as they are.
Others(p) ==
  \A q \in Processes \ {p} :
    pc'[q] = pc[q] /\ todo'[q] = todo[q] /\ held'[q] = held[q] /\ built'[q] = built[q] /\ got'[q] = got[q]

\* So it is enough to look at the one that takes the step.
LEMMA OwnStep ==
  ASSUME Tidy, NEW p \in Processes, Others(p), Typed',
         KnowsItsKind(p)', HoldsTheLast(p)', IdleHasNothing(p)'
  PROVE  Tidy'
<1> SUFFICES ASSUME NEW q \in Processes PROVE Books(q)'
  BY DEF Tidy
<1>1. CASE q = p
  BY <1>1 DEF Books
<1>2. CASE q # p
  BY <1>2 DEF Tidy, Books, Others, KnowsItsKind, HoldsTheLast, IdleHasNothing
<1> QED
  BY <1>1, <1>2

\* A process that leaves takes all it had with it.
LEMMA LeavingIsTidy ==
  ASSUME Tidy, NEW p \in Processes, NEW how \in {"done", "died", "killed"}, Leave(p, how),
         UNCHANGED <<experiment, pickle, history>>
  PROVE  Tidy'
<1>1. <<0, 0>> \in Data
  BY DEF Data
<1>2. Typed'
  BY <1>1 DEF Leave, Goto, experiment, history, Tidy, Typed, Places
<1>others. Others(p)
  BY <1>2 DEF Leave, Goto, Others, Tidy, Typed
<1>kind. KnowsItsKind(p)'
  BY <1>2 DEF Leave, Goto, Tidy, Typed, Books, KnowsItsKind, HoldsTheLast, IdleHasNothing
<1>last. HoldsTheLast(p)'
  BY <1>2 DEF Leave, Goto, Tidy, Typed, Books, KnowsItsKind, HoldsTheLast, IdleHasNothing
<1>nothing. IdleHasNothing(p)'
  BY <1>2 DEF Leave, Goto, Tidy, Typed, Books, KnowsItsKind, HoldsTheLast, IdleHasNothing
<1> QED
  BY <1>2, <1>others, <1>kind, <1>last, <1>nothing, OwnStep

\* Every step keeps the books.
LEMMA TidyNext == Tidy /\ [Next]_vars => Tidy'
<1> SUFFICES ASSUME Tidy, [Next]_vars PROVE Tidy'
  OBVIOUS
<1> USE DEF At, Goto, experiment, history
<1>1. CASE UNCHANGED vars
  BY <1>1 DEF vars, Tidy, Typed, Books, KnowsItsKind, HoldsTheLast, IdleHasNothing
<1>2. CASE Rerun \/ MakeDirectory \/ Profile
  <2>1. UNCHANGED <<pc, todo, parsed, built, held, got>>
    BY <1>2 DEF Rerun, MakeDirectory, Profile
  <2>2. \A p \in Processes : Books(p)'
    BY <2>1 DEF Tidy, Books, KnowsItsKind, HoldsTheLast, IdleHasNothing
  <2>3. Absent \in Files
    BY DEF Absent, Files, Data
  <2>4. pickle' \in [Kinds -> Files]
    BY <1>2, <2>3 DEF Rerun, MakeDirectory, Profile, RemovePickles, Tidy, Typed
  <2>5. /\ run' \in Nat \ {0} /\ stage' \in {"removed", "running", "over"}
        /\ sites' \in {0, run'} /\ pages' \in {0, run'}
        /\ stage' = "over" => sites' = run' /\ pages' = run'
        /\ overlapped' \in BOOLEAN
    <3>1. CASE Rerun
      BY <3>1 DEF Rerun, Tidy, Typed
    <3>2. CASE MakeDirectory
      BY <3>2 DEF MakeDirectory, Tidy, Typed
    <3>3. CASE Profile
      BY <3>3 DEF Profile, Tidy, Typed
    <3> QED
      BY <1>2, <3>1, <3>2, <3>3
  <2> QED
    BY <2>1, <2>2, <2>4, <2>5 DEF Tidy, Typed
<1>3. ASSUME NEW p \in Processes, Start(p) PROVE Tidy'
  <2>1. Program[p].want \in Tasks
    <3>1. Program \in [Processes -> [want : {"site", "page", "huge", "gb"}, clean : BOOLEAN, sizes : BOOLEAN]]
      BY CacheAssumption DEF CacheAssumption
    <3>2. Program[p] \in [want : {"site", "page", "huge", "gb"}, clean : BOOLEAN, sizes : BOOLEAN]
      BY <3>1
    <3>3. Program[p].want \in {"site", "page", "huge", "gb"}
      BY <3>2
    <3> QED
      BY <3>3 DEF Tasks
  <2>2. todo' \in [Processes -> Seq(Tasks)]
    <3>2. "sizes?" \in Tasks
      BY DEF Tasks
    <3>3. \A x \in Tasks : <<x>> \in Seq(Tasks)
      OBVIOUS
    <3>4. <<>> \in Seq(Tasks)
      OBVIOUS
    <3>5. (IF Program[p].sizes THEN <<"sizes?">> ELSE <<>>) \in Seq(Tasks)
      BY <3>2, <3>3, <3>4
    <3>1. <<Program[p].want>> \o (IF Program[p].sizes THEN <<"sizes?">> ELSE <<>>) \in Seq(Tasks)
      BY <2>1, <3>3, <3>5, ConcatProperties
    <3> QED
      BY <1>3, <3>1 DEF Start, Tidy, Typed
  <2>3. overlapped' \in BOOLEAN
    BY <1>3 DEF Start, Tidy, Typed
  <2>4. Typed'
    BY <1>3, <2>2, <2>3 DEF Start, Tidy, Typed, Places
  <2>others. Others(p)
    BY <1>3, <2>4 DEF Start, Others, Tidy, Typed
  <2>kind. KnowsItsKind(p)'
    BY <1>3, <2>4 DEF Start, Tidy, Typed, Books, KnowsItsKind, HoldsTheLast, IdleHasNothing
  <2>last. HoldsTheLast(p)'
    BY <1>3, <2>4 DEF Start, Tidy, Typed, Books, KnowsItsKind, HoldsTheLast, IdleHasNothing
  <2>nothing. IdleHasNothing(p)'
    BY <1>3, <2>4 DEF Start, Tidy, Typed, Books, KnowsItsKind, HoldsTheLast, IdleHasNothing
  <2> QED
    BY <1>3, <2>4, <2>others, <2>kind, <2>last, <2>nothing, OwnStep
<1>4. ASSUME NEW p \in Processes, NEW k \in Kinds, Get(p, k) PROVE Tidy'
  <2>1. Typed'
    BY <1>4 DEF Get, Tidy, Typed, Places
  <2>others. Others(p)
    BY <1>4, <2>1 DEF Get, Now, Others, Tidy, Typed
  <2>kind. KnowsItsKind(p)'
    BY <1>4, <2>1 DEF Get, Now, Tidy, Typed, Books, KnowsItsKind, HoldsTheLast, IdleHasNothing
  <2>last. HoldsTheLast(p)'
    BY <1>4, <2>1 DEF Get, Now, Tidy, Typed, Books, KnowsItsKind, HoldsTheLast, IdleHasNothing
  <2>nothing. IdleHasNothing(p)'
    BY <1>4, <2>1 DEF Get, Now, Tidy, Typed, Books, KnowsItsKind, HoldsTheLast, IdleHasNothing
  <2> QED
    BY <1>4, <2>1, <2>others, <2>kind, <2>last, <2>nothing, OwnStep
<1>5. ASSUME NEW p \in Processes, Load(p) PROVE Tidy'
  <2>1. Head(todo[p]) \in Kinds /\ todo[p] # <<>>
    BY <1>5 DEF Load, Tidy, Books, KnowsItsKind
  <2>2. pickle[Head(todo[p])].data \in Data
    BY <2>1 DEF Tidy, Typed, Files
  <2>3. CASE /\ got' = [got EXCEPT ![p] = @ \cup {pickle[Head(todo[p])].data}]
              /\ todo' = [todo EXCEPT ![p] = Tail(@)] /\ pc' = [pc EXCEPT ![p] = "next"]
              /\ UNCHANGED <<parsed, built, held>>
    <3>1. Typed'
      BY <1>5, <2>1, <2>2, <2>3 DEF Load, Tidy, Typed, Places
    <3>others. Others(p)
      BY <1>5, <2>3, <3>1 DEF Load, Others, Tidy, Typed
    <3>kind. KnowsItsKind(p)'
      BY <1>5, <2>3, <3>1 DEF Load, Tidy, Typed, Books, KnowsItsKind, HoldsTheLast, IdleHasNothing
    <3>last. HoldsTheLast(p)'
      BY <1>5, <2>3, <3>1 DEF Load, Tidy, Typed, Books, KnowsItsKind, HoldsTheLast, IdleHasNothing
    <3>nothing. IdleHasNothing(p)'
      BY <1>5, <2>3, <3>1 DEF Load, Tidy, Typed, Books, KnowsItsKind, HoldsTheLast, IdleHasNothing
    <3> QED
      BY <1>5, <2>3, <3>1, <3>others, <3>kind, <3>last, <3>nothing, OwnStep
  <2>4. CASE Leave(p, "died")
    BY <1>5, <2>4, LeavingIsTidy DEF Load
  <2> QED
    BY <1>5, <2>3, <2>4 DEF Load
<1>6. ASSUME NEW p \in Processes, ParseSites(p) PROVE Tidy'
  <2>1. CASE Leave(p, "died")
    BY <1>6, <2>1, LeavingIsTidy DEF ParseSites
  <2>2. CASE /\ parsed' = [parsed EXCEPT ![p] = <<sites, 0>>]
             /\ pc' = [pc EXCEPT ![p] = "parsepages"] /\ UNCHANGED <<todo, built, held, got>>
    <3>1. <<sites, 0>> \in Data
      BY DEF Data, Tidy, Typed
    <3>3. Typed'
      BY <1>6, <2>2, <3>1 DEF ParseSites, Tidy, Typed, Places
    <3>others. Others(p)
      BY <1>6, <2>2, <3>3 DEF ParseSites, Others, Tidy, Typed
    <3>kind. KnowsItsKind(p)'
      BY <1>6, <2>2, <3>3 DEF ParseSites, Tidy, Typed, Books, KnowsItsKind, HoldsTheLast, IdleHasNothing
    <3>last. HoldsTheLast(p)'
      BY <1>6, <2>2, <3>3 DEF ParseSites, Tidy, Typed, Books, KnowsItsKind, HoldsTheLast, IdleHasNothing
    <3>nothing. IdleHasNothing(p)'
      BY <1>6, <2>2, <3>3 DEF ParseSites, Tidy, Typed, Books, KnowsItsKind, HoldsTheLast, IdleHasNothing
    <3> QED
      BY <1>6, <2>2, <3>3, <3>others, <3>kind, <3>last, <3>nothing, OwnStep
  <2> QED
    BY <1>6, <2>1, <2>2 DEF ParseSites
<1>7. ASSUME NEW p \in Processes, ParsePages(p) PROVE Tidy'
  <2>1. parsed' \in [Processes -> Data]
    <3>1. parsed[p] \in Data /\ pages \in Nat
      BY DEF Tidy, Typed
    <3>2. [parsed[p] EXCEPT ![2] = pages] \in Data
      BY <3>1, PairExcept
    <3> QED
      BY <1>7, <3>2 DEF ParsePages, Tidy, Typed
  <2>2. Typed'
    BY <1>7, <2>1 DEF ParsePages, Tidy, Typed, Places
  <2>3. held[p] = <<>>
    BY <1>7 DEF ParsePages, Tidy, Books, HoldsTheLast
  <2>4. held'[p] = <<>> /\ Len(held'[p]) = 0 /\ built'[p] = 0
    BY <1>7, <2>3 DEF ParsePages, Tidy, Typed
  <2>others. Others(p)
    BY <1>7, <2>2, <2>4 DEF ParsePages, Others, Tidy, Typed
  <2>kind. KnowsItsKind(p)'
    BY <1>7, <2>2, <2>4 DEF ParsePages, Tidy, Typed, Books, KnowsItsKind, HoldsTheLast, IdleHasNothing
  <2>last. HoldsTheLast(p)'
    BY <1>7, <2>2, <2>4 DEF ParsePages, Tidy, Typed, Books, KnowsItsKind, HoldsTheLast, IdleHasNothing
  <2>nothing. IdleHasNothing(p)'
    BY <1>7, <2>2, <2>4 DEF ParsePages, Tidy, Typed, Books, KnowsItsKind, HoldsTheLast, IdleHasNothing
  <2> QED
    BY <1>7, <2>2, <2>4, <2>others, <2>kind, <2>last, <2>nothing, OwnStep
<1>8. ASSUME NEW p \in Processes, OpenNext(p) PROVE Tidy'
  <2> DEFINE k == Pickles[built[p] + 1]
             h == [kind |-> k, run |-> run]
  <2>0. held[p] \in Seq(Handles) /\ built[p] \in 0 .. 5
    BY DEF Tidy, Typed
  <2>1. built[p] \in 0 .. 4 /\ Len(held[p]) \in 0 .. 1 /\ held[p] \in Seq(Handles)
    <3>1. Len(held[p]) < 2 /\ built[p] < Len(Pickles)
      BY <1>8 DEF OpenNext
    <3>2. Len(held[p]) \in Nat
      BY <2>0, ShortSeq
    <3>3. built[p] \in 0 .. 4
      BY <2>0, <3>1, LenPickles
    <3>4. Len(held[p]) \in 0 .. 1
      <4>1. \A n \in Nat : n < 2 => n \in 0 .. 1
        OBVIOUS
      <4> QED
        BY <3>1, <3>2, <4>1
    <3> HIDE DEF k, h
    <3> QED
      BY <2>0, <3>3, <3>4, Zenon
  <2>2. k \in Kinds
    BY <2>1, FiveKinds
  <2>3. h \in Handles
    BY <2>2 DEF Handles, Tidy, Typed
  <2>4. /\ pickle' = Truncated(p, k, parsed[p])
        /\ held' = [held EXCEPT ![p] = Append(@, h)]
        /\ built' = [built EXCEPT ![p] = @ + 1]
        /\ UNCHANGED <<experiment, pc, todo, parsed, got, history>>
    BY <1>8 DEF OpenNext
  <2>5. pickle' \in [Kinds -> Files]
    <3>1. [there |-> TRUE, whole |-> FALSE, by |-> p, data |-> parsed[p]] \in Files
      BY DEF Files, Tidy, Typed
    <3> QED
      BY <2>4, <3>1 DEF Truncated, Tidy, Typed
  <2> HIDE DEF k, h
  <2>6. Typed'
    BY <2>1, <2>3, <2>4, <2>5 DEF Tidy, Typed
  <2>7. /\ held'[p] = Append(held[p], h) /\ built'[p] = built[p] + 1
        /\ Len(held'[p]) = Len(held[p]) + 1
        /\ h.kind = Pickles[built[p] + 1]
    BY <2>1, <2>3, <2>4 DEF Tidy, Typed, h, k
  <2>8. \A n \in 1 .. Len(held'[p]) : held'[p][n].kind = Pickles[built'[p] - Len(held'[p]) + n]
    <3> SUFFICES ASSUME NEW n \in 1 .. Len(held'[p])
                 PROVE  held'[p][n].kind = Pickles[built'[p] - Len(held'[p]) + n]
      OBVIOUS
    <3>1. CASE n = Len(held'[p])
      <4>1. held'[p][n] = h /\ built'[p] - Len(held'[p]) + n = built[p] + 1
        BY <2>1, <2>3, <2>7, <3>1
      <4> QED
        BY <2>7, <4>1
    <3>2. CASE n # Len(held'[p])
      <4>1. n \in 1 .. Len(held[p]) /\ built'[p] - Len(held'[p]) + n = built[p] - Len(held[p]) + n
        BY <2>1, <2>7, <3>2
      <4>2. held'[p][n] = held[p][n]
        BY <2>1, <2>3, <2>7, <4>1
      <4> QED
        BY <1>8, <4>1, <4>2 DEF OpenNext, Tidy, Books, HoldsTheLast
    <3> QED
      BY <3>1, <3>2
  <2>others. Others(p)
    BY <1>8, <2>1, <2>4, <2>6, <2>7, <2>8 DEF OpenNext, Others, Tidy, Typed
  <2>kind. KnowsItsKind(p)'
    BY <1>8, <2>1, <2>4, <2>6, <2>7, <2>8 DEF OpenNext, Tidy, Typed, Books, KnowsItsKind, HoldsTheLast, IdleHasNothing
  <2>last. HoldsTheLast(p)'
    BY <1>8, <2>1, <2>4, <2>6, <2>7, <2>8 DEF OpenNext, Tidy, Typed, Books, KnowsItsKind, HoldsTheLast, IdleHasNothing
  <2>nothing. IdleHasNothing(p)'
    BY <1>8, <2>1, <2>4, <2>6, <2>7, <2>8 DEF OpenNext, Tidy, Typed, Books, KnowsItsKind, HoldsTheLast, IdleHasNothing
  <2> QED
    BY <1>8, <2>1, <2>4, <2>6, <2>7, <2>8, <2>others, <2>kind, <2>last, <2>nothing, OwnStep
<1>9. ASSUME NEW p \in Processes, OpenFails(p) PROVE Tidy'
  BY <1>9, LeavingIsTidy DEF OpenFails
<1>10. ASSUME NEW p \in Processes, ClosePrevious(p) PROVE Tidy'
  <2>0. held[p] \in Seq(Handles)
    BY DEF Tidy, Typed
  <2>1. held[p] \in Seq(Handles) /\ Len(held[p]) = 2 /\ held[p] # <<>>
    <3>1. Len(held[p]) = 2
      BY <1>10 DEF ClosePrevious
    <3> QED
      BY <2>0, <3>1, ShortSeq
  <2>2. /\ held' = [held EXCEPT ![p] = Tail(@)] /\ held' \in [Processes -> Seq(Handles)]
        /\ pickle' \in [Kinds -> Files]
    BY <1>10, <2>1, CloseFirstTyped DEF ClosePrevious, Tidy
  <2>3. Typed'
    BY <1>10, <2>2 DEF ClosePrevious, Tidy, Typed
  <2>4. held'[p] = Tail(held[p]) /\ Len(held'[p]) = 1 /\ held'[p][1] = held[p][2]
    <3>1. held'[p] = Tail(held[p])
      BY <2>2 DEF Tidy, Typed
    <3> QED
      BY <2>1, <3>1, ShortSeq
  <2>others. Others(p)
    BY <1>10, <2>1, <2>2, <2>3, <2>4 DEF ClosePrevious, Others, Tidy, Typed
  <2>kind. KnowsItsKind(p)'
    BY <1>10, <2>1, <2>2, <2>3, <2>4 DEF ClosePrevious, Tidy, Typed, Books, KnowsItsKind, HoldsTheLast, IdleHasNothing
  <2>last. HoldsTheLast(p)'
    <3>0. held'[p] \in Seq(Handles)
      BY <2>2
    <3>1. pc'[p] = "build" /\ pc[p] = "build" /\ built'[p] = built[p] /\ built[p] \in 0 .. 5
      BY <1>10 DEF ClosePrevious, Tidy, Typed
    <3>2. 2 <= built[p] /\ held[p][2].kind = Pickles[built[p] - 2 + 2]
      BY <2>1, <3>1 DEF Tidy, Books, HoldsTheLast
    <3>3. held'[p][1].kind = Pickles[built'[p] - 1 + 1]
      BY <2>4, <3>1, <3>2
    <3>4. \A n \in 1 .. Len(held'[p]) : held'[p][n].kind = Pickles[built'[p] - Len(held'[p]) + n]
      <4>1. \A n \in 1 .. 1 : n = 1
        OBVIOUS
      <4> QED
        BY <2>4, <3>3, <4>1
    <3>5. Len(held'[p]) <= 2 /\ Len(held'[p]) <= built'[p]
      <4>1. \A n \in 0 .. 5 : 2 <= n => 1 <= 2 /\ 1 <= n
        OBVIOUS
      <4> QED
        BY <2>4, <3>1, <3>2, <4>1
    <3> QED
      BY <3>1, <3>4, <3>5 DEF HoldsTheLast
  <2>nothing. IdleHasNothing(p)'
    BY <1>10, <2>1, <2>2, <2>3, <2>4 DEF ClosePrevious, Tidy, Typed, Books, KnowsItsKind, HoldsTheLast, IdleHasNothing
  <2> QED
    BY <1>10, <2>1, <2>2, <2>3, <2>4, <2>others, <2>kind, <2>last, <2>nothing, OwnStep
<1>11. ASSUME NEW p \in Processes, EndBuild(p) PROVE Tidy'
  <2>0. held[p] \in Seq(Handles)
    BY DEF Tidy, Typed
  <2>1. held[p] \in Seq(Handles) /\ Len(held[p]) = 1 /\ held[p] # <<>>
    <3>1. Len(held[p]) = 1
      BY <1>11 DEF EndBuild
    <3>2. Len(held[p]) = 0 <=> held[p] = <<>>
      BY <2>0, ShortSeq
    <3> QED
      BY <2>0, <3>1, <3>2
  <2>2. /\ held' = [held EXCEPT ![p] = Tail(@)] /\ held' \in [Processes -> Seq(Handles)]
        /\ pickle' \in [Kinds -> Files]
    BY <1>11, <2>1, CloseFirstTyped DEF EndBuild, CloseLast, Tidy
  <2>3. Typed'
    BY <1>11, <2>2 DEF EndBuild, Tidy, Typed, Places
  <2>4. held'[p] = <<>>
    <3>1. held'[p] = Tail(held[p])
      BY <2>2 DEF Tidy, Typed
    <3> QED
      BY <2>1, <3>1, ShortSeq
  <2>others. Others(p)
    BY <1>11, <2>2, <2>3, <2>4 DEF EndBuild, Others, Tidy, Typed
  <2>kind. KnowsItsKind(p)'
    BY <1>11, <2>2, <2>3, <2>4 DEF EndBuild, Tidy, Typed, Books, KnowsItsKind, HoldsTheLast, IdleHasNothing
  <2>last. HoldsTheLast(p)'
    BY <1>11, <2>2, <2>3, <2>4 DEF EndBuild, Tidy, Typed, Books, KnowsItsKind, HoldsTheLast, IdleHasNothing
  <2>nothing. IdleHasNothing(p)'
    BY <1>11, <2>2, <2>3, <2>4 DEF EndBuild, Tidy, Typed, Books, KnowsItsKind, HoldsTheLast, IdleHasNothing
  <2> QED
    BY <1>11, <2>2, <2>3, <2>4, <2>others, <2>kind, <2>last, <2>nothing, OwnStep
<1>12. ASSUME NEW p \in Processes, Sizes(p) PROVE Tidy'
  <2> DEFINE more == IF pickle["sizes"].there THEN <<"sizes">> ELSE <<"page", "huge", "gb", "sizes!">>
  <2>1. more \in Seq(Tasks) /\ (pickle["sizes"].there => more # <<>> /\ Head(more) \in Kinds)
    <3>1. {"page", "huge", "gb", "sizes", "sizes!"} \subseteq Tasks
      BY DEF Tasks
    <3>2. <<"sizes">> \in Seq(Tasks) /\ <<"page", "huge", "gb", "sizes!">> \in Seq(Tasks)
      BY <3>1
    <3>3. <<"sizes">> # <<>> /\ Head(<<"sizes">>) = "sizes"
      BY SMT
    <3>4. "sizes" \in Kinds
      BY DEF Kinds
    <3> QED
      BY <3>2, <3>3, <3>4
  <2>2. /\ todo' = [todo EXCEPT ![p] = more]
        /\ pc' = [pc EXCEPT ![p] = IF pickle["sizes"].there THEN "load" ELSE "next"]
        /\ UNCHANGED <<experiment, pickle, parsed, built, held, got, history>>
    BY <1>12 DEF Sizes
  <2> HIDE DEF more
  <2>3. Typed'
    BY <2>1, <2>2 DEF Tidy, Typed, Places
  <2>4. held[p] = <<>>
    BY <1>12 DEF Sizes, Now, Tidy, Books, HoldsTheLast
  <2>others. Others(p)
    BY <2>1, <2>2, <2>3, <2>4 DEF Others, Tidy, Typed
  <2>kind. KnowsItsKind(p)'
    BY <2>1, <2>2, <2>3, <2>4 DEF Tidy, Typed, Books, KnowsItsKind, HoldsTheLast, IdleHasNothing
  <2>last. HoldsTheLast(p)'
    BY <2>1, <2>2, <2>3, <2>4 DEF Tidy, Typed, Books, KnowsItsKind, HoldsTheLast, IdleHasNothing
  <2>nothing. IdleHasNothing(p)'
    BY <2>1, <2>2, <2>3, <2>4 DEF Tidy, Typed, Books, KnowsItsKind, HoldsTheLast, IdleHasNothing
  <2> QED
    BY <2>1, <2>2, <2>3, <2>4, <2>others, <2>kind, <2>last, <2>nothing, OwnStep
<1>13. ASSUME NEW p \in Processes, OpenSizes(p) PROVE Tidy'
  <2> DEFINE h == [kind |-> "sizes", run |-> run]
  <2>1. h \in Handles /\ h.kind = "sizes"
    BY DEF Handles, Kinds, Tidy, Typed
  <2>2. PICK data \in got[p] : parsed' = [parsed EXCEPT ![p] = data]
    BY <1>13 DEF OpenSizes
  <2>3. parsed' \in [Processes -> Data] /\ parsed'[p] \in Data
    BY <2>2 DEF Tidy, Typed
  <2>4. pickle' \in [Kinds -> Files]
    <3>1. [there |-> TRUE, whole |-> FALSE, by |-> p, data |-> parsed'[p]] \in Files
      BY <2>3 DEF Files
    <3> QED
      BY <1>13, <3>1 DEF OpenSizes, Truncated, Tidy, Typed
  <2>5. held' = [held EXCEPT ![p] = <<h>>] /\ pc' = [pc EXCEPT ![p] = "sizes"]
        /\ UNCHANGED <<experiment, todo, built, got, history>>
    BY <1>13 DEF OpenSizes
  <2> HIDE DEF h
  <2>6. Typed'
    BY <2>1, <2>3, <2>4, <2>5 DEF Tidy, Typed, Places
  <2>others. Others(p)
    BY <2>1, <2>5, <2>6 DEF Others, Tidy, Typed
  <2>kind. KnowsItsKind(p)'
    BY <2>1, <2>5, <2>6 DEF Tidy, Typed, Books, KnowsItsKind, HoldsTheLast, IdleHasNothing
  <2>last. HoldsTheLast(p)'
    BY <2>1, <2>5, <2>6 DEF Tidy, Typed, Books, KnowsItsKind, HoldsTheLast, IdleHasNothing
  <2>nothing. IdleHasNothing(p)'
    BY <2>1, <2>5, <2>6 DEF Tidy, Typed, Books, KnowsItsKind, HoldsTheLast, IdleHasNothing
  <2> QED
    BY <2>1, <2>5, <2>6, <2>others, <2>kind, <2>last, <2>nothing, OwnStep
<1>14. ASSUME NEW p \in Processes, CloseSizes(p) PROVE Tidy'
  <2>1. held[p] \in Seq(Handles) /\ Len(held[p]) = 1 /\ held[p] # <<>>
    BY <1>14 DEF CloseSizes, Tidy, Typed, Books, HoldsTheLast
  <2>2. /\ held' = [held EXCEPT ![p] = Tail(@)] /\ held' \in [Processes -> Seq(Handles)]
        /\ pickle' \in [Kinds -> Files]
    BY <1>14, <2>1, CloseFirstTyped DEF CloseSizes, Tidy
  <2>3. Typed'
    BY <1>14, <2>2 DEF CloseSizes, Tidy, Typed, Places
  <2>4. held'[p] = <<>>
    <3>1. held'[p] = Tail(held[p])
      BY <2>2 DEF Tidy, Typed
    <3> QED
      BY <2>1, <3>1, ShortSeq
  <2>others. Others(p)
    BY <1>14, <2>2, <2>3, <2>4 DEF CloseSizes, Others, Tidy, Typed
  <2>kind. KnowsItsKind(p)'
    BY <1>14, <2>2, <2>3, <2>4 DEF CloseSizes, Tidy, Typed, Books, KnowsItsKind, HoldsTheLast, IdleHasNothing
  <2>last. HoldsTheLast(p)'
    BY <1>14, <2>2, <2>3, <2>4 DEF CloseSizes, Tidy, Typed, Books, KnowsItsKind, HoldsTheLast, IdleHasNothing
  <2>nothing. IdleHasNothing(p)'
    BY <1>14, <2>2, <2>3, <2>4 DEF CloseSizes, Tidy, Typed, Books, KnowsItsKind, HoldsTheLast, IdleHasNothing
  <2> QED
    BY <1>14, <2>2, <2>3, <2>4, <2>others, <2>kind, <2>last, <2>nothing, OwnStep
<1>15. ASSUME NEW p \in Processes, Finish(p) \/ Kill(p) PROVE Tidy'
  BY <1>15, LeavingIsTidy DEF Finish, Kill
<1> QED
  BY <1>1, <1>2, <1>3, <1>4, <1>5, <1>6, <1>7, <1>8, <1>9, <1>10, <1>11, <1>12, <1>13, <1>14, <1>15 DEF Next

-----------------------------------------------------------------------------
(* The cache of the present run.                                           *)

Holds(q, k) == \E n \in 1 .. Len(held[q]) : held[q][n].kind = k

\* What a process knows is of the present run.
ReadsThisRun(p) ==
  /\ pc[p] = "parsepages" => parsed[p][1] = run
  /\ pc[p] \in {"build", "sizes"} => parsed[p] = <<run, run>>
  /\ got[p] \subseteq {<<run, run>>}
  /\ \A n \in 1 .. Len(held[p]) : held[p][n].run = run

\* A pickle that is not whole was truncated last by one that still holds it, or
\* was killed when it did.
Accounted(k) == \E q \in Processes : pickle[k].by = q /\ (pc[q] = "killed" \/ Holds(q, k))

FilesOfThisRun ==
  \A k \in Kinds : pickle[k].there \/ pickle[k].whole =>
    pickle[k].data = <<run, run>> /\ (~ pickle[k].whole => Accounted(k))

ThisRun ==
  ~ overlapped =>
    /\ Active # {} => stage = "over"
    /\ \A p \in Processes : ReadsThisRun(p)
    /\ FilesOfThisRun

LEMMA ThisRunInit == Init => ThisRun
<1> SUFFICES ASSUME Init PROVE ThisRun
  OBVIOUS
<1>1. Active = {}
  BY DEF Init, Active
<1>2. FilesOfThisRun
  BY DEF Init, FilesOfThisRun, Absent
<1>3. ASSUME NEW p \in Processes PROVE ReadsThisRun(p)
  <2>1. held[p] = <<>> /\ Len(held[p]) = 0 /\ pc[p] = "idle" /\ got[p] = {}
    BY DEF Init
  <2> QED
    BY <2>1 DEF ReadsThisRun
<1> QED
  BY <1>1, <1>2, <1>3 DEF ThisRun

\* Where a step of one process is enough to look at.
LEMMA OwnRun ==
  ASSUME Tidy, ThisRun, NEW p \in Processes, Others(p), UNCHANGED experiment,
         \A q \in Processes \ {p} : parsed'[q] = parsed[q],
         ~ overlapped, stage = "over", ReadsThisRun(p)', FilesOfThisRun'
  PROVE  ThisRun'
<1>1. ASSUME NEW q \in Processes \ {p} PROVE ReadsThisRun(q)'
  <2>1. ReadsThisRun(q)
    BY DEF ThisRun
  <2> QED
    BY <2>1 DEF ReadsThisRun, Others, experiment
<1>2. \A q \in Processes : ReadsThisRun(q)'
  BY <1>1
<1> QED
  BY <1>2 DEF ThisRun, experiment

\* Where the files stay as they are, and nothing that is held is lost.
LEMMA FilesKept ==
  ASSUME Tidy, NEW p \in Processes, Others(p), UNCHANGED <<pickle, run>>, FilesOfThisRun,
         pc[p] # "killed", held'[p] = held[p] \/ held[p] = <<>> \/ pc'[p] = "killed"
  PROVE  FilesOfThisRun'
<1> SUFFICES ASSUME NEW k \in Kinds, pickle[k].there, ~ pickle[k].whole PROVE Accounted(k)'
  BY DEF FilesOfThisRun
<1>1. PICK q \in Processes : pickle[k].by = q /\ (pc[q] = "killed" \/ Holds(q, k))
  BY DEF FilesOfThisRun, Accounted
<1>2. CASE q # p
  BY <1>1, <1>2 DEF Others, Accounted, Holds
<1>3. CASE q = p
  <2>1. Holds(p, k)
    BY <1>1, <1>3
  <2>2. held[p] # <<>>
    <3>1. Len(<<>>) = 0
      OBVIOUS
    <3> QED
      BY <2>1, <3>1 DEF Holds
  <2> QED
    BY <1>1, <1>3, <2>1, <2>2 DEF Accounted, Holds
<1> QED
  BY <1>2, <1>3

\* p leaves, killed or with nothing open.
LEMMA LeavingKeepsTheRun ==
  ASSUME Tidy, ThisRun, NEW p \in Active, NEW how \in {"done", "died", "killed"}, Leave(p, how),
         held[p] = <<>> \/ how = "killed", UNCHANGED <<experiment, pickle, history>>
  PROVE  ThisRun'
<1> SUFFICES ASSUME ~ overlapped PROVE ThisRun'
  BY DEF ThisRun, history
<1> USE DEF Goto, experiment, history
<1>1. p \in Processes /\ stage = "over" /\ FilesOfThisRun /\ pc[p] # "killed"
  BY DEF ThisRun, Active
<1>2. Others(p)
  BY <1>1 DEF Leave, Others, Tidy, Typed
<1>3. \A q \in Processes \ {p} : parsed'[q] = parsed[q]
  BY <1>1 DEF Leave, Tidy, Typed
<1>4. pc'[p] = how /\ got'[p] = {} /\ held'[p] = <<>>
  BY <1>1 DEF Leave, Tidy, Typed
<1>5. ReadsThisRun(p)'
  <2>1. Len(<<>>) = 0
    OBVIOUS
  <2> QED
    BY <1>4, <2>1 DEF ReadsThisRun
<1>6. FilesOfThisRun'
  BY <1>1, <1>2, <1>4, FilesKept
<1> QED
  BY <1>1, <1>2, <1>3, <1>5, <1>6, OwnRun

\* The pickle of kind k is truncated by p, which holds it from then on.
LEMMA OpeningKeepsTheFiles ==
  ASSUME Tidy, Tidy', NEW p \in Processes, Others(p), FilesOfThisRun, run' = run,
         NEW k \in Kinds, NEW file, pickle' = [pickle EXCEPT ![k] = file],
         file.by = p, file.data = <<run, run>>, pc[p] # "killed",
         Holds(p, k)', \A j \in Kinds : Holds(p, j) => Holds(p, j)'
  PROVE  FilesOfThisRun'
<1> SUFFICES ASSUME NEW j \in Kinds, pickle'[j].there \/ pickle'[j].whole
             PROVE  pickle'[j].data = <<run, run>> /\ (~ pickle'[j].whole => Accounted(j)')
  BY DEF FilesOfThisRun
<1>1. CASE j = k
  <2>1. pickle'[j] = file
    BY <1>1 DEF Tidy, Typed
  <2> QED
    BY <1>1, <2>1 DEF Accounted
<1>2. CASE j # k
  <2>1. pickle'[j] = pickle[j]
    BY <1>2 DEF Tidy, Typed
  <2>2. pickle[j].data = <<run, run>> /\ (~ pickle[j].whole => Accounted(j))
    BY <2>1 DEF FilesOfThisRun
  <2>3. ASSUME ~ pickle[j].whole PROVE Accounted(j)'
    <3>1. PICK q \in Processes : pickle[j].by = q /\ (pc[q] = "killed" \/ Holds(q, j))
      BY <2>2, <2>3 DEF Accounted
    <3>2. CASE q = p
      BY <2>1, <3>1, <3>2 DEF Accounted
    <3>3. CASE q # p
      BY <2>1, <3>1, <3>3 DEF Accounted, Others, Holds
    <3> QED
      BY <3>2, <3>3
  <2> QED
    BY <2>1, <2>2, <2>3
<1> QED
  BY <1>1, <1>2

\* p closes the first of the pickles it holds.
LEMMA ClosingKeepsTheFiles ==
  ASSUME Tidy, Tidy', NEW p \in Processes, Others(p), FilesOfThisRun, run' = run, stage = "over",
         held[p] # <<>>, CloseFirst(p), held[p][1].run = run, parsed[p] = <<run, run>>,
         pc[p] # "killed",
         \A j \in Kinds : j # held[p][1].kind /\ Holds(p, j) => Holds(p, j)'
  PROVE  FilesOfThisRun'
<1> DEFINE k == held[p][1].kind
<1>1. held[p] \in Seq(Handles) /\ Head(held[p]) = held[p][1] /\ held[p][1] \in Handles
  BY DEF Tidy, Typed
<1>2. k \in Kinds
  BY <1>1 DEF Handles
<1>3. PICK file \in Closed(p, pickle[k]) : pickle' = [pickle EXCEPT ![k] = file]
  BY <1>1 DEF CloseFirst
<1>4. pickle[k] \in Files
  BY <1>2 DEF Tidy, Typed
<1>5. pickle'[k] = file /\ \A j \in Kinds : j # k => pickle'[j] = pickle[j]
  BY <1>2, <1>3 DEF Tidy, Typed
<1>6. file.there = pickle[k].there
  BY <1>3, <1>4 DEF Closed, Files
<1>7. file.there \/ file.whole =>
        file.data = <<run, run>> /\ (file.whole \/ (file = pickle[k] /\ pickle[k].by # p))
  <2>1. pickle[k].there \/ pickle[k].whole => pickle[k].data = <<run, run>>
    BY <1>2 DEF FilesOfThisRun
  <2> QED
    BY <1>3, <1>4, <1>6, <2>1 DEF Closed, Files
<1> HIDE DEF k
<1> SUFFICES ASSUME NEW j \in Kinds, pickle'[j].there \/ pickle'[j].whole
             PROVE  pickle'[j].data = <<run, run>> /\ (~ pickle'[j].whole => Accounted(j)')
  BY DEF FilesOfThisRun
<1>8. pickle'[j].data = <<run, run>>
  BY <1>5, <1>7 DEF FilesOfThisRun
<1>9. ASSUME ~ pickle'[j].whole PROVE Accounted(j)'
  <2>1. pickle'[j] = pickle[j] /\ (j = k => pickle[j].by # p)
    BY <1>5, <1>7, <1>9
  <2>2. PICK q \in Processes : pickle[j].by = q /\ (pc[q] = "killed" \/ Holds(q, j))
    BY <1>9, <2>1 DEF FilesOfThisRun, Accounted
  <2>3. CASE q # p
    BY <2>1, <2>2, <2>3 DEF Accounted, Others, Holds
  <2>4. CASE q = p
    <3>1. j # k /\ Holds(p, j)
      BY <2>1, <2>2, <2>4
    <3>2. Holds(p, j)'
      BY <3>1 DEF k
    <3> QED
      BY <2>1, <2>2, <2>4, <3>2 DEF Accounted
  <2> QED
    BY <2>3, <2>4
<1> QED
  BY <1>8, <1>9

\* A step of p that leaves the files and what it holds.
LEMMA QuietKeepsTheRun ==
  ASSUME Tidy, ThisRun, NEW p \in Processes, Others(p), UNCHANGED <<experiment, pickle, held>>,
         \A q \in Processes \ {p} : parsed'[q] = parsed[q],
         pc[p] # "killed", ~ overlapped, stage = "over", ReadsThisRun(p)'
  PROVE  ThisRun'
<1>1. FilesOfThisRun
  BY DEF ThisRun
<1>2. FilesOfThisRun'
  BY <1>1, FilesKept DEF experiment
<1> QED
  BY <1>2, OwnRun

\* Opening a pickle adds a handle, and closing one takes the first away.
LEMMA OneMore ==
  ASSUME NEW S, NEW s \in Seq(S), NEW h \in S
  PROVE  /\ \E n \in 1 .. Len(Append(s, h)) : Append(s, h)[n] = h
         /\ \A n \in 1 .. Len(s) : n \in 1 .. Len(Append(s, h)) /\ Append(s, h)[n] = s[n]
         /\ \A n \in 1 .. Len(Append(s, h)) :
              Append(s, h)[n] = h \/ \E m \in 1 .. Len(s) : Append(s, h)[n] = s[m]
<1>1. Len(s) \in Nat /\ Len(Append(s, h)) = Len(s) + 1 /\ Append(s, h)[Len(s) + 1] = h
  BY AppendProperties, LenProperties
<1>2. \A n \in 1 .. Len(s) : Append(s, h)[n] = s[n]
  BY AppendProperties
<1>3. Len(s) + 1 \in 1 .. Len(Append(s, h))
  BY <1>1
<1>4. \A n \in 1 .. Len(s) : n \in 1 .. Len(Append(s, h))
  BY <1>1
<1>5. \A n \in 1 .. Len(Append(s, h)) : n = Len(s) + 1 \/ n \in 1 .. Len(s)
  BY <1>1
<1> QED
  BY <1>1, <1>2, <1>3, <1>4, <1>5

LEMMA OneLess ==
  ASSUME Tidy, NEW p \in Processes, CloseFirst(p), pc[p] \in {"build", "sizes"}, held[p] # <<>>,
         pc[p] \in {"build", "sizes"}
  PROVE  /\ held' = [held EXCEPT ![p] = Tail(@)] /\ held'[p] = Tail(held[p])
         /\ Len(held[p]) = 1 => held'[p] = <<>> /\ Len(held'[p]) = 0
         /\ Len(held[p]) = 2 => Len(held'[p]) = 1 /\ held'[p][1] = held[p][2]
         /\ Len(held[p]) \in {1, 2} /\ 1 \in 1 .. Len(held[p])
         /\ Len(held[p]) \in {1, 2} => \A j \in Kinds : j # held[p][1].kind /\ Holds(p, j) => Holds(p, j)'
<1>1. held[p] \in Seq(Handles) /\ held' = [held EXCEPT ![p] = Tail(@)]
  BY DEF Tidy, Typed, CloseFirst
<1>2. held'[p] = Tail(held[p])
  BY <1>1 DEF Tidy, Typed
<1>3. Len(held[p]) = 1 => held'[p] = <<>> /\ Len(held'[p]) = 0
  <2>1. Len(<<>>) = 0
    OBVIOUS
  <2> QED
    BY <1>1, <1>2, <2>1, ShortSeq
<1>4. Len(held[p]) = 2 => Len(held'[p]) = 1 /\ held'[p][1] = held[p][2]
  BY <1>1, <1>2, ShortSeq
<1>5. Len(held[p]) \in {1, 2} /\ 1 \in 1 .. Len(held[p])
  <2>1. Len(held[p]) \in Nat /\ Len(held[p]) # 0
    BY <1>1, ShortSeq
  <2>2. Len(held[p]) <= 2 \/ Len(held[p]) = 1
    BY DEF Tidy, Books, HoldsTheLast
  <2>3. \A n \in Nat : n # 0 /\ (n <= 2 \/ n = 1) => n \in {1, 2} /\ 1 \in 1 .. n
    OBVIOUS
  <2> QED
    BY <2>1, <2>2, <2>3
<1>6. ASSUME NEW j \in Kinds, j # held[p][1].kind, Holds(p, j) PROVE Holds(p, j)'
  <2>1. PICK n \in 1 .. Len(held[p]) : held[p][n].kind = j
    BY <1>6 DEF Holds
  <2>2. \A m \in {1, 2} : \A i \in 1 .. m : i # 1 => i = 2 /\ m = 2
    OBVIOUS
  <2>3. n = 2 /\ Len(held[p]) = 2
    BY <1>5, <1>6, <2>1, <2>2
  <2>4. 1 \in 1 .. 1
    OBVIOUS
  <2> QED
    BY <1>4, <2>1, <2>3, <2>4 DEF Holds
<1> QED
  BY <1>1, <1>2, <1>3, <1>4, <1>5, <1>6

\* Once a process was about too early there is nothing to show, and as long as none
\* was, every step keeps the files and the processes to the present run.
LEMMA ThisRunNext == Tidy /\ Tidy' /\ ThisRun /\ [Next]_vars => ThisRun'
<1> SUFFICES ASSUME Tidy, Tidy', ThisRun, [Next]_vars, ~ overlapped' PROVE ThisRun'
  BY DEF ThisRun
<1> USE DEF At, Goto, experiment, history
<1>1. CASE UNCHANGED vars
  BY <1>1 DEF vars, ThisRun, ReadsThisRun, FilesOfThisRun, Accounted, Holds, Active
<1>2. CASE Rerun
  <2>1. Active = {} /\ ~ overlapped /\ UNCHANGED <<pc, todo, parsed, built, held, got>>
    BY <1>2 DEF Rerun
  <2>2. FilesOfThisRun'
    BY <1>2 DEF Rerun, RemovePickles, FilesOfThisRun, Absent
  <2>3. ASSUME NEW p \in Processes PROVE ReadsThisRun(p)'
    <3>1. pc[p] \in {"idle", "done", "died", "killed"}
      BY <2>1 DEF Active
    <3>2. got[p] = {} /\ held[p] = <<>> /\ Len(<<>>) = 0
      BY <3>1 DEF Tidy, Books, IdleHasNothing
    <3> QED
      BY <2>1, <3>1, <3>2 DEF ReadsThisRun
  <2> QED
    BY <2>1, <2>2, <2>3 DEF ThisRun, Active
<1>3. CASE MakeDirectory \/ Profile
  <2>1. /\ ~ overlapped /\ stage # "over" /\ run' = run
        /\ UNCHANGED <<pickle, pc, todo, parsed, built, held, got>>
    BY <1>3 DEF MakeDirectory, Profile
  <2> QED
    BY <2>1 DEF ThisRun, ReadsThisRun, FilesOfThisRun, Accounted, Holds, Active
\* A process that is about finds the run over.
<1>4. ASSUME NEW p \in Active, ~ overlapped
      PROVE  p \in Processes /\ stage = "over" /\ sites = run /\ pages = run /\ ReadsThisRun(p)
             /\ FilesOfThisRun /\ pc[p] # "killed"
  BY <1>4 DEF ThisRun, Active, Tidy, Typed
<1>5. ASSUME NEW p \in Processes, Start(p) PROVE ThisRun'
  <2>1. ~ overlapped /\ stage = "over" /\ pc[p] = "idle" /\ Others(p)
    BY <1>5 DEF Start, Others, Tidy, Typed
  <2>2. pc'[p] = "next" /\ UNCHANGED <<experiment, pickle, parsed, held, got>>
    BY <1>5 DEF Start, Tidy, Typed
  <2>3. ReadsThisRun(p)'
    BY <2>1, <2>2 DEF ThisRun, ReadsThisRun
  <2> QED
    BY <2>1, <2>2, <2>3, QuietKeepsTheRun
<1>6. ASSUME NEW p \in Processes, NEW k \in Kinds, Get(p, k) PROVE ThisRun'
  <2>1. p \in Active /\ ~ overlapped /\ Others(p)
    BY <1>6 DEF Get, Now, Active, Others, Tidy, Typed
  <2>2. pc'[p] \in {"load", "parse"} /\ UNCHANGED <<experiment, pickle, parsed, held, got>>
    BY <1>6 DEF Get, Tidy, Typed
  <2>3. ReadsThisRun(p)'
    BY <1>4, <2>1, <2>2 DEF ReadsThisRun
  <2> QED
    BY <1>4, <2>1, <2>2, <2>3, QuietKeepsTheRun
<1>7. ASSUME NEW p \in Processes, Load(p) PROVE ThisRun'
  <2>1. p \in Active /\ ~ overlapped /\ held[p] = <<>>
    BY <1>7 DEF Load, Active, Tidy, Books, HoldsTheLast
  <2>2. CASE Leave(p, "died")
    BY <1>7, <2>1, <2>2, LeavingKeepsTheRun DEF Load
  <2>3. CASE /\ pickle[Head(todo[p])].whole
             /\ got' = [got EXCEPT ![p] = @ \cup {pickle[Head(todo[p])].data}]
             /\ todo' = [todo EXCEPT ![p] = Tail(@)] /\ pc' = [pc EXCEPT ![p] = "next"]
             /\ UNCHANGED <<parsed, built, held>>
    <3>1. Others(p)
      BY <1>7, <2>3 DEF Load, Others, Tidy, Typed
    <3>2. Head(todo[p]) \in Kinds
      BY <1>7 DEF Load, Tidy, Books, KnowsItsKind
    <3>4. pickle[Head(todo[p])].data = <<run, run>>
      BY <1>4, <2>1, <2>3, <3>2 DEF FilesOfThisRun
    <3>5. got'[p] \subseteq {<<run, run>>} /\ pc'[p] = "next"
      BY <1>4, <2>1, <2>3, <3>4 DEF ReadsThisRun, Tidy, Typed
    <3>6. ReadsThisRun(p)'
      BY <1>4, <1>7, <2>1, <2>3, <3>5 DEF ReadsThisRun, Load
    <3> QED
      BY <1>4, <1>7, <2>1, <2>3, <3>1, <3>6, QuietKeepsTheRun DEF Load
  <2> QED
    BY <1>7, <2>2, <2>3 DEF Load
<1>8. ASSUME NEW p \in Processes, ParseSites(p) PROVE ThisRun'
  <2>1. p \in Active /\ ~ overlapped /\ held[p] = <<>>
    BY <1>8 DEF ParseSites, Active, Tidy, Books, HoldsTheLast
  <2>2. CASE Leave(p, "died")
    BY <1>8, <2>1, <2>2, LeavingKeepsTheRun DEF ParseSites
  <2>3. CASE /\ parsed' = [parsed EXCEPT ![p] = <<sites, 0>>]
             /\ pc' = [pc EXCEPT ![p] = "parsepages"] /\ UNCHANGED <<todo, built, held, got>>
    <3>1. Others(p) /\ \A q \in Processes \ {p} : parsed'[q] = parsed[q]
      BY <1>8, <2>3 DEF ParseSites, Others, Tidy, Typed
    <3>2. parsed'[p][1] = run /\ pc'[p] = "parsepages"
      BY <1>4, <2>1, <2>3 DEF Tidy, Typed
    <3>3. ReadsThisRun(p)'
      BY <1>4, <1>8, <2>1, <2>3, <3>2 DEF ReadsThisRun, ParseSites
    <3> QED
      BY <1>4, <1>8, <2>1, <2>3, <3>1, <3>3, QuietKeepsTheRun DEF ParseSites
  <2> QED
    BY <1>8, <2>2, <2>3 DEF ParseSites
<1>9. ASSUME NEW p \in Processes, ParsePages(p) PROVE ThisRun'
  <2>1. p \in Active /\ ~ overlapped
    BY <1>9 DEF ParsePages, Active
  <2>2. Others(p) /\ \A q \in Processes \ {p} : parsed'[q] = parsed[q]
    BY <1>9 DEF ParsePages, Others, Tidy, Typed
  <2>3. parsed'[p] = [parsed[p] EXCEPT ![2] = pages] /\ pc'[p] = "build"
    BY <1>9 DEF ParsePages, Tidy, Typed
  <2>4. parsed[p] \in Data /\ pages \in Nat
    BY DEF Tidy, Typed
  <2>5. parsed'[p] = <<parsed[p][1], pages>>
    BY <2>3, <2>4, PairExcept
  <2>6. parsed'[p] = <<run, run>>
    BY <1>4, <1>9, <2>1, <2>5 DEF ReadsThisRun, ParsePages
  <2>7. ReadsThisRun(p)'
    BY <1>4, <1>9, <2>1, <2>3, <2>6 DEF ReadsThisRun, ParsePages
  <2> QED
    BY <1>4, <1>9, <2>1, <2>2, <2>7, QuietKeepsTheRun DEF ParsePages
<1>10. ASSUME NEW p \in Processes, Sizes(p) PROVE ThisRun'
  <2>1. p \in Active /\ ~ overlapped /\ Others(p)
    BY <1>10 DEF Sizes, Now, Active, Others, Tidy, Typed
  <2>2. pc'[p] \in {"load", "next"} /\ UNCHANGED <<experiment, pickle, parsed, held, got>>
    BY <1>10 DEF Sizes, Tidy, Typed
  <2>3. ReadsThisRun(p)'
    BY <1>4, <2>1, <2>2 DEF ReadsThisRun
  <2> QED
    BY <1>4, <2>1, <2>2, <2>3, QuietKeepsTheRun
<1>11. ASSUME NEW p \in Processes, OpenFails(p) \/ Finish(p) \/ Kill(p) PROVE ThisRun'
  <2>1. p \in Active /\ ~ overlapped
    BY <1>11 DEF OpenFails, Now, Finish, Kill, Active, Leave
  <2>2. ~ OpenFails(p)
    BY <1>4, <2>1 DEF OpenFails
  <2>3. Finish(p) => held[p] = <<>>
    BY DEF Finish, Tidy, Books, HoldsTheLast
  <2> QED
    BY <1>11, <2>1, <2>2, <2>3, LeavingKeepsTheRun DEF Finish, Kill
<1>12. ASSUME NEW p \in Processes, OpenNext(p) PROVE ThisRun'
  <2>1. p \in Active /\ ~ overlapped /\ pc[p] = "build" /\ pc'[p] = "build"
    BY <1>12 DEF OpenNext, Active
  <2>2. Others(p) /\ parsed' = parsed /\ got' = got
    BY <1>12 DEF OpenNext, Others, Tidy, Typed
  <2>3. PICK k \in Kinds : k = Pickles[built[p] + 1]
    <3>1. built[p] < 5 /\ built[p] \in 0 .. 5
      BY <1>12, LenPickles DEF OpenNext, Tidy, Typed
    <3>2. built[p] + 1 \in 1 .. 5
      BY <3>1
    <3> QED
      BY <3>2, FiveKinds
  <2>4. PICK file : /\ file = [there |-> TRUE, whole |-> FALSE, by |-> p, data |-> parsed[p]]
                    /\ pickle' = [pickle EXCEPT ![k] = file]
    BY <1>12, <2>3 DEF OpenNext, Truncated
  <2>5. PICK h \in Handles : h = [kind |-> k, run |-> run]
    BY DEF Handles, Tidy, Typed
  <2>6. file.by = p /\ file.data = <<run, run>>
    BY <1>4, <2>1, <2>4 DEF ReadsThisRun
  <2>7. h.kind = k /\ h.run = run
    BY <2>5
  <2>8. held[p] \in Seq(Handles) /\ held'[p] = Append(held[p], h)
    BY <1>12, <2>3, <2>5 DEF OpenNext, Tidy, Typed
  <2>9. /\ \E n \in 1 .. Len(held'[p]) : held'[p][n] = h
        /\ \A n \in 1 .. Len(held[p]) : n \in 1 .. Len(held'[p]) /\ held'[p][n] = held[p][n]
        /\ \A n \in 1 .. Len(held'[p]) :
             held'[p][n] = h \/ \E m \in 1 .. Len(held[p]) : held'[p][n] = held[p][m]
    BY <2>8, OneMore
  <2>10. Holds(p, k)' /\ \A j \in Kinds : Holds(p, j) => Holds(p, j)'
    BY <2>7, <2>9 DEF Holds
  <2>11. FilesOfThisRun'
    BY <1>4, <1>12, <2>1, <2>2, <2>4, <2>6, <2>10, OpeningKeepsTheFiles DEF OpenNext
  <2>12. ReadsThisRun(p)'
    BY <1>4, <1>12, <2>1, <2>2, <2>7, <2>9 DEF ReadsThisRun, OpenNext
  <2> QED
    BY <1>4, <1>12, <2>1, <2>2, <2>11, <2>12, OwnRun DEF OpenNext
<1>13. ASSUME NEW p \in Processes, OpenSizes(p) PROVE ThisRun'
  <2>1. p \in Active /\ ~ overlapped /\ held[p] = <<>> /\ "sizes" \in Kinds
    BY <1>13 DEF OpenSizes, Now, Active, Tidy, Books, HoldsTheLast, Kinds
  <2>2. PICK data \in got[p] : parsed' = [parsed EXCEPT ![p] = data]
    BY <1>13 DEF OpenSizes
  <2>3. data = <<run, run>> /\ parsed'[p] = data /\ \A q \in Processes \ {p} : parsed'[q] = parsed[q]
    BY <1>4, <2>1, <2>2 DEF ReadsThisRun, Tidy, Typed
  <2>4. PICK h : h = [kind |-> "sizes", run |-> run]
    OBVIOUS
  <2>5. Others(p) /\ pc'[p] = "sizes" /\ got' = got /\ held'[p] = <<h>>
    BY <1>13, <2>4 DEF OpenSizes, Others, Tidy, Typed
  <2>6. PICK file : /\ file.by = p /\ file.data = <<run, run>>
                    /\ pickle' = [pickle EXCEPT !["sizes"] = file]
    <3>1. pickle' =
            [pickle EXCEPT !["sizes"] = [there |-> TRUE, whole |-> FALSE, by |-> p, data |-> data]]
      BY <1>13, <2>3 DEF OpenSizes, Truncated
    <3> QED
      BY <2>3, <3>1
  <2>7. Len(<<h>>) = 1 /\ <<h>>[1] = h /\ Len(<<>>) = 0
    OBVIOUS
  <2>8. Holds(p, "sizes")' /\ \A j \in Kinds : ~ Holds(p, j)
    BY <2>1, <2>4, <2>5, <2>7 DEF Holds
  <2>9. FilesOfThisRun'
    BY <1>4, <1>13, <2>1, <2>5, <2>6, <2>8, OpeningKeepsTheFiles DEF OpenSizes
  <2>10. ReadsThisRun(p)'
    <3>1. \A n \in 1 .. Len(held'[p]) : held'[p][n] = h
      BY <2>5, <2>7
    <3> QED
      BY <1>4, <1>13, <2>1, <2>3, <2>4, <2>5, <3>1 DEF ReadsThisRun, OpenSizes
  <2> QED
    BY <1>4, <1>13, <2>1, <2>3, <2>5, <2>9, <2>10, OwnRun DEF OpenSizes
<1>14. ASSUME NEW p \in Processes, ClosePrevious(p) \/ EndBuild(p) \/ CloseSizes(p) PROVE ThisRun'
  <2>1. p \in Active /\ ~ overlapped /\ pc[p] \in {"build", "sizes"} /\ CloseFirst(p)
    BY <1>14 DEF ClosePrevious, EndBuild, CloseLast, CloseSizes, Active
  <2>2. held[p] # <<>> /\ Len(held[p]) \in {1, 2}
    <3>1. Len(held[p]) \in {1, 2}
      BY <1>14 DEF ClosePrevious, EndBuild, CloseSizes, Tidy, Books, HoldsTheLast
    <3>2. Len(<<>>) = 0
      OBVIOUS
    <3> QED
      BY <3>1, <3>2
  <2>3. /\ held' = [held EXCEPT ![p] = Tail(@)]
        /\ Len(held[p]) = 1 => Len(held'[p]) = 0
        /\ Len(held[p]) = 2 => Len(held'[p]) = 1 /\ held'[p][1] = held[p][2]
        /\ \A j \in Kinds : j # held[p][1].kind /\ Holds(p, j) => Holds(p, j)'
    BY <2>1, <2>2, OneLess
  <2>4. /\ Others(p) /\ UNCHANGED <<experiment, parsed, got, history>>
        /\ pc'[p] \in {"next", "load"} \/ pc'[p] = pc[p]
    <3>1. Others(p)
      BY <1>14, <2>3 DEF ClosePrevious, EndBuild, CloseSizes, Others, Tidy, Typed
    <3> QED
      BY <1>14, <3>1 DEF ClosePrevious, EndBuild, CloseSizes, Tidy, Typed
  <2>5. \A n \in 1 .. Len(held[p]) : held[p][n].run = run
    BY <1>4, <2>1 DEF ReadsThisRun
  <2>6. held[p][1].run = run /\ parsed[p] = <<run, run>>
    <3>1. \A m \in {1, 2} : 1 \in 1 .. m
      OBVIOUS
    <3> QED
      BY <1>4, <2>1, <2>2, <2>5, <3>1 DEF ReadsThisRun
  <2>7. FilesOfThisRun'
    BY <1>4, <2>1, <2>2, <2>3, <2>4, <2>6, ClosingKeepsTheFiles
  <2>8. \A n \in 1 .. Len(held'[p]) : held'[p][n].run = run
    <3>1. (\A n \in 1 .. 0 : FALSE) /\ (\A n \in 1 .. 1 : n = 1) /\ 2 \in 1 .. 2
      OBVIOUS
    <3> QED
      BY <2>2, <2>3, <2>5, <3>1
  <2>9. ReadsThisRun(p)'
    BY <1>4, <2>1, <2>4, <2>6, <2>8 DEF ReadsThisRun
  <2> QED
    BY <1>4, <2>1, <2>4, <2>7, <2>9, OwnRun
<1> QED
  BY <1>1, <1>2, <1>3, <1>5, <1>6, <1>7, <1>8, <1>9, <1>10, <1>11, <1>12, <1>13, <1>14 DEF Next

\* postprocess.py:306-331: as long as no process was about before a run was over, a
\* pickle that is there is whole and of that run, or is being written, or was left by
\* one that was killed.
THEOREM FilesAreOfThisRun == Spec => []CacheOfThisRun
<1>1. Tidy /\ ThisRun => CacheOfThisRun
  <2> SUFFICES ASSUME Tidy, ThisRun, ~ overlapped, NEW k \in Kinds, pickle[k].there
               PROVE  IF pickle[k].whole THEN pickle[k].data = <<run, run>>
                      ELSE pickle[k].by \in Active \cup {p \in Processes : pc[p] = "killed"}
    BY DEF CacheOfThisRun
  <2>1. pickle[k].data = <<run, run>> /\ (~ pickle[k].whole => Accounted(k))
    BY DEF ThisRun, FilesOfThisRun
  <2>2. ASSUME NEW q \in Processes, Holds(q, k) PROVE q \in Active
    <3>1. held[q] # <<>>
      <4>1. Len(<<>>) = 0 /\ \A n \in 1 .. 0 : FALSE
        OBVIOUS
      <4> QED
        BY <2>2, <4>1 DEF Holds
    <3> QED
      BY <3>1 DEF Tidy, Books, HoldsTheLast, Active
  <2> QED
    BY <2>1, <2>2 DEF Accounted
<1>2. Spec => []Tidy
  BY TidyInit, TidyNext, PTL DEF Spec
<1> QED
  BY <1>1, <1>2, ThisRunInit, ThisRunNext, PTL DEF Spec

-----------------------------------------------------------------------------
(* One that is alone.                                                      *)

Built(p) == {Pickles[n] : n \in 1 .. built[p]}

\* What p has parsed is of this run, and what it holds open it has truncated last.
ParsedThisRun(p) ==
  /\ pc[p] = "parsepages" => parsed[p][1] = run
  /\ pc[p] = "build" => parsed[p] = <<run, run>>

HoldsItsOwn(p) ==
  /\ \A n \in 1 .. Len(held[p]) : held[p][n].run = run
  /\ \A k \in Kinds : Holds(p, k) => pickle[k].there /\ pickle[k].by = p

\* What p has opened is there.  If p was given --clean that is whole and of this run,
\* once closed, and only what p has not come to yet may still be torn.
Repaired(p) ==
  /\ \A k \in Built(p) :
       /\ pickle[k].there
       /\ Program[p].clean /\ ~ Holds(p, k) => pickle[k].whole /\ pickle[k].data = <<run, run>>
  /\ \A k \in Kinds : pickle[k].there =>
       pickle[k].whole \/ Holds(p, k) \/ (Program[p].clean /\ k \notin Built(p))

FindsWhatItLoads(p) == pc[p] = "load" => pickle[Head(todo[p])].there

\* A process that was given --clean parses once, and before it loads anything.
CleansOnce(p) ==
  Program[p].clean =>
    /\ pc[p] = "load" \/ got[p] # {} => built[p] = 5
    /\ got[p] # {} => pc[p] \in {"next", "load"}
    /\ pc[p] # "sizes"
    /\ todo[p] \in IF got[p] = {} THEN {<<Program[p].want>>, <<Program[p].want, "sizes?">>}
                    ELSE {<<>>, <<"sizes?">>, <<"sizes">>}

Careful(p) == ParsedThisRun(p) /\ HoldsItsOwn(p) /\ Repaired(p) /\ FindsWhatItLoads(p) /\ CleansOnce(p)

Alone(p) == p \in Active \ disturbed => Active = {p} /\ stage = "over" /\ Careful(p)

AllAlone == \A p \in Processes : Alone(p)

LEMMA BuiltAll == ASSUME NEW p \in Processes, built[p] = 5 PROVE Built(p) = Kinds
<1>1. 1 .. 5 = {1, 2, 3, 4, 5}
  OBVIOUS
<1>2. /\ Pickles[1] = "site" /\ Pickles[2] = "page" /\ Pickles[3] = "huge"
      /\ Pickles[4] = "gb" /\ Pickles[5] = "sizes"
  BY DEF Pickles
<1> QED
  BY <1>1, <1>2 DEF Built, Kinds

LEMMA BuiltKinds == ASSUME Tidy, NEW p \in Processes PROVE Built(p) \subseteq Kinds
<1>1. \A b \in 0 .. 5 : \A n \in 1 .. b : n \in 1 .. 5
  OBVIOUS
<1>2. built[p] \in 0 .. 5
  BY DEF Tidy, Typed
<1> QED
  BY <1>1, <1>2, FiveKinds DEF Built

LEMMA PicklesDiffer == \A b \in 2 .. 5 : Pickles[b - 1] # Pickles[b]
<1>1. 2 .. 5 = {2, 3, 4, 5}
  OBVIOUS
<1>2. /\ Pickles[1] = "site" /\ Pickles[2] = "page" /\ Pickles[3] = "huge"
      /\ Pickles[4] = "gb" /\ Pickles[5] = "sizes"
  BY DEF Pickles
<1> QED
  BY <1>1, <1>2

LEMMA HoldsNothing == ASSUME NEW p \in Processes, held[p] = <<>>, NEW k PROVE ~ Holds(p, k)
<1>1. Len(<<>>) = 0 /\ \A n \in 1 .. 0 : FALSE
  OBVIOUS
<1> QED
  BY <1>1 DEF Holds

\* Only a step of the one that is alone needs to be looked at, while it is about.
LEMMA OwnCare ==
  ASSUME Tidy, Tidy', AllAlone, NEW p \in Active, Others(p), UNCHANGED <<experiment, history>>,
         p \notin disturbed /\ stage = "over" /\ Careful(p) /\ p \in Active' => Careful(p)'
  PROVE  AllAlone'
<1> USE DEF experiment, history
<1> SUFFICES ASSUME NEW q \in Processes, q \in Active' \ disturbed'
             PROVE  Active' = {q} /\ stage' = "over" /\ Careful(q)'
  BY DEF AllAlone, Alone
<1>1. q = p
  BY DEF Active, Others, AllAlone, Alone
<1>2. Active = {p} /\ stage = "over" /\ Careful(p)
  BY <1>1 DEF AllAlone, Alone, Active
<1>3. Active' = {p}
  BY <1>1, <1>2 DEF Active, Others
<1> QED
  BY <1>1, <1>2, <1>3

LEMMA WantAndSizes ==
  ASSUME NEW w, NEW x PROVE <<w>> \o <<x>> = <<w, x>> /\ <<w>> \o <<>> = <<w>>
<1> DEFINE S == {w, x}
           s == <<w>> \o <<x>>
<1>1. <<w>> \in Seq(S) /\ <<x>> \in Seq(S) /\ <<w, x>> \in Seq(S) /\ <<>> \in Seq(S)
  OBVIOUS
<1>2. Len(<<w>>) = 1 /\ Len(<<x>>) = 1 /\ <<w>>[1] = w /\ <<x>>[1] = x
  OBVIOUS
<1>3. Len(<<w, x>>) = 2 /\ <<w, x>>[1] = w /\ <<w, x>>[2] = x
  OBVIOUS
<1>4. s \in Seq(S) /\ Len(s) = 2 /\ s[1] = w /\ s[2] = x
  BY <1>1, <1>2, ConcatProperties
<1>5. s = <<w, x>>
  <2>1. \A i \in 1 .. 2 : i = 1 \/ i = 2
    OBVIOUS
  <2>2. \A i \in 1 .. Len(s) : s[i] = <<w, x>>[i]
    BY <1>3, <1>4, <2>1
  <2> QED
    BY <1>1, <1>3, <1>4, <2>2, SeqEqual
<1>6. <<w>> \o <<>> = <<w>>
  BY <1>1, ConcatEmptySeq
<1> QED
  BY <1>5, <1>6

LEMMA WantsAKind == \A p \in Processes : Program[p].want \in {"site", "page", "huge", "gb"}
<1> SUFFICES ASSUME NEW p \in Processes PROVE Program[p].want \in {"site", "page", "huge", "gb"}
  OBVIOUS
<1>1. Program[p] \in [want : {"site", "page", "huge", "gb"}, clean : BOOLEAN, sizes : BOOLEAN]
  BY CacheAssumption DEF CacheAssumption
<1> QED
  BY <1>1

LEMMA TailsOfTwo ==
  ASSUME NEW w, NEW x PROVE Tail(<<w>>) = <<>> /\ Tail(<<w, x>>) = <<x>>
<1> DEFINE S == {w, x}
           t == Tail(<<w, x>>)
<1>1. <<w>> \in Seq(S) /\ <<x>> \in Seq(S) /\ <<w, x>> \in Seq(S) /\ <<w, x>> # <<>>
  OBVIOUS
<1>2. Len(<<w>>) = 1 /\ Len(<<x>>) = 1 /\ <<x>>[1] = x /\ Len(<<w, x>>) = 2 /\ <<w, x>>[2] = x
  OBVIOUS
<1>3. Tail(<<w>>) = <<>>
  BY <1>1, <1>2, ShortSeq
<1>4. t \in Seq(S) /\ Len(t) = 1 /\ t[1] = x
  BY <1>1, <1>2, ShortSeq
<1>5. t = <<x>>
  <2>1. \A i \in 1 .. 1 : i = 1
    OBVIOUS
  <2>2. \A i \in 1 .. Len(t) : t[i] = <<x>>[i]
    BY <1>2, <1>4, <2>1
  <2> QED
    BY <1>1, <1>2, <1>4, <2>2, SeqEqual
<1> QED
  BY <1>3, <1>5

\* A process that starts alone finds nothing torn, or was given --clean.
LEMMA StartCares ==
  ASSUME Tidy, Tidy', AllAlone, NEW p \in Processes, Start(p) PROVE AllAlone'
<1> SUFFICES ASSUME NEW q \in Processes, q \in Active' \ disturbed'
             PROVE  Active' = {q} /\ stage' = "over" /\ Careful(q)'
  BY DEF AllAlone, Alone
<1>1. Others(p) /\ pc[p] = "idle" /\ pc'[p] = "next" /\ p \in Active'
      /\ UNCHANGED <<experiment, pickle, parsed, built, held, got>>
  BY DEF Start, Goto, Others, Tidy, Typed, Active
<1>2. q = p /\ Active = {}
  BY <1>1 DEF Start, Active, Others
<1>3. Active' = {p}
  BY <1>1, <1>2 DEF Active, Others
<1>4. stage = "over" /\ stage' = "over"
  BY <1>1, <1>2 DEF Start, experiment
<1>5. held[p] = <<>> /\ got[p] = {} /\ built[p] = 0 /\ Built(p) = {}
  <2>1. 1 .. 0 = {}
    OBVIOUS
  <2> QED
    BY <1>1, <2>1 DEF Tidy, Books, IdleHasNothing, Built
<1>6. \A k \in Kinds : ~ Holds(p, k)
  BY <1>5, HoldsNothing
<1>7. ~ Program[p].clean => \A k \in Kinds : pickle[k].there => pickle[k].whole
  BY <1>2 DEF Start, TornForGood
<1>8. todo'[p] \in {<<Program[p].want>>, <<Program[p].want, "sizes?">>}
  <2>1. todo'[p] = <<Program[p].want>> \o IF Program[p].sizes THEN <<"sizes?">> ELSE <<>>
    BY DEF Start, Tidy, Typed
  <2>2. \A w : <<w>> \o <<"sizes?">> = <<w, "sizes?">> /\ <<w>> \o <<>> = <<w>>
    BY WantAndSizes
  <2> QED
    BY <2>1, <2>2
<1>9. Careful(p)'
  <2>1. ParsedThisRun(p)' /\ FindsWhatItLoads(p)'
    BY <1>1 DEF ParsedThisRun, FindsWhatItLoads
  <2>2. HoldsItsOwn(p)'
    <3>1. Len(<<>>) = 0 /\ \A n \in 1 .. 0 : FALSE
      OBVIOUS
    <3> QED
      BY <1>1, <1>5, <1>6, <3>1 DEF HoldsItsOwn, Holds
  <2>3. Repaired(p)'
    BY <1>1, <1>5, <1>6, <1>7 DEF Repaired, Holds, Built
  <2>4. CleansOnce(p)'
    BY <1>1, <1>5, <1>8 DEF CleansOnce
  <2> QED
    BY <2>1, <2>2, <2>3, <2>4 DEF Careful
<1> QED
  BY <1>2, <1>3, <1>4, <1>9

\* Closing a pickle makes it whole.
LEMMA ClosingCares ==
  ASSUME Tidy, Tidy', NEW p \in Processes, Others(p), UNCHANGED <<run, stage, parsed, built>>,
         stage = "over", pc[p] \in {"build", "sizes"}, held[p] # <<>>, CloseFirst(p),
         ParsedThisRun(p), HoldsItsOwn(p), Repaired(p), Program[p].clean => pc[p] = "build"
  PROVE  HoldsItsOwn(p)' /\ Repaired(p)'
<1> DEFINE first == held[p][1]
<1>1. held[p] \in Seq(Handles) /\ Head(held[p]) = first /\ first \in Handles
  BY DEF Tidy, Typed
<1>2. PICK k \in Kinds : k = first.kind
  BY <1>1 DEF Handles
<1>3. /\ held'[p] = Tail(held[p]) /\ Len(held[p]) \in {1, 2} /\ 1 \in 1 .. Len(held[p])
      /\ Len(held[p]) = 1 => held'[p] = <<>>
      /\ Len(held[p]) = 2 => Len(held'[p]) = 1 /\ held'[p][1] = held[p][2]
      /\ \A j \in Kinds : j # k /\ Holds(p, j) => Holds(p, j)'
  BY <1>2, OneLess
<1>4. Holds(p, k) /\ first.run = run
  BY <1>2, <1>3 DEF Holds, HoldsItsOwn
<1>5. pickle[k] \in Files /\ pickle[k].there /\ pickle[k].by = p
  BY <1>4 DEF HoldsItsOwn, Tidy, Typed
<1>6. PICK file \in Closed(p, pickle[k]) : pickle' = [pickle EXCEPT ![k] = file]
  BY <1>1, <1>2, <1>4 DEF CloseFirst
<1>7. file.there /\ file.whole /\ file.data = parsed[p]
  BY <1>5, <1>6 DEF Closed, Files
<1>8. pickle'[k] = file /\ \A j \in Kinds : j # k => pickle'[j] = pickle[j]
  BY <1>6 DEF Tidy, Typed
<1>9. /\ \A n \in 1 .. Len(held'[p]) : held'[p][n].run = run
      /\ \A j \in Kinds : Holds(p, j)' => j # k /\ Holds(p, j)
  <2>1. CASE Len(held[p]) = 1
    <3>1. Len(<<>>) = 0 /\ \A n \in 1 .. 0 : FALSE
      OBVIOUS
    <3> QED
      BY <1>3, <2>1, <3>1 DEF Holds
  <2>2. CASE Len(held[p]) = 2
    <3>1. (\A n \in 1 .. 1 : n = 1) /\ 1 \in 1 .. 2 /\ 2 \in 1 .. 2 /\ 1 # 2
      OBVIOUS
    <3>2. pc[p] = "build"
      BY <2>2, <3>1 DEF Tidy, Books, HoldsTheLast
    <3>3. built[p] \in 0 .. 5 /\ 2 <= built[p]
      BY <2>2, <3>2 DEF Tidy, Typed, Books, HoldsTheLast
    <3>4. held[p][1].kind = Pickles[built[p] - 2 + 1] /\ held[p][2].kind = Pickles[built[p] - 2 + 2]
      <4>1. \A n \in 1 .. Len(held[p]) : held[p][n].kind = Pickles[built[p] - Len(held[p]) + n]
        BY <3>2 DEF Tidy, Books, HoldsTheLast
      <4> QED
        BY <2>2, <3>1, <4>1
    <3>5. built[p] \in 2 .. 5 /\ built[p] - 2 + 1 = built[p] - 1 /\ built[p] - 2 + 2 = built[p]
      BY <3>3
    <3>6. held[p][1].kind # held[p][2].kind
      BY <3>4, <3>5, PicklesDiffer
    <3>7. held[p][2].run = run /\ \A j \in Kinds : held[p][2].kind = j => Holds(p, j)
      BY <2>2, <3>1 DEF Holds, HoldsItsOwn
    <3> QED
      BY <1>2, <1>3, <2>2, <3>1, <3>6, <3>7 DEF Holds
  <2> QED
    BY <1>3, <2>1, <2>2
<1>10. HoldsItsOwn(p)'
  BY <1>8, <1>9 DEF HoldsItsOwn
<1>11. built' = built /\ Built(p)' = Built(p)
  <2>1. built' = built
    OBVIOUS
  <2> QED
    BY <2>1 DEF Built
<1>12. Program[p].clean => parsed[p] = <<run, run>>
  BY DEF ParsedThisRun
<1>13. ASSUME NEW j \in Built(p)
       PROVE  /\ pickle'[j].there
              /\ Program[p].clean /\ ~ Holds(p, j)' => pickle'[j].whole /\ pickle'[j].data = <<run, run>>
  <2>1. j \in Kinds
    BY BuiltKinds
  <2>2. CASE j = k
    BY <1>7, <1>8, <1>12, <2>2
  <2>3. CASE j # k
    BY <1>3, <1>8, <2>1, <2>3 DEF Repaired
  <2> QED
    BY <2>2, <2>3
<1>14. ASSUME NEW j \in Kinds, pickle'[j].there
       PROVE  pickle'[j].whole \/ Holds(p, j)' \/ (Program[p].clean /\ j \notin Built(p))
  <2>1. CASE j = k
    BY <1>7, <1>8, <2>1
  <2>2. CASE j # k
    BY <1>3, <1>8, <1>14, <2>2 DEF Repaired
  <2> QED
    BY <2>1, <2>2
<1> QED
  BY <1>10, <1>11, <1>13, <1>14 DEF Repaired

\* p truncates the pickle of kind k, and holds it.
LEMMA OpeningCares ==
  ASSUME Tidy, Tidy', NEW p \in Processes, run' = run, NEW k \in Kinds, NEW file,
         pickle' = [pickle EXCEPT ![k] = file], file.by = p, file.there,
         NEW h, h.kind = k, h.run = run,
         \E n \in 1 .. Len(held'[p]) : held'[p][n] = h,
         \A n \in 1 .. Len(held[p]) : n \in 1 .. Len(held'[p]) /\ held'[p][n] = held[p][n],
         \A n \in 1 .. Len(held'[p]) :
           held'[p][n] = h \/ \E m \in 1 .. Len(held[p]) : held'[p][n] = held[p][m],
         HoldsItsOwn(p), Repaired(p),
         Built(p)' \subseteq Built(p) \cup {k}, Built(p) \subseteq Built(p)'
  PROVE  HoldsItsOwn(p)' /\ Repaired(p)'
<1>1. pickle'[k] = file /\ \A j \in Kinds : j # k => pickle'[j] = pickle[j]
  BY DEF Tidy, Typed
<1>2. Holds(p, k)' /\ \A j \in Kinds : Holds(p, j) => Holds(p, j)'
  BY DEF Holds
<1>3. \A j \in Kinds : Holds(p, j)' => j = k \/ Holds(p, j)
  BY DEF Holds
<1>4. HoldsItsOwn(p)'
  <2>1. \A n \in 1 .. Len(held'[p]) : held'[p][n].run = run
    BY DEF HoldsItsOwn
  <2> QED
    BY <1>1, <1>3, <2>1 DEF HoldsItsOwn
<1>5. ASSUME NEW j \in Built(p)'
      PROVE  /\ pickle'[j].there
             /\ Program[p].clean /\ ~ Holds(p, j)' => pickle'[j].whole /\ pickle'[j].data = <<run, run>>
  <2>1. CASE j = k
    BY <1>1, <1>2, <2>1
  <2>2. CASE j # k
    <3>1. j \in Built(p) /\ j \in Kinds
      BY <2>2, BuiltKinds
    <3> QED
      BY <1>1, <1>2, <2>2, <3>1 DEF Repaired
  <2> QED
    BY <2>1, <2>2
<1>6. ASSUME NEW j \in Kinds, pickle'[j].there
      PROVE  pickle'[j].whole \/ Holds(p, j)' \/ (Program[p].clean /\ j \notin Built(p)')
  <2>1. CASE j = k
    BY <1>2, <2>1
  <2>2. CASE j # k
    BY <1>1, <1>2, <1>6, <2>2 DEF Repaired
  <2> QED
    BY <2>1, <2>2
<1> QED
  BY <1>4, <1>5, <1>6 DEF Repaired

\* What p holds, its own files, and what it has built, are as they were.
LEMMA StillCares ==
  ASSUME Tidy, NEW p \in Processes, UNCHANGED <<run, pickle>>, held'[p] = held[p], built'[p] = built[p],
         HoldsItsOwn(p), Repaired(p)
  PROVE  HoldsItsOwn(p)' /\ Repaired(p)'
<1>1. Built(p)' = Built(p)
  BY DEF Built
<1>2. \A k : Holds(p, k)' = Holds(p, k)
  BY DEF Holds
<1> QED
  BY <1>1, <1>2 DEF HoldsItsOwn, Repaired

\* A process that is careful does not fail: what it loads is whole, the files that it
\* parses are there, and so is the directory.
LEMMA CarefulLives ==
  ASSUME Tidy, NEW p \in Active, stage = "over", Careful(p)
  PROVE  /\ Load(p) => pickle[Head(todo[p])].whole
         /\ ParseSites(p) => sites # 0
         /\ ~ OpenFails(p)
<1>1. ASSUME Load(p) PROVE pickle[Head(todo[p])].whole
  <2>1. pc[p] = "load" /\ held[p] = <<>> /\ p \in Processes
    BY <1>1 DEF Load, At, Active, Tidy, Books, HoldsTheLast
  <2>2. Head(todo[p]) \in Kinds /\ pickle[Head(todo[p])].there
    BY <2>1 DEF Tidy, Books, KnowsItsKind, Careful, FindsWhatItLoads
  <2>3. Program[p].clean => Head(todo[p]) \in Built(p)
    BY <2>1, <2>2, BuiltAll DEF Careful, CleansOnce
  <2>4. ~ Holds(p, Head(todo[p]))
    BY <2>1, HoldsNothing
  <2> QED
    BY <2>2, <2>3, <2>4 DEF Careful, Repaired
<1>2. sites # 0
  BY DEF Tidy, Typed
<1>3. ~ OpenFails(p)
  BY DEF OpenFails
<1> QED
  BY <1>1, <1>2, <1>3

\* Whoever is alone with a run that is over stays careful.
LEMMA AloneNext == Tidy /\ Tidy' /\ AllAlone /\ [Next]_vars => AllAlone'
<1> SUFFICES ASSUME Tidy, Tidy', AllAlone, [Next]_vars PROVE AllAlone'
  OBVIOUS
<1> USE DEF At, Goto, experiment, history
<1>1. CASE UNCHANGED vars
  <2>1. /\ Active' = Active /\ disturbed' = disturbed
        /\ UNCHANGED <<run, stage, pickle, pc, todo, parsed, built, held, got>>
    BY <1>1 DEF vars, Active
  <2>2. ASSUME NEW p \in Processes, Careful(p) PROVE Careful(p)'
    <3>1. HoldsItsOwn(p)' /\ Repaired(p)'
      BY <2>1, <2>2, StillCares DEF Careful
    <3> QED
      BY <2>1, <2>2, <3>1 DEF Careful, ParsedThisRun, FindsWhatItLoads, CleansOnce
  <2> QED
    BY <2>1, <2>2 DEF AllAlone, Alone
<1>2. CASE Rerun \/ MakeDirectory \/ Profile
  <2>1. Active' = Active
    BY <1>2 DEF Rerun, MakeDirectory, Profile, Active
  <2>2. Active \ disturbed' = {}
    <3>1. CASE Rerun
      BY <3>1 DEF Rerun
    <3>2. CASE MakeDirectory \/ Profile
      BY <3>2 DEF MakeDirectory, Profile, AllAlone, Alone, Active
    <3> QED
      BY <1>2, <3>1, <3>2
  <2> QED
    BY <2>1, <2>2 DEF AllAlone, Alone
<1>3. ASSUME NEW p \in Processes, Start(p) PROVE AllAlone'
  BY <1>3, StartCares
\* All other steps are of one that is about.
<1>4. ASSUME NEW p \in Processes, NEW k \in Kinds \ {"sizes"}, Get(p, k) PROVE AllAlone'
  <2>1. p \in Active /\ Others(p) /\ UNCHANGED <<experiment, history>> /\ pc[p] = "next"
    BY <1>4 DEF Get, Now, Active, Others, Tidy, Typed
  <2> SUFFICES ASSUME stage = "over", Careful(p) PROVE Careful(p)'
    BY <2>1, OwnCare
  <2>2. /\ pc'[p] = (IF UsesPickle(p, k) THEN "load" ELSE "parse") /\ Head(todo[p]) = k
        /\ UNCHANGED <<experiment, pickle, todo, parsed, built, held, got>>
    BY <1>4 DEF Get, Now, Tidy, Typed
  <2>3. HoldsItsOwn(p)' /\ Repaired(p)'
    BY <2>2, StillCares DEF Careful
  <2>4. ParsedThisRun(p)' /\ FindsWhatItLoads(p)'
    BY <2>2 DEF ParsedThisRun, FindsWhatItLoads, UsesPickle
  <2>5. CleansOnce(p)'
    <3>1. SUFFICES ASSUME Program[p].clean
                   PROVE  /\ pc'[p] = "load" => built[p] = 5
                          /\ got[p] # {} => pc'[p] = "load"
      BY <2>2, <3>1 DEF CleansOnce, Careful
    <3>2. got[p] # {} => built[p] = 5 /\ pickle[k].there
      BY <3>1, BuiltAll DEF Careful, CleansOnce, Repaired
    <3> QED
      BY <2>2, <3>1, <3>2 DEF UsesPickle, Clean
  <2> QED
    BY <2>3, <2>4, <2>5 DEF Careful
<1>5. ASSUME NEW p \in Processes, Load(p) PROVE AllAlone'
  <2>1. p \in Active /\ UNCHANGED <<experiment, pickle, history>> /\ pc[p] = "load" /\ Head(todo[p]) \in Kinds
    BY <1>5 DEF Load, Active, Tidy, Books, KnowsItsKind
  <2>2. CASE Leave(p, "died")
    <3>1. Others(p) /\ p \notin Active'
      BY <2>2 DEF Leave, Others, Tidy, Typed, Active
    <3> QED
      BY <2>1, <3>1, OwnCare
  <2>3. CASE /\ got' = [got EXCEPT ![p] = @ \cup {pickle[Head(todo[p])].data}]
             /\ todo' = [todo EXCEPT ![p] = Tail(@)] /\ pc' = [pc EXCEPT ![p] = "next"]
             /\ UNCHANGED <<parsed, built, held>>
    <3>1. Others(p)
      BY <2>3 DEF Others, Tidy, Typed
    <3> SUFFICES ASSUME stage = "over", Careful(p) PROVE Careful(p)'
      BY <2>1, <3>1, OwnCare
    <3>2. pc'[p] = "next" /\ todo'[p] = Tail(todo[p]) /\ got'[p] # {}
      BY <2>3 DEF Tidy, Typed
    <3>3. HoldsItsOwn(p)' /\ Repaired(p)'
      BY <2>1, <2>3, StillCares DEF Careful
    <3>4. ParsedThisRun(p)' /\ FindsWhatItLoads(p)'
      BY <3>2 DEF ParsedThisRun, FindsWhatItLoads
    <3>5. ASSUME Program[p].clean PROVE built[p] = 5 /\ todo'[p] \in {<<>>, <<"sizes?">>, <<"sizes">>}
      <4>1. built[p] = 5
        BY <2>1, <3>5 DEF Careful, CleansOnce
      <4>2. todo[p] \in {<<Program[p].want>>, <<Program[p].want, "sizes?">>, <<>>, <<"sizes?">>, <<"sizes">>}
        BY <3>5 DEF Careful, CleansOnce
      <4>3. todo[p] # <<>>
        BY <2>1 DEF Tidy, Books, KnowsItsKind
      <4>4. \A w : Tail(<<w>>) = <<>> /\ Tail(<<w, "sizes?">>) = <<"sizes?">>
        BY TailsOfTwo
      <4> QED
        BY <3>2, <4>1, <4>2, <4>3, <4>4
    <3>6. CleansOnce(p)'
      BY <2>3, <3>2, <3>5 DEF CleansOnce
    <3> QED
      BY <3>3, <3>4, <3>6 DEF Careful
  <2> QED
    BY <1>5, <2>2, <2>3 DEF Load
<1>6. ASSUME NEW p \in Processes, ParseSites(p) PROVE AllAlone'
  <2>1. p \in Active /\ UNCHANGED <<experiment, pickle, history>> /\ pc[p] = "parse"
    BY <1>6 DEF ParseSites, Active
  <2>2. CASE Leave(p, "died")
    <3>1. Others(p) /\ p \notin Active'
      BY <2>2 DEF Leave, Others, Tidy, Typed, Active
    <3> QED
      BY <2>1, <3>1, OwnCare
  <2>3. CASE /\ parsed' = [parsed EXCEPT ![p] = <<sites, 0>>]
             /\ pc' = [pc EXCEPT ![p] = "parsepages"] /\ UNCHANGED <<todo, built, held, got>>
    <3>1. Others(p) /\ pc'[p] = "parsepages" /\ parsed'[p] = <<sites, 0>>
      BY <2>3 DEF Others, Tidy, Typed
    <3> SUFFICES ASSUME stage = "over", Careful(p) PROVE Careful(p)'
      BY <2>1, <3>1, OwnCare
    <3>2. HoldsItsOwn(p)' /\ Repaired(p)'
      BY <2>1, <2>3, StillCares DEF Careful
    <3>3. sites = run
      BY DEF Tidy, Typed
    <3>4. ParsedThisRun(p)' /\ FindsWhatItLoads(p)'
      BY <2>1, <3>1, <3>3 DEF ParsedThisRun, FindsWhatItLoads
    <3>5. CleansOnce(p)'
      BY <2>1, <2>3, <3>1 DEF Careful, CleansOnce
    <3> QED
      BY <3>2, <3>4, <3>5 DEF Careful
  <2> QED
    BY <1>6, <2>2, <2>3 DEF ParseSites
<1>7. ASSUME NEW p \in Processes, ParsePages(p) PROVE AllAlone'
  <2>1. /\ p \in Active /\ Others(p) /\ UNCHANGED <<experiment, pickle, todo, held, got, history>>
        /\ pc[p] = "parsepages" /\ pc'[p] = "build" /\ built'[p] = 0
        /\ parsed'[p] = [parsed[p] EXCEPT ![2] = pages]
    BY <1>7 DEF ParsePages, Active, Others, Tidy, Typed
  <2> SUFFICES ASSUME stage = "over", Careful(p) PROVE Careful(p)'
    BY <2>1, OwnCare
  <2>2. parsed'[p] = <<run, run>>
    <3>1. parsed[p] \in Data /\ pages \in Nat /\ pages = run
      BY DEF Tidy, Typed
    <3>2. parsed'[p] = <<parsed[p][1], pages>>
      BY <2>1, <3>1, PairExcept
    <3> QED
      BY <2>1, <3>1, <3>2 DEF Careful, ParsedThisRun
  <2>3. Built(p)' = {}
    <3>1. 1 .. 0 = {}
      OBVIOUS
    <3> QED
      BY <2>1, <3>1 DEF Built
  <2>4. \A k \in Kinds : Holds(p, k)' = Holds(p, k)
    BY <2>1 DEF Holds
  <2>5. HoldsItsOwn(p)'
    BY <2>1, <2>4 DEF Careful, HoldsItsOwn
  <2>6. Repaired(p)'
    BY <2>1, <2>3, <2>4 DEF Careful, Repaired
  <2>7. ParsedThisRun(p)' /\ FindsWhatItLoads(p)'
    BY <2>1, <2>2 DEF ParsedThisRun, FindsWhatItLoads
  <2>8. CleansOnce(p)'
    BY <2>1 DEF Careful, CleansOnce
  <2> QED
    BY <2>5, <2>6, <2>7, <2>8 DEF Careful
<1>8. ASSUME NEW p \in Processes, OpenNext(p) PROVE AllAlone'
  <2>1. /\ p \in Active /\ Others(p) /\ UNCHANGED <<experiment, pc, todo, parsed, got, history>>
        /\ pc[p] = "build" /\ built'[p] = built[p] + 1 /\ built[p] \in 0 .. 4
    <3>1. built[p] \in 0 .. 4
      BY <1>8, LenPickles DEF OpenNext, Tidy, Typed
    <3> QED
      BY <1>8, <3>1 DEF OpenNext, Active, Others, Tidy, Typed
  <2> SUFFICES ASSUME stage = "over", Careful(p) PROVE Careful(p)'
    BY <2>1, OwnCare
  <2>2. PICK k \in Kinds : k = Pickles[built[p] + 1]
    <3>1. built[p] + 1 \in 1 .. 5
      BY <2>1
    <3> QED
      BY <3>1, FiveKinds
  <2>3. PICK file : /\ file.by = p /\ file.there /\ pickle' = [pickle EXCEPT ![k] = file]
    BY <1>8, <2>2 DEF OpenNext, Truncated
  <2>4. PICK h \in Handles : h = [kind |-> k, run |-> run]
    BY DEF Handles, Tidy, Typed
  <2>5. held[p] \in Seq(Handles) /\ held'[p] = Append(held[p], h) /\ h.kind = k /\ h.run = run
    BY <1>8, <2>2, <2>4 DEF OpenNext, Tidy, Typed
  <2>6. /\ \E n \in 1 .. Len(held'[p]) : held'[p][n] = h
        /\ \A n \in 1 .. Len(held[p]) : n \in 1 .. Len(held'[p]) /\ held'[p][n] = held[p][n]
        /\ \A n \in 1 .. Len(held'[p]) :
             held'[p][n] = h \/ \E m \in 1 .. Len(held[p]) : held'[p][n] = held[p][m]
    BY <2>5, OneMore
  <2>7. Built(p)' \subseteq Built(p) \cup {k} /\ Built(p) \subseteq Built(p)'
    <3>1. \A b \in 0 .. 4 : 1 .. b + 1 = (1 .. b) \cup {b + 1}
      OBVIOUS
    <3> QED
      BY <2>1, <2>2, <3>1 DEF Built
  <2>8. HoldsItsOwn(p)' /\ Repaired(p)'
    BY <2>1, <2>3, <2>5, <2>6, <2>7, OpeningCares DEF Careful
  <2>9. ParsedThisRun(p)' /\ FindsWhatItLoads(p)'
    BY <2>1 DEF Careful, ParsedThisRun, FindsWhatItLoads
  <2>10. CleansOnce(p)'
    BY <2>1 DEF Careful, CleansOnce
  <2> QED
    BY <2>8, <2>9, <2>10 DEF Careful
<1>9. ASSUME NEW p \in Processes, OpenFails(p) \/ Finish(p) \/ Kill(p) PROVE AllAlone'
  <2>1. p \in Active /\ UNCHANGED <<experiment, history>> /\ \E how \in {"done", "died", "killed"} : Leave(p, how)
    BY <1>9 DEF OpenFails, Finish, Kill, Now, Active
  <2>2. Others(p) /\ p \notin Active'
    BY <2>1 DEF Leave, Others, Tidy, Typed, Active
  <2> QED
    BY <2>1, <2>2, OwnCare
<1>10. ASSUME NEW p \in Processes, ClosePrevious(p) \/ EndBuild(p) \/ CloseSizes(p) PROVE AllAlone'
  <2>1. /\ p \in Active /\ UNCHANGED <<experiment, parsed, built, got, history>>
        /\ pc[p] \in {"build", "sizes"} /\ CloseFirst(p)
    BY <1>10 DEF ClosePrevious, EndBuild, CloseLast, CloseSizes, Active
  <2>2. held[p] # <<>>
    <3>1. Len(held[p]) \in {1, 2}
      BY <1>10 DEF ClosePrevious, EndBuild, CloseSizes, Tidy, Books, HoldsTheLast
    <3>2. Len(<<>>) = 0
      OBVIOUS
    <3> QED
      BY <3>1, <3>2
  <2>3. Others(p)
    BY <1>10, <2>1 DEF ClosePrevious, EndBuild, CloseFirst, CloseSizes, Others, Tidy, Typed
  <2> SUFFICES ASSUME stage = "over", Careful(p) PROVE Careful(p)'
    BY <2>1, <2>3, OwnCare
  <2>4. HoldsItsOwn(p)' /\ Repaired(p)'
    BY <2>1, <2>2, <2>3, ClosingCares DEF Careful, CleansOnce
  <2>5. CASE ClosePrevious(p)
    <3>1. pc' = pc /\ todo' = todo /\ pc[p] = "build"
      BY <2>5 DEF ClosePrevious
    <3> QED
      BY <2>1, <2>4, <3>1 DEF Careful, ParsedThisRun, FindsWhatItLoads, CleansOnce
  <2>6. CASE EndBuild(p)
    <3>1. pc'[p] = "load" /\ todo' = todo /\ pc[p] = "build" /\ built[p] = 5
      BY <2>6, LenPickles DEF EndBuild, Tidy, Typed
    <3>2. Head(todo[p]) \in Kinds
      BY <3>1 DEF Tidy, Books, KnowsItsKind
    <3>3. Built(p)' = Kinds
      BY <2>1, <3>1, BuiltAll DEF Built
    <3>4. FindsWhatItLoads(p)'
      BY <2>4, <3>1, <3>2, <3>3 DEF FindsWhatItLoads, Repaired
    <3> QED
      BY <2>1, <2>4, <3>1, <3>4 DEF Careful, ParsedThisRun, CleansOnce
  <2>7. CASE CloseSizes(p)
    <3>1. pc'[p] = "next" /\ pc[p] = "sizes"
      BY <2>7 DEF CloseSizes, Tidy, Typed
    <3> QED
      BY <2>4, <3>1 DEF Careful, ParsedThisRun, FindsWhatItLoads, CleansOnce
  <2> QED
    BY <1>10, <2>5, <2>6, <2>7
<1>11. ASSUME NEW p \in Processes, Sizes(p) PROVE AllAlone'
  <2>1. /\ p \in Active /\ Others(p) /\ UNCHANGED <<experiment, pickle, parsed, built, held, got, history>>
        /\ pc[p] = "next" /\ Head(todo[p]) = "sizes?"
        /\ IF pickle["sizes"].there THEN pc'[p] = "load" /\ todo'[p] = <<"sizes">> ELSE pc'[p] = "next"
    BY <1>11 DEF Sizes, Now, Active, Others, Tidy, Typed
  <2> SUFFICES ASSUME stage = "over", Careful(p) PROVE Careful(p)'
    BY <2>1, OwnCare
  <2>2. HoldsItsOwn(p)' /\ Repaired(p)'
    BY <2>1, StillCares DEF Careful
  <2>3. Head(<<"sizes">>) = "sizes"
    OBVIOUS
  <2>4. ParsedThisRun(p)' /\ FindsWhatItLoads(p)'
    BY <2>1, <2>3 DEF ParsedThisRun, FindsWhatItLoads
  <2>5. ASSUME Program[p].clean PROVE built[p] = 5 /\ got[p] # {} /\ pickle["sizes"].there
    <3>1. got[p] # {}
      <4>1. \A w : Head(<<w>>) = w /\ Head(<<w, "sizes?">>) = w
        OBVIOUS
      <4>2. Program[p].want # "sizes?"
        BY WantsAKind
      <4> QED
        BY <2>1, <2>5, <4>1, <4>2 DEF Careful, CleansOnce
    <3>2. built[p] = 5
      BY <2>5, <3>1 DEF Careful, CleansOnce
    <3> QED
      BY <3>1, <3>2, BuiltAll DEF Careful, Repaired, Kinds
  <2>6. CleansOnce(p)'
    BY <2>1, <2>5 DEF CleansOnce
  <2> QED
    BY <2>2, <2>4, <2>6 DEF Careful
<1>12. ASSUME NEW p \in Processes, OpenSizes(p) PROVE AllAlone'
  <2>1. /\ p \in Active /\ Others(p) /\ UNCHANGED <<experiment, todo, built, got, history>>
        /\ pc[p] = "next" /\ Head(todo[p]) = "sizes!" /\ pc'[p] = "sizes" /\ todo[p] # <<>>
        /\ held[p] = <<>>
    <3>1. /\ pc[p] = "next" /\ Head(todo[p]) = "sizes!" /\ pc'[p] = "sizes" /\ todo[p] # <<>>
          /\ UNCHANGED <<experiment, todo, built, got, history>>
      BY <1>12 DEF OpenSizes, Now, Tidy, Typed
    <3>2. Others(p)
      BY <1>12 DEF OpenSizes, Others, Tidy, Typed
    <3>3. held[p] = <<>> /\ p \in Active
      BY <3>1 DEF Tidy, Books, HoldsTheLast, Active
    <3> QED
      BY <3>1, <3>2, <3>3
  <2> SUFFICES ASSUME stage = "over", Careful(p) PROVE Careful(p)'
    BY <2>1, OwnCare
  <2>2. ~ Program[p].clean
    <3>1. \A w : Head(<<w>>) = w /\ Head(<<w, "sizes?">>) = w
      OBVIOUS
    <3>2. Program[p].want # "sizes!"
      BY WantsAKind
    <3> QED
      BY <2>1, <3>1, <3>2 DEF Careful, CleansOnce
  <2>3. PICK file : /\ file.by = p /\ file.there /\ pickle' = [pickle EXCEPT !["sizes"] = file]
    BY <1>12 DEF OpenSizes, Truncated
  <2>4. PICK h : h = [kind |-> "sizes", run |-> run]
    OBVIOUS
  <2>5. held'[p] = <<h>> /\ h.kind = "sizes" /\ h.run = run
    BY <1>12, <2>4 DEF OpenSizes, Tidy, Typed
  <2>6. /\ \E n \in 1 .. Len(held'[p]) : held'[p][n] = h
        /\ \A n \in 1 .. Len(held[p]) : n \in 1 .. Len(held'[p]) /\ held'[p][n] = held[p][n]
        /\ \A n \in 1 .. Len(held'[p]) :
             held'[p][n] = h \/ \E m \in 1 .. Len(held[p]) : held'[p][n] = held[p][m]
    <3>1. Len(<<>>) = 0 /\ (\A n \in 1 .. 0 : FALSE) /\ Len(<<h>>) = 1 /\ <<h>>[1] = h
          /\ (\A n \in 1 .. 1 : n = 1) /\ 1 \in 1 .. 1
      OBVIOUS
    <3> QED
      BY <2>1, <2>5, <3>1
  <2>7. Built(p)' = Built(p)
    BY <2>1 DEF Built
  <2>8. HoldsItsOwn(p)' /\ Repaired(p)'
    <3>1. "sizes" \in Kinds /\ run' = run /\ HoldsItsOwn(p) /\ Repaired(p)
      BY <2>1 DEF Careful, Kinds
    <3>2. Built(p)' \subseteq Built(p) \cup {"sizes"} /\ Built(p) \subseteq Built(p)'
      BY <2>7
    <3> QED
      BY <2>3, <2>5, <2>6, <3>1, <3>2, OpeningCares
  <2>9. ParsedThisRun(p)' /\ FindsWhatItLoads(p)' /\ CleansOnce(p)'
    BY <2>1, <2>2 DEF ParsedThisRun, FindsWhatItLoads, CleansOnce
  <2> QED
    BY <2>8, <2>9 DEF Careful
<1> QED
  BY <1>1, <1>2, <1>3, <1>4, <1>5, <1>6, <1>7, <1>8, <1>9, <1>10, <1>11, <1>12 DEF Next

\* How a process comes to fail, and to be done.
LEMMA HowOneEnds ==
  ASSUME Tidy, [Next]_vars, NEW p \in Processes, pc'[p] # pc[p]
  PROVE  /\ pc'[p] = "died" =>
              \/ Load(p) /\ ~ pickle[Head(todo[p])].whole
              \/ ParseSites(p) /\ sites = 0
              \/ OpenFails(p)
         /\ pc'[p] = "done" => Finish(p)
<1> USE DEF At, Goto
<1>1. pc \in [Processes -> Places]
  BY DEF Tidy, Typed
<1>2. CASE UNCHANGED pc
  BY <1>2
<1>3. CASE Rerun \/ MakeDirectory \/ Profile \/ UNCHANGED vars
  BY <1>3 DEF Rerun, MakeDirectory, Profile, vars
<1>4. ASSUME NEW q \in Processes,
             \/ Start(q) \/ ParsePages(q) \/ EndBuild(q) \/ Sizes(q) \/ OpenSizes(q) \/ CloseSizes(q)
             \/ \E k \in Kinds \ {"sizes"} : Get(q, k)
      PROVE  pc'[p] \notin {"died", "done"}
  <2>1. \E x \in {"next", "build", "load", "sizes", "parse"} : pc' = [pc EXCEPT ![q] = x]
    BY <1>4 DEF Start, ParsePages, EndBuild, Sizes, OpenSizes, CloseSizes, Get
  <2> QED
    BY <1>1, <2>1
<1>5. ASSUME NEW q \in Processes, OpenNext(q) \/ ClosePrevious(q) PROVE UNCHANGED pc
  BY <1>5 DEF OpenNext, ClosePrevious
<1>6. ASSUME NEW q \in Processes, Load(q)
      PROVE  pc'[p] # "done" /\ (pc'[p] = "died" => Load(p) /\ ~ pickle[Head(todo[p])].whole)
  BY <1>1, <1>6 DEF Load, Leave
<1>7. ASSUME NEW q \in Processes, ParseSites(q)
      PROVE  pc'[p] # "done" /\ (pc'[p] = "died" => ParseSites(p) /\ sites = 0)
  BY <1>1, <1>7 DEF ParseSites, Leave
<1>8. ASSUME NEW q \in Processes, OpenFails(q)
      PROVE  pc'[p] # "done" /\ (pc'[p] = "died" => OpenFails(p))
  BY <1>1, <1>8 DEF OpenFails, Leave
<1>9. ASSUME NEW q \in Processes, Finish(q)
      PROVE  pc'[p] # "died" /\ (pc'[p] = "done" => Finish(p))
  BY <1>1, <1>9 DEF Finish, Leave
<1>10. ASSUME NEW q \in Processes, Kill(q) PROVE pc'[p] \notin {"died", "done"}
  BY <1>1, <1>10 DEF Kill, Leave
<1> QED
  BY <1>2, <1>3, <1>4, <1>5, <1>6, <1>7, <1>8, <1>9, <1>10 DEF Next

LEMMA Histories == [Next]_vars => disturbed \subseteq disturbed'
BY DEF Next, vars, history, Rerun, MakeDirectory, Profile, Start, Get, Load, ParseSites, ParsePages,
   OpenNext, OpenFails, ClosePrevious, EndBuild, Sizes, OpenSizes, CloseSizes, Finish, Kill

\* postprocess.py:332: a process that is alone with a finished run never fails, given
\* --clean or where no pickle is torn.
THEOREM TheCarefulSucceed == Spec => []AloneSucceeds
<1> DEFINE Invariant == Tidy /\ AllAlone /\ AloneSucceeds
<1>1. Init => Invariant
  <2> SUFFICES ASSUME Init PROVE AllAlone /\ AloneSucceeds
    BY TidyInit
  <2> QED
    BY DEF Init, Active, AllAlone, Alone, AloneSucceeds
<1>2. Invariant /\ [Next]_vars => Invariant'
  <2> SUFFICES ASSUME Invariant, [Next]_vars PROVE Invariant'
    OBVIOUS
  <2>1. Tidy' /\ AllAlone'
    BY TidyNext, AloneNext
  <2>2. ASSUME NEW p \in Processes, pc'[p] = "died", p \notin disturbed' PROVE FALSE
    <3>1. pc[p] # "died" /\ p \notin disturbed
      BY <2>2, Histories DEF AloneSucceeds
    <3>2. \/ Load(p) /\ ~ pickle[Head(todo[p])].whole
          \/ ParseSites(p) /\ sites = 0
          \/ OpenFails(p)
      BY <2>2, <3>1, HowOneEnds
    <3>3. p \in Active
      BY <3>2 DEF Load, ParseSites, OpenFails, Now, At, Active
    <3>4. stage = "over" /\ Careful(p)
      BY <3>1, <3>3 DEF AllAlone, Alone
    <3> QED
      BY <3>2, <3>3, <3>4, CarefulLives
  <2> QED
    BY <2>1, <2>2 DEF AloneSucceeds
<1> QED
  BY <1>1, <1>2, PTL DEF Spec

\* postprocess.py:262-327: one that is alone and was given --clean leaves all five
\* pickles whole and of one run.
THEOREM CleanIsARepair == Spec => CleanRepairs
<1>1. Tidy /\ AllAlone /\ [Next]_vars
      => [\A p \in Processes \ disturbed :
            Program[p].clean /\ pc[p] # "done" /\ pc'[p] = "done"
              => \A k \in Kinds : pickle[k].whole /\ pickle[k].data = <<run, run>>]_vars
  <2> SUFFICES ASSUME Tidy, AllAlone, [Next]_vars, NEW p \in Processes \ disturbed,
                      Program[p].clean, pc[p] # "done", pc'[p] = "done", NEW k \in Kinds
               PROVE  pickle[k].whole /\ pickle[k].data = <<run, run>>
    OBVIOUS
  <2>1. Finish(p)
    BY HowOneEnds
  <2>2. p \in Active /\ pc[p] = "next" /\ todo[p] = <<>> /\ held[p] = <<>>
    BY <2>1 DEF Finish, At, Active, Tidy, Books, HoldsTheLast
  <2>3. Careful(p)
    BY <2>2 DEF AllAlone, Alone
  <2>4. built[p] = 5
    <3>1. \A w : <<w>> # <<>> /\ <<w, "sizes?">> # <<>>
      OBVIOUS
    <3> QED
      BY <2>2, <2>3, <3>1 DEF Careful, CleansOnce
  <2>5. k \in Built(p) /\ ~ Holds(p, k)
    BY <2>2, <2>4, BuiltAll, HoldsNothing
  <2> QED
    BY <2>3, <2>5 DEF Careful, Repaired
<1>2. Init => AllAlone
  BY DEF Init, Active, AllAlone, Alone
<1>3. Spec => [](Tidy /\ AllAlone)
  BY <1>2, TidyInit, TidyNext, AloneNext, PTL DEF Spec
<1> QED
  BY <1>1, <1>3, PTL DEF Spec, CleanRepairs
=============================================================================
