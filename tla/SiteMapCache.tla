---------------------------- MODULE SiteMapCache ----------------------------
(***************************************************************************)
(* all/python/lib/postprocess.py:262-416, with guide.py, site_stats.py and *)
(* page_map.py.  What is parsed from a profile is kept in five pickles     *)
(* next to it.  A getter loads its pickle if there is one; otherwise, or   *)
(* for --clean, build_site_map parses the profile and writes all five, one *)
(* after the other.  Nothing but run.sh, when it clears the results for a  *)
(* new run, ever removes a pickle; nothing coordinates the processes.      *)
(***************************************************************************)
EXTENDS Naturals, Sequences, FiniteSets

CONSTANTS
  Processes,  \* post-processing commands
  Program,    \* Program[p]: [want, clean, sizes]
  Runs,       \* bound on the runs of the experiment
  AcrossRuns  \* bound on the processes that a new run finds active

ASSUME CacheAssumption ==
  /\ Runs \in Nat \ {0} /\ AcrossRuns \in Nat
  /\ Program \in [Processes -> [want : {"site", "page", "huge", "gb"},
                                clean : BOOLEAN, sizes : BOOLEAN]]

VARIABLES
  run,        \* the number of the experiment's run
  stage,      \* of the run: its directory is gone, it runs, it is over
  sites,      \* the run that sites.txt is from, 0 if there is none
  pages,      \* the run that pagemap.txt is from
  pickle,     \* the pickle files
  pc,         \* where each process is
  todo,       \* what it has still to do
  parsed,     \* the runs its site map and its page maps are from
  built,      \* how many pickles it has opened since it parsed
  held,       \* the pickles it holds open: [kind, run]
  got,        \* what it has loaded
  disturbed,  \* history: the processes that were not alone
  overlapped  \* history: a process was there before the run was over

experiment == <<run, stage, sites, pages>>
history == <<disturbed, overlapped>>
vars == <<experiment, pickle, pc, todo, parsed, built, held, got, history>>

\* Mutant: the page map's sizes are left to get_page_map_sizes.
PicklesButSizes == <<"site", "page", "huge", "gb">>

\* The order in which build_site_map writes them.
Pickles == <<"site", "page", "huge", "gb", "sizes">>

Kinds == {"site", "page", "huge", "gb", "sizes"}

\* by: the process that truncated the file last, until it closes it.
Absent == [there |-> FALSE, whole |-> FALSE, by |-> "nobody", data |-> <<0, 0>>]

Active == {p \in Processes : pc[p] \notin {"idle", "done", "died", "killed"}}

\* A pickle that nobody will complete.
TornForGood(k) ==
  pickle[k].there /\ ~ pickle[k].whole /\ pickle[k].by \notin Active

Init ==
  /\ run = 1 /\ stage = "running" /\ sites = 0 /\ pages = 0
  /\ pickle = [k \in Kinds |-> Absent]
  /\ pc = [p \in Processes |-> "idle"]
  /\ todo = [p \in Processes |-> <<>>]
  /\ parsed = [p \in Processes |-> <<0, 0>>]
  /\ built = [p \in Processes |-> 0]
  /\ held = [p \in Processes |-> <<>>]
  /\ got = [p \in Processes |-> {}]
  /\ disturbed = {} /\ overlapped = FALSE

-----------------------------------------------------------------------------
(* The experiment.                                                         *)

RemovePickles == pickle' = [k \in Kinds |-> Absent]

\* run.sh:171
Rerun ==
  /\ stage = "over" /\ run < Runs /\ Cardinality(Active) <= AcrossRuns
  /\ run' = run + 1 /\ stage' = "removed"
  /\ sites' = 0 /\ pages' = 0
  /\ RemovePickles
  /\ disturbed' = disturbed \cup Active
  /\ overlapped' = (overlapped \/ Active # {})
  /\ UNCHANGED <<pc, todo, parsed, built, held, got>>

MakeDirectory ==
  /\ stage = "removed"
  /\ stage' = "running"
  /\ UNCHANGED <<run, sites, pages, pickle, pc, todo, parsed, built, held,
                 got, history>>

\* The profiler writes the two files.
Profile ==
  /\ stage = "running"
  /\ \/ sites = 0 /\ sites' = run /\ UNCHANGED pages
     \/ pages = 0 /\ pages' = run /\ UNCHANGED sites
  /\ stage' = IF sites' = run /\ pages' = run THEN "over" ELSE "running"
  /\ UNCHANGED <<run, pickle, pc, todo, parsed, built, held, got, history>>

-----------------------------------------------------------------------------
(* A process.                                                              *)

Start(p) ==
  /\ pc[p] = "idle"
  /\ pc' = [pc EXCEPT ![p] = "next"]
  /\ todo' = [todo EXCEPT ![p] =
       <<Program[p].want>> \o IF Program[p].sizes THEN <<"sizes?">> ELSE <<>>]
  /\ disturbed' = disturbed
       \cup (IF Active # {} THEN Active \cup {p} ELSE {})
       \cup (IF stage # "over" THEN {p} ELSE {})
       \cup (IF ~ Program[p].clean /\ \E k \in Kinds : TornForGood(k)
             THEN {p} ELSE {})
  /\ overlapped' = (overlapped \/ stage # "over")
  /\ UNCHANGED <<experiment, pickle, parsed, built, held, got>>

At(p, place) == pc[p] = place
Goto(p, place) == pc' = [pc EXCEPT ![p] = place]

\* What a process knew goes with it.
Leave(p, how) ==
  /\ Goto(p, how)
  /\ todo' = [todo EXCEPT ![p] = <<>>] /\ got' = [got EXCEPT ![p] = {}]
  /\ parsed' = [parsed EXCEPT ![p] = <<0, 0>>] /\ built' = [built EXCEPT ![p] = 0]
  /\ held' = [held EXCEPT ![p] = <<>>]

Now(p, what) == At(p, "next") /\ todo[p] # <<>> /\ Head(todo[p]) = what

\* --clean is passed on to the first getter only.
Clean(p) == Program[p].clean /\ got[p] = {}

\* Mutant: --clean is accepted and forgotten, as in guide.py.
UsesAnyPickle(p, k) == pickle[k].there

UsesPickle(p, k) == pickle[k].there /\ ~ Clean(p)

\* get_site_map, get_page_map, get_huge_page_map, get_gb_page_map
Get(p, k) ==
  /\ Now(p, k)
  /\ Goto(p, IF UsesPickle(p, k) THEN "load" ELSE "parse")
  /\ UNCHANGED <<experiment, pickle, todo, parsed, built, held, got, history>>

\* FileNotFoundError, EOFError, UnpicklingError: nobody catches them.
Load(p) ==
  /\ At(p, "load")
  /\ LET file == pickle[Head(todo[p])] IN
       \/ /\ file.whole
          /\ got' = [got EXCEPT ![p] = @ \cup {file.data}]
          /\ todo' = [todo EXCEPT ![p] = Tail(@)]
          /\ Goto(p, "next")
          /\ UNCHANGED <<parsed, built, held>>
       \/ ~ file.whole /\ Leave(p, "died")
  /\ UNCHANGED <<experiment, pickle, history>>

\* parse_sites_file
ParseSites(p) ==
  /\ At(p, "parse")
  /\ \/ sites = 0 /\ Leave(p, "died")
     \/ /\ sites # 0
        /\ parsed' = [parsed EXCEPT ![p] = <<sites, 0>>]
        /\ Goto(p, "parsepages")
        /\ UNCHANGED <<todo, built, held, got>>
  /\ UNCHANGED <<experiment, pickle, history>>

\* parse_map_file, which returns without a word where there is no file.
ParsePages(p) ==
  /\ At(p, "parsepages")
  /\ parsed' = [parsed EXCEPT ![p][2] = pages]
  /\ built' = [built EXCEPT ![p] = 0]
  /\ Goto(p, "build")
  /\ UNCHANGED <<experiment, pickle, todo, held, got, history>>

Truncated(p, k, data) ==
  [pickle EXCEPT ![k] = [there |-> TRUE, whole |-> FALSE, by |-> p, data |-> data]]

\* open(..., 'wb') of the next pickle, the one before it being still open.
OpenNext(p) ==
  /\ At(p, "build") /\ Len(held[p]) < 2 /\ built[p] < Len(Pickles)
  /\ LET k == Pickles[built[p] + 1] IN
       /\ stage # "removed"
       /\ pickle' = Truncated(p, k, parsed[p])
       /\ held' = [held EXCEPT ![p] = Append(@, [kind |-> k, run |-> run])]
       /\ built' = [built EXCEPT ![p] = @ + 1]
  /\ UNCHANGED <<experiment, pc, todo, parsed, got, history>>

\* There is no directory any more; the file still open went with it.
OpenFails(p) ==
  /\ stage = "removed"
  /\ \/ At(p, "build") /\ Len(held[p]) < 2 /\ built[p] < Len(Pickles)
     \/ Now(p, "sizes!")
  /\ Leave(p, "died")
  /\ UNCHANGED <<experiment, pickle, history>>

\* What a pickle may be when p has closed it: p's data, unless another process
\* has truncated the file since p did.
Closed(p, file) ==
  LET mine == [file EXCEPT !.whole = TRUE, !.data = parsed[p]]
  IN IF file.by = p THEN {[mine EXCEPT !.by = "nobody"]}
     ELSE IF file.data = parsed[p] THEN {file, mine}
     ELSE {file, mine, [file EXCEPT !.whole = FALSE]}

CloseFirst(p) ==
  LET first == Head(held[p]) IN
    /\ held' = [held EXCEPT ![p] = Tail(@)]
    /\ IF first.run = run /\ stage # "removed"
       THEN \E file \in Closed(p, pickle[first.kind]) :
              pickle' = [pickle EXCEPT ![first.kind] = file]
       ELSE UNCHANGED pickle

\* pklf is bound to the next file, and the one before it is closed.
ClosePrevious(p) ==
  /\ At(p, "build") /\ Len(held[p]) = 2
  /\ CloseFirst(p)
  /\ UNCHANGED <<experiment, pc, todo, parsed, built, got, history>>

\* Mutant: the last file is still open when it is read.
LeaveLastOpen(p) == UNCHANGED <<pickle, held>>

CloseLast(p) == CloseFirst(p)

\* build_site_map returns, the getter reads what it has written.
EndBuild(p) ==
  /\ At(p, "build") /\ Len(held[p]) = 1 /\ built[p] = Len(Pickles)
  /\ CloseLast(p)
  /\ Goto(p, "load")
  /\ UNCHANGED <<experiment, todo, parsed, built, got, history>>

\* get_page_map_sizes
Sizes(p) ==
  /\ Now(p, "sizes?")
  /\ todo' = [todo EXCEPT ![p] =
       IF pickle["sizes"].there THEN <<"sizes">>
                                ELSE <<"page", "huge", "gb", "sizes!">>]
  /\ Goto(p, IF pickle["sizes"].there THEN "load" ELSE "next")
  /\ UNCHANGED <<experiment, pickle, parsed, built, held, got, history>>

\* Its own pickle is made of what the three getters have just returned.
OpenSizes(p) ==
  /\ Now(p, "sizes!") /\ stage # "removed"
  /\ \E data \in got[p] : parsed' = [parsed EXCEPT ![p] = data]
  /\ pickle' = Truncated(p, "sizes", parsed'[p])
  /\ held' = [held EXCEPT ![p] = <<[kind |-> "sizes", run |-> run]>>]
  /\ Goto(p, "sizes")
  /\ UNCHANGED <<experiment, todo, built, got, history>>

CloseSizes(p) ==
  /\ At(p, "sizes")
  /\ CloseFirst(p)
  /\ todo' = [todo EXCEPT ![p] = <<>>]
  /\ Goto(p, "next")
  /\ UNCHANGED <<experiment, parsed, built, got, history>>

Finish(p) ==
  /\ At(p, "next") /\ todo[p] = <<>>
  /\ Leave(p, "done")
  /\ UNCHANGED <<experiment, pickle, history>>

\* What it had open stays as it is: had all the data been written, the file would
\* be what it is when it is closed.
Kill(p) ==
  /\ p \in Active
  /\ Leave(p, "killed")
  /\ UNCHANGED <<experiment, pickle, history>>

Next ==
  \/ Rerun \/ MakeDirectory \/ Profile
  \/ \E p \in Processes :
       \/ Start(p) \/ Load(p) \/ ParseSites(p) \/ ParsePages(p)
       \/ OpenNext(p) \/ OpenFails(p) \/ ClosePrevious(p) \/ EndBuild(p)
       \/ Sizes(p) \/ OpenSizes(p) \/ CloseSizes(p) \/ Finish(p) \/ Kill(p)
       \/ \E k \in Kinds \ {"sizes"} : Get(p, k)

Spec == Init /\ [][Next]_vars

-----------------------------------------------------------------------------
(* Properties.                                                             *)

Datum == (0 .. Runs) \X (0 .. Runs)

TypeOK ==
  /\ run \in 1 .. Runs /\ stage \in {"removed", "running", "over"}
  /\ sites \in {0, run} /\ pages \in {0, run}
  /\ pickle \in [Kinds -> [there : BOOLEAN, whole : BOOLEAN,
                          by : Processes \cup {"nobody"}, data : Datum]]
  /\ pc \in [Processes -> {"idle", "next", "load", "parse", "parsepages", "build",
                          "sizes", "done", "died", "killed"}]
  /\ \A p \in Processes :
       /\ parsed[p] \in Datum /\ got[p] \subseteq Datum
       /\ built[p] \in 0 .. 5 /\ Len(held[p]) \in 0 .. 2
       /\ \A n \in DOMAIN held[p] : held[p][n] \in [kind : Kinds, run : 1 .. run]
       /\ held[p] # <<>> => pc[p] \in {"build", "sizes"}
  /\ disturbed \subseteq Processes /\ overlapped \in BOOLEAN

\* postprocess.py:306-331: the pickles are written in place, and a getter takes
\* any that is there for that of the present run.  It is, whoever wrote it, as
\* long as no process was about while a run was not over; and one that is not
\* whole is being written, or its writer was killed.
CacheOfThisRun ==
  ~ overlapped =>
    \A k \in Kinds : pickle[k].there =>
      IF pickle[k].whole THEN pickle[k].data = <<run, run>>
      ELSE pickle[k].by \in Active \cup {p \in Processes : pc[p] = "killed"}

\* postprocess.py:332: a process that is alone with a finished run never fails,
\* whatever killed processes left, if it was given --clean or they left no pickle
\* half written.
AloneSucceeds == \A p \in Processes : pc[p] = "died" => p \in disturbed

\* postprocess.py:262-327: such a process, given --clean, leaves all five pickles
\* whole and of one run.
CleanRepairs ==
  [][\A p \in Processes \ disturbed :
       Program[p].clean /\ pc[p] # "done" /\ pc'[p] = "done"
         => \A k \in Kinds :
              pickle[k].whole /\ pickle[k].data = <<run, run>>]_vars
=============================================================================
