------------------------------ MODULE StatProofs ------------------------------
(***************************************************************************)
(* Theorems about stat, for every command line and every tree of results   *)
(* that StatAssumption admits.  First the parsers: each is a fold over the  *)
(* lines of a file, and what it returns is shown to be what the metric's   *)
(* name says along that fold.  Then the invariant of the program, StatInv,  *)
(* and its properties; last the order of a profile's sites, on which it    *)
(* rests that a table's rows fit its header.                               *)
(***************************************************************************)
EXTENDS Stat, DataInduction, TLAPS

\* A page is a number of bytes, and so are any number of pages.
LEMMA PageBytesType == PageBytes \in Nat /\ \A k \in Nat : k * PageBytes \in Nat
<1>1. PageBytes \in Nat BY StatAssumption, Zenon
<1> QED BY <1>1

-----------------------------------------------------------------------------
(* The output of memreserve.                                               *)

MemreserveInfo == [flag : BOOLEAN, bytes : Nat]

\* parse_memreserve goes through the lines one after the other.
LEMMA MemreserveFold ==
  ASSUME NEW lines \in Seq(MemreserveLines)
  PROVE  \E h \in [0 .. Len(lines) -> MemreserveInfo] :
           /\ parse_memreserve(lines) = h[Len(lines)]
           /\ h[0] = [flag |-> FALSE, bytes |-> 0]
           /\ \A i \in 1 .. Len(lines) : h[i] = memreserve_line(h[i - 1], lines[i])
<1> DEFINE n == Len(lines)
    base == [flag |-> FALSE, bytes |-> 0]
    step == [p \in (1 .. n) \X MemreserveInfo |-> memreserve_line(p[2], lines[p[1]])]
    Solves(iter) ==
      iter = [s \in SUBSET DOMAIN lines |->
                IF s = {} THEN base ELSE memreserve_line(iter[s \ {Max(s)}], lines[Max(s)])]
    fold == CHOOSE iter : Solves(iter)
<1>1. n \in Nat /\ DOMAIN lines = 1 .. n /\ base \in MemreserveInfo
  BY DEF MemreserveInfo
<1>2. ASSUME NEW info \in MemreserveInfo, NEW i \in 1 .. n
      PROVE  memreserve_line(info, lines[i]) \in MemreserveInfo
  <2>1. lines[i] \in MemreserveLines OBVIOUS
  <2>2. lines[i].is = "Wrong_node" => lines[i].val \in Nat
    BY <2>1 DEF MemreserveLines, Unmatched
  <2>3. lines[i].is = "Wrong_node" => lines[i].val * PageBytes \in Nat
    BY <2>2, PageBytesType
  <2> QED BY <2>3 DEF memreserve_line, MemreserveInfo
<1>3. step \in [(1 .. n) \X MemreserveInfo -> MemreserveInfo] BY <1>2
<1>4. parse_memreserve(lines) = fold[DOMAIN lines]
  BY DEF parse_memreserve, FoldLeft, MapThenFoldSet
<1>5. \E iter : Solves(iter)
  <2>1. PICK iter \in [SUBSET (1 .. n) -> MemreserveInfo] : FoldsBy(iter, n, base, step)
    BY <1>1, <1>3, FoldExists
  <2>2. ASSUME NEW s \in SUBSET (1 .. n), s # {}
        PROVE  step[<<Max(s), iter[s \ {Max(s)}]>>]
                 = memreserve_line(iter[s \ {Max(s)}], lines[Max(s)])
    <3>1. Max(s) \in 1 .. n BY <2>2, <1>1, LastPosition
    <3>2. iter[s \ {Max(s)}] \in MemreserveInfo BY <2>1
    <3> QED BY <3>1, <3>2
  <2>3. Solves(iter)
    <3> HIDE DEF step
    <3> QED BY <2>1, <2>2, <1>1 DEF FoldsBy
  <2> QED BY <2>3
<1>6. Solves(fold)
  <2> HIDE DEF Solves
  <2> QED BY <1>5
<1> HIDE DEF fold
<1>7. fold[{}] = base BY <1>6
<1>8. ASSUME NEW s \in SUBSET (1 .. n), s # {}, fold[s \ {Max(s)}] \in MemreserveInfo
      PROVE  fold[s] = step[<<Max(s), fold[s \ {Max(s)}]>>]
  <2>1. Max(s) \in 1 .. n BY <1>8, <1>1, LastPosition
  <2>2. fold[s] = memreserve_line(fold[s \ {Max(s)}], lines[Max(s)]) BY <1>8, <1>6, <1>1
  <2> QED BY <2>1, <2>2, <1>8
<1>9. PICK h : Runs(h, n, MemreserveInfo, base, step, fold[1 .. n])
  <2> HIDE DEF step, base, n
  <2>1. Folds(fold, n, MemreserveInfo, base, step) BY <1>7, <1>8 DEF Folds
  <2> QED BY <1>1, <1>3, <2>1, FoldRuns
<1>10. ASSUME NEW i \in 1 .. n PROVE h[i] = memreserve_line(h[i - 1], lines[i])
  <2>1. h[i - 1] \in MemreserveInfo BY <1>1, <1>9 DEF Runs
  <2> QED BY <2>1, <1>9 DEF Runs
<1>11. h \in [0 .. n -> MemreserveInfo] /\ h[0] = base /\ h[n] = parse_memreserve(lines)
  BY <1>1, <1>4, <1>9 DEF Runs
<1> QED BY <1>10, <1>11

\* The last position with a property, as positions are added.
LEMMA LastIs ==
  ASSUME NEW n \in Nat, NEW s \in SUBSET (1 .. n), NEW m \in s, \A x \in s : x <= m
  PROVE  Max(s) = m
<1>1. Max(s) \in s /\ m <= Max(s) BY LastPosition
<1>2. Max(s) \in 1 .. n /\ m \in 1 .. n /\ Max(s) <= m BY <1>1
<1> QED BY <1>1, <1>2

\* num_reserved_bytes is the last count of pages in a block, in bytes.
LEMMA ReservedMeans ==
  ASSUME NEW lines \in Seq(MemreserveLines), NEW node
  PROVE  Means("num_reserved_bytes", lines, node, set_memreserve_metric(parse_memreserve(lines)))
<1> DEFINE n == Len(lines)
    Found(k) == {i \in 1 .. k : lines[i].is = "Wrong_node" /\ InBlock(lines, i)}
    Bytes(k) == IF Found(k) = {} THEN 0 ELSE lines[Max(Found(k))].val * PageBytes
    Open(k) == \E m \in 1 .. k : /\ lines[m].is = "BEGIN_GET_NUM_RESERVED_PAGES"
                                 /\ \A j \in m .. k : lines[j].is # "END_GET_NUM_RESERVED_PAGES"
<1>1. PICK h \in [0 .. n -> MemreserveInfo] :
        /\ parse_memreserve(lines) = h[n]
        /\ h[0] = [flag |-> FALSE, bytes |-> 0]
        /\ \A i \in 1 .. n : h[i] = memreserve_line(h[i - 1], lines[i])
  BY MemreserveFold
<1> DEFINE T == {k \in Nat : k <= n => (h[k].flag <=> Open(k)) /\ h[k].bytes = Bytes(k)}
<1>2. 0 \in T
  <2>1. Found(0) = {} /\ ~ Open(0) OBVIOUS
  <2> HIDE DEF Found, Open
  <2> QED BY <1>1, <2>1
<1> HIDE DEF T
<1>3. ASSUME NEW k \in Nat, k \in T PROVE k + 1 \in T
  <2> HIDE DEF Found, Open, Bytes
  <2> SUFFICES ASSUME k + 1 <= n
               PROVE  (h[k + 1].flag <=> Open(k + 1)) /\ h[k + 1].bytes = Bytes(k + 1)
    BY DEF T
  <2>0. PICK line : line = lines[k + 1] OBVIOUS
  <2>1. k + 1 \in 1 .. n /\ n \in Nat OBVIOUS
  <2>2. h[k] \in MemreserveInfo /\ (h[k].flag <=> Open(k)) /\ h[k].bytes = Bytes(k)
    BY <1>3, <2>1 DEF T
  <2> USE DEF Found, Open, Bytes
  <2>3. h[k + 1] = memreserve_line(h[k], line) BY <1>1, <2>1, <2>0
  <2>4. line \in MemreserveLines BY <2>1, <2>0
  <2>5. Open(k + 1) <=> (\/ line.is = "BEGIN_GET_NUM_RESERVED_PAGES"
                         \/ Open(k) /\ line.is # "END_GET_NUM_RESERVED_PAGES")
    <3>1. ASSUME Open(k), line.is # "END_GET_NUM_RESERVED_PAGES" PROVE Open(k + 1)
      <4>1. PICK m \in 1 .. k :
              /\ lines[m].is = "BEGIN_GET_NUM_RESERVED_PAGES"
              /\ \A j \in m .. k : lines[j].is # "END_GET_NUM_RESERVED_PAGES"
        BY <3>1
      <4>2. \A j \in m .. k + 1 : j \in m .. k \/ j = k + 1 OBVIOUS
      <4> QED BY <2>0, <3>1, <4>1, <4>2
    <3>2. ASSUME line.is = "BEGIN_GET_NUM_RESERVED_PAGES" PROVE Open(k + 1)
      <4>1. k + 1 \in 1 .. k + 1 /\ \A j \in k + 1 .. k + 1 : j = k + 1 OBVIOUS
      <4> QED BY <2>0, <3>2, <4>1
    <3>3. ASSUME Open(k + 1), line.is # "BEGIN_GET_NUM_RESERVED_PAGES"
          PROVE  Open(k) /\ line.is # "END_GET_NUM_RESERVED_PAGES"
      <4>1. PICK m \in 1 .. k + 1 :
              /\ lines[m].is = "BEGIN_GET_NUM_RESERVED_PAGES"
              /\ \A j \in m .. k + 1 : lines[j].is # "END_GET_NUM_RESERVED_PAGES"
        BY <3>3
      <4>2. m \in 1 .. k BY <2>0, <4>1, <3>3
      <4>3. k + 1 \in m .. k + 1 /\ \A j \in m .. k : j \in m .. k + 1 BY <4>2
      <4> QED BY <2>0, <4>1, <4>2, <4>3
    <3> QED BY <3>1, <3>2, <3>3
  <2>6. line.is = "Wrong_node" => (InBlock(lines, k + 1) <=> Open(k))
    <3> SUFFICES ASSUME line.is = "Wrong_node" PROVE (InBlock(lines, k + 1) <=> Open(k))
      OBVIOUS
    <3>1. \A m \in 1 .. k : \A j \in m .. k + 1 : j \in m .. k \/ j = k + 1 OBVIOUS
    <3>2. \A m \in 1 .. k : \A j \in m .. k : j \in m .. k + 1 OBVIOUS
    <3>3. (k + 1) - 1 = k OBVIOUS
    <3> QED BY <2>0, <3>1, <3>2, <3>3 DEF InBlock
  <2>7. Found(k + 1) = Found(k) \cup (IF line.is = "Wrong_node" /\ Open(k) THEN {k + 1} ELSE {})
    <3>1. \A i \in 1 .. k + 1 : i \in 1 .. k \/ i = k + 1 OBVIOUS
    <3>2. \A i \in 1 .. k : i \in 1 .. k + 1 OBVIOUS
    <3> HIDE DEF Open
    <3> QED BY <2>0, <2>6, <3>1, <3>2
  <2>8. line.is = "Wrong_node" /\ Open(k) => Max(Found(k + 1)) = k + 1
    <3> SUFFICES ASSUME line.is = "Wrong_node", Open(k) PROVE Max(Found(k + 1)) = k + 1
      OBVIOUS
    <3>1. k + 1 \in Found(k + 1) /\ Found(k + 1) \in SUBSET (1 .. k + 1) BY <2>7
    <3>2. \A x \in Found(k + 1) : x <= k + 1 BY <3>1
    <3> HIDE DEF Found
    <3> QED BY <3>1, <3>2, LastIs
  <2>9. Bytes(k + 1) = IF line.is = "Wrong_node" /\ Open(k) THEN line.val * PageBytes
                                                           ELSE Bytes(k)
    <3>1. CASE line.is = "Wrong_node" /\ Open(k)
      <4>1. Found(k + 1) # {} BY <3>1, <2>7
      <4> HIDE DEF Found, Open
      <4> QED BY <2>0, <3>1, <2>8, <4>1
    <3>2. CASE ~ (line.is = "Wrong_node" /\ Open(k))
      <4>1. Found(k + 1) = Found(k) BY <3>2, <2>7
      <4> HIDE DEF Found, Open
      <4> QED BY <3>2, <4>1
    <3> QED BY <3>1, <3>2
  <2> HIDE DEF Found, Open, Bytes
  <2> QED BY <2>2, <2>3, <2>5, <2>9 DEF memreserve_line, MemreserveInfo
<1> HIDE DEF T
<1>4. n \in T
  <2>1. n \in Nat OBVIOUS
  <2> QED BY <1>2, <1>3, <2>1, Inductive
<1>5. parse_memreserve(lines).bytes = Bytes(n) BY <1>1, <1>4 DEF T
<1>6. set_memreserve_metric(parse_memreserve(lines)) =
        Whole(LastOf(lines, {i \in DOMAIN lines : lines[i].is = "Wrong_node" /\ InBlock(lines, i)},
                     LAMBDA l : l.val * PageBytes))
  <2>1. DOMAIN lines = 1 .. n OBVIOUS
  <2> QED BY <1>5, <2>1 DEF LastOf, set_memreserve_metric
<1> QED BY <1>6 DEF Means, BenchMetrics

-----------------------------------------------------------------------------
(* The output of GNU time.                                                 *)

GnuTimeInfo == [peak_rss_kbytes : Nat, runtime_seconds : Nat, cleanup : BOOLEAN]

\* What a line of GNU time holds is a number, and a time its seconds.
LEMMA SecondsType ==
  ASSUME NEW line \in GnuTimeLines
  PROVE  /\ line.is = "Maximum_resident_set_size" => line.val \in Nat
         /\ line.is \in {"Elapsed_m:ss", "Elapsed_h:mm:ss"} => Seconds(line) \in Nat
         /\ line.is = "Elapsed_m:ss" => Seconds(line) = line.m * 60 + line.s
         /\ line.is = "Elapsed_h:mm:ss" => Seconds(line) = line.h * 60 * 60 + line.m * 60 + line.s
<1>1. line.is = "Maximum_resident_set_size" => line.val \in Nat
  BY DEF GnuTimeLines, Unmatched
<1>2. line.is = "Elapsed_m:ss" => line.m \in Nat /\ line.s \in Nat
  BY DEF GnuTimeLines, Unmatched
<1>3. line.is = "Elapsed_h:mm:ss" => line.h \in Nat /\ line.m \in Nat /\ line.s \in Nat
  BY DEF GnuTimeLines, Unmatched
<1> QED BY <1>1, <1>2, <1>3 DEF Seconds

\* parse_gnu_time goes through the lines one after the other.
LEMMA GnuTimeFold ==
  ASSUME NEW lines \in Seq(GnuTimeLines)
  PROVE  \E h \in [0 .. Len(lines) -> GnuTimeInfo] :
           /\ parse_gnu_time(lines) = h[Len(lines)]
           /\ h[0] = init_gnu_time_metrics
           /\ \A i \in 1 .. Len(lines) : h[i] = gnu_time_line(h[i - 1], lines[i])
<1> DEFINE n == Len(lines)
    base == init_gnu_time_metrics
    step == [p \in (1 .. n) \X GnuTimeInfo |-> gnu_time_line(p[2], lines[p[1]])]
    Solves(iter) ==
      iter = [s \in SUBSET DOMAIN lines |->
                IF s = {} THEN base ELSE gnu_time_line(iter[s \ {Max(s)}], lines[Max(s)])]
    fold == CHOOSE iter : Solves(iter)
<1>1. n \in Nat /\ DOMAIN lines = 1 .. n /\ base \in GnuTimeInfo
  BY DEF GnuTimeInfo, init_gnu_time_metrics
<1>2. ASSUME NEW info \in GnuTimeInfo, NEW i \in 1 .. n
      PROVE  gnu_time_line(info, lines[i]) \in GnuTimeInfo
  <2>1. lines[i] \in GnuTimeLines OBVIOUS
  <2>2. /\ lines[i].is = "Maximum_resident_set_size" => lines[i].val \in Nat
        /\ lines[i].is = "Elapsed_m:ss" => lines[i].m * 60 + lines[i].s \in Nat
        /\ lines[i].is = "Elapsed_h:mm:ss" =>
             lines[i].h * 60 * 60 + lines[i].m * 60 + lines[i].s \in Nat
    BY <2>1, SecondsType
  <2> QED BY <2>2 DEF gnu_time_line, GnuTimeInfo
<1>3. step \in [(1 .. n) \X GnuTimeInfo -> GnuTimeInfo] BY <1>2
<1>4. parse_gnu_time(lines) = fold[DOMAIN lines]
  BY DEF parse_gnu_time, FoldLeft, MapThenFoldSet
<1>5. \E iter : Solves(iter)
  <2>1. PICK iter \in [SUBSET (1 .. n) -> GnuTimeInfo] : FoldsBy(iter, n, base, step)
    BY <1>1, <1>3, FoldExists
  <2>2. ASSUME NEW s \in SUBSET (1 .. n), s # {}
        PROVE  step[<<Max(s), iter[s \ {Max(s)}]>>]
                 = gnu_time_line(iter[s \ {Max(s)}], lines[Max(s)])
    <3>1. Max(s) \in 1 .. n BY <2>2, <1>1, LastPosition
    <3>2. iter[s \ {Max(s)}] \in GnuTimeInfo BY <2>1
    <3> QED BY <3>1, <3>2
  <2>3. Solves(iter)
    <3> HIDE DEF step
    <3> QED BY <2>1, <2>2, <1>1 DEF FoldsBy
  <2> QED BY <2>3
<1>6. Solves(fold)
  <2> HIDE DEF Solves
  <2> QED BY <1>5
<1> HIDE DEF fold
<1>7. fold[{}] = base BY <1>6
<1>8. ASSUME NEW s \in SUBSET (1 .. n), s # {}, fold[s \ {Max(s)}] \in GnuTimeInfo
      PROVE  fold[s] = step[<<Max(s), fold[s \ {Max(s)}]>>]
  <2>1. Max(s) \in 1 .. n BY <1>8, <1>1, LastPosition
  <2>2. fold[s] = gnu_time_line(fold[s \ {Max(s)}], lines[Max(s)]) BY <1>8, <1>6, <1>1
  <2> QED BY <2>1, <2>2, <1>8
<1>9. PICK h : Runs(h, n, GnuTimeInfo, base, step, fold[1 .. n])
  <2> HIDE DEF step, base, n
  <2>1. Folds(fold, n, GnuTimeInfo, base, step) BY <1>7, <1>8 DEF Folds
  <2> QED BY <1>1, <1>3, <2>1, FoldRuns
<1>10. ASSUME NEW i \in 1 .. n PROVE h[i] = gnu_time_line(h[i - 1], lines[i])
  <2>1. h[i - 1] \in GnuTimeInfo BY <1>1, <1>9 DEF Runs
  <2> QED BY <2>1, <1>9 DEF Runs
<1>11. h \in [0 .. n -> GnuTimeInfo] /\ h[0] = base /\ h[n] = parse_gnu_time(lines)
  BY <1>1, <1>4, <1>9 DEF Runs
<1> QED BY <1>10, <1>11

\* The positions up to k that a set of lines has.
LEMMA Added ==
  ASSUME NEW k \in Nat, NEW s \in SUBSET (1 .. k + 1)
  PROVE  k + 1 \in s => s # {} /\ Max(s) = k + 1
<1> SUFFICES ASSUME k + 1 \in s PROVE s # {} /\ Max(s) = k + 1
  OBVIOUS
<1>1. \A x \in s : x <= k + 1 OBVIOUS
<1>2. k + 1 \in Nat OBVIOUS
<1> QED BY <1>1, <1>2, LastIs

\* The metrics of GNU time are those of the last line, up to that of the memory,
\* that tells each.
LEMMA TimeMeans ==
  ASSUME NEW lines \in Seq(GnuTimeLines), NEW node, NEW metric \in GnuTimeMetrics
  PROVE  Means(metric, lines, node, set_gnu_time_metric(metric, parse_gnu_time(lines)))
<1> DEFINE n == Len(lines)
    Ends(i) == lines[i].is = "Maximum_resident_set_size"
    Unended(i) == \A m \in 1 .. i - 1 : ~ Ends(m)
    Ended(k) == \E m \in 1 .. k : Ends(m)
    Times(k) == {i \in 1 .. k : Unended(i) /\ lines[i].is \in {"Elapsed_m:ss", "Elapsed_h:mm:ss"}}
    Rss(k) == {i \in 1 .. k : Unended(i) /\ Ends(i)}
    Runtime(k) == IF Times(k) = {} THEN 0 ELSE Seconds(lines[Max(Times(k))])
    Peak(k) == IF Rss(k) = {} THEN 0 ELSE lines[Max(Rss(k))].val
<1>1. PICK h \in [0 .. n -> GnuTimeInfo] :
        /\ parse_gnu_time(lines) = h[n]
        /\ h[0] = init_gnu_time_metrics
        /\ \A i \in 1 .. n : h[i] = gnu_time_line(h[i - 1], lines[i])
  BY GnuTimeFold
<1> DEFINE T == {k \in Nat : k <= n => /\ h[k].cleanup <=> Ended(k)
                                       /\ h[k].runtime_seconds = Runtime(k)
                                       /\ h[k].peak_rss_kbytes = Peak(k)}
<1>2. 0 \in T
  <2>1. Times(0) = {} /\ Rss(0) = {} /\ ~ Ended(0) OBVIOUS
  <2> HIDE DEF Times, Rss, Ended
  <2> QED BY <1>1, <2>1 DEF init_gnu_time_metrics
<1> HIDE DEF T
<1>3. ASSUME NEW k \in Nat, k \in T PROVE k + 1 \in T
  <2> HIDE DEF Ended, Runtime, Peak, Times, Rss
  <2> SUFFICES ASSUME k + 1 <= n
               PROVE  /\ h[k + 1].cleanup <=> Ended(k + 1)
                      /\ h[k + 1].runtime_seconds = Runtime(k + 1)
                      /\ h[k + 1].peak_rss_kbytes = Peak(k + 1)
    BY DEF T
  <2>0. PICK line : line = lines[k + 1] OBVIOUS
  <2>1. k + 1 \in 1 .. n /\ n \in Nat OBVIOUS
  <2>2. /\ h[k] \in GnuTimeInfo /\ (h[k].cleanup <=> Ended(k))
        /\ h[k].runtime_seconds = Runtime(k) /\ h[k].peak_rss_kbytes = Peak(k)
    BY <1>3, <2>1 DEF T
  <2>3. h[k + 1] = gnu_time_line(h[k], line) BY <1>1, <2>1, <2>0
  <2>4. line \in GnuTimeLines BY <2>1, <2>0
  <2>5. Ended(k + 1) <=> Ended(k) \/ Ends(k + 1)
    <3>1. \A m \in 1 .. k + 1 : m \in 1 .. k \/ m = k + 1 OBVIOUS
    <3>2. \A m \in 1 .. k : m \in 1 .. k + 1 OBVIOUS
    <3>3. k + 1 \in 1 .. k + 1 OBVIOUS
    <3> HIDE DEF Ends
    <3> QED BY <3>1, <3>2, <3>3 DEF Ended
  <2>6. Unended(k + 1) <=> ~ Ended(k)
    <3>1. (k + 1) - 1 = k OBVIOUS
    <3> QED BY <3>1 DEF Ended
  <2>7. /\ Times(k + 1) = Times(k) \cup
             (IF ~ Ended(k) /\ line.is \in {"Elapsed_m:ss", "Elapsed_h:mm:ss"} THEN {k + 1} ELSE {})
        /\ Rss(k + 1) = Rss(k) \cup
             (IF ~ Ended(k) /\ line.is = "Maximum_resident_set_size" THEN {k + 1} ELSE {})
        /\ Times(k + 1) \in SUBSET (1 .. k + 1) /\ Rss(k + 1) \in SUBSET (1 .. k + 1)
    <3>1. \A m : m \in 1 .. k + 1 <=> m \in 1 .. k \/ m = k + 1 OBVIOUS
    <3> HIDE DEF Unended
    <3> QED BY <3>1, <2>6, <2>0 DEF Times, Rss
  <2>8. Runtime(k + 1) =
          IF ~ Ended(k) /\ line.is \in {"Elapsed_m:ss", "Elapsed_h:mm:ss"}
          THEN Seconds(line) ELSE Runtime(k)
    <3>1. CASE ~ Ended(k) /\ line.is \in {"Elapsed_m:ss", "Elapsed_h:mm:ss"}
      <4>1. k + 1 \in Times(k + 1) BY <3>1, <2>7
      <4>2. Times(k + 1) # {} /\ Max(Times(k + 1)) = k + 1 BY <4>1, <2>7, Added
      <4> QED BY <4>2, <3>1, <2>0 DEF Runtime
    <3>2. CASE ~ (~ Ended(k) /\ line.is \in {"Elapsed_m:ss", "Elapsed_h:mm:ss"})
      <4>1. Times(k + 1) = Times(k) BY <3>2, <2>7
      <4> QED BY <3>2, <4>1 DEF Runtime
    <3> QED BY <3>1, <3>2
  <2>9. Peak(k + 1) = IF ~ Ended(k) /\ line.is = "Maximum_resident_set_size"
                      THEN line.val ELSE Peak(k)
    <3>1. CASE ~ Ended(k) /\ line.is = "Maximum_resident_set_size"
      <4>1. k + 1 \in Rss(k + 1) BY <3>1, <2>7
      <4>2. Rss(k + 1) # {} /\ Max(Rss(k + 1)) = k + 1 BY <4>1, <2>7, Added
      <4> QED BY <4>2, <3>1, <2>0 DEF Peak
    <3>2. CASE ~ (~ Ended(k) /\ line.is = "Maximum_resident_set_size")
      <4>1. Rss(k + 1) = Rss(k) BY <3>2, <2>7
      <4> QED BY <3>2, <4>1 DEF Peak
    <3> QED BY <3>1, <3>2
  <2>10. Ended(k + 1) <=> Ended(k) \/ line.is = "Maximum_resident_set_size"
    BY <2>5, <2>0
  <2>11. /\ line.is = "Elapsed_m:ss" => Seconds(line) = line.m * 60 + line.s
         /\ line.is = "Elapsed_h:mm:ss" => Seconds(line) = line.h * 60 * 60 + line.m * 60 + line.s
    BY <2>4, SecondsType
  <2> QED BY <2>2, <2>3, <2>8, <2>9, <2>10, <2>11 DEF gnu_time_line, GnuTimeInfo
<1>4. n \in T
  <2>1. n \in Nat OBVIOUS
  <2> QED BY <1>2, <1>3, <2>1, Inductive
<1>5. /\ parse_gnu_time(lines).runtime_seconds = Runtime(n)
      /\ parse_gnu_time(lines).peak_rss_kbytes = Peak(n)
  <2> HIDE DEF Runtime, Peak
  <2> QED BY <1>1, <1>4 DEF T
<1>6. /\ Times(n) = {i \in UpToRss(lines) : lines[i].is \in {"Elapsed_m:ss", "Elapsed_h:mm:ss"}}
      /\ Rss(n) = {i \in UpToRss(lines) : lines[i].is = "Maximum_resident_set_size"}
  <2>1. DOMAIN lines = 1 .. n OBVIOUS
  <2> QED BY <2>1 DEF UpToRss
<1> HIDE DEF Times, Rss
<1>7. /\ Runtime(n) = LastOf(lines, {i \in UpToRss(lines) :
                        lines[i].is \in {"Elapsed_m:ss", "Elapsed_h:mm:ss"}}, Seconds)
      /\ Peak(n) = LastOf(lines, {i \in UpToRss(lines) :
                        lines[i].is = "Maximum_resident_set_size"}, LAMBDA l : l.val)
  BY <1>6 DEF LastOf
<1> HIDE DEF Runtime, Peak
<1>8. PICK value : value = set_gnu_time_metric(metric, parse_gnu_time(lines)) OBVIOUS
<1>9. /\ metric \in {"runtime", "runtime_seconds", "graph_runtime"} => value = Whole(Runtime(n))
      /\ metric = "peak_rss_kbytes" => value = Whole(Peak(n))
  BY <1>5, <1>8 DEF set_gnu_time_metric
<1>10. metric \in GnuTimeMetrics OBVIOUS
<1> HIDE DEF n
<1>11. Means(metric, lines, node, value)
  BY <1>7, <1>9, <1>10 DEF Means, BenchMetrics, GnuTimeMetrics
<1> QED BY <1>8, <1>11

-----------------------------------------------------------------------------
(* The output of numastat.                                                 *)

\* memfree_vals goes through the lines one after the other.
LEMMA NumastatFold ==
  ASSUME NEW lines \in Seq(NumastatLines)
  PROVE  \E h \in [0 .. Len(lines) -> Seq(Seq(Nat))] :
           /\ memfree_vals(lines) = h[Len(lines)]
           /\ h[0] = <<>>
           /\ \A i \in 1 .. Len(lines) : h[i] = numastat_line(h[i - 1], lines[i])
<1> DEFINE n == Len(lines)
    base == <<>>
    step == [p \in (1 .. n) \X Seq(Seq(Nat)) |-> numastat_line(p[2], lines[p[1]])]
    Solves(iter) ==
      iter = [s \in SUBSET DOMAIN lines |->
                IF s = {} THEN base ELSE numastat_line(iter[s \ {Max(s)}], lines[Max(s)])]
    fold == CHOOSE iter : Solves(iter)
<1>1. n \in Nat /\ DOMAIN lines = 1 .. n /\ base \in Seq(Seq(Nat))
  BY DEF numastat_line
<1>2. ASSUME NEW info \in Seq(Seq(Nat)), NEW i \in 1 .. n
      PROVE  numastat_line(info, lines[i]) \in Seq(Seq(Nat))
  <2>1. lines[i] \in NumastatLines OBVIOUS
  <2>2. lines[i].is = "MemFree" => lines[i].vals \in Seq(Nat)
    BY <2>1 DEF NumastatLines, Unmatched
  <2> QED BY <2>2 DEF numastat_line
<1>3. step \in [(1 .. n) \X Seq(Seq(Nat)) -> Seq(Seq(Nat))] BY <1>2
<1>4. memfree_vals(lines) = fold[DOMAIN lines]
  BY DEF memfree_vals, FoldLeft, MapThenFoldSet
<1>5. \E iter : Solves(iter)
  <2>1. PICK iter \in [SUBSET (1 .. n) -> Seq(Seq(Nat))] : FoldsBy(iter, n, base, step)
    BY <1>1, <1>3, FoldExists
  <2>2. ASSUME NEW s \in SUBSET (1 .. n), s # {}
        PROVE  step[<<Max(s), iter[s \ {Max(s)}]>>]
                 = numastat_line(iter[s \ {Max(s)}], lines[Max(s)])
    <3>1. Max(s) \in 1 .. n BY <2>2, <1>1, LastPosition
    <3>2. iter[s \ {Max(s)}] \in Seq(Seq(Nat)) BY <2>1
    <3> QED BY <3>1, <3>2
  <2>3. Solves(iter)
    <3> HIDE DEF step
    <3> QED BY <2>1, <2>2, <1>1 DEF FoldsBy
  <2> QED BY <2>3
<1>6. Solves(fold)
  <2> HIDE DEF Solves
  <2> QED BY <1>5
<1> HIDE DEF fold
<1>7. fold[{}] = base BY <1>6
<1>8. ASSUME NEW s \in SUBSET (1 .. n), s # {}, fold[s \ {Max(s)}] \in Seq(Seq(Nat))
      PROVE  fold[s] = step[<<Max(s), fold[s \ {Max(s)}]>>]
  <2>1. Max(s) \in 1 .. n BY <1>8, <1>1, LastPosition
  <2>2. fold[s] = numastat_line(fold[s \ {Max(s)}], lines[Max(s)]) BY <1>8, <1>6, <1>1
  <2> QED BY <2>1, <2>2, <1>8
<1>9. PICK h : Runs(h, n, Seq(Seq(Nat)), base, step, fold[1 .. n])
  <2> HIDE DEF step, base, n
  <2>1. Folds(fold, n, Seq(Seq(Nat)), base, step) BY <1>7, <1>8 DEF Folds
  <2> QED BY <1>1, <1>3, <2>1, FoldRuns
<1>10. ASSUME NEW i \in 1 .. n PROVE h[i] = numastat_line(h[i - 1], lines[i])
  <2>1. h[i - 1] \in Seq(Seq(Nat)) BY <1>1, <1>9 DEF Runs
  <2> QED BY <2>1, <1>9 DEF Runs
<1>11. h \in [0 .. n -> Seq(Seq(Nat))] /\ h[0] = base /\ h[n] = memfree_vals(lines)
  BY <1>1, <1>4, <1>9 DEF Runs
<1> QED BY <1>10, <1>11

\* The rows are those of lines of MemFree.
LEMMA RowsAreLines ==
  ASSUME NEW lines \in Seq(NumastatLines)
  PROVE  /\ memfree_vals(lines) \in Seq(Seq(Nat))
         /\ \A j \in 1 .. Len(memfree_vals(lines)) : \E i \in 1 .. Len(lines) :
              lines[i].is = "MemFree" /\ memfree_vals(lines)[j] = lines[i].vals
<1> DEFINE n == Len(lines)
    FromLines(rows, k) == \A j \in 1 .. Len(rows) : \E i \in 1 .. k :
                            lines[i].is = "MemFree" /\ rows[j] = lines[i].vals
<1>1. PICK h \in [0 .. n -> Seq(Seq(Nat))] :
        /\ memfree_vals(lines) = h[n]
        /\ h[0] = <<>>
        /\ \A i \in 1 .. n : h[i] = numastat_line(h[i - 1], lines[i])
  BY NumastatFold
<1> DEFINE T == {k \in Nat : k <= n => FromLines(h[k], k)}
<1>2. 0 \in T BY <1>1
<1>3. ASSUME NEW k \in Nat, k \in T PROVE k + 1 \in T
  <2> SUFFICES ASSUME k + 1 <= n, NEW j \in 1 .. Len(h[k + 1])
               PROVE  \E i \in 1 .. k + 1 : lines[i].is = "MemFree" /\ h[k + 1][j] = lines[i].vals
    OBVIOUS
  <2>1. k + 1 \in 1 .. n /\ n \in Nat /\ k + 1 \in 1 .. k + 1 /\ (k + 1) - 1 = k OBVIOUS
  <2>2. h[k] \in Seq(Seq(Nat)) /\ FromLines(h[k], k) BY <1>3, <2>1
  <2>3. \A i \in 1 .. k : i \in 1 .. k + 1 OBVIOUS
  <2> HIDE DEF T
  <2>4. h[k + 1] = numastat_line(h[k], lines[k + 1]) BY <1>1, <2>1
  <2>5. CASE lines[k + 1].is = "MemFree"
    <3>1. lines[k + 1].vals \in Seq(Nat)
      <4>1. lines[k + 1] \in NumastatLines BY <2>1
      <4> QED BY <4>1, <2>5 DEF NumastatLines, Unmatched
    <3>2. PICK row : row = lines[k + 1].vals OBVIOUS
    <3>3. PICK rows : rows = h[k] OBVIOUS
    <3>4. h[k + 1] = Append(rows, row) BY <2>4, <2>5, <3>2, <3>3 DEF numastat_line
    <3>5. rows \in Seq(Seq(Nat)) /\ row \in Seq(Nat) BY <2>2, <3>1, <3>2, <3>3
    <3>6. Len(h[k + 1]) = Len(rows) + 1 /\ h[k + 1][Len(rows) + 1] = row
          /\ \A i \in 1 .. Len(rows) : h[k + 1][i] = rows[i]
      BY <3>4, <3>5
    <3>7. CASE j = Len(rows) + 1 BY <2>1, <2>5, <3>2, <3>6, <3>7
    <3>8. CASE j # Len(rows) + 1
      <4>1. j \in 1 .. Len(rows) BY <3>5, <3>6, <3>8
      <4>2. h[k + 1][j] = rows[j] BY <4>1, <3>6
      <4>3. \E i \in 1 .. k : lines[i].is = "MemFree" /\ rows[j] = lines[i].vals
        BY <4>1, <2>2, <3>3
      <4> QED BY <4>2, <4>3, <2>3
    <3> QED BY <3>7, <3>8
  <2>6. CASE lines[k + 1].is # "MemFree"
    <3>1. h[k + 1] = h[k] BY <2>4, <2>6 DEF numastat_line
    <3> QED BY <3>1, <2>2, <2>3
  <2> QED BY <2>5, <2>6
<1> HIDE DEF T
<1>4. n \in T
  <2>1. n \in Nat OBVIOUS
  <2> QED BY <1>2, <1>3, <2>1, Inductive
<1>5. h[n] \in Seq(Seq(Nat)) /\ FromLines(h[n], n) BY <1>4 DEF T
<1> QED BY <1>1, <1>5

\* Division by a positive number moves towards zero.
LEMMA CDivShrinks ==
  ASSUME NEW a \in Int, NEW b \in Nat \ {0}
  PROVE  /\ CDiv(a, b) \in Int
         /\ a >= 0 => 0 <= CDiv(a, b) /\ CDiv(a, b) <= a
         /\ a <= 0 => a <= CDiv(a, b) /\ CDiv(a, b) <= 0
         /\ CDiv(a, 1) = a
<1>1. \A m \in Nat : m \div b \in Nat /\ m \div b <= m /\ m \div 1 = m OBVIOUS
<1>2. CASE a >= 0
  <2>1. CDiv(a, b) = a \div b /\ CDiv(a, 1) = a \div 1 BY <1>2 DEF CDiv
  <2>2. a \div b \in Nat /\ a \div b <= a /\ a \div 1 = a BY <1>1, <1>2
  <2>3. a = 0 => a \div b = 0 BY <2>2
  <2> QED BY <1>2, <2>1, <2>2, <2>3
<1>3. CASE a < 0
  <2>1. CDiv(a, b) = - ((- a) \div b) /\ CDiv(a, 1) = - ((- a) \div 1) BY <1>3 DEF CDiv
  <2>2. - a \in Nat BY <1>3
  <2>3. (- a) \div b \in Nat /\ (- a) \div b <= - a /\ (- a) \div 1 = - a BY <1>1, <2>2
  <2> QED BY <1>3, <2>1, <2>3
<1> QED BY <1>2, <1>3

\* A running average stays between the values that it is of.
LEMMA AverageIsBetween ==
  ASSUME NEW rows \in Seq(Seq(Nat)), rows # <<>>, NEW node, NEW lo \in Nat, NEW hi \in Nat,
         \A i \in 1 .. Len(rows) : rows[i][node] \in Nat /\ rows[i][node] \in lo .. hi
  PROVE  memfree_avgs(rows, node) \in lo .. hi
<1> DEFINE N == Len(rows)
    Interval(avg, i) == avg + CDiv(rows[i][node] - avg, i)
<1>0. PICK positions : positions = [i \in 1 .. Len(rows) |-> i] OBVIOUS
<1>a. /\ positions \in Seq(Nat) /\ Len(positions) = N /\ N \in Nat \ {0}
      /\ \A i \in 1 .. N : positions[i] = i
  BY <1>0
<1>b. \E h \in [0 .. Len(positions) -> Int] :
        /\ memfree_avgs(rows, node) = h[Len(positions)]
        /\ h[0] = 0
        /\ \A i \in 1 .. Len(positions) : h[i] = Interval(h[i - 1], positions[i])
  <2> DEFINE n == Len(positions)
      base == 0
      step == [p \in (1 .. n) \X Int |-> Interval(p[2], positions[p[1]])]
      Solves(iter) ==
        iter = [s \in SUBSET DOMAIN positions |->
                  IF s = {} THEN base ELSE Interval(iter[s \ {Max(s)}], positions[Max(s)])]
      fold == CHOOSE iter : Solves(iter)
  <2>1. n \in Nat /\ DOMAIN positions = 1 .. n /\ base \in Int
    BY <1>a
  <2>2. ASSUME NEW info \in Int, NEW i \in 1 .. n
        PROVE  Interval(info, positions[i]) \in Int
    <3>1. positions[i] = i /\ rows[i][node] \in Int /\ i \in Nat \ {0} BY <1>a
    <3>2. rows[i][node] - info \in Int BY <3>1
    <3>3. CDiv(rows[i][node] - info, i) \in Int BY <3>1, <3>2, CDivShrinks
    <3> QED BY <3>1, <3>3
  <2>3. step \in [(1 .. n) \X Int -> Int] BY <2>2
  <2>4. memfree_avgs(rows, node) = fold[DOMAIN positions]
    BY <1>0 DEF memfree_avgs, FoldLeft, MapThenFoldSet
  <2>5. \E iter : Solves(iter)
    <3>1. PICK iter \in [SUBSET (1 .. n) -> Int] : FoldsBy(iter, n, base, step)
      BY <2>1, <2>3, FoldExists
    <3>2. ASSUME NEW s \in SUBSET (1 .. n), s # {}
          PROVE  step[<<Max(s), iter[s \ {Max(s)}]>>] = Interval(iter[s \ {Max(s)}], positions[Max(s)])
      <4>1. Max(s) \in 1 .. n BY <3>2, <2>1, LastPosition
      <4>2. iter[s \ {Max(s)}] \in Int BY <3>1
      <4> QED BY <4>1, <4>2
    <3>3. Solves(iter)
      <4> HIDE DEF step
      <4> QED BY <3>1, <3>2, <2>1 DEF FoldsBy
    <3> QED BY <3>3
  <2>6. Solves(fold)
    <3> HIDE DEF Solves
    <3> QED BY <2>5
  <2> HIDE DEF fold
  <2>7. fold[{}] = base BY <2>6
  <2>8. ASSUME NEW s \in SUBSET (1 .. n), s # {}, fold[s \ {Max(s)}] \in Int
        PROVE  fold[s] = step[<<Max(s), fold[s \ {Max(s)}]>>]
    <3>1. Max(s) \in 1 .. n BY <2>8, <2>1, LastPosition
    <3>2. fold[s] = Interval(fold[s \ {Max(s)}], positions[Max(s)]) BY <2>8, <2>6, <2>1
    <3> QED BY <3>1, <3>2, <2>8
  <2>9. PICK h : Runs(h, n, Int, base, step, fold[1 .. n])
    <3> HIDE DEF step, base, n
    <3>1. Folds(fold, n, Int, base, step) BY <2>7, <2>8 DEF Folds
    <3> QED BY <2>1, <2>3, <3>1, FoldRuns
  <2>10. ASSUME NEW i \in 1 .. n PROVE h[i] = Interval(h[i - 1], positions[i])
    <3>1. h[i - 1] \in Int
      <4> HIDE DEF step, n
      <4>1. h \in [0 .. n -> Int] /\ i - 1 \in 0 .. n BY <2>1, <2>9 DEF Runs
      <4> QED BY <4>1
    <3> QED BY <3>1, <2>9 DEF Runs
  <2>11. h \in [0 .. n -> Int] /\ h[0] = base /\ h[n] = memfree_avgs(rows, node)
    BY <2>1, <2>4, <2>9 DEF Runs
  <2> QED BY <2>10, <2>11
<1>c. PICK h \in [0 .. N -> Int] :
        /\ memfree_avgs(rows, node) = h[N]
        /\ h[0] = 0
        /\ \A i \in 1 .. N : h[i] = Interval(h[i - 1], i)
  BY <1>a, <1>b
<1> DEFINE T == {k \in Nat : k + 1 <= N => h[k + 1] \in lo .. hi}
<1>1. 0 \in T
  <2>1. h[1] = 0 + CDiv(rows[1][node] - 0, 1) BY <1>a, <1>c
  <2>2. 1 \in 1 .. N BY <1>a
  <2>3. rows[1][node] \in Nat /\ rows[1][node] \in lo .. hi BY <2>2
  <2>4. PICK val : val = rows[1][node] OBVIOUS
  <2>5. val \in Nat /\ val - 0 = val BY <2>3, <2>4
  <2>6. CDiv(val - 0, 1) = val BY <2>5, CDivShrinks
  <2> QED BY <2>1, <2>3, <2>4, <2>6
<1>2. ASSUME NEW k \in Nat, k \in T PROVE k + 1 \in T
  <2> SUFFICES ASSUME (k + 1) + 1 <= N PROVE h[(k + 1) + 1] \in lo .. hi
    OBVIOUS
  <2>1. k + 2 \in 1 .. N /\ (k + 1) + 1 = k + 2 /\ (k + 2) - 1 = k + 1 /\ k + 1 <= N BY <1>a
  <2>2. h[k + 1] \in lo .. hi BY <1>2, <2>1
  <2>3. h[k + 2] = h[k + 1] + CDiv(rows[k + 2][node] - h[k + 1], k + 2)
    BY <1>c, <2>1
  <2>4. PICK avg, val : avg = h[k + 1] /\ val = rows[k + 2][node] OBVIOUS
  <2>5. val \in lo .. hi BY <2>1, <2>4
  <2> HIDE DEF T
  <2>6. PICK d : d = CDiv(val - avg, k + 2) OBVIOUS
  <2>7. avg \in lo .. hi BY <2>2, <2>4
  <2>8. /\ d \in Int
        /\ val - avg >= 0 => 0 <= d /\ d <= val - avg
        /\ val - avg <= 0 => val - avg <= d /\ d <= 0
    <3>1. val - avg \in Int /\ k + 2 \in Nat \ {0} BY <2>5, <2>7
    <3> QED BY <3>1, <2>6, CDivShrinks
  <2>9. avg + d \in lo .. hi BY <2>5, <2>7, <2>8
  <2> QED BY <2>1, <2>3, <2>4, <2>6, <2>9
<1> HIDE DEF T
<1>3. N - 1 \in T
  <2>1. N - 1 \in Nat BY <1>a
  <2> QED BY <1>1, <1>2, <2>1, Inductive
<1>4. h[N] \in lo .. hi BY <1>3, <1>a DEF T
<1> QED BY <1>c, <1>4

\* The average of the node's free memory lies between the least and the greatest.
LEMMA MemFreeMeans ==
  ASSUME NEW lines \in Seq(NumastatLines), SameNodes(lines), NEW node \in Nat,
         NEW metric \in NumastatMetrics
  PROVE  Means(metric, lines, node, set_numastat_metric(metric, lines, node))
<1>1. PICK rows : rows = memfree_vals(lines) OBVIOUS
<1>2. PICK value : value = set_numastat_metric(metric, lines, node) OBVIOUS
<1>3. ASSUME metric = "avg_memfree", value # Garbage
      PROVE  value.num \in Min(MemFreeOf(lines, node)) .. Max(MemFreeOf(lines, node))
  <2> DEFINE n == Len(lines)
      Free == {i \in 1 .. n : lines[i].is = "MemFree"}
      Values == MemFreeOf(lines, node)
  <2>1. /\ rows \in Seq(Seq(Nat))
        /\ \A j \in 1 .. Len(rows) : \E i \in Free : rows[j] = lines[i].vals
    BY <1>1, RowsAreLines
  <2>2. node < num_mem_nodes(rows) /\ value = Whole(memfree_avgs(rows, node + 1))
    <3>1. num_mem_nodes(rows) \in Nat
      <4>1. CASE rows = <<>> BY <4>1 DEF num_mem_nodes
      <4>2. CASE rows # <<>>
        <5>1. Len(rows) \in 1 .. Len(rows) BY <2>1, <4>2
        <5>2. rows[Len(rows)] \in Seq(Nat) BY <2>1, <5>1
        <5> QED BY <5>2, <4>2 DEF num_mem_nodes, Last
      <4> QED BY <4>1, <4>2
    <3>2. ~ (node >= num_mem_nodes(rows)) BY <3>1, <1>1, <1>2, <1>3 DEF set_numastat_metric
    <3>3. node < num_mem_nodes(rows) BY <3>1, <3>2
    <3> QED BY <1>1, <1>2, <1>3, <3>2, <3>3 DEF set_numastat_metric
  <2>3. rows # <<>> /\ node < Len(rows[Len(rows)])
    <3>1. rows # <<>> BY <2>2 DEF num_mem_nodes
    <3> QED BY <3>1, <2>2 DEF num_mem_nodes, Last
  <2>4. Len(rows) \in 1 .. Len(rows) BY <2>1, <2>3
  <2>5. Values = {lines[i].vals[node + 1] : i \in Free}
    <3>1. DOMAIN lines = 1 .. n OBVIOUS
    <3> QED BY <3>1 DEF MemFreeOf
  <2>6. ASSUME NEW i \in Free PROVE lines[i].vals \in Seq(Nat) /\ node < Len(lines[i].vals)
    <3>1. lines[i] \in NumastatLines OBVIOUS
    <3>2. lines[i].vals \in Seq(Nat) BY <3>1 DEF NumastatLines, Unmatched
    <3>3. PICK j \in Free : rows[Len(rows)] = lines[j].vals BY <2>1, <2>4
    <3>4. Len(lines[i].vals) = Len(lines[j].vals)
      <4>1. DOMAIN lines = 1 .. n OBVIOUS
      <4> QED BY <4>1 DEF SameNodes
    <3> QED BY <3>2, <3>3, <3>4, <2>3
  <2> HIDE DEF Free
  <2>7. Values \in SUBSET Nat
    <3>1. \A i \in Free : lines[i].vals[node + 1] \in Nat
      <4> TAKE i \in Free
      <4>1. PICK vals : vals = lines[i].vals OBVIOUS
      <4>2. vals \in Seq(Nat) /\ node < Len(vals) BY <4>1, <2>6
      <4>3. node + 1 \in 1 .. Len(vals) BY <4>2
      <4> QED BY <4>1, <4>2, <4>3
    <3> HIDE DEF Values
    <3> QED BY <3>1, <2>5
  <2>8. IsFiniteSet(Values)
    <3>1. IsFiniteSet(Free)
      <4>1. IsFiniteSet(1 .. n)
        <5>1. n \in Nat OBVIOUS
        <5> QED BY <5>1, FS_Interval
      <4>2. Free \subseteq 1 .. n BY DEF Free
      <4> QED BY <4>1, <4>2, FS_Subset
    <3> HIDE DEF Values
    <3>2. PICK Of : Of = [i \in Free |-> lines[i].vals[node + 1]] OBVIOUS
    <3>3. Values = {Of[i] : i \in Free} BY <2>5, <3>2
    <3>4. Of \in Surjection(Free, Values) BY <3>2, <3>3 DEF Surjection
    <3> QED BY <3>1, <3>4, FS_Surjection
  <2>9. \A j \in 1 .. Len(rows) : rows[j][node + 1] \in Values
    <3> HIDE DEF Values
    <3> TAKE j \in 1 .. Len(rows)
    <3>1. PICK i \in Free : rows[j] = lines[i].vals BY <2>1
    <3> QED BY <3>1, <2>5
  <2> HIDE DEF Values
  <2>10. Values # {} BY <2>4, <2>9
  <2>11. PICK lo, hi : lo = Min(Values) /\ hi = Max(Values) OBVIOUS
  <2>12. lo \in Nat /\ hi \in Nat /\ \A x \in Values : lo <= x /\ x <= hi
    <3>1. Values \in SUBSET Int BY <2>7
    <3>2. /\ Max(Values) \in Values /\ \A x \in Values : x <= Max(Values)
          /\ Min(Values) \in Values /\ \A x \in Values : Min(Values) <= x
      BY <3>1, <2>8, <2>10, Extremes
    <3> QED BY <3>2, <2>7, <2>11
  <2>13. memfree_avgs(rows, node + 1) \in lo .. hi
    <3>1. \A j \in 1 .. Len(rows) : rows[j][node + 1] \in Nat /\ rows[j][node + 1] \in lo .. hi
      <4> TAKE j \in 1 .. Len(rows)
      <4>1. PICK x : x = rows[j][node + 1] OBVIOUS
      <4>2. x \in Values BY <2>9, <4>1
      <4> QED BY <4>1, <4>2, <2>7, <2>12
    <3> QED BY <3>1, <2>1, <2>3, <2>12, AverageIsBetween
  <2>14. value.num = memfree_avgs(rows, node + 1) BY <2>2 DEF Whole, Frac
  <2> QED BY <2>11, <2>13, <2>14 DEF Values
<1>4. metric \in NumastatMetrics OBVIOUS
<1>5. Means(metric, lines, node, value)
  BY <1>3, <1>4 DEF Means, NumastatMetrics, BenchMetrics
<1> QED BY <1>2, <1>5

-----------------------------------------------------------------------------
(* The output of a benchmark.                                              *)

Counts == UNION {[D -> Nat] : D \in SUBSET QmcpackLines}

BenchInfo == [fom : [num : Nat, den : Nat], qmcpack : Counts, found_qmcpack : Nat,
              first : Nat, last : Nat, max : Nat, min : Int, total : Nat, num_phases : Nat]

\* To begin with, none of the four numbers of QMCPACK is known.
LEMMA EmptyCounts == [k \in {} |-> 0] \in Counts
<1>1. {} \in SUBSET QmcpackLines /\ [k \in {} |-> 0] \in [{} -> Nat] OBVIOUS
<1> QED BY <1>1 DEF Counts

\* A line of QMCPACK tells one more of them, or one of them again.
LEMMA CountAdded ==
  ASSUME NEW counts \in Counts, NEW key \in QmcpackLines, NEW val \in Nat
  PROVE  [k \in DOMAIN counts \cup {key} |-> IF k = key THEN val ELSE counts[k]] \in Counts
<1>1. PICK D \in SUBSET QmcpackLines : counts \in [D -> Nat] BY DEF Counts
<1> DEFINE E == D \cup {key}
<1>2. E \in SUBSET QmcpackLines OBVIOUS
<1>3. [k \in DOMAIN counts \cup {key} |-> IF k = key THEN val ELSE counts[k]] \in [E -> Nat]
  BY <1>1
<1> HIDE DEF E
<1> QED BY <1>2, <1>3 DEF Counts

\* What a line of a benchmark holds is a number.
LEMMA BenchLineTypes ==
  ASSUME NEW line \in BenchLines, line.is # "other"
  PROVE  line.val \in Nat
BY DEF BenchLines, Unmatched

\* A benchmark's line is of one of four kinds.
LEMMA BenchLineKinds ==
  ASSUME NEW line \in BenchLines
  PROVE  \/ line.is \in QmcpackLines
         \/ line.is \in {"Figure_of_Merit_(FOM_2)", "FOM", "Grind_Time_(nanoseconds)"}
         \/ line.is \in PhaseLines
         \/ line.is = "other"
BY DEF BenchLines, Unmatched

\* What a line of each kind does.
LEMMA BenchSteps ==
  ASSUME NEW info, NEW line \in BenchLines
  PROVE  /\ line.is \in QmcpackLines =>
              bench_line(info, line) =
                [info EXCEPT !.qmcpack = [k \in DOMAIN info.qmcpack \cup {line.is} |->
                                            IF k = line.is THEN line.val ELSE info.qmcpack[k]],
                             !.found_qmcpack = info.found_qmcpack + 1]
         /\ line.is \in PhaseLines => bench_line(info, line) = Phase(info, line.val)
         /\ line.is \in {"Figure_of_Merit_(FOM_2)", "FOM"} =>
              bench_line(info, line) = [info EXCEPT !.fom = Whole(line.val)]
         /\ line.is = "Grind_Time_(nanoseconds)" =>
              bench_line(info, line) = [info EXCEPT !.fom = Frac(1, line.val)]
         /\ line.is = "other" => bench_line(info, line) = info
BY DEF bench_line, QmcpackLines, PhaseLines

\* A phase more leaves what is known of the benchmark well typed.
LEMMA PhaseType ==
  ASSUME NEW info \in BenchInfo, NEW time \in Nat
  PROVE  Phase(info, time) \in BenchInfo
<1>1. PICK total, num_phases, max, min, first :
        /\ total = info.total + time
        /\ num_phases = info.num_phases + 1
        /\ max = IF time > info.max THEN time ELSE info.max
        /\ min = IF info.min = -1 \/ time < info.min THEN time ELSE info.min
        /\ first = IF info.num_phases = 0 THEN time ELSE info.first
  OBVIOUS
<1>2. /\ total \in Nat /\ num_phases \in Nat /\ max \in Nat
      /\ min \in Int /\ first \in Nat
  BY <1>1 DEF BenchInfo
<1>3. Phase(info, time) = [info EXCEPT !.total = total, !.num_phases = num_phases, !.max = max,
                                       !.min = min, !.first = first, !.last = time]
  BY <1>1 DEF Phase
<1> QED BY <1>2, <1>3 DEF BenchInfo

\* parse_bench goes through the lines one after the other.
LEMMA BenchFold ==
  ASSUME NEW lines \in Seq(BenchLines)
  PROVE  \E h \in [0 .. Len(lines) -> BenchInfo] :
           /\ FoldLeft(bench_line, init_bench_metrics, lines) = h[Len(lines)]
           /\ h[0] = init_bench_metrics
           /\ \A i \in 1 .. Len(lines) : h[i] = bench_line(h[i - 1], lines[i])
<1> DEFINE n == Len(lines)
    base == init_bench_metrics
    step == [p \in (1 .. n) \X BenchInfo |-> bench_line(p[2], lines[p[1]])]
    Solves(iter) ==
      iter = [s \in SUBSET DOMAIN lines |->
                IF s = {} THEN base ELSE bench_line(iter[s \ {Max(s)}], lines[Max(s)])]
    fold == CHOOSE iter : Solves(iter)
<1>1. n \in Nat /\ DOMAIN lines = 1 .. n /\ base \in BenchInfo
  BY EmptyCounts DEF BenchInfo, init_bench_metrics, Whole, Frac
<1>2. ASSUME NEW info \in BenchInfo, NEW i \in 1 .. n
      PROVE  bench_line(info, lines[i]) \in BenchInfo
  <2>1. PICK line \in BenchLines : line = lines[i] OBVIOUS
  <2>2. line.is # "other" => line.val \in Nat BY BenchLineTypes
  <2>3. CASE line.is \in QmcpackLines
    <3>1. line.val \in Nat BY <2>2, <2>3 DEF QmcpackLines
    <3>2. PICK counts : counts = [k \in DOMAIN info.qmcpack \cup {line.is} |->
                                    IF k = line.is THEN line.val ELSE info.qmcpack[k]]
      OBVIOUS
    <3>3. counts \in Counts
      <4>1. info.qmcpack \in Counts BY DEF BenchInfo
      <4> QED BY <4>1, <3>1, <3>2, <2>3, CountAdded
    <3>4. PICK found \in Nat : found = info.found_qmcpack + 1 BY DEF BenchInfo
    <3>5. bench_line(info, line) = [info EXCEPT !.qmcpack = counts, !.found_qmcpack = found]
      BY <2>3, <3>2, <3>4, BenchSteps
    <3>6. [info EXCEPT !.qmcpack = counts, !.found_qmcpack = found] \in BenchInfo
      BY <3>3, <3>4 DEF BenchInfo
    <3> QED BY <2>1, <3>5, <3>6
  <2>4. CASE line.is \in {"Figure_of_Merit_(FOM_2)", "FOM", "Grind_Time_(nanoseconds)"}
    <3>1. line.val \in Nat BY <2>2, <2>4
    <3>2. PICK val \in Nat : val = line.val BY <3>1
    <3>3. PICK fom : fom = IF line.is = "Grind_Time_(nanoseconds)" THEN Frac(1, val) ELSE Whole(val)
      OBVIOUS
    <3>4. fom \in [num : Nat, den : Nat] BY <3>3 DEF Frac, Whole
    <3>5. bench_line(info, line) = [info EXCEPT !.fom = fom] BY <2>4, <3>2, <3>3, BenchSteps
    <3>6. [info EXCEPT !.fom = fom] \in BenchInfo BY <3>4 DEF BenchInfo
    <3> QED BY <2>1, <3>5, <3>6
  <2>5. CASE line.is \in PhaseLines
    <3>1. line.val \in Nat BY <2>2, <2>5 DEF PhaseLines
    <3>2. bench_line(info, line) = Phase(info, line.val) BY <2>5, BenchSteps
    <3>3. PICK time \in Nat : time = line.val BY <3>1
    <3> QED BY <2>1, <3>2, <3>3, PhaseType
  <2>6. CASE line.is = "other" BY <2>1, <2>6, BenchSteps
  <2> QED BY <2>3, <2>4, <2>5, <2>6, BenchLineKinds
<1>3. step \in [(1 .. n) \X BenchInfo -> BenchInfo] BY <1>2
<1>4. FoldLeft(bench_line, init_bench_metrics, lines) = fold[DOMAIN lines]
  BY DEF FoldLeft, MapThenFoldSet
<1>5. \E iter : Solves(iter)
  <2>1. PICK iter \in [SUBSET (1 .. n) -> BenchInfo] : FoldsBy(iter, n, base, step)
    BY <1>1, <1>3, FoldExists
  <2>2. ASSUME NEW s \in SUBSET (1 .. n), s # {}
        PROVE  step[<<Max(s), iter[s \ {Max(s)}]>>] = bench_line(iter[s \ {Max(s)}], lines[Max(s)])
    <3>1. Max(s) \in 1 .. n BY <2>2, <1>1, LastPosition
    <3>2. iter[s \ {Max(s)}] \in BenchInfo BY <2>1
    <3> QED BY <3>1, <3>2
  <2>3. Solves(iter)
    <3> HIDE DEF step
    <3> QED BY <2>1, <2>2, <1>1 DEF FoldsBy
  <2> QED BY <2>3
<1>6. Solves(fold)
  <2> HIDE DEF Solves
  <2> QED BY <1>5
<1> HIDE DEF fold
<1>7. fold[{}] = base BY <1>6
<1>8. ASSUME NEW s \in SUBSET (1 .. n), s # {}, fold[s \ {Max(s)}] \in BenchInfo
      PROVE  fold[s] = step[<<Max(s), fold[s \ {Max(s)}]>>]
  <2>1. Max(s) \in 1 .. n BY <1>8, <1>1, LastPosition
  <2>2. fold[s] = bench_line(fold[s \ {Max(s)}], lines[Max(s)]) BY <1>8, <1>6, <1>1
  <2> QED BY <2>1, <2>2, <1>8
<1>9. PICK h : Runs(h, n, BenchInfo, base, step, fold[1 .. n])
  <2> HIDE DEF step, base, n
  <2>1. Folds(fold, n, BenchInfo, base, step) BY <1>7, <1>8 DEF Folds
  <2> QED BY <1>1, <1>3, <2>1, FoldRuns
<1>10. ASSUME NEW i \in 1 .. n PROVE h[i] = bench_line(h[i - 1], lines[i])
  <2>1. h[i - 1] \in BenchInfo BY <1>1, <1>9 DEF Runs
  <2> QED BY <2>1, <1>9 DEF Runs
<1>11. h \in [0 .. n -> BenchInfo] /\ h[0] = base /\ h[n] = FoldLeft(bench_line, init_bench_metrics, lines)
  BY <1>1, <1>4, <1>9 DEF Runs
<1> QED BY <1>10, <1>11

\* What info tells of the phases on the lines P, if phase i took f[i].
TellsOf(info, P, f) ==
  /\ info.total = SumFunctionOnSet(f, P)
  /\ info.num_phases = Cardinality(P)
  /\ info.max = 0 \/ \E i \in P : info.max = f[i]
  /\ \A i \in P : f[i] <= info.max
  /\ P = {} => info.min = -1
  /\ P # {} => /\ \E i \in P : info.min = f[i]
               /\ \A i \in P : info.min <= f[i]
               /\ \E i \in P : info.first = f[i] /\ \A j \in P : i <= j
               /\ \E i \in P : info.last = f[i] /\ \A j \in P : j <= i

\* A phase more, and what is kept is the phases' number, sum, least and greatest.
LEMMA PhaseTells ==
  ASSUME NEW D \in SUBSET Nat, IsFiniteSet(D), NEW f \in [D -> Nat],
         NEW P \in SUBSET D, NEW k \in D, \A i \in P : i < k,
         NEW info \in BenchInfo, TellsOf(info, P, f)
  PROVE  TellsOf(Phase(info, f[k]), P \cup {k}, f)
<1>1. PICK time \in Nat : time = f[k] OBVIOUS
<1>2. PICK after : after = Phase(info, time) OBVIOUS
<1>3. /\ after.total = info.total + time
      /\ after.num_phases = info.num_phases + 1
      /\ after.max = IF time > info.max THEN time ELSE info.max
      /\ after.min = IF info.min = -1 \/ time < info.min THEN time ELSE info.min
      /\ after.first = IF info.num_phases = 0 THEN time ELSE info.first
      /\ after.last = time
  BY <1>2 DEF Phase, BenchInfo
<1>4. IsFiniteSet(P) /\ IsFiniteSet(P \cup {k}) /\ P \cup {k} \in SUBSET D /\ k \notin P
  <2>1. P \cup {k} \in SUBSET D /\ k \in Nat OBVIOUS
  <2>2. k \notin P BY <2>1
  <2> QED BY <2>1, <2>2, FS_Subset
<1>5. after.total = SumFunctionOnSet(f, P \cup {k})
  <2>1. SumFunctionOnSet(f, P \cup {k}) = f[k] + SumFunctionOnSet(f, (P \cup {k}) \ {k})
    <3>1. \A i \in P \cup {k} : f[i] \in Int OBVIOUS
    <3>2. k \in P \cup {k} OBVIOUS
    <3> QED BY <1>4, <3>1, <3>2, SumWithout
  <2>2. (P \cup {k}) \ {k} = P BY <1>4
  <2>3. info.total = SumFunctionOnSet(f, P) /\ info.total \in Nat BY DEF TellsOf, BenchInfo
  <2>4. SumFunctionOnSet(f, P \cup {k}) = time + SumFunctionOnSet(f, P)
    BY <1>1, <2>1, <2>2
  <2>5. after.total = time + info.total BY <1>3, <2>3
  <2> QED BY <2>3, <2>4, <2>5
<1>6. after.num_phases = Cardinality(P \cup {k})
  <2>1. Cardinality(P \cup {k}) = Cardinality(P) + 1 BY <1>4, FS_AddElement
  <2> QED BY <1>3, <2>1 DEF TellsOf
<1>7. info.num_phases = 0 <=> P = {}
  <2>1. Cardinality(P) = 0 <=> P = {} BY <1>4, FS_EmptySet
  <2> QED BY <2>1 DEF TellsOf
<1>8. info.max \in Nat /\ info.min \in Int BY DEF BenchInfo
<1>9. /\ after.max = 0 \/ \E i \in P \cup {k} : after.max = f[i]
      /\ \A i \in P \cup {k} : f[i] <= after.max
  <2>1. \A i \in P : f[i] \in Nat /\ f[i] <= info.max BY DEF TellsOf
  <2>2. info.max = 0 \/ \E i \in P : info.max = f[i] BY DEF TellsOf
  <2>3. CASE time > info.max
    <3>1. after.max = f[k] BY <1>1, <1>3, <2>3
    <3>2. \A i \in P : f[i] <= time BY <1>8, <2>1, <2>3
    <3> QED BY <1>1, <3>1, <3>2
  <2>4. CASE ~ (time > info.max)
    <3>1. after.max = info.max /\ f[k] <= info.max BY <1>1, <1>3, <1>8, <2>4
    <3>2. after.max = 0 \/ \E i \in P : after.max = f[i] BY <2>2, <3>1
    <3> QED BY <2>1, <3>1, <3>2
  <2> QED BY <2>3, <2>4
<1>10. /\ \E i \in P \cup {k} : after.min = f[i]
       /\ \A i \in P \cup {k} : after.min <= f[i]
  <2>1. CASE P = {}
    <3>1. info.min = -1 BY <2>1 DEF TellsOf
    <3> QED BY <1>1, <1>3, <2>1, <3>1
  <2>2. CASE P # {}
    <3>1. (\E i \in P : info.min = f[i]) /\ \A i \in P : f[i] \in Nat /\ info.min <= f[i]
      BY <2>2 DEF TellsOf
    <3> QED BY <1>1, <1>3, <1>8, <3>1
  <2> QED BY <2>1, <2>2
<1>11. \E i \in P \cup {k} : after.first = f[i] /\ \A j \in P \cup {k} : i <= j
  <2>1. CASE P = {} BY <1>1, <1>3, <1>7, <2>1
  <2>2. CASE P # {}
    <3>1. PICK i \in P : info.first = f[i] /\ \A j \in P : i <= j BY <2>2 DEF TellsOf
    <3>2. i < k /\ i \in Nat /\ k \in Nat OBVIOUS
    <3> QED BY <1>3, <1>7, <2>2, <3>1, <3>2
  <2> QED BY <2>1, <2>2
<1>12. \E i \in P \cup {k} : after.last = f[i] /\ \A j \in P \cup {k} : j <= i
  <2>1. \A j \in P \cup {k} : j <= k
    <3>1. \A j \in P \cup {k} : j \in Nat OBVIOUS
    <3> QED BY <3>1
  <2> QED BY <1>1, <1>3, <2>1
<1> QED BY <1>1, <1>2, <1>5, <1>6, <1>9, <1>10, <1>11, <1>12 DEF TellsOf

\* After the last line, that holds of all the phases' lines.
LEMMA PhasesAreTold ==
  ASSUME NEW lines \in Seq(BenchLines), NEW f, f = [i \in PhasesIn(lines) |-> lines[i].val]
  PROVE  /\ IsFiniteSet(PhasesIn(lines)) /\ PhasesIn(lines) \in SUBSET Nat
         /\ f \in [PhasesIn(lines) -> Nat]
         /\ FoldLeft(bench_line, init_bench_metrics, lines) \in BenchInfo
         /\ TellsOf(FoldLeft(bench_line, init_bench_metrics, lines), PhasesIn(lines), f)
<1> DEFINE n == Len(lines)
    D == PhasesIn(lines)
    To(k) == {i \in 1 .. k : lines[i].is \in PhaseLines}
<1>1. PICK h \in [0 .. n -> BenchInfo] :
        /\ FoldLeft(bench_line, init_bench_metrics, lines) = h[n]
        /\ h[0] = init_bench_metrics
        /\ \A i \in 1 .. n : h[i] = bench_line(h[i - 1], lines[i])
  BY BenchFold
<1>2. n \in Nat /\ D = To(n)
  <2>1. DOMAIN lines = 1 .. n OBVIOUS
  <2> QED BY <2>1 DEF PhasesIn
<1>3. IsFiniteSet(D) /\ D \in SUBSET Nat
  <2>1. D \subseteq 1 .. n BY <1>2
  <2>2. IsFiniteSet(1 .. n) BY <1>2, FS_Interval
  <2> QED BY <2>1, <2>2, FS_Subset
<1>4. f \in [D -> Nat]
  <2>1. ASSUME NEW i \in D PROVE lines[i].val \in Nat
    <3>1. i \in 1 .. n /\ lines[i].is \in PhaseLines BY <1>2
    <3>2. PICK line \in BenchLines : line = lines[i] BY <3>1
    <3>3. line.is # "other" BY <3>1, <3>2 DEF PhaseLines
    <3> QED BY <3>2, <3>3, BenchLineTypes
  <2> HIDE DEF D
  <2> QED BY <2>1 DEF D
<1> HIDE DEF D
<1> DEFINE T == {k \in Nat : k <= n => TellsOf(h[k], To(k), f)}
<1>5. 0 \in T
  <2>1. To(0) = {} OBVIOUS
  <2>2. Cardinality({}) = 0 BY FS_EmptySet
  <2>3. SumFunctionOnSet(f, {}) = 0 BY SumOfNone
  <2>4. PICK init : init = init_bench_metrics OBVIOUS
  <2>5. init.total = 0 /\ init.num_phases = 0 /\ init.max = 0 /\ init.min = -1
    BY <2>4 DEF init_bench_metrics
  <2>6. TellsOf(init, {}, f) BY <2>2, <2>3, <2>5 DEF TellsOf
  <2> HIDE DEF To
  <2> QED BY <1>1, <2>1, <2>4, <2>6
<1>6. ASSUME NEW k \in Nat, k \in T PROVE k + 1 \in T
  <2> HIDE DEF To
  <2> SUFFICES ASSUME k + 1 <= n PROVE TellsOf(h[k + 1], To(k + 1), f)
    OBVIOUS
  <2>1. k + 1 \in 1 .. n /\ (k + 1) - 1 = k /\ k \in 0 .. n BY <1>2
  <2>2. h[k] \in BenchInfo /\ TellsOf(h[k], To(k), f) BY <1>6, <2>1
  <2> HIDE DEF T
  <2>3. PICK line \in BenchLines : line = lines[k + 1] BY <2>1
  <2>4. h[k + 1] = bench_line(h[k], line) BY <1>1, <2>1, <2>3
  <2>5. CASE line.is \in PhaseLines
    <3>1. k + 1 \in D /\ To(k) \in SUBSET D BY <1>2, <2>1, <2>3, <2>5 DEF To
    <3>2. To(k + 1) = To(k) \cup {k + 1}
      <4>1. \A i : i \in 1 .. k + 1 <=> i \in 1 .. k \/ i = k + 1 OBVIOUS
      <4> QED BY <4>1, <2>3, <2>5 DEF To
    <3>3. f[k + 1] = line.val
      <4> USE DEF D
      <4> QED BY <3>1, <2>3
    <3>4. h[k + 1] = Phase(h[k], f[k + 1])
      <4>1. bench_line(h[k], line) = Phase(h[k], line.val) BY <2>5, BenchSteps
      <4> QED BY <2>4, <3>3, <4>1
    <3>5. \A i \in To(k) : i < k + 1 BY DEF To
    <3>6. PICK m : m = k + 1 OBVIOUS
    <3>7. TellsOf(Phase(h[k], f[m]), To(k) \cup {m}, f)
      BY <1>3, <1>4, <2>2, <3>1, <3>5, <3>6, PhaseTells
    <3> QED BY <3>2, <3>4, <3>6, <3>7
  <2>6. CASE line.is \notin PhaseLines
    <3>1. To(k + 1) = To(k)
      <4>1. \A i : i \in 1 .. k + 1 <=> i \in 1 .. k \/ i = k + 1 OBVIOUS
      <4> QED BY <4>1, <2>3, <2>6 DEF To
    <3>2. PICK before : before = h[k] OBVIOUS
    <3>3. PICK after : after = h[k + 1] OBVIOUS
    <3>4. /\ after.total = before.total /\ after.num_phases = before.num_phases
          /\ after.max = before.max /\ after.min = before.min
          /\ after.first = before.first /\ after.last = before.last
      <4>1. before \in BenchInfo BY <2>2, <3>2
      <4>2. CASE line.is \in QmcpackLines
        <5>1. PICK counts : counts = [j \in DOMAIN before.qmcpack \cup {line.is} |->
                                        IF j = line.is THEN line.val ELSE before.qmcpack[j]]
          OBVIOUS
        <5>2. after = [before EXCEPT !.qmcpack = counts, !.found_qmcpack = before.found_qmcpack + 1]
          <6>1. after = bench_line(before, line) BY <2>4, <3>2, <3>3
          <6> QED BY <6>1, <4>2, <5>1, BenchSteps
        <5> QED BY <4>1, <5>2 DEF BenchInfo
      <4>3. CASE line.is \in {"Figure_of_Merit_(FOM_2)", "FOM"}
        <5>1. after = [before EXCEPT !.fom = Whole(line.val)]
          BY <2>4, <3>2, <3>3, <4>3, BenchSteps
        <5> QED BY <4>1, <5>1 DEF BenchInfo
      <4>4. CASE line.is = "Grind_Time_(nanoseconds)"
        <5>1. after = [before EXCEPT !.fom = Frac(1, line.val)]
          BY <2>4, <3>2, <3>3, <4>4, BenchSteps
        <5> QED BY <4>1, <5>1 DEF BenchInfo
      <4>5. CASE line.is = "other" BY <2>4, <3>2, <3>3, <4>5, BenchSteps
      <4> QED BY <2>6, <4>2, <4>3, <4>4, <4>5, BenchLineKinds
    <3>5. TellsOf(before, To(k), f) BY <2>2, <3>2
    <3>6. TellsOf(after, To(k), f) BY <3>4, <3>5, Zenon DEF TellsOf
    <3> QED BY <3>1, <3>3, <3>6
  <2> QED BY <2>5, <2>6
<1> HIDE DEF T
<1>7. n \in T BY <1>2, <1>5, <1>6, Inductive
<1>8. TellsOf(h[n], To(n), f) /\ h[n] \in BenchInfo BY <1>2, <1>7 DEF T
<1> HIDE DEF To
<1> QED BY <1>1, <1>2, <1>3, <1>4, <1>8 DEF D

\* Where QMCPACK's lines come once each, their counts are collected.
CountsTo(pos, k) == {q \in QmcpackLines : pos[q] <= k}

Collects(info, lines, pos, k) ==
  /\ DOMAIN info.qmcpack = CountsTo(pos, k)
  /\ \A q \in CountsTo(pos, k) : info.qmcpack[q] = lines[pos[q]].val
  /\ info.found_qmcpack = Cardinality(CountsTo(pos, k))

\* QMCPACK prints four kinds of lines.
LEMMA FourLines == IsFiniteSet(QmcpackLines) /\ Cardinality(QmcpackLines) = 4
<1>1. IsFiniteSet({}) /\ Cardinality({}) = 0 BY FS_EmptySet
<1>2. IsFiniteSet({"blocks"}) /\ Cardinality({"blocks"}) = 1 BY FS_Singleton
<1>3. IsFiniteSet({"blocks"} \cup {"steps"}) /\ Cardinality({"blocks"} \cup {"steps"}) = 1 + 1
  BY <1>2, FS_AddElement
<1>4. {"blocks"} \cup {"steps"} = {"blocks", "steps"} OBVIOUS
<1>5. /\ IsFiniteSet({"blocks", "steps"} \cup {"walkers/mpi"})
      /\ Cardinality({"blocks", "steps"} \cup {"walkers/mpi"}) = 2 + 1
  <2>1. IsFiniteSet({"blocks", "steps"}) /\ Cardinality({"blocks", "steps"}) = 2
    BY <1>3, <1>4
  <2>2. "walkers/mpi" \notin {"blocks", "steps"} OBVIOUS
  <2> QED BY <2>1, <2>2, FS_AddElement
<1>6. {"blocks", "steps"} \cup {"walkers/mpi"} = {"blocks", "steps", "walkers/mpi"} OBVIOUS
<1>7. /\ IsFiniteSet({"blocks", "steps", "walkers/mpi"} \cup {"QMC_Execution_time"})
      /\ Cardinality({"blocks", "steps", "walkers/mpi"} \cup {"QMC_Execution_time"}) = 3 + 1
  <2>1. /\ IsFiniteSet({"blocks", "steps", "walkers/mpi"})
        /\ Cardinality({"blocks", "steps", "walkers/mpi"}) = 3
    BY <1>5, <1>6
  <2>2. "QMC_Execution_time" \notin {"blocks", "steps", "walkers/mpi"} OBVIOUS
  <2> QED BY <2>1, <2>2, FS_AddElement
<1>8. {"blocks", "steps", "walkers/mpi"} \cup {"QMC_Execution_time"} = QmcpackLines
  BY DEF QmcpackLines
<1> QED BY <1>7, <1>8

\* With one line of each kind, each count is that of its line, and four are found.
LEMMA CountsAreCollected ==
  ASSUME NEW lines \in Seq(BenchLines), NEW pos \in [QmcpackLines -> 1 .. Len(lines)],
         \A q \in QmcpackLines : \A i \in 1 .. Len(lines) : lines[i].is = q <=> i = pos[q]
  PROVE  Collects(FoldLeft(bench_line, init_bench_metrics, lines), lines, pos, Len(lines))
<1> DEFINE n == Len(lines)
<1>1. PICK h \in [0 .. n -> BenchInfo] :
        /\ FoldLeft(bench_line, init_bench_metrics, lines) = h[n]
        /\ h[0] = init_bench_metrics
        /\ \A i \in 1 .. n : h[i] = bench_line(h[i - 1], lines[i])
  BY BenchFold
<1>2. n \in Nat OBVIOUS
<1> DEFINE T == {k \in Nat : k <= n => Collects(h[k], lines, pos, k)}
<1>3. 0 \in T
  <2>1. CountsTo(pos, 0) = {} BY DEF CountsTo
  <2>2. Cardinality({}) = 0 BY FS_EmptySet
  <2>3. PICK init : init = init_bench_metrics OBVIOUS
  <2>4. DOMAIN init.qmcpack = {} /\ init.found_qmcpack = 0
    BY <2>3 DEF init_bench_metrics
  <2>5. Collects(init, lines, pos, 0) BY <2>1, <2>2, <2>4 DEF Collects
  <2> QED BY <1>1, <2>3, <2>5
<1>4. ASSUME NEW k \in Nat, k \in T PROVE k + 1 \in T
  <2> SUFFICES ASSUME k + 1 <= n PROVE Collects(h[k + 1], lines, pos, k + 1)
    OBVIOUS
  <2>1. k + 1 \in 1 .. n /\ (k + 1) - 1 = k /\ k \in 0 .. n BY <1>2
  <2>2. h[k] \in BenchInfo /\ Collects(h[k], lines, pos, k) BY <1>4, <2>1
  <2> HIDE DEF T
  <2>3. PICK line \in BenchLines : line = lines[k + 1] BY <2>1
  <2>4. PICK before, after : before = h[k] /\ after = h[k + 1] OBVIOUS
  <2>5. after = bench_line(before, line) BY <1>1, <2>1, <2>3, <2>4
  <2>6. before \in BenchInfo /\ Collects(before, lines, pos, k) BY <2>2, <2>4
  <2>7. CASE line.is \in QmcpackLines
    <3>1. pos[line.is] = k + 1 BY <2>1, <2>3, <2>7
    <3>2. \A q \in QmcpackLines : pos[q] = k + 1 => q = line.is
      <4>1. \A q \in QmcpackLines : pos[q] = k + 1 => lines[k + 1].is = q BY <2>1
      <4> QED BY <2>3, <4>1
    <3>3. CountsTo(pos, k + 1) = CountsTo(pos, k) \cup {line.is}
      <4>1. \A q \in QmcpackLines : pos[q] <= k + 1 <=> pos[q] <= k \/ q = line.is
        <5> TAKE q \in QmcpackLines
        <5>1. pos[q] \in Nat OBVIOUS
        <5> QED BY <5>1, <3>1, <3>2
      <4> QED BY <4>1, <2>7 DEF CountsTo
    <3>4. line.is \notin CountsTo(pos, k)
      <4>1. ~ (k + 1 <= k) OBVIOUS
      <4> QED BY <3>1, <4>1 DEF CountsTo
    <3>5. IsFiniteSet(CountsTo(pos, k))
      <4>1. CountsTo(pos, k) \subseteq QmcpackLines BY DEF CountsTo
      <4> QED BY <4>1, FourLines, FS_Subset
    <3>6. Cardinality(CountsTo(pos, k + 1)) = Cardinality(CountsTo(pos, k)) + 1
      BY <3>3, <3>4, <3>5, FS_AddElement
    <3>7. PICK counts : counts = [j \in DOMAIN before.qmcpack \cup {line.is} |->
                                    IF j = line.is THEN line.val ELSE before.qmcpack[j]]
      OBVIOUS
    <3>8. after = [before EXCEPT !.qmcpack = counts, !.found_qmcpack = before.found_qmcpack + 1]
      BY <2>5, <2>7, <3>7, BenchSteps
    <3>9. after.qmcpack = counts /\ after.found_qmcpack = before.found_qmcpack + 1
      BY <2>6, <3>8 DEF BenchInfo
    <3>10. DOMAIN counts = CountsTo(pos, k + 1) BY <2>6, <3>3, <3>7 DEF Collects
    <3>11. ASSUME NEW q \in CountsTo(pos, k + 1) PROVE counts[q] = lines[pos[q]].val
      <4>1. CASE q = line.is
        <5>1. counts[q] = line.val BY <4>1, <3>7
        <5> QED BY <5>1, <4>1, <3>1, <2>3
      <4>2. CASE q # line.is
        <5>1. q \in CountsTo(pos, k) BY <4>2, <3>3
        <5>2. counts[q] = before.qmcpack[q] BY <4>2, <5>1, <3>7, <2>6 DEF Collects
        <5> QED BY <5>1, <5>2, <2>6 DEF Collects
      <4> QED BY <4>1, <4>2
    <3>12. Collects(after, lines, pos, k + 1)
      <4>1. after.found_qmcpack = Cardinality(CountsTo(pos, k + 1))
        BY <2>6, <3>6, <3>9 DEF Collects
      <4> QED BY <3>9, <3>10, <3>11, <4>1 DEF Collects
    <3> QED BY <2>4, <3>12
  <2>8. CASE line.is \notin QmcpackLines
    <3>1. CountsTo(pos, k + 1) = CountsTo(pos, k)
      <4>1. \A q \in QmcpackLines : pos[q] # k + 1 BY <2>1, <2>3, <2>8
      <4>2. \A q \in QmcpackLines : pos[q] <= k + 1 <=> pos[q] <= k
        <5> TAKE q \in QmcpackLines
        <5>1. pos[q] \in Nat OBVIOUS
        <5> QED BY <5>1, <4>1
      <4> QED BY <4>2 DEF CountsTo
    <3>2. after.qmcpack = before.qmcpack /\ after.found_qmcpack = before.found_qmcpack
      <4>1. CASE line.is \in PhaseLines
        <5>1. after = Phase(before, line.val) BY <2>5, <4>1, BenchSteps
        <5> QED BY <2>6, <5>1 DEF Phase, BenchInfo
      <4>2. CASE line.is \in {"Figure_of_Merit_(FOM_2)", "FOM"}
        <5>1. after = [before EXCEPT !.fom = Whole(line.val)] BY <2>5, <4>2, BenchSteps
        <5> QED BY <2>6, <5>1 DEF BenchInfo
      <4>3. CASE line.is = "Grind_Time_(nanoseconds)"
        <5>1. after = [before EXCEPT !.fom = Frac(1, line.val)] BY <2>5, <4>3, BenchSteps
        <5> QED BY <2>6, <5>1 DEF BenchInfo
      <4>4. CASE line.is = "other" BY <2>5, <4>4, BenchSteps
      <4> QED BY <2>8, <4>1, <4>2, <4>3, <4>4, BenchLineKinds
    <3>3. Collects(after, lines, pos, k + 1) BY <2>6, <3>1, <3>2, Zenon DEF Collects
    <3> QED BY <2>4, <3>3
  <2> QED BY <2>7, <2>8
<1> HIDE DEF T
<1>5. n \in T BY <1>2, <1>3, <1>4, Inductive
<1> QED BY <1>1, <1>2, <1>5 DEF T

\* QMCPACK's figure of merit is its product, wrapped as C does, by the time.
LEMMA FomMeans ==
  ASSUME NEW lines \in Seq(BenchLines), OneOfEach(lines), NEW value,
         value = parse_bench(lines).fom
  PROVE  value.num * CountIn(lines, "QMC_Execution_time") = value.den *
           ((CountIn(lines, "blocks") * CountIn(lines, "steps") * CountIn(lines, "walkers/mpi"))
              % UnsignedRange)
<1> DEFINE n == Len(lines)
<1>1. n \in Nat /\ DOMAIN lines = 1 .. n OBVIOUS
<1>2. PICK pos : pos = [q \in QmcpackLines |-> CHOOSE i \in DOMAIN lines : lines[i].is = q]
  OBVIOUS
<1>3. ASSUME NEW q \in QmcpackLines
      PROVE  /\ pos[q] \in 1 .. n
             /\ \A i \in 1 .. n : lines[i].is = q <=> i = pos[q]
  <2>1. Cardinality({i \in DOMAIN lines : lines[i].is = q}) = 1 BY DEF OneOfEach
  <2>2. IsFiniteSet({i \in DOMAIN lines : lines[i].is = q})
    <3>1. IsFiniteSet(1 .. n) BY <1>1, FS_Interval
    <3>2. {i \in DOMAIN lines : lines[i].is = q} \subseteq 1 .. n BY <1>1
    <3> QED BY <3>1, <3>2, FS_Subset
  <2>3. PICK x : {i \in DOMAIN lines : lines[i].is = q} = {x} BY <2>1, <2>2, FS_Singleton
  <2>4. x \in DOMAIN lines /\ lines[x].is = q /\ \A i \in DOMAIN lines : lines[i].is = q => i = x
    BY <2>3
  <2>5. pos[q] = x BY <1>2, <2>4
  <2> QED BY <2>4, <2>5, <1>1
<1>4. pos \in [QmcpackLines -> 1 .. n] BY <1>2, <1>3
<1>5. PICK info : info = FoldLeft(bench_line, init_bench_metrics, lines) OBVIOUS
<1>6. Collects(info, lines, pos, n)
  <2>1. \A q \in QmcpackLines : \A i \in 1 .. n : lines[i].is = q <=> i = pos[q] BY <1>3
  <2> QED BY <1>4, <1>5, <2>1, CountsAreCollected
<1>7. CountsTo(pos, n) = QmcpackLines BY <1>3 DEF CountsTo
<1>8. info.found_qmcpack = 4 /\ DOMAIN info.qmcpack = QmcpackLines
  BY <1>6, <1>7, FourLines DEF Collects
<1>9. \A q \in QmcpackLines : info.qmcpack[q] = CountIn(lines, q) /\ CountIn(lines, q) \in Nat
  <2> TAKE q \in QmcpackLines
  <2>1. CountIn(lines, q) = lines[pos[q]].val BY <1>2 DEF CountIn
  <2>2. PICK line \in BenchLines : line = lines[pos[q]] BY <1>3
  <2>3. line.is = q BY <1>3, <2>2
  <2>4. line.val \in Nat
    <3>1. line.is # "other" BY <2>3 DEF QmcpackLines
    <3> QED BY <3>1, BenchLineTypes
  <2>5. q \in CountsTo(pos, n) BY <1>7
  <2> QED BY <1>6, <2>1, <2>2, <2>4, <2>5 DEF Collects
<1>10. value = qmcpack_fom(info.qmcpack)
  <2>1. info \in BenchInfo
    <3>1. PICK f : f = [i \in PhasesIn(lines) |-> lines[i].val] OBVIOUS
    <3> QED BY <1>5, <3>1, PhasesAreTold
  <2>2. parse_bench(lines) = [info EXCEPT !.fom = qmcpack_fom(info.qmcpack)]
    BY <1>5, <1>8 DEF parse_bench
  <2> QED BY <2>1, <2>2 DEF BenchInfo
<1>11. PICK b, s, w, t : /\ b = CountIn(lines, "blocks") /\ s = CountIn(lines, "steps")
                         /\ w = CountIn(lines, "walkers/mpi")
                         /\ t = CountIn(lines, "QMC_Execution_time")
  OBVIOUS
<1>12. /\ b \in Nat /\ s \in Nat /\ w \in Nat /\ t \in Nat
       /\ info.qmcpack["blocks"] = b /\ info.qmcpack["steps"] = s
       /\ info.qmcpack["walkers/mpi"] = w /\ info.qmcpack["QMC_Execution_time"] = t
  BY <1>9, <1>11 DEF QmcpackLines
<1>13. PICK m : m = (b * s * w) % UnsignedRange OBVIOUS
<1>14. m \in Nat
  <2>1. UnsignedRange \in Nat \ {0} BY StatAssumption, Zenon
  <2>2. PICK p \in Nat : p = b * s * w
    <3>1. \A x, y \in Nat : x * y \in Nat OBVIOUS
    <3>2. b * s \in Nat BY <1>12, <3>1
    <3>3. b * s * w \in Nat BY <1>12, <3>1, <3>2
    <3> QED BY <3>3
  <2> QED BY <1>13, <2>1, <2>2
<1>15. CASE t = 0
  <2>1. value = Garbage BY <1>10, <1>12, <1>15 DEF qmcpack_fom
  <2>2. value.num * t = 0 /\ value.den * m = 0 BY <1>14, <1>15, <2>1 DEF Garbage
  <2> QED BY <1>11, <1>13, <2>2
<1>16. CASE t # 0
  <2>1. value = Frac(m, t) BY <1>8, <1>10, <1>12, <1>13, <1>16 DEF qmcpack_fom
  <2>2. value.num = m /\ value.den = t BY <2>1 DEF Frac
  <2>3. m * t = t * m BY <1>12, <1>14
  <2> QED BY <1>11, <1>13, <2>2, <2>3
<1> QED BY <1>15, <1>16

\* The metrics of benchmarks are what their names say of the output's lines.
LEMMA BenchMeans ==
  ASSUME NEW lines \in Seq(BenchLines), NEW node, NEW metric \in BenchMetrics
  PROVE  Means(metric, lines, node, set_bench_metric(metric, parse_bench(lines)))
<1> DEFINE P == PhasesIn(lines)
<1>1. PICK f : f = [i \in P |-> lines[i].val] OBVIOUS
<1>2. PICK info : info = FoldLeft(bench_line, init_bench_metrics, lines) OBVIOUS
<1>3. /\ IsFiniteSet(P) /\ P \in SUBSET Nat /\ f \in [P -> Nat]
      /\ info \in BenchInfo /\ TellsOf(info, P, f)
  BY <1>1, <1>2, PhasesAreTold
<1>4. PICK parsed : parsed = parse_bench(lines) OBVIOUS
<1>5. /\ parsed.total = info.total /\ parsed.num_phases = info.num_phases
      /\ parsed.max = info.max /\ parsed.min = info.min
      /\ parsed.first = info.first /\ parsed.last = info.last
  <2>1. parsed = IF info.found_qmcpack = 4
                 THEN [info EXCEPT !.fom = qmcpack_fom(info.qmcpack)] ELSE info
    BY <1>2, <1>4 DEF parse_bench
  <2>2. CASE info.found_qmcpack = 4
    <3>1. parsed = [info EXCEPT !.fom = qmcpack_fom(info.qmcpack)] BY <2>1, <2>2
    <3> QED BY <1>3, <3>1 DEF BenchInfo
  <2>3. CASE info.found_qmcpack # 4 BY <2>1, <2>3
  <2> QED BY <2>2, <2>3
<1>6. PICK value : value = set_bench_metric(metric, parsed) OBVIOUS
<1>7. TotalTime(lines) = info.total
  BY <1>1, <1>3 DEF TotalTime, TellsOf
<1>8. TimesIn(lines) = {f[i] : i \in P} BY <1>1 DEF TimesIn
<1>9. metric = "total_phase_time" => value = Whole(TotalTime(lines))
  BY <1>5, <1>6, <1>7 DEF set_bench_metric
<1>10. ASSUME P # {}
       PROVE  /\ Max(TimesIn(lines)) = info.max /\ Min(TimesIn(lines)) = info.min
              /\ lines[Min(P)].val = info.first /\ lines[Max(P)].val = info.last
  <2>1. /\ TimesIn(lines) \in SUBSET Nat /\ TimesIn(lines) # {} /\ IsFiniteSet(TimesIn(lines))
    <3> HIDE DEF P
    <3>1. f \in Surjection(P, TimesIn(lines)) BY <1>3, <1>8 DEF Surjection
    <3>2. IsFiniteSet(TimesIn(lines)) BY <1>3, <3>1, FS_Surjection
    <3> QED BY <1>3, <1>8, <1>10, <3>2
  <2>2. /\ Max(TimesIn(lines)) \in TimesIn(lines)
        /\ \A x \in TimesIn(lines) : x <= Max(TimesIn(lines))
        /\ Min(TimesIn(lines)) \in TimesIn(lines)
        /\ \A x \in TimesIn(lines) : Min(TimesIn(lines)) <= x
    <3>1. TimesIn(lines) \in SUBSET Int BY <2>1
    <3> QED BY <2>1, <3>1, Extremes
  <2>3. Max(P) \in P /\ (\A x \in P : x <= Max(P)) /\ Min(P) \in P /\ \A x \in P : Min(P) <= x
    <3> HIDE DEF P
    <3>1. P \in SUBSET Int BY <1>3
    <3> QED BY <1>3, <1>10, <3>1, Extremes
  <2> HIDE DEF P
  <2>4. Max(TimesIn(lines)) = info.max
    <3>1. PICK max : max = Max(TimesIn(lines)) OBVIOUS
    <3>2. PICK i \in P : max = f[i] BY <1>8, <2>2, <3>1
    <3>3. \A j \in P : f[j] <= max /\ f[j] \in Nat BY <1>3, <1>8, <2>2, <3>1
    <3>4. max <= info.max /\ max \in Nat BY <1>3, <3>2, <3>3 DEF TellsOf
    <3>5. info.max <= max
      <4>1. CASE info.max = 0 BY <3>4, <4>1
      <4>2. CASE info.max # 0
        <5>1. PICK j \in P : info.max = f[j] BY <1>3, <4>2 DEF TellsOf
        <5> QED BY <5>1, <3>3
      <4> QED BY <4>1, <4>2
    <3>6. info.max \in Nat BY <1>3 DEF BenchInfo
    <3> QED BY <3>1, <3>4, <3>5, <3>6
  <2>5. Min(TimesIn(lines)) = info.min
    <3>1. PICK min : min = Min(TimesIn(lines)) OBVIOUS
    <3>2. PICK i \in P : min = f[i] BY <1>8, <2>2, <3>1
    <3>3. \A j \in P : min <= f[j] /\ f[j] \in Nat BY <1>3, <1>8, <2>2, <3>1
    <3>4. PICK j \in P : info.min = f[j] BY <1>3, <1>10 DEF TellsOf
    <3>5. info.min <= min BY <1>3, <1>10, <3>2 DEF TellsOf
    <3> QED BY <3>1, <3>2, <3>3, <3>4, <3>5
  <2>6. lines[Min(P)].val = info.first
    <3>1. PICK i \in P : info.first = f[i] /\ \A j \in P : i <= j BY <1>3, <1>10 DEF TellsOf
    <3>2. i = Min(P) BY <1>3, <2>3, <3>1
    <3> QED BY <1>1, <3>1, <3>2
  <2>7. lines[Max(P)].val = info.last
    <3>1. PICK i \in P : info.last = f[i] /\ \A j \in P : j <= i BY <1>3, <1>10 DEF TellsOf
    <3>2. i = Max(P)
      <4>1. Max(P) <= i /\ i <= Max(P) BY <2>3, <3>1
      <4>2. i \in Nat /\ Max(P) \in Nat BY <1>3, <2>3
      <4> QED BY <4>1, <4>2
    <3> QED BY <1>1, <3>1, <3>2
  <2> QED BY <2>4, <2>5, <2>6, <2>7
<1>11. metric = "avg_phase_time" =>
         value.num * Cardinality(P) = TotalTime(lines) * value.den
  <2> SUFFICES ASSUME metric = "avg_phase_time"
               PROVE  value.num * Cardinality(P) = TotalTime(lines) * value.den
    OBVIOUS
  <2>1. PICK total, number : total = info.total /\ number = info.num_phases OBVIOUS
  <2>2. total \in Nat /\ number \in Nat BY <1>3, <2>1 DEF BenchInfo
  <2>3. Cardinality(P) = number BY <1>3, <2>1 DEF TellsOf
  <2>4. value = IF total = 0 THEN Whole(0) ELSE Frac(total, number)
    BY <1>5, <1>6, <2>1 DEF set_bench_metric
  <2>5. value.num * number = total * value.den
    <3>1. CASE total = 0
      <4>1. value.num = 0 /\ value.den = 1 BY <2>4, <3>1 DEF Whole, Frac
      <4> QED BY <2>2, <3>1, <4>1
    <3>2. CASE total # 0
      <4>1. value.num = total /\ value.den = number BY <2>4, <3>2 DEF Frac
      <4> QED BY <4>1
    <3> QED BY <3>1, <3>2
  <2> QED BY <1>7, <2>1, <2>3, <2>5
<1>12. metric = "fom" /\ OneOfEach(lines) =>
         value.num * CountIn(lines, "QMC_Execution_time") = value.den *
           ((CountIn(lines, "blocks") * CountIn(lines, "steps") * CountIn(lines, "walkers/mpi"))
              % UnsignedRange)
  <2> SUFFICES ASSUME metric = "fom", OneOfEach(lines)
               PROVE  value.num * CountIn(lines, "QMC_Execution_time") = value.den *
                        ((CountIn(lines, "blocks") * CountIn(lines, "steps")
                            * CountIn(lines, "walkers/mpi")) % UnsignedRange)
    OBVIOUS
  <2>1. value = parse_bench(lines).fom BY <1>4, <1>6 DEF set_bench_metric
  <2> QED BY <2>1, FomMeans
<1> HIDE DEF P
<1>13. P # {} =>
         /\ metric \in {"max_phase_time", "graph_max_phase_time"} =>
              value = Whole(Max(TimesIn(lines)))
         /\ metric \in {"min_phase_time", "graph_min_phase_time"} =>
              value = Whole(Min(TimesIn(lines)))
         /\ metric \in {"first_phase_time", "graph_first_phase_time"} =>
              value = Whole(lines[Min(P)].val)
         /\ metric \in {"last_phase_time", "graph_last_phase_time"} =>
              value = Whole(lines[Max(P)].val)
  <2>1. /\ metric \in {"max_phase_time", "graph_max_phase_time"} => value = Whole(info.max)
        /\ metric \in {"min_phase_time", "graph_min_phase_time"} => value = Whole(info.min)
        /\ metric \in {"first_phase_time", "graph_first_phase_time"} => value = Whole(info.first)
        /\ metric \in {"last_phase_time", "graph_last_phase_time"} => value = Whole(info.last)
    BY <1>5, <1>6 DEF set_bench_metric
  <2> QED BY <1>10, <2>1
<1>14. metric \in BenchMetrics OBVIOUS
<1>15. Means(metric, lines, node, value)
  BY <1>9, <1>11, <1>12, <1>13, <1>14, Zenon DEF Means, BenchMetrics, P
<1> QED BY <1>4, <1>6, <1>15

-----------------------------------------------------------------------------
(* What parse_metrics returns is what the metric means.                    *)

\* Whatever the metric, what the program takes from a file is what its name says.
LEMMA MetricMeans ==
  ASSUME NEW metric \in Metrics \ SicmGraphs, NEW file, IsFileOf(metric, file), NEW node \in Nat
  PROVE  Means(metric, file, node, parse_metrics(metric, file, node))
<1>1. CASE metric \in GnuTimeMetrics
  <2>1. file \in Seq(GnuTimeLines) BY <1>1 DEF IsFileOf
  <2>2. parse_metrics(metric, file, node) = set_gnu_time_metric(metric, parse_gnu_time(file))
    BY <1>1 DEF parse_metrics, GnuTimeMetrics, NumastatMetrics, SicmMetrics, SicmGraphs,
                OnlineMetrics, ProfMetrics, MemreserveMetrics, BenchMetrics
  <2> QED BY <1>1, <2>1, <2>2, TimeMeans
<1>2. CASE metric \in NumastatMetrics
  <2>1. file \in Seq(NumastatLines) /\ SameNodes(file) BY <1>2 DEF IsFileOf
  <2>2. parse_metrics(metric, file, node) = set_numastat_metric(metric, file, node)
    BY <1>2 DEF parse_metrics, GnuTimeMetrics, NumastatMetrics, SicmMetrics, SicmGraphs,
                OnlineMetrics, ProfMetrics, MemreserveMetrics, BenchMetrics
  <2> QED BY <1>2, <2>1, <2>2, MemFreeMeans
<1>3. CASE metric \in SicmMetrics
  <2>1. metric \in OnlineMetrics \cup ProfMetrics BY <1>3 DEF SicmMetrics
  <2>2. \A value : Means(metric, file, node, value)
    BY <2>1 DEF Means, OnlineMetrics, ProfMetrics, BenchMetrics
  <2> QED BY <2>2
<1>4. CASE metric \in MemreserveMetrics
  <2>1. file \in Seq(MemreserveLines) BY <1>4 DEF IsFileOf
  <2>2. parse_metrics(metric, file, node) = set_memreserve_metric(parse_memreserve(file))
    BY <1>4 DEF parse_metrics, GnuTimeMetrics, NumastatMetrics, SicmMetrics, SicmGraphs,
                OnlineMetrics, ProfMetrics, MemreserveMetrics, BenchMetrics
  <2>3. metric = "num_reserved_bytes" BY <1>4 DEF MemreserveMetrics
  <2> QED BY <2>1, <2>2, <2>3, ReservedMeans
<1>5. CASE metric \in BenchMetrics
  <2>1. file \in Seq(BenchLines) BY <1>5 DEF IsFileOf
  <2>2. parse_metrics(metric, file, node) = set_bench_metric(metric, parse_bench(file))
    BY <1>5 DEF parse_metrics, GnuTimeMetrics, NumastatMetrics, SicmMetrics, SicmGraphs,
                OnlineMetrics, ProfMetrics, MemreserveMetrics, BenchMetrics
  <2> QED BY <1>5, <2>1, <2>2, BenchMeans
<1> QED BY <1>1, <1>2, <1>3, <1>4, <1>5 DEF Metrics

-----------------------------------------------------------------------------
(* The bag of the values of a cell.                                        *)

IsBag(bag) == IsFiniteSet(DOMAIN bag) /\ bag \in [DOMAIN bag -> Nat]

\* An empty bag has no values.
LEMMA NoValues == IsBag(EmptyBag) /\ BagToSet(EmptyBag) = {} /\ ValuesIn(EmptyBag) = 0
<1>1. EmptyBag \in [{} -> Nat] /\ DOMAIN EmptyBag = {} BY DEF EmptyBag, SetToBag
<1> QED BY <1>1, FS_EmptySet, SumOfNone DEF IsBag, BagToSet, ValuesIn

\* A value added to a bag is among its values, of which there is one more.
LEMMA OneMoreValue ==
  ASSUME NEW bag, IsBag(bag), NEW value, NEW sum, sum = bag (+) SetToBag({value})
  PROVE  /\ IsBag(sum)
         /\ BagToSet(sum) = BagToSet(bag) \cup {value}
         /\ ValuesIn(sum) = ValuesIn(bag) + 1 /\ ValuesIn(bag) \in Nat
<1> DEFINE D == DOMAIN bag
    E == D \cup {value}
<1>1. sum = [e \in E |-> (IF e \in D THEN bag[e] ELSE 0) + (IF e = value THEN 1 ELSE 0)]
  BY DEF (+), SetToBag
<1>2. IsFiniteSet(D) /\ IsFiniteSet(E) /\ \A e \in D : bag[e] \in Nat
  BY FS_AddElement DEF IsBag
<1>3. sum \in [E -> Nat]
  <2>1. \A e \in E : (IF e \in D THEN bag[e] ELSE 0) + (IF e = value THEN 1 ELSE 0) \in Nat
    BY <1>2
  <2> HIDE DEF D, E
  <2> QED BY <1>1, <2>1
<1>4. DOMAIN sum = E BY <1>1
<1>5. ValuesIn(sum) = sum[value] + SumFunctionOnSet(sum, E \ {value})
  <2>1. \A e \in E : sum[e] \in Int BY <1>3
  <2>2. value \in E OBVIOUS
  <2> HIDE DEF E
  <2>3. SumFunctionOnSet(sum, E) = sum[value] + SumFunctionOnSet(sum, E \ {value})
    BY <1>2, <2>1, <2>2, SumWithout
  <2> QED BY <1>4, <2>3 DEF ValuesIn, BagToSet
<1>6. SumFunctionOnSet(sum, E \ {value}) = SumFunctionOnSet(bag, D \ {value})
  <2>1. E \ {value} = D \ {value} OBVIOUS
  <2>2. IsFiniteSet(D \ {value}) BY <1>2, FS_Subset
  <2>3. \A e \in D \ {value} : bag[e] \in Int /\ sum[e] = bag[e] BY <1>1, <1>2
  <2> HIDE DEF D, E
  <2> QED BY <2>1, <2>2, <2>3, SumOfSameValues
<1>7. ValuesIn(bag) \in Nat
  <2>1. D \in SUBSET D OBVIOUS
  <2> QED BY <1>2, <2>1, SumGrows DEF ValuesIn, BagToSet
<1>8. ValuesIn(sum) = ValuesIn(bag) + 1
  <2>1. CASE value \in D
    <3>1. ValuesIn(bag) = bag[value] + SumFunctionOnSet(bag, D \ {value})
      <4>1. \A e \in D : bag[e] \in Int BY <1>2
      <4> QED BY <1>2, <2>1, <4>1, SumWithout DEF ValuesIn, BagToSet
    <3>2. sum[value] = bag[value] + 1 /\ bag[value] \in Nat BY <1>1, <1>2, <2>1
    <3>3. SumFunctionOnSet(bag, D \ {value}) \in Int
      <4>1. IsFiniteSet(D \ {value}) BY <1>2, FS_Subset
      <4>2. \A e \in D \ {value} : bag[e] \in Int BY <1>2
      <4> QED BY <4>1, <4>2, SumIsInt
    <3>4. PICK rest \in Int : rest = SumFunctionOnSet(bag, D \ {value}) BY <3>3
    <3>5. ValuesIn(sum) = (bag[value] + 1) + rest BY <1>5, <1>6, <3>2, <3>4
    <3>6. ValuesIn(bag) = bag[value] + rest BY <3>1, <3>4
    <3> QED BY <3>2, <3>5, <3>6
  <2>2. CASE value \notin D
    <3>1. D \ {value} = D BY <2>2
    <3>2. sum[value] = 1 BY <1>1, <2>2
    <3>3. ValuesIn(bag) = SumFunctionOnSet(bag, D \ {value}) BY <3>1 DEF ValuesIn, BagToSet
    <3> QED BY <1>5, <1>6, <1>7, <3>2, <3>3
  <2> QED BY <2>1, <2>2
<1> QED BY <1>2, <1>3, <1>4, <1>7, <1>8 DEF IsBag, BagToSet

-----------------------------------------------------------------------------
(* The invariant: how many cells there are, what they hold, and what has    *)
(* been drawn.                                                              *)

\* The iterations that have a file.
Sources ==
  UNION {[config : {k}, iter : {i \in DOMAIN Directory[k] : Directory[k][i] # Missing}]
           : k \in DOMAIN Directory}

\* What the program takes from the file of an iteration.
ValueOf(c, file) ==
  IF c.metric \in Metrics \ SicmGraphs THEN parse_metrics(c.metric, file, c.node) ELSE Garbage

AllValues == {ValueOf(cmd, Profile(s)) : s \in Sources}
Cells == UNION {[D -> Nat] : D \in SUBSET AllValues}

\* The bag has the values of these iterations of the configuration.
Holds(c, directory, bag, k, iterations) ==
  /\ IsBag(bag)
  /\ BagToSet(bag) = {ValueOf(c, directory[k][i]) : i \in iterations}
  /\ ValuesIn(bag) = Cardinality(iterations)
  /\ iterations # {} => c.metric \in Metrics
  /\ \A i \in iterations : directory[k][i] # Missing

HoldsAll(c, directory, bag, k) ==
  k \in DOMAIN directory /\ Holds(c, directory, bag, k, DOMAIN directory[k])

\* How many cells of benchmark b there are while cell [at, n] is computed.
CellsOf(b, at, n, all) ==
  CASE b < at -> all
    [] b = at -> n - 1
    [] OTHER  -> 0

Pictures ==
  UNION {[for : Sources, of : {o}, title : {"unset", "set", "freed"},
          room : {ArgsRoom}, length : {ArgsLength},
          tables : {Tables(cmd.metric, Profile(o), site) :
                      site \in {a \in SiteArguments : Drawable(cmd.metric, Profile(o), a)}}]
           : o \in Sources}

Typed ==
  /\ cmd \in Commands /\ tree \in TreesOf(cmd)
  /\ bench \in 1..Len(cmd.benches) + 1 /\ config \in 1..Len(cmd.configs) + 1
  /\ geomean \in Cells
  /\ results \in [1..Len(cmd.benches) -> Seq(Cells)]
  /\ graph_title \in {"unset", "set", "freed"}
  /\ app_prof \in Sources \cup {None}
  /\ printed \in BOOLEAN

\* Where the program is.
Control ==
  /\ pc \in {"options", "single", "opendir", "readdir", "print", "graph",
             "done", "exited", "crashed"}
  /\ pc = "single" => cmd.single
  /\ pc \in {"opendir", "readdir", "print", "graph"} => ~cmd.single
  /\ pc \in {"options", "single"} => bench = 1 /\ config = 1
  /\ pc \in {"opendir", "readdir"} =>
       bench \in 1..Len(cmd.benches) /\ config \in 1..Len(cmd.configs)
  /\ pc = "graph" => cmd.metric \in MultiConfigGraphs

\* The cells so far, each of which holds the values of all iterations.
Filled ==
  \A b \in DOMAIN results :
    /\ Len(results[b]) <= Len(cmd.configs)
    /\ pc \in {"options", "single", "opendir", "readdir"} =>
         Len(results[b]) = CellsOf(b, bench, config, Len(cmd.configs))
    /\ pc \in {"print", "graph"} \/ (printed /\ ~cmd.single) =>
         Len(results[b]) = Len(cmd.configs)
    /\ \A c \in DOMAIN results[b] : HoldsAll(cmd, Directory, results[b][c], cmd.configs[c])

\* The cell that is being computed.
Reading ==
  pc = "readdir" =>
    /\ ConfigName \in DOMAIN Directory
    /\ todo \in SUBSET DOMAIN Directory[ConfigName]
    /\ Holds(cmd, Directory, geomean, ConfigName, DOMAIN Directory[ConfigName] \ todo)

Drawn == cmd.metric \in SicmGraphs => graphs \in Seq(Pictures)

StatInv == Typed /\ Control /\ Filled /\ Reading /\ Drawn

-----------------------------------------------------------------------------
(* What the steps have in common.                                          *)

\* The types of a command line and of what it finds.
LEMMA CommandTypes ==
  ASSUME Typed
  PROVE  /\ cmd.benches \in Seq(STRING) /\ cmd.configs \in Seq(STRING)
         /\ Len(cmd.benches) \in Nat /\ Len(cmd.configs) \in Nat
         /\ cmd.node \in Nat /\ cmd.single \in BOOLEAN
         /\ FilesAre(cmd, Directory)
<1>1. cmd \in Commands /\ tree \in TreesOf(cmd) BY DEF Typed
<1>2. /\ cmd.benches \in Seq(STRING) /\ cmd.configs \in Seq(STRING)
      /\ cmd.node \in Nat /\ cmd.single \in BOOLEAN
      /\ \A t \in TreesOf(cmd) : FilesAre(cmd, t[cmd.path])
  BY <1>1, StatAssumption
<1>3. FilesAre(cmd, Directory) BY <1>1, <1>2 DEF Directory
<1>4. Len(cmd.benches) \in Nat /\ Len(cmd.configs) \in Nat BY <1>2
<1> QED BY <1>2, <1>3, <1>4

\* A command line keeps its tree.
LEMMA Kept == ASSUME [Next]_vars PROVE cmd' = cmd /\ tree' = tree
<1>1. CASE Next
  BY <1>1 DEF Next, Options, OpenDirectory, CloseDirectory, ReadIteration, DrawIteration,
              DrawMissing, SingleMetric, SingleGraph, PrintTable, graph_metric_memreserve,
              Finished, vars
<1>2. CASE UNCHANGED vars BY <1>2 DEF vars
<1> QED BY <1>1, <1>2

\* What depends on the command line and the tree alone stays with them.
LEMMA SameData ==
  ASSUME cmd' = cmd, tree' = tree
  PROVE  /\ Directory' = Directory /\ Sources' = Sources
         /\ Cells' = Cells /\ Pictures' = Pictures
<1>1. Directory' = Directory BY DEF Directory
<1>2. Sources' = Sources BY <1>1 DEF Sources
<1>3. \A s : Profile(s)' = Profile(s) BY <1>1 DEF Profile
<1>4. AllValues' = AllValues
  <2>1. AllValues' = {ValueOf(cmd', Profile(s)') : s \in Sources'} BY DEF AllValues
  <2>2. AllValues' = {ValueOf(cmd, Profile(s)) : s \in Sources} BY <2>1, <1>2, <1>3
  <2> QED BY <2>2 DEF AllValues
<1>5. Cells' = Cells BY <1>4 DEF Cells
<1>6. ArgsRoom' = ArgsRoom /\ ArgsLength' = ArgsLength
  BY DEF ArgsRoom, ArgsLength, TitleLength
<1>7. SiteArguments' = SiteArguments BY DEF SiteArguments
<1>8. Pictures' = Pictures
  BY <1>2, <1>3, <1>6, <1>7 DEF Pictures
<1> QED BY <1>1, <1>2, <1>5, <1>8

\* One more iteration.
LEMMA HoldsMore ==
  ASSUME NEW c, NEW directory, NEW bag, NEW k, NEW iterations, IsFiniteSet(iterations),
         Holds(c, directory, bag, k, iterations), c.metric \in Metrics,
         NEW i, i \notin iterations, directory[k][i] # Missing,
         NEW sum, sum = bag (+) SetToBag({ValueOf(c, directory[k][i])})
  PROVE  /\ Holds(c, directory, sum, k, iterations \cup {i})
         /\ sum \in [DOMAIN bag \cup {ValueOf(c, directory[k][i])} -> Nat]
<1> DEFINE value == ValueOf(c, directory[k][i])
<1>1. IsBag(bag) /\ ValuesIn(bag) = Cardinality(iterations)
      /\ BagToSet(bag) = {ValueOf(c, directory[k][j]) : j \in iterations}
  BY DEF Holds
<1>2. IsBag(sum) /\ BagToSet(sum) = BagToSet(bag) \cup {value} /\ ValuesIn(sum) = ValuesIn(bag) + 1
  <2> HIDE DEF value
  <2>1. sum = bag (+) SetToBag({value}) BY DEF value
  <2> QED BY <1>1, <2>1, OneMoreValue
<1>3. Cardinality(iterations \cup {i}) = Cardinality(iterations) + 1 BY FS_AddElement
<1>4. BagToSet(sum) = {ValueOf(c, directory[k][j]) : j \in iterations \cup {i}}
  BY <1>1, <1>2
<1>5. Holds(c, directory, sum, k, iterations \cup {i}) BY <1>1, <1>2, <1>3, <1>4 DEF Holds
<1>6. DOMAIN sum = DOMAIN bag \cup {value} /\ sum \in [DOMAIN sum -> Nat]
  BY <1>2 DEF IsBag, BagToSet
<1> QED BY <1>5, <1>6

\* ... as the code adds it.
LEMMA Adds ==
  ASSUME Typed, Reading, pc = "readdir", NEW i \in todo, cmd' = cmd, tree' = tree,
         config' = config, cmd.metric \in Metrics, Directory[ConfigName][i] # Missing,
         NEW value, value = ValueOf(cmd, Directory[ConfigName][i]), AddToGeomean(i, value)
  PROVE  geomean' \in Cells /\ Reading'
<1> DEFINE k == ConfigName
    all == DOMAIN Directory[k]
<1>1. k \in DOMAIN Directory /\ todo \in SUBSET all
      /\ Holds(cmd, Directory, geomean, k, all \ todo)
  BY DEF Reading
<1>2. IsFiniteSet(all \ todo)
  <2>1. IsFiniteSet(all) BY <1>1, CommandTypes DEF FilesAre
  <2> HIDE DEF all
  <2> QED BY <2>1, FS_Subset
<1>3. todo' = todo \ {i} /\ geomean' = geomean (+) SetToBag({value}) BY DEF AddToGeomean
<1>4. (all \ todo) \cup {i} = all \ todo' /\ i \notin all \ todo BY <1>1, <1>3
<1> HIDE DEF all
<1>5. /\ Holds(cmd, Directory, geomean', k, (all \ todo) \cup {i})
      /\ geomean' \in [DOMAIN geomean \cup {value} -> Nat]
  BY <1>1, <1>2, <1>3, <1>4, HoldsMore
<1>6. value \in AllValues
  <2> DEFINE s == [config |-> k, iter |-> i]
  <2>1. i \in DOMAIN Directory[k] BY <1>1 DEF all
  <2>2. s \in Sources BY <1>1, <2>1 DEF Sources
  <2>3. Profile(s) = Directory[k][i] BY DEF Profile
  <2> QED BY <2>2, <2>3 DEF AllValues
<1>7. DOMAIN geomean \in SUBSET AllValues BY DEF Typed, Cells
<1>8. geomean' \in Cells
  <2>1. DOMAIN geomean \cup {value} \in SUBSET AllValues BY <1>6, <1>7
  <2> QED BY <1>5, <2>1 DEF Cells
<1>9. Reading'
  <2>1. ConfigName' = k /\ Directory' = Directory BY SameData DEF ConfigName
  <2>2. todo' \in SUBSET all BY <1>1, <1>3
  <2>3. Holds(cmd', Directory', geomean', ConfigName', all \ todo') BY <1>4, <1>5, <2>1
  <2>4. DOMAIN Directory'[ConfigName'] = all BY <2>1 DEF all
  <2>5. ConfigName' \in DOMAIN Directory' BY <1>1, <2>1
  <2> HIDE DEF k
  <2> QED BY <2>2, <2>3, <2>4, <2>5 DEF Reading
<1> QED BY <1>8, <1>9

\* What is drawn is a picture of an iteration with a file.
LEMMA DrawsPictures ==
  ASSUME Typed, Drawn, cmd.metric \in SicmGraphs, NEW source \in Sources,
         NEW site \in SiteArguments, Draws(source, site)
  PROVE  /\ app_prof' \in Sources /\ graphs' \in Seq(Pictures)
         /\ graph_title' \in {"unset", "set", "freed"}
<1> DEFINE of == packing_init_wrapper(source)
<1>1. of \in Sources BY DEF packing_init_wrapper, Typed
<1>2. app_prof' = of BY DEF Draws
<1>3. graph_title \in {"unset", "set", "freed"} BY DEF Typed
<1>4. graphs \in Seq(Pictures) BY DEF Drawn
<1>5. CASE Drawable(cmd.metric, Profile(of), site)
  <2> DEFINE picture == [for |-> source, of |-> of, title |-> graph_title,
                         room |-> ArgsRoom, length |-> ArgsLength,
                         tables |-> Tables(cmd.metric, Profile(of), site)]
  <2>1. graphs' = Append(graphs, picture)
        /\ graph_title' = IF Titled THEN "freed" ELSE graph_title
    BY <1>5 DEF Draws
  <2>2. picture \in Pictures
    <3> HIDE DEF of
    <3> QED BY <1>1, <1>3, <1>5 DEF Pictures
  <2> HIDE DEF picture
  <2> QED BY <1>1, <1>2, <1>3, <1>4, <2>1, <2>2
<1>6. CASE ~Drawable(cmd.metric, Profile(of), site)
  BY <1>1, <1>2, <1>3, <1>4, <1>6 DEF Draws
<1> QED BY <1>5, <1>6

-----------------------------------------------------------------------------
(* The invariant holds.                                                    *)

\* The invariant holds when the program starts.
LEMMA InvInit == Init => StatInv
<1> SUFFICES ASSUME Init PROVE StatInv
  OBVIOUS
<1> USE DEF Init
<1>1. /\ cmd.benches \in Seq(STRING) /\ cmd.configs \in Seq(STRING)
      /\ cmd.single \in BOOLEAN
  BY StatAssumption
<1>2. Len(cmd.benches) \in Nat /\ Len(cmd.configs) \in Nat BY <1>1
<1>3. EmptyBag \in Cells
  <2>1. EmptyBag \in [{} -> Nat] BY DEF EmptyBag, SetToBag
  <2>2. {} \in SUBSET AllValues OBVIOUS
  <2> QED BY <2>1, <2>2 DEF Cells
<1>4. results \in [1..Len(cmd.benches) -> Seq(Cells)] OBVIOUS
<1>5. Typed
  <2>1. 1 \in 1..Len(cmd.benches) + 1 /\ 1 \in 1..Len(cmd.configs) + 1 BY <1>2
  <2>2. graph_title \in {"unset", "set"} BY DEF Init
  <2> QED BY <1>3, <1>4, <2>1, <2>2 DEF Typed
<1>6. Control BY DEF Control
<1>7. Filled
  <2> SUFFICES ASSUME NEW b \in 1..Len(cmd.benches)
               PROVE  /\ Len(results[b]) <= Len(cmd.configs)
                      /\ Len(results[b]) = CellsOf(b, bench, config, Len(cmd.configs))
                      /\ \A c \in DOMAIN results[b] :
                           HoldsAll(cmd, Directory, results[b][c], cmd.configs[c])
    BY DEF Filled
  <2>1. results[b] = <<>> /\ Len(results[b]) = 0 OBVIOUS
  <2>2. CellsOf(b, 1, 1, Len(cmd.configs)) = 0 BY <1>2 DEF CellsOf
  <2> QED BY <1>2, <2>1, <2>2
<1>8. Reading BY DEF Reading
<1>9. Drawn BY DEF Drawn
<1> QED BY <1>5, <1>6, <1>7, <1>8, <1>9 DEF StatInv

\* A step that leaves the cells alone.
LEMMA FilledStays ==
  ASSUME Typed, Control, Filled, cmd' = cmd, tree' = tree, UNCHANGED <<results, bench, config>>,
         pc' \in {"options", "single", "opendir", "readdir"} =>
           pc \in {"options", "single", "opendir", "readdir"},
         pc' \in {"print", "graph"} => pc \in {"print", "graph"},
         printed' = printed \/ cmd.single \/ pc \in {"print", "graph"}
  PROVE  Filled'
<1>1. Directory' = Directory BY SameData
<1> SUFFICES ASSUME NEW b \in DOMAIN results
             PROVE  /\ Len(results[b]) <= Len(cmd.configs)
                    /\ pc' \in {"options", "single", "opendir", "readdir"} =>
                         Len(results[b]) = CellsOf(b, bench, config, Len(cmd.configs))
                    /\ pc' \in {"print", "graph"} \/ (printed' /\ ~cmd.single) =>
                         Len(results[b]) = Len(cmd.configs)
                    /\ \A c \in DOMAIN results[b] :
                         HoldsAll(cmd, Directory, results[b][c], cmd.configs[c])
  BY <1>1 DEF Filled
<1>2. /\ Len(results[b]) <= Len(cmd.configs)
      /\ pc \in {"options", "single", "opendir", "readdir"} =>
           Len(results[b]) = CellsOf(b, bench, config, Len(cmd.configs))
      /\ pc \in {"print", "graph"} \/ (printed /\ ~cmd.single) =>
           Len(results[b]) = Len(cmd.configs)
      /\ \A c \in DOMAIN results[b] : HoldsAll(cmd, Directory, results[b][c], cmd.configs[c])
  BY DEF Filled
<1> QED BY <1>2

\* A cell that is complete.
LEMMA OneMoreCell ==
  ASSUME StatInv, CloseDirectory, geomean # EmptyBag, cmd' = cmd, tree' = tree
  PROVE  /\ results' \in [1..Len(cmd.benches) -> Seq(Cells)]
         /\ bench' \in 1..Len(cmd.benches) /\ config' \in 1..Len(cmd.configs)
         /\ pc' \in {"opendir", "print"}
         /\ Filled'
<1>0. Typed /\ Control /\ Filled /\ Reading BY DEF StatInv
<1> DEFINE all == Len(cmd.configs)
    n == Len(cmd.benches)
    new == Append(results[bench], geomean)
<1>1. /\ pc = "readdir" /\ todo = {} /\ results' = [results EXCEPT ![bench] = new]
      /\ NextCell /\ printed' = printed
  BY DEF CloseDirectory
<1>2. all \in Nat /\ n \in Nat /\ cmd.single \in BOOLEAN BY <1>0, CommandTypes
<1>3. bench \in 1..n /\ config \in 1..all /\ ~cmd.single BY <1>0, <1>1 DEF Control
<1>4. results \in [1..n -> Seq(Cells)] /\ geomean \in Cells BY <1>0 DEF Typed
<1>5. new \in Seq(Cells) /\ Len(new) = Len(results[bench]) + 1
  <2>1. results[bench] \in Seq(Cells) BY <1>3, <1>4
  <2> QED BY <1>4, <2>1
<1>6. results' \in [1..n -> Seq(Cells)] /\ results'[bench] = new
      /\ \A b \in 1..n \ {bench} : results'[b] = results[b]
  <2> HIDE DEF new
  <2> QED BY <1>1, <1>3, <1>4, <1>5
<1>7. \A b \in 1..n : /\ Len(results[b]) = CellsOf(b, bench, config, all)
                      /\ \A c \in DOMAIN results[b] :
                           HoldsAll(cmd, Directory, results[b][c], cmd.configs[c])
                      /\ Len(results[b]) \in Nat
  <2>1. DOMAIN results = 1..n BY <1>4
  <2>2. \A b \in 1..n : Len(results[b]) \in Nat BY <1>4
  <2> QED BY <1>0, <1>1, <2>1, <2>2 DEF Filled
<1>8. Len(new) = config
  <2>1. Len(results[bench]) = config - 1 BY <1>3, <1>7 DEF CellsOf
  <2> QED BY <1>3, <1>5, <2>1
<1>9. HoldsAll(cmd, Directory, geomean, cmd.configs[config])
  <2>1. DOMAIN Directory[ConfigName] \ todo = DOMAIN Directory[ConfigName] BY <1>1
  <2> QED BY <1>0, <1>1, <2>1 DEF Reading, HoldsAll, ConfigName
<1>10. \A c \in DOMAIN new : HoldsAll(cmd, Directory, new[c], cmd.configs[c])
  <2> SUFFICES ASSUME NEW c \in DOMAIN new
               PROVE  HoldsAll(cmd, Directory, new[c], cmd.configs[c])
    OBVIOUS
  <2>1. results[bench] \in Seq(Cells) BY <1>3, <1>4
  <2>2. Len(results[bench]) = config - 1 BY <1>3, <1>5, <1>8, <2>1
  <2>3. c \in 1..config BY <1>5, <1>8
  <2>4. CASE c = config
    <3>1. new[c] = geomean BY <2>1, <2>2, <2>4
    <3> QED BY <1>9, <2>4, <3>1
  <2>5. CASE c # config
    <3>1. c \in 1..Len(results[bench]) BY <2>2, <2>3, <2>5, <1>3
    <3>2. new[c] = results[bench][c] /\ c \in DOMAIN results[bench] BY <2>1, <3>1
    <3> QED BY <1>3, <1>7, <3>2
  <2> QED BY <2>4, <2>5
<1> HIDE DEF new
<1>11. \A b \in 1..n : \A c \in DOMAIN results'[b] :
         HoldsAll(cmd, Directory, results'[b][c], cmd.configs[c])
  BY <1>6, <1>7, <1>10
<1>12. \A b \in 1..n : Len(results'[b]) = IF b = bench THEN config
                                         ELSE CellsOf(b, bench, config, all)
  BY <1>6, <1>7, <1>8
<1>13. Directory' = Directory BY SameData
<1> HIDE DEF all, n
<1>14. CASE config < all
  <2>1. config' = config + 1 /\ bench' = bench /\ pc' = "opendir"
    BY <1>1, <1>14, <1>2, <1>3 DEF NextCell, all, n
  <2>2. \A b \in 1..n : Len(results'[b]) = CellsOf(b, bench, config + 1, all)
    BY <1>12, <1>2, <1>3 DEF CellsOf
  <2>3. \A b \in 1..n : Len(results'[b]) <= all BY <1>2, <1>3, <1>12, <1>14 DEF CellsOf
  <2>4. ~printed' \/ \A b \in 1..n : Len(results'[b]) = all
    <3> SUFFICES ASSUME printed PROVE FALSE
      BY <1>1
    <3>1. Len(results[bench]) = all BY <1>0, <1>3, <1>4 DEF Filled, n, all
    <3> QED BY <1>3, <1>7, <1>14, <1>2, <3>1 DEF CellsOf
  <2>5. Filled' BY <1>6, <1>11, <1>13, <2>1, <2>2, <2>3, <2>4 DEF Filled, all
  <2> QED BY <1>2, <1>3, <1>6, <1>14, <2>1, <2>5 DEF all, n
<1>15. CASE config = all /\ bench < n
  <2>1. config' = 1 /\ bench' = bench + 1 /\ pc' = "opendir"
    BY <1>1, <1>15, <1>2, <1>3 DEF NextCell, all, n
  <2>2. \A b \in 1..n : Len(results'[b]) = CellsOf(b, bench + 1, 1, all)
    <3> TAKE b \in 1..n
    <3>1. CASE b < bench BY <1>12, <1>2, <1>3, <3>1 DEF CellsOf
    <3>2. CASE b = bench BY <1>12, <1>2, <1>3, <1>15, <3>2 DEF CellsOf
    <3>3. CASE b > bench BY <1>12, <1>2, <1>3, <3>3 DEF CellsOf
    <3> QED BY <1>2, <1>3, <3>1, <3>2, <3>3
  <2>3. \A b \in 1..n : Len(results'[b]) <= all BY <1>2, <1>3, <1>12, <1>15 DEF CellsOf
  <2>4. ~printed' \/ \A b \in 1..n : Len(results'[b]) = all
    <3> SUFFICES ASSUME printed PROVE FALSE
      BY <1>1
    <3>1. Len(results[bench]) = all BY <1>0, <1>3, <1>4 DEF Filled, n, all
    <3> QED BY <1>3, <1>7, <1>15, <1>2, <3>1 DEF CellsOf
  <2>5. Filled' BY <1>6, <1>11, <1>13, <2>1, <2>2, <2>3, <2>4 DEF Filled, all
  <2> QED BY <1>2, <1>3, <1>6, <1>15, <2>1, <2>5 DEF all, n
<1>16. CASE config = all /\ bench = n
  <2>1. config' = config /\ bench' = bench /\ pc' = "print"
    BY <1>1, <1>16, <1>2, <1>3 DEF NextCell, all, n
  <2>2. \A b \in 1..n : Len(results'[b]) = all
    BY <1>12, <1>2, <1>3, <1>16 DEF CellsOf
  <2>3. \A b \in 1..n : Len(results'[b]) <= all BY <1>2, <2>2
  <2>4. Filled' BY <1>6, <1>11, <1>13, <2>1, <2>2, <2>3 DEF Filled, all
  <2> QED BY <1>2, <1>3, <1>6, <2>1, <2>4 DEF all, n
<1> QED BY <1>2, <1>3, <1>14, <1>15, <1>16

\* Each step of stat keeps it.
LEMMA InvNext == StatInv /\ [Next]_vars => StatInv'
<1> SUFFICES ASSUME StatInv, [Next]_vars PROVE StatInv'
  OBVIOUS
<1>0. Typed /\ Control /\ Filled /\ Reading /\ Drawn BY DEF StatInv
<1>1. cmd' = cmd /\ tree' = tree BY Kept
<1>2. Directory' = Directory /\ Cells' = Cells /\ Pictures' = Pictures /\ Sources' = Sources
  BY <1>1, SameData
<1>3. /\ Len(cmd.benches) \in Nat /\ Len(cmd.configs) \in Nat
      /\ cmd.benches \in Seq(STRING) /\ cmd.configs \in Seq(STRING)
      /\ cmd.single \in BOOLEAN /\ FilesAre(cmd, Directory)
  BY <1>0, CommandTypes
<1>4. CASE Options
  <2> USE <1>4 DEF Options, Exit
  <2>1. Typed' BY <1>0, <1>1, <1>2 DEF Typed
  <2>2. Control'
    <3>1. CASE ValidOptions /\ ~cmd.single
      <4>1. cmd.configs # <<>> /\ cmd.benches # <<>> BY <3>1 DEF ValidOptions, CheckedArgs
      <4>2. 1 \in 1..Len(cmd.benches) /\ 1 \in 1..Len(cmd.configs) BY <1>3, <4>1
      <4> QED BY <1>0, <1>1, <3>1, <4>2 DEF Control
    <3>2. CASE ~ValidOptions \/ cmd.single BY <1>0, <1>1, <3>2 DEF Control
    <3> QED BY <3>1, <3>2
  <2>3. Filled' BY <1>0, <1>1, FilledStays
  <2>4. Reading' BY DEF Reading
  <2>5. Drawn' BY <1>0, <1>1, <1>2 DEF Drawn
  <2> QED BY <2>1, <2>2, <2>3, <2>4, <2>5 DEF StatInv
<1>5. CASE OpenDirectory
  <2> USE <1>5 DEF OpenDirectory, Exit
  <2>1. Typed'
    <3>1. EmptyBag \in Cells
      <4>1. EmptyBag \in [{} -> Nat] BY DEF EmptyBag, SetToBag
      <4>2. {} \in SUBSET AllValues OBVIOUS
      <4> QED BY <4>1, <4>2 DEF Cells
    <3> QED BY <1>0, <1>1, <1>2, <3>1 DEF Typed
  <2>2. Control' BY <1>0, <1>1 DEF Control
  <2>3. Filled' BY <1>0, <1>1, FilledStays
  <2>4. Reading'
    <3> SUFFICES ASSUME pc' = "readdir" PROVE Reading'
      BY DEF Reading
    <3>1. ConfigName \in DOMAIN Directory /\ ConfigName' = ConfigName
          /\ todo' = DOMAIN Directory[ConfigName] /\ geomean' = EmptyBag
      BY <1>1 DEF ConfigName
    <3>2. DOMAIN Directory[ConfigName] \ todo' = {} BY <3>1
    <3>3. Cardinality({}) = 0 BY FS_EmptySet
    <3>4. Holds(cmd, Directory, EmptyBag, ConfigName, {}) BY <3>3, NoValues DEF Holds
    <3> QED BY <1>1, <1>2, <3>1, <3>2, <3>4 DEF Reading
  <2>5. Drawn' BY <1>0, <1>1, <1>2 DEF Drawn
  <2> QED BY <2>1, <2>2, <2>3, <2>4, <2>5 DEF StatInv
<1>6. CASE CloseDirectory
  <2>1. CASE geomean = EmptyBag
    <3> USE <1>6, <2>1 DEF CloseDirectory, Exit
    <3>1. Typed' BY <1>0, <1>1, <1>2 DEF Typed
    <3>2. Control' BY <1>0, <1>1 DEF Control
    <3>3. Filled' BY <1>0, <1>1, FilledStays
    <3>4. Reading' BY DEF Reading
    <3>5. Drawn' BY <1>0, <1>1, <1>2 DEF Drawn
    <3> QED BY <3>1, <3>2, <3>3, <3>4, <3>5 DEF StatInv
  <2>2. CASE geomean # EmptyBag
    <3>1. /\ results' \in [1..Len(cmd.benches) -> Seq(Cells)]
          /\ bench' \in 1..Len(cmd.benches) /\ config' \in 1..Len(cmd.configs)
          /\ pc' \in {"opendir", "print"}
          /\ Filled'
      BY <1>1, <1>6, <2>2, OneMoreCell
    <3>2. UNCHANGED <<geomean, graph_title, app_prof, graphs, printed>> /\ pc = "readdir"
      BY <1>6 DEF CloseDirectory
    <3>3. Typed' BY <1>0, <1>1, <1>2, <1>3, <3>1, <3>2 DEF Typed
    <3>4. Control' BY <1>0, <1>1, <3>1, <3>2 DEF Control
    <3>5. Reading' BY <3>1 DEF Reading
    <3>6. Drawn' BY <1>0, <1>1, <1>2, <3>2 DEF Drawn
    <3> QED BY <3>1, <3>3, <3>4, <3>5, <3>6 DEF StatInv
  <2> QED BY <2>1, <2>2
<1>7. ASSUME NEW i \in todo, ReadIteration(i) PROVE StatInv'
  <2> USE <1>7 DEF ReadIteration, Exit
  <2>1. CASE Readable(Directory[ConfigName][i])
    <3> DEFINE value == ValueOf(cmd, Directory[ConfigName][i])
    <3>1. cmd.metric \in Metrics \ SicmGraphs /\ Directory[ConfigName][i] # Missing
      BY <2>1 DEF Readable
    <3>2. AddToGeomean(i, value) /\ pc' = pc BY <2>1, <3>1 DEF ValueOf
    <3> HIDE DEF value
    <3>3. value = ValueOf(cmd, Directory[ConfigName][i]) BY DEF value
    <3>4. geomean' \in Cells /\ Reading'
      BY <1>0, <1>1, <3>1, <3>2, <3>3, Adds
    <3>5. Typed' BY <1>0, <1>1, <1>2, <3>4 DEF Typed
    <3>6. Control' BY <1>0, <1>1, <3>2 DEF Control
    <3>7. Filled' BY <1>0, <1>1, <3>2, FilledStays
    <3>8. Drawn' BY <1>0, <1>1, <1>2 DEF Drawn
    <3> QED BY <3>4, <3>5, <3>6, <3>7, <3>8 DEF StatInv
  <2>2. CASE ~Readable(Directory[ConfigName][i])
    <3>1. Typed' BY <1>0, <1>1, <1>2, <2>2 DEF Typed
    <3>2. Control' BY <1>0, <1>1, <2>2 DEF Control
    <3>3. Filled' BY <1>0, <1>1, <2>2, FilledStays
    <3>4. Reading' BY <2>2 DEF Reading
    <3>5. Drawn' BY <1>0, <1>1, <1>2 DEF Drawn
    <3> QED BY <3>1, <3>2, <3>3, <3>4, <3>5 DEF StatInv
  <2> QED BY <2>1, <2>2
<1>8. ASSUME NEW i \in todo, DrawIteration(i) PROVE StatInv'
  <2> DEFINE source == [config |-> ConfigName, iter |-> i]
  <2>0. /\ pc = "readdir" /\ cmd.metric \in SicmGraphs /\ Directory[ConfigName][i] # Missing
        /\ \E site \in SiteArguments : Draws(source, site)
        /\ UNCHANGED <<bench, config, results, printed>>
    BY <1>8 DEF DrawIteration
  <2>1. source \in Sources
    <3>1. ConfigName \in DOMAIN Directory /\ i \in DOMAIN Directory[ConfigName]
      BY <1>0, <2>0 DEF Reading
    <3> QED BY <2>0, <3>1 DEF Sources
  <2> HIDE DEF source
  <2>2. /\ app_prof' \in Sources /\ graphs' \in Seq(Pictures)
        /\ graph_title' \in {"unset", "set", "freed"}
    BY <1>0, <2>0, <2>1, DrawsPictures
  <2>3. Drawn' BY <1>2, <2>2 DEF Drawn
  <2>4. CASE graphs' = graphs
    <3>1. pc' = "exited" /\ UNCHANGED <<todo, geomean>> BY <1>8, <2>4 DEF DrawIteration, Exit
    <3>2. Typed' BY <1>0, <1>1, <1>2, <2>0, <2>2, <3>1 DEF Typed
    <3>3. Control' BY <1>0, <1>1, <2>0, <3>1 DEF Control
    <3>4. Filled' BY <1>0, <1>1, <2>0, <3>1, FilledStays
    <3>5. Reading' BY <3>1 DEF Reading
    <3> QED BY <2>3, <3>2, <3>3, <3>4, <3>5 DEF StatInv
  <2>5. CASE graphs' # graphs
    <3>1. pc' \in {"readdir", "exited", "crashed"} /\ AddToGeomean(i, Garbage)
      BY <1>8, <2>5 DEF DrawIteration, jgraph_wrapper
    <3>2. Garbage = ValueOf(cmd, Directory[ConfigName][i]) BY <2>0 DEF ValueOf
    <3>3. cmd.metric \in Metrics BY <2>0 DEF Metrics, SicmMetrics
    <3>4. geomean' \in Cells /\ Reading'
      BY <1>0, <1>1, <1>8, <2>0, <3>1, <3>2, <3>3, Adds
    <3>5. Typed' BY <1>0, <1>1, <1>2, <2>0, <2>2, <3>4 DEF Typed
    <3>6. Control' BY <1>0, <1>1, <2>0, <3>1 DEF Control
    <3>7. Filled' BY <1>0, <1>1, <2>0, <3>1, FilledStays
    <3> QED BY <2>3, <3>4, <3>5, <3>6, <3>7 DEF StatInv
  <2> QED BY <2>4, <2>5
<1>9. ASSUME NEW i \in todo, DrawMissing(i) PROVE StatInv'
  <2> USE <1>9 DEF DrawMissing, Exit
  <2>1. Typed' BY <1>0, <1>1, <1>2 DEF Typed
  <2>2. Control' BY <1>0, <1>1 DEF Control
  <2>3. Filled' BY <1>0, <1>1, FilledStays
  <2>4. Reading' BY DEF Reading
  <2>5. Drawn' BY <1>0, <1>1, <1>2 DEF Drawn
  <2> QED BY <2>1, <2>2, <2>3, <2>4, <2>5 DEF StatInv
<1>10. Profile(SinglePath) = Directory[cmd.configs[1]]["i0"] BY DEF Profile, SinglePath
<1>11. CASE SingleMetric
  <2> USE <1>11 DEF SingleMetric, Exit
  <2>0. cmd.single /\ pc' \in {"done", "exited"} /\ printed' \in BOOLEAN
    BY <1>0 DEF Control, Typed
  <2>1. Typed'
    <3>1. CASE Readable(Profile(SinglePath))
      <4> DEFINE value == ValueOf(cmd, Profile(SinglePath))
      <4>1. cmd.metric \in Metrics \ SicmGraphs /\ Profile(SinglePath) # Missing
        BY <3>1 DEF Readable
      <4>2. geomean' = SetToBag({value}) BY <3>1, <4>1 DEF ValueOf
      <4>3. SinglePath \in Sources
        <5>1. cmd.configs[1] \in DOMAIN Directory /\ "i0" \in DOMAIN Directory[cmd.configs[1]]
          BY <1>3, <2>0 DEF FilesAre
        <5> QED BY <1>10, <4>1, <5>1 DEF Sources, SinglePath
      <4>4. {value} \in SUBSET AllValues BY <4>3 DEF AllValues
      <4>5. SetToBag({value}) \in [{value} -> Nat] BY DEF SetToBag
      <4>6. geomean' \in Cells BY <4>2, <4>4, <4>5 DEF Cells
      <4> QED BY <1>0, <1>1, <1>2, <2>0, <4>6 DEF Typed
    <3>2. CASE ~Readable(Profile(SinglePath)) BY <1>0, <1>1, <1>2, <2>0, <3>2 DEF Typed
    <3> QED BY <3>1, <3>2
  <2>2. Control' BY <1>0, <1>1, <2>0 DEF Control
  <2>3. Filled' BY <1>0, <1>1, <2>0, FilledStays
  <2>4. Reading' BY <2>0 DEF Reading
  <2>5. Drawn' BY <1>0, <1>1, <1>2 DEF Drawn
  <2> QED BY <2>1, <2>2, <2>3, <2>4, <2>5 DEF StatInv
<1>12. CASE SingleGraph
  <2>0. /\ pc = "single" /\ cmd.single /\ cmd.metric \in SicmGraphs
        /\ pc' \in {"done", "exited"} /\ printed' \in BOOLEAN
        /\ UNCHANGED <<bench, config, todo, geomean, results>>
    BY <1>0, <1>12 DEF SingleGraph, Control, Exit, jgraph_wrapper
  <2>1. /\ app_prof' \in Sources \cup {None} /\ graphs' \in Seq(Pictures)
        /\ graph_title' \in {"unset", "set", "freed"}
    <3>1. CASE Profile(SinglePath) = Missing
      BY <1>0, <1>12, <2>0, <3>1 DEF SingleGraph, Typed, Drawn
    <3>2. CASE Profile(SinglePath) # Missing
      <4>1. SinglePath \in Sources
        <5>1. cmd.configs[1] \in DOMAIN Directory /\ "i0" \in DOMAIN Directory[cmd.configs[1]]
          BY <1>3, <2>0 DEF FilesAre
        <5> QED BY <1>10, <3>2, <5>1 DEF Sources, SinglePath
      <4>2. PICK site \in SiteArguments : Draws(SinglePath, site)
        BY <1>12, <3>2 DEF SingleGraph
      <4> QED BY <1>0, <2>0, <4>1, <4>2, DrawsPictures
    <3> QED BY <3>1, <3>2
  <2>2. Typed' BY <1>0, <1>1, <1>2, <2>0, <2>1 DEF Typed
  <2>3. Control' BY <1>0, <1>1, <2>0 DEF Control
  <2>4. Filled' BY <1>0, <1>1, <2>0, FilledStays
  <2>5. Reading' BY <2>0 DEF Reading
  <2>6. Drawn' BY <1>2, <2>1 DEF Drawn
  <2> QED BY <2>2, <2>3, <2>4, <2>5, <2>6 DEF StatInv
<1>13. CASE PrintTable
  <2> USE <1>13 DEF PrintTable
  <2>1. Typed' BY <1>0, <1>1, <1>2 DEF Typed
  <2>2. Control' BY <1>0, <1>1 DEF Control
  <2>3. Filled' BY <1>0, <1>1, FilledStays
  <2>4. Reading' BY DEF Reading
  <2>5. Drawn' BY <1>0, <1>1, <1>2 DEF Drawn
  <2> QED BY <2>1, <2>2, <2>3, <2>4, <2>5 DEF StatInv
<1>14. CASE graph_metric_memreserve
  <2>0. /\ pc = "graph" /\ pc' \in {"done", "exited", "crashed"}
        /\ UNCHANGED <<bench, config, todo, geomean, results, graph_title, app_prof, printed>>
    BY <1>14 DEF graph_metric_memreserve, Exit, jgraph_wrapper
  <2>1. Typed' BY <1>0, <1>1, <1>2, <2>0 DEF Typed
  <2>2. Control' BY <1>0, <1>1, <2>0 DEF Control
  <2>3. Filled' BY <1>0, <1>1, <2>0, FilledStays
  <2>4. Reading' BY <2>0 DEF Reading
  <2>5. Drawn'
    <3>1. cmd.metric \in MultiConfigGraphs BY <1>0, <2>0 DEF Control
    <3>2. cmd.metric \notin SicmGraphs BY <3>1 DEF MultiConfigGraphs, SicmGraphs
    <3> QED BY <1>1, <3>2 DEF Drawn
  <2> QED BY <2>1, <2>2, <2>3, <2>4, <2>5 DEF StatInv
<1>15. CASE UNCHANGED vars
  <2> USE <1>15 DEF vars
  <2>1. Typed' BY <1>0, <1>1, <1>2 DEF Typed
  <2>2. Control' BY <1>0, <1>1 DEF Control
  <2>3. Filled' BY <1>0, <1>1, FilledStays
  <2>4. ConfigName' = ConfigName BY DEF ConfigName
  <2>5. Reading' BY <1>0, <1>1, <1>2, <2>4 DEF Reading
  <2>6. Drawn' BY <1>0, <1>1, <1>2 DEF Drawn
  <2> QED BY <2>1, <2>2, <2>3, <2>5, <2>6 DEF StatInv
<1>16. CASE Finished BY <1>15, <1>16 DEF Finished
<1> QED
  BY <1>4, <1>5, <1>6, <1>7, <1>8, <1>9, <1>11, <1>12, <1>13, <1>14, <1>15, <1>16 DEF Next

\* The invariant, from the first state to the last.
THEOREM InvHolds == Spec => []StatInv
<1>1. Init => StatInv BY InvInit
<1>2. StatInv /\ [Next]_vars => StatInv' BY InvNext
<1> QED BY <1>1, <1>2, PTL DEF Spec

-----------------------------------------------------------------------------
(* The properties.                                                         *)

\* Every variable has its type, a cell exists only for a configuration of the
\* command line, and the table is printed only when all cells do.
THEOREM TypeCorrect == Spec => []TypeOK
<1>1. StatInv => TypeOK
  <2> SUFFICES ASSUME StatInv PROVE TypeOK
    OBVIOUS
  <2>0. Typed /\ Control /\ Filled BY DEF StatInv
  <2>1. app_prof = None \/ app_prof.config \in DOMAIN Directory BY <2>0 DEF Typed, Sources
  <2>2. \A b \in DOMAIN results : Len(results[b]) <= Len(cmd.configs) BY <2>0 DEF Filled
  <2>3. printed /\ ~cmd.single => \A b \in DOMAIN results : Len(results[b]) = Len(cmd.configs)
    BY <2>0 DEF Filled
  <2> QED BY <2>0, <2>1, <2>2, <2>3 DEF TypeOK, Typed, Control
<1> QED BY <1>1, InvHolds, PTL

\* What is written into the buffer for the arguments of a script fits it.
THEOREM ArgsAlwaysFit == Spec => []ArgsFit
<1>1. StatInv => ArgsFit
  <2> SUFFICES ASSUME StatInv, cmd.metric \in SicmGraphs, NEW g \in DOMAIN graphs
               PROVE  graphs[g].length <= graphs[g].room
    BY DEF ArgsFit
  <2>1. graphs \in Seq(Pictures) BY DEF StatInv, Drawn
  <2>2. graphs[g] \in Pictures BY <2>1
  <2>3. graphs[g].length = ArgsLength /\ graphs[g].room = ArgsRoom BY <2>2 DEF Pictures
  <2>4. TitleLength \in Nat /\ NameLength \in Nat
    <3>1. cmd \in Commands BY DEF StatInv, Typed
    <3>2. DefaultTitle \in Nat /\ NameLength \in Nat /\ (cmd.title = None \/ cmd.title \in Nat)
      BY <3>1, StatAssumption
    <3> QED BY <3>2 DEF TitleLength
  <2>5. ArgsLength <= ArgsRoom BY <2>4 DEF ArgsLength, ArgsRoom
  <2> QED BY <2>3, <2>5
<1> QED BY <1>1, InvHolds, PTL

\* A printed cell is the geometric mean of one value for each iteration of its
\* configuration, and each value is what the metric's name says.
THEOREM CellsAreTheMetric == Spec => []CellsHoldTheMetric
<1>1. StatInv => CellsHoldTheMetric
  <2> SUFFICES ASSUME StatInv, printed, ~cmd.single,
                      NEW b \in DOMAIN results, NEW c \in DOMAIN cmd.configs,
                      NEW dir, dir = Directory[cmd.configs[c]],
                      NEW bag, bag = results[b][c]
               PROVE  /\ ValuesIn(bag) = Cardinality(DOMAIN dir)
                      /\ \A i \in DOMAIN dir :
                           \E v \in BagToSet(bag) : Means(cmd.metric, dir[i], cmd.node, v)
                      /\ \A v \in BagToSet(bag) :
                           \E i \in DOMAIN dir : Means(cmd.metric, dir[i], cmd.node, v)
    BY DEF CellsHoldTheMetric
  <2>0. Typed /\ Filled BY DEF StatInv
  <2>1. /\ cmd.configs \in Seq(STRING) /\ Len(cmd.configs) \in Nat
        /\ cmd.node \in Nat /\ FilesAre(cmd, Directory)
    BY <2>0, CommandTypes
  <2>2. c \in DOMAIN results[b]
    <3>1. Len(results[b]) = Len(cmd.configs) BY <2>0 DEF Filled
    <3>2. results[b] \in Seq(Cells) BY <2>0 DEF Typed
    <3>3. c \in 1..Len(cmd.configs) /\ DOMAIN results[b] = 1..Len(results[b]) BY <2>1, <3>2
    <3> QED BY <3>1, <3>3
  <2>3. HoldsAll(cmd, Directory, results[b][c], cmd.configs[c]) BY <2>0, <2>2 DEF Filled
  <2>4. /\ cmd.configs[c] \in DOMAIN Directory
        /\ BagToSet(bag) = {ValueOf(cmd, dir[i]) : i \in DOMAIN dir}
        /\ ValuesIn(bag) = Cardinality(DOMAIN dir)
        /\ DOMAIN dir # {} => cmd.metric \in Metrics
        /\ \A i \in DOMAIN dir : dir[i] # Missing
    BY <2>3 DEF HoldsAll, Holds
  <2>5. ASSUME NEW i \in DOMAIN dir
        PROVE  Means(cmd.metric, dir[i], cmd.node, ValueOf(cmd, dir[i]))
    <3>1. CASE cmd.metric \in SicmGraphs
      BY <3>1 DEF Means, SicmGraphs, BenchMetrics
    <3>2. CASE cmd.metric \notin SicmGraphs
      <4>1. cmd.metric \in Metrics \ SicmGraphs BY <2>4, <3>2
      <4>2. ValueOf(cmd, dir[i]) = parse_metrics(cmd.metric, dir[i], cmd.node)
        BY <4>1 DEF ValueOf
      <4>3. IsFileOf(cmd.metric, dir[i]) BY <2>1, <2>4 DEF FilesAre
      <4> QED BY <2>1, <4>1, <4>2, <4>3, MetricMeans
    <3> QED BY <3>1, <3>2
  <2> QED BY <2>4, <2>5
<1> QED BY <1>1, InvHolds, PTL

-----------------------------------------------------------------------------
(* The accesses to a site are a number.                                    *)

\* iter sums f over every set of positions, as a fold does.
SumsUp(iter, n, f) ==
  iter = [s \in SUBSET (1 .. n) |-> IF s = {} THEN 0 ELSE iter[s \ {Max(s)}] + f[Max(s)]]

\* There is a function of these equations, and its values are numbers.
LEMMA SumFold ==
  ASSUME NEW n \in Nat, NEW f \in [1 .. n -> Nat]
  PROVE  /\ \E iter : SumsUp(iter, n, f)
         /\ \A iter : SumsUp(iter, n, f) => iter[1 .. n] \in Nat
<1> DEFINE step == [p \in (1 .. n) \X Nat |-> p[2] + f[p[1]]]
<1>1. step \in [(1 .. n) \X Nat -> Nat] /\ 0 \in Nat OBVIOUS
<1>2. ASSUME NEW k \in 1 .. n, NEW m \in Nat PROVE step[<<k, m>>] = m + f[k]
  OBVIOUS
<1> HIDE DEF step
<1>3. PICK g \in [SUBSET (1 .. n) -> Nat] : FoldsBy(g, n, 0, step)
  BY <1>1, FoldExists
<1>4. ASSUME NEW s \in SUBSET (1 .. n), s # {}
      PROVE  step[<<Max(s), g[s \ {Max(s)}]>>] = g[s \ {Max(s)}] + f[Max(s)]
  <2>1. Max(s) \in 1 .. n BY <1>4, LastPosition
  <2>2. g[s \ {Max(s)}] \in Nat BY <1>3
  <2> QED BY <1>2, <2>1, <2>2
<1>5. SumsUp(g, n, f) BY <1>3, <1>4 DEF FoldsBy, SumsUp
<1>6. ASSUME NEW iter, SumsUp(iter, n, f) PROVE iter[1 .. n] \in Nat
  <2>1. iter[{}] = 0 BY <1>6 DEF SumsUp
  <2>2. ASSUME NEW s \in SUBSET (1 .. n), s # {}, iter[s \ {Max(s)}] \in Nat
        PROVE  iter[s] = step[<<Max(s), iter[s \ {Max(s)}]>>]
    <3>1. Max(s) \in 1 .. n BY <2>2, LastPosition
    <3>2. iter[s] = iter[s \ {Max(s)}] + f[Max(s)] BY <1>6, <2>2 DEF SumsUp
    <3> QED BY <1>2, <2>2, <3>1, <3>2
  <2>3. Folds(iter, n, Nat, 0, step) BY <2>1, <2>2 DEF Folds
  <2>4. PICK h : Runs(h, n, Nat, 0, step, iter[1 .. n]) BY <1>1, <2>3, FoldRuns
  <2> QED BY <2>4 DEF Runs
<1> QED BY <1>5, <1>6

\* What the arenas of an interval have of a site.
LEMMA SiteSum ==
  ASSUME NEW arenas \in Seq(Arenas), NEW site
  PROVE  SiteAccesses(arenas, site) \in Nat
<1> DEFINE n == Len(arenas)
    Of(a) == IF a.site = site THEN a.dram + a.aep ELSE 0
    f == [k \in 1 .. n |-> Of(arenas[k])]
    Solves(iter) ==
      iter = [s \in SUBSET DOMAIN arenas |->
                IF s = {} THEN 0 ELSE iter[s \ {Max(s)}] + Of(arenas[Max(s)])]
    fold == CHOOSE iter : Solves(iter)
<1>1. n \in Nat /\ DOMAIN arenas = 1 .. n OBVIOUS
<1>2. f \in [1 .. n -> Nat]
  <2>1. \A k \in 1 .. n : arenas[k] \in Arenas OBVIOUS
  <2>2. \A a \in Arenas : Of(a) \in Nat BY DEF Arenas
  <2> HIDE DEF Of
  <2> QED BY <2>1, <2>2
<1>3. SiteAccesses(arenas, site) = fold[DOMAIN arenas]
  BY DEF SiteAccesses, SumOver, FoldLeft, MapThenFoldSet
<1> HIDE DEF Of
<1>4. \A s \in SUBSET (1 .. n) : s # {} => Of(arenas[Max(s)]) = f[Max(s)]
  BY <1>1, LastPosition
<1> HIDE DEF f
<1>5. \A iter : Solves(iter) <=> SumsUp(iter, n, f)
  <2> SUFFICES ASSUME NEW iter PROVE Solves(iter) <=> SumsUp(iter, n, f)
    OBVIOUS
  <2>1. [s \in SUBSET DOMAIN arenas |->
           IF s = {} THEN 0 ELSE iter[s \ {Max(s)}] + Of(arenas[Max(s)])]
      = [s \in SUBSET (1 .. n) |-> IF s = {} THEN 0 ELSE iter[s \ {Max(s)}] + f[Max(s)]]
    BY <1>1, <1>4
  <2> QED BY <2>1 DEF SumsUp
<1>6. Solves(fold)
  <2>1. \E iter : Solves(iter) BY <1>1, <1>2, <1>5, SumFold
  <2> HIDE DEF Solves
  <2> QED BY <2>1
<1> HIDE DEF Solves, fold, n
<1>7. fold[1 .. n] \in Nat BY <1>1, <1>2, <1>5, <1>6, SumFold
<1> QED BY <1>1, <1>3, <1>7

\* The sum of finitely many numbers is a number.
LEMMA NumberSum ==
  ASSUME NEW n \in Nat, NEW f \in [1 .. n -> Nat]
  PROVE  SumOver(f, LAMBDA x : x) \in Nat
<1> DEFINE Solves(iter) ==
      iter = [s \in SUBSET DOMAIN f |-> IF s = {} THEN 0 ELSE iter[s \ {Max(s)}] + f[Max(s)]]
    fold == CHOOSE iter : Solves(iter)
<1>1. DOMAIN f = 1 .. n OBVIOUS
<1>2. SumOver(f, LAMBDA x : x) = fold[DOMAIN f]
  BY DEF SumOver, FoldLeft, MapThenFoldSet
<1>3. \A iter : Solves(iter) <=> SumsUp(iter, n, f) BY <1>1 DEF SumsUp
<1>4. Solves(fold)
  <2>1. \E iter : Solves(iter) BY <1>3, SumFold
  <2> HIDE DEF Solves
  <2> QED BY <2>1
<1> HIDE DEF Solves, fold
<1>5. fold[1 .. n] \in Nat BY <1>3, <1>4, SumFold
<1> QED BY <1>1, <1>2, <1>5

\* The intervals of a profile are numbered, and each has arenas.
LEMMA ArenasAt ==
  ASSUME NEW p, IsProfile(p)
  PROVE  /\ LastInterval(p) \in Nat \ {0} /\ Intervals(p) = 1..LastInterval(p)
         /\ \A i \in Intervals(p) : p.intervals[i].arenas \in Seq(Arenas)
<1> DEFINE Interval == [time : Nat, rss_time : Nat, skt : Seq(Nat), reconfigure : Nat,
                        phase_change : BOOLEAN, arenas : Seq(Arenas)]
<1>1. p.intervals \in Seq(Interval) /\ p.intervals # <<>> BY DEF IsProfile
<1>2. \A interval \in Interval : interval.arenas \in Seq(Arenas) OBVIOUS
<1> HIDE DEF Interval
<1>3. DOMAIN p.intervals = 1..Len(p.intervals) /\ Len(p.intervals) \in Nat \ {0}
      /\ \A i \in 1..Len(p.intervals) : p.intervals[i] \in Interval
  BY <1>1
<1> QED BY <1>2, <1>3 DEF LastInterval, Intervals

\* The accesses to a site in an interval are a number.
LEMMA AccessesType ==
  ASSUME NEW p, IsProfile(p), NEW i \in Intervals(p), NEW site, NEW value
  PROVE  Accesses(p, i, site, value) \in Nat
<1> DEFINE of == IF value = "PROFILE_ALL_TOTAL" THEN 1..i ELSE {i}
    In(n) == SiteAccesses(p.intervals[n].arenas, site)
    f == [n \in 1..i |-> IF n \in of THEN In(n) ELSE 0]
<1>1. i \in Nat /\ \A n \in 1..i : p.intervals[n].arenas \in Seq(Arenas)
  BY ArenasAt DEF Intervals
<1>2. \A n \in 1..i : In(n) \in Nat BY <1>1, SiteSum
<1>3. Accesses(p, i, site, value) = SumOver(f, LAMBDA x : x) BY DEF Accesses
<1> HIDE DEF In, of
<1>4. f \in [1..i -> Nat] BY <1>2
<1> HIDE DEF f
<1>5. SumOver(f, LAMBDA x : x) \in Nat BY <1>1, <1>4, NumberSum
<1> QED BY <1>3, <1>5

-----------------------------------------------------------------------------
(* The orders of the sites.                                                *)

\* To multiply by a positive number keeps the order.
LEMMA Products ==
  ASSUME NEW a \in Int, NEW b \in Int, NEW c \in Nat \ {0}
  PROVE  /\ a * c \in Int /\ b * c \in Int
         /\ a > b <=> a * c > b * c
         /\ a = b <=> a * c = b * c
  OBVIOUS

\* Ratios, compared by their cross products, are ordered.
LEMMA CrossProducts ==
  ASSUME NEW a \in Int, NEW b \in Int, NEW c \in Int,
         NEW x \in Nat \ {0}, NEW y \in Nat \ {0}, NEW z \in Nat \ {0},
         a * y >= b * x, b * z >= c * y
  PROVE  /\ a * z >= c * x
         /\ a * z = c * x => a * y = b * x /\ b * z = c * y
<1>1. a * y \in Int /\ b * x \in Int /\ b * z \in Int /\ c * y \in Int /\ a * z \in Int
      /\ c * x \in Int
  OBVIOUS
<1>2. /\ (a * y) * z = (a * z) * y
      /\ (b * x) * z = (b * z) * x
      /\ (c * y) * x = (c * x) * y
  OBVIOUS
<1>3. (a * y) * z >= (b * x) * z /\ ((a * y) * z = (b * x) * z => a * y = b * x)
  BY <1>1, Products
<1>4. (b * z) * x >= (c * y) * x /\ ((b * z) * x = (c * y) * x => b * z = c * y)
  BY <1>1, Products
<1>5. PICK p, q, r \in Int : p = (a * z) * y /\ q = (b * x) * z /\ r = (c * x) * y
  <2>1. (a * z) * y \in Int /\ (b * x) * z \in Int /\ (c * x) * y \in Int BY <1>1
  <2> QED BY <2>1
<1>6. p >= q /\ q >= r BY <1>2, <1>3, <1>4, <1>5
<1>7. p >= r => a * z >= c * x BY <1>1, <1>5, Products
<1>8. a * z = c * x => p = q /\ q = r BY <1>5, <1>6
<1> QED BY <1>2, <1>3, <1>4, <1>5, <1>6, <1>7, <1>8

\* Sites with a number of accesses and a size.
AreSites(sites) ==
  /\ IsFiniteSet(sites)
  /\ \A s \in sites : s.site \in Nat /\ s.value \in Nat /\ s.weight \in Nat \ {0}
  /\ \A s, t \in sites : s.site = t.site => s = t

Earlier(sites, sort) == {pair \in sites \X sites : Before(pair[1], pair[2], sort)}

\* By accesses, by size or by their ratio: sites are strictly ordered.
LEMMA BeforeOrders ==
  ASSUME NEW sites, AreSites(sites), NEW sort
  PROVE  /\ StrictlyOrders(Earlier(sites, sort), sites)
         /\ \A s, t \in sites : s # t => \/ <<s, t>> \in Earlier(sites, sort)
                                         \/ <<t, s>> \in Earlier(sites, sort)
<1>1. \A s \in sites : s.site \in Nat /\ s.value \in Nat /\ s.weight \in Nat \ {0}
  BY DEF AreSites
<1>2. \A s, t \in sites : s.value * t.weight \in Int BY <1>1
<1>3. ASSUME NEW s \in sites PROVE ~Before(s, s, sort)
  BY <1>1, <1>2 DEF Before
<1>4. ASSUME NEW s \in sites, NEW t \in sites, NEW u \in sites,
             Before(s, t, sort), Before(t, u, sort)
      PROVE  Before(s, u, sort)
  <2>1. CASE sort = "WEIGHT" BY <1>1, <1>4, <2>1 DEF Before
  <2>2. CASE sort # "WEIGHT"
    <3>1. PICK st, ts, tu, ut, su, us \in Int :
            /\ st = s.value * t.weight /\ ts = t.value * s.weight
            /\ tu = t.value * u.weight /\ ut = u.value * t.weight
            /\ su = s.value * u.weight /\ us = u.value * s.weight
      BY <1>2
    <3>2. st > ts \/ (st = ts /\ s.site < t.site)
      <4>1. st - ts > 0 \/ (st - ts = 0 /\ s.site < t.site) BY <1>4, <2>2, <3>1 DEF Before
      <4> QED BY <4>1
    <3>3. tu > ut \/ (tu = ut /\ t.site < u.site)
      <4>1. tu - ut > 0 \/ (tu - ut = 0 /\ t.site < u.site) BY <1>4, <2>2, <3>1 DEF Before
      <4> QED BY <4>1
    <3>4. su >= us /\ (su = us => st = ts /\ tu = ut)
      BY <1>1, <3>1, <3>2, <3>3, CrossProducts
    <3>5. su > us \/ (su = us /\ s.site < u.site) BY <1>1, <3>2, <3>3, <3>4
    <3>6. su - us > 0 \/ (su - us = 0 /\ s.site < u.site) BY <3>5
    <3> QED BY <2>2, <3>1, <3>6 DEF Before
  <2> QED BY <2>1, <2>2
<1>5. ASSUME NEW s \in sites, NEW t \in sites, s # t
      PROVE  Before(s, t, sort) \/ Before(t, s, sort)
  <2>1. s.site # t.site BY <1>5 DEF AreSites
  <2>2. CASE sort = "WEIGHT" BY <1>1, <2>1, <2>2 DEF Before
  <2>3. CASE sort # "WEIGHT"
    <3>1. PICK st, ts \in Int : st = s.value * t.weight /\ ts = t.value * s.weight BY <1>2
    <3>2. \/ st - ts > 0 \/ (st - ts = 0 /\ s.site < t.site)
          \/ ts - st > 0 \/ (ts - st = 0 /\ t.site < s.site)
      BY <1>1, <2>1
    <3> QED BY <2>3, <3>1, <3>2 DEF Before
  <2> QED BY <2>2, <2>3
<1> QED BY <1>3, <1>4, <1>5 DEF Earlier, StrictlyOrders

\* Every site has its place in the order, and every place one site.
LEMMA InOrderLists ==
  ASSUME NEW sites, AreSites(sites), NEW sort
  PROVE  /\ Cardinality(sites) \in Nat
         /\ DOMAIN InOrder(sites, sort) = 1..Cardinality(sites)
         /\ InOrder(sites, sort) \in [1..Cardinality(sites) -> sites]
         /\ \A n \in 1..Cardinality(sites) : \A s \in sites :
              InOrder(sites, sort)[n] = s <=> Rank(s, sites, sort) = n - 1
         /\ \A s \in sites : Rank(s, sites, sort) \in 0..Cardinality(sites) - 1
<1> DEFINE m == Cardinality(sites)
    R == Earlier(sites, sort)
    rank == [s \in sites |-> Cardinality(Below(R, sites, s))]
    list == InOrder(sites, sort)
<1>1. IsFiniteSet(sites) /\ m \in Nat BY FS_CardinalityType DEF AreSites
<1>2. rank \in Bijection(sites, 0 .. m - 1)
  <2>1. /\ StrictlyOrders(R, sites)
        /\ \A s, t \in sites : s # t => <<s, t>> \in R \/ <<t, s>> \in R
    BY BeforeOrders
  <2> HIDE DEF R
  <2> QED BY <1>1, <2>1, RanksNumber
<1>3. ASSUME NEW s \in sites PROVE rank[s] = Rank(s, sites, sort)
  <2>1. Below(R, sites, s) = {t \in sites : Before(t, s, sort)} BY DEF Below, Earlier
  <2> QED BY <2>1 DEF Rank
<1> HIDE DEF rank, m
<1>4. /\ rank \in [sites -> 0 .. m - 1]
      /\ \A s, t \in sites : rank[s] = rank[t] => s = t
      /\ \A k \in 0 .. m - 1 : \E s \in sites : rank[s] = k
  BY <1>2 DEF Bijection, Injection, IsInjective, Surjection
<1>5. ASSUME NEW n \in 1 .. m
      PROVE  /\ list[n] \in sites
             /\ \A s \in sites : list[n] = s <=> Rank(s, sites, sort) = n - 1
  <2>1. n - 1 \in 0 .. m - 1 BY <1>1
  <2>2. \E s \in sites : Rank(s, sites, sort) = n - 1 BY <1>3, <1>4, <2>1
  <2>3. list[n] = CHOOSE s \in sites : Rank(s, sites, sort) = n - 1 BY DEF InOrder, m
  <2>4. list[n] \in sites /\ Rank(list[n], sites, sort) = n - 1 BY <2>2, <2>3
  <2> QED BY <1>3, <1>4, <2>4
<1>6. DOMAIN list = 1 .. m /\ list = [n \in 1 .. m |-> list[n]] BY DEF InOrder, m
<1> HIDE DEF list
<1>7. list \in [1 .. m -> sites] BY <1>5, <1>6
<1> QED BY <1>1, <1>3, <1>4, <1>5, <1>6, <1>7 DEF list, m

\* The positions of the sites that are larger, or as large and numbered before.
Larger(n, site, weight, k) ==
  {l \in 1..n : weight[l] > weight[k] \/ (weight[l] = weight[k] /\ site[l] < site[k])}

\* n arenas have these sites and sizes.
AreKeys(n, site, weight) ==
  /\ n \in Nat /\ site \in [1..n -> Nat] /\ weight \in [1..n -> Nat \ {0}]
  /\ \A k, l \in 1..n : k # l => site[k] # site[l]

\* r[k] is the site of arena k.
IsListOf(r, n, site, weight, sites) ==
  /\ \A k \in 1..n : r[k].site = site[k] /\ r[k].weight = weight[k]
  /\ sites = {r[k] : k \in 1..n}
  /\ AreSites(sites) /\ Cardinality(sites) = n

\* By size, a site is behind these, whatever the accesses.
LEMMA RankByWeight ==
  ASSUME NEW n, NEW site, NEW weight, AreKeys(n, site, weight),
         NEW r, NEW sites, IsListOf(r, n, site, weight, sites), NEW k \in 1..n
  PROVE  Rank(r[k], sites, "WEIGHT") = Cardinality(Larger(n, site, weight, k))
<1> USE DEF AreKeys, IsListOf
<1> DEFINE L == {l \in 1..n : \/ weight[l] > weight[k]
                              \/ weight[l] = weight[k] /\ site[l] < site[k]}
    T == {t \in sites : Before(t, r[k], "WEIGHT")}
    f == [l \in L |-> r[l]]
<1>1. \A l \in 1..n : l \in L <=> Before(r[l], r[k], "WEIGHT") BY DEF Before
<1>2. \A l, m \in 1..n : r[l] = r[m] => l = m
  <2> TAKE l, m \in 1..n
  <2>1. r[l] = r[m] => site[l] = site[m]
    <3>1. r[l].site = site[l] /\ r[m].site = site[m] OBVIOUS
    <3> QED BY <3>1
  <2> QED BY <2>1
<1>3. \A t \in T : \E l \in L : r[l] = t
  <2> TAKE t \in T
  <2>1. PICK l \in 1..n : t = r[l] OBVIOUS
  <2> QED BY <1>1, <2>1
<1>4. \A l \in L : r[l] \in T
  <2> TAKE l \in L
  <2>1. l \in 1..n /\ r[l] \in sites OBVIOUS
  <2> QED BY <1>1, <2>1
<1>5. L \in SUBSET (1..n) OBVIOUS
<1>6. IsFiniteSet(L)
  <2>1. IsFiniteSet(1..n) BY FS_Interval
  <2> HIDE DEF L
  <2> QED BY <1>5, <2>1, FS_Subset
<1> HIDE DEF L, T
<1>7. f \in [L -> T] BY <1>4
<1>8. \A l, m \in L : f[l] = f[m] => l = m BY <1>2, <1>5
<1>9. \A t \in T : \E l \in L : f[l] = t BY <1>3
<1> HIDE DEF f
<1>10. f \in Bijection(L, T)
  BY <1>7, <1>8, <1>9 DEF Bijection, Injection, IsInjective, Surjection
<1>11. Cardinality(T) = Cardinality(L)
  BY <1>6, <1>10, FS_Bijection DEF ExistsBijection
<1> QED BY <1>11 DEF Rank, T, L, Larger

\* The numbers from 1 to n are n.
LEMMA Positions == ASSUME NEW n \in Nat PROVE IsFiniteSet(1..n) /\ Cardinality(1..n) = n
<1>1. Cardinality(1..n) = IF 1 > n THEN 0 ELSE n - 1 + 1 BY FS_Interval
<1> QED BY <1>1, FS_Interval

\* The number of arenas of an interval, their sites and their sizes.
NumberIn(p, i) == Len(p.intervals[i].arenas)
SiteIn(p, i) == [k \in 1..NumberIn(p, i) |-> p.intervals[i].arenas[k].site]
SizeIn(p, i) == [k \in 1..NumberIn(p, i) |-> p.intervals[i].arenas[k].peak]

\* The sites of an interval, for any value.
LEMMA SitesAtType ==
  ASSUME NEW p, IsProfile(p), NEW i \in Intervals(p), NEW value
  PROVE  /\ AreKeys(NumberIn(p, i), SiteIn(p, i), SizeIn(p, i))
         /\ \E r : IsListOf(r, NumberIn(p, i), SiteIn(p, i), SizeIn(p, i), SitesAt(p, i, value))
<1> DEFINE arenas == p.intervals[i].arenas
    n == NumberIn(p, i)
    r == [k \in 1..n |-> [site |-> arenas[k].site,
                         value |-> Accesses(p, i, arenas[k].site, value),
                         weight |-> arenas[k].peak, dev |-> arenas[k].dev,
                         hot |-> arenas[k].hot]]
    S == {r[k] : k \in 1..n}
<1>1. arenas \in Seq(Arenas) BY ArenasAt
<1>2. n \in Nat /\ DOMAIN arenas = 1..n /\ \A k \in 1..n : arenas[k] \in Arenas
  BY <1>1 DEF NumberIn
<1> HIDE DEF n
<1>3. \A k \in 1..n : arenas[k].site \in Nat /\ arenas[k].peak \in Nat \ {0}
  BY <1>2 DEF Arenas
<1>4. \A k, l \in 1..n : k # l => arenas[k].site # arenas[l].site
  <2>1. i \in DOMAIN p.intervals BY DEF Intervals
  <2>2. \A k, l \in DOMAIN arenas : k # l => arenas[k].site # arenas[l].site
    BY <2>1 DEF IsProfile
  <2> QED BY <1>2, <2>2
<1>5. SitesAt(p, i, value) = S BY <1>2 DEF SitesAt
<1>6. \A k \in 1..n : /\ r[k].site = arenas[k].site /\ r[k].weight = arenas[k].peak
                      /\ r[k].value \in Nat
  BY AccessesType
<1> HIDE DEF r, arenas
<1>7. \A k, l \in 1..n : r[k] = r[l] => k = l
  <2> TAKE k, l \in 1..n
  <2>1. r[k] = r[l] => arenas[k].site = arenas[l].site
    <3>1. r[k].site = arenas[k].site /\ r[l].site = arenas[l].site BY <1>6
    <3> QED BY <3>1
  <2> QED BY <1>4, <2>1
<1>8. IsFiniteSet(S) /\ Cardinality(S) = n
  <2> DEFINE g == [k \in 1..n |-> r[k]]
  <2>1. g \in [1..n -> S] /\ (\A k, l \in 1..n : g[k] = g[l] => k = l)
        /\ \A s \in S : \E k \in 1..n : g[k] = s
    BY <1>7
  <2> HIDE DEF g, S
  <2>2. g \in Bijection(1..n, S) BY <2>1 DEF Bijection, Injection, IsInjective, Surjection
  <2>3. IsFiniteSet(1..n) /\ Cardinality(1..n) = n BY <1>2, Positions
  <2> QED BY <2>2, <2>3, FS_Bijection DEF ExistsBijection
<1>9. \A s \in S : s.site \in Nat /\ s.value \in Nat /\ s.weight \in Nat \ {0}
  <2> TAKE s \in S
  <2>1. PICK k \in 1..n : s = r[k] OBVIOUS
  <2> QED BY <1>3, <1>6, <2>1
<1>10. \A s, t \in S : s.site = t.site => s = t
  <2> TAKE s, t \in S
  <2>1. PICK k \in 1..n : s = r[k] OBVIOUS
  <2>2. PICK l \in 1..n : t = r[l] OBVIOUS
  <2> QED BY <1>4, <1>6, <2>1, <2>2
<1>11. AreSites(S)
  <2> HIDE DEF S
  <2> QED BY <1>8, <1>9, <1>10 DEF AreSites
<1>12. \A k \in 1..n : SiteIn(p, i)[k] = arenas[k].site /\ SizeIn(p, i)[k] = arenas[k].peak
  BY DEF SiteIn, SizeIn, n, arenas
<1>13. AreKeys(n, SiteIn(p, i), SizeIn(p, i))
  BY <1>2, <1>3, <1>4 DEF AreKeys, SiteIn, SizeIn, n, arenas
<1>14. IsListOf(r, n, SiteIn(p, i), SizeIn(p, i), S)
  BY <1>6, <1>8, <1>11, <1>12 DEF IsListOf
<1> QED BY <1>5, <1>13, <1>14 DEF n

\* Where there are not too many sites, all are top sites.
LEMMA AllAreTop ==
  ASSUME NEW p, IsProfile(p), NEW value, TopSites \in Nat,
         Len(p.intervals[LastInterval(p)].arenas) <= TopSites,
         NEW s \in SitesAt(p, LastInterval(p), value)
  PROVE  s.site \in TopOf(p, value)
<1> DEFINE i == LastInterval(p)
    sites == SitesAt(p, i, value)
    m == Cardinality(sites)
    list == site_tree(p, i, value, "VALUE_PER_WEIGHT")
<1>1. i \in Intervals(p) BY ArenasAt
<1>2. AreSites(sites) /\ m \in Nat /\ m <= TopSites
  <2> HIDE DEF i
  <2>1. AreSites(sites) /\ m = NumberIn(p, i) /\ NumberIn(p, i) \in Nat
    BY <1>1, SitesAtType DEF AreKeys, IsListOf
  <2> QED BY <2>1 DEF i, NumberIn
<1>3. list = InOrder(sites, "VALUE_PER_WEIGHT") BY DEF site_tree
<1> HIDE DEF i, sites, list
<1>4. /\ list \in [1..m -> sites]
      /\ \A n \in 1..m : list[n] = s <=> Rank(s, sites, "VALUE_PER_WEIGHT") = n - 1
      /\ Rank(s, sites, "VALUE_PER_WEIGHT") \in 0..m - 1
  <2>1. s \in sites BY DEF sites, i
  <2> QED BY <1>2, <1>3, <2>1, InOrderLists
<1> HIDE DEF m
<1>5. PICK n \in 1..m : list[n] = s
  <2>1. PICK k \in 0..m - 1 : k = Rank(s, sites, "VALUE_PER_WEIGHT") BY <1>4
  <2>2. k + 1 \in 1..m /\ k = (k + 1) - 1 BY <1>2, <2>1
  <2> QED BY <1>4, <2>1, <2>2
<1>6. list \in Seq(sites) /\ Len(list) = m BY <1>2, <1>4
<1>7. (IF Len(list) < TopSites THEN Len(list) ELSE TopSites) = m BY <1>2, <1>6
<1>8. SubSeq(list, 1, m) \in Seq(sites) /\ Len(SubSeq(list, 1, m)) = m
      /\ SubSeq(list, 1, m)[n] = list[n]
  BY <1>2, <1>5, <1>6
<1>9. n \in DOMAIN SubSeq(list, 1, m) BY <1>2, <1>8
<1>10. s.site \in SitesOf(SubSeq(list, 1, m)) BY <1>5, <1>8, <1>9 DEF SitesOf
<1> QED BY <1>7, <1>10 DEF TopOf, top_sites, list, i

\* By size, the sites have the same order whatever their accesses.
LEMMA SameOrder ==
  ASSUME NEW n, NEW site, NEW weight, AreKeys(n, site, weight),
         NEW r, NEW S, IsListOf(r, n, site, weight, S),
         NEW q, NEW T, IsListOf(q, n, site, weight, T), NEW m \in 1..n
  PROVE  InOrder(S, "WEIGHT")[m].site = InOrder(T, "WEIGHT")[m].site
<1>0. AreSites(S) /\ Cardinality(S) = n /\ AreSites(T) /\ Cardinality(T) = n
  BY DEF IsListOf
<1>1. InOrder(S, "WEIGHT")[m] \in S
      /\ \A s \in S : InOrder(S, "WEIGHT")[m] = s <=> Rank(s, S, "WEIGHT") = m - 1
  BY <1>0, InOrderLists
<1>2. \A t \in T : InOrder(T, "WEIGHT")[m] = t <=> Rank(t, T, "WEIGHT") = m - 1
  BY <1>0, InOrderLists
<1>3. PICK k \in 1..n : InOrder(S, "WEIGHT")[m] = r[k] BY <1>1 DEF IsListOf
<1>4. Rank(r[k], S, "WEIGHT") = m - 1 BY <1>1, <1>3
<1>5. Rank(r[k], S, "WEIGHT") = Rank(q[k], T, "WEIGHT")
  <2>1. Rank(r[k], S, "WEIGHT") = Cardinality(Larger(n, site, weight, k)) BY RankByWeight
  <2>2. Rank(q[k], T, "WEIGHT") = Cardinality(Larger(n, site, weight, k)) BY RankByWeight
  <2> QED BY <2>1, <2>2
<1>6. q[k] \in T /\ r[k].site = q[k].site BY DEF IsListOf
<1>7. InOrder(T, "WEIGHT")[m] = q[k] BY <1>2, <1>4, <1>5, <1>6
<1> QED BY <1>3, <1>6, <1>7

\* A heat map of all sites in the order of their sizes has the columns of its
\* weight ratios, although it is of other values.
LEMMA SameColumnsByWeight ==
  ASSUME NEW p, IsProfile(p), TopSites \in Nat,
         Len(p.intervals[LastInterval(p)].arenas) <= TopSites
  PROVE  Columns(p, "PROFILE_ALL_CURRENT", "WEIGHT", TRUE)
           = Columns(p, "PROFILE_ALL_TOTAL", "WEIGHT", TRUE)
<1> DEFINE i == LastInterval(p)
    S == SitesAt(p, i, "PROFILE_ALL_CURRENT")
    T == SitesAt(p, i, "PROFILE_ALL_TOTAL")
    n == NumberIn(p, i)
<1>1. i \in Intervals(p) BY ArenasAt
<1>2. {s \in S : s.site \in TopOf(p, "PROFILE_ALL_CURRENT")} = S
      /\ {s \in T : s.site \in TopOf(p, "PROFILE_ALL_TOTAL")} = T
  <2>1. \A s \in S : s.site \in TopOf(p, "PROFILE_ALL_CURRENT") BY AllAreTop
  <2>2. \A s \in T : s.site \in TopOf(p, "PROFILE_ALL_TOTAL") BY AllAreTop
  <2> HIDE DEF S, T
  <2> QED BY <2>1, <2>2
<1>3. /\ Shown(p, "PROFILE_ALL_CURRENT", "WEIGHT", TRUE) = InOrder(S, "WEIGHT")
      /\ Shown(p, "PROFILE_ALL_TOTAL", "WEIGHT", TRUE) = InOrder(T, "WEIGHT")
  BY <1>2 DEF Shown
<1> HIDE DEF i
<1>4. AreKeys(n, SiteIn(p, i), SizeIn(p, i)) BY <1>1, SitesAtType
<1>5. PICK r : IsListOf(r, n, SiteIn(p, i), SizeIn(p, i), S) BY <1>1, SitesAtType
<1>6. PICK q : IsListOf(q, n, SiteIn(p, i), SizeIn(p, i), T) BY <1>1, SitesAtType
<1> HIDE DEF S, T, n
<1>7. \A m \in 1..n : InOrder(S, "WEIGHT")[m].site = InOrder(T, "WEIGHT")[m].site
  BY <1>4, <1>5, <1>6, SameOrder
<1>8. AreSites(S) /\ Cardinality(S) = n /\ AreSites(T) /\ Cardinality(T) = n
  BY <1>5, <1>6 DEF IsListOf
<1>9. DOMAIN InOrder(S, "WEIGHT") = 1..n /\ DOMAIN InOrder(T, "WEIGHT") = 1..n
  BY <1>8, InOrderLists
<1> QED BY <1>3, <1>7, <1>9 DEF Columns

-----------------------------------------------------------------------------
(* The tables.                                                             *)

\* Len of a function that is written out.
LEMMA LenOf ==
  ASSUME NEW n \in Nat, NEW f, f = [k \in 1..n |-> f[k]]
  PROVE  Len(f) = n
<1>1. f \in [1..n -> {f[k] : k \in 1..n}] OBVIOUS
<1>2. f \in Seq({f[k] : k \in 1..n}) BY <1>1
<1> QED BY <1>1, <1>2

\* A header has one column for each of the sites shown.
LEMMA ColumnsAreNumbered ==
  ASSUME NEW p, IsProfile(p), NEW value, NEW sort, NEW top100
  PROVE  \E m \in Nat : /\ DOMAIN Shown(p, value, sort, top100) = 1..m
                        /\ DOMAIN Columns(p, value, sort, top100) = 1..m
                        /\ Len(Columns(p, value, sort, top100)) = m
<1> DEFINE i == LastInterval(p)
    S == {s \in SitesAt(p, i, value) : top100 => s.site \in TopOf(p, value)}
    m == Cardinality(S)
    shown == Shown(p, value, sort, top100)
    columns == Columns(p, value, sort, top100)
<1>1. IsFiniteSet(SitesAt(p, i, value))
  <2>1. i \in Intervals(p) BY ArenasAt
  <2> HIDE DEF i
  <2>2. AreSites(SitesAt(p, i, value)) BY <2>1, SitesAtType DEF IsListOf
  <2> QED BY <2>2 DEF AreSites
<1>2. m \in Nat
  <2>1. S \in SUBSET SitesAt(p, i, value) OBVIOUS
  <2> HIDE DEF S
  <2>2. IsFiniteSet(S) BY <1>1, <2>1, FS_Subset
  <2> QED BY <2>2, FS_CardinalityType
<1>3. DOMAIN shown = 1..m BY DEF Shown, InOrder
<1> HIDE DEF m, S, shown
<1>4. columns = [n \in 1..m |-> shown[n].site] BY <1>3 DEF Columns, shown
<1>5. DOMAIN columns = 1..m /\ columns = [n \in 1..m |-> columns[n]] BY <1>4
<1> HIDE DEF columns
<1>6. Len(columns) = m BY <1>2, <1>5, LenOf
<1> QED BY <1>2, <1>3, <1>5, <1>6 DEF shown, columns

\* The rows of the hot sets' differences fit their header.
LEMMA HotsetDiffFits ==
  ASSUME NEW p, IsProfile(p), NEW sort, NEW top100
  PROVE  LET table == generate_hotset_diff_table(p, top100, sort)
         IN  table.header = Columns(p, "PROFILE_ALL_TOTAL", sort, top100) /\ RowsFitHeader(table)
<1> DEFINE table == generate_hotset_diff_table(p, top100, sort)
    header == Columns(p, "PROFILE_ALL_TOTAL", sort, top100)
<1>1. PICK m \in Nat : DOMAIN header = 1..m /\ Len(header) = m BY ColumnsAreNumbered
<1> HIDE DEF header
<1>2. table.header = header /\ DOMAIN table.rows = Intervals(p)
  BY DEF generate_hotset_diff_table, header
<1>3. ASSUME NEW i \in Intervals(p) PROVE Len(table.rows[i]) = m
  <2>1. table.rows[i] = [n \in DOMAIN header |-> table.rows[i][n]]
    BY DEF generate_hotset_diff_table, header
  <2> HIDE DEF table
  <2> QED BY <1>1, <2>1, LenOf
<1> HIDE DEF table
<1>4. RowsFitHeader(table) BY <1>1, <1>2, <1>3 DEF RowsFitHeader
<1> QED BY <1>2, <1>4 DEF table, header

\* The rows of the ratios of weights fit their header.
LEMMA WeightRatiosFit ==
  ASSUME NEW p, IsProfile(p), NEW sort, NEW top100
  PROVE  LET table == generate_weight_ratio_table(p, top100, sort)
         IN  table.header = Columns(p, "PROFILE_ALL_TOTAL", sort, top100) /\ RowsFitHeader(table)
<1> DEFINE table == generate_weight_ratio_table(p, top100, sort)
    shown == Shown(p, "PROFILE_ALL_TOTAL", sort, top100)
    header == Columns(p, "PROFILE_ALL_TOTAL", sort, top100)
<1>1. PICK m \in Nat : DOMAIN shown = 1..m /\ Len(header) = m BY ColumnsAreNumbered
<1>2. table.header = header BY DEF generate_weight_ratio_table, Columns
<1>3. table.rows = <<table.rows[1]>> /\ table.rows[1] = [n \in DOMAIN shown |-> table.rows[1][n]]
  BY DEF generate_weight_ratio_table
<1> HIDE DEF table, shown, header
<1>4. Len(table.rows[1]) = m BY <1>1, <1>3, LenOf
<1>5. DOMAIN table.rows = {1} BY <1>3
<1>6. RowsFitHeader(table) BY <1>1, <1>2, <1>4, <1>5 DEF RowsFitHeader
<1> QED BY <1>2, <1>6 DEF table, header

\* The rows of a heat map fit their header.
LEMMA HeatmapFits ==
  ASSUME NEW p, IsProfile(p), NEW sort, NEW top100
  PROVE  LET table == generate_heatmap_table(p, top100, sort)
         IN  table.header = Columns(p, "PROFILE_ALL_CURRENT", sort, top100) /\ RowsFitHeader(table)
<1> DEFINE table == generate_heatmap_table(p, top100, sort)
    header == Columns(p, "PROFILE_ALL_CURRENT", sort, top100)
<1>1. PICK m \in Nat : DOMAIN header = 1..m /\ Len(header) = m BY ColumnsAreNumbered
<1> HIDE DEF header
<1>2. table.header = header /\ DOMAIN table.rows = Intervals(p)
  BY DEF generate_heatmap_table, header
<1>3. ASSUME NEW i \in Intervals(p) PROVE Len(table.rows[i]) = m
  <2>1. table.rows[i] = [n \in DOMAIN header |-> table.rows[i][n]]
    BY DEF generate_heatmap_table, header
  <2> HIDE DEF table
  <2> QED BY <1>1, <2>1, LenOf
<1> HIDE DEF table
<1>4. RowsFitHeader(table) BY <1>1, <1>2, <1>3 DEF RowsFitHeader
<1> QED BY <1>2, <1>4 DEF table, header

\* The tables of an online graph have no header and a column for each interval.
IsOnline(table, p) ==
  table.header = <<>> /\ table.rows[1] = [i \in Intervals(p) |-> table.rows[1][i]]

\* The tables of the online metrics have a column for every interval.
LEMMA OnlineTablesLineUp ==
  ASSUME NEW p, IsProfile(p), NEW site, NEW metric \in SicmGraphs,
         metric \notin HotsetDiffs \cup Heatmaps
  PROVE  /\ 1 \in DOMAIN Tables(metric, p, site)
         /\ \A n \in DOMAIN Tables(metric, p, site) : IsOnline(Tables(metric, p, site)[n], p)
<1>1. PICK a, b, c : /\ OnlineTables(p) = <<a, b, c>>
                     /\ IsOnline(a, p) /\ IsOnline(b, p) /\ IsOnline(c, p)
  <2>1. /\ IsOnline(generate_reconfigure_table(p), p)
        /\ IsOnline(generate_phase_change_table(p), p)
        /\ IsOnline(generate_interval_time_table(p), p)
    BY DEF generate_reconfigure_table, generate_phase_change_table,
           generate_interval_time_table, PerInterval, IsOnline
  <2> QED BY <2>1 DEF OnlineTables
<1>2. /\ IsOnline(generate_bandwidth_table(p), p) /\ IsOnline(generate_hot_aep_acc_table(p), p)
      /\ IsOnline(generate_aep_acc_table(p), p) /\ IsOnline(generate_offhot_aep_acc_table(p), p)
      /\ IsOnline(generate_dev_aep_acc_table(p), p)
      /\ IsOnline(generate_site_aep_acc_table(p, site), p)
  BY DEF generate_bandwidth_table, generate_hot_aep_acc_table, generate_aep_acc_table,
         generate_offhot_aep_acc_table, generate_dev_aep_acc_table,
         generate_site_aep_acc_table, AepTable, PerInterval, IsOnline
<1>3. \E t : IsOnline(t, p) /\ Tables(metric, p, site) = <<t>> \o OnlineTables(p)
  BY <1>2 DEF Tables, SicmGraphs, HotsetDiffs, Heatmaps, graph_online_bandwidth,
              graph_online_hot_aep_acc, graph_online_aep_acc, graph_online_offhot_aep_acc,
              graph_online_dev_aep_acc, graph_online_site_aep_acc
<1>4. PICK t : IsOnline(t, p) /\ Tables(metric, p, site) = <<t>> \o <<a, b, c>>
  BY <1>1, <1>3
<1>5. PICK one, rest, both : one = <<t>> /\ rest = <<a, b, c>> /\ both = one \o rest OBVIOUS
<1>6. one \in Seq({t, a, b, c}) /\ rest \in Seq({t, a, b, c}) /\ Len(one) = 1 /\ Len(rest) = 3
      /\ one[1] = t /\ \A n \in 1..3 : IsOnline(rest[n], p)
  BY <1>1, <1>5
<1>7. DOMAIN both = 1..4 /\ both[1] = one[1] /\ \A n \in 2..4 : both[n] = rest[n - 1]
  <2>1. both \in Seq({t, a, b, c}) /\ Len(both) = 4 BY <1>5, <1>6
  <2>2. both[1] = one[1] /\ \A n \in 2..4 : both[n] = rest[n - 1]
    <3>1. \A n \in 1..4 : both[n] = IF n <= 1 THEN one[n] ELSE rest[n - 1] BY <1>5, <1>6
    <3> QED BY <3>1
  <2> QED BY <2>1, <2>2
<1>8. \A n \in 1..4 : IsOnline(both[n], p)
  <2> TAKE n \in 1..4
  <2>1. CASE n = 1 BY <1>4, <1>6, <1>7, <2>1
  <2>2. CASE n # 1
    <3>1. n - 1 \in 1..3 /\ n \in 2..4 BY <2>2
    <3> QED BY <1>6, <1>7, <3>1
  <2> QED BY <2>1, <2>2
<1> QED BY <1>4, <1>5, <1>7, <1>8

\* The scripts read tables side by side that have the same columns.
THEOREM TablesLineUp == Spec => []ColumnsLineUp
<1>1. StatInv => ColumnsLineUp
  <2> SUFFICES ASSUME StatInv, cmd.metric \in SicmGraphs, NEW g \in DOMAIN graphs
               PROVE  /\ \A n \in DOMAIN graphs[g].tables : RowsFitHeader(graphs[g].tables[n])
                      /\ \/ SameColumns(graphs[g])
                         \/ cmd.metric \in {"graph_heatmap_weighted", "graph_heatmap_top100"}
                         \/ /\ cmd.metric = "graph_heatmap_proposal"
                            /\ Len(Profile(graphs[g].of)
                                     .intervals[LastInterval(Profile(graphs[g].of))].arenas)
                                 > TopSites
    BY DEF ColumnsLineUp
  <2>0. Typed /\ Drawn BY DEF StatInv
  <2>1. PICK o \in Sources, site \in SiteArguments :
          graphs[g].of = o /\ graphs[g].tables = Tables(cmd.metric, Profile(o), site)
    <3>1. graphs \in Seq(Pictures) BY <2>0 DEF Drawn
    <3>2. graphs[g] \in Pictures BY <3>1
    <3> QED BY <3>2 DEF Pictures
  <2>2. PICK p, metric, t : p = Profile(o) /\ metric = cmd.metric /\ t = graphs[g].tables OBVIOUS
  <2>3. metric \in SicmGraphs /\ t = Tables(metric, p, site) BY <2>1, <2>2
  <2>4. IsProfile(p)
    <3>1. /\ o.config \in DOMAIN Directory /\ o.iter \in DOMAIN Directory[o.config]
          /\ Directory[o.config][o.iter] # Missing
      BY DEF Sources
    <3>2. IsFileOf(metric, p) BY <2>0, <2>2, <3>1, CommandTypes DEF FilesAre, Profile
    <3> QED BY <2>3, <3>2 DEF IsFileOf
  <2>5. CASE metric \in HotsetDiffs
    <3>1. PICK top100 \in BOOLEAN :
            t = <<generate_hotset_diff_table(p, top100, "VALUE_PER_WEIGHT"),
                  generate_weight_ratio_table(p, top100, "VALUE_PER_WEIGHT")>>
      BY <2>3, <2>5 DEF Tables, HotsetDiffs, graph_hotset_diff
    <3>2. RowsFitHeader(t[1]) /\ RowsFitHeader(t[2]) /\ t[1].header = t[2].header
      BY <2>4, <3>1, HotsetDiffFits, WeightRatiosFit
    <3>3. DOMAIN t = {1, 2} BY <3>1
    <3>4. SameColumns(graphs[g]) BY <2>2, <2>5, <3>2 DEF SameColumns, Titled
    <3> QED BY <2>2, <3>2, <3>3, <3>4
  <2>6. CASE metric \in Heatmaps
    <3>1. PICK top100 \in BOOLEAN, sort \in {"WEIGHT", "VALUE_PER_WEIGHT"} :
            /\ t = <<generate_heatmap_table(p, top100, sort),
                     generate_weight_ratio_table(p, top100, sort)>>
            /\ metric = "graph_heatmap_proposal" => top100 = TRUE /\ sort = "WEIGHT"
      BY <2>3, <2>6 DEF Tables, Heatmaps, graph_heatmap
    <3>2. /\ RowsFitHeader(t[1]) /\ RowsFitHeader(t[2])
          /\ t[1].header = Columns(p, "PROFILE_ALL_CURRENT", sort, top100)
          /\ t[2].header = Columns(p, "PROFILE_ALL_TOTAL", sort, top100)
      BY <2>4, <3>1, HeatmapFits, WeightRatiosFit
    <3>3. DOMAIN t = {1, 2} BY <3>1
    <3>4. ASSUME metric = "graph_heatmap_proposal",
                 ~(Len(p.intervals[LastInterval(p)].arenas) > TopSites)
          PROVE  SameColumns(graphs[g])
      <4>1. TopSites \in Nat BY StatAssumption
      <4>2. Len(p.intervals[LastInterval(p)].arenas) \in Nat
        <5>1. p.intervals[LastInterval(p)].arenas \in Seq(Arenas) BY <2>4, ArenasAt
        <5> QED BY <5>1
      <4>3. Len(p.intervals[LastInterval(p)].arenas) <= TopSites BY <3>4, <4>1, <4>2
      <4>4. t[1].header = t[2].header
        BY <2>4, <3>1, <3>2, <3>4, <4>1, <4>3, SameColumnsByWeight
      <4> QED BY <2>2, <2>6, <4>4 DEF SameColumns, Titled
    <3>5. metric \in {"graph_heatmap_weighted", "graph_heatmap_top100", "graph_heatmap_proposal"}
      BY <2>6 DEF Heatmaps
    <3>6. \A n \in DOMAIN t : RowsFitHeader(t[n]) BY <3>2, <3>3
    <3> QED BY <2>1, <2>2, <3>4, <3>5, <3>6
  <2>7. CASE metric \notin HotsetDiffs \cup Heatmaps
    <3>1. \A n \in DOMAIN t : IsOnline(t[n], p)
      BY <2>3, <2>4, <2>7, OnlineTablesLineUp
    <3>2. PICK k \in Nat : Intervals(p) = 1..k BY <2>4, ArenasAt
    <3>3. \A n \in DOMAIN t : t[n].header = <<>> /\ Len(t[n].rows[1]) = k
      BY <3>1, <3>2, LenOf DEF IsOnline
    <3>4. 1 \in DOMAIN t BY <2>3, <2>4, <2>7, OnlineTablesLineUp
    <3>5. SameColumns(graphs[g]) BY <2>2, <2>7, <3>3, <3>4 DEF SameColumns, Titled
    <3>6. \A n \in DOMAIN t : RowsFitHeader(t[n]) BY <3>3 DEF RowsFitHeader
    <3> QED BY <2>2, <3>5, <3>6
  <2> QED BY <2>5, <2>6, <2>7
<1> QED BY <1>1, InvHolds, PTL

==============================================================================
