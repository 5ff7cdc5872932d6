---------------------------- MODULE JgraphProcess ----------------------------
(****************************************************************************)
(* How jgraph works the defaults and the places out (tools/jgraph/process.c  *)
(* and the conversions of draw.c): the axes first, then hash                 *)
(* marks, labels, curves, the legend, the title, and the bounding box.       *)
(*                                                                           *)
(* Values are in hundredths of the axes' units, places in hundredths of a    *)
(* point.  Labels are turned by right angles only.  A logarithm is exact at  *)
(* the powers of its base and straight between them.                         *)
(****************************************************************************)
EXTENDS JgraphEdit

CONSTANTS Precise   \* from here on a float has no room for one more (2^24)

Abs(a) == IF a > 0 THEN a ELSE -a
\* Division of C: towards zero.
Quotient(a, b) == IF (a < 0) = (b < 0) THEN Abs(a) \div Abs(b) ELSE -(Abs(a) \div Abs(b))
Plus(v, d) == IF Abs(v) >= Precise THEN v ELSE v + d
HASH_DIR(a) == IF a.hash_scale > 0 THEN 1 ELSE -1
Other(a, g) == IF a.is_x = 1 THEN g.y_axis ELSE g.x_axis

-----------------------------------------------------------------------------
(* Conversions.                                                             *)

intop(v) == 72 * v

\* Thousandths of the logarithm of v.
RECURSIVE Log(_, _)
Log(v, base) ==
    LET b == base \div 100 IN
    IF v < 100 THEN Log(v * b, base) - 1000
    ELSE IF v >= base THEN 1000 + Log(v \div b, base)
    ELSE ((v - 100) * 1000) \div (base - 100)

Along(v, a) == IF a.is_lg = 1 THEN Log(v, a.log_base) ELSE v

\* The place of a value on an axis; there is none for what is not positive on
\* a logarithmic one.
ctop(v, a) == ((Along(v, a) - Along(a.min, a)) * a.psize) \div (Along(a.max, a) - Along(a.min, a))
HasPlace(v, a) == a.is_lg = 1 => v > 0

disttop(v, a) == IF a.is_lg = 1 THEN 72 * v ELSE (v * a.psize) \div (a.max - a.min)

-----------------------------------------------------------------------------
(* Labels.                                                                  *)

\* The lengths of a label's lines.
LineLengths(text) ==
    LET ends == {i \in 1..Len(text) : text[i] = NewLine} \cup {0, Len(text) + 1}
    IN {Least({k \in ends : k > i}) - i - 1 : i \in ends \ {Len(text) + 1}}
Breaks(text) == LET S == {i \in 1..Len(text) : text[i] = NewLine}
                IN Len(SelectSeq(text, LAMBDA c : c = NewLine))

Cos(r) == LET q == ((r \div 9000) % 4) IN <<1, 0, -1, 0>>[q + 1]
Sin(r) == LET q == ((r \div 9000) % 4) IN <<0, 1, 0, -1>>[q + 1]

\* The box of a label of that length and height, at its place, turned and
\* adjusted.
process_label_max_n_mins(l, len, height) ==
    LET xlen == len * Cos(l.rotate)
        ylen == -height * Sin(l.rotate)
        xheight == len * Sin(l.rotate)
        yheight == height * Cos(l.rotate)
        h == [l |-> 0, c |-> 1, r |-> 2][l.hj]
        v == [b |-> 0, c |-> 1, t |-> 2][l.vj]
        x == l.x - (h * xlen) \div 2 - (v * ylen) \div 2
        y == l.y - (h * xheight) \div 2 - (v * yheight) \div 2
        xs == {x, x + xlen, x + xlen + ylen, x + ylen}
        ys == {y, y + xheight, y + yheight, y + xheight + yheight}
    IN [l EXCEPT !.xmin = Least(xs), !.xmax = Most(xs), !.ymin = Least(ys), !.ymax = Most(ys)]

\* adjust: the label's place is in the axes' units.
process_label(l, g, adjust) ==
    LET placed == IF adjust
                  THEN [l EXCEPT !.x = ctop(@, g.x_axis), !.y = ctop(@, g.y_axis)] ELSE l
        spaced == [placed EXCEPT !.linesep = IF @ = FSIG THEN l.fontsize ELSE @]
        len == (l.fontsize * Most(LineLengths(l.label)) * 48) \div 100
        n == Breaks(l.label)
        height == ((l.fontsize * (n + 1) + spaced.linesep * n) * 60) \div 100
    IN IF l.label = CNULL THEN l ELSE process_label_max_n_mins(spaced, len, height)

-----------------------------------------------------------------------------
(* Axes.                                                                    *)

\* A step of 1, 2 or 5 times a power of ten that fits into the range s less
\* than six times or, for a small range, more than twice; none for no range.
RECURSIVE UpTo(_, _, _), DownTo(_, _, _)
UpTo(s, d, i) == IF s < 6 * d THEN d
                 ELSE UpTo(s, IF i = 1 THEN (d * 5) \div 2 ELSE d * 2, (i + 1) % 3)
DownTo(s, d, i) == IF d = 0 \/ s > 2 * d THEN d
                   ELSE DownTo(s, IF i = 1 THEN (d * 2) \div 5 ELSE d \div 2, (i + 1) % 3)
find_reasonable_hash_interval(a) ==
    LET s == a.max - a.min IN
    IF a.is_lg = 1 THEN 0 ELSE IF s > 500 THEN UpTo(s, 100, 0) ELSE DownTo(s, 100, 0)
NeverEnds(a) == a.hash_interval < 0 /\ a.is_lg = 0 /\ a.max = a.min

find_reasonable_hash_start(a) ==
    IF a.is_lg = 1 \/ (a.max > 0 /\ a.min < 0) THEN 0
    ELSE Quotient(a.min, a.hash_interval) * a.hash_interval

RECURSIVE Digits(_)
Digits(d) == IF d > 1000 THEN Digits(d \div 10) ELSE IF d <= 100 THEN Digits(d * 10) ELSE d
find_reasonable_minor_hashes(a) ==
    IF a.is_lg = 1 THEN Greater((Digits(a.log_base) \div 100) - 2, 0)
    ELSE LET d == Digits(a.hash_interval) IN
         IF a.hash_interval = 0 \/ d % 100 # 0 THEN 0 ELSE (d \div 100) - 1

\* The places after the point that the interval and the start need.
Places(v) == IF v % 100 = 0 THEN 0 ELSE IF v % 10 = 0 THEN 1 ELSE 2
find_reasonable_precision(a) ==
    CASE a.hash_format \in {"g", "G"} -> 6
      [] a.hash_format \in {"e", "E"} -> 0
      [] OTHER -> IF a.is_lg = 1 THEN 0
                  ELSE Greater(Places(a.hash_interval), Places(a.hash_start))

\* Why an axis cannot be: no bound and no points, or nothing positive to start
\* a logarithmic axis at.
AxisError(a) ==
    LET min == IF a.min = FSIG THEN a.pmin ELSE a.min
        max == IF a.max = FSIG THEN a.pmax ELSE a.max
    IN CASE min = FSIG \/ max = FSIG -> "cannot derive"
         [] a.is_lg = 1 /\ Smaller(min, max) <= 0 -> "-infinity"
         [] OTHER -> "none"

\* The bounds, in order and apart, and the colors of the grid.
process_axis1(a) ==
    LET p == IF a.min = FSIG THEN a.pmin ELSE a.min
        q == IF a.max = FSIG THEN a.pmax ELSE a.max
        same == p = q
        gr == IF a.gr_gray = "0" THEN a.gray ELSE a.gr_gray
    IN [a EXCEPT !.min = IF same /\ a.is_lg = 0 THEN Plus(p, -100) ELSE Smaller(p, q),
                 !.max = IF same THEN Plus(q, 100) ELSE Greater(p, q),
                 !.psize = intop(a.size),
                 !.gr_gray = gr, !.mgr_gray = IF @ = "0" THEN gr ELSE @]

\* The major marks from t on and the minor ones after each: those whose place
\* is on the axis.
OnAxis(place, a) == place > -5 /\ place < a.psize + 5
RECURSIVE AutoHashes(_, _), MinorHashes(_, _, _, _)
MinorHashes(a, t, step, left) ==
    IF left = 0 THEN <<>>
    ELSE LET place == ctop(t + step, a) IN
         (IF OnAxis(place, a)
          THEN <<[loc |-> place, size |-> MHASH_SIZE, major |-> FALSE, t |-> t + step]>> ELSE <<>>)
         \o MinorHashes(a, t + step, step, left - 1)
AutoHashes(a, t) ==
    IF t > a.max THEN <<>>
    ELSE LET up == (t * a.log_base) \div 100
             step == IF a.is_lg = 1 THEN up - t ELSE a.hash_interval
             place == ctop(t, a)
         IN (IF OnAxis(place, a)
             THEN <<[loc |-> place, size |-> HASH_SIZE, major |-> TRUE, t |-> t]>> ELSE <<>>)
            \o MinorHashes(a, t, step \div (a.minor_hashes + 1), a.minor_hashes)
            \o AutoHashes(a, t + step)

\* The first mark that is not above the axis' beginning.
RECURSIVE FirstHash(_, _)
FirstHash(a, t) ==
    IF t <= a.min THEN t
    ELSE FirstHash(a, IF a.is_lg = 1 THEN (t * 100) \div a.log_base ELSE t - a.hash_interval)

\* The label of a mark: as many characters as the number needs.
RECURSIVE NumberText(_)
NumberText(n) == IF n < 10 THEN <<Number(n)>> ELSE Append(NumberText(n \div 10), Number(n % 10))
HashText(t, precision) ==
    (IF t < 0 THEN <<Name("-")>> ELSE <<>>) \o NumberText(Abs(t) \div 100)
      \o IF precision > 0 THEN [i \in 1..(precision + 1) |-> Name(".")] ELSE <<>>

\* The interval, start, minor hashes and precision that were not given.
Intervals(a) ==
    LET i == [a EXCEPT !.hash_interval = IF @ < 0 THEN find_reasonable_hash_interval(a) ELSE @]
        s == [i EXCEPT !.hash_start = IF a.start_given = 1 THEN @
                ELSE IF a.hash_interval < 0 THEN find_reasonable_hash_start(i) ELSE a.min]
        m == [s EXCEPT !.minor_hashes = IF @ < 0 THEN find_reasonable_minor_hashes(s) ELSE @]
    IN [m EXCEPT !.precision = IF @ < 0 THEN find_reasonable_precision(m) ELSE @]

\* The marks and their labels, the explicit ones first.
Hashes(a) ==
    LET auto == IF (a.hash_interval # 0 \/ a.is_lg = 1) /\ a.auto_hash_marks = 1
                THEN AutoHashes(a, FirstHash(a, IF a.is_lg = 1 THEN 100 ELSE a.hash_start))
                ELSE <<>>
        majors == SelectSeq(auto, LAMBDA h : h.major)
    IN [a EXCEPT !.hash_lines = [i \in 1..Len(@) |-> [@[i] EXCEPT !.loc = ctop(@, a)]] \o
                   [i \in 1..Len(auto) |-> Only(auto[i], {"loc", "size", "major"})],
                 !.hash_labels =
                   [i \in 1..Len(@) |-> [@[i] EXCEPT !.x = ctop(@, a), !.y = ctop(@, a)]] \o
                   IF a.auto_hash_labels = 0 THEN <<>>
                   ELSE [i \in 1..Len(majors) |->
                           [label |-> HashText(majors[i].t, a.precision),
                            x |-> majors[i].loc, y |-> majors[i].loc]]]

\* Where the marks and their labels are drawn across the axis.
Across(a, other) ==
    LET at == IF a.draw_at = FSIG THEN IF HASH_DIR(a) = -1 THEN 0 ELSE other.psize
              ELSE ctop(a.draw_at, other)
        marks == IF a.draw_hash_marks_at = FSIG THEN at ELSE ctop(a.draw_hash_marks_at, other)
    IN [a EXCEPT !.draw_at = at, !.draw_hash_marks_at = marks,
                 !.draw_hash_labels_at =
                   IF @ = FSIG THEN marks + (a.hash_scale * HASH_SIZE) \div 100 + HASH_DIR(a) * 300
                   ELSE ctop(@, other)]

\* The hash labels' common attributes, and the box around all of them.
HashLabel(a, g, s) ==
    process_label([a.hl EXCEPT !.label = s.label, !.x = IF a.is_x = 1 THEN s.x ELSE @,
                               !.y = IF a.is_x = 1 THEN @ ELSE s.y], g, FALSE)
Justified(a) ==
    LET down == HASH_DIR(a) = -1
        at == a.draw_hash_labels_at
        hl == IF a.is_x = 1
              THEN [a.hl EXCEPT !.y = at, !.hj = IF @ = "0" THEN "c" ELSE @,
                      !.vj = IF @ = "0" THEN IF down THEN "t" ELSE "b" ELSE @]
              ELSE [a.hl EXCEPT !.x = at, !.vj = IF @ = "0" THEN "c" ELSE @,
                      !.hj = IF @ = "0" THEN IF down THEN "r" ELSE "l" ELSE @]
    IN [a EXCEPT !.hl = hl]
Surrounded(a, boxes, xs, ys) ==
    [a EXCEPT !.hl.xmin = Least(xs \cup {l.xmin : l \in boxes}),
              !.hl.xmax = Most(xs \cup {l.xmax : l \in boxes}),
              !.hl.ymin = Least(ys \cup {l.ymin : l \in boxes}),
              !.hl.ymax = Most(ys \cup {l.ymax : l \in boxes})]
HashLabels(a, g) ==
    Surrounded(a, {HashLabel(a, g, a.hash_labels[i]) : i \in 1..Len(a.hash_labels)},
               IF a.is_x = 1 THEN {0, a.psize} ELSE {a.draw_hash_labels_at},
               IF a.is_x = 1 THEN {a.draw_hash_labels_at} ELSE {0, a.psize})

\* The axis' own label: beyond the marks and their labels, unless placed.
AxisLabel(a, g, other) ==
    LET down == HASH_DIR(a) = -1
        marks == IF a.draw_hash_marks = 0 THEN {}
                 ELSE {a.draw_hash_marks_at,
                       a.draw_hash_marks_at + (a.hash_scale * HASH_SIZE) \div 100}
        hl == IF a.draw_hash_labels = 0 THEN {}
              ELSE IF a.is_x = 1 THEN {a.hl.ymin, a.hl.ymax} ELSE {a.hl.xmin, a.hl.xmax}
        reach == marks \cup hl \cup {0, other.psize}
        beyond == IF down THEN Least(reach) - 800 ELSE Most(reach) + 800
        l == a.label
        x == IF l.x # FSIG THEN ctop(l.x, g.x_axis)
             ELSE IF a.is_x = 1 THEN a.psize \div 2 ELSE beyond
        y == IF l.y # FSIG THEN ctop(l.y, g.y_axis)
             ELSE IF a.is_x = 1 THEN beyond ELSE a.psize \div 2
        vj == IF a.is_x = 1 /\ down THEN "t" ELSE "b"
        rotate == IF a.is_x = 1 THEN 0 ELSE IF down THEN 9000 ELSE -9000
    IN process_label([l EXCEPT !.x = x, !.y = y, !.hj = IF @ = "0" THEN "c" ELSE @,
                        !.vj = IF @ = "0" THEN vj ELSE @,
                        !.rotate = IF @ = FSIG THEN rotate ELSE @], g, FALSE)

WithLabel(a, g) == [a EXCEPT !.label = AxisLabel(a, g, Other(a, g))]
process_axis2(a, g) ==
    WithLabel(HashLabels(Justified(Across(Hashes(Intervals(a)), Other(a, g))), g), g)

-----------------------------------------------------------------------------
(* Curves.                                                                  *)

CurveError(c) ==
    IF c.bezier = 1 /\ (Len(c.pts) < 4 \/ Len(c.pts) % 3 # 1)
    THEN "Bezier must have 3n + 1 points" ELSE "none"

process_curve(c, g) ==
    LET ms0 == IF c.marksize[1] = FSIG THEN 400 ELSE disttop(c.marksize[1], g.x_axis)
        ms1 == IF c.marksize[2] = FSIG THEN 400 ELSE disttop(c.marksize[2], g.y_axis)
        as0 == IF c.asize[1] = FSIG THEN 600 ELSE disttop(c.asize[1], g.x_axis)
        as1 == IF c.asize[2] = FSIG THEN 200 ELSE disttop(c.asize[2], g.y_axis) \div 2
        Given(v) == IF v = FSIG THEN 0 ELSE v
    IN [c EXCEPT !.marksize = <<ms0, IF c.marktype = "o" THEN ms0 ELSE ms1>>,
                 !.asize = <<as0, as1>>,
                 !.lmark = process_label([@ EXCEPT !.x = disttop(@, g.x_axis),
                                                   !.y = disttop(@, g.y_axis)], g, FALSE),
                 !.parg = Given(@), !.aparg = Given(@), !.pparg = Given(@)]

process_curves(g) ==
    [g EXCEPT !.curves = [i \in 1..Len(@) |-> process_curve(@[i], g)]]

-----------------------------------------------------------------------------
(* Legends.                                                                 *)

Labelled(g) == SelectSeq(g.curves, LAMBDA c : c.l.label # CNULL)
HasLine(c) == c.linetype # "0"

\* The lengths that were not given, from the labelled curves' marks.
LegendLengths(l, g) ==
    LET cs == Labelled(g)
        Width(c) == CASE c.marktype = "l" -> c.lmark.xmax - c.lmark.xmin
                      [] c.marktype = "n" -> 0
                      [] OTHER -> Abs(c.marksize[1])
        Height(c) == CASE c.marktype = "l" -> c.lmark.ymax - c.lmark.ymin
                       [] c.marktype = "n" -> 0
                       [] OTHER -> Abs(c.marksize[2])
        maxmark == Most({0} \cup {Width(cs[i]) : i \in 1..Len(cs)})
        maxmarky == Most({0} \cup {Height(cs[i]) : i \in 1..Len(cs)})
        lines == IF \E i \in 1..Len(cs) : HasLine(cs[i]) THEN 1 ELSE 0
        linesep == IF l.l.linesep = FSIG THEN l.l.fontsize ELSE l.l.linesep
    IN [l EXCEPT !.l.linesep = linesep, !.anylines = lines,
          !.linelength = IF @ # FSIG THEN disttop(@, g.x_axis)
                         ELSE IF lines = 1 THEN Greater(maxmark + 600, 2400) ELSE 0,
          !.midspace = IF @ # FSIG THEN disttop(@, g.x_axis)
                       ELSE IF lines = 1 THEN 400 ELSE maxmark \div 2 + 400,
          !.linebreak = IF @ # FSIG THEN disttop(@, g.y_axis)
                        ELSE Greater((linesep * 60) \div 100, maxmarky)]

\* The entries of a column: what the columns do not share goes to the first.
Column(l, n, col) ==
    LET each == n \div l.columns
        first_col == each + (n % l.columns)
    IN IF col = 0 THEN 1..first_col
       ELSE (first_col + (col - 1) * each + 1)..(first_col + col * each)

\* An entry's label with the legend's attributes, at a place.
Entry(c, l, x, y, vj, g) ==
    process_label([copy_label(c.l, l.l) EXCEPT !.label = c.l.label, !.x = x, !.y = y,
                     !.rotate = 0, !.hj = "l", !.vj = vj], g, FALSE)

hdist(l) == l.midspace + IF l.anylines = 1 THEN l.linelength ELSE 0

RECURSIVE SumOver(_, _)
SumOver(S, value) ==
    IF S = {} THEN 0
    ELSE LET i == CHOOSE i \in S : TRUE IN value[i] + SumOver(S \ {i}, value)

\* The width of the widest column, the space for its lines and marks with it,
\* and the height of the highest.
ColumnWidth(l, g) ==
    LET cs == Labelled(g)
        width == [i \in 1..Len(cs) |-> Entry(cs[i], l, 0, 0, "b", g).xmax]
    IN hdist(l) + Most({0} \cup {width[i] : i \in 1..Len(cs)})
LegendHeight(l, g) ==
    LET cs == Labelled(g)
        height == [i \in 1..Len(cs) |-> Entry(cs[i], l, 0, 0, "b", g).ymax + l.linebreak]
    IN Most({0} \cup {SumOver(Column(l, Len(cs), col), height) - l.linebreak :
                        col \in 0..(l.columns - 1)})

\* Where the legend stands, unless it was placed: outside the axis it is
\* beside.
Marks(a, d) == IF a.draw_hash_marks = 0 THEN {}
               ELSE {a.draw_hash_marks_at, a.draw_hash_marks_at + d * HASH_SIZE}
Beside(a, low, high) ==
    (IF a.draw_axis_label = 1 THEN {a.label[low], a.label[high]} ELSE {})
      \cup (IF a.draw_hash_labels = 1 THEN {a.hl[low], a.hl[high]} ELSE {})
      \cup Marks(a, HASH_DIR(a))
LegendX(l, g) ==
    LET reach == Beside(g.y_axis, "xmin", "xmax")
        psize == g.x_axis.psize
    IN CASE l.l.x # FSIG -> ctop(l.l.x, g.x_axis)
         [] l.l.x = FSIG /\ l.l.hj = "c" -> psize \div 2
         [] l.l.x = FSIG /\ l.l.hj = "l" ->
              IF l.l.vj = "c" THEN Most({psize} \cup reach) + 1500 ELSE 0
         [] OTHER -> IF l.l.vj = "c" THEN Least({0} \cup reach) - 1500 ELSE psize
LegendY(l, g) ==
    LET reach == Beside(g.x_axis, "ymin", "ymax")
        psize == g.y_axis.psize
    IN CASE l.l.y # FSIG -> ctop(l.l.y, g.y_axis)
         [] l.l.y = FSIG /\ l.l.vj = "c" -> psize \div 2
         [] l.l.y = FSIG /\ l.l.vj = "b" -> Most({psize} \cup reach) + 1500
         [] OTHER -> Least({0} \cup reach) - 1500

\* The entries from the legend's own beginning, column by column, downwards.
RECURSIVE PlaceEntries(_, _, _, _, _, _)
PlaceEntries(cs, l, g, x, y, todo) ==
    IF todo = {} THEN cs
    ELSE LET i == Least(todo)
             e == Entry(cs[i], l, x, y, "t", g)
         IN PlaceEntries([cs EXCEPT ![i].l = e], l, g, x, e.ymin - l.linebreak, todo \ {i})
RECURSIVE PlaceColumns(_, _, _, _, _, _)
PlaceColumns(cs, l, g, x, y, col) ==
    IF col >= l.columns THEN cs
    ELSE PlaceColumns(
           PlaceEntries(cs, l, g,
             hdist(l) + x + (hdist(l) + ColumnWidth(l, g)) * col, y, Column(l, Len(cs), col)),
           l, g, x, y, col + 1)

\* The graph's curves with the labels of `cs`.
WithLabels(g, cs) ==
    [g EXCEPT !.curves = [i \in 1..Len(@) |->
       IF @[i].l.label = CNULL THEN @[i]
       ELSE [@[i] EXCEPT !.l = Numbered(cs, g.curves[i].num).l]]]

\* How far right of its place, and above it, a legend of this size begins.
ToTheRight(hj, width) == CASE hj = "l" -> 0 [] hj = "c" -> -(width \div 2) [] hj = "r" -> -width
Above(vj, height) == CASE vj = "t" -> 0 [] vj = "c" -> height \div 2 [] vj = "b" -> height

\* A legend l of the program's making: its box, and its entries.
Boxed(l, g, width, height) ==
    [l EXCEPT !.l = process_label_max_n_mins([@ EXCEPT !.x = LegendX(l, g), !.y = LegendY(l, g)],
                                             width, height)]
Laid(g, l, cs, width, height) ==
    WithLabels([g EXCEPT !.legend = Boxed(l, g, width, height)],
               PlaceColumns(cs, l, g, ToTheRight(l.l.hj, width), Above(l.l.vj, height), 0))

LegendOf(g, l, cs) ==
    CASE g.legend.type = "n" -> g
      [] g.legend.type = "c" ->
           WithLabels([g EXCEPT !.legend = l],
                      [i \in 1..Len(cs) |-> [cs[i] EXCEPT !.l = process_label(@, g, TRUE)]])
      [] g.legend.type = "u" /\ cs = <<>> -> [g EXCEPT !.legend = [l EXCEPT !.anylines = -1]]
      [] OTHER -> Laid(g, l, cs, ColumnWidth(l, g) * l.columns, LegendHeight(l, g))

process_legend(g) == LegendOf(g, LegendLengths(g.legend, g), Labelled(g))

\* A legend of no columns divides by nothing.
DividesByZero(g) == g.legend.type = "u" /\ Labelled(g) # <<>> /\ g.legend.columns = 0

-----------------------------------------------------------------------------
(* Graphs and pages.                                                        *)

process_title(g) ==
    LET a == g.x_axis
        reach == (IF a.draw_axis_label = 1 /\ a.label.label # CNULL THEN {a.label.ymin} ELSE {})
                   \cup (IF a.draw_hash_labels = 1 THEN {a.hl.ymin} ELSE {})
                   \cup (IF a.draw_hash_marks = 1 THEN {a.draw_hash_marks_at - HASH_SIZE} ELSE {})
                   \cup (IF g.legend.type = "u" THEN {g.legend.l.ymin} ELSE {})
        x == IF g.title.x = FSIG THEN a.psize \div 2 ELSE ctop(g.title.x, a)
        y == IF g.title.y # FSIG THEN ctop(g.title.y, g.y_axis) ELSE Least({0} \cup reach) - 1000
    IN [g EXCEPT !.title = process_label([@ EXCEPT !.x = x, !.y = y], g, FALSE)]

\* The labels that the bounding box is to hold.
ExtremaLabels(g) ==
    {g.title} \cup {g.strings[i].s : i \in 1..Len(g.strings)}
      \cup UNION {(IF a.draw_axis_label = 1 THEN {a.label} ELSE {})
                    \cup (IF a.draw_hash_labels = 1 THEN {a.hl} ELSE {}) :
                      a \in {g.x_axis, g.y_axis}}
      \cup IF g.legend.type = "c" THEN {g.curves[i].l : i \in 1..Len(g.curves)}
           ELSE IF g.legend.type = "u" /\ g.legend.anylines >= 0 THEN {g.legend.l} ELSE {}

\* Mutant: the labels of the hash marks are not counted.
ExtremaWithoutHashLabels(g) ==
    LET ls == {l \in ExtremaLabels(g) \ {g.x_axis.hl, g.y_axis.hl} : l.label # CNULL} IN
    [g EXCEPT !.xminval = Least({0} \cup {l.xmin : l \in ls}),
              !.xmaxval = Most({g.x_axis.psize} \cup {l.xmax : l \in ls}),
              !.yminval = Least({0} \cup {l.ymin : l \in ls}),
              !.ymaxval = Most({g.y_axis.psize} \cup {l.ymax : l \in ls})]

process_extrema(g) ==
    LET ls == {l \in ExtremaLabels(g) : l.label # CNULL}
        ym == Marks(g.y_axis, HASH_DIR(g.y_axis))
        xm == Marks(g.x_axis, HASH_DIR(g.x_axis))
    IN [g EXCEPT !.xminval = Least({0} \cup ym \cup {l.xmin : l \in ls}),
                 !.xmaxval = Most({g.x_axis.psize} \cup ym \cup {l.xmax : l \in ls}),
                 !.yminval = Least({0} \cup xm \cup {l.ymin : l \in ls}),
                 !.ymaxval = Most({g.y_axis.psize} \cup xm \cup {l.ymax : l \in ls})]

process_strings(g) ==
    [g EXCEPT !.strings = [i \in 1..Len(@) |-> [@[i] EXCEPT !.s = process_label(@, g, TRUE)]]]

\* The values that are turned into places along an axis, each with its axis.
Placed(g) ==
    LET Given(v, a) == IF v = FSIG THEN {} ELSE {<<v, a>>}
        OfAxis(a, o) ==
          Given(a.draw_at, o) \cup Given(a.draw_hash_marks_at, o)
            \cup Given(a.draw_hash_labels_at, o)
            \cup {<<a.hash_lines[i].loc, a>> : i \in 1..Len(a.hash_lines)}
            \cup {<<a.hash_labels[i].x, a>> : i \in 1..Len(a.hash_labels)}
        OfLabel(l) == Given(l.x, g.x_axis) \cup Given(l.y, g.y_axis)
    IN OfAxis(g.x_axis, g.y_axis) \cup OfAxis(g.y_axis, g.x_axis)
         \cup OfLabel(g.x_axis.label) \cup OfLabel(g.y_axis.label) \cup OfLabel(g.title)
         \cup UNION {OfLabel(g.strings[i].s) : i \in {j \in 1..Len(g.strings) :
                                                        g.strings[j].s.label # CNULL}}
         \cup (IF g.legend.type = "u" THEN OfLabel(g.legend.l) ELSE {})
         \cup IF g.legend.type # "c" THEN {}
              ELSE UNION {OfLabel(Labelled(g)[i].l) : i \in 1..Len(Labelled(g))}

\* process_graph up to the axes, and what then goes wrong with the rest.
WithAxes(g) ==
    [g EXCEPT !.x_translate = intop(@), !.y_translate = intop(@),
              !.x_axis = process_axis1(@), !.y_axis = process_axis1(@)]
GraphError(g) ==
    LET h == WithAxes(g) IN
    CASE AxisError(g.x_axis) # "none" -> AxisError(g.x_axis)
      [] AxisError(g.x_axis) = "none" /\ AxisError(g.y_axis) # "none" -> AxisError(g.y_axis)
      [] OTHER ->
           IF NeverEnds(h.x_axis) \/ NeverEnds(h.y_axis) THEN "never ends"
           ELSE IF \E p \in Placed(h) : ~HasPlace(p[1], p[2]) THEN "-infinity"
           ELSE IF \E i \in 1..Len(g.curves) : CurveError(g.curves[i]) # "none"
           THEN "Bezier must have 3n + 1 points"
           ELSE IF DividesByZero(g) THEN "divides by zero" ELSE "none"

XAxis(g) == [g EXCEPT !.x_axis = process_axis2(@, g)]
YAxis(g) == [g EXCEPT !.y_axis = process_axis2(@, g)]
process_graph(g) ==
    process_extrema(process_title(process_strings(process_legend(process_curves(
        YAxis(XAxis(WithAxes(g))))))))

\* A page's extent in one direction: what its graphs reach, widened to the
\* size asked for.
Widened(reach, size) ==
    LET low == Least(reach \cup {0})
        high == Most(reach \cup {0})
        add == IF size >= 0 /\ intop(size) > high - low THEN (intop(size) - high + low) \div 2 ELSE 0
    IN <<low - add, high + add>>

\* What the graphs of a page reach, across and up.
AcrossPage(gs) ==
    UNION {{gs[i].x_translate + gs[i].xminval, gs[i].x_translate + gs[i].xmaxval} : i \in 1..Len(gs)}

Up(gs) ==
    UNION {{gs[i].y_translate + gs[i].yminval, gs[i].y_translate + gs[i].ymaxval} : i \in 1..Len(gs)}

\* A page of the graphs gs, from x[1] to x[2] and from y[1] to y[2].
PageOf(p, gs, x, y) ==
    [p EXCEPT !.g = gs, !.width = x[2] - x[1], !.height = y[2] - y[1],
       !.bb = IF \E i \in 1..4 : @[i] # ISIG THEN @
              ELSE <<Quotient(x[1] - 100, 100), Quotient(y[1] - 100, 100),
                     Quotient(x[2] + 100, 100), Quotient(y[2] + 100, 100)>>]

SizedPage(p, gs) == PageOf(p, gs, Widened(AcrossPage(gs), p.width), Widened(Up(gs), p.height))

\* process_graphs for one page.
process_page(p) == SizedPage(p, [i \in 1..Len(p.g) |-> process_graph(p.g[i])])
==============================================================================
