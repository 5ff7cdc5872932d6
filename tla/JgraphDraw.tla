------------------------------ MODULE JgraphDraw ------------------------------
(****************************************************************************)
(* What jgraph writes (tools/jgraph/draw.c, printline.c): a sequence of      *)
(* PostScript operations.  `P` is the writer: the operations so far, the     *)
(* depth of gsave, the fonts that printline.c believes to be set, and the x  *)
(* of draw_legend.                                                           *)
(*                                                                           *)
(* Lines, dashes and shades are written as one operation each; a mark is     *)
(* its box.                                                                  *)
(****************************************************************************)
EXTENDS JgraphProcess

CONSTANTS LineChunk,    \* the points of a line that make one path (100)
          BezierChunk   \* one more than the curves that make one path (30)

Writer == [out |-> <<>>, fonts |-> <<>>, level |-> -100, x |-> 0, error |-> "none"]
Emit(P, op) == [P EXCEPT !.out = Append(@, op)]

-----------------------------------------------------------------------------
(* printline.c                                                              *)

gsave(P) == Emit([P EXCEPT !.level = IF @ = -100 THEN 1 ELSE @ + 1], [op |-> "gsave"])

\* Mutant: the font set inside is believed to be set still.
RestoreKeepsFont(P) == Emit([P EXCEPT !.level = @ - 1], [op |-> "grestore"])

\* The font that was set inside is forgotten with the gsave it was set in.
grestore(P) ==
    LET inside == P.fonts # <<>> /\ P.fonts[Len(P.fonts)].level = P.level IN
    Emit([P EXCEPT !.level = @ - 1,
                   !.fonts = IF inside THEN SubSeq(@, 1, Len(@) - 1) ELSE @], [op |-> "grestore"])

\* A font is written only where another is believed to be set.
setfont(P, f, s) ==
    LET l == P.fonts[Len(P.fonts)]
        kept == IF P.fonts = <<>> THEN <<>> ELSE SubSeq(P.fonts, 1, Len(P.fonts) - 1)
    IN IF P.fonts # <<>> /\ l.f = f /\ l.s = s THEN P
       ELSE Emit([P EXCEPT !.fonts = Append(kept, [level |-> P.level, s |-> s, f |-> f])],
                 [op |-> "font", f |-> f, s |-> s])

translate(P, x, y) == Emit(P, [op |-> "translate", x |-> x, y |-> y])

\* A box from one corner to the other.
Box(x1, y1, x2, y2) == <<Smaller(x1, x2), Smaller(y1, y2), Greater(x1, x2), Greater(y1, y2)>>
Line(op, x1, y1, x2, y2, orientation) ==
    [op |-> op, box |-> IF orientation = "x" THEN Box(x1, y1, x2, y2) ELSE Box(y1, x1, y2, x2)]
printline(P, x1, y1, x2, y2, orientation) == Emit(P, Line("line", x1, y1, x2, y2, orientation))
print_ebar(P, x1, y1, x2, ms, orientation) ==
    Emit(Emit(P, Line("bar", x1, y1, x2, y1, orientation)),
         Line("bar", x2, y1 - ms, x2, y1 + ms, orientation))

\* The first line's base above the label's place, before the label is turned.
FirstBase(l) ==
    LET n == Breaks(l.label)
        step == l.fontsize + l.linesep
    IN CASE l.vj = "b" -> (n * step * 60) \div 100
         [] l.vj = "c" -> IF n % 2 = 0 THEN ((n * step - l.fontsize) * 30) \div 100
                          ELSE (((n - 1) * step + l.linesep) * 30) \div 100
         [] OTHER -> -(l.fontsize * 60) \div 100

\* The box that the lines of a label fill, from the last one's base.
TextBox(l) ==
    LET len == (l.fontsize * Most(LineLengths(l.label)) * 48) \div 100
        left == CASE l.hj = "c" -> -(len \div 2) [] l.hj = "r" -> -len [] OTHER -> 0
        top == FirstBase(l) + (l.fontsize * 60) \div 100
        bottom == FirstBase(l) - (Breaks(l.label) * (l.fontsize + l.linesep) * 60) \div 100
        X(a, b) == l.x + a * Cos(l.rotate) - b * Sin(l.rotate)
        Y(a, b) == l.y + a * Sin(l.rotate) + b * Cos(l.rotate)
    IN Box(X(left, bottom), Y(left, bottom), X(left + len, top), Y(left + len, top))

print_label(P, l) ==
    IF l.label = CNULL THEN P
    ELSE Emit(setfont(P, l.font, l.fontsize),
              [op |-> "show", box |-> TextBox(l), f |-> l.font, s |-> l.fontsize])

-----------------------------------------------------------------------------
(* Axes.                                                                    *)

\* Lines for the marks of which Which holds, by Line(P, mark).
ForEach(P, list, Do(_, _)) ==
    LET after[i \in 0..Len(list)] ==
          IF i = 0 THEN P
          ELSE LET before == after[i - 1]
               IN IF before.error # "none" THEN before ELSE Do(before, list[i])
    IN IF P.error # "none" THEN P ELSE after[Len(list)]

Grid(P, a, other, major) ==
    grestore(ForEach(gsave(P), SelectSeq(a.hash_lines, LAMBDA h : h.major = major),
      LAMBDA Q, h : printline(Q, h.loc, 0, h.loc, other.psize, IF a.is_x = 1 THEN "x" ELSE "y")))

AxisName(a) == IF a.is_x = 1 THEN "x" ELSE "y"

\* The grid, the axis' line, its hash marks, their labels and its own label,
\* each where it is wanted.
MajorGrid(P, a, other) == IF a.grid_lines = 1 THEN Grid(P, a, other, TRUE) ELSE P
MinorGrid(P, a, other) == IF a.mgrid_lines = 1 THEN Grid(P, a, other, FALSE) ELSE P
AxisLine(P, a) ==
    IF a.draw_axis_line = 1 THEN printline(P, 0, a.draw_at, a.psize, a.draw_at, AxisName(a)) ELSE P
HashMarks(P, a) ==
    IF a.draw_hash_marks = 0 THEN P
    ELSE ForEach(P, a.hash_lines,
           LAMBDA Q, h : printline(Q, h.loc, a.draw_hash_marks_at, h.loc,
              a.draw_hash_marks_at + (h.size * a.hash_scale) \div 100, AxisName(a)))
MarkLabels(P, a) ==
    IF a.draw_hash_labels = 0 THEN P
    ELSE ForEach(P, a.hash_labels,
           LAMBDA Q, s : print_label(Q, [a.hl EXCEPT !.label = s.label,
              !.x = IF a.is_x = 1 THEN s.x ELSE @, !.y = IF a.is_x = 1 THEN @ ELSE s.y]))
OwnLabel(P, a) == IF a.draw_axis_label = 1 THEN print_label(P, a.label) ELSE P

draw_axis(P, a, other) ==
    grestore(OwnLabel(MarkLabels(HashMarks(AxisLine(
      gsave(MinorGrid(MajorGrid(P, a, other), a, other)), a), a), a), a))

-----------------------------------------------------------------------------
(* Curves.                                                                  *)

Center(p, g) == <<ctop(p.x, g.x_axis), ctop(p.y, g.y_axis)>>

\* Mutant: a path begins with the point after the last one's.
PathsApart(c) ==
    LET n == Len(c.pts) IN
    IF n = 0 THEN <<>>
    ELSE [k \in 1..((n - 1) \div (LineChunk + 1) + 1) |->
            <<(k - 1) * (LineChunk + 1) + 1, Smaller(k * (LineChunk + 1), n)>>]

\* The paths that a line of n points is cut into, by their first and last
\* points; a path begins where the one before it ended.
LinePaths(n, chunk) ==
    [k \in 1..((n - 1) \div chunk + 1) |-> <<(k - 1) * chunk + 1, Smaller(k * chunk + 1, n)>>]
Paths(c) ==
    LET n == Len(c.pts) IN
    IF n = 0 \/ (c.linetype = "0" /\ c.poly = 0) THEN <<>>
    ELSE IF c.poly = 1 THEN <<<<1, n>>>>
    ELSE IF c.bezier = 1 THEN LinePaths(n, 3 * (BezierChunk - 1))
    ELSE LinePaths(n, LineChunk)

draw_path(P, c, g, path) ==
    Emit(P, [op |-> "path", curve |-> c.num, style |-> c.linetype, poly |-> c.poly = 1,
             points |-> [i \in 1..(path[2] - path[1] + 1) |-> Center(c.pts[path[1] + i - 1], g)]])

\* Both ends of a point's error bar.
draw_ebar(P, c, g, p) ==
    LET at == Center(p, g) IN
    CASE p.e = "p" -> P
      [] p.e = "x" -> ForEach(P, p.ends, LAMBDA Q, v :
           print_ebar(Q, at[1], at[2], ctop(v, g.x_axis), c.marksize[2] \div 2, "x"))
      [] p.e = "y" -> ForEach(P, p.ends, LAMBDA Q, v :
           print_ebar(Q, at[2], at[1], ctop(v, g.y_axis), c.marksize[1] \div 2, "y"))

\* The number of points of a mark made of curves is wrong.
BadMark(c) ==
    LET n == Len(c.general_marks) IN
    \/ c.marktype = "B" /\ n % 3 # 1 /\ n # 0
    \/ c.marktype = "Z" /\ n % 3 # 1

\* An eps file has a line with its bounding box, the first of which counts.
BadEps(file) ==
    LET lines == {i \in 1..Len(file) : /\ Is(file[i], "%%BoundingBox:")
                                       /\ i = 1 \/ file[i - 1] = NewLine}
    IN \/ lines = {}
       \/ \E k \in 1..4 : \/ Least(lines) + k > Len(file)
                          \/ file[Least(lines) + k].t # "number"

MarkError(c) ==
    CASE c.marktype \in {"B", "Z"} /\ BadMark(c) -> "wrong number of points for bezier marktype"
      [] c.marktype = "E" /\ c.eps # CNULL /\ BadEps(Contents(c.eps[1].v)) -> "bad bounding box"
      [] OTHER -> "none"

\* The shapes are drawn around the place; a bar reaches to the axis; a text is
\* placed from there.
MarkShape(P, x, y, c, g) ==
    LET ms0 == c.marksize[1] \div 2
        ms1 == c.marksize[2] \div 2
        Shape(x1, y1, x2, y2) == Emit(P, [op |-> "shape", box |-> Box(x1, y1, x2, y2)])
    IN CASE c.marktype = "l" -> print_label(P, c.lmark)
         [] c.marktype = "X" -> Shape(-ms0, 0, ms0, g.x_axis.draw_at - y)
         [] c.marktype = "Y" -> Shape(0, -ms1, g.y_axis.draw_at - x, ms1)
         [] c.marktype = "o" -> Shape(-ms0, -ms0, ms0, ms0)
         [] c.marktype = "E" -> IF c.eps = CNULL THEN P ELSE Emit(P, [op |-> "included"])
         [] c.marktype = "p" -> IF c.postscript = CNULL THEN P ELSE Emit(P, [op |-> "included"])
         [] c.marktype \in {"g", "G", "Z", "B"} /\ Len(c.general_marks) < 2 -> P
         [] OTHER -> Shape(-ms0, -ms1, ms0, ms1)

draw_mark(P, x, y, c, g) ==
    IF c.marktype = "n" THEN P
    ELSE IF MarkError(c) # "none" THEN [P EXCEPT !.error = MarkError(c)]
    ELSE grestore(MarkShape(translate(gsave(P), x, y), x, y, c, g))

\* An arrow's head; a round mark takes its room away, up to all of it.
draw_arrow(P, from, to, c) ==
    LET far == Abs(to[1] - from[1]) + Abs(to[2] - from[2])
        room == c.marktype # "o" \/ far > c.marksize[1] \div 2
    IN IF far = 0 \/ ~room THEN P
       ELSE grestore(Emit(translate(gsave(P), to[1], to[2]), [op |-> "arrow", curve |-> c.num]))

\* A point has its mark, and the arrows towards it and towards the point before
\* it; of a bezier curve the points that it passes do.
Passed(c, i, place) == c.bezier = 0 \/ (i - 1) % 3 = place
PointMark(P, c, g, i, at) ==
    IF Passed(c, i, 0) THEN draw_mark(P, at[1], at[2], c, g) ELSE P
RightArrow(P, c, g, i) ==
    IF i > 1 /\ (c.rarrows = 1 \/ (c.rarrow = 1 /\ i = Len(c.pts))) /\ Passed(c, i, 0)
    THEN draw_arrow(P, Center(c.pts[i - 1], g), Center(c.pts[i], g), c) ELSE P
LeftArrow(P, c, g, i) ==
    IF i > 1 /\ (c.larrows = 1 \/ (c.larrow = 1 /\ i = 2)) /\ Passed(c, i, 1)
    THEN draw_arrow(P, Center(c.pts[i], g), Center(c.pts[i - 1], g), c) ELSE P
draw_point(P, c, g, i) ==
    LeftArrow(RightArrow(PointMark(P, c, g, i, Center(c.pts[i], g)), c, g, i), c, g, i)

\* A point that a logarithmic axis has no place for ends the program.
Unplaced(c, g) == \E i \in 1..Len(c.pts) :
                    ~HasPlace(c.pts[i].x, g.x_axis) \/ ~HasPlace(c.pts[i].y, g.y_axis)

DrawnBars(P, c, g) == ForEach(P, c.pts, LAMBDA Q, p : draw_ebar(Q, c, g, p))
DrawnLines(P, c, g) == ForEach(P, Paths(c), LAMBDA Q, path : draw_path(Q, c, g, path))
DrawnMarks(P, c, g) ==
    ForEach(P, [i \in 1..Len(c.pts) |-> i], LAMBDA Q, i : draw_point(Q, c, g, i))
draw_curve(P, c, g) ==
    IF Unplaced(c, g) THEN [P EXCEPT !.error = "-infinity"]
    ELSE grestore(DrawnMarks(DrawnLines(DrawnBars(gsave(P), c, g), c, g), c, g))

draw_curves(P, g) ==
    grestore(ForEach(gsave(P), g.curves, LAMBDA Q, c : draw_curve(Q, c, g)))

-----------------------------------------------------------------------------
(* Legends, graphs and pages.                                               *)

\* An entry: its line, from x to its right, with its arrows, and its mark.
EntryLine(P, c, l, x, y) ==
    IF l.anylines # 0 /\ HasLine(c) /\ l.linelength # 0
    THEN printline(P, x, y, x + l.linelength, y, "x") ELSE P
EntryArrow(P, c, l, has, from, to) ==
    IF l.anylines # 0 /\ has THEN draw_arrow(P, from, to, [c EXCEPT !.marktype = "n"]) ELSE P
EntryArrows(P, c, l, start, end) ==
    EntryArrow(EntryArrow(P, c, l, c.larrow = 1 \/ c.larrows = 1, end, start),
               c, l, c.rarrow = 1 \/ c.rarrows = 1, start, end)
EntryMark(P, c, x, y, g) ==
    draw_mark(P, x, y, [c EXCEPT !.marktype = IF @ \in {"X", "Y"} THEN "b" ELSE @], g)
HalfLine(l) == IF l.anylines # 0 THEN l.linelength \div 2 ELSE 0
\* They are before the label, or behind it where the legend is custom and the
\* label ends at its place.
Behind(c, l) == l.type = "c" /\ c.l.hj = "r"
MarkPlace(c, l) ==
    IF Behind(c, l) THEN c.l.x + l.midspace + HalfLine(l) ELSE c.l.x - l.midspace - HalfLine(l)
\* Where the line begins: an entry without a line leaves x as it was, at the
\* mark of the entry before it, and its arrows are drawn from there.
LinePlace(P, c, l) ==
    CASE ~HasLine(c) \/ l.linelength = 0 -> P.x
      [] HasLine(c) /\ l.linelength # 0 /\ Behind(c, l) -> c.l.x + l.midspace
      [] OTHER -> c.l.x - l.midspace - l.linelength
EntryAt(P, c, l, g, from, y) ==
    [EntryMark(EntryArrows(EntryLine(gsave(P), c, l, from, y), c, l,
                           <<from, y>>, <<from + l.linelength, y>>),
               c, MarkPlace(c, l), y, g) EXCEPT !.x = MarkPlace(c, l)]

draw_entry(P, c, l, g) ==
    print_label(grestore(EntryAt(P, c, l, g, LinePlace(P, c, l), (c.l.ymax + c.l.ymin) \div 2)), c.l)

\* The turn by the label defaults' rotate is left out.
LegendPlace(P, l) == IF l.type = "u" THEN translate(P, l.l.x, l.l.y) ELSE P
draw_legend(P, g, m) ==
    IF g.legend.type = "n" \/ g.legend.anylines < 0 THEN P
    ELSE grestore(ForEach(LegendPlace(gsave([P EXCEPT !.x = m]), g.legend), Labelled(g),
                          LAMBDA Q, c : draw_entry(Q, c, g.legend, g)))

Border(P, x, y) ==
    printline(printline(printline(printline(P, 0, 0, 0, y, "x"), 0, 0, 0, x, "y"),
              x, 0, x, y, "x"), y, 0, y, x, "y")

Bordered(P, g) == IF g.border = 1 THEN Border(P, g.x_axis.psize, g.y_axis.psize) ELSE P
DrawnAxes(P, g) == draw_axis(draw_axis(P, g.x_axis, g.y_axis), g.y_axis, g.x_axis)
DrawnStrings(P, g) == ForEach(P, g.strings, LAMBDA Q, s : print_label(Q, s.s))
\* `m` is what the memory of draw_legend's x holds.
draw_graph(P, g, m) ==
    translate(
      DrawnStrings(draw_legend(draw_curves(print_label(
        DrawnAxes(Bordered(translate(P, g.x_translate, g.y_translate), g), g), g.title), g), g, m), g),
      -g.x_translate, -g.y_translate)

\* The bounding box with its padding.
Padded(p) == [i \in 1..4 |-> IF p.pad = 0 THEN p.bb[i]
                             ELSE Quotient(p.bb[i] * (100 + p.pad), 100)]

\* The header: the bounding box, turned for a landscape, and where the page's
\* origin goes.
draw_header(P, p, pp, landscape) ==
    LET bb == Padded(p)
        P1 == Emit(P, [op |-> "header", page |-> p.page, landscape |-> landscape,
                       box |-> IF landscape THEN <<bb[2], bb[1], bb[4], bb[3]>> ELSE bb])
        P2 == IF pp THEN Emit(P1, [op |-> "centered"])
              ELSE IF landscape THEN translate(P1, -100 * (bb[1] + bb[3]), 0) ELSE P1
        P3 == setfont(gsave(P2), "Times-Roman", 900)
    IN IF p.preamble = CNULL THEN P3
       ELSE IF p.prefile = 1 /\ p.preamble[1].v \notin DOMAIN Files
       THEN [P3 EXCEPT !.error = "preamble file couldn't be opened"]
       ELSE Emit(P3, [op |-> "included"])

draw_footer(P, p) ==
    IF p.epilogue # CNULL /\ p.epifile = 1 /\ p.epilogue[1].v \notin DOMAIN Files
    THEN [P EXCEPT !.error = "epilogue file couldn't be opened"]
    ELSE grestore(IF p.epilogue = CNULL THEN P ELSE Emit(P, [op |-> "included"]))
==============================================================================
