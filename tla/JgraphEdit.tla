------------------------------ MODULE JgraphEdit ------------------------------
(****************************************************************************)
(* How jgraph takes a description in (tools/jgraph/edit.c): every object has *)
(* a function that reads attributes until it meets a word it does not know,  *)
(* puts that word back and returns to the object around it.                  *)
(*                                                                           *)
(* A table says what an attribute sets.  An operator that reads returns the  *)
(* reader `L` and the changed object `o`; `known` is FALSE where the word is *)
(* put back, `enter` names the object whose attributes come next.            *)
(****************************************************************************)
EXTENDS JgraphObjects

Greater(a, b) == IF a > b THEN a ELSE b
Smaller(a, b) == IF a < b THEN a ELSE b

-----------------------------------------------------------------------------
(* Attributes.                                                              *)

Read(L, o) == [L |-> L, o |-> o, known |-> TRUE, enter |-> <<>>]
Enters(L, o, where) == [Read(L, o) EXCEPT !.enter = where]
Unknown(L, o) == [Read(rejecttoken(L), o) EXCEPT !.known = FALSE]
Returns(L, o) == [Read(L, o) EXCEPT !.known = FALSE]
Wrong(L, o, error) == Read(Fails(L, error), o)

\* One number for field f; a word that is no number is put back.
SetNumber(n, o, f) ==
    IF n.ok THEN Read(n.after, [o EXCEPT ![f] = n.after.INPUT.n])
    ELSE Read(rejecttoken(n.after), o)
ReadNumber(L, o, f) == SetNumber(getnumber(L), o, f)

\* All numbers, from n on and at most k, up to the next word that is none,
\* which is put back.
RECURSIVE NumbersFrom(_, _, _)
NumbersFrom(n, sofar, k) ==
    IF ~n.ok THEN [L |-> rejecttoken(n.after), numbers |-> sofar]
    ELSE IF Len(sofar) + 1 = k THEN [L |-> n.after, numbers |-> Append(sofar, n.after.INPUT.n)]
    ELSE NumbersFrom(getnumber(n.after), Append(sofar, n.after.INPUT.n), k)
ReadNumbers(L) == NumbersFrom(getnumber(L), <<>>, 0)
AtMost(k, L) == NumbersFrom(getnumber(L), <<>>, k)

\* Two numbers, of which the second may be missing.
SetPair(r, o, f) == Read(r.L, [o EXCEPT ![f] = r.numbers \o SubSeq(@, Len(r.numbers) + 1, 2)])
ReadPair(L, o, f) == SetPair(AtMost(2, L), o, f)

\* Three numbers for the color f, which is no color unless all are there.
SetColor(r, o, f) == Read(r.L, [o EXCEPT ![f] = IF Len(r.numbers) = 3 THEN "c" ELSE "n"])
ReadColor(L, o, f) == SetColor(AtMost(3, L), o, f)

\* A gray of one number.
SetGray(n, o, f) == IF n.ok THEN Read(n.after, [o EXCEPT ![f] = "g"])
                    ELSE Read(rejecttoken(n.after), o)
ReadGray(L, o, f) == SetGray(getnumber(L), o, f)

\* The attributes that only set fields: o with the table's fields.
Sets(L, o, fields) == Read(L, fields @@ o)

\* The attribute w of object o: by tables of numbers, colors, grays and plain
\* settings, or else what the object's own operator says.
ByTables(L, o, numbers, colors, grays, plain, other) ==
    LET w == L.INPUT IN
    CASE w.t = "name" /\ w.v \in DOMAIN numbers -> ReadNumber(L, o, numbers[w.v])
      [] w.t = "name" /\ w.v \in DOMAIN colors -> ReadColor(L, o, colors[w.v])
      [] w.t = "name" /\ w.v \in DOMAIN grays -> ReadGray(L, o, grays[w.v])
      [] w.t = "name" /\ w.v \in DOMAIN plain -> Sets(L, o, plain[w.v])
      [] OTHER -> other

\* The text behind a `:`; the function returns where there is none.
SetText(r, o, f) ==
    IF r.none THEN Returns(r.after, o) ELSE Read(r.after, [o EXCEPT ![f] = r.line])
ReadText(L, o, f) ==
    SetText(getmultiline(L), o, f)

-----------------------------------------------------------------------------
(* Labels.                                                                  *)

LabelNumbers == [x |-> "x", y |-> "y", fontsize |-> "fontsize", linesep |-> "linesep",
                 rotate |-> "rotate"]
LabelPlain == [hjl |-> [hj |-> "l"], hjc |-> [hj |-> "c"], hjr |-> [hj |-> "r"],
               vjt |-> [vj |-> "t"], vjc |-> [vj |-> "c"], vjb |-> [vj |-> "b"]]

SetFont(n, l) == IF n.eof THEN Returns(n, l) ELSE Read(n, [l EXCEPT !.font = n.INPUT.v])

edit_label(L, l) ==
    ByTables(L, l, LabelNumbers, [lcolor |-> "gray"], [lgray |-> "gray"], LabelPlain,
      CASE Is(L.INPUT, ":") -> ReadText(L, l, "label")
        [] Is(L.INPUT, "font") -> SetFont(nexttoken(L), l)
        [] OTHER -> Unknown(L, l))

Only(o, fields) == [f \in fields |-> o[f]]

LabelFields == {"label", "x", "y", "rotate", "font", "fontsize", "hj", "vj", "gray", "linesep"}
copy_label(l1, l2) == Only(l2, LabelFields) @@ l1

-----------------------------------------------------------------------------
(* Curves.                                                                  *)

CurveNumbers == [linethickness |-> "linethick", mrotate |-> "mrotate"]
CurveColors == [pcfill |-> "pfill", cfill |-> "fill", acfill |-> "afill", color |-> "gray"]
CurveGrays == [pfill |-> "pfill", fill |-> "fill", afill |-> "afill", gray |-> "gray"]
CurvePlain ==
    [poly |-> [poly |-> 1], nopoly |-> [poly |-> 0], bezier |-> [bezier |-> 1],
     nobezier |-> [bezier |-> 0], clip |-> [clip |-> 1], noclip |-> [clip |-> 0],
     larrow |-> [larrow |-> 1], nolarrow |-> [larrow |-> 0], rarrow |-> [rarrow |-> 1],
     norarrow |-> [rarrow |-> 0], larrows |-> [larrows |-> 1], nolarrows |-> [larrows |-> 0],
     rarrows |-> [rarrows |-> 1], norarrows |-> [rarrows |-> 0]]
LineTypes == [none |-> "0", solid |-> "s", dotted |-> ".", dashed |-> "-", longdash |-> "l",
              dotdash |-> "d", dotdotdash |-> "D", dotdotdashdash |-> "2", general |-> "g"]
PatternFields == [pattern |-> <<"pattern", "parg">>, apattern |-> <<"apattern", "aparg">>,
                  ppattern |-> <<"ppattern", "pparg">>]

SetPattern(n, c, p, a) ==
    CASE n.eof -> Read(n, c)
      [] ~n.eof /\ n.INPUT.v \notin DOMAIN Patterns -> Wrong(n, c, "Bad pattern")
      [] OTHER -> ReadNumber(n, [c EXCEPT ![p] = Patterns[n.INPUT.v]], a)
getpattern(L, c, p, a) == SetPattern(nexttoken(L), c, p, a)

\* The numbers of a list of points, in groups of `size`.
Group(numbers, size, i) == SubSeq(numbers, (i - 1) * size + 1, i * size)

\* The points of a list with error bars along e, "p" being none.
Points(e, numbers) ==
    LET size == IF e = "p" THEN 2 ELSE 4 IN
    [i \in 1..(Len(numbers) \div size) |->
       LET v == Group(numbers, size, i) IN
       [x |-> v[1], y |-> v[2], e |-> e, ends |-> SubSeq(v, 3, size)]]

\* What a point reaches along an axis.
Reaches(p, axis) == {IF axis = "x" THEN p.x ELSE p.y}
                      \cup IF p.e = axis THEN {p.ends[1], p.ends[2]} ELSE {}
Least(S) == CHOOSE a \in S : \A b \in S : a <= b
Most(S) == CHOOSE a \in S : \A b \in S : a >= b

\* The error bars' ends are kept apart from the points, two for each.
Ends(points, axis) ==
    LET RECURSIVE EndsOf(_)
        EndsOf(ps) == IF ps = <<>> THEN <<>>
                      ELSE (IF Head(ps).e = axis THEN Head(ps).ends ELSE <<>>) \o EndsOf(Tail(ps))
    IN EndsOf(points)

\* Mutant: only the last point counts.
ExtendByLast(g, points) ==
    IF points = <<>> THEN g
    ELSE LET p == points[Len(points)] IN
         [g EXCEPT !.x_axis.pmin = Least(Reaches(p, "x")), !.x_axis.pmax = Most(Reaches(p, "x")),
                   !.y_axis.pmin = Least(Reaches(p, "y")), !.y_axis.pmax = Most(Reaches(p, "y"))]

\* pmin and pmax follow the points of both axes; they start anew where the
\* x axis has none.
Extend(g, points) ==
    LET Extremes(a, name) ==
          LET all == UNION {Reaches(points[i], name) : i \in 1..Len(points)} IN
          IF g.x_axis.pmax = FSIG
          THEN [a EXCEPT !.pmin = Least(all), !.pmax = Most(all)]
          ELSE [a EXCEPT !.pmin = Smaller(@, Least(all)), !.pmax = Greater(@, Most(all))]
    IN IF points = <<>> THEN g
       ELSE [g EXCEPT !.x_axis = Extremes(@, "x"), !.y_axis = Extremes(@, "y")]

\* pts, x_epts and y_epts: the graph comes back beside the curve.
AddPoints(c, e, points) ==
    [c EXCEPT !.pts = @ \o points, !.xepts = @ \o Ends(points, "x"), !.yepts = @ \o Ends(points, "y")]
TakePoints(r, c, e) ==
    IF Len(r.numbers) % (IF e = "p" THEN 2 ELSE 4) # 0 THEN Wrong(r.L, c, "no y value")
    ELSE Read(r.L, AddPoints(c, e, Points(e, r.numbers)))
read_points(L, c, e) == TakePoints(ReadNumbers(L), c, e)

PointLists == [pts |-> "p", x_epts |-> "x", y_epts |-> "y"]

TakeMarks(r, c) ==
    IF Len(r.numbers) % 2 # 0 THEN Wrong(r.L, c, "no y value")
    ELSE Read(r.L, [c EXCEPT !.general_marks =
                      @ \o [i \in 1..(Len(r.numbers) \div 2) |-> Group(r.numbers, 2, i)]])
read_gmarks(L, c) == TakeMarks(ReadNumbers(L), c)

TakeLine(r, c) == Read(r.L, [c EXCEPT !.gen_linetype = @ \o r.numbers])

SetMark(n, c) ==
    CASE n.eof -> Returns(n, c)
      [] ~n.eof /\ n.INPUT.v \notin DOMAIN MarkTypes -> Wrong(n, c, "Bad mark")
      [] OTHER -> Enters(n, [c EXCEPT !.marktype = MarkTypes[n.INPUT.v]],
                         IF MarkTypes[n.INPUT.v] = "l" THEN <<"lmark">> ELSE <<>>)
read_marktype(L, c) == SetMark(nexttoken(L), c)

SetLine(n, c) ==
    CASE n.eof -> Returns(n, c)
      [] ~n.eof /\ n.INPUT.v \notin DOMAIN LineTypes -> Wrong(n, c, "Bad line type")
      [] OTHER -> Read(n, [c EXCEPT !.linetype = LineTypes[n.INPUT.v]])
read_linetype(L, c) == SetLine(nexttoken(L), c)

\* postscript and eps: a file that must exist, or for postscript the text itself.
SetPostscript(n, c, field, mark) ==
    CASE n.eof -> IF field = "eps" THEN Wrong(n, c, "no eps file") ELSE Returns(n, c)
      [] ~n.eof /\ field = "postscript" /\ Is(n.INPUT, ":") ->
           ReadText(n, [c EXCEPT !.marktype = mark, !.postfile = 0], field)
      [] OTHER ->
           IF n.INPUT.v \notin DOMAIN Files THEN Wrong(n, c, "couldn't open")
           ELSE Read(n, [c EXCEPT !.marktype = mark, ![field] = <<n.INPUT>>,
                           !.postfile = IF field = "eps" THEN @ ELSE 1])
read_postscript(L, c, field) ==
    SetPostscript(nexttoken(L), c, field, IF field = "eps" THEN "E" ELSE "p")

edit_curve(L, c) ==
    LET w == IF L.INPUT.t = "name" THEN L.INPUT.v ELSE "" IN
    ByTables(L, c, CurveNumbers, CurveColors, CurveGrays, CurvePlain,
      CASE w \in DOMAIN PointLists -> read_points(L, c, PointLists[w])
        [] w \in {"marksize", "asize"} -> ReadPair(L, c, w)
        [] w = "gmarks" -> read_gmarks(L, c)
        [] w = "glines" -> TakeLine(ReadNumbers(L), c)
        [] w \in DOMAIN PatternFields ->
             getpattern(L, c, PatternFields[w][1], PatternFields[w][2])
        [] w = "marktype" -> read_marktype(L, c)
        [] w = "linetype" -> read_linetype(L, c)
        [] w \in {"eps", "postscript"} -> read_postscript(L, c, w)
        [] w = "label" -> Enters(L, c, <<"l">>)
        [] OTHER -> Unknown(L, c))

\* copy_curve: not the number, the points, the label's text and, of the fields
\* that edit_curve sets, nothing else.
CurveFields == {"clip", "pattern", "apattern", "ppattern", "parg", "aparg", "pparg",
                "marktype", "linetype", "linethick", "marksize", "mrotate", "gray", "fill",
                "poly", "pfill", "afill", "postscript", "postfile", "eps", "rarrow", "larrow",
                "rarrows", "larrows", "asize", "bezier"}
copy_curve(c1, c2) ==
    [(Only(c2, CurveFields) @@ c1) EXCEPT
       !.l = [copy_label(@, c2.l) EXCEPT !.label = CNULL],
       !.lmark = copy_label(@, c2.lmark),
       !.gen_linetype = @ \o c2.gen_linetype,
       !.general_marks = @ \o c2.general_marks]

-----------------------------------------------------------------------------
(* Axes.                                                                    *)

AxisNumbers ==
    [size |-> "size", max |-> "max", min |-> "min", hash |-> "hash_interval",
     draw_at |-> "draw_at", hash_scale |-> "hash_scale",
     draw_hash_labels_at |-> "draw_hash_labels_at", draw_hash_marks_at |-> "draw_hash_marks_at"]
AxisInts == [mhash |-> "minor_hashes", precision |-> "precision"]
AxisColors == [color |-> "gray", grid_color |-> "gr_gray", mgrid_color |-> "mgr_gray"]
AxisGrays == [gray |-> "gray", grid_gray |-> "gr_gray", mgrid_gray |-> "mgr_gray"]
Drawn(v) == [draw_hash_labels |-> v, draw_axis_line |-> v, draw_hash_marks |-> v,
             draw_axis_label |-> v]
AxisPlain ==
    [log |-> [is_lg |-> 1], linear |-> [is_lg |-> 0], nodraw |-> Drawn(0), draw |-> Drawn(1),
     auto_hash_marks |-> [auto_hash_marks |-> 1], no_auto_hash_marks |-> [auto_hash_marks |-> 0],
     auto_hash_labels |-> [auto_hash_labels |-> 1],
     no_auto_hash_labels |-> [auto_hash_labels |-> 0],
     draw_hash_labels |-> [draw_hash_labels |-> 1],
     no_draw_hash_labels |-> [draw_hash_labels |-> 0],
     draw_axis_line |-> [draw_axis_line |-> 1], no_draw_axis_line |-> [draw_axis_line |-> 0],
     draw_axis |-> [draw_axis_line |-> 1], no_draw_axis |-> [draw_axis_line |-> 0],
     draw_hash_marks |-> [draw_hash_marks |-> 1], no_draw_hash_marks |-> [draw_hash_marks |-> 0],
     draw_axis_label |-> [draw_axis_label |-> 1], no_draw_axis_label |-> [draw_axis_label |-> 0],
     grid_lines |-> [grid_lines |-> 1], no_grid_lines |-> [grid_lines |-> 0],
     mgrid_lines |-> [mgrid_lines |-> 1], no_mgrid_lines |-> [mgrid_lines |-> 0]]
HashFormats == {"g", "G", "E", "e", "f"}

\* An integer is written without the hundredths.
SetInt(n, o, f) ==
    IF n.ok THEN Read(n.after, [o EXCEPT ![f] = n.after.INPUT.n \div 100])
    ELSE Read(rejecttoken(n.after), o)
ReadInt(L, o, f) == SetInt(getnumber(L), o, f)

AddHash(n, a, major) ==
    IF ~n.ok THEN Read(rejecttoken(n.after), a)
    ELSE Read(n.after, [a EXCEPT !.hash_lines =
           insert([loc |-> n.after.INPUT.n, major |-> major,
                   size |-> IF major THEN HASH_SIZE ELSE MHASH_SIZE], @)])

read_hash_at(L, a, major) == AddHash(getnumber(L), a, major)

SetStart(n, a) ==
    IF n.ok THEN Read(n.after, [a EXCEPT !.hash_start = n.after.INPUT.n, !.start_given = 1])
    ELSE Read(rejecttoken(n.after), a)
SetFormat(n, a) ==
    CASE n.eof -> Returns(n, a)
      [] ~n.eof /\ n.INPUT.v \notin HashFormats -> Wrong(n, a, "Invalid hash_style")
      [] OTHER -> Read(n, [a EXCEPT !.hash_format = n.INPUT.v])
SetBase(n, a) ==
    IF n.ok /\ n.after.INPUT.n <= 100 THEN Wrong(n.after, a, "log_base must be > 1.0")
    ELSE SetNumber(n, a, "log_base")

edit_axis(L, a) ==
    LET w == IF L.INPUT.t = "name" THEN L.INPUT.v ELSE ""
    IN ByTables(L, a, AxisNumbers, AxisColors, AxisGrays, AxisPlain,
      CASE w \in DOMAIN AxisInts -> ReadInt(L, a, AxisInts[w])
        [] w = "shash" -> SetStart(getnumber(L), a)
        [] w = "hash_format" -> SetFormat(nexttoken(L), a)
        [] w = "log_base" -> SetBase(getnumber(L), a)
        [] w = "hash_at" -> read_hash_at(L, a, TRUE)
        [] w = "mhash_at" -> read_hash_at(L, a, FALSE)
        [] w = "label" -> Enters(L, a, <<"label">>)
        [] w = "hash_labels" -> Enters(L, a, <<"hl">>)
        [] w = "hash_label" -> Enters(L, a, <<"hash_label">>)
        [] OTHER -> Unknown(L, a))

\* edit_hash_label, whole: what follows the text and the place of the label ends
\* it; `so` is what has been read so far: the text and the place.
Labels(after, a, so) ==
    IF so.s = CNULL THEN Read(after, a)
    ELSE IF so.at = FSIG THEN Wrong(after, a, "hash_label needs at")
    ELSE Read(after, [a EXCEPT !.hash_labels = insert([label |-> so.s, x |-> so.at, y |-> so.at], @)])
LabelText(r, so) == [L |-> r.after, so |-> [so EXCEPT !.s = r.line], none |-> r.none, more |-> ~r.none]
LabelPlace(n, so) ==
    IF n.ok THEN [L |-> n.after, so |-> [so EXCEPT !.at = n.after.INPUT.n], none |-> FALSE, more |-> TRUE]
    ELSE [L |-> rejecttoken(n.after), so |-> so, none |-> FALSE, more |-> FALSE]
LabelPart(n, so) ==
    CASE n.eof -> [L |-> n, so |-> so, none |-> FALSE, more |-> FALSE]
      [] ~n.eof /\ Is(n.INPUT, ":") -> LabelText(getmultiline(n), so)
      [] ~n.eof /\ Is(n.INPUT, "at") -> LabelPlace(getnumber(n), so)
      [] OTHER -> [L |-> rejecttoken(n), so |-> so, none |-> FALSE, more |-> FALSE]
RECURSIVE HashLabelFrom(_, _)
HashLabelFrom(r, a) ==
    IF r.more THEN HashLabelFrom(LabelPart(nexttoken(r.L), r.so), a)
    ELSE IF r.none THEN Read(r.L, a) ELSE Labels(r.L, a, r.so)
\* Without `at`, the label belongs to the first of the axis' own hash marks.
edit_hash_label(L, a) ==
    HashLabelFrom([L |-> L, none |-> FALSE, more |-> TRUE,
                   so |-> [s |-> CNULL,
                           at |-> IF a.hash_lines = <<>> THEN FSIG ELSE first(a.hash_lines).loc]], a)

\* copy_axis: all that edit_axis sets and what the points reached, but not the
\* explicit hash lines and labels.
AxisFields == {"max", "min", "pmax", "pmin", "size", "hash_interval", "hash_start", "log_base",
               "draw_hash_marks_at", "draw_hash_labels_at", "draw_at", "draw_hash_labels",
               "draw_axis_line", "draw_hash_marks", "draw_axis_label", "auto_hash_labels",
               "auto_hash_marks", "minor_hashes", "hash_scale", "hash_format", "gray",
               "mgr_gray", "gr_gray", "grid_lines", "mgrid_lines", "precision", "start_given",
               "is_lg", "is_x"}
copy_axis(a1, a2) == [(Only(a2, AxisFields) @@ a1) EXCEPT !.label = copy_label(@, a2.label),
                                                          !.hl = copy_label(@, a2.hl)]

-----------------------------------------------------------------------------
(* Legends.                                                                 *)

LegendNumbers == [linelength |-> "linelength", columnsep |-> "columnsep",
                  linethickness |-> "linethick", linebreak |-> "linebreak",
                  midspace |-> "midspace"]

\* A legend at one of the graph's sides, and one at a place.
At(l, hj, vj) == [l EXCEPT !.type = "u", !.l.x = FSIG, !.l.y = FSIG, !.l.hj = hj, !.l.vj = vj]
Side == [right |-> <<"l", "c">>, on |-> <<"l", "c">>, left |-> <<"r", "c">>,
         top |-> <<"l", "b">>, bottom |-> <<"l", "t">>]

PlaceAt(n, l, f) ==
    IF n.ok THEN Read(n.after, [l EXCEPT !.type = "u", !.l.hj = "l", !.l.vj = "t",
                                  !.l[f] = n.after.INPUT.n])
    ELSE Read(rejecttoken(n.after), l)
read_place(L, l, f) == PlaceAt(getnumber(L), l, f)

edit_legend(L, l) ==
    LET w == IF L.INPUT.t = "name" THEN L.INPUT.v ELSE ""
        none == [w2 \in {} |-> ""]
    IN ByTables(L, l, LegendNumbers, none, none,
                [off |-> [type |-> "n"], custom |-> [type |-> "c"]],
      CASE w \in {"x", "y"} -> read_place(L, l, w)
        [] w \in DOMAIN Side -> Read(L, At(l, Side[w][1], Side[w][2]))
        [] w = "columns" -> ReadInt(L, l, "columns")
        [] w = "defaults" -> Enters(L, l, <<"l">>)
        [] OTHER -> Unknown(L, l))

copy_legend(l1, l2) ==
    [(Only(l2, {"columnsep", "columns", "linethick", "linelength", "linebreak", "midspace",
                "type"}) @@ l1) EXCEPT !.l = copy_label(@, l2.l)]

inherit_axes(g, lastg) ==
    [g EXCEPT !.x_axis = copy_axis(@, lastg.x_axis), !.y_axis = copy_axis(@, lastg.y_axis),
              !.x_translate = lastg.x_translate, !.y_translate = lastg.y_translate,
              !.clip = lastg.clip, !.border = lastg.border,
              !.legend = copy_legend(@, lastg.legend),
              !.title = [copy_label(@, lastg.title) EXCEPT !.label = g.title.label]]
==============================================================================
