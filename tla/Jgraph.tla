-------------------------------- MODULE Jgraph --------------------------------
(****************************************************************************)
(* jgraph, the plotter that all/bash pipes its graphs into (tools/jgraph):   *)
(* main reads the description attribute by attribute (edit_graphs,           *)
(* edit_graph and the functions under it), works the pages out, and draws    *)
(* them or prints the description again.  With -p the output may be piped    *)
(* into a second jgraph.                                                     *)
(*                                                                           *)
(* The functions of edit.c call each other: `at` is the stack of the ones    *)
(* that wait, by the object each has in hand.                                *)
(****************************************************************************)
EXTENDS JgraphDraw, JgraphShow

LOCAL SX == INSTANCE SequencesExt

CONSTANTS Starts   \* how jgraph may be started: the contents of the files named, the options
                   \* ("-p", "-P", "-L"), and what fresh memory holds then

VARIABLES
  files, options,   \* the command line's
  m,         \* what malloc's memory holds
  lex,       \* the reader
  at,        \* the objects being edited, the innermost last
  pages,     \* gs
  status,    \* "reading", "processed", "drawn", "shown", or why it ended
  todo,      \* the page to draw, and its next graph (0: the header first)
  ps,        \* the writer
  first_run  \* the pages of the jgraph -p that this one reads from, or none

vars == <<files, options, m, lex, at, pages, status, todo, ps, first_run>>

Frame(k, n) == [k |-> k, n |-> n]

\* main up to edit_graphs: the files named, one page.
Start(texts) ==
    /\ lex = set_input_file(texts)
    /\ at = <<>> /\ pages = new_graphs(<<>>) /\ status = "reading"
    /\ todo = <<1, 0>> /\ ps = Writer

Init == \E s \in Starts : /\ options = s.options /\ m = s.m /\ first_run = <<>>
                          /\ files = s.files /\ Start(s.files)

-----------------------------------------------------------------------------
(* The objects in hand.                                                     *)

\* The object of frame f in o, and o with x in its place.
Part(o, f) == CASE f.k = "graph" -> Numbered(o.g, f.n)
                [] f.k = "curve" -> Numbered(o.curves, f.n)
                [] f.k = "string" -> Numbered(o.strings, f.n).s
                [] OTHER -> o[f.k]
WithPart(o, f, x) ==
    CASE f.k = "graph" -> [o EXCEPT !.g = WithNumbered(@, x)]
      [] f.k = "curve" -> [o EXCEPT !.curves = WithNumbered(@, x)]
      [] f.k = "string" -> [o EXCEPT !.strings = WithNumbered(@, [num |-> f.n, s |-> x])]
      [] OTHER -> [o EXCEPT ![f.k] = x]

RECURSIVE Get(_, _), Put(_, _, _)
Get(o, path) == IF path = <<>> THEN o ELSE Get(Part(o, Head(path)), Tail(path))
Put(o, path, x) == IF path = <<>> THEN x
                   ELSE WithPart(o, Head(path), Put(Part(o, Head(path)), Tail(path), x))

Outer == SubSeq(at, 1, Len(at) - 1)
TopPage == last(pages)

\* An edit function is done with a word: r is what it read, page the result.
Took(r, page) ==
    /\ lex' = r.L
    /\ pages' = [pages EXCEPT ![Len(pages)] = page]
    /\ at' = IF r.known THEN at \o r.enter ELSE Outer
    /\ status' = IF r.L.error = "none" THEN status ELSE "failed"
    /\ UNCHANGED <<files, options, m, todo, ps, first_run>>

\* The edit function at the top of the stack finds the input's end.
Returning == Took([Read(nexttoken(lex), <<>>) EXCEPT !.known = FALSE], TopPage)

Editing(kinds) == status = "reading" /\ at # <<>> /\ last(at).k \in kinds
InHand == Get(TopPage, at)

\* The attributes of the object in hand, by its function edit.
Entered(r) == [r EXCEPT !.enter = IF @ = <<>> THEN <<>> ELSE <<Frame(@[1], 0)>>]
Keep(L, r) == IF L.eof THEN Returning ELSE Took(Entered(r), Put(TopPage, at, r.o))
Edit(edit(_, _)) == LET L == nexttoken(lex) IN Keep(L, edit(L, InHand))

EditLabel == Editing({"title", "string", "l", "lmark", "label", "hl"}) /\ Edit(edit_label)
EditLegend == Editing({"legend"}) /\ Edit(edit_legend)
EditAxis == Editing({"x_axis", "y_axis"}) /\ Edit(edit_axis)

\* edit_hash_label reads until it is done.
EditHashLabel ==
    /\ Editing({"hash_label"})
    /\ LET r == edit_hash_label(lex, Get(TopPage, Outer))
       IN Took([r EXCEPT !.known = FALSE], Put(TopPage, Outer, r.o))

\* The points of a curve are followed by the graph's axes.
NewPoints(c) == SubSeq(c.pts, Len(InHand.pts) + 1, Len(c.pts))
KeepCurve(L, r) ==
    IF L.eof THEN Returning
    ELSE Took(Entered(r), Put(TopPage, Outer,
                Extend(WithPart(Get(TopPage, Outer), last(at), r.o), NewPoints(r.o))))
EditCurve ==
    Editing({"curve"}) /\ LET L == nexttoken(lex) IN KeepCurve(L, edit_curve(L, InHand))

-----------------------------------------------------------------------------
(* edit_graph.                                                              *)

\* The graphs up to graph n of the last page, those of earlier pages first.
GraphsUpTo(n) == SX!FlattenSeq([i \in 1..(Len(pages) - 1) |-> pages[i].g])
                   \o SelectSeq(TopPage.g, LAMBDA g : g.num <= n)
last_graph(n) == GraphsUpTo(n - 1)

\* A new member of g's list f, copied by `copy` from another.
Copied(L, g, f, fresh, from, copy(_, _)) ==
    [Read(L, [g EXCEPT ![f] = prio_insert(copy(fresh, from), @)]) EXCEPT
       !.enter = <<Frame(IF f = "curves" THEN "curve" ELSE "string", fresh.num)>>]
WholeOf(n) == Quotient(n.after.INPUT.n, 100)
WithList(g, f) == SelectSeq(GraphsUpTo(g.num), LAMBDA h : h[f] # <<>>)

\* do_copy_curve and do_copy_string: from the one with the number that follows,
\* or else from the last one there is.
CopyFrom(n, g, f, fresh, copy(_, _)) ==
    IF n.ok
    THEN IF WholeOf(n) \in Numbers(Append(g[f], fresh))
         THEN Copied(n.after, g, f, fresh, Numbered(Append(g[f], fresh), WholeOf(n)), copy)
         ELSE Wrong(n.after, g, "not found")
    ELSE IF WithList(g, f) = <<>> THEN Wrong(rejecttoken(n.after), g, "Cannot copy the first one")
         ELSE Copied(rejecttoken(n.after), g, f, fresh, last(last(WithList(g, f))[f]), copy)

copy_string(s1, s2) == [s1 EXCEPT !.s = copy_label(@, s2.s)]
do_copy_curve(L, g) ==
    CopyFrom(getnumber(L), g, "curves", new_curve(NextNumber(g.curves), m), copy_curve)
do_copy_string(L, g) ==
    CopyFrom(getnumber(L), g, "strings", new_string(NextNumber(g.strings), m), copy_string)

\* A member of list f by the number that follows, old or new.
ByNumber(n, g, f, get(_, _, _), kind) ==
    IF n.ok THEN Enters(n.after, [g EXCEPT ![f] = get(@, WholeOf(n), m)], <<Frame(kind, WholeOf(n))>>)
    ELSE Wrong(n.after, g, "not followed by number")
Newly(L, g, f, new(_, _), kind) ==
    LET num == NextNumber(g[f])
    IN Enters(L, [g EXCEPT ![f] = prio_insert(new(num, m), @)], <<Frame(kind, num)>>)

GraphPlain == [border |-> [border |-> 1], noborder |-> [border |-> 0],
               clip |-> [clip |-> 1], noclip |-> [clip |-> 0]]
GraphNumbers == [x_translate |-> "x_translate", y_translate |-> "y_translate"]
Parts == [xaxis |-> "x_axis", yaxis |-> "y_axis", title |-> "title", legend |-> "legend"]
NoTable == [w \in {} |-> w]

edit_graph(L, g) ==
    LET w == IF L.INPUT.t = "name" THEN L.INPUT.v ELSE ""
        before == last_graph(g.num)
    IN ByTables(L, g, GraphNumbers, NoTable, NoTable, GraphPlain,
      CASE w \in DOMAIN Parts -> Enters(L, g, <<Frame(Parts[w], 0)>>)
        [] w = "curve" -> ByNumber(getnumber(L), g, "curves", get_curve, "curve")
        [] w = "newcurve" -> Newly(L, g, "curves", new_curve, "curve")
        [] w = "newline" -> Newly(L, g, "curves", new_line, "curve")
        [] w = "copycurve" -> do_copy_curve(L, g)
        [] w = "string" -> ByNumber(getnumber(L), g, "strings", get_string, "string")
        [] w = "newstring" -> Newly(L, g, "strings", new_string, "string")
        [] w \in {"copystring", "copyline"} -> do_copy_string(L, g)
        [] w = "inherit_axes" ->
             IF before = <<>> THEN Wrong(L, g, "First graph cannot inherit axes")
             ELSE Read(L, inherit_axes(g, last(before)))
        [] OTHER -> Unknown(L, g))

\* X and Y are the page's, in a graph as well.
PageSize == [X |-> "width", Y |-> "height"]
IsPageSize(w) == w.t = "name" /\ w.v \in DOMAIN PageSize

KeepPage(r) == Took(r, r.o)
KeepGraph(r) == Took(r, Put(TopPage, at, r.o))
EditGraph ==
    /\ Editing({"graph"})
    /\ LET L == nexttoken(lex)
       IN IF L.eof THEN Returning
          ELSE IF IsPageSize(L.INPUT) THEN KeepPage(ReadNumber(L, TopPage, PageSize[L.INPUT.v]))
          ELSE KeepGraph(edit_graph(L, InHand))

-----------------------------------------------------------------------------
(* edit_graphs.                                                             *)

\* copygraph: a new graph with the axes of the one with the number that
\* follows, or of the one before it.
Inherits(L, p, g, from) ==
    Enters(L, [p EXCEPT !.g = insert(inherit_axes(g, from), @)], <<Frame("graph", g.num)>>)
InheritFrom(n, p, g) ==
    IF n.ok
    THEN IF WholeOf(n) \in Numbers(Append(p.g, g))
         THEN Inherits(n.after, p, g, Numbered(Append(p.g, g), WholeOf(n)))
         ELSE Wrong(n.after, p, "no such graph")
    ELSE IF last_graph(g.num) = <<>>
         THEN Wrong(rejecttoken(n.after), p, "First graph cannot inherit axes")
         ELSE Inherits(rejecttoken(n.after), p, g, last(last_graph(g.num)))
copy_graph(L, p) == InheritFrom(getnumber(L), p, new_graph(NextNumber(p.g), m))

\* The four integers of bbox; fewer end the program.
SetBox(r, p) ==
    IF Len(r.numbers) < 4 THEN Wrong(r.L, p, "Bbox definition must have four integers")
    ELSE Read(r.L, [p EXCEPT !.bb = [i \in 1..4 |-> Quotient(r.numbers[i], 100)]])
read_bbox(L, p) == SetBox(AtMost(4, L), p)

\* preamble and epilogue: text or the name of a file.
SetIncluded(n, p, text, file) ==
    CASE n.eof -> Returns(n, p)
      [] ~n.eof /\ Is(n.INPUT, ":") -> ReadText(n, [p EXCEPT ![file] = 0], text)
      [] OTHER -> Read(n, [p EXCEPT ![file] = 1, ![text] = <<n.INPUT>>])
read_included(L, p, text, file) == SetIncluded(nexttoken(L), p, text, file)

edit_graphs(L, p) ==
    LET w == IF L.INPUT.t = "name" THEN L.INPUT.v ELSE "" IN
    CASE w = "graph" -> ByNumber(getnumber(L), p, "g", get_graph, "graph")
      [] w = "newgraph" -> Newly(L, p, "g", new_graph, "graph")
      [] w = "copygraph" -> copy_graph(L, p)
      [] w \in DOMAIN PageSize -> ReadNumber(L, p, PageSize[w])
      [] w = "bbox" -> read_bbox(L, p)
      [] w = "pad" -> ReadNumber(L, p, "pad")
      [] w = "preamble" -> read_included(L, p, "preamble", "prefile")
      [] w = "epilogue" -> read_included(L, p, "epilogue", "epifile")
      [] OTHER -> Wrong(L, p, "Bad token")

EditGraphs ==
    /\ status = "reading" /\ at = <<>> /\ ~nexttoken(lex).eof
    /\ LET L == nexttoken(lex)
       IN IF Is(L.INPUT, "newpage")
          THEN /\ lex' = L /\ pages' = new_graphs(pages)
               /\ UNCHANGED <<files, options, m, at, status, todo, ps, first_run>>
          ELSE KeepPage(edit_graphs(L, TopPage))

-----------------------------------------------------------------------------
(* The rest of main.                                                        *)

AllGraphs == SX!FlattenSeq([i \in 1..Len(pages) |-> pages[i].g])

\* process_graphs: the first graph that cannot be worked out ends the program,
\* or keeps it for ever.
ProcessGraphs ==
    /\ status = "reading" /\ at = <<>> /\ nexttoken(lex).error = "none" /\ nexttoken(lex).eof
    /\ LET bad == SelectSeq(AllGraphs, LAMBDA g : GraphError(g) # "none")
       IN IF bad = <<>>
          THEN /\ pages' = [i \in 1..Len(pages) |-> process_page(pages[i])]
               /\ status' = "processed"
          ELSE /\ status' = IF GraphError(bad[1]) = "never ends" THEN "hangs" ELSE "failed"
               /\ UNCHANGED pages
    /\ lex' = nexttoken(lex)
    /\ UNCHANGED <<files, options, m, at, todo, ps, first_run>>

\* The reader's own errors at the top.
ReadingFails ==
    /\ status = "reading" /\ at = <<>> /\ nexttoken(lex).error # "none"
    /\ lex' = nexttoken(lex) /\ status' = "failed"
    /\ UNCHANGED <<files, options, m, at, pages, todo, ps, first_run>>

Writes(P, next) ==
    /\ ps' = P /\ todo' = next
    /\ status' = IF P.error # "none" THEN "failed"
                 ELSE IF next[1] > Len(pages) THEN "drawn" ELSE status
    /\ UNCHANGED <<files, options, m, lex, at, pages, first_run>>
Drawing == status = "processed" /\ "-p" \notin options
Page == pages[todo[1]]

\* draw_graphs: the header, the graphs and the footer of each page.
DrawHeader ==
    /\ Drawing /\ todo[2] = 0
    /\ Writes(draw_header(ps, Page, "-P" \in options, "-L" \in options), <<todo[1], 1>>)
DrawGraph ==
    /\ Drawing /\ todo[2] > 0 /\ todo[2] <= Len(Page.g)
    /\ Writes(draw_graph(ps, Page.g[todo[2]], m), <<todo[1], todo[2] + 1>>)
DrawFooter ==
    /\ Drawing /\ todo[2] > Len(Page.g)
    /\ Writes(draw_footer(ps, Page), <<todo[1] + 1, 0>>)

\* show_graphs, and a second jgraph that reads what it prints.
ShowGraphs ==
    /\ status = "processed" /\ "-p" \in options
    /\ options' = options \ {"-p"}
    /\ first_run' = pages
    /\ lex' = set_input_file(<<show_graphs(pages)>>)
    /\ at' = <<>> /\ pages' = new_graphs(<<>>) /\ status' = "reading"
    /\ todo' = <<1, 0>> /\ ps' = Writer
    /\ UNCHANGED <<files, m>>

Next == EditGraphs \/ EditGraph \/ EditCurve \/ EditAxis \/ EditHashLabel \/ EditLegend
          \/ EditLabel \/ ProcessGraphs \/ ReadingFails
          \/ DrawHeader \/ DrawGraph \/ DrawFooter \/ ShowGraphs

Spec == Init /\ [][Next]_vars

-----------------------------------------------------------------------------
(* What was written, read as PostScript: the font and the origin after the   *)
(* operations so far, what gsave kept, and whether a label came out in       *)
(* another font or a label or an axis out of the box that was announced.     *)

Blank == [f |-> "", s |-> 0, x |-> 0, y |-> 0, saved |-> <<>>, box |-> <<0, 0, 0, 0>>,
          turned |-> FALSE, misprint |-> FALSE, outside |-> FALSE]
Outside(b, S) ==
    LET at1 == <<b[1] + S.x, b[2] + S.y, b[3] + S.x, b[4] + S.y>>
        d == IF S.turned THEN <<at1[2], -at1[3], at1[4], -at1[1]>> ELSE at1
    IN \/ d[1] < 100 * S.box[1] \/ d[2] < 100 * S.box[2]
       \/ d[3] > 100 * S.box[3] \/ d[4] > 100 * S.box[4]

Apply(S, o) ==
    CASE o.op = "gsave" -> [S EXCEPT !.saved = Append(@, <<S.f, S.s, S.x, S.y>>)]
      [] o.op = "grestore" ->
           LET k == last(S.saved)
           IN [S EXCEPT !.f = k[1], !.s = k[2], !.x = k[3], !.y = k[4],
                        !.saved = SubSeq(@, 1, Len(@) - 1)]
      [] o.op = "font" -> [S EXCEPT !.f = o.f, !.s = o.s]
      [] o.op = "translate" -> [S EXCEPT !.x = @ + o.x, !.y = @ + o.y]
      [] o.op = "header" -> [S EXCEPT !.box = o.box, !.turned = o.landscape]
      [] o.op = "show" -> [S EXCEPT !.misprint = @ \/ <<S.f, S.s>> # <<o.f, o.s>>,
                                    !.outside = @ \/ Outside(o.box, S)]
      [] o.op = "line" -> [S EXCEPT !.outside = @ \/ Outside(o.box, S)]
      [] OTHER -> S
Says(words) == \E i \in 1..Len(lex.read) : lex.read[i].v \in words
RECURSIVE Interpret(_, _)
Interpret(S, ops) ==
    LET half == Len(ops) \div 2 IN
    CASE (S.misprint /\ S.outside) \/ ops = <<>> -> S
      [] Len(ops) = 1 -> Apply(S, ops[1])
      [] OTHER -> Interpret(Interpret(S, SubSeq(ops, 1, half)), SubSeq(ops, half + 1, Len(ops)))
Printed == Interpret(Blank, ps.out)

\* A graph that process_extrema means to cover: no legend or one of a single
\* column, neither custom nor turned, marks no longer than usual, axes that lie within
\* each other, no texts for marks.
Covered(g) ==
    /\ \/ Labelled(g) = <<>> \/ g.legend.type = "n"
       \/ g.legend.type = "u" /\ g.legend.columns = 1 /\ g.legend.l.rotate = 0
    /\ \A i \in 1..Len(g.curves) : g.curves[i].marktype # "l"
    /\ \A a \in {g.x_axis, g.y_axis} :
         Abs(a.hash_scale) <= 100 /\ a.draw_at \in 0..Other(a, g).psize

\* A `:` begins a string, unless it is taken as the name of a font.
StringsOnly == \A i \in 1..(Len(lex.read) - 1) :
                 ~(Is(lex.read[i], "font") /\ Is(lex.read[i + 1], ":"))

\* The text that was read so far is the files' text: nothing is lost, doubled
\* or swapped where one word or one character is put back, also across the
\* ends of included files; but a file whose include or shell statement ends the
\* file around it without a newline is not read at all (token.c: rejecttoken,
\* ungettokenchar, push_iostack, pop_iostack).
ReadAsWritten ==
    status = "processed" /\ first_run = <<>> /\ todo = <<1, 0>> /\ StringsOnly =>
      lex.read = WordsOfAll(files, FALSE)

\* What the manual says of the include statement: "The result of the statement is
\* to include the contents of the file at that point" (jgraph.1:127), also where
\* the statement is the last of its file.
IncludesStandInPlace ==
    status = "processed" /\ first_run = <<>> /\ todo = <<1, 0>> /\ StringsOnly =>
      lex.read = WordsOfAll(files, TRUE)

\* The bounding box announced at a page's top holds every label and axis line
\* that follows, in the landscape of one page too; with -P, for a box that the
\* user gave and for the landscape's further pages, which turn once more, there
\* is no such promise (process_extrema, process_graphs, draw_header).
BoundingBoxHolds ==
    \/ ~\A i \in 1..Len(pages) : \A j \in 1..Len(pages[i].g) : Covered(pages[i].g[j])
    \/ Says({"bbox"})
    \/ "-P" \in options \/ ("-L" \in options /\ Len(pages) > 1)
    \/ ~Printed.outside

\* Every label comes out in its own font, although printline.c writes a font
\* only where it believes another one set; and what gsave opens is closed.
LabelsInTheirFonts ==
    ~Printed.misprint /\ (status = "drawn" => Printed.saved = <<>>)

\* A line is whole: every two neighbouring points of a curve with a line are
\* joined by a path, however many paths the line is cut into (draw_curve).
LinesAreWhole ==
    status = "drawn" =>
      \A i \in 1..Len(AllGraphs) : LET g == AllGraphs[i] IN
        \A c \in {g.curves[j] : j \in 1..Len(g.curves)} :
          HasLine(c) => \A k \in 1..(Len(c.pts) - 1) :
            LET from == Center(c.pts[k], g)
                to == Center(c.pts[k + 1], g)
            IN \E o \in {ps.out[n] : n \in 1..Len(ps.out)} :
                 /\ o.op = "path" /\ o.curve = c.num
                 /\ \E n \in 1..(Len(o.points) - 1) : o.points[n] = from /\ o.points[n + 1] = to

\* Where the user gives an axis no bounds, it reaches over all points of the
\* graph's curves and their error bars; a graph that inherited its axes has
\* the other graph's (edit_curve, process_axis1).
AxesHoldThePoints ==
    status = "processed" /\ ~Says({"min", "max", "inherit_axes", "copygraph"}) =>
      \A i \in 1..Len(AllGraphs) : LET g == AllGraphs[i] IN
        \A j \in 1..Len(g.curves) : \A k \in 1..Len(g.curves[j].pts) :
          \A a \in {g.x_axis, g.y_axis} :
            \A v \in Reaches(g.curves[j].pts[k], IF a.is_x = 1 THEN "x" ELSE "y") :
              a.min <= v /\ v <= a.max

\* The words an edit function has just taken.
JustRead == SubSeq(lex'.read, Len(lex.read) + 1, Len(lex'.read))

\* What the manual says of a hash label that is given no place: it is "printed
\* at the place denoted by the most recent hash_at or mhash_at for this axis"
\* (jgraph.1:1470-1475), where edit_hash_label takes the first one.
HashLabelsAtTheLatest ==
    [][Editing({"hash_label"}) =>
         LET a == Get(TopPage, Outer)
             b == Get(last(pages'), Outer)
         IN Len(a.hash_labels) < Len(b.hash_labels) /\ a.hash_lines # <<>>
              /\ (\A i \in 1..Len(JustRead) : ~Is(JustRead[i], "at")) =>
              last(b.hash_labels).x = last(a.hash_lines).loc]_vars
==============================================================================
