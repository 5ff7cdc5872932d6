------------------------------ MODULE JgraphShow ------------------------------
(****************************************************************************)
(* jgraph -p (tools/jgraph/show.c): the description printed again, with the  *)
(* places that process.c worked out turned back into the axes' units.        *)
(*                                                                           *)
(* What is printed is a file as JgraphTokens reads it.  Comments are left    *)
(* out, and with them the settings that show_axis prints inside of one.      *)
(****************************************************************************)
EXTENDS JgraphProcess

LOCAL S == INSTANCE SequencesExt

ptoin(p) == p \div 72

\* The value whose logarithm is t thousandths.
RECURSIVE Power(_, _)
Power(t, base) == IF t >= 1000 THEN (base * Power(t - 1000, base)) \div 100
                  ELSE IF t < 0 THEN (100 * Power(t + 1000, base)) \div base
                  ELSE 100 + (t * (base - 100)) \div 1000

ptoc(p, a) ==
    LET reach == Along(a.max, a) - Along(a.min, a)
        v == (p * reach) \div a.psize + Along(a.min, a)
    IN IF a.is_lg = 1 THEN Power(v, a.log_base) ELSE v
ptodist(p, a) == IF a.is_lg = 1 THEN p \div 72 ELSE (p * (a.max - a.min)) \div a.psize

Field(name, n) == <<Name(name), Number(n)>>
Pair(name, a, b) == <<Name(name), Number(a), Number(b)>>
Flag(set, no, name) == <<Name(IF set = 1 THEN name ELSE no \o name)>>
Keyed(table, v) == CHOOSE k \in DOMAIN table : table[k] = v
Lines(seqs) == S!FlattenSeq(seqs)
Each(list, Show(_)) == S!FlattenSeq([i \in 1..Len(list) |-> Show(list[i])])

\* A gray or a color; what it was is gone, three numbers stand for it.
Gray(kind, gray, color) ==
    CASE kind = "g" -> Field(gray, 0)
      [] kind = "c" -> Append(Pair(color, 0, 0), Number(0))
      [] OTHER -> <<>>

Escaped(text) == Each(text, LAMBDA c : IF c = NewLine THEN <<Name("\\"), NewLine>> ELSE <<c>>)
show_mltiline(s) == (IF s = CNULL THEN <<>> ELSE Escaped(s)) \o <<NewLine>>
show_string(s) == (IF s = CNULL THEN <<>> ELSE <<Name(":"), Space>> \o Escaped(s)) \o <<NewLine>>

LabelWords(l, x, y) ==
    show_string(l.label) \o Field("x", x) \o Field("y", y)
      \o <<Name("hj" \o l.hj), Name("vj" \o l.vj)>> \o Field("rotate", l.rotate)
      \o <<Name("font"), Name(l.font)>> \o Field("fontsize", l.fontsize)
show_label(l, g) ==
    LabelWords(l, ptoc(l.x, g.x_axis), ptoc(l.y, g.y_axis))
      \o Field("linesep", l.linesep) \o Gray(l.gray, "lgray", "lcolor")
show_lmark(l, g) == LabelWords(l, ptodist(l.x, g.x_axis), ptodist(l.y, g.y_axis))

\* The points, with the error bars' ends from the curve's own lists.
RECURSIVE show_points(_, _, _)
show_points(pts, px, py) ==
    IF pts = <<>> THEN <<>>
    ELSE LET p == Head(pts) IN
         CASE p.e = "p" -> Pair("pts", p.x, p.y) \o show_points(Tail(pts), px, py)
           [] p.e = "x" -> Pair("x_epts", p.x, p.y) \o <<Number(px[1]), Number(px[2])>>
                             \o show_points(Tail(pts), SubSeq(px, 3, Len(px)), py)
           [] p.e = "y" -> Pair("y_epts", p.y, p.y) \o <<Number(py[1]), Number(py[2])>>
                             \o show_points(Tail(pts), px, SubSeq(py, 3, Len(py)))

Pattern(name, kind, arg) == <<Name(name), Name(Keyed(Patterns, kind)), Number(arg)>>

show_curve(c, g) ==
    LET Flags == Flag(c.rarrow, "no", "rarrow") \o Flag(c.larrow, "no", "larrow")
                   \o Flag(c.rarrows, "no", "rarrows") \o Flag(c.larrows, "no", "larrows")
    IN Lines(<<
      IF c.l.label # CNULL THEN <<Name("label")>> \o show_label(c.l, g) ELSE <<>>,
      show_points(c.pts, c.xepts, c.yepts),
      IF c.eps # CNULL THEN <<Name("eps")>> \o c.eps ELSE <<>>,
      IF c.postscript = CNULL THEN <<>>
      ELSE <<Name("postscript")>> \o (IF c.postfile = 1 THEN <<>> ELSE <<Name(":"), Space>>)
             \o show_mltiline(c.postscript),
      <<Name("marktype"), Name(Keyed(MarkTypes, c.marktype))>>,
      IF c.marktype = "l" THEN show_lmark(c.lmark, g) ELSE <<>>,
      Pair("marksize", ptodist(c.marksize[1], g.x_axis), ptodist(c.marksize[2], g.y_axis)),
      Field("mrotate", c.mrotate), Gray(c.fill, "fill", "cfill"),
      IF c.general_marks = <<>> THEN <<>>
      ELSE <<Name("gmarks")>> \o Each(c.general_marks, LAMBDA p : <<Number(p[1]), Number(p[2])>>),
      Flag(c.poly, "no", "poly"), Gray(c.pfill, "pfill", "pcfill"),
      <<Name("linetype"), Name(Keyed(LineTypes, c.linetype))>>,
      IF c.linetype # "g" THEN <<>>
      ELSE <<Name("glines")>> \o Each(c.gen_linetype, LAMBDA f : <<Number(f)>>),
      Field("linethickness", c.linethick), Gray(c.gray, "gray", "color"),
      Flag(c.clip, "no", "clip"), Pattern("pattern", c.pattern, c.parg),
      Pattern("ppattern", c.ppattern, c.pparg), Pattern("apattern", c.apattern, c.aparg),
      Flags, Gray(c.afill, "afill", "acfill"), Flag(c.bezier, "no", "bezier"),
      Pair("asize", ptodist(c.asize[1], g.x_axis), 2 * ptodist(c.asize[2], g.y_axis))>>)

\* The automatic marks and labels are printed as explicit ones, and none are
\* to be made anew: `hash 0`.
show_axis(a, g) ==
    LET other == Other(a, g)
        Drawn2(set, name) == Flag(set, "no_", name)
    IN Field("size", a.size) \o Field("min", a.min) \o Field("max", a.max)
       \o <<Name(IF a.is_lg = 1 THEN "log" ELSE "linear")>>
       \o IF 1 \notin {a.draw_hash_labels, a.draw_axis_line, a.draw_hash_marks, a.draw_axis_label}
          THEN <<Name("nodraw")>>
          ELSE Lines(<<
            Field("draw_at", ptoc(a.draw_at, other)),
            IF a.label.label # CNULL THEN <<Name("label")>> \o show_label(a.label, g) ELSE <<>>,
            Drawn2(a.draw_hash_labels, "draw_hash_labels"),
            Drawn2(a.draw_axis_line, "draw_axis_line"),
            Drawn2(a.draw_hash_marks, "draw_hash_marks"),
            Drawn2(a.grid_lines, "grid_lines"), Drawn2(a.mgrid_lines, "mgrid_lines"),
            Drawn2(a.draw_axis_label, "draw_axis_label"),
            Gray(a.gray, "gray", "color"), Gray(a.gr_gray, "gr_gray", "color"),
            Gray(a.mgr_gray, "mgr_gray", "color"), Field("hash", 0),
            Field("draw_hash_marks_at", ptoc(a.draw_hash_marks_at, other)),
            Field("draw_hash_labels_at", ptoc(a.draw_hash_labels_at, other)),
            <<Name("hash_labels")>> \o show_label(a.hl, g),
            Each(a.hash_lines, LAMBDA h :
              Field(IF h.size = HASH_SIZE THEN "hash_at" ELSE "mhash_at", ptoc(h.loc, a))),
            Each(a.hash_labels, LAMBDA s :
              <<Name("hash_label")>> \o Field("at", ptoc(s.x, a)) \o show_string(s.label))>>)

show_legend(l, g) ==
    (CASE l.type = "c" -> <<Name("custom")>> [] l.type = "n" -> <<Name("off")>> [] OTHER -> <<>>)
      \o Field("linelength", ptodist(l.linelength, g.x_axis))
      \o Field("linebreak", ptodist(l.linebreak, g.y_axis))
      \o Field("midspace", ptodist(l.midspace, g.x_axis))
      \o IF l.type = "u" THEN <<Name("defaults")>> \o show_label(l.l, g) ELSE <<>>

show_graph(g) == Lines(<<
    Field("x_translate", ptoin(g.x_translate)), Field("y_translate", ptoin(g.y_translate)),
    <<Name("xaxis")>> \o show_axis(g.x_axis, g), <<Name("yaxis")>> \o show_axis(g.y_axis, g),
    Flag(g.clip, "no", "clip"), Flag(g.border, "no", "border"),
    Each(g.curves, LAMBDA c : Field("curve", 100 * c.num) \o show_curve(c, g)),
    <<Name("legend")>> \o show_legend(g.legend, g),
    IF g.title.label # CNULL THEN <<Name("title")>> \o show_label(g.title, g) ELSE <<>>,
    Each(g.strings, LAMBDA s : Field("string", 100 * s.num) \o show_label(s.s, g))>>)

Included(name, text, file) ==
    IF text = CNULL THEN <<>>
    ELSE <<Name(name)>> \o (IF file = 1 THEN <<>> ELSE <<Name(":"), Space>>) \o show_mltiline(text)

show_page(p) == Lines(<<
    Field("X", ptoin(p.width)), Field("Y", ptoin(p.height)),
    Included("preamble", p.preamble, p.prefile), Included("epilogue", p.epilogue, p.epifile),
    <<Name("bbox")>> \o [i \in 1..4 |-> Number(100 * p.bb[i])],
    Each(p.g, LAMBDA g : Field("graph", 100 * g.num) \o show_graph(g))>>)

\* show_graphs
show_graphs(pages) ==
    Lines([i \in 1..Len(pages) |->
             (IF i = 1 THEN <<>> ELSE <<NewLine, Name("newpage"), NewLine>>) \o show_page(pages[i])])
==============================================================================
