---------------------------- MODULE JgraphObjects ----------------------------
(****************************************************************************)
(* What jgraph draws (tools/jgraph/jgraph.h, jgraph.c) and the lists that    *)
(* hold it (list.c, prio_list.c): pages of graphs, a graph's axes, curves,   *)
(* strings, legend and title.                                                *)
(*                                                                           *)
(* Numbers are in hundredths.  A list is a sequence; the elements of a       *)
(* priority list are ordered by their `num`.  Of the grays, colors, fills    *)
(* and patterns only the kind is kept.                                       *)
(****************************************************************************)
EXTENDS JgraphTokens

\* FSIG and ISIG, the values that stand for "not given".
FSIG == -1001000
ISIG == -11111111
CNULL == <<Nothing>>
HASH_SIZE == 500
MHASH_SIZE == 200

MarkTypes == [circle |-> "o", box |-> "b", diamond |-> "d", triangle |-> "t", x |-> "x",
              cross |-> "c", ellipse |-> "e", general |-> "g", general_nf |-> "G",
              general_bez |-> "Z", general_bez_nf |-> "B", postscript |-> "p", eps |-> "E",
              xbar |-> "X", ybar |-> "Y", none |-> "n", text |-> "l"]
NormalMarks == <<"o", "b", "d", "t", "x", "c">>
Patterns == [solid |-> "s", stripe |-> "/", estripe |-> "e"]

-----------------------------------------------------------------------------
(* Lists.                                                                   *)

first(list) == list[1]
last(list) == list[Len(list)]
insert(item, list) == Append(list, item)
delete_item(list, i) == SubSeq(list, 1, i - 1) \o SubSeq(list, i + 1, Len(list))

Numbers(list) == {list[i].num : i \in 1..Len(list)}
Numbered(list, n) == list[CHOOSE i \in 1..Len(list) : list[i].num = n]
WithNumbered(list, x) == [i \in 1..Len(list) |-> IF list[i].num = x.num THEN x ELSE list[i]]

\* Where prio_insert puts a node: in front of the first that is not before it,
\* but behind all of them where the last is not after it.
Place(num, list) ==
    IF list = <<>> \/ first(list).num >= num THEN 1
    ELSE IF last(list).num <= num THEN Len(list) + 1
    ELSE CHOOSE i \in 2..Len(list) :
           list[i].num >= num /\ \A j \in 2..(i - 1) : list[j].num < num

prio_insert(node, list) ==
    LET i == Place(node.num, list)
    IN SubSeq(list, 1, i - 1) \o <<node>> \o SubSeq(list, i, Len(list))

NextNumber(list) == IF list = <<>> THEN 0 ELSE last(list).num + 1

-----------------------------------------------------------------------------
(* New objects.  `m` is what malloc's memory holds: a label's place is not   *)
(* set by new_label.                                                         *)

new_label(m) ==
    [label |-> CNULL, x |-> m, y |-> m, hj |-> "c", vj |-> "b", font |-> "Times-Roman",
     fontsize |-> 900, rotate |-> 0, gray |-> "n", linesep |-> FSIG,
     xmin |-> m, xmax |-> m, ymin |-> m, ymax |-> m]

new_curve(num, m) ==
    [num |-> num, l |-> [new_label(m) EXCEPT !.vj = "t"],
     lmark |-> [new_label(m) EXCEPT !.vj = "c"],
     clip |-> 0, pattern |-> "s", apattern |-> "s", ppattern |-> "s",
     parg |-> FSIG, aparg |-> FSIG, pparg |-> FSIG,
     gray |-> "n", afill |-> "g", fill |-> "n", pfill |-> "n",
     pts |-> <<>>, xepts |-> <<>>, yepts |-> <<>>, gen_linetype |-> <<>>,
     marktype |-> NormalMarks[(num % 6) + 1], linetype |-> "0", linethick |-> 100,
     marksize |-> <<FSIG, FSIG>>, mrotate |-> 0, general_marks |-> <<>>,
     poly |-> 0, bezier |-> 0, rarrow |-> 0, larrow |-> 0, rarrows |-> 0, larrows |-> 0,
     asize |-> <<FSIG, FSIG>>, postscript |-> CNULL, postfile |-> 0, eps |-> CNULL]

new_line(num, m) == [new_curve(num, m) EXCEPT !.linetype = "s", !.marktype = "n"]

new_axis(is_x, m) ==
    [is_x |-> is_x,
     label |-> [new_label(m) EXCEPT !.x = FSIG, !.y = FSIG, !.font = "Times-Bold",
                  !.fontsize = 1000, !.rotate = FSIG, !.hj = "0", !.vj = "0"],
     hl |-> [new_label(m) EXCEPT !.label = <<>>, !.hj = "0", !.vj = "0"],
     size |-> 300, min |-> FSIG, max |-> FSIG, pmin |-> FSIG, pmax |-> FSIG,
     hash_interval |-> -100, hash_start |-> m, start_given |-> 0, minor_hashes |-> -1,
     log_base |-> 1000, is_lg |-> 0, precision |-> -1, hash_format |-> "f",
     draw_at |-> FSIG, draw_hash_marks_at |-> FSIG, draw_hash_labels_at |-> FSIG,
     draw_hash_labels |-> 1, draw_axis_line |-> 1, draw_hash_marks |-> 1,
     draw_axis_label |-> 1, auto_hash_labels |-> 1, auto_hash_marks |-> 1,
     hash_scale |-> -100, grid_lines |-> 0, mgrid_lines |-> 0,
     gray |-> "n", gr_gray |-> "0", mgr_gray |-> "0",
     hash_labels |-> <<>>, hash_lines |-> <<>>, psize |-> m]

new_legend(m) ==
    [columns |-> 1, columnsep |-> FSIG, linethick |-> FSIG, linelength |-> FSIG,
     linebreak |-> FSIG, midspace |-> FSIG, type |-> "u", anylines |-> m,
     l |-> [new_label(m) EXCEPT !.label = <<>>, !.hj = "l", !.vj = "c",
                                !.x = FSIG, !.y = FSIG]]

new_title(m) == [new_label(m) EXCEPT !.x = FSIG, !.y = FSIG, !.vj = "t", !.fontsize = 1200]

new_string(num, m) == [num |-> num, s |-> new_label(m)]

new_graph(num, m) ==
    [num |-> num, xminval |-> 0, yminval |-> 0, xmaxval |-> 0, ymaxval |-> 0,
     x_axis |-> new_axis(1, m), y_axis |-> new_axis(0, m), x_translate |-> 0, y_translate |-> 0,
     curves |-> <<>>, strings |-> <<>>, title |-> new_title(m), legend |-> new_legend(m),
     clip |-> 0, border |-> 0]

\* new_graphs: a page, numbered after the last one.
new_graphs(pages) ==
    insert([g |-> <<>>, height |-> 0, width |-> 0, bb |-> <<ISIG, ISIG, ISIG, ISIG>>, pad |-> 0,
            preamble |-> CNULL, epilogue |-> CNULL, prefile |-> 0, epifile |-> 0,
            page |-> IF pages = <<>> THEN 1 ELSE last(pages).page + 1], pages)

\* get_curve, get_string and get_graph: the object with that number, or a new one.
get_curve(list, num, m) ==
    IF num \in Numbers(list) THEN list ELSE prio_insert(new_curve(num, m), list)
get_string(list, num, m) ==
    IF num \in Numbers(list) THEN list ELSE prio_insert(new_string(num, m), list)
get_graph(list, num, m) ==
    IF num \in Numbers(list) THEN list ELSE prio_insert(new_graph(num, m), list)

==============================================================================
