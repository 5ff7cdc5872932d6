------------------------------- MODULE MCJgraph -------------------------------
(* Descriptions for jgraph: an axis part, a curve part, a legend part and an *)
(* ending, whole ones with the attributes that these leave out, and some     *)
(* that jgraph does not accept.                                              *)
EXTENDS Jgraph

S == INSTANCE SequencesExt

Numerals == <<"0", "1", "2", "3", "4", "5", "6", "7", "8", "9", "20", "30", "90", "99", "-9", "10">>
Values == <<0, 1, 2, 3, 4, 5, 6, 7, 8, 9, 20, 30, 90, 99, -9, 10>>

\* Words, and a line of words; a text of one letter behind a `:`.
Word(w) == IF \E i \in 1..Len(Numerals) : Numerals[i] = w
           THEN Number(100 * Values[CHOOSE i \in 1..Len(Numerals) : Numerals[i] = w])
           ELSE Name(w)
Words(words) == [i \in 1..Len(words) |-> Word(words[i])]
W(words) == Words(words) \o <<NewLine>>
Text(letters) == <<Name(":"), Space>> \o [i \in 1..letters |-> Name("a")] \o <<NewLine>>
Two == <<Name(":"), Space, Name("a"), Name("b"), Name("\\"), NewLine, Name("c"), NewLine>>

Shell == <<Name("shell"), Name(":"), Space, Name("more"), Name("x"), NewLine>>

Axes == <<
  W(<<"xaxis", "size", "2", "label">>) \o Text(5) \o W(<<"yaxis", "hash_labels", "fontsize", "20">>),
  W(<<"xaxis", "min", "10", "max", "0", "grid_lines", "mgrid_lines">>)
    \o W(<<"yaxis", "min", "0", "hash_label", "at", "3">>) \o Text(9)
    \o W(<<"hash_at", "3", "mhash_at", "2", "hash_scale", "1", "label">>) \o Two,
  W(<<"yaxis", "log", "xaxis", "no_auto_hash_labels", "no_draw_axis", "mhash", "1", "hash", "2",
      "precision", "1", "shash", "1">>),
  W(<<"xaxis", "draw_at", "4", "draw_hash_marks_at", "3", "draw_hash_labels_at", "2", "gray", "1",
      "yaxis", "nodraw", "hash_format", "e", "color", "1", "0", "grid_gray", "1">>)>>

Curves == <<
  W(<<"newcurve", "linetype", "solid", "pts", "1", "2", "2", "4", "3", "1", "4", "4", "5", "2",
      "label", "font", "Times-Bold">>) \o Text(3) \o W(<<"rarrows">>),
  W(<<"curve", "3", "pts", "1", "1", "curve", "1", "x_epts", "3", "3", "2", "5", "label">>) \o Text(2)
    \o W(<<"curve", "3", "y_epts", "2", "4", "1", "6", "marktype", "box", "marksize", "1", "1",
           "curve", "2", "linetype", "dashed", "copycurve", "pts", "4", "4", "5", "5", "copycurve",
           "3", "newline", "pts", "1", "1", "2", "3", "larrow">>),
  W(<<"newcurve", "(*", "a", "(*", "b", "*)", "c", "*)", "include", "points", "fill", "1">>)
    \o Shell \o W(<<"bezier", "linetype", "general", "glines", "2", "1", "poly", "pcfill", "1",
      "1", "1", "newcurve", "pts", "7", "5", "marktype", "text">>) \o Text(2)
    \o W(<<"vjt", "label">>) \o Text(1),
  W(<<"newline", "pts", "1", "1", "3", "3", "poly", "pattern", "stripe", "2", "apattern", "solid",
      "gmarks", "1", "1", "2", "2", "marktype", "general", "asize", "1", "1", "larrows", "copycurve",
      "0", "marktype", "xbar", "pts", "1", "9", "copycurve", "marktype", "none", "label">>) \o Text(4)>>

Legends == <<
  W(<<"legend", "top", "columns", "1", "defaults", "fontsize", "6">>),
  W(<<"legend", "custom">>), W(<<"legend", "x", "2", "y", "3", "linelength", "1", "columns", "2">>),
  W(<<"legend", "left", "columns", "1", "midspace", "1">>)>>

Endings == <<
  W(<<"title">>) \o Text(30) \o W(<<"string", "2", "x", "1", "y", "3", "rotate", "90">>) \o Text(40)
    \o W(<<"copystring", "y", "5">>) \o Two \o W(<<"newstring", "font", "Symbol", "x", "6", "y", "2">>)
    \o Text(1) \o W(<<"string", "1", "hjr", "x", "0", "y", "0">>) \o Text(60),
  W(<<"copygraph", "newcurve", "pts", "1", "1", "x_translate", "4", "border", "newpage", "newgraph",
      "inherit_axes", "newcurve", "pts", "2", "2", "copygraph", "0", "noborder", "copycurve", "pts",
      "9", "9">>),
  W(<<"X", "8", "bbox", "-9", "-9", "99", "99", "pad", "1", "preamble">>) \o Text(2)
    \o W(<<"epilogue", "tail">>) \o W(<<"graph", "0", "noclip", "Y", "9">>)>>

Others == <<
  W(<<"newgraph", "xaxis", "min", "0", "max", "10", "hash_at", "3", "mhash_at", "5", "hash_label">>)
    \o Text(9) \o W(<<"hash_label">>) \o Text(2) \o W(<<"at", "7", "hash_label", "at", "8">>)
    \o W(<<"yaxis", "mhash_at", "9", "hash_label">>) \o Text(20)
    \o W(<<"copygraph", "xaxis", "hash_at", "2", "hash_label">>) \o Text(3),
  W(<<"newgraph", "x_translate", "1", "y_translate", "1", "clip", "xaxis", "linear", "draw_axis",
      "draw", "auto_hash_marks", "auto_hash_labels", "draw_axis_label", "draw_axis_line",
      "draw_hash_marks", "draw_hash_labels", "grid_color", "1", "0", "0", "mgrid_color", "1", "0",
      "0", "hash_format", "g", "yaxis", "no_auto_hash_marks", "no_draw_axis_label",
      "no_draw_axis_line", "no_draw_hash_marks", "no_draw_hash_labels", "no_grid_lines",
      "no_mgrid_lines", "mgrid_gray", "1", "hash_format", "G",
      "newcurve", "pts", "1", "1", "3", "2", "acfill", "1", "0", "0", "afill", "1", "cfill", "1",
      "0", "0", "pfill", "1", "ppattern", "solid", "clip", "linetype", "dotted", "linethickness",
      "2", "mrotate", "30", "nobezier", "nopoly", "nolarrow", "nolarrows", "norarrow", "norarrows",
      "rarrow", "label", "hjl", "vjb", "lgray", "1", "linesep", "2">>) \o Text(2)
    \o W(<<"legend", "bottom", "linebreak", "5", "linethickness", "1", "columnsep", "3">>),
  W(<<"newgraph", "xaxis", "hash_format", "E", "yaxis", "hash_format", "f", "newcurve", "pts", "1",
      "1", "4", "3", "linetype", "longdash", "marktype", "eps", "eps", "picture", "label">>) \o Text(3)
    \o W(<<"newcurve", "pts", "2", "1", "larrows", "rarrows", "marktype", "postscript", "postscript",
           "picture", "label">>) \o Text(2)
    \o W(<<"newcurve", "pts", "2", "2", "linetype", "dotdash", "postscript">>) \o Text(1)
    \o W(<<"newcurve", "pts", "2", "3", "linetype", "dotdotdash", "newcurve", "pts", "3", "3",
           "linetype", "dotdotdashdash", "legend", "on", "defaults", "hjc", "vjc", "lcolor", "1", "1",
           "0", "rotate", "0", "string", "0", "x", "1", "y", "1">>) \o Text(3)
    \o W(<<"copyline", "x", "2", "y", "2">>) \o Text(4),
  W(<<"newgraph", "newcurve", "pts", "1", "1", "2", "3", "rarrow", "label">>) \o Text(2)
    \o W(<<"newline", "pts", "3", "3", "label">>) \o Text(2)
    \o W(<<"newcurve", "larrow", "pts", "3", "1", "label">>) \o Text(1) \o W(<<"legend", "right">>),
  W(<<"newgraph", "newcurve", "pts", "1", "1", "label">>) \o Text(3) \o W(<<"legend", "off">>),
  W(<<"newgraph", "shell", ":", "quiet">>)
    \o <<Name("shell"), Name(":"), NewLine, Name("more"), NewLine>>
    \o <<Name("shell"), Name(":"), Space, NewLine, Name("shell"), Name(":"), NewLine, NewLine>>
    \o W(<<"newcurve", "pts", "2", "2">>)>>

\* Include and shell statements at the end of a file without a newline.
Unended == <<
  <<W(<<"newgraph", "newcurve", "pts", "1", "1">>) \o Words(<<"include", "last">>)>>,
  <<W(<<"newgraph", "newcurve", "pts", "1", "1", "include", "brief", "label">>) \o Text(2)>>,
  <<W(<<"newgraph">>) \o Words(<<"shell", ":", "more">>), W(<<"newcurve", "pts", "2", "2">>)>>>>

Wrong2 == <<
  W(<<"graph", "include">>), W(<<"newgraph">>), W(<<"inherit_axes">>),
  W(<<"newgraph", "newcurve", "pts", "1">>),
  W(<<"newgraph", "copycurve">>), W(<<"newgraph", "copystring", "3">>),
  W(<<"newgraph", "xaxis", "min", "1", "max", "1", "yaxis", "log", "min", "0", "max", "1">>),
  W(<<"newgraph", "xaxis", "log_base", "1">>), W(<<"newgraph", "xaxis", "hash_label">>) \o Text(1),
  W(<<"newgraph", "newcurve", "bezier", "pts", "1", "1", "2", "2">>),
  W(<<"newgraph", "newcurve", "pts", "30", "30">>),
  W(<<"newgraph", "newcurve", "pts", "1", "1", "legend", "columns", "0", "newcurve", "label">>)
    \o Text(1),
  W(<<"newgraph", "newcurve", "pts", "1", "1", "marktype", "general_bez", "gmarks", "1", "1">>),
  W(<<"newgraph", "newcurve", "pts", "1", "1", "marktype", "eps", "eps", "points">>),
  W(<<"newgraph", "newcurve", "pts", "1", "1", "eps", "unboxed">>),
  W(<<"newgraph", "newcurve", "pts", "1", "1", "eps", "nothere">>),
  W(<<"newgraph", "include", "quiet">>), Words(<<"shell", ":">>), Words(<<"include">>), Missing,
  W(<<"bbox", "1", "2">>), W(<<"copygraph">>), W(<<"shell", "x">>), Shell, W(<<"preamble", "none">>)>>

\* The n-th of all combinations.
Count == Len(Axes) * Len(Curves) * Len(Legends) * Len(Endings)
Ending(n) == (n % Len(Endings)) + 1
Whole(n) ==
    LET rest == n \div Len(Endings)
        more == rest \div Len(Legends)
    IN W(<<"newgraph">>) \o Axes[(more \div Len(Curves)) + 1] \o Curves[(more % Len(Curves)) + 1]
         \o Legends[(rest % Len(Legends)) + 1] \o Endings[Ending(n)]

First == W(<<"newgraph", "newcurve", "pts", "2", "2", "xaxis", "label">>) \o Text(4)
More == W(<<"curve", "0", "pts", "4", "2", "5", "1">>)

\* What the descriptions include, what the command of the shell statement
\* prints, and two files of PostScript.
MCFiles ==
    [points |-> <<Name("pts"), Number(100), Number(100), NewLine, Name("include"), Name("last"),
                  NewLine>>,
     last |-> <<Number(200), Space, Number(300)>>,
     more |-> <<Name("curve"), Number(0), Name("pts"), Number(400), Number(200), NewLine>>,
     brief |-> Words(<<"include", "last">>),
     picture |-> W(<<"%!PS">>) \o W(<<"%%BoundingBox:", "0", "0", "9", "9">>),
     unboxed |-> W(<<"%!PS">>) \o W(<<"%%BoundingBox:", "0", "0">>),
     tail |-> <<>>]

Started(n, o) == [files |-> <<Whole(n)>>, options |-> o, m |-> 0]
MCUnended == {[files |-> Unended[i], options |-> {}, m |-> 0] : i \in 1..Len(Unended)}
MCStarts ==
    {Started(n, IF n % 2 = 0 THEN {} ELSE {"-L"}) : n \in 0..(Count - 1)}
      \cup {Started(n, {"-p"}) : n \in 0..7}
      \cup {[files |-> <<Wrong2[i]>>, options |-> {"-P"}, m |-> v] :
              i \in 1..Len(Wrong2), v \in {0, 5000}}
      \cup {[files |-> <<First, More, First>>, options |-> {}, m |-> 0],
            [files |-> <<First, Missing>>, options |-> {"-P", "-L"}, m |-> 0]}
      \cup {[files |-> <<Others[i]>>, options |-> o, m |-> 0] :
              i \in 1..Len(Others), o \in {{}, {"-p"}}}
      \cup MCUnended
==============================================================================
