----------------------------- MODULE JgraphTokens -----------------------------
(****************************************************************************)
(* jgraph's reader (tools/jgraph/token.c): words cut out of a stack of       *)
(* files, with one character and one token of pushback, comments, include    *)
(* and shell statements.                                                     *)
(*                                                                           *)
(* A file is a sequence of words; where nothing else follows a word, a space *)
(* does, unless the file ends there.  A word is a record, so that numbers    *)
(* and names can be told apart; the characters of a word are not modelled.   *)
(* What a shell statement's command prints is a file named by the command; a *)
(* command that is no such file prints nothing.                              *)
(****************************************************************************)
EXTENDS Integers, Sequences, TLC

CONSTANTS Files   \* Files[name]: the contents of every file, and what every command prints

Name(v) == [t |-> "name", v |-> v, n |-> 0]
Number(n) == [t |-> "number", v |-> "", n |-> n]
Space == [t |-> "blank", v |-> " ", n |-> 0]
NewLine == [t |-> "blank", v |-> "newline", n |-> 0]
EOF == [t |-> "eof", v |-> "", n |-> 0]
Nothing == [t |-> "nothing", v |-> "", n |-> 0]
Is(word, v) == word = Name(v)

Missing == <<EOF>>
Contents(name) == IF name \in DOMAIN Files THEN Files[name] ELSE Missing
OutputOf(command) == IF command \in DOMAIN Files THEN Files[command] ELSE <<>>
Unread(text) == [text |-> text, pos |-> 0, oldchar |-> Nothing, oldcharvalid |-> FALSE,
                 pipe |-> FALSE, line |-> 1]

Fails(L, error) == [L EXCEPT !.error = error, !.eof = TRUE, !.getnew = FALSE]

\* The static variables of token.c when the first text is open and the others
\* wait below each other; `read` are the words cut so far.
set_input_file(texts) ==
    LET n == Len(texts)
        L == [INPUT |-> Nothing, getnew |-> TRUE, eof |-> FALSE, error |-> "none", read |-> <<>>,
              stack |-> [i \in 1..(n - 1) |-> Unread(texts[n + 1 - i])]] @@ Unread(texts[1])
    IN IF texts[1] = Missing THEN Fails(L, "cannot open file") ELSE L

-----------------------------------------------------------------------------
(* Characters.                                                              *)

gettokenchar(L) ==
    LET fresh == L.pos + 1
        c == IF L.oldcharvalid THEN L.oldchar
             ELSE IF fresh <= Len(L.text) THEN L.text[fresh]
             ELSE EOF
    IN [L EXCEPT !.oldchar = c, !.oldcharvalid = FALSE,
                 !.pos = IF L.oldcharvalid \/ c = EOF THEN @ ELSE fresh,
                 !.line = IF c = NewLine THEN @ + 1 ELSE @]

ungettokenchar(L) ==
    [L EXCEPT !.oldcharvalid = TRUE,
              !.line = IF L.oldchar = NewLine THEN @ - 1 ELSE @]

RECURSIVE SkipBlanks(_)
SkipBlanks(c) == IF c.oldchar.t = "blank" THEN SkipBlanks(gettokenchar(c)) ELSE c

\* The word c is cut; d has read the character behind it, a space where the
\* file says nothing.
Cut(c, d) ==
    IF d.oldchar.t \in {"blank", "eof"} THEN [ungettokenchar(d) EXCEPT !.INPUT = c.oldchar]
    ELSE [c EXCEPT !.INPUT = c.oldchar, !.oldchar = Space, !.oldcharvalid = TRUE]
CutAt(c) == IF c.oldchar = EOF THEN [ungettokenchar(c) EXCEPT !.INPUT = Nothing]
            ELSE Cut(c, gettokenchar(c))

\* The next word, or Nothing at the file's end; the blank after it is put back.
gettoken(L) == CutAt(SkipBlanks(gettokenchar(L)))

\* A comment in n others, whose first word w was read, ends with its last
\* closing word, or with the file.
RECURSIVE CommentFrom(_, _)
CommentFrom(w, n) ==
    IF w.INPUT = Nothing \/ (n = 0 /\ Is(w.INPUT, "*)")) THEN w
    ELSE CommentFrom(gettoken(w), IF Is(w.INPUT, "(*") THEN n + 1
                                  ELSE IF Is(w.INPUT, "*)") THEN n - 1 ELSE n)
get_comment(L) == CommentFrom(gettoken(L), 0)

-----------------------------------------------------------------------------
(* Files.                                                                   *)

\* The character put back after the file's name is not forgotten: it becomes
\* the first character of the new file.
Opened(L, p, text) ==
    IF text = Missing THEN Fails(L, "Include file does not exist")
    ELSE [L EXCEPT !.stack = Append(@, [f \in DOMAIN Unread(text) |-> L[f]]),
                   !.text = text, !.pos = 0, !.pipe = p, !.line = 1]
push_iostack(L, p) ==
    Opened(L, p, IF p THEN OutputOf(L.INPUT.v) ELSE Contents(L.INPUT.v))

\* Mutant: the character put back in the included file is kept.
PopKeepsChar(L) ==
    LET n == L.stack[Len(L.stack)]
    IN [n @@ L EXCEPT !.stack = SubSeq(@, 1, Len(@) - 1),
                      !.oldchar = L.oldchar, !.oldcharvalid = L.oldcharvalid]

pop_iostack(L) ==
    LET n == L.stack[Len(L.stack)]
    IN IF n.text = Missing THEN Fails(L, "cannot open file")
       ELSE [n @@ L EXCEPT !.stack = SubSeq(@, 1, Len(@) - 1)]

\* The words up to the line's end, from the second character after the one
\* that was read last.
RECURSIVE RestOfLine(_, _)
RestOfLine(c, sofar) ==
    IF c.oldchar # EOF /\ (c.oldchar # NewLine \/ (sofar # <<>> /\ Is(sofar[Len(sofar)], "\\")))
    THEN RestOfLine(gettokenchar(c),
           IF c.oldchar = NewLine THEN [sofar EXCEPT ![Len(sofar)] = NewLine]
           ELSE Append(sofar, c.oldchar))
    ELSE [line |-> sofar, none |-> FALSE, after |-> ungettokenchar(c)]

\* getmultiline and getlabel; `line` is Nothing where they return CNULL.
LineFrom(c) == IF c.oldchar = EOF THEN [line |-> <<>>, none |-> TRUE, after |-> ungettokenchar(c)]
               ELSE RestOfLine(gettokenchar(c), <<>>)
getmultiline(L) == IF ~L.getnew THEN [line |-> <<>>, none |-> TRUE, after |-> L]
                   ELSE LineFrom(gettokenchar(L))

\* The command of a shell statement is named by its first word; an empty line
\* is a command too, and only the file's end is none.
FirstWord(line) ==
    LET words == SelectSeq(line, LAMBDA w : w.t # "blank")
    IN IF words = <<>> THEN Name("") ELSE words[1]
CommandOf(r) == [r.after EXCEPT !.INPUT = IF r.none THEN Nothing ELSE FirstWord(r.line)]
getsystemstring(L) == CommandOf(getmultiline(L))

-----------------------------------------------------------------------------
(* Tokens.                                                                  *)

\* A word that is the reader's own business, and the reader when it is done;
\* f has read the word behind it.
Ours(L, w) ==
    /\ L.error = "none"
    /\ \/ w.INPUT = Nothing /\ w.stack # <<>>
       \/ w.INPUT \in {Name("(*"), Name("include"), Name("shell")}
IncludeStatement(f) ==
    IF f.INPUT = Nothing THEN Fails(f, "Empty include statement") ELSE push_iostack(f, FALSE)
ShellCommand(s) ==
    IF s.INPUT = Nothing THEN Fails(s, "Empty shell statement") ELSE push_iostack(s, TRUE)
ShellStatement(f) ==
    IF ~Is(f.INPUT, ":") THEN Fails(f, "'shell' must be followed by ':'")
    ELSE ShellCommand(getsystemstring(f))
Served(w) ==
    CASE w.INPUT = Nothing -> pop_iostack(w)
      [] Is(w.INPUT, "(*") -> get_comment(w)
      [] Is(w.INPUT, "include") -> IncludeStatement(gettoken(w))
      [] Is(w.INPUT, "shell") -> ShellStatement(gettoken(w))

\* The reader L and the word w it reads next.
RECURSIVE TokenFrom(_, _), NewToken(_)
TokenFrom(L, w) ==
    IF Ours(L, w) THEN NewToken(Served(w))
    ELSE IF L.error # "none" THEN L
    ELSE IF w.INPUT = Nothing THEN [w EXCEPT !.eof = TRUE, !.getnew = FALSE]
    ELSE [w EXCEPT !.read = Append(@, w.INPUT)]
NewToken(L) == TokenFrom(L, gettoken(L))

\* The token that was put back, or a new one.
nexttoken(L) ==
    IF L.eof THEN L ELSE IF L.getnew THEN NewToken(L) ELSE [L EXCEPT !.getnew = TRUE]

rejecttoken(L) == [L EXCEPT !.getnew = FALSE]

\* getfloat and getint: a token that is no number has been read all the same.
NumberIn(n) == [ok |-> ~n.eof /\ n.INPUT.t = "number", after |-> n]
getnumber(L) == NumberIn(nexttoken(L))

-----------------------------------------------------------------------------
(* What the files say, for the properties: the words in their order, an      *)
(* included file in the place of its statement, no comments, and the text of *)
(* a string as it stands.                                                    *)

\* The rest of f behind the end of the comment that n openings deep goes on.
RECURSIVE AfterComment(_, _)
AfterComment(f, n) ==
    IF f = <<>> \/ n = 0 THEN f
    ELSE AfterComment(Tail(f), IF Is(Head(f), "(*") THEN n + 1
                               ELSE IF Is(Head(f), "*)") THEN n - 1 ELSE n)

RECURSIVE AfterLine(_)
AfterLine(f) ==
    IF f = <<>> \/ Head(f) = NewLine THEN f
    ELSE AfterLine(IF Len(f) > 1 /\ Is(f[1], "\\") /\ f[2] = NewLine THEN Tail(Tail(f)) ELSE Tail(f))

RECURSIVE AfterBlanks(_)
AfterBlanks(f) == IF f # <<>> /\ Head(f).t = "blank" THEN AfterBlanks(Tail(f)) ELSE f

\* The text from the second character behind the `:` that f begins with.
FromText(f) == IF Len(f) > 1 /\ f[2].t = "blank" THEN Tail(Tail(f)) ELSE Tail(f)
TextOf(f) == LET text == FromText(f) IN SubSeq(text, 1, Len(text) - Len(AfterLine(text)))

\* What the include or shell statement that f begins with names, what it puts
\* there, and what follows the word, comment or statement that f begins with.
Argument(f) == AfterBlanks(Tail(f))
FileOf(f) == IF Is(Head(f), "include") THEN Files[Head(Argument(f)).v]
               ELSE OutputOf(FirstWord(TextOf(Argument(f))).v)
After(f) ==
    CASE Is(Head(f), "(*") -> AfterComment(Tail(f), 1)
      [] Is(Head(f), "include") -> Tail(Argument(f))
      [] Is(Head(f), "shell") -> AfterLine(FromText(Argument(f)))
      [] Is(Head(f), ":") -> AfterLine(FromText(f))
      [] OTHER -> Tail(f)

\* The words of f.  With `all`, the file of every statement is read, as the
\* manual has it; without, not that of a statement that ends its own file without
\* a blank or a newline, as the code has it: the end of file that is put back
\* there becomes the first character of the included file.
RECURSIVE WordsFrom(_, _, _)
WordsFrom(f, sofar, all) ==
    IF f = <<>> THEN sofar
    ELSE WordsFrom(After(f), sofar \o
           CASE Head(f) \in {Name("include"), Name("shell")} ->
                  IF all \/ After(f) # <<>> THEN WordsFrom(FileOf(f), <<>>, all) ELSE <<>>
             [] Head(f).t = "blank" \/ Is(Head(f), "(*") -> <<>>
             [] OTHER -> <<Head(f)>>, all)

\* The words of several texts, one after the other.
RECURSIVE WordsOfAll(_, _)
WordsOfAll(texts, all) ==
    IF texts = <<>> THEN <<>>
    ELSE WordsFrom(Head(texts), <<>>, all) \o WordsOfAll(Tail(texts), all)
==============================================================================
