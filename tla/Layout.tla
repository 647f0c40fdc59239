------------------------------- MODULE Layout -------------------------------
(***************************************************************************)
(* Documents and the layout engine that prints them.  A document is built  *)
(* from words, line breaks of three kinds, nesting and groups; a group is  *)
(* printed flat when it fits in what is left of the line together with all *)
(* that follows it up to the next break.  Printed text is a sequence of    *)
(* lines, a line its indent and its words; the space is a word too.        *)
(***************************************************************************)
EXTENDS SourceText

CONSTANTS MaxWidth,      \* columns of a line
          IndentSpaces   \* columns of one level of nesting

Doc(kind, data) == [k |-> kind, data |-> data]
Text(words) == Doc("text", words)
Nil == Text(<<>>)
Space == Text(<<" ">>)
Concat(parts) == Doc("concat", parts)
Nest(doc) == Doc("indent", doc)
Group(doc, force) == Doc("group", <<doc, force>>)
Line == Doc("line", <<" ">>)
SoftLine == Doc("line", <<>>)
HardLine == Doc("hard", <<>>)
LineSuffix(doc) == Doc("suffix", doc)
Verbatim(lines) == Doc("verbatim", lines)
IfBreak(broken, flat) == Doc("ifbreak", <<broken, flat>>)
DocKinds == {"text", "concat", "indent", "group", "line", "hard", "suffix", "verbatim", "ifbreak"}

Join(items, sep) ==
  Concat(FlattenSeq([i \in DOMAIN items |-> IF i = 1 THEN <<items[i]>> ELSE <<sep, items[i]>>]))

\* Whether a document is printed on several lines at any width.
RECURSIVE ContainsHardBreak(_, _)
ContainsHardBreak(d, nested) ==
  CASE d.k = "concat"   -> \E i \in DOMAIN d.data : ContainsHardBreak(d.data[i], nested)
    [] d.k = "indent"   -> ContainsHardBreak(d.data, TRUE)
    [] d.k = "suffix"   -> ContainsHardBreak(d.data, nested)
    [] d.k = "group"    -> d.data[2] \/ ContainsHardBreak(d.data[1], nested)
    [] d.k = "hard"     -> nested
    [] d.k = "ifbreak"  -> ContainsHardBreak(d.data[2], nested)
    [] d.k = "verbatim" -> Len(d.data) > 1
    [] OTHER            -> FALSE

\* `open items close` as a group.  Trailers stand behind the comma of their item and break
\* the group; a broken group ends its last item with a comma when it may.
DelimitedBeforeComma(open, close, items, trailers, pad, trailingComma, force) ==
  LET hasTrailers == \E i \in DOMAIN trailers : trailers[i] # Nil
      edge == IF pad THEN Line ELSE SoftLine
      comma == IF trailingComma \/ force \/ hasTrailers THEN IfBreak(Text(<<",">>), Nil) ELSE Nil
      itemAt(i) == <<items[i], trailers[i]>> \o
                   (IF i = Len(items) THEN <<comma>> ELSE <<Text(<<",">>), Line>>)
      body == Concat(FlattenSeq([i \in DOMAIN items |-> itemAt(i)]))
  IN IF items = <<>> THEN Text(<<open, close>>)
     ELSE Group(Concat(<<Text(<<open>>), Nest(Concat(<<edge, body>>)), edge, Text(<<close>>)>>),
                force \/ hasTrailers)
Delimited(open, close, items, trailers, pad, trailingComma, force) ==
  LET hasTrailers == \E i \in DOMAIN trailers : trailers[i] # Nil
      edge == IF pad THEN Line ELSE SoftLine
      comma == IF trailingComma \/ force \/ hasTrailers THEN IfBreak(Text(<<",">>), Nil) ELSE Nil
      itemAt(i) == <<items[i]>> \o (IF i = Len(items) THEN <<comma, trailers[i]>>
                                    ELSE <<Text(<<",">>), trailers[i], Line>>)
      body == Concat(FlattenSeq([i \in DOMAIN items |-> itemAt(i)]))
  IN IF items = <<>> THEN Text(<<open, close>>)
     ELSE Group(Concat(<<Text(<<open>>), Nest(Concat(<<edge, body>>)), edge, Text(<<close>>)>>),
                force \/ hasTrailers)

----------------------------------------------------------------------------
(* The layout engine.                                                       *)

RECURSIVE WidthOf(_)
WidthOf(words) == IF words = <<>> THEN 0 ELSE Len(words[1]) + WidthOf(Tail(words))

\* What is left of the line after a document printed flat; negative when it does not fit.
RECURSIVE Measure(_, _), MeasureAll(_, _)
MeasureAll(parts, left) ==
  IF parts = <<>> \/ left < 0 THEN left ELSE MeasureAll(Tail(parts), Measure(parts[1], left))
Measure(d, left) ==
  IF left < 0 THEN left ELSE
  CASE d.k \in {"text", "line"} -> left - WidthOf(d.data)
    [] d.k = "concat"     -> MeasureAll(d.data, left)
    [] d.k \in {"indent", "suffix"} -> Measure(d.data, left)
    [] d.k = "group"      -> IF d.data[2] THEN -1 ELSE Measure(d.data[1], left)
    [] d.k = "hard"       -> -1
    [] d.k = "ifbreak"    -> Measure(d.data[2], left)
    [] d.k = "verbatim"   -> IF Len(d.data) > 1 THEN -1
                             ELSE left - d.data[1].indent - WidthOf(d.data[1].words)

\* The same for what follows, in the mode it is going to be printed in: `done` at the first
\* break or once the line is full.
RECURSIVE MeasureUntilBreak(_, _, _), MeasureAllUntilBreak(_, _, _)
MeasureAllUntilBreak(parts, broken, m) ==
  IF parts = <<>> \/ m.done THEN m
  ELSE MeasureAllUntilBreak(Tail(parts), broken, MeasureUntilBreak(parts[1], broken, m))
MeasureUntilBreak(d, broken, m) ==
  LET consumed(width) == [done |-> width > m.left, left |-> m.left - width] IN
  IF m.done THEN m ELSE
  CASE d.k = "text"      -> consumed(WidthOf(d.data))
    [] d.k = "concat"    -> MeasureAllUntilBreak(d.data, broken, m)
    [] d.k = "indent"    -> MeasureUntilBreak(d.data, broken, m)
    [] d.k = "group"     -> MeasureUntilBreak(d.data[1], broken \/ d.data[2], m)
    [] d.k = "line"      -> IF broken THEN [m EXCEPT !.done = TRUE] ELSE consumed(WidthOf(d.data))
    [] d.k = "hard"      -> [m EXCEPT !.done = TRUE]
    [] d.k = "suffix"    -> m
    [] d.k = "ifbreak"   -> MeasureUntilBreak(d.data[IF broken THEN 1 ELSE 2], broken, m)
    [] d.k = "verbatim"  -> LET first == consumed(d.data[1].indent + WidthOf(d.data[1].words)) IN
                            [first EXCEPT !.done = @ \/ Len(d.data) > 1]

\* `rest` is what follows, documents with their modes, the nearest first.
RECURSIVE MeasureRest(_, _)
MeasureRest(rest, m) ==
  IF rest = <<>> \/ m.done THEN m
  ELSE MeasureRest(Tail(rest), MeasureUntilBreak(rest[1].d, rest[1].broken, m))
Fits(width, d, rest) ==
  LET left == Measure(d, MaxWidth - width)
  IN left >= 0 /\ MeasureRest(rest, [done |-> FALSE, left |-> left]).left >= 0

NoLine == [indent |-> 0, words |-> <<>>]
BlankPage == [lines |-> <<>>, line |-> NoLine, pending |-> 0, width |-> 0]

\* The indent of a line is printed with its first word, even an empty one.
PrintWords(page, words) ==
  [page EXCEPT !.line = [indent |-> @.indent + page.pending, words |-> @.words \o words],
               !.pending = 0, !.width = @ + WidthOf(words)]
BreakLine(page, columns) ==
  [lines |-> Append(page.lines, page.line), line |-> NoLine, pending |-> columns, width |-> columns]

PrintVerbatim(page, lines) ==
  LET put(n, line) == [n EXCEPT !.line = [line EXCEPT !.indent = @ + n.line.indent,
                                                      !.words = n.line.words \o @],
                                !.width = line.indent + WidthOf(line.words)]
      next(n, line) == put(BreakLine(n, 0), line)
  IN FoldLeft(next, put([page EXCEPT !.pending = 0], lines[1]), Tail(lines))

RECURSIVE Render(_, _, _, _, _), RenderAll(_, _, _, _, _)
RenderAll(page, parts, columns, broken, rest) ==
  LET behind == <<[d |-> Concat(SecondHalf(parts)), broken |-> broken]>> \o rest
      first == RenderAll(page, FirstHalf(parts), columns, broken, behind)
  IN CASE Len(parts) = 0 -> page
       [] Len(parts) = 1 -> Render(page, parts[1], columns, broken, rest)
       [] Len(parts) > 1 /\ first.width >= 0 -> RenderAll(first, SecondHalf(parts), columns, broken, rest)
Render(page, d, columns, broken, rest) ==
  CASE d.k = "text"     -> PrintWords(page, d.data)
    [] d.k = "concat"   -> RenderAll(page, d.data, columns, broken, rest)
    [] d.k = "indent"   -> Render(page, d.data, columns + IndentSpaces, broken, rest)
    [] d.k = "group"    -> Render(page, d.data[1], columns,
                                  d.data[2] \/ ~Fits(page.width, d.data[1], rest), rest)
    [] d.k = "line"     -> IF broken THEN BreakLine(page, columns)
                           ELSE IF d.data = <<>> THEN page ELSE PrintWords(page, d.data)
    [] d.k = "hard"     -> BreakLine(page, columns)
    [] d.k = "suffix"   -> Render(page, d.data, columns, broken, rest)
    [] d.k = "ifbreak"  -> Render(page, d.data[IF broken THEN 1 ELSE 2], columns, broken, rest)
    [] d.k = "verbatim" -> PrintVerbatim(page, d.data)

\* The roots one after the other; what a root leaves of a line the next one continues, with
\* its own count of the columns.
RenderRoots(roots) ==
  LET printed == FoldLeft(LAMBDA page, root :
                            Render([page EXCEPT !.width = 0, !.pending = 0], root, 0, FALSE, <<>>),
                          BlankPage, roots)
  IN IF printed.line = NoLine THEN printed.lines ELSE Append(printed.lines, printed.line)
=============================================================================
