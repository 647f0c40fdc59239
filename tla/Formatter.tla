------------------------------ MODULE Formatter ------------------------------
(***************************************************************************)
(* The formatter: it walks the tree once and turns every node into a       *)
(* document, and on its way hands out the comments of the file, which the  *)
(* tree does not hold.  They form one queue; each construct takes those at *)
(* its head that lie before a line of its own, or the one that ends a line.*)
(* A cursor c has in `left` the comments not handed out yet and in `src`   *)
(* the file.  A construct is a list of parts, which are walked in order,   *)
(* for the order decides which of them gets a comment, and what it makes   *)
(* of their documents.  A part is a document, a node, or a place where     *)
(* comments are fetched.                                                   *)
(***************************************************************************)
EXTENDS FiniteSets, Syntax, Layout

With(doc, c) == [c |-> c, d |-> doc]
Behind(c, n) == [c EXCEPT !.left = SubSeq(@, n + 1, Len(@))]
Most(a, b) == IF a > b THEN a ELSE b
MaxColumn == 1000      \* beyond the end of every line

----------------------------------------------------------------------------
(* Handing out comments.                                                    *)

\* Those above a line, each on a line of its own; blank lines around them are kept.
Leading(c, before, allowBlank) ==
  LET taken == SelectSeq(c.left, LAMBDA x : x.line < before)
      put(i) == (IF taken[i].leadingBlank /\ (i > 1 \/ allowBlank) THEN <<HardLine>> ELSE <<>>)
                \o <<Text(<<taken[i].text>>), HardLine>>
      docs == FlattenSeq([i \in DOMAIN taken |-> put(i)])
  IN IF taken = <<>> THEN With(Nil, c)
     ELSE With(Concat(docs \o IF Last(taken).trailingBlank THEN <<HardLine>> ELSE <<>>),
               Behind(c, Len(taken)))

\* The one that ends a line of code.
Trailing(c, line) ==
  LET at == SelectInSeq(c.left, LAMBDA x : x.line = line /\ x.trailing)
  IN IF at = 0 THEN With(Nil, c)
     ELSE With(LineSuffix(Text(<<" ", c.left[at].text>>)), [c EXCEPT !.left = RemoveAt(@, at)])

\* Those above a closing delimiter.
Dangling(c, line, col) ==
  LET taken == SelectSeq(c.left, LAMBDA x : ~(x.line > line \/ (x.line = line /\ x.col > col)))
      put(i) == (IF i = 1 THEN <<>>
                 ELSE IF taken[i].leadingBlank THEN <<HardLine, HardLine>> ELSE <<HardLine>>)
                \o <<Text(<<taken[i].text>>)>>
  IN IF taken = <<>> THEN With(Nil, c)
     ELSE With(Concat(FlattenSeq([i \in DOMAIN taken |-> put(i)])), Behind(c, Len(taken)))

Remaining(c) ==
  LET put(x) == (IF x.leadingBlank THEN <<HardLine>> ELSE <<>>) \o <<Text(<<x.text>>), HardLine>>
  IN IF c.left = <<>> THEN Nil
     ELSE Concat(FlattenSeq([i \in DOMAIN c.left |-> put(c.left[i])]))

\* The parts that fetch them.
Fetch(kind, line, col) == [k |-> kind, line |-> line, col |-> col]
Above(line, allowBlank) == Fetch("leading", line, allowBlank)
Ending(line) == Fetch("trailing", line, 0)
EndingIf(condition, line) == IF condition THEN Ending(line) ELSE Nil
Before(line, col) == Fetch("dangling", line, col)
\* The comment behind an operator, whose right operand is then on the next line.
AfterOperator(line, rhs) == EndingIf(rhs.line > line, line)
OperandBreak(comment) == IF comment = Nil THEN Line ELSE Concat(<<comment, HardLine>>)

----------------------------------------------------------------------------
(* Blank lines between neighbours.                                          *)

FunctionOrAggregate == {"fn"} \cup AggregateKinds
IsFunctionOrAggregate(n) ==
  \/ n.k \in FunctionOrAggregate \cup {"test"}
  \/ n.k \in {"decl", "expr"} /\ \E i \in DOMAIN n.kids : n.kids[i].k \in FunctionOrAggregate
BlankAtAnyBreak(before, after) == IsFunctionOrAggregate(before) \/ after.line >= before.end + 1
BlankBetween(before, after) == IsFunctionOrAggregate(before) \/ after.line > before.end + 1

----------------------------------------------------------------------------
(* Parts.                                                                   *)

RECURSIVE Format(_, _), Each(_, _)

Part(c, x) ==
  CASE x.k \in DocKinds   -> With(x, c)
    [] x.k = "leading"    -> Leading(c, x.line, x.col)
    [] x.k = "trailing"   -> Trailing(c, x.line)
    [] x.k = "dangling"   -> Dangling(c, x.line, x.col)
    [] OTHER              -> Format(c, x)
Each(parts, r) ==
  LET more(p) == With(Append(r.d, p.d), p.c)
      first == Each(FirstHalf(parts), r)
  IN CASE Len(parts) = 0 -> r
       [] Len(parts) = 1 -> more(Part(r.c, parts[1]))
       [] Len(parts) > 1 /\ first.d # <<>> -> Each(SecondHalf(parts), first)
\* What a construct makes of the documents of its parts.
Built(c, parts, Compose(_)) ==
  LET made(r) == With(Compose(r.d), r.c) IN made(Each(parts, With(<<>>, c)))
Parts(c, parts) == Built(c, parts, Concat)
\* An optional child with what stands before and behind it.
Maybe(n, before, behind) == IF n = Missing THEN <<>> ELSE <<Text(before), n, Text(behind)>>

\* A node printed without the semicolon it ends with, as the last part of a construct.
TailClause(n) ==
  CASE n.k = "expr"   -> n.kids[1]
    [] n.k \in {"return", "break", "continue"} -> [n EXCEPT !.at = "tail"]
    [] OTHER          -> n
Semi(n) == IF n.at = "tail" THEN <<>> ELSE <<Text(<<";">>)>>

\* Items of a list whose closing delimiter is on line `close`, three documents for each; most
\* lists have one more for the comments behind them.
PartsOfItems(items, close) ==
  LET next(i) == IF i < Len(items) THEN items[i + 1].line ELSE close
      parts(i) == <<Above(items[i].line, i # 1), items[i],
                    EndingIf(next(i) > items[i].end, items[i].end)>>
  IN FlattenSeq([i \in DOMAIN items |-> parts(i)])
ItemParts(items, close) ==
  Append(PartsOfItems(items, close), IF items = <<>> THEN Nil ELSE Before(close, 0))
Leads(doc, leading) == IF leading = Nil THEN doc ELSE Concat(<<leading, doc>>)
ItemDocs(d) == [i \in 1 .. Len(d) \div 3 |-> Leads(d[3 * i - 1], d[3 * i - 2])]
ItemTrailers(d) ==
  [i \in 1 .. Len(d) \div 3 |->
     IF 3 * i + 1 = Len(d) /\ Last(d) # Nil THEN Concat(<<d[3 * i], HardLine, Last(d)>>) ELSE d[3 * i]]
Commented(d) == \E i \in DOMAIN d : i % 3 # 2 /\ d[i] # Nil
CommentedDelimited(open, shut, d, pad, brk) ==
  Delimited(open, shut, ItemDocs(d), ItemTrailers(d), pad, TRUE, brk \/ Commented(d))

----------------------------------------------------------------------------
(* Expressions.                                                             *)

\* What stands behind an `=`: on the next line when a comment is in between.
AssignedParts(line, value) == <<AfterOperator(line, value), value>>
Assigned(d) ==
  IF d[1] = Nil THEN Concat(<<Text(<<" ", "=", " ">>), d[2]>>)
  ELSE Concat(<<Text(<<" ", "=">>), Nest(Concat(<<d[1], HardLine, d[2]>>))>>)

FormatBinary(c, n) ==
  LET doc(d) ==
        LET tail == Nest(Concat(<<Text(<<" ", n.at>>), OperandBreak(d[2]), d[3]>>))
            assigned == Nest(Concat(<<OperandBreak(d[2]), d[3]>>))
        IN CASE n.at = "=" -> Group(Concat(<<d[1], Text(<<" ", "=">>), assigned>>), d[2] # Nil)
             [] n.at # "=" /\ ContainsHardBreak(d[1], FALSE) -> Concat(<<d[1], Group(tail, d[2] # Nil)>>)
             [] OTHER -> Group(Concat(<<d[1], tail>>), d[2] # Nil)
  IN Built(c, <<n.kids[1], AfterOperator(n.kids[1].end, n.kids[2]), n.kids[2]>>, doc)

FormatCall(c, n) ==
  LET doc(all) ==
        LET d == Tail(all)
            hugged == Len(d) = 4 /\ ~Commented(d) /\ ContainsHardBreak(d[2], FALSE)
        IN IF hugged THEN Concat(<<all[1], Text(<<"(">>), d[2], Text(<<")">>)>>)
           ELSE Concat(<<all[1], CommentedDelimited("(", ")", d, FALSE, n.brk)>>)
  IN Built(c, <<n.kids[1]>> \o ItemParts(Tail(n.kids), n.end), doc)

\* A type, or a dot, and items in braces.
FormatBraced(c, n, head) ==
  LET doc(d) == Concat(<<Text(head), d[1], CommentedDelimited("{", "}", Tail(d), TRUE, n.brk)>>)
      type == IF n.kids[1] = Missing THEN Nil ELSE n.kids[1]
  IN Built(c, <<type>> \o ItemParts(Tail(n.kids), n.end), doc)
\* One field or enumerator of an initializer.
FormatEntry(c, n) ==
  LET doc(d) == Concat(<<Text(<<".", n.at>>), Assigned(d)>>)
  IN Built(c, AssignedParts(n.line, n.kids[1]), doc)

\* Parameters, fields and variants.
FormatField(c, n) ==
  Parts(c, <<Text(<<n.at>>)>> \o Maybe(n.kids[1], <<":", " ">>, <<>>)
           \o Maybe(n.kids[2], <<" ", "=", " ">>, <<>>))

FormatFunction(c, n) ==
  LET params == SubSeq(n.kids, 1, Len(n.kids) - 2)
      type == n.kids[Len(n.kids) - 1]
      body == Last(n.kids)
      close == IF params = <<>> THEN type.line ELSE Most(type.line, Last(params).end)
      list == ItemParts(params, close)
      doc(d) == Concat(<<Text(<<"fn">>),
                         CommentedDelimited("(", ")", SubSeq(d, 1, Len(list)), FALSE, n.brk)>>
                       \o SubSeq(d, Len(list) + 1, Len(d)))
  IN Built(c, list \o <<Text(<<":", " ">>), type>> \o Maybe(body, <<" ">>, <<>>), doc)

----------------------------------------------------------------------------
(* Branches.                                                                *)

\* The branches of an if and of those its elses begin with: a condition, unless it is the
\* last else, a value, and the line of its else.
Branch(line, cond, value) == [line |-> line, cond |-> cond, value |-> value]
RECURSIVE Branches(_, _)
Branches(line, n) ==
  LET alternate == n.kids[3]
      elseIf == alternate.k = "expr" /\ alternate.kids[1].k = "if"
      further == CASE alternate = Missing -> <<>>
                   [] alternate # Missing /\ elseIf -> Branches(alternate.line, alternate.kids[1])
                   [] OTHER -> <<Branch(alternate.line, Missing, alternate)>>
  IN <<Branch(line, n.kids[1], n.kids[2])>> \o further

\* Five documents for each branch: the comments between the one before and its else, the
\* condition, the value, and the comment behind that.
BranchParts(all, i, blockForm, end) ==
  LET value == all[i].value IN
  (IF i = 1 THEN <<Nil, Nil>> ELSE <<Ending(all[i - 1].value.end), Above(all[i].line, FALSE)>>)
  \o <<IF all[i].cond = Missing THEN Nil ELSE all[i].cond,
       IF i = Len(all) THEN TailClause(value) ELSE value,
       EndingIf(~blockForm /\ value.end # end, value.end)>>
\* A value that an else follows moves under a head that is too wide.
BranchDoc(all, i, d) ==
  LET underneath == i < Len(all) /\ all[i].value.k = "expr" IN
  Concat((IF i = 1 THEN <<>> ELSE <<Text(<<"else", " ">>)>>)
         \o (IF all[i].cond = Missing THEN <<>> ELSE <<Text(<<"if", " ", "(">>), d[3], Text(<<")">>)>>)
         \o (CASE all[i].cond = Missing -> <<d[4]>>
               [] all[i].cond # Missing /\ underneath -> <<Group(Nest(Concat(<<Line, d[4]>>)), FALSE)>>
               [] OTHER -> <<Space, d[4]>>)
         \o <<d[5]>>)
BranchGap(d, blockForm) ==
  IF d[1] = Nil /\ d[2] = Nil THEN IF blockForm THEN Space ELSE Line
  ELSE Concat(<<d[1], HardLine, d[2]>>)
ChainDoc(all, d, blockForm) ==
  LET of(i) == SubSeq(d, 5 * i - 4, 5 * i)
      tail == Concat(FlattenSeq([i \in 1 .. Len(all) - 1 |->
                                   <<BranchGap(of(i + 1), blockForm), BranchDoc(all, i + 1, of(i + 1))>>]))
      forced == \E i \in DOMAIN d : i % 5 \notin {3, 4} /\ d[i] # Nil
      first == BranchDoc(all, 1, of(1))
  IN CASE Len(all) = 1 -> first
       [] Len(all) > 1 /\ blockForm -> Concat(<<first, tail>>)
       [] OTHER -> Group(Concat(<<first, Nest(tail)>>), forced)
FormatIf(c, n) ==
  LET blockForm == n.kids[2].k = "block"
      built(all) ==
        LET parts == FlattenSeq([i \in DOMAIN all |-> BranchParts(all, i, blockForm, n.end)])
            doc(d) == ChainDoc(all, d, blockForm)
        IN Built(c, parts, doc)
  IN built(Branches(0, n))

\* Patterns on one line, or one on each with the arrow below them.
FormatArm(c, n) ==
  LET comma == Concat(<<Text(<<",">>), Line>>)
      head(d) == Concat(<<Group(Concat(<<Join(Front(d), comma), IfBreak(comma, Space)>>), n.brk),
                          Text(<<"=>", " ">>)>>)
      doc(d) == IF Len(d) = 2 THEN Concat(<<d[1], Text(<<" ", "=>", " ">>), d[2]>>)
                ELSE Concat(<<head(d), Last(d)>>)
  IN Built(c, Append(Front(n.kids), TailClause(Last(n.kids))), doc)
\* The comments above the closing brace are one more arm, which a comma follows as it does
\* the others; the matcher is formatted last.
FormatMatch(c, n) ==
  LET arms == Tail(n.kids)
      onOwnLine == arms = <<>> \/ n.end > Last(arms).end
      behind == IF onOwnLine THEN Before(n.end, MaxColumn) ELSE Nil
      doc(all) ==
        LET d == SubSeq(all, 1, 3 * Len(arms))
            dangling == SelectSeq(<<all[Len(all) - 1]>>, LAMBDA x : x # Nil)
        IN Concat(<<Text(<<"match", " ", "(">>), Last(all), Text(<<")", " ">>),
                    Delimited("{", "}", ItemDocs(d) \o dangling,
                              ItemTrailers(d) \o [i \in DOMAIN dangling |-> Nil], TRUE, TRUE, n.brk)>>)
  IN Built(c, PartsOfItems(arms, n.end) \o <<behind, n.kids[1]>>, doc)

----------------------------------------------------------------------------
(* What the markers keep.                                                   *)

\* The last item of a region that begins above item `first`.
ReachedFirst(items, first, onLine) == first
Reached(items, first, onLine) ==
  first + Cardinality({i \in first + 1 .. Len(items) :
                         \A j \in first + 1 .. i : items[j].line < onLine})
MarkerAfter(c, from, before, text) ==
  SelectInSubSeq(c.left, from + 1, Len(c.left),
                 LAMBDA x : x.line < before /\ ~x.trailing /\ x.text = text)

\* Items `first` to `last` as they are in the file, with the comments above.
KeptItems(c, items, first, last, marker, onLine, limit, allowBlank) ==
  LET next == IF last < Len(items) THEN items[last + 1].line ELSE limit
      lastLine == IF onLine < next THEN Most(items[last].end, onLine) ELSE items[last].end
      kept(leading) ==
        LET blank == marker.leadingBlank /\ (leading.d # Nil \/ allowBlank) IN
        Concat((IF leading.d = Nil THEN <<>> ELSE <<leading.d>>) \o (IF blank THEN <<HardLine>> ELSE <<>>)
               \o <<Verbatim(SubSeq(c.src, marker.line, lastLine))>>)
      inside == Len(SelectSeq(c.left, LAMBDA x : x.line <= lastLine))
  IN [kept |-> TRUE, first |-> first, last |-> last, end |-> lastLine, leading |-> Nil, trailing |-> Nil,
      d |-> kept(Leading(c, marker.line, allowBlank)), c |-> Behind(c, inside)]
ItemAt(c, items, i, allowBlank) ==
  LET item(r) == [kept |-> FALSE, first |-> i, last |-> i, end |-> 0, leading |-> r.d[1],
                  d |-> r.d[2], trailing |-> r.d[3], c |-> r.c]
  IN item(Each(<<Above(items[i].line, allowBlank), items[i], Ending(items[i].end)>>, With(<<>>, c)))
\* A marker above the item begins a region, unless another ends it there.
RegionAt(c, line) ==
  LET noLine == Len(c.src) + 1
      from(off) ==
        LET to(on) == [off |-> off, onLine |-> IF on = 0 THEN noLine ELSE c.left[on].line]
        IN IF off = 0 THEN [off |-> 0, onLine |-> 0] ELSE to(MarkerAfter(c, off, noLine, FmtOn))
  IN from(MarkerAfter(c, 0, line, FmtOff))
NextItem(c, items, i, limit, allowBlank) ==
  LET next(region) ==
        IF region.onLine < items[i].line THEN ItemAt(c, items, i, allowBlank)
        ELSE KeptItems(c, items, i, Reached(items, i, region.onLine), c.left[region.off], region.onLine,
                       limit, allowBlank)
  IN next(RegionAt(c, items[i].line))

\* The items of a body one after the other.
RECURSIVE Walk(_, _, _, _)
Walk(r, items, i, limit) ==
  LET more(item) == Walk(With(Append(r.d, item), item.c), items, item.last + 1, limit) IN
  IF i > Len(items) THEN r ELSE more(NextItem(r.c, items, i, limit, r.d # <<>>))
\* Whether a blank line stands above the j-th of them, measured from the end of a region.
BlankAbove(items, d, j) ==
  /\ j # 1 /\ ~d[j].kept /\ d[j].leading = Nil
  /\ IF d[j - 1].kept THEN items[d[j].first].line > d[j - 1].end + 1
     ELSE BlankBetween(items[d[j].first - 1], items[d[j].first])
Docs(item, between) ==
  (IF item.leading = Nil THEN <<>> ELSE <<item.leading>>) \o <<item.d>> \o between
  \o (IF item.trailing = Nil THEN <<>> ELSE <<item.trailing>>)

----------------------------------------------------------------------------
(* Statements, members and aggregates.                                      *)

BlockDoc(n, header, d, dangling) ==
  LET above(j) == IF j = 1 THEN <<>> ELSE IF BlankAbove(n.kids, d, j) THEN <<HardLine, HardLine>> ELSE <<HardLine>>
      body == FlattenSeq([j \in DOMAIN d |-> above(j) \o Docs(d[j], <<>>)])
      all == IF dangling = Nil THEN body
             ELSE body \o (IF body = <<>> THEN <<>> ELSE <<HardLine>>) \o <<dangling>>
  IN IF all = <<>> THEN Concat(<<Text(<<"{">>), header, Text(<<"}">>)>>)
     ELSE Concat(<<Text(<<"{">>), header, Nest(Concat(<<HardLine>> \o all)), HardLine, Text(<<"}">>)>>)
FormatBlock(c, n) ==
  LET inside(header) ==
        LET closed(r) ==
              LET ended(dangling) == With(BlockDoc(n, header.d, r.d, dangling.d), dangling.c)
              IN ended(Dangling(r.c, n.end, n.endCol))
        IN closed(Walk(With(<<>>, header.c), n.kids, 1, n.end))
  IN inside(Trailing(c, n.line))

\* Fields keep their comma when something follows, be it a comment.
AggregateDoc(n, fields, members) ==
  LET comma(j) == IF fields[j].kept THEN <<>>
                  ELSE IF fields[j].last < Len(n.fields) \/ n.kids # <<>> \/ fields[j].trailing # Nil
                  THEN <<Text(<<",">>)>> ELSE <<IfBreak(Text(<<",">>), Nil)>>
      member(j) == IF BlankAbove(n.kids, members, j) THEN <<HardLine>> ELSE <<>>
      docs == [j \in DOMAIN fields |-> Concat(Docs(fields[j], comma(j)))]
              \o [j \in DOMAIN members |-> Concat(member(j) \o Docs(members[j], <<>>))]
      sep(j) == IF j = 1 THEN <<>> ELSE IF j = Len(fields) + 1 THEN <<Line, HardLine>> ELSE <<Line>>
      body == Concat(FlattenSeq([j \in DOMAIN docs |-> Append(sep(j), docs[j])]))
      forced == n.brk \/ n.kids # <<>> \/ \E j \in DOMAIN fields :
                                            fields[j].kept \/ fields[j].leading # Nil \/ fields[j].trailing # Nil
      tag == IF n.k = "union" THEN <<"(", n.at, ")">> ELSE <<>>
  IN Concat(<<Text(<<n.k>> \o tag \o <<" ">>),
              IF docs = <<>> THEN Text(<<"{", "}">>)
              ELSE Group(Concat(<<Text(<<"{">>), Nest(Concat(<<Line, body>>)), Line, Text(<<"}">>)>>), forced)>>)
FormatAggregate(c, n) ==
  LET inside(fields) ==
        LET closed(members) == With(AggregateDoc(n, fields.d, members.d), members.c)
        IN closed(Walk(With(<<>>, fields.c), n.kids, 1, 0))
  IN inside(Walk(With(<<>>, c), n.fields, 1, 0))

FormatDecl(c, n) ==
  LET type == n.kids[2]
      head == <<n.kids[1]>> \o Maybe(type, <<":", " ">>, <<>>)
      doc(d) == Concat(<<Text(<<n.at, " ">>)>> \o SubSeq(d, 1, Len(head))
                       \o <<Assigned(SubSeq(d, Len(head) + 1, Len(d))), Text(<<";">>)>>)
  IN Built(c, head \o AssignedParts(IF type = Missing THEN n.kids[1].end ELSE type.end, n.kids[3]), doc)

NonBreak(alternate) ==
  IF alternate = Missing THEN <<>> ELSE <<Text(<<" ", "else", " ">>), TailClause(alternate)>>
ForList(c, n) ==
  LET doc(d) == Delimited(n.at, IF n.at = "(" THEN ")" ELSE "|", d, [i \in DOMAIN d |-> Nil], FALSE, FALSE, n.brk)
  IN Built(c, n.kids, doc)

\* The kinds whose parts just follow each other.
PartsOf(n) ==
  LET x == n.kids IN
  CASE n.k = "name"    -> <<Text(<<n.at>>)>>
    [] n.k = "access"  -> <<Text(<<".", n.at>>)>>
    [] n.k = "unary"   -> <<Text(<<n.at>>), x[1]>>
    [] n.k = "unwrap"  -> <<x[1], Text(<<"?">>)>>
    [] n.k = "index"   -> <<x[1], Text(<<"[">>), x[2], Text(<<"]">>)>>
    [] n.k = "dot"     -> <<x[1], Text(<<".", n.at>>)>>
    [] n.k = "for"     -> <<Text(<<"for", " ">>), x[1], Space, x[2], Space, x[3]>> \o NonBreak(x[4])
    [] n.k = "while"   -> <<Text(<<"while", " ", "(">>), x[1], Text(<<")">>)>>
                          \o Maybe(x[2], <<" ", ":", " ", "(">>, <<")">>) \o <<Space, x[3]>> \o NonBreak(x[4])
    [] n.k = "do"      -> <<Text(<<"do", " ">>), x[1], Text(<<" ", "while", " ", "(">>), x[2], Text(<<")">>)>>
    [] n.k = "loop"    -> <<Text(<<"loop", " ">>), x[1]>>
    [] n.k = "label"   -> <<x[1], Text(<<":", " ">>), x[2]>>
    [] n.k = "expr"    -> <<x[1]>> \o IF n.at = ";" THEN <<Text(<<";">>)>> ELSE <<>>
    [] n.k = "return"  -> <<Text(<<"return">>)>> \o Maybe(x[1], <<" ">>, <<>>) \o Semi(n)
    [] n.k \in {"break", "continue"} -> <<Text(<<n.k>>)>> \o Semi(n)
    [] n.k = "discard" -> <<Text(<<"_", " ", "=", " ">>), x[1], Text(<<";">>)>>
    [] n.k = "defer"   -> <<Text(<<"defer", " ">>), x[1]>>
    [] n.k = "errdefer" -> <<Text(<<"errdefer", " ">>)>> \o Maybe(x[1], <<"|">>, <<"|", " ">>) \o <<x[2]>>
    [] n.k = "import"  -> <<Text(<<"import", " ">>), x[1]>> \o Maybe(x[2], <<" ", "as", " ">>, <<>>)
                          \o <<Text(<<";">>)>>
    [] n.k = "test"    -> <<Text(<<"test", " ">>)>> \o Maybe(x[1], <<>>, <<" ">>) \o <<x[2]>>

FormatNode(c, n) ==
  CASE n.k = "binary" -> FormatBinary(c, n)
    [] n.k = "call"   -> FormatCall(c, n)
    [] n.k = "init"   -> FormatBraced(c, n, IF n.kids[1] = Missing THEN <<".">> ELSE <<>>)
    [] n.k = "array"  -> FormatBraced(c, n, <<"[", "_", "]">>)
    [] n.k = "entry"  -> FormatEntry(c, n)
    [] n.k = "field"  -> FormatField(c, n)
    [] n.k = "fn"     -> FormatFunction(c, n)
    [] n.k \in AggregateKinds -> FormatAggregate(c, n)
    [] n.k = "if"     -> FormatIf(c, n)
    [] n.k = "arm"    -> FormatArm(c, n)
    [] n.k = "match"  -> FormatMatch(c, n)
    [] n.k = "list"   -> ForList(c, n)
    [] n.k = "decl"   -> FormatDecl(c, n)
    [] n.k = "block"  -> FormatBlock(c, n)
    [] OTHER          -> Parts(c, PartsOf(n))

\* The parentheses of the source are put back.
FormatWithoutParens(c, n) == FormatNode(c, n)
Format(c, n) ==
  LET around(r) == With(Concat(<<Text([i \in 1 .. n.parens |-> "("]), r.d,
                                 Text([i \in 1 .. n.parens |-> ")"])>>), r.c)
  IN IF n.parens = 0 THEN FormatNode(c, n) ELSE around(FormatNode(c, n))

----------------------------------------------------------------------------
(* The file.                                                                *)

RootDocs(roots, r) ==
  LET above(j) == IF BlankAbove(roots, r.d, j) THEN <<HardLine>> ELSE <<>> IN
  FlattenSeq([j \in DOMAIN r.d |-> above(j) \o Docs(r.d[j], <<>>) \o <<HardLine>>])
  \o IF r.c.left = <<>> THEN <<>> ELSE <<Remaining(r.c)>>
FormatRoots(c, roots) == RootDocs(roots, Walk(With(<<>>, c), roots, 1, Len(c.src) + 1))
Formatted(file) == RenderRoots(FormatRoots([left |-> CommentsOf(file), src |-> file], Parse(file)))
=============================================================================
