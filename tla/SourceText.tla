----------------------------- MODULE SourceText -----------------------------
(***************************************************************************)
(* A source file as the lexer sees it.  A file is a sequence of lines, a   *)
(* line its indent and its words; everything from the first word that is a *)
(* comment to the end of its line is that comment.  Lines are counted from *)
(* one, columns from zero.                                                 *)
(***************************************************************************)
EXTENDS Integers, Sequences, SequencesExt

CONSTANT Comments     \* the words that are line comments, with the two markers below

\* Sequences are worked off by halves where an element may hold others in turn: what is being
\* worked on is then never deep inside.
FirstHalf(s) == SubSeq(s, 1, Len(s) \div 2)
SecondHalf(s) == SubSeq(s, Len(s) \div 2 + 1, Len(s))

FmtOff == "//off"     \* `// ghoti fmt: off`
FmtOn == "//on"       \* `// ghoti fmt: on`

\* The words of a line with the place they have in it, a comment last; spaces are skipped.
LexLine(number, line) ==
  LET textFrom(i) == FoldLeft(LAMBDA s, w : s \o w, "", SubSeq(line.words, i, Len(line.words)))
      item(i, comment) == [s |-> IF comment THEN textFrom(i) ELSE line.words[i],
                           line |-> number, col |-> i, comment |-> comment]
      upTo(comment) == SelectSeq([i \in 1 .. (IF comment = 0 THEN Len(line.words) ELSE comment)
                                    |-> item(i, i = comment)], LAMBDA w : w.s # " ")
  IN upTo(SelectInSeq(line.words, LAMBDA w : w \in Comments))

Items(file) == FlattenSeq([n \in DOMAIN file |-> LexLine(n, file[n])])

\* The tokens as the parser looks them up: behind the last one the file ends, and a construct
\* that misses a token goes on where nothing fits any more.
Stuck == 100
TokensOf(file) ==
  LET tokens == SelectSeq(Items(file), LAMBDA item : ~item.comment)
      behind(i) == [s |-> IF i < Stuck THEN "end" ELSE "error", line |-> Len(file) + 1, col |-> 0]
  IN tokens \o [i \in 1 .. 2 * Stuck |-> behind(Len(tokens) + i)]

\* The comments with what surrounds each: code before it on its line, a blank line above a
\* comment on a line of its own, a blank line between such a comment and the next token.
CommentAt(items, i) ==
  LET own == i = 1 \/ items[i - 1].line < items[i].line IN
  [text |-> items[i].s, line |-> items[i].line, col |-> items[i].col,
   trailing |-> ~own,
   leadingBlank |-> own /\ i > 1 /\ items[i].line > items[i - 1].line + 1,
   trailingBlank |-> /\ own /\ i < Len(items)
                     /\ ~items[i + 1].comment /\ items[i + 1].line > items[i].line + 1]
CommentsOf(file) ==
  LET commentsIn(items) ==
        LET at == SelectSeq([i \in DOMAIN items |-> i], LAMBDA i : items[i].comment)
        IN [k \in DOMAIN at |-> CommentAt(items, at[k])]
  IN commentsIn(Items(file))

\* The comments of a file, each as often as it stands there.
CommentBag(file) ==
  LET texts(items) == ToBag([k \in DOMAIN items |-> items[k].s])
      commentsIn(items) == texts(SelectSeq(items, LAMBDA item : item.comment))
  IN commentsIn(Items(file))
=============================================================================
