--------------------------- MODULE MCFormatCommand ---------------------------
(***************************************************************************)
(* Sources: each program below with a comment, a break or a blank line at  *)
(* each place between two of its words, on one line and as it is           *)
(* formatted; five of them with two comments; and all with the markers     *)
(* around every run of their items, for two of them with something else in *)
(* between as well.  What is known to go wrong is kept apart, at the end   *)
(* of the module.                                                          *)
(***************************************************************************)
EXTENDS FormatCommand, TLC

NameSet == {"a", "b", "c", "f", "g", "T", "x", "y", "0", "1", "main", "self"}
\* The comments, and what becomes of one that a comma is printed behind.
CommentSet == {"//1", "//2", "//1,", "//2,", "//1,,", "//2,,", FmtOff, FmtOn}

----------------------------------------------------------------------------
(* Programs, by their words.                                                *)

Function == <<"const", "a", "=", "fn", "(", "x", ":", "T", ",", "y", ":", "T", ")", ":", "T", "{",
              "return", "f", "(", "x", ",", "y", "+", "1", ")", ";", "}", ";">>
Struct == <<"const", "a", "=", "struct", "{", "x", ":", "T", ",", "y", ":", "T", "=", "0", ",",
            "const", "f", "=", "1", ";", "let", "g", "=", "0", ";", "}", ";">>
TwoFields == <<"const", "a", "=", "struct", "{", "x", ":", "T", ",", "y", ":", "T", "}", ";">>
Enum == <<"const", "a", "=", "enum", "{", "x", ",", "y", "=", "1", "}", ";",
          "let", "b", "=", "a", ".", "x", ";">>
Union == <<"const", "a", "=", "union", "(", "enum", ")", "{", "x", ":", "T", "}", ";">>
IfElse == <<"const", "main", "=", "fn", "(", "self", ")", ":", "T", "{", "if", "(", "a", ")", "{",
            "f", "(", ")", ";", "}", "else", "{", "x", "=", "y", ";", "}", "}", ";">>
IfChain == <<"const", "a", "=", "if", "(", "x", ")", "1", "else", "if", "(", "y", ")", "0",
             "else", "f", "(", "y", ")", ";">>
MatchArms == <<"const", "a", "=", "match", "(", "x", ")", "{", "0", ",", "1", "=>", "y", ",",
               "_", "=>", "f", "(", "x", ")", ",", "}", ";">>
WhileElse == <<"const", "a", "=", "fn", "(", ")", ":", "T", "{", "while", "(", "x", ")", ":",
               "(", "x", "=", "x", "+", "1", ")", "{", "break", ";", "}", "else", "return", ";", "}", ";">>
Initializers == <<"const", "a", ":", "T", "=", ".", "{", ".", "x", "=", "1", ",",
                  ".", "y", "=", "f", "(", "0", ")", "}", ";">>
Arrays == <<"const", "a", "=", "T", "{", ".", "x", "=", "[", "_", "]", "T", "{", "0", ",", "1", "}", "}", ";">>
Hugged == <<"const", "a", "=", "f", "(", "fn", "(", ")", ":", "T", "{", "x", "(", ")", "?", ";", "}", ")", ";">>
Roots == <<"const", "a", "=", "0", ";", "let", "b", "=", "x", "[", "1", "]", ";",
           "const", "c", "=", "(", "a", "+", "-", "b", ")", "*", "c", ";">>
Statements == <<"const", "a", "=", "fn", "(", ")", ":", "T", "{", "defer", "f", "(", ")", ";",
                "_", "=", "x", "(", "y", ")", ";", "let", "b", "=", "a", "==", "1", ";", "}", ";">>
Loops == <<"const", "a", "=", "fn", "(", ")", ":", "T", "{", "do", "{", "x", "(", ")", ";", "}",
           "while", "(", "y", ")", ";", "b", ":", "loop", "{", "break", ";", "}",
           "for", "(", "x", ",", "y", ")", "|", "a", ",", "_", "|", "{",
           "break", ";", "}", "else", "return", ";", "}", ";">>
Tests == <<"import", "a", "as", "b", ";", "test", "{", "errdefer", "|", "c", "|", "f", "(", ")", ";", "}">>
Empty == <<"const", "a", "=", "fn", "(", ")", ":", "T", "{", "}", ";">>
Programs == {Function, Struct, TwoFields, Enum, Union, IfElse, IfChain, MatchArms, WhileElse, Initializers,
             Arrays, Hugged, Roots, Statements, Loops, Tests}

----------------------------------------------------------------------------
(* Layouts.                                                                 *)

\* A file from its words, a new line for each "nl".
Lines(words) ==
  LET ends == <<0>> \o SelectSeq([i \in DOMAIN words |-> i], LAMBDA i : words[i] = "nl")
              \o <<Len(words) + 1>>
  IN [n \in 1 .. Len(ends) - 1 |->
        [indent |-> 0, words |-> SubSeq(words, ends[n] + 1, ends[n + 1] - 1)]]

Gap(kind) ==
  CASE kind = "blank"    -> <<"nl", "nl">>
    [] kind = "trailing" -> <<" ", "//1", "nl">>
    [] kind = "own"      -> <<"nl", "//2", "nl">>
    [] kind = "apart"    -> <<"nl", "nl", "//2", "nl", "nl">>

\* The program with something behind some of its words, a space behind the others; a line is
\* not ended twice.
Spaced(program, gaps) ==
  LET ended(i) == i < Len(program) /\ program[i + 1] = "nl"
      put(i) == CASE i \in DOMAIN gaps /\ ended(i) -> Front(Gap(gaps[i]))
                  [] i \in DOMAIN gaps /\ ~ended(i) -> Gap(gaps[i])
                  [] i \notin DOMAIN gaps /\ (i = 0 \/ i = Len(program) \/ ended(i)) -> <<>>
                  [] OTHER -> IF program[i] = "nl" THEN <<>> ELSE <<" ">>
  IN Lines(put(0) \o FlattenSeq([i \in DOMAIN program |-> <<program[i]>> \o put(i)]))

\* The words of the formatted program, with the ends of its lines.
Tidy(text) ==
  FlattenSeq([i \in DOMAIN text |-> SelectSeq(text[i].words, LAMBDA w : w # " ")
                                    \o IF i < Len(text) THEN <<"nl">> ELSE <<>>])
TidyPrograms == [p \in Programs |-> Tidy(Formatted(Spaced(p, <<>>)))]

\* Places for a comment; those behind the value of the last arm of a match are kept apart.
Places(words) == IF "match" \in ToSet(words) THEN 0 .. SelectLastInSeq(words, LAMBDA w : w = ")") - 1
                 ELSE 0 .. Len(words)
WithOne(words, kinds) == {Spaced(words, i :> kind) : i \in Places(words), kind \in kinds}
WithTwo(words) == {Spaced(words, gaps[1] :> "trailing" @@ gaps[2] :> "own")
                   : gaps \in {g \in Places(words) \X Places(words) : g[1] < g[2]}}

----------------------------------------------------------------------------
(* Markers.                                                                 *)

\* The lists of items in which the markers count.
RECURSIVE ListsIn(_)
ListsIn(n) ==
  (IF n.k \in {"block"} \cup AggregateKinds THEN {n.kids, n.fields} ELSE {})
  \cup UNION {ListsIn(n.kids[i]) : i \in DOMAIN n.kids}
  \cup UNION {ListsIn(n.fields[i]) : i \in DOMAIN n.fields}
Lists(roots) == {roots} \cup UNION {ListsIn(roots[i]) : i \in DOMAIN roots}

\* The markers above the line `first` and below the line `last`, the second perhaps missing.
Marked(text, first, last) ==
  SubSeq(text, 1, first - 1) \o <<[indent |-> 4, words |-> <<FmtOff>>]>>
  \o SubSeq(text, first, last)
  \o (IF last = Len(text) THEN <<>> ELSE <<[indent |-> 4, words |-> <<FmtOn>>]>>)
  \o SubSeq(text, last + 1, Len(text))
AllMarked(text) ==
  UNION {UNION {{Marked(text, list[i].line, list[j].end) : j \in i .. Len(list)} : i \in DOMAIN list}
         : list \in Lists(Parse(text)) \ {<<>>}}

----------------------------------------------------------------------------

Kinds == {"blank", "trailing", "own", "apart"}
Layouts(tidy) ==
  UNION {WithOne(p, Kinds) : p \in Programs \cup Range(tidy)}
  \cup UNION {WithTwo(p) : p \in {Initializers, TwoFields, IfChain, tidy[Roots], tidy[Tests]}}
  \cup UNION {AllMarked(text) : text \in {Spaced(p, <<>>) : p \in Range(tidy)}
                                         \cup WithOne(tidy[Roots], Kinds) \cup WithOne(tidy[Statements], Kinds)}
OneOfEach == Layouts(TidyPrograms)

\* A comment above the closing brace of a match, or behind it on its line, is printed as an
\* arm and gets a comma at each run (FormattedIsStable and CommentsSurvive fail).
MatchEnds ==
  LET words == TidyPrograms[MatchArms]
  IN {Spaced(words, Len(words) - 3 :> "own"), Spaced(words, Len(words) :> "trailing")}
\* A comment in a block without statements swallows its brace (NeverRefused fails).
EmptyBlocks == {Spaced(Empty, 9 :> "trailing")}
\* A marker between the words of a statement (NeverRefused fails).
MarkersInside == {Marked(Spaced(Roots, 1 :> "blank"), 3, 3)}
==============================================================================
