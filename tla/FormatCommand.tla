---------------------------- MODULE FormatCommand ----------------------------
(***************************************************************************)
(* `ghoti format` on one file, several times over: with --write it leaves  *)
(* the formatted text in the file, with --check it says whether the file   *)
(* is formatted.  Text that is not understood as the same program is never *)
(* written.  Files that do not parse, or cannot be opened, are left out.   *)
(***************************************************************************)
EXTENDS Formatter

CONSTANT Sources      \* the files the command may be given

\* Bound: two commands are run.
MaxRuns == 2

\* What both commands do first: the new text, which is refused when it says something else.
Judged(text, new) == [text |-> new, refused |-> new # text /\ MeaningOf(new) # MeaningOf(text)]
FormatText(text) == Judged(text, Formatted(text))

VARIABLES original,   \* the file before the first command
          stored,     \* the file now
          outcomes    \* of the commands, in their order
vars == <<original, stored, outcomes>>

Init == original \in Sources /\ stored = original /\ outcomes = <<>>

Ends(outcome) == outcomes' = Append(outcomes, outcome)

Write(r) ==
  /\ IF r.refused THEN Ends("refused") /\ UNCHANGED stored
     ELSE Ends(IF r.text = stored THEN "unchanged" ELSE "written") /\ stored' = r.text
  /\ UNCHANGED original

Check(r) ==
  /\ Ends(CASE r.refused -> "refused"
            [] ~r.refused /\ r.text # stored -> "unformatted"
            [] r.text = stored -> "formatted")
  /\ UNCHANGED <<original, stored>>

Next == Len(outcomes) < MaxRuns /\ \E r \in {FormatText(stored)} : Write(r) \/ Check(r)
Spec == Init /\ [][Next]_vars

----------------------------------------------------------------------------
(* Properties.                                                              *)

Written == outcomes # <<>> /\ Last(outcomes) = "written"

\* What is printed says the same as the file, wherever its lines were broken, its comments
\* stood and its parentheses were: the command never gives up on a program that parses.
NeverRefused == "refused" \notin Range(outcomes)

\* A file that was formatted is left as it is by the next --write, and --check accepts it:
\* a comment handed to a construct stands where the same construct takes it again, and a
\* group that was broken or not is broken or not again.  No indent is left on an empty line
\* and no space at the end of one.
FormattedIsStable ==
  /\ Written => \A i \in DOMAIN stored :
                  IF stored[i].words = <<>> THEN stored[i].indent = 0 ELSE Last(stored[i].words) # " "
  /\ \A i \in 1 .. Len(outcomes) - 1 :
       outcomes[i] \in {"written", "unchanged"} => outcomes[i + 1] \in {"unchanged", "formatted"}

\* Every comment of the file is in the text that is written exactly once and unaltered,
\* although the tree that is printed holds none of them and each construct fetches its own.
CommentsSurvive == Written => CommentBag(stored) = CommentBag(original)

\* Between the markers nothing is touched: the lines of a region stand in the formatted file
\* one below the other as they were, indents included.
RegionsKept ==
  \A off, on \in DOMAIN original :
    (off < on /\ original[off].words = <<FmtOff>> /\ original[on].words = <<FmtOn>>) =>
      \E above \in 0 .. Len(stored) - (on - off) - 1 :
        \A i \in 1 .. on - off - 1 : stored[above + i + 1] = original[off + i]
==============================================================================
