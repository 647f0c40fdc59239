---------------------------- MODULE ControlFlow ----------------------------
(***************************************************************************)
(* The statements that move control in a function body, as the parser      *)
(* builds them, and what semantic analysis accepts of them.  A node is a   *)
(* kind, an attribute and its children; conditions, effects and values are *)
(* abstract.  The attribute is                                             *)
(*   act        the effect's name         break, continue  the label or "" *)
(*   label      the label's name          return      "ok" or "err"        *)
(*   if, while, dowhile  the condition: "c" known when the program runs,   *)
(*      "q" the same behind a `?`, "T" and "F" an `if comptime`.           *)
(* Children that may be missing are Absent.                                *)
(***************************************************************************)
EXTENDS Naturals, Sequences, FiniteSets

Node(kind, attribute, children) == [k |-> kind, at |-> attribute, kids |-> children]
Absent == Node("absent", "", <<>>)

Act(name) == Node("act", name, <<>>)
Try == Node("try", "", <<>>)                     \* `f()?;`
Exit == Node("exit", "", <<>>)                   \* a call of type `noreturn`
Return(value) == Node("return", value, <<>>)
Break(label) == Node("break", label, <<>>)
Continue(label) == Node("continue", label, <<>>)
Block(statements) == Node("block", "", statements)
Defer(s) == Node("defer", "", <<s>>)
Errdefer(s) == Node("errdefer", "", <<s>>)
If(cond, then, else) == Node("if", cond, <<then, else>>)
While(cond, body, continuation, else) == Node("while", cond, <<body, continuation, else>>)
DoWhile(cond, body) == Node("dowhile", cond, <<body>>)
Loop(body) == Node("loop", "", <<body>>)
Unroll(body, continuation) == Node("unroll", "", <<body, continuation>>)
Label(name, body) == Node("label", name, <<body>>)

Loops == {"while", "dowhile", "loop", "unroll"}

\* The statements of a construct an unlabelled or labelled jump may sit in.
KidsOf(n) == {n.kids[i] : i \in DOMAIN n.kids}

Expressions == {"act", "try", "exit", "if", "while", "dowhile", "loop", "unroll", "label"}
Restricted == Expressions \cup {"break", "continue", "return", "block"}

\* What the parser builds: arms and `else` clauses are restricted statements, deferred
\* statements are expressions or blocks, loops have block bodies, and labels stand on
\* blocks, conditionals and loops that are not unrolled.
RECURSIVE Parsed(_)
Parsed(n) ==
  /\ n.k \in {"defer", "errdefer"} => n.kids[1].k \in Expressions \cup {"block"}
  /\ n.k = "if" => n.kids[1].k \in Restricted /\ n.kids[2].k \in Restricted \cup {"absent"}
  /\ n.k \in Loops => n.kids[1].k = "block"
  /\ n.k \in {"while", "unroll"} => n.kids[2].k \in Expressions \cup {"absent"}
  /\ n.k = "while" => n.kids[3].k \in Restricted \cup {"absent"}
  /\ n.k = "label" => n.kids[1].k \in {"block", "if", "while", "dowhile", "loop"}
  /\ \A s \in KidsOf(n) : Parsed(s)

----------------------------------------------------------------------------
(* Where jumps may stand.                                                   *)

\* A break needs an enclosing loop or label, a continue an enclosing loop, and a label
\* named by a jump must be in scope.
RECURSIVE Placed(_, _, _, _)
Placed(n, inLoop, inLabel, labels) ==
  CASE n.k = "break"    -> (inLoop \/ inLabel) /\ n.at \in labels \cup {""}
    [] n.k = "continue" -> inLoop /\ n.at \in labels \cup {""}
    [] n.k = "label"    -> Placed(n.kids[1], inLoop, TRUE, labels \cup {n.at})
    [] n.k \in Loops    -> /\ Placed(n.kids[1], TRUE, inLabel, labels)
                           /\ \A i \in 2 .. Len(n.kids) : Placed(n.kids[i], inLoop, inLabel, labels)
    [] OTHER            -> \A s \in KidsOf(n) : Placed(s, inLoop, inLabel, labels)

\* The labels declared inside a statement, loops entered by their block only.
RECURSIVE LabelsIn(_)
LabelsIn(n) == CASE n.k = "label" -> {n.at} \cup LabelsIn(n.kids[1])
                 [] n.k \in Loops -> LabelsIn(n.kids[1])
                 [] OTHER         -> UNION {LabelsIn(s) : s \in KidsOf(n)}

\* A jump that targets something inside the statement it is checked against.
StaysInside(n, depth, local) == IF n.at = "" THEN depth > 0 ELSE n.at \in local

\* A deferred body may neither return, propagate with `?`, nor jump out of itself.
RECURSIVE DeferredBodyStays(_, _, _)
DeferredBodyStays(n, depth, local) ==
  CASE n.k \in {"return", "try"}     -> FALSE
    [] n.k \in {"break", "continue"} -> StaysInside(n, depth, local)
    [] n.k \in Loops -> /\ n.at # "q"
                        /\ DeferredBodyStays(n.kids[1], depth + 1, local)
                        /\ \A i \in 2 .. Len(n.kids) : DeferredBodyStays(n.kids[i], depth, local)
    [] OTHER         -> n.at # "q" /\ \A s \in KidsOf(n) : DeferredBodyStays(s, depth, local)

\* A jump may leave an unrolled loop only under compile-time control flow and never
\* for a label outside of it.
RECURSIVE UnrolledBodyStays(_, _, _, _)
UnrolledBodyStays(n, depth, runtime, local) ==
  CASE n.k \in {"break", "continue"} ->
         IF n.at = "" THEN depth > 0 \/ runtime = 0 ELSE n.at \in local
    [] n.k \in Loops -> /\ UnrolledBodyStays(n.kids[1], depth + 1, runtime, local)
                        /\ \A i \in 2 .. Len(n.kids) : UnrolledBodyStays(n.kids[i], depth, runtime, local)
    [] n.k = "if"    -> LET under == IF n.at \in {"T", "F"} THEN runtime ELSE runtime + 1 IN
                        \A s \in KidsOf(n) : UnrolledBodyStays(s, depth, under, local)
    [] OTHER         -> \A s \in KidsOf(n) : UnrolledBodyStays(s, depth, runtime, local)

RECURSIVE BodiesStay(_)
BodiesStay(n) ==
  /\ n.k \in {"defer", "errdefer"} => DeferredBodyStays(n.kids[1], 0, LabelsIn(n.kids[1]))
  /\ n.k = "unroll" => UnrolledBodyStays(n.kids[1], 0, 0, LabelsIn(n.kids[1]))
  /\ \A s \in KidsOf(n) : BodiesStay(s)

\* What the parser builds and semantic analysis lets through to lowering.
Accepted(body) == Parsed(body) /\ Placed(body, FALSE, FALSE, {}) /\ BodiesStay(body)
=============================================================================
