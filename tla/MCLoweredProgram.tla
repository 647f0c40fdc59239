-------------------------- MODULE MCLoweredProgram --------------------------
(* Bodies of two nested constructs, each with a deferred effect, around a jump. *)
EXTENDS LoweredProgram

Scope(n, statements) == Block(<<Act("open" \o n), Defer(Act("close" \o n)), Errdefer(Act("err" \o n))>> \o statements)
ScopePairs == [c \in {"close1", "close2", "close3"} |->
                 CASE c = "close1" -> "open1" [] c = "close2" -> "open2" [] OTHER -> "open3"]
ErrEffects == {"err1", "err2", "err3"}

Jumps == {Break(""), Continue(""), Break("a"), Continue("a"), Break("b"), Continue("b"),
          Return("ok"), Return("err"), Try, Exit}

\* A construct around a body; labelled ones carry the given name.
Around(body, name) ==
  {body, Label(name, body), While("c", body, Absent, Absent), While("c", body, Act("next"), Act("else")),
   DoWhile("c", body), Label(name, Loop(body)), Label(name, While("c", body, Act("next"), Return("ok"))),
   Label(name, DoWhile("c", body)), Unroll(body, Act("next")), If("c", body, Absent), If("c", Act("x"), body)}

Inner(jump) == UNION {Around(Scope("2", <<conditional, Act("y")>>), "b") :
                        conditional \in {jump, If("c", jump, Absent), If("T", Block(<<jump>>), Absent)}}
Bodies(jump) == {Scope("1", <<outer, Act("z")>>) :
                   outer \in UNION {Around(Scope("3", <<inner, Act("w")>>), "a") : inner \in Inner(jump)}}

\* The jumps whose target the reference manual fixes: an unlabelled one never stands
\* between a labelled block and its loop, a continue names a loop.
RECURSIVE Plain(_, _)
Plain(n, blocks) ==
  CASE n.k = "break"    -> n.at # "" \/ "" \notin blocks
    [] n.k = "continue" -> (n.at # "" \/ "" \notin blocks) /\ n.at \notin blocks \ {""}
    [] n.k = "label" /\ n.kids[1].k = "block" -> Plain(n.kids[1], blocks \cup {"", n.at})
    [] n.k \in Loops    -> /\ Plain(n.kids[1], blocks \ {""})
                           /\ \A i \in 2 .. Len(n.kids) : Plain(n.kids[i], blocks)
    [] OTHER            -> \A s \in KidsOf(n) : Plain(s, blocks)

\* Deferred bodies with control flow of their own.
DeferredBodies ==
  {Block(<<Act("open1"), Defer(If("c", Act("x"), Act("y"))),
           Defer(Label("d", Block(<<Act("p"), If("c", Break("d"), Absent), Act("q")>>))),
           Defer(Block(<<Act("open2"), Defer(Act("close2")), While("c", Block(<<Act("r")>>), Absent, Absent)>>)),
           Defer(Act("close1")), If("c", jump, Absent), Act("z")>>) : jump \in {Return("ok"), Return("err"), Try, Act("w")}}

AllBodies == {b \in UNION {Bodies(jump) : jump \in Jumps} : Accepted(b)}
PlainBodies == {b \in AllBodies : Plain(b, {})} \cup DeferredBodies
LabelledBlockBodies == {b \in AllBodies : ~Plain(b, {})}

NestedErrdefer == {Scope("1", <<Defer(Block(<<Act("open2"), Defer(Act("close2")), Errdefer(Act("err2")), Act("x")>>)), jump>>)
                     : jump \in {Return("ok"), Return("err"), Try}}
NoreturnDefer == {Block(<<Defer(Act("x")), Defer(Exit), Act("y")>>), Block(<<Defer(Exit), Return("ok")>>)}
FailingContinuation == {Block(<<While("c", Block(<<Act("x")>>), Try, Return("ok")), Return("ok")>>)}
FailingCondition == {Block(<<If("q", Act("x"), Absent), Return("ok")>>)}
=============================================================================
