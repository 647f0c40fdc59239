------------------------------ MODULE Lowering ------------------------------
(***************************************************************************)
(* The emitter of GIR for control flow.  Its state is the segments written *)
(* so far, the segment being written, the stack of scopes with the         *)
(* statements each has deferred, the stack of loop contexts, and the two   *)
(* flags with which a jump leaves the body of a loop that is unrolled      *)
(* while it is emitted.  Operands and results are left out.                *)
(***************************************************************************)
EXTENDS ControlFlow, SequencesExt

CONSTANT Passes       \* iterations of every unrolled loop whose body does not break

Terminators == {"goto", "cond", "ret", "unreachable"}
Instruction(op, on, to, otherwise) == [op |-> op, on |-> on, t |-> to, f |-> otherwise]
Goto(to) == Instruction("goto", "", to, 0)
CondGoto(on, to, otherwise) == Instruction("cond", on, to, otherwise)
Ret(value) == Instruction("ret", value, 0, 0)

EmptyFunction == [segs |-> <<<<>>>>, cur |-> 1, scopes |-> <<>>, loops |-> <<>>,
                  unrolledBreak |-> FALSE, unrolledContinue |-> FALSE]

\* Only the last instruction of the segment is looked at.
HasTerminator(e) == LET s == e.segs[e.cur] IN s # <<>> /\ Last(s).op \in Terminators
Put(e, instruction) == [e EXCEPT !.segs[e.cur] = Append(@, instruction)]
GotoUnlessTerminated(e, to) == IF HasTerminator(e) THEN e ELSE Put(e, Goto(to))
AddSegments(e, n) == [e EXCEPT !.segs = @ \o [i \in 1 .. n |-> <<>>]]
SetSegment(e, id) == [e EXCEPT !.cur = id]
PushScope(e) == [e EXCEPT !.scopes = Append(@, <<>>)]
PopScope(e) == [e EXCEPT !.scopes = Front(@)]
PopLoop(e) == [e EXCEPT !.loops = Front(@)]
LeavingUnrolled(e) == e.unrolledBreak \/ e.unrolledContinue

PushLoop(e, label, brk, cont, comptime) ==
  [e EXCEPT !.loops = Append(@, [label |-> label, brk |-> brk, cont |-> cont,
                                 depth |-> Len(e.scopes), comptime |-> comptime])]

HasPendingErrdefer(e) == \E i \in DOMAIN e.scopes : \E j \in DOMAIN e.scopes[i] : e.scopes[i][j].onError

RECURSIVE EmitStmt(_, _)

\* The deferred statements of one scope, last one first; `errdefer`s only on an error edge.
EmitDefersForScope(e, scope, errorEdge) ==
  FoldRight(LAMBDA d, emitted : IF d.onError /\ ~errorEdge THEN emitted ELSE EmitStmt(emitted, d.stmt),
            e.scopes[scope], e)

\* From the innermost scope out to the first one at or above the target depth.
EmitDefersFromOutside(e, depth, errorEdge) ==
  FoldLeft(LAMBDA emitted, i : EmitDefersForScope(emitted, i, errorEdge), e,
           [i \in 1 .. Len(e.scopes) - depth |-> depth + i])
EmitDefersUpTo(e, depth, errorEdge) ==
  FoldRight(LAMBDA i, emitted : EmitDefersForScope(emitted, i, errorEdge),
            [i \in 1 .. Len(e.scopes) - depth |-> depth + i], e)

Leave(e, value, errorEdge) == Put(EmitDefersUpTo(e, 0, errorEdge), Ret(value))

\* A returned value is tested for failure only when an `errdefer` is pending.
EmitFunctionExitFailing(e, value) == Leave(e, value, HasPendingErrdefer(e))
EmitFunctionExit(e, value) ==
  IF ~HasPendingErrdefer(e) THEN Leave(e, value, FALSE)
  ELSE LET failure == Len(e.segs) + 1
           success == Len(e.segs) + 2
           tested == Put(AddSegments(e, 2), CondGoto(value, failure, success))
           failed == Leave(SetSegment(tested, failure), value, TRUE)
       IN Leave(SetSegment(failed, success), value, FALSE)

\* `?`: the diverging segment runs every pending deferred statement and returns.
EmitUnwrap(e) ==
  LET payload == Len(e.segs) + 1
      diverge == Len(e.segs) + 2
      branched == Put(AddSegments(e, 2), CondGoto("c", diverge, payload))
  IN SetSegment(Leave(SetSegment(branched, diverge), "err", TRUE), payload)

EmitCondition(e, cond) == IF cond = "q" THEN EmitUnwrap(e) ELSE e

\* The loop context a jump targets: the innermost one, or the innermost with its label.
TargetOf(e, label) ==
  e.loops[CHOOSE i \in DOMAIN e.loops :
            /\ label = "" \/ e.loops[i].label = label
            /\ \A j \in i + 1 .. Len(e.loops) : label # "" /\ e.loops[j].label # label]

EmitBreak(e, n) ==
  LET target == TargetOf(e, n.at)
      left == EmitDefersUpTo(e, target.depth, FALSE)
  IN IF target.comptime THEN [left EXCEPT !.unrolledBreak = TRUE] ELSE Put(left, Goto(target.brk))

EmitContinue(e, n) ==
  LET target == TargetOf(e, n.at)
      left == EmitDefersUpTo(e, target.depth, FALSE)
  IN IF target.comptime THEN [left EXCEPT !.unrolledContinue = TRUE] ELSE Put(left, Goto(target.cont))

\* A terminated segment, or a jump out of an unrolled body, ends the block early; only a
\* block left at its end runs its own deferred statements here.
EmitBlockPastEnd(e, statements) ==
  LET written == FoldLeft(EmitStmt, PushScope(e), statements)
  IN PopScope(EmitDefersForScope(written, Len(written.scopes), FALSE))
EmitBlock(e, statements) ==
  LET written == FoldLeft(LAMBDA emitted, s : IF HasTerminator(emitted) \/ LeavingUnrolled(emitted)
                                              THEN emitted ELSE EmitStmt(emitted, s),
                          PushScope(e), statements)
  IN PopScope(IF HasTerminator(written) \/ LeavingUnrolled(written) THEN written
              ELSE EmitDefersForScope(written, Len(written.scopes), FALSE))

\* An arm has a scope of its own for its capture.
EmitArm(e, segment, arm, merge) ==
  GotoUnlessTerminated(PopScope(EmitStmt(PushScope(SetSegment(e, segment)), arm)), merge)

EmitIf(e, n) ==
  LET then == n.kids[1]
      else == n.kids[2]
      tested == EmitCondition(e, n.at)
      first == Len(tested.segs)
      hasElse == else # Absent
      merge == first + (IF hasElse THEN 3 ELSE 2)
      alternate == IF hasElse THEN first + 2 ELSE merge
      branched == Put(AddSegments(tested, merge - first), CondGoto("c", first + 1, alternate))
      one == EmitArm(branched, first + 1, then, merge)
      both == IF hasElse THEN EmitArm(one, alternate, else, merge) ELSE one
  IN CASE n.at = "T" -> EmitStmt(e, then)
       [] n.at = "F" -> IF hasElse THEN EmitStmt(e, else) ELSE e
       [] OTHER      -> SetSegment(both, merge)

EmitWhile(e, n, label) ==
  LET body == n.kids[1]
      continuation == n.kids[2]
      else == n.kids[3]
      cond == Len(e.segs) + 1
      block == cond + 1
      step == IF continuation = Absent THEN cond ELSE block + 1
      after == IF continuation = Absent THEN block ELSE step
      otherwise == after + 1
      exit == IF else = Absent THEN after + 1 ELSE after + 2
      entered == PushLoop(GotoUnlessTerminated(AddSegments(e, exit - cond + 1), cond),
                          label, exit, step, FALSE)
      tested == Put(EmitCondition(SetSegment(entered, cond), n.at), CondGoto("c", block, otherwise))
      looped == EmitArm(tested, block, body, step)
      stepped == IF continuation = Absent THEN looped ELSE EmitArm(looped, step, continuation, cond)
      left == PopLoop(stepped)
  IN SetSegment(IF else = Absent THEN left ELSE EmitArm(left, otherwise, else, exit), exit)

EmitDoWhile(e, n, label) ==
  LET block == Len(e.segs) + 1
      cond == block + 1
      exit == block + 2
      entered == PushLoop(GotoUnlessTerminated(AddSegments(e, 3), block), label, exit, cond, FALSE)
      looped == GotoUnlessTerminated(EmitStmt(SetSegment(entered, block), n.kids[1]), cond)
      tested == Put(EmitCondition(SetSegment(looped, cond), n.at), CondGoto("c", block, exit))
  IN SetSegment(PopLoop(tested), exit)

EmitInfiniteLoop(e, n, label) ==
  LET block == Len(e.segs) + 1
      exit == block + 1
      entered == PushLoop(GotoUnlessTerminated(AddSegments(e, 2), block), label, exit, block, FALSE)
      looped == GotoUnlessTerminated(EmitStmt(SetSegment(entered, block), n.kids[1]), block)
  IN SetSegment(PopLoop(looped), exit)

\* The body once per pass.  A pass that terminated its segment, or broke, is the last.
RECURSIVE EmitUnrolled(_, _, _)
EmitUnrolled(e, n, pass) ==
  LET written == PopLoop(EmitStmt(PushLoop(e, "", 0, 0, TRUE), n.kids[1]))
      resumed == [written EXCEPT !.unrolledBreak = FALSE, !.unrolledContinue = FALSE]
      stepped == IF n.kids[2] = Absent THEN resumed ELSE EmitStmt(resumed, n.kids[2])
  IN CASE pass > Passes          -> e
       [] HasTerminator(written) -> written
       [] written.unrolledBreak  -> [written EXCEPT !.unrolledBreak = FALSE]
       [] OTHER                  -> EmitUnrolled(stepped, n, pass + 1)

\* A label hands its name to the loop it stands on; around anything else it is a context
\* whose break and continue both lead behind it.
EmitLabel(e, n) ==
  LET body == n.kids[1]
      exit == Len(e.segs) + 1
      entered == PushLoop(AddSegments(e, 1), n.at, exit, exit, FALSE)
  IN CASE body.k = "while"   -> EmitWhile(e, body, n.at)
       [] body.k = "dowhile" -> EmitDoWhile(e, body, n.at)
       [] body.k = "loop"    -> EmitInfiniteLoop(e, body, n.at)
       [] OTHER -> SetSegment(PopLoop(GotoUnlessTerminated(EmitStmt(entered, body), exit)), exit)

DeferIn(e, stmt, onError) ==
  [e EXCEPT !.scopes[Len(e.scopes)] = Append(@, [stmt |-> stmt, onError |-> onError])]

EmitStmt(e, n) ==
  CASE n.k = "act"      -> Put(e, Instruction("act", n.at, 0, 0))
    [] n.k = "exit"     -> LET called == Put(e, Instruction("act", "exit", 0, 0)) IN
                           Put(called, Instruction("unreachable", "", 0, 0))
    [] n.k = "try"      -> EmitUnwrap(e)
    [] n.k = "return"   -> EmitFunctionExit(e, n.at)
    [] n.k = "break"    -> EmitBreak(e, n)
    [] n.k = "continue" -> EmitContinue(e, n)
    [] n.k = "block"    -> EmitBlock(e, n.kids)
    [] n.k = "defer"    -> DeferIn(e, n.kids[1], FALSE)
    [] n.k = "errdefer" -> DeferIn(e, n.kids[1], TRUE)
    [] n.k = "if"       -> EmitIf(e, n)
    [] n.k = "while"    -> EmitWhile(e, n, "")
    [] n.k = "dowhile"  -> EmitDoWhile(e, n, "")
    [] n.k = "loop"     -> EmitInfiniteLoop(e, n, "")
    [] n.k = "unroll"   -> EmitUnrolled(e, n, 1)
    [] n.k = "label"    -> EmitLabel(e, n)

EmitFunctionOpen(body) == EmitStmt(EmptyFunction, body).segs
\* A function whose body can be left at its end gets a return there.
EmitFunction(body) ==
  LET written == EmitStmt(EmptyFunction, body) IN
  (IF HasTerminator(written) THEN written ELSE Put(written, Ret("end"))).segs
=============================================================================
