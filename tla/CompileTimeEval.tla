-------------------------- MODULE CompileTimeEval --------------------------
(***************************************************************************)
(* The compile-time evaluator of the same statements.  Jumps are a signal  *)
(* that every statement after the jump sees; a block pops its frame and    *)
(* runs what the frame deferred.  The outcomes of run-time conditions are  *)
(* read one by one from a sequence of choices, so that an evaluation can   *)
(* be compared with a run of the emitted code that made the same choices.  *)
(***************************************************************************)
EXTENDS ControlFlow, SequencesExt

CONSTANTS Passes,       \* iterations of every unrolled loop whose body does not break
          UnrollLimit   \* iterations after which the evaluator gives a loop up

NoSignal == [kind |-> "none", label |-> "", value |-> ""]
Signal(kind, label, value) == [kind |-> kind, label |-> label, value |-> value]

Start(choices) == [signal |-> NoSignal, failing |-> FALSE, unknown |-> FALSE, asksMore |-> FALSE,
                   frames |-> <<>>, trace |-> <<>>, rest |-> choices]

Raise(s, signal) == [s EXCEPT !.signal = signal]
Unknown(s) == [s EXCEPT !.unknown = TRUE]
Stopped(s) == s.signal.kind # "none" \/ s.unknown
HasPendingErrdefer(s) == \E i \in DOMAIN s.frames : \E j \in DOMAIN s.frames[i] : s.frames[i][j].onError

\* The next choice.  Asking for one more than the run made is noted: the evaluator then
\* looks at a condition that the program did not.
Choose(s, onTrue(_), onFalse(_)) ==
  IF s.rest = <<>> THEN [Unknown(s) EXCEPT !.asksMore = TRUE]
  ELSE LET taken == [s EXCEPT !.rest = Tail(@)] IN
       IF Head(s.rest) THEN onTrue(taken) ELSE onFalse(taken)

\* `?` on a failure raises the return signal and remembers the failure.
Propagate(s) == Raise([s EXCEPT !.failing = TRUE], Signal("return", "", "err"))
EvalUnwrap(s) == Choose(s, Propagate, LAMBDA t : t)

\* A condition that does not fold to a boolean is unknown, also when a `?` in it returned.
\* A signal that is already set does not keep it from being looked at.
EvalCondition(s, cond, onTrue(_), onFalse(_)) ==
  CASE cond = "T" -> onTrue(s)
    [] cond = "F" -> onFalse(s)
    [] cond = "q" -> Choose(s, LAMBDA t : Unknown(Propagate(t)), LAMBDA t : Choose(t, onTrue, onFalse))
    [] OTHER      -> Choose(s, onTrue, onFalse)

\* What a loop does with the signal its body left: an unlabelled jump and a continue with
\* the loop's own label are the loop's, every other one leaves it.
ConsumeLoopSignalOfAny(s, ownLabel) ==
  CASE s.signal.kind = "break"    -> [step |-> "stop", state |-> Raise(s, NoSignal)]
    [] s.signal.kind = "continue" -> [step |-> "next", state |-> Raise(s, NoSignal)]
    [] OTHER                      -> [step |-> IF Stopped(s) THEN "exit" ELSE "next", state |-> s]
ConsumeLoopSignal(s, ownLabel) ==
  LET jump == s.signal.kind \in {"break", "continue"}
      continuesThis == /\ s.signal.kind = "continue"
                       /\ ownLabel # "" /\ s.signal.label = ownLabel
      mine == jump /\ (s.signal.label = "" \/ continuesThis)
  IN [step  |-> CASE mine -> IF s.signal.kind = "break" THEN "stop" ELSE "next"
                  [] OTHER -> IF Stopped(s) THEN "exit" ELSE "next",
      state |-> IF mine THEN Raise(s, NoSignal) ELSE s]

RECURSIVE EvalStmt(_, _)

\* A frame's deferred statements run last one first, with no signal set; whether the block
\* is left by a failure is what the evaluation remembers of the last one.
EvalDefers(s) ==
  LET deferred == Last(s.frames)
      ran == FoldRight(LAMBDA d, t : IF d.onError /\ ~s.failing THEN t ELSE EvalStmt(t, d.stmt),
                       deferred, Raise([s EXCEPT !.frames[Len(s.frames)] = <<>>], NoSignal))
  IN [Raise(ran, s.signal) EXCEPT !.frames = Front(@)]

EvalBlock(s, statements) ==
  EvalDefers(FoldLeft(LAMBDA t, stmt : IF Stopped(t) THEN t ELSE EvalStmt(t, stmt),
                      [s EXCEPT !.frames = Append(@, <<>>)], statements))

\* An `else` expression that yields no value leaves the evaluation unknown.
EvalNonBreak(s, else) ==
  LET t == EvalStmt(s, else) IN IF else.k = "try" /\ Stopped(t) THEN Unknown(t) ELSE t

EvalOptional(s, n) == IF n = Absent THEN s ELSE EvalStmt(s, n)

\* One iteration of the loop after another, until it is left or its limit is reached.
RECURSIVE EvalWhile(_, _, _, _), EvalDoWhile(_, _, _, _), EvalInfiniteLoop(_, _, _, _), EvalUnroll(_, _, _)
EvalWhile(s, n, label, iterations) ==
  LET again(t) == LET body == ConsumeLoopSignal(EvalStmt(t, n.kids[1]), label) IN
                  IF body.step # "next" THEN body.state
                  ELSE EvalWhile(EvalOptional(body.state, n.kids[2]), n, label, iterations + 1)
      over(t) == IF n.kids[3] = Absent THEN t ELSE EvalNonBreak(t, n.kids[3])
  IN IF iterations >= UnrollLimit THEN Unknown(s) ELSE EvalCondition(s, n.at, again, over)

EvalDoWhile(s, n, label, iterations) ==
  LET body == ConsumeLoopSignal(EvalStmt(s, n.kids[1]), label)
      again(t) == EvalDoWhile(t, n, label, iterations + 1)
      over(t) == t
  IN CASE iterations >= UnrollLimit -> Unknown(s)
       [] body.step # "next"        -> body.state
       [] OTHER                     -> EvalCondition(body.state, n.at, again, over)

EvalInfiniteLoop(s, n, label, iterations) ==
  LET body == ConsumeLoopSignal(EvalStmt(s, n.kids[1]), label) IN
  CASE iterations >= UnrollLimit -> Unknown(s)
    [] body.step # "next"        -> body.state
    [] OTHER                     -> EvalInfiniteLoop(body.state, n, label, iterations + 1)

\* An unrolled loop is evaluated like the loop it is; its condition folds.
EvalUnroll(s, n, iterations) ==
  LET body == ConsumeLoopSignal(EvalStmt(s, n.kids[1]), "") IN
  CASE iterations >= Passes -> s
    [] body.step # "next"   -> body.state
    [] OTHER                -> EvalUnroll(EvalOptional(body.state, n.kids[2]), n, iterations + 1)

\* A label consumes the breaks that name it.
EvalLabel(s, n) ==
  LET body == n.kids[1]
      done == CASE body.k = "while"   -> EvalWhile(s, body, n.at, 0)
                [] body.k = "dowhile" -> EvalDoWhile(s, body, n.at, 0)
                [] body.k = "loop"    -> EvalInfiniteLoop(s, body, n.at, 0)
                [] OTHER              -> EvalStmt(s, body)
  IN IF done.signal.kind = "break" /\ done.signal.label = n.at THEN Raise(done, NoSignal) ELSE done

EvalReturn(s, value) ==
  LET fails == value = "err" /\ HasPendingErrdefer(s) IN
  Raise([s EXCEPT !.failing = @ \/ fails], Signal("return", "", value))

EvalIf(s, n) ==
  LET then(t) == EvalStmt(t, n.kids[1])
      else(t) == EvalOptional(t, n.kids[2])
  IN EvalCondition(s, n.at, then, else)

DeferIn(s, stmt, onError) ==
  [s EXCEPT !.frames[Len(s.frames)] = Append(@, [stmt |-> stmt, onError |-> onError])]

EvalStmt(s, n) ==
  CASE n.k = "act"      -> [s EXCEPT !.trace = Append(@, n.at)]
    [] n.k = "exit"     -> Unknown(s)
    [] n.k = "try"      -> EvalUnwrap(s)
    [] n.k = "return"   -> EvalReturn(s, n.at)
    [] n.k = "break"    -> Raise(s, Signal("break", n.at, ""))
    [] n.k = "continue" -> Raise(s, Signal("continue", n.at, ""))
    [] n.k = "block"    -> EvalBlock(s, n.kids)
    [] n.k = "defer"    -> DeferIn(s, n.kids[1], FALSE)
    [] n.k = "errdefer" -> DeferIn(s, n.kids[1], TRUE)
    [] n.k = "if"       -> EvalIf(s, n)
    [] n.k = "while"    -> EvalWhile(s, n, "", 0)
    [] n.k = "dowhile"  -> EvalDoWhile(s, n, "", 0)
    [] n.k = "loop"     -> EvalInfiniteLoop(s, n, "", 0)
    [] n.k = "unroll"   -> EvalUnroll(s, n, 0)
    [] n.k = "label"    -> EvalLabel(s, n)

\* A call of a function with this body: the value it returned, or that it ran off its end.
EvalFunction(body, choices) ==
  LET s == EvalStmt(Start(choices), body) IN
  [known |-> ~s.unknown, asksMore |-> s.asksMore, trace |-> s.trace, unread |-> s.rest,
   outcome |-> IF s.signal.kind = "return" THEN s.signal.value ELSE "end"]
=============================================================================
