--------------------------- MODULE LoweredProgram ---------------------------
(***************************************************************************)
(* A run of the code the emitter writes for one function body.  Effects    *)
(* are recorded in a trace, and a condition known only at run time is      *)
(* decided when it is reached and recorded too, so that the run can be     *)
(* held against the compile-time evaluation of the same body.              *)
(*                                                                         *)
(* Effects that open and close the same scope are named in pairs: a body   *)
(* performs "open" and at once defers "close".                             *)
(***************************************************************************)
EXTENDS Lowering

CONSTANTS Programs,     \* the bodies considered, all Accepted
          UnrollLimit,  \* of the compile-time evaluator
          Pairs,        \* [closing effect -> the opening effect it is deferred behind]
          ErrorEffects, \* effects that only `errdefer` performs
          MaxChoices,   \* bound on the choices of a run
          MaxTrace      \* bound on its trace

Eval == INSTANCE CompileTimeEval

VARIABLES program,   \* the body
          code,      \* the segments emitted for it
          at, pc,    \* the segment and the instruction to run
          trace,     \* effects so far
          choices,   \* outcomes of the run-time conditions so far
          outcome    \* "running", or how the function was left
vars == <<program, code, at, pc, trace, choices, outcome>>

Init == /\ program \in Programs
        /\ code = EmitFunction(program)
        /\ at = 1 /\ pc = 1
        /\ trace = <<>> /\ choices = <<>> /\ outcome = "running"

Instr == code[at][pc]
Runs(op) == outcome = "running" /\ pc <= Len(code[at]) /\ Instr.op = op
Enter(segment) == at' = segment /\ pc' = 1

Perform == /\ Runs("act") /\ Len(trace) < MaxTrace
           /\ trace' = Append(trace, Instr.on) /\ pc' = pc + 1
           /\ UNCHANGED <<program, code, at, choices, outcome>>

Jump == Runs("goto") /\ Enter(Instr.t) /\ UNCHANGED <<program, code, trace, choices, outcome>>

BranchAtRuntime == /\ Runs("cond") /\ Instr.on = "c" /\ Len(choices) < MaxChoices
                   /\ \E taken \in BOOLEAN : /\ choices' = Append(choices, taken)
                                             /\ Enter(IF taken THEN Instr.t ELSE Instr.f)
                   /\ UNCHANGED <<program, code, trace, outcome>>

\* The returned value's own `branch`: its failure path for a failure.
BranchOnValue == /\ Runs("cond") /\ Instr.on # "c"
                 /\ Enter(IF Instr.on = "err" THEN Instr.t ELSE Instr.f)
                 /\ UNCHANGED <<program, code, trace, choices, outcome>>

Finish == /\ Runs("ret") /\ outcome' = Instr.on
          /\ UNCHANGED <<program, code, at, pc, trace, choices>>

Stop == /\ Runs("unreachable") /\ outcome' = "stopped"
        /\ UNCHANGED <<program, code, at, pc, trace, choices>>

Next == Perform \/ Jump \/ BranchAtRuntime \/ BranchOnValue \/ Finish \/ Stop

Spec == Init /\ [][Next]_vars

----------------------------------------------------------------------------
\* The emitted code ends with the effects, in the order, and with the value that the
\* compile-time evaluation of the same body under the same choices gives, which asks for
\* no other choice than the run did.
AgreesWithEval ==
  outcome \notin {"running", "stopped"} =>
    LET evaluated == Eval!EvalFunction(program, choices) IN
    /\ ~evaluated.asksMore
    /\ evaluated.known => /\ evaluated.trace = trace
                          /\ evaluated.outcome = outcome
                          /\ evaluated.unread = <<>>

\* The scopes open after a trace, innermost last; "unbalanced" once a deferred effect ran
\* that did not belong to the innermost open scope.
OpenAfter == FoldLeft(LAMBDA open, effect :
                        CASE effect \in {Pairs[c] : c \in DOMAIN Pairs} -> Append(open, effect)
                          [] effect \notin DOMAIN Pairs                 -> open
                          [] open # <<>> /\ Last(open) = Pairs[effect]  -> Front(open)
                          [] OTHER                                      -> Append(open, "unbalanced"),
                      <<>>, trace)

\* Deferred statements run exactly once for each time their scope was entered, innermost
\* scope first, on every way out of it; an `errdefer` runs only on the way to a failure.
DefersAreBalanced ==
  /\ \A i \in DOMAIN OpenAfter : OpenAfter[i] # "unbalanced"
  /\ outcome \notin {"running", "stopped"} => OpenAfter = <<>>
  /\ outcome \in {"ok", "end"} => ToSet(trace) \cap ErrorEffects = {}

\* Whatever can be reached ends in a jump or a return with nothing emitted behind it, and
\* every jump leads to a segment of the function.
PathsEndAtTerminators ==
  /\ outcome = "running" => pc <= Len(code[at])
  /\ \A s \in DOMAIN code : \A i \in DOMAIN code[s] :
       /\ code[s][i].op \in Terminators => i = Len(code[s])
       /\ code[s][i].op = "goto" => code[s][i].t \in DOMAIN code
       /\ code[s][i].op = "cond" => {code[s][i].t, code[s][i].f} \subseteq DOMAIN code
=============================================================================
