--------------------------- MODULE MatchDispatch ---------------------------
(***************************************************************************)
(* A match from its check to the arm it takes.  The resolver elaborates    *)
(* the patterns, compiles their rows and accepts or rejects the match; the *)
(* emitted code then takes a value through the same tree, one test at a    *)
(* time.  A guard's outcome is chosen when the guard is reached, a pattern *)
(* that depends on a run-time value is compared with `runtime`.            *)
(*                                                                         *)
(* `tried` records what can be observed: the rows whose run-time pattern   *)
(* was evaluated and the rows that fitted, with what they bound.  The      *)
(* compile-time evaluation of the same match, which knows no tree and      *)
(* tries the patterns one after another, is the reference for it.          *)
(***************************************************************************)
EXTENDS DecisionTree, PatternEval

CONSTANTS Matches    \* the matches considered

VARIABLES match,     \* [type, arms]
          phase,     \* "unchecked", "rejected", "accepted", "running", "taken"
          at,        \* the part of the decision tree still to be taken
          value,     \* the scrutinee
          runtime,   \* what run-time patterns evaluate to
          tried,     \* what has been observed
          read       \* the occurrences the last step loaded
vars == <<match, phase, at, value, runtime, tried, read>>

Nowhere == Fail(<<>>, <<>>, <<>>)
Init == /\ match \in Matches
        /\ phase = "unchecked" /\ at = Nowhere
        /\ value = <<>> /\ runtime = <<>> /\ tried = <<>> /\ read = {}

TreeOf(m) == Compile(RowsOf(m), m.type)

\* Every row is reached, but for the catch-all, and nothing is missing.
CoversExactly(m, tree) ==
  /\ \A r \in DOMAIN RowsOf(m) : r \in RowsReached(tree) \/ RowsOf(m)[r].arm = CatchAll(m)
  /\ Failures(tree) = {}

Reject == /\ phase = "unchecked" /\ ~Legal(match)
          /\ phase' = "rejected" /\ UNCHANGED <<match, at, value, runtime, tried, read>>

CheckCoverage ==
  /\ phase = "unchecked" /\ Legal(match)
  /\ at' = TreeOf(match)
  /\ phase' = IF CoversExactly(match, at') THEN "accepted" ELSE "rejected"
  /\ UNCHANGED <<match, value, runtime, tried, read>>

\* The run-time value is chosen where a pattern asks for it.
AsksAny(m) == \E a \in DOMAIN m.arms : \E i \in DOMAIN m.arms[a].patterns : Asks(m.arms[a].patterns[i])
Enter == /\ phase = "accepted"
         /\ value' \in Values(match.type)
         /\ runtime' \in IF AsksAny(match) THEN Values(match.type) ELSE {value'}
         /\ phase' = "running" /\ UNCHANGED <<match, at, tried, read>>

----------------------------------------------------------------------------
(* Where an occurrence lies inside the scrutinee.                          *)
Active(v, t, step) ==
  CASE step.step = "PAYLOAD" -> v[1] = step.index
    [] step.step = "ELEMENT" -> step.index \in DOMAIN v
    [] OTHER -> TRUE
Behind(v, t, step) ==
  CASE step.step = "PAYLOAD" -> v[2]
    [] step.step = "FIELD"   -> IF t.k = "slice" THEN (IF step.index = LenIndex THEN Len(v) ELSE 0) ELSE v[step.index]
    [] step.step = "ELEMENT" -> v[step.index]
    [] step.step \in {"DEREF", "SLICE_BYTES"} -> v

RECURSIVE Located(_, _, _)
\* Whether every step of an occurrence leads into the active part of the value.
Located(v, t, occ) ==
  occ = <<>> \/ (Active(v, t, Head(occ)) /\ Located(Behind(v, t, Head(occ)), TypeBehind(t, Head(occ)), Tail(occ)))
RECURSIVE Load(_, _, _)
Load(v, t, occ) ==
  IF occ = <<>> THEN v ELSE Load(Behind(v, t, Head(occ)), TypeBehind(t, Head(occ)), Tail(occ))

Holds(test, v) ==
  CASE test.kind = "TAG"      -> v[1] = test.arg
    [] test.kind = "INTERVAL" -> test.arg[1] <= v /\ v <= test.arg[2]
    [] OTHER                  -> v = test.arg

\* An opaque pattern as written: a range with run-time ends, or a value compared whole.
EqualsPattern(p, t, v) ==
  CASE p.form = "range" -> InRange(p, v, runtime)
    [] p.form = "var"   -> v = runtime
    [] p.form = "name"  -> v = SelectInSeq(t.names, LAMBDA n : n = p.name)
    [] p.form \in {"int", "bool"} -> v = p.v
    [] p.form = "null"  -> v = 0

Running == phase = "running"

\* The cases are tried in order; without a fallback the last one is not tested.
CaseHolding(d, v) == SelectInSeq(d.cases, LAMBDA c : Holds(c.test, v))
Switched(d, v) ==
  CASE CaseHolding(d, v) # 0 -> d.cases[CaseHolding(d, v)].target
    [] OTHER -> IF d.otherwise = <<>> THEN Last(d.cases).target ELSE d.otherwise[1]
TakeSwitch ==
  /\ Running /\ at.kind = "SWITCH"
  /\ read' = {at.occ}
  /\ at' = IF Located(value, match.type, at.occ) THEN Switched(at, Load(value, match.type, at.occ)) ELSE Nowhere
  /\ UNCHANGED <<match, phase, value, runtime, tried>>

TakeSequence ==
  /\ Running /\ at.kind = "SEQUENCE"
  /\ read' = {at.occ}
  /\ tried' = tried \o Asked(at.arm, at.alternative, at.test)
  /\ at' = IF Located(value, match.type, at.occ) /\ EqualsPattern(at.test, at.type, Load(value, match.type, at.occ))
           THEN at.onTrue ELSE at.onFalse
  /\ UNCHANGED <<match, phase, value, runtime>>

\* A leaf binds its names, those of variants without a payload to nothing; a failed guard
\* carries on with the rows behind.
IsStored(binding) == binding.type # Void
BoundAt(binding) ==
  [name |-> binding.name,
   value |-> CASE ~IsStored(binding) -> <<"void">>
               [] IsStored(binding) /\ Located(value, match.type, binding.occ) ->
                    <<binding.type.k, Load(value, match.type, binding.occ)>>
               [] OTHER -> <<"stray">>]
Bound(d) == [i \in DOMAIN d.bindings |-> BoundAt(d.bindings[i])]
TakeLeaf ==
  /\ Running /\ at.kind = "LEAF"
  /\ read' = {at.bindings[i].occ : i \in {j \in DOMAIN at.bindings : IsStored(at.bindings[j])}}
  /\ tried' = tried \o Fitted(at.arm, at.alternative, Bound(at))
  /\ \/ phase' = "taken" /\ at' = at
     \/ at.guarded /\ at' = at.fallthrough /\ phase' = phase
  /\ UNCHANGED <<match, value, runtime>>

Next == Reject \/ CheckCoverage \/ Enter \/ TakeSwitch \/ TakeSequence \/ TakeLeaf

Spec == Init /\ [][Next]_vars

----------------------------------------------------------------------------
RECURSIVE HoldsOpaque(_)
HoldsOpaque(n) == n.kind = "OPAQUE" \/ \E i \in DOMAIN n.children : HoldsOpaque(n.children[i].pattern)

\* Taking the tree evaluates the same run-time patterns, reaches the same rows in the same
\* order and binds the same names to the same values as evaluating the match at compile
\* time, and the arm taken is the one a constant scrutinee was said to take.
AgreesWithEval ==
  phase \in {"running", "taken"} =>
    LET evaluated == EvalMatch(match, value, runtime)
        selected == SelectedMatchArm(match, value, runtime)
    IN /\ IsPrefix(tried, evaluated.tries)
       /\ phase = "taken" => /\ ~at.guarded => tried = evaluated.tries
                             /\ selected \in {0, at.arm}

\* An accepted match takes every value to an arm: the emitted `unreachable` is, and where a
\* switch has no fallback and so leaves out its last test, one of its cases holds.
AcceptedMatchesTake ==
  Running =>
    /\ at.kind # "FAIL"
    /\ (at.kind = "SWITCH" /\ at.otherwise = <<>>) => CaseHolding(at, Load(value, match.type, at.occ)) # 0

\* Nothing is loaded from a variant that is not active or beyond the bytes of a slice.
ReadsAreActive == \A occ \in read : Located(value, match.type, occ)

\* What a rejection says is so: a row that is said never to match fits no value that an
\* earlier row without a guard leaves, every other row fits some such value, and each
\* missing pattern describes a value that no row without a guard takes.
ReportsAreTrue ==
  (phase \in {"accepted", "rejected"} /\ Legal(match)) =>
    LET fits(row, v, r) == MatchStructure(match.arms[row.arm].patterns[row.alternative], match.type, v, r).fits
        rows == RowsOf(match)
        takenBefore(i, v, r) == \E j \in 1 .. i - 1 : ~rows[j].guarded /\ fits(rows[j], v, r)
        free(i) == \E v \in Values(match.type), r \in Values(match.type) : fits(rows[i], v, r) /\ ~takenBefore(i, v, r)
    IN /\ \A i \in DOMAIN rows : free(i) => i \in RowsReached(at)
       /\ ~(\E i \in DOMAIN rows : HoldsOpaque(rows[i].root)) =>
            /\ \A i \in RowsReached(at) : free(i)
            /\ \A path \in Failures(at) :
                 \E v \in Values(match.type) :
                    /\ MatchStructure(Render(match.type, path, <<>>), match.type, v, v).fits
                    /\ ~takenBefore(Len(rows) + 1, v, v)
=============================================================================
