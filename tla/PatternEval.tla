---------------------------- MODULE PatternEval ----------------------------
(***************************************************************************)
(* The compile-time evaluator's own matcher: no tree, the patterns of the  *)
(* arms are held against the value one after another.  `runtime` is what   *)
(* an expression that is not a constant evaluates to.                      *)
(***************************************************************************)
EXTENDS Patterns

Ends(bound, runtime) == IF bound.e = "var" THEN runtime ELSE bound.v
InRange(p, v, runtime) ==
  /\ p.lo.e # "none" => Ends(p.lo, runtime) <= v
  /\ p.hi.e # "none" => IF p.closed THEN v <= Ends(p.hi, runtime) ELSE v < Ends(p.hi, runtime)

\* What a name is given, the last time it is bound.
Frame(binds) ==
  [n \in {binds[i].name : i \in DOMAIN binds} |-> binds[SelectLastInSeq(binds, LAMBDA b : b.name = n)].value]
Bind(name, t, v) == IF name = "_" THEN <<>> ELSE <<[name |-> name, value |-> <<t.k, v>>]>>

Fit(binds) == [fits |-> TRUE, binds |-> binds]
NoFit == [fits |-> FALSE, binds |-> <<>>]
When(fits) == IF fits THEN Fit(<<>>) ELSE NoFit
With(result, binds) == IF result.fits THEN Fit(result.binds \o binds) ELSE NoFit
AllFit(results) ==
  IF \A i \in DOMAIN results : results[i].fits THEN Fit(FlattenSeq([i \in DOMAIN results |-> results[i].binds])) ELSE NoFit

MatchPattern(p, t, v, runtime) ==
  CASE p.form = "name"  -> IF t.k = "union" THEN t.fields[v[1]].name = p.name ELSE v # 0 /\ t.names[v] = p.name
    [] p.form = "range" -> InRange(p, v, runtime)
    [] p.form = "var"   -> v = runtime
    [] p.form = "null"  -> v = 0
    [] p.form \in {"int", "bool"} -> v = p.v

RECURSIVE MatchStructure(_, _, _, _)

\* Of a slice only the length has a value to compare.
MatchEntry(entry, t, v, runtime) ==
  IF t.k = "struct" THEN MatchStructure(entry.of, t.fields[FieldNamed(t, entry.name)].type,
                                        v[FieldNamed(t, entry.name)], runtime)
  ELSE IF entry.name = "len" THEN MatchStructure(entry.of, Usize, Len(v), runtime) ELSE NoFit

MatchParts(p, t, v, runtime) ==
  IF t.k = "array" /\ Named(p) = {}
  THEN IF Len(p.parts) # Len(v) THEN NoFit
       ELSE AllFit([i \in DOMAIN p.parts |-> MatchStructure(p.parts[i].of, t.elem, v[i], runtime)])
  ELSE AllFit([i \in DOMAIN p.parts |-> MatchEntry(p.parts[i], t, v, runtime)])

MatchVariant(p, t, v, runtime) ==
  IF t.fields[v[1]].name # p.name \/ t.fields[v[1]].type = Void THEN NoFit
  ELSE MatchStructure(p.of, t.fields[v[1]].type, v[2], runtime)

MatchStructure(p, t, v, runtime) ==
  CASE p.form = "_"       -> Fit(<<>>)
    [] p.form = "capture" -> Fit(Bind(p.name, t, v))
    [] p.form = "bound"   -> With(MatchStructure(p.of, t, v, runtime), Bind(p.name, t, v))
    [] OTHER ->
       IF t.k = "ref" THEN MatchStructure(p, t.to, v, runtime)
       ELSE CASE p.form = "string" -> When(v = p.bytes)
              [] p.form = "init"   -> MatchParts(p, t, v, runtime)
              [] p.form = "call"   -> MatchVariant(p, t, v, runtime)
              [] OTHER             -> When(MatchPattern(p, t, v, runtime))

----------------------------------------------------------------------------
(* What an arm's capture behind `=>` is given: a union's payload but for   *)
(* the catch-all, which takes the whole.                                   *)
TakesPayload(m, a, v) == m.type.k = "union" /\ a # CatchAll(m) /\ m.type.fields[v[1]].type # Void
ArmBinds(m, a, v) ==
  IF TakesPayload(m, a, v) THEN Bind(m.arms[a].capture, m.type.fields[v[1]].type, v[2])
  ELSE Bind(m.arms[a].capture, m.type, v)

\* Whether evaluating a pattern evaluates an expression that is not a constant.
RECURSIVE Asks(_)
Asks(p) == \/ p.form = "var"
           \/ p.form = "range" /\ "var" \in {p.lo.e, p.hi.e}
           \/ p.form = "bound" /\ Asks(p.of)
Asked(arm, alternative, p) ==
  IF Asks(p) THEN <<[arm |-> arm, alternative |-> alternative, fits |-> FALSE]>> ELSE <<>>
Fitted(arm, alternative, binds) ==
  <<[arm |-> arm, alternative |-> alternative, fits |-> TRUE, binds |-> Frame(binds)]>>

\* One pattern against the value; nothing behind an arm without a guard that fits.
TryPattern(m, v, runtime, sofar, a, i, p, result) ==
  IF sofar.ended THEN sofar
  ELSE [ended |-> result.fits /\ ~m.arms[a].guarded,
        tries |-> sofar.tries \o Asked(a, i, p)
                    \o IF result.fits THEN Fitted(a, i, result.binds \o ArmBinds(m, a, v)) ELSE <<>>]
TryArm(m, v, runtime, sofar, a) ==
  FoldLeft(LAMBDA done, i : TryPattern(m, v, runtime, done, a, i, m.arms[a].patterns[i],
                                       MatchStructure(m.arms[a].patterns[i], m.type, v, runtime)),
           sofar, [i \in DOMAIN m.arms[a].patterns |-> i])
OrderedArms(m) ==
  LET others == SelectSeq([a \in DOMAIN m.arms |-> a], LAMBDA a : a # CatchAll(m))
  IN IF CatchAll(m) = 0 THEN others ELSE Append(others, CatchAll(m))

\* All that evaluating the match may do to a value while its guards fail, in order.
EvalMatch(m, v, runtime) ==
  FoldLeft(LAMBDA sofar, a : TryArm(m, v, runtime, sofar, a), [ended |-> FALSE, tries |-> <<>>], OrderedArms(m))

\* The arm a constant scrutinee is known to take, 0 where a guard decides.
SelectedMatchArm(m, v, runtime) ==
  LET fits(a) == \E i \in DOMAIN m.arms[a].patterns :
                   MatchStructure(m.arms[a].patterns[i], m.type, v, runtime).fits
      first == SelectInSeq([a \in DOMAIN m.arms |-> a], LAMBDA a : a # CatchAll(m) /\ fits(a))
  IN IF first = 0 THEN CatchAll(m) ELSE IF m.arms[first].guarded THEN 0 ELSE first
=============================================================================
