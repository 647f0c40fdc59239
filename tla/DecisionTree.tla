---------------------------- MODULE DecisionTree ----------------------------
(***************************************************************************)
(* How the rows of a match become a tree of tests.  A row has one cell per *)
(* column, a column is an occurrence (a place inside the scrutinee, as the *)
(* steps that lead there) with its type.  The tree is a nested record; a   *)
(* FAIL node keeps what was established on the way to it, `path`, and the  *)
(* labels nobody covers.  The budget of nodes is left out.                 *)
(***************************************************************************)
EXTENDS Patterns

Step(kind, index) == [step |-> kind, index |-> index]
Column(occ, t) == [occ |-> occ, type |-> t]

Fail(occ, labels, path) == [kind |-> "FAIL", occ |-> occ, labels |-> labels, path |-> path]

\* A row with the captures of a cell that takes its place at an occurrence.
Binding(n, occ) == [i \in DOMAIN n.captures |-> [name |-> n.captures[i].name, type |-> n.captures[i].type, occ |-> occ]]
FirstRow(input, id) ==
  [id |-> id, arm |-> input.arm, alternative |-> input.alternative, guarded |-> input.guarded, cells |-> <<input.root>>,
   bindings |-> Binding(input.root, <<>>)]

Replaced(s, at, by) == SubSeq(s, 1, at - 1) \o by \o SubSeq(s, at + 1, Len(s))
WithCells(row, col, nodes, occs) ==
  [row EXCEPT !.cells = Replaced(@, col, nodes),
              !.bindings = @ \o FlattenSeq([i \in DOMAIN nodes |-> Binding(nodes[i], occs[i])])]

Cell(rows, r, col) == rows[r].cells[col]
IsWild(n) == n.kind = "WILDCARD"
Tested(row) == {c \in DOMAIN row.cells : ~IsWild(row.cells[c])}
Indices(s, Wanted(_)) == SelectSeq([i \in DOMAIN s |-> i], LAMBDA i : Wanted(i))

----------------------------------------------------------------------------
(* A value with one shape needs no test: its parts become columns.         *)
StepOf(kind, t, index) ==
  CASE kind = "DEREF" -> Step("DEREF", 0)
    [] kind = "ARRAY" -> Step("ELEMENT", index)
    [] OTHER          -> Step(IF t.k = "slice" /\ index = BytesIndex THEN "SLICE_BYTES" ELSE "FIELD", index)

PartsOf(n) == {[index |-> n.children[i].index, type |-> n.children[i].type] : i \in DOMAIN n.children}

PartsBackwards(rows, col) ==
  SetToSortSeq(UNION {PartsOf(Cell(rows, r, col)) : r \in DOMAIN rows}, LAMBDA a, b : a.index > b.index)
\* Every part any row looks at, in layout order.
Parts(rows, col) ==
  SetToSortSeq(UNION {PartsOf(Cell(rows, r, col)) : r \in DOMAIN rows},
               LAMBDA a, b : a.index < b.index)

PartOf(n, part) ==
  LET found == SelectInSeq(n.children, LAMBDA c : c.index = part.index)
  IN IF found = 0 THEN Wildcard(part.type) ELSE n.children[found].pattern

\* The rows and columns once the parts took the column's place.
PartColumns(kind, at, parts) ==
  [i \in DOMAIN parts |-> Column(Append(at.occ, StepOf(kind, at.type, parts[i].index)), parts[i].type)]
OccsOf(columns) == [i \in DOMAIN columns |-> columns[i].occ]
WithParts(rows, columns, col, parts, added) ==
  [rows |-> [r \in DOMAIN rows |->
               WithCells(rows[r], col, [i \in DOMAIN parts |-> PartOf(Cell(rows, r, col), parts[i])], OccsOf(added))],
   columns |-> Replaced(columns, col, added)]
Expanded(rows, columns, col, parts) ==
  WithParts(rows, columns, col, parts, PartColumns(Cell(rows, 1, col).kind, columns[col], parts))

----------------------------------------------------------------------------
(* What a column is split into: the tests that rows ask for, in order, and *)
(* labels for what none of them takes.                                     *)
Split(tests, gaps) == [tests |-> tests, gaps |-> gaps]
Test(kind, arg) == [kind |-> kind, arg |-> arg]

\* What the cells of a column name, in the order of the rows.
Listed(rows, col) ==
  FoldLeft(LAMBDA seen, r : IF IsWild(r.cells[col]) \/ Contains(seen, r.cells[col].arg) THEN seen
                            ELSE Append(seen, r.cells[col].arg), <<>>, rows)
Unlisted(listed, count) == Indices([i \in 1 .. count |-> i], LAMBDA i : ~Contains(listed, i))
TestsOf(kind, args) == [i \in DOMAIN args |-> Test(kind, args[i])]

Variants(rows, col, t) ==
  Split(TestsOf("TAG", Listed(rows, col)), TestsOf("TAG", Unlisted(Listed(rows, col), Len(t.fields))))

EnumsAllNamed(rows, col, t) ==
  Split(TestsOf("ENUM", Listed(rows, col)), TestsOf("ENUM", Unlisted(Listed(rows, col), Len(t.names))))
\* An open enumeration has values without a name.
Enums(rows, col, t) ==
  LET missing == TestsOf("ENUM", Unlisted(Listed(rows, col), Len(t.names)))
  IN Split(TestsOf("ENUM", Listed(rows, col)),
           IF t.open /\ missing = <<>> THEN <<Test("ANY", 0)>> ELSE missing)

Bools(rows, col) ==
  Split(TestsOf("BOOL", SelectSeq(<<TRUE, FALSE>>, LAMBDA b : Contains(Listed(rows, col), b))),
        TestsOf("BOOL", SelectSeq(<<TRUE, FALSE>>, LAMBDA b : ~Contains(Listed(rows, col), b))))

\* The number line cut wherever a range starts or ends, so that each piece is all or nothing.
Ranges(rows, col) == {r \in DOMAIN rows : ~IsWild(Cell(rows, r, col))}
Cuts(rows, col) ==
  SetToSortSeq(UNION {{Cell(rows, r, col).arg[1], Cell(rows, r, col).arg[2] + 1} : r \in Ranges(rows, col)},
               LAMBDA a, b : a < b)
Covering(rows, col, lo, hi) ==
  {r \in Ranges(rows, col) : Cell(rows, r, col).arg[1] <= lo /\ hi <= Cell(rows, r, col).arg[2]}

\* Neighbours that select the same rows are one piece.
AddPiece(pieces, lo, hi, covering) ==
  IF covering = {} THEN pieces
  ELSE IF pieces # <<>> /\ Last(pieces).covering = covering /\ Last(pieces).hi + 1 = lo
  THEN [pieces EXCEPT ![Len(pieces)].hi = hi]
  ELSE Append(pieces, [lo |-> lo, hi |-> hi, covering |-> covering])
PiecesOf(rows, col, cuts) ==
  FoldLeft(LAMBDA pieces, i : AddPiece(pieces, cuts[i], cuts[i + 1] - 1, Covering(rows, col, cuts[i], cuts[i + 1] - 1)),
           <<>>, [i \in 1 .. Len(cuts) - 1 |-> i])
Pieces(rows, col) == PiecesOf(rows, col, Cuts(rows, col))

GapsUnbounded(pieces, t) == <<Test("ANY", 0)>>
\* What the pieces leave of the type's range.
Gaps(pieces, t) ==
  IF t.k = "comptime_int" THEN <<Test("ANY", 0)>>
  ELSE LET starts == <<t.lo>> \o [i \in DOMAIN pieces |-> pieces[i].hi + 1]
           ends   == [i \in DOMAIN pieces |-> pieces[i].lo - 1] \o <<t.hi>>
           open   == Indices(starts, LAMBDA i : starts[i] <= ends[i])
       IN [i \in DOMAIN open |-> Test("INTERVAL", <<starts[open[i]], ends[open[i]]>>)]

SplitAt(pieces, t) ==
  Split([i \in DOMAIN pieces |-> Test("INTERVAL", <<pieces[i].lo, pieces[i].hi>>)], Gaps(pieces, t))
Intervals(rows, col, t) == SplitAt(Pieces(rows, col), t)

SplitOf(kind, rows, col, t) ==
  CASE kind = "VARIANT"    -> Variants(rows, col, t)
    [] kind = "ENUM_VALUE" -> Enums(rows, col, t)
    [] kind = "BOOL_VALUE" -> Bools(rows, col)
    [] kind = "INT_RANGE"  -> Intervals(rows, col, t)

----------------------------------------------------------------------------
(* What is left of the rows behind a test.                                 *)
Accepts(n, test) ==
  IF test.kind = "INTERVAL" THEN n.arg[1] <= test.arg[1] /\ test.arg[2] <= n.arg[2] ELSE n.arg = test.arg

PayloadType(t, test) == IF test.kind = "TAG" THEN t.fields[test.arg].type ELSE Void
PayloadCell(n, payload) ==
  IF payload = Void THEN <<>> ELSE IF IsWild(n) THEN <<Wildcard(payload)>> ELSE <<n.children[1].pattern>>
PayloadColumn(at, test) ==
  IF PayloadType(at.type, test) = Void THEN <<>>
  ELSE <<Column(Append(at.occ, Step("PAYLOAD", test.arg)), PayloadType(at.type, test))>>

Specialized(rows, col, at, test) ==
  LET kept == SelectSeq(rows, LAMBDA r : IsWild(r.cells[col]) \/ Accepts(r.cells[col], test))
  IN [i \in DOMAIN kept |-> WithCells(kept[i], col, PayloadCell(kept[i].cells[col], PayloadType(at.type, test)),
                                      OccsOf(PayloadColumn(at, test)))]

\* Rows left when the column holds nothing a test could tell apart.
DefaultRows(rows, col) ==
  LET kept == SelectSeq(rows, LAMBDA r : IsWild(r.cells[col]))
  IN [i \in DOMAIN kept |-> WithCells(kept[i], col, <<>>, <<>>)]

----------------------------------------------------------------------------
RECURSIVE Decide(_, _, _)

\* The first row is taken, unless its guard fails.
Leaf(rows, columns, path) ==
  [kind |-> "LEAF", row |-> rows[1].id, arm |-> rows[1].arm, alternative |-> rows[1].alternative, guarded |-> rows[1].guarded,
   bindings |-> rows[1].bindings,
   fallthrough |-> IF rows[1].guarded THEN Decide(Tail(rows), columns, path) ELSE Fail(<<>>, <<>>, path)]

\* An opaque pattern can overlap anything: rows are tried strictly one at a time.
Sequence(rows, columns, col, path) ==
  [kind |-> "SEQUENCE", row |-> rows[1].id, arm |-> rows[1].arm, alternative |-> rows[1].alternative, occ |-> columns[col].occ, type |-> columns[col].type,
   test |-> Cell(rows, 1, col).source,
   onTrue |-> Decide([rows EXCEPT ![1].cells[col] = Wildcard(columns[col].type)], columns, path),
   onFalse |-> Decide(Tail(rows), columns, path)]

\* What runs for everything no row names.
DecideDefault(fallback, columns, col, gaps, path) ==
  IF fallback # <<>> THEN Decide(fallback, Replaced(columns, col, <<>>), path)
  ELSE Fail(columns[col].occ, gaps, path)

Label(occ, test) == [occ |-> occ, test |-> test]
Case(rows, columns, col, path, test) ==
  [test |-> test,
   target |-> Decide(Specialized(rows, col, columns[col], test),
                     Replaced(columns, col, PayloadColumn(columns[col], test)),
                     Append(path, Label(columns[col].occ, test)))]

Switch(rows, columns, col, path, split) ==
  [kind |-> "SWITCH", occ |-> columns[col].occ,
   cases |-> [i \in DOMAIN split.tests |-> Case(rows, columns, col, path, split.tests[i])],
   otherwise |-> IF split.gaps = <<>> THEN <<>>
                 ELSE <<DecideDefault(DefaultRows(rows, col), columns, col, split.gaps, path)>>]

DecideExpanded(expanded, path) == Decide(expanded.rows, expanded.columns, path)

DecideAt(rows, columns, col, path) ==
  IF \E r \in DOMAIN rows : Cell(rows, r, col).kind = "OPAQUE" THEN Sequence(rows, columns, col, path)
  ELSE IF Cell(rows, 1, col).kind \in {"RECORD", "ARRAY", "DEREF"}
  THEN DecideExpanded(Expanded(rows, columns, col, Parts(rows, col)), path)
  ELSE Switch(rows, columns, col, path, SplitOf(Cell(rows, 1, col).kind, rows, col, columns[col].type))

Decide(rows, columns, path) ==
  IF rows = <<>> THEN Fail(<<>>, <<>>, path)
  ELSE IF Tested(rows[1]) = {} THEN Leaf(rows, columns, path)
  ELSE DecideAt(rows, columns, Min(Tested(rows[1])), path)

Compile(inputs, t) ==
  Decide([i \in DOMAIN inputs |-> FirstRow(inputs[i], i)], <<Column(<<>>, t)>>, <<>>)

----------------------------------------------------------------------------
(* What compiling reports: the rows some path reaches, and a witness for   *)
(* each failure, written as a pattern.                                     *)
RECURSIVE RowsReached(_)
RowsReached(d) ==
  CASE d.kind = "FAIL"     -> {}
    [] d.kind = "LEAF"     -> {d.row} \cup RowsReached(d.fallthrough)
    [] d.kind = "SEQUENCE" -> RowsReached(d.onTrue) \cup RowsReached(d.onFalse)
    [] d.kind = "SWITCH"   -> UNION {RowsReached(d.cases[i].target) : i \in DOMAIN d.cases}
                                \cup UNION {RowsReached(d.otherwise[i]) : i \in DOMAIN d.otherwise}

RECURSIVE Failures(_)
Failures(d) ==
  CASE d.kind = "FAIL"     -> IF d.labels = <<>> THEN {d.path}
                              ELSE {Append(d.path, Label(d.occ, d.labels[i])) : i \in DOMAIN d.labels}
    [] d.kind = "LEAF"     -> IF d.guarded THEN Failures(d.fallthrough) ELSE {}
    [] d.kind = "SEQUENCE" -> Failures(d.onTrue) \cup Failures(d.onFalse)
    [] d.kind = "SWITCH"   -> UNION {Failures(d.cases[i].target) : i \in DOMAIN d.cases}
                                \cup UNION {Failures(d.otherwise[i]) : i \in DOMAIN d.otherwise}

TypeBehind(t, step) ==
  CASE step.step = "PAYLOAD" -> t.fields[step.index].type
    [] step.step = "FIELD"   -> PartType(t, step.index)
    [] step.step = "ELEMENT" -> t.elem
    [] step.step = "DEREF"   -> t.to
    [] step.step = "SLICE_BYTES" -> t

Exactly(v) == [e |-> "const", v |-> v]
LabelPattern(test, t) ==
  CASE test.kind = "TAG"  -> [form |-> "name", name |-> t.fields[test.arg].name]
    [] test.kind = "ENUM" -> [form |-> "name", name |-> t.names[test.arg]]
    [] test.kind = "BOOL" -> [form |-> "bool", v |-> test.arg]
    [] test.kind = "INTERVAL" -> [form |-> "range", lo |-> Exactly(test.arg[1]), hi |-> Exactly(test.arg[2]), closed |-> TRUE]
    [] test.kind = "ANY"  -> [form |-> "_"]
LabelAt(path, occ) == SelectLastInSeq(path, LAMBDA s : s.occ = occ)
StepsBelow(path, occ) ==
  {path[i].occ[Len(occ) + 1] : i \in {i \in DOMAIN path : Len(path[i].occ) > Len(occ) /\ IsPrefix(occ, path[i].occ)}}
Entry(name, p) == [name |-> name, of |-> p]

RECURSIVE Render(_, _, _)
RenderParts(t, path, occ, steps) ==
  LET part(step) == Render(TypeBehind(t, step), path, Append(occ, step))
      any == CHOOSE step \in steps : TRUE
  IN CASE \E step \in steps : step.step = "SLICE_BYTES" -> [form |-> "_"]
       [] any.step = "DEREF"   -> part(any)
       [] any.step = "PAYLOAD" -> [form |-> "call", name |-> t.fields[any.index].name, of |-> part(any)]
       [] any.step = "ELEMENT" ->
            [form |-> "init", parts |-> [i \in 1 .. t.len |-> Entry("", IF Step("ELEMENT", i) \in steps THEN part(Step("ELEMENT", i))
                                                                      ELSE [form |-> "_"])]]
       [] OTHER ->
            [form |-> "init", parts |-> LET at == SetToSeq(steps)
                                 IN [i \in DOMAIN at |-> Entry(PartName(t, at[i].index), part(at[i]))]]

\* A witness read back out of the steps that led to a failure.
Render(t, path, occ) ==
  IF StepsBelow(path, occ) # {} THEN RenderParts(t, path, occ, StepsBelow(path, occ))
  ELSE IF LabelAt(path, occ) = 0 THEN [form |-> "_"] ELSE LabelPattern(path[LabelAt(path, occ)].test, t)
=============================================================================
