------------------------------ MODULE Patterns ------------------------------
(***************************************************************************)
(* Types and their values, the patterns of a match, and what elaboration   *)
(* makes of a pattern against the type it is to match.                     *)
(*                                                                         *)
(* A type is a record with its kind `k`.  A value of a union is the pair   *)
(* of its active field and the payload, of a struct the tuple of its       *)
(* fields, of a slice the sequence of its elements; a reference stands for *)
(* what it refers to, a value of an open enumeration may be 0, no name.    *)
(***************************************************************************)
EXTENDS Integers, Sequences, SequencesExt, FiniteSetsExt

CONSTANTS Samples,   \* the integers values are taken from
          MaxLen,    \* bound on the length of a slice
          MaxUsize   \* the largest usize

Void == [k |-> "void"]
Usize == [k |-> "int", lo |-> 0, hi |-> MaxUsize]
Byte == [k |-> "int", lo |-> 0, hi |-> 255]
Integer(t) == t.k \in {"int", "comptime_int"}

RECURSIVE Values(_)
Values(t) ==
  CASE t.k = "bool"         -> BOOLEAN
    [] t.k = "int"          -> {v \in Samples : t.lo <= v /\ v <= t.hi}
    [] t.k = "comptime_int" -> Samples
    [] t.k = "enum"         -> (IF t.open THEN 0 ELSE 1) .. Len(t.names)
    [] t.k \in {"void", "ptr"} -> IF t.k = "void" THEN {0} ELSE 0 .. 1
    [] t.k = "union"        -> UNION {{<<i, v>> : v \in Values(t.fields[i].type)} : i \in DOMAIN t.fields}
    [] t.k = "struct"       -> FoldLeft(LAMBDA tuples, f : {Append(s, v) : s \in tuples, v \in Values(f.type)},
                                        {<<>>}, t.fields)
    [] t.k = "array"        -> [1 .. t.len -> Values(t.elem)]
    [] t.k = "slice"        -> UNION {[1 .. n -> Values(t.elem)] : n \in 0 .. MaxLen}
    [] t.k = "ref"          -> Values(t.to)

----------------------------------------------------------------------------
(* The nodes of an elaborated pattern.                                     *)
Node(kind, t, source, arg, children) ==
  [kind |-> kind, type |-> t, source |-> source, arg |-> arg, children |-> children, captures |-> <<>>]
Wildcard(t) == Node("WILDCARD", t, [form |-> "_"], 0, <<>>)
Child(index, t, pattern) == [index |-> index, type |-> t, pattern |-> pattern]
Error == Node("ERROR", Void, [form |-> "_"], 0, <<>>)
IsError(n) == n.kind = "ERROR"

\* A node with its parts, an error if one of them is.
Parent(kind, t, source, arg, children) ==
  IF \E i \in DOMAIN children : IsError(children[i].pattern) THEN Error
  ELSE Node(kind, t, source, arg, children)

Capturing(n, name, t) ==
  IF IsError(n) \/ name = "_" THEN n
  ELSE [n EXCEPT !.captures = Append(@, [name |-> name, type |-> t])]

FieldNamed(t, name) == SelectInSeq(t.fields, LAMBDA f : f.name = name)

\* Whether a pattern merely names a variant that has a payload.
NamesPayload(p, t) ==
  /\ t.k = "union" /\ p.form = "name" /\ FieldNamed(t, p.name) # 0
  /\ t.fields[FieldNamed(t, p.name)].type # Void

----------------------------------------------------------------------------
(* Leaves.                                                                 *)
FitsType(t, v) == t.k = "comptime_int" \/ (t.lo <= v /\ v <= t.hi)

\* Only at the top may a pattern depend on a run-time value; it is then compared whole.
Opaque(p, t, top) == IF top THEN Node("OPAQUE", t, p, 0, <<>>) ELSE Error

LowerEnd(p, t) == IF p.lo.e = "none" THEN t.lo ELSE p.lo.v
UpperEnd(p, t) == IF p.hi.e = "none" THEN t.hi ELSE IF p.closed THEN p.hi.v ELSE p.hi.v - 1
RunRange(p, t, top) ==
  IF \/ ~Integer(t)
     \/ \E b \in {p.lo, p.hi} : b.e = "const" /\ ~FitsType(t, b.v)
     \/ t.k = "comptime_int" /\ "none" \in {p.lo.e, p.hi.e}
  THEN Error
  ELSE IF "var" \in {p.lo.e, p.hi.e} THEN Opaque(p, t, top)
  ELSE IF UpperEnd(p, t) < LowerEnd(p, t) THEN Error
  ELSE Node("INT_RANGE", t, p, <<LowerEnd(p, t), UpperEnd(p, t)>>, <<>>)

ByteNode(p, t, b) == Node("INT_RANGE", t, p, <<b, b>>, <<>>)
BytesNode(p, t) ==
  Node("ARRAY", t, p, 0, [i \in DOMAIN p.bytes |-> Child(i, t.elem, ByteNode(p, t.elem, p.bytes[i]))])

\* The places of a slice's length, pointer and bytes among its parts.
PtrIndex == 1
LenIndex == 2
BytesIndex == 3

RunString(p, t) ==
  IF t.elem # Byte \/ (t.k = "array" /\ t.len # Len(p.bytes)) THEN Error
  ELSE IF t.k = "array" THEN BytesNode(p, t)
  ELSE Node("RECORD", t, p, 0,
            <<Child(LenIndex, Usize, ByteNode(p, Usize, Len(p.bytes)))>>
              \o IF p.bytes = <<>> THEN <<>> ELSE <<Child(BytesIndex, t, BytesNode(p, t))>>)

\* A scalar must be a value its column can hold.
LeafFits(p, t) ==
  CASE p.form = "var"  -> Integer(t) \/ t.k \in {"bool", "enum", "ptr"}
    [] p.form = "name" -> t.k = "enum" /\ Contains(t.names, p.name)
    [] p.form = "int"  -> Integer(t) /\ FitsType(t, p.v)
    [] p.form = "bool" -> t.k = "bool"
    [] p.form = "null" -> t.k = "ptr"
    [] OTHER           -> FALSE

RunValue(p, t, top) ==
  IF ~LeafFits(p, t) THEN Error
  ELSE CASE p.form = "var"  -> Opaque(p, t, top)
         [] p.form = "name" -> Node("ENUM_VALUE", t, p, SelectInSeq(t.names, LAMBDA n : n = p.name), <<>>)
         [] p.form = "bool" -> Node("BOOL_VALUE", t, p, p.v, <<>>)
         [] p.form = "int"  -> Node("INT_RANGE", t, p, <<p.v, p.v>>, <<>>)
         [] p.form = "null" -> Node("OPAQUE", t, p, 0, <<>>)

----------------------------------------------------------------------------
(* Patterns with parts.                                                    *)
RECURSIVE Elaborate(_, _, _)

RunVariant(p, t) ==
  IF p.form \notin {"name", "call"} \/ FieldNamed(t, p.name) = 0 THEN Error
  ELSE LET i == FieldNamed(t, p.name)
           payload == t.fields[i].type
       IN CASE p.form = "call" -> IF payload = Void THEN Error
                                  ELSE Parent("VARIANT", t, p, i, <<Child(i, payload, Elaborate(p.of, payload, FALSE))>>)
            [] p.form = "name" -> Node("VARIANT", t, p, i,
                                       IF payload = Void THEN <<>> ELSE <<Child(i, payload, Wildcard(payload))>>)

\* The part an entry of an aggregate names, 0 for none.
PartNamed(t, name) ==
  IF t.k = "struct" THEN FieldNamed(t, name)
  ELSE CASE name = "len" -> LenIndex [] name = "ptr" -> PtrIndex [] OTHER -> 0
PartName(t, i) == IF t.k = "struct" THEN t.fields[i].name ELSE IF i = LenIndex THEN "len" ELSE "ptr"
PartType(t, i) ==
  IF t.k = "struct" THEN t.fields[i].type ELSE IF i = LenIndex THEN Usize ELSE [k |-> "ptr"]

Named(p) == {i \in DOMAIN p.parts : p.parts[i].name # ""}

RunArray(p, t) ==
  IF Named(p) # {} \/ Len(p.parts) # t.len THEN Error
  ELSE Parent("ARRAY", t, p, 0, [i \in DOMAIN p.parts |-> Child(i, t.elem, Elaborate(p.parts[i].of, t.elem, FALSE))])

\* A struct or a slice: entries name parts, each at most once.
RunRecord(p, t) ==
  IF \/ Named(p) # DOMAIN p.parts
     \/ \E i \in DOMAIN p.parts : PartNamed(t, p.parts[i].name) = 0
     \/ \E i, j \in DOMAIN p.parts : i # j /\ p.parts[i].name = p.parts[j].name
  THEN Error
  ELSE Parent("RECORD", t, p, 0,
              [i \in DOMAIN p.parts |->
                 LET part == PartNamed(t, p.parts[i].name)
                 IN Child(part, PartType(t, part), Elaborate(p.parts[i].of, PartType(t, part), FALSE))])

RunAggregate(p, t) ==
  CASE t.k = "array" -> RunArray(p, t)
    [] t.k \in {"struct", "slice"} -> RunRecord(p, t)
    [] OTHER -> Error

\* `.ok |x|` would bind the whole union where `.ok => |x|` binds the payload.
RunBound(p, t, top) ==
  IF NamesPayload(p.of, t) THEN Error ELSE Capturing(Elaborate(p.of, t, top), p.name, t)

\* A reference is looked through by everything but a capture of the reference itself.
RunReference(p, t, top) ==
  IF p.form = "bound" THEN Capturing(Elaborate(p.of, t, top), p.name, t)
  ELSE Parent("DEREF", t, p, 0, <<Child(0, t.to, Elaborate(p, t.to, top))>>)

Elaborate(p, t, top) ==
  CASE p.form = "_"       -> Wildcard(t)
    [] p.form = "capture" -> Capturing(Wildcard(t), p.name, t)
    [] OTHER ->
       IF t.k = "ref" THEN RunReference(p, t, top)
       ELSE CASE p.form = "bound" -> RunBound(p, t, top)
              [] p.form = "range" -> RunRange(p, t, top)
              [] p.form = "string" /\ t.k \in {"slice", "array"} -> RunString(p, t)
              [] p.form = "init"  -> RunAggregate(p, t)
              [] OTHER -> IF t.k = "union" THEN RunVariant(p, t) ELSE RunValue(p, t, top)

----------------------------------------------------------------------------
(* The arms of a match: patterns, a guard or none, a capture after `=>`    *)
(* ("_" for none).                                                         *)

\* The unguarded arm that is just `_`, 0 for none.
CatchAll(m) ==
  SelectInSeq(m.arms, LAMBDA arm : ~arm.guarded /\ arm.patterns[1].form = "_")

RECURSIVE CapturesOf(_)
CapturesOf(n) == n.captures \o FlattenSeq([i \in DOMAIN n.children |-> CapturesOf(n.children[i].pattern)])

\* A variant's payload, or the whole value of anything else.  A scrutinee's own reference
\* is looked through before, so that no root is a DEREF.
AttachArmCapture(n, name) ==
  IF IsError(n) \/ n.kind # "VARIANT" THEN Capturing(n, name, n.type)
  ELSE IF n.children = <<>> THEN Capturing(n, name, Void)
  ELSE [n EXCEPT !.children[1].pattern = Capturing(@, name, n.children[1].type)]

ArmPatterns(arm, t) ==
  [i \in DOMAIN arm.patterns |-> AttachArmCapture(Elaborate(arm.patterns[i], t, TRUE), arm.capture)]

\* All alternatives of an arm bind the same names with the same types, and an arm that
\* binds names in its pattern captures nothing behind `=>`.
BindsAlike(arm, t) ==
  LET sites(i) == CapturesOf(Elaborate(arm.patterns[i], t, TRUE))
  IN \A i \in DOMAIN arm.patterns :
       /\ arm.capture # "_" => sites(i) = <<>>
       /\ ToSet(CapturesOf(ArmPatterns(arm, t)[i])) = ToSet(CapturesOf(ArmPatterns(arm, t)[1]))

Legal(m) ==
  \A a \in DOMAIN m.arms :
    /\ \A i \in DOMAIN m.arms[a].patterns : ~IsError(Elaborate(m.arms[a].patterns[i], m.type, TRUE))
    /\ BindsAlike(m.arms[a], m.type)

RowsOfArm(m, a) ==
  [i \in DOMAIN m.arms[a].patterns |->
     [arm |-> a, alternative |-> i, guarded |-> m.arms[a].guarded, root |-> ArmPatterns(m.arms[a], m.type)[i]]]

RowsWithDiscardsLast(m) ==
  LET discards(a) == m.arms[a].patterns[1].form = "_" /\ a # CatchAll(m)
      arms == [a \in DOMAIN m.arms |-> a]
      order == SelectSeq(arms, LAMBDA a : a # CatchAll(m) /\ ~discards(a)) \o SelectSeq(arms, discards)
                 \o SelectSeq(arms, LAMBDA a : a = CatchAll(m))
  IN FlattenSeq([i \in DOMAIN order |-> RowsOfArm(m, order[i])])
\* One row per alternative in the order they are tried, `_` last wherever it is written.
RowsOf(m) ==
  LET others == SelectSeq([a \in DOMAIN m.arms |-> a], LAMBDA a : a # CatchAll(m))
      order == IF CatchAll(m) = 0 THEN others ELSE Append(others, CatchAll(m))
  IN FlattenSeq([i \in DOMAIN order |-> RowsOfArm(m, order[i])])
=============================================================================
