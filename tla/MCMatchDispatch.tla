-------------------------- MODULE MCMatchDispatch --------------------------
(* Matches over small types: every sequence of a few arms from a pool of patterns. *)
EXTENDS MatchDispatch

Discard == [form |-> "_"]
B(v) == [form |-> "bool", v |-> v]
I(v) == [form |-> "int", v |-> v]
Var == [form |-> "var"]
Null == [form |-> "null"]
Name(n) == [form |-> "name", name |-> n]
Call(n, p) == [form |-> "call", name |-> n, of |-> p]
Capture(n) == [form |-> "capture", name |-> n]
BoundTo(p, n) == [form |-> "bound", name |-> n, of |-> p]
Text(bytes) == [form |-> "string", bytes |-> bytes]
None == [e |-> "none"]
Now == [e |-> "var"]
To(lo, hi) == [form |-> "range", lo |-> lo, hi |-> hi, closed |-> TRUE]
Below(lo, hi) == [form |-> "range", lo |-> lo, hi |-> hi, closed |-> FALSE]
Init2(a, b) == [form |-> "init", parts |-> <<Entry("", a), Entry("", b)>>]
Fields(entries) == [form |-> "init", parts |-> entries]

Bool == [k |-> "bool"]
U2 == [k |-> "int", lo |-> 0, hi |-> 3]
I2 == [k |-> "int", lo |-> -2, hi |-> 1]
ComptimeInt == [k |-> "comptime_int"]
Colour == [k |-> "enum", names |-> <<"red", "green", "blue">>, open |-> FALSE]
Code == [k |-> "enum", names |-> <<"ok", "bad">>, open |-> TRUE]
F(name, t) == [name |-> name, type |-> t]
Union(fields) == [k |-> "union", fields |-> fields]
Struct(fields) == [k |-> "struct", fields |-> fields]
Option == Union(<<F("some", Bool), F("none", Void)>>)
Result == Union(<<F("ok", Option), F("err", U2), F("void", Void)>>)
Pair == Struct(<<F("x", Bool), F("y", U2)>>)
Two == [k |-> "array", elem |-> Bool, len |-> 2]
Bytes == [k |-> "slice", elem |-> Byte]
Holder == Struct(<<F("p", [k |-> "ptr"]), F("o", [k |-> "ref", to |-> Option])>>)

Pools ==
  << [type |-> Bool, pool |-> {B(TRUE), B(FALSE), Var, Capture("v"), BoundTo(B(TRUE), "v")}],
     [type |-> U2, pool |-> {I(0), I(3), I(4), To(Exactly(1), Exactly(2)), Below(Exactly(1), Exactly(3)), To(None, Exactly(1)),
                             Below(Exactly(2), None), To(Now, Exactly(2)), Var}],
     [type |-> I2, pool |-> {I(-2), I(0), To(Exactly(-1), Exactly(1)), Below(None, Exactly(0)), To(Exactly(1), Exactly(-1))}],
     [type |-> ComptimeInt, pool |-> {I(0), To(Exactly(1), Exactly(2)), To(None, Exactly(1)), Var}],
     [type |-> Colour, pool |-> {Name("red"), Name("green"), Name("blue"), Name("grey"), Var}],
     [type |-> Code, pool |-> {Name("ok"), Name("bad"), Capture("v"), Var}],
     [type |-> Option, pool |-> {Name("some"), Name("none"), Call("some", B(TRUE)), Call("some", Capture("v")), Call("none", Discard),
                                 BoundTo(Name("some"), "v"), BoundTo(Call("some", Discard), "v")}],
     [type |-> Result, pool |-> {Name("ok"), Call("ok", Name("none")), Call("ok", Call("some", Capture("v"))), Call("err", I(0)),
                                 Call("err", To(Exactly(1), None)), Name("void"), Call("ok", Capture("v"))}],
     [type |-> Pair, pool |-> {Fields(<<Entry("x", B(TRUE))>>), Fields(<<Entry("y", I(0)), Entry("x", B(FALSE))>>),
                               Fields(<<Entry("y", To(Exactly(0), Exactly(2))), Entry("x", Capture("v"))>>),
                               Fields(<<Entry("y", Capture("v"))>>), Fields(<<>>)}],
     [type |-> Two, pool |-> {Init2(B(TRUE), Discard), Init2(Discard, B(TRUE)), Init2(B(FALSE), Capture("v")), Init2(B(FALSE), B(FALSE)),
                              BoundTo(Init2(Discard, B(FALSE)), "v")}],
     [type |-> Bytes, pool |-> {Text(<<>>), Text(<<1>>), Text(<<1, 2>>), Text(<<2, 1>>), Fields(<<Entry("len", To(Exactly(1), None))>>),
                                Fields(<<Entry("len", Capture("v"))>>)}],
     [type |-> Holder, pool |-> {Fields(<<Entry("p", Null)>>), Fields(<<Entry("o", Call("some", Capture("v")))>>),
                                 Fields(<<Entry("p", Null), Entry("o", Name("none"))>>), Fields(<<Entry("o", BoundTo(Name("none"), "v"))>>),
                                 Fields(<<Entry("p", Var)>>)}] >>

Arm(patterns, guarded, capture) == [patterns |-> patterns, guarded |-> guarded, capture |-> capture]
\* The arms of a pool: one pattern, guarded or not.
ArmsOf(pool) == {Arm(<<p>>, g, "_") : p \in pool, g \in BOOLEAN}
Catch(capture) == Arm(<<Discard>>, FALSE, capture)
Guard == Arm(<<Discard>>, TRUE, "_")

Match(t, arms) == [type |-> t, arms |-> arms]
MatchesOf(p) ==
  LET arms == ArmsOf(p.pool)
  IN {Match(p.type, <<a>>) : a \in arms} \cup {Match(p.type, <<a, b>>) : a, b \in arms}
       \cup {Match(p.type, <<a, b, Catch("w")>>) : a, b \in arms}
       \cup {Match(p.type, <<Arm(<<a>>, FALSE, "_"), Arm(<<b>>, FALSE, "_"), Arm(<<c>>, FALSE, "_")>>) : a, b, c \in p.pool}
       \cup {Match(p.type, <<Catch("_"), Arm(<<a, b>>, TRUE, "_"), Guard, Arm(<<b>>, FALSE, "_")>>) : a, b \in p.pool}

\* Captures behind the arrow, and alternatives that share one.
ArmCaptures ==
  {Match(Option, <<Arm(<<Name("some")>>, g, "v"), Arm(<<Name("none"), Name("some")>>, FALSE, "_")>>) : g \in BOOLEAN}
    \cup {Match(Result, <<Arm(<<p>>, g, "v"), Arm(<<Name("err")>>, h, "e"), Catch("w")>>) :
            p \in {Name("ok"), Call("ok", Discard), Call("ok", Capture("x"))}, g \in BOOLEAN, h \in BOOLEAN}
    \cup {Match(Union(<<F("a", U2), F("b", U2), F("c", Bool)>>), <<Arm(<<Name("a"), Name(n)>>, g, "v"), Catch("w")>>) :
            n \in {"b", "c", "a"}, g \in BOOLEAN}

SampledIntegers == -3 .. 3

AllMatches == UNION {MatchesOf(Pools[i]) : i \in DOMAIN Pools} \cup ArmCaptures
SmallMatches == MatchesOf(Pools[1])

\* A guarded `_` takes a union whole.
GuardedDiscard == {Match(Option, <<Arm(<<Discard>>, TRUE, "v"), Catch("_")>>)}
\* A slice's pointer may be ignored.
IgnoredPointer == {Match(Bytes, <<Arm(<<Fields(<<Entry("ptr", Discard), Entry("len", I(1))>>)>>, FALSE, "_"), Catch("_")>>)}
\* A variant without a payload may be captured.
VoidCapture == {Match(Option, <<Arm(<<Name("none")>>, FALSE, "v"), Catch("_")>>)}
=============================================================================
