------------------------------- MODULE Syntax -------------------------------
(***************************************************************************)
(* The parser for the part of the language that the formatter is modelled  *)
(* for.  A construct is a rule: the kind of its node and the pieces it is  *)
(* read from, one after the other.  A node keeps the line it starts at,    *)
(* where it ends, and whether a comma stood before its closing delimiter;  *)
(* parentheses are counted.  A construct that misses a token of its own is *)
(* an error, which shows in the tree; what is said about it and how        *)
(* parsing goes on is left out.                                            *)
(***************************************************************************)
EXTENDS SourceText, TLC

CONSTANT Names        \* identifiers, literals and type names

Missing == [k |-> "missing", at |-> "", kids |-> <<>>, fields |-> <<>>, brk |-> FALSE, parens |-> 0,
            line |-> 0, end |-> 0, endCol |-> 0]
Error == [Missing EXCEPT !.k = "error"]

----------------------------------------------------------------------------
(* Pieces of rules.                                                         *)

Piece(kind, s, parts) == [k |-> kind, s |-> s, parts |-> parts]
Tok(s) == Piece("token", s, <<>>)              \* this token
At(s) == Piece("at", s, <<>>)                  \* this token, which is the node's attribute
Word == Piece("word", "", <<>>)                \* any token, which is the node's attribute
Name == Piece("name", "", <<>>)                \* a child, as all that follow
Expr(prec) == Piece("expr", "", prec)
Type == Expr(110)
Stmt(behavior) == Piece("stmt", behavior, <<>>)
Body == Piece("stmts", "", <<>>)               \* statements up to a brace
Opt(mark, pieces) == Piece("opt", mark, pieces)
Unless(mark, pieces) == Piece("unless", mark, pieces)
Node(rule) == Piece("node", "", rule)
List(item, close) == Piece("list", close, item) \* items with commas up to the token `close`
Fields(item) == Piece("fields", "}", item)     \* the same, up to a brace or a member
End == Piece("end", "", <<>>)                  \* a semicolon that may have been read already
JumpEnd == Piece("jump", "", <<>>)             \* one that the statement's place may do without
ReturnEnd == Piece("return", "", <<>>)
Value == Piece("result", "", <<>>)             \* an expression, unless the statement ends

Rule(kind, pieces) == [k |-> kind, pieces |-> pieces]

----------------------------------------------------------------------------
(* Rules of expressions.                                                    *)

BlockRule == Rule("block", <<Tok("{"), Body>>)
Braces == Node(BlockRule)
Else == Opt("else", <<Tok("else"), Stmt("allowed")>>)
Typed == Opt(":", <<Tok(":"), Type>>)

FieldRule == Rule("field", <<Word, Typed, Opt("=", <<Tok("="), Expr(0)>>)>>)
EntryRule == Rule("entry", <<Tok("."), Word, Tok("="), Expr(0)>>)
\* A statement that keeps no semicolon.
ArmRule == Rule("arm", <<List("pattern", "=>"), Stmt("disallow")>>)

IfRule == Rule("if", <<Tok("if"), Tok("("), Expr(0), Tok(")"), Stmt("allowed"), Else>>)
WhileRule == Rule("while", <<Tok("while"), Tok("("), Expr(0), Tok(")"),
                             Opt(":", <<Tok(":"), Tok("("), Expr(0), Tok(")")>>), Braces, Else>>)
LoopRule == Rule("loop", <<Tok("loop"), Braces>>)
DoWhileRule == Rule("do", <<Tok("do"), Braces, Tok("while"), Tok("("), Expr(0), Tok(")")>>)
ForRule == Rule("for", <<Tok("for"), Node(Rule("list", <<At("("), List("item", ")")>>)),
                         Node(Rule("list", <<At("|"), List("pattern", "|")>>)), Braces, Else>>)
MatchRule == Rule("match", <<Tok("match"), Tok("("), Expr(0), Tok(")"), Tok("{"), List("arm", "}")>>)
FunctionRule == Rule("fn", <<Tok("fn"), Tok("("), List("param", ")"), Tok(":"), Type, Opt("{", <<Braces>>)>>)
StructRule == Rule("struct", <<Tok("struct"), Tok("{"), Fields("field"), Body>>)
EnumRule == Rule("enum", <<Tok("enum"), Tok("{"), Fields("field"), Body>>)
UnionRule == Rule("union", <<Tok("union"), Tok("("), Word, Tok(")"), Tok("{"), Fields("field"), Body>>)
ArrayRule == Rule("array", <<Tok("["), Tok("_"), Tok("]"), Type, Tok("{"), List("item", "}")>>)
UnaryRule == Rule("unary", <<Word, Expr(80)>>)
AccessRule == Rule("access", <<Tok("."), Word>>)
PrefixRules ==
  ("if" :> IfRule) @@ ("while" :> WhileRule) @@ ("loop" :> LoopRule) @@ ("do" :> DoWhileRule)
  @@ ("for" :> ForRule) @@ ("match" :> MatchRule) @@ ("fn" :> FunctionRule) @@ ("struct" :> StructRule)
  @@ ("enum" :> EnumRule) @@ ("union" :> UnionRule) @@ ("[" :> ArrayRule) @@ ("-" :> UnaryRule)
  @@ ("!" :> UnaryRule) @@ ("." :> AccessRule)

\* An operator on what stands before it, its first child.
LabelPrec == 140
BinaryRule(s, prec) == Rule("binary", <<At(s), Expr(prec)>>)
CallRule == Rule("call", <<Tok("("), List("item", ")")>>)
IndexRule == Rule("index", <<Tok("["), Expr(0), Tok("]")>>)
DotRule == Rule("dot", <<Tok("."), Word>>)
UnwrapRule == Rule("unwrap", <<Tok("?")>>)
InitRule == Rule("init", <<Tok("{"), List("entry", "}")>>)
LabelRule == Rule("label", <<Tok(":"), Piece("body", "", <<>>)>>)
Infix(prec, rule) == [prec |-> prec, rule |-> rule]
InfixRules ==
  ("=" :> Infix(10, BinaryRule("=", 9))) @@ ("==" :> Infix(30, BinaryRule("==", 30)))
  @@ ("+" :> Infix(50, BinaryRule("+", 50))) @@ ("-" :> Infix(50, BinaryRule("-", 50)))
  @@ ("*" :> Infix(60, BinaryRule("*", 60))) @@ ("{" :> Infix(100, InitRule))
  @@ ("." :> Infix(120, DotRule)) @@ ("(" :> Infix(130, CallRule)) @@ ("[" :> Infix(130, IndexRule))
  @@ ("?" :> Infix(130, UnwrapRule)) @@ (":" :> Infix(LabelPrec, LabelRule))
\* Calls, indices, members and initializers start at their own token, these where their operand does.
FromOperand == {"binary", "unwrap"}
BlockLike == {"if", "match", "while", "loop", "for", "do"}
AggregateKinds == {"struct", "enum", "union"}

----------------------------------------------------------------------------
(* Rules of statements.                                                     *)

DeclRule == Rule("decl", <<Word, Name, Typed, Tok("="), Expr(0), End>>)
\* `return`, with a value unless its end follows.
ReturnRule == Rule("return", <<Tok("return"), Value, ReturnEnd>>)
BreakRule == Rule("break", <<Tok("break"), JumpEnd>>)
ContinueRule == Rule("continue", <<Tok("continue"), JumpEnd>>)
DeferRule == Rule("defer", <<Tok("defer"), Stmt("require")>>)
\* A failure that is left may be given a name.
ErrdeferRule == Rule("errdefer", <<Tok("errdefer"), Opt("|", <<Tok("|"), Name, Tok("|")>>), Stmt("require")>>)
ImportRule == Rule("import", <<Tok("import"), Name, Opt("as", <<Tok("as"), Name>>), End>>)
TestRule == Rule("test", <<Tok("test"), Unless("{", <<Name>>), Braces>>)
DiscardRule == Rule("discard", <<Tok("_"), Tok("="), Expr(0), End>>)
StatementRules ==
  ("const" :> DeclRule) @@ ("let" :> DeclRule) @@ ("{" :> BlockRule) @@ ("return" :> ReturnRule)
  @@ ("break" :> BreakRule) @@ ("continue" :> ContinueRule) @@ ("defer" :> DeferRule)
  @@ ("errdefer" :> ErrdeferRule) @@ ("import" :> ImportRule) @@ ("test" :> TestRule) @@ ("_" :> DiscardRule)
MemberTokens == {"const", "let"}

----------------------------------------------------------------------------
(* Reading.  Every operator takes the tokens and the index of the one it    *)
(* starts at; what was read is a node and the index of the token behind it. *)

Result(node, next) == [n |-> node, i |-> next]
Past(t, i, token) == IF t[i].s = token THEN i + 1 ELSE Stuck
\* The node made from the tokens `from .. r.i - 1`.
Made(t, k, from, r) ==
  Result([k |-> k, at |-> r.at, kids |-> r.kids, fields |-> r.fields, brk |-> r.brk, parens |-> 0,
          line |-> t[from].line, end |-> t[r.i - 1].line, endCol |-> t[r.i - 1].col], r.i)
NothingYet(i, kids, behavior) ==
  [at |-> "", kids |-> kids, fields |-> <<>>, brk |-> FALSE, i |-> i, behavior |-> behavior]
NameAt(t, i) == Made(t, "name", i, [NothingYet(i + 1, <<>>, "") EXCEPT !.at = t[i].s])
Kid(r, read) == [r EXCEPT !.kids = Append(@, read.n), !.i = read.i]

RECURSIVE Follow(_, _, _), Expression(_, _, _), Statement(_, _, _), ItemsFrom(_, _, _), StatementsFrom(_, _)

\* The node of a rule, or of what a rule adds to an operand.
Extend(t, i, rule, r) ==
  LET made(all) == Made(t, rule.k, i, all) IN made(Follow(t, r, rule.pieces))
Read(t, i, rule) == Extend(t, i, rule, NothingYet(i, <<>>, "require"))

\* Parentheses leave the node where it was.
Grouped(t, i) ==
  LET node(r) == [n |-> [r.n EXCEPT !.parens = @ + 1], i |-> Past(t, r.i, ")")]
  IN node(Expression(t, i + 1, 0))
Prefix(t, i) ==
  CASE t[i].s \in Names -> NameAt(t, i)
    [] t[i].s = "(" -> Grouped(t, i)
    [] t[i].s = "." /\ t[i + 1].s = "{" -> Extend(t, i + 1, InitRule, NothingYet(i + 1, <<Missing>>, ""))
    [] t[i].s = "." /\ t[i + 1].s # "{" -> Read(t, i, AccessRule)
    [] OTHER -> IF t[i].s \in DOMAIN PrefixRules THEN Read(t, i, PrefixRules[t[i].s])
                ELSE Result(Error, Stuck)

\* What follows an operand as long as it binds stronger than what the operand is part of.
Applied(t, lhs, rule) ==
  LET placed(r) == IF rule.k \in FromOperand THEN [r EXCEPT !.n.line = lhs.n.line] ELSE r
  IN placed(Extend(t, lhs.i, rule, NothingYet(lhs.i, <<lhs.n>>, "")))
RECURSIVE Chain(_, _, _)
Chain(t, lhs, prec) ==
  LET s == t[lhs.i].s
      further(r) == Chain(t, r, prec)
  IN IF s \in DOMAIN InfixRules /\ prec < InfixRules[s].prec
     THEN further(Applied(t, lhs, InfixRules[s].rule)) ELSE lhs
Expression(t, i, prec) == LET chain(r) == Chain(t, r, prec) IN chain(Prefix(t, i))

\* A semicolon that the last token of a part may already have been.
Semicolon(t, i) == IF t[i - 1].s = ";" THEN i ELSE Past(t, i, ";")
\* A statement that a brace ends needs no semicolon.
AfterExpression(t, i, behavior) ==
  CASE t[i].s = ";" /\ t[i - 1].s # ";" -> IF behavior = "disallow" THEN Stuck ELSE i + 1
    [] t[i].s # ";" /\ t[i - 1].s \notin {";", "}"} /\ behavior = "require" -> Stuck
    [] OTHER -> i
AfterJump(t, i, behavior) == IF behavior # "disallow" /\ t[i].s = ";" THEN i + 1 ELSE i
AfterReturn(t, i, behavior) ==
  IF behavior = "require" THEN Semicolon(t, i)
  ELSE IF behavior = "allowed" /\ t[i].s = ";" THEN i + 1 ELSE i
Bare(t, i, behavior) == t[i].s = ";" \/ (behavior = "disallow" /\ t[i].s \in {",", "}"})

ExprStmt(t, i, behavior) ==
  LET ended(r, next) == Made(t, "expr", i, [NothingYet(next, <<r.n>>, "")
                                            EXCEPT !.at = IF t[next - 1].s = ";" THEN ";" ELSE ""])
      stmt(r) == ended(r, AfterExpression(t, r.i, behavior))
  IN stmt(Expression(t, i, IF t[i].s \in BlockLike THEN LabelPrec ELSE 0))
Statement(t, i, behavior) ==
  IF t[i].s \in DOMAIN StatementRules
  THEN Extend(t, i, StatementRules[t[i].s], NothingYet(i, <<>>, behavior))
  ELSE ExprStmt(t, i, behavior)

Ended(t, i) == t[i].s \in {"end", "error"}
StatementsFrom(t, r) ==
  LET more(stmt) == StatementsFrom(t, Kid(r, stmt)) IN
  IF t[r.i].s = "}" THEN [r EXCEPT !.i = @ + 1]
  ELSE IF Ended(t, r.i) THEN Kid(r, Result(Error, Stuck))
  ELSE more(Statement(t, r.i, "require"))

Item(t, i, kind) ==
  CASE kind \in {"field", "param"} -> Read(t, i, FieldRule)
    [] kind = "entry" /\ t[i].s = "." /\ t[i + 1].s # "{" /\ t[i + 2].s = "=" -> Read(t, i, EntryRule)
    [] kind = "arm" -> Read(t, i, ArmRule)
    [] kind = "pattern" /\ t[i].s = "_" -> NameAt(t, i)
    [] OTHER -> Expression(t, i, 0)
\* A receiver is a parameter without a type; alone it takes the comma behind it with it.
IsReceiver(item, first, kind) == kind = "param" /\ first /\ item.kids[1] = Missing
ItemsFrom(t, r, list) ==
  LET first == r.n = <<>>
      behind(item) ==
        LET comma == t[item.i].s = ","
            next == IF comma THEN item.i + 1 ELSE item.i
            all == [r EXCEPT !.n = Append(@, item.n), !.i = next]
        IN IF t[next].s = list.s
           THEN [all EXCEPT !.i = @ + 1, !.brk = comma /\ ~IsReceiver(item.n, first, list.parts)]
           ELSE IF comma THEN ItemsFrom(t, all, list)
           ELSE [all EXCEPT !.n = Append(@, Error), !.i = Stuck]
  IN IF t[r.i].s = list.s \/ t[r.i].s \in MemberTokens THEN [r EXCEPT !.i = @ + 1]
     ELSE behind(Item(t, r.i, list.parts))
Listed(t, i, list) == ItemsFrom(t, [n |-> <<>>, brk |-> FALSE, i |-> i], list)

\* What a piece adds to the node.
Kept(r, list) == [r EXCEPT !.kids = @ \o list.n, !.brk = list.brk, !.i = list.i]
KeptFields(r, list) == [r EXCEPT !.fields = list.n, !.brk = list.brk, !.i = list.i - 1]
LabelBody(r, stmt) == Kid(r, IF stmt.n.k = "expr" THEN [stmt EXCEPT !.n = @.kids[1]] ELSE stmt)
Add(t, r, p) ==
  LET kid(read) == Kid(r, read)
      kept(list) == Kept(r, list)
      fields(list) == KeptFields(r, list)
      body(stmt) == LabelBody(r, stmt)
  IN CASE p.k = "token" -> [r EXCEPT !.i = Past(t, @, p.s)]
       [] p.k = "at"    -> [r EXCEPT !.at = p.s, !.i = Past(t, @, p.s)]
       [] p.k = "word"  -> [r EXCEPT !.at = t[r.i].s, !.i = @ + 1]
       [] p.k = "name"  -> kid(NameAt(t, r.i))
       [] p.k = "expr"  -> kid(Expression(t, r.i, p.parts))
       [] p.k = "stmt"  -> kid(Statement(t, r.i, p.s))
       [] p.k = "body"  -> body(Statement(t, r.i, "require"))
       [] p.k = "stmts" -> StatementsFrom(t, r)
       [] p.k = "opt"   -> IF t[r.i].s = p.s THEN Follow(t, r, p.parts) ELSE Kid(r, Result(Missing, r.i))
       [] p.k = "unless" -> IF t[r.i].s # p.s THEN Follow(t, r, p.parts) ELSE Kid(r, Result(Missing, r.i))
       [] p.k = "node"  -> kid(Read(t, r.i, p.parts))
       [] p.k = "list"  -> kept(Listed(t, r.i, p))
       [] p.k = "fields" -> fields(Listed(t, r.i, p))
       [] p.k = "end"   -> [r EXCEPT !.i = Semicolon(t, @)]
       [] p.k = "jump"  -> [r EXCEPT !.i = AfterJump(t, @, r.behavior)]
       [] p.k = "result" -> IF Bare(t, r.i, r.behavior) THEN Kid(r, Result(Missing, r.i))
                            ELSE kid(Expression(t, r.i, 0))
       [] p.k = "return" -> [r EXCEPT !.i = AfterReturn(t, @, r.behavior)]
\* By halves, the first one to its end: a piece is read with few others half read.
Follow(t, r, pieces) ==
  LET read == Follow(t, r, FirstHalf(pieces)) IN
  CASE Len(pieces) = 0 -> r
    [] Len(pieces) = 1 -> Add(t, r, pieces[1])
    [] Len(pieces) > 1 /\ read.i > 0 -> Follow(t, read, SecondHalf(pieces))

RECURSIVE RootsFrom(_, _, _)
RootsFrom(t, i, roots) ==
  LET more(r) == RootsFrom(t, r.i, Append(roots, r.n)) IN
  CASE t[i].s = "end" -> roots
    [] t[i].s = "error" -> Append(roots, Error)
    [] t[i].s = ";"   -> RootsFrom(t, i + 1, roots)
    [] OTHER -> more(Statement(t, i, "require"))
Parse(file) == RootsFrom(TokensOf(file), 1, <<>>)

\* What the program says: the tree without positions, parentheses and layout.
RECURSIVE Meaning(_)
Meaning(n) == [k |-> n.k, at |-> IF n.k = "expr" THEN "" ELSE n.at, kids |-> [i \in DOMAIN n.kids |-> Meaning(n.kids[i])],
               fields |-> [i \in DOMAIN n.fields |-> Meaning(n.fields[i])]]
Meanings(roots) == [i \in DOMAIN roots |-> Meaning(roots[i])]
MeaningOf(file) == Meanings(Parse(file))
=============================================================================
