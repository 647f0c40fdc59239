-------------------------- MODULE MCModuleAnalysis --------------------------
(* Programs of two and three files for ModuleAnalysis.                      *)
EXTENDS ModuleAnalysis, TLC

CONSTANTS a, b, c

TwoModules == {a, b}
ThreeModules == {a, b, c}
OneRoot == <<a>>
TwoRoots == <<a, b>>

Decl(to, at) == [kind |-> "decl", test |-> FALSE, to |-> to, at |-> at]
Import(to) == [kind |-> "import", test |-> FALSE, to |-> to, at |-> 0]
InTest(s) == [s EXCEPT !.test = TRUE]
File(body) == [syntaxError |-> FALSE, body |-> body]

\* References name declarations; an alias is bound once, and outside tests.
IsFile(m, f) ==
    /\ \A n \in Modules : Cardinality({i \in DOMAIN f.body : f.body[i] = Import(n)}) <= 1
    /\ \A i \in DOMAIN f.body :
          f.body[i].kind = "decl" /\ f.body[i].to \in Modules \ {m} =>
              \E j \in DOMAIN f.body : f.body[j] = Import(f.body[i].to)
IsProgram(p) ==
    \A m \in Modules : \A i \in DOMAIN p[m].body :
        p[m].body[i].kind = "decl" /\ p[m].body[i].to \in Modules =>
            NamesDeclaration(p, m, p[m].body[i])

Bodies(m, pool, n) == {f \in {File(s) : s \in [1..n -> pool]} : IsFile(m, f)}
Pool(m, n) ==
    {Import(n), Import(NoFile), InTest(Import(n)), Decl(Literal, 0), Decl(Undeclared, 0),
     InTest(Decl(Undeclared, 0))}
        \cup {Decl(m, i) : i \in Indices} \cup {Decl(n, i) : i \in Indices}

Pairs == {p \in {(a :> f) @@ (b :> g) @@ (c :> File(<<>>)) : f \in Bodies(a, Pool(a, b), 3),
                                        g \in Bodies(b, Pool(b, a), 2)} : IsProgram(p)}

\* Syntax errors in the root, in what it imports or in what its tests import.
Broken ==
    {(a :> [f EXCEPT !.syntaxError = d]) @@ (b :> [File(<<>>) EXCEPT !.syntaxError = e])
        @@ (c :> File(<<>>)) :
        f \in {File(<<>>), File(<<Import(b)>>), File(<<InTest(Import(b))>>)},
        d \in BOOLEAN, e \in BOOLEAN}
\* Three files, imports first, in every order, then one declaration.
ImportLists(m) ==
    {<<>>} \cup {<<Import(n)>> : n \in Modules \ {m}}
           \cup {<<InTest(Import(n))>> : n \in Modules \ {m}}
           \cup {<<Import(n), Import(k)>> : n \in Modules \ {m}, k \in Modules \ {m}}
Importers(m) ==
    {f \in {File(l \o <<d>>) : l \in ImportLists(m),
                               d \in {Decl(Literal, 0), Decl(Undeclared, 0)}
                                     \cup {Decl(n, i) : n \in Modules \ {m}, i \in 2..3}} :
        IsFile(m, f)}
Graphs3 == {p \in {(a :> f) @@ (b :> g) @@ (c :> h) :
                        f \in Importers(a), g \in Importers(b), h \in Importers(c)} :
               IsProgram(p)}

\* Files that import one other each: chains, and cycles of three.
Chains3 == {p \in Graphs3 : \A m \in Modules : Len(p[m].body) <= 2}
BuildPrograms == Pairs \cup Broken \cup Chains3

\* Files an editor has open, half written; the third one is empty.
OpenPool(m, n) ==
    {Import(n), Import(NoFile), InTest(Import(n)), Decl(Literal, 0), Decl(Undeclared, 0),
     Decl(n, 1), Decl(n, 2), InTest(Decl(n, 2))}
OpenFiles ==
    {p \in {(a :> f) @@ (b :> [g EXCEPT !.syntaxError = e]) @@ (c :> File(<<>>)) :
                f \in Bodies(a, OpenPool(a, b), 2), g \in Bodies(b, OpenPool(b, a), 2),
                e \in BOOLEAN} : IsProgram(p)}

\* What `a` leaves behind meets a root that has been resolved already.
Spilling ==
    (a :> File(<<Import(NoFile), Import(b), Decl(Undeclared, 0)>>))
        @@ (b :> File(<<Decl(Literal, 0)>>)) @@ (c :> File(<<>>))
\* A declaration waits for a file that comes back to another use of it.
Returning ==
    (a :> File(<<Import(b), Import(c), Decl(c, 3)>>)) @@ (b :> File(<<Import(a), Decl(a, 3)>>))
        @@ (c :> File(<<Import(b), Decl(b, 2), Decl(Literal, 0)>>))
\* The first root imports something; the third file, which no root is, has no tests.
OpenGraphs ==
    {p \in Graphs3 : Len(p[a].body) > 1 /\ \A i \in DOMAIN p[c].body : ~p[c].body[i].test}
EditorPrograms == OpenFiles \cup {Spilling, Returning} \cup OpenGraphs

\* One file with an error of each pass, and one without errors.
Unrelated ==
    {(a :> File(<<Import(NoFile), Decl(Undeclared, 0)>>)) @@ (b :> File(f)) :
        f \in {<<>>, <<Decl(Literal, 0)>>}}

==============================================================================
