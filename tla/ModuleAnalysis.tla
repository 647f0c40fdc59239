---------------------------- MODULE ModuleAnalysis ----------------------------
(* The analyzer over a graph of modules (analyzer.cc, symbol_collector.cc,  *)
(* type_resolver/): loading, symbol collection, type resolution, the tests  *)
(* put off to the end, and the decision to lower a root.                    *)
(*                                                                          *)
(* One thread works depth first: an import collects or resolves the module  *)
(* it names before it goes on, and a use of a declaration resolves that     *)
(* declaration first.  The C++ call stack is `stack`; each frame is a pass  *)
(* over the statements of one module.  Another thread may ask for the       *)
(* analysis to be cancelled at any step.                                    *)
(*                                                                          *)
(* A program is given by its imports and by what each declaration's         *)
(* initializer refers to.  A test block holds one statement: an import      *)
(* without alias, or a declaration of its own.                              *)
EXTENDS Naturals, Sequences, FiniteSets, FiniteSetsExt

CONSTANTS Modules,        \* paths of source files
          MaxStatements,  \* bound: statements of a file
          Programs,       \* what the files may hold
          EntryPaths,     \* the entry paths analyzed, in order, by one analyzer
          Testing,        \* context::testing
          Tolerant        \* an editor's analyzer: goes on after syntax errors,
                          \* and may be cancelled

Indices == 1..MaxStatements
Nodes == Modules \X Indices

\* What an import or an initializer may name besides a module.
NoFile == "noFile"            \* import: a path that cannot be loaded
Literal == "literal"          \* initializer: nothing
Undeclared == "undeclared"    \* initializer: a name nobody declares

Statements ==
    [kind: {"import", "decl"}, test: BOOLEAN,
     to: Modules \cup {NoFile, Literal, Undeclared}, at: Nat]
Files == [syntaxError: BOOLEAN, body: Seq(Statements)]

ASSUME NamesAssumption == Modules \cap {NoFile, Literal, Undeclared} = {}
ASSUME SizeAssumption == MaxStatements \in Nat
\* A name refers to a declaration of the file it is looked up in, outside tests;
\* a name in another file is reached through an import of that file.
NamesDeclaration(p, m, s) ==
    /\ s.at \in DOMAIN p[s.to].body
    /\ p[s.to].body[s.at].kind = "decl" /\ ~p[s.to].body[s.at].test
    /\ s.to # m => \E j \in DOMAIN p[m].body :
                      p[m].body[j].kind = "import" /\ ~p[m].body[j].test /\ p[m].body[j].to = s.to
ASSUME ProgramsAssumption ==
    \A p \in Programs :
        /\ p \in [Modules -> Files]
        /\ \A m \in Modules :
            /\ Len(p[m].body) <= MaxStatements
            /\ \A i \in DOMAIN p[m].body :
                p[m].body[i].kind = "decl" /\ p[m].body[i].to \in Modules =>
                    NamesDeclaration(p, m, p[m].body[i])
ASSUME EntryPathsAssumption == EntryPaths \in Seq(Modules)
ASSUME FlagsAssumption == Testing \in BOOLEAN /\ Tolerant \in BOOLEAN

VARIABLES program,     \* the files
          roots,       \* the roots left, the one being analyzed first
          phase,       \* where analyze() is when the stack is empty
          stack,       \* the passes under way, the innermost last
          state,       \* module_t::state
          collected,   \* modules with a root_table_idx
          linked,      \* import nodes whose type is a module
          symbol,      \* status and kind of each statement's symbol
          reports,     \* module_t::diagnostics, the semantic ones
          leftover,    \* diags of the analyzer's own context, between passes
          deferred,    \* module_t::deferred_tests
          pending,     \* pending_tests.modules
          cancelled,   \* the flag another thread sets
          outcome      \* what analyze() returned for each root

vars == <<program, roots, phase, stack, state, collected, linked, symbol,
          reports, leftover, deferred, pending, cancelled, outcome>>

-----------------------------------------------------------------------------
States == {"unloaded", "parsed", "symbolsCollected", "resolving", "resolved",
           "poisonedCollection", "poisonedResolving", "poisonedResolved", "errored"}

\* A poisoned symbol is RESOLVED with kind POISONED.
Statuses == {"unresolved", "resolving", "resolved", "poisoned"}

\* `mod` is the file the location points into.
Diagnostics ==
    [mod: Modules, stmt: Indices,
     error: {"moduleLoad", "importedModuleContainsErrors", "undeclaredIdentifier",
             "cyclicDependency"}]

\* `at` is where the C++ function stands: at its loop, back from an import's
\* module, at the queued tests; or a declaration's entry, its initializer, back
\* from resolving the module that initializer names, or past that.
Frames == [pass: {"collect", "resolve", "tests", "declare"}, mod: Modules,
           todo: Seq(Indices), at: {"next", "imported", "draining",
                                    "entered", "started", "awaited", "looking"},
           diags: SUBSET Diagnostics]

Stmt(m, i) == program[m].body[i]
\* Mutated form of Body: one statement too many.
BodyAndOneMore(m) == [i \in 1..(Len(program[m].body) + 1) |-> i]

Body(m) == [i \in 1..Len(program[m].body) |-> i]

IsPoisoned(m) == state[m] \in {"poisonedCollection", "poisonedResolving", "poisonedResolved"}
IsErrored(m) == state[m] = "errored"
IsResolvable(m) == m \in collected /\ state[m] \in {"symbolsCollected", "poisonedCollection"}

\* try_get: a file is parsed once, the first time it is asked for.
LoadedState(m) ==
    CASE state[m] # "unloaded" -> state[m]
      [] state[m] = "unloaded" /\ program[m].syntaxError -> "errored"
      [] OTHER -> "parsed"

\* The alias module m gives to an imported module.
Alias(m, n) ==
    CHOOSE i \in DOMAIN program[m].body :
        Stmt(m, i).kind = "import" /\ ~Stmt(m, i).test /\ Stmt(m, i).to = n

Top == stack[Len(stack)]
Here == <<Top.mod, Head(Top.todo)>>
This == Stmt(Top.mod, Head(Top.todo))
Running(passes, at) == stack # <<>> /\ Top.pass \in passes /\ Top.at = at

WithTop(f) == [stack EXCEPT ![Len(stack)] = f]
Waiting(at) == WithTop([Top EXCEPT !.at = at])
Advanced(diags) ==
    WithTop([Top EXCEPT !.todo = Tail(@), !.at = "next", !.diags = @ \cup diags])
Popped == SubSeq(stack, 1, Len(stack) - 1)

Diagnostic(node, error) == [mod |-> node[1], stmt |-> node[2], error |-> error]

\* A declaration is resolved with the context of whoever needs it, so what it
\* reports goes to the pass below it.
Reported(s, diags) ==
    LET owners == {i \in DOMAIN s : s[i].pass # "declare"} IN
    IF owners = {} THEN s ELSE [s EXCEPT ![Max(owners)].diags = @ \cup diags]

-----------------------------------------------------------------------------
Init ==
    /\ program \in Programs
    /\ roots = EntryPaths
    /\ phase = "load"
    /\ stack = <<>>
    /\ state = [m \in Modules |-> "unloaded"]
    /\ collected = {}
    /\ linked = {}
    /\ symbol = [n \in Nodes |-> "unresolved"]
    /\ reports = [m \in Modules |-> {}]
    /\ leftover = {}
    /\ deferred = [m \in Modules |-> <<>>]
    /\ pending = <<>>
    /\ cancelled = FALSE
    /\ outcome = [m \in Modules |-> "none"]

\* collect_symbols(m, ctx) is called from `below`, with m's state already `st`.
CallCollect(below, m, st, diags) ==
    LET isCollectable == st = "parsed" /\ m \notin collected IN
    /\ state' = [state EXCEPT ![m] = st]
    /\ collected' = IF isCollectable THEN collected \cup {m} ELSE collected
    /\ stack' = IF isCollectable
                THEN Append(below, [pass |-> "collect", mod |-> m, todo |-> Body(m),
                                    at |-> "next", diags |-> diags])
                ELSE below

\* resolve_types(m, ctx) is called from `below`.
CallResolve(below, m, diags) ==
    IF IsResolvable(m)
    THEN /\ state' = [state EXCEPT ![m] = IF @ = "poisonedCollection"
                                          THEN "poisonedResolving" ELSE "resolving"]
         /\ stack' = Append(below, [pass |-> "resolve", mod |-> m, todo |-> Body(m),
                                    at |-> "next", diags |-> diags])
    ELSE state' = state /\ stack' = below

-----------------------------------------------------------------------------
(* Symbol collection.                                                       *)

\* A declaration takes a symbol, nothing else.
CollectDecl ==
    /\ Running({"collect"}, "next") /\ Top.todo # <<>>
    /\ This.kind = "decl"
    /\ stack' = Advanced({})
    /\ UNCHANGED <<program, roots, phase, state, collected, linked, symbol, reports,
                   leftover, deferred, pending, cancelled, outcome>>

CollectMissingImport ==
    /\ Running({"collect"}, "next") /\ Top.todo # <<>>
    /\ This.kind = "import" /\ This.to = NoFile
    /\ stack' = Advanced({Diagnostic(Here, "moduleLoad")})
    /\ symbol' = [symbol EXCEPT ![Here] = "poisoned"]
    /\ UNCHANGED <<program, roots, phase, state, collected, linked, reports,
                   leftover, deferred, pending, cancelled, outcome>>

CollectImport ==
    /\ Running({"collect"}, "next") /\ Top.todo # <<>>
    /\ This.kind = "import" /\ This.to \in Modules
    /\ CallCollect(Waiting("imported"), This.to, LoadedState(This.to), {})
    /\ UNCHANGED <<program, roots, phase, linked, symbol, reports,
                   leftover, deferred, pending, cancelled, outcome>>

\* Back from the imported module: only one with syntax errors is refused, and
\* an import without alias does not say so.
LinkImport ==
    /\ Running({"collect"}, "imported")
    /\ IF IsErrored(This.to)
       THEN /\ stack' = Advanced(IF This.test THEN {}
                                 ELSE {Diagnostic(Here, "importedModuleContainsErrors")})
            /\ symbol' = [symbol EXCEPT ![Here] = "poisoned"]
            /\ linked' = linked
       ELSE /\ stack' = Advanced({})
            /\ symbol' = [symbol EXCEPT ![Here] = "resolved"]
            /\ linked' = linked \cup {Here}
    /\ UNCHANGED <<program, roots, phase, state, collected, reports,
                   leftover, deferred, pending, cancelled, outcome>>

\* A context destroyed at the end of its pass takes its list along; the
\* analyzer's own, at the bottom, keeps what was not moved out of it.
Kept(diags) == IF Len(stack) = 1 THEN diags ELSE leftover

EndCollect ==
    /\ Running({"collect"}, "next") /\ Top.todo = <<>>
    /\ IF Top.diags # {}
       THEN /\ state' = [state EXCEPT ![Top.mod] = "poisonedCollection"]
            /\ reports' = [reports EXCEPT ![Top.mod] = Top.diags]
       ELSE /\ state' = [state EXCEPT ![Top.mod] = "symbolsCollected"]
            /\ reports' = reports
    /\ stack' = Popped
    /\ leftover' = Kept({})
    /\ UNCHANGED <<program, roots, phase, collected, linked, symbol, deferred,
                   pending, cancelled, outcome>>

-----------------------------------------------------------------------------
(* Type resolution of a module's statements, and of its tests.              *)

Resolving(at) == Running({"resolve", "tests"}, at)
Statement == Resolving("next") /\ ~cancelled /\ Top.todo # <<>>
IsPutOff == This.test /\ Top.pass = "resolve"

\* In a test build a test waits; in any other it is not looked at.
PutOffTest ==
    /\ Statement /\ IsPutOff
    /\ deferred' = IF Testing
                   THEN [deferred EXCEPT ![Top.mod] = Append(@, Head(Top.todo))]
                   ELSE deferred
    /\ stack' = Advanced({})
    /\ UNCHANGED <<program, roots, phase, state, collected, linked, symbol, reports,
                   leftover, pending, cancelled, outcome>>

\* An import that was not linked has been reported already.
ResolveImport ==
    /\ Statement /\ ~IsPutOff /\ This.kind = "import"
    /\ IF Here \in linked
       THEN CallResolve(Waiting("imported"), This.to, {})
       ELSE stack' = Advanced({}) /\ state' = state
    /\ UNCHANGED <<program, roots, phase, collected, linked, symbol, reports,
                   leftover, deferred, pending, cancelled, outcome>>

\* An import in a test only pulls that module's tests in.
AfterImport ==
    /\ Resolving("imported")
    /\ IF IsPoisoned(This.to) /\ ~This.test
       THEN /\ stack' = Advanced({Diagnostic(Here, "importedModuleContainsErrors")})
            /\ symbol' = [symbol EXCEPT ![Here] = "poisoned"]
       ELSE /\ stack' = Advanced({})
            /\ symbol' = symbol
    /\ UNCHANGED <<program, roots, phase, state, collected, linked, reports,
                   leftover, deferred, pending, cancelled, outcome>>

Declare(below, node) ==
    Append(below, [pass |-> "declare", mod |-> node[1], todo |-> <<node[2]>>,
                   at |-> "entered", diags |-> {}])

ResolveDecl ==
    /\ Statement /\ ~IsPutOff /\ This.kind = "decl"
    /\ stack' = Declare(Advanced({}), Here)
    /\ UNCHANGED <<program, roots, phase, state, collected, linked, symbol, reports,
                   leftover, deferred, pending, cancelled, outcome>>

\* Mutated form of Absorbed: the new list takes the old one's place.
AbsorbedReplaces(m, diags) == IF diags = {} THEN reports ELSE [reports EXCEPT ![m] = diags]

\* absorb_sema_diagnostics: what the module reported before is kept; the list
\* is moved out of the context only when it is the module's first.
Absorbed(m, diags) == [reports EXCEPT ![m] = @ \cup diags]
NotMoved(m, diags) == IF reports[m] = {} THEN {} ELSE diags

\* Mutated form of IsOutermost: every module drains the queue.
IsOutermostAlways == TRUE

\* resolve_depth is the number of modules being resolved.
IsOutermost == Cardinality({i \in DOMAIN stack : stack[i].pass = "resolve"}) = 1

\* Mutated form of EndResolve: the module's tests are never queued.
EndResolveDropsTests ==
    /\ Running({"resolve"}, "next") /\ (cancelled \/ Top.todo = <<>>)
    /\ reports' = Absorbed(Top.mod, Top.diags)
    /\ state' = [state EXCEPT ![Top.mod] = IF Top.diags # {} \/ IsPoisoned(Top.mod)
                                           THEN "poisonedResolved" ELSE "resolved"]
    /\ stack' = IF IsOutermost THEN Waiting("draining") ELSE Popped
    /\ leftover' = Kept(NotMoved(Top.mod, Top.diags))
    /\ UNCHANGED <<program, roots, phase, collected, linked, symbol, deferred,
                   pending, cancelled, outcome>>

EndResolve ==
    /\ Running({"resolve"}, "next") /\ (cancelled \/ Top.todo = <<>>)
    /\ pending' = IF deferred[Top.mod] # <<>> THEN Append(pending, Top.mod) ELSE pending
    /\ reports' = Absorbed(Top.mod, Top.diags)
    /\ state' = [state EXCEPT ![Top.mod] = IF Top.diags # {} \/ IsPoisoned(Top.mod)
                                           THEN "poisonedResolved" ELSE "resolved"]
    /\ stack' = IF IsOutermost THEN Waiting("draining") ELSE Popped
    /\ leftover' = Kept(NotMoved(Top.mod, Top.diags))
    /\ UNCHANGED <<program, roots, phase, collected, linked, symbol, deferred,
                   cancelled, outcome>>

\* Mutated form of StartTests: the index into the queue does not advance.
StartTestsAgain ==
    /\ Running({"resolve"}, "draining") /\ pending # <<>>
    /\ stack' = Append(stack, [pass |-> "tests", mod |-> Head(pending),
                               todo |-> deferred[Head(pending)], at |-> "next",
                               diags |-> {}])
    /\ deferred' = [deferred EXCEPT ![Head(pending)] = <<>>]
    /\ UNCHANGED <<program, roots, phase, state, collected, linked, symbol, reports,
                   leftover, pending, cancelled, outcome>>

\* resolve_pending_tests: each queued module's tests, with a list of their own.
StartTests ==
    /\ Running({"resolve"}, "draining") /\ pending # <<>>
    /\ stack' = Append(stack, [pass |-> "tests", mod |-> Head(pending),
                               todo |-> deferred[Head(pending)], at |-> "next",
                               diags |-> {}])
    /\ deferred' = [deferred EXCEPT ![Head(pending)] = <<>>]
    /\ pending' = Tail(pending)
    /\ UNCHANGED <<program, roots, phase, state, collected, linked, symbol, reports,
                   leftover, cancelled, outcome>>

\* Mutated form of EndTests: the module is not poisoned by its tests' errors.
EndTestsKeepsState ==
    /\ Running({"tests"}, "next") /\ (cancelled \/ Top.todo = <<>>)
    /\ reports' = Absorbed(Top.mod, Top.diags)
    /\ stack' = Popped
    /\ UNCHANGED <<program, roots, phase, state, collected, linked, symbol, leftover,
                   deferred, pending, cancelled, outcome>>

EndTests ==
    /\ Running({"tests"}, "next") /\ (cancelled \/ Top.todo = <<>>)
    /\ reports' = Absorbed(Top.mod, Top.diags)
    /\ state' = IF Top.diags # {}
                THEN [state EXCEPT ![Top.mod] = "poisonedResolved"] ELSE state
    /\ stack' = Popped
    /\ UNCHANGED <<program, roots, phase, collected, linked, symbol, leftover,
                   deferred, pending, cancelled, outcome>>

EndDraining ==
    /\ Running({"resolve"}, "draining") /\ pending = <<>>
    /\ stack' = Popped
    /\ UNCHANGED <<program, roots, phase, state, collected, linked, symbol, reports,
                   leftover, deferred, pending, cancelled, outcome>>

-----------------------------------------------------------------------------
(* One declaration.                                                         *)

\* Mutated form of EnterDecl: a declaration resolved earlier is resolved again.
EnterDeclAgain ==
    /\ Running({"declare"}, "entered")
    /\ stack' = Waiting("started")
    /\ symbol' = [symbol EXCEPT ![Here] = "resolving"]
    /\ UNCHANGED <<program, roots, phase, state, collected, linked, reports, leftover,
                   deferred, pending, cancelled, outcome>>

EnterDecl ==
    /\ Running({"declare"}, "entered")
    /\ IF symbol[Here] \in {"resolved", "poisoned"}
       THEN stack' = Popped /\ symbol' = symbol
       ELSE stack' = Waiting("started") /\ symbol' = [symbol EXCEPT ![Here] = "resolving"]
    /\ UNCHANGED <<program, roots, phase, state, collected, linked, reports, leftover,
                   deferred, pending, cancelled, outcome>>

\* The declaration is done: typed, or poisoned along with `others` after
\* reporting `diags`.
Finish(status, others, diags) ==
    /\ symbol' = [n \in Nodes |-> IF n = Here THEN status
                                  ELSE IF n \in others THEN "poisoned" ELSE symbol[n]]
    /\ stack' = Reported(Popped, diags)
    /\ UNCHANGED <<program, roots, phase, state, collected, linked, reports, leftover,
                   deferred, pending, cancelled, outcome>>

FinishLiteral ==
    /\ Running({"declare"}, "started") /\ This.to = Literal
    /\ Finish("resolved", {}, {})

\* Mutated form of FinishUndeclared: the symbol's status is not set.
FinishUndeclaredHalf ==
    /\ Running({"declare"}, "started") /\ This.to = Undeclared
    /\ Finish("resolving", {}, {Diagnostic(Here, "undeclaredIdentifier")})

FinishUndeclared ==
    /\ Running({"declare"}, "started") /\ This.to = Undeclared
    /\ Finish("poisoned", {}, {Diagnostic(Here, "undeclaredIdentifier")})

\* The initializer is `alias.name`.
NamesImport == This.to \in Modules /\ This.to # Top.mod
AliasPoisoned == NamesImport /\ symbol[<<Top.mod, Alias(Top.mod, This.to)>>] = "poisoned"

FinishPoisonedAlias ==
    /\ Running({"declare"}, "started") /\ AliasPoisoned
    /\ Finish("poisoned", {}, {})

\* The module named may still wait for its own import statement to be reached.
AwaitModule ==
    /\ Running({"declare"}, "started") /\ NamesImport /\ ~AliasPoisoned
    /\ IsResolvable(This.to)
    /\ CallResolve(Waiting("awaited"), This.to, {})
    /\ UNCHANGED <<program, roots, phase, collected, linked, symbol, reports,
                   leftover, deferred, pending, cancelled, outcome>>

FinishPoisonedModule ==
    /\ Running({"declare"}, "awaited") /\ IsPoisoned(This.to)
    /\ Finish("poisoned", {}, {Diagnostic(Here, "importedModuleContainsErrors")})

Target == <<This.to, This.at>>
CanLook ==
    /\ stack # <<>> /\ Top.pass = "declare" /\ This.to \in Modules
    /\ \/ Top.at = "looking"
       \/ Top.at = "awaited" /\ ~IsPoisoned(This.to)
       \/ Top.at = "started" /\ ~AliasPoisoned /\ ~(NamesImport /\ IsResolvable(This.to))

FinishReference ==
    /\ CanLook /\ symbol[Target] \in {"resolved", "poisoned"}
    /\ Finish(symbol[Target], {}, {})

\* Mutated form of FinishCycle: a poisoned declaration is taken for one being
\* resolved.
FinishCycleOrPoisoned ==
    /\ CanLook /\ symbol[Target] \in {"resolving", "poisoned"}
    /\ Finish("poisoned", {Target}, {Diagnostic(Here, "cyclicDependency")})

FinishCycle ==
    /\ CanLook /\ symbol[Target] = "resolving"
    /\ Finish("poisoned", {Target}, {Diagnostic(Here, "cyclicDependency")})

ResolveTarget ==
    /\ CanLook /\ symbol[Target] = "unresolved"
    /\ stack' = Declare(Waiting("looking"), Target)
    /\ UNCHANGED <<program, roots, phase, state, collected, linked, symbol, reports,
                   leftover, deferred, pending, cancelled, outcome>>

-----------------------------------------------------------------------------
(* analyze(), once per root.                                                *)

Root == Head(roots)
At(p) == stack = <<>> /\ roots # <<>> /\ phase = p

Return(result) ==
    /\ outcome' = [outcome EXCEPT ![Root] = result]
    /\ roots' = Tail(roots)
    /\ phase' = "load"

\* Between roots the snapshot builder looks at the flag itself.
RejectUnparsed ==
    /\ At("load") /\ ~cancelled
    /\ LoadedState(Root) = "errored" /\ ~Tolerant
    /\ state' = [state EXCEPT ![Root] = "errored"]
    /\ Return("rejected")
    /\ UNCHANGED <<program, stack, collected, linked, symbol, reports, leftover,
                   deferred, pending, cancelled>>

CollectRoot ==
    /\ At("load") /\ ~cancelled
    /\ LoadedState(Root) = "errored" => Tolerant
    /\ CallCollect(stack, Root,
                   IF LoadedState(Root) = "errored" THEN "parsed" ELSE LoadedState(Root),
                   leftover)
    /\ phase' = "resolve"
    /\ UNCHANGED <<program, roots, linked, symbol, reports, leftover, deferred,
                   pending, cancelled, outcome>>

ResolveRoot ==
    /\ At("resolve")
    /\ CallResolve(stack, Root, leftover)
    /\ phase' = "decide"
    /\ UNCHANGED <<program, roots, collected, linked, symbol, reports, leftover,
                   deferred, pending, cancelled, outcome>>

\* n can be reached from m: it is in every set with m that no edge leaves.
Reaches(G, m, n) ==
    \A S \in SUBSET G.node :
        m \in S /\ (\A e \in G.edge : e[1] \in S => e[2] \in S) => n \in S

\* reaches_import follows the import nodes that were linked.
LinkedGraph == [node |-> Modules,
                edge |-> {<<n[1], Stmt(n[1], n[2]).to>> : n \in linked}]
\* Mutated form of ReachesFailed: only what the module itself imports counts.
ReachesFailedDirectly(m) ==
    \E n \in Modules : <<m, n>> \in LinkedGraph.edge /\ (IsPoisoned(n) \/ IsErrored(n))
ReachesFailed(m) ==
    \E n \in Modules : Reaches(LinkedGraph, m, n) /\ (IsPoisoned(n) \/ IsErrored(n))
AnyErrored == \E m \in Modules : IsPoisoned(m) \/ IsErrored(m)

ReturnCancelled ==
    /\ At("decide") /\ cancelled
    /\ Return("cancelled")
    /\ UNCHANGED <<program, stack, state, collected, linked, symbol, reports, leftover,
                   deferred, pending, cancelled>>

Reject ==
    /\ At("decide") /\ ~cancelled
    /\ IsPoisoned(Root) \/ ReachesFailed(Root)
    /\ Return("rejected")
    /\ UNCHANGED <<program, stack, state, collected, linked, symbol, reports, leftover,
                   deferred, pending, cancelled>>

\* The emitter works with the analyzer's context: whatever is left in its list
\* becomes this root's.
RejectEmitted ==
    /\ At("decide") /\ ~cancelled
    /\ ~(IsPoisoned(Root) \/ ReachesFailed(Root)) /\ leftover # {}
    /\ state' = [state EXCEPT ![Root] = "poisonedResolved"]
    /\ reports' = [reports EXCEPT ![Root] = leftover]
    /\ leftover' = {}
    /\ Return("rejected")
    /\ UNCHANGED <<program, stack, collected, linked, symbol, deferred, pending,
                   cancelled>>

\* The build commands also refuse a program with any failed module.
Lower ==
    /\ At("decide") /\ ~cancelled
    /\ ~(IsPoisoned(Root) \/ ReachesFailed(Root)) /\ leftover = {}
    /\ Return(IF ~Tolerant /\ AnyErrored THEN "rejected" ELSE "lowered")
    /\ UNCHANGED <<program, stack, state, collected, linked, symbol, reports, leftover,
                   deferred, pending, cancelled>>

\* Another thread gives up on this analysis.
Cancel ==
    /\ Tolerant /\ ~cancelled /\ roots # <<>>
    /\ cancelled' = TRUE
    /\ UNCHANGED <<program, roots, phase, stack, state, collected, linked, symbol,
                   reports, leftover, deferred, pending, outcome>>

-----------------------------------------------------------------------------
Collecting == CollectDecl \/ CollectMissingImport \/ CollectImport \/ LinkImport \/ EndCollect
ResolvingStep == PutOffTest \/ ResolveImport \/ AfterImport \/ ResolveDecl \/ EndResolve
Tests == StartTests \/ EndTests \/ EndDraining
Declaring ==
    \/ EnterDecl \/ FinishLiteral \/ FinishUndeclared \/ FinishPoisonedAlias
    \/ AwaitModule \/ FinishPoisonedModule
    \/ FinishReference \/ FinishCycle \/ ResolveTarget
Analyzing ==
    \/ RejectUnparsed \/ CollectRoot \/ ResolveRoot
    \/ ReturnCancelled \/ Reject \/ RejectEmitted \/ Lower

Analyzer == Collecting \/ ResolvingStep \/ Tests \/ Declaring \/ Analyzing
Next == Analyzer \/ Cancel

Spec == Init /\ [][Next]_vars
FairSpec == Spec /\ WF_vars(Analyzer)
-----------------------------------------------------------------------------
TypeOK ==
    /\ program \in [Modules -> Files]
    /\ \A m \in Modules : Len(program[m].body) <= MaxStatements
    /\ roots \in Seq(Modules)
    /\ phase \in {"load", "resolve", "decide"}
    /\ stack \in Seq(Frames)
    /\ state \in [Modules -> States]
    /\ collected \subseteq Modules
    /\ linked \subseteq Nodes
    /\ symbol \in [Nodes -> Statuses]
    /\ reports \in [Modules -> SUBSET Diagnostics]
    /\ leftover \subseteq Diagnostics
    /\ deferred \in [Modules -> Seq(Indices)]
    /\ pending \in Seq(Modules)
    /\ cancelled \in BOOLEAN
    /\ outcome \in [Modules -> {"none", "lowered", "rejected", "cancelled"}]

\* What a root's meaning depends on: the files its imports reach, those in tests
\* only when tests are built. An editor's analysis lets a file that does not parse
\* be imported for its tests.
IsSeen(m, i) == Testing \/ ~Stmt(m, i).test
IsTolerated(m, i) ==
    /\ Tolerant /\ Stmt(m, i).test
    /\ Stmt(m, i).to \in Modules /\ program[Stmt(m, i).to].syntaxError
SourceGraph ==
    [node |-> Modules,
     edge |-> {e \in Modules \X Modules :
                 \E i \in DOMAIN program[e[1]].body :
                    /\ IsSeen(e[1], i) /\ ~IsTolerated(e[1], i)
                    /\ Stmt(e[1], i).kind = "import" /\ Stmt(e[1], i).to = e[2]}]
Scope(r) == {m \in Modules : Reaches(SourceGraph, r, m)}

IsSound(m) ==
    /\ ~IsErrored(m)
    /\ \A i \in DOMAIN program[m].body :
          LET s == Stmt(m, i) IN
          /\ s.kind = "import" => s.to # NoFile
          /\ s.kind = "decl" /\ IsSeen(m, i) =>
                  s.to # Undeclared /\ symbol[<<m, i>>] = "resolved"

\* A root is lowered only if every file it depends on parsed, is free of errors and
\* has every declaration resolved: through import cycles, past tests put off, and
\* whenever the flag is set (analyzer.cc 330-338, test_analyzer.cc:198).
LoweredIsSound ==
    [][\A r \in Modules :
         outcome[r] # "lowered" /\ outcome'[r] = "lowered" => \A m \in Scope(r) : IsSound(m)]_vars

\* An undeclared name in a declaration that was looked at is reported, in one
\* list only, whoever had the declaration resolved and however often it is used.
ErrorsReportedOnce ==
    stack = <<>> =>
    \A m \in Modules : \A i \in DOMAIN program[m].body :
        Stmt(m, i).kind = "decl" /\ Stmt(m, i).to = Undeclared
            /\ symbol[<<m, i>>] # "unresolved" =>
        \E owner \in Modules : \A n \in Modules :
            Diagnostic(<<m, i>>, "undeclaredIdentifier") \in reports[n] <=> n = owner

\* A module is poisoned exactly if it has something to report: nothing fails
\* silently, no report is lost to a later pass or left with a module that is used.
FailureIsExplained == \A m \in Modules : IsPoisoned(m) <=> reports[m] # {}

\* Tests are resolved once nothing else is: no module is in the middle of its
\* statements and no declaration of its initializer (type_resolver.cc:22).
TestsComeLast ==
    \A k \in DOMAIN stack : stack[k].pass = "tests" =>
        \A j \in 1..(k - 1) : stack[j].pass = "resolve" /\ stack[j].at = "draining"

\* Between passes nothing is half done, even after a cancellation: no module or
\* symbol is being resolved, no test waits.
NothingHalfDone ==
    stack = <<>> =>
        /\ \A m \in Modules : /\ state[m] \notin {"resolving", "poisonedResolving"}
                              /\ deferred[m] = <<>>
        /\ \A n \in Nodes : symbol[n] # "resolving"
        /\ pending = <<>>

\* Nothing is undone by a later pass: a module that failed stays failed
\* (type_resolver.cc:17), and what it reported it keeps reporting
\* (absorb_sema_diagnostics in module.hh).
NothingIsUndone ==
    [][\A m \in Modules : /\ IsPoisoned(m) => IsPoisoned(m)'
                          /\ reports[m] \subseteq reports'[m]]_vars

\* Imports and references may form cycles; the analysis ends all the same, and
\* after a cancellation too.
Terminates == <>(stack = <<>> /\ phase = "load" /\ (roots = <<>> \/ cancelled))

\* Declarations, and the modules whose resolution has begun, is under way or has
\* tests that wait.
Declarations ==
    {n \in Nodes : n[2] \in DOMAIN program[n[1]].body /\ Stmt(n[1], n[2]).kind = "decl"}
Begun(m) == state[m] \in {"resolving", "poisonedResolving", "resolved", "poisonedResolved"}
Resolves(s, m) ==
    \E k \in DOMAIN s : s[k].pass = "resolve" /\ s[k].mod = m /\ s[k].at # "draining"
Queued(m) == \E j \in DOMAIN pending : pending[j] = m

\* The steps a frame may still take by itself: two for each statement, of which one
\* is the return from what the statement called, and its end. To find out that a
\* declaration it has called is done already is a step of its own, too.
FrameLeft(f, isEntering) ==
    IF f.at = "entered" THEN 0
    ELSE IF f.at = "started" THEN 3
    ELSE IF f.at = "awaited" THEN 2
    ELSE IF f.at \in {"looking", "draining"} THEN 1
    ELSE IF f.at = "imported" THEN 2 * Len(f.todo) + 1
    ELSE 2 * Len(f.todo) + (IF isEntering THEN 3 ELSE 2)
LeftAt(s, k) == FrameLeft(s[k], k + 1 = Len(s) /\ s[k + 1].at = "entered")

\* Passes over modules and declarations that are yet to begin: each is more than
\* any frame has left.
Owner(f) == <<f.pass, f.mod, IF f.pass = "declare" THEN Head(f.todo) ELSE 0>>
Untouched ==
    ({"collect"} \X (Modules \ collected) \X {0})
      \cup ({"resolve"} \X {m \in Modules : ~Begun(m)} \X {0})
      \cup ({"tests"} \X {m \in Modules : ~Begun(m) \/ Resolves(stack, m) \/ Queued(m)} \X {0})
      \cup {<<"declare", n[1], n[2]>> : n \in {d \in Declarations : symbol[d] = "unresolved"}}
MostLeft(m) == 2 * Len(program[m].body) + 4

\* Three steps for each root.
RootsLeft ==
    3 * Len(roots) - (IF phase = "load" THEN 0 ELSE IF phase = "resolve" THEN 1 ELSE 2)

Work ==
    ({<<"analyze", NoFile, 0>>} \X (1..RootsLeft))
      \cup (UNION {{o} \X (1..MostLeft(o[2])) : o \in Untouched})
      \cup (UNION {{Owner(stack[k])} \X (1..LeftAt(stack, k)) : k \in DOMAIN stack})

\* However modules import each other and declarations refer to each other, each step
\* of the analyzer uses up some of the work there was and makes none: a pass over a
\* module, a declaration and a queued test are begun once, cancelled or not.
EachStepCounts == [][Analyzer => Work' \subseteq Work /\ Work' # Work]_vars

\* A module's list holds diagnostics located in that module: none is given an
\* origin on the way (module.hh:70, diagnostic.hh:310).
ReportsPointHome == \A m \in Modules : \A d \in reports[m] : d.mod = m

\* What an initializer refers to, and what it waits for besides: a name in
\* another file has that file resolved first, and so all that its imports reach
\* (access.cc:526), if an import statement has not done so before.
References ==
    {e \in Declarations \X Declarations :
        e[2] = <<Stmt(e[1][1], e[1][2]).to, Stmt(e[1][1], e[1][2]).at>>}
ImportGraph ==
    [node |-> Modules,
     edge |-> {e \in Modules \X Modules :
                 \E i \in DOMAIN program[e[1]].body :
                    /\ Stmt(e[1], i).kind = "import" /\ ~Stmt(e[1], i).test
                    /\ Stmt(e[1], i).to = e[2]}]
WaitsForFile ==
    {e \in Declarations \X Declarations :
        LET file == Stmt(e[1][1], e[1][2]).to IN
        file \in Modules \ {e[1][1]} /\ Reaches(ImportGraph, file, e[2][1])}
WaitsFor == [node |-> Declarations, edge |-> References \cup WaitsForFile]

\* What is reported as a cycle is one: the declaration referred to waits for the
\* one that refers to it. Where imports form no cycle, it refers to it, too.
CyclesAreReal ==
    \A m \in Modules : \A d \in reports[m] : d.error = "cyclicDependency" =>
        \E e \in References : e[1] = <<d.mod, d.stmt>> /\ Reaches(WaitsFor, e[2], e[1])
==============================================================================
