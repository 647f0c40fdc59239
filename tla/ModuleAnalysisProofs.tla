------------------------ MODULE ModuleAnalysisProofs ------------------------
(* Proofs about ModuleAnalysis, for every set of modules and every program. *)
EXTENDS ModuleAnalysis, FiniteSetTheorems, TLAPS

-----------------------------------------------------------------------------
(* The stack, and what may happen to it in one step.                        *)

\* A frame stands at a statement its file has, and one for a declaration at
\* that declaration.
FitsProgram(p, f) ==
    /\ \A j \in DOMAIN f.todo : f.todo[j] \in DOMAIN p[f.mod].body
    /\ f.at \in {"next", "draining"} \/ f.todo # <<>>
    /\ f.pass = "declare" => /\ f.todo # <<>>
                             /\ f.at \notin {"next", "draining"}
                             /\ p[f.mod].body[Head(f.todo)].kind = "decl"
StackFits(p, s) == \A k \in DOMAIN s : FitsProgram(p, s[k])
GoodStack(p, s) == s \in Seq(Frames) /\ StackFits(p, s)

\* The shape of an extended sequence.
LEMMA AppendIs ==
    ASSUME NEW S, NEW s \in Seq(S), NEW f \in S
    PROVE  /\ Append(s, f) \in Seq(S)
           /\ Len(Append(s, f)) = Len(s) + 1
           /\ DOMAIN Append(s, f) = 1..(Len(s) + 1)
           /\ \A k \in 1..Len(s) : Append(s, f)[k] = s[k]
           /\ Append(s, f)[Len(s) + 1] = f
OBVIOUS

LEMMA GoodAppend ==
    ASSUME NEW p, NEW s, GoodStack(p, s), NEW f \in Frames, FitsProgram(p, f)
    PROVE  GoodStack(p, Append(s, f))
<1> DEFINE t == Append(s, f)
<1>1. /\ t \in Seq(Frames)
      /\ DOMAIN t = 1..(Len(s) + 1)
      /\ \A k \in 1..Len(s) : t[k] = s[k]
      /\ t[Len(s) + 1] = f
  BY AppendIs DEF GoodStack
<1>2. DOMAIN s = 1..Len(s) /\ Len(s) \in Nat
  BY DEF GoodStack
<1> HIDE DEF t
<1>3. ASSUME NEW k \in DOMAIN t
      PROVE  FitsProgram(p, t[k])
  <2>1. CASE k = Len(s) + 1
    BY <2>1, <1>1
  <2>2. CASE k \in DOMAIN s
    BY <2>2, <1>1, <1>2 DEF GoodStack, StackFits
  <2> QED
    BY <2>1, <2>2, <1>1, <1>2, <1>3
<1> QED
  BY <1>1, <1>3 DEF GoodStack, StackFits, t

\* The frame on top.
LEMMA GoodTop ==
    ASSUME NEW p, GoodStack(p, stack), stack # <<>>
    PROVE  /\ Len(stack) \in DOMAIN stack
           /\ Len(stack) \in Nat \ {0}
           /\ Top \in Frames
           /\ FitsProgram(p, Top)
<1>1. Len(stack) \in DOMAIN stack /\ Len(stack) \in Nat \ {0}
  BY DEF GoodStack
<1>2. Top \in Frames
  BY <1>1 DEF GoodStack, Top
<1> QED
  BY <1>1, <1>2 DEF GoodStack, StackFits, Top

\* A sequence without its last element.
LEMMA PoppedIs ==
    ASSUME NEW S, stack \in Seq(S), stack # <<>>
    PROVE  /\ Popped \in Seq(S)
           /\ Len(Popped) = Len(stack) - 1
           /\ DOMAIN Popped = 1..(Len(stack) - 1)
           /\ DOMAIN Popped \subseteq DOMAIN stack
           /\ \A k \in DOMAIN Popped : Popped[k] = stack[k]
<1>1. Len(stack) \in Nat \ {0} /\ DOMAIN stack = 1..Len(stack)
  OBVIOUS
<1>2. Len(stack) - 1 \in Nat
  BY <1>1
<1>3. Popped = [k \in 1..(Len(stack) - 1) |-> stack[k]]
  BY <1>1, <1>2 DEF Popped
<1>4. \A k \in 1..(Len(stack) - 1) : stack[k] \in S
  BY <1>1
<1> QED
  BY <1>1, <1>2, <1>3, <1>4

LEMMA GoodPopped ==
    ASSUME NEW p, GoodStack(p, stack), stack # <<>>
    PROVE  GoodStack(p, Popped)
BY PoppedIs DEF GoodStack, StackFits

\* Replacing the top.
LEMMA WithTopIs ==
    ASSUME NEW S, stack \in Seq(S), stack # <<>>, NEW f \in S
    PROVE  /\ WithTop(f) \in Seq(S)
           /\ Len(WithTop(f)) = Len(stack)
           /\ DOMAIN WithTop(f) = DOMAIN stack
           /\ WithTop(f)[Len(stack)] = f
           /\ \A k \in DOMAIN stack : k # Len(stack) => WithTop(f)[k] = stack[k]
BY DEF WithTop

LEMMA GoodWithTop ==
    ASSUME NEW p, GoodStack(p, stack), stack # <<>>, NEW f \in Frames, FitsProgram(p, f)
    PROVE  GoodStack(p, WithTop(f))
BY WithTopIs DEF GoodStack, StackFits

LEMMA GoodWaiting ==
    ASSUME NEW p, GoodStack(p, stack), stack # <<>>, Top.todo # <<>>,
           NEW at \in {"imported", "started", "awaited", "looking"}
    PROVE  GoodStack(p, Waiting(at))
<1> DEFINE f == [Top EXCEPT !.at = at]
<1>1. Top \in Frames /\ FitsProgram(p, Top)
  BY GoodTop
<1>2. f \in Frames /\ FitsProgram(p, f)
  BY <1>1 DEF Frames, FitsProgram
<1> QED
  BY <1>2, GoodWithTop DEF Waiting

\* The statements left after the first.
LEMMA TailOf ==
    ASSUME NEW S, NEW s \in Seq(S), s # <<>>
    PROVE  /\ Head(s) \in S /\ Head(s) = s[1] /\ 1 \in DOMAIN s
           /\ Tail(s) \in Seq(S)
           /\ \A j \in DOMAIN Tail(s) : j + 1 \in DOMAIN s /\ Tail(s)[j] = s[j + 1]
OBVIOUS

LEMMA GoodAdvanced ==
    ASSUME NEW p, GoodStack(p, stack), stack # <<>>, Top.todo # <<>>,
           Top.pass # "declare", NEW diags \in SUBSET Diagnostics
    PROVE  GoodStack(p, Advanced(diags))
<1> DEFINE f == [Top EXCEPT !.todo = Tail(@), !.at = "next", !.diags = @ \cup diags]
<1>1. Top \in Frames /\ FitsProgram(p, Top)
  BY GoodTop
<1>2. Top.todo \in Seq(Indices)
  BY <1>1 DEF Frames
<1>3. /\ Tail(Top.todo) \in Seq(Indices)
      /\ \A j \in DOMAIN Tail(Top.todo) : Tail(Top.todo)[j] \in DOMAIN p[Top.mod].body
  BY <1>1, <1>2, TailOf DEF FitsProgram
<1>4. f \in Frames
  BY <1>1, <1>3 DEF Frames
<1>5. FitsProgram(p, f)
  BY <1>1, <1>3 DEF Frames, FitsProgram
<1> QED
  BY <1>4, <1>5, GoodWithTop DEF Advanced

\* What a declaration reports changes only lists.
LEMMA ReportedIs ==
    ASSUME NEW s \in Seq(Frames), NEW diags \in SUBSET Diagnostics
    PROVE  /\ Reported(s, diags) \in Seq(Frames)
           /\ DOMAIN Reported(s, diags) = DOMAIN s
           /\ Len(Reported(s, diags)) = Len(s)
           /\ \A k \in DOMAIN s :
                /\ Reported(s, diags)[k].pass = s[k].pass
                /\ Reported(s, diags)[k].mod = s[k].mod
                /\ Reported(s, diags)[k].todo = s[k].todo
                /\ Reported(s, diags)[k].at = s[k].at
<1> DEFINE owners == {i \in DOMAIN s : s[i].pass # "declare"}
           n == Max(owners)
           t == [s EXCEPT ![n].diags = @ \cup diags]
<1>1. \A k \in DOMAIN s : s[k] \in Frames
  OBVIOUS
<1>2. \A f \in Frames : [f EXCEPT !.diags = @ \cup diags] \in Frames
  BY DEF Frames
<1>3. /\ t \in Seq(Frames)
      /\ DOMAIN t = DOMAIN s
      /\ Len(t) = Len(s)
      /\ \A k \in DOMAIN s : t[k] = IF k = n THEN [s[k] EXCEPT !.diags = @ \cup diags] ELSE s[k]
  <2> HIDE DEF n
  <2>1. CASE n \in DOMAIN s
    <3> DEFINE f == [s[n] EXCEPT !.diags = @ \cup diags]
    <3>1. f \in Frames
      BY <2>1, <1>1, <1>2
    <3>2. t = [s EXCEPT ![n] = f]
      OBVIOUS
    <3> HIDE DEF f, t
    <3>3. /\ t \in Seq(Frames) /\ DOMAIN t = DOMAIN s /\ Len(t) = Len(s)
          /\ \A k \in DOMAIN s : t[k] = IF k = n THEN f ELSE s[k]
      BY <2>1, <3>1, <3>2
    <3> QED
      BY <3>3 DEF f
  <2>2. CASE n \notin DOMAIN s
    <3>1. \A e : [s EXCEPT ![n] = e] = s
      BY <2>2
    <3>2. t = s
      BY <3>1, Zenon
    <3> HIDE DEF t
    <3> QED
      BY <3>2, <2>2
  <2> QED
    BY <2>1, <2>2
<1>4. \A k \in DOMAIN s : /\ t[k].pass = s[k].pass /\ t[k].mod = s[k].mod
                          /\ t[k].todo = s[k].todo /\ t[k].at = s[k].at
  BY <1>1, <1>3 DEF Frames
<1>5. Reported(s, diags) = s \/ Reported(s, diags) = t
  BY DEF Reported
<1> HIDE DEF t
<1> QED
  BY <1>3, <1>4, <1>5

LEMMA GoodReported ==
    ASSUME NEW p, NEW s, GoodStack(p, s), NEW diags \in SUBSET Diagnostics
    PROVE  GoodStack(p, Reported(s, diags))
BY ReportedIs DEF GoodStack, StackFits, FitsProgram

-----------------------------------------------------------------------------
(* Types                                                                    *)

\* What TypeOK needs to be inductive: the files do not change, and statements
\* are looked up where there are some.
DeferredFits ==
    \A m \in Modules : \A j \in DOMAIN deferred[m] :
        deferred[m][j] \in DOMAIN program[m].body
TypeInv ==
    /\ TypeOK
    /\ program \in Programs
    /\ StackFits(program, stack)
    /\ DeferredFits

LEMMA TypeInvStack == TypeInv => GoodStack(program, stack)
BY DEF TypeInv, TypeOK, GoodStack

\* Statements have indices within the bound.
LEMMA BodyIndices ==
    ASSUME TypeInv, NEW m \in Modules
    PROVE  /\ program[m].body \in Seq(Statements)
           /\ DOMAIN program[m].body = 1..Len(program[m].body)
           /\ DOMAIN program[m].body \subseteq Indices
           /\ Len(program[m].body) \in Nat
<1>1. program[m].body \in Seq(Statements) /\ Len(program[m].body) <= MaxStatements
  BY DEF TypeInv, TypeOK, Files
<1> QED
  BY <1>1, SizeAssumption DEF Indices

LEMMA BodyType ==
    ASSUME TypeInv, NEW m \in Modules
    PROVE  /\ Body(m) \in Seq(Indices)
           /\ \A j \in DOMAIN Body(m) : Body(m)[j] \in DOMAIN program[m].body
<1> DEFINE n == Len(program[m].body)
<1>1. n \in Nat /\ 1..n \subseteq Indices /\ DOMAIN program[m].body = 1..n
  BY BodyIndices
<1> HIDE DEF n
<1>2. [i \in 1..n |-> i] \in Seq(Indices)
  BY <1>1
<1> QED
  BY <1>1, <1>2 DEF Body, n

\* The statement a frame stands at.
LEMMA HereType ==
    ASSUME TypeInv, stack # <<>>, Top.todo # <<>>
    PROVE  /\ Top.mod \in Modules
           /\ Head(Top.todo) \in Indices
           /\ Head(Top.todo) \in DOMAIN program[Top.mod].body
           /\ This \in Statements
           /\ Here \in Nodes
           /\ \A e \in {"moduleLoad", "importedModuleContainsErrors",
                         "undeclaredIdentifier", "cyclicDependency"} :
                  Diagnostic(Here, e) \in Diagnostics
<1>1. Top \in Frames /\ FitsProgram(program, Top)
  BY TypeInvStack, GoodTop
<1>2. Top.mod \in Modules /\ Top.todo \in Seq(Indices)
  BY <1>1 DEF Frames
<1>3. /\ Head(Top.todo) \in Indices
      /\ Head(Top.todo) \in DOMAIN program[Top.mod].body
  BY <1>1, <1>2, TailOf DEF FitsProgram
<1>4. This \in Statements
  BY <1>2, <1>3, BodyIndices DEF This, Stmt
<1>5. Here \in Nodes
  BY <1>2, <1>3 DEF Here, Nodes
<1>6. \A e \in {"moduleLoad", "importedModuleContainsErrors",
                "undeclaredIdentifier", "cyclicDependency"} :
        Diagnostic(Here, e) \in Diagnostics
  BY <1>2, <1>3 DEF Here, Diagnostic, Diagnostics
<1> QED
  BY <1>2, <1>3, <1>4, <1>5, <1>6

\* A name of a declaration names a declaration.
LEMMA TargetType ==
    ASSUME TypeInv, stack # <<>>, Top.pass = "declare", This.to \in Modules
    PROVE  /\ Target \in Nodes
           /\ This.at \in DOMAIN program[This.to].body
           /\ program[This.to].body[This.at].kind = "decl"
           /\ NamesDeclaration(program, Top.mod, This)
<1>1. Top \in Frames /\ FitsProgram(program, Top)
  BY TypeInvStack, GoodTop
<1>2. Top.todo # <<>> /\ This.kind = "decl"
  BY <1>1 DEF FitsProgram, This, Stmt
<1>3. Top.mod \in Modules /\ Head(Top.todo) \in DOMAIN program[Top.mod].body
  BY <1>2, HereType
<1>4. NamesDeclaration(program, Top.mod, This)
  BY <1>2, <1>3, ProgramsAssumption DEF TypeInv, This, Stmt
<1>5. This.at \in Indices
  BY <1>4, BodyIndices DEF NamesDeclaration
<1> QED
  BY <1>4, <1>5 DEF NamesDeclaration, Target, Nodes

LEMMA GoodDeclare ==
    ASSUME TypeInv, NEW below, GoodStack(program, below), NEW m \in Modules, NEW i \in Indices,
           i \in DOMAIN program[m].body, program[m].body[i].kind = "decl"
    PROVE  GoodStack(program, Declare(below, <<m, i>>))
<1> DEFINE f == [pass |-> "declare", mod |-> m, todo |-> <<i>>, at |-> "entered", diags |-> {}]
<1>1. f \in Frames
  BY DEF Frames
<1>2. FitsProgram(program, f)
  BY DEF FitsProgram
<1>3. Declare(below, <<m, i>>) = Append(below, f)
  BY DEF Declare
<1> HIDE DEF f
<1> QED
  BY <1>1, <1>2, <1>3, GoodAppend

\* Calling a pass over a module.
LEMMA CallCollectType ==
    ASSUME TypeInv, NEW below, GoodStack(program, below), NEW m \in Modules,
           NEW st \in States, NEW diags \in SUBSET Diagnostics,
           CallCollect(below, m, st, diags)
    PROVE  /\ state' \in [Modules -> States]
           /\ collected' \subseteq Modules
           /\ GoodStack(program, stack')
<1> DEFINE f == [pass |-> "collect", mod |-> m, todo |-> Body(m), at |-> "next", diags |-> diags]
<1>1. state' \in [Modules -> States] /\ collected' \subseteq Modules
  BY DEF CallCollect, TypeInv, TypeOK
<1>2. f \in Frames
  BY BodyType DEF Frames
<1>3. FitsProgram(program, f)
  BY BodyType DEF FitsProgram
<1>4. stack' = below \/ stack' = Append(below, f)
  BY DEF CallCollect
<1> HIDE DEF f
<1> QED
  BY <1>1, <1>2, <1>3, <1>4, GoodAppend

LEMMA CallResolveType ==
    ASSUME TypeInv, NEW below, GoodStack(program, below), NEW m,
           NEW diags \in SUBSET Diagnostics, CallResolve(below, m, diags)
    PROVE  /\ state' \in [Modules -> States]
           /\ GoodStack(program, stack')
<1>1. CASE IsResolvable(m)
  <2> DEFINE f == [pass |-> "resolve", mod |-> m, todo |-> Body(m), at |-> "next", diags |-> diags]
  <2>1. m \in Modules
    BY <1>1 DEF IsResolvable, TypeInv, TypeOK
  <2>2. state' \in [Modules -> States]
    BY <1>1, <2>1 DEF CallResolve, TypeInv, TypeOK, States
  <2>3. f \in Frames
    BY <2>1, BodyType DEF Frames
  <2>4. FitsProgram(program, f)
    BY <2>1, BodyType DEF FitsProgram
  <2>5. stack' = Append(below, f)
    BY <1>1 DEF CallResolve
  <2> HIDE DEF f
  <2> QED
    BY <2>2, <2>3, <2>4, <2>5, GoodAppend
<1>2. CASE ~IsResolvable(m)
  BY <1>2 DEF CallResolve, TypeInv, TypeOK
<1> QED
  BY <1>1, <1>2

LEMMA LoadedStateType ==
    ASSUME TypeInv, NEW m \in Modules
    PROVE  LoadedState(m) \in States
<1>1. state[m] \in States
  BY DEF TypeInv, TypeOK
<1>2. LoadedState(m) \in {state[m], "errored", "parsed"}
  BY DEF LoadedState
<1> QED
  BY <1>1, <1>2 DEF States

LEMMA TypeInvInit == Init => TypeInv
<1> SUFFICES ASSUME Init PROVE TypeInv
  OBVIOUS
<1>1. /\ program \in [Modules -> Files] /\ program \in Programs
      /\ \A m \in Modules : Len(program[m].body) <= MaxStatements
  BY ProgramsAssumption DEF Init
<1>2. roots \in Seq(Modules)
  BY EntryPathsAssumption DEF Init
<1>3. stack \in Seq(Frames) /\ StackFits(program, stack) /\ pending \in Seq(Modules)
  BY DEF Init, StackFits
<1>4. deferred \in [Modules -> Seq(Indices)] /\ DeferredFits
  BY DEF Init, DeferredFits
<1>5. /\ phase \in {"load", "resolve", "decide"}
      /\ state \in [Modules -> States]
      /\ collected \subseteq Modules /\ linked \subseteq Nodes
      /\ symbol \in [Nodes -> Statuses]
      /\ reports \in [Modules -> SUBSET Diagnostics] /\ leftover \subseteq Diagnostics
      /\ cancelled \in BOOLEAN
      /\ outcome \in [Modules -> {"none", "lowered", "rejected", "cancelled"}]
  BY DEF Init, States, Statuses
<1> QED
  BY <1>1, <1>2, <1>3, <1>4, <1>5 DEF TypeInv, TypeOK

\* Symbol collection keeps types.
LEMMA TypeInvCollecting == TypeInv /\ Collecting => TypeInv'
<1> SUFFICES ASSUME TypeInv, Collecting PROVE TypeInv'
  OBVIOUS
<1>0. GoodStack(program, stack)
  BY TypeInvStack
<1>1. CASE CollectDecl
  <2>1. GoodStack(program, stack')
    BY <1>0, <1>1, GoodAdvanced DEF CollectDecl, Running
  <2> QED
    BY <1>1, <2>1 DEF CollectDecl, TypeInv, TypeOK, GoodStack, DeferredFits
<1>2. CASE CollectMissingImport
  <2>1. /\ Here \in Nodes
        /\ {Diagnostic(Here, "moduleLoad")} \in SUBSET Diagnostics
    BY <1>2, HereType DEF CollectMissingImport, Running
  <2>2. GoodStack(program, stack')
    BY <1>0, <1>2, <2>1, GoodAdvanced DEF CollectMissingImport, Running
  <2>3. symbol' \in [Nodes -> Statuses]
    BY <1>2 DEF CollectMissingImport, TypeInv, TypeOK, Statuses
  <2> QED
    BY <1>2, <2>2, <2>3 DEF CollectMissingImport, TypeInv, TypeOK, GoodStack, DeferredFits
<1>3. CASE CollectImport
  <2>1. GoodStack(program, Waiting("imported"))
    BY <1>0, <1>3, GoodWaiting DEF CollectImport, Running
  <2>2. This.to \in Modules /\ LoadedState(This.to) \in States
    BY <1>3, LoadedStateType DEF CollectImport
  <2>3. /\ state' \in [Modules -> States] /\ collected' \subseteq Modules
        /\ GoodStack(program, stack')
    BY <1>3, <2>1, <2>2, CallCollectType DEF CollectImport
  <2> QED
    BY <1>3, <2>3 DEF CollectImport, TypeInv, TypeOK, GoodStack, DeferredFits
<1>4. CASE LinkImport
  <2>1. stack # <<>> /\ Top.pass = "collect" /\ Top.at = "imported" /\ Top.todo # <<>>
    BY <1>0, <1>4, GoodTop DEF LinkImport, Running, FitsProgram
  <2>2. /\ Here \in Nodes
        /\ {Diagnostic(Here, "importedModuleContainsErrors")} \in SUBSET Diagnostics
    BY <2>1, HereType
  <2>3. PICK diags \in SUBSET Diagnostics : stack' = Advanced(diags)
    BY <1>4, <2>2 DEF LinkImport
  <2>4. GoodStack(program, stack')
    BY <1>0, <2>1, <2>3, GoodAdvanced
  <2>5. symbol' \in [Nodes -> Statuses] /\ linked' \subseteq Nodes
    BY <1>4, <2>2 DEF LinkImport, TypeInv, TypeOK, Statuses
  <2> QED
    BY <1>4, <2>4, <2>5 DEF LinkImport, TypeInv, TypeOK, GoodStack, DeferredFits
<1>5. CASE EndCollect
  <2>1. GoodStack(program, stack')
    BY <1>0, <1>5, GoodPopped DEF EndCollect, Running
  <2>2. Top.diags \in SUBSET Diagnostics
    BY <1>0, <1>5, GoodTop DEF EndCollect, Running, Frames
  <2>3. /\ state' \in [Modules -> States]
        /\ reports' \in [Modules -> SUBSET Diagnostics]
        /\ leftover' \subseteq Diagnostics
    BY <1>5, <2>2 DEF EndCollect, Kept, TypeInv, TypeOK, States
  <2> QED
    BY <1>5, <2>1, <2>3 DEF EndCollect, TypeInv, TypeOK, GoodStack, DeferredFits
<1> QED
  BY <1>1, <1>2, <1>3, <1>4, <1>5 DEF Collecting

\* A step on a test put off keeps it within the file.
LEMMA DeferredAppend ==
    ASSUME TypeInv, NEW m \in Modules, NEW i \in Indices, i \in DOMAIN program[m].body,
           deferred' = [deferred EXCEPT ![m] = Append(@, i)], program' = program
    PROVE  deferred' \in [Modules -> Seq(Indices)] /\ DeferredFits'
<1> DEFINE old == deferred[m]
           new == Append(old, i)
<1>1. old \in Seq(Indices) /\ deferred \in [Modules -> Seq(Indices)]
  BY DEF TypeInv, TypeOK
<1>2. /\ new \in Seq(Indices)
      /\ DOMAIN new = 1..(Len(old) + 1)
      /\ \A k \in 1..Len(old) : new[k] = old[k]
      /\ new[Len(old) + 1] = i
  BY <1>1, AppendIs
<1>3. DOMAIN old = 1..Len(old) /\ Len(old) \in Nat
  BY <1>1
<1>4. \A j \in DOMAIN old : old[j] \in DOMAIN program[m].body
  BY DEF TypeInv, DeferredFits
<1>5. deferred' = [deferred EXCEPT ![m] = new]
  OBVIOUS
<1> HIDE DEF new, old
<1>6. \A j \in DOMAIN new : new[j] \in DOMAIN program[m].body
  BY <1>2, <1>3, <1>4
<1>7. deferred' \in [Modules -> Seq(Indices)]
  BY <1>1, <1>2, <1>5
<1> QED
  BY <1>1, <1>5, <1>6, <1>7 DEF DeferredFits, TypeInv

\* Type resolution of statements keeps types.
LEMMA TypeInvResolving == TypeInv /\ ResolvingStep => TypeInv'
<1> SUFFICES ASSUME TypeInv, ResolvingStep PROVE TypeInv'
  OBVIOUS
<1>0. GoodStack(program, stack)
  BY TypeInvStack
<1>1. CASE PutOffTest
  <2>1. stack # <<>> /\ Top.todo # <<>> /\ Top.pass \in {"resolve", "tests"}
    BY <1>1 DEF PutOffTest, Statement, Resolving, Running
  <2>2. GoodStack(program, stack')
    BY <1>0, <1>1, <2>1, GoodAdvanced DEF PutOffTest
  <2>3. deferred' \in [Modules -> Seq(Indices)] /\ DeferredFits'
    <3>1. CASE Testing
      BY <1>1, <2>1, <3>1, HereType, DeferredAppend DEF PutOffTest
    <3>2. CASE ~Testing
      BY <1>1, <3>2 DEF PutOffTest, TypeInv, TypeOK, DeferredFits
    <3> QED
      BY <3>1, <3>2
  <2> QED
    BY <1>1, <2>2, <2>3 DEF PutOffTest, TypeInv, TypeOK, GoodStack
<1>2. CASE ResolveImport
  <2>1. stack # <<>> /\ Top.todo # <<>> /\ Top.pass \in {"resolve", "tests"}
    BY <1>2 DEF ResolveImport, Statement, Resolving, Running
  <2>2. GoodStack(program, Waiting("imported")) /\ GoodStack(program, Advanced({}))
    BY <1>0, <2>1, GoodWaiting, GoodAdvanced
  <2>3. state' \in [Modules -> States] /\ GoodStack(program, stack')
    <3>1. CASE Here \in linked
      BY <1>2, <2>2, <3>1, CallResolveType DEF ResolveImport
    <3>2. CASE Here \notin linked
      BY <1>2, <2>2, <3>2 DEF ResolveImport, TypeInv, TypeOK
    <3> QED
      BY <3>1, <3>2
  <2> QED
    BY <1>2, <2>3 DEF ResolveImport, TypeInv, TypeOK, GoodStack, DeferredFits
<1>3. CASE AfterImport
  <2>1. stack # <<>> /\ Top.pass \in {"resolve", "tests"} /\ Top.todo # <<>>
    BY <1>0, <1>3, GoodTop DEF AfterImport, Resolving, Running, FitsProgram
  <2>2. /\ Here \in Nodes
        /\ {Diagnostic(Here, "importedModuleContainsErrors")} \in SUBSET Diagnostics
    BY <2>1, HereType
  <2>3. PICK diags \in SUBSET Diagnostics : stack' = Advanced(diags)
    BY <1>3, <2>2 DEF AfterImport
  <2>4. GoodStack(program, stack')
    BY <1>0, <2>1, <2>3, GoodAdvanced
  <2>5. symbol' \in [Nodes -> Statuses]
    BY <1>3, <2>2 DEF AfterImport, TypeInv, TypeOK, Statuses
  <2> QED
    BY <1>3, <2>4, <2>5 DEF AfterImport, TypeInv, TypeOK, GoodStack, DeferredFits
<1>4. CASE ResolveDecl
  <2>1. stack # <<>> /\ Top.todo # <<>> /\ Top.pass \in {"resolve", "tests"}
    BY <1>4 DEF ResolveDecl, Statement, Resolving, Running
  <2>2. GoodStack(program, Advanced({}))
    BY <1>0, <2>1, GoodAdvanced
  <2>3. program[Top.mod].body[Head(Top.todo)].kind = "decl"
    BY <1>4 DEF ResolveDecl, This, Stmt
  <2>4. GoodStack(program, stack')
    BY <1>4, <2>1, <2>2, <2>3, HereType, GoodDeclare DEF ResolveDecl, Here
  <2> QED
    BY <1>4, <2>4 DEF ResolveDecl, TypeInv, TypeOK, GoodStack, DeferredFits
<1>5. CASE EndResolve
  <2>1. /\ stack # <<>> /\ Top.pass = "resolve"
        /\ Top \in Frames /\ FitsProgram(program, Top)
    BY <1>0, <1>5, GoodTop DEF EndResolve, Running
  <2>2. [Top EXCEPT !.at = "draining"] \in Frames
    BY <2>1 DEF Frames
  <2>3. FitsProgram(program, [Top EXCEPT !.at = "draining"])
    BY <2>1 DEF Frames, FitsProgram
  <2>4. GoodStack(program, Waiting("draining"))
    BY <1>0, <2>1, <2>2, <2>3, GoodWithTop DEF Waiting
  <2>5. GoodStack(program, stack')
    BY <1>0, <1>5, <2>1, <2>4, GoodPopped DEF EndResolve
  <2>6. Top.mod \in Modules /\ Top.diags \in SUBSET Diagnostics
    BY <2>1 DEF Frames
  <2>7. /\ state' \in [Modules -> States]
        /\ reports' \in [Modules -> SUBSET Diagnostics]
        /\ leftover' \subseteq Diagnostics
        /\ pending' \in Seq(Modules)
    BY <1>5, <2>6 DEF EndResolve, Kept, NotMoved, Absorbed, TypeInv, TypeOK, States
  <2> QED
    BY <1>5, <2>5, <2>7 DEF EndResolve, TypeInv, TypeOK, GoodStack, DeferredFits
<1> QED
  BY <1>1, <1>2, <1>3, <1>4, <1>5 DEF ResolvingStep

\* The tests at the end keep types.
LEMMA TypeInvTests == TypeInv /\ Tests => TypeInv'
<1> SUFFICES ASSUME TypeInv, Tests PROVE TypeInv'
  OBVIOUS
<1>0. GoodStack(program, stack)
  BY TypeInvStack
<1>1. CASE StartTests
  <2> DEFINE m == Head(pending)
             f == [pass |-> "tests", mod |-> m, todo |-> deferred[m], at |-> "next",
                   diags |-> {}]
  <2>1. m \in Modules /\ Tail(pending) \in Seq(Modules)
    BY <1>1 DEF StartTests, TypeInv, TypeOK
  <2>2. deferred[m] \in Seq(Indices) /\ deferred \in [Modules -> Seq(Indices)]
    BY <2>1 DEF TypeInv, TypeOK
  <2>3. f \in Frames
    BY <2>1, <2>2 DEF Frames
  <2>4. FitsProgram(program, f)
    BY <2>1 DEF FitsProgram, TypeInv, DeferredFits
  <2>5. /\ stack' = Append(stack, f)
        /\ deferred' = [deferred EXCEPT ![m] = <<>>]
        /\ pending' = Tail(pending) /\ program' = program
    BY <1>1 DEF StartTests
  <2> HIDE DEF f, m
  <2>6. GoodStack(program, stack')
    BY <1>0, <2>3, <2>4, <2>5, GoodAppend
  <2>7. deferred' \in [Modules -> Seq(Indices)] /\ DeferredFits'
    BY <2>1, <2>2, <2>5 DEF TypeInv, DeferredFits
  <2> QED
    BY <1>1, <2>1, <2>5, <2>6, <2>7 DEF StartTests, TypeInv, TypeOK, GoodStack
<1>2. CASE EndTests
  <2>1. GoodStack(program, stack')
    BY <1>0, <1>2, GoodPopped DEF EndTests, Running
  <2>2. Top.diags \in SUBSET Diagnostics
    BY <1>0, <1>2, GoodTop DEF EndTests, Running, Frames
  <2>3. /\ state' \in [Modules -> States]
        /\ reports' \in [Modules -> SUBSET Diagnostics]
    BY <1>2, <2>2 DEF EndTests, Absorbed, TypeInv, TypeOK, States
  <2> QED
    BY <1>2, <2>1, <2>3 DEF EndTests, TypeInv, TypeOK, GoodStack, DeferredFits
<1>3. CASE EndDraining
  <2>1. GoodStack(program, stack')
    BY <1>0, <1>3, GoodPopped DEF EndDraining, Running
  <2> QED
    BY <1>3, <2>1 DEF EndDraining, TypeInv, TypeOK, GoodStack, DeferredFits
<1> QED
  BY <1>1, <1>2, <1>3 DEF Tests

\* A declaration is done.
LEMMA TypeInvFinish ==
    ASSUME TypeInv, stack # <<>>, NEW status \in Statuses, NEW others,
           NEW diags \in SUBSET Diagnostics, Finish(status, others, diags)
    PROVE  TypeInv'
<1>1. GoodStack(program, stack')
  BY TypeInvStack, GoodPopped, GoodReported DEF Finish
<1>2. symbol' \in [Nodes -> Statuses]
  BY DEF Finish, TypeInv, TypeOK, Statuses
<1> QED
  BY <1>1, <1>2 DEF Finish, TypeInv, TypeOK, GoodStack, DeferredFits

\* Resolving one declaration keeps types.
LEMMA TypeInvDeclaring == TypeInv /\ Declaring => TypeInv'
<1> SUFFICES ASSUME TypeInv, Declaring PROVE TypeInv'
  OBVIOUS
<1>0. /\ stack # <<>> /\ Top.pass = "declare"
      /\ Top.at \in {"entered", "started", "awaited", "looking"}
  BY DEF Declaring, EnterDecl, FinishLiteral, FinishUndeclared, FinishPoisonedAlias,
         AwaitModule, FinishPoisonedModule, FinishReference, FinishCycle, ResolveTarget,
         CanLook, Running
<1>1. /\ GoodStack(program, stack)
      /\ Top.todo # <<>> /\ Top.mod \in Modules
  BY <1>0, TypeInvStack, GoodTop DEF FitsProgram, Frames
<1>2. /\ {} \in SUBSET Diagnostics
      /\ \A e \in {"importedModuleContainsErrors", "undeclaredIdentifier", "cyclicDependency"} :
            {Diagnostic(Here, e)} \in SUBSET Diagnostics
  BY <1>0, <1>1, HereType
<1>3. {"resolved", "poisoned"} \subseteq Statuses
  BY DEF Statuses
<1>4. CASE EnterDecl
  <2>1. GoodStack(program, stack')
    BY <1>0, <1>1, <1>4, GoodPopped, GoodWaiting DEF EnterDecl
  <2>2. symbol' \in [Nodes -> Statuses]
    BY <1>4 DEF EnterDecl, TypeInv, TypeOK, Statuses
  <2> QED
    BY <1>4, <2>1, <2>2 DEF EnterDecl, TypeInv, TypeOK, GoodStack, DeferredFits
<1>5. CASE FinishLiteral
  BY <1>0, <1>2, <1>3, <1>5, TypeInvFinish DEF FinishLiteral
<1>6. CASE FinishUndeclared
  BY <1>0, <1>2, <1>3, <1>6, TypeInvFinish DEF FinishUndeclared
<1>7. CASE FinishPoisonedAlias
  BY <1>0, <1>2, <1>3, <1>7, TypeInvFinish DEF FinishPoisonedAlias
<1>8. CASE AwaitModule
  <2>1. GoodStack(program, Waiting("awaited"))
    BY <1>0, <1>1, GoodWaiting
  <2>2. state' \in [Modules -> States] /\ GoodStack(program, stack')
    BY <1>8, <2>1, CallResolveType DEF AwaitModule
  <2> QED
    BY <1>8, <2>2 DEF AwaitModule, TypeInv, TypeOK, GoodStack, DeferredFits
<1>9. CASE FinishPoisonedModule
  BY <1>0, <1>2, <1>3, <1>9, TypeInvFinish DEF FinishPoisonedModule
<1>10. CASE FinishReference
  BY <1>0, <1>2, <1>3, <1>10, TypeInvFinish DEF FinishReference
<1>11. CASE FinishCycle
  BY <1>0, <1>2, <1>3, <1>11, TypeInvFinish DEF FinishCycle
<1>12. CASE ResolveTarget
  <2>1. /\ This.to \in Modules /\ This.at \in Indices
        /\ This.at \in DOMAIN program[This.to].body
        /\ program[This.to].body[This.at].kind = "decl"
    BY <1>0, <1>12, TargetType, BodyIndices DEF ResolveTarget, CanLook
  <2>2. GoodStack(program, Waiting("looking"))
    BY <1>0, <1>1, GoodWaiting
  <2>3. GoodStack(program, stack')
    BY <1>12, <2>1, <2>2, GoodDeclare DEF ResolveTarget, Target
  <2> QED
    BY <1>12, <2>3 DEF ResolveTarget, TypeInv, TypeOK, GoodStack, DeferredFits
<1> QED
  BY <1>4, <1>5, <1>6, <1>7, <1>8, <1>9, <1>10, <1>11, <1>12 DEF Declaring

\* analyze() keeps types.
LEMMA RootType == ASSUME TypeInv, roots # <<>> PROVE Root \in Modules /\ Tail(roots) \in Seq(Modules)
BY DEF TypeInv, TypeOK, Root

LEMMA TypeInvAnalyzing == TypeInv /\ Analyzing => TypeInv'
<1> SUFFICES ASSUME TypeInv, Analyzing PROVE TypeInv'
  OBVIOUS
<1>1. /\ Root \in Modules /\ Tail(roots) \in Seq(Modules)
      /\ stack = <<>> /\ GoodStack(program, stack)
  BY RootType, TypeInvStack
     DEF Analyzing, RejectUnparsed, CollectRoot, ResolveRoot, ReturnCancelled, Reject,
         RejectEmitted, Lower, At
<1>2. ASSUME NEW result \in {"lowered", "rejected", "cancelled"}, Return(result)
      PROVE  /\ outcome' \in [Modules -> {"none", "lowered", "rejected", "cancelled"}]
             /\ roots' \in Seq(Modules)
             /\ phase' \in {"load", "resolve", "decide"}
  BY <1>1, <1>2 DEF Return, TypeInv, TypeOK
<1>3. CASE RejectUnparsed
  <2>1. state' \in [Modules -> States]
    BY <1>3 DEF RejectUnparsed, TypeInv, TypeOK, States
  <2> QED
    BY <1>2, <1>3, <2>1 DEF RejectUnparsed, TypeInv, TypeOK, DeferredFits
<1>4. CASE CollectRoot
  <2> DEFINE st == IF LoadedState(Root) = "errored" THEN "parsed" ELSE LoadedState(Root)
  <2>1. st \in States
    BY <1>1, LoadedStateType DEF States
  <2>2. leftover \in SUBSET Diagnostics
    BY DEF TypeInv, TypeOK
  <2>3. CallCollect(stack, Root, st, leftover)
    BY <1>4 DEF CollectRoot
  <2> HIDE DEF st
  <2>4. /\ state' \in [Modules -> States] /\ collected' \subseteq Modules
        /\ GoodStack(program, stack')
    BY <1>1, <2>1, <2>2, <2>3, CallCollectType
  <2> QED
    BY <1>4, <2>4 DEF CollectRoot, TypeInv, TypeOK, GoodStack, DeferredFits
<1>5. CASE ResolveRoot
  <2>1. state' \in [Modules -> States] /\ GoodStack(program, stack')
    BY <1>1, <1>5, CallResolveType DEF ResolveRoot, TypeInv, TypeOK
  <2> QED
    BY <1>5, <2>1 DEF ResolveRoot, TypeInv, TypeOK, GoodStack, DeferredFits
<1>6. CASE ReturnCancelled
  BY <1>2, <1>6 DEF ReturnCancelled, TypeInv, TypeOK, DeferredFits
<1>7. CASE Reject
  BY <1>2, <1>7 DEF Reject, TypeInv, TypeOK, DeferredFits
<1>8. CASE RejectEmitted
  <2>1. /\ state' \in [Modules -> States]
        /\ reports' \in [Modules -> SUBSET Diagnostics]
        /\ leftover' \subseteq Diagnostics
    BY <1>8 DEF RejectEmitted, TypeInv, TypeOK, States
  <2> QED
    BY <1>2, <1>8, <2>1 DEF RejectEmitted, TypeInv, TypeOK, DeferredFits
<1>9. CASE Lower
  <2>1. \E result \in {"lowered", "rejected", "cancelled"} : Return(result)
    BY <1>9 DEF Lower
  <2> QED
    BY <1>2, <1>9, <2>1 DEF Lower, TypeInv, TypeOK, DeferredFits
<1> QED
  BY <1>3, <1>4, <1>5, <1>6, <1>7, <1>8, <1>9 DEF Analyzing

LEMMA TypeInvNext == TypeInv /\ [Next]_vars => TypeInv'
<1> SUFFICES ASSUME TypeInv, [Next]_vars PROVE TypeInv'
  OBVIOUS
<1>1. CASE Cancel
  BY <1>1 DEF Cancel, TypeInv, TypeOK, DeferredFits
<1>2. CASE UNCHANGED vars
  BY <1>2 DEF vars, TypeInv, TypeOK, DeferredFits
<1> QED
  BY <1>1, <1>2, TypeInvCollecting, TypeInvResolving, TypeInvTests, TypeInvDeclaring,
     TypeInvAnalyzing DEF Next, Analyzer

\* Every name is looked up in a file that has it and every list holds what it
\* should, for every program.
LEMMA TypeInvariant == Spec => []TypeInv
BY TypeInvInit, TypeInvNext, PTL DEF Spec

\* The type invariant holds for every program, any number of files and roots.
THEOREM AnalysisTypeCorrect == Spec => []TypeOK
<1>1. TypeInv => TypeOK
  BY DEF TypeInv
<1> QED
  BY <1>1, TypeInvariant, PTL

-----------------------------------------------------------------------------
(* The order of passes                                                      *)

\* What is on the stack: symbol collection alone, or type resolution of a root
\* and what it needs.  Only the root's frame drains the queue, and only from
\* there are tests resolved.
StackShape ==
    /\ \/ \A k \in DOMAIN stack : stack[k].pass = "collect"
       \/ /\ \A k \in DOMAIN stack : stack[k].pass # "collect"
          /\ stack # <<>> => stack[1].pass = "resolve"
    /\ \A k \in DOMAIN stack : stack[k].at = "draining" => k = 1
    /\ \A k \in DOMAIN stack : stack[k].pass = "tests" => k = 2 /\ stack[1].at = "draining"

\* t has only frames of s, and what is below the top waits where it did.
Follows(t, s) ==
    /\ DOMAIN t \subseteq DOMAIN s
    /\ \A k \in DOMAIN t :
        /\ t[k].pass = s[k].pass /\ t[k].mod = s[k].mod
        /\ t[k].at = "draining" => s[k].at = "draining"
        /\ k # Len(s) => t[k].at = s[k].at

\* t has one frame more.
Calls(t, s, f) ==
    \E below \in Seq(Frames) :
        /\ Follows(below, s) /\ DOMAIN below = DOMAIN s
        /\ f \in Frames /\ f.at # "draining"
        /\ t = Append(below, f)

LEMMA FollowsItself == \A s : Follows(s, s)
BY DEF Follows

LEMMA FollowsTop ==
    ASSUME TypeInv, stack # <<>>, NEW f \in Frames, f.pass = Top.pass, f.mod = Top.mod,
           f.at # "draining"
    PROVE  /\ Follows(WithTop(f), stack)
           /\ WithTop(f) \in Seq(Frames)
           /\ DOMAIN WithTop(f) = DOMAIN stack
<1>1. stack \in Seq(Frames)
  BY DEF TypeInv, TypeOK
<1>2. /\ WithTop(f) \in Seq(Frames)
      /\ DOMAIN WithTop(f) = DOMAIN stack
      /\ WithTop(f)[Len(stack)] = f
      /\ \A k \in DOMAIN stack : k # Len(stack) => WithTop(f)[k] = stack[k]
  BY <1>1, WithTopIs
<1> QED
  BY <1>2 DEF Follows, Top

LEMMA FollowsWaiting ==
    ASSUME TypeInv, stack # <<>>, NEW at \in {"imported", "started", "awaited", "looking"}
    PROVE  /\ Follows(Waiting(at), stack)
           /\ Waiting(at) \in Seq(Frames)
           /\ DOMAIN Waiting(at) = DOMAIN stack
<1> DEFINE f == [Top EXCEPT !.at = at]
<1>1. Top \in Frames
  BY TypeInvStack, GoodTop
<1>2. /\ f \in Frames /\ f.pass = Top.pass /\ f.mod = Top.mod
      /\ f.at # "draining"
  BY <1>1 DEF Frames
<1> QED
  BY <1>2, FollowsTop DEF Waiting

LEMMA FollowsAdvanced ==
    ASSUME TypeInv, stack # <<>>, Top.todo # <<>>, NEW diags \in SUBSET Diagnostics
    PROVE  /\ Follows(Advanced(diags), stack)
           /\ Advanced(diags) \in Seq(Frames)
           /\ DOMAIN Advanced(diags) = DOMAIN stack
<1> DEFINE f == [Top EXCEPT !.todo = Tail(@), !.at = "next", !.diags = @ \cup diags]
<1>1. Top \in Frames
  BY TypeInvStack, GoodTop
<1>2. Tail(Top.todo) \in Seq(Indices)
  BY <1>1 DEF Frames
<1>3. /\ f \in Frames /\ f.pass = Top.pass /\ f.mod = Top.mod
      /\ f.at # "draining"
  BY <1>1, <1>2 DEF Frames
<1> QED
  BY <1>3, FollowsTop DEF Advanced

LEMMA FollowsPopped ==
    ASSUME TypeInv, stack # <<>>
    PROVE  Follows(Popped, stack) /\ Popped \in Seq(Frames)
BY PoppedIs DEF Follows, TypeInv, TypeOK

LEMMA FollowsFinish ==
    ASSUME TypeInv, stack # <<>>, NEW status, NEW others, NEW diags \in SUBSET Diagnostics,
           Finish(status, others, diags)
    PROVE  Follows(stack', stack)
<1>1. Follows(Popped, stack) /\ Popped \in Seq(Frames)
  BY FollowsPopped
<1>2. stack' = Reported(Popped, diags)
  BY DEF Finish
<1> QED
  BY <1>1, <1>2, ReportedIs DEF Follows

LEMMA CollectCalls ==
    ASSUME TypeInv, NEW below \in Seq(Frames), Follows(below, stack),
           DOMAIN below = DOMAIN stack, NEW m \in Modules, NEW st,
           NEW diags \in SUBSET Diagnostics, CallCollect(below, m, st, diags)
    PROVE  \/ Follows(stack', stack)
           \/ \E f : f.pass = "collect" /\ Calls(stack', stack, f)
<1> DEFINE f == [pass |-> "collect", mod |-> m, todo |-> Body(m), at |-> "next", diags |-> diags]
<1>1. f \in Frames /\ f.at # "draining" /\ f.pass = "collect"
  BY BodyType DEF Frames
<1>2. stack' = below \/ stack' = Append(below, f)
  BY DEF CallCollect
<1> HIDE DEF f
<1> QED
  BY <1>1, <1>2 DEF Calls

LEMMA ResolveCalls ==
    ASSUME TypeInv, NEW below \in Seq(Frames), Follows(below, stack),
           DOMAIN below = DOMAIN stack, NEW m,
           NEW diags \in SUBSET Diagnostics, CallResolve(below, m, diags)
    PROVE  \/ Follows(stack', stack)
           \/ \E f : f.pass = "resolve" /\ Calls(stack', stack, f)
<1>1. CASE IsResolvable(m)
  <2> DEFINE f == [pass |-> "resolve", mod |-> m, todo |-> Body(m), at |-> "next", diags |-> diags]
  <2>1. m \in Modules
    BY <1>1 DEF IsResolvable, TypeInv, TypeOK
  <2>2. f \in Frames /\ f.at # "draining" /\ f.pass = "resolve"
    BY <2>1, BodyType DEF Frames
  <2>3. stack' = Append(below, f)
    BY <1>1 DEF CallResolve
  <2> HIDE DEF f
  <2> QED
    BY <2>2, <2>3 DEF Calls
<1>2. CASE ~IsResolvable(m)
  BY <1>2 DEF CallResolve
<1> QED
  BY <1>1, <1>2

LEMMA DeclareCalls ==
    ASSUME TypeInv, NEW below \in Seq(Frames), Follows(below, stack),
           DOMAIN below = DOMAIN stack, NEW node \in Nodes, stack' = Declare(below, node)
    PROVE  \E f : f.pass = "declare" /\ Calls(stack', stack, f)
<1> DEFINE f == [pass |-> "declare", mod |-> node[1], todo |-> <<node[2]>>,
                 at |-> "entered", diags |-> {}]
<1>1. f \in Frames /\ f.at # "draining" /\ f.pass = "declare"
  BY DEF Frames, Nodes
<1>2. stack' = Append(below, f)
  BY DEF Declare
<1> HIDE DEF f
<1> QED
  BY <1>1, <1>2 DEF Calls

\* A step of collection stays on the stack or calls a collection.
LEMMA CollectingForm ==
    TypeInv /\ Collecting =>
        /\ stack # <<>> /\ Top.pass = "collect"
        /\ \/ Follows(stack', stack)
           \/ \E f : f.pass = "collect" /\ Calls(stack', stack, f)
<1> SUFFICES ASSUME TypeInv, Collecting
             PROVE  /\ stack # <<>> /\ Top.pass = "collect"
                    /\ \/ Follows(stack', stack)
                       \/ \E f : f.pass = "collect" /\ Calls(stack', stack, f)
  OBVIOUS
<1>0. stack # <<>> /\ Top.pass = "collect" /\ Top \in Frames /\ FitsProgram(program, Top)
  BY TypeInvStack, GoodTop
     DEF Collecting, CollectDecl, CollectMissingImport, CollectImport, LinkImport, EndCollect,
         Running
<1>1. CASE CollectDecl
  BY <1>0, <1>1, FollowsAdvanced DEF CollectDecl
<1>2. CASE CollectMissingImport
  BY <1>0, <1>2, FollowsAdvanced, HereType DEF CollectMissingImport
<1>3. CASE CollectImport
  BY <1>0, <1>3, FollowsWaiting, CollectCalls DEF CollectImport
<1>4. CASE LinkImport
  <2>1. Top.todo # <<>>
    BY <1>0, <1>4 DEF LinkImport, Running, FitsProgram
  <2>2. PICK diags \in SUBSET Diagnostics : stack' = Advanced(diags)
    BY <1>0, <1>4, <2>1, HereType DEF LinkImport
  <2> QED
    BY <1>0, <2>1, <2>2, FollowsAdvanced
<1>5. CASE EndCollect
  BY <1>0, <1>5, FollowsPopped DEF EndCollect
<1> QED
  BY <1>0, <1>1, <1>2, <1>3, <1>4, <1>5 DEF Collecting

\* A step of resolution stays on the stack, calls a resolution, or is the end of
\* the root's own statements.
LEMMA ResolvingForm ==
    TypeInv /\ (ResolvingStep \/ Declaring \/ EndTests \/ EndDraining) =>
        /\ stack # <<>> /\ Top.pass # "collect"
        /\ \/ Follows(stack', stack)
           \/ \E f : f.pass \in {"resolve", "declare"} /\ Calls(stack', stack, f)
           \/ EndResolve /\ IsOutermost
<1> SUFFICES ASSUME TypeInv, ResolvingStep \/ Declaring \/ EndTests \/ EndDraining
             PROVE  /\ stack # <<>> /\ Top.pass # "collect"
                    /\ \/ Follows(stack', stack)
                       \/ \E f : f.pass \in {"resolve", "declare"} /\ Calls(stack', stack, f)
                       \/ EndResolve /\ IsOutermost
  OBVIOUS
<1>0. stack # <<>> /\ Top.pass # "collect"
  BY DEF ResolvingStep, PutOffTest, ResolveImport, AfterImport, ResolveDecl, EndResolve,
         Statement, Resolving, EndTests, EndDraining,
         Declaring, EnterDecl, FinishLiteral, FinishUndeclared, FinishPoisonedAlias,
         AwaitModule, FinishPoisonedModule, FinishReference, FinishCycle, ResolveTarget,
         CanLook, Running
<1>1. Top \in Frames /\ FitsProgram(program, Top)
  BY <1>0, TypeInvStack, GoodTop
<1>2. {} \in SUBSET Diagnostics
  OBVIOUS
<1>3. CASE PutOffTest
  BY <1>0, <1>3, FollowsAdvanced DEF PutOffTest, Statement
<1>4. CASE ResolveImport
  <2>1. CASE Here \in linked
    BY <1>0, <1>4, <2>1, FollowsWaiting, ResolveCalls DEF ResolveImport
  <2>2. CASE Here \notin linked
    BY <1>0, <1>4, <2>2, FollowsAdvanced DEF ResolveImport, Statement
  <2> QED
    BY <2>1, <2>2
<1>5. CASE AfterImport
  <2>1. Top.todo # <<>>
    BY <1>1, <1>5 DEF AfterImport, Resolving, Running, FitsProgram
  <2>2. PICK diags \in SUBSET Diagnostics : stack' = Advanced(diags)
    BY <1>0, <1>5, <2>1, HereType DEF AfterImport
  <2> QED
    BY <1>0, <2>1, <2>2, FollowsAdvanced
<1>6. CASE ResolveDecl
  BY <1>0, <1>6, FollowsAdvanced, HereType, DeclareCalls DEF ResolveDecl, Statement
<1>7. CASE EndResolve
  BY <1>0, <1>7, FollowsPopped DEF EndResolve
<1>8. CASE EndTests \/ EndDraining
  BY <1>0, <1>8, FollowsPopped DEF EndTests, EndDraining
<1>9. CASE Declaring
  <2>0. Top.pass = "declare" /\ Top.todo # <<>>
    BY <1>1, <1>9 DEF FitsProgram, Declaring, EnterDecl, FinishLiteral, FinishUndeclared,
         FinishPoisonedAlias, AwaitModule, FinishPoisonedModule, FinishReference, FinishCycle,
         ResolveTarget, CanLook, Running
  <2>1. CASE EnterDecl
    BY <1>0, <2>1, FollowsPopped, FollowsWaiting DEF EnterDecl
  <2>2. CASE AwaitModule
    BY <1>0, <2>2, FollowsWaiting, ResolveCalls DEF AwaitModule
  <2>3. CASE ResolveTarget
    BY <1>0, <2>0, <2>3, FollowsWaiting, TargetType, DeclareCalls DEF ResolveTarget, CanLook
  <2>4. CASE \/ FinishLiteral \/ FinishUndeclared \/ FinishPoisonedAlias
             \/ FinishPoisonedModule \/ FinishReference \/ FinishCycle
    <3>1. \A e \in {"importedModuleContainsErrors", "undeclaredIdentifier", "cyclicDependency"} :
            {Diagnostic(Here, e)} \in SUBSET Diagnostics
      BY <1>0, <2>0, HereType
    <3>2. \E status, others : \E diags \in SUBSET Diagnostics : Finish(status, others, diags)
      BY <1>2, <2>4, <3>1 DEF FinishLiteral, FinishUndeclared, FinishPoisonedAlias,
         FinishPoisonedModule, FinishReference, FinishCycle
    <3> QED
      BY <1>0, <3>2, FollowsFinish
  <2> QED
    BY <1>9, <2>1, <2>2, <2>3, <2>4 DEF Declaring
<1> QED
  BY <1>0, <1>3, <1>4, <1>5, <1>6, <1>7, <1>8, <1>9 DEF ResolvingStep

LEMMA ShapeFollows ==
    ASSUME TypeInv, StackShape, stack' \in Seq(Frames), Follows(stack', stack)
    PROVE  StackShape'
<1>1. /\ stack \in Seq(Frames)
      /\ Len(stack) \in Nat /\ DOMAIN stack = 1..Len(stack)
      /\ Len(stack') \in Nat /\ DOMAIN stack' = 1..Len(stack')
      /\ stack' # <<>> => 1 \in DOMAIN stack'
  BY DEF TypeInv, TypeOK
<1>2. /\ \/ \A k \in DOMAIN stack' : stack'[k].pass = "collect"
         \/ /\ \A k \in DOMAIN stack' : stack'[k].pass # "collect"
            /\ stack' # <<>> => stack'[1].pass = "resolve"
      /\ \A k \in DOMAIN stack' : stack'[k].at = "draining" => k = 1
  BY <1>1 DEF StackShape, Follows
<1>3. ASSUME NEW k \in DOMAIN stack', stack'[k].pass = "tests"
      PROVE  k = 2 /\ stack'[1].at = "draining"
  <2>1. k = 2 /\ stack[1].at = "draining"
    BY <1>3 DEF StackShape, Follows
  <2>2. 1 \in DOMAIN stack' /\ 1 # Len(stack)
    BY <1>1, <1>3, <2>1 DEF Follows
  <2> QED
    BY <2>1, <2>2 DEF Follows
<1> QED
  BY <1>2, <1>3 DEF StackShape

LEMMA ShapeCalls ==
    ASSUME TypeInv, StackShape, NEW f, Calls(stack', stack, f),
           stack = <<>> => f.pass \in {"collect", "resolve"},
           stack # <<>> => (Top.pass = "collect" <=> f.pass = "collect"),
           f.pass = "tests" => Len(stack) = 1 /\ Top.at = "draining" /\ stack' = Append(stack, f)
    PROVE  StackShape'
<1>1. PICK below \in Seq(Frames) :
        /\ Follows(below, stack) /\ DOMAIN below = DOMAIN stack
        /\ f \in Frames /\ f.at # "draining"
        /\ stack' = Append(below, f)
  BY DEF Calls
<1>2. /\ stack \in Seq(Frames)
      /\ Len(stack) \in Nat /\ DOMAIN stack = 1..Len(stack)
      /\ Len(below) = Len(stack)
      /\ stack # <<>> => Len(stack) \in DOMAIN stack /\ 1 \in DOMAIN stack
      /\ stack = <<>> => Len(stack) = 0
  BY <1>1 DEF TypeInv, TypeOK
<1>3. /\ DOMAIN stack' = 1..(Len(stack) + 1)
      /\ \A k \in DOMAIN stack : stack'[k] = below[k]
      /\ stack'[Len(stack) + 1] = f
  BY <1>1, <1>2, AppendIs
<1>4. \A k \in DOMAIN stack :
        /\ stack'[k].pass = stack[k].pass
        /\ stack'[k].at = "draining" => stack[k].at = "draining"
        /\ k # Len(stack) => stack'[k].at = stack[k].at
  BY <1>1, <1>3 DEF Follows
<1>5. CASE stack = <<>>
  BY <1>1, <1>2, <1>3, <1>5 DEF StackShape
<1>6. CASE stack # <<>>
  <2>1. /\ \/ \A k \in DOMAIN stack' : stack'[k].pass = "collect"
           \/ /\ \A k \in DOMAIN stack' : stack'[k].pass # "collect"
              /\ stack'[1].pass = "resolve"
    BY <1>2, <1>3, <1>4, <1>6 DEF StackShape, Top
  <2>2. \A k \in DOMAIN stack' : stack'[k].at = "draining" => k = 1
    BY <1>1, <1>2, <1>3, <1>4 DEF StackShape
  <2>3. ASSUME NEW k \in DOMAIN stack, stack'[k].pass = "tests"
        PROVE  k = 2 /\ stack'[1].at = "draining"
    <3>1. k = 2 /\ stack[1].at = "draining"
      BY <1>4, <2>3 DEF StackShape
    <3> QED
      BY <1>2, <1>4, <3>1
  <2>4. ASSUME f.pass = "tests"
        PROVE  Len(stack) + 1 = 2 /\ stack'[1].at = "draining"
    <3>1. Len(stack) = 1 /\ Top.at = "draining" /\ stack' = Append(stack, f)
      BY <2>4
    <3>2. stack'[1] = stack[1]
      BY <1>1, <1>2, <3>1, AppendIs
    <3> QED
      BY <3>1, <3>2 DEF Top
  <2>5. \A k \in DOMAIN stack' : stack'[k].pass = "tests" => k = 2 /\ stack'[1].at = "draining"
    BY <1>2, <1>3, <2>3, <2>4
  <2> QED
    BY <2>1, <2>2, <2>5 DEF StackShape
<1> QED
  BY <1>5, <1>6

\* The frame that drains the queue is the only one.
LEMMA OutermostIsAlone ==
    ASSUME TypeInv, StackShape, stack # <<>>, Top.pass = "resolve", IsOutermost
    PROVE  Len(stack) = 1
<1> DEFINE resolving == {i \in DOMAIN stack : stack[i].pass = "resolve"}
<1>1. /\ Len(stack) \in Nat /\ DOMAIN stack = 1..Len(stack)
      /\ Len(stack) \in DOMAIN stack /\ 1 \in DOMAIN stack
  BY DEF TypeInv, TypeOK
<1>2. Len(stack) \in resolving
  BY <1>1 DEF Top
<1>3. 1 \in resolving
  BY <1>1, <1>2 DEF StackShape
<1>4. IsFiniteSet(1..Len(stack))
  BY <1>1, FS_Interval
<1>5. IsFiniteSet(resolving)
  BY <1>1, <1>4, FS_Subset
<1>6. Cardinality(resolving) = 1
  BY DEF IsOutermost
<1>7. PICK x : resolving = {x}
  <2> HIDE DEF resolving
  <2> QED
    BY <1>5, <1>6, FS_Singleton
<1> QED
  BY <1>2, <1>3, <1>7

LEMMA ShapeNext == TypeInv /\ TypeInv' /\ StackShape /\ [Next]_vars => StackShape'
<1> SUFFICES ASSUME TypeInv, TypeInv', StackShape, [Next]_vars PROVE StackShape'
  OBVIOUS
<1>0. stack' \in Seq(Frames)
  BY DEF TypeInv, TypeOK
<1>1. CASE Collecting
  BY <1>0, <1>1, CollectingForm, ShapeFollows, ShapeCalls
<1>2. CASE ResolvingStep \/ Declaring \/ EndTests \/ EndDraining
  <2>1. /\ stack # <<>> /\ Top.pass # "collect"
        /\ \/ Follows(stack', stack)
           \/ \E f : f.pass \in {"resolve", "declare"} /\ Calls(stack', stack, f)
           \/ EndResolve /\ IsOutermost
    BY <1>2, ResolvingForm
  <2>2. CASE Follows(stack', stack)
    BY <1>0, <2>2, ShapeFollows
  <2>3. CASE \E f : f.pass \in {"resolve", "declare"} /\ Calls(stack', stack, f)
    BY <2>1, <2>3, ShapeCalls
  <2>4. CASE EndResolve /\ IsOutermost
    <3>1. Top.pass = "resolve" /\ Top \in Frames
      BY <2>1, <2>4, TypeInvStack, GoodTop DEF EndResolve, Running
    <3>2. Len(stack) = 1 /\ DOMAIN stack = {1} /\ stack \in Seq(Frames)
      BY <2>1, <2>4, <3>1, OutermostIsAlone DEF TypeInv, TypeOK
    <3>3. stack' = Waiting("draining")
      BY <2>4 DEF EndResolve
    <3>4. DOMAIN stack' = {1} /\ stack'[1].pass = "resolve"
      BY <3>1, <3>2, <3>3 DEF Waiting, WithTop, Frames
    <3> QED
      BY <3>4 DEF StackShape
  <2> QED
    BY <2>1, <2>2, <2>3, <2>4
<1>3. CASE StartTests
  <2> DEFINE f == [pass |-> "tests", mod |-> Head(pending), todo |-> deferred[Head(pending)],
                   at |-> "next", diags |-> {}]
  <2>1. stack # <<>> /\ Top.pass = "resolve" /\ Top.at = "draining" /\ stack' = Append(stack, f)
    BY <1>3 DEF StartTests, Running
  <2>2. f \in Frames /\ f.pass = "tests" /\ f.at # "draining"
    BY <1>3 DEF StartTests, TypeInv, TypeOK, Frames
  <2> HIDE DEF f
  <2>0. stack \in Seq(Frames) /\ Len(stack) \in DOMAIN stack
    BY <2>1, TypeInvStack, GoodTop DEF GoodStack
  <2>3. Len(stack) = 1 /\ stack \in Seq(Frames)
    BY <2>0, <2>1 DEF StackShape, Top
  <2>4. Calls(stack', stack, f)
    BY <2>1, <2>2, <2>3, FollowsItself DEF Calls
  <2> QED
    BY <2>1, <2>2, <2>3, <2>4, ShapeCalls
<1>4. CASE CollectRoot \/ ResolveRoot
  <2>1. stack = <<>> /\ stack \in Seq(Frames) /\ leftover \in SUBSET Diagnostics
    BY <1>4 DEF CollectRoot, ResolveRoot, At, TypeInv, TypeOK
  <2>2. \/ Follows(stack', stack)
        \/ \E f : f.pass \in {"collect", "resolve"} /\ Calls(stack', stack, f)
    <3>0. Follows(stack, stack) /\ TypeInv
      BY FollowsItself
    <3>1. CASE CollectRoot
      <4>1. Root \in Modules
        BY <3>1, RootType DEF CollectRoot, At
      <4>2. PICK st : CallCollect(stack, Root, st, leftover)
        BY <3>1 DEF CollectRoot
      <4>3. \/ Follows(stack', stack)
            \/ \E f : f.pass = "collect" /\ Calls(stack', stack, f)
        BY <2>1, <3>0, <4>1, <4>2, CollectCalls
      <4> QED
        BY <4>3
    <3>2. CASE ResolveRoot
      <4>1. CallResolve(stack, Root, leftover)
        BY <3>2 DEF ResolveRoot
      <4>2. \/ Follows(stack', stack)
            \/ \E f : f.pass = "resolve" /\ Calls(stack', stack, f)
        BY <2>1, <3>0, <4>1, ResolveCalls
      <4> QED
        BY <4>2
    <3> QED
      BY <1>4, <3>1, <3>2
  <2> QED
    BY <1>0, <2>1, <2>2, ShapeFollows, ShapeCalls
<1>5. CASE UNCHANGED stack
  BY <1>5 DEF StackShape
<1> QED
  BY <1>1, <1>2, <1>3, <1>4, <1>5
     DEF Next, Analyzer, Tests, Analyzing, RejectUnparsed, ReturnCancelled, Reject,
         RejectEmitted, Lower, Cancel, vars

LEMMA ShapeInvariant == Spec => [](TypeInv /\ StackShape)
<1>1. Init => StackShape
  BY DEF Init, StackShape
<1> QED
  BY <1>1, TypeInvInit, TypeInvNext, ShapeNext, PTL DEF Spec

\* Tests are resolved only when nothing else is, whatever the programs and the
\* order in which roots, imports and tests reach them.
THEOREM TestsAlwaysComeLast == Spec => []TestsComeLast
<1>1. TypeInv /\ StackShape => TestsComeLast
  <2> SUFFICES ASSUME TypeInv, StackShape,
                      NEW k \in DOMAIN stack, stack[k].pass = "tests",
                      NEW j \in 1..(k - 1)
               PROVE  stack[j].pass = "resolve" /\ stack[j].at = "draining"
    BY DEF TestsComeLast
  <2>1. k = 2 /\ j = 1 /\ stack[1].at = "draining"
    BY DEF StackShape
  <2>2. stack # <<>> /\ stack[k].pass # "collect"
    BY DEF TypeInv, TypeOK
  <2> QED
    BY <2>1, <2>2 DEF StackShape
<1> QED
  BY <1>1, ShapeInvariant, PTL

-----------------------------------------------------------------------------
(* Failures are explained, and neither they nor their reports are undone     *)

\* A module is collected by one pass at a time, and has not failed before.
CollectsOnce ==
    /\ \A k \in DOMAIN stack : stack[k].pass = "collect" =>
            state[stack[k].mod] = "parsed" /\ stack[k].mod \in collected
    /\ \A j, k \in DOMAIN stack :
            /\ stack[j].pass = "collect" /\ stack[k].pass = "collect"
            /\ stack[j].mod = stack[k].mod
            => j = k
FailureInv == CollectsOnce /\ FailureIsExplained

\* What a step keeps: failures and their reports.
FailuresAreKept ==
    \A m \in Modules : /\ IsPoisoned(m) => IsPoisoned(m)'
                       /\ reports[m] \subseteq reports'[m]

LEMMA FailuresUnchanged ==
    FailureIsExplained /\ UNCHANGED <<state, reports>> => FailureIsExplained' /\ FailuresAreKept
BY DEF FailureIsExplained, FailuresAreKept, IsPoisoned

LEMMA CollectsFollows ==
    ASSUME CollectsOnce, Follows(stack', stack), collected \subseteq collected',
           \A k \in DOMAIN stack' : stack'[k].pass = "collect" =>
                state'[stack'[k].mod] = state[stack'[k].mod]
    PROVE  CollectsOnce'
BY DEF CollectsOnce, Follows

\* Collecting a module that failed changes nothing.
LEMMA CallCollectFailures ==
    ASSUME TypeInv, FailureIsExplained, NEW below, NEW m \in Modules, NEW st, NEW diags,
           CallCollect(below, m, st, diags), UNCHANGED reports,
           \/ st = state[m]
           \/ state[m] \in {"unloaded", "errored"} /\ st \in {"parsed", "errored"}
    PROVE  FailureIsExplained' /\ FailuresAreKept
<1>1. \A n \in Modules : IsPoisoned(n)' <=> IsPoisoned(n)
  BY DEF CallCollect, IsPoisoned, TypeInv, TypeOK
<1> QED
  BY <1>1 DEF FailureIsExplained, FailuresAreKept

LEMMA CallCollectOnce ==
    ASSUME TypeInv, CollectsOnce, NEW below \in Seq(Frames), Follows(below, stack),
           DOMAIN below = DOMAIN stack, NEW m \in Modules, NEW st,
           NEW diags \in SUBSET Diagnostics, CallCollect(below, m, st, diags),
           st = state[m] \/ state[m] \in {"unloaded", "errored"}
    PROVE  CollectsOnce'
<1>1. \A n \in Modules : state[n] = "parsed" => state'[n] = "parsed"
  <2>1. state' = [state EXCEPT ![m] = st] /\ state \in [Modules -> States]
    BY DEF CallCollect, TypeInv, TypeOK
  <2>2. CASE st = state[m]
    BY <2>1, <2>2
  <2>3. CASE state[m] \in {"unloaded", "errored"}
    BY <2>1, <2>3
  <2> QED
    BY <2>2, <2>3
<1>2. collected \subseteq collected'
  BY DEF CallCollect
<1>3. \A k \in DOMAIN stack : stack[k].mod \in Modules
  <2>1. \A k \in DOMAIN stack : stack[k] \in Frames
    BY DEF TypeInv, TypeOK
  <2> QED
    BY <2>1 DEF Frames
<1>4. CASE stack' = below
  BY <1>1, <1>2, <1>3, <1>4 DEF CollectsOnce, Follows
<1>5. CASE stack' # below
  <2> DEFINE f == [pass |-> "collect", mod |-> m, todo |-> Body(m), at |-> "next",
                   diags |-> diags]
  <2>1. /\ st = "parsed" /\ m \notin collected /\ stack' = Append(below, f)
        /\ state' = [state EXCEPT ![m] = st] /\ collected' = collected \cup {m}
    BY <1>5 DEF CallCollect
  <2>2. f \in Frames /\ f.mod = m
    BY BodyType DEF Frames
  <2> HIDE DEF f
  <2>3. /\ DOMAIN below = 1..Len(below) /\ Len(below) \in Nat
        /\ DOMAIN stack' = 1..(Len(below) + 1)
        /\ \A k \in DOMAIN below : stack'[k] = below[k]
        /\ stack'[Len(below) + 1] = f
    BY <2>1, <2>2, AppendIs
  <2>4. state'[m] = "parsed" /\ m \in collected'
    BY <2>1 DEF TypeInv, TypeOK
  <2>5. ASSUME NEW k \in DOMAIN stack', stack'[k].pass = "collect"
        PROVE  /\ state'[stack'[k].mod] = "parsed" /\ stack'[k].mod \in collected'
               /\ stack'[k].mod = m => k = Len(below) + 1
    <3>1. CASE k = Len(below) + 1
      BY <2>2, <2>3, <2>4, <3>1
    <3>2. CASE k \in DOMAIN below
      <4>1. stack'[k].pass = stack[k].pass /\ stack'[k].mod = stack[k].mod /\ k \in DOMAIN stack
        BY <2>3, <3>2 DEF Follows
      <4>2. state[stack[k].mod] = "parsed" /\ stack[k].mod \in collected
        BY <2>5, <4>1 DEF CollectsOnce
      <4> QED
        BY <1>1, <1>2, <1>3, <2>1, <4>1, <4>2
    <3> QED
      BY <2>3, <2>5, <3>1, <3>2
  <2>6. ASSUME NEW j \in DOMAIN stack', NEW k \in DOMAIN stack',
               stack'[j].pass = "collect", stack'[k].pass = "collect",
               stack'[j].mod = stack'[k].mod
        PROVE  j = k
    <3>1. CASE stack'[j].mod = m
      BY <2>5, <2>6, <3>1
    <3>2. CASE stack'[j].mod # m
      <4>1. j \in DOMAIN below /\ k \in DOMAIN below
        BY <2>2, <2>3, <2>6, <3>2
      <4>2. /\ stack'[j].pass = stack[j].pass /\ stack'[j].mod = stack[j].mod
            /\ stack'[k].pass = stack[k].pass /\ stack'[k].mod = stack[k].mod
            /\ j \in DOMAIN stack /\ k \in DOMAIN stack
        BY <2>3, <4>1 DEF Follows
      <4> QED
        BY <2>6, <4>2 DEF CollectsOnce
    <3> QED
      BY <3>1, <3>2
  <2> QED
    BY <2>5, <2>6 DEF CollectsOnce
<1> QED
  BY <1>4, <1>5

\* Resolving a module keeps it failed if it had failed.
LEMMA CallResolveFailures ==
    ASSUME TypeInv, FailureIsExplained, NEW below, NEW m, NEW diags,
           CallResolve(below, m, diags), UNCHANGED reports
    PROVE  FailureIsExplained' /\ FailuresAreKept
<1>1. \A n \in Modules : IsPoisoned(n)' <=> IsPoisoned(n)
  BY DEF CallResolve, IsResolvable, IsPoisoned, TypeInv, TypeOK
<1> QED
  BY <1>1 DEF FailureIsExplained, FailuresAreKept

LEMMA FailureCollecting ==
    TypeInv /\ FailureInv /\ Collecting => FailureInv' /\ FailuresAreKept
<1> SUFFICES ASSUME TypeInv, FailureInv, Collecting PROVE FailureInv' /\ FailuresAreKept
  OBVIOUS
<1>0. /\ stack # <<>> /\ Top.pass = "collect"
      /\ Top \in Frames /\ FitsProgram(program, Top)
      /\ stack \in Seq(Frames) /\ Len(stack) \in DOMAIN stack
  BY CollectingForm, TypeInvStack, GoodTop DEF GoodStack
<1>1. CASE CollectDecl \/ CollectMissingImport \/ LinkImport
  <2>1. Top.todo # <<>>
    BY <1>0, <1>1 DEF CollectDecl, CollectMissingImport, LinkImport, Running, FitsProgram
  <2>2. PICK diags \in SUBSET Diagnostics : stack' = Advanced(diags)
    BY <1>0, <1>1, <2>1, HereType DEF CollectDecl, CollectMissingImport, LinkImport
  <2>3. Follows(stack', stack)
    BY <1>0, <2>1, <2>2, FollowsAdvanced
  <2>4. UNCHANGED <<state, reports, collected>>
    BY <1>1 DEF CollectDecl, CollectMissingImport, LinkImport
  <2> QED
    BY <2>3, <2>4, FailuresUnchanged, CollectsFollows DEF FailureInv
<1>2. CASE CollectImport
  <2>0. PICK m \in Modules : m = This.to
    BY <1>2 DEF CollectImport
  <2>1. UNCHANGED reports /\ CallCollect(Waiting("imported"), m, LoadedState(m), {})
    BY <1>2, <2>0 DEF CollectImport
  <2>2. \/ LoadedState(m) = state[m]
        \/ state[m] = "unloaded" /\ LoadedState(m) \in {"parsed", "errored"}
    BY DEF LoadedState
  <2>3. /\ Follows(Waiting("imported"), stack) /\ Waiting("imported") \in Seq(Frames)
        /\ DOMAIN Waiting("imported") = DOMAIN stack
    BY <1>0, FollowsWaiting
  <2>4. CollectsOnce'
    BY <2>1, <2>2, <2>3, CallCollectOnce DEF FailureInv
  <2>5. FailureIsExplained' /\ FailuresAreKept
    BY <2>1, <2>2, CallCollectFailures DEF FailureInv
  <2> QED
    BY <2>4, <2>5 DEF FailureInv
<1>3. CASE EndCollect
  <2>0. PICK m \in Modules : m = Top.mod
    BY <1>0 DEF Frames
  <2>1. state[m] = "parsed" /\ Top.diags \in SUBSET Diagnostics
    BY <1>0, <2>0 DEF FailureInv, CollectsOnce, Top, Frames
  <2>2. reports[m] = {}
    BY <2>1 DEF FailureInv, FailureIsExplained, IsPoisoned
  <2>3. /\ stack' = Popped /\ UNCHANGED collected
        /\ \/ /\ Top.diags # {}
              /\ state' = [state EXCEPT ![m] = "poisonedCollection"]
              /\ reports' = [reports EXCEPT ![m] = Top.diags]
           \/ /\ state' = [state EXCEPT ![m] = "symbolsCollected"]
              /\ reports' = reports
    BY <1>3, <2>0 DEF EndCollect
  <2>4. Follows(Popped, stack) /\ Popped \in Seq(Frames) /\ Len(stack) \notin DOMAIN Popped
    BY <1>0, FollowsPopped, PoppedIs
  <2>5. ASSUME NEW k \in DOMAIN Popped, Popped[k].pass = "collect"
        PROVE  Popped[k].mod # m /\ Popped[k].mod \in Modules
    <3>1. /\ k \in DOMAIN stack /\ k # Len(stack)
          /\ stack[k].pass = "collect" /\ stack[k].mod = Popped[k].mod
      BY <2>4, <2>5 DEF Follows
    <3>2. stack[Len(stack)].pass = "collect" /\ stack[Len(stack)].mod = m
      BY <1>0, <2>0 DEF Top
    <3>3. Popped[k].mod # m
      BY <1>0, <3>1, <3>2 DEF FailureInv, CollectsOnce
    <3>4. Popped[k] \in Frames
      BY <2>4
    <3> QED
      BY <3>3, <3>4 DEF Frames
  <2>6. \A n \in Modules : n # m => state'[n] = state[n] /\ reports'[n] = reports[n]
    BY <2>1, <2>3 DEF TypeInv, TypeOK
  <2>7. CollectsOnce'
    <3>1. \A k \in DOMAIN stack' : stack'[k].pass = "collect" =>
                state'[stack'[k].mod] = state[stack'[k].mod]
      BY <2>3, <2>5, <2>6
    <3> QED
      BY <2>3, <2>4, <3>1, CollectsFollows DEF FailureInv
  <2>8. /\ IsPoisoned(m)' <=> reports'[m] # {}
        /\ ~IsPoisoned(m) /\ reports[m] \subseteq reports'[m]
    BY <2>1, <2>2, <2>3 DEF IsPoisoned, TypeInv, TypeOK
  <2>9. ASSUME NEW n \in Modules
        PROVE  /\ IsPoisoned(n)' <=> reports'[n] # {}
               /\ IsPoisoned(n) => IsPoisoned(n)'
               /\ reports[n] \subseteq reports'[n]
    <3>1. CASE n = m
      BY <2>8, <3>1
    <3>2. CASE n # m
      BY <2>6, <3>2 DEF FailureInv, FailureIsExplained, IsPoisoned
    <3> QED
      BY <3>1, <3>2
  <2> QED
    BY <2>7, <2>9 DEF FailureInv, FailureIsExplained, FailuresAreKept
<1> QED
  BY <1>1, <1>2, <1>3 DEF Collecting

\* While types are resolved nothing is being collected.
LEMMA ResolvingCollectsNothing ==
    ASSUME TypeInv, StackShape,
           ResolvingStep \/ Declaring \/ EndTests \/ EndDraining \/ StartTests
    PROVE  CollectsOnce'
<1>1. stack # <<>> /\ Top.pass # "collect" /\ stack \in Seq(Frames) /\ Len(stack) \in DOMAIN stack
  BY ResolvingForm, TypeInvStack, GoodTop DEF GoodStack, StartTests, Running
<1>2. \A k \in DOMAIN stack : stack[k].pass # "collect"
  BY <1>1 DEF StackShape, Top
<1>3. CASE Follows(stack', stack)
  BY <1>2, <1>3 DEF Follows, CollectsOnce
<1>4. ASSUME NEW f, f.pass # "collect", Calls(stack', stack, f)
      PROVE  CollectsOnce'
  <2>1. PICK below \in Seq(Frames) :
            /\ Follows(below, stack) /\ f \in Frames /\ stack' = Append(below, f)
    BY <1>4 DEF Calls
  <2>2. /\ DOMAIN below = 1..Len(below) /\ Len(below) \in Nat
        /\ DOMAIN stack' = 1..(Len(below) + 1)
        /\ \A k \in DOMAIN below : stack'[k] = below[k]
        /\ stack'[Len(below) + 1] = f
    BY <2>1, AppendIs
  <2>3. \A k \in DOMAIN below : below[k].pass # "collect"
    BY <1>2, <2>1 DEF Follows
  <2>4. \A k \in DOMAIN stack' : stack'[k].pass # "collect"
    BY <1>4, <2>2, <2>3
  <2> QED
    BY <2>4 DEF CollectsOnce
<1>5. CASE EndResolve /\ IsOutermost
  <2> DEFINE f == [Top EXCEPT !.at = "draining"]
  <2>1. f \in Frames /\ f.pass = Top.pass
    BY <1>1, GoodTop, TypeInvStack DEF Frames
  <2>2. stack' = WithTop(f)
    BY <1>5 DEF EndResolve, Waiting
  <2> HIDE DEF f
  <2>3. \A k \in DOMAIN stack' : stack'[k].pass # "collect"
    BY <1>1, <1>2, <2>1, <2>2, WithTopIs
  <2> QED
    BY <2>3 DEF CollectsOnce
<1>6. CASE StartTests
  <2> DEFINE f == [pass |-> "tests", mod |-> Head(pending), todo |-> deferred[Head(pending)],
                   at |-> "next", diags |-> {}]
  <2>1. stack' = Append(stack, f)
    BY <1>6 DEF StartTests
  <2>2. f \in Frames /\ f.pass # "collect" /\ f.at # "draining"
    BY <1>6 DEF StartTests, TypeInv, TypeOK, Frames
  <2> HIDE DEF f
  <2>3. Calls(stack', stack, f)
    BY <1>1, <2>1, <2>2, FollowsItself DEF Calls
  <2> QED
    BY <1>4, <2>2, <2>3
<1> QED
  BY <1>3, <1>4, <1>5, <1>6, ResolvingForm

\* The end of a pass poisons its module exactly if there is something to report.
LEMMA AbsorbedFailures ==
    ASSUME TypeInv, FailureIsExplained, NEW m \in Modules, NEW diags, NEW st,
           st = IF diags # {} \/ IsPoisoned(m) THEN "poisonedResolved" ELSE "resolved",
           state' = [state EXCEPT ![m] = st],
           reports' = Absorbed(m, diags)
    PROVE  FailureIsExplained' /\ FailuresAreKept
<1>1. /\ \A n \in Modules : n # m => state'[n] = state[n] /\ reports'[n] = reports[n]
      /\ state'[m] = st /\ reports'[m] = reports[m] \cup diags
  BY DEF TypeInv, TypeOK, Absorbed
<1>2. /\ IsPoisoned(m)' <=> reports'[m] # {}
      /\ IsPoisoned(m) => IsPoisoned(m)'
      /\ reports[m] \subseteq reports'[m]
  BY <1>1 DEF FailureIsExplained, IsPoisoned
<1>3. ASSUME NEW n \in Modules
      PROVE  /\ IsPoisoned(n)' <=> reports'[n] # {}
             /\ IsPoisoned(n) => IsPoisoned(n)'
             /\ reports[n] \subseteq reports'[n]
  <2>1. CASE n = m
    BY <1>2, <2>1
  <2>2. CASE n # m
    BY <1>1, <2>2 DEF FailureIsExplained, IsPoisoned
  <2> QED
    BY <2>1, <2>2
<1> QED
  BY <1>3 DEF FailureIsExplained, FailuresAreKept

LEMMA FailureResolving ==
    ASSUME TypeInv, StackShape, FailureInv,
           ResolvingStep \/ Declaring \/ EndTests \/ EndDraining \/ StartTests
    PROVE  FailureInv' /\ FailuresAreKept
<1>0. CollectsOnce' /\ FailureIsExplained
  BY ResolvingCollectsNothing DEF FailureInv
<1> SUFFICES FailureIsExplained' /\ FailuresAreKept
  BY <1>0 DEF FailureInv
<1>1. CASE UNCHANGED <<state, reports>>
  BY <1>0, <1>1, FailuresUnchanged
<1>2. CASE ResolveImport \/ AwaitModule
  <2>1. \/ UNCHANGED <<state, reports>>
        \/ /\ UNCHANGED reports
           /\ \E below, m : CallResolve(below, m, {})
    BY <1>2 DEF ResolveImport, AwaitModule
  <2> QED
    BY <1>0, <1>1, <2>1, CallResolveFailures
<1>3. CASE EndResolve \/ EndTests
  <2>1. stack # <<>>
    BY <1>3 DEF EndResolve, EndTests, Running
  <2>2. PICK m \in Modules : m = Top.mod
    BY <2>1, TypeInvStack, GoodTop DEF Frames
  <2>3. CASE EndResolve
    <3> DEFINE st == IF Top.diags # {} \/ IsPoisoned(m) THEN "poisonedResolved" ELSE "resolved"
    <3>1. state' = [state EXCEPT ![m] = st] /\ reports' = Absorbed(m, Top.diags)
      BY <2>2, <2>3 DEF EndResolve
    <3> QED
      BY <1>0, <3>1, AbsorbedFailures
  <2>4. CASE EndTests
    <3> DEFINE st == IF Top.diags # {} THEN "poisonedResolved" ELSE state[m]
    <3>1. reports' = Absorbed(m, Top.diags)
      BY <2>2, <2>4 DEF EndTests
    <3>2. state' = [state EXCEPT ![m] = st]
      BY <2>2, <2>4 DEF EndTests, TypeInv, TypeOK
    <3> QED
      BY <1>0, <3>1, <3>2 DEF FailureIsExplained, FailuresAreKept, IsPoisoned, Absorbed,
         TypeInv, TypeOK
  <2> QED
    BY <1>3, <2>3, <2>4
<1>4. \/ UNCHANGED <<state, reports>>
      \/ ResolveImport \/ AwaitModule
      \/ EndResolve \/ EndTests
  BY DEF ResolvingStep, PutOffTest, ResolveImport, AfterImport, ResolveDecl, EndDraining,
         StartTests, Finish,
         Declaring, EnterDecl, FinishLiteral, FinishUndeclared, FinishPoisonedAlias,
         FinishPoisonedModule, FinishReference, FinishCycle, ResolveTarget
<1> QED
  BY <1>1, <1>2, <1>3, <1>4

LEMMA FailureAnalyzing ==
    ASSUME TypeInv, FailureInv, Analyzing
    PROVE  FailureInv' /\ FailuresAreKept
<1>0. /\ stack = <<>> /\ stack \in Seq(Frames) /\ Follows(stack, stack) /\ Root \in Modules
      /\ leftover \in SUBSET Diagnostics
  BY RootType, FollowsItself
     DEF Analyzing, RejectUnparsed, CollectRoot, ResolveRoot, ReturnCancelled, Reject,
         RejectEmitted, Lower, At, TypeInv, TypeOK
<1>1. PICK m \in Modules : m = Root
  BY <1>0
<1>2. CASE RejectUnparsed
  <2>1. /\ state[m] \in {"unloaded", "errored"} /\ stack' = stack
        /\ state' = [state EXCEPT ![m] = "errored"] /\ UNCHANGED reports
    BY <1>1, <1>2 DEF RejectUnparsed, LoadedState
  <2>2. \A n \in Modules : IsPoisoned(n)' <=> IsPoisoned(n)
    BY <2>1 DEF IsPoisoned, TypeInv, TypeOK
  <2> QED
    BY <1>0, <2>1, <2>2 DEF FailureInv, CollectsOnce, FailureIsExplained, FailuresAreKept
<1>3. CASE CollectRoot
  <2> DEFINE st == IF LoadedState(m) = "errored" THEN "parsed" ELSE LoadedState(m)
  <2>1. CallCollect(stack, m, st, leftover) /\ UNCHANGED reports
    BY <1>1, <1>3 DEF CollectRoot
  <2>2. \/ st = state[m]
        \/ state[m] \in {"unloaded", "errored"} /\ st \in {"parsed", "errored"}
    BY DEF LoadedState
  <2> HIDE DEF st
  <2>3. CollectsOnce'
    BY <1>0, <2>1, <2>2, CallCollectOnce DEF FailureInv
  <2>4. FailureIsExplained' /\ FailuresAreKept
    BY <2>1, <2>2, CallCollectFailures DEF FailureInv
  <2> QED
    BY <2>3, <2>4 DEF FailureInv
<1>4. CASE ResolveRoot
  <2>1. CallResolve(stack, m, leftover) /\ UNCHANGED reports
    BY <1>1, <1>4 DEF ResolveRoot
  <2>2. FailureIsExplained' /\ FailuresAreKept
    BY <2>1, CallResolveFailures DEF FailureInv
  <2>3. CollectsOnce'
    <3>1. CASE stack' = <<>>
      BY <3>1 DEF CollectsOnce
    <3>2. CASE stack' # <<>>
      <4> DEFINE f == [pass |-> "resolve", mod |-> m, todo |-> Body(m), at |-> "next",
                       diags |-> leftover]
      <4>1. stack' = <<f>>
        BY <1>0, <2>1, <3>2 DEF CallResolve
      <4> QED
        BY <4>1 DEF CollectsOnce
    <3> QED
      BY <3>1, <3>2
  <2> QED
    BY <2>2, <2>3 DEF FailureInv
<1>5. CASE RejectEmitted
  <2>1. /\ ~IsPoisoned(m) /\ leftover # {} /\ stack' = stack
        /\ state' = [state EXCEPT ![m] = "poisonedResolved"]
        /\ reports' = [reports EXCEPT ![m] = leftover]
    BY <1>1, <1>5 DEF RejectEmitted
  <2>2. reports[m] = {}
    BY <2>1 DEF FailureInv, FailureIsExplained
  <2>3. \A n \in Modules : n # m => state'[n] = state[n] /\ reports'[n] = reports[n]
    BY <2>1 DEF TypeInv, TypeOK
  <2>4. IsPoisoned(m)' /\ reports'[m] = leftover
    BY <2>1 DEF IsPoisoned, TypeInv, TypeOK
  <2>5. ASSUME NEW n \in Modules
        PROVE  /\ IsPoisoned(n)' <=> reports'[n] # {}
               /\ IsPoisoned(n) => IsPoisoned(n)'
               /\ reports[n] \subseteq reports'[n]
    <3>1. CASE n = m
      BY <2>1, <2>2, <2>4, <3>1
    <3>2. CASE n # m
      BY <2>3, <3>2 DEF FailureInv, FailureIsExplained, IsPoisoned
    <3> QED
      BY <3>1, <3>2
  <2> QED
    BY <1>0, <2>1, <2>5 DEF FailureInv, CollectsOnce, FailureIsExplained, FailuresAreKept
<1>6. CASE ReturnCancelled \/ Reject \/ Lower
  <2>1. UNCHANGED <<stack, state, reports, collected>>
    BY <1>6 DEF ReturnCancelled, Reject, Lower
  <2> QED
    BY <1>0, <2>1, FailuresUnchanged DEF FailureInv, CollectsOnce
<1> QED
  BY <1>2, <1>3, <1>4, <1>5, <1>6 DEF Analyzing

LEMMA FailureNext ==
    TypeInv /\ StackShape /\ FailureInv /\ [Next]_vars => FailureInv' /\ FailuresAreKept
<1> SUFFICES ASSUME TypeInv, StackShape, FailureInv, [Next]_vars
             PROVE  FailureInv' /\ FailuresAreKept
  OBVIOUS
<1>1. CASE Cancel \/ UNCHANGED vars
  <2>1. UNCHANGED <<stack, state, reports, collected>>
    BY <1>1 DEF Cancel, vars
  <2> QED
    BY <2>1, FailuresUnchanged DEF FailureInv, CollectsOnce
<1>2. CASE Collecting
  BY <1>2, FailureCollecting
<1>3. CASE Analyzing
  BY <1>3, FailureAnalyzing
<1>4. CASE ResolvingStep \/ Tests \/ Declaring
  BY <1>4, FailureResolving DEF Tests
<1> QED
  BY <1>1, <1>2, <1>3, <1>4 DEF Next, Analyzer

LEMMA FailureInvariant == Spec => [](TypeInv /\ StackShape /\ FailureInv)
<1>1. Init => FailureInv
  BY DEF Init, FailureInv, CollectsOnce, FailureIsExplained, IsPoisoned
<1> QED
  BY <1>1, FailureNext, ShapeInvariant, PTL DEF Spec

\* A module is poisoned exactly if it has something to report, at every step.
THEOREM FailuresAreExplained == Spec => []FailureIsExplained
<1>1. FailureInv => FailureIsExplained
  BY DEF FailureInv
<1> QED
  BY <1>1, FailureInvariant, PTL

\* A module that failed stays failed, and what it reported it goes on reporting,
\* through every pass and every root.
THEOREM NothingIsEverUndone == Spec => NothingIsUndone
<1>1. TypeInv /\ StackShape /\ FailureInv /\ [Next]_vars
        => [\A m \in Modules : /\ IsPoisoned(m) => IsPoisoned(m)'
                               /\ reports[m] \subseteq reports'[m]]_vars
  BY FailureNext DEF FailuresAreKept
<1> QED
  BY <1>1, FailureInvariant, PTL DEF Spec, NothingIsUndone

-----------------------------------------------------------------------------
(* What is under way                                                        *)

\* Declaration n has been entered and not left.
Declares(s, n) ==
    \E k \in DOMAIN s : /\ s[k].pass = "declare" /\ s[k].at # "entered"
                        /\ n = <<s[k].mod, Head(s[k].todo)>>

\* The queue of tests will be looked at again.
WillDrain(s) == \E k \in DOMAIN s : s[k].pass = "resolve"

HalfResolved(m) == state[m] \in {"resolving", "poisonedResolving"}

ModulesUnderWay == \A m \in Modules : HalfResolved(m) => Resolves(stack, m)
SymbolsUnderWay == \A n \in Nodes : symbol[n] = "resolving" => Declares(stack, n)
TestsUnderWay == \A m \in Modules : deferred[m] # <<>> => Queued(m) \/ Resolves(stack, m)
QueueUnderWay == pending # <<>> => WillDrain(stack)

HalfDoneIsUnderWay ==
    ModulesUnderWay /\ SymbolsUnderWay /\ TestsUnderWay /\ QueueUnderWay

-----------------------------------------------------------------------------
(* What a step leaves on the stack                                          *)

\* What a frame is busy with.
SameWork(f, g) == f.pass = g.pass /\ f.mod = g.mod /\ f.todo = g.todo

\* The passes below the top go on waiting.
KeepsBelow(t, s) ==
    \A k \in DOMAIN s : k # Len(s) => k \in DOMAIN t /\ SameWork(t[k], s[k]) /\ t[k].at = s[k].at

\* So does the one on top, or it goes on.
KeepsTop(t, s) ==
    /\ KeepsBelow(t, s)
    /\ Len(s) \in DOMAIN s =>
         /\ Len(s) \in DOMAIN t
         /\ t[Len(s)].pass = s[Len(s)].pass /\ t[Len(s)].mod = s[Len(s)].mod
         /\ s[Len(s)].pass = "declare" => t[Len(s)].todo = s[Len(s)].todo
         /\ t[Len(s)].at \notin {"draining", "entered"}

LEMMA KeptBelow ==
    ASSUME TypeInv, stack # <<>>, KeepsBelow(stack', stack)
    PROVE  /\ \A m \in Modules :
                Resolves(stack, m) /\ ~(Top.pass = "resolve" /\ Top.mod = m /\ Top.at # "draining")
                => Resolves(stack', m)
           /\ \A n \in Nodes :
                Declares(stack, n) /\ ~(Top.pass = "declare" /\ Top.at # "entered" /\ n = Here)
                => Declares(stack', n)
           /\ WillDrain(stack) /\ Top.pass # "resolve" => WillDrain(stack')
BY DEF KeepsBelow, SameWork, Resolves, Declares, WillDrain, Top, Here

LEMMA KeptTop ==
    ASSUME TypeInv, KeepsTop(stack', stack)
    PROVE  /\ \A m \in Modules : Resolves(stack, m) => Resolves(stack', m)
           /\ \A n \in Nodes : Declares(stack, n) => Declares(stack', n)
           /\ WillDrain(stack) => WillDrain(stack')
BY DEF KeepsTop, KeepsBelow, SameWork, Resolves, Declares, WillDrain

LEMMA KeepsPopped ==
    ASSUME TypeInv, stack # <<>>
    PROVE  KeepsBelow(Popped, stack)
<1>1. stack \in Seq(Frames) /\ Len(stack) \in Nat /\ DOMAIN stack = 1..Len(stack)
  BY DEF TypeInv, TypeOK
<1>2. DOMAIN Popped = 1..(Len(stack) - 1) /\ \A k \in DOMAIN Popped : Popped[k] = stack[k]
  BY <1>1, PoppedIs
<1> QED
  BY <1>1, <1>2 DEF KeepsBelow, SameWork

LEMMA KeepsReported ==
    ASSUME TypeInv, stack # <<>>, NEW diags \in SUBSET Diagnostics
    PROVE  KeepsBelow(Reported(Popped, diags), stack)
<1>1. KeepsBelow(Popped, stack) /\ Popped \in Seq(Frames)
  BY KeepsPopped, FollowsPopped
<1>2. PICK s \in Seq(Frames) : s = Popped
  BY <1>1
<1>3. /\ DOMAIN Reported(s, diags) = DOMAIN s
      /\ \A k \in DOMAIN s : /\ SameWork(Reported(s, diags)[k], s[k])
                             /\ Reported(s, diags)[k].at = s[k].at
  BY ReportedIs DEF SameWork
<1> QED
  BY <1>1, <1>2, <1>3 DEF KeepsBelow, SameWork

LEMMA KeepsWithTop ==
    ASSUME TypeInv, stack # <<>>, NEW f \in Frames, f.pass = Top.pass, f.mod = Top.mod,
           Top.pass = "declare" => f.todo = Top.todo,
           f.at \notin {"draining", "entered"}
    PROVE  KeepsTop(WithTop(f), stack)
<1>1. stack \in Seq(Frames)
  BY DEF TypeInv, TypeOK
<1>2. /\ DOMAIN WithTop(f) = DOMAIN stack
      /\ WithTop(f)[Len(stack)] = f
      /\ \A k \in DOMAIN stack : k # Len(stack) => WithTop(f)[k] = stack[k]
  BY <1>1, WithTopIs
<1> QED
  BY <1>2 DEF KeepsTop, KeepsBelow, SameWork, Top

LEMMA KeepsWaiting ==
    ASSUME TypeInv, stack # <<>>, NEW at \in {"imported", "started", "awaited", "looking"}
    PROVE  KeepsTop(Waiting(at), stack)
<1> DEFINE f == [Top EXCEPT !.at = at]
<1>1. Top \in Frames
  BY TypeInvStack, GoodTop
<1>2. /\ f \in Frames /\ f.pass = Top.pass /\ f.mod = Top.mod /\ f.todo = Top.todo
      /\ f.at \notin {"draining", "entered"}
  BY <1>1 DEF Frames
<1> HIDE DEF f
<1>3. KeepsTop(WithTop(f), stack)
  BY <1>2, KeepsWithTop
<1> QED
  BY <1>3 DEF Waiting, f

LEMMA KeepsAdvanced ==
    ASSUME TypeInv, stack # <<>>, Top.pass # "declare", Top.todo # <<>>,
           NEW diags \in SUBSET Diagnostics
    PROVE  KeepsTop(Advanced(diags), stack)
<1> DEFINE f == [Top EXCEPT !.todo = Tail(@), !.at = "next", !.diags = @ \cup diags]
<1>1. Top \in Frames
  BY TypeInvStack, GoodTop
<1>2. Tail(Top.todo) \in Seq(Indices)
  BY <1>1 DEF Frames
<1>3. /\ f \in Frames /\ f.pass = Top.pass /\ f.mod = Top.mod
      /\ f.at \notin {"draining", "entered"}
  BY <1>1, <1>2 DEF Frames
<1> HIDE DEF f
<1>4. KeepsTop(WithTop(f), stack)
  BY <1>3, KeepsWithTop
<1> QED
  BY <1>4 DEF Advanced, f

\* A call puts one pass on top.
LEMMA KeepsAppend ==
    ASSUME TypeInv, NEW below \in Seq(Frames), KeepsTop(below, stack),
           NEW f \in Frames
    PROVE  /\ KeepsTop(Append(below, f), stack)
           /\ \E k \in DOMAIN Append(below, f) : Append(below, f)[k] = f
<1>1. /\ DOMAIN Append(below, f) = 1..(Len(below) + 1)
      /\ \A k \in 1..Len(below) : Append(below, f)[k] = below[k]
      /\ Append(below, f)[Len(below) + 1] = f
  BY AppendIs
<1>2. DOMAIN below = 1..Len(below) /\ Len(below) \in Nat
  OBVIOUS
<1>3. \A k \in DOMAIN below : k \in DOMAIN Append(below, f) /\ Append(below, f)[k] = below[k]
  BY <1>1, <1>2
<1>4. Len(below) + 1 \in DOMAIN Append(below, f)
  BY <1>1, <1>2
<1> QED
  BY <1>1, <1>3, <1>4 DEF KeepsTop, KeepsBelow, SameWork

LEMMA KeepsEmpty == KeepsTop(<<>>, <<>>)
BY DEF KeepsTop, KeepsBelow

-----------------------------------------------------------------------------
(* The invariant is inductive                                               *)

\* A step that leaves every pass where it is, or calls one.
LEMMA GoesOn ==
    ASSUME TypeInv, HalfDoneIsUnderWay, KeepsTop(stack', stack),
           \A m \in Modules : HalfResolved(m)' => HalfResolved(m) \/ Resolves(stack', m),
           \A n \in Nodes : symbol'[n] = "resolving" =>
                                symbol[n] = "resolving" \/ Declares(stack', n),
           \A m \in Modules : deferred'[m] # <<>> =>
                                deferred[m] # <<>> \/ Resolves(stack', m),
           UNCHANGED pending
    PROVE  HalfDoneIsUnderWay'
<1>1. /\ \A m \in Modules : Resolves(stack, m) => Resolves(stack', m)
      /\ \A n \in Nodes : Declares(stack, n) => Declares(stack', n)
      /\ WillDrain(stack) => WillDrain(stack')
  BY KeptTop
<1>2. \A m \in Modules : Queued(m)' <=> Queued(m)
  BY DEF Queued
<1> QED
  BY <1>1, <1>2 DEF HalfDoneIsUnderWay, ModulesUnderWay, SymbolsUnderWay, TestsUnderWay,
                    QueueUnderWay

\* A step that ends the pass on top, or its statements.
ToppedBy(m) == Top.pass = "resolve" /\ Top.mod = m /\ Top.at # "draining"
InTop(n) == Top.pass = "declare" /\ Top.at # "entered" /\ n = Here

LEMMA EndsTop ==
    ASSUME TypeInv, HalfDoneIsUnderWay, stack # <<>>, KeepsBelow(stack', stack),
           \A m \in Modules : HalfResolved(m)' => HalfResolved(m) /\ ~ToppedBy(m),
           \A n \in Nodes : symbol'[n] = "resolving" => symbol[n] = "resolving" /\ ~InTop(n),
           \A m \in Modules : deferred'[m] # <<>> =>
                \/ Queued(m)'
                \/ deferred[m] # <<>> /\ ~Queued(m) /\ ~ToppedBy(m),
           pending' # <<>> => WillDrain(stack') \/ (pending # <<>> /\ Top.pass # "resolve")
    PROVE  HalfDoneIsUnderWay'
<1>1. /\ \A m \in Modules : Resolves(stack, m) /\ ~ToppedBy(m) => Resolves(stack', m)
      /\ \A n \in Nodes : Declares(stack, n) /\ ~InTop(n) => Declares(stack', n)
      /\ WillDrain(stack) /\ Top.pass # "resolve" => WillDrain(stack')
  BY KeptBelow DEF ToppedBy, InTop
<1> QED
  BY <1>1 DEF HalfDoneIsUnderWay, ModulesUnderWay, SymbolsUnderWay, TestsUnderWay,
              QueueUnderWay

\* A call of symbol collection takes no module back to being resolved.
LEMMA CollectGoesOn ==
    ASSUME TypeInv, HalfDoneIsUnderWay, NEW below \in Seq(Frames), KeepsTop(below, stack),
           NEW m \in Modules, NEW st, NEW diags \in SUBSET Diagnostics,
           CallCollect(below, m, st, diags),
           st = state[m] \/ st \in {"parsed", "errored"},
           UNCHANGED <<symbol, deferred, pending>>
    PROVE  HalfDoneIsUnderWay'
<1>1. \A n \in Modules : HalfResolved(n)' => HalfResolved(n)
  BY DEF CallCollect, HalfResolved, TypeInv, TypeOK
<1>2. KeepsTop(stack', stack)
  <2> DEFINE f == [pass |-> "collect", mod |-> m, todo |-> Body(m), at |-> "next", diags |-> diags]
  <2>1. f \in Frames
    BY BodyType DEF Frames
  <2>2. stack' = below \/ stack' = Append(below, f)
    BY DEF CallCollect
  <2> HIDE DEF f
  <2> QED
    BY <2>1, <2>2, KeepsAppend
<1> QED
  BY <1>1, <1>2, GoesOn

\* A call of type resolution puts the module it begins on the stack.
LEMMA ResolveGoesOn ==
    ASSUME TypeInv, HalfDoneIsUnderWay, NEW below \in Seq(Frames), KeepsTop(below, stack),
           NEW m, NEW diags \in SUBSET Diagnostics, CallResolve(below, m, diags),
           UNCHANGED <<symbol, deferred, pending>>
    PROVE  HalfDoneIsUnderWay'
<1>1. CASE IsResolvable(m)
  <2> DEFINE f == [pass |-> "resolve", mod |-> m, todo |-> Body(m), at |-> "next", diags |-> diags]
  <2>1. m \in Modules
    BY <1>1 DEF IsResolvable, TypeInv, TypeOK
  <2>2. f \in Frames /\ f.pass = "resolve" /\ f.mod = m /\ f.at # "draining"
    BY <2>1, BodyType DEF Frames
  <2>3. stack' = Append(below, f)
    BY <1>1 DEF CallResolve
  <2> HIDE DEF f
  <2>4. KeepsTop(stack', stack) /\ \E k \in DOMAIN stack' : stack'[k] = f
    BY <2>2, <2>3, KeepsAppend
  <2>5. Resolves(stack', m)
    BY <2>2, <2>4 DEF Resolves
  <2>6. \A n \in Modules : n # m => state'[n] = state[n]
    BY <1>1 DEF CallResolve, TypeInv, TypeOK
  <2>7. \A n \in Modules : HalfResolved(n)' => HalfResolved(n) \/ Resolves(stack', n)
    BY <2>5, <2>6 DEF HalfResolved
  <2> QED
    BY <2>4, <2>7, GoesOn
<1>2. CASE ~IsResolvable(m)
  <2>1. stack' = below /\ state' = state
    BY <1>2 DEF CallResolve
  <2>2. \A n \in Modules : HalfResolved(n)' => HalfResolved(n)
    BY <2>1 DEF HalfResolved
  <2> QED
    BY <2>1, <2>2, GoesOn
<1> QED
  BY <1>1, <1>2

LEMMA UnderWayCollecting ==
    TypeInv /\ HalfDoneIsUnderWay /\ Collecting => HalfDoneIsUnderWay'
<1> SUFFICES ASSUME TypeInv, HalfDoneIsUnderWay, Collecting PROVE HalfDoneIsUnderWay'
  OBVIOUS
<1>0. stack # <<>> /\ Top.pass = "collect" /\ Top \in Frames /\ FitsProgram(program, Top)
  BY CollectingForm, TypeInvStack, GoodTop
<1>1. CASE CollectDecl \/ CollectMissingImport \/ LinkImport
  <2>1. Top.todo # <<>>
    BY <1>0, <1>1 DEF CollectDecl, CollectMissingImport, LinkImport, Running, FitsProgram
  <2>2. PICK diags \in SUBSET Diagnostics : stack' = Advanced(diags)
    BY <1>0, <1>1, <2>1, HereType DEF CollectDecl, CollectMissingImport, LinkImport
  <2>3. KeepsTop(stack', stack)
    BY <1>0, <2>1, <2>2, KeepsAdvanced
  <2>4. /\ UNCHANGED <<state, deferred, pending>>
        /\ \A n \in Nodes : symbol'[n] = "resolving" => symbol[n] = "resolving"
    BY <1>1 DEF CollectDecl, CollectMissingImport, LinkImport, TypeInv, TypeOK
  <2>5. \A m \in Modules : HalfResolved(m)' => HalfResolved(m)
    BY <2>4 DEF HalfResolved
  <2> QED
    BY <2>3, <2>4, <2>5, GoesOn
<1>2. CASE CollectImport
  <2>1. PICK m \in Modules : m = This.to
    BY <1>2 DEF CollectImport
  <2>2. /\ CallCollect(Waiting("imported"), m, LoadedState(m), {})
        /\ UNCHANGED <<symbol, deferred, pending>>
    BY <1>2, <2>1 DEF CollectImport
  <2>3. LoadedState(m) = state[m] \/ LoadedState(m) \in {"parsed", "errored"}
    BY DEF LoadedState
  <2>4. KeepsTop(Waiting("imported"), stack) /\ Waiting("imported") \in Seq(Frames)
    BY <1>0, KeepsWaiting, FollowsWaiting
  <2> QED
    BY <2>2, <2>3, <2>4, CollectGoesOn
<1>3. CASE EndCollect
  <2>1. KeepsBelow(stack', stack)
    BY <1>0, <1>3, KeepsPopped DEF EndCollect
  <2>2. UNCHANGED <<symbol, deferred, pending>>
    BY <1>3 DEF EndCollect
  <2>3. \A m \in Modules : HalfResolved(m)' => HalfResolved(m)
    BY <1>0, <1>3 DEF EndCollect, HalfResolved, TypeInv, TypeOK
  <2>4. \A m \in Modules : Queued(m)' <=> Queued(m)
    BY <2>2 DEF Queued
  <2> QED
    BY <1>0, <2>1, <2>2, <2>3, <2>4, EndsTop DEF ToppedBy, InTop
<1> QED
  BY <1>1, <1>2, <1>3 DEF Collecting

\* Where another module waits, the queue will be drained.
LEMMA InnerWillDrain ==
    ASSUME TypeInv, stack # <<>>, ~IsOutermost, Top.pass = "resolve", StackShape
    PROVE  WillDrain(Popped)
<1>1. stack \in Seq(Frames) /\ Len(stack) \in Nat /\ DOMAIN stack = 1..Len(stack)
  BY DEF TypeInv, TypeOK
<1>2. Len(stack) # 1
  <2> SUFFICES ASSUME Len(stack) = 1 PROVE FALSE
    OBVIOUS
  <2>1. {i \in DOMAIN stack : stack[i].pass = "resolve"} = {1}
    BY <1>1 DEF Top
  <2>2. Cardinality({1}) = 1
    BY FS_Singleton
  <2> QED
    BY <2>1, <2>2 DEF IsOutermost
<1>3. Len(stack) \in DOMAIN stack /\ stack[Len(stack)].pass = "resolve" /\ 1 \in DOMAIN stack
  BY <1>1 DEF Top
<1>4. stack[1].pass = "resolve"
  BY <1>3 DEF StackShape
<1>5. DOMAIN Popped = 1..(Len(stack) - 1) /\ \A k \in DOMAIN Popped : Popped[k] = stack[k]
  BY <1>1, PoppedIs
<1>6. 1 \in DOMAIN Popped
  BY <1>1, <1>2, <1>3, <1>5
<1> QED
  BY <1>4, <1>5, <1>6 DEF WillDrain

\* The end of a module's statements: its tests are queued, and whoever drains
\* the queue is still there.
LEMMA UnderWayEndResolve ==
    ASSUME TypeInv, StackShape, HalfDoneIsUnderWay, EndResolve
    PROVE  HalfDoneIsUnderWay'
<1>0. stack # <<>> /\ Top.pass = "resolve" /\ Top \in Frames
  BY TypeInvStack, GoodTop DEF EndResolve, Running
<1>1. PICK m \in Modules : m = Top.mod
  BY <1>0 DEF Frames
<1>2. KeepsBelow(stack', stack) /\ WillDrain(stack')
  <2>1. CASE IsOutermost
    <3> DEFINE f == [Top EXCEPT !.at = "draining"]
    <3>1. f \in Frames /\ f.pass = "resolve"
      BY <1>0 DEF Frames
    <3>2. stack' = WithTop(f) /\ stack \in Seq(Frames)
      BY <1>0, <2>1 DEF EndResolve, Waiting, TypeInv, TypeOK
    <3> HIDE DEF f
    <3>3. /\ DOMAIN stack' = DOMAIN stack
          /\ stack'[Len(stack)] = f
          /\ \A k \in DOMAIN stack : k # Len(stack) => stack'[k] = stack[k]
      BY <1>0, <3>1, <3>2, WithTopIs
    <3>4. Len(stack) \in DOMAIN stack
      BY <1>0, <3>2
    <3> QED
      BY <3>1, <3>3, <3>4 DEF KeepsBelow, SameWork, WillDrain
  <2>2. CASE ~IsOutermost
    <3>1. stack' = Popped
      BY <2>2 DEF EndResolve
    <3> QED
      BY <1>0, <2>2, <3>1, KeepsPopped, InnerWillDrain
  <2> QED
    BY <2>1, <2>2
<1>3. \A n \in Modules : HalfResolved(n)' => HalfResolved(n) /\ n # m
  BY <1>1 DEF EndResolve, HalfResolved, TypeInv, TypeOK
<1>4. /\ UNCHANGED <<symbol, deferred>> /\ pending \in Seq(Modules)
      /\ pending' = IF deferred[m] # <<>> THEN Append(pending, m) ELSE pending
  BY <1>1 DEF EndResolve, TypeInv, TypeOK
<1>5. /\ \A n \in Modules : Queued(n) => Queued(n)'
      /\ deferred[m] # <<>> => Queued(m)'
  <2>1. CASE deferred[m] # <<>>
    <3>1. pending' = Append(pending, m)
      BY <1>4, <2>1
    <3>2. /\ DOMAIN pending' = 1..(Len(pending) + 1)
          /\ \A k \in 1..Len(pending) : pending'[k] = pending[k]
          /\ pending'[Len(pending) + 1] = m
      BY <1>4, <3>1, AppendIs
    <3>3. DOMAIN pending = 1..Len(pending) /\ Len(pending) \in Nat
      BY <1>4
    <3>4. /\ \A k \in DOMAIN pending : k \in DOMAIN pending' /\ pending'[k] = pending[k]
          /\ Len(pending) + 1 \in DOMAIN pending'
      BY <3>2, <3>3
    <3> QED
      BY <3>2, <3>4 DEF Queued
  <2>2. CASE deferred[m] = <<>>
    BY <1>4, <2>2 DEF Queued
  <2> QED
    BY <2>1, <2>2
<1>6. \A n \in Nodes : symbol'[n] = "resolving" => symbol[n] = "resolving" /\ ~InTop(n)
  BY <1>0, <1>4 DEF InTop
<1>7. \A n \in Modules : HalfResolved(n)' => HalfResolved(n) /\ ~ToppedBy(n)
  BY <1>1, <1>3 DEF ToppedBy
<1>8. \A n \in Modules : deferred'[n] # <<>> =>
          \/ Queued(n)'
          \/ deferred[n] # <<>> /\ ~Queued(n) /\ ~ToppedBy(n)
  BY <1>1, <1>4, <1>5 DEF ToppedBy
<1> QED
  BY <1>0, <1>2, <1>6, <1>7, <1>8, EndsTop

LEMMA UnderWayResolving ==
    TypeInv /\ StackShape /\ HalfDoneIsUnderWay /\ ResolvingStep => HalfDoneIsUnderWay'
<1> SUFFICES ASSUME TypeInv, StackShape, HalfDoneIsUnderWay, ResolvingStep
             PROVE  HalfDoneIsUnderWay'
  OBVIOUS
<1>0. stack # <<>> /\ Top.pass \in {"resolve", "tests"} /\ Top \in Frames /\ FitsProgram(program, Top)
  BY TypeInvStack, GoodTop
     DEF ResolvingStep, PutOffTest, ResolveImport, AfterImport, ResolveDecl, EndResolve,
         Statement, Resolving, Running
<1>1. CASE PutOffTest
  <2>1. PICK m \in Modules : m = Top.mod
    BY <1>0 DEF Frames
  <2>2. Top.todo # <<>> /\ Top.pass = "resolve" /\ Top.at = "next"
    BY <1>1 DEF PutOffTest, Statement, Resolving, Running, IsPutOff
  <2>3. /\ UNCHANGED <<state, symbol, pending>> /\ stack' = Advanced({})
        /\ \A n \in Modules : n # m => deferred'[n] = deferred[n]
    BY <1>1, <2>1 DEF PutOffTest, TypeInv, TypeOK
  <2>4. KeepsTop(stack', stack)
    BY <1>0, <2>2, <2>3, KeepsAdvanced
  <2>5. Resolves(stack, m)
    <3>1. Len(stack) \in DOMAIN stack
      BY <1>0, TypeInvStack, GoodTop
    <3> QED
      BY <2>1, <2>2, <3>1 DEF Resolves, Top
  <2>6. Resolves(stack', m)
    BY <2>4, <2>5, KeptTop
  <2>7. \A n \in Modules : HalfResolved(n)' => HalfResolved(n)
    BY <2>3 DEF HalfResolved
  <2> QED
    BY <2>3, <2>4, <2>6, <2>7, GoesOn
<1>2. CASE ResolveImport
  <2>0. UNCHANGED <<symbol, deferred, pending>> /\ Top.todo # <<>>
    BY <1>2 DEF ResolveImport, Statement
  <2>1. CASE Here \in linked
    <3>1. CallResolve(Waiting("imported"), This.to, {})
      BY <1>2, <2>1 DEF ResolveImport
    <3>2. KeepsTop(Waiting("imported"), stack) /\ Waiting("imported") \in Seq(Frames)
      BY <1>0, KeepsWaiting, FollowsWaiting
    <3> QED
      BY <2>0, <3>1, <3>2, ResolveGoesOn
  <2>2. CASE Here \notin linked
    <3>1. stack' = Advanced({}) /\ state' = state
      BY <1>2, <2>2 DEF ResolveImport
    <3>2. KeepsTop(stack', stack)
      BY <1>0, <2>0, <3>1, KeepsAdvanced
    <3>3. \A n \in Modules : HalfResolved(n)' => HalfResolved(n)
      BY <3>1 DEF HalfResolved
    <3> QED
      BY <2>0, <3>2, <3>3, GoesOn
  <2> QED
    BY <2>1, <2>2
<1>3. CASE AfterImport
  <2>1. Top.todo # <<>>
    BY <1>0, <1>3 DEF AfterImport, Resolving, Running, FitsProgram
  <2>2. PICK diags \in SUBSET Diagnostics : stack' = Advanced(diags)
    BY <1>0, <1>3, <2>1, HereType DEF AfterImport
  <2>3. KeepsTop(stack', stack)
    BY <1>0, <2>1, <2>2, KeepsAdvanced
  <2>4. /\ UNCHANGED <<state, deferred, pending>>
        /\ \A n \in Nodes : symbol'[n] = "resolving" => symbol[n] = "resolving"
    BY <1>3 DEF AfterImport, TypeInv, TypeOK
  <2>5. \A m \in Modules : HalfResolved(m)' => HalfResolved(m)
    BY <2>4 DEF HalfResolved
  <2> QED
    BY <2>3, <2>4, <2>5, GoesOn
<1>4. CASE ResolveDecl
  <2>0. Top.todo # <<>>
    BY <1>4 DEF ResolveDecl, Statement
  <2> DEFINE f == [pass |-> "declare", mod |-> Here[1], todo |-> <<Here[2]>>,
                   at |-> "entered", diags |-> {}]
  <2>1. f \in Frames
    BY <1>0, <2>0, HereType DEF Frames, Nodes
  <2>2. stack' = Append(Advanced({}), f)
    BY <1>4 DEF ResolveDecl, Declare
  <2>3. UNCHANGED <<state, symbol, deferred, pending>>
    BY <1>4 DEF ResolveDecl
  <2> HIDE DEF f
  <2>4. KeepsTop(Advanced({}), stack) /\ Advanced({}) \in Seq(Frames)
    BY <1>0, <2>0, KeepsAdvanced, FollowsAdvanced
  <2>5. KeepsTop(stack', stack)
    BY <2>1, <2>2, <2>4, KeepsAppend
  <2>6. \A m \in Modules : HalfResolved(m)' => HalfResolved(m)
    BY <2>3 DEF HalfResolved
  <2> QED
    BY <2>3, <2>5, <2>6, GoesOn
<1>5. CASE EndResolve
  BY <1>5, UnderWayEndResolve
<1> QED
  BY <1>1, <1>2, <1>3, <1>4, <1>5 DEF ResolvingStep

LEMMA UnderWayTests ==
    TypeInv /\ HalfDoneIsUnderWay /\ Tests => HalfDoneIsUnderWay'
<1> SUFFICES ASSUME TypeInv, HalfDoneIsUnderWay, Tests PROVE HalfDoneIsUnderWay'
  OBVIOUS
<1>0. stack # <<>> /\ Top \in Frames /\ stack \in Seq(Frames) /\ pending \in Seq(Modules)
  BY TypeInvStack, GoodTop
     DEF Tests, StartTests, EndTests, EndDraining, Running, TypeInv, TypeOK
<1>1. CASE StartTests
  <2> DEFINE f == [pass |-> "tests", mod |-> Head(pending), todo |-> deferred[Head(pending)],
                   at |-> "next", diags |-> {}]
  <2>1. f \in Frames /\ Head(pending) \in Modules
    BY <1>1 DEF StartTests, TypeInv, TypeOK, Frames
  <2>2. stack' = Append(stack, f) /\ UNCHANGED <<state, symbol>>
    BY <1>1 DEF StartTests
  <2>3. PICK m \in Modules : m = Head(pending)
    BY <2>1
  <2>4. /\ deferred' = [deferred EXCEPT ![m] = <<>>] /\ deferred \in [Modules -> Seq(Indices)]
        /\ pending' = Tail(pending) /\ pending # <<>> /\ pending[1] = m
    BY <1>0, <1>1, <2>3 DEF StartTests, TypeInv, TypeOK
  <2>5. Top.pass = "resolve"
    BY <1>1 DEF StartTests, Running
  <2> HIDE DEF f
  <2>6. \A k \in DOMAIN stack : k \in DOMAIN stack' /\ stack'[k] = stack[k]
    <3>1. DOMAIN stack = 1..Len(stack) /\ Len(stack) \in Nat
      BY <1>0
    <3>2. DOMAIN stack' = 1..(Len(stack) + 1) /\ \A k \in 1..Len(stack) : stack'[k] = stack[k]
      BY <1>0, <2>1, <2>2, AppendIs
    <3> QED
      BY <3>1, <3>2
  <2>7. /\ \A n \in Modules : Resolves(stack, n) => Resolves(stack', n)
        /\ \A n \in Nodes : Declares(stack, n) => Declares(stack', n)
        /\ WillDrain(stack')
    <3>1. Len(stack) \in DOMAIN stack
      BY <1>0
    <3> QED
      BY <2>5, <2>6, <3>1 DEF Resolves, Declares, WillDrain, Top
  <2>8. ASSUME NEW n \in Modules, deferred'[n] # <<>>
        PROVE  Queued(n)' \/ Resolves(stack', n)
    <3>1. n # m /\ deferred[n] # <<>>
      BY <2>4, <2>8
    <3>2. CASE Queued(n)
      <4>1. PICK j \in DOMAIN pending : pending[j] = n
        BY <3>2 DEF Queued
      <4>2. j # 1 /\ j \in 1..Len(pending) /\ Len(pending) \in Nat
        BY <1>0, <2>4, <3>1, <4>1
      <4>3. j - 1 \in DOMAIN Tail(pending) /\ Tail(pending)[j - 1] = pending[j]
        BY <1>0, <2>4, <4>2
      <4> QED
        BY <2>4, <4>1, <4>3 DEF Queued
    <3>3. CASE Resolves(stack, n)
      BY <2>7, <3>3
    <3> QED
      BY <3>1, <3>2, <3>3 DEF HalfDoneIsUnderWay, TestsUnderWay
  <2> QED
    BY <2>2, <2>7, <2>8
       DEF HalfDoneIsUnderWay, ModulesUnderWay, SymbolsUnderWay, TestsUnderWay, QueueUnderWay,
           HalfResolved
<1>2. CASE EndTests
  <2>1. Top.pass = "tests" /\ stack' = Popped /\ UNCHANGED <<symbol, deferred, pending>>
    BY <1>2 DEF EndTests, Running
  <2>2. KeepsBelow(stack', stack)
    BY <1>0, <2>1, KeepsPopped
  <2>3. \A m \in Modules : HalfResolved(m)' => HalfResolved(m)
    BY <1>2 DEF EndTests, HalfResolved, TypeInv, TypeOK
  <2>4. \A m \in Modules : Queued(m)' <=> Queued(m)
    BY <2>1 DEF Queued
  <2> QED
    BY <1>0, <2>1, <2>2, <2>3, <2>4, EndsTop DEF ToppedBy, InTop
<1>3. CASE EndDraining
  <2>1. /\ Top.pass = "resolve" /\ Top.at = "draining" /\ pending = <<>>
        /\ stack' = Popped /\ UNCHANGED <<state, symbol, deferred, pending>>
    BY <1>3 DEF EndDraining, Running
  <2>2. KeepsBelow(stack', stack)
    BY <1>0, <2>1, KeepsPopped
  <2>3. \A m \in Modules : HalfResolved(m)' => HalfResolved(m)
    BY <2>1 DEF HalfResolved
  <2>4. \A m \in Modules : Queued(m)' <=> Queued(m)
    BY <2>1 DEF Queued
  <2> QED
    BY <1>0, <2>1, <2>2, <2>3, <2>4, EndsTop DEF ToppedBy, InTop
<1> QED
  BY <1>1, <1>2, <1>3 DEF Tests

\* A declaration that is done is no longer resolving.
LEMMA UnderWayFinish ==
    ASSUME TypeInv, HalfDoneIsUnderWay, stack # <<>>, Top.pass = "declare",
           NEW status \in {"resolved", "poisoned"}, NEW others,
           NEW diags \in SUBSET Diagnostics, Finish(status, others, diags)
    PROVE  HalfDoneIsUnderWay'
<1>1. KeepsBelow(stack', stack)
  BY KeepsReported DEF Finish
<1>2. UNCHANGED <<state, deferred, pending>>
  BY DEF Finish
<1>3. \A n \in Nodes : symbol'[n] = "resolving" => symbol[n] = "resolving" /\ n # Here
  BY DEF Finish
<1>4. \A m \in Modules : (HalfResolved(m)' => HalfResolved(m)) /\ (Queued(m)' <=> Queued(m))
  BY <1>2 DEF HalfResolved, Queued
<1> QED
  BY <1>1, <1>2, <1>3, <1>4, EndsTop DEF ToppedBy, InTop

LEMMA UnderWayDeclaring ==
    TypeInv /\ HalfDoneIsUnderWay /\ Declaring => HalfDoneIsUnderWay'
<1> SUFFICES ASSUME TypeInv, HalfDoneIsUnderWay, Declaring PROVE HalfDoneIsUnderWay'
  OBVIOUS
<1>0. stack # <<>> /\ Top.pass = "declare"
  BY DEF Declaring, EnterDecl, FinishLiteral, FinishUndeclared, FinishPoisonedAlias,
         AwaitModule, FinishPoisonedModule, FinishReference, FinishCycle, ResolveTarget,
         CanLook, Running
<1>1. Top \in Frames /\ FitsProgram(program, Top) /\ Len(stack) \in DOMAIN stack
  BY <1>0, TypeInvStack, GoodTop
<1>2. Top.todo # <<>>
  BY <1>0, <1>1 DEF FitsProgram
<1>3. CASE EnterDecl
  <2>1. Top.at = "entered" /\ UNCHANGED <<state, deferred, pending>>
    BY <1>3 DEF EnterDecl, Running
  <2>2. \A m \in Modules : (HalfResolved(m)' => HalfResolved(m)) /\ (Queued(m)' <=> Queued(m))
    BY <2>1 DEF HalfResolved, Queued
  <2>3. CASE stack' = Popped /\ symbol' = symbol
    <3>1. KeepsBelow(stack', stack)
      BY <1>0, <2>3, KeepsPopped
    <3> QED
      BY <1>0, <2>1, <2>2, <2>3, <3>1, EndsTop DEF ToppedBy, InTop
  <2>4. CASE stack' = Waiting("started") /\ symbol' = [symbol EXCEPT ![Here] = "resolving"]
    <3> DEFINE f == [Top EXCEPT !.at = "started"]
    <3>1. f \in Frames /\ f.pass = "declare" /\ f.mod = Top.mod /\ f.todo = Top.todo /\ f.at = "started"
      BY <1>0, <1>1 DEF Frames
    <3>2. KeepsTop(stack', stack)
      BY <1>0, <2>4, KeepsWaiting
    <3>3. stack' = WithTop(f) /\ stack \in Seq(Frames)
      BY <2>4 DEF Waiting, TypeInv, TypeOK
    <3> HIDE DEF f
    <3>4. stack'[Len(stack)] = f /\ Len(stack) \in DOMAIN stack'
      BY <1>0, <1>1, <3>1, <3>3, WithTopIs
    <3>5. Declares(stack', Here)
      BY <3>1, <3>4 DEF Declares, Here
    <3>6. \A n \in Nodes : n # Here => symbol'[n] = symbol[n]
      BY <2>4 DEF TypeInv, TypeOK
    <3> QED
      BY <2>1, <2>2, <3>2, <3>5, <3>6, GoesOn
  <2> QED
    BY <1>3, <2>3, <2>4 DEF EnterDecl
<1>4. CASE AwaitModule
  <2>1. CallResolve(Waiting("awaited"), This.to, {}) /\ UNCHANGED <<symbol, deferred, pending>>
    BY <1>4 DEF AwaitModule
  <2>2. KeepsTop(Waiting("awaited"), stack) /\ Waiting("awaited") \in Seq(Frames)
    BY <1>0, KeepsWaiting, FollowsWaiting
  <2> QED
    BY <2>1, <2>2, ResolveGoesOn
<1>5. CASE ResolveTarget
  <2> DEFINE f == [pass |-> "declare", mod |-> Target[1], todo |-> <<Target[2]>>,
                   at |-> "entered", diags |-> {}]
  <2>1. f \in Frames
    BY <1>0, <1>5, TargetType DEF ResolveTarget, CanLook, Frames, Nodes
  <2>2. stack' = Append(Waiting("looking"), f) /\ UNCHANGED <<state, symbol, deferred, pending>>
    BY <1>5 DEF ResolveTarget, Declare
  <2> HIDE DEF f
  <2>3. KeepsTop(Waiting("looking"), stack) /\ Waiting("looking") \in Seq(Frames)
    BY <1>0, KeepsWaiting, FollowsWaiting
  <2>4. KeepsTop(stack', stack)
    BY <2>1, <2>2, <2>3, KeepsAppend
  <2>5. \A m \in Modules : HalfResolved(m)' => HalfResolved(m)
    BY <2>2 DEF HalfResolved
  <2> QED
    BY <2>2, <2>4, <2>5, GoesOn
<1>6. CASE \/ FinishLiteral \/ FinishUndeclared \/ FinishPoisonedAlias
           \/ FinishPoisonedModule \/ FinishReference \/ FinishCycle
  <2>1. \A e \in {"importedModuleContainsErrors", "undeclaredIdentifier", "cyclicDependency"} :
          {Diagnostic(Here, e)} \in SUBSET Diagnostics
    BY <1>0, <1>2, HereType
  <2>2. \E status \in {"resolved", "poisoned"} : \E others : \E diags \in SUBSET Diagnostics :
            Finish(status, others, diags)
    BY <1>6, <2>1 DEF FinishLiteral, FinishUndeclared, FinishPoisonedAlias,
       FinishPoisonedModule, FinishReference, FinishCycle
  <2> QED
    BY <1>0, <2>2, UnderWayFinish
<1> QED
  BY <1>3, <1>4, <1>5, <1>6 DEF Declaring

LEMMA UnderWayAnalyzing ==
    TypeInv /\ HalfDoneIsUnderWay /\ Analyzing => HalfDoneIsUnderWay'
<1> SUFFICES ASSUME TypeInv, HalfDoneIsUnderWay, Analyzing PROVE HalfDoneIsUnderWay'
  OBVIOUS
<1>0. stack = <<>> /\ roots # <<>> /\ UNCHANGED <<symbol, deferred, pending>>
  BY DEF Analyzing, RejectUnparsed, CollectRoot, ResolveRoot, ReturnCancelled, Reject,
         RejectEmitted, Lower, At
<1>1. Root \in Modules /\ stack \in Seq(Frames) /\ KeepsTop(stack, stack)
  BY <1>0, RootType, KeepsEmpty DEF TypeInv, TypeOK
<1>2. CASE CollectRoot
  <2> DEFINE st == IF LoadedState(Root) = "errored" THEN "parsed" ELSE LoadedState(Root)
  <2>1. CallCollect(stack, Root, st, leftover) /\ leftover \in SUBSET Diagnostics
    BY <1>2 DEF CollectRoot, TypeInv, TypeOK
  <2>2. st = state[Root] \/ st \in {"parsed", "errored"}
    BY DEF LoadedState
  <2> HIDE DEF st
  <2> QED
    BY <1>0, <1>1, <2>1, <2>2, CollectGoesOn
<1>3. CASE ResolveRoot
  <2>1. CallResolve(stack, Root, leftover) /\ leftover \in SUBSET Diagnostics
    BY <1>3 DEF ResolveRoot, TypeInv, TypeOK
  <2> QED
    BY <1>0, <1>1, <2>1, ResolveGoesOn
<1>4. CASE RejectUnparsed \/ RejectEmitted \/ ReturnCancelled \/ Reject \/ Lower
  <2>1. stack' = stack /\ \A m \in Modules : HalfResolved(m)' => HalfResolved(m)
    BY <1>4 DEF RejectUnparsed, RejectEmitted, ReturnCancelled, Reject, Lower, HalfResolved,
                TypeInv, TypeOK
  <2> QED
    BY <1>0, <1>1, <2>1, GoesOn
<1> QED
  BY <1>2, <1>3, <1>4 DEF Analyzing

LEMMA UnderWayNext ==
    TypeInv /\ StackShape /\ HalfDoneIsUnderWay /\ [Next]_vars => HalfDoneIsUnderWay'
<1> SUFFICES ASSUME TypeInv, StackShape, HalfDoneIsUnderWay, [Next]_vars
             PROVE  HalfDoneIsUnderWay'
  OBVIOUS
<1>1. CASE UNCHANGED <<stack, state, symbol, deferred, pending>>
  BY <1>1 DEF HalfDoneIsUnderWay, ModulesUnderWay, SymbolsUnderWay, TestsUnderWay,
              QueueUnderWay, HalfResolved, Queued
<1>2. CASE Cancel \/ UNCHANGED vars
  BY <1>1, <1>2 DEF Cancel, vars
<1> QED
  BY <1>2, UnderWayCollecting, UnderWayResolving, UnderWayTests, UnderWayDeclaring,
     UnderWayAnalyzing DEF Next, Analyzer

LEMMA UnderWayInvariant == Spec => [](TypeInv /\ StackShape /\ HalfDoneIsUnderWay)
<1>1. Init => HalfDoneIsUnderWay
  <2> SUFFICES ASSUME Init PROVE HalfDoneIsUnderWay
    OBVIOUS
  <2> QED
    BY DEF Init, HalfDoneIsUnderWay, ModulesUnderWay, SymbolsUnderWay, TestsUnderWay,
           QueueUnderWay, HalfResolved
<1> QED
  BY <1>1, TypeInvInit, TypeInvNext, UnderWayNext, ShapeInvariant, PTL DEF Spec

\* Between passes no module and no symbol is being resolved and no test waits,
\* for every program and however the analysis was cancelled: the recursion that
\* began a thing always comes back to end it.
THEOREM NothingIsLeftHalfDone == Spec => []NothingHalfDone
<1>1. HalfDoneIsUnderWay => NothingHalfDone
  <2> SUFFICES ASSUME HalfDoneIsUnderWay, stack = <<>>
               PROVE  /\ \A m \in Modules : /\ state[m] \notin {"resolving", "poisonedResolving"}
                                            /\ deferred[m] = <<>>
                      /\ \A n \in Nodes : symbol[n] # "resolving"
                      /\ pending = <<>>
    BY DEF NothingHalfDone
  <2>1. /\ \A m : ~Resolves(stack, m)
        /\ \A n : ~Declares(stack, n)
        /\ ~WillDrain(stack)
    BY DEF Resolves, Declares, WillDrain
  <2>2. pending = <<>>
    BY <2>1 DEF HalfDoneIsUnderWay, QueueUnderWay
  <2>3. \A m : ~Queued(m)
    BY <2>2 DEF Queued
  <2> QED
    BY <2>1, <2>2, <2>3 DEF HalfDoneIsUnderWay, ModulesUnderWay, SymbolsUnderWay,
       TestsUnderWay, HalfResolved
<1> QED
  BY <1>1, UnderWayInvariant, PTL
==============================================================================
