------------------------- MODULE AnalysisGraphProofs -------------------------
(* What ModuleAnalysis concludes from its graphs, for every program: that   *)
(* a cycle it reports is one.                                               *)
EXTENDS AnalysisReportsProofs

-----------------------------------------------------------------------------
(* Reachability                                                             *)

LEMMA ReachesItself == \A G, m : Reaches(G, m, m)
BY DEF Reaches

LEMMA ReachesThrough ==
    ASSUME NEW G, NEW m, NEW n, NEW k, Reaches(G, m, n), Reaches(G, n, k)
    PROVE  Reaches(G, m, k)
BY DEF Reaches

LEMMA ReachesEdge ==
    ASSUME NEW G, NEW m, NEW n, <<m, n>> \in G.edge
    PROVE  Reaches(G, m, n)
<1> SUFFICES ASSUME NEW S \in SUBSET G.node, m \in S,
                    \A e \in G.edge : e[1] \in S => e[2] \in S
             PROVE  n \in S
  BY DEF Reaches
<1>1. <<m, n>>[1] \in S => <<m, n>>[2] \in S
  OBVIOUS
<1> QED
  BY <1>1

-----------------------------------------------------------------------------
(* Who waits for whom                                                       *)

\* What it means that a declaration's frame is below another frame.
Leads(f, g) ==
    /\ g.pass = "declare" => Reaches(WaitsFor, Place(f), Place(g))
    /\ g.pass = "resolve" =>
         \A b \in Declarations : Reaches(ImportGraph, g.mod, b[1]) => Reaches(WaitsFor, Place(f), b)

\* A declaration that is being resolved waits for everything on top of it.
CallChain ==
    \A i, k \in DOMAIN stack : i < k /\ stack[i].pass = "declare" => Leads(stack[i], stack[k])

\* What a frame is for does not change.
SameCall(f, g) == f.pass = g.pass /\ f.mod = g.mod /\ (g.pass = "declare" => f.todo = g.todo)
SameCalls(t, s) ==
    DOMAIN t \subseteq DOMAIN s /\ \A k \in DOMAIN t : SameCall(t[k], s[k])

LEMMA LeadsSame ==
    ASSUME NEW f, NEW g, NEW h, NEW l, f.pass = "declare", SameCall(h, f), SameCall(l, g), Leads(f, g)
    PROVE  Leads(h, l)
<1>1. Place(h) = Place(f) /\ l.pass = g.pass /\ l.mod = g.mod
  BY DEF SameCall, Place
<1>2. g.pass = "declare" => Place(l) = Place(g)
  BY DEF SameCall, Place
<1> QED
  BY <1>1, <1>2 DEF Leads

LEMMA GraphsStay ==
    ASSUME UNCHANGED program
    PROVE  /\ WaitsFor' = WaitsFor /\ ImportGraph' = ImportGraph
           /\ Declarations' = Declarations /\ References' = References
<1>1. Declarations' = Declarations
  BY DEF Declarations, Stmt
<1>2. References' = References
  BY <1>1 DEF References, Stmt
<1>3. ImportGraph' = ImportGraph
  BY DEF ImportGraph, Stmt
<1>4. WaitsForFile' = WaitsForFile
  BY <1>1, <1>3 DEF WaitsForFile, Stmt
<1> QED
  BY <1>1, <1>2, <1>3, <1>4 DEF WaitsFor

LEMMA ChainFollows ==
    ASSUME CallChain, UNCHANGED program, SameCalls(stack', stack)
    PROVE  CallChain'
<1> SUFFICES ASSUME NEW i \in DOMAIN stack', NEW k \in DOMAIN stack', i < k,
                    stack'[i].pass = "declare"
             PROVE  Leads(stack'[i], stack'[k])
  <2>1. \A f, g : Leads(f, g)' <=> Leads(f', g')
    BY GraphsStay DEF Leads, Place
  <2> QED
    BY <2>1 DEF CallChain
<1>1. stack[i].pass = "declare" /\ Leads(stack[i], stack[k])
  BY DEF CallChain, SameCalls, SameCall
<1>2. PICK f, g, h, l : f = stack[i] /\ g = stack[k] /\ h = stack'[i] /\ l = stack'[k]
  OBVIOUS
<1>3. SameCall(h, f) /\ SameCall(l, g)
  BY <1>2 DEF SameCalls
<1> QED
  BY <1>1, <1>2, <1>3, LeadsSame

LEMMA ChainCalls ==
    ASSUME TypeInv, CallChain, NEW below \in Seq(Frames), NEW g \in Frames,
           stack' = Append(below, g), SameCalls(below, stack), DOMAIN below = DOMAIN stack,
           UNCHANGED program,
           \A i \in DOMAIN stack : stack[i].pass = "declare" => Leads(stack[i], g)
    PROVE  CallChain'
<1>1. /\ DOMAIN below = 1..Len(below) /\ Len(below) \in Nat
      /\ DOMAIN stack' = 1..(Len(below) + 1)
      /\ \A k \in DOMAIN below : stack'[k] = below[k]
      /\ stack'[Len(below) + 1] = g
  BY AppendIs
<1> SUFFICES ASSUME NEW i \in DOMAIN stack', NEW k \in DOMAIN stack', i < k,
                    stack'[i].pass = "declare"
             PROVE  Leads(stack'[i], stack'[k])
  <2>1. \A f, h : Leads(f, h)' <=> Leads(f', h')
    BY GraphsStay DEF Leads, Place
  <2> QED
    BY <2>1 DEF CallChain
<1>2. i \in DOMAIN below /\ stack'[i] = below[i]
  BY <1>1
<1>3. SameCall(below[i], stack[i]) /\ stack[i].pass = "declare"
  BY <1>2 DEF SameCalls, SameCall
<1>4. CASE k \in DOMAIN below
  <2>1. Leads(stack[i], stack[k]) /\ SameCall(below[k], stack[k])
    BY <1>2, <1>3, <1>4 DEF CallChain, SameCalls
  <2>2. Leads(below[i], below[k])
    BY <1>3, <2>1, LeadsSame
  <2> QED
    BY <1>1, <1>2, <1>4, <2>2
<1>5. CASE k = Len(below) + 1
  <2>1. Leads(stack[i], g) /\ SameCall(g, g)
    BY <1>2, <1>3 DEF SameCall
  <2>2. Leads(below[i], g)
    BY <1>3, <2>1, LeadsSame
  <2> QED
    BY <1>1, <1>2, <1>5, <2>2
<1> QED
  BY <1>1, <1>4, <1>5
\* Steps that leave every frame what it is for.
LEMMA SameWithTop ==
    ASSUME TypeInv, stack # <<>>, NEW f \in Frames, SameCall(f, Top)
    PROVE  /\ WithTop(f) \in Seq(Frames) /\ DOMAIN WithTop(f) = DOMAIN stack
           /\ SameCalls(WithTop(f), stack)
<1>1. /\ WithTop(f) \in Seq(Frames) /\ DOMAIN WithTop(f) = DOMAIN stack
      /\ WithTop(f)[Len(stack)] = f
      /\ \A k \in DOMAIN stack : k # Len(stack) => WithTop(f)[k] = stack[k]
  BY WithTopIs DEF TypeInv, TypeOK
<1> QED
  BY <1>1 DEF SameCalls, SameCall, Top

LEMMA SameWaiting ==
    ASSUME TypeInv, stack # <<>>, NEW at \in {"imported", "started", "awaited", "looking", "draining"}
    PROVE  /\ Waiting(at) \in Seq(Frames) /\ DOMAIN Waiting(at) = DOMAIN stack
           /\ SameCalls(Waiting(at), stack)
<1> DEFINE f == [Top EXCEPT !.at = at]
<1>1. Top \in Frames
  BY TypeInvStack, GoodTop
<1>2. f \in Frames /\ SameCall(f, Top)
  BY <1>1 DEF Frames, SameCall
<1>3. Waiting(at) = WithTop(f)
  BY DEF Waiting
<1> HIDE DEF f
<1> QED
  BY <1>2, <1>3, SameWithTop

LEMMA SameAdvanced ==
    ASSUME TypeInv, stack # <<>>, Top.todo # <<>>, Top.pass # "declare", NEW diags \in SUBSET Diagnostics
    PROVE  /\ Advanced(diags) \in Seq(Frames) /\ DOMAIN Advanced(diags) = DOMAIN stack
           /\ SameCalls(Advanced(diags), stack)
<1>1. PICK f \in Frames : f.pass = Top.pass /\ f.mod = Top.mod /\ Advanced(diags) = WithTop(f)
  BY AdvancedIs
<1>2. SameCall(f, Top)
  BY <1>1 DEF SameCall
<1> QED
  BY <1>1, <1>2, SameWithTop

LEMMA SamePopped ==
    ASSUME TypeInv, stack # <<>>
    PROVE  SameCalls(Popped, stack)
BY PoppedIs DEF TypeInv, TypeOK, SameCalls, SameCall

LEMMA SameReported ==
    ASSUME TypeInv, stack # <<>>, NEW diags \in SUBSET Diagnostics
    PROVE  SameCalls(Reported(Popped, diags), stack)
<1>1. PICK s \in Seq(Frames) : s = Popped
  BY FollowsPopped
<1>2. SameCalls(s, stack)
  BY <1>1, SamePopped
<1>3. DOMAIN Reported(s, diags) = DOMAIN s /\ \A k \in DOMAIN s : SameCall(Reported(s, diags)[k], s[k])
  BY ReportedIs DEF SameCall
<1>4. SameCalls(Reported(s, diags), stack)
  BY <1>2, <1>3 DEF SameCalls, SameCall
<1> QED
  BY <1>1, <1>4

\* The pass on top waits for what it calls.
LEMMA ChainWaits ==
    ASSUME TypeInv, CallChain, stack # <<>>, UNCHANGED program,
           NEW at \in {"imported", "started", "awaited", "looking"},
           NEW g \in Frames, Waits(at, g),
           \A i \in DOMAIN stack : stack[i].pass = "declare" => Leads(stack[i], g)
    PROVE  CallChain'
<1>1. PICK below \in Seq(Frames) : below = Waiting(at)
  BY SameWaiting
<1>2. DOMAIN below = DOMAIN stack /\ SameCalls(below, stack)
  BY <1>1, SameWaiting
<1>3. CASE stack' = below
  BY <1>2, <1>3, ChainFollows
<1>4. CASE stack' = Append(below, g)
  BY <1>2, <1>4, ChainCalls
<1> QED
  BY <1>1, <1>3, <1>4 DEF Waits

\* Below a pass over tests, and in symbol collection, there is no declaration.
LEMMA NoneDeclares ==
    ASSUME TypeInv, StackShape, stack # <<>>, Top.pass \in {"collect", "tests"}
    PROVE  \A i \in DOMAIN stack : stack[i].pass # "declare"
<1>1. /\ Len(stack) \in DOMAIN stack /\ DOMAIN stack = 1..Len(stack) /\ Len(stack) \in Nat
      /\ 1 \in DOMAIN stack
  BY TypeInvStack, GoodTop DEF GoodStack
<1>2. CASE Top.pass = "collect"
  BY <1>1, <1>2 DEF StackShape, Top
<1>3. CASE Top.pass = "tests"
  <2>1. Len(stack) = 2 /\ stack[1].pass = "resolve"
    BY <1>1, <1>3 DEF StackShape, Top
  <2> QED
    BY <1>1, <1>3, <2>1 DEF Top
<1> QED
  BY <1>2, <1>3

\* The declarations below the top lead to it.
LEMMA ChainToTop ==
    ASSUME TypeInv, CallChain, stack # <<>>
    PROVE  \A i \in DOMAIN stack : stack[i].pass = "declare" =>
                i = Len(stack) \/ Leads(stack[i], Top)
<1>1. Len(stack) \in DOMAIN stack /\ DOMAIN stack = 1..Len(stack) /\ Len(stack) \in Nat
  BY TypeInvStack, GoodTop DEF GoodStack
<1> QED
  BY <1>1 DEF CallChain, Top

LEMMA HereDeclared ==
    ASSUME TypeInv, stack # <<>>, Top.todo # <<>>, This.kind = "decl"
    PROVE  Here \in Declarations
BY HereType DEF Declarations, Here, This, Stmt

LEMMA ResolvePushes ==
    ASSUME TypeInv, NEW at, NEW m \in Modules, IsResolvable(m), CallResolve(Waiting(at), m, {})
    PROVE  \E g \in Frames : g.mod = m /\ g.pass = "resolve" /\ Waits(at, g)
<1> DEFINE g == [pass |-> "resolve", mod |-> m, todo |-> Body(m), at |-> "next", diags |-> {}]
<1>1. g \in Frames /\ g.mod = m /\ g.pass = "resolve"
  BY BodyType DEF Frames
<1>2. stack' = Append(Waiting(at), g)
  BY DEF CallResolve
<1> HIDE DEF g
<1> QED
  BY <1>1, <1>2 DEF Waits

LEMMA TargetRefers ==
    ASSUME TypeInv, stack # <<>>, Top.pass = "declare", Here \in Declarations, This.to \in Modules
    PROVE  Target \in Nodes /\ <<Here, Target>> \in References
<1>1. /\ Target \in Nodes /\ This.at \in DOMAIN program[This.to].body
      /\ program[This.to].body[This.at].kind = "decl"
  BY TargetType
<1>2. Target \in Declarations
  BY <1>1 DEF Declarations, Target, Stmt
<1> DEFINE e == <<Here, Target>>
<1>3. e \in Declarations \X Declarations /\ e[1] = Here /\ e[2] = Target
  BY <1>2
<1>4. e[2] = <<Stmt(e[1][1], e[1][2]).to, Stmt(e[1][1], e[1][2]).at>>
  BY <1>3 DEF Target, This, Here
<1> QED
  BY <1>1, <1>3, <1>4 DEF References

LEMMA ChainCollecting == TypeInv /\ StackShape /\ CallChain /\ Collecting => CallChain'
<1> SUFFICES ASSUME TypeInv, StackShape, CallChain, Collecting PROVE CallChain'
  OBVIOUS
<1>1. stack # <<>> /\ Top.pass = "collect"
  BY CollectingForm
<1>2. \A i \in DOMAIN stack : stack[i].pass # "declare"
  BY <1>1, NoneDeclares
<1>3. CASE Follows(stack', stack)
  BY <1>2, <1>3 DEF Follows, CallChain
<1>4. CASE \E f : f.pass = "collect" /\ Calls(stack', stack, f)
  <2>0. PICK f : f.pass = "collect" /\ Calls(stack', stack, f)
    BY <1>4
  <2>1. PICK below \in Seq(Frames) : /\ f \in Frames /\ stack' = Append(below, f)
                                    /\ Follows(below, stack)
    BY <2>0 DEF Calls
  <2>2. /\ DOMAIN stack' = 1..(Len(below) + 1) /\ DOMAIN below = 1..Len(below) /\ Len(below) \in Nat
        /\ \A k \in 1..Len(below) : stack'[k] = below[k]
        /\ stack'[Len(below) + 1] = f
    BY <2>1, AppendIs
  <2>3. \A i \in DOMAIN below : below[i].pass # "declare"
    BY <1>2, <2>1 DEF Follows
  <2>4. \A i \in DOMAIN stack' : stack'[i].pass # "declare"
    <3> SUFFICES ASSUME NEW i \in DOMAIN stack' PROVE stack'[i].pass # "declare"
      OBVIOUS
    <3>1. i \in DOMAIN below \/ i = Len(below) + 1
      BY <2>2
    <3> QED
      BY <2>0, <2>2, <2>3, <3>1
  <2> QED
    BY <2>4 DEF CallChain
<1> QED
  BY <1>3, <1>4, CollectingForm

LEMMA ChainResolving == TypeInv /\ StackShape /\ CallChain /\ ResolvingStep => CallChain'
<1> SUFFICES ASSUME TypeInv, StackShape, CallChain, ResolvingStep PROVE CallChain'
  OBVIOUS
<1>0. stack # <<>> /\ Top.pass \in {"resolve", "tests"} /\ Top \in Frames
      /\ FitsProgram(program, Top) /\ UNCHANGED program
  BY TypeInvStack, GoodTop
     DEF ResolvingStep, PutOffTest, ResolveImport, AfterImport, ResolveDecl, EndResolve,
         Statement, Resolving, Running
<1>1. ASSUME NEW i \in DOMAIN stack, stack[i].pass = "declare"
      PROVE  Top.pass = "resolve" /\ Leads(stack[i], Top)
  <2>1. Top.pass = "resolve"
    BY <1>0, <1>1, NoneDeclares
  <2>2. i # Len(stack)
    BY <1>1, <2>1 DEF Top
  <2> QED
    BY <1>0, <1>1, <2>1, <2>2, ChainToTop
<1>2. CASE PutOffTest \/ AfterImport
  <2>1. Top.todo # <<>>
    BY <1>0, <1>2 DEF PutOffTest, AfterImport, Statement, Resolving, Running, FitsProgram
  <2>2. PICK diags \in SUBSET Diagnostics : stack' = Advanced(diags)
    BY <1>0, <1>2, <2>1, HereType DEF PutOffTest, AfterImport
  <2> QED
    BY <1>0, <2>1, <2>2, SameAdvanced, ChainFollows
<1>3. CASE ResolveImport
  <2>0. Top.todo # <<>> /\ ~IsPutOff /\ This.kind = "import"
    BY <1>3 DEF ResolveImport, Statement
  <2>1. CASE Here \in linked /\ IsResolvable(This.to)
    <3>1. PICK m \in Modules : m = This.to
      BY <2>1 DEF IsResolvable, TypeInv, TypeOK
    <3>2. CallResolve(Waiting("imported"), m, {})
      BY <1>3, <2>1, <3>1 DEF ResolveImport
    <3>3. PICK g \in Frames : g.mod = m /\ g.pass = "resolve" /\ Waits("imported", g)
      BY <2>1, <3>1, <3>2, ResolvePushes
    <3>4. ASSUME Top.pass = "resolve" PROVE <<Top.mod, m>> \in ImportGraph.edge
      <4>1. /\ Top.mod \in Modules /\ Head(Top.todo) \in DOMAIN program[Top.mod].body
            /\ ~This.test
        BY <1>0, <2>0, <3>4, HereType DEF IsPutOff, Statements
      <4> QED
        BY <2>0, <3>1, <4>1 DEF ImportGraph, This
    <3>5. ASSUME NEW i \in DOMAIN stack, stack[i].pass = "declare"
          PROVE  Leads(stack[i], g)
      <4>1. Top.pass = "resolve" /\ Leads(stack[i], Top) /\ Reaches(ImportGraph, Top.mod, m)
        BY <1>1, <3>4, <3>5, ReachesEdge
      <4>2. \A b : Reaches(ImportGraph, m, b) => Reaches(ImportGraph, Top.mod, b)
        BY <4>1, ReachesThrough
      <4> QED
        BY <3>3, <4>1, <4>2 DEF Leads
    <3> QED
      BY <1>0, <3>3, <3>5, ChainWaits
  <2>2. CASE Here \in linked /\ ~IsResolvable(This.to)
    <3>1. stack' = Waiting("imported")
      BY <1>3, <2>2 DEF ResolveImport, CallResolve
    <3> QED
      BY <1>0, <3>1, SameWaiting, ChainFollows
  <2>3. CASE Here \notin linked
    <3>1. stack' = Advanced({})
      BY <1>3, <2>3 DEF ResolveImport
    <3> QED
      BY <1>0, <2>0, <3>1, SameAdvanced, ChainFollows
  <2> QED
    BY <2>1, <2>2, <2>3
<1>4. CASE ResolveDecl
  <2>0. Top.todo # <<>> /\ This.kind = "decl"
    BY <1>4 DEF ResolveDecl, Statement
  <2>1. Here \in Declarations /\ Here \in Nodes
    BY <1>0, <2>0, HereDeclared, HereType
  <2> DEFINE g == [pass |-> "declare", mod |-> Here[1], todo |-> <<Here[2]>>,
                   at |-> "entered", diags |-> {}]
  <2>2. g \in Frames /\ g.pass = "declare" /\ Place(g) = Here
    BY <2>1 DEF Frames, Nodes, Place, Here
  <2>3. PICK below \in Seq(Frames) : below = Advanced({})
    BY <1>0, <2>0, SameAdvanced
  <2>4. DOMAIN below = DOMAIN stack /\ SameCalls(below, stack) /\ stack' = Append(below, g)
    BY <1>0, <1>4, <2>0, <2>3, SameAdvanced DEF ResolveDecl, Declare
  <2> HIDE DEF g
  <2>5. ASSUME NEW i \in DOMAIN stack, stack[i].pass = "declare"
        PROVE  Leads(stack[i], g)
    <3>1. Top.pass = "resolve" /\ Leads(stack[i], Top)
      BY <1>1, <2>5
    <3>2. Reaches(ImportGraph, Top.mod, Here[1])
      BY ReachesItself DEF Here
    <3>3. Reaches(WaitsFor, Place(stack[i]), Here)
      BY <2>1, <3>1, <3>2 DEF Leads
    <3> QED
      BY <2>2, <3>3 DEF Leads
  <2> QED
    BY <1>0, <2>2, <2>4, <2>5, ChainCalls
<1>5. CASE EndResolve
  <2>1. SameCalls(stack', stack)
    BY <1>0, <1>5, SamePopped, SameWaiting DEF EndResolve
  <2> QED
    BY <1>0, <2>1, ChainFollows
<1> QED
  BY <1>2, <1>3, <1>4, <1>5 DEF ResolvingStep

LEMMA ChainTests == TypeInv /\ StackShape /\ CallChain /\ Tests => CallChain'
<1> SUFFICES ASSUME TypeInv, StackShape, CallChain, Tests PROVE CallChain'
  OBVIOUS
<1>0. stack # <<>> /\ UNCHANGED program
  BY DEF Tests, StartTests, EndTests, EndDraining, Running
<1>1. CASE StartTests
  <2> DEFINE g == [pass |-> "tests", mod |-> Head(pending), todo |-> deferred[Head(pending)],
                   at |-> "next", diags |-> {}]
  <2>1. g \in Frames /\ g.pass = "tests" /\ stack' = Append(stack, g)
    BY <1>1 DEF StartTests, TypeInv, TypeOK, Frames
  <2> HIDE DEF g
  <2>2. SameCalls(stack, stack) /\ stack \in Seq(Frames)
    BY DEF SameCalls, SameCall, TypeInv, TypeOK
  <2>3. \A i \in DOMAIN stack : Leads(stack[i], g)
    BY <2>1 DEF Leads
  <2> QED
    BY <1>0, <2>1, <2>2, <2>3, ChainCalls
<1>2. CASE EndTests \/ EndDraining
  <2>1. SameCalls(stack', stack)
    BY <1>0, <1>2, SamePopped DEF EndTests, EndDraining
  <2> QED
    BY <1>0, <2>1, ChainFollows
<1> QED
  BY <1>1, <1>2 DEF Tests

\* What the declaration on top waits for, those below it wait for, too.
LEMMA ChainDeclares ==
    ASSUME TypeInv, CallChain, stack # <<>>, Top.pass = "declare", NEW b,
           Reaches(WaitsFor, Here, b),
           NEW i \in DOMAIN stack, stack[i].pass = "declare"
    PROVE  Reaches(WaitsFor, Place(stack[i]), b)
<1>1. CASE i = Len(stack)
  BY <1>1 DEF Place, Here, Top
<1>2. CASE i # Len(stack)
  <2>1. Reaches(WaitsFor, Place(stack[i]), Here)
    BY <1>2, ChainToTop DEF Leads, Place, Here
  <2> QED
    BY <2>1, ReachesThrough
<1> QED
  BY <1>1, <1>2

LEMMA ChainDeclaring == TypeInv /\ CallChain /\ Declaring => CallChain'
<1> SUFFICES ASSUME TypeInv, CallChain, Declaring PROVE CallChain'
  OBVIOUS
<1>0. stack # <<>> /\ Top.pass = "declare" /\ UNCHANGED program
  BY DEF Declaring, EnterDecl, FinishLiteral, FinishUndeclared, FinishPoisonedAlias,
         AwaitModule, FinishPoisonedModule, FinishReference, FinishCycle, ResolveTarget,
         CanLook, Running, Finish
<1>1. Top \in Frames /\ FitsProgram(program, Top)
  BY <1>0, TypeInvStack, GoodTop
<1>2. Top.todo # <<>> /\ This.kind = "decl" /\ Here \in Declarations
  BY <1>0, <1>1, HereDeclared DEF FitsProgram, This, Stmt
<1>3. CASE EnterDecl
  <2>1. SameCalls(stack', stack)
    BY <1>0, <1>3, SamePopped, SameWaiting DEF EnterDecl
  <2> QED
    BY <1>0, <2>1, ChainFollows
<1>4. CASE AwaitModule
  <2>1. PICK m \in Modules : m = This.to /\ m # Top.mod
    BY <1>4 DEF AwaitModule, NamesImport
  <2>2. IsResolvable(m) /\ CallResolve(Waiting("awaited"), m, {})
    BY <1>4, <2>1 DEF AwaitModule
  <2>3. PICK g \in Frames : g.mod = m /\ g.pass = "resolve" /\ Waits("awaited", g)
    BY <2>2, ResolvePushes
  <2>4. ASSUME NEW b \in Declarations, Reaches(ImportGraph, m, b[1])
        PROVE  Reaches(WaitsFor, Here, b)
    <3> DEFINE e == <<Here, b>>
    <3>1. e \in Declarations \X Declarations /\ e[1] = Here /\ e[2] = b
      BY <1>2
    <3>2. Stmt(e[1][1], e[1][2]).to = m /\ e[1][1] # m
      BY <2>1, <3>1 DEF This, Here
    <3>3. e \in WaitsForFile
      BY <2>4, <3>1, <3>2 DEF WaitsForFile
    <3>4. e \in WaitsFor.edge
      BY <3>3 DEF WaitsFor
    <3> QED
      BY <3>4, ReachesEdge
  <2>5. ASSUME NEW i \in DOMAIN stack, stack[i].pass = "declare"
        PROVE  Leads(stack[i], g)
    <3>1. \A b \in Declarations : Reaches(ImportGraph, m, b[1]) => Reaches(WaitsFor, Place(stack[i]), b)
      BY <1>0, <2>4, <2>5, ChainDeclares
    <3> QED
      BY <2>3, <3>1 DEF Leads
  <2> QED
    BY <1>0, <2>3, <2>5, ChainWaits
<1>5. CASE ResolveTarget
  <2> DEFINE g == [pass |-> "declare", mod |-> Target[1], todo |-> <<Target[2]>>,
                   at |-> "entered", diags |-> {}]
  <2>0. This.to \in Modules
    BY <1>5 DEF ResolveTarget, CanLook
  <2>1. Target \in Nodes /\ <<Here, Target>> \in References
    BY <1>0, <1>2, <2>0, TargetRefers
  <2>2. g \in Frames /\ g.pass = "declare" /\ Place(g) = Target
    BY <2>1 DEF Frames, Nodes, Place, Target
  <2>3. Waits("looking", g)
    BY <1>5 DEF ResolveTarget, Declare, Waits
  <2> HIDE DEF g
  <2>4. Reaches(WaitsFor, Here, Target)
    BY <2>1, ReachesEdge DEF WaitsFor
  <2>5. ASSUME NEW i \in DOMAIN stack, stack[i].pass = "declare"
        PROVE  Leads(stack[i], g)
    <3>1. Reaches(WaitsFor, Place(stack[i]), Target)
      BY <1>0, <2>4, <2>5, ChainDeclares
    <3> QED
      BY <2>2, <3>1 DEF Leads
  <2> QED
    BY <1>0, <2>2, <2>3, <2>5, ChainWaits
<1>6. CASE Finishing
  <2>1. PICK diags \in SUBSET Diagnostics : \E status, others : Finish(status, others, diags)
    BY <1>6, FinishingForm
  <2>2. SameCalls(stack', stack)
    BY <1>0, <2>1, SameReported DEF Finish
  <2> QED
    BY <1>0, <2>2, ChainFollows
<1> QED
  BY <1>3, <1>4, <1>5, <1>6 DEF Declaring, Finishing

LEMMA ChainAnalyzing == TypeInv /\ Analyzing => CallChain'
<1> SUFFICES ASSUME TypeInv, Analyzing PROVE CallChain'
  OBVIOUS
<1>0. stack = <<>>
  BY DEF Analyzing, RejectUnparsed, CollectRoot, ResolveRoot, ReturnCancelled, Reject,
         RejectEmitted, Lower, At
<1>1. stack' = <<>> \/ \E f : stack' = Append(<<>>, f)
  BY <1>0 DEF Analyzing, RejectUnparsed, CollectRoot, ResolveRoot, ReturnCancelled, Reject,
         RejectEmitted, Lower, CallCollect, CallResolve
<1>2. \A f : Append(<<>>, f) = <<f>>
  OBVIOUS
<1>3. DOMAIN stack' \subseteq {1}
  BY <1>1, <1>2
<1> QED
  BY <1>3 DEF CallChain

LEMMA ChainNext == TypeInv /\ StackShape /\ CallChain /\ [Next]_vars => CallChain'
<1> SUFFICES ASSUME TypeInv, StackShape, CallChain, [Next]_vars PROVE CallChain'
  OBVIOUS
<1>1. CASE Cancel \/ UNCHANGED vars
  <2>1. UNCHANGED <<program, stack>>
    BY <1>1 DEF Cancel, vars
  <2>2. SameCalls(stack', stack)
    BY <2>1 DEF SameCalls, SameCall
  <2> QED
    BY <2>1, <2>2, ChainFollows
<1> QED
  BY <1>1, ChainCollecting, ChainResolving, ChainTests, ChainDeclaring, ChainAnalyzing
     DEF Next, Analyzer

-----------------------------------------------------------------------------
(* Where reports are                                                        *)

InStack(s, d) == \E k \in DOMAIN s : d \in s[k].diags
InReports(d) == \E m \in Modules : d \in reports[m]
Known(d) == d \in leftover \/ InReports(d) \/ InStack(stack, d)

IsCycle(d) ==
    \E e \in References : e[1] = <<d.mod, d.stmt>> /\ Reaches(WaitsFor, e[2], e[1])
\* Wherever it is kept, a cycle that was found is one.
CyclesKnown == \A d : Known(d) /\ d.error = "cyclicDependency" => IsCycle(d)

\* A step that makes only reports known that are no cycles, or true.
LEMMA CyclesFollow ==
    ASSUME CyclesKnown, UNCHANGED program,
           \A d : Known(d)' => Known(d) \/ d.error # "cyclicDependency" \/ IsCycle(d)
    PROVE  CyclesKnown'
<1>1. \A d : IsCycle(d)' <=> IsCycle(d)
  BY GraphsStay DEF IsCycle
<1> QED
  BY <1>1 DEF CyclesKnown

LEMMA InWithTop ==
    ASSUME TypeInv, stack # <<>>, NEW f \in Frames, NEW d, InStack(WithTop(f), d)
    PROVE  InStack(stack, d) \/ d \in f.diags
<1>1. /\ DOMAIN WithTop(f) = DOMAIN stack /\ WithTop(f)[Len(stack)] = f
      /\ \A k \in DOMAIN stack : k # Len(stack) => WithTop(f)[k] = stack[k]
  BY WithTopIs DEF TypeInv, TypeOK
<1> QED
  BY <1>1 DEF InStack

LEMMA InAppend ==
    ASSUME NEW s \in Seq(Frames), NEW g \in Frames, NEW d, InStack(Append(s, g), d)
    PROVE  InStack(s, d) \/ d \in g.diags
<1>1. /\ DOMAIN Append(s, g) = 1..(Len(s) + 1) /\ DOMAIN s = 1..Len(s) /\ Len(s) \in Nat
      /\ \A k \in 1..Len(s) : Append(s, g)[k] = s[k]
      /\ Append(s, g)[Len(s) + 1] = g
  BY AppendIs
<1>2. \A k \in DOMAIN Append(s, g) : k \in DOMAIN s \/ k = Len(s) + 1
  BY <1>1
<1> QED
  BY <1>1, <1>2 DEF InStack

LEMMA InPopped ==
    ASSUME TypeInv, stack # <<>>, NEW d, InStack(Popped, d)
    PROVE  InStack(stack, d)
BY PoppedIs DEF InStack, TypeInv, TypeOK

LEMMA InReported ==
    ASSUME NEW s \in Seq(Frames), NEW diags \in SUBSET Diagnostics, NEW d,
           InStack(Reported(s, diags), d)
    PROVE  InStack(s, d) \/ d \in diags
<1>1. CASE \A j \in DOMAIN s : s[j].pass = "declare"
  <2>1. {i \in DOMAIN s : s[i].pass # "declare"} = {}
    BY <1>1
  <2> QED
    BY <2>1 DEF Reported
<1>2. CASE \E j \in DOMAIN s : s[j].pass # "declare"
  <2>1. PICK o \in DOMAIN s :
            /\ Reported(s, diags)[o].diags = s[o].diags \cup diags
            /\ \A k \in DOMAIN s : k # o => Reported(s, diags)[k].diags = s[k].diags
    BY <1>2, ReportedTo
  <2>2. DOMAIN Reported(s, diags) = DOMAIN s
    BY ReportedIs
  <2> QED
    BY <2>1, <2>2 DEF InStack
<1> QED
  BY <1>1, <1>2

LEMMA TopKnown ==
    ASSUME TypeInv, stack # <<>>, NEW d \in Top.diags
    PROVE  InStack(stack, d)
BY TypeInvStack, GoodTop DEF InStack, Top

LEMMA InWaiting ==
    ASSUME TypeInv, stack # <<>>,
           NEW at \in {"imported", "started", "awaited", "looking", "draining"},
           NEW d, InStack(Waiting(at), d)
    PROVE  InStack(stack, d)
<1> DEFINE f == [Top EXCEPT !.at = at]
<1>1. Top \in Frames
  BY TypeInvStack, GoodTop
<1>2. f \in Frames /\ f.diags = Top.diags /\ Waiting(at) = WithTop(f)
  BY <1>1 DEF Frames, Waiting
<1> HIDE DEF f
<1> QED
  BY <1>2, InWithTop, TopKnown

LEMMA InAdvanced ==
    ASSUME TypeInv, stack # <<>>, Top.todo # <<>>, NEW diags \in SUBSET Diagnostics,
           NEW d, InStack(Advanced(diags), d)
    PROVE  InStack(stack, d) \/ d \in diags
<1>1. PICK f \in Frames : f.diags = Top.diags \cup diags /\ Advanced(diags) = WithTop(f)
  BY AdvancedIs
<1> QED
  BY <1>1, InWithTop, TopKnown

LEMMA InWaits ==
    ASSUME TypeInv, stack # <<>>, NEW at \in {"imported", "started", "awaited", "looking"},
           NEW g \in Frames, g.diags = {}, Waits(at, g), NEW d, InStack(stack', d)
    PROVE  InStack(stack, d)
<1>1. PICK below \in Seq(Frames) : below = Waiting(at)
  BY SameWaiting
<1>2. InStack(below, d)
  BY <1>1, InAppend DEF Waits
<1> QED
  BY <1>1, <1>2, InWaiting

\* Reports stay where they are; those of the pass on top may move.
LEMMA CyclesStay ==
    ASSUME TypeInv, CyclesKnown, stack # <<>>, UNCHANGED program,
           NEW more, \A d \in more : d.error # "cyclicDependency" \/ IsCycle(d),
           \A d : InStack(stack', d) => InStack(stack, d) \/ d \in more,
           \A d \in leftover' : d \in leftover \/ d \in Top.diags,
           \A m \in Modules : \A d \in reports'[m] : d \in reports[m] \/ d \in Top.diags
    PROVE  CyclesKnown'
<1>1. \A d : InReports(d)' => InReports(d) \/ d \in Top.diags
  BY DEF InReports
<1>2. ASSUME NEW d, Known(d)' PROVE Known(d) \/ d \in more
  BY <1>1, <1>2, TopKnown DEF Known
<1> QED
  BY <1>2, CyclesFollow

LEMMA CyclesStill ==
    ASSUME TypeInv, CyclesKnown, stack # <<>>, UNCHANGED program,
           \A d : InStack(stack', d) => InStack(stack, d),
           \A d \in leftover' : d \in leftover \/ d \in Top.diags,
           \A m \in Modules : \A d \in reports'[m] : d \in reports[m] \/ d \in Top.diags
    PROVE  CyclesKnown'
<1>1. PICK more : more = {}
  OBVIOUS
<1>2. \A d : InStack(stack', d) => InStack(stack, d) \/ d \in more
  BY <1>1
<1> QED
  BY <1>1, <1>2, CyclesStay

LEMMA CyclesCollecting == TypeInv /\ CyclesKnown /\ Collecting => CyclesKnown'
<1> SUFFICES ASSUME TypeInv, CyclesKnown, Collecting PROVE CyclesKnown'
  OBVIOUS
<1>0. stack # <<>> /\ Top.pass = "collect" /\ Top \in Frames /\ FitsProgram(program, Top)
      /\ UNCHANGED program
  BY CollectingForm, TypeInvStack, GoodTop
     DEF Collecting, CollectDecl, CollectMissingImport, CollectImport, LinkImport, EndCollect
<1>1. CASE CollectDecl \/ CollectMissingImport \/ LinkImport
  <2>1. Top.todo # <<>>
    BY <1>0, <1>1 DEF CollectDecl, CollectMissingImport, LinkImport, Running, FitsProgram
  <2>2. PICK diags \in SUBSET Diagnostics :
            stack' = Advanced(diags) /\ \A d \in diags : d.error # "cyclicDependency"
    BY <1>0, <1>1, <2>1, HereType DEF CollectDecl, CollectMissingImport, LinkImport, Diagnostic
  <2>3. UNCHANGED <<leftover, reports>>
    BY <1>1 DEF CollectDecl, CollectMissingImport, LinkImport
  <2> QED
    BY <1>0, <2>1, <2>2, <2>3, InAdvanced, CyclesStay
<1>2. CASE CollectImport
  <2>1. PICK m \in Modules : m = This.to
    BY <1>2 DEF CollectImport
  <2>2. /\ CallCollect(Waiting("imported"), m, LoadedState(m), {})
        /\ UNCHANGED <<leftover, reports>>
    BY <1>2, <2>1 DEF CollectImport
  <2>3. PICK g \in Frames : g.diags = {} /\ Waits("imported", g)
    BY <2>2, CollectWaits
  <2> QED
    BY <1>0, <2>2, <2>3, InWaits, CyclesStill
<1>3. CASE EndCollect
  <2>1. stack' = Popped /\ \A d \in leftover' : d \in leftover
    BY <1>3 DEF EndCollect, Kept
  <2>2. \A m \in Modules : \A d \in reports'[m] : d \in reports[m] \/ d \in Top.diags
    BY <1>3 DEF EndCollect, TypeInv, TypeOK
  <2>3. \A d : InStack(stack', d) => InStack(stack, d)
    BY <1>0, <2>1, InPopped
  <2> QED
    BY <1>0, <2>1, <2>2, <2>3, CyclesStill
<1> QED
  BY <1>1, <1>2, <1>3 DEF Collecting

LEMMA CyclesResolving == TypeInv /\ CyclesKnown /\ ResolvingStep => CyclesKnown'
<1> SUFFICES ASSUME TypeInv, CyclesKnown, ResolvingStep PROVE CyclesKnown'
  OBVIOUS
<1>0. stack # <<>> /\ Top \in Frames /\ FitsProgram(program, Top) /\ UNCHANGED program
      /\ Top.pass # "declare"
  BY TypeInvStack, GoodTop
     DEF ResolvingStep, PutOffTest, ResolveImport, AfterImport, ResolveDecl, EndResolve,
         Statement, Resolving, Running
<1>1. CASE PutOffTest \/ AfterImport
  <2>1. Top.todo # <<>>
    BY <1>0, <1>1 DEF PutOffTest, AfterImport, Statement, Resolving, Running, FitsProgram
  <2>2. PICK diags \in SUBSET Diagnostics :
            stack' = Advanced(diags) /\ \A d \in diags : d.error # "cyclicDependency"
    BY <1>0, <1>1, <2>1, HereType DEF PutOffTest, AfterImport, Diagnostic
  <2>3. UNCHANGED <<leftover, reports>>
    BY <1>1 DEF PutOffTest, AfterImport
  <2> QED
    BY <1>0, <2>1, <2>2, <2>3, InAdvanced, CyclesStay
<1>2. CASE ResolveImport
  <2>0. Top.todo # <<>> /\ UNCHANGED <<leftover, reports>>
    BY <1>2 DEF ResolveImport, Statement
  <2>1. CASE Here \in linked /\ IsResolvable(This.to)
    <3>1. PICK m \in Modules : m = This.to
      BY <2>1 DEF IsResolvable, TypeInv, TypeOK
    <3>2. CallResolve(Waiting("imported"), m, {})
      BY <1>2, <2>1, <3>1 DEF ResolveImport
    <3>3. PICK g \in Frames : g.diags = {} /\ Waits("imported", g)
      BY <3>2, ResolveWaits
    <3> QED
      BY <1>0, <2>0, <3>3, InWaits, CyclesStill
  <2>2. CASE Here \in linked /\ ~IsResolvable(This.to)
    <3>1. stack' = Waiting("imported")
      BY <1>2, <2>2 DEF ResolveImport, CallResolve
    <3>2. \A d : InStack(stack', d) => InStack(stack, d)
      BY <1>0, <3>1, InWaiting
    <3> QED
      BY <1>0, <2>0, <3>2, CyclesStill
  <2>3. CASE Here \notin linked
    <3>1. stack' = Advanced({})
      BY <1>2, <2>3 DEF ResolveImport
    <3>2. \A d : InStack(stack', d) => InStack(stack, d)
      BY <1>0, <2>0, <3>1, InAdvanced
    <3> QED
      BY <1>0, <2>0, <3>2, CyclesStill
  <2> QED
    BY <2>1, <2>2, <2>3
<1>3. CASE ResolveDecl
  <2>0. Top.todo # <<>> /\ UNCHANGED <<leftover, reports>>
    BY <1>3 DEF ResolveDecl, Statement
  <2> DEFINE g == [pass |-> "declare", mod |-> Here[1], todo |-> <<Here[2]>>,
                   at |-> "entered", diags |-> {}]
  <2>1. g \in Frames /\ g.diags = {}
    BY <1>0, <2>0, HereType DEF Frames, Nodes
  <2>2. PICK below \in Seq(Frames) : below = Advanced({})
    BY <1>0, <2>0, SameAdvanced
  <2>3. stack' = Append(below, g)
    BY <1>3, <2>2 DEF ResolveDecl, Declare
  <2> HIDE DEF g
  <2>4. \A d : InStack(stack', d) => InStack(stack, d)
    BY <1>0, <2>0, <2>1, <2>2, <2>3, InAppend, InAdvanced
  <2> QED
    BY <1>0, <2>0, <2>4, CyclesStill
<1>4. CASE EndResolve
  <2>1. \A d : InStack(stack', d) => InStack(stack, d)
    BY <1>0, <1>4, InPopped, InWaiting DEF EndResolve
  <2>2. \A d \in leftover' : d \in leftover \/ d \in Top.diags
    BY <1>4 DEF EndResolve, Kept, NotMoved
  <2>3. \A m \in Modules : \A d \in reports'[m] : d \in reports[m] \/ d \in Top.diags
    BY <1>4 DEF EndResolve, Absorbed, TypeInv, TypeOK
  <2> QED
    BY <1>0, <2>1, <2>2, <2>3, CyclesStill
<1> QED
  BY <1>1, <1>2, <1>3, <1>4 DEF ResolvingStep

LEMMA CyclesTests == TypeInv /\ CyclesKnown /\ Tests => CyclesKnown'
<1> SUFFICES ASSUME TypeInv, CyclesKnown, Tests PROVE CyclesKnown'
  OBVIOUS
<1>0. stack # <<>> /\ UNCHANGED <<program, leftover>>
  BY DEF Tests, StartTests, EndTests, EndDraining, Running
<1>1. CASE StartTests
  <2> DEFINE g == [pass |-> "tests", mod |-> Head(pending), todo |-> deferred[Head(pending)],
                   at |-> "next", diags |-> {}]
  <2>1. g \in Frames /\ g.diags = {} /\ stack' = Append(stack, g) /\ UNCHANGED reports
    BY <1>1 DEF StartTests, TypeInv, TypeOK, Frames
  <2> HIDE DEF g
  <2>2. PICK s \in Seq(Frames) : s = stack
    BY DEF TypeInv, TypeOK
  <2>3. \A d : InStack(stack', d) => InStack(stack, d)
    BY <2>1, <2>2, InAppend
  <2> QED
    BY <1>0, <2>1, <2>3, CyclesStill
<1>2. CASE EndTests \/ EndDraining
  <2>1. \A d : InStack(stack', d) => InStack(stack, d)
    BY <1>0, <1>2, InPopped DEF EndTests, EndDraining
  <2>2. \A m \in Modules : \A d \in reports'[m] : d \in reports[m] \/ d \in Top.diags
    BY <1>2 DEF EndTests, EndDraining, Absorbed, TypeInv, TypeOK
  <2> QED
    BY <1>0, <2>1, <2>2, CyclesStill
<1> QED
  BY <1>1, <1>2 DEF Tests

\* The declaration that is referred to is under way: it waits for this one.
LEMMA TargetWaits ==
    ASSUME TypeInv, SymbolsUnderWay, CallChain, stack # <<>>, Top.pass = "declare",
           Here \in Declarations, This.to \in Modules, symbol[Target] = "resolving"
    PROVE  Reaches(WaitsFor, Target, Here)
<1>1. Target \in Nodes /\ <<Here, Target>> \in References
  BY TargetRefers
<1>2. PICK k \in DOMAIN stack : stack[k].pass = "declare" /\ Target = Place(stack[k])
  BY <1>1 DEF SymbolsUnderWay, Declares, Place
<1>3. CASE k = Len(stack)
  <2>1. Target = Here
    BY <1>2, <1>3 DEF Place, Here, Top
  <2> QED
    BY <2>1, ReachesItself
<1>4. CASE k # Len(stack)
  BY <1>2, <1>4, ChainToTop DEF Leads, Place, Here
<1> QED
  BY <1>3, <1>4

LEMMA CyclesDeclaring ==
    TypeInv /\ SymbolsUnderWay /\ CallChain /\ CyclesKnown /\ Declaring => CyclesKnown'
<1> SUFFICES ASSUME TypeInv, SymbolsUnderWay, CallChain, CyclesKnown, Declaring
             PROVE  CyclesKnown'
  OBVIOUS
<1>0. stack # <<>> /\ Top.pass = "declare" /\ UNCHANGED <<program, reports, leftover>>
  BY DEF Declaring, EnterDecl, FinishLiteral, FinishUndeclared, FinishPoisonedAlias,
         AwaitModule, FinishPoisonedModule, FinishReference, FinishCycle, ResolveTarget,
         CanLook, Running, Finish
<1>1. Top \in Frames /\ FitsProgram(program, Top)
  BY <1>0, TypeInvStack, GoodTop
<1>2. Top.todo # <<>> /\ This.kind = "decl" /\ Here \in Declarations /\ Here \in Nodes
  BY <1>0, <1>1, HereDeclared, HereType DEF FitsProgram, This, Stmt
<1>3. CASE EnterDecl
  <2>1. \A d : InStack(stack', d) => InStack(stack, d)
    BY <1>0, <1>3, InPopped, InWaiting DEF EnterDecl
  <2> QED
    BY <1>0, <2>1, CyclesStill
<1>4. CASE AwaitModule
  <2>1. PICK m \in Modules : m = This.to
    BY <1>4 DEF AwaitModule, NamesImport
  <2>2. CallResolve(Waiting("awaited"), m, {})
    BY <1>4, <2>1 DEF AwaitModule
  <2>3. PICK g \in Frames : g.diags = {} /\ Waits("awaited", g)
    BY <2>2, ResolveWaits
  <2> QED
    BY <1>0, <2>3, InWaits, CyclesStill
<1>5. CASE ResolveTarget
  <2> DEFINE g == [pass |-> "declare", mod |-> Target[1], todo |-> <<Target[2]>>,
                   at |-> "entered", diags |-> {}]
  <2>1. g \in Frames /\ g.diags = {}
    BY <1>0, <1>5, TargetType DEF ResolveTarget, CanLook, Frames, Nodes
  <2>2. Waits("looking", g)
    BY <1>5 DEF ResolveTarget, Declare, Waits
  <2> HIDE DEF g
  <2> QED
    BY <1>0, <2>1, <2>2, InWaits, CyclesStill
<1>6. CASE Finishing
  <2>1. PICK diags \in SUBSET Diagnostics :
            /\ stack' = Reported(Popped, diags)
            /\ \A d \in diags : \/ d.error # "cyclicDependency"
                                \/ FinishCycle /\ d = Diagnostic(Here, "cyclicDependency")
    <3>1. \A e \in {"importedModuleContainsErrors", "undeclaredIdentifier", "cyclicDependency"} :
            {Diagnostic(Here, e)} \in SUBSET Diagnostics
      BY <1>0, <1>2, HereType
    <3>2. \A e : Diagnostic(Here, e).error = e
      BY DEF Diagnostic
    <3>3. CASE FinishLiteral \/ FinishPoisonedAlias \/ FinishReference
      BY <3>3 DEF FinishLiteral, FinishPoisonedAlias, FinishReference, Finish
    <3>4. CASE FinishUndeclared
      <4>1. stack' = Reported(Popped, {Diagnostic(Here, "undeclaredIdentifier")})
        BY <3>4 DEF FinishUndeclared, Finish
      <4>2. PICK diags \in SUBSET Diagnostics : diags = {Diagnostic(Here, "undeclaredIdentifier")}
        BY <3>1
      <4>3. \A d \in diags : d.error # "cyclicDependency"
        BY <3>2, <4>2
      <4> QED
        BY <4>1, <4>2, <4>3
    <3>5. CASE FinishPoisonedModule
      <4>1. stack' = Reported(Popped, {Diagnostic(Here, "importedModuleContainsErrors")})
        BY <3>5 DEF FinishPoisonedModule, Finish
      <4>2. PICK diags \in SUBSET Diagnostics : diags = {Diagnostic(Here, "importedModuleContainsErrors")}
        BY <3>1
      <4>3. \A d \in diags : d.error # "cyclicDependency"
        BY <3>2, <4>2
      <4> QED
        BY <4>1, <4>2, <4>3
    <3>6. CASE FinishCycle
      <4>1. stack' = Reported(Popped, {Diagnostic(Here, "cyclicDependency")})
        BY <3>6 DEF FinishCycle, Finish
      <4> QED
        BY <3>1, <3>6, <4>1
    <3> QED
      BY <1>6, <3>3, <3>4, <3>5, <3>6 DEF Finishing
  <2>2. ASSUME FinishCycle PROVE IsCycle(Diagnostic(Here, "cyclicDependency"))
    <3>1. This.to \in Modules /\ symbol[Target] = "resolving"
      BY <2>2 DEF FinishCycle, CanLook
    <3>2. <<Here, Target>> \in References /\ Reaches(WaitsFor, Target, Here)
      BY <1>0, <1>2, <3>1, TargetRefers, TargetWaits
    <3>3. PICK e : e = <<Here, Target>>
      OBVIOUS
    <3>4. e \in References /\ e[1] = Here /\ e[2] = Target
      BY <3>2, <3>3
    <3>5. <<Diagnostic(Here, "cyclicDependency").mod, Diagnostic(Here, "cyclicDependency").stmt>> = Here
      BY DEF Diagnostic, Here
    <3> QED
      BY <3>2, <3>4, <3>5 DEF IsCycle
  <2>3. \A d \in diags : d.error # "cyclicDependency" \/ IsCycle(d)
    BY <2>1, <2>2
  <2>4. PICK s \in Seq(Frames) : s = Popped
    BY <1>0, FollowsPopped
  <2>5. \A d : InStack(stack', d) => InStack(stack, d) \/ d \in diags
    BY <1>0, <2>1, <2>4, InReported, InPopped
  <2> QED
    BY <1>0, <2>3, <2>5, CyclesStay
<1> QED
  BY <1>3, <1>4, <1>5, <1>6 DEF Declaring, Finishing

LEMMA CyclesAnalyzing == TypeInv /\ CyclesKnown /\ Analyzing => CyclesKnown'
<1> SUFFICES ASSUME TypeInv, CyclesKnown, Analyzing PROVE CyclesKnown'
  OBVIOUS
<1>0. stack = <<>> /\ roots # <<>> /\ UNCHANGED program
  BY DEF Analyzing, RejectUnparsed, CollectRoot, ResolveRoot, ReturnCancelled, Reject,
         RejectEmitted, Lower, At
<1>1. Root \in Modules
  BY <1>0, RootType
<1>2. \A d : InStack(stack', d) => d \in leftover
  <2>1. CASE stack' = <<>>
    BY <2>1 DEF InStack
  <2>2. CASE \E g \in Frames : g.diags = leftover /\ stack' = Append(stack, g)
    <3>1. PICK g \in Frames : g.diags = leftover /\ stack' = Append(stack, g)
      BY <2>2
    <3>0. stack \in Seq(Frames)
      BY DEF TypeInv, TypeOK
    <3>2. PICK s \in Seq(Frames) : s = <<>>
      BY <1>0, <3>0
    <3>3. \A d : ~InStack(s, d)
      BY <3>2 DEF InStack
    <3>4. stack' = Append(s, g)
      BY <1>0, <3>1, <3>2
    <3> QED
      BY <3>1, <3>3, <3>4, InAppend
  <2>3. leftover \in SUBSET Diagnostics
    BY DEF TypeInv, TypeOK
  <2>4. \A p \in {"collect", "resolve"} :
           [pass |-> p, mod |-> Root, todo |-> Body(Root), at |-> "next", diags |-> leftover] \in Frames
    BY <1>1, <2>3, BodyType DEF Frames
  <2>5. CASE CollectRoot
    <3> DEFINE g == [pass |-> "collect", mod |-> Root, todo |-> Body(Root), at |-> "next",
                     diags |-> leftover]
    <3>1. g \in Frames /\ g.diags = leftover
      BY <2>4
    <3>2. stack' = stack \/ stack' = Append(stack, g)
      BY <2>5 DEF CollectRoot, CallCollect
    <3> HIDE DEF g
    <3> QED
      BY <1>0, <2>1, <2>2, <3>1, <3>2
  <2>6. CASE ResolveRoot
    <3> DEFINE g == [pass |-> "resolve", mod |-> Root, todo |-> Body(Root), at |-> "next",
                     diags |-> leftover]
    <3>1. g \in Frames /\ g.diags = leftover
      BY <2>4
    <3>2. stack' = stack \/ stack' = Append(stack, g)
      BY <2>6 DEF ResolveRoot, CallResolve
    <3> HIDE DEF g
    <3> QED
      BY <1>0, <2>1, <2>2, <3>1, <3>2
  <2>7. CASE RejectUnparsed \/ ReturnCancelled \/ Reject \/ RejectEmitted \/ Lower
    BY <1>0, <2>1, <2>7 DEF RejectUnparsed, ReturnCancelled, Reject, RejectEmitted, Lower
  <2> QED
    BY <2>5, <2>6, <2>7 DEF Analyzing
<1>3. \A d \in leftover' : d \in leftover
  BY DEF Analyzing, RejectUnparsed, CollectRoot, ResolveRoot, ReturnCancelled, Reject,
         RejectEmitted, Lower
<1>4. \A m \in Modules : \A d \in reports'[m] : d \in reports[m] \/ d \in leftover
  BY DEF Analyzing, RejectUnparsed, CollectRoot, ResolveRoot, ReturnCancelled, Reject,
         RejectEmitted, Lower, TypeInv, TypeOK
<1>5. \A d : Known(d)' => Known(d)
  BY <1>2, <1>3, <1>4 DEF Known, InReports
<1> QED
  BY <1>0, <1>5, CyclesFollow

LEMMA CyclesNext ==
    TypeInv /\ SymbolsUnderWay /\ CallChain /\ CyclesKnown /\ [Next]_vars => CyclesKnown'
<1> SUFFICES ASSUME TypeInv, SymbolsUnderWay, CallChain, CyclesKnown, [Next]_vars
             PROVE  CyclesKnown'
  OBVIOUS
<1>1. CASE Cancel \/ UNCHANGED vars
  <2>1. UNCHANGED <<program, stack, leftover, reports>>
    BY <1>1 DEF Cancel, vars
  <2>2. \A d : Known(d)' => Known(d)
    BY <2>1 DEF Known, InReports, InStack
  <2> QED
    BY <2>1, <2>2, CyclesFollow
<1> QED
  BY <1>1, CyclesCollecting, CyclesResolving, CyclesTests, CyclesDeclaring, CyclesAnalyzing
     DEF Next, Analyzer

LEMMA CyclesInvariant == Spec => [](CallChain /\ CyclesKnown)
<1>1. Init => CallChain /\ CyclesKnown
  BY DEF Init, CallChain, CyclesKnown, Known, InReports, InStack
<1>2. HalfDoneIsUnderWay => SymbolsUnderWay
  BY DEF HalfDoneIsUnderWay
<1> QED
  BY <1>1, <1>2, UnderWayInvariant, ChainNext, CyclesNext, PTL DEF Spec

\* A declaration reported to depend on itself does: what it refers to waits for
\* it, through names or through the files that names have resolved, for every
\* program and every order of imports (access.cc:526, 568).
THEOREM CyclesAreAlwaysReal == Spec => []CyclesAreReal
<1>1. CyclesKnown => CyclesAreReal
  BY DEF CyclesKnown, Known, InReports, IsCycle, CyclesAreReal
<1> QED
  BY <1>1, CyclesInvariant, PTL
==============================================================================
