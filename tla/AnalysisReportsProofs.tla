------------------------ MODULE AnalysisReportsProofs ------------------------
(* That ModuleAnalysis reports an undeclared name in exactly one list, for  *)
(* every program, when one root is analyzed.                                *)
EXTENDS ModuleAnalysisProofs, WellFoundedInduction

-----------------------------------------------------------------------------
(* The owner of a report                                                    *)

\* Some numbers have a least one, and some indices a largest.
LEMMA LeastOf ==
    ASSUME NEW S \in SUBSET Nat, S # {}
    PROVE  \E x \in S : \A y \in S : x <= y
<1>1. PICK x \in S : \A y \in S : ~(<<y, x>> \in OpToRel(<, Nat))
  BY NatLessThanWellFounded, WFMin
<1>2. \A y \in S : ~(y < x)
  BY <1>1 DEF OpToRel
<1> QED
  BY <1>2

LEMMA LargestOf ==
    ASSUME NEW n \in Nat, NEW S \in SUBSET (1..n), S # {}
    PROVE  /\ Max(S) \in S
           /\ \A y \in S : y <= Max(S)
<1> DEFINE T == {n - y : y \in S}
<1>0. \A y \in S : y \in 1..n /\ n - y \in Nat
  OBVIOUS
<1>1. T \in SUBSET Nat /\ T # {}
  BY <1>0
<1>2. PICK x \in T : \A y \in T : x <= y
  <2> HIDE DEF T
  <2> QED
    BY <1>1, LeastOf
<1>3. PICK z \in S : x = n - z
  BY <1>2
<1>4. \A y \in S : z >= y
  <2>1. \A y \in S : n - z <= n - y
    BY <1>2, <1>3
  <2>2. ASSUME NEW y \in S PROVE z >= y
    <3>1. y \in Nat /\ z \in Nat /\ n - z <= n - y
      BY <1>0, <2>1
    <3> QED
      BY <3>1
  <2> QED
    BY <2>2
<1> QED
  BY <1>4 DEF Max

\* The pass that declarations above it report to: what Reported adds, it adds to
\* the innermost pass that is not a declaration's.
LEMMA ReportedTo ==
    ASSUME NEW s \in Seq(Frames), NEW diags \in SUBSET Diagnostics,
           NEW j \in DOMAIN s, s[j].pass # "declare"
    PROVE  \E o \in DOMAIN s :
                /\ o >= j
                /\ s[o].pass # "declare"
                /\ Reported(s, diags)[o].diags = s[o].diags \cup diags
                /\ \A k \in DOMAIN s : k # o => Reported(s, diags)[k].diags = s[k].diags
<1> DEFINE owners == {i \in DOMAIN s : s[i].pass # "declare"}
           o == Max(owners)
           f == [s[o] EXCEPT !.diags = @ \cup diags]
<1>1. Len(s) \in Nat /\ DOMAIN s = 1..Len(s) /\ owners \in SUBSET (1..Len(s)) /\ owners # {}
  OBVIOUS
<1>2. o \in owners /\ \A y \in owners : y <= o
  <2> HIDE DEF owners
  <2> QED
    BY <1>1, LargestOf
<1>3. o \in DOMAIN s /\ s[o].pass # "declare" /\ o >= j
  BY <1>1, <1>2
<1>4. Reported(s, diags) = [s EXCEPT ![o] = f]
  BY <1>1 DEF Reported
<1>5. s[o] \in Frames
  BY <1>3
<1>6. f.diags = s[o].diags \cup diags
  BY <1>5 DEF Frames
<1> HIDE DEF o, f
<1> QED
  BY <1>3, <1>4, <1>6

-----------------------------------------------------------------------------
(* Where the passes wait                                                    *)

\* The statement a frame stands at.
Place(f) == <<f.mod, Head(f.todo)>>

\* Declarations of names that nobody declares.
Misses(n) ==
    /\ n[2] \in DOMAIN program[n[1]].body
    /\ Stmt(n[1], n[2]).kind = "decl" /\ Stmt(n[1], n[2]).to = Undeclared

\* No module is waited for in a declaration of an undeclared name, which is never
\* left half done; a declaration that has just been entered is on top; the frame
\* that drains the queue calls nothing but tests.
WaitsNamed ==
    \A k \in DOMAIN stack : stack[k].at \in {"imported", "awaited"} => ~Misses(Place(stack[k]))
StartedIsTop ==
    \A k \in DOMAIN stack : stack[k].at = "started" =>
        k = Len(stack) /\ symbol[Place(stack[k])] = "resolving"
MissesAtOnce ==
    \A n \in Nodes : Misses(n) /\ symbol[n] = "resolving" =>
        Running({"declare"}, "started") /\ Here = n
DrainsTests ==
    \A j, k \in DOMAIN stack : stack[j].at = "draining" /\ k = j + 1 => stack[k].pass = "tests"
WaitingOrder == WaitsNamed /\ StartedIsTop /\ MissesAtOnce /\ DrainsTests

LEMMA OrderPops ==
    ASSUME TypeInv, WaitingOrder, stack # <<>>, stack' \in Seq(Frames),
           KeepsBelow(stack', stack), Len(stack') = Len(stack) - 1, UNCHANGED program,
           \A n \in Nodes : Misses(n) => symbol'[n] # "resolving"
    PROVE  WaitingOrder'
<1>1. /\ stack \in Seq(Frames) /\ Len(stack) \in Nat /\ DOMAIN stack = 1..Len(stack)
      /\ Len(stack') \in Nat /\ DOMAIN stack' = 1..Len(stack')
  BY DEF TypeInv, TypeOK
<1>2. \A k \in DOMAIN stack' : /\ k \in DOMAIN stack /\ k # Len(stack)
                               /\ SameWork(stack'[k], stack[k]) /\ stack'[k].at = stack[k].at
  BY <1>1 DEF KeepsBelow
<1>3. WaitsNamed'
  BY <1>2 DEF WaitingOrder, WaitsNamed, Place, Misses, SameWork, Stmt
<1>4. StartedIsTop'
  BY <1>2 DEF WaitingOrder, StartedIsTop
<1>5. MissesAtOnce'
  BY DEF MissesAtOnce, Misses, Stmt
<1>6. DrainsTests'
  BY <1>2 DEF WaitingOrder, DrainsTests, SameWork
<1> QED
  BY <1>3, <1>4, <1>5, <1>6 DEF WaitingOrder

LEMMA OrderStays ==
    ASSUME TypeInv, WaitingOrder, stack # <<>>, NEW f \in Frames, stack' = WithTop(f),
           f.pass = Top.pass, UNCHANGED program,
           f.at \in {"imported", "awaited"} => ~Misses(Place(f)),
           f.at = "started" => symbol'[Place(f)] = "resolving",
           \A n \in Nodes : Misses(n) /\ symbol'[n] = "resolving" =>
                f.pass = "declare" /\ f.at = "started" /\ Place(f) = n
    PROVE  WaitingOrder'
<1>1. stack \in Seq(Frames) /\ Len(stack) \in Nat /\ DOMAIN stack = 1..Len(stack) /\ Len(stack) \in DOMAIN stack
  BY DEF TypeInv, TypeOK
<1>2. /\ stack' \in Seq(Frames) /\ Len(stack') = Len(stack) /\ DOMAIN stack' = DOMAIN stack
      /\ stack'[Len(stack)] = f
      /\ \A k \in DOMAIN stack : k # Len(stack) => stack'[k] = stack[k]
  BY <1>1, WithTopIs
<1>3. WaitsNamed'
  BY <1>2 DEF WaitingOrder, WaitsNamed, Place, Misses, Stmt
<1>4. StartedIsTop'
  BY <1>2 DEF WaitingOrder, StartedIsTop
<1>5. stack' # <<>> /\ Top' = f
  BY <1>1, <1>2 DEF Top
<1>6. MissesAtOnce'
  BY <1>5 DEF MissesAtOnce, Misses, Stmt, Running, Here, Place
<1>7. DrainsTests'
  <2> SUFFICES ASSUME NEW j \in DOMAIN stack', NEW k \in DOMAIN stack',
                      stack'[j].at = "draining", k = j + 1
               PROVE  stack'[k].pass = "tests"
    BY DEF DrainsTests
  <2>1. j # Len(stack) /\ stack'[j] = stack[j] /\ j \in DOMAIN stack /\ k \in DOMAIN stack
    BY <1>1, <1>2
  <2>2. stack[k].pass = "tests"
    BY <2>1 DEF WaitingOrder, DrainsTests
  <2> QED
    BY <1>2, <2>1, <2>2 DEF Top
<1> QED
  BY <1>3, <1>4, <1>6, <1>7 DEF WaitingOrder

LEMMA OrderCalls ==
    ASSUME TypeInv, WaitingOrder, NEW below \in Seq(Frames), NEW g \in Frames,
           stack' = Append(below, g), KeepsBelow(below, stack), Len(below) = Len(stack),
           UNCHANGED program,
           stack # <<>> =>
               LET f == below[Len(stack)] IN
               /\ f.pass = Top.pass /\ f.at # "started"
               /\ f.at \in {"imported", "awaited"} => ~Misses(Place(f))
               /\ f.at = "draining" => g.pass = "tests",
           g.at \notin {"imported", "awaited", "started", "draining"},
           \A n \in Nodes : Misses(n) => symbol'[n] # "resolving"
    PROVE  WaitingOrder'
<1>1. /\ stack \in Seq(Frames) /\ Len(stack) \in Nat /\ DOMAIN stack = 1..Len(stack)
      /\ DOMAIN below = DOMAIN stack
      /\ \A k \in DOMAIN stack : stack # <<>>
  BY DEF TypeInv, TypeOK
<1>2. /\ stack' \in Seq(Frames) /\ Len(stack') = Len(stack) + 1
      /\ DOMAIN stack' = 1..(Len(stack) + 1)
      /\ \A k \in DOMAIN stack : stack'[k] = below[k]
      /\ stack'[Len(stack) + 1] = g
  BY <1>1, AppendIs
<1>3. \A k \in DOMAIN stack : k # Len(stack) =>
            SameWork(stack'[k], stack[k]) /\ stack'[k].at = stack[k].at
  BY <1>1, <1>2 DEF KeepsBelow
<1>4. \A k \in DOMAIN stack' : k \in DOMAIN stack \/ k = Len(stack) + 1
  BY <1>1, <1>2
<1>5. WaitsNamed'
  <2> SUFFICES ASSUME NEW k \in DOMAIN stack', stack'[k].at \in {"imported", "awaited"}
               PROVE  ~Misses(Place(stack'[k]))
    BY DEF WaitsNamed, Place, Misses, Stmt
  <2>1. k \in DOMAIN stack
    BY <1>2, <1>4
  <2>2. CASE k = Len(stack)
    BY <1>1, <1>2, <2>1, <2>2 DEF Place
  <2>3. CASE k # Len(stack)
    BY <1>3, <2>1, <2>3 DEF WaitingOrder, WaitsNamed, Place, SameWork
  <2> QED
    BY <2>2, <2>3
<1>6. StartedIsTop'
  <2> SUFFICES ASSUME NEW k \in DOMAIN stack', stack'[k].at = "started"
               PROVE  FALSE
    BY DEF StartedIsTop
  <2>1. k \in DOMAIN stack
    BY <1>2, <1>4
  <2> QED
    BY <1>1, <1>2, <1>3, <2>1 DEF WaitingOrder, StartedIsTop
<1>7. MissesAtOnce'
  BY DEF MissesAtOnce, Misses, Stmt
<1>8. DrainsTests'
  <2> SUFFICES ASSUME NEW j \in DOMAIN stack', NEW k \in DOMAIN stack',
                      stack'[j].at = "draining", k = j + 1
               PROVE  stack'[k].pass = "tests"
    BY DEF DrainsTests
  <2>1. j \in DOMAIN stack
    BY <1>2, <1>4
  <2>2. CASE j = Len(stack)
    BY <1>1, <1>2, <2>1, <2>2
  <2>3. CASE j # Len(stack)
    <3>1. k \in DOMAIN stack /\ stack[j].at = "draining"
      BY <1>1, <1>3, <2>1, <2>3
    <3>2. stack[k].pass = "tests"
      BY <2>1, <3>1 DEF WaitingOrder, DrainsTests
    <3> QED
      BY <1>1, <1>2, <1>3, <3>1, <3>2 DEF SameWork, Top
  <2> QED
    BY <2>2, <2>3
<1> QED
  BY <1>5, <1>6, <1>7, <1>8 DEF WaitingOrder

\* No declaration of an undeclared name is half done, but for the one on top.
LEMMA NoneMissesNow ==
    ASSUME TypeInv, WaitingOrder, UNCHANGED program,
           ~Running({"declare"}, "started") \/ ~Misses(Here),
           \A n \in Nodes : symbol'[n] = "resolving" => symbol[n] = "resolving"
    PROVE  \A n \in Nodes : Misses(n) => symbol'[n] # "resolving"
BY DEF WaitingOrder, MissesAtOnce

LEMMA OrderAdvances ==
    ASSUME TypeInv, WaitingOrder, stack # <<>>, Top.pass # "declare", Top.todo # <<>>,
           NEW diags \in SUBSET Diagnostics, stack' = Advanced(diags), UNCHANGED program,
           \A n \in Nodes : symbol'[n] = "resolving" => symbol[n] = "resolving"
    PROVE  WaitingOrder'
<1> DEFINE f == [Top EXCEPT !.todo = Tail(@), !.at = "next", !.diags = @ \cup diags]
<1>1. Top \in Frames
  BY TypeInvStack, GoodTop
<1>2. Tail(Top.todo) \in Seq(Indices)
  BY <1>1 DEF Frames
<1>3. f \in Frames /\ f.pass = Top.pass /\ f.at = "next" /\ stack' = WithTop(f)
  BY <1>1, <1>2 DEF Frames, Advanced
<1> HIDE DEF f
<1>4. \A n \in Nodes : Misses(n) => symbol'[n] # "resolving"
  BY NoneMissesNow DEF Running
<1> QED
  BY <1>3, <1>4, OrderStays

\* A pass that waits, for a call or without one.
Waits(at, g) == stack' = Waiting(at) \/ stack' = Append(Waiting(at), g)

LEMMA OrderWaits ==
    ASSUME TypeInv, WaitingOrder, stack # <<>>, Top.todo # <<>>,
           NEW at \in {"imported", "awaited", "looking"},
           ~Misses(Here),
           NEW g \in Frames, g.at \notin {"imported", "awaited", "started", "draining"},
           Waits(at, g), UNCHANGED <<program, symbol>>
    PROVE  WaitingOrder'
<1> DEFINE f == [Top EXCEPT !.at = at]
<1>1. Top \in Frames
  BY TypeInvStack, GoodTop
<1>2. /\ f \in Frames /\ f.pass = Top.pass /\ f.mod = Top.mod /\ f.todo = Top.todo /\ f.at = at
      /\ Waiting(at) = WithTop(f)
  BY <1>1 DEF Frames, Waiting
<1>3. ~Misses(Place(f))
  BY <1>2 DEF Place, Here
<1> HIDE DEF f
<1>4. \A n \in Nodes : Misses(n) => symbol'[n] # "resolving"
  BY NoneMissesNow
<1>5. CASE stack' = WithTop(f)
  BY <1>2, <1>3, <1>4, <1>5, OrderStays
<1>6. CASE stack' = Append(WithTop(f), g)
  <2>1. PICK below \in Seq(Frames) : below = WithTop(f)
    BY <1>2, WithTopIs DEF TypeInv, TypeOK
  <2>2. Len(below) = Len(stack) /\ below[Len(stack)] = f
    BY <1>2, <2>1, WithTopIs DEF TypeInv, TypeOK
  <2>3. KeepsBelow(below, stack)
    BY <1>2, <2>1, WithTopIs DEF TypeInv, TypeOK, KeepsBelow, SameWork
  <2> QED
    BY <1>2, <1>3, <1>4, <1>6, <2>1, <2>2, <2>3, OrderCalls
<1> QED
  BY <1>2, <1>5, <1>6 DEF Waits

\* The frames that calls put on top.
LEMMA CollectWaits ==
    ASSUME TypeInv, NEW at, NEW m \in Modules, NEW st,
           CallCollect(Waiting(at), m, st, {})
    PROVE  \E g \in Frames : g.at = "next" /\ g.diags = {} /\ g.mod = m /\ Waits(at, g)
<1> DEFINE g == [pass |-> "collect", mod |-> m, todo |-> Body(m), at |-> "next", diags |-> {}]
<1>1. g \in Frames /\ g.at = "next" /\ g.diags = {} /\ g.mod = m
  BY BodyType DEF Frames
<1>2. stack' = Waiting(at) \/ stack' = Append(Waiting(at), g)
  BY DEF CallCollect
<1> HIDE DEF g
<1> QED
  BY <1>1, <1>2 DEF Waits

LEMMA ResolveWaits ==
    ASSUME TypeInv, NEW at, NEW m \in Modules, CallResolve(Waiting(at), m, {})
    PROVE  \E g \in Frames : g.at = "next" /\ g.diags = {} /\ g.mod = m /\ Waits(at, g)
<1> DEFINE g == [pass |-> "resolve", mod |-> m, todo |-> Body(m), at |-> "next", diags |-> {}]
<1>1. g \in Frames /\ g.at = "next" /\ g.diags = {} /\ g.mod = m
  BY BodyType DEF Frames
<1>2. stack' = Waiting(at) \/ stack' = Append(Waiting(at), g)
  BY DEF CallResolve
<1> HIDE DEF g
<1> QED
  BY <1>1, <1>2 DEF Waits

LEMMA OrderCollecting == TypeInv /\ WaitingOrder /\ Collecting => WaitingOrder'
<1> SUFFICES ASSUME TypeInv, WaitingOrder, Collecting PROVE WaitingOrder'
  OBVIOUS
<1>0. stack # <<>> /\ Top.pass = "collect" /\ Top \in Frames /\ FitsProgram(program, Top)
  BY CollectingForm, TypeInvStack, GoodTop
<1>1. CASE CollectDecl \/ CollectMissingImport \/ LinkImport
  <2>1. Top.todo # <<>>
    BY <1>0, <1>1 DEF CollectDecl, CollectMissingImport, LinkImport, Running, FitsProgram
  <2>2. PICK diags \in SUBSET Diagnostics : stack' = Advanced(diags)
    BY <1>0, <1>1, <2>1, HereType DEF CollectDecl, CollectMissingImport, LinkImport
  <2>3. /\ UNCHANGED program
        /\ \A n \in Nodes : symbol'[n] = "resolving" => symbol[n] = "resolving"
    BY <1>1 DEF CollectDecl, CollectMissingImport, LinkImport, TypeInv, TypeOK
  <2> QED
    BY <1>0, <2>1, <2>2, <2>3, OrderAdvances
<1>2. CASE CollectImport
  <2>1. PICK m \in Modules : m = This.to
    BY <1>2 DEF CollectImport
  <2>2. /\ CallCollect(Waiting("imported"), m, LoadedState(m), {})
        /\ UNCHANGED <<program, symbol>> /\ ~Misses(Here) /\ Top.todo # <<>>
    BY <1>2, <2>1 DEF CollectImport, Misses, Here, This
  <2>3. PICK g \in Frames : g.at = "next" /\ Waits("imported", g)
    BY <2>2, CollectWaits
  <2> QED
    BY <1>0, <2>2, <2>3, OrderWaits DEF Running
<1>3. CASE EndCollect
  <2>1. stack' = Popped /\ UNCHANGED <<program, symbol>>
    BY <1>3 DEF EndCollect
  <2>2. \A n \in Nodes : Misses(n) => symbol'[n] # "resolving"
    BY <1>0, <2>1, NoneMissesNow DEF Running
  <2>3. stack' \in Seq(Frames) /\ Len(stack') = Len(stack) - 1 /\ KeepsBelow(stack', stack)
    BY <1>0, <2>1, PoppedIs, KeepsPopped DEF TypeInv, TypeOK
  <2> QED
    BY <1>0, <2>1, <2>2, <2>3, OrderPops
<1> QED
  BY <1>1, <1>2, <1>3 DEF Collecting

\* The pass on top ends.
LEMMA OrderEnds ==
    ASSUME TypeInv, WaitingOrder, stack # <<>>, stack' = Popped, UNCHANGED <<program, symbol>>,
           ~Running({"declare"}, "started")
    PROVE  WaitingOrder'
<1>1. \A n \in Nodes : Misses(n) => symbol'[n] # "resolving"
  BY NoneMissesNow
<1>2. stack' \in Seq(Frames) /\ Len(stack') = Len(stack) - 1 /\ KeepsBelow(stack', stack)
  BY PoppedIs, KeepsPopped DEF TypeInv, TypeOK
<1> QED
  BY <1>1, <1>2, OrderPops

\* The frame for a declaration that is called from a pass over statements.
LEMMA AdvancedIs ==
    ASSUME TypeInv, stack # <<>>, Top.todo # <<>>, NEW diags \in SUBSET Diagnostics
    PROVE  \E f \in Frames :
                /\ f.pass = Top.pass /\ f.mod = Top.mod /\ f.at = "next"
                /\ f.todo = Tail(Top.todo) /\ f.diags = Top.diags \cup diags
                /\ Advanced(diags) = WithTop(f)
<1> DEFINE f == [Top EXCEPT !.todo = Tail(@), !.at = "next", !.diags = @ \cup diags]
<1>1. Top \in Frames
  BY TypeInvStack, GoodTop
<1>2. Tail(Top.todo) \in Seq(Indices)
  BY <1>1 DEF Frames
<1>3. /\ f \in Frames /\ f.pass = Top.pass /\ f.mod = Top.mod /\ f.at = "next"
      /\ f.todo = Tail(Top.todo) /\ f.diags = Top.diags \cup diags
  BY <1>1, <1>2 DEF Frames
<1>4. Advanced(diags) = WithTop(f)
  BY DEF Advanced
<1> HIDE DEF f
<1> QED
  BY <1>3, <1>4

LEMMA OrderResolving == TypeInv /\ WaitingOrder /\ ResolvingStep => WaitingOrder'
<1> SUFFICES ASSUME TypeInv, WaitingOrder, ResolvingStep PROVE WaitingOrder'
  OBVIOUS
<1>0. stack # <<>> /\ Top.pass \in {"resolve", "tests"} /\ Top \in Frames /\ FitsProgram(program, Top)
  BY TypeInvStack, GoodTop
     DEF ResolvingStep, PutOffTest, ResolveImport, AfterImport, ResolveDecl, EndResolve,
         Statement, Resolving, Running
<1>1. ~Running({"declare"}, "started")
  BY <1>0 DEF Running
<1>2. CASE PutOffTest \/ AfterImport
  <2>1. Top.todo # <<>>
    BY <1>0, <1>2 DEF PutOffTest, AfterImport, Statement, Resolving, Running, FitsProgram
  <2>2. PICK diags \in SUBSET Diagnostics : stack' = Advanced(diags)
    BY <1>0, <1>2, <2>1, HereType DEF PutOffTest, AfterImport
  <2>3. /\ UNCHANGED program
        /\ \A n \in Nodes : symbol'[n] = "resolving" => symbol[n] = "resolving"
    BY <1>2 DEF PutOffTest, AfterImport, TypeInv, TypeOK
  <2> QED
    BY <1>0, <2>1, <2>2, <2>3, OrderAdvances
<1>3. CASE ResolveImport
  <2>1. UNCHANGED <<program, symbol>> /\ ~Misses(Here) /\ Top.todo # <<>>
    BY <1>3 DEF ResolveImport, Statement, Misses, Here, This
  <2>2. CASE Here \in linked /\ IsResolvable(This.to)
    <3>1. PICK m \in Modules : m = This.to
      BY <2>2 DEF IsResolvable, TypeInv, TypeOK
    <3>2. CallResolve(Waiting("imported"), m, {})
      BY <1>3, <2>2, <3>1 DEF ResolveImport
    <3>3. PICK g \in Frames : g.at = "next" /\ Waits("imported", g)
      BY <3>2, ResolveWaits
    <3> QED
      BY <1>0, <1>1, <2>1, <3>3, OrderWaits
  <2>3. CASE Here \in linked /\ ~IsResolvable(This.to)
    <3>1. stack' = Waiting("imported")
      BY <1>3, <2>3 DEF ResolveImport, CallResolve
    <3>2. PICK g \in Frames : g.at = "next"
      BY <1>0, <2>1, AdvancedIs
    <3> QED
      BY <1>0, <1>1, <2>1, <3>1, <3>2, OrderWaits DEF Waits
  <2>4. CASE Here \notin linked
    BY <1>0, <1>3, <2>1, <2>4, OrderAdvances DEF ResolveImport
  <2> QED
    BY <2>2, <2>3, <2>4
<1>4. CASE ResolveDecl
  <2>0. Top.todo # <<>> /\ UNCHANGED <<program, symbol>>
    BY <1>4 DEF ResolveDecl, Statement
  <2> DEFINE g == [pass |-> "declare", mod |-> Here[1], todo |-> <<Here[2]>>,
                   at |-> "entered", diags |-> {}]
  <2>1. g \in Frames /\ g.at = "entered"
    BY <1>0, <2>0, HereType DEF Frames, Nodes
  <2>2. stack' = Append(Advanced({}), g)
    BY <1>4 DEF ResolveDecl, Declare
  <2> HIDE DEF g
  <2>3. PICK f \in Frames : f.pass = Top.pass /\ f.at = "next" /\ Advanced({}) = WithTop(f)
    BY <1>0, <2>0, AdvancedIs
  <2>4. PICK below \in Seq(Frames) : below = WithTop(f)
    BY <1>0, <2>3, WithTopIs DEF TypeInv, TypeOK
  <2>5. Len(below) = Len(stack) /\ below[Len(stack)] = f /\ KeepsBelow(below, stack)
    BY <1>0, <2>3, <2>4, WithTopIs DEF TypeInv, TypeOK, KeepsBelow, SameWork
  <2>6. \A n \in Nodes : Misses(n) => symbol'[n] # "resolving"
    BY <1>1, <2>0, NoneMissesNow
  <2> QED
    BY <1>0, <2>0, <2>1, <2>2, <2>3, <2>4, <2>5, <2>6, OrderCalls
<1>5. CASE EndResolve
  <2>0. UNCHANGED <<program, symbol>>
    BY <1>5 DEF EndResolve
  <2>1. CASE IsOutermost
    <3> DEFINE f == [Top EXCEPT !.at = "draining"]
    <3>1. f \in Frames /\ f.pass = Top.pass /\ f.at = "draining"
      BY <1>0 DEF Frames
    <3>2. stack' = WithTop(f)
      BY <1>5, <2>1 DEF EndResolve, Waiting
    <3> HIDE DEF f
    <3>3. \A n \in Nodes : Misses(n) => symbol'[n] # "resolving"
      BY <1>1, <2>0, NoneMissesNow
    <3> QED
      BY <1>0, <2>0, <3>1, <3>2, <3>3, OrderStays
  <2>2. CASE ~IsOutermost
    BY <1>0, <1>1, <1>5, <2>0, <2>2, OrderEnds DEF EndResolve
  <2> QED
    BY <2>1, <2>2
<1> QED
  BY <1>2, <1>3, <1>4, <1>5 DEF ResolvingStep

LEMMA OrderTests == TypeInv /\ WaitingOrder /\ Tests => WaitingOrder'
<1> SUFFICES ASSUME TypeInv, WaitingOrder, Tests PROVE WaitingOrder'
  OBVIOUS
<1>0. /\ stack # <<>> /\ Top \in Frames /\ stack \in Seq(Frames) /\ UNCHANGED <<program, symbol>>
      /\ ~Running({"declare"}, "started")
  BY TypeInvStack, GoodTop
     DEF Tests, StartTests, EndTests, EndDraining, Running, TypeInv, TypeOK
<1>1. CASE StartTests
  <2> DEFINE g == [pass |-> "tests", mod |-> Head(pending), todo |-> deferred[Head(pending)],
                   at |-> "next", diags |-> {}]
  <2>1. g \in Frames /\ g.pass = "tests" /\ g.at = "next"
    BY <1>1 DEF StartTests, TypeInv, TypeOK, Frames
  <2>2. stack' = Append(stack, g) /\ Top.at = "draining"
    BY <1>1 DEF StartTests, Running
  <2> HIDE DEF g
  <2>3. KeepsBelow(stack, stack)
    BY DEF KeepsBelow, SameWork
  <2>4. \A n \in Nodes : Misses(n) => symbol'[n] # "resolving"
    BY <1>0, NoneMissesNow
  <2> QED
    BY <1>0, <2>1, <2>2, <2>3, <2>4, OrderCalls DEF Top
<1>2. CASE EndTests \/ EndDraining
  BY <1>0, <1>2, OrderEnds DEF EndTests, EndDraining
<1> QED
  BY <1>1, <1>2 DEF Tests

LEMMA OrderFinish ==
    ASSUME TypeInv, WaitingOrder, stack # <<>>, NEW status \in {"resolved", "poisoned"},
           NEW others, NEW diags \in SUBSET Diagnostics, Finish(status, others, diags)
    PROVE  WaitingOrder'
<1>1. UNCHANGED program /\ stack' = Reported(Popped, diags)
  BY DEF Finish
<1>2. \A n \in Nodes : Misses(n) => symbol'[n] # "resolving"
  BY DEF Finish, WaitingOrder, MissesAtOnce
<1>3. KeepsBelow(stack', stack)
  BY <1>1, KeepsReported
<1>4. Popped \in Seq(Frames) /\ Len(Popped) = Len(stack) - 1
  BY PoppedIs DEF TypeInv, TypeOK
<1>5. stack' \in Seq(Frames) /\ Len(stack') = Len(stack) - 1
  BY <1>1, <1>4, ReportedIs
<1> QED
  BY <1>1, <1>2, <1>3, <1>5, OrderPops

\* The steps that end a declaration.
Finishing ==
    \/ FinishLiteral \/ FinishUndeclared \/ FinishPoisonedAlias
    \/ FinishPoisonedModule \/ FinishReference \/ FinishCycle

\* What they end it with: an undeclared name is reported by one of them only.
LEMMA FinishingForm ==
    ASSUME TypeInv, Finishing
    PROVE  \E status \in {"resolved", "poisoned"} : \E diags \in SUBSET Diagnostics :
             \E others :
                /\ Finish(status, others, diags)
                /\ \A n \in others : n = Target /\ This.to \in Modules /\ symbol[Target] = "resolving"
                /\ FinishUndeclared =>
                        others = {} /\ diags = {Diagnostic(Here, "undeclaredIdentifier")}
                /\ ~FinishUndeclared =>
                        \A n : Diagnostic(n, "undeclaredIdentifier") \notin diags
<1>0. stack # <<>> /\ Top.pass = "declare"
  BY DEF Finishing, FinishLiteral, FinishUndeclared, FinishPoisonedAlias,
         FinishPoisonedModule, FinishReference, FinishCycle, CanLook, Running
<1>1. Top \in Frames /\ FitsProgram(program, Top)
  BY <1>0, TypeInvStack, GoodTop
<1>2. Top.todo # <<>>
  BY <1>0, <1>1 DEF FitsProgram
<1>3. \A e \in {"importedModuleContainsErrors", "undeclaredIdentifier", "cyclicDependency"} :
        {Diagnostic(Here, e)} \in SUBSET Diagnostics
  BY <1>0, <1>2, HereType
<1>4. \A e \in {"importedModuleContainsErrors", "cyclicDependency"} :
        \A n : Diagnostic(n, "undeclaredIdentifier") # Diagnostic(Here, e)
  BY DEF Diagnostic
<1>5. CASE FinishUndeclared
  BY <1>3, <1>5 DEF FinishUndeclared
<1>6. CASE ~FinishUndeclared /\ (FinishLiteral \/ FinishPoisonedAlias \/ FinishReference)
  <2>1. \E status \in {"resolved", "poisoned"} : Finish(status, {}, {})
    BY <1>6 DEF FinishLiteral, FinishPoisonedAlias, FinishReference
  <2> QED
    BY <1>6, <2>1
<1>7. CASE ~FinishUndeclared /\ FinishPoisonedModule
  BY <1>3, <1>4, <1>7 DEF FinishPoisonedModule
<1>8. CASE ~FinishUndeclared /\ FinishCycle
  BY <1>3, <1>4, <1>8 DEF FinishCycle, CanLook
<1> QED
  BY <1>5, <1>6, <1>7, <1>8 DEF Finishing

LEMMA OrderDeclaring == TypeInv /\ WaitingOrder /\ Declaring => WaitingOrder'
<1> SUFFICES ASSUME TypeInv, WaitingOrder, Declaring PROVE WaitingOrder'
  OBVIOUS
<1>0. stack # <<>> /\ Top.pass = "declare"
  BY DEF Declaring, EnterDecl, FinishLiteral, FinishUndeclared, FinishPoisonedAlias,
         AwaitModule, FinishPoisonedModule, FinishReference, FinishCycle, ResolveTarget,
         CanLook, Running
<1>1. Top \in Frames /\ FitsProgram(program, Top)
  BY <1>0, TypeInvStack, GoodTop
<1>2. Top.todo # <<>> /\ Here \in Nodes
  BY <1>0, <1>1, HereType DEF FitsProgram
<1>3. CASE EnterDecl
  <2>0. Top.at = "entered" /\ ~Running({"declare"}, "started") /\ UNCHANGED program
    BY <1>3 DEF EnterDecl, Running
  <2>1. CASE symbol' = symbol /\ stack' = Popped
    BY <1>0, <2>0, <2>1, OrderEnds
  <2>2. CASE symbol' = [symbol EXCEPT ![Here] = "resolving"] /\ stack' = Waiting("started")
    <3> DEFINE f == [Top EXCEPT !.at = "started"]
    <3>1. /\ f \in Frames /\ f.pass = "declare" /\ f.mod = Top.mod /\ f.todo = Top.todo
          /\ f.at = "started" /\ stack' = WithTop(f)
      BY <1>0, <1>1, <2>2 DEF Frames, Waiting
    <3> HIDE DEF f
    <3>2. Place(f) = Here
      BY <3>1 DEF Place, Here
    <3>3. /\ symbol'[Here] = "resolving"
          /\ \A n \in Nodes : n # Here => symbol'[n] = symbol[n]
      BY <1>2, <2>2 DEF TypeInv, TypeOK
    <3>4. \A n \in Nodes : Misses(n) => symbol[n] # "resolving"
      BY <2>0 DEF WaitingOrder, MissesAtOnce
    <3> QED
      BY <1>0, <2>0, <3>1, <3>2, <3>3, <3>4, OrderStays
  <2> QED
    BY <1>3, <2>1, <2>2 DEF EnterDecl
<1>4. CASE AwaitModule
  <2>1. PICK m \in Modules : m = This.to
    BY <1>4 DEF AwaitModule, NamesImport
  <2>2. CallResolve(Waiting("awaited"), m, {}) /\ UNCHANGED <<program, symbol>>
    BY <1>4, <2>1 DEF AwaitModule
  <2>3. PICK g \in Frames : g.at = "next" /\ Waits("awaited", g)
    BY <2>2, ResolveWaits
  <2>4. ~Misses(Here)
    BY <2>1, NamesAssumption DEF Misses, This, Here
  <2> QED
    BY <1>0, <1>2, <2>2, <2>3, <2>4, OrderWaits
<1>5. CASE ResolveTarget
  <2> DEFINE g == [pass |-> "declare", mod |-> Target[1], todo |-> <<Target[2]>>,
                   at |-> "entered", diags |-> {}]
  <2>1. g \in Frames /\ g.at = "entered"
    BY <1>0, <1>5, TargetType DEF ResolveTarget, CanLook, Frames, Nodes
  <2>2. Waits("looking", g) /\ UNCHANGED <<program, symbol>>
    BY <1>5 DEF ResolveTarget, Declare, Waits
  <2> HIDE DEF g
  <2>3. ~Misses(Here)
    BY <1>5, NamesAssumption DEF ResolveTarget, CanLook, Misses, This, Here
  <2> QED
    BY <1>0, <1>2, <2>1, <2>2, <2>3, OrderWaits
<1>6. CASE Finishing
  BY <1>0, <1>6, FinishingForm, OrderFinish
<1> QED
  BY <1>3, <1>4, <1>5, <1>6 DEF Declaring, Finishing

LEMMA OrderAnalyzing == TypeInv /\ WaitingOrder /\ Analyzing => WaitingOrder'
<1> SUFFICES ASSUME TypeInv, WaitingOrder, Analyzing PROVE WaitingOrder'
  OBVIOUS
<1>0. stack = <<>> /\ roots # <<>> /\ UNCHANGED <<program, symbol>>
  BY DEF Analyzing, RejectUnparsed, CollectRoot, ResolveRoot, ReturnCancelled, Reject,
         RejectEmitted, Lower, At
<1>1. \A n \in Nodes : Misses(n) => symbol'[n] # "resolving"
  BY <1>0, NoneMissesNow DEF Running
<1>2. stack' = stack \/ \E g \in Frames : g.at = "next" /\ stack' = Append(<<>>, g)
  <2>1. CASE CollectRoot
    <3>1. Root \in Modules /\ leftover \in SUBSET Diagnostics
      BY <1>0, RootType DEF TypeInv, TypeOK
    <3> DEFINE g == [pass |-> "collect", mod |-> Root, todo |-> Body(Root),
                     at |-> "next", diags |-> leftover]
    <3>2. g \in Frames /\ g.at = "next"
      BY <3>1, BodyType DEF Frames
    <3>3. stack' = stack \/ stack' = Append(<<>>, g)
      BY <1>0, <2>1 DEF CollectRoot, CallCollect
    <3> HIDE DEF g
    <3> QED
      BY <3>2, <3>3
  <2>2. CASE ResolveRoot
    <3>1. Root \in Modules /\ leftover \in SUBSET Diagnostics
      BY <1>0, RootType DEF TypeInv, TypeOK
    <3> DEFINE g == [pass |-> "resolve", mod |-> Root, todo |-> Body(Root),
                     at |-> "next", diags |-> leftover]
    <3>2. g \in Frames /\ g.at = "next"
      BY <3>1, BodyType DEF Frames
    <3>3. stack' = stack \/ stack' = Append(<<>>, g)
      BY <1>0, <2>2 DEF ResolveRoot, CallResolve
    <3> HIDE DEF g
    <3> QED
      BY <3>2, <3>3
  <2>3. CASE RejectUnparsed \/ ReturnCancelled \/ Reject \/ RejectEmitted \/ Lower
    BY <2>3 DEF RejectUnparsed, ReturnCancelled, Reject, RejectEmitted, Lower
  <2> QED
    BY <2>1, <2>2, <2>3 DEF Analyzing
<1>3. CASE stack' = stack
  BY <1>0, <1>3 DEF WaitingOrder, WaitsNamed, StartedIsTop, MissesAtOnce, DrainsTests,
                    Misses, Stmt, Running
<1>4. CASE \E g \in Frames : g.at = "next" /\ stack' = Append(<<>>, g)
  <2>1. /\ <<>> \in Seq(Frames) /\ Len(<<>>) = Len(stack) /\ KeepsBelow(<<>>, stack)
    BY <1>0 DEF KeepsBelow
  <2> QED
    BY <1>0, <1>1, <1>4, <2>1, OrderCalls
<1> QED
  BY <1>2, <1>3, <1>4

LEMMA OrderNext == TypeInv /\ WaitingOrder /\ [Next]_vars => WaitingOrder'
<1> SUFFICES ASSUME TypeInv, WaitingOrder, [Next]_vars PROVE WaitingOrder'
  OBVIOUS
<1>1. CASE UNCHANGED <<program, stack, symbol>>
  BY <1>1 DEF WaitingOrder, WaitsNamed, StartedIsTop, MissesAtOnce, DrainsTests, Place,
              Misses, Stmt, Running, Here, Top
<1>2. CASE Cancel \/ UNCHANGED vars
  BY <1>1, <1>2 DEF Cancel, vars
<1> QED
  BY <1>2, OrderCollecting, OrderResolving, OrderTests, OrderDeclaring, OrderAnalyzing
     DEF Next, Analyzer

-----------------------------------------------------------------------------
(* One root                                                                 *)

\* The pass at the bottom is the root's, symbols are collected before they are
\* resolved, and what the analyzer's own list keeps after resolving has been
\* reported: a list that is left over does not reach another module.
OneRoot ==
    /\ Len(roots) <= 1
    /\ stack # <<>> => roots # <<>> /\ stack[1].mod = Root
    /\ phase = "load" => stack = <<>>
    /\ phase = "resolve" => \A k \in DOMAIN stack : stack[k].pass = "collect"
    /\ phase # "decide" /\ roots # <<>> => leftover = {}
    /\ roots # <<>> /\ leftover # {} => IsPoisoned(Root)

LEMMA OneRootKeeps ==
    ASSUME TypeInv, OneRoot, stack # <<>>, stack' \in Seq(Frames), UNCHANGED <<roots, phase>>,
           1 \in DOMAIN stack' => stack'[1].mod = stack[1].mod,
           phase = "resolve" => \A k \in DOMAIN stack' : stack'[k].pass = "collect",
           leftover' # {} => IsPoisoned(Root)' /\ (phase = "decide" \/ leftover # {})
    PROVE  OneRoot'
BY DEF OneRoot, Root

\* Steps keep the module of the pass at the bottom.
LEMMA BottomKept ==
    ASSUME TypeInv, stack # <<>>, Follows(stack', stack) \/ \E f : Calls(stack', stack, f)
    PROVE  1 \in DOMAIN stack' => stack'[1].mod = stack[1].mod
<1>0. stack \in Seq(Frames) /\ Len(stack) \in Nat \ {0} /\ DOMAIN stack = 1..Len(stack)
  BY DEF TypeInv, TypeOK
<1>1. CASE Follows(stack', stack)
  BY <1>1 DEF Follows
<1>2. CASE \E f : Calls(stack', stack, f)
  <2>1. PICK below \in Seq(Frames), f \in Frames :
            Follows(below, stack) /\ DOMAIN below = DOMAIN stack /\ stack' = Append(below, f)
    BY <1>2 DEF Calls
  <2>2. Len(below) = Len(stack)
    BY <1>0, <2>1
  <2>3. stack'[1] = below[1] /\ 1 \in DOMAIN below
    BY <1>0, <2>1, <2>2, AppendIs
  <2> QED
    BY <2>1, <2>3 DEF Follows
<1> QED
  BY <1>1, <1>2

LEMMA RootStaysPoisoned ==
    ASSUME TypeInv, OneRoot, FailuresAreKept, roots # <<>>, UNCHANGED roots, leftover # {}
    PROVE  IsPoisoned(Root)'
<1>1. PICK r \in Modules : r = Root
  BY RootType
<1>2. IsPoisoned(r)
  BY <1>1 DEF OneRoot
<1>3. IsPoisoned(r)' /\ r = Root'
  BY <1>1, <1>2 DEF FailuresAreKept, Root
<1> QED
  BY <1>3 DEF IsPoisoned

LEMMA OneRootCollecting ==
    TypeInv /\ TypeInv' /\ OneRoot /\ FailuresAreKept /\ Collecting => OneRoot'
<1> SUFFICES ASSUME TypeInv, TypeInv', OneRoot, FailuresAreKept, Collecting PROVE OneRoot'
  OBVIOUS
<1>1. /\ stack # <<>> /\ roots # <<>> /\ UNCHANGED <<roots, phase>>
      /\ leftover' = leftover \/ leftover' = {}
  BY CollectingForm DEF OneRoot, Collecting, CollectDecl, CollectMissingImport, CollectImport,
     LinkImport, EndCollect, Kept
<1>2. \/ Follows(stack', stack)
      \/ \E f : f.pass = "collect" /\ Calls(stack', stack, f)
  BY CollectingForm
<1>3. 1 \in DOMAIN stack' => stack'[1].mod = stack[1].mod
  BY <1>1, <1>2, BottomKept
<1>4. ASSUME phase = "resolve", NEW k \in DOMAIN stack' PROVE stack'[k].pass = "collect"
  <2>0. stack \in Seq(Frames) /\ \A j \in DOMAIN stack : stack[j].pass = "collect"
    BY <1>4 DEF OneRoot, TypeInv, TypeOK
  <2>1. CASE Follows(stack', stack)
    BY <2>0, <2>1, <1>4 DEF Follows
  <2>2. CASE \E f : f.pass = "collect" /\ Calls(stack', stack, f)
    <3>1. PICK below \in Seq(Frames), f \in Frames :
              /\ Follows(below, stack) /\ DOMAIN below = DOMAIN stack
              /\ stack' = Append(below, f) /\ f.pass = "collect"
      BY <2>2 DEF Calls
    <3>2. /\ DOMAIN stack' = 1..(Len(below) + 1) /\ DOMAIN below = 1..Len(below)
          /\ \A j \in 1..Len(below) : stack'[j] = below[j]
          /\ stack'[Len(below) + 1] = f /\ Len(below) \in Nat
      BY <3>1, AppendIs
    <3>3. CASE k \in 1..Len(below)
      BY <2>0, <3>1, <3>2, <3>3 DEF Follows
    <3>4. CASE k = Len(below) + 1
      BY <3>1, <3>2, <3>4
    <3> QED
      BY <1>4, <3>2, <3>3, <3>4
  <2> QED
    BY <1>2, <2>1, <2>2
<1>5. leftover' # {} => IsPoisoned(Root)' /\ leftover # {}
  BY <1>1, RootStaysPoisoned
<1>6. stack' \in Seq(Frames)
  BY DEF TypeInv, TypeOK
<1> QED
  BY <1>1, <1>3, <1>4, <1>5, <1>6, OneRootKeeps

LEMMA OneRootResolving ==
    TypeInv /\ TypeInv' /\ OneRoot /\ FailureIsExplained /\ FailuresAreKept
        /\ (ResolvingStep \/ Tests \/ Declaring) => OneRoot'
<1> SUFFICES ASSUME TypeInv, TypeInv', OneRoot, FailureIsExplained, FailuresAreKept,
                    ResolvingStep \/ Tests \/ Declaring
             PROVE  OneRoot'
  OBVIOUS
<1>0. stack' \in Seq(Frames) /\ stack \in Seq(Frames)
  BY DEF TypeInv, TypeOK
<1>1. stack # <<>> /\ Top.pass # "collect" /\ UNCHANGED <<roots, phase>>
  <2>1. CASE StartTests
    BY <2>1 DEF StartTests, Running
  <2>2. CASE ResolvingStep \/ Declaring \/ EndTests \/ EndDraining
    BY <2>2, ResolvingForm
       DEF ResolvingStep, PutOffTest, ResolveImport, AfterImport, ResolveDecl, EndResolve,
           EndTests, EndDraining, Declaring, EnterDecl, FinishLiteral, FinishUndeclared,
           FinishPoisonedAlias, AwaitModule, FinishPoisonedModule, FinishReference, FinishCycle,
           ResolveTarget, Finish
  <2> QED
    BY <2>1, <2>2 DEF Tests
<1>2. roots # <<>> /\ phase = "decide" /\ stack[1].mod = Root
  <2>1. Len(stack) \in DOMAIN stack /\ phase \in {"load", "resolve", "decide"}
    BY <1>0, <1>1 DEF TypeInv, TypeOK
  <2> QED
    BY <1>1, <2>1 DEF OneRoot, Top
<1>3. 1 \in DOMAIN stack' => stack'[1].mod = stack[1].mod
  <2>1. CASE StartTests
    <3>1. PICK g \in Frames : stack' = Append(stack, g)
      <4> DEFINE g == [pass |-> "tests", mod |-> Head(pending), todo |-> deferred[Head(pending)],
                       at |-> "next", diags |-> {}]
      <4>1. g \in Frames
        BY <2>1 DEF StartTests, TypeInv, TypeOK, Frames
      <4>2. stack' = Append(stack, g)
        BY <2>1 DEF StartTests
      <4> HIDE DEF g
      <4> QED
        BY <4>1, <4>2
    <3> QED
      BY <1>0, <1>1, <3>1, AppendIs
  <2>2. CASE EndResolve /\ IsOutermost
    <3> DEFINE f == [Top EXCEPT !.at = "draining"]
    <3>1. Top \in Frames
      BY <1>1, TypeInvStack, GoodTop
    <3>2. f \in Frames /\ f.mod = Top.mod
      BY <3>1 DEF Frames
    <3>3. stack' = WithTop(f)
      BY <2>2 DEF EndResolve, Waiting
    <3> HIDE DEF f
    <3> QED
      BY <1>0, <1>1, <3>2, <3>3, WithTopIs DEF Top
  <2>3. CASE Follows(stack', stack) \/ \E f : Calls(stack', stack, f)
    BY <1>1, <2>3, BottomKept
  <2> QED
    BY <2>1, <2>2, <2>3, ResolvingForm DEF Tests
<1>4. leftover' # {} => IsPoisoned(Root)'
  <2>1. CASE EndResolve /\ Len(stack) = 1
    <3>1. PICK r \in Modules : r = Root
      BY <1>2, RootType
    <3>2. Top.mod = r /\ leftover' = NotMoved(r, Top.diags)
      BY <1>2, <2>1, <3>1 DEF EndResolve, Kept, Top
    <3>3. leftover' # {} => IsPoisoned(r)
      BY <3>2 DEF NotMoved, FailureIsExplained
    <3>4. IsPoisoned(r) => IsPoisoned(r)'
      BY DEF FailuresAreKept
    <3> QED
      BY <1>1, <3>1, <3>3, <3>4 DEF Root, IsPoisoned
  <2>2. CASE leftover' = leftover
    BY <1>1, <1>2, <2>2, RootStaysPoisoned
  <2>3. (EndResolve /\ Len(stack) = 1) \/ leftover' = leftover
    BY DEF ResolvingStep, PutOffTest, ResolveImport, AfterImport, ResolveDecl, EndResolve,
           Tests, StartTests, EndTests, EndDraining, Declaring, EnterDecl, FinishLiteral,
           FinishUndeclared, FinishPoisonedAlias, AwaitModule, FinishPoisonedModule,
           FinishReference, FinishCycle, ResolveTarget, Finish, Kept
  <2> QED
    BY <2>1, <2>2, <2>3
<1> QED
  BY <1>0, <1>1, <1>2, <1>3, <1>4, OneRootKeeps

LEMMA TailOfOne ==
    ASSUME NEW S, NEW s \in Seq(S), s # <<>>, Len(s) <= 1
    PROVE  Tail(s) = <<>>
<1>1. Len(s) \in Nat \ {0}
  OBVIOUS
<1>2. Len(s) = 1
  BY <1>1
<1>3. Tail(s) \in Seq(S) /\ Len(Tail(s)) = 0
  BY <1>2
<1>4. \A t \in Seq(S) : Len(t) = 0 => t = <<>>
  OBVIOUS
<1> QED
  BY <1>3, <1>4

LEMMA OneRootAnalyzing ==
    TypeInv /\ TypeInv' /\ OneRoot /\ FailuresAreKept /\ Analyzing => OneRoot'
<1> SUFFICES ASSUME TypeInv, TypeInv', OneRoot, FailuresAreKept, Analyzing PROVE OneRoot'
  OBVIOUS
<1>0. stack = <<>> /\ roots # <<>>
  BY DEF Analyzing, RejectUnparsed, CollectRoot, ResolveRoot, ReturnCancelled, Reject,
         RejectEmitted, Lower, At
<1>00. Len(roots) <= 1 /\ roots \in Seq(Modules)
  BY DEF OneRoot, TypeInv, TypeOK
<1>1. CASE RejectUnparsed \/ ReturnCancelled \/ Reject \/ RejectEmitted \/ Lower
  <2>1. roots' = Tail(roots) /\ phase' = "load" /\ stack' = <<>>
    BY <1>0, <1>1 DEF RejectUnparsed, ReturnCancelled, Reject, RejectEmitted, Lower, Return
  <2>2. Tail(roots) = <<>>
    BY <1>0, <1>00, TailOfOne
  <2> QED
    BY <2>1, <2>2 DEF OneRoot
<1>2. CASE CollectRoot
  <2>1. leftover = {} /\ UNCHANGED <<roots, leftover>> /\ phase' = "resolve"
    BY <1>0, <1>2 DEF CollectRoot, At, OneRoot
  <2> DEFINE g == [pass |-> "collect", mod |-> Root, todo |-> Body(Root),
                   at |-> "next", diags |-> leftover]
  <2>2. stack' = <<>> \/ stack' = Append(<<>>, g)
    BY <1>0, <1>2 DEF CollectRoot, CallCollect
  <2>3. stack' = <<>> \/ stack' = <<g>>
    BY <2>2
  <2>4. g.pass = "collect" /\ g.mod = Root /\ Root' = Root
    BY <2>1 DEF Root
  <2> HIDE DEF g
  <2>5. /\ Len(roots') <= 1 /\ roots' # <<>>
        /\ stack' # <<>> => stack'[1] = g
        /\ \A k \in DOMAIN stack' : stack'[k] = g
    BY <1>0, <1>00, <2>1, <2>3
  <2> QED
    BY <2>1, <2>4, <2>5 DEF OneRoot
<1>3. CASE ResolveRoot
  <2>1. leftover = {} /\ UNCHANGED <<roots, leftover>> /\ phase' = "decide"
    BY <1>0, <1>3 DEF ResolveRoot, At, OneRoot
  <2> DEFINE g == [pass |-> "resolve", mod |-> Root, todo |-> Body(Root),
                   at |-> "next", diags |-> leftover]
  <2>2. stack' = <<>> \/ stack' = Append(<<>>, g)
    BY <1>0, <1>3 DEF ResolveRoot, CallResolve
  <2>3. stack' = <<>> \/ stack' = <<g>>
    BY <2>2
  <2>4. g.mod = Root /\ Root' = Root
    BY <2>1 DEF Root
  <2> HIDE DEF g
  <2>5. /\ Len(roots') <= 1 /\ roots' # <<>>
        /\ stack' # <<>> => stack'[1] = g
        /\ \A k \in DOMAIN stack' : stack'[k] = g
    BY <1>0, <1>00, <2>1, <2>3
  <2> QED
    BY <2>1, <2>4, <2>5 DEF OneRoot
<1> QED
  BY <1>1, <1>2, <1>3 DEF Analyzing

LEMMA OneRootNext ==
    TypeInv /\ TypeInv' /\ StackShape /\ FailureInv /\ OneRoot /\ [Next]_vars => OneRoot'
<1> SUFFICES ASSUME TypeInv, TypeInv', StackShape, FailureInv, OneRoot, [Next]_vars PROVE OneRoot'
  OBVIOUS
<1>1. FailuresAreKept /\ FailureIsExplained
  BY FailureNext DEF FailureInv
<1>2. CASE Cancel \/ UNCHANGED vars
  <2>1. UNCHANGED <<roots, phase, stack, leftover, state>>
    BY <1>2 DEF Cancel, vars
  <2> QED
    BY <2>1 DEF OneRoot, Root, IsPoisoned
<1> QED
  BY <1>1, <1>2, OneRootCollecting, OneRootResolving, OneRootAnalyzing DEF Next, Analyzer

-----------------------------------------------------------------------------
(* Who has a report                                                         *)

\* Modules whose list has the report of n, and passes that will put it into one.
Report(n) == Diagnostic(n, "undeclaredIdentifier")
Holders(n) == {m \in Modules : Report(n) \in reports[m]}
Carriers(s, n) ==
    {k \in DOMAIN s : s[k].pass # "declare" /\ s[k].at # "draining" /\ Report(n) \in s[k].diags}
Reached(n) == symbol[n] \in {"resolved", "poisoned"}

\* A declaration of an undeclared name is reported when it has been reached: by
\* one module that is done, or one pass under way.
ReportedOnce ==
    \A n \in Nodes : Misses(n) =>
        /\ ~Reached(n) => Holders(n) = {} /\ Carriers(stack, n) = {}
        /\ Reached(n) => \/ Carriers(stack, n) = {} /\ \E m \in Modules : Holders(n) = {m}
                         \/ Holders(n) = {} /\ \E k \in DOMAIN stack : Carriers(stack, n) = {k}

\* What a step does to the report of n: nothing, or the pass on top gives its
\* list to its module.
Quiet(n) ==
    /\ Holders(n)' = Holders(n)
    /\ Carriers(stack', n) = Carriers(stack, n)
    /\ Reached(n)' <=> Reached(n)
Moves(n) ==
    /\ stack # <<>> /\ Top.mod \in Modules /\ Top.pass # "declare" /\ Top.at # "draining"
    /\ Holders(n)' = Holders(n) \cup {m \in {Top.mod} : Report(n) \in Top.diags}
    /\ Carriers(stack', n) = Carriers(stack, n) \ {Len(stack)}
    /\ Reached(n)' <=> Reached(n)

LEMMA OnceKept ==
    ASSUME TypeInv, ReportedOnce, UNCHANGED program,
           \A n \in Nodes : Misses(n) => Quiet(n) \/ Moves(n)
    PROVE  ReportedOnce'
<1> SUFFICES ASSUME NEW n \in Nodes, Misses(n)'
             PROVE  /\ ~Reached(n)' => Holders(n)' = {} /\ Carriers(stack', n) = {}
                    /\ Reached(n)' =>
                         \/ Carriers(stack', n) = {} /\ \E m \in Modules : Holders(n)' = {m}
                         \/ Holders(n)' = {} /\ \E k \in DOMAIN stack' : Carriers(stack', n) = {k}
  BY DEF ReportedOnce, Carriers, Report, Diagnostic
<1>1. Misses(n)
  BY DEF Misses, Stmt
<1>2. /\ ~Reached(n) => Holders(n) = {} /\ Carriers(stack, n) = {}
      /\ Reached(n) => \/ Carriers(stack, n) = {} /\ \E m \in Modules : Holders(n) = {m}
                       \/ Holders(n) = {} /\ \E k \in DOMAIN stack : Carriers(stack, n) = {k}
  BY <1>1 DEF ReportedOnce
<1>3. \A k \in Carriers(stack', n) : k \in DOMAIN stack'
  BY DEF Carriers
<1>4. CASE Quiet(n)
  BY <1>2, <1>3, <1>4 DEF Quiet
<1>5. CASE Moves(n)
  <2>1. CASE Len(stack) \in Carriers(stack, n)
    <3>1. Report(n) \in Top.diags
      BY <2>1 DEF Carriers, Top
    <3>2. Reached(n) /\ Holders(n) = {} /\ Carriers(stack, n) = {Len(stack)}
      BY <1>2, <2>1 DEF Holders
    <3> QED
      BY <1>5, <3>1, <3>2 DEF Moves
  <2>2. CASE Len(stack) \notin Carriers(stack, n)
    <3>1. Len(stack) \in DOMAIN stack
      BY <1>5 DEF Moves, TypeInv, TypeOK
    <3>2. Report(n) \notin Top.diags
      BY <1>5, <2>2, <3>1 DEF Carriers, Top, Moves
    <3> QED
      BY <1>2, <1>3, <1>5, <2>2, <3>2 DEF Moves
  <2> QED
    BY <2>1, <2>2
<1> QED
  BY <1>1, <1>4, <1>5

\* How steps change the passes that carry a report.
LEMMA CarriersWithTop ==
    ASSUME TypeInv, stack # <<>>, NEW f \in Frames, NEW n, f.pass = Top.pass,
           Top.at # "draining", f.at # "draining",
           Report(n) \in f.diags <=> Report(n) \in Top.diags
    PROVE  Carriers(WithTop(f), n) = Carriers(stack, n)
<1>1. /\ DOMAIN WithTop(f) = DOMAIN stack
      /\ WithTop(f)[Len(stack)] = f
      /\ \A k \in DOMAIN stack : k # Len(stack) => WithTop(f)[k] = stack[k]
  BY WithTopIs DEF TypeInv, TypeOK
<1>2. \A k \in DOMAIN stack : k \in Carriers(WithTop(f), n) <=> k \in Carriers(stack, n)
  BY <1>1 DEF Carriers, Top
<1> QED
  BY <1>1, <1>2 DEF Carriers

LEMMA CarriersAppend ==
    ASSUME NEW s \in Seq(Frames), NEW g \in Frames, NEW n, Report(n) \notin g.diags
    PROVE  Carriers(Append(s, g), n) = Carriers(s, n)
<1>1. /\ DOMAIN Append(s, g) = 1..(Len(s) + 1) /\ DOMAIN s = 1..Len(s) /\ Len(s) \in Nat
      /\ \A k \in 1..Len(s) : Append(s, g)[k] = s[k]
      /\ Append(s, g)[Len(s) + 1] = g
  BY AppendIs
<1>2. \A k \in DOMAIN Append(s, g) : k \in DOMAIN s \/ k = Len(s) + 1
  BY <1>1
<1>3. \A k \in DOMAIN s : k \in DOMAIN Append(s, g) /\ Append(s, g)[k] = s[k]
  BY <1>1
<1> QED
  BY <1>1, <1>2, <1>3 DEF Carriers

LEMMA CarriersPopped ==
    ASSUME TypeInv, stack # <<>>, NEW n
    PROVE  /\ Carriers(Popped, n) = Carriers(stack, n) \ {Len(stack)}
           /\ Top.pass = "declare" \/ Top.at = "draining" => Carriers(Popped, n) = Carriers(stack, n)
<1>1. /\ DOMAIN Popped = 1..(Len(stack) - 1) /\ DOMAIN stack = 1..Len(stack) /\ Len(stack) \in Nat
      /\ \A k \in DOMAIN Popped : Popped[k] = stack[k]
  BY PoppedIs DEF TypeInv, TypeOK
<1>2. \A k : k \in DOMAIN Popped <=> k \in DOMAIN stack /\ k # Len(stack)
  BY <1>1
<1> QED
  BY <1>1, <1>2 DEF Carriers, Top

LEMMA CarriersReported ==
    ASSUME NEW s \in Seq(Frames), NEW diags \in SUBSET Diagnostics, NEW n, Report(n) \notin diags
    PROVE  Carriers(Reported(s, diags), n) = Carriers(s, n)
<1>1. CASE \A j \in DOMAIN s : s[j].pass = "declare"
  <2>1. {i \in DOMAIN s : s[i].pass # "declare"} = {}
    BY <1>1
  <2> QED
    BY <2>1 DEF Reported
<1>2. CASE \E j \in DOMAIN s : s[j].pass # "declare"
  <2>1. PICK o \in DOMAIN s :
            /\ Reported(s, diags)[o].diags = s[o].diags \cup diags
            /\ \A k \in DOMAIN s : k # o => Reported(s, diags)[k].diags = s[k].diags
    BY <1>2, ReportedTo
  <2>2. /\ DOMAIN Reported(s, diags) = DOMAIN s
        /\ \A k \in DOMAIN s : /\ Reported(s, diags)[k].pass = s[k].pass
                               /\ Reported(s, diags)[k].at = s[k].at
    BY ReportedIs
  <2>3. \A k \in DOMAIN s : Report(n) \in Reported(s, diags)[k].diags <=> Report(n) \in s[k].diags
    BY <2>1
  <2> QED
    BY <2>2, <2>3 DEF Carriers
<1> QED
  BY <1>1, <1>2

\* A statement that reports nothing of the kind.
LEMMA QuietAdvance ==
    ASSUME TypeInv, stack # <<>>, Top.todo # <<>>, Top.at # "draining",
           NEW diags \in SUBSET Diagnostics, NEW n, Report(n) \notin diags,
           stack' = Advanced(diags), UNCHANGED reports, Reached(n)' <=> Reached(n)
    PROVE  Quiet(n)
<1>1. PICK f \in Frames : /\ f.pass = Top.pass /\ f.at = "next"
                          /\ f.diags = Top.diags \cup diags /\ Advanced(diags) = WithTop(f)
  BY AdvancedIs
<1>2. Carriers(stack', n) = Carriers(stack, n)
  BY <1>1, CarriersWithTop
<1> QED
  BY <1>2 DEF Quiet, Holders, Report, Diagnostic

\* A pass that waits, and one that is called.
LEMMA QuietWaits ==
    ASSUME TypeInv, stack # <<>>, Top.at # "draining",
           NEW at \in {"imported", "started", "awaited", "looking"},
           NEW g \in Frames, g.diags = {}, Waits(at, g), NEW n,
           UNCHANGED reports, Reached(n)' <=> Reached(n)
    PROVE  Quiet(n)
<1> DEFINE f == [Top EXCEPT !.at = at]
<1>1. Top \in Frames
  BY TypeInvStack, GoodTop
<1>2. f \in Frames /\ f.pass = Top.pass /\ f.diags = Top.diags /\ f.at = at /\ Waiting(at) = WithTop(f)
  BY <1>1 DEF Frames, Waiting
<1> HIDE DEF f
<1>3. Carriers(WithTop(f), n) = Carriers(stack, n)
  <2>1. Report(n) \in f.diags <=> Report(n) \in Top.diags
    BY <1>2
  <2> QED
    BY <1>2, <2>1, CarriersWithTop
<1>7. WithTop(f) \in Seq(Frames)
  BY <1>2, WithTopIs DEF TypeInv, TypeOK
<1>4. PICK below \in Seq(Frames) : below = WithTop(f)
  BY <1>7
<1>5. Carriers(Append(below, g), n) = Carriers(below, n)
  BY CarriersAppend
<1>6. Carriers(stack', n) = Carriers(stack, n)
  BY <1>2, <1>3, <1>4, <1>5 DEF Waits
<1> QED
  BY <1>6 DEF Quiet, Holders, Report, Diagnostic

\* A pass that ends without a list, and one that gives its list to its module.
LEMMA QuietPop ==
    ASSUME TypeInv, stack # <<>>, Top.pass = "declare" \/ Top.at = "draining", stack' = Popped,
           NEW n, UNCHANGED reports, Reached(n)' <=> Reached(n)
    PROVE  Quiet(n)
BY CarriersPopped DEF Quiet, Holders, Report, Diagnostic

LEMMA MovesPop ==
    ASSUME TypeInv, stack # <<>>, Top.pass # "declare", Top.at # "draining",
           NEW n, Reached(n)' <=> Reached(n),
           \A l \in Modules : reports'[l] = IF l = Top.mod THEN reports[l] \cup Top.diags
                                            ELSE reports[l],
           \/ stack' = Popped
           \/ \E f \in Frames : f.at = "draining" /\ stack' = WithTop(f)
    PROVE  Moves(n)
<1>0. /\ stack \in Seq(Frames) /\ Len(stack) \in DOMAIN stack /\ Top \in Frames
  BY TypeInvStack, GoodTop DEF TypeInv, TypeOK
<1>1. PICK m \in Modules : m = Top.mod
  BY <1>0 DEF Frames
<1>2. Holders(n)' = {l \in Modules : Report(n) \in reports'[l]}
  BY DEF Holders, Report, Diagnostic
<1>3. Holders(n)' = Holders(n) \cup {l \in {Top.mod} : Report(n) \in Top.diags}
  BY <1>1, <1>2 DEF Holders
<1>4. Carriers(stack', n) = Carriers(stack, n) \ {Len(stack)}
  <2>1. CASE stack' = Popped
    BY <2>1, CarriersPopped
  <2>2. CASE \E f \in Frames : f.at = "draining" /\ stack' = WithTop(f)
    <3>1. PICK f \in Frames : f.at = "draining" /\ stack' = WithTop(f)
      BY <2>2
    <3>2. /\ DOMAIN stack' = DOMAIN stack
          /\ stack'[Len(stack)] = f
          /\ \A k \in DOMAIN stack : k # Len(stack) => stack'[k] = stack[k]
      BY <1>0, <3>1, WithTopIs
    <3>3. \A k \in DOMAIN stack : k \in Carriers(stack', n) <=> k \in Carriers(stack, n) \ {Len(stack)}
      BY <3>1, <3>2 DEF Carriers
    <3> QED
      BY <3>2, <3>3 DEF Carriers
  <2> QED
    BY <2>1, <2>2
<1> QED
  BY <1>1, <1>3, <1>4 DEF Moves

LEMMA OnceCollecting ==
    TypeInv /\ WaitingOrder /\ FailureInv /\ ReportedOnce /\ Collecting => ReportedOnce'
<1> SUFFICES ASSUME TypeInv, WaitingOrder, FailureInv, ReportedOnce, Collecting
             PROVE  ReportedOnce'
  OBVIOUS
<1>0. stack # <<>> /\ Top.pass = "collect" /\ Top \in Frames /\ FitsProgram(program, Top)
      /\ Len(stack) \in DOMAIN stack
  BY CollectingForm, TypeInvStack, GoodTop
<1>1. UNCHANGED program
  BY DEF Collecting, CollectDecl, CollectMissingImport, CollectImport, LinkImport, EndCollect
<1>2. \A e \in {"moduleLoad", "importedModuleContainsErrors"} :
        \A n : Report(n) # Diagnostic(Here, e)
  BY DEF Report, Diagnostic
<1>3. CASE CollectDecl \/ CollectMissingImport \/ LinkImport
  <2>1. Top.todo # <<>> /\ Top.at # "draining" /\ UNCHANGED reports
    BY <1>0, <1>3 DEF CollectDecl, CollectMissingImport, LinkImport, Running, FitsProgram
  <2>2. PICK diags \in SUBSET Diagnostics :
            stack' = Advanced(diags) /\ \A n : Report(n) \notin diags
    BY <1>0, <1>2, <1>3, <2>1, HereType DEF CollectDecl, CollectMissingImport, LinkImport
  <2>3. UNCHANGED symbol \/ ~Misses(Here)
    BY <1>0, <1>3 DEF CollectDecl, CollectMissingImport, LinkImport, Misses, Here, This, Running,
                      WaitingOrder, WaitsNamed, Place, Top
  <2>4. \A n \in Nodes : n # Here => symbol'[n] = symbol[n]
    BY <1>3 DEF CollectDecl, CollectMissingImport, LinkImport, TypeInv, TypeOK
  <2>5. \A n \in Nodes : Misses(n) => (Reached(n)' <=> Reached(n))
    BY <2>3, <2>4 DEF Reached
  <2> QED
    BY <1>0, <1>1, <2>1, <2>2, <2>5, QuietAdvance, OnceKept
<1>4. CASE CollectImport
  <2>1. PICK m \in Modules : m = This.to
    BY <1>4 DEF CollectImport
  <2>2. /\ CallCollect(Waiting("imported"), m, LoadedState(m), {})
        /\ UNCHANGED <<reports, symbol>> /\ Top.at # "draining"
    BY <1>4, <2>1 DEF CollectImport, Running
  <2>3. PICK g \in Frames : g.diags = {} /\ Waits("imported", g)
    BY <2>2, CollectWaits
  <2>4. \A n : Reached(n)' <=> Reached(n)
    BY <2>2 DEF Reached
  <2> QED
    BY <1>0, <1>1, <2>2, <2>3, <2>4, QuietWaits, OnceKept
<1>5. CASE EndCollect
  <2>1. stack' = Popped /\ UNCHANGED symbol /\ Top.at # "draining"
    BY <1>5 DEF EndCollect, Running
  <2>2. PICK m \in Modules : m = Top.mod
    BY <1>0 DEF Frames
  <2>3. reports[m] = {}
    BY <1>0, <2>2 DEF FailureInv, CollectsOnce, FailureIsExplained, IsPoisoned, Top
  <2>4. \A l \in Modules : reports'[l] = IF l = Top.mod THEN reports[l] \cup Top.diags
                                         ELSE reports[l]
    BY <1>5, <2>2, <2>3 DEF EndCollect, TypeInv, TypeOK
  <2>5. \A n : Reached(n)' <=> Reached(n)
    BY <2>1 DEF Reached
  <2> QED
    BY <1>0, <1>1, <2>1, <2>4, <2>5, MovesPop, OnceKept
<1> QED
  BY <1>3, <1>4, <1>5 DEF Collecting

LEMMA OnceResolving ==
    TypeInv /\ WaitingOrder /\ ReportedOnce /\ ResolvingStep => ReportedOnce'
<1> SUFFICES ASSUME TypeInv, WaitingOrder, ReportedOnce, ResolvingStep PROVE ReportedOnce'
  OBVIOUS
<1>0. /\ stack # <<>> /\ Top.pass \in {"resolve", "tests"} /\ Top.at # "draining"
      /\ UNCHANGED program
  BY DEF ResolvingStep, PutOffTest, ResolveImport, AfterImport, ResolveDecl, EndResolve,
         Statement, Resolving, Running
<1>1. Top \in Frames /\ FitsProgram(program, Top) /\ Len(stack) \in DOMAIN stack
  BY <1>0, TypeInvStack, GoodTop
<1>2. \A n : Report(n) # Diagnostic(Here, "importedModuleContainsErrors")
  BY DEF Report, Diagnostic
<1>3. CASE PutOffTest \/ AfterImport
  <2>1. Top.todo # <<>> /\ UNCHANGED reports
    BY <1>1, <1>3 DEF PutOffTest, AfterImport, Statement, Resolving, Running, FitsProgram
  <2>2. PICK diags \in SUBSET Diagnostics :
            stack' = Advanced(diags) /\ \A n : Report(n) \notin diags
    BY <1>0, <1>2, <1>3, <2>1, HereType DEF PutOffTest, AfterImport
  <2>3. UNCHANGED symbol \/ ~Misses(Here)
    BY <1>1, <1>3 DEF PutOffTest, AfterImport, Here, Running, Resolving, WaitingOrder,
                      WaitsNamed, Place, Top
  <2>4. \A n \in Nodes : n # Here => symbol'[n] = symbol[n]
    BY <1>3 DEF PutOffTest, AfterImport, TypeInv, TypeOK
  <2>5. \A n \in Nodes : Misses(n) => (Reached(n)' <=> Reached(n))
    BY <2>3, <2>4 DEF Reached
  <2> QED
    BY <1>0, <2>1, <2>2, <2>5, QuietAdvance, OnceKept
<1>4. CASE ResolveImport
  <2>1. Top.todo # <<>> /\ UNCHANGED <<reports, symbol>>
    BY <1>4 DEF ResolveImport, Statement
  <2>2. \A n : Reached(n)' <=> Reached(n)
    BY <2>1 DEF Reached
  <2>3. CASE stack' = Advanced({})
    BY <1>0, <2>1, <2>2, <2>3, QuietAdvance, OnceKept
  <2>4. CASE \E g \in Frames : g.diags = {} /\ Waits("imported", g)
    BY <1>0, <2>1, <2>2, <2>4, QuietWaits, OnceKept
  <2>5. CASE Here \in linked /\ IsResolvable(This.to)
    <3>1. PICK m \in Modules : m = This.to
      BY <2>5 DEF IsResolvable, TypeInv, TypeOK
    <3>2. CallResolve(Waiting("imported"), m, {})
      BY <1>4, <2>5, <3>1 DEF ResolveImport
    <3> QED
      BY <2>4, <3>2, ResolveWaits
  <2>6. CASE Here \in linked /\ ~IsResolvable(This.to)
    <3> DEFINE g == [pass |-> "declare", mod |-> Here[1], todo |-> <<Here[2]>>,
                     at |-> "entered", diags |-> {}]
    <3>1. g \in Frames /\ g.diags = {}
      BY <1>0, <2>1, HereType DEF Frames, Nodes
    <3>2. stack' = Waiting("imported")
      BY <1>4, <2>6 DEF ResolveImport, CallResolve
    <3> HIDE DEF g
    <3> QED
      BY <2>4, <3>1, <3>2 DEF Waits
  <2> QED
    BY <1>4, <2>3, <2>5, <2>6 DEF ResolveImport
<1>5. CASE ResolveDecl
  <2>1. Top.todo # <<>> /\ UNCHANGED <<reports, symbol>>
    BY <1>5 DEF ResolveDecl, Statement
  <2> DEFINE g == [pass |-> "declare", mod |-> Here[1], todo |-> <<Here[2]>>,
                   at |-> "entered", diags |-> {}]
  <2>2. g \in Frames /\ g.diags = {}
    BY <1>0, <2>1, HereType DEF Frames, Nodes
  <2>3. stack' = Append(Advanced({}), g)
    BY <1>5 DEF ResolveDecl, Declare
  <2> HIDE DEF g
  <2>4. PICK f \in Frames : /\ f.pass = Top.pass /\ f.at = "next" /\ f.diags = Top.diags \cup {}
                            /\ Advanced({}) = WithTop(f)
    BY <1>0, <2>1, AdvancedIs
  <2>5. PICK below \in Seq(Frames) : below = WithTop(f)
    BY <1>0, WithTopIs DEF TypeInv, TypeOK
  <2>6. ASSUME NEW n \in Nodes PROVE Quiet(n)
    <3>1. Carriers(below, n) = Carriers(stack, n)
      BY <1>0, <2>4, <2>5, CarriersWithTop
    <3>2. Carriers(Append(below, g), n) = Carriers(below, n)
      BY <2>2, CarriersAppend
    <3> QED
      BY <2>1, <2>3, <2>4, <2>5, <3>1, <3>2 DEF Quiet, Reached, Holders, Report, Diagnostic
  <2> QED
    BY <1>0, <2>6, OnceKept
<1>6. CASE EndResolve
  <2>1. PICK m \in Modules : m = Top.mod
    BY <1>1 DEF Frames
  <2>2. \A l \in Modules : reports'[l] = IF l = Top.mod THEN reports[l] \cup Top.diags
                                         ELSE reports[l]
    BY <1>6, <2>1 DEF EndResolve, Absorbed, TypeInv, TypeOK
  <2>3. \A n : Reached(n)' <=> Reached(n)
    BY <1>6 DEF EndResolve, Reached
  <2>4. stack' = Popped \/ \E f \in Frames : f.at = "draining" /\ stack' = WithTop(f)
    <3> DEFINE f == [Top EXCEPT !.at = "draining"]
    <3>1. f \in Frames /\ f.at = "draining"
      BY <1>1 DEF Frames
    <3>2. stack' = Popped \/ stack' = WithTop(f)
      BY <1>6 DEF EndResolve, Waiting
    <3> HIDE DEF f
    <3> QED
      BY <3>1, <3>2
  <2> QED
    BY <1>0, <2>2, <2>3, <2>4, MovesPop, OnceKept
<1> QED
  BY <1>3, <1>4, <1>5, <1>6 DEF ResolvingStep

LEMMA OnceTests == TypeInv /\ ReportedOnce /\ Tests => ReportedOnce'
<1> SUFFICES ASSUME TypeInv, ReportedOnce, Tests PROVE ReportedOnce'
  OBVIOUS
<1>0. /\ stack # <<>> /\ stack \in Seq(Frames) /\ UNCHANGED <<program, symbol>>
      /\ \A n : Reached(n)' <=> Reached(n)
  BY DEF Tests, StartTests, EndTests, EndDraining, Running, Reached, TypeInv, TypeOK
<1>1. CASE StartTests
  <2> DEFINE g == [pass |-> "tests", mod |-> Head(pending), todo |-> deferred[Head(pending)],
                   at |-> "next", diags |-> {}]
  <2>1. g \in Frames /\ g.diags = {}
    BY <1>1 DEF StartTests, TypeInv, TypeOK, Frames
  <2>2. stack' = Append(stack, g) /\ UNCHANGED reports
    BY <1>1 DEF StartTests
  <2> HIDE DEF g
  <2>3. ASSUME NEW n \in Nodes PROVE Quiet(n)
    BY <1>0, <2>1, <2>2, CarriersAppend DEF Quiet, Holders, Report, Diagnostic
  <2> QED
    BY <1>0, <2>3, OnceKept
<1>2. CASE EndTests
  <2>0. Top \in Frames /\ Top.pass = "tests" /\ Top.at # "draining"
    BY <1>0, <1>2, TypeInvStack, GoodTop DEF EndTests, Running
  <2>1. PICK m \in Modules : m = Top.mod
    BY <2>0 DEF Frames
  <2>2. \A l \in Modules : reports'[l] = IF l = Top.mod THEN reports[l] \cup Top.diags
                                         ELSE reports[l]
    BY <1>2, <2>1 DEF EndTests, Absorbed, TypeInv, TypeOK
  <2>3. stack' = Popped
    BY <1>2 DEF EndTests
  <2> QED
    BY <1>0, <2>0, <2>2, <2>3, MovesPop, OnceKept
<1>3. CASE EndDraining
  BY <1>0, <1>3, QuietPop, OnceKept DEF EndDraining, Running
<1> QED
  BY <1>1, <1>2, <1>3 DEF Tests

\* The passes that take a report are done with their statements only when nothing
\* is left above them, so a report made from above is still taken along.
LEMMA SomebodyListens ==
    ASSUME TypeInv, StackShape, WaitingOrder, stack # <<>>, Top.pass = "declare"
    PROVE  \E j \in DOMAIN Popped :
              /\ Popped[j].pass # "declare"
              /\ \A o \in DOMAIN Popped : o >= j => Popped[o].at # "draining"
<1>1. stack \in Seq(Frames) /\ Len(stack) \in Nat \ {0} /\ DOMAIN stack = 1..Len(stack)
  BY DEF TypeInv, TypeOK
<1>2. /\ DOMAIN Popped = 1..(Len(stack) - 1)
      /\ \A k \in DOMAIN Popped : Popped[k] = stack[k]
  BY <1>1, PoppedIs
<1>3. Len(stack) \in DOMAIN stack /\ stack[Len(stack)].pass = "declare" /\ 1 \in DOMAIN stack
  BY <1>1 DEF Top
<1>4. stack[1].pass = "resolve"
  BY <1>1, <1>3 DEF StackShape
<1>5. Len(stack) # 1
  BY <1>3, <1>4
<1>6. 1 \in DOMAIN Popped /\ Popped[1].pass = "resolve"
  BY <1>1, <1>2, <1>4, <1>5
<1>7. \A o \in DOMAIN Popped : Popped[o].at = "draining" => o = 1
  BY <1>1, <1>2 DEF StackShape
<1>8. CASE stack[1].at # "draining"
  BY <1>2, <1>6, <1>7, <1>8
<1>9. CASE stack[1].at = "draining"
  <2>1. 2 \in DOMAIN stack
    BY <1>1, <1>5
  <2>2. stack[2].pass = "tests"
    BY <1>3, <1>9, <2>1 DEF WaitingOrder, DrainsTests
  <2>3. Len(stack) # 2
    BY <1>3, <2>2
  <2>4. 2 \in DOMAIN Popped /\ Popped[2].pass = "tests"
    BY <1>1, <1>2, <1>5, <2>2, <2>3
  <2>5. \A o \in DOMAIN Popped : o >= 2 => o # 1
    BY <1>2
  <2> QED
    BY <1>7, <2>4, <2>5
<1> QED
  BY <1>8, <1>9

\* Only one of the steps that end a declaration is at an undeclared name.
LEMMA FinishingNames ==
    ASSUME TypeInv, WaitingOrder, Finishing, ~FinishUndeclared
    PROVE  ~Misses(Here)
<1>0. Literal # Undeclared /\ Undeclared \notin Modules
  BY NamesAssumption DEF Literal, Undeclared
<1>1. CASE FinishLiteral
  BY <1>0, <1>1 DEF FinishLiteral, Misses, Here, This
<1>2. CASE FinishPoisonedAlias
  BY <1>0, <1>2 DEF FinishPoisonedAlias, AliasPoisoned, NamesImport, Misses, Here, This
<1>3. CASE FinishPoisonedModule
  <2>1. Len(stack) \in DOMAIN stack /\ Top.at = "awaited"
    BY <1>3, TypeInvStack, GoodTop DEF FinishPoisonedModule, Running
  <2> QED
    BY <2>1 DEF WaitingOrder, WaitsNamed, Place, Here, Top
<1>4. CASE FinishReference \/ FinishCycle
  BY <1>0, <1>4 DEF FinishReference, FinishCycle, CanLook, Misses, Here, This
<1> QED
  BY <1>1, <1>2, <1>3, <1>4 DEF Finishing

\* The report of an undeclared name goes to one pass, and no other report moves.
LEMMA OnceUndeclared ==
    ASSUME TypeInv, StackShape, WaitingOrder, ReportedOnce, FinishUndeclared
    PROVE  ReportedOnce'
<1>0. /\ stack # <<>> /\ Top.pass = "declare" /\ Top.at = "started"
      /\ Finish("poisoned", {}, {Report(Here)})
  BY DEF FinishUndeclared, Running, Report
<1>1. Len(stack) \in DOMAIN stack /\ Top \in Frames /\ FitsProgram(program, Top)
  BY <1>0, TypeInvStack, GoodTop
<1>2. Top.todo # <<>> /\ Here \in Nodes
  BY <1>0, <1>1, HereType DEF FitsProgram
<1>3. PICK h \in Nodes : h = Here
  BY <1>2
<1>4. {Report(h)} \in SUBSET Diagnostics /\ Popped \in Seq(Frames)
  BY <1>0, <1>2, <1>3, HereType, FollowsPopped DEF Report
<1>5. PICK s \in Seq(Frames) : s = Popped
  BY <1>4
<1>6. stack' = Reported(s, {Report(h)}) /\ UNCHANGED <<reports, program>>
  BY <1>0, <1>3, <1>5 DEF Finish
<1>7. symbol' = [n \in Nodes |-> IF n = h THEN "poisoned" ELSE symbol[n]]
  <2>1. symbol' = [n \in Nodes |-> IF n = Here THEN "poisoned"
                                   ELSE IF n \in {} THEN "poisoned" ELSE symbol[n]]
    BY <1>0 DEF Finish
  <2> QED
    BY <1>3, <2>1
<1>8. ASSUME NEW n \in Nodes, n # h PROVE Quiet(n)
  <2>1. Report(n) # Report(h)
    BY <1>8 DEF Report, Diagnostic, Nodes
  <2>2. Carriers(stack', n) = Carriers(s, n)
    BY <1>4, <1>6, <2>1, CarriersReported
  <2>3. Carriers(s, n) = Carriers(stack, n)
    BY <1>0, <1>5, CarriersPopped
  <2>4. Reached(n)' <=> Reached(n)
    BY <1>7, <1>8 DEF Reached
  <2> QED
    BY <1>6, <2>2, <2>3, <2>4 DEF Quiet, Holders, Report, Diagnostic
<1>9. ~Reached(h) /\ Misses(h) => Holders(h) = {} /\ Carriers(stack, h) = {}
  BY DEF ReportedOnce
<1>10. symbol[h] = "resolving"
  BY <1>0, <1>1, <1>3 DEF WaitingOrder, StartedIsTop, Place, Here, Top
<1>11. Misses(h) => \E o \in DOMAIN stack' : Carriers(stack', h) = {o} /\ Holders(h)' = {}
  <2> SUFFICES ASSUME Misses(h)
               PROVE  \E o \in DOMAIN stack' : Carriers(stack', h) = {o} /\ Holders(h)' = {}
    OBVIOUS
  <2>1. PICK j \in DOMAIN s : /\ s[j].pass # "declare"
                              /\ \A o \in DOMAIN s : o >= j => s[o].at # "draining"
    BY <1>0, <1>5, SomebodyListens
  <2>2. PICK o \in DOMAIN s :
            /\ o >= j /\ s[o].pass # "declare"
            /\ Reported(s, {Report(h)})[o].diags = s[o].diags \cup {Report(h)}
            /\ \A k \in DOMAIN s : k # o => Reported(s, {Report(h)})[k].diags = s[k].diags
    <3>1. PICK diags \in SUBSET Diagnostics : diags = {Report(h)}
      BY <1>4
    <3>2. \E o \in DOMAIN s :
             /\ o >= j /\ s[o].pass # "declare"
             /\ Reported(s, diags)[o].diags = s[o].diags \cup diags
             /\ \A k \in DOMAIN s : k # o => Reported(s, diags)[k].diags = s[k].diags
      BY <2>1, ReportedTo
    <3> QED
      BY <3>1, <3>2
  <2>3. /\ DOMAIN stack' = DOMAIN s
        /\ \A k \in DOMAIN s : stack'[k].pass = s[k].pass /\ stack'[k].at = s[k].at
    BY <1>4, <1>6, ReportedIs
  <2>4. Carriers(s, h) = {} /\ Holders(h) = {}
    BY <1>0, <1>5, <1>9, <1>10, CarriersPopped DEF Reached
  <2>5. \A k \in DOMAIN s : k \in Carriers(stack', h) <=> k = o
    BY <1>6, <2>1, <2>2, <2>3, <2>4 DEF Carriers
  <2>6. Carriers(stack', h) = {o} /\ o \in DOMAIN stack'
    BY <2>3, <2>5 DEF Carriers
  <2>7. Holders(h)' = {}
    BY <1>6, <2>4 DEF Holders, Report, Diagnostic
  <2> QED
    BY <2>6, <2>7
<1> SUFFICES ASSUME NEW n \in Nodes, Misses(n)'
             PROVE  /\ ~Reached(n)' => Holders(n)' = {} /\ Carriers(stack', n) = {}
                    /\ Reached(n)' =>
                         \/ Carriers(stack', n) = {} /\ \E m \in Modules : Holders(n)' = {m}
                         \/ Holders(n)' = {} /\ \E k \in DOMAIN stack' : Carriers(stack', n) = {k}
  BY DEF ReportedOnce, Carriers, Report, Diagnostic
<1>12. Misses(n)
  BY <1>6 DEF Misses, Stmt
<1>13. CASE n = h
  BY <1>7, <1>11, <1>12, <1>13 DEF Reached
<1>14. CASE n # h
  <2>1. Quiet(n)
    BY <1>8, <1>14
  <2>2. /\ ~Reached(n) => Holders(n) = {} /\ Carriers(stack, n) = {}
        /\ Reached(n) => \/ Carriers(stack, n) = {} /\ \E m \in Modules : Holders(n) = {m}
                         \/ Holders(n) = {} /\ \E k \in DOMAIN stack : Carriers(stack, n) = {k}
    BY <1>12 DEF ReportedOnce
  <2>3. \A k \in Carriers(stack', n) : k \in DOMAIN stack'
    BY DEF Carriers
  <2> QED
    BY <2>1, <2>2, <2>3 DEF Quiet
<1> QED
  BY <1>13, <1>14

LEMMA OnceDeclaring ==
    TypeInv /\ StackShape /\ WaitingOrder /\ ReportedOnce /\ Declaring => ReportedOnce'
<1> SUFFICES ASSUME TypeInv, StackShape, WaitingOrder, ReportedOnce, Declaring
             PROVE  ReportedOnce'
  OBVIOUS
<1>0. stack # <<>> /\ Top.pass = "declare" /\ UNCHANGED <<program, reports>>
  BY DEF Declaring, EnterDecl, FinishLiteral, FinishUndeclared, FinishPoisonedAlias,
         AwaitModule, FinishPoisonedModule, FinishReference, FinishCycle, ResolveTarget,
         CanLook, Running, Finish
<1>1. Top \in Frames /\ FitsProgram(program, Top)
  BY <1>0, TypeInvStack, GoodTop
<1>2. Top.at # "draining" /\ Top.todo # <<>>
  BY <1>0, <1>1 DEF FitsProgram
<1> DEFINE g == [pass |-> "declare", mod |-> Here[1], todo |-> <<Here[2]>>,
                 at |-> "entered", diags |-> {}]
<1>3. g \in Frames /\ g.diags = {}
  BY <1>0, <1>2, HereType DEF Frames, Nodes
<1> HIDE DEF g
<1>4. CASE EnterDecl
  <2>1. \A n \in Nodes : Reached(n)' <=> Reached(n)
    BY <1>4 DEF EnterDecl, Reached, TypeInv, TypeOK
  <2>2. CASE stack' = Popped
    BY <1>0, <2>1, <2>2, QuietPop, OnceKept
  <2>3. CASE stack' = Waiting("started")
    <3>1. Waits("started", g)
      BY <2>3 DEF Waits
    <3> QED
      BY <1>0, <1>2, <1>3, <2>1, <3>1, QuietWaits, OnceKept
  <2> QED
    BY <1>4, <2>2, <2>3 DEF EnterDecl
<1>5. CASE AwaitModule
  <2>1. PICK m \in Modules : m = This.to
    BY <1>5 DEF AwaitModule, NamesImport
  <2>2. CallResolve(Waiting("awaited"), m, {}) /\ UNCHANGED symbol
    BY <1>5, <2>1 DEF AwaitModule
  <2>3. PICK f \in Frames : f.diags = {} /\ Waits("awaited", f)
    BY <2>2, ResolveWaits
  <2>4. \A n \in Nodes : Reached(n)' <=> Reached(n)
    BY <2>2 DEF Reached
  <2> QED
    BY <1>0, <1>2, <2>3, <2>4, QuietWaits, OnceKept
<1>6. CASE ResolveTarget
  <2> DEFINE f == [pass |-> "declare", mod |-> Target[1], todo |-> <<Target[2]>>,
                   at |-> "entered", diags |-> {}]
  <2>1. f \in Frames /\ f.diags = {}
    BY <1>0, <1>6, TargetType DEF ResolveTarget, CanLook, Frames, Nodes
  <2>2. Waits("looking", f) /\ UNCHANGED symbol
    BY <1>6 DEF ResolveTarget, Declare, Waits
  <2> HIDE DEF f
  <2>3. \A n \in Nodes : Reached(n)' <=> Reached(n)
    BY <2>2 DEF Reached
  <2> QED
    BY <1>0, <1>2, <2>1, <2>2, <2>3, QuietWaits, OnceKept
<1>7. CASE FinishUndeclared
  BY <1>7, OnceUndeclared
<1>8. CASE Finishing /\ ~FinishUndeclared
  <2>1. PICK status \in {"resolved", "poisoned"}, diags \in SUBSET Diagnostics :
           \E others :
              /\ Finish(status, others, diags)
              /\ \A n \in others : n = Target /\ This.to \in Modules /\ symbol[Target] = "resolving"
              /\ \A n : Report(n) \notin diags
    BY <1>8, FinishingForm DEF Report
  <2>2. PICK others :
              /\ Finish(status, others, diags)
              /\ \A n \in others : n = Target /\ This.to \in Modules /\ symbol[Target] = "resolving"
    BY <2>1
  <2>3. ~Misses(Here)
    BY <1>8, FinishingNames
  <2>4. ASSUME NEW n \in Nodes, Misses(n) PROVE n # Here /\ n \notin others
    BY <2>2, <2>3, <2>4 DEF WaitingOrder, MissesAtOnce
  <2>5. \A n \in Nodes : Misses(n) => symbol'[n] = symbol[n]
    BY <2>2, <2>4 DEF Finish
  <2>6. PICK s \in Seq(Frames) : s = Popped
    BY <1>0, FollowsPopped
  <2>7. stack' = Reported(s, diags)
    BY <2>2, <2>6 DEF Finish
  <2>8. ASSUME NEW n \in Nodes, Misses(n) PROVE Quiet(n)
    <3>1. Carriers(stack', n) = Carriers(s, n)
      BY <2>1, <2>7, CarriersReported
    <3>2. Carriers(s, n) = Carriers(stack, n)
      BY <1>0, <2>6, CarriersPopped
    <3> QED
      BY <1>0, <2>5, <2>8, <3>1, <3>2 DEF Quiet, Holders, Reached, Report, Diagnostic
  <2> QED
    BY <1>0, <2>8, OnceKept
<1> QED
  BY <1>4, <1>5, <1>6, <1>7, <1>8 DEF Declaring, Finishing

LEMMA OnceAnalyzing ==
    TypeInv /\ OneRoot /\ ReportedOnce /\ Analyzing => ReportedOnce'
<1> SUFFICES ASSUME TypeInv, OneRoot, ReportedOnce, Analyzing PROVE ReportedOnce'
  OBVIOUS
<1>0. stack = <<>> /\ roots # <<>> /\ UNCHANGED <<program, symbol>>
  BY DEF Analyzing, RejectUnparsed, CollectRoot, ResolveRoot, ReturnCancelled, Reject,
         RejectEmitted, Lower, At
<1>1. \A n \in Nodes : Reached(n)' <=> Reached(n)
  BY <1>0 DEF Reached
<1>2. ~RejectEmitted
  <2> SUFFICES ASSUME RejectEmitted PROVE FALSE
    OBVIOUS
  <2>1. leftover # {} /\ ~IsPoisoned(Root)
    BY DEF RejectEmitted
  <2> QED
    BY <1>0, <2>1 DEF OneRoot
<1>3. CASE stack' = stack /\ UNCHANGED reports
  <2>1. \A n \in Nodes : Quiet(n)
    BY <1>1, <1>3 DEF Quiet, Holders, Report, Diagnostic
  <2> QED
    BY <1>0, <2>1, OnceKept
<1>4. CASE (\E g \in Frames : g.diags = {} /\ stack' = Append(<<>>, g)) /\ UNCHANGED reports
  <2>1. PICK g \in Frames : g.diags = {} /\ stack' = Append(<<>>, g)
    BY <1>4
  <2>2. <<>> \in Seq(Frames)
    OBVIOUS
  <2>3. \A n \in Nodes : Carriers(stack', n) = Carriers(<<>>, n)
    BY <2>1, <2>2, CarriersAppend
  <2>4. \A n \in Nodes : Quiet(n)
    BY <1>0, <1>1, <1>4, <2>3 DEF Quiet, Holders, Report, Diagnostic
  <2> QED
    BY <1>0, <2>4, OnceKept
<1>5. CASE RejectUnparsed \/ ReturnCancelled \/ Reject \/ Lower
  BY <1>3, <1>5 DEF RejectUnparsed, ReturnCancelled, Reject, Lower
<1>6. CASE CollectRoot
  <2>1. Root \in Modules /\ leftover = {} /\ UNCHANGED reports
    BY <1>0, <1>6, RootType DEF OneRoot, CollectRoot, At
  <2> DEFINE g == [pass |-> "collect", mod |-> Root, todo |-> Body(Root),
                   at |-> "next", diags |-> leftover]
  <2>2. g \in Frames /\ g.diags = {}
    BY <2>1, BodyType DEF Frames
  <2>3. stack' = stack \/ stack' = Append(<<>>, g)
    BY <1>0, <1>6 DEF CollectRoot, CallCollect
  <2> HIDE DEF g
  <2> QED
    BY <1>3, <1>4, <2>1, <2>2, <2>3
<1>7. CASE ResolveRoot
  <2>1. Root \in Modules /\ leftover = {} /\ UNCHANGED reports
    BY <1>0, <1>7, RootType DEF OneRoot, ResolveRoot, At
  <2> DEFINE g == [pass |-> "resolve", mod |-> Root, todo |-> Body(Root),
                   at |-> "next", diags |-> leftover]
  <2>2. g \in Frames /\ g.diags = {}
    BY <2>1, BodyType DEF Frames
  <2>3. stack' = stack \/ stack' = Append(<<>>, g)
    BY <1>0, <1>7 DEF ResolveRoot, CallResolve
  <2> HIDE DEF g
  <2> QED
    BY <1>3, <1>4, <2>1, <2>2, <2>3
<1> QED
  BY <1>2, <1>5, <1>6, <1>7 DEF Analyzing

LEMMA OnceNext ==
    TypeInv /\ StackShape /\ FailureInv /\ WaitingOrder /\ OneRoot /\ ReportedOnce /\ [Next]_vars
        => ReportedOnce'
<1> SUFFICES ASSUME TypeInv, StackShape, FailureInv, WaitingOrder, OneRoot, ReportedOnce,
                    [Next]_vars
             PROVE  ReportedOnce'
  OBVIOUS
<1>1. CASE Cancel \/ UNCHANGED vars
  <2>1. UNCHANGED <<program, stack, symbol, reports>>
    BY <1>1 DEF Cancel, vars
  <2>2. \A n \in Nodes : Quiet(n)
    BY <2>1 DEF Quiet, Holders, Reached, Report, Diagnostic
  <2> QED
    BY <2>1, <2>2, OnceKept
<1> QED
  BY <1>1, OnceCollecting, OnceResolving, OnceTests, OnceDeclaring, OnceAnalyzing
     DEF Next, Analyzer

ReportsInv == WaitingOrder /\ OneRoot /\ ReportedOnce

LEMMA ReportsInit == Len(EntryPaths) <= 1 /\ Init => ReportsInv
<1> SUFFICES ASSUME Len(EntryPaths) <= 1, Init PROVE ReportsInv
  OBVIOUS
<1>1. stack = <<>> /\ \A n \in Nodes : symbol[n] = "unresolved"
  BY DEF Init
<1>2. WaitingOrder
  BY <1>1 DEF WaitingOrder, WaitsNamed, StartedIsTop, MissesAtOnce, DrainsTests
<1>3. OneRoot
  BY <1>1 DEF Init, OneRoot
<1>4. \A n \in Nodes : ~Reached(n) /\ Holders(n) = {} /\ Carriers(stack, n) = {}
  BY <1>1 DEF Init, Reached, Holders, Carriers
<1> QED
  BY <1>2, <1>3, <1>4 DEF ReportsInv, ReportedOnce

LEMMA ReportsInvariant ==
    ASSUME Len(EntryPaths) <= 1
    PROVE  Spec => [](TypeInv /\ StackShape /\ FailureInv /\ HalfDoneIsUnderWay /\ ReportsInv)
<1>1. Init => ReportsInv
  BY ReportsInit
<1>2. TypeInv /\ TypeInv' /\ StackShape /\ FailureInv /\ ReportsInv /\ [Next]_vars => ReportsInv'
  BY OrderNext, OneRootNext, OnceNext DEF ReportsInv
<1> QED
  BY <1>1, <1>2, FailureInvariant, UnderWayInvariant, PTL DEF Spec

\* An undeclared name in a declaration that was reached is in exactly one list
\* when nothing is under way, for every program analyzed from one root. (With a
\* second root it may be in two: the analyzer's own list is handed on.)
THEOREM ErrorsAreReportedOnce ==
    ASSUME Len(EntryPaths) <= 1
    PROVE  Spec => []ErrorsReportedOnce
<1>1. TypeInv /\ HalfDoneIsUnderWay /\ ReportsInv => ErrorsReportedOnce
  <2> SUFFICES ASSUME TypeInv, HalfDoneIsUnderWay, ReportsInv, stack = <<>>,
                      NEW m \in Modules, NEW i \in DOMAIN program[m].body,
                      Stmt(m, i).kind = "decl", Stmt(m, i).to = Undeclared,
                      symbol[<<m, i>>] # "unresolved"
               PROVE  \E owner \in Modules : \A n \in Modules :
                         Diagnostic(<<m, i>>, "undeclaredIdentifier") \in reports[n] <=> n = owner
    BY DEF ErrorsReportedOnce
  <2>1. PICK h \in Nodes : h = <<m, i>>
    BY BodyIndices DEF Nodes
  <2>2. Misses(h)
    BY <2>1 DEF Misses
  <2>3. symbol[h] # "resolving"
    BY DEF HalfDoneIsUnderWay, SymbolsUnderWay, Declares
  <2>4. Reached(h)
    BY <2>1, <2>3 DEF Reached, TypeInv, TypeOK, Statuses
  <2>5. PICK owner \in Modules : Holders(h) = {owner}
    BY <2>2, <2>4 DEF ReportsInv, ReportedOnce
  <2>6. \A n \in Modules : Report(h) \in reports[n] <=> n = owner
    BY <2>5 DEF Holders
  <2> QED
    BY <2>1, <2>6 DEF Report
<1> QED
  BY <1>1, ReportsInvariant, PTL
==============================================================================
