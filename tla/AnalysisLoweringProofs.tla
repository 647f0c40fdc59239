------------------------ MODULE AnalysisLoweringProofs ------------------------
(* That ModuleAnalysis lowers a root only when all that it depends on is    *)
(* sound: for every program, every list of roots, with and without tests,   *)
(* in a build and in an editor.                                             *)
(*                                                                          *)
(* Nothing is left out: once the resolution of a module began, each of its  *)
(* statements is dealt with, or a pass or the list of tests still holds it. *)
(* Nothing fails silently: what is poisoned leads, through linked imports,  *)
(* to a module that failed or to a pass that carries a report.  A cancelled *)
(* analysis promises neither, and lowers nothing.                           *)
(*                                                                          *)
(* And that every step, of a cancelled analysis too, leaves less to do: the *)
(* pass on top goes on or ends, or one begins that nothing had begun.       *)
EXTENDS AnalysisGraphProofs

-----------------------------------------------------------------------------
(* What is left to do when a root is lowered                                *)

To(n) == Stmt(n[1], n[2]).to
IsImport(n) == n[2] \in DOMAIN program[n[1]].body /\ Stmt(n[1], n[2]).kind = "import"
IsDecl(n) == n[2] \in DOMAIN program[n[1]].body /\ Stmt(n[1], n[2]).kind = "decl"

\* The statement a pass stands at.
Current(f) == Stmt(f.mod, Head(f.todo))
Links(m, n) == <<m, n>> \in LinkedGraph.edge
LeadsTo(m, n) == Reaches(LinkedGraph, m, n)

\* A file was collected once it was asked for and parsed.
CollectedOnce ==
    /\ \A m \in Modules : m \in collected <=> state[m] \notin {"unloaded", "errored"}
    /\ \A m \in Modules : IsErrored(m) => program[m].syntaxError
CollectsParsed ==
    \A m \in Modules : state[m] = "parsed" =>
        \E k \in DOMAIN stack : stack[k].pass = "collect" /\ stack[k].mod = m

\* What a pass was called on, and what it waits for, has been called.
Aimed(f) ==
    /\ f.at = "imported" =>
         /\ f.todo # <<>> /\ Current(f).kind = "import" /\ Current(f).to \in Modules
         /\ IF f.pass = "collect" THEN state[Current(f).to] # "unloaded" ELSE Begun(Current(f).to)
    /\ f.pass # "collect" => Begun(f.mod)
    /\ f.pass = "declare" /\ f.at \in {"awaited", "looking"} /\ Current(f).to \in Modules \ {f.mod} =>
         Begun(Current(f).to) /\ Links(f.mod, Current(f).to)
    /\ f.at = "draining" => f.todo = <<>>
FramesAimed == \A k \in DOMAIN stack : Aimed(stack[k])

TestsWait ==
    /\ \A m \in Modules : \A j \in DOMAIN deferred[m] : Stmt(m, deferred[m][j]).test
    /\ \A j \in DOMAIN pending : Begun(pending[j])

LinksAreImports ==
    \A n \in linked : IsImport(n) /\ To(n) \in collected /\ n[1] \in collected

\* A statement a pass has not come to yet.
Holds(f, n) == f.mod = n[1] /\ \E j \in DOMAIN f.todo : f.todo[j] = n[2]
WillCollect(f, n) == f.pass = "collect" /\ Holds(f, n)
WillResolve(f, n) == f.pass \in {"resolve", "tests"} /\ Holds(f, n)

\* A module that failed, or will have once a pass over it ends.
Carries(f) == f.pass # "declare" /\ f.at # "draining" /\ f.diags # {}
Troubled(m) ==
    IsPoisoned(m) \/ \E k \in DOMAIN stack : Carries(stack[k]) /\ stack[k].mod = m
Excused(n) ==
    /\ Stmt(n[1], n[2]).test /\ To(n) \in Modules /\ program[To(n)].syntaxError
    /\ Tolerant \/ IsErrored(To(n))

ImportsLinked ==
    \A n \in Nodes : IsImport(n) =>
        /\ n[1] \in collected => \/ \E k \in DOMAIN stack : WillCollect(stack[k], n)
                                 \/ n \in linked \/ symbol[n] = "poisoned"
        /\ symbol[n] = "poisoned" => Troubled(n[1]) \/ Excused(n)

Ahead(n) ==
    \/ \E k \in DOMAIN stack : WillResolve(stack[k], n)
    \/ \E j \in DOMAIN deferred[n[1]] : deferred[n[1]][j] = n[2]
    \/ Running({"declare"}, "entered") /\ Here = n
Dealt(n) == IF IsDecl(n) THEN symbol[n] # "unresolved" ELSE n \in linked => Begun(To(n))
\* Every statement of a module whose resolution began has been dealt with or will be.
Complete ==
    \A n \in Nodes :
        n[2] \in DOMAIN program[n[1]].body /\ IsSeen(n[1], n[2]) /\ Begun(n[1]) =>
            Ahead(n) \/ Dealt(n)

\* A pass leads to those above it.
PassesLead ==
    \A i, k \in DOMAIN stack :
        i < k /\ stack[i].pass # "collect" /\ stack[i].at # "draining" =>
            LeadsTo(stack[i].mod, stack[k].mod)
\* A declaration is resolved while a pass over its file is under way.
Hosts(f, m) == f.pass # "declare" /\ f.at # "draining" /\ f.mod = m
DeclaredAtHome ==
    \A k \in DOMAIN stack : stack[k].pass = "declare" =>
        \E p \in DOMAIN stack : p < k /\ Hosts(stack[p], stack[k].mod)

PoisonExplained ==
    \A n \in Nodes : IsDecl(n) =>
        /\ symbol[n] = "poisoned" => \E x \in Modules : LeadsTo(n[1], x) /\ Troubled(x)
        /\ symbol[n] = "resolved" => To(n) # Undeclared

RootBegun ==
    /\ phase = "resolve" => roots # <<>> /\ Root \in collected
    /\ phase = "decide" => roots # <<>> /\ Begun(Root)

Progress ==
    /\ CollectedOnce /\ CollectsParsed /\ FramesAimed /\ TestsWait /\ LinksAreImports /\ ImportsLinked
    /\ Complete /\ PassesLead /\ DeclaredAtHome /\ PoisonExplained /\ RootBegun
ProgressInv == cancelled \/ Progress

-----------------------------------------------------------------------------
(* What a step does to the stack                                            *)

SameFrame(f, g) ==
    f.pass = g.pass /\ f.mod = g.mod /\ f.todo = g.todo /\ f.at = g.at /\ g.diags \subseteq f.diags
\* t is the stack with the pass on top replaced by that of `tops`, or gone, and
\* with that of `calls` on it.
Turns(t, tops, calls) ==
    /\ \A k \in DOMAIN stack : k # Len(stack) => k \in DOMAIN t /\ SameFrame(t[k], stack[k])
    /\ \A k \in DOMAIN t : \/ k \in DOMAIN stack /\ k # Len(stack)
                           \/ stack # <<>> /\ k = Len(stack) /\ t[k] \in tops
                           \/ k = Len(stack) + 1 /\ t[k] \in calls
    /\ \A f \in tops : stack # <<>> /\ Len(stack) \in DOMAIN t /\ t[Len(stack)] = f
    /\ \A g \in calls : Len(stack) + 1 \in DOMAIN t /\ t[Len(stack) + 1] = g

LEMMA StackIs ==
    ASSUME TypeInv
    PROVE  /\ stack \in Seq(Frames) /\ Len(stack) \in Nat /\ DOMAIN stack = 1..Len(stack)
           /\ stack # <<>> => Len(stack) \in DOMAIN stack /\ Top = stack[Len(stack)]
           /\ stack = <<>> => Len(stack) = 0
<1>1. stack \in Seq(Frames)
  BY DEF TypeInv, TypeOK
<1>2. Len(stack) \in Nat /\ DOMAIN stack = 1..Len(stack)
  BY <1>1
<1>3. stack # <<>> => Len(stack) \in DOMAIN stack
  BY TypeInvStack, GoodTop
<1> QED
  BY <1>1, <1>2, <1>3 DEF Top

LEMMA TurnsWithTop ==
    ASSUME TypeInv, stack # <<>>, NEW f \in Frames
    PROVE  Turns(WithTop(f), {f}, {}) /\ WithTop(f) \in Seq(Frames) /\ Len(WithTop(f)) = Len(stack)
<1>1. /\ WithTop(f) \in Seq(Frames) /\ DOMAIN WithTop(f) = DOMAIN stack
      /\ WithTop(f)[Len(stack)] = f /\ Len(WithTop(f)) = Len(stack)
      /\ \A k \in DOMAIN stack : k # Len(stack) => WithTop(f)[k] = stack[k]
  BY WithTopIs DEF TypeInv, TypeOK
<1>2. Len(stack) \in DOMAIN stack
  BY StackIs
<1> QED
  BY <1>1, <1>2 DEF Turns, SameFrame

LEMMA TurnsPopped ==
    ASSUME TypeInv, stack # <<>>
    PROVE  Turns(Popped, {}, {})
<1>1. /\ DOMAIN Popped = 1..(Len(stack) - 1)
      /\ \A k \in DOMAIN Popped : Popped[k] = stack[k]
  BY PoppedIs DEF TypeInv, TypeOK
<1>2. DOMAIN stack = 1..Len(stack) /\ Len(stack) \in Nat
  BY StackIs
<1>3. \A k \in DOMAIN stack : k # Len(stack) => k \in DOMAIN Popped
  BY <1>1, <1>2
<1>4. \A k \in DOMAIN Popped : k \in DOMAIN stack /\ k # Len(stack)
  BY <1>1, <1>2
<1> QED
  BY <1>1, <1>3, <1>4 DEF Turns, SameFrame

LEMMA ReportedKeeps ==
    ASSUME NEW s \in Seq(Frames), NEW diags \in SUBSET Diagnostics
    PROVE  /\ DOMAIN Reported(s, diags) = DOMAIN s
           /\ \A k \in DOMAIN s : SameFrame(Reported(s, diags)[k], s[k])
<1>1. /\ DOMAIN Reported(s, diags) = DOMAIN s
      /\ \A k \in DOMAIN s :
                /\ Reported(s, diags)[k].pass = s[k].pass
                /\ Reported(s, diags)[k].mod = s[k].mod
                /\ Reported(s, diags)[k].todo = s[k].todo
                /\ Reported(s, diags)[k].at = s[k].at
  BY ReportedIs
<1>2. CASE \E j \in DOMAIN s : s[j].pass # "declare"
  <2>0. PICK j \in DOMAIN s : s[j].pass # "declare"
    BY <1>2
  <2>1. PICK o \in DOMAIN s :
            /\ o >= j /\ s[o].pass # "declare"
            /\ Reported(s, diags)[o].diags = s[o].diags \cup diags
            /\ \A k \in DOMAIN s : k # o => Reported(s, diags)[k].diags = s[k].diags
    BY <2>0, ReportedTo
  <2>2. \A k \in DOMAIN s : s[k].diags \subseteq Reported(s, diags)[k].diags
    BY <2>1
  <2> QED
    BY <1>1, <2>2 DEF SameFrame
<1>3. CASE \A j \in DOMAIN s : s[j].pass = "declare"
  <2>1. {i \in DOMAIN s : s[i].pass # "declare"} = {}
    BY <1>3
  <2>2. Reported(s, diags) = s
    BY <2>1 DEF Reported
  <2> QED
    BY <2>2 DEF SameFrame
<1> QED
  BY <1>2, <1>3

LEMMA TurnsReported ==
    ASSUME TypeInv, stack # <<>>, NEW diags \in SUBSET Diagnostics
    PROVE  Turns(Reported(Popped, diags), {}, {})
<1>1. PICK s \in Seq(Frames) : s = Popped
  BY FollowsPopped
<1>2. Turns(s, {}, {})
  BY <1>1, TurnsPopped
<1>3. /\ DOMAIN Reported(s, diags) = DOMAIN s
      /\ \A k \in DOMAIN s : SameFrame(Reported(s, diags)[k], s[k])
  BY ReportedKeeps
<1>4. \A k \in DOMAIN s : s[k] \in Frames
  BY <1>1
<1>5. Turns(Reported(s, diags), {}, {})
  BY <1>2, <1>3 DEF Turns, SameFrame
<1> QED
  BY <1>1, <1>5

LEMMA TurnsCall ==
    ASSUME TypeInv, NEW s \in Seq(Frames), NEW tops, Turns(s, tops, {}), Len(s) = Len(stack),
           NEW g \in Frames
    PROVE  Turns(Append(s, g), tops, {g})
<1>1. /\ DOMAIN Append(s, g) = 1..(Len(s) + 1) /\ DOMAIN s = 1..Len(s) /\ Len(s) \in Nat
      /\ \A k \in 1..Len(s) : Append(s, g)[k] = s[k]
      /\ Append(s, g)[Len(s) + 1] = g
  BY AppendIs
<1>2. \A k \in DOMAIN Append(s, g) : k \in DOMAIN s \/ k = Len(stack) + 1
  BY <1>1
<1>3. \A k \in DOMAIN s : k \in DOMAIN Append(s, g) /\ Append(s, g)[k] = s[k]
  BY <1>1
<1>4. Len(stack) + 1 \in DOMAIN Append(s, g) /\ Append(s, g)[Len(stack) + 1] = g
  BY <1>1
<1> QED
  BY <1>2, <1>3, <1>4 DEF Turns

LEMMA TurnsAdvanced ==
    ASSUME TypeInv, stack # <<>>, Top.todo # <<>>, NEW diags \in SUBSET Diagnostics
    PROVE  \E f \in Frames :
              /\ f.pass = Top.pass /\ f.mod = Top.mod /\ f.at = "next"
              /\ f.todo = Tail(Top.todo) /\ f.diags = Top.diags \cup diags
              /\ Turns(Advanced(diags), {f}, {})
              /\ Advanced(diags) \in Seq(Frames) /\ Len(Advanced(diags)) = Len(stack)
<1>1. PICK f \in Frames :
                /\ f.pass = Top.pass /\ f.mod = Top.mod /\ f.at = "next"
                /\ f.todo = Tail(Top.todo) /\ f.diags = Top.diags \cup diags
                /\ Advanced(diags) = WithTop(f)
  BY AdvancedIs
<1> QED
  BY <1>1, TurnsWithTop

LEMMA TurnsWaiting ==
    ASSUME TypeInv, stack # <<>>,
           NEW at \in {"imported", "started", "awaited", "looking", "draining"}
    PROVE  \E f \in Frames :
              /\ f.pass = Top.pass /\ f.mod = Top.mod /\ f.at = at
              /\ f.todo = Top.todo /\ f.diags = Top.diags
              /\ Turns(Waiting(at), {f}, {})
              /\ Waiting(at) \in Seq(Frames) /\ Len(Waiting(at)) = Len(stack)
<1> DEFINE f == [Top EXCEPT !.at = at]
<1>1. Top \in Frames
  BY TypeInvStack, GoodTop
<1>2. /\ f \in Frames /\ f.pass = Top.pass /\ f.mod = Top.mod /\ f.at = at
      /\ f.todo = Top.todo /\ f.diags = Top.diags /\ Waiting(at) = WithTop(f)
  BY <1>1 DEF Frames, Waiting
<1> HIDE DEF f
<1> QED
  BY <1>2, TurnsWithTop

-----------------------------------------------------------------------------
(* What no step undoes                                                      *)

Onward ==
    /\ UNCHANGED program
    /\ linked \subseteq linked' /\ collected \subseteq collected'
    /\ \A m \in Modules : /\ Begun(m) => Begun(m)'
                          /\ state[m] # "unloaded" => state'[m] # "unloaded"
    /\ \A n \in Nodes : symbol[n] # "unresolved" => symbol'[n] # "unresolved"

LEMMA OnwardCollects ==
    ASSUME TypeInv, NEW below, NEW m \in Modules, NEW st, NEW diags,
           CallCollect(below, m, st, diags),
           st = LoadedState(m) \/ (LoadedState(m) = "errored" /\ st = "parsed"),
           UNCHANGED <<program, linked, symbol>>
    PROVE  Onward
<1>1. state' = [state EXCEPT ![m] = st] /\ collected \subseteq collected'
  BY DEF CallCollect
<1>2. st # "unloaded" /\ (Begun(m) => st = state[m])
  BY DEF LoadedState, Begun
<1> QED
  BY <1>1, <1>2 DEF Onward, Begun, TypeInv, TypeOK

LEMMA OnwardResolves ==
    ASSUME TypeInv, NEW below, NEW m, NEW diags, CallResolve(below, m, diags),
           UNCHANGED <<program, linked, collected, symbol>>
    PROVE  Onward
BY DEF CallResolve, IsResolvable, Onward, Begun, TypeInv, TypeOK

LEMMA OnwardSame ==
    ASSUME TypeInv, UNCHANGED <<program, linked, collected, state>>,
           \A n \in Nodes : symbol[n] # "unresolved" => symbol'[n] # "unresolved"
    PROVE  Onward
BY DEF Onward, Begun

LEMMA OnwardCollecting == TypeInv /\ CollectsOnce /\ Collecting => Onward
<1> SUFFICES ASSUME TypeInv, CollectsOnce, Collecting PROVE Onward
  OBVIOUS
<1>0. stack # <<>> /\ Top.pass = "collect" /\ Top \in Frames /\ FitsProgram(program, Top)
  BY CollectingForm, TypeInvStack, GoodTop
<1>1. CASE CollectDecl
  BY <1>1, OnwardSame DEF CollectDecl
<1>2. CASE CollectMissingImport
  BY <1>2, OnwardSame DEF CollectMissingImport, TypeInv, TypeOK
<1>3. CASE CollectImport
  <2>1. PICK m \in Modules : m = This.to
    BY <1>3 DEF CollectImport
  <2>2. /\ CallCollect(Waiting("imported"), m, LoadedState(m), {})
        /\ UNCHANGED <<program, linked, symbol>>
    BY <1>3, <2>1 DEF CollectImport
  <2>3. PICK below, diags, st :
            st = LoadedState(m) /\ CallCollect(below, m, st, diags)
    BY <2>2
  <2> QED
    BY <2>1, <2>2, <2>3, OnwardCollects
<1>4. CASE LinkImport
  <2>1. UNCHANGED <<program, collected, state>> /\ linked \subseteq linked'
    BY <1>4 DEF LinkImport
  <2>2. \A n \in Nodes : symbol[n] # "unresolved" => symbol'[n] # "unresolved"
    BY <1>4 DEF LinkImport, TypeInv, TypeOK
  <2> QED
    BY <2>1, <2>2 DEF Onward, Begun
<1>5. CASE EndCollect
  <2>1. Top.mod \in Modules /\ state[Top.mod] = "parsed"
    BY <1>0, StackIs DEF Frames, CollectsOnce
  <2> QED
    BY <1>5, <2>1 DEF EndCollect, Onward, Begun, TypeInv, TypeOK
<1> QED
  BY <1>1, <1>2, <1>3, <1>4, <1>5 DEF Collecting

LEMMA OnwardResolving == TypeInv /\ ResolvingStep => Onward
<1> SUFFICES ASSUME TypeInv, ResolvingStep PROVE Onward
  OBVIOUS
<1>1. CASE PutOffTest \/ ResolveDecl
  BY <1>1, OnwardSame DEF PutOffTest, ResolveDecl
<1>2. CASE AfterImport
  BY <1>2, OnwardSame DEF AfterImport, TypeInv, TypeOK
<1>3. CASE ResolveImport
  <2>1. UNCHANGED <<program, linked, collected, symbol>>
    BY <1>3 DEF ResolveImport
  <2>2. CASE Here \in linked
    <3>1. PICK below, m, diags : CallResolve(below, m, diags)
      BY <1>3, <2>2 DEF ResolveImport
    <3> QED
      BY <2>1, <3>1, OnwardResolves
  <2>3. CASE Here \notin linked
    BY <1>3, <2>1, <2>3, OnwardSame DEF ResolveImport
  <2> QED
    BY <2>2, <2>3
<1>4. CASE EndResolve
  <2>1. UNCHANGED <<program, linked, collected, symbol>>
    BY <1>4 DEF EndResolve
  <2> QED
    BY <1>4, <2>1 DEF EndResolve, Onward, Begun, TypeInv, TypeOK
<1> QED
  BY <1>1, <1>2, <1>3, <1>4 DEF ResolvingStep

LEMMA OnwardTests == TypeInv /\ Tests => Onward
BY DEF Tests, StartTests, EndTests, EndDraining, Onward, Begun, TypeInv, TypeOK

LEMMA OnwardDeclaring == TypeInv /\ Declaring => Onward
<1> SUFFICES ASSUME TypeInv, Declaring PROVE Onward
  OBVIOUS
<1>1. CASE EnterDecl
  BY <1>1, OnwardSame DEF EnterDecl, TypeInv, TypeOK
<1>2. CASE AwaitModule
  <2>1. PICK below, m, diags : CallResolve(below, m, diags)
    BY <1>2 DEF AwaitModule
  <2> QED
    BY <1>2, <2>1, OnwardResolves DEF AwaitModule
<1>3. CASE ResolveTarget
  BY <1>3, OnwardSame DEF ResolveTarget
<1>4. CASE Finishing
  <2>1. PICK status \in {"resolved", "poisoned"} : \E diags, others : Finish(status, others, diags)
    BY <1>4, FinishingForm
  <2>2. UNCHANGED <<program, linked, collected, state>>
    BY <2>1 DEF Finish
  <2>3. \A n \in Nodes : symbol[n] # "unresolved" => symbol'[n] # "unresolved"
    BY <2>1 DEF Finish
  <2> QED
    BY <2>2, <2>3, OnwardSame
<1> QED
  BY <1>1, <1>2, <1>3, <1>4 DEF Declaring, Finishing

LEMMA OnwardAnalyzing == TypeInv /\ Analyzing => Onward
<1> SUFFICES ASSUME TypeInv, Analyzing PROVE Onward
  OBVIOUS
<1>0. roots # <<>> /\ UNCHANGED <<program, linked, symbol>>
  BY DEF Analyzing, RejectUnparsed, CollectRoot, ResolveRoot, ReturnCancelled, Reject,
         RejectEmitted, Lower, At
<1>1. Root \in Modules
  BY <1>0, RootType
<1>2. CASE RejectUnparsed
  <2>1. ~Begun(Root)
    BY <1>2 DEF RejectUnparsed, LoadedState, Begun
  <2>2. state' = [state EXCEPT ![Root] = "errored"] /\ collected' = collected
    BY <1>2 DEF RejectUnparsed
  <2> QED
    BY <1>0, <2>1, <2>2 DEF Onward, Begun, TypeInv, TypeOK
<1>3. CASE CollectRoot
  <2>0. PICK st : st = IF LoadedState(Root) = "errored" THEN "parsed" ELSE LoadedState(Root)
    OBVIOUS
  <2>1. CallCollect(stack, Root, st, leftover)
    BY <1>3, <2>0 DEF CollectRoot
  <2>2. PICK m \in Modules : m = Root
    BY <1>1
  <2> QED
    BY <1>0, <2>0, <2>1, <2>2, OnwardCollects
<1>4. CASE ResolveRoot
  <2>1. PICK below, m, diags : CallResolve(below, m, diags)
    BY <1>4 DEF ResolveRoot
  <2> QED
    BY <1>0, <1>4, <2>1, OnwardResolves DEF ResolveRoot
<1>5. CASE ReturnCancelled \/ Reject \/ Lower
  BY <1>5, OnwardSame DEF ReturnCancelled, Reject, Lower
<1>6. CASE RejectEmitted
  <2>1. state' = [state EXCEPT ![Root] = "poisonedResolved"] /\ collected' = collected
    BY <1>6 DEF RejectEmitted
  <2> QED
    BY <1>0, <2>1 DEF Onward, Begun, TypeInv, TypeOK
<1> QED
  BY <1>2, <1>3, <1>4, <1>5, <1>6 DEF Analyzing

LEMMA OnwardNext == TypeInv /\ CollectsOnce /\ [Next]_vars => Onward
<1>1. Cancel \/ UNCHANGED vars => UNCHANGED <<program, linked, collected, state, symbol>>
  BY DEF Cancel, vars
<1> QED
  BY <1>1, OnwardSame, OnwardCollecting, OnwardResolving, OnwardTests, OnwardDeclaring,
     OnwardAnalyzing DEF Next, Analyzer

LEMMA LinksGrow ==
    ASSUME Onward
    PROVE  \A m, n : /\ Links(m, n) => Links(m, n)'
                     /\ LeadsTo(m, n) => LeadsTo(m, n)'
<1>1. LinkedGraph.node' = LinkedGraph.node /\ LinkedGraph.edge \subseteq LinkedGraph.edge'
  BY DEF Onward, LinkedGraph, Stmt
<1> QED
  BY <1>1 DEF Links, LeadsTo, Reaches

LEMMA LinksReach ==
    ASSUME Onward
    PROVE  \A m, n : LeadsTo(m, n) => Reaches(LinkedGraph', m, n)
BY LinksGrow DEF LeadsTo

LEMMA AimedStays ==
    ASSUME TypeInv, Onward, NEW f \in Frames, NEW h, SameFrame(h, f), Aimed(f)
    PROVE  Aimed(h)'
<1>1. h.pass = f.pass /\ h.mod = f.mod /\ h.at = f.at /\ h.todo = f.todo /\ f.mod \in Modules
  BY DEF SameFrame, Frames
<1>2. Current(h)' = Current(f)
  BY <1>1 DEF Current, Stmt, Onward
<1>3. \A m \in Modules : (Begun(m) => Begun(m)') /\ (state[m] # "unloaded" => state'[m] # "unloaded")
  BY DEF Onward
<1>4. \A m, n : Links(m, n) => Links(m, n)'
  BY LinksGrow
<1>5. PICK c : c = Current(f)
  OBVIOUS
<1>6. Current(h)' = c
  BY <1>2, <1>5
<1> QED
  BY <1>1, <1>3, <1>4, <1>5, <1>6 DEF Aimed

-----------------------------------------------------------------------------
(* The passes, after a step                                                 *)

\* What the step did to the stack keeps what is known of the passes.
StepFits(tops, calls) ==
    /\ Turns(stack', tops, calls)
    /\ \A f \in tops : /\ f.pass = Top.pass /\ f.mod = Top.mod /\ Aimed(f)'
                       /\ Top.at = "draining" => f.at = "draining"
    /\ \A g \in calls :
         /\ Aimed(g)'
         /\ \A f \in tops : f.at = "draining" => Top.at = "draining"
         /\ stack # <<>> =>
              Top.pass = "collect" \/ Top.at = "draining" \/ Reaches(LinkedGraph', Top.mod, g.mod)
         /\ g.pass = "declare" => \E p \in DOMAIN stack : Hosts(stack[p], g.mod)
    /\ stack # <<>> /\ Carries(Top) =>
         \/ \E m \in Modules : m = Top.mod /\ IsPoisoned(m)'
         \/ \E f \in tops : Carries(f)
    /\ \A m \in Modules : state'[m] = "parsed" =>
         \/ /\ state[m] = "parsed"
            /\ stack # <<>> /\ Top.pass = "collect" /\ Top.mod = m => tops # {}
         \/ \E g \in calls : g.pass = "collect" /\ g.mod = m
TroubleStays == \A m \in Modules : Troubled(m) => Troubled(m)'

LEMMA FitAimed ==
    ASSUME TypeInv, Onward, FramesAimed, NEW tops, NEW calls, StepFits(tops, calls)
    PROVE  FramesAimed'
<1> SUFFICES ASSUME NEW k \in DOMAIN stack', NEW h, h = stack'[k] PROVE Aimed(h)'
  BY DEF FramesAimed, Aimed, Current, Stmt, Begun, Links
<1>1. \/ k \in DOMAIN stack /\ k # Len(stack) /\ SameFrame(h, stack[k])
      \/ h \in tops \/ h \in calls
  BY DEF StepFits, Turns
<1>2. CASE k \in DOMAIN stack /\ k # Len(stack) /\ SameFrame(h, stack[k])
  <2>1. PICK f \in Frames : f = stack[k]
    BY <1>2, StackIs
  <2>2. Aimed(f) /\ SameFrame(h, f)
    BY <1>2, <2>1 DEF FramesAimed
  <2> QED
    BY <2>2, AimedStays
<1>3. CASE h \in tops \/ h \in calls
  BY <1>3 DEF StepFits
<1> QED
  BY <1>1, <1>2, <1>3

LEMMA FitTroubled ==
    ASSUME TypeInv, FailuresAreKept, NEW tops, NEW calls, StepFits(tops, calls)
    PROVE  TroubleStays
<1> SUFFICES ASSUME NEW m \in Modules, Troubled(m) PROVE Troubled(m)'
  BY DEF TroubleStays
<1>1. CASE IsPoisoned(m)
  BY <1>1 DEF FailuresAreKept, Troubled
<1>2. ASSUME NEW k \in DOMAIN stack, Carries(stack[k]), stack[k].mod = m
      PROVE  Troubled(m)'
  <2>1. CASE k # Len(stack)
    <3>1. k \in DOMAIN stack' /\ SameFrame(stack'[k], stack[k])
      BY <2>1 DEF StepFits, Turns
    <3>2. Carries(stack'[k]) /\ stack'[k].mod = m
      BY <1>2, <3>1 DEF Carries, SameFrame
    <3> QED
      BY <3>1, <3>2 DEF Troubled
  <2>2. CASE k = Len(stack)
    <3>1. stack # <<>> /\ Carries(Top) /\ Top.mod = m
      BY <1>2, <2>2, StackIs
    <3>2. CASE \E l \in Modules : l = Top.mod /\ IsPoisoned(l)'
      BY <3>1, <3>2 DEF Troubled
    <3>3. CASE \E f \in tops : Carries(f)
      <4>1. PICK f \in tops : Carries(f)
        BY <3>3
      <4>2. f.mod = m /\ Len(stack) \in DOMAIN stack' /\ stack'[Len(stack)] = f
        BY <3>1, <4>1 DEF StepFits, Turns
      <4> QED
        BY <4>1, <4>2 DEF Troubled
    <3> QED
      BY <3>1, <3>2, <3>3 DEF StepFits
  <2> QED
    BY <2>1, <2>2
<1> QED
  BY <1>1, <1>2 DEF Troubled

\* Where the frames of the next stack are from.
LEMMA TurnsFrom ==
    ASSUME TypeInv, stack' \in Seq(Frames), NEW tops, NEW calls, Turns(stack', tops, calls),
           NEW k \in DOMAIN stack'
    PROVE  /\ k \in Nat
           /\ \A i \in DOMAIN stack' : i < k => i \in DOMAIN stack
           /\ \/ k \in DOMAIN stack /\ k < Len(stack) /\ SameFrame(stack'[k], stack[k])
              \/ stack # <<>> /\ k = Len(stack) /\ stack'[k] \in tops
              \/ k = Len(stack) + 1 /\ stack'[k] \in calls
<1>1. DOMAIN stack' = 1..Len(stack') /\ Len(stack') \in Nat
  OBVIOUS
<1>2. DOMAIN stack = 1..Len(stack) /\ Len(stack) \in Nat
  BY StackIs
<1>3. \/ k \in DOMAIN stack /\ k # Len(stack)
      \/ stack # <<>> /\ k = Len(stack) /\ stack'[k] \in tops
      \/ k = Len(stack) + 1 /\ stack'[k] \in calls
  BY DEF Turns
<1>4. k \in DOMAIN stack /\ k # Len(stack) => k < Len(stack) /\ SameFrame(stack'[k], stack[k])
  BY <1>2 DEF Turns
<1>5. k \in Nat /\ k <= Len(stack) + 1
  BY <1>1, <1>2, <1>3
<1> QED
  BY <1>1, <1>2, <1>3, <1>4, <1>5

LEMMA FitLeads ==
    ASSUME TypeInv, StackShape, Onward, PassesLead, stack' \in Seq(Frames),
           NEW tops, NEW calls, StepFits(tops, calls)
    PROVE  PassesLead'
<1> SUFFICES ASSUME NEW i \in DOMAIN stack', NEW k \in DOMAIN stack', i < k,
                    stack'[i].pass # "collect", stack'[i].at # "draining"
             PROVE  Reaches(LinkedGraph', stack'[i].mod, stack'[k].mod)
  BY DEF PassesLead, LeadsTo
<1>0. Turns(stack', tops, calls)
  BY DEF StepFits
<1>1. i \in DOMAIN stack /\ i \in Nat /\ k \in Nat /\ Len(stack) \in Nat
  BY <1>0, StackIs, TurnsFrom
<1>2. \/ i < Len(stack) /\ SameFrame(stack'[i], stack[i])
      \/ stack # <<>> /\ i = Len(stack) /\ stack'[i] \in tops
  BY <1>0, <1>1, StackIs, TurnsFrom
\* Below the top: what leads to the top before leads there now.
<1>3. ASSUME i < Len(stack) /\ SameFrame(stack'[i], stack[i])
      PROVE  /\ stack[i].mod = stack'[i].mod /\ stack[i].pass # "collect" /\ stack[i].at # "draining"
             /\ stack # <<>> /\ Reaches(LinkedGraph', stack'[i].mod, Top.mod)
  <2>1. stack[i].mod = stack'[i].mod /\ stack[i].pass # "collect" /\ stack[i].at # "draining"
    BY <1>3 DEF SameFrame
  <2>2. stack # <<>> /\ Len(stack) \in DOMAIN stack /\ Top = stack[Len(stack)]
    BY <1>1, <1>3, StackIs
  <2>3. LeadsTo(stack[i].mod, Top.mod)
    BY <1>1, <1>3, <2>1, <2>2 DEF PassesLead
  <2> QED
    BY <2>1, <2>2, <2>3, LinksReach
<1>4. CASE k \in DOMAIN stack /\ k < Len(stack) /\ SameFrame(stack'[k], stack[k])
  <2>1. i < Len(stack) /\ SameFrame(stack'[i], stack[i])
    BY <1>1, <1>2, <1>4
  <2>2. LeadsTo(stack[i].mod, stack[k].mod)
    BY <1>1, <1>3, <1>4, <2>1 DEF PassesLead
  <2>3. stack[i].mod = stack'[i].mod /\ stack[k].mod = stack'[k].mod
    BY <1>3, <1>4, <2>1 DEF SameFrame
  <2> QED
    BY <2>2, <2>3, LinksReach
<1>5. CASE stack # <<>> /\ k = Len(stack) /\ stack'[k] \in tops
  <2>1. i < Len(stack) /\ SameFrame(stack'[i], stack[i])
    BY <1>1, <1>2, <1>5
  <2>2. stack'[k].mod = Top.mod
    BY <1>5 DEF StepFits
  <2> QED
    BY <1>3, <2>1, <2>2
<1>6. CASE k = Len(stack) + 1 /\ stack'[k] \in calls
  <2>0. stack # <<>> => Top.pass = "collect" \/ Top.at = "draining" \/ Reaches(LinkedGraph', Top.mod, stack'[k].mod)
    BY <1>6 DEF StepFits
  <2>1. CASE stack # <<>> /\ i = Len(stack) /\ stack'[i] \in tops
    <3>1. stack'[i].mod = Top.mod /\ Top.pass # "collect" /\ Top.at # "draining"
      BY <2>1 DEF StepFits
    <3> QED
      BY <2>0, <2>1, <3>1
  <2>2. CASE i < Len(stack) /\ SameFrame(stack'[i], stack[i])
    <3>1. Top.pass # "collect" /\ Top.at # "draining"
      BY <1>1, <1>3, <2>2, StackIs DEF StackShape
    <3>2. Reaches(LinkedGraph', stack'[i].mod, Top.mod) /\ Reaches(LinkedGraph', Top.mod, stack'[k].mod)
      BY <1>3, <2>0, <2>2, <3>1
    <3> QED
      BY <3>2, ReachesThrough
  <2> QED
    BY <1>2, <2>1, <2>2
<1> QED
  BY <1>0, <1>4, <1>5, <1>6, TurnsFrom

LEMMA FitHome ==
    ASSUME TypeInv, DeclaredAtHome, stack' \in Seq(Frames),
           NEW tops, NEW calls, StepFits(tops, calls)
    PROVE  DeclaredAtHome'
<1> SUFFICES ASSUME NEW k \in DOMAIN stack', stack'[k].pass = "declare"
             PROVE  \E p \in DOMAIN stack' : p < k /\ Hosts(stack'[p], stack'[k].mod)
  BY DEF DeclaredAtHome
<1>0. Turns(stack', tops, calls) /\ Len(stack) \in Nat /\ DOMAIN stack = 1..Len(stack)
  BY StackIs DEF StepFits
<1>1. ASSUME NEW p \in DOMAIN stack, p < Len(stack), NEW m, Hosts(stack[p], m)
      PROVE  p \in DOMAIN stack' /\ Hosts(stack'[p], m)
  BY <1>0, <1>1 DEF Turns, SameFrame, Hosts
<1>2. CASE k \in DOMAIN stack /\ k < Len(stack) /\ SameFrame(stack'[k], stack[k])
  <2>1. PICK p \in DOMAIN stack : p < k /\ Hosts(stack[p], stack[k].mod)
    BY <1>2 DEF DeclaredAtHome, SameFrame
  <2>2. p < Len(stack) /\ stack'[k].mod = stack[k].mod
    BY <1>0, <1>2, <2>1 DEF SameFrame
  <2> QED
    BY <1>1, <2>1, <2>2
<1>3. CASE stack # <<>> /\ k = Len(stack) /\ stack'[k] \in tops
  <2>1. Top.pass = "declare" /\ stack'[k].mod = Top.mod /\ Top = stack[k] /\ k \in DOMAIN stack
    BY <1>3, StackIs DEF StepFits
  <2>2. PICK p \in DOMAIN stack : p < k /\ Hosts(stack[p], stack[k].mod)
    BY <2>1 DEF DeclaredAtHome
  <2> QED
    BY <1>1, <1>3, <2>1, <2>2
<1>4. CASE k = Len(stack) + 1 /\ stack'[k] \in calls
  <2>1. PICK p \in DOMAIN stack : Hosts(stack[p], stack'[k].mod)
    BY <1>4 DEF StepFits
  <2>2. p < k
    BY <1>0, <1>4
  <2>3. CASE p < Len(stack)
    BY <1>1, <2>1, <2>2, <2>3
  <2>4. CASE p = Len(stack)
    <3>1. Len(stack) \in DOMAIN stack' /\ stack # <<>> /\ Top = stack[p]
      <4>1. stack # <<>> /\ Top = stack[p]
        BY <2>1, <2>4, StackIs
      <4>2. DOMAIN stack' = 1..Len(stack') /\ Len(stack') \in Nat
        OBVIOUS
      <4> QED
        BY <1>0, <1>4, <2>1, <2>4, <4>1, <4>2
    <3>2. stack'[p] \in tops
      BY <1>0, <2>4, <3>1, TurnsFrom
    <3>3. stack'[p].pass = Top.pass /\ stack'[p].mod = Top.mod
          /\ (stack'[p].at = "draining" => Top.at = "draining")
      BY <1>4, <3>2 DEF StepFits
    <3> QED
      BY <2>1, <2>2, <2>4, <3>1, <3>3 DEF Hosts
  <2> QED
    BY <1>0, <2>3, <2>4
<1> QED
  BY <1>0, <1>2, <1>3, <1>4, TurnsFrom

LEMMA FitParsed ==
    ASSUME TypeInv, CollectsParsed, NEW tops, NEW calls, StepFits(tops, calls)
    PROVE  CollectsParsed'
<1> SUFFICES ASSUME NEW m \in Modules, state'[m] = "parsed"
             PROVE  \E k \in DOMAIN stack' : stack'[k].pass = "collect" /\ stack'[k].mod = m
  BY DEF CollectsParsed
<1>0. Turns(stack', tops, calls)
  BY DEF StepFits
<1>1. CASE \E g \in calls : g.pass = "collect" /\ g.mod = m
  BY <1>0, <1>1 DEF Turns
<1>2. CASE state[m] = "parsed" /\ (stack # <<>> /\ Top.pass = "collect" /\ Top.mod = m => tops # {})
  <2>1. PICK k \in DOMAIN stack : stack[k].pass = "collect" /\ stack[k].mod = m
    BY <1>2 DEF CollectsParsed
  <2>2. CASE k # Len(stack)
    BY <1>0, <2>1, <2>2 DEF Turns, SameFrame
  <2>3. CASE k = Len(stack)
    <3>1. stack # <<>> /\ Top.pass = "collect" /\ Top.mod = m
      BY <2>1, <2>3, StackIs
    <3>2. PICK f \in tops : TRUE
      BY <1>2, <3>1
    <3>3. f.pass = "collect" /\ f.mod = m /\ Len(stack) \in DOMAIN stack' /\ stack'[Len(stack)] = f
      BY <1>0, <3>1, <3>2 DEF StepFits, Turns
    <3> QED
      BY <3>3
  <2> QED
    BY <2>2, <2>3
<1> QED
  BY <1>1, <1>2 DEF StepFits

PassesKnown == FramesAimed /\ PassesLead /\ DeclaredAtHome /\ CollectsParsed
\* What is assumed of a step.
Steps == TypeInv /\ TypeInv' /\ StackShape /\ Onward /\ FailuresAreKept

LEMMA FitPasses ==
    ASSUME Steps, PassesKnown, NEW tops, NEW calls, StepFits(tops, calls)
    PROVE  PassesKnown' /\ TroubleStays
<1>1. stack' \in Seq(Frames)
  BY DEF Steps, TypeInv, TypeOK
<1> QED
  BY <1>1, FitAimed, FitTroubled, FitLeads, FitHome, FitParsed DEF Steps, PassesKnown

-----------------------------------------------------------------------------
(* The statements, after a step                                             *)

LEMMA AheadBelow ==
    ASSUME NEW tops, NEW calls, Turns(stack', tops, calls), NEW n,
           NEW k \in DOMAIN stack, k # Len(stack), WillResolve(stack[k], n)
    PROVE  Ahead(n)'
BY DEF Turns, SameFrame, WillResolve, Holds, Ahead

LEMMA AheadAbove ==
    ASSUME NEW tops, NEW calls, Turns(stack', tops, calls), NEW n,
           NEW f, f \in tops \/ f \in calls, WillResolve(f, n)
    PROVE  Ahead(n)'
BY DEF Turns, Ahead

\* A step that deals with the statements it is done with.
LEMMA CompleteFollows ==
    ASSUME TypeInv, Onward, Complete, LinksAreImports,
           NEW tops, NEW calls, Turns(stack', tops, calls),
           \A n \in Nodes : stack # <<>> /\ WillResolve(Top, n) /\ IsSeen(n[1], n[2]) =>
                                Ahead(n)' \/ Dealt(n)',
           \A n \in Nodes : (\E j \in DOMAIN deferred[n[1]] : deferred[n[1]][j] = n[2]) =>
                                Ahead(n)' \/ Dealt(n)',
           Running({"declare"}, "entered") => \A n \in Nodes : n = Here => Dealt(n)',
           \A n \in Nodes : n[2] \in DOMAIN program[n[1]].body /\ Begun(n[1])' /\ ~Begun(n[1]) =>
                                Ahead(n)',
           \A n \in linked' : n \in linked \/ ~Begun(n[1])'
    PROVE  Complete'
<1> SUFFICES ASSUME NEW n \in Nodes, n[2] \in DOMAIN program[n[1]].body, IsSeen(n[1], n[2]),
                    Begun(n[1])'
             PROVE  Ahead(n)' \/ Dealt(n)'
  BY DEF Complete, Onward, IsSeen, Stmt
<1>1. CASE ~Begun(n[1])
  BY <1>1
<1>2. CASE Dealt(n)
  <2>1. UNCHANGED program /\ (IsDecl(n)' <=> IsDecl(n)) /\ To(n)' = To(n)
    BY DEF Onward, IsDecl, To, Stmt
  <2>2. CASE IsDecl(n)
    BY <1>2, <2>1, <2>2 DEF Dealt, Onward
  <2>3. CASE ~IsDecl(n) /\ n \in linked
    <3>1. Begun(To(n)) /\ To(n) \in Modules
      BY <1>2, <2>3 DEF Dealt, LinksAreImports, TypeInv, TypeOK
    <3>2. PICK m \in Modules : m = To(n)
      BY <3>1
    <3>3. Begun(m)'
      BY <3>1, <3>2 DEF Onward
    <3>4. Begun(To(n))'
      BY <2>1, <3>2, <3>3 DEF Begun
    <3> QED
      BY <2>1, <2>3, <3>4 DEF Dealt
  <2>4. CASE ~IsDecl(n) /\ n \notin linked
    BY <2>1, <2>4 DEF Dealt
  <2> QED
    BY <2>2, <2>3, <2>4
<1>3. CASE Ahead(n)
  <2>1. ASSUME NEW k \in DOMAIN stack, WillResolve(stack[k], n) PROVE Ahead(n)' \/ Dealt(n)'
    <3>1. CASE k # Len(stack)
      BY <2>1, <3>1, AheadBelow
    <3>2. CASE k = Len(stack)
      BY <2>1, <3>2, StackIs
    <3> QED
      BY <3>1, <3>2
  <2> QED
    BY <1>3, <2>1 DEF Ahead
<1> QED
  BY <1>1, <1>2, <1>3 DEF Complete

\* A step that is done with none.
LEMMA CompleteStays ==
    ASSUME TypeInv, Onward, Complete, LinksAreImports,
           NEW tops, NEW calls, Turns(stack', tops, calls), UNCHANGED deferred,
           stack # <<>> /\ Top.pass \in {"resolve", "tests"} =>
               \/ Top.todo = <<>>
               \/ \E f \in tops : f.pass = Top.pass /\ f.mod = Top.mod /\ f.todo = Top.todo,
           Running({"declare"}, "entered") => \A n \in Nodes : n = Here => Dealt(n)',
           \A n \in Nodes : n[2] \in DOMAIN program[n[1]].body /\ Begun(n[1])' /\ ~Begun(n[1]) =>
                                \E g \in calls : WillResolve(g, n),
           linked' = linked
    PROVE  Complete'
<1>1. ASSUME NEW n \in Nodes, stack # <<>>, WillResolve(Top, n) PROVE Ahead(n)'
  <2>1. PICK f \in tops : f.pass = Top.pass /\ f.mod = Top.mod /\ f.todo = Top.todo
    BY <1>1 DEF WillResolve, Holds
  <2>2. WillResolve(f, n)
    BY <1>1, <2>1 DEF WillResolve, Holds
  <2> QED
    BY <2>2, AheadAbove
<1>2. \A n \in Nodes : (\E j \in DOMAIN deferred[n[1]] : deferred[n[1]][j] = n[2]) => Ahead(n)'
  BY DEF Ahead
<1>3. \A n \in Nodes : n[2] \in DOMAIN program[n[1]].body /\ Begun(n[1])' /\ ~Begun(n[1]) => Ahead(n)'
  BY AheadAbove
<1> QED
  BY <1>1, <1>2, <1>3, CompleteFollows

ErrorsStay == Tolerant \/ \A m \in Modules : IsErrored(m) => IsErrored(m)'

LEMMA ImportsFollow ==
    ASSUME TypeInv, Onward, TroubleStays, ErrorsStay, ImportsLinked,
           NEW tops, NEW calls, Turns(stack', tops, calls),
           \A n \in Nodes : IsImport(n) /\ n[1] \in collected' /\ n[1] \notin collected =>
                \E g \in calls : WillCollect(g, n),
           \A n \in Nodes : IsImport(n) /\ stack # <<>> /\ WillCollect(Top, n) =>
                (\E f \in tops : WillCollect(f, n)) \/ n \in linked' \/ symbol'[n] = "poisoned",
           \A n \in Nodes : IsImport(n) /\ symbol'[n] = "poisoned" =>
                symbol[n] = "poisoned" \/ Troubled(n[1])' \/ Excused(n)',
           \A n \in Nodes : IsImport(n) /\ symbol[n] = "poisoned" =>
                symbol'[n] = "poisoned" \/ n \in linked'
    PROVE  ImportsLinked'
<1> SUFFICES ASSUME NEW n \in Nodes, IsImport(n)
             PROVE  /\ n[1] \in collected' => \/ \E k \in DOMAIN stack' : WillCollect(stack'[k], n)
                                              \/ n \in linked' \/ symbol'[n] = "poisoned"
                    /\ symbol'[n] = "poisoned" => Troubled(n[1])' \/ Excused(n)'
  BY DEF ImportsLinked, IsImport, Onward, Stmt
<1>1. ASSUME NEW f, f \in tops \/ f \in calls, WillCollect(f, n)
      PROVE  \E k \in DOMAIN stack' : WillCollect(stack'[k], n)
  BY <1>1 DEF Turns
<1>2. ASSUME NEW k \in DOMAIN stack, WillCollect(stack[k], n)
      PROVE  \/ \E l \in DOMAIN stack' : WillCollect(stack'[l], n)
             \/ n \in linked' \/ symbol'[n] = "poisoned"
  <2>1. CASE k # Len(stack)
    <3>1. k \in DOMAIN stack' /\ WillCollect(stack'[k], n)
      BY <1>2, <2>1 DEF Turns, SameFrame, WillCollect, Holds
    <3> QED
      BY <3>1
  <2>2. CASE k = Len(stack)
    <3>1. stack # <<>> /\ WillCollect(Top, n)
      BY <1>2, <2>2, StackIs
    <3> QED
      BY <1>1, <3>1
  <2> QED
    BY <2>1, <2>2
<1>3. n[1] \in collected' => \/ \E k \in DOMAIN stack' : WillCollect(stack'[k], n)
                            \/ n \in linked' \/ symbol'[n] = "poisoned"
  BY <1>1, <1>2 DEF ImportsLinked, Onward
<1>4. Excused(n) => Excused(n)'
  BY DEF Excused, ErrorsStay, Onward, To, Stmt
<1>5. n[1] \in Modules
  BY DEF Nodes
<1> QED
  BY <1>3, <1>4, <1>5 DEF ImportsLinked, TroubleStays

LEMMA PoisonFollows ==
    ASSUME TypeInv, Onward, TroubleStays, PoisonExplained,
           \A n \in Nodes : IsDecl(n) /\ symbol'[n] = "poisoned" =>
                \/ symbol[n] = "poisoned"
                \/ \E x \in Modules : Reaches(LinkedGraph', n[1], x) /\ Troubled(x)',
           \A n \in Nodes : IsDecl(n) /\ symbol'[n] = "resolved" =>
                symbol[n] = "resolved" \/ To(n) # Undeclared
    PROVE  PoisonExplained'
<1> SUFFICES ASSUME NEW n \in Nodes, IsDecl(n)
             PROVE  /\ symbol'[n] = "poisoned" =>
                          \E x \in Modules : Reaches(LinkedGraph', n[1], x) /\ Troubled(x)'
                    /\ symbol'[n] = "resolved" => To(n) # Undeclared
  BY DEF PoisonExplained, LeadsTo, IsDecl, Onward, To, Stmt
<1>1. ASSUME symbol[n] = "poisoned"
      PROVE  \E x \in Modules : Reaches(LinkedGraph', n[1], x) /\ Troubled(x)'
  <2>1. PICK x \in Modules : LeadsTo(n[1], x) /\ Troubled(x)
    BY <1>1 DEF PoisonExplained
  <2> QED
    BY <2>1, LinksReach DEF TroubleStays
<1> QED
  BY <1>1 DEF PoisonExplained

-----------------------------------------------------------------------------
(* Steps in general                                                         *)

LEMMA RootStays ==
    ASSUME TypeInv, Onward, RootBegun, UNCHANGED <<roots, phase>>
    PROVE  RootBegun'
<1>1. roots # <<>> => Root \in Modules
  BY RootType
<1>2. Root' = Root
  BY DEF Root
<1>3. ASSUME phase = "decide" PROVE Begun(Root)'
  <2>1. PICK m \in Modules : m = Root /\ Begun(m)
    BY <1>1, <1>3 DEF RootBegun
  <2>2. Begun(m)'
    BY <2>1 DEF Onward
  <2> QED
    BY <1>2, <2>1, <2>2 DEF Begun
<1> QED
  BY <1>2, <1>3 DEF RootBegun, Onward

LEMMA TestsStay ==
    ASSUME TypeInv, Onward, TestsWait, UNCHANGED <<deferred, pending>>
    PROVE  TestsWait'
<1>1. \A j \in DOMAIN pending : pending[j] \in Modules
  BY DEF TypeInv, TypeOK
<1>2. \A j \in DOMAIN pending : (Begun(pending[j]))'
  <2> SUFFICES ASSUME NEW j \in DOMAIN pending, NEW m \in Modules, m = pending[j]
               PROVE  Begun(m)'
    BY <1>1 DEF Begun
  <2> QED
    BY DEF TestsWait, Onward
<1> QED
  BY <1>2 DEF TestsWait, Onward, Stmt

LEMMA LinksStay ==
    ASSUME Onward, LinksAreImports, UNCHANGED linked
    PROVE  LinksAreImports'
BY DEF LinksAreImports, Onward, IsImport, To, Stmt

LEMMA AdvanceFits ==
    ASSUME Steps, stack # <<>>, Top.todo # <<>>, Top.at # "draining", UNCHANGED state,
           Top.pass # "declare", Top.pass # "collect" => Begun(Top.mod),
           NEW diags \in SUBSET Diagnostics, stack' = Advanced(diags)
    PROVE  \E f \in Frames :
              /\ f.pass = Top.pass /\ f.mod = Top.mod /\ f.at = "next"
              /\ f.todo = Tail(Top.todo) /\ f.diags = Top.diags \cup diags
              /\ StepFits({f}, {})
<1>0. TypeInv
  BY DEF Steps
<1>1. PICK f \in Frames :
              /\ f.pass = Top.pass /\ f.mod = Top.mod /\ f.at = "next"
              /\ f.todo = Tail(Top.todo) /\ f.diags = Top.diags \cup diags
              /\ Turns(Advanced(diags), {f}, {})
  BY <1>0, TurnsAdvanced
<1>2. Top.mod \in Modules
  BY <1>1 DEF Frames
<1>3. f.pass # "collect" => Begun(f.mod)'
  BY <1>1, <1>2 DEF Begun
<1>4. Aimed(f)'
  BY <1>1, <1>3 DEF Aimed
<1>5. Carries(Top) => Carries(f)
  BY <1>1 DEF Carries
<1>6. StepFits({f}, {})
  BY <1>1, <1>4, <1>5 DEF StepFits
<1> QED
  BY <1>1, <1>6

LEMMA WaitFits ==
    ASSUME Steps, stack # <<>>, Top.at # "draining",
           NEW at \in {"imported", "started", "awaited", "looking"}, stack' = Waiting(at),
           \A f \in Frames : f.pass = Top.pass /\ f.mod = Top.mod /\ f.todo = Top.todo /\ f.at = at
                => Aimed(f)',
           \A m \in Modules : state'[m] = "parsed" => state[m] = "parsed"
    PROVE  \E f \in Frames :
              /\ f.pass = Top.pass /\ f.mod = Top.mod /\ f.at = at
              /\ f.todo = Top.todo /\ f.diags = Top.diags
              /\ StepFits({f}, {})
<1>0. TypeInv
  BY DEF Steps
<1>1. PICK f \in Frames :
              /\ f.pass = Top.pass /\ f.mod = Top.mod /\ f.at = at
              /\ f.todo = Top.todo /\ f.diags = Top.diags
              /\ Turns(Waiting(at), {f}, {})
  BY <1>0, TurnsWaiting
<1>2. Aimed(f)'
  BY <1>1
<1>3. Carries(Top) => Carries(f)
  BY <1>1 DEF Carries
<1>4. StepFits({f}, {})
  BY <1>1, <1>2, <1>3 DEF StepFits
<1> QED
  BY <1>1, <1>4

LEMMA CallFits ==
    ASSUME Steps, stack # <<>>, Top.at # "draining",
           NEW at \in {"imported", "awaited", "looking"}, NEW g \in Frames,
           stack' = Append(Waiting(at), g),
           \A f \in Frames : f.pass = Top.pass /\ f.mod = Top.mod /\ f.todo = Top.todo /\ f.at = at
                => Aimed(f)',
           Aimed(g)',
           Top.pass = "collect" \/ Reaches(LinkedGraph', Top.mod, g.mod),
           g.pass = "declare" => \E p \in DOMAIN stack : Hosts(stack[p], g.mod),
           \A m \in Modules : state'[m] = "parsed" =>
                state[m] = "parsed" \/ (g.pass = "collect" /\ g.mod = m)
    PROVE  \E f \in Frames :
              /\ f.pass = Top.pass /\ f.mod = Top.mod /\ f.at = at
              /\ f.todo = Top.todo /\ f.diags = Top.diags
              /\ StepFits({f}, {g})
<1>0. TypeInv
  BY DEF Steps
<1>1. PICK f \in Frames :
              /\ f.pass = Top.pass /\ f.mod = Top.mod /\ f.at = at
              /\ f.todo = Top.todo /\ f.diags = Top.diags
              /\ Turns(Waiting(at), {f}, {})
              /\ Waiting(at) \in Seq(Frames) /\ Len(Waiting(at)) = Len(stack)
  BY <1>0, TurnsWaiting
<1>2. Aimed(f)'
  BY <1>1
<1>3. Carries(Top) => Carries(f)
  BY <1>1 DEF Carries
<1>4. PICK s \in Seq(Frames) : s = Waiting(at)
  BY <1>1
<1>5. Turns(stack', {f}, {g})
  BY <1>0, <1>1, <1>4, TurnsCall
<1>6. StepFits({f}, {g})
  BY <1>1, <1>2, <1>3, <1>5 DEF StepFits
<1> QED
  BY <1>1, <1>6

LEMMA EndFits ==
    ASSUME Steps, stack # <<>>, Turns(stack', {}, {}),
           Carries(Top) => \E m \in Modules : m = Top.mod /\ IsPoisoned(m)',
           \A m \in Modules : state'[m] = "parsed" =>
                state[m] = "parsed" /\ ~(Top.pass = "collect" /\ Top.mod = m)
    PROVE  StepFits({}, {})
BY DEF StepFits

LEMMA TodoSplits ==
    ASSUME TypeInv, stack # <<>>, Top.todo # <<>>, NEW f, f.mod = Top.mod,
           f.todo = Tail(Top.todo), NEW n \in Nodes, Holds(Top, n)
    PROVE  n = Here \/ Holds(f, n)
<1>1. Top.todo \in Seq(Indices)
  BY TypeInvStack, GoodTop DEF Frames
<1>2. PICK j \in DOMAIN Top.todo : Top.todo[j] = n[2]
  BY DEF Holds
<1>3. DOMAIN Tail(Top.todo) = 1..(Len(Top.todo) - 1) /\ DOMAIN Top.todo = 1..Len(Top.todo)
      /\ Len(Top.todo) \in Nat /\ Head(Top.todo) = Top.todo[1]
      /\ \A i \in 1..(Len(Top.todo) - 1) : Tail(Top.todo)[i] = Top.todo[i + 1]
  BY <1>1
<1>4. CASE j = 1
  <2>1. n[1] = Top.mod /\ n[2] = Head(Top.todo)
    BY <1>2, <1>3, <1>4 DEF Holds
  <2> QED
    BY <2>1 DEF Nodes, Here
<1>5. CASE j # 1
  <2>1. j - 1 \in DOMAIN Tail(Top.todo) /\ Tail(Top.todo)[j - 1] = n[2]
    BY <1>2, <1>3, <1>5
  <2> QED
    BY <2>1 DEF Holds
<1> QED
  BY <1>4, <1>5

LEMMA CollectedByCall ==
    ASSUME TypeInv, CollectedOnce, NEW below, NEW m \in Modules, NEW st, NEW diags,
           CallCollect(below, m, st, diags),
           st = LoadedState(m) \/ (LoadedState(m) = "errored" /\ st = "parsed" /\ Tolerant),
           UNCHANGED program
    PROVE  /\ CollectedOnce' /\ ErrorsStay
           /\ \A l \in Modules :
                /\ state'[l] = "parsed" =>
                        state[l] = "parsed" \/ (l = m /\ st = "parsed" /\ m \notin collected)
                /\ l \in collected' => l \in collected \/ (l = m /\ st = "parsed" /\ m \notin collected)
                /\ Begun(l)' => Begun(l)
<1>1. /\ state' = [state EXCEPT ![m] = st] /\ state \in [Modules -> States] /\ collected \subseteq Modules
      /\ collected' = IF st = "parsed" /\ m \notin collected THEN collected \cup {m} ELSE collected
  BY DEF CallCollect, TypeInv, TypeOK
<1>2. \/ st = state[m] /\ state[m] # "unloaded"
      \/ state[m] = "unloaded" /\ program[m].syntaxError /\ st = "errored"
      \/ state[m] \in {"unloaded", "errored"} /\ st = "parsed" /\ (state[m] = "errored" => Tolerant)
  BY DEF LoadedState
<1>3. m \in collected <=> state[m] \notin {"unloaded", "errored"}
  BY DEF CollectedOnce
<1> QED
  BY <1>1, <1>2, <1>3 DEF CollectedOnce, ErrorsStay, IsErrored, Begun

-----------------------------------------------------------------------------
(* Symbol collection                                                        *)

\* What is known when a step is taken that is not a cancellation.
Ready == Steps /\ CollectsOnce /\ HalfDoneIsUnderWay /\ Progress

LEMMA ReadyHas ==
    ASSUME Ready
    PROVE  /\ Steps /\ TypeInv /\ TypeInv' /\ StackShape /\ Onward /\ FailuresAreKept /\ CollectsOnce
           /\ HalfDoneIsUnderWay /\ PassesKnown
           /\ CollectedOnce /\ CollectsParsed /\ FramesAimed /\ TestsWait /\ LinksAreImports
           /\ ImportsLinked /\ Complete /\ PassesLead /\ DeclaredAtHome /\ PoisonExplained
           /\ RootBegun
BY DEF Ready, Steps, Progress, PassesKnown

LEMMA ProgressIs ==
    ASSUME PassesKnown', CollectedOnce', TestsWait', LinksAreImports', ImportsLinked', Complete',
           PoisonExplained', RootBegun'
    PROVE  Progress'
BY DEF Progress, PassesKnown

LEMMA CollectingTop ==
    ASSUME Ready, Collecting
    PROVE  /\ stack # <<>> /\ Top.pass = "collect" /\ Top \in Frames /\ Top.mod \in Modules
           /\ Aimed(Top) /\ state[Top.mod] = "parsed"
           /\ Top.at # "draining" /\ ~Running({"declare"}, "entered")
           /\ UNCHANGED <<program, roots, phase, deferred, pending>>
<1>1. stack # <<>> /\ Top.pass = "collect" /\ Top \in Frames
  BY ReadyHas, CollectingForm, TypeInvStack, GoodTop
<1>2. Aimed(Top) /\ state[Top.mod] = "parsed"
  BY <1>1, ReadyHas, StackIs DEF FramesAimed, CollectsOnce
<1>3. Top.mod \in Modules /\ ~Running({"declare"}, "entered")
  BY <1>1 DEF Frames, Running
<1>4. /\ Top.at # "draining"
      /\ UNCHANGED <<program, roots, phase, deferred, pending>>
  BY DEF Collecting, CollectDecl, CollectMissingImport, CollectImport, LinkImport, EndCollect,
         Running
<1> QED
  BY <1>1, <1>2, <1>3, <1>4

\* The statement at hand is collected, or the import linked.
LEMMA ProgressCollects ==
    ASSUME Ready, CollectDecl \/ CollectMissingImport \/ LinkImport
    PROVE  Progress'
<1>0. Collecting /\ UNCHANGED <<state, collected>>
  BY DEF Collecting, CollectDecl, CollectMissingImport, LinkImport
<1>1. /\ stack # <<>> /\ Top.pass = "collect" /\ Top.mod \in Modules
      /\ Aimed(Top) /\ state[Top.mod] = "parsed"
      /\ Top.at # "draining" /\ ~Running({"declare"}, "entered")
      /\ UNCHANGED <<program, roots, phase, deferred, pending>>
  BY <1>0, CollectingTop
<1>2. Top.todo # <<>>
  BY <1>1 DEF CollectDecl, CollectMissingImport, LinkImport, Running, Aimed
<1>3. Here \in Nodes /\ Head(Top.todo) \in DOMAIN program[Top.mod].body
      /\ Diagnostic(Here, "moduleLoad") \in Diagnostics
      /\ Diagnostic(Here, "importedModuleContainsErrors") \in Diagnostics
  BY <1>1, <1>2, ReadyHas, HereType
<1>4. PICK diags \in SUBSET Diagnostics :
          /\ stack' = Advanced(diags)
          /\ CollectMissingImport => diags # {}
          /\ LinkImport /\ IsErrored(This.to) /\ ~This.test => diags # {}
  BY <1>3 DEF CollectDecl, CollectMissingImport, LinkImport, Running
<1>5. PICK f \in Frames :
              /\ f.pass = Top.pass /\ f.mod = Top.mod /\ f.at = "next"
              /\ f.todo = Tail(Top.todo) /\ f.diags = Top.diags \cup diags
              /\ StepFits({f}, {})
  BY <1>0, <1>1, <1>2, <1>4, ReadyHas, AdvanceFits
<1>6. PassesKnown' /\ TroubleStays /\ Turns(stack', {f}, {})
  BY <1>5, ReadyHas, FitPasses DEF StepFits
<1>7. CollectedOnce' /\ ErrorsStay
  BY <1>0, <1>1, ReadyHas DEF CollectedOnce, ErrorsStay, IsErrored
<1>8. TestsWait' /\ RootBegun'
  BY <1>1, ReadyHas, TestsStay, RootStays
<1>9. LinkImport => IsImport(Here) /\ This.to \in Modules /\ state[This.to] # "unloaded"
  BY <1>1, <1>3 DEF LinkImport, Running, Aimed, Current, This, IsImport, Here
<1>10. To(Here) = This.to /\ Here[1] = Top.mod
  BY DEF To, This, Here
<1>11. linked' = linked \/ (LinkImport /\ linked' = linked \cup {Here} /\ This.to \in collected)
  BY <1>9, ReadyHas DEF CollectDecl, CollectMissingImport, LinkImport, IsErrored, CollectedOnce
<1>12. Top.mod \in collected
  BY <1>1, ReadyHas DEF CollectedOnce
<1>13. LinksAreImports'
  BY <1>0, <1>1, <1>9, <1>10, <1>11, <1>12, ReadyHas DEF LinksAreImports, IsImport, To, Stmt
<1>14. \/ CollectDecl /\ symbol' = symbol /\ ~IsImport(Here)
       \/ CollectMissingImport /\ symbol' = [symbol EXCEPT ![Here] = "poisoned"] /\ ~IsDecl(Here)
       \/ LinkImport /\ IsErrored(This.to) /\ symbol' = [symbol EXCEPT ![Here] = "poisoned"] /\ ~IsDecl(Here)
       \/ LinkImport /\ symbol' = [symbol EXCEPT ![Here] = "resolved"] /\ ~IsDecl(Here) /\ Here \in linked'
  BY <1>9 DEF CollectDecl, CollectMissingImport, LinkImport, IsImport, IsDecl, This, Here
<1>15. symbol \in [Nodes -> Statuses]
  BY ReadyHas DEF TypeInv, TypeOK
<1>16. ImportsLinked'
  <2>1. ASSUME NEW n \in Nodes, IsImport(n), WillCollect(Top, n)
        PROVE  WillCollect(f, n) \/ n \in linked' \/ symbol'[n] = "poisoned"
    <3>1. n = Here \/ Holds(f, n)
      BY <1>1, <1>2, <1>5, <2>1, ReadyHas, TodoSplits DEF WillCollect
    <3>2. CASE n = Here
      BY <1>3, <1>14, <1>15, <2>1, <3>2
    <3>3. CASE Holds(f, n)
      BY <1>1, <1>5, <3>3 DEF WillCollect
    <3> QED
      BY <3>1, <3>2, <3>3
  <2>2. ASSUME NEW m, m = Top.mod, diags # {} PROVE Troubled(m)'
    <3>1. Carries(f) /\ f.mod = m
      BY <1>1, <1>5, <2>2 DEF Carries
    <3>2. \E k \in DOMAIN stack' : stack'[k] = f
      BY <1>6 DEF Turns
    <3> QED
      BY <3>1, <3>2 DEF Troubled
  <2>3. ASSUME NEW n, n = Here, LinkImport, IsErrored(This.to), This.test PROVE Excused(n)'
    <3>1. Stmt(n[1], n[2]) = This /\ Stmt(n[1], n[2])' = Stmt(n[1], n[2])
      BY <1>1, <2>3 DEF This, Here, Stmt
    <3>2. PICK m \in Modules : m = This.to
      BY <1>9, <2>3
    <3>3. program[m].syntaxError /\ state'[m] = "errored"
      BY <1>0, <2>3, <3>2, ReadyHas DEF CollectedOnce, IsErrored
    <3> QED
      BY <1>1, <2>3, <3>1, <3>2, <3>3 DEF Excused, To, IsErrored
  <2>4. ASSUME NEW n \in Nodes, IsImport(n), symbol'[n] = "poisoned"
        PROVE  symbol[n] = "poisoned" \/ Troubled(n[1])' \/ Excused(n)'
    <3>1. CASE n # Here
      BY <1>14, <1>15, <2>4, <3>1
    <3>2. CASE n = Here
      <4>1. PICK m : m = n[1] /\ m = Top.mod
        BY <1>10, <3>2
      <4>2. \/ CollectDecl /\ symbol[n] = "poisoned"
            \/ CollectMissingImport
            \/ LinkImport /\ IsErrored(This.to)
        BY <1>3, <1>14, <1>15, <2>4, <3>2
      <4>3. CASE diags # {}
        <5>1. Troubled(m)'
          BY <2>2, <4>1, <4>3
        <5> QED
          BY <4>1, <5>1
      <4>4. CASE LinkImport /\ IsErrored(This.to) /\ This.test
        BY <2>3, <3>2, <4>4
      <4> QED
        BY <1>4, <4>2, <4>3, <4>4
    <3> QED
      BY <3>1, <3>2
  <2>5. ASSUME NEW n \in Nodes, IsImport(n), symbol[n] = "poisoned"
        PROVE  symbol'[n] = "poisoned" \/ n \in linked'
    BY <1>14, <1>15, <2>5
  <2> QED
    BY <1>0, <1>1, <1>6, <1>7, <2>1, <2>4, <2>5, ReadyHas, ImportsFollow
<1>17. Complete'
  <2>1. \A n \in Nodes : ~WillResolve(Top, n)
    BY <1>1 DEF WillResolve
  <2>2. \A n \in Nodes : (\E j \in DOMAIN deferred[n[1]] : deferred[n[1]][j] = n[2]) => Ahead(n)'
    BY <1>1 DEF Ahead
  <2>3. \A m \in Modules : Begun(m)' => Begun(m)
    BY <1>0 DEF Begun
  <2>4. \A n \in linked' : n \in linked \/ ~Begun(n[1])'
    BY <1>0, <1>1, <1>10, <1>11 DEF Begun
  <2>5. \A n \in Nodes : n[1] \in Modules
    BY DEF Nodes
  <2> QED
    BY <1>1, <1>6, <2>1, <2>2, <2>3, <2>4, <2>5, ReadyHas, CompleteFollows
<1>18. PoisonExplained'
  <2>1. \A n \in Nodes : IsDecl(n) => symbol'[n] = symbol[n]
    BY <1>14, <1>15
  <2> QED
    BY <1>6, <2>1, ReadyHas, PoisonFollows
<1> QED
  BY <1>6, <1>7, <1>8, <1>13, <1>16, <1>17, <1>18, ProgressIs

LEMMA BodyHolds ==
    ASSUME TypeInv, NEW m \in Modules, NEW g, g.mod = m, g.todo = Body(m),
           NEW n \in Nodes, n[1] = m, n[2] \in DOMAIN program[m].body
    PROVE  Holds(g, n)
<1>1. DOMAIN Body(m) = 1..Len(program[m].body) /\ \A j \in DOMAIN Body(m) : Body(m)[j] = j
  BY DEF Body
<1>2. n[2] \in DOMAIN Body(m)
  BY <1>1, BodyIndices
<1> QED
  BY <1>1, <1>2 DEF Holds

\* The imported module is collected first, if it has not been.
LEMMA ProgressCollectImport ==
    ASSUME Ready, CollectImport
    PROVE  Progress'
<1>0. Collecting /\ UNCHANGED <<linked, symbol>>
  BY DEF Collecting, CollectImport
<1>1. /\ stack # <<>> /\ Top.pass = "collect" /\ Top.mod \in Modules
      /\ state[Top.mod] = "parsed"
      /\ Top.at # "draining" /\ ~Running({"declare"}, "entered")
      /\ UNCHANGED <<program, roots, phase, deferred, pending>>
  BY <1>0, CollectingTop
<1>2. PICK m \in Modules : m = This.to
  BY DEF CollectImport
<1>3. Top.todo # <<>> /\ This.kind = "import"
      /\ CallCollect(Waiting("imported"), m, LoadedState(m), {})
  BY <1>2 DEF CollectImport
<1>4. PICK st, below, diags : /\ st = LoadedState(m) /\ below = Waiting("imported") /\ diags = {}
                             /\ CallCollect(below, m, st, diags)
  BY <1>3
<1> DEFINE collects == st = "parsed" /\ m \notin collected
<1>5. /\ CollectedOnce' /\ ErrorsStay
      /\ \A l \in Modules :
                /\ state'[l] = "parsed" => state[l] = "parsed" \/ (l = m /\ collects)
                /\ l \in collected' => l \in collected \/ (l = m /\ collects)
                /\ Begun(l)' => Begun(l)
  BY <1>1, <1>4, ReadyHas, CollectedByCall
<1>6. state'[m] # "unloaded"
  <2>1. state' = [state EXCEPT ![m] = st]
    BY <1>4 DEF CallCollect
  <2>2. st # "unloaded"
    BY <1>4 DEF LoadedState
  <2> QED
    BY <2>1, <2>2, ReadyHas DEF TypeInv, TypeOK
<1>7. ASSUME NEW f \in Frames, f.pass = Top.pass, f.mod = Top.mod, f.todo = Top.todo, f.at = "imported"
      PROVE  Aimed(f)'
  <2>1. Current(f) = This /\ Current(f)' = Current(f)
    BY <1>1, <1>7 DEF Current, This, Stmt
  <2>2. PICK c : c = Current(f) /\ c.kind = "import" /\ c.to = m /\ Current(f)' = c
    BY <1>2, <1>3, <2>1
  <2> QED
    BY <1>1, <1>3, <1>6, <1>7, <2>2 DEF Aimed
<1>8. PICK g \in Frames : g = [pass |-> "collect", mod |-> m, todo |-> Body(m), at |-> "next", diags |-> {}]
  BY ReadyHas, BodyType DEF Frames
<1>9. g.pass = "collect" /\ g.mod = m /\ g.todo = Body(m) /\ g.at = "next"
  BY <1>8
<1>10. stack' = IF collects THEN Append(Waiting("imported"), g) ELSE Waiting("imported")
  BY <1>4, <1>8 DEF CallCollect
<1> HIDE DEF collects
<1>11. \E f \in Frames :
         /\ f.pass = Top.pass /\ f.mod = Top.mod /\ f.todo = Top.todo
         /\ StepFits({f}, IF collects THEN {g} ELSE {})
  <2>1. CASE collects
    <3>1. Aimed(g)'
      BY <1>9 DEF Aimed
    <3>2. stack' = Append(Waiting("imported"), g)
      BY <1>10, <2>1
    <3>3. \A l \in Modules : state'[l] = "parsed" => state[l] = "parsed" \/ (g.pass = "collect" /\ g.mod = l)
      BY <1>5, <1>9
    <3>4. \E f \in Frames : /\ f.pass = Top.pass /\ f.mod = Top.mod /\ f.todo = Top.todo
                            /\ StepFits({f}, {g})
      BY <1>1, <1>7, <1>9, <3>1, <3>2, <3>3, ReadyHas, CallFits
    <3> QED
      BY <2>1, <3>4
  <2>2. CASE ~collects
    <3>1. \A l \in Modules : state'[l] = "parsed" => state[l] = "parsed"
      BY <1>5, <2>2
    <3>2. \E f \in Frames : /\ f.pass = Top.pass /\ f.mod = Top.mod /\ f.todo = Top.todo
                            /\ StepFits({f}, {})
      BY <1>1, <1>7, <1>10, <2>2, <3>1, ReadyHas, WaitFits
    <3> QED
      BY <2>2, <3>2
  <2> QED
    BY <2>1, <2>2
<1>12. PICK calls : calls = IF collects THEN {g} ELSE {}
  OBVIOUS
<1>13. PICK f \in Frames : /\ f.pass = Top.pass /\ f.mod = Top.mod /\ f.todo = Top.todo
                          /\ StepFits({f}, calls)
  BY <1>11, <1>12
<1>14. PassesKnown' /\ TroubleStays /\ Turns(stack', {f}, calls)
  BY <1>13, ReadyHas, FitPasses DEF StepFits
<1>15. TestsWait' /\ RootBegun' /\ LinksAreImports'
  BY <1>0, <1>1, ReadyHas, TestsStay, RootStays, LinksStay
<1>16. ImportsLinked'
  <2>1. ASSUME NEW n \in Nodes, IsImport(n), n[1] \in collected', n[1] \notin collected
        PROVE  \E h \in calls : WillCollect(h, n)
    <3>1. n[1] = m /\ collects
      BY <1>5, <2>1 DEF Nodes
    <3>2. Holds(g, n)
      BY <1>9, <2>1, <3>1, ReadyHas, BodyHolds DEF IsImport
    <3> QED
      BY <1>9, <1>12, <3>1, <3>2 DEF WillCollect
  <2>2. \A n : WillCollect(Top, n) => WillCollect(f, n)
    BY <1>13 DEF WillCollect, Holds
  <2>3. \A n \in Nodes : IsImport(n) /\ stack # <<>> /\ WillCollect(Top, n) =>
            (\E h \in {f} : WillCollect(h, n)) \/ n \in linked' \/ symbol'[n] = "poisoned"
    BY <2>2
  <2> QED
    BY <1>0, <1>5, <1>14, <2>1, <2>3, ReadyHas, ImportsFollow
<1>17. Complete'
  <2>1. \A n \in Nodes : n[1] \in Modules
    BY DEF Nodes
  <2>2. Top.pass \notin {"resolve", "tests"}
    BY <1>1
  <2>3. \A n \in Nodes : ~(Begun(n[1])' /\ ~Begun(n[1]))
    BY <1>5, <2>1
  <2> QED
    BY <1>0, <1>1, <1>14, <2>2, <2>3, ReadyHas, CompleteStays
<1>18. PoisonExplained'
  BY <1>0, <1>14, ReadyHas, PoisonFollows
<1> QED
  BY <1>5, <1>14, <1>15, <1>16, <1>17, <1>18, ProgressIs


LEMMA ProgressEndCollect ==
    ASSUME Ready, EndCollect
    PROVE  Progress'
<1>0. Collecting /\ UNCHANGED <<linked, symbol, collected>>
  BY DEF Collecting, EndCollect
<1>1. /\ stack # <<>> /\ Top.pass = "collect" /\ Top.mod \in Modules
      /\ state[Top.mod] = "parsed"
      /\ Top.at # "draining" /\ ~Running({"declare"}, "entered")
      /\ UNCHANGED <<program, roots, phase, deferred, pending>>
  BY <1>0, CollectingTop
<1>2. PICK m \in Modules : m = Top.mod
  BY <1>1
<1>3. PICK st \in {"poisonedCollection", "symbolsCollected"} :
          /\ state' = [state EXCEPT ![m] = st]
          /\ Top.diags # {} => st = "poisonedCollection"
  BY <1>2 DEF EndCollect
<1>4. state \in [Modules -> States] /\ Top.todo = <<>> /\ stack' = Popped
  BY ReadyHas DEF EndCollect, TypeInv, TypeOK
<1>5. \A l \in Modules : state'[l] = IF l = m THEN st ELSE state[l]
  BY <1>3, <1>4
<1>6. Carries(Top) => IsPoisoned(m)'
  BY <1>3, <1>5 DEF Carries, IsPoisoned
<1>7. \A l \in Modules : state'[l] = "parsed" => state[l] = "parsed" /\ l # Top.mod
  BY <1>2, <1>3, <1>5
<1>8. Turns(stack', {}, {})
  BY <1>1, <1>4, ReadyHas, TurnsPopped
<1>9. StepFits({}, {})
  BY <1>1, <1>2, <1>6, <1>7, <1>8, ReadyHas, EndFits
<1>10. PassesKnown' /\ TroubleStays
  BY <1>9, ReadyHas, FitPasses
<1>11. CollectedOnce' /\ ErrorsStay
  BY <1>0, <1>1, <1>2, <1>3, <1>5, ReadyHas DEF CollectedOnce, ErrorsStay, IsErrored
<1>12. TestsWait' /\ RootBegun' /\ LinksAreImports'
  BY <1>0, <1>1, ReadyHas, TestsStay, RootStays, LinksStay
<1>13. \A n \in Nodes : n[1] \in Modules
  BY DEF Nodes
<1>14. ImportsLinked'
  <2>1. \A n : ~WillCollect(Top, n)
    BY <1>4 DEF WillCollect, Holds
  <2> QED
    BY <1>0, <1>8, <1>10, <1>11, <2>1, ReadyHas, ImportsFollow
<1>15. Complete'
  <2>1. \A n \in Nodes : ~(Begun(n[1])' /\ ~Begun(n[1]))
    BY <1>3, <1>5, <1>13 DEF Begun
  <2> QED
    BY <1>0, <1>1, <1>4, <1>8, <2>1, ReadyHas, CompleteStays
<1>16. PoisonExplained'
  BY <1>0, <1>10, ReadyHas, PoisonFollows
<1> QED
  BY <1>10, <1>11, <1>12, <1>14, <1>15, <1>16, ProgressIs

-----------------------------------------------------------------------------
(* Type resolution                                                          *)

\* Once resolution began, everything asked for has been collected.
LEMMA NoneCollects ==
    ASSUME Ready, stack # <<>> => Top.pass # "collect"
    PROVE  /\ \A k \in DOMAIN stack : stack[k].pass # "collect"
           /\ \A m \in Modules : state[m] # "parsed"
           /\ \A m \in Modules : m \in collected => IsResolvable(m) \/ Begun(m)
           /\ \A n \in Nodes : IsImport(n) /\ n[1] \in collected => n \in linked \/ symbol[n] = "poisoned"
<1>1. \A k \in DOMAIN stack : stack[k].pass # "collect"
  BY ReadyHas, StackIs DEF StackShape
<1>2. \A m \in Modules : state[m] # "parsed"
  BY <1>1, ReadyHas DEF CollectsParsed
<1>3. \A m \in Modules : m \in collected => IsResolvable(m) \/ Begun(m)
  <2> SUFFICES ASSUME NEW m \in Modules, m \in collected PROVE IsResolvable(m) \/ Begun(m)
    OBVIOUS
  <2>1. state[m] \in States /\ state[m] \notin {"unloaded", "errored", "parsed"}
    BY <1>2, ReadyHas DEF CollectedOnce, TypeInv, TypeOK
  <2> QED
    BY <2>1 DEF States, IsResolvable, Begun
<1>4. \A n \in Nodes : IsImport(n) /\ n[1] \in collected => n \in linked \/ symbol[n] = "poisoned"
  BY <1>1, ReadyHas DEF ImportsLinked, WillCollect
<1> QED
  BY <1>1, <1>2, <1>3, <1>4

LEMMA ResolvingTop ==
    ASSUME Ready, ResolvingStep \/ Tests
    PROVE  /\ stack # <<>> /\ Top.pass \in {"resolve", "tests"} /\ Top \in Frames /\ Top.mod \in Modules
           /\ Top.pass # "collect" /\ Top.pass # "declare"
           /\ Aimed(Top) /\ Begun(Top.mod) /\ Top.mod \in collected
           /\ ~Running({"declare"}, "entered")
           /\ UNCHANGED <<program, roots, phase, linked, collected>>
           /\ ResolvingStep => (Top.at # "draining" /\ UNCHANGED pending) \/ EndResolve
<1>1. stack # <<>> /\ Top.pass \in {"resolve", "tests"}
  BY DEF ResolvingStep, Tests, PutOffTest, ResolveImport, AfterImport, ResolveDecl, EndResolve,
         StartTests, EndTests, EndDraining, Statement, Resolving, Running
<1>2. Top \in Frames
  BY <1>1, ReadyHas, TypeInvStack, GoodTop
<1>3. Aimed(Top)
  BY <1>1, ReadyHas, StackIs DEF FramesAimed
<1>4. Top.mod \in Modules /\ Begun(Top.mod)
  BY <1>1, <1>2, <1>3 DEF Frames, Aimed
<1>5. Top.mod \in collected
  BY <1>4, ReadyHas DEF CollectedOnce, Begun
<1>6. UNCHANGED <<program, roots, phase, linked, collected>>
  BY DEF ResolvingStep, Tests, PutOffTest, ResolveImport, AfterImport, ResolveDecl, EndResolve,
         StartTests, EndTests, EndDraining
<1>7. ResolvingStep => (Top.at # "draining" /\ UNCHANGED pending) \/ EndResolve
  BY DEF ResolvingStep, PutOffTest, ResolveImport, AfterImport, ResolveDecl, Statement, Resolving, Running
<1> QED
  BY <1>1, <1>2, <1>3, <1>4, <1>5, <1>6, <1>7 DEF Running

\* A step that collects nothing and unloads nothing.
LEMMA StateKept ==
    ASSUME Ready, UNCHANGED <<program, linked, collected>>,
           \A m \in Modules : state'[m] = state[m] \/ (m \in collected /\ Begun(m)')
    PROVE  /\ CollectedOnce' /\ ErrorsStay /\ LinksAreImports'
           /\ \A m \in Modules : state'[m] = "parsed" => state[m] = "parsed"
<1>1. CollectedOnce'
  BY ReadyHas DEF CollectedOnce, IsErrored, Begun
<1>2. ErrorsStay
  BY ReadyHas DEF CollectedOnce, ErrorsStay, IsErrored
<1>3. LinksAreImports'
  BY ReadyHas, LinksStay
<1>4. \A m \in Modules : state'[m] = "parsed" => state[m] = "parsed"
  BY DEF Begun
<1> QED
  BY <1>1, <1>2, <1>3, <1>4

LEMMA ImportsKept ==
    ASSUME Ready, TroubleStays, ErrorsStay, UNCHANGED <<program, linked, collected>>,
           stack # <<>> => Top.pass # "collect",
           NEW tops, NEW calls, Turns(stack', tops, calls),
           \A n \in Nodes : IsImport(n) =>
                symbol'[n] = symbol[n] \/ (symbol'[n] = "poisoned" /\ Troubled(n[1])')
    PROVE  ImportsLinked'
<1>1. \A n : ~(stack # <<>> /\ WillCollect(Top, n))
  BY DEF WillCollect
<1> QED
  BY <1>1, ReadyHas, ImportsFollow

\* The statement at hand is done with.
LEMMA CompleteAdvanced ==
    ASSUME Ready, ResolvingStep, Top.todo # <<>>,
           UNCHANGED state, \A n \in Nodes : (\E j \in DOMAIN deferred[n[1]] : deferred[n[1]][j] = n[2]) =>
                                (\E j \in DOMAIN deferred'[n[1]] : deferred'[n[1]][j] = n[2]),
           NEW calls, NEW f, f.pass = Top.pass, f.mod = Top.mod, f.todo = Tail(Top.todo),
           Turns(stack', {f}, calls),
           \A n \in Nodes : n = Here /\ IsSeen(n[1], n[2]) => Ahead(n)' \/ Dealt(n)'
    PROVE  Complete'
<1>1. /\ stack # <<>> /\ Top.pass \in {"resolve", "tests"}
      /\ ~Running({"declare"}, "entered") /\ UNCHANGED <<program, linked>>
  BY ResolvingTop
<1>2. ASSUME NEW n \in Nodes, WillResolve(Top, n), IsSeen(n[1], n[2])
      PROVE  Ahead(n)' \/ Dealt(n)'
  <2>1. n = Here \/ Holds(f, n)
    BY <1>1, <1>2, ReadyHas, TodoSplits DEF WillResolve
  <2>2. CASE n = Here
    BY <1>2, <2>2
  <2>3. CASE Holds(f, n)
    BY <1>1, <2>3, AheadAbove DEF WillResolve
  <2> QED
    BY <2>1, <2>2, <2>3
<1>3. \A n \in Nodes : (\E j \in DOMAIN deferred[n[1]] : deferred[n[1]][j] = n[2]) => Ahead(n)'
  BY DEF Ahead
<1>4. \A n \in Nodes : ~(Begun(n[1])' /\ ~Begun(n[1]))
  BY DEF Begun
<1> QED
  BY <1>1, <1>2, <1>3, <1>4, ReadyHas, CompleteFollows

LEMMA ProgressPutOffTest ==
    ASSUME Ready, PutOffTest
    PROVE  Progress'
<1>0. /\ ResolvingStep /\ Top.todo # <<>> /\ Top.at = "next" /\ stack' = Advanced({})
      /\ This.test /\ UNCHANGED <<state, symbol, pending>>
  BY DEF ResolvingStep, PutOffTest, Statement, Resolving, Running, IsPutOff
<1>1. /\ stack # <<>> /\ Top.pass # "collect" /\ Top.pass # "declare" /\ Top.mod \in Modules
      /\ Begun(Top.mod)
      /\ UNCHANGED <<program, roots, phase, linked, collected>>
  BY <1>0, ResolvingTop
<1>2. PICK f \in Frames :
              /\ f.pass = Top.pass /\ f.mod = Top.mod /\ f.at = "next"
              /\ f.todo = Tail(Top.todo)
              /\ StepFits({f}, {})
  BY <1>0, <1>1, ReadyHas, AdvanceFits
<1>3. PassesKnown' /\ TroubleStays /\ Turns(stack', {f}, {})
  BY <1>2, ReadyHas, FitPasses DEF StepFits
<1>4. CollectedOnce' /\ ErrorsStay /\ LinksAreImports'
  BY <1>0, <1>1, ReadyHas, StateKept
<1>5. ImportsLinked'
  BY <1>0, <1>1, <1>3, <1>4, ImportsKept
<1>6. PICK m \in Modules : m = Top.mod
  BY <1>1
<1>7. PICK i : i = Head(Top.todo)
  OBVIOUS
<1>8. i \in Indices /\ i \in DOMAIN program[m].body /\ Stmt(m, i).test
  BY <1>0, <1>1, <1>6, <1>7, ReadyHas, HereType DEF This
<1>9. deferred \in [Modules -> Seq(Indices)]
  BY ReadyHas DEF TypeInv, TypeOK
<1>10. /\ deferred' = deferred \/ deferred' = [deferred EXCEPT ![m] = Append(@, i)]
       /\ (Testing => deferred' = [deferred EXCEPT ![m] = Append(@, i)])
  BY <1>6, <1>7 DEF PutOffTest
<1>11. deferred[m] \in Seq(Indices)
  BY <1>9
<1>12. /\ DOMAIN Append(deferred[m], i) = 1..(Len(deferred[m]) + 1) /\ DOMAIN deferred[m] = 1..Len(deferred[m])
       /\ \A k \in 1..Len(deferred[m]) : Append(deferred[m], i)[k] = deferred[m][k]
       /\ Append(deferred[m], i)[Len(deferred[m]) + 1] = i
       /\ Len(deferred[m]) \in Nat
  BY <1>8, <1>11, AppendIs
<1>13. Len(deferred[m]) + 1 \in DOMAIN Append(deferred[m], i)
  BY <1>12
<1>14. \A k \in DOMAIN deferred[m] : k \in DOMAIN Append(deferred[m], i)
  BY <1>12
<1>15. \A k \in DOMAIN Append(deferred[m], i) :
          (k \in DOMAIN deferred[m] /\ Append(deferred[m], i)[k] = deferred[m][k]) \/ Append(deferred[m], i)[k] = i
  BY <1>12
<1>16. \A l \in Modules : \A k \in DOMAIN deferred'[l] :
          (k \in DOMAIN deferred[l] /\ deferred'[l][k] = deferred[l][k]) \/ (l = m /\ deferred'[l][k] = i)
  BY <1>9, <1>10, <1>15
<1>17. \A l \in Modules : \A k \in DOMAIN deferred[l] :
          k \in DOMAIN deferred'[l] /\ deferred'[l][k] = deferred[l][k]
  BY <1>9, <1>10, <1>12, <1>14
<1>18. Testing => \E k \in DOMAIN deferred'[m] : deferred'[m][k] = i
  BY <1>9, <1>10, <1>12, <1>13
<1>19. TestsWait'
  <2>1. \A l \in Modules : \A k \in DOMAIN deferred'[l] : Stmt(l, deferred'[l][k]).test
    BY <1>8, <1>16, ReadyHas DEF TestsWait
  <2>2. \A k \in DOMAIN pending : (Begun(pending[k]))'
    BY <1>0, ReadyHas DEF TestsWait, Begun
  <2> QED
    BY <1>0, <1>1, <2>1, <2>2 DEF TestsWait, Stmt
<1>20. Complete'
  <2>1. ASSUME NEW n \in Nodes, n = Here, IsSeen(n[1], n[2]) PROVE Ahead(n)' \/ Dealt(n)'
    <3>1. n[1] = m /\ n[2] = i
      BY <1>6, <1>7, <2>1 DEF Here
    <3>2. Testing
      BY <1>8, <2>1, <3>1 DEF IsSeen
    <3>3. Ahead(n)'
      BY <1>18, <3>1, <3>2 DEF Ahead
    <3> QED
      BY <3>3
  <2>2. \A n \in Nodes : n[1] \in Modules
    BY DEF Nodes
  <2>3. \A n \in Nodes : (\E j \in DOMAIN deferred[n[1]] : deferred[n[1]][j] = n[2]) =>
                                (\E j \in DOMAIN deferred'[n[1]] : deferred'[n[1]][j] = n[2])
    BY <1>17, <2>2
  <2> QED
    BY <1>0, <1>2, <1>3, <2>1, <2>3, CompleteAdvanced
<1>21. PoisonExplained'
  BY <1>0, <1>3, ReadyHas, PoisonFollows
<1>22. RootBegun'
  BY <1>1, ReadyHas, RootStays
<1> QED
  BY <1>3, <1>4, <1>5, <1>19, <1>20, <1>21, <1>22, ProgressIs

LEMMA LinkedEdge ==
    ASSUME NEW n \in linked, UNCHANGED <<program, linked>>
    PROVE  /\ Links(n[1], To(n))
           /\ Reaches(LinkedGraph', n[1], To(n))
<1>1. <<n[1], Stmt(n[1], n[2]).to>> \in LinkedGraph.edge
  BY DEF LinkedGraph
<1>2. LinkedGraph' = LinkedGraph
  BY DEF LinkedGraph, Stmt
<1> QED
  BY <1>1, <1>2, ReachesEdge DEF Links, To

\* A module is resolved when it is called on for the first time.
LEMMA CallBegins ==
    ASSUME Ready, NEW below, NEW m \in Modules, NEW diags \in SUBSET Diagnostics, IsResolvable(m),
           CallResolve(below, m, diags)
    PROVE  /\ Begun(m)' /\ m \in collected
           /\ \A l \in Modules : l # m => state'[l] = state[l]
           /\ \E g \in Frames : /\ g.pass = "resolve" /\ g.mod = m /\ g.todo = Body(m) /\ g.at = "next"
                                /\ stack' = Append(below, g)
                                /\ g.diags = diags
<1>1. PICK g \in Frames : g = [pass |-> "resolve", mod |-> m, todo |-> Body(m), at |-> "next", diags |-> diags]
  BY ReadyHas, BodyType DEF Frames
<1>2. g.pass = "resolve" /\ g.mod = m /\ g.todo = Body(m) /\ g.at = "next" /\ g.diags = diags
  BY <1>1
<1>3. stack' = Append(below, g) /\ m \in collected
  BY <1>1 DEF CallResolve, IsResolvable
<1>4. PICK st \in {"resolving", "poisonedResolving"} : state' = [state EXCEPT ![m] = st]
  BY DEF CallResolve
<1>5. \A l \in Modules : state'[l] = IF l = m THEN st ELSE state[l]
  BY <1>4, ReadyHas DEF TypeInv, TypeOK
<1> QED
  BY <1>2, <1>3, <1>5 DEF Begun

LEMMA ProgressResolveLinked ==
    ASSUME Ready, ResolveImport, Here \in linked
    PROVE  Progress'
<1>0. /\ ResolvingStep /\ Top.todo # <<>> /\ Top.at = "next" /\ This.kind = "import"
      /\ UNCHANGED <<symbol, pending, deferred>>
  BY DEF ResolvingStep, ResolveImport, Statement, Resolving, Running
<1>1. /\ stack # <<>> /\ Top.pass # "collect" /\ Top.pass # "declare" /\ Top.mod \in Modules
      /\ Begun(Top.mod) /\ ~Running({"declare"}, "entered")
      /\ UNCHANGED <<program, roots, phase, linked, collected>>
  BY <1>0, ResolvingTop
<1>2. PICK n \in linked : n = Here
  OBVIOUS
<1>3. PICK m : m = This.to
  OBVIOUS
<1>4. n[1] = Top.mod /\ To(n) = m /\ m \in collected /\ m \in Modules
  BY <1>2, <1>3, ReadyHas DEF Here, To, This, LinksAreImports, TypeInv, TypeOK
<1>5. Reaches(LinkedGraph', Top.mod, m)
  BY <1>1, <1>2, <1>4, LinkedEdge
<1>6. IsResolvable(m) \/ Begun(m)
  BY <1>1, <1>4, NoneCollects
<1>7. CallResolve(Waiting("imported"), m, {})
  BY <1>3 DEF ResolveImport
<1>8. ASSUME Begun(m)', NEW f \in Frames,
             f.pass = Top.pass, f.mod = Top.mod, f.todo = Top.todo, f.at = "imported"
      PROVE  Aimed(f)'
  <2>1. Current(f) = This /\ Current(f)' = Current(f)
    BY <1>1, <1>8 DEF Current, This, Stmt
  <2>2. PICK c : c = Current(f) /\ c.kind = "import" /\ c.to = m /\ Current(f)' = c
    BY <1>0, <1>3, <2>1
  <2>3. PICK l \in Modules : l = Top.mod /\ Begun(l)'
    BY <1>1, ReadyHas DEF Onward
  <2>4. Begun(f.mod)'
    BY <1>8, <2>3
  <2> QED
    BY <1>0, <1>1, <1>4, <1>8, <2>2, <2>4 DEF Aimed
<1>9. /\ Begun(m)'
      /\ \A l \in Modules : state'[l] = state[l] \/ (l \in collected /\ Begun(l)')
      /\ \E f \in Frames : \E calls :
            /\ f.pass = Top.pass /\ f.mod = Top.mod /\ f.todo = Top.todo
            /\ StepFits({f}, calls)
            /\ \A k \in Nodes : k[2] \in DOMAIN program[k[1]].body /\ Begun(k[1])' /\ ~Begun(k[1]) =>
                    \E g \in calls : WillResolve(g, k)
  <2>1. CASE IsResolvable(m)
    <3>1. /\ Begun(m)' /\ m \in collected
          /\ \A l \in Modules : l # m => state'[l] = state[l]
      BY <1>4, <1>7, <2>1, CallBegins
    <3>2. PICK g \in Frames : /\ g.pass = "resolve" /\ g.mod = m /\ g.todo = Body(m) /\ g.at = "next"
                             /\ stack' = Append(Waiting("imported"), g)
      BY <1>4, <1>7, <2>1, CallBegins
    <3>3. Aimed(g)'
      BY <3>1, <3>2 DEF Aimed
    <3>4. \A l \in Modules : state'[l] = "parsed" => state[l] = "parsed"
      BY <3>1 DEF Begun
    <3>5. PICK f \in Frames : /\ f.pass = Top.pass /\ f.mod = Top.mod /\ f.todo = Top.todo
                             /\ StepFits({f}, {g})
      BY <1>0, <1>1, <1>5, <1>8, <3>1, <3>2, <3>3, <3>4, ReadyHas, CallFits
    <3>6. ASSUME NEW k \in Nodes, k[2] \in DOMAIN program[k[1]].body, Begun(k[1])', ~Begun(k[1])
          PROVE  WillResolve(g, k)
      <4>1. k[1] \in Modules
        BY DEF Nodes
      <4>2. k[1] = m
        BY <3>1, <3>6, <4>1 DEF Begun
      <4>3. Holds(g, k)
        BY <1>4, <3>2, <3>6, <4>2, ReadyHas, BodyHolds
      <4> QED
        BY <3>2, <4>3 DEF WillResolve
    <3>7. \A l \in Modules : state'[l] = state[l] \/ (l \in collected /\ Begun(l)')
      BY <3>1
    <3> QED
      BY <3>1, <3>5, <3>6, <3>7
  <2>2. CASE ~IsResolvable(m)
    <3>1. state' = state /\ stack' = Waiting("imported")
      BY <1>7, <2>2 DEF CallResolve
    <3>2. Begun(m)'
      BY <1>6, <2>2, <3>1 DEF Begun
    <3>3. PICK f \in Frames : /\ f.pass = Top.pass /\ f.mod = Top.mod /\ f.todo = Top.todo
                             /\ StepFits({f}, {})
      BY <1>0, <1>1, <1>8, <3>1, <3>2, ReadyHas, WaitFits
    <3>4. \A k \in Nodes : ~(Begun(k[1])' /\ ~Begun(k[1]))
      BY <3>1 DEF Begun
    <3> QED
      BY <3>1, <3>2, <3>3, <3>4
  <2> QED
    BY <2>1, <2>2
<1>10. PICK f \in Frames : \E calls :
            /\ f.pass = Top.pass /\ f.mod = Top.mod /\ f.todo = Top.todo
            /\ StepFits({f}, calls)
            /\ \A k \in Nodes : k[2] \in DOMAIN program[k[1]].body /\ Begun(k[1])' /\ ~Begun(k[1]) =>
                    \E g \in calls : WillResolve(g, k)
  BY <1>9
<1>11. PICK calls :
            /\ StepFits({f}, calls)
            /\ \A k \in Nodes : k[2] \in DOMAIN program[k[1]].body /\ Begun(k[1])' /\ ~Begun(k[1]) =>
                    \E g \in calls : WillResolve(g, k)
  BY <1>10
<1>12. PassesKnown' /\ TroubleStays /\ Turns(stack', {f}, calls)
  BY <1>11, ReadyHas, FitPasses DEF StepFits
<1>13. CollectedOnce' /\ ErrorsStay /\ LinksAreImports'
  BY <1>1, <1>9, StateKept
<1>14. ImportsLinked'
  BY <1>0, <1>1, <1>12, <1>13, ImportsKept
<1>15. Complete'
  BY <1>0, <1>1, <1>10, <1>11, <1>12, ReadyHas, CompleteStays
<1>16. PoisonExplained'
  BY <1>0, <1>12, ReadyHas, PoisonFollows
<1>17. TestsWait' /\ RootBegun'
  BY <1>0, <1>1, ReadyHas, TestsStay, RootStays
<1> QED
  BY <1>12, <1>13, <1>14, <1>15, <1>16, <1>17, ProgressIs

LEMMA ProgressPassesOver ==
    ASSUME Ready, ResolveImport, Here \notin linked
    PROVE  Progress'
<1>0. /\ ResolvingStep /\ Top.todo # <<>> /\ Top.at = "next" /\ This.kind = "import"
      /\ stack' = Advanced({}) /\ UNCHANGED <<state, symbol, pending, deferred>>
  BY DEF ResolvingStep, ResolveImport, Statement, Resolving, Running
<1>1. /\ stack # <<>> /\ Top.pass # "collect" /\ Top.pass # "declare" /\ Top.mod \in Modules
      /\ Begun(Top.mod)
      /\ UNCHANGED <<program, roots, phase, linked, collected>>
  BY <1>0, ResolvingTop
<1>2. PICK f \in Frames :
              /\ f.pass = Top.pass /\ f.mod = Top.mod /\ f.at = "next"
              /\ f.todo = Tail(Top.todo)
              /\ StepFits({f}, {})
  BY <1>0, <1>1, ReadyHas, AdvanceFits
<1>3. PassesKnown' /\ TroubleStays /\ Turns(stack', {f}, {})
  BY <1>2, ReadyHas, FitPasses DEF StepFits
<1>4. CollectedOnce' /\ ErrorsStay /\ LinksAreImports'
  BY <1>0, <1>1, ReadyHas, StateKept
<1>5. ImportsLinked'
  BY <1>0, <1>1, <1>3, <1>4, ImportsKept
<1>6. Complete'
  <2>1. ASSUME NEW n \in Nodes, n = Here PROVE Dealt(n)'
    <3>1. ~IsDecl(n)' /\ n \notin linked'
      BY <1>0, <1>1, <2>1 DEF IsDecl, Here, This, Stmt
    <3> QED
      BY <3>1 DEF Dealt
  <2> QED
    BY <1>0, <1>2, <1>3, <2>1, CompleteAdvanced
<1>7. PoisonExplained'
  BY <1>0, <1>3, ReadyHas, PoisonFollows
<1>8. TestsWait' /\ RootBegun'
  BY <1>0, <1>1, ReadyHas, TestsStay, RootStays
<1> QED
  BY <1>3, <1>4, <1>5, <1>6, <1>7, <1>8, ProgressIs

LEMMA ProgressAfterImport ==
    ASSUME Ready, AfterImport
    PROVE  Progress'
<1>0. /\ ResolvingStep /\ Top.at = "imported"
      /\ UNCHANGED <<state, pending, deferred>>
  BY DEF ResolvingStep, AfterImport, Resolving, Running
<1>1. /\ stack # <<>> /\ Top.pass # "collect" /\ Top.pass # "declare" /\ Top.mod \in Modules
      /\ Begun(Top.mod) /\ Aimed(Top)
      /\ UNCHANGED <<program, roots, phase, linked, collected>>
  BY <1>0, ResolvingTop
<1>2. Top.todo # <<>> /\ This.kind = "import" /\ This.to \in Modules /\ Begun(This.to)
  BY <1>0, <1>1 DEF Aimed, Current, This
<1>3. Here \in Nodes /\ Diagnostic(Here, "importedModuleContainsErrors") \in Diagnostics
  BY <1>1, <1>2, ReadyHas, HereType
<1>4. PICK diags \in SUBSET Diagnostics :
          /\ stack' = Advanced(diags)
          /\ \/ symbol' = symbol
             \/ diags # {} /\ symbol' = [symbol EXCEPT ![Here] = "poisoned"]
  BY <1>3 DEF AfterImport
<1>5. PICK f \in Frames :
              /\ f.pass = Top.pass /\ f.mod = Top.mod /\ f.at = "next"
              /\ f.todo = Tail(Top.todo) /\ f.diags = Top.diags \cup diags
              /\ StepFits({f}, {})
  BY <1>0, <1>1, <1>2, <1>4, ReadyHas, AdvanceFits
<1>6. PassesKnown' /\ TroubleStays /\ Turns(stack', {f}, {})
  BY <1>5, ReadyHas, FitPasses DEF StepFits
<1>7. CollectedOnce' /\ ErrorsStay /\ LinksAreImports'
  BY <1>0, <1>1, ReadyHas, StateKept
<1>8. ~IsDecl(Here) /\ Here[1] = Top.mod
  BY <1>2 DEF IsDecl, Here, This
<1>9. symbol \in [Nodes -> Statuses]
  BY ReadyHas DEF TypeInv, TypeOK
<1>10. ImportsLinked'
  <2>1. ASSUME diags # {}, NEW m, m = Top.mod PROVE Troubled(m)'
    <3>1. Carries(f) /\ f.mod = m
      BY <1>1, <1>5, <2>1 DEF Carries
    <3>2. \E k \in DOMAIN stack' : stack'[k] = f
      BY <1>6 DEF Turns
    <3> QED
      BY <3>1, <3>2 DEF Troubled
  <2>2. ASSUME NEW n \in Nodes
        PROVE  symbol'[n] = symbol[n] \/ (symbol'[n] = "poisoned" /\ Troubled(n[1])')
    <3>1. CASE symbol' = symbol \/ n # Here
      BY <1>4, <1>9, <3>1
    <3>2. CASE diags # {} /\ symbol' = [symbol EXCEPT ![Here] = "poisoned"] /\ n = Here
      <4>1. PICK m : m = n[1] /\ m = Top.mod
        BY <1>8, <3>2
      <4>2. Troubled(m)'
        BY <2>1, <3>2, <4>1
      <4>3. symbol'[n] = "poisoned"
        BY <1>9, <3>2
      <4> QED
        BY <4>1, <4>2, <4>3
    <3> QED
      BY <1>4, <3>1, <3>2
  <2> QED
    BY <1>1, <1>6, <1>7, <2>2, ImportsKept
<1>11. Complete'
  <2>1. ASSUME NEW n \in Nodes, n = Here PROVE Dealt(n)'
    <3>1. ~IsDecl(n)'
      BY <1>1, <1>8, <2>1 DEF IsDecl, Stmt
    <3>2. PICK m : m = This.to
      OBVIOUS
    <3>3. To(n)' = m
      BY <1>1, <2>1, <3>2 DEF To, Here, This, Stmt
    <3>4. Begun(m)'
      BY <1>0, <1>2, <3>2 DEF Begun
    <3> QED
      BY <3>1, <3>3, <3>4 DEF Dealt
  <2> QED
    BY <1>0, <1>2, <1>5, <1>6, <2>1, CompleteAdvanced
<1>12. PoisonExplained'
  <2>1. \A n \in Nodes : IsDecl(n) => symbol'[n] = symbol[n]
    BY <1>4, <1>8, <1>9
  <2> QED
    BY <1>6, <2>1, ReadyHas, PoisonFollows
<1>13. TestsWait' /\ RootBegun'
  BY <1>0, <1>1, ReadyHas, TestsStay, RootStays
<1> QED
  BY <1>6, <1>7, <1>10, <1>11, <1>12, <1>13, ProgressIs

LEMMA ProgressResolveDecl ==
    ASSUME Ready, ResolveDecl
    PROVE  Progress'
<1>0. /\ ResolvingStep /\ Top.todo # <<>> /\ Top.at = "next" /\ This.kind = "decl"
      /\ UNCHANGED <<state, symbol, pending, deferred>>
  BY DEF ResolvingStep, ResolveDecl, Statement, Resolving, Running
<1>1. /\ stack # <<>> /\ Top.pass # "collect" /\ Top.pass # "declare" /\ Top.mod \in Modules
      /\ Begun(Top.mod)
      /\ UNCHANGED <<program, roots, phase, linked, collected>>
  BY <1>0, ResolvingTop
<1>2. PICK n \in Nodes : n = Here
  BY <1>0, <1>1, ReadyHas, HereType
<1>3. n[1] \in Modules /\ <<n[2]>> \in Seq(Indices)
  BY DEF Nodes
<1>4. PICK g \in Frames : g = [pass |-> "declare", mod |-> n[1], todo |-> <<n[2]>>,
                              at |-> "entered", diags |-> {}]
  BY <1>3 DEF Frames
<1>5. /\ g.pass = "declare" /\ g.mod = n[1] /\ g.at = "entered" /\ Head(g.todo) = n[2]
      /\ n[1] = Top.mod
  BY <1>2, <1>4 DEF Here
<1>6. stack' = Append(Advanced({}), g)
  BY <1>2, <1>4 DEF ResolveDecl, Declare
<1>7. PICK f \in Frames :
              /\ f.pass = Top.pass /\ f.mod = Top.mod /\ f.at = "next"
              /\ f.todo = Tail(Top.todo) /\ f.diags = Top.diags \cup {}
              /\ Turns(Advanced({}), {f}, {})
              /\ Advanced({}) \in Seq(Frames) /\ Len(Advanced({})) = Len(stack)
  BY <1>0, <1>1, ReadyHas, TurnsAdvanced
<1>8. PICK s \in Seq(Frames) : s = Advanced({}) /\ Len(s) = Len(stack)
  BY <1>7
<1>9. Turns(stack', {f}, {g})
  BY <1>6, <1>7, <1>8, ReadyHas, TurnsCall
<1>10. /\ stack' = Append(s, g) /\ Len(stack') = Len(s) + 1 /\ Len(s) \in Nat
      /\ stack'[Len(s) + 1] = g
  BY <1>6, <1>8, AppendIs
<1>11. stack' # <<>> /\ stack'[Len(stack')] = g
  BY <1>10
<1>12. StepFits({f}, {g})
  <2>1. PICK m \in Modules : m = Top.mod /\ Begun(m)'
    BY <1>1, ReadyHas DEF Onward
  <2>2. Aimed(f)'
    BY <1>7, <2>1 DEF Aimed
  <2>3. Aimed(g)'
    BY <1>5, <2>1 DEF Aimed
  <2>4. Reaches(LinkedGraph', Top.mod, g.mod)
    BY <1>5, ReachesItself
  <2>5. Len(stack) \in DOMAIN stack /\ Hosts(stack[Len(stack)], g.mod)
    BY <1>0, <1>1, <1>5, ReadyHas, StackIs DEF Hosts
  <2>6. Carries(Top) => Carries(f)
    BY <1>7 DEF Carries
  <2> QED
    BY <1>0, <1>5, <1>7, <1>9, <2>2, <2>3, <2>4, <2>5, <2>6 DEF StepFits
<1>13. PassesKnown' /\ TroubleStays
  BY <1>12, ReadyHas, FitPasses
<1>14. CollectedOnce' /\ ErrorsStay /\ LinksAreImports'
  BY <1>0, <1>1, ReadyHas, StateKept
<1>15. ImportsLinked'
  BY <1>0, <1>1, <1>9, <1>13, <1>14, ImportsKept
<1>16. Complete'
  <2>1. ASSUME NEW k \in Nodes, k = Here PROVE Ahead(k)'
    <3>1. k = n /\ n = <<n[1], n[2]>>
      BY <1>2, <2>1 DEF Nodes
    <3>2. Running({"declare"}, "entered")' /\ Here' = n
      BY <1>5, <1>11, <3>1 DEF Running, Top, Here
    <3> QED
      BY <3>1, <3>2 DEF Ahead
  <2> QED
    BY <1>0, <1>7, <1>9, <2>1, CompleteAdvanced
<1>17. PoisonExplained'
  BY <1>0, <1>13, ReadyHas, PoisonFollows
<1>18. TestsWait' /\ RootBegun'
  BY <1>0, <1>1, ReadyHas, TestsStay, RootStays
<1> QED
  BY <1>13, <1>14, <1>15, <1>16, <1>17, <1>18, ProgressIs

LEMMA PendingBegun ==
    ASSUME Ready, UNCHANGED <<program, deferred>>,
           \A j \in DOMAIN pending' : pending'[j] \in Modules /\
                ((\E k \in DOMAIN pending : pending[k] = pending'[j]) \/ Begun(pending'[j]))
    PROVE  TestsWait'
<1>1. \A j \in DOMAIN pending' : Begun(pending'[j])
  BY ReadyHas DEF TestsWait
<1>2. ASSUME NEW j \in DOMAIN pending', NEW m \in Modules, m = pending'[j] PROVE Begun(m)'
  BY <1>1, <1>2, ReadyHas DEF Onward
<1>3. \A j \in DOMAIN pending' : Begun(pending[j])'
  BY <1>2 DEF Begun
<1> QED
  BY <1>3, ReadyHas DEF TestsWait, Stmt

LEMMA ProgressEndResolve ==
    ASSUME Ready, EndResolve, ~cancelled
    PROVE  Progress'
<1>0. /\ ResolvingStep /\ Top.todo = <<>> /\ Top.pass = "resolve" /\ Top.at = "next"
      /\ UNCHANGED <<symbol, deferred>>
  BY DEF ResolvingStep, EndResolve, Running
<1>1. /\ stack # <<>> /\ Top.mod \in Modules
      /\ Begun(Top.mod) /\ Top.mod \in collected /\ ~Running({"declare"}, "entered")
      /\ UNCHANGED <<program, roots, phase, linked, collected>>
  BY <1>0, ResolvingTop
<1>2. PICK m \in Modules : m = Top.mod
  BY <1>1
<1>3. PICK st \in {"poisonedResolved", "resolved"} :
          /\ state' = [state EXCEPT ![m] = st]
          /\ Top.diags # {} => st = "poisonedResolved"
  BY <1>2 DEF EndResolve
<1>4. \A l \in Modules : state'[l] = IF l = m THEN st ELSE state[l]
  BY <1>3, ReadyHas DEF TypeInv, TypeOK
<1>5. Carries(Top) => IsPoisoned(m)'
  BY <1>3, <1>4 DEF Carries, IsPoisoned
<1>6. Begun(m)' /\ \A l \in Modules : state'[l] = state[l] \/ (l \in collected /\ Begun(l)')
  BY <1>1, <1>2, <1>3, <1>4 DEF Begun
<1>7. /\ CollectedOnce' /\ ErrorsStay /\ LinksAreImports'
      /\ \A l \in Modules : state'[l] = "parsed" => state[l] = "parsed"
  BY <1>1, <1>6, StateKept
<1>8. PICK tops : StepFits(tops, {})
  <2>1. CASE stack' = Waiting("draining")
    <3>1. PICK f \in Frames :
              /\ f.pass = Top.pass /\ f.mod = Top.mod /\ f.at = "draining"
              /\ f.todo = Top.todo
              /\ Turns(stack', {f}, {})
      BY <1>1, <2>1, ReadyHas, TurnsWaiting
    <3>2. Begun(f.mod)'
      BY <1>2, <1>6, <3>1
    <3>3. Aimed(f)'
      BY <1>0, <3>1, <3>2 DEF Aimed
    <3>4. StepFits({f}, {})
      BY <1>0, <1>2, <1>5, <1>7, <3>1, <3>3 DEF StepFits
    <3> QED
      BY <3>4
  <2>2. CASE stack' = Popped
    <3>1. Turns(stack', {}, {})
      BY <1>1, <2>2, ReadyHas, TurnsPopped
    <3>2. StepFits({}, {})
      BY <1>0, <1>1, <1>2, <1>5, <1>7, <3>1, ReadyHas, EndFits
    <3> QED
      BY <3>2
  <2> QED
    BY <2>1, <2>2 DEF EndResolve
<1>9. PassesKnown' /\ TroubleStays /\ Turns(stack', tops, {})
  BY <1>8, ReadyHas, FitPasses DEF StepFits
<1>10. ImportsLinked'
  BY <1>0, <1>1, <1>7, <1>9, ImportsKept
<1>11. Complete'
  <2>1. \A n \in Nodes : n[1] \in Modules
    BY DEF Nodes
  <2>2. \A n \in Nodes : ~(Begun(n[1])' /\ ~Begun(n[1]))
    BY <1>1, <1>2, <1>4, <2>1 DEF Begun
  <2> QED
    BY <1>0, <1>1, <1>9, <2>2, ReadyHas, CompleteStays
<1>12. PoisonExplained'
  BY <1>0, <1>9, ReadyHas, PoisonFollows
<1>13. RootBegun'
  BY <1>1, ReadyHas, RootStays
<1>14. TestsWait'
  <2>1. pending \in Seq(Modules)
    BY ReadyHas DEF TypeInv, TypeOK
  <2>2. pending' = pending \/ pending' = Append(pending, m)
    BY <1>2 DEF EndResolve
  <2>3. \A j \in DOMAIN pending : pending[j] \in Modules
    BY <2>1
  <2>4. ASSUME NEW j \in DOMAIN pending'
        PROVE  pending'[j] \in Modules /\ ((\E k \in DOMAIN pending : pending[k] = pending'[j]) \/ Begun(pending'[j]))
    <3>1. CASE pending' = pending
      BY <2>3, <3>1
    <3>2. CASE pending' = Append(pending, m)
      <4>1. /\ DOMAIN pending' = 1..(Len(pending) + 1) /\ DOMAIN pending = 1..Len(pending)
            /\ \A k \in 1..Len(pending) : pending'[k] = pending[k]
            /\ pending'[Len(pending) + 1] = m
            /\ Len(pending) \in Nat
        BY <2>1, <3>2, AppendIs
      <4>2. j \in DOMAIN pending \/ j = Len(pending) + 1
        BY <4>1
      <4> QED
        BY <1>1, <1>2, <2>3, <4>1, <4>2
    <3> QED
      BY <2>2, <3>1, <3>2
  <2> QED
    BY <1>0, <1>1, <2>4, PendingBegun
<1> QED
  BY <1>7, <1>9, <1>10, <1>11, <1>12, <1>13, <1>14, ProgressIs

LEMMA ProgressEnds ==
    ASSUME Ready, EndTests \/ EndDraining, ~cancelled
    PROVE  Progress'
<1>0. /\ Tests /\ stack' = Popped /\ UNCHANGED <<symbol, deferred, pending>>
  BY DEF Tests, EndTests, EndDraining
<1>1. /\ stack # <<>> /\ Top.pass # "collect" /\ Top.mod \in Modules /\ Aimed(Top)
      /\ Begun(Top.mod) /\ Top.mod \in collected /\ ~Running({"declare"}, "entered")
      /\ UNCHANGED <<program, roots, phase, linked, collected>>
  BY <1>0, ResolvingTop
<1>2. Top.todo = <<>> /\ (EndDraining => Top.at = "draining")
  BY <1>1 DEF EndTests, EndDraining, Running, Aimed
<1>3. PICK m \in Modules : m = Top.mod
  BY <1>1
<1>4. /\ \A l \in Modules : l # m => state'[l] = state[l]
      /\ state'[m] = state[m] \/ state'[m] = "poisonedResolved"
      /\ Carries(Top) => state'[m] = "poisonedResolved"
  BY <1>2, <1>3, ReadyHas DEF EndTests, EndDraining, Carries, TypeInv, TypeOK
<1>5. Carries(Top) => IsPoisoned(m)'
  BY <1>4 DEF IsPoisoned
<1>6. Begun(m) /\ Begun(m)' /\ \A l \in Modules : state'[l] = state[l] \/ (l \in collected /\ Begun(l)')
  BY <1>1, <1>3, <1>4 DEF Begun
<1>7. /\ CollectedOnce' /\ ErrorsStay /\ LinksAreImports'
      /\ \A l \in Modules : state'[l] = "parsed" => state[l] = "parsed"
  BY <1>1, <1>6, StateKept
<1>8. Turns(stack', {}, {})
  BY <1>0, <1>1, ReadyHas, TurnsPopped
<1>9. StepFits({}, {})
  BY <1>1, <1>3, <1>5, <1>7, <1>8, ReadyHas, EndFits
<1>10. PassesKnown' /\ TroubleStays
  BY <1>9, ReadyHas, FitPasses
<1>11. ImportsLinked'
  BY <1>0, <1>1, <1>7, <1>8, <1>10, ImportsKept
<1>12. Complete'
  <2>1. \A n \in Nodes : n[1] \in Modules
    BY DEF Nodes
  <2>2. \A n \in Nodes : ~(Begun(n[1])' /\ ~Begun(n[1]))
    BY <1>4, <1>6, <2>1 DEF Begun
  <2> QED
    BY <1>0, <1>1, <1>2, <1>8, <2>2, ReadyHas, CompleteStays
<1>13. PoisonExplained'
  BY <1>0, <1>10, ReadyHas, PoisonFollows
<1>14. TestsWait' /\ RootBegun'
  BY <1>0, <1>1, ReadyHas, TestsStay, RootStays
<1> QED
  BY <1>7, <1>10, <1>11, <1>12, <1>13, <1>14, ProgressIs

LEMMA ProgressStartTests ==
    ASSUME Ready, StartTests
    PROVE  Progress'
<1>0. /\ Tests /\ Top.at = "draining" /\ Top.pass = "resolve" /\ pending # <<>>
      /\ UNCHANGED <<state, symbol>>
  BY DEF Tests, StartTests, Running
<1>1. /\ stack # <<>> /\ Top \in Frames /\ Top.mod \in Modules /\ Aimed(Top) /\ Begun(Top.mod)
      /\ ~Running({"declare"}, "entered")
      /\ UNCHANGED <<program, roots, phase, linked, collected>>
  BY <1>0, ResolvingTop
<1>2. pending \in Seq(Modules) /\ deferred \in [Modules -> Seq(Indices)]
  BY ReadyHas DEF TypeInv, TypeOK
<1>3. PICK m \in Modules : m = Head(pending) /\ Begun(m)
  <2>1. Head(pending) \in Modules /\ Head(pending) = pending[1] /\ 1 \in DOMAIN pending
    BY <1>0, <1>2, TailOf
  <2>2. Begun(pending[1])
    BY <2>1, ReadyHas DEF TestsWait
  <2> QED
    BY <2>1, <2>2
<1>4. /\ pending' = Tail(pending) /\ deferred' = [deferred EXCEPT ![m] = <<>>]
      /\ stack' = Append(stack, [pass |-> "tests", mod |-> m, todo |-> deferred[m],
                                 at |-> "next", diags |-> {}])
  BY <1>3 DEF StartTests
<1>5. PICK g \in Frames : g = [pass |-> "tests", mod |-> m, todo |-> deferred[m],
                              at |-> "next", diags |-> {}]
  BY <1>2 DEF Frames
<1>6. g.pass = "tests" /\ g.mod = m /\ g.todo = deferred[m] /\ g.at = "next" /\ stack' = Append(stack, g)
  BY <1>4, <1>5
<1>7. PICK f \in Frames : f = Top
  BY <1>1
<1>8. /\ Aimed(f) /\ f.pass = Top.pass /\ f.mod = Top.mod /\ f.todo = Top.todo
      /\ f.at = "draining" /\ f.todo = <<>>
  BY <1>0, <1>1, <1>7 DEF Aimed
<1>9. Turns(stack', {f}, {g})
  <2>1. Turns(stack, {f}, {})
    BY <1>1, <1>7, ReadyHas, StackIs DEF Turns, SameFrame
  <2>2. PICK s \in Seq(Frames) : s = stack
    BY ReadyHas, StackIs
  <2>3. Len(s) = Len(stack) /\ Turns(s, {f}, {})
    BY <2>1, <2>2
  <2>4. Turns(Append(s, g), {f}, {g})
    BY <2>3, ReadyHas, TurnsCall
  <2> QED
    BY <1>6, <2>2, <2>4
<1>10. StepFits({f}, {g})
  <2>1. Aimed(f)'
    BY <1>8, ReadyHas, AimedStays DEF SameFrame
  <2>2. Begun(m)'
    BY <1>0, <1>3 DEF Begun
  <2>3. Aimed(g)'
    BY <1>6, <2>2 DEF Aimed
  <2>4. ~Carries(Top)
    BY <1>0 DEF Carries
  <2> QED
    BY <1>0, <1>6, <1>8, <1>9, <2>1, <2>3, <2>4 DEF StepFits
<1>11. PassesKnown' /\ TroubleStays
  BY <1>10, ReadyHas, FitPasses
<1>12. CollectedOnce' /\ ErrorsStay /\ LinksAreImports'
  BY <1>0, <1>1, ReadyHas, StateKept
<1>13. ImportsLinked'
  BY <1>0, <1>1, <1>9, <1>11, <1>12, ImportsKept
<1>14. Complete'
  <2>1. \A n : ~WillResolve(Top, n)
    BY <1>7, <1>8 DEF WillResolve, Holds
  <2>2. ASSUME NEW n \in Nodes, NEW j \in DOMAIN deferred[n[1]], deferred[n[1]][j] = n[2]
        PROVE  Ahead(n)'
    <3>1. CASE n[1] = m
      <4>1. WillResolve(g, n)
        BY <1>6, <2>2, <3>1 DEF WillResolve, Holds
      <4> QED
        BY <1>9, <4>1, AheadAbove
    <3>2. CASE n[1] # m
      <4>1. deferred'[n[1]] = deferred[n[1]]
        BY <1>2, <1>4, <3>2 DEF Nodes
      <4> QED
        BY <2>2, <4>1 DEF Ahead
    <3> QED
      BY <3>1, <3>2
  <2>3. \A n \in Nodes : ~(Begun(n[1])' /\ ~Begun(n[1]))
    BY <1>0 DEF Begun
  <2> QED
    BY <1>1, <1>9, <2>1, <2>2, <2>3, ReadyHas, CompleteFollows
<1>15. PoisonExplained'
  BY <1>0, <1>11, ReadyHas, PoisonFollows
<1>16. TestsWait'
  <2>1. \A l \in Modules : \A j \in DOMAIN deferred'[l] :
            j \in DOMAIN deferred[l] /\ deferred'[l][j] = deferred[l][j]
    BY <1>2, <1>4
  <2>2. \A l \in Modules : \A j \in DOMAIN deferred'[l] : Stmt(l, deferred'[l][j]).test
    BY <2>1, ReadyHas DEF TestsWait
  <2>3. \A j \in DOMAIN pending' : j + 1 \in DOMAIN pending /\ pending'[j] = pending[j + 1]
    BY <1>0, <1>2, <1>4, TailOf
  <2>4. \A j \in DOMAIN pending' : Begun(pending'[j])
    BY <2>3, ReadyHas DEF TestsWait
  <2> QED
    BY <1>0, <1>1, <2>2, <2>4 DEF TestsWait, Begun, Stmt
<1>17. RootBegun'
  BY <1>1, ReadyHas, RootStays
<1> QED
  BY <1>11, <1>12, <1>13, <1>14, <1>15, <1>16, <1>17, ProgressIs


-----------------------------------------------------------------------------
(* One declaration                                                          *)

LEMMA DeclaringTop ==
    ASSUME Ready, Declaring
    PROVE  /\ stack # <<>> /\ Top.pass = "declare" /\ Top \in Frames /\ Top.mod \in Modules
           /\ Aimed(Top) /\ Begun(Top.mod) /\ Top.mod \in collected
           /\ Top.todo # <<>> /\ Here \in Nodes /\ IsDecl(Here) /\ Here[1] = Top.mod /\ To(Here) = This.to
           /\ Top.at # "draining" /\ ~Carries(Top)
           /\ UNCHANGED <<program, roots, phase, linked, collected, deferred, pending>>
<1>1. stack # <<>> /\ Top.pass = "declare"
  BY DEF Declaring, EnterDecl, FinishLiteral, FinishUndeclared, FinishPoisonedAlias, AwaitModule,
         FinishPoisonedModule, FinishReference, FinishCycle, ResolveTarget, CanLook, Running
<1>2. Top \in Frames /\ FitsProgram(program, Top)
  BY <1>1, ReadyHas, TypeInvStack, GoodTop
<1>3. Aimed(Top)
  BY <1>1, ReadyHas, StackIs DEF FramesAimed
<1>4. Top.mod \in Modules /\ Begun(Top.mod)
  BY <1>1, <1>2, <1>3 DEF Frames, Aimed
<1>5. Top.mod \in collected
  BY <1>4, ReadyHas DEF CollectedOnce, Begun
<1>6. Top.todo # <<>> /\ Top.at # "draining" /\ This.kind = "decl"
  BY <1>1, <1>2 DEF FitsProgram, This, Stmt
<1>7. Here \in Nodes /\ IsDecl(Here) /\ Here[1] = Top.mod /\ To(Here) = This.to
  BY <1>1, <1>6, ReadyHas, HereType DEF IsDecl, To, This, Here, Stmt
<1>8. UNCHANGED <<program, roots, phase, linked, collected, deferred, pending>>
  BY DEF Declaring, EnterDecl, FinishLiteral, FinishUndeclared, FinishPoisonedAlias, AwaitModule,
         FinishPoisonedModule, FinishReference, FinishCycle, ResolveTarget, Finish
<1> QED
  BY <1>1, <1>2, <1>3, <1>4, <1>5, <1>6, <1>7, <1>8 DEF Carries

LEMMA AliasIs ==
    ASSUME TypeInv, stack # <<>>, Top.pass = "declare", NamesImport
    PROVE  \E n \in Nodes :
              /\ n = <<Top.mod, Alias(Top.mod, This.to)>> /\ n[1] = Top.mod
              /\ IsImport(n) /\ ~Stmt(n[1], n[2]).test /\ To(n) = This.to
<1>1. This.to \in Modules /\ This.to # Top.mod
  BY DEF NamesImport
<1>2. Top.mod \in Modules
  BY TypeInvStack, GoodTop DEF Frames
<1>3. PICK m \in Modules, d \in Modules : m = Top.mod /\ d = This.to
  BY <1>1, <1>2
<1>4. \E j \in DOMAIN program[m].body :
          Stmt(m, j).kind = "import" /\ ~Stmt(m, j).test /\ Stmt(m, j).to = d
  BY <1>1, <1>3, TargetType DEF NamesDeclaration, Stmt
<1>5. PICK i : i = Alias(m, d)
  OBVIOUS
<1>6. i \in DOMAIN program[m].body /\ Stmt(m, i).kind = "import" /\ ~Stmt(m, i).test /\ Stmt(m, i).to = d
  BY <1>4, <1>5 DEF Alias
<1>7. <<m, i>> \in Nodes
  BY <1>6, BodyIndices DEF Nodes
<1> QED
  BY <1>3, <1>5, <1>6, <1>7 DEF IsImport, To

LEMMA AliasLinked ==
    ASSUME Ready, stack # <<>>, Top.pass = "declare", Top.mod \in collected, NamesImport, ~AliasPoisoned
    PROVE  /\ Links(Top.mod, This.to) /\ This.to \in collected
<1>1. PICK n \in Nodes :
              /\ n = <<Top.mod, Alias(Top.mod, This.to)>> /\ n[1] = Top.mod
              /\ IsImport(n) /\ ~Stmt(n[1], n[2]).test /\ To(n) = This.to
  BY ReadyHas, AliasIs
<1>2. symbol[n] # "poisoned"
  BY <1>1 DEF AliasPoisoned
<1>3. n \in linked
  BY <1>1, <1>2, NoneCollects
<1>4. <<n[1], Stmt(n[1], n[2]).to>> \in LinkedGraph.edge
  BY <1>3 DEF LinkedGraph
<1> QED
  BY <1>1, <1>3, <1>4, ReadyHas DEF LinksAreImports, Links, To

LEMMA CanLookKnows ==
    ASSUME Ready, Declaring, CanLook
    PROVE  /\ This.to \in Modules /\ Begun(This.to) /\ ~Running({"declare"}, "entered")
           /\ This.to # Top.mod => Links(Top.mod, This.to)
           /\ Top.at \in {"started", "awaited", "looking"}
<1>1. /\ stack # <<>> /\ Top.pass = "declare" /\ Top.mod \in Modules
      /\ Aimed(Top) /\ Begun(Top.mod) /\ Top.mod \in collected
  BY DeclaringTop
<1>2. This.to \in Modules /\ Top.at \in {"started", "awaited", "looking"} /\ ~Running({"declare"}, "entered")
  BY DEF CanLook, Running
<1>3. CASE This.to = Top.mod
  BY <1>1, <1>2, <1>3
<1>4. CASE This.to # Top.mod /\ Top.at \in {"awaited", "looking"}
  BY <1>1, <1>2, <1>4 DEF Aimed, Current, This
<1>5. CASE This.to # Top.mod /\ Top.at = "started"
  <2>1. NamesImport /\ ~AliasPoisoned /\ ~IsResolvable(This.to)
    BY <1>2, <1>5 DEF NamesImport, CanLook
  <2>2. Links(Top.mod, This.to) /\ This.to \in collected
    BY <1>1, <2>1, AliasLinked
  <2>3. Begun(This.to)
    BY <1>1, <1>2, <2>1, <2>2, NoneCollects
  <2> QED
    BY <1>2, <2>2, <2>3
<1> QED
  BY <1>2, <1>3, <1>4, <1>5

LEMMA ProgressEnterDecl ==
    ASSUME Ready, EnterDecl
    PROVE  Progress'
<1>0. Declaring /\ UNCHANGED state
  BY DEF Declaring, EnterDecl
<1>1. /\ stack # <<>> /\ Top.pass = "declare" /\ Top.mod \in Modules /\ Begun(Top.mod)
      /\ Here \in Nodes /\ IsDecl(Here) /\ Top.at # "draining" /\ ~Carries(Top) /\ Top.todo # <<>>
      /\ UNCHANGED <<program, roots, phase, linked, collected, deferred, pending>>
  BY <1>0, DeclaringTop
<1>2. symbol \in [Nodes -> Statuses]
  BY ReadyHas DEF TypeInv, TypeOK
<1>3. PICK d \in Nodes : d = Here
  BY <1>1
<1>4. /\ symbol'[d] # "unresolved"
      /\ \A n \in Nodes : symbol'[n] = symbol[n] \/ (n = d /\ symbol'[n] = "resolving")
  BY <1>2, <1>3 DEF EnterDecl
<1>5. PICK tops : StepFits(tops, {})
  <2>1. CASE stack' = Popped
    <3>1. Turns(stack', {}, {})
      BY <1>1, <2>1, ReadyHas, TurnsPopped
    <3>2. StepFits({}, {})
      BY <1>0, <1>1, <3>1, ReadyHas, EndFits
    <3> QED
      BY <3>2
  <2>2. CASE stack' = Waiting("started")
    <3>1. ASSUME NEW f \in Frames, f.pass = Top.pass, f.mod = Top.mod, f.todo = Top.todo, f.at = "started"
          PROVE  Aimed(f)'
      <4>1. PICK m \in Modules : m = Top.mod /\ Begun(m)'
        BY <1>1, ReadyHas DEF Onward
      <4> QED
        BY <3>1, <4>1 DEF Aimed
    <3>2. \A m \in Modules : state'[m] = "parsed" => state[m] = "parsed"
      BY <1>0
    <3>3. \E f \in Frames : StepFits({f}, {})
      BY <1>1, <2>2, <3>1, <3>2, ReadyHas, WaitFits
    <3> QED
      BY <3>3
  <2> QED
    BY <2>1, <2>2 DEF EnterDecl
<1>6. PassesKnown' /\ TroubleStays /\ Turns(stack', tops, {})
  BY <1>5, ReadyHas, FitPasses DEF StepFits
<1>7. CollectedOnce' /\ ErrorsStay /\ LinksAreImports'
  BY <1>0, <1>1, ReadyHas, StateKept
<1>8. ~IsImport(d)
  BY <1>1, <1>3 DEF IsImport, IsDecl
<1>9. ImportsLinked'
  BY <1>1, <1>4, <1>6, <1>7, <1>8, ImportsKept
<1>10. Complete'
  <2>1. IsDecl(d)'
    BY <1>1, <1>3 DEF IsDecl, Stmt
  <2>2. Dealt(d)'
    BY <1>4, <2>1 DEF Dealt
  <2>3. \A n \in Nodes : n = Here => Dealt(n)'
    BY <1>3, <2>2
  <2>4. \A n \in Nodes : ~(Begun(n[1])' /\ ~Begun(n[1]))
    BY <1>0 DEF Begun
  <2> QED
    BY <1>1, <1>6, <2>3, <2>4, ReadyHas, CompleteStays
<1>11. PoisonExplained'
  BY <1>4, <1>6, ReadyHas, PoisonFollows
<1>12. TestsWait' /\ RootBegun'
  BY <1>1, ReadyHas, TestsStay, RootStays
<1> QED
  BY <1>6, <1>7, <1>9, <1>10, <1>11, <1>12, ProgressIs

LEMMA ProgressAwaitModule ==
    ASSUME Ready, AwaitModule
    PROVE  Progress'
<1>0. Declaring /\ Top.at = "started" /\ NamesImport /\ ~AliasPoisoned /\ UNCHANGED symbol
  BY DEF Declaring, AwaitModule, Running
<1>1. /\ stack # <<>> /\ Top.pass = "declare" /\ Top.pass # "collect" /\ Top.mod \in Modules /\ Begun(Top.mod)
      /\ Top.mod \in collected /\ Top.todo # <<>>
      /\ Top.at # "draining" /\ ~Running({"declare"}, "entered")
      /\ UNCHANGED <<program, roots, phase, linked, collected, deferred, pending>>
  BY <1>0, DeclaringTop DEF Running
<1>2. Links(Top.mod, This.to)
  BY <1>0, <1>1, AliasLinked
<1>3. PICK m \in Modules : m = This.to
  BY <1>0 DEF NamesImport
<1>4. IsResolvable(m) /\ CallResolve(Waiting("awaited"), m, {})
  BY <1>3 DEF AwaitModule
<1>5. /\ Begun(m)' /\ m \in collected
      /\ \A l \in Modules : l # m => state'[l] = state[l]
  BY <1>4, CallBegins
<1>6. PICK g \in Frames : /\ g.pass = "resolve" /\ g.mod = m /\ g.todo = Body(m) /\ g.at = "next"
                         /\ stack' = Append(Waiting("awaited"), g)
  BY <1>4, CallBegins
<1>7. PICK h \in Modules : h = Top.mod /\ Links(h, m) /\ Begun(h)'
  BY <1>1, <1>2, <1>3, ReadyHas DEF Onward
<1>8. Links(h, m)' /\ Reaches(LinkedGraph', h, m)
  BY <1>7, ReadyHas, LinksGrow, LinksReach, ReachesEdge DEF Links, LeadsTo
<1>9. ASSUME NEW f \in Frames, f.pass = Top.pass, f.mod = Top.mod, f.todo = Top.todo, f.at = "awaited"
      PROVE  Aimed(f)'
  <2>1. Current(f) = This /\ Current(f)' = Current(f)
    BY <1>1, <1>9 DEF Current, This, Stmt
  <2>2. PICK c : c = Current(f) /\ c.to = m /\ Current(f)' = c
    BY <1>3, <2>1
  <2> QED
    BY <1>1, <1>5, <1>7, <1>8, <1>9, <2>2 DEF Aimed
<1>10. Aimed(g)'
  BY <1>5, <1>6 DEF Aimed
<1>11. \A l \in Modules : state'[l] = "parsed" => state[l] = "parsed"
  BY <1>5 DEF Begun
<1>12. PICK f \in Frames : StepFits({f}, {g})
  BY <1>1, <1>6, <1>7, <1>8, <1>9, <1>10, <1>11, ReadyHas, CallFits
<1>13. PassesKnown' /\ TroubleStays /\ Turns(stack', {f}, {g})
  BY <1>12, ReadyHas, FitPasses DEF StepFits
<1>14. \A l \in Modules : state'[l] = state[l] \/ (l \in collected /\ Begun(l)')
  BY <1>5
<1>15. CollectedOnce' /\ ErrorsStay /\ LinksAreImports'
  BY <1>1, <1>14, StateKept
<1>16. ImportsLinked'
  BY <1>0, <1>1, <1>13, <1>15, ImportsKept
<1>17. Complete'
  <2>1. ASSUME NEW k \in Nodes, k[2] \in DOMAIN program[k[1]].body, Begun(k[1])', ~Begun(k[1])
        PROVE  WillResolve(g, k)
    <3>1. k[1] \in Modules
      BY DEF Nodes
    <3>2. k[1] = m
      BY <1>5, <2>1, <3>1 DEF Begun
    <3>3. Holds(g, k)
      BY <1>6, <2>1, <3>2, ReadyHas, BodyHolds
    <3> QED
      BY <1>6, <3>3 DEF WillResolve
  <2> QED
    BY <1>1, <1>13, <2>1, ReadyHas, CompleteStays
<1>18. PoisonExplained'
  BY <1>0, <1>13, ReadyHas, PoisonFollows
<1>19. TestsWait' /\ RootBegun'
  BY <1>1, ReadyHas, TestsStay, RootStays
<1> QED
  BY <1>13, <1>15, <1>16, <1>17, <1>18, <1>19, ProgressIs

\* A declaration nobody looked at yet waits in a pass over its file.
LEMMA TargetHosted ==
    ASSUME Ready, Declaring, CanLook, symbol[Target] = "unresolved"
    PROVE  \E p \in DOMAIN stack : Hosts(stack[p], This.to)
<1>1. stack # <<>> /\ Top.pass = "declare"
  BY DeclaringTop
<1>2. This.to \in Modules /\ Begun(This.to) /\ ~Running({"declare"}, "entered")
  BY CanLookKnows
<1>3. PICK n \in Nodes : n = Target
  BY <1>1, <1>2, ReadyHas, TargetType
<1>4. n[1] = This.to /\ IsDecl(n) /\ ~Stmt(n[1], n[2]).test
  BY <1>1, <1>2, <1>3, ReadyHas, TargetType DEF Target, NamesDeclaration, IsDecl, Stmt
<1>5. Ahead(n)
  BY <1>2, <1>3, <1>4, ReadyHas DEF Complete, IsSeen, IsDecl, Dealt
<1>6. n[1] \in Modules
  BY DEF Nodes
<1>7. PICK k \in DOMAIN stack : WillResolve(stack[k], n)
  BY <1>2, <1>4, <1>5, <1>6, ReadyHas DEF Ahead, TestsWait
<1>8. stack[k].at # "draining"
  BY <1>7, ReadyHas DEF FramesAimed, Aimed, WillResolve, Holds
<1> QED
  BY <1>4, <1>7, <1>8 DEF WillResolve, Holds, Hosts

LEMMA ProgressResolveTarget ==
    ASSUME Ready, ResolveTarget
    PROVE  Progress'
<1>0. Declaring /\ CanLook /\ symbol[Target] = "unresolved" /\ UNCHANGED <<state, symbol>>
  BY DEF Declaring, ResolveTarget
<1>1. /\ stack # <<>> /\ Top.pass = "declare" /\ Top.pass # "collect" /\ Top.mod \in Modules /\ Begun(Top.mod)
      /\ Top.todo # <<>> /\ Top.at # "draining"
      /\ UNCHANGED <<program, roots, phase, linked, collected, deferred, pending>>
  BY <1>0, DeclaringTop
<1>2. /\ This.to \in Modules /\ Begun(This.to) /\ ~Running({"declare"}, "entered")
      /\ This.to # Top.mod => Links(Top.mod, This.to)
  BY <1>0, CanLookKnows
<1>3. PICK n \in Nodes : n = Target
  BY <1>1, <1>2, ReadyHas, TargetType
<1>4. n[1] = This.to /\ n[1] \in Modules /\ <<n[2]>> \in Seq(Indices)
  BY <1>3 DEF Target, Nodes
<1>5. PICK g \in Frames : g = [pass |-> "declare", mod |-> n[1], todo |-> <<n[2]>>,
                              at |-> "entered", diags |-> {}]
  BY <1>4 DEF Frames
<1>6. g.pass = "declare" /\ g.mod = n[1] /\ g.at = "entered"
  BY <1>5
<1>7. stack' = Append(Waiting("looking"), g)
  BY <1>3, <1>5 DEF ResolveTarget, Declare
<1>8. PICK h \in Modules : h = Top.mod /\ Begun(h)' /\ (n[1] # h => Links(h, n[1]))
  BY <1>1, <1>2, <1>4, ReadyHas DEF Onward
<1>9. PICK m \in Modules : m = n[1]
  BY <1>4
<1>10. /\ m # h => Links(h, m)'
       /\ Reaches(LinkedGraph', h, m)
  BY <1>8, <1>9, ReadyHas, LinksGrow, LinksReach, ReachesEdge, ReachesItself DEF Links, LeadsTo
<1>11. Begun(m)'
  BY <1>0, <1>2, <1>4, <1>9 DEF Begun
<1>12. ASSUME NEW f \in Frames, f.pass = Top.pass, f.mod = Top.mod, f.todo = Top.todo, f.at = "looking"
      PROVE  Aimed(f)'
  <2>1. Current(f) = This /\ Current(f)' = Current(f)
    BY <1>1, <1>12 DEF Current, This, Stmt
  <2>2. PICK c : c = Current(f) /\ c.to = m /\ Current(f)' = c
    BY <1>4, <1>9, <2>1
  <2> QED
    BY <1>1, <1>8, <1>10, <1>11, <1>12, <2>2 DEF Aimed
<1>13. Aimed(g)'
  BY <1>6, <1>9, <1>11 DEF Aimed
<1>14. \E p \in DOMAIN stack : Hosts(stack[p], g.mod)
  BY <1>0, <1>4, <1>6, TargetHosted
<1>15. \A l \in Modules : state'[l] = "parsed" => state[l] = "parsed"
  BY <1>0
<1>16. PICK f \in Frames : StepFits({f}, {g})
  BY <1>1, <1>6, <1>7, <1>8, <1>9, <1>10, <1>12, <1>13, <1>14, <1>15, ReadyHas, CallFits
<1>17. PassesKnown' /\ TroubleStays /\ Turns(stack', {f}, {g})
  BY <1>16, ReadyHas, FitPasses DEF StepFits
<1>18. CollectedOnce' /\ ErrorsStay /\ LinksAreImports'
  BY <1>0, <1>1, ReadyHas, StateKept
<1>19. ImportsLinked'
  BY <1>0, <1>1, <1>17, <1>18, ImportsKept
<1>20. Complete'
  <2>1. \A k \in Nodes : ~(Begun(k[1])' /\ ~Begun(k[1]))
    BY <1>0 DEF Begun
  <2> QED
    BY <1>1, <1>2, <1>17, <2>1, ReadyHas, CompleteStays
<1>21. PoisonExplained'
  BY <1>0, <1>17, ReadyHas, PoisonFollows
<1>22. TestsWait' /\ RootBegun'
  BY <1>1, ReadyHas, TestsStay, RootStays
<1> QED
  BY <1>17, <1>18, <1>19, <1>20, <1>21, <1>22, ProgressIs

\* What a declaration reports is carried by a pass its file leads to.
LEMMA OwnerTroubled ==
    ASSUME Ready, stack # <<>>, Top.pass = "declare",
           NEW diags \in SUBSET Diagnostics, diags # {}, stack' = Reported(Popped, diags),
           NEW j \in DOMAIN stack, j < Len(stack), NEW m, Hosts(stack[j], m)
    PROVE  \E x \in Modules : Reaches(LinkedGraph', m, x) /\ Troubled(x)'
<1>1. PICK s \in Seq(Frames) : s = Popped
  BY ReadyHas, FollowsPopped
<1>2. /\ DOMAIN s = 1..(Len(stack) - 1) /\ DOMAIN s \subseteq DOMAIN stack
      /\ \A k \in DOMAIN s : s[k] = stack[k]
  BY <1>1, ReadyHas, PoppedIs DEF TypeInv, TypeOK
<1>3. DOMAIN stack = 1..Len(stack) /\ Len(stack) \in Nat
  BY ReadyHas, StackIs
<1>4. j \in DOMAIN s /\ s[j].pass # "declare"
  BY <1>2, <1>3 DEF Hosts
<1>5. PICK o \in DOMAIN s : /\ o >= j /\ s[o].pass # "declare"
                           /\ Reported(s, diags)[o].diags = s[o].diags \cup diags
  BY <1>4, ReportedTo
<1>6. /\ stack' = Reported(s, diags) /\ o \in DOMAIN stack' /\ o \in DOMAIN stack
      /\ stack'[o].pass = stack[o].pass /\ stack'[o].mod = stack[o].mod /\ stack'[o].at = stack[o].at
      /\ stack'[o].diags = stack[o].diags \cup diags
  BY <1>1, <1>2, <1>5, ReportedIs
<1>7. stack[o].at # "draining"
  <2>1. stack[o].at = "draining" => o = 1
    BY <1>6, ReadyHas DEF StackShape
  <2>2. o = 1 => j = o
    BY <1>2, <1>3, <1>5
  <2> QED
    BY <2>1, <2>2 DEF Hosts
<1>8. Carries(stack'[o]) /\ stack[o].mod \in Modules
  <2>1. stack[o] \in Frames
    BY <1>6, ReadyHas DEF TypeInv, TypeOK
  <2>2. stack[o].pass # "declare"
    BY <1>2, <1>5
  <2> QED
    BY <1>6, <1>7, <2>1, <2>2 DEF Carries, Frames
<1>9. PICK x \in Modules : x = stack[o].mod
  BY <1>8
<1>10. Troubled(x)'
  BY <1>6, <1>8, <1>9 DEF Troubled
<1>11. LeadsTo(m, x)
  <2>1. CASE j = o
    BY <1>9, <2>1, ReachesItself DEF LeadsTo, Hosts
  <2>2. CASE j # o
    <3>1. j < o
      BY <1>2, <1>3, <1>5, <2>2
    <3>2. stack[j].pass # "collect"
      BY NoneCollects
    <3>3. LeadsTo(stack[j].mod, stack[o].mod)
      BY <1>6, <3>1, <3>2, ReadyHas DEF PassesLead, Hosts
    <3> QED
      BY <1>9, <3>3 DEF Hosts
  <2> QED
    BY <2>1, <2>2
<1> QED
  BY <1>10, <1>11, ReadyHas, LinksReach

Troubling(m) == \E x \in Modules : Reaches(LinkedGraph', m, x) /\ Troubled(x)'

LEMMA HomeTroubles ==
    ASSUME Ready, stack # <<>>, Top.pass = "declare",
           NEW diags \in SUBSET Diagnostics, diags # {}, stack' = Reported(Popped, diags),
           NEW k \in DOMAIN stack, stack[k].pass = "declare"
    PROVE  Troubling(stack[k].mod)
<1>1. PICK p \in DOMAIN stack : p < k /\ Hosts(stack[p], stack[k].mod)
  BY ReadyHas DEF DeclaredAtHome
<1>2. PICK m : m = stack[k].mod
  OBVIOUS
<1>3. p < Len(stack)
  BY <1>1, ReadyHas, StackIs
<1>4. Hosts(stack[p], m)
  BY <1>1, <1>2
<1>5. Troubling(m)
  BY <1>3, <1>4, OwnerTroubled DEF Troubling
<1> QED
  BY <1>2, <1>5


LEMMA FinishKnown ==
    ASSUME Ready, stack # <<>>, Here \in Nodes, To(Here) = This.to, Here[1] = Top.mod,
           NEW status, NEW diags, NEW others,
           Finish(status, others, diags),
           status = "poisoned" => Troubling(Top.mod),
           status = "resolved" => This.to # Undeclared,
           \A n \in others : Troubling(n[1])
    PROVE  \A n \in Nodes :
              /\ symbol'[n] = "poisoned" => symbol[n] = "poisoned" \/ Troubling(n[1])
              /\ symbol'[n] = "resolved" => symbol[n] = "resolved" \/ To(n) # Undeclared
<1> SUFFICES ASSUME NEW n \in Nodes
             PROVE  /\ symbol'[n] = "poisoned" => symbol[n] = "poisoned" \/ Troubling(n[1])
                    /\ symbol'[n] = "resolved" => symbol[n] = "resolved" \/ To(n) # Undeclared
  OBVIOUS
<1>1. symbol'[n] = IF n = Here THEN status
                   ELSE IF n \in others THEN "poisoned" ELSE symbol[n]
  BY DEF Finish
<1>2. PICK h : h = Here
  OBVIOUS
<1>3. n = h => (status = "poisoned" => Troubling(n[1])) /\ (status = "resolved" => To(n) # Undeclared)
  BY <1>2
<1> QED
  BY <1>1, <1>2, <1>3

\* A declaration is poisoned for a reason.
LEMMA FinishTroubles ==
    ASSUME Ready, Finishing, TroubleStays
    PROVE  \A n \in Nodes :
              /\ symbol'[n] = "poisoned" => symbol[n] = "poisoned" \/ Troubling(n[1])
              /\ symbol'[n] = "resolved" => symbol[n] = "resolved" \/ To(n) # Undeclared
<1>0. Declaring
  BY DEF Declaring, Finishing
<1>1. /\ stack # <<>> /\ Top.pass = "declare" /\ Top.mod \in Modules /\ Top.mod \in collected
      /\ Here \in Nodes /\ To(Here) = This.to /\ Here[1] = Top.mod /\ Top.todo # <<>>
      /\ Top = stack[Len(stack)] /\ Len(stack) \in DOMAIN stack
  BY <1>0, DeclaringTop, ReadyHas, StackIs
<1>2. /\ Literal # Undeclared
      /\ This.to \in Modules => This.to # Undeclared
  BY NamesAssumption DEF Literal, Undeclared
<1>3. \A e \in {"importedModuleContainsErrors", "undeclaredIdentifier", "cyclicDependency"} :
          Diagnostic(Here, e) \in Diagnostics
  BY <1>1, ReadyHas, HereType
<1>4. PICK h : h = Top.mod
  OBVIOUS
<1>5. ASSUME NEW diags \in SUBSET Diagnostics, diags # {}, stack' = Reported(Popped, diags)
      PROVE  Troubling(Top.mod)
  BY <1>1, <1>5, HomeTroubles
<1>6. CASE FinishLiteral
  <2>1. Finish("resolved", {}, {}) /\ This.to # Undeclared
    BY <1>2, <1>6 DEF FinishLiteral
  <2> QED
    BY <1>1, <2>1, FinishKnown
<1>7. CASE FinishUndeclared
  <2>1. PICK diags \in SUBSET Diagnostics : diags # {} /\ Finish("poisoned", {}, diags)
    BY <1>3, <1>7 DEF FinishUndeclared
  <2>2. Troubling(Top.mod)
    BY <1>5, <2>1 DEF Finish
  <2> QED
    BY <1>1, <2>1, <2>2, FinishKnown
<1>8. CASE FinishPoisonedModule
  <2>1. PICK diags \in SUBSET Diagnostics : diags # {} /\ Finish("poisoned", {}, diags)
    BY <1>3, <1>8 DEF FinishPoisonedModule
  <2>2. Troubling(Top.mod)
    BY <1>5, <2>1 DEF Finish
  <2> QED
    BY <1>1, <2>1, <2>2, FinishKnown
<1>9. CASE FinishPoisonedAlias
  <2>1. Finish("poisoned", {}, {}) /\ AliasPoisoned /\ NamesImport
    BY <1>9 DEF FinishPoisonedAlias, AliasPoisoned
  <2>2. PICK n \in Nodes :
              /\ n = <<Top.mod, Alias(Top.mod, This.to)>> /\ n[1] = Top.mod
              /\ IsImport(n) /\ ~Stmt(n[1], n[2]).test
    BY <1>1, <2>1, ReadyHas, AliasIs
  <2>3. symbol[n] = "poisoned"
    BY <2>1, <2>2 DEF AliasPoisoned
  <2>4. Troubled(n[1])
    BY <2>2, <2>3, ReadyHas DEF ImportsLinked, Excused
  <2>5. PICK m \in Modules : m = Top.mod /\ m = n[1]
    BY <1>1, <2>2
  <2>6. Troubled(m)'
    BY <2>4, <2>5 DEF TroubleStays
  <2>7. Reaches(LinkedGraph', m, m)
    BY ReachesItself
  <2>8. Troubling(m)
    BY <2>6, <2>7 DEF Troubling
  <2>9. Troubling(Top.mod)
    BY <2>5, <2>8
  <2> QED
    BY <1>1, <2>1, <2>9, FinishKnown
<1>10. CASE FinishReference
  <2>1. Finish(symbol[Target], {}, {}) /\ CanLook
    BY <1>10 DEF FinishReference
  <2>2. This.to \in Modules /\ (This.to # Top.mod => Links(Top.mod, This.to))
    BY <1>0, <2>1, CanLookKnows
  <2>3. ASSUME symbol[Target] = "poisoned" PROVE Troubling(Top.mod)
    <3>1. PICK n \in Nodes : n = Target /\ n[1] = This.to /\ IsDecl(n)
      BY <1>1, <2>2, ReadyHas, TargetType DEF Target, IsDecl, Stmt
    <3>2. PICK x \in Modules : LeadsTo(n[1], x) /\ Troubled(x)
      BY <2>3, <3>1, ReadyHas DEF PoisonExplained
    <3>3. LeadsTo(h, n[1])
      BY <1>4, <2>2, <3>1, ReachesItself, ReachesEdge DEF LeadsTo, Links
    <3>4. LeadsTo(h, x)
      BY <3>2, <3>3, ReachesThrough DEF LeadsTo
    <3>5. Reaches(LinkedGraph', h, x) /\ Troubled(x)'
      BY <3>2, <3>4, ReadyHas, LinksReach DEF TroubleStays
    <3>6. Troubling(h)
      BY <3>5 DEF Troubling
    <3> QED
      BY <1>4, <3>6
  <2>4. This.to # Undeclared
    BY <1>2, <2>2
  <2> QED
    BY <1>1, <2>1, <2>3, <2>4, FinishKnown
<1>11. CASE FinishCycle
  <2>1. PICK diags \in SUBSET Diagnostics : diags # {} /\ Finish("poisoned", {Target}, diags)
    BY <1>3, <1>11 DEF FinishCycle
  <2>2. Troubling(Top.mod)
    BY <1>5, <2>1 DEF Finish
  <2>3. CanLook /\ symbol[Target] = "resolving"
    BY <1>11 DEF FinishCycle
  <2>4. PICK n \in Nodes : n = Target
    BY <1>1, <2>3, ReadyHas, TargetType DEF CanLook
  <2>5. Declares(stack, n)
    BY <2>3, <2>4, ReadyHas DEF HalfDoneIsUnderWay, SymbolsUnderWay
  <2>6. PICK k \in DOMAIN stack : stack[k].pass = "declare" /\ n[1] = stack[k].mod
    BY <2>5 DEF Declares
  <2>7. PICK m : m = stack[k].mod
    OBVIOUS
  <2>8. Troubling(stack[k].mod)
    BY <1>1, <2>1, <2>6, HomeTroubles DEF Finish
  <2>9. Troubling(n[1])
    BY <2>6, <2>7, <2>8
  <2>10. \A d \in {Target} : Troubling(d[1])
    BY <2>4, <2>9
  <2>11. PICK others : others = {Target}
    OBVIOUS
  <2> QED
    BY <1>1, <2>1, <2>2, <2>10, <2>11, FinishKnown
<1> QED
  BY <1>6, <1>7, <1>8, <1>9, <1>10, <1>11 DEF Finishing

LEMMA ProgressFinishing ==
    ASSUME Ready, Finishing
    PROVE  Progress'
<1>0. Declaring
  BY DEF Declaring, Finishing
<1>1. /\ stack # <<>> /\ Top.pass = "declare" /\ Top.pass # "collect" /\ Top.mod \in Modules
      /\ Here \in Nodes /\ IsDecl(Here) /\ Top.at # "draining" /\ ~Carries(Top)
      /\ UNCHANGED <<program, roots, phase, linked, collected, deferred, pending>>
  BY <1>0, DeclaringTop
<1>2. PICK status \in {"resolved", "poisoned"}, diags \in SUBSET Diagnostics :
             \E others :
                /\ Finish(status, others, diags)
                /\ \A n \in others : n = Target /\ This.to \in Modules
  BY ReadyHas, FinishingForm
<1>3. PICK others : /\ Finish(status, others, diags)
                    /\ \A n \in others : n = Target /\ This.to \in Modules
  BY <1>2
<1>4. /\ UNCHANGED state /\ stack' = Reported(Popped, diags)
      /\ \A n \in Nodes : symbol'[n] = IF n = Here THEN status
                                       ELSE IF n \in others THEN "poisoned" ELSE symbol[n]
  BY <1>3 DEF Finish
<1>5. ~Running({"declare"}, "entered")
  BY DEF Finishing, FinishLiteral, FinishUndeclared, FinishPoisonedAlias, FinishPoisonedModule,
         FinishReference, FinishCycle, CanLook, Running
<1>6. Turns(stack', {}, {})
  BY <1>1, <1>4, ReadyHas, TurnsReported
<1>7. StepFits({}, {})
  BY <1>1, <1>4, <1>6, ReadyHas, EndFits
<1>8. PassesKnown' /\ TroubleStays
  BY <1>7, ReadyHas, FitPasses
<1>9. CollectedOnce' /\ ErrorsStay /\ LinksAreImports'
  BY <1>1, <1>4, ReadyHas, StateKept
<1>10. ImportsLinked'
  <2>1. ASSUME NEW n \in Nodes, IsImport(n) PROVE symbol'[n] = symbol[n]
    <3>1. n # Here
      BY <1>1, <2>1 DEF IsImport, IsDecl
    <3>2. n \notin others
      <4>1. ASSUME n \in others PROVE FALSE
        <5>1. n = Target /\ This.to \in Modules
          BY <1>3, <4>1
        <5>2. IsDecl(n)
          BY <1>1, <5>1, ReadyHas, TargetType DEF IsDecl, Target, Stmt
        <5> QED
          BY <2>1, <5>2 DEF IsImport, IsDecl
      <4> QED
        BY <4>1
    <3> QED
      BY <1>4, <3>1, <3>2
  <2> QED
    BY <1>1, <1>6, <1>8, <1>9, <2>1, ImportsKept
<1>11. Complete'
  <2>1. \A n \in Nodes : ~(Begun(n[1])' /\ ~Begun(n[1]))
    BY <1>4 DEF Begun
  <2> QED
    BY <1>1, <1>5, <1>6, <2>1, ReadyHas, CompleteStays
<1>12. PoisonExplained'
  BY <1>8, FinishTroubles, ReadyHas, PoisonFollows DEF Troubling
<1>13. TestsWait' /\ RootBegun'
  BY <1>1, ReadyHas, TestsStay, RootStays
<1> QED
  BY <1>8, <1>9, <1>10, <1>11, <1>12, <1>13, ProgressIs


-----------------------------------------------------------------------------
(* Between passes                                                           *)

LEMMA TurnsEmpty ==
    ASSUME stack = <<>>
    PROVE  /\ Turns(stack, {}, {})
           /\ \A g : Turns(Append(stack, g), {}, {g})
<1>1. Len(stack) = 0 /\ DOMAIN stack = {}
  OBVIOUS
<1>2. \A g : DOMAIN Append(stack, g) = {1} /\ Append(stack, g)[1] = g
  <2> SUFFICES ASSUME NEW g PROVE DOMAIN Append(stack, g) = {1} /\ Append(stack, g)[1] = g
    OBVIOUS
  <2>1. <<>> \in Seq({g}) /\ Append(<<>>, g) = <<g>>
    OBVIOUS
  <2> QED
    BY <2>1
<1> QED
  BY <1>1, <1>2 DEF Turns

\* A root is decided: no statement and no pass is affected.
LEMMA ProgressReturns ==
    ASSUME Ready, stack = <<>>, phase' = "load",
           UNCHANGED <<program, stack, linked, collected, symbol, deferred, pending>>,
           CollectedOnce', ErrorsStay,
           \A m \in Modules : (Begun(m)' => Begun(m)) /\ (state'[m] = "parsed" => state[m] = "parsed")
    PROVE  Progress'
<1>1. Turns(stack', {}, {})
  BY TurnsEmpty
<1>2. StepFits({}, {})
  BY <1>1 DEF StepFits
<1>3. PassesKnown' /\ TroubleStays
  BY <1>2, ReadyHas, FitPasses
<1>4. TestsWait' /\ LinksAreImports'
  BY ReadyHas, TestsStay, LinksStay
<1>5. ImportsLinked'
  BY <1>1, <1>3, ReadyHas, ImportsFollow
<1>6. ~Running({"declare"}, "entered")
  BY DEF Running
<1>7. Complete'
  <2>1. \A n \in Nodes : n[1] \in Modules
    BY DEF Nodes
  <2>2. \A n \in Nodes : ~(Begun(n[1])' /\ ~Begun(n[1]))
    BY <2>1
  <2> QED
    BY <1>1, <1>6, <2>2, ReadyHas, CompleteStays
<1>8. PoisonExplained'
  BY <1>3, ReadyHas, PoisonFollows
<1>9. RootBegun'
  BY DEF RootBegun
<1> QED
  BY <1>3, <1>4, <1>5, <1>7, <1>8, <1>9, ProgressIs

LEMMA ProgressDecides ==
    ASSUME Ready, RejectUnparsed \/ ReturnCancelled \/ Reject \/ RejectEmitted \/ Lower
    PROVE  Progress'
<1>1. /\ stack = <<>> /\ roots # <<>> /\ phase' = "load"
      /\ UNCHANGED <<program, stack, linked, collected, symbol, deferred, pending>>
  BY DEF RejectUnparsed, ReturnCancelled, Reject, RejectEmitted, Lower, At, Return
<1>2. PICK m \in Modules : m = Root
  BY <1>1, ReadyHas, RootType
<1>3. state \in [Modules -> States]
  BY ReadyHas DEF TypeInv, TypeOK
<1>4. CASE state' = state
  <2>1. CollectedOnce' /\ ErrorsStay
    BY <1>1, <1>4, ReadyHas DEF CollectedOnce, ErrorsStay, IsErrored
  <2> QED
    BY <1>1, <1>4, <2>1, ProgressReturns DEF Begun
<1>5. CASE RejectUnparsed
  <2>1. \A l \in Modules : state'[l] = IF l = m THEN "errored" ELSE state[l]
    BY <1>2, <1>3, <1>5 DEF RejectUnparsed
  <2>2. LoadedState(m) = "errored"
    BY <1>2, <1>5 DEF RejectUnparsed
  <2>3. state[m] \in {"unloaded", "errored"} /\ program[m].syntaxError
    BY <2>2, ReadyHas DEF LoadedState, CollectedOnce, IsErrored
  <2>4. CollectedOnce' /\ ErrorsStay
    BY <1>1, <2>1, <2>3, ReadyHas DEF CollectedOnce, ErrorsStay, IsErrored
  <2>5. \A l \in Modules : (Begun(l)' => Begun(l)) /\ (state'[l] = "parsed" => state[l] = "parsed")
    BY <2>1 DEF Begun
  <2> QED
    BY <1>1, <2>4, <2>5, ProgressReturns
<1>6. CASE RejectEmitted
  <2>1. \A l \in Modules : state'[l] = IF l = m THEN "poisonedResolved" ELSE state[l]
    BY <1>2, <1>3, <1>6 DEF RejectEmitted
  <2>2. Begun(m)
    BY <1>2, <1>6, ReadyHas DEF RejectEmitted, At, RootBegun
  <2>3. CollectedOnce' /\ ErrorsStay
    BY <1>1, <2>1, <2>2, ReadyHas DEF CollectedOnce, ErrorsStay, IsErrored, Begun
  <2>4. \A l \in Modules : (Begun(l)' => Begun(l)) /\ (state'[l] = "parsed" => state[l] = "parsed")
    BY <2>1, <2>2 DEF Begun
  <2> QED
    BY <1>1, <2>3, <2>4, ProgressReturns
<1> QED
  BY <1>4, <1>5, <1>6 DEF ReturnCancelled, Reject, Lower

LEMMA ProgressCollectRoot ==
    ASSUME Ready, CollectRoot
    PROVE  Progress'
<1>0. /\ stack = <<>> /\ roots # <<>> /\ phase' = "resolve"
      /\ UNCHANGED <<program, roots, linked, symbol, deferred, pending>>
  BY DEF CollectRoot, At
<1>1. PICK m \in Modules : m = Root
  BY <1>0, ReadyHas, RootType
<1>2. PICK st : st = IF LoadedState(m) = "errored" THEN "parsed" ELSE LoadedState(m)
  OBVIOUS
<1>3. PICK diags \in SUBSET Diagnostics : diags = leftover
  BY ReadyHas DEF TypeInv, TypeOK
<1>4. CallCollect(stack, m, st, diags)
  BY <1>1, <1>2, <1>3 DEF CollectRoot
<1>5. PICK below : below = stack
  OBVIOUS
<1>6. CallCollect(below, m, st, diags)
  BY <1>4, <1>5
<1>7. st = LoadedState(m) \/ (LoadedState(m) = "errored" /\ st = "parsed" /\ Tolerant)
  BY <1>1, <1>2 DEF CollectRoot
<1> DEFINE collects == st = "parsed" /\ m \notin collected
<1>8. /\ CollectedOnce' /\ ErrorsStay
      /\ \A l \in Modules :
                /\ state'[l] = "parsed" => state[l] = "parsed" \/ (l = m /\ collects)
                /\ l \in collected' => l \in collected \/ (l = m /\ collects)
                /\ Begun(l)' => Begun(l)
  BY <1>0, <1>6, <1>7, ReadyHas, CollectedByCall
<1>9. PICK g \in Frames : g = [pass |-> "collect", mod |-> m, todo |-> Body(m), at |-> "next", diags |-> diags]
  BY ReadyHas, BodyType DEF Frames
<1>10. g.pass = "collect" /\ g.mod = m /\ g.todo = Body(m) /\ g.at = "next"
  BY <1>9
<1>11. stack' = IF collects THEN Append(stack, g) ELSE stack
  BY <1>4, <1>9 DEF CallCollect
<1> HIDE DEF collects
<1>12. PICK calls : calls = IF collects THEN {g} ELSE {}
  OBVIOUS
<1>13. Turns(stack', {}, calls)
  BY <1>0, <1>11, <1>12, TurnsEmpty
<1>14. Aimed(g)'
  BY <1>10 DEF Aimed
<1>15. StepFits({}, calls)
  BY <1>0, <1>8, <1>10, <1>12, <1>13, <1>14 DEF StepFits
<1>16. PassesKnown' /\ TroubleStays
  BY <1>15, ReadyHas, FitPasses
<1>17. TestsWait' /\ LinksAreImports'
  BY <1>0, ReadyHas, TestsStay, LinksStay
<1>18. ImportsLinked'
  <2>1. ASSUME NEW n \in Nodes, IsImport(n), n[1] \in collected', n[1] \notin collected
        PROVE  \E h \in calls : WillCollect(h, n)
    <3>1. n[1] = m /\ collects
      BY <1>8, <2>1 DEF Nodes
    <3>2. Holds(g, n)
      BY <1>10, <2>1, <3>1, ReadyHas, BodyHolds DEF IsImport
    <3> QED
      BY <1>10, <1>12, <3>1, <3>2 DEF WillCollect
  <2> QED
    BY <1>0, <1>8, <1>13, <1>16, <2>1, ReadyHas, ImportsFollow
<1>19. Complete'
  <2>1. \A n \in Nodes : n[1] \in Modules
    BY DEF Nodes
  <2>2. \A n \in Nodes : ~(Begun(n[1])' /\ ~Begun(n[1]))
    BY <1>8, <2>1
  <2>3. ~Running({"declare"}, "entered")
    BY <1>0 DEF Running
  <2> QED
    BY <1>0, <1>13, <2>2, <2>3, ReadyHas, CompleteStays
<1>20. PoisonExplained'
  BY <1>0, <1>16, ReadyHas, PoisonFollows
<1>21. RootBegun'
  <2>1. m \in collected'
    <3>1. st = "parsed" => m \in collected'
      BY <1>4 DEF CallCollect
    <3>2. st # "parsed" => st = state[m] /\ st \notin {"unloaded", "errored"}
      BY <1>2 DEF LoadedState
    <3>3. st # "parsed" => m \in collected
      BY <3>2, ReadyHas DEF CollectedOnce
    <3> QED
      BY <3>1, <3>3, ReadyHas DEF Onward
  <2>2. Root' = m /\ roots' # <<>>
    BY <1>0, <1>1 DEF Root
  <2> QED
    BY <1>0, <2>1, <2>2 DEF RootBegun
<1> QED
  BY <1>8, <1>16, <1>17, <1>18, <1>19, <1>20, <1>21, ProgressIs

LEMMA ProgressResolveRoot ==
    ASSUME Ready, ResolveRoot
    PROVE  Progress'
<1>0. /\ stack = <<>> /\ roots # <<>> /\ phase = "resolve" /\ phase' = "decide"
      /\ UNCHANGED <<program, roots, linked, collected, symbol, deferred, pending>>
  BY DEF ResolveRoot, At
<1>1. PICK m \in Modules : m = Root /\ m \in collected
  BY <1>0, ReadyHas, RootType DEF RootBegun
<1>2. PICK diags \in SUBSET Diagnostics : diags = leftover
  BY ReadyHas DEF TypeInv, TypeOK
<1>3. CallResolve(stack, m, diags)
  BY <1>1, <1>2 DEF ResolveRoot
<1>4. PICK below : below = stack /\ CallResolve(below, m, diags)
  BY <1>3
<1>5. IsResolvable(m) \/ Begun(m)
  BY <1>0, <1>1, NoneCollects
<1>6. /\ Begun(m)'
      /\ \A l \in Modules : state'[l] = state[l] \/ (l \in collected /\ Begun(l)')
      /\ \E calls :
            /\ Turns(stack', {}, calls) /\ StepFits({}, calls)
            /\ \A k \in Nodes : k[2] \in DOMAIN program[k[1]].body /\ Begun(k[1])' /\ ~Begun(k[1]) =>
                    \E g \in calls : WillResolve(g, k)
  <2>1. CASE IsResolvable(m)
    <3>1. /\ Begun(m)' /\ m \in collected
          /\ \A l \in Modules : l # m => state'[l] = state[l]
      BY <1>4, <2>1, CallBegins
    <3>2. PICK g \in Frames : /\ g.pass = "resolve" /\ g.mod = m /\ g.todo = Body(m) /\ g.at = "next"
                             /\ stack' = Append(below, g)
      BY <1>4, <2>1, CallBegins
    <3>3. Aimed(g)'
      BY <3>1, <3>2 DEF Aimed
    <3>4. \A l \in Modules : state'[l] = "parsed" => state[l] = "parsed"
      BY <3>1 DEF Begun
    <3>5. Turns(stack', {}, {g})
      BY <1>0, <1>4, <3>2, TurnsEmpty
    <3>6. StepFits({}, {g})
      BY <1>0, <3>2, <3>3, <3>4, <3>5 DEF StepFits
    <3>7. ASSUME NEW k \in Nodes, k[2] \in DOMAIN program[k[1]].body, Begun(k[1])', ~Begun(k[1])
          PROVE  WillResolve(g, k)
      <4>1. k[1] \in Modules
        BY DEF Nodes
      <4>2. k[1] = m
        BY <3>1, <3>7, <4>1 DEF Begun
      <4>3. Holds(g, k)
        BY <3>2, <3>7, <4>2, ReadyHas, BodyHolds
      <4> QED
        BY <3>2, <4>3 DEF WillResolve
    <3>8. \A l \in Modules : state'[l] = state[l] \/ (l \in collected /\ Begun(l)')
      BY <3>1
    <3> QED
      BY <3>1, <3>5, <3>6, <3>7, <3>8
  <2>2. CASE ~IsResolvable(m)
    <3>1. state' = state /\ stack' = stack
      BY <1>4, <2>2 DEF CallResolve
    <3>2. Begun(m)'
      BY <1>5, <2>2, <3>1 DEF Begun
    <3>3. Turns(stack', {}, {})
      BY <1>0, <3>1, TurnsEmpty
    <3>4. StepFits({}, {})
      BY <1>0, <3>1, <3>3 DEF StepFits
    <3>5. \A k \in Nodes : ~(Begun(k[1])' /\ ~Begun(k[1]))
      BY <3>1 DEF Begun
    <3> QED
      BY <3>1, <3>2, <3>3, <3>4, <3>5
  <2> QED
    BY <2>1, <2>2
<1>7. PICK calls :
            /\ Turns(stack', {}, calls) /\ StepFits({}, calls)
            /\ \A k \in Nodes : k[2] \in DOMAIN program[k[1]].body /\ Begun(k[1])' /\ ~Begun(k[1]) =>
                    \E g \in calls : WillResolve(g, k)
  BY <1>6
<1>8. PassesKnown' /\ TroubleStays
  BY <1>7, ReadyHas, FitPasses
<1>9. CollectedOnce' /\ ErrorsStay /\ LinksAreImports'
  BY <1>0, <1>6, StateKept
<1>10. ImportsLinked'
  BY <1>0, <1>7, <1>8, <1>9, ImportsKept
<1>11. Complete'
  <2>1. ~Running({"declare"}, "entered")
    BY <1>0 DEF Running
  <2> QED
    BY <1>0, <1>7, <2>1, ReadyHas, CompleteStays
<1>12. PoisonExplained'
  BY <1>0, <1>8, ReadyHas, PoisonFollows
<1>13. TestsWait'
  BY <1>0, ReadyHas, TestsStay
<1>14. RootBegun'
  <2>1. Root' = m /\ roots' # <<>>
    BY <1>0, <1>1 DEF Root
  <2> QED
    BY <1>0, <1>6, <2>1 DEF RootBegun, Begun
<1> QED
  BY <1>8, <1>9, <1>10, <1>11, <1>12, <1>13, <1>14, ProgressIs


-----------------------------------------------------------------------------
(* Every step                                                               *)

LEMMA ProgressStays ==
    ASSUME Progress, UNCHANGED vars
    PROVE  Progress'
<1>1. /\ CollectedOnce' /\ CollectsParsed'
  BY DEF Progress, vars, CollectedOnce, CollectsParsed, IsErrored
<1>2. FramesAimed'
  <2> SUFFICES ASSUME NEW k \in DOMAIN stack', NEW h, h = stack'[k] PROVE Aimed(h)'
    BY DEF FramesAimed, Aimed, Current, Stmt, Begun, Links
  <2>1. Aimed(h)
    BY DEF Progress, FramesAimed, vars
  <2>2. UNCHANGED <<program, state>> /\ LinkedGraph' = LinkedGraph
    BY DEF vars, LinkedGraph, Stmt
  <2> QED
    BY <2>1, <2>2 DEF Aimed, Current, Stmt, Begun, Links
<1>3. TestsWait' /\ LinksAreImports'
  BY DEF Progress, vars, TestsWait, LinksAreImports, Stmt, Begun, IsImport, To
<1>4. \A m : Troubled(m)' <=> Troubled(m)
  BY DEF vars, Troubled, IsPoisoned, Carries
<1>5. ImportsLinked'
  BY <1>4 DEF Progress, vars, ImportsLinked, IsImport, Excused, Stmt, To, IsErrored
<1>6. Complete'
  BY DEF Progress, vars, Complete, IsSeen, Begun, Ahead, Dealt, Running, Top, Here, IsDecl, To, Stmt
<1>7. LinkedGraph' = LinkedGraph
  BY DEF vars, LinkedGraph, Stmt
<1>8. PassesLead' /\ DeclaredAtHome'
  BY <1>7 DEF Progress, vars, PassesLead, DeclaredAtHome, LeadsTo
<1>9. PoisonExplained'
  BY <1>4, <1>7 DEF Progress, vars, PoisonExplained, IsDecl, To, Stmt, LeadsTo
<1>10. RootBegun'
  BY DEF Progress, vars, RootBegun, Root, Begun
<1> QED
  BY <1>1, <1>2, <1>3, <1>5, <1>6, <1>8, <1>9, <1>10 DEF Progress

LEMMA ProgressInit == Init => Progress
<1> SUFFICES ASSUME Init PROVE Progress
  OBVIOUS
<1>1. /\ stack = <<>> /\ collected = {} /\ linked = {} /\ pending = <<>> /\ phase = "load"
      /\ \A m \in Modules : state[m] = "unloaded" /\ deferred[m] = <<>>
      /\ \A n \in Nodes : symbol[n] = "unresolved"
  BY DEF Init
<1>2. \A n \in Nodes : n[1] \in Modules
  BY DEF Nodes
<1>3. CollectedOnce /\ CollectsParsed /\ FramesAimed /\ TestsWait /\ LinksAreImports
  BY <1>1 DEF CollectedOnce, CollectsParsed, FramesAimed, TestsWait, LinksAreImports, IsErrored
<1>4. ImportsLinked /\ Complete
  BY <1>1, <1>2 DEF ImportsLinked, Complete, Begun
<1>5. PassesLead /\ DeclaredAtHome /\ PoisonExplained /\ RootBegun
  BY <1>1 DEF PassesLead, DeclaredAtHome, PoisonExplained, RootBegun
<1> QED
  BY <1>3, <1>4, <1>5 DEF Progress

LEMMA ProgressNext ==
    TypeInv /\ StackShape /\ FailureInv /\ HalfDoneIsUnderWay /\ ProgressInv /\ [Next]_vars
        => ProgressInv'
<1> SUFFICES ASSUME TypeInv, StackShape, FailureInv, HalfDoneIsUnderWay, ProgressInv, [Next]_vars
             PROVE  ProgressInv'
  OBVIOUS
<1>1. TypeInv' /\ Onward /\ FailuresAreKept
  BY TypeInvNext, OnwardNext, FailureNext DEF FailureInv
<1>2. CASE cancelled
  <2>1. cancelled'
    BY <1>2 DEF Next, Analyzer, Collecting, ResolvingStep, Tests, Declaring, Analyzing, Cancel, vars,
         CollectDecl, CollectMissingImport, CollectImport, LinkImport, EndCollect,
         PutOffTest, ResolveImport, AfterImport, ResolveDecl, EndResolve,
         StartTests, EndTests, EndDraining,
         EnterDecl, FinishLiteral, FinishUndeclared, FinishPoisonedAlias, AwaitModule,
         FinishPoisonedModule, FinishReference, FinishCycle, ResolveTarget, Finish,
         RejectUnparsed, CollectRoot, ResolveRoot, ReturnCancelled, Reject, RejectEmitted, Lower
  <2> QED
    BY <2>1 DEF ProgressInv
<1>3. CASE ~cancelled
  <2>1. Ready
    BY <1>1, <1>3 DEF Ready, Steps, ProgressInv, FailureInv
  <2>2. CASE Collecting
    BY <2>1, <2>2, ProgressCollects, ProgressCollectImport, ProgressEndCollect
       DEF Collecting, ProgressInv
  <2>3. CASE ResolvingStep
    BY <1>3, <2>1, <2>3, ProgressPutOffTest, ProgressResolveLinked, ProgressPassesOver,
       ProgressAfterImport, ProgressResolveDecl, ProgressEndResolve DEF ResolvingStep, ProgressInv
  <2>4. CASE Tests
    BY <1>3, <2>1, <2>4, ProgressStartTests, ProgressEnds DEF Tests, ProgressInv
  <2>5. CASE Declaring
    BY <2>1, <2>5, ProgressEnterDecl, ProgressAwaitModule, ProgressResolveTarget, ProgressFinishing
       DEF Declaring, Finishing, ProgressInv
  <2>6. CASE Analyzing
    BY <2>1, <2>6, ProgressDecides, ProgressCollectRoot, ProgressResolveRoot
       DEF Analyzing, ProgressInv
  <2>7. CASE Cancel
    BY <2>7 DEF Cancel, ProgressInv
  <2>8. CASE UNCHANGED vars
    BY <2>1, <2>8, ProgressStays DEF Ready, ProgressInv
  <2> QED
    BY <2>2, <2>3, <2>4, <2>5, <2>6, <2>7, <2>8 DEF Next, Analyzer
<1> QED
  BY <1>2, <1>3

LEMMA ProgressInvariant ==
    Spec => [](TypeInv /\ StackShape /\ FailureInv /\ HalfDoneIsUnderWay /\ ProgressInv)
<1>1. Init => ProgressInv
  BY ProgressInit DEF ProgressInv
<1>2. TypeInv /\ StackShape /\ FailureInv /\ HalfDoneIsUnderWay /\ ProgressInv /\ [Next]_vars
        => ProgressInv'
  BY ProgressNext
<1> QED
  BY <1>1, <1>2, FailureInvariant, UnderWayInvariant, PTL DEF Spec

-----------------------------------------------------------------------------
(* When a root is lowered                                                   *)

\* With no pass under way everything asked for has been done.
LEMMA NothingAhead ==
    ASSUME TypeInv, HalfDoneIsUnderWay, Progress, stack = <<>>
    PROVE  /\ \A n \in Nodes : ~Ahead(n) /\ symbol[n] # "resolving"
           /\ \A m \in Modules : Troubled(m) <=> IsPoisoned(m)
           /\ \A n \in Nodes : IsImport(n) /\ n[1] \in collected => n \in linked \/ symbol[n] = "poisoned"
<1>1. DOMAIN stack = {}
  OBVIOUS
<1>2. \A n \in Nodes : symbol[n] # "resolving"
  BY <1>1 DEF HalfDoneIsUnderWay, SymbolsUnderWay, Declares
<1>3. pending = <<>>
  BY <1>1 DEF HalfDoneIsUnderWay, QueueUnderWay, WillDrain
<1>4. \A m \in Modules : deferred[m] = <<>>
  BY <1>1, <1>3 DEF HalfDoneIsUnderWay, TestsUnderWay, Queued, Resolves
<1>5. \A n \in Nodes : ~Ahead(n)
  BY <1>1, <1>4 DEF Ahead, Running, Nodes
<1> QED
  BY <1>1, <1>2, <1>5 DEF Progress, Troubled, ImportsLinked

LEMMA LoweredWhen ==
    ASSUME TypeInv, [Next]_vars, NEW r \in Modules, outcome[r] # "lowered", outcome'[r] = "lowered"
    PROVE  Lower /\ r = Root /\ (Tolerant \/ ~AnyErrored)
<1>1. outcome' # outcome
  OBVIOUS
<1>2. RejectUnparsed \/ ReturnCancelled \/ Reject \/ RejectEmitted \/ Lower
  BY <1>1 DEF Next, Analyzer, Collecting, ResolvingStep, Tests, Declaring, Analyzing, Cancel, vars,
         CollectDecl, CollectMissingImport, CollectImport, LinkImport, EndCollect,
         PutOffTest, ResolveImport, AfterImport, ResolveDecl, EndResolve,
         StartTests, EndTests, EndDraining,
         EnterDecl, FinishLiteral, FinishUndeclared, FinishPoisonedAlias, AwaitModule,
         FinishPoisonedModule, FinishReference, FinishCycle, ResolveTarget, Finish,
         CollectRoot, ResolveRoot
<1>3. PICK result : /\ outcome' = [outcome EXCEPT ![Root] = result]
                    /\ result = "lowered" => Lower /\ (Tolerant \/ ~AnyErrored)
  BY <1>2 DEF RejectUnparsed, ReturnCancelled, Reject, RejectEmitted, Lower, Return
<1>4. r = Root /\ result = "lowered"
  BY <1>3 DEF TypeInv, TypeOK
<1> QED
  BY <1>3, <1>4

LEMMA LoweredSoundly ==
    ASSUME TypeInv, HalfDoneIsUnderWay, ProgressInv, [Next]_vars,
           NEW r \in Modules, outcome[r] # "lowered", outcome'[r] = "lowered",
           NEW m \in Scope(r)
    PROVE  IsSound(m)
<1>1. Lower /\ r = Root /\ (Tolerant \/ ~AnyErrored)
  BY LoweredWhen
<1>2. /\ stack = <<>> /\ phase = "decide" /\ ~cancelled
      /\ ~IsPoisoned(Root) /\ ~ReachesFailed(Root)
  BY <1>1 DEF Lower, At
<1>3. Progress
  BY <1>2 DEF ProgressInv
<1>4. /\ \A n \in Nodes : ~Ahead(n) /\ symbol[n] # "resolving"
      /\ \A x \in Modules : Troubled(x) <=> IsPoisoned(x)
      /\ \A n \in Nodes : IsImport(n) /\ n[1] \in collected => n \in linked \/ symbol[n] = "poisoned"
  BY <1>2, <1>3, NothingAhead
<1> DEFINE S == {x \in Modules : Begun(x) /\ LeadsTo(r, x)}
<1>5. r \in S
  BY <1>1, <1>2, <1>3, ReachesItself DEF Progress, RootBegun, LeadsTo
<1>6. \A x \in Modules : LeadsTo(r, x) => ~IsPoisoned(x) /\ ~IsErrored(x)
  BY <1>1, <1>2 DEF ReachesFailed, LeadsTo
<1>7. \A x \in Modules : Begun(x) => x \in collected
  BY <1>3 DEF Progress, CollectedOnce, Begun
<1>8. ASSUME NEW x \in S, NEW i \in DOMAIN program[x].body
      PROVE  /\ <<x, i>> \in Nodes
             /\ Stmt(x, i).kind = "import" =>
                   \/ <<x, i>> \in linked /\ Stmt(x, i).to \in collected
                   \/ /\ Stmt(x, i).test /\ Stmt(x, i).to \in Modules
                      /\ program[Stmt(x, i).to].syntaxError
                      /\ Tolerant \/ IsErrored(Stmt(x, i).to)
  <2>0. PICK n : n = <<x, i>>
    OBVIOUS
  <2>1. n = <<x, i>> /\ n[1] = x /\ n[2] = i
    BY <2>0
  <2>2. n \in Nodes
    BY <2>1, BodyIndices DEF Nodes
  <2>3. ASSUME Stmt(x, i).kind = "import", n \in linked PROVE Stmt(x, i).to \in collected
    BY <1>3, <2>1, <2>3 DEF Progress, LinksAreImports, To
  <2>4. ASSUME Stmt(x, i).kind = "import", n \notin linked PROVE Excused(n)
    <3>1. IsImport(n)
      BY <2>1, <2>4 DEF IsImport
    <3>2. symbol[n] = "poisoned"
      BY <1>4, <1>7, <2>1, <2>2, <2>4, <3>1
    <3>3. ~Troubled(x)
      BY <1>4, <1>6
    <3> QED
      BY <1>3, <2>1, <2>2, <3>1, <3>2, <3>3 DEF Progress, ImportsLinked
  <2> QED
    BY <2>1, <2>2, <2>3, <2>4 DEF Excused, To
<1>9. ASSUME NEW e \in SourceGraph.edge, e[1] \in S PROVE e[2] \in S
  <2>1. PICK x \in S, y \in Modules : x = e[1] /\ y = e[2]
    BY <1>9 DEF SourceGraph
  <2>2. PICK i \in DOMAIN program[x].body :
            /\ IsSeen(x, i) /\ ~IsTolerated(x, i)
            /\ Stmt(x, i).kind = "import" /\ Stmt(x, i).to = y
    BY <2>1 DEF SourceGraph
  <2>0. PICK n : n = <<x, i>>
    OBVIOUS
  <2>3. n = <<x, i>> /\ n[1] = x /\ n[2] = i
    BY <2>0
  <2>4. ~IsErrored(y) \/ Tolerant
    BY <1>1 DEF AnyErrored
  <2>5. n \in linked /\ n \in Nodes
    BY <1>8, <2>2, <2>3, <2>4 DEF IsTolerated
  <2>6. Begun(y)
    <3>1. Dealt(n)
      BY <1>3, <1>4, <2>2, <2>3, <2>5 DEF Progress, Complete
    <3>2. ~IsDecl(n) /\ To(n) = y
      BY <2>2, <2>3 DEF IsDecl, To
    <3> QED
      BY <2>5, <3>1, <3>2 DEF Dealt
  <2>7. LeadsTo(x, y)
    <3>1. <<n[1], Stmt(n[1], n[2]).to>> \in LinkedGraph.edge
      BY <2>5 DEF LinkedGraph
    <3>2. <<x, y>> \in LinkedGraph.edge
      BY <2>2, <2>3, <3>1
    <3> QED
      BY <3>2, ReachesEdge DEF LeadsTo
  <2>8. LeadsTo(r, y)
    BY <2>7, ReachesThrough DEF LeadsTo
  <2> QED
    BY <2>1, <2>6, <2>8
<1>10. m \in S
  <2>1. m \in Modules /\ Reaches(SourceGraph, r, m)
    BY DEF Scope
  <2>2. S \in SUBSET SourceGraph.node
    BY DEF SourceGraph
  <2>3. PICK T : T = S
    OBVIOUS
  <2>4. \A e \in SourceGraph.edge : e[1] \in T => e[2] \in T
    BY <1>9, <2>3
  <2>5. m \in T
    BY <1>5, <2>1, <2>2, <2>3, <2>4 DEF Reaches
  <2> QED
    BY <2>3, <2>5
<1>11. ~IsErrored(m)
  BY <1>6, <1>10
<1>12. ASSUME NEW i \in DOMAIN program[m].body, Stmt(m, i).kind = "import"
       PROVE  Stmt(m, i).to # NoFile
  BY <1>8, <1>10, <1>12, NamesAssumption DEF TypeInv, TypeOK
<1>13. ASSUME NEW i \in DOMAIN program[m].body, Stmt(m, i).kind = "decl", IsSeen(m, i)
       PROVE  Stmt(m, i).to # Undeclared /\ symbol[<<m, i>>] = "resolved"
  <2>1. PICK n \in Nodes : n = <<m, i>> /\ n[1] = m /\ n[2] = i
    BY <1>8, <1>10
  <2>2. IsDecl(n) /\ Begun(m) /\ To(n) = Stmt(m, i).to
    BY <1>10, <1>13, <2>1 DEF IsDecl, To
  <2>3. symbol[n] # "unresolved"
    BY <1>3, <1>4, <1>13, <2>1, <2>2 DEF Progress, Complete, Dealt
  <2>4. symbol[n] # "poisoned"
    <3>1. ASSUME symbol[n] = "poisoned" PROVE FALSE
      <4>1. PICK x \in Modules : LeadsTo(m, x) /\ Troubled(x)
        BY <1>3, <2>1, <2>2, <3>1 DEF Progress, PoisonExplained
      <4>2. LeadsTo(r, x)
        BY <1>10, <4>1, ReachesThrough DEF LeadsTo
      <4> QED
        BY <1>4, <1>6, <4>1, <4>2
    <3> QED
      BY <3>1
  <2>5. symbol[n] \in Statuses
    BY DEF TypeInv, TypeOK
  <2>6. symbol[n] = "resolved"
    BY <1>4, <2>3, <2>4, <2>5 DEF Statuses
  <2> QED
    BY <1>3, <2>1, <2>2, <2>6 DEF Progress, PoisonExplained
<1> QED
  BY <1>11, <1>12, <1>13 DEF IsSound

\* A root is lowered only if every file it depends on parsed, is free of errors
\* and has every declaration resolved: whatever the files import and refer to,
\* whatever roots were analyzed before, and whenever the flag is set.
THEOREM LoweredRootsAreSound == Spec => LoweredIsSound
<1>1. TypeInv /\ HalfDoneIsUnderWay /\ ProgressInv /\ [Next]_vars
        => [\A r \in Modules : outcome[r] # "lowered" /\ outcome'[r] = "lowered" =>
                \A m \in Scope(r) : IsSound(m)]_vars
  BY LoweredSoundly
<1> QED
  BY <1>1, ProgressInvariant, PTL DEF Spec, LoweredIsSound

-----------------------------------------------------------------------------
(* What is left to do falls                                                 *)

\* The declaration a frame refers to.
Aim(f) == <<Current(f).to, Current(f).at>>

\* A declaration is entered once: it was called from a statement and is not under
\* way, or from a declaration that found it untouched; one that has called another
\* does not call it again.
EntersOnce ==
    \A k \in DOMAIN stack : stack[k].at = "entered" =>
        /\ k = Len(stack) /\ k > 1 /\ stack[k].pass = "declare"
        /\ \/ stack[k - 1].at = "next" /\ symbol[Place(stack[k])] # "resolving"
           \/ stack[k - 1].at = "looking" /\ symbol[Place(stack[k])] = "unresolved"
LooksOnce ==
    \A k \in DOMAIN stack : stack[k].at = "looking" =>
        /\ Aim(stack[k]) \in Nodes
        /\ \/ symbol[Aim(stack[k])] # "unresolved"
           \/ /\ k + 1 \in DOMAIN stack /\ stack[k + 1].at = "entered"
              /\ Place(stack[k + 1]) = Aim(stack[k])

\* What has a frame has begun, and has one frame only.
OwnersBegun ==
    \A k \in DOMAIN stack : stack[k].at # "entered" => Owner(stack[k]) \notin Untouched
OwnersOnce ==
    \A j, k \in DOMAIN stack :
        /\ stack[j].at # "entered" /\ stack[k].at # "entered"
        /\ Owner(stack[j]) = Owner(stack[k])
        => j = k

\* A module's tests are queued once, after its statements.
QueuedOnce ==
    /\ \A i, j \in DOMAIN pending : pending[i] = pending[j] => i = j
    /\ \A j \in DOMAIN pending : Begun(pending[j]) /\ ~Resolves(stack, pending[j])
\* It has no more of them than statements.
TestsFit ==
    /\ \A m \in Modules : Len(deferred[m]) <= Len(program[m].body)
    /\ \A k \in DOMAIN stack :
         stack[k].pass = "resolve" /\ stack[k].at # "draining" =>
            Len(deferred[stack[k].mod]) + Len(stack[k].todo) <= Len(program[stack[k].mod].body)

LeftInv == EntersOnce /\ LooksOnce /\ OwnersBegun /\ OwnersOnce /\ QueuedOnce /\ TestsFit

\* A step goes on with the pass on top, ends it, or begins a pass or a declaration.
Left(f) == FrameLeft(f, FALSE)
LeftEntering(f) == FrameLeft(f, TRUE)
Begins(f) ==
    /\ Owner(f) \in Untouched /\ Owner(f) \notin Untouched'
    /\ Left(f) < MostLeft(f.mod)
IsCalled(calls) == \E g \in calls : g.at = "entered"
AtMost(f, calls, n) ==
    Left(f) <= n /\ (IsCalled(calls) => LeftEntering(f) <= n)
StepCounts(tops, calls) ==
    /\ Turns(stack', tops, calls)
    /\ UNCHANGED program /\ Untouched' \subseteq Untouched /\ RootsLeft' <= RootsLeft
    /\ \A f \in tops :
         /\ f \in Frames /\ f.at # "entered"
         /\ \/ /\ Top.at # "entered" /\ Owner(f) = Owner(Top)
               /\ AtMost(f, calls, Left(Top))
            \/ Begins(f) /\ calls = {}
    /\ \A g \in calls : g \in Frames /\ (g.at = "entered" \/ Begins(g))
    /\ \/ RootsLeft' < RootsLeft /\ RootsLeft > 0
       \/ Untouched' # Untouched
       \/ /\ stack # <<>> /\ Top.at # "entered"
          /\ \A f \in tops : AtMost(f, calls, Left(Top) - 1)
       \/ /\ Running({"declare"}, "entered") /\ tops = {} /\ calls = {}
          /\ stack[Len(stack) - 1].at = "next"

LEMMA LeftTyped ==
    ASSUME NEW f \in Frames, NEW b \in BOOLEAN
    PROVE  /\ FrameLeft(f, b) \in Nat
           /\ FrameLeft(f, FALSE) <= FrameLeft(f, b)
           /\ f.at # "entered" => FrameLeft(f, b) > 0
           /\ f.at = "entered" => FrameLeft(f, b) = 0
<1>1. Len(f.todo) \in Nat
  BY DEF Frames
<1>2. FrameLeft(f, FALSE) \in Nat /\ FrameLeft(f, TRUE) \in Nat
  BY <1>1 DEF FrameLeft
<1>3. FrameLeft(f, FALSE) <= FrameLeft(f, TRUE)
  BY <1>1 DEF FrameLeft
<1>4. f.at # "entered" => FrameLeft(f, FALSE) > 0
  BY <1>1 DEF FrameLeft
<1>5. f.at = "entered" => FrameLeft(f, FALSE) = 0 /\ FrameLeft(f, TRUE) = 0
  BY DEF FrameLeft
<1>6. FrameLeft(f, b) \in {FrameLeft(f, FALSE), FrameLeft(f, TRUE)}
  <2>1. CASE b = TRUE
    BY <2>1, Zenon
  <2>2. CASE b = FALSE
    BY <2>2, Zenon
  <2> QED
    BY <2>1, <2>2
<1>7. PICK x, y, z : x = FrameLeft(f, FALSE) /\ y = FrameLeft(f, TRUE) /\ z = FrameLeft(f, b)
  OBVIOUS
<1>8. /\ x \in Nat /\ y \in Nat /\ x <= y /\ z \in {x, y}
      /\ f.at # "entered" => x > 0
      /\ f.at = "entered" => x = 0 /\ y = 0
  BY <1>2, <1>3, <1>4, <1>5, <1>6, <1>7, Zenon
<1>9. /\ z \in Nat /\ x <= z
      /\ f.at # "entered" => z > 0
      /\ f.at = "entered" => z = 0
  BY <1>8
<1> QED
  BY <1>7, <1>9, Zenon

LEMMA SameLeft ==
    ASSUME NEW f, NEW g, SameFrame(f, g)
    PROVE  Owner(f) = Owner(g) /\ Left(f) = Left(g) /\ Place(f) = Place(g)
BY DEF SameFrame, Owner, Left, FrameLeft, Place

LEMMA RootsTyped == TypeInv => RootsLeft \in Int
BY DEF TypeInv, TypeOK, RootsLeft
LEMMA NextRootsTyped == TypeInv' => RootsLeft' \in Int
BY DEF TypeInv, TypeOK, RootsLeft

LEMMA MostTyped ==
    ASSUME TypeInv, NEW m \in Modules
    PROVE  MostLeft(m) \in Nat
BY BodyIndices DEF MostLeft

LEMMA UntouchedCollect ==
    ASSUME NEW m
    PROVE  <<"collect", m, 0>> \in Untouched <=> m \in Modules \ collected
BY DEF Untouched
LEMMA UntouchedResolve ==
    ASSUME NEW m
    PROVE  <<"resolve", m, 0>> \in Untouched <=> m \in Modules /\ ~Begun(m)
BY DEF Untouched
LEMMA UntouchedTests ==
    ASSUME NEW m
    PROVE  <<"tests", m, 0>> \in Untouched
                <=> m \in Modules /\ (~Begun(m) \/ Resolves(stack, m) \/ Queued(m))
BY DEF Untouched
LEMMA UntouchedDeclare ==
    ASSUME NEW m, NEW i
    PROVE  <<"declare", m, i>> \in Untouched
                <=> <<m, i>> \in Declarations /\ symbol[<<m, i>>] = "unresolved"
<1> DEFINE yet == {d \in Declarations : symbol[d] = "unresolved"}
<1>1. <<"declare", m, i>> \in Untouched
        <=> \E n \in yet : <<"declare", m, i>> = <<"declare", n[1], n[2]>>
  BY DEF Untouched
<1>2. \A n \in Declarations : n = <<n[1], n[2]>>
  BY DEF Declarations, Nodes
<1>3. <<"declare", m, i>> \in Untouched => <<m, i>> \in yet
  BY <1>1, <1>2
<1>4. <<m, i>> \in yet => <<"declare", m, i>> \in Untouched
  <2> SUFFICES ASSUME <<m, i>> \in yet PROVE <<"declare", m, i>> \in Untouched
    OBVIOUS
  <2>1. PICK n \in yet : n = <<m, i>>
    OBVIOUS
  <2>2. <<"declare", m, i>> = <<"declare", n[1], n[2]>>
    BY <2>1
  <2> QED
    BY <1>1, <2>2
<1> QED
  BY <1>3, <1>4
LEMMA UntouchedModules == \A o \in Untouched : o[2] \in Modules /\ o[1] # "analyze"
<1> SUFFICES ASSUME NEW o \in Untouched PROVE o[2] \in Modules /\ o[1] # "analyze"
  OBVIOUS
<1>1. \/ \E m \in Modules : o \in {<<"collect", m, 0>>, <<"resolve", m, 0>>, <<"tests", m, 0>>}
      \/ \E n \in Declarations : o = <<"declare", n[1], n[2]>>
  BY DEF Untouched
<1>2. \A n \in Declarations : n[1] \in Modules
  BY DEF Declarations, Nodes
<1> QED
  BY <1>1, <1>2

\* What is left, of any stack.
WorkOf(s, untouched, left, p) ==
    ({<<"analyze", NoFile, 0>>} \X (1..left))
      \cup (UNION {{o} \X (1..(2 * Len(p[o[2]].body) + 4)) : o \in untouched})
      \cup (UNION {{Owner(s[k])} \X (1..LeftAt(s, k)) : k \in DOMAIN s})

LEMMA WorkIs == Work = WorkOf(stack, Untouched, RootsLeft, program)
BY DEF Work, WorkOf, MostLeft
LEMMA WorkIsNext == Work' = WorkOf(stack', Untouched', RootsLeft', program')
BY DEF Work, WorkOf, MostLeft, LeftAt, FrameLeft, Owner

LEMMA PiecesHas ==
    ASSUME NEW x, NEW S, NEW o, NEW j
    PROVE  <<o, j>> \in {x} \X S <=> o = x /\ j \in S
OBVIOUS
LEMMA WorkHas ==
    ASSUME NEW s, NEW untouched, NEW left, NEW p, NEW o, NEW j
    PROVE  <<o, j>> \in WorkOf(s, untouched, left, p) <=>
                \/ o = <<"analyze", NoFile, 0>> /\ j \in 1..left
                \/ o \in untouched /\ j \in 1..(2 * Len(p[o[2]].body) + 4)
                \/ \E k \in DOMAIN s : o = Owner(s[k]) /\ j \in 1..LeftAt(s, k)
<1>1. <<o, j>> \in UNION {{q} \X (1..(2 * Len(p[q[2]].body) + 4)) : q \in untouched}
        <=> \E q \in untouched : <<o, j>> \in {q} \X (1..(2 * Len(p[q[2]].body) + 4))
  OBVIOUS
<1>2. <<o, j>> \in UNION {{Owner(s[k])} \X (1..LeftAt(s, k)) : k \in DOMAIN s}
        <=> \E k \in DOMAIN s : <<o, j>> \in {Owner(s[k])} \X (1..LeftAt(s, k))
  BY Zenon
<1>3. \A q : <<o, j>> \in {q} \X (1..(2 * Len(p[q[2]].body) + 4))
                <=> o = q /\ j \in 1..(2 * Len(p[q[2]].body) + 4)
  BY PiecesHas
<1>4. \A k : <<o, j>> \in {Owner(s[k])} \X (1..LeftAt(s, k))
                <=> o = Owner(s[k]) /\ j \in 1..LeftAt(s, k)
  BY PiecesHas
<1>5. <<o, j>> \in {<<"analyze", NoFile, 0>>} \X (1..left) <=> o = <<"analyze", NoFile, 0>> /\ j \in 1..left
  BY PiecesHas
<1>6. <<o, j>> \in WorkOf(s, untouched, left, p) <=>
        \/ <<o, j>> \in {<<"analyze", NoFile, 0>>} \X (1..left)
        \/ <<o, j>> \in UNION {{q} \X (1..(2 * Len(p[q[2]].body) + 4)) : q \in untouched}
        \/ <<o, j>> \in UNION {{Owner(s[k])} \X (1..LeftAt(s, k)) : k \in DOMAIN s}
  BY Zenon DEF WorkOf
<1>7. <<o, j>> \in UNION {{q} \X (1..(2 * Len(p[q[2]].body) + 4)) : q \in untouched}
        <=> o \in untouched /\ j \in 1..(2 * Len(p[o[2]].body) + 4)
  BY <1>1, <1>3
<1>8. <<o, j>> \in UNION {{Owner(s[k])} \X (1..LeftAt(s, k)) : k \in DOMAIN s}
        <=> \E k \in DOMAIN s : o = Owner(s[k]) /\ j \in 1..LeftAt(s, k)
  BY <1>2, <1>4
<1> QED
  BY <1>5, <1>6, <1>7, <1>8
LEMMA WorkPairs ==
    ASSUME NEW s, NEW untouched, NEW left, NEW p
    PROVE  \A w \in WorkOf(s, untouched, left, p) : \E o, j : w = <<o, j>>
<1> SUFFICES ASSUME NEW w \in WorkOf(s, untouched, left, p) PROVE \E o, j : w = <<o, j>>
  OBVIOUS
<1>1. \A A, B : w \in A \X B => \E o, j : w = <<o, j>>
  OBVIOUS
<1>2. \/ w \in {<<"analyze", NoFile, 0>>} \X (1..left)
      \/ \E q \in untouched : w \in {q} \X (1..(2 * Len(p[q[2]].body) + 4))
      \/ \E k \in DOMAIN s : w \in {Owner(s[k])} \X (1..LeftAt(s, k))
  BY Zenon DEF WorkOf
<1> QED
  BY <1>1, <1>2, Zenon

LEMMA LeftAtCases ==
    ASSUME NEW s \in Seq(Frames), NEW k \in DOMAIN s
    PROVE  /\ LeftAt(s, k) \in Nat /\ FrameLeft(s[k], FALSE) \in Nat
           /\ FrameLeft(s[k], FALSE) <= LeftAt(s, k)
           /\ s[k].at = "entered" => LeftAt(s, k) = 0
           /\ s[k].at # "entered" => FrameLeft(s[k], FALSE) > 0
           /\ LeftAt(s, k) = FrameLeft(s[k], FALSE)
                \/ (k + 1 = Len(s) /\ s[k + 1].at = "entered" /\ LeftAt(s, k) = FrameLeft(s[k], TRUE))
<1> DEFINE b == k + 1 = Len(s) /\ s[k + 1].at = "entered"
<1>1. b \in BOOLEAN /\ LeftAt(s, k) = FrameLeft(s[k], b)
  BY DEF LeftAt
<1>2. s[k] \in Frames
  OBVIOUS
<1>3. /\ FrameLeft(s[k], b) \in Nat /\ FrameLeft(s[k], FALSE) <= FrameLeft(s[k], b)
      /\ s[k].at = "entered" => FrameLeft(s[k], b) = 0
  BY <1>1, <1>2, LeftTyped
<1>4. FrameLeft(s[k], FALSE) \in Nat /\ (s[k].at # "entered" => FrameLeft(s[k], FALSE) > 0)
  BY <1>2, LeftTyped
<1>5. FrameLeft(s[k], b) = FrameLeft(s[k], FALSE) \/ (b /\ FrameLeft(s[k], b) = FrameLeft(s[k], TRUE))
  <2>1. CASE b = TRUE
    BY <2>1, Zenon
  <2>2. CASE b = FALSE
    BY <2>2, Zenon
  <2> QED
    BY <1>1, <2>1, <2>2
<1> HIDE DEF b
<1>6. PICK x, y, z : x = FrameLeft(s[k], b) /\ y = FrameLeft(s[k], FALSE) /\ z = FrameLeft(s[k], TRUE)
  OBVIOUS
<1>7. /\ x \in Nat /\ y <= x /\ y \in Nat /\ LeftAt(s, k) = x
      /\ s[k].at = "entered" => x = 0
      /\ s[k].at # "entered" => y > 0
      /\ x = y \/ (b /\ x = z)
  BY <1>1, <1>3, <1>4, <1>5, <1>6, Zenon
<1>8. b => k + 1 = Len(s) /\ s[k + 1].at = "entered"
  BY DEF b
<1> QED
  BY <1>6, <1>7, <1>8, Zenon
LEMMA LeftAtIs ==
    ASSUME NEW s \in Seq(Frames), NEW k \in DOMAIN s
    PROVE  /\ LeftAt(s, k) \in Nat /\ Left(s[k]) \in Nat
           /\ Left(s[k]) <= LeftAt(s, k)
           /\ s[k].at = "entered" => LeftAt(s, k) = 0
           /\ s[k].at # "entered" => Left(s[k]) > 0
           /\ LeftAt(s, k) = Left(s[k])
                \/ (k + 1 = Len(s) /\ s[k + 1].at = "entered" /\ LeftAt(s, k) = LeftEntering(s[k]))
BY LeftAtCases, Zenon DEF Left, LeftEntering

\* A step of which the counts are known.
Counted(tops, calls) ==
    TypeInv /\ TypeInv' /\ EntersOnce /\ OwnersBegun /\ OwnersOnce /\ StepCounts(tops, calls)

LEMMA NextStackIs ==
    ASSUME TypeInv'
    PROVE  stack' \in Seq(Frames) /\ Len(stack') \in Nat /\ DOMAIN stack' = 1..Len(stack')
<1>1. stack' \in Seq(Frames)
  BY DEF TypeInv, TypeOK
<1> QED
  BY <1>1

LEMMA HighestIs ==
    ASSUME NEW tops, NEW calls, Counted(tops, calls)
    PROVE  Len(stack') <= Len(stack) + 1
<1>1. TypeInv /\ TypeInv' /\ Turns(stack', tops, calls)
  BY DEF Counted, StepCounts
<1>2. stack' \in Seq(Frames) /\ Len(stack') \in Nat /\ DOMAIN stack' = 1..Len(stack')
  BY <1>1, NextStackIs
<1>3. Len(stack) \in Nat /\ DOMAIN stack = 1..Len(stack)
  BY <1>1, StackIs
<1>4. \A k \in DOMAIN stack' : k \in DOMAIN stack \/ k = Len(stack) \/ k = Len(stack) + 1
  BY <1>1 DEF Turns
<1> QED
  BY <1>2, <1>3, <1>4

\* A frame that waits, the one on top, and one that is called.
LEMMA WaitingCounts ==
    ASSUME NEW tops, NEW calls, Counted(tops, calls),
           NEW k \in DOMAIN stack', k \in DOMAIN stack, k < Len(stack)
    PROVE  /\ Owner(stack'[k]) = Owner(stack[k]) /\ stack[k].at # "entered"
           /\ LeftAt(stack', k) = Left(stack[k])
           /\ Left(stack[k]) <= LeftAt(stack, k)
<1>1. TypeInv /\ TypeInv' /\ Turns(stack', tops, calls) /\ EntersOnce /\ \A f \in tops : f.at # "entered"
  BY DEF Counted, StepCounts
<1>2. stack' \in Seq(Frames) /\ Len(stack') \in Nat /\ DOMAIN stack' = 1..Len(stack')
  BY <1>1, NextStackIs
<1>3. stack \in Seq(Frames) /\ Len(stack) \in Nat /\ DOMAIN stack = 1..Len(stack)
  BY <1>1, StackIs
<1>4. SameFrame(stack'[k], stack[k])
  BY <1>1, <1>3 DEF Turns
<1>5. stack[k].at # "entered"
  BY <1>3, <1>1 DEF EntersOnce
<1>6. ASSUME k + 1 = Len(stack'), stack'[k + 1].at = "entered" PROVE FALSE
  <2>1. k + 1 \in DOMAIN stack'
    BY <1>2, <1>6
  <2>2. \/ k + 1 \in DOMAIN stack /\ k + 1 < Len(stack) /\ SameFrame(stack'[k + 1], stack[k + 1])
        \/ stack # <<>> /\ k + 1 = Len(stack) /\ stack'[k + 1] \in tops
    BY <1>1, <1>2, <1>3, <2>1, TurnsFrom
  <2>3. \A j \in DOMAIN stack : stack[j].at = "entered" => j = Len(stack)
    BY <1>1 DEF EntersOnce
  <2> QED
    BY <1>1, <1>3, <1>6, <2>2, <2>3 DEF SameFrame
<1>7. LeftAt(stack', k) = Left(stack'[k])
  BY <1>2, <1>6, LeftAtIs
<1> QED
  BY <1>3, <1>4, <1>5, <1>7, LeftAtIs, SameLeft

LEMMA TopCounts ==
    ASSUME NEW tops, NEW calls, Counted(tops, calls), stack # <<>>,
           Len(stack) \in DOMAIN stack', stack'[Len(stack)] \in tops
    PROVE  /\ LeftAt(stack', Len(stack)) \in Nat
           /\ \A n \in Int : AtMost(stack'[Len(stack)], calls, n) => LeftAt(stack', Len(stack)) <= n
           /\ calls = {} => LeftAt(stack', Len(stack)) = Left(stack'[Len(stack)])
<1>1. TypeInv /\ TypeInv' /\ Turns(stack', tops, calls)
  BY DEF Counted, StepCounts
<1>2. stack' \in Seq(Frames) /\ Len(stack') \in Nat /\ DOMAIN stack' = 1..Len(stack')
  BY <1>1, NextStackIs
<1>3. stack \in Seq(Frames) /\ Len(stack) \in Nat /\ DOMAIN stack = 1..Len(stack)
  BY <1>1, StackIs
<1>4. PICK k : k = Len(stack) /\ k \in Nat /\ k \in DOMAIN stack'
  BY <1>3
<1>5. ASSUME k + 1 = Len(stack'), stack'[k + 1].at = "entered" PROVE IsCalled(calls) /\ calls # {}
  <2>1. k + 1 \in DOMAIN stack'
    BY <1>2, <1>4, <1>5
  <2>2. stack'[k + 1] \in calls
    BY <1>1, <1>2, <1>3, <1>4, <2>1, TurnsFrom
  <2> QED
    BY <1>5, <2>2 DEF IsCalled
<1>6. /\ LeftAt(stack', k) \in Nat
      /\ \/ LeftAt(stack', k) = Left(stack'[k])
         \/ IsCalled(calls) /\ calls # {} /\ LeftAt(stack', k) = LeftEntering(stack'[k])
  BY <1>2, <1>4, <1>5, LeftAtIs
<1>7. calls = {} => LeftAt(stack', k) = Left(stack'[k])
  BY <1>6
<1>8. \A n \in Int : AtMost(stack'[k], calls, n) => LeftAt(stack', k) <= n
  BY <1>6 DEF AtMost
<1> QED
  BY <1>4, <1>6, <1>7, <1>8

LEMMA CallCounts ==
    ASSUME NEW tops, NEW calls, Counted(tops, calls),
           Len(stack) + 1 \in DOMAIN stack', stack'[Len(stack) + 1] \in calls
    PROVE  /\ LeftAt(stack', Len(stack) + 1) = Left(stack'[Len(stack) + 1])
           /\ stack'[Len(stack) + 1].at = "entered" => LeftAt(stack', Len(stack) + 1) = 0
<1>1. TypeInv /\ TypeInv'
  BY DEF Counted
<1>2. stack' \in Seq(Frames) /\ Len(stack') \in Nat /\ Len(stack) \in Nat
  BY <1>1, NextStackIs, StackIs
<1>3. Len(stack') <= Len(stack) + 1
  BY HighestIs
<1>4. PICK k : k = Len(stack) + 1 /\ k \in DOMAIN stack' /\ k + 1 # Len(stack')
  BY <1>2, <1>3
<1>5. /\ LeftAt(stack', k) = Left(stack'[k])
      /\ stack'[k].at = "entered" => LeftAt(stack', k) = 0
  BY <1>2, <1>4, LeftAtIs
<1> QED
  BY <1>4, <1>5

LEMMA OwnerIs ==
    ASSUME NEW f \in Frames
    PROVE  Owner(f)[2] = f.mod /\ Owner(f)[1] = f.pass /\ Owner(f)[1] # "analyze" /\ f.mod \in Modules
BY DEF Owner, Frames

\* What a frame has left it had before, or its pass had not begun.
LEMMA FrameFalls ==
    ASSUME NEW tops, NEW calls, Counted(tops, calls), NEW k \in DOMAIN stack'
    PROVE  \/ LeftAt(stack', k) = 0
           \/ \E i \in DOMAIN stack : /\ Owner(stack'[k]) = Owner(stack[i])
                                      /\ LeftAt(stack', k) <= LeftAt(stack, i)
           \/ /\ Owner(stack'[k]) \in Untouched /\ Owner(stack'[k]) \notin Untouched'
              /\ LeftAt(stack', k) < MostLeft(Owner(stack'[k])[2])
<1>1. TypeInv /\ TypeInv' /\ Turns(stack', tops, calls)
  BY DEF Counted, StepCounts
<1>2. stack' \in Seq(Frames)
  BY <1>1, NextStackIs
<1>3. stack \in Seq(Frames) /\ Len(stack) \in Nat /\ DOMAIN stack = 1..Len(stack)
      /\ (stack # <<>> => Len(stack) \in DOMAIN stack /\ Top = stack[Len(stack)])
  BY <1>1, StackIs
<1>4. CASE k \in DOMAIN stack /\ k < Len(stack)
  <2>1. /\ Owner(stack'[k]) = Owner(stack[k])
        /\ LeftAt(stack', k) = Left(stack[k])
        /\ Left(stack[k]) <= LeftAt(stack, k)
    BY <1>4, WaitingCounts
  <2> QED
    BY <1>4, <2>1
<1>5. CASE stack # <<>> /\ k = Len(stack) /\ stack'[k] \in tops
  <2>1. PICK f \in Frames : f = stack'[k]
    BY <1>2
  <2>2. \/ Top.at # "entered" /\ Owner(f) = Owner(Top) /\ AtMost(f, calls, Left(Top))
        \/ Begins(f) /\ calls = {}
    BY <1>5, <2>1 DEF Counted, StepCounts
  <2>3. CASE Owner(f) = Owner(Top) /\ AtMost(f, calls, Left(Top))
    <3>1. Left(Top) \in Nat /\ Left(Top) <= LeftAt(stack, k) /\ LeftAt(stack, k) \in Nat
      BY <1>3, <1>5, LeftAtIs
    <3>2. /\ LeftAt(stack', k) \in Nat
          /\ \A n \in Int : AtMost(f, calls, n) => LeftAt(stack', k) <= n
      BY <1>5, <2>1, TopCounts
    <3>3. PICK n \in Nat : n = Left(Top)
      BY <3>1
    <3>4. LeftAt(stack', k) <= n
      BY <2>3, <3>2, <3>3
    <3>5. LeftAt(stack', k) <= LeftAt(stack, k)
      BY <3>1, <3>2, <3>3, <3>4
    <3> QED
      BY <1>3, <1>5, <2>1, <2>3, <3>5
  <2>4. CASE Begins(f) /\ calls = {}
    <3>1. LeftAt(stack', k) = Left(f)
      BY <1>5, <2>1, <2>4, TopCounts
    <3> QED
      BY <2>1, <2>4, <3>1, OwnerIs DEF Begins
  <2> QED
    BY <2>2, <2>3, <2>4
<1>6. CASE k = Len(stack) + 1 /\ stack'[k] \in calls
  <2>1. PICK f \in Frames : f = stack'[k]
    BY <1>2
  <2>2. /\ LeftAt(stack', k) = Left(f)
        /\ f.at = "entered" => LeftAt(stack', k) = 0
    BY <1>6, <2>1, CallCounts
  <2>3. f.at = "entered" \/ Begins(f)
    BY <1>6, <2>1 DEF Counted, StepCounts
  <2> QED
    BY <2>1, <2>2, <2>3, OwnerIs DEF Begins
<1> QED
  BY <1>1, <1>2, <1>4, <1>5, <1>6, TurnsFrom

LEMMA WorkIsIn ==
    ASSUME TypeInv, NEW o, NEW j
    PROVE  <<o, j>> \in Work <=>
                \/ o = <<"analyze", NoFile, 0>> /\ j \in 1..RootsLeft
                \/ o \in Untouched /\ j \in 1..MostLeft(o[2])
                \/ \E k \in DOMAIN stack : o = Owner(stack[k]) /\ j \in 1..LeftAt(stack, k)
<1>1. Work = WorkOf(stack, Untouched, RootsLeft, program)
  BY WorkIs
<1>2. 2 * Len(program[o[2]].body) + 4 = MostLeft(o[2])
  BY DEF MostLeft
<1>3. <<o, j>> \in WorkOf(stack, Untouched, RootsLeft, program) <=>
                \/ o = <<"analyze", NoFile, 0>> /\ j \in 1..RootsLeft
                \/ o \in Untouched /\ j \in 1..(2 * Len(program[o[2]].body) + 4)
                \/ \E k \in DOMAIN stack : o = Owner(stack[k]) /\ j \in 1..LeftAt(stack, k)
  BY WorkHas
<1> QED
  BY <1>1, <1>2, <1>3, Zenon
LEMMA WorkIsInNext ==
    ASSUME TypeInv', UNCHANGED program, NEW o, NEW j
    PROVE  <<o, j>> \in Work' <=>
                \/ o = <<"analyze", NoFile, 0>> /\ j \in 1..RootsLeft'
                \/ o \in Untouched' /\ j \in 1..MostLeft(o[2])
                \/ \E k \in DOMAIN stack' : o = Owner(stack'[k]) /\ j \in 1..LeftAt(stack', k)
<1>1. Work' = WorkOf(stack', Untouched', RootsLeft', program)
  BY WorkIsNext
<1>2. 2 * Len(program[o[2]].body) + 4 = MostLeft(o[2])
  BY DEF MostLeft
<1>3. <<o, j>> \in WorkOf(stack', Untouched', RootsLeft', program) <=>
                \/ o = <<"analyze", NoFile, 0>> /\ j \in 1..RootsLeft'
                \/ o \in Untouched' /\ j \in 1..(2 * Len(program[o[2]].body) + 4)
                \/ \E k \in DOMAIN stack' : o = Owner(stack'[k]) /\ j \in 1..LeftAt(stack', k)
  BY WorkHas
<1> QED
  BY <1>1, <1>2, <1>3, Zenon

LEMMA NoneIsMade ==
    ASSUME NEW tops, NEW calls, Counted(tops, calls)
    PROVE  Work' \subseteq Work
<1>0. /\ TypeInv /\ TypeInv' /\ UNCHANGED program /\ Untouched' \subseteq Untouched
      /\ RootsLeft' <= RootsLeft
  BY DEF Counted, StepCounts
<1>1. RootsLeft \in Int /\ RootsLeft' \in Int
  BY <1>0, RootsTyped, NextRootsTyped
<1> SUFFICES ASSUME NEW w \in Work' PROVE w \in Work
  OBVIOUS
<1>2. PICK o, j : w = <<o, j>>
  BY WorkIsNext, WorkPairs
<1>3. CASE o = <<"analyze", NoFile, 0>> /\ j \in 1..RootsLeft'
  <2>1. j \in 1..RootsLeft
    BY <1>0, <1>1, <1>3
  <2> QED
    BY <1>0, <1>2, <1>3, <2>1, WorkIsIn
<1>4. CASE o \in Untouched' /\ j \in 1..MostLeft(o[2])
  BY <1>0, <1>2, <1>4, WorkIsIn
<1>5. CASE \E k \in DOMAIN stack' : o = Owner(stack'[k]) /\ j \in 1..LeftAt(stack', k)
  <2>1. PICK k \in DOMAIN stack' : o = Owner(stack'[k]) /\ j \in 1..LeftAt(stack', k)
    BY <1>5
  <2>2. stack' \in Seq(Frames) /\ stack \in Seq(Frames)
    BY <1>0, NextStackIs, StackIs
  <2>3. LeftAt(stack', k) \in Nat
    BY <2>2, LeftAtIs
  <2>4. CASE LeftAt(stack', k) = 0
    BY <2>1, <2>4
  <2>5. CASE \E i \in DOMAIN stack : /\ Owner(stack'[k]) = Owner(stack[i])
                                     /\ LeftAt(stack', k) <= LeftAt(stack, i)
    <3>1. PICK i \in DOMAIN stack : /\ o = Owner(stack[i])
                                    /\ LeftAt(stack', k) <= LeftAt(stack, i)
      BY <2>1, <2>5
    <3>2. LeftAt(stack, i) \in Nat
      BY <2>2, LeftAtIs
    <3>3. j \in 1..LeftAt(stack, i)
      BY <2>1, <2>3, <3>1, <3>2
    <3> QED
      BY <1>0, <1>2, <3>1, <3>3, WorkIsIn
  <2>6. CASE /\ Owner(stack'[k]) \in Untouched
             /\ LeftAt(stack', k) < MostLeft(Owner(stack'[k])[2])
    <3>1. o \in Untouched /\ LeftAt(stack', k) < MostLeft(o[2])
      BY <2>1, <2>6
    <3>2. MostLeft(o[2]) \in Nat
      BY <1>0, <3>1, UntouchedModules, MostTyped
    <3>3. j \in 1..MostLeft(o[2])
      BY <2>1, <2>3, <3>1, <3>2
    <3> QED
      BY <1>0, <1>2, <3>1, <3>3, WorkIsIn
  <2> QED
    BY <2>4, <2>5, <2>6, FrameFalls
<1> QED
  BY <1>0, <1>2, <1>3, <1>4, <1>5, WorkIsInNext

\* A root's step, a pass begun, a step of the pass on top, or a declaration found done.
LEMMA RootIsUsedUp ==
    ASSUME NEW tops, NEW calls, Counted(tops, calls), RootsLeft' < RootsLeft, RootsLeft > 0
    PROVE  Work' # Work
<1>0. TypeInv /\ TypeInv' /\ UNCHANGED program /\ Untouched' \subseteq Untouched
  BY DEF Counted, StepCounts
<1>1. PICK x, y \in Int : x = RootsLeft /\ y = RootsLeft' /\ y < x /\ x > 0
  BY <1>0, RootsTyped, NextRootsTyped
<1>2. PICK o : o = <<"analyze", NoFile, 0>> /\ o[1] = "analyze"
  <2>1. <<"analyze", NoFile, 0>>[1] = "analyze"
    OBVIOUS
  <2> QED
    BY <2>1
<1>3. <<o, x>> \in Work
  BY <1>0, <1>1, <1>2, WorkIsIn
<1>4. x \notin 1..y
  BY <1>1
<1>5. o \notin Untouched'
  BY <1>0, <1>2, UntouchedModules
<1>6. \A k \in DOMAIN stack' : o # Owner(stack'[k])
  BY <1>0, <1>2, NextStackIs, OwnerIs
<1>7. <<o, x>> \notin Work'
  BY <1>0, <1>1, <1>4, <1>5, <1>6, WorkIsInNext
<1> QED
  BY <1>3, <1>7

LEMMA BeginningIsUsedUp ==
    ASSUME NEW tops, NEW calls, Counted(tops, calls), Untouched' # Untouched
    PROVE  Work' # Work
<1>0. TypeInv /\ TypeInv' /\ UNCHANGED program /\ Untouched' \subseteq Untouched /\ OwnersBegun
  BY DEF Counted, StepCounts
<1>1. PICK o \in Untouched : o \notin Untouched'
  BY <1>0
<1>2. o[2] \in Modules /\ o[1] # "analyze"
  BY UntouchedModules
<1>3. PICK n \in Nat : n = MostLeft(o[2]) /\ n > 0
  BY <1>0, <1>2, BodyIndices DEF MostLeft
<1>4. <<o, n>> \in Work
  BY <1>0, <1>3, WorkIsIn
<1>5. o # <<"analyze", NoFile, 0>>
  BY <1>2
<1>6. ASSUME NEW k \in DOMAIN stack', o = Owner(stack'[k]), n \in 1..LeftAt(stack', k)
      PROVE  FALSE
  <2>1. stack' \in Seq(Frames) /\ stack \in Seq(Frames)
    BY <1>0, NextStackIs, StackIs
  <2>2. LeftAt(stack', k) \in Nat /\ \A i \in DOMAIN stack : LeftAt(stack, i) \in Nat
    BY <2>1, LeftAtIs
  <2>3. PICK i \in DOMAIN stack : o = Owner(stack[i]) /\ LeftAt(stack', k) <= LeftAt(stack, i)
    BY <1>3, <1>6, <2>2, FrameFalls
  <2>4. stack[i].at = "entered"
    BY <1>0, <2>3 DEF OwnersBegun
  <2>5. LeftAt(stack, i) = 0
    BY <2>1, <2>4, LeftAtIs
  <2> QED
    BY <1>3, <1>6, <2>2, <2>3, <2>5
<1>7. <<o, n>> \notin Work'
  BY <1>0, <1>1, <1>5, <1>6, WorkIsInNext
<1> QED
  BY <1>4, <1>7

LEMMA StepIsUsedUp ==
    ASSUME NEW tops, NEW calls, Counted(tops, calls), stack # <<>>, Top.at # "entered",
           \A f \in tops : AtMost(f, calls, Left(Top) - 1)
    PROVE  Work' # Work
<1>0. TypeInv /\ TypeInv' /\ UNCHANGED program /\ Untouched' \subseteq Untouched /\ OwnersBegun
      /\ OwnersOnce /\ Turns(stack', tops, calls)
  BY DEF Counted, StepCounts
<1>1. stack \in Seq(Frames) /\ Len(stack) \in Nat /\ DOMAIN stack = 1..Len(stack)
      /\ Len(stack) \in DOMAIN stack /\ Top = stack[Len(stack)]
  BY <1>0, StackIs
<1>2. PICK l : l = Len(stack) /\ l \in DOMAIN stack /\ l \in Nat /\ stack[l] = Top
  BY <1>1
<1>3. PICK n \in Nat : n = Left(Top) /\ n > 0 /\ n <= LeftAt(stack, l) /\ LeftAt(stack, l) \in Nat
  BY <1>1, <1>2, LeftAtIs
<1>4. PICK o : o = Owner(Top)
  OBVIOUS
<1>5. <<o, n>> \in Work
  <2>1. n \in 1..LeftAt(stack, l) /\ o = Owner(stack[l])
    BY <1>2, <1>3, <1>4
  <2> QED
    BY <1>0, <1>2, <2>1, WorkIsIn, Zenon
<1>6. o # <<"analyze", NoFile, 0>>
  <2>1. Top \in Frames
    BY <1>1
  <2> QED
    BY <1>4, <2>1, OwnerIs
<1>7. o \notin Untouched
  BY <1>0, <1>2, <1>4 DEF OwnersBegun
<1>8. ASSUME NEW k \in DOMAIN stack', o = Owner(stack'[k]), n \in 1..LeftAt(stack', k)
      PROVE  FALSE
  <2>1. stack' \in Seq(Frames)
    BY <1>0, NextStackIs
  <2>2. LeftAt(stack', k) \in Nat
    BY <2>1, LeftAtIs
  <2>3. CASE k \in DOMAIN stack /\ k < Len(stack)
    <3>1. Owner(stack[k]) = o /\ stack[k].at # "entered"
      BY <1>8, <2>3, WaitingCounts
    <3>2. k = l
      BY <1>0, <1>2, <1>4, <2>3, <3>1 DEF OwnersOnce
    <3> QED
      BY <1>1, <1>2, <2>3, <3>2
  <2>4. CASE k = Len(stack) /\ stack'[k] \in tops
    <3>1. AtMost(stack'[k], calls, n - 1) /\ n - 1 \in Int
      BY <1>3, <2>4
    <3>2. \A i \in Int : AtMost(stack'[k], calls, i) => LeftAt(stack', k) <= i
      BY <2>4, TopCounts
    <3>3. LeftAt(stack', k) <= n - 1
      BY <3>1, <3>2
    <3> QED
      BY <1>3, <1>8, <2>2, <3>3
  <2>5. CASE k = Len(stack) + 1 /\ stack'[k] \in calls
    <3>1. stack'[k].at = "entered" \/ Begins(stack'[k])
      BY <2>5 DEF Counted, StepCounts
    <3>2. stack'[k].at = "entered" => LeftAt(stack', k) = 0
      BY <2>5, CallCounts
    <3>3. stack'[k].at # "entered"
      BY <1>3, <1>8, <3>2
    <3> QED
      BY <1>7, <1>8, <3>1, <3>3 DEF Begins
  <2> QED
    BY <1>0, <2>1, <2>3, <2>4, <2>5, TurnsFrom
<1>9. <<o, n>> \notin Work'
  BY <1>0, <1>6, <1>7, <1>8, WorkIsInNext
<1> QED
  BY <1>5, <1>9

LEMMA ReturnIsUsedUp ==
    ASSUME NEW tops, NEW calls, Counted(tops, calls), Running({"declare"}, "entered"),
           tops = {}, calls = {}, stack[Len(stack) - 1].at = "next"
    PROVE  Work' # Work
<1>0. TypeInv /\ TypeInv' /\ UNCHANGED program /\ Untouched' \subseteq Untouched /\ OwnersBegun
      /\ OwnersOnce /\ EntersOnce /\ Turns(stack', tops, calls)
  BY DEF Counted, StepCounts
<1>1. stack \in Seq(Frames) /\ Len(stack) \in Nat /\ DOMAIN stack = 1..Len(stack)
      /\ Len(stack) \in DOMAIN stack /\ stack[Len(stack)].at = "entered"
  BY <1>0, StackIs DEF Running
<1>2. Len(stack) > 1
  BY <1>0, <1>1 DEF EntersOnce
<1>3. PICK l \in DOMAIN stack : l + 1 = Len(stack) /\ stack[l].at = "next"
  <2>1. Len(stack) - 1 \in DOMAIN stack /\ (Len(stack) - 1) + 1 = Len(stack)
    BY <1>1, <1>2
  <2> QED
    BY <2>1
<1>4. stack[l] \in Frames /\ Len(stack[l].todo) \in Nat
  <2>1. stack[l] \in Frames
    BY <1>1, <1>3
  <2> QED
    BY <2>1 DEF Frames
<1>5. PICK n \in Nat : n = LeftEntering(stack[l]) /\ n > Left(stack[l]) /\ n > 0
  <2>1. Left(stack[l]) = 2 * Len(stack[l].todo) + 2
    BY <1>3 DEF FrameLeft, Left
  <2>2. LeftEntering(stack[l]) = 2 * Len(stack[l].todo) + 3
    BY <1>3 DEF FrameLeft, LeftEntering
  <2>3. PICK i \in Nat : i = Len(stack[l].todo)
    BY <1>4
  <2>4. 2 * i + 3 \in Nat /\ 2 * i + 3 > 2 * i + 2 /\ 2 * i + 3 > 0
    OBVIOUS
  <2> QED
    BY <2>1, <2>2, <2>3, <2>4
<1>6. LeftAt(stack, l) = n
  <2>1. (l + 1 = Len(stack) /\ stack[l + 1].at = "entered") = TRUE
    BY <1>1, <1>3
  <2> QED
    BY <1>5, <2>1, Zenon DEF LeftAt, LeftEntering
<1>7. PICK o : o = Owner(stack[l])
  OBVIOUS
<1>8. <<o, n>> \in Work
  <2>1. n \in 1..LeftAt(stack, l)
    BY <1>5, <1>6
  <2> QED
    BY <1>0, <1>3, <1>7, <2>1, WorkIsIn, Zenon
<1>9. o # <<"analyze", NoFile, 0>>
  BY <1>4, <1>7, OwnerIs
<1>10. o \notin Untouched
  BY <1>0, <1>3, <1>7 DEF OwnersBegun
<1>11. ASSUME NEW k \in DOMAIN stack', o = Owner(stack'[k]), n \in 1..LeftAt(stack', k)
      PROVE  FALSE
  <2>1. k \in DOMAIN stack /\ k < Len(stack)
    BY <1>0, NextStackIs, TurnsFrom
  <2>2. Owner(stack[k]) = o /\ stack[k].at # "entered" /\ LeftAt(stack', k) = Left(stack[k])
    BY <1>11, <2>1, WaitingCounts
  <2>3. k = l
    BY <1>0, <1>3, <1>7, <2>1, <2>2 DEF OwnersOnce
  <2>4. stack' \in Seq(Frames)
    BY <1>0, NextStackIs
  <2>5. LeftAt(stack', k) \in Nat
    BY <2>4, LeftAtIs
  <2>6. PICK x \in Nat : x = LeftAt(stack', k) /\ x = Left(stack[l])
    BY <2>2, <2>3, <2>5
  <2> QED
    BY <1>5, <1>11, <2>6
<1>12. <<o, n>> \notin Work'
  BY <1>0, <1>9, <1>10, <1>11, WorkIsInNext
<1> QED
  BY <1>8, <1>12

LEMMA WorkCounts ==
    ASSUME NEW tops, NEW calls, Counted(tops, calls)
    PROVE  Work' \subseteq Work /\ Work' # Work
<1>1. Work' \subseteq Work
  BY NoneIsMade
<1>2. Work' # Work
  BY RootIsUsedUp, BeginningIsUsedUp, StepIsUsedUp, ReturnIsUsedUp DEF Counted, StepCounts
<1> QED
  BY <1>1, <1>2

-----------------------------------------------------------------------------
(* What is left to do is counted after every step                           *)

\* A declaration is entered from a statement or from a declaration that looks for
\* it, and is not untouched once it has been.
StepEnters(tops, calls) ==
    /\ \A g \in calls :
         /\ g.at # "looking"
         /\ g.at = "entered" =>
              /\ g.pass = "declare"
              /\ \E f \in tops :
                   \/ f.at = "next" /\ symbol'[Place(g)] # "resolving"
                   \/ f.at = "looking" /\ symbol'[Place(g)] = "unresolved"
    /\ \A f \in tops : f.at = "looking" =>
         /\ Aim(f) \in Nodes
         /\ \E g \in calls : g.at = "entered" /\ Place(g) = Aim(f)
    /\ stack # <<>> /\ Top.at = "entered" => symbol'[Here] # "unresolved"

\* The resolution of a module goes on, or begins with all of its statements.
StepResolves(tops, calls) ==
    /\ \A f \in tops : f.pass = "resolve" /\ f.at # "draining" =>
         /\ Top.pass = "resolve" /\ Top.at # "draining" /\ f.mod = Top.mod
         /\ Len(f.todo) <= Len(Top.todo)
    /\ \A g \in calls : g.pass = "resolve" =>
         ~Begun(g.mod) /\ Len(g.todo) = Len(program[g.mod].body)

LEMMA EntersFollow ==
    ASSUME NEW tops, NEW calls, Counted(tops, calls), Onward, LooksOnce, StepEnters(tops, calls)
    PROVE  EntersOnce' /\ LooksOnce'
<1>0. /\ TypeInv /\ TypeInv' /\ Turns(stack', tops, calls) /\ EntersOnce /\ UNCHANGED program
      /\ \A f \in tops : f \in Frames /\ f.at # "entered"
      /\ \A g \in calls : g \in Frames
  BY DEF Counted, StepCounts
<1>1. stack' \in Seq(Frames) /\ Len(stack') \in Nat /\ DOMAIN stack' = 1..Len(stack')
  BY <1>0, NextStackIs
<1>2. stack \in Seq(Frames) /\ Len(stack) \in Nat /\ DOMAIN stack = 1..Len(stack)
      /\ (stack # <<>> => Top = stack[Len(stack)])
  BY <1>0, StackIs
<1>3. Len(stack') <= Len(stack) + 1
  BY HighestIs
<1>4. ASSUME NEW k \in DOMAIN stack', stack'[k].at = "entered"
      PROVE  /\ k = Len(stack') /\ k > 1 /\ stack'[k].pass = "declare"
             /\ \/ stack'[k - 1].at = "next" /\ symbol'[Place(stack'[k])] # "resolving"
                \/ stack'[k - 1].at = "looking" /\ symbol'[Place(stack'[k])] = "unresolved"
  <2>1. k = Len(stack) + 1 /\ stack'[k] \in calls
    <3>1. ~(k \in DOMAIN stack /\ k < Len(stack))
      BY <1>4, WaitingCounts, <1>0 DEF Turns, SameFrame
    <3> QED
      BY <1>0, <1>1, <1>4, <3>1, TurnsFrom
  <2>2. PICK g \in calls : g = stack'[k]
    BY <2>1
  <2>3. PICK f \in tops : \/ f.at = "next" /\ symbol'[Place(g)] # "resolving"
                          \/ f.at = "looking" /\ symbol'[Place(g)] = "unresolved"
    BY <1>4, <2>2 DEF StepEnters
  <2>4. stack # <<>> /\ stack'[Len(stack)] = f
    BY <1>0, <2>3 DEF Turns
  <2>5. Len(stack) >= 1 /\ k - 1 = Len(stack) /\ k = Len(stack')
    <3>1. Len(stack) \in 1..Len(stack)
      BY <1>0, <1>2, <2>4, StackIs
    <3>2. k \in 1..Len(stack')
      BY <1>1
    <3>3. PICK i, j \in Nat : i = Len(stack) /\ j = Len(stack')
      BY <1>1, <1>2
    <3> QED
      BY <1>3, <2>1, <3>1, <3>2, <3>3
  <2>6. stack'[k - 1] = f
    BY <2>4, <2>5
  <2>7. stack'[k].pass = "declare"
    BY <1>4, <2>2 DEF StepEnters
  <2>8. k > 1
    BY <1>2, <2>1, <2>5
  <2> QED
    BY <2>2, <2>3, <2>5, <2>6, <2>7, <2>8
<1>5. EntersOnce'
  BY <1>4 DEF EntersOnce, Place
<1>6. \A f : Aim(f)' = Aim(f)
  BY <1>0 DEF Aim, Current, Stmt
<1>7. \A n \in Nodes : symbol[n] # "unresolved" => symbol'[n] # "unresolved"
  BY DEF Onward
<1>8. ASSUME NEW k \in DOMAIN stack', stack'[k].at = "looking"
      PROVE  /\ Aim(stack'[k]) \in Nodes
             /\ \/ symbol'[Aim(stack'[k])] # "unresolved"
                \/ /\ k + 1 \in DOMAIN stack' /\ stack'[k + 1].at = "entered"
                   /\ Place(stack'[k + 1]) = Aim(stack'[k])
  <2>1. CASE k \in DOMAIN stack /\ k < Len(stack)
    <3>1. SameFrame(stack'[k], stack[k])
      BY <1>0, <2>1 DEF Turns
    <3>2. stack[k].at = "looking" /\ Aim(stack'[k]) = Aim(stack[k])
      BY <1>8, <3>1 DEF SameFrame, Aim, Current
    <3>3. PICK n : n = Aim(stack[k])
      OBVIOUS
    <3>4. /\ n \in Nodes
          /\ \/ symbol[n] # "unresolved"
             \/ k + 1 \in DOMAIN stack /\ stack[k + 1].at = "entered" /\ Place(stack[k + 1]) = n
      BY <2>1, <3>2, <3>3 DEF LooksOnce
    <3>5. CASE symbol[n] # "unresolved"
      BY <1>7, <3>2, <3>3, <3>4, <3>5
    <3>6. CASE k + 1 \in DOMAIN stack /\ stack[k + 1].at = "entered" /\ Place(stack[k + 1]) = n
      <4>1. k + 1 = Len(stack)
        BY <1>0, <3>6 DEF EntersOnce
      <4>2. stack # <<>> /\ Top.at = "entered" /\ Here = n
        BY <1>2, <2>1, <3>6, <4>1 DEF Here, Place
      <4>3. symbol'[n] # "unresolved"
        BY <4>2 DEF StepEnters
      <4> QED
        BY <3>2, <3>3, <3>4, <4>3
    <3> QED
      BY <3>4, <3>5, <3>6
  <2>2. CASE k = Len(stack) /\ stack'[k] \in tops
    <3>1. PICK g \in calls : g.at = "entered" /\ Place(g) = Aim(stack'[k])
      BY <1>8, <2>2 DEF StepEnters
    <3>2. Aim(stack'[k]) \in Nodes
      BY <1>8, <2>2 DEF StepEnters
    <3>3. Len(stack) + 1 \in DOMAIN stack' /\ stack'[Len(stack) + 1] = g
      BY <1>0, <3>1 DEF Turns
    <3> QED
      BY <2>2, <3>1, <3>2, <3>3
  <2>3. CASE stack'[k] \in calls
    BY <1>8, <2>3 DEF StepEnters
  <2> QED
    BY <1>0, <1>1, <2>1, <2>2, <2>3, TurnsFrom
<1>9. LooksOnce'
  BY <1>6, <1>8 DEF LooksOnce, Place
<1> QED
  BY <1>5, <1>9

\* A frame was there before, or its pass has just begun.
LEMMA OwnerComes ==
    ASSUME NEW tops, NEW calls, Counted(tops, calls), NEW k \in DOMAIN stack',
           stack'[k].at # "entered"
    PROVE  \/ /\ k \in DOMAIN stack /\ stack[k].at # "entered"
              /\ Owner(stack'[k]) = Owner(stack[k]) /\ Owner(stack[k]) \notin Untouched
           \/ /\ Owner(stack'[k]) \in Untouched /\ Owner(stack'[k]) \notin Untouched'
              /\ (k = Len(stack) /\ calls = {}) \/ (k = Len(stack) + 1 /\ calls # {})
<1>0. TypeInv /\ TypeInv' /\ Turns(stack', tops, calls) /\ OwnersBegun
  BY DEF Counted, StepCounts
<1>1. stack' \in Seq(Frames)
  BY <1>0, NextStackIs
<1>2. stack # <<>> => Len(stack) \in DOMAIN stack /\ Top = stack[Len(stack)]
  BY <1>0, StackIs
<1>3. CASE k \in DOMAIN stack /\ k < Len(stack)
  BY <1>0, <1>3, WaitingCounts DEF OwnersBegun
<1>4. CASE stack # <<>> /\ k = Len(stack) /\ stack'[k] \in tops
  <2>1. \/ Top.at # "entered" /\ Owner(stack'[k]) = Owner(Top)
        \/ Begins(stack'[k]) /\ calls = {}
    BY <1>4 DEF Counted, StepCounts
  <2> QED
    BY <1>0, <1>2, <1>4, <2>1 DEF OwnersBegun, Begins
<1>5. CASE k = Len(stack) + 1 /\ stack'[k] \in calls
  <2>1. Begins(stack'[k])
    BY <1>5 DEF Counted, StepCounts
  <2> QED
    BY <1>5, <2>1 DEF Begins
<1> QED
  BY <1>0, <1>1, <1>3, <1>4, <1>5, TurnsFrom

LEMMA OwnersFollow ==
    ASSUME NEW tops, NEW calls, Counted(tops, calls)
    PROVE  OwnersBegun' /\ OwnersOnce'
<1>0. TypeInv /\ Untouched' \subseteq Untouched /\ OwnersOnce
  BY DEF Counted, StepCounts
<1>1. ASSUME NEW k \in DOMAIN stack', stack'[k].at # "entered"
      PROVE  Owner(stack'[k]) \notin Untouched'
  BY <1>0, <1>1, OwnerComes
<1>2. OwnersBegun'
  BY <1>1 DEF OwnersBegun, Owner
<1>3. ASSUME NEW j \in DOMAIN stack', NEW k \in DOMAIN stack',
             stack'[j].at # "entered", stack'[k].at # "entered",
             Owner(stack'[j]) = Owner(stack'[k])
      PROVE  j = k
  <2>1. CASE Owner(stack'[j]) \in Untouched
    BY <1>3, <2>1, OwnerComes
  <2>2. CASE Owner(stack'[j]) \notin Untouched
    <3>1. /\ j \in DOMAIN stack /\ stack[j].at # "entered" /\ Owner(stack'[j]) = Owner(stack[j])
          /\ k \in DOMAIN stack /\ stack[k].at # "entered" /\ Owner(stack'[k]) = Owner(stack[k])
      BY <1>3, <2>2, OwnerComes
    <3> QED
      BY <1>0, <1>3, <3>1 DEF OwnersOnce
  <2> QED
    BY <2>1, <2>2
<1>4. OwnersOnce'
  BY <1>3 DEF OwnersOnce, Owner
<1> QED
  BY <1>2, <1>4

LEMMA ResolvesFollow ==
    ASSUME TypeInv, TypeInv', NEW tops, NEW calls, Turns(stack', tops, calls),
           StepResolves(tops, calls), NEW m, Resolves(stack', m)
    PROVE  Resolves(stack, m) \/ ~Begun(m)
<1>1. PICK k \in DOMAIN stack' :
            stack'[k].pass = "resolve" /\ stack'[k].mod = m /\ stack'[k].at # "draining"
  BY DEF Resolves
<1>2. stack' \in Seq(Frames)
  BY NextStackIs
<1>3. stack # <<>> => Len(stack) \in DOMAIN stack /\ Top = stack[Len(stack)]
  BY StackIs
<1>4. CASE k \in DOMAIN stack /\ SameFrame(stack'[k], stack[k])
  BY <1>1, <1>4 DEF SameFrame, Resolves
<1>5. CASE stack # <<>> /\ stack'[k] \in tops
  BY <1>1, <1>3, <1>5 DEF StepResolves, Resolves
<1>6. CASE stack'[k] \in calls
  BY <1>1, <1>6 DEF StepResolves
<1> QED
  BY <1>2, <1>4, <1>5, <1>6, TurnsFrom

LEMMA UntouchedForm ==
    ASSUME NEW o
    PROVE  o \in Untouched <=>
             \/ \E m \in Modules :
                  \/ o = <<"collect", m, 0>> /\ m \notin collected
                  \/ o = <<"resolve", m, 0>> /\ ~Begun(m)
                  \/ o = <<"tests", m, 0>> /\ (~Begun(m) \/ Resolves(stack, m) \/ Queued(m))
             \/ \E n \in Declarations : o = <<"declare", n[1], n[2]>> /\ symbol[n] = "unresolved"
BY DEF Untouched
LEMMA NextUntouchedForm ==
    ASSUME UNCHANGED program, NEW o
    PROVE  o \in Untouched' <=>
             \/ \E m \in Modules :
                  \/ o = <<"collect", m, 0>> /\ m \notin collected'
                  \/ o = <<"resolve", m, 0>> /\ ~Begun(m)'
                  \/ o = <<"tests", m, 0>> /\ (~Begun(m)' \/ Resolves(stack', m) \/ Queued(m)')
             \/ \E n \in Declarations : o = <<"declare", n[1], n[2]>> /\ symbol'[n] = "unresolved"
<1>1. Declarations' = Declarations
  BY DEF Declarations, Stmt
<1>2. \A m : Resolves(stack, m)' <=> Resolves(stack', m)
  BY DEF Resolves
<1> QED
  BY <1>1, <1>2 DEF Untouched

\* No pass becomes one that is yet to begin.
LEMMA UntouchedFalls ==
    ASSUME Onward,
           \A m \in Modules : Resolves(stack', m) => Resolves(stack, m) \/ ~Begun(m),
           \A m \in Modules : Queued(m)' => Queued(m) \/ Resolves(stack, m)
    PROVE  Untouched' \subseteq Untouched
<1>1. /\ UNCHANGED program /\ collected \subseteq collected'
      /\ \A m \in Modules : Begun(m) => Begun(m)'
      /\ \A n \in Nodes : symbol[n] # "unresolved" => symbol'[n] # "unresolved"
  BY DEF Onward
<1> SUFFICES ASSUME NEW o \in Untouched' PROVE o \in Untouched
  OBVIOUS
<1>2. CASE \E n \in Declarations : o = <<"declare", n[1], n[2]>> /\ symbol'[n] = "unresolved"
  <2>1. PICK n \in Declarations : o = <<"declare", n[1], n[2]>> /\ symbol'[n] = "unresolved"
    BY <1>2
  <2>2. symbol[n] = "unresolved"
    BY <1>1, <2>1 DEF Declarations
  <2> QED
    BY <2>1, <2>2, UntouchedForm
<1>3. CASE \E m \in Modules :
             \/ o = <<"collect", m, 0>> /\ m \notin collected'
             \/ o = <<"resolve", m, 0>> /\ ~Begun(m)'
             \/ o = <<"tests", m, 0>> /\ (~Begun(m)' \/ Resolves(stack', m) \/ Queued(m)')
  <2>1. PICK m \in Modules :
             \/ o = <<"collect", m, 0>> /\ m \notin collected'
             \/ o = <<"resolve", m, 0>> /\ ~Begun(m)'
             \/ o = <<"tests", m, 0>> /\ (~Begun(m)' \/ Resolves(stack', m) \/ Queued(m)')
    BY <1>3
  <2>2. \/ o = <<"collect", m, 0>> /\ m \notin collected
        \/ o = <<"resolve", m, 0>> /\ ~Begun(m)
        \/ o = <<"tests", m, 0>> /\ (~Begun(m) \/ Resolves(stack, m) \/ Queued(m))
    BY <1>1, <2>1
  <2> QED
    BY <2>2, UntouchedForm
<1> QED
  BY <1>1, <1>2, <1>3, NextUntouchedForm

\* What is resolved has begun, and tests are put off while it is.
LEMMA BegunWhen ==
    ASSUME TypeInv, HalfDoneIsUnderWay, EntersOnce, OwnersBegun, QueuedOnce, NEW m \in Modules
    PROVE  /\ Resolves(stack, m) => Begun(m)
           /\ ~Begun(m) => deferred[m] = <<>>
<1>1. ASSUME Resolves(stack, m) PROVE Begun(m)
  <2>1. PICK k \in DOMAIN stack :
            stack[k].pass = "resolve" /\ stack[k].mod = m /\ stack[k].at # "draining"
    BY <1>1 DEF Resolves
  <2>2. stack[k].at # "entered"
    BY <2>1 DEF EntersOnce
  <2>3. Owner(stack[k]) = <<"resolve", m, 0>>
    BY <2>1 DEF Owner
  <2> QED
    BY <2>2, <2>3, UntouchedResolve DEF OwnersBegun
<1>2. Queued(m) => Begun(m)
  BY DEF Queued, QueuedOnce
<1>3. deferred[m] # <<>> => Queued(m) \/ Resolves(stack, m)
  BY DEF HalfDoneIsUnderWay, TestsUnderWay
<1> QED
  BY <1>1, <1>2, <1>3

LEMMA QueueFollows ==
    ASSUME TypeInv, Onward, QueuedOnce, UNCHANGED pending,
           \A m \in Modules : Resolves(stack', m) => Resolves(stack, m) \/ ~Begun(m)
    PROVE  QueuedOnce'
<1>1. pending \in Seq(Modules)
  BY DEF TypeInv, TypeOK
<1>2. \A j \in DOMAIN pending : pending[j] \in Modules /\ Begun(pending[j]) /\ ~Resolves(stack, pending[j])
  BY <1>1 DEF QueuedOnce
<1>3. ASSUME NEW j \in DOMAIN pending' PROVE Begun(pending[j])' /\ ~Resolves(stack', pending'[j])
  <2>1. PICK m \in Modules : m = pending[j] /\ m = pending'[j] /\ Begun(m) /\ ~Resolves(stack, m)
    BY <1>2, <1>3
  <2>2. Begun(m)' /\ ~Resolves(stack', m)
    BY <2>1 DEF Onward
  <2> QED
    BY <2>1, <2>2 DEF Begun
<1>4. \A i, j \in DOMAIN pending' : pending'[i] = pending'[j] => i = j
  BY DEF QueuedOnce
<1> QED
  BY <1>3, <1>4 DEF QueuedOnce, Resolves

LEMMA TestsFollow ==
    ASSUME TypeInv, TypeInv', HalfDoneIsUnderWay, EntersOnce, OwnersBegun, QueuedOnce, TestsFit,
           UNCHANGED program, NEW tops, NEW calls, Turns(stack', tops, calls),
           StepResolves(tops, calls), \A g \in calls : g \in Frames, \A f \in tops : f \in Frames,
           \A m \in Modules : Len(deferred'[m]) <= Len(deferred[m])
    PROVE  TestsFit'
<1>1. stack' \in Seq(Frames) /\ (stack # <<>> => Top \in Frames)
  BY NextStackIs, TypeInvStack, GoodTop
<1>2. stack \in Seq(Frames) /\ (stack # <<>> => Len(stack) \in DOMAIN stack /\ Top = stack[Len(stack)])
  BY StackIs
<1>3. \A m \in Modules : Len(deferred[m]) \in Nat /\ Len(deferred'[m]) \in Nat /\ Len(program[m].body) \in Nat
  BY BodyIndices DEF TypeInv, TypeOK
<1>4. \A f \in Frames : f.mod \in Modules /\ Len(f.todo) \in Nat
  BY DEF Frames
<1>5. \A m \in Modules : Len(deferred'[m]) <= Len(program[m].body)
  BY <1>3 DEF TestsFit
<1>6. \A f \in Frames, i \in Nat :
        Len(deferred[f.mod]) + i <= Len(program[f.mod].body) /\ Len(f.todo) <= i =>
            Len(deferred'[f.mod]) + Len(f.todo) <= Len(program[f.mod].body)
  <2> SUFFICES ASSUME NEW f \in Frames, NEW i \in Nat,
                      Len(deferred[f.mod]) + i <= Len(program[f.mod].body), Len(f.todo) <= i
               PROVE  Len(deferred'[f.mod]) + Len(f.todo) <= Len(program[f.mod].body)
    OBVIOUS
  <2>1. PICK a, b, c, t \in Nat : /\ a = Len(deferred[f.mod]) /\ b = Len(deferred'[f.mod])
                                  /\ c = Len(program[f.mod].body) /\ t = Len(f.todo)
    BY <1>3, <1>4
  <2>2. a \in Nat /\ b \in Nat /\ c \in Nat /\ t \in Nat /\ b <= a /\ a + i <= c /\ t <= i
    <3>1. f.mod \in Modules
      BY <1>4
    <3>2. b <= a
      BY <2>1, <3>1
    <3> QED
      BY <2>1, <3>2
  <2>3. b + t <= c
    BY <2>2
  <2> QED
    BY <2>1, <2>3
<1>7. ASSUME NEW k \in DOMAIN stack', stack'[k].pass = "resolve", stack'[k].at # "draining"
      PROVE  Len(deferred'[stack'[k].mod]) + Len(stack'[k].todo) <= Len(program[stack'[k].mod].body)
  <2>0. PICK f \in Frames : f = stack'[k]
    BY <1>1
  <2>1. CASE k \in DOMAIN stack /\ SameFrame(f, stack[k])
    <3>1. Len(deferred[f.mod]) + Len(f.todo) <= Len(program[f.mod].body)
      BY <1>7, <2>0, <2>1 DEF TestsFit, SameFrame
    <3>2. PICK i \in Nat : i = Len(f.todo) /\ Len(f.todo) <= i
      BY <1>4
    <3> QED
      BY <1>6, <2>0, <3>1, <3>2
  <2>2. CASE stack # <<>> /\ f \in tops
    <3>1. /\ Top.pass = "resolve" /\ Top.at # "draining" /\ f.mod = Top.mod
          /\ Len(f.todo) <= Len(Top.todo)
      BY <1>7, <2>0, <2>2 DEF StepResolves
    <3>2. Len(deferred[Top.mod]) + Len(Top.todo) <= Len(program[Top.mod].body)
      BY <1>2, <2>2, <3>1 DEF TestsFit
    <3>3. Len(Top.todo) \in Nat
      BY <1>1, <1>4, <2>2
    <3> QED
      BY <1>6, <2>0, <3>1, <3>2, <3>3
  <2>3. CASE f \in calls
    <3>1. ~Begun(f.mod) /\ Len(f.todo) = Len(program[f.mod].body)
      BY <1>7, <2>0, <2>3 DEF StepResolves
    <3>2. deferred[f.mod] = <<>> /\ f.mod \in Modules /\ Len(f.todo) \in Nat
      BY <1>4, <3>1, BegunWhen
    <3>3. Len(deferred[f.mod]) = 0
      BY <3>2
    <3>4. Len(deferred[f.mod]) + Len(f.todo) <= Len(program[f.mod].body)
      BY <3>1, <3>2, <3>3
    <3>5. PICK i \in Nat : i = Len(f.todo) /\ Len(f.todo) <= i
      BY <1>4
    <3> QED
      BY <1>6, <2>0, <3>4, <3>5
  <2> QED
    BY <1>1, <2>0, <2>1, <2>2, <2>3, TurnsFrom
<1> QED
  BY <1>5, <1>7 DEF TestsFit

-----------------------------------------------------------------------------
(* The steps                                                                *)

\* What is known when a step is taken, cancelled or not.
Accounted ==
    /\ TypeInv /\ TypeInv' /\ StackShape /\ Onward /\ CollectsOnce /\ HalfDoneIsUnderWay /\ ProgressInv
    /\ EntersOnce /\ LooksOnce /\ OwnersBegun /\ OwnersOnce /\ QueuedOnce /\ TestsFit

WorkFalls == LeftInv' /\ Work' \subseteq Work /\ Work' # Work

LEMMA AccountedHas ==
    ASSUME Accounted
    PROVE  /\ TypeInv /\ TypeInv' /\ StackShape /\ Onward /\ CollectsOnce /\ HalfDoneIsUnderWay
           /\ ProgressInv /\ EntersOnce /\ LooksOnce /\ OwnersBegun /\ OwnersOnce /\ QueuedOnce
           /\ TestsFit /\ UNCHANGED program
BY DEF Accounted, Onward

\* A step that leaves the queue as it is makes nothing untouched.
LEMMA StepFalls ==
    ASSUME Accounted, NEW tops, NEW calls, Turns(stack', tops, calls), StepResolves(tops, calls),
           UNCHANGED pending
    PROVE  Untouched' \subseteq Untouched
<1>1. \A m \in Modules : Resolves(stack', m) => Resolves(stack, m) \/ ~Begun(m)
  BY AccountedHas, ResolvesFollow
<1>2. \A m \in Modules : Queued(m)' => Queued(m)
  BY DEF Queued
<1> QED
  BY <1>1, <1>2, AccountedHas, UntouchedFalls

\* What is left to show of a step.
LEMMA StepIsAccounted ==
    ASSUME Accounted, NEW tops, NEW calls, StepCounts(tops, calls), StepEnters(tops, calls),
           StepResolves(tops, calls), UNCHANGED pending,
           (\A m \in Modules : Len(deferred'[m]) <= Len(deferred[m])) \/ TestsFit'
    PROVE  WorkFalls
<1>1. Counted(tops, calls)
  BY AccountedHas DEF Counted
<1>2. /\ Turns(stack', tops, calls) /\ \A g \in calls : g \in Frames
      /\ \A f \in tops : f \in Frames
  BY DEF StepCounts
<1>3. EntersOnce' /\ LooksOnce'
  BY <1>1, AccountedHas, EntersFollow
<1>4. OwnersBegun' /\ OwnersOnce'
  BY <1>1, OwnersFollow
<1>5. \A m \in Modules : Resolves(stack', m) => Resolves(stack, m) \/ ~Begun(m)
  BY <1>2, AccountedHas, ResolvesFollow
<1>6. QueuedOnce'
  BY <1>5, AccountedHas, QueueFollows
<1>7. TestsFit'
  BY <1>2, AccountedHas, TestsFollow
<1>8. Work' \subseteq Work /\ Work' # Work
  BY <1>1, WorkCounts
<1> QED
  BY <1>3, <1>4, <1>6, <1>7, <1>8 DEF WorkFalls, LeftInv

LEMMA SameLens ==
    ASSUME TypeInv, UNCHANGED deferred
    PROVE  \A m \in Modules : Len(deferred'[m]) <= Len(deferred[m])
<1>1. \A m \in Modules : Len(deferred[m]) \in Nat
  BY DEF TypeInv, TypeOK
<1> QED
  BY <1>1

LEMMA SameRoots ==
    ASSUME TypeInv, UNCHANGED <<roots, phase>>
    PROVE  RootsLeft' <= RootsLeft
<1>1. RootsLeft' = RootsLeft
  BY DEF RootsLeft
<1> QED
  BY <1>1, RootsTyped

\* What is left of a frame, by where it stands.
LEMMA LeftIs ==
    ASSUME NEW f \in Frames
    PROVE  /\ Len(f.todo) \in Nat /\ Left(f) \in Nat /\ LeftEntering(f) \in Nat
           /\ f.at = "next" => Left(f) = 2 * Len(f.todo) + 2 /\ LeftEntering(f) = 2 * Len(f.todo) + 3
           /\ f.at = "imported" => Left(f) = 2 * Len(f.todo) + 1 /\ LeftEntering(f) = Left(f)
           /\ f.at = "started" => Left(f) = 3 /\ LeftEntering(f) = 3
           /\ f.at = "awaited" => Left(f) = 2 /\ LeftEntering(f) = 2
           /\ f.at \in {"looking", "draining"} => Left(f) = 1 /\ LeftEntering(f) = 1
<1>1. Len(f.todo) \in Nat
  BY DEF Frames
<1>2. Left(f) \in Nat /\ LeftEntering(f) \in Nat
  BY LeftTyped DEF Left, LeftEntering
<1>3. f.at = "next" => Left(f) = 2 * Len(f.todo) + 2 /\ LeftEntering(f) = 2 * Len(f.todo) + 3
  BY DEF Left, LeftEntering, FrameLeft
<1>4. f.at = "imported" => Left(f) = 2 * Len(f.todo) + 1 /\ LeftEntering(f) = 2 * Len(f.todo) + 1
  BY DEF Left, LeftEntering, FrameLeft
<1>5. f.at = "started" => Left(f) = 3 /\ LeftEntering(f) = 3
  BY DEF Left, LeftEntering, FrameLeft
<1>6. f.at = "awaited" => Left(f) = 2 /\ LeftEntering(f) = 2
  BY DEF Left, LeftEntering, FrameLeft
<1>7. f.at \in {"looking", "draining"} => Left(f) = 1 /\ LeftEntering(f) = 1
  BY DEF Left, LeftEntering, FrameLeft
<1> QED
  BY <1>1, <1>2, <1>3, <1>4, <1>5, <1>6, <1>7

\* The pass on top goes on, and may call another that begins or a declaration.
LEMMA GoesOnAccounted ==
    ASSUME Accounted, stack # <<>>, Top.at \notin {"entered", "draining"},
           NEW f \in Frames, f.pass = Top.pass, f.mod = Top.mod,
           f.pass = "declare" => f.todo = Top.todo, Len(f.todo) <= Len(Top.todo),
           f.at # "entered",
           NEW calls, Turns(stack', {f}, calls), AtMost(f, calls, Left(Top) - 1),
           \A g \in calls : g \in Frames /\ (g.at = "entered" \/ Begins(g)),
           StepEnters({f}, calls), StepResolves({}, calls),
           UNCHANGED <<roots, phase, pending>>,
           (\A m \in Modules : Len(deferred'[m]) <= Len(deferred[m])) \/ TestsFit'
    PROVE  WorkFalls
<1>1. StepResolves({f}, calls)
  BY DEF StepResolves
<1>2. Untouched' \subseteq Untouched
  BY <1>1, StepFalls
<1>3. RootsLeft' <= RootsLeft
  BY AccountedHas, SameRoots
<1>4. Owner(f) = Owner(Top)
  BY DEF Owner
<1>5. AtMost(f, calls, Left(Top))
  <2>1. Top \in Frames
    BY AccountedHas, TypeInvStack, GoodTop
  <2>2. Left(Top) \in Nat /\ Left(f) \in Nat /\ LeftEntering(f) \in Nat
    BY <2>1, LeftIs
  <2> QED
    BY <2>2 DEF AtMost
<1>6. StepCounts({f}, calls)
  BY <1>2, <1>3, <1>4, <1>5, AccountedHas DEF StepCounts
<1> QED
  BY <1>1, <1>6, StepIsAccounted

\* The pass on top ends.
LEMMA EndAccounted ==
    ASSUME Accounted, stack # <<>>, Top.at # "entered", Turns(stack', {}, {}),
           UNCHANGED <<roots, phase, pending, deferred>>
    PROVE  WorkFalls
<1>1. StepResolves({}, {}) /\ StepEnters({}, {})
  BY DEF StepResolves, StepEnters
<1>2. Untouched' \subseteq Untouched
  BY <1>1, StepFalls
<1>3. RootsLeft' <= RootsLeft
  BY AccountedHas, SameRoots
<1>4. StepCounts({}, {})
  BY <1>2, <1>3, AccountedHas DEF StepCounts
<1> QED
  BY <1>1, <1>4, AccountedHas, SameLens, StepIsAccounted

\* Its next statement is the next one's turn.
LEMMA TailLeft ==
    ASSUME NEW f \in Frames, NEW g \in Frames, g.todo # <<>>, f.todo = Tail(g.todo),
           f.at = "next", g.at \in {"next", "imported"}
    PROVE  /\ Left(f) <= Left(g) - 1
           /\ g.at = "next" => LeftEntering(f) <= Left(g) - 1
           /\ Len(f.todo) <= Len(g.todo)
<1>1. PICK n \in Nat : n = Len(g.todo) /\ n > 0
  BY DEF Frames
<1>2. Len(f.todo) = n - 1
  BY <1>1 DEF Frames
<1>3. Left(f) = 2 * (n - 1) + 2 /\ LeftEntering(f) = 2 * (n - 1) + 3
  BY <1>2, LeftIs
<1>4. /\ g.at = "next" => Left(g) = 2 * n + 2
      /\ g.at = "imported" => Left(g) = 2 * n + 1
  BY <1>1, LeftIs
<1>5. PICK a, b, c \in Nat : a = Left(f) /\ b = LeftEntering(f) /\ c = Left(g)
  BY LeftIs
<1>6. /\ n \in Nat /\ n > 0 /\ a = 2 * (n - 1) + 2 /\ b = 2 * (n - 1) + 3
      /\ c = 2 * n + 2 \/ (c = 2 * n + 1 /\ g.at # "next")
  BY <1>1, <1>3, <1>4, <1>5
<1>7. a <= c - 1 /\ (g.at = "next" => b <= c - 1) /\ n - 1 <= n
  BY <1>5, <1>6
<1> QED
  BY <1>1, <1>2, <1>5, <1>7

LEMMA AdvanceAccounted ==
    ASSUME Accounted, stack # <<>>, Top.pass # "declare", Top.at \in {"next", "imported"},
           Top.todo # <<>>, NEW diags \in SUBSET Diagnostics, stack' = Advanced(diags),
           UNCHANGED <<roots, phase, pending, deferred>>
    PROVE  WorkFalls
<1>1. TypeInv /\ Top \in Frames
  BY AccountedHas, TypeInvStack, GoodTop
<1>2. PICK f \in Frames :
          /\ f.pass = Top.pass /\ f.mod = Top.mod /\ f.at = "next" /\ f.todo = Tail(Top.todo)
          /\ Turns(stack', {f}, {})
  BY <1>1, TurnsAdvanced
<1>3. Left(f) <= Left(Top) - 1 /\ Len(f.todo) <= Len(Top.todo)
  BY <1>1, <1>2, TailLeft
<1>4. AtMost(f, {}, Left(Top) - 1)
  BY <1>3 DEF AtMost, IsCalled
<1>5. StepEnters({f}, {}) /\ StepResolves({}, {})
  BY <1>2 DEF StepEnters, StepResolves
<1>6. \A m \in Modules : Len(deferred'[m]) <= Len(deferred[m])
  BY <1>1, SameLens
<1> QED
  BY <1>2, <1>3, <1>4, <1>5, <1>6, GoesOnAccounted

\* The top frame of a pass over a module stands at a statement of the module.
LEMMA CollectAdvances ==
    ASSUME Accounted, CollectDecl \/ CollectMissingImport \/ LinkImport
    PROVE  WorkFalls
<1>0. TypeInv /\ stack # <<>> /\ Top.pass = "collect" /\ Top.at \in {"next", "imported"}
  BY AccountedHas DEF CollectDecl, CollectMissingImport, LinkImport, Running
<1>1. Top \in Frames /\ FitsProgram(program, Top)
  BY <1>0, TypeInvStack, GoodTop
<1>2. Top.todo # <<>>
  BY <1>1 DEF FitsProgram, CollectDecl, CollectMissingImport, LinkImport, Running
<1>3. /\ Diagnostic(Here, "moduleLoad") \in Diagnostics
      /\ Diagnostic(Here, "importedModuleContainsErrors") \in Diagnostics
  BY <1>0, <1>2, HereType
<1>4. /\ {Diagnostic(Here, "moduleLoad")} \in SUBSET Diagnostics
      /\ {Diagnostic(Here, "importedModuleContainsErrors")} \in SUBSET Diagnostics
  BY <1>3
<1>5. \E diags \in SUBSET Diagnostics : stack' = Advanced(diags)
  <2>1. CASE CollectDecl
    BY <2>1 DEF CollectDecl
  <2>2. CASE CollectMissingImport
    BY <1>4, <2>2 DEF CollectMissingImport
  <2>3. CASE LinkImport
    BY <1>4, <2>3 DEF LinkImport
  <2> QED
    BY <2>1, <2>2, <2>3
<1>6. UNCHANGED <<roots, phase, pending, deferred>>
  BY DEF CollectDecl, CollectMissingImport, LinkImport
<1> QED
  BY <1>0, <1>2, <1>5, <1>6, AdvanceAccounted

LEMMA ResolveAdvances ==
    ASSUME Accounted, (ResolveImport /\ Here \notin linked) \/ AfterImport
    PROVE  WorkFalls
<1>0. TypeInv /\ stack # <<>> /\ Top.pass # "declare" /\ Top.at \in {"next", "imported"}
  BY AccountedHas DEF ResolveImport, AfterImport, Statement, Resolving, Running
<1>1. Top \in Frames /\ FitsProgram(program, Top)
  BY <1>0, TypeInvStack, GoodTop
<1>2. Top.todo # <<>>
  BY <1>1 DEF FitsProgram, ResolveImport, AfterImport, Statement, Resolving, Running
<1>3. Diagnostic(Here, "importedModuleContainsErrors") \in Diagnostics
  BY <1>0, <1>2, HereType
<1>4. {Diagnostic(Here, "importedModuleContainsErrors")} \in SUBSET Diagnostics
  BY <1>3
<1>5. \E diags \in SUBSET Diagnostics : stack' = Advanced(diags)
  <2>1. CASE ResolveImport /\ Here \notin linked
    BY <2>1 DEF ResolveImport
  <2>2. CASE AfterImport
    BY <1>4, <2>2 DEF AfterImport
  <2> QED
    BY <2>1, <2>2
<1>6. UNCHANGED <<roots, phase, pending, deferred>>
  BY DEF ResolveImport, AfterImport
<1> QED
  BY <1>0, <1>2, <1>5, <1>6, AdvanceAccounted

\* The pass on top waits for what it calls, which begins.
LEMMA CallFalls ==
    ASSUME Accounted, stack # <<>>,
           Top.at \in {"next", "started"},
           NEW at \in {"imported", "awaited"},
           Top.at = "next" => at = "imported", Top.at = "started" => at = "awaited",
           NEW calls, \A g \in calls : g \in Frames /\ g.at = "next" /\ Begins(g),
           StepResolves({}, calls),
           (stack' = Waiting(at) /\ calls = {})
             \/ \E g \in calls : calls = {g} /\ stack' = Append(Waiting(at), g),
           UNCHANGED <<roots, phase, pending, deferred>>
    PROVE  WorkFalls
<1>1. TypeInv /\ Top \in Frames
  BY AccountedHas, TypeInvStack, GoodTop
<1>2. PICK f \in Frames :
          /\ f.pass = Top.pass /\ f.mod = Top.mod /\ f.at = at /\ f.todo = Top.todo
          /\ Turns(Waiting(at), {f}, {})
          /\ Waiting(at) \in Seq(Frames) /\ Len(Waiting(at)) = Len(stack)
  BY <1>1, TurnsWaiting
<1>3. Turns(stack', {f}, calls)
  <2>1. CASE stack' = Waiting(at) /\ calls = {}
    BY <1>2, <2>1
  <2>2. CASE \E g \in calls : calls = {g} /\ stack' = Append(Waiting(at), g)
    BY <1>1, <1>2, <2>2, TurnsCall
  <2> QED
    BY <2>1, <2>2
<1>4. Left(f) <= Left(Top) - 1 /\ Len(f.todo) <= Len(Top.todo)
  <2>1. PICK n \in Nat : n = Len(Top.todo) /\ n = Len(f.todo)
    BY <1>1, <1>2, LeftIs
  <2>2. CASE Top.at = "next"
    <3>1. Left(Top) = 2 * n + 2 /\ Left(f) = 2 * n + 1
      BY <1>1, <1>2, <2>1, <2>2, LeftIs
    <3>2. 2 * n + 1 <= (2 * n + 2) - 1 /\ n <= n
      OBVIOUS
    <3> QED
      BY <2>1, <3>1, <3>2
  <2>3. CASE Top.at = "started"
    <3>1. Left(Top) = 3 /\ Left(f) = 2
      BY <1>1, <1>2, <2>3, LeftIs
    <3> QED
      BY <2>1, <3>1
  <2> QED
    BY <2>2, <2>3
<1>5. AtMost(f, calls, Left(Top) - 1)
  BY <1>4 DEF AtMost, IsCalled
<1>6. StepEnters({f}, calls)
  BY <1>2 DEF StepEnters
<1>7. \A m \in Modules : Len(deferred'[m]) <= Len(deferred[m])
  BY <1>1, SameLens
<1> QED
  BY <1>2, <1>3, <1>4, <1>5, <1>6, <1>7, GoesOnAccounted

\* A pass over a module begins with all of its statements.
LEMMA PassLeft ==
    ASSUME TypeInv, NEW f \in Frames, f.at = "next", f.todo = Body(f.mod)
    PROVE  Len(f.todo) = Len(program[f.mod].body) /\ Left(f) < MostLeft(f.mod)
<1>1. f.mod \in Modules
  BY DEF Frames
<1>2. PICK n \in Nat : n = Len(program[f.mod].body)
  BY <1>1, BodyIndices
<1>3. f.todo = [i \in 1..n |-> i]
  BY <1>2 DEF Body
<1>4. Len(f.todo) = n
  BY <1>2, <1>3, LeftIs
<1>5. Left(f) = 2 * n + 2 /\ MostLeft(f.mod) = 2 * n + 4
  BY <1>2, <1>4, LeftIs DEF MostLeft
<1>6. 2 * n + 2 < 2 * n + 4
  OBVIOUS
<1> QED
  BY <1>2, <1>4, <1>5, <1>6

LEMMA CollectBegins ==
    ASSUME TypeInv, UNCHANGED program, NEW m \in Modules, m \notin collected, m \in collected',
           NEW g \in Frames, g.pass = "collect", g.mod = m, g.todo = Body(m), g.at = "next"
    PROVE  Begins(g)
<1>1. Owner(g) = <<"collect", m, 0>>
  BY DEF Owner
<1>2. Owner(g) \in Untouched
  BY <1>1, UntouchedCollect
<1>3. Owner(g) \notin Untouched'
  BY <1>1, NextUntouchedForm
<1> QED
  BY <1>2, <1>3, PassLeft DEF Begins

LEMMA ResolveBegins ==
    ASSUME TypeInv, UNCHANGED program, NEW m \in Modules, ~Begun(m), Begun(m)',
           NEW g \in Frames, g.pass = "resolve", g.mod = m, g.todo = Body(m), g.at = "next"
    PROVE  Begins(g)
<1>1. Owner(g) = <<"resolve", m, 0>>
  BY DEF Owner
<1>2. Owner(g) \in Untouched
  BY <1>1, UntouchedResolve
<1>3. Owner(g) \notin Untouched'
  BY <1>1, NextUntouchedForm
<1> QED
  BY <1>2, <1>3, PassLeft DEF Begins

\* What a call puts on the stack.
LEMMA CollectCalled ==
    ASSUME TypeInv, UNCHANGED program, NEW below, NEW m \in Modules, NEW st,
           NEW diags \in SUBSET Diagnostics, CallCollect(below, m, st, diags)
    PROVE  \/ stack' = below
           \/ \E g \in Frames : /\ g.pass = "collect" /\ g.at = "next" /\ Begins(g)
                                /\ stack' = Append(below, g)
<1>1. PICK g \in Frames :
            g = [pass |-> "collect", mod |-> m, todo |-> Body(m), at |-> "next", diags |-> diags]
  BY BodyType DEF Frames
<1>2. g.pass = "collect" /\ g.mod = m /\ g.todo = Body(m) /\ g.at = "next"
  BY <1>1
<1>3. CASE st = "parsed" /\ m \notin collected
  <2>1. stack' = Append(below, g) /\ m \in collected'
    BY <1>1, <1>3 DEF CallCollect
  <2>2. Begins(g)
    BY <1>2, <1>3, <2>1, CollectBegins
  <2> QED
    BY <1>2, <2>1, <2>2
<1>4. CASE ~(st = "parsed" /\ m \notin collected)
  BY <1>4 DEF CallCollect
<1> QED
  BY <1>3, <1>4
LEMMA ResolveCalled ==
    ASSUME TypeInv, UNCHANGED program, NEW below, NEW m,
           NEW diags \in SUBSET Diagnostics, CallResolve(below, m, diags)
    PROVE  \/ stack' = below
           \/ \E g \in Frames : /\ g.pass = "resolve" /\ g.at = "next" /\ Begins(g)
                                /\ ~Begun(g.mod) /\ Len(g.todo) = Len(program[g.mod].body)
                                /\ stack' = Append(below, g)
<1>1. CASE IsResolvable(m)
  <2>0. m \in Modules
    BY <1>1 DEF IsResolvable, TypeInv, TypeOK
  <2>1. PICK g \in Frames :
            g = [pass |-> "resolve", mod |-> m, todo |-> Body(m), at |-> "next", diags |-> diags]
    BY <2>0, BodyType DEF Frames
  <2>2. g.pass = "resolve" /\ g.mod = m /\ g.todo = Body(m) /\ g.at = "next"
    BY <2>1
  <2>3. stack' = Append(below, g) /\ ~Begun(m)
    BY <1>1, <2>1 DEF CallResolve, IsResolvable, Begun
  <2>4. PICK st \in {"resolving", "poisonedResolving"} : state' = [state EXCEPT ![m] = st]
    BY <1>1 DEF CallResolve
  <2>5. state'[m] = st
    BY <2>0, <2>4 DEF TypeInv, TypeOK
  <2>6. Begun(m)'
    BY <2>5 DEF Begun
  <2>7. Begins(g)
    BY <2>0, <2>2, <2>3, <2>6, ResolveBegins
  <2> QED
    BY <2>2, <2>3, <2>7, PassLeft
<1>2. CASE ~IsResolvable(m)
  BY <1>2 DEF CallResolve
<1> QED
  BY <1>1, <1>2

LEMMA CallAccounted ==
    ASSUME Accounted, CollectImport \/ (ResolveImport /\ Here \in linked) \/ AwaitModule
    PROVE  WorkFalls
<1>0. TypeInv /\ UNCHANGED program /\ stack # <<>>
  BY AccountedHas DEF CollectImport, ResolveImport, AwaitModule, Statement, Resolving, Running
<1>1. {} \in SUBSET Diagnostics
  OBVIOUS
<1>2. Top \in Frames /\ FitsProgram(program, Top)
  BY <1>0, TypeInvStack, GoodTop
<1>3. UNCHANGED <<roots, phase, pending, deferred>>
  BY DEF CollectImport, ResolveImport, AwaitModule
<1>4. PICK at \in {"imported", "awaited"} :
        /\ (Top.at = "next" /\ at = "imported") \/ (Top.at = "started" /\ at = "awaited")
        /\ \/ stack' = Waiting(at)
           \/ \E g \in Frames :
                /\ g.pass \in {"collect", "resolve"} /\ g.at = "next" /\ Begins(g)
                /\ g.pass = "resolve" => ~Begun(g.mod) /\ Len(g.todo) = Len(program[g.mod].body)
                /\ stack' = Append(Waiting(at), g)
  <2>1. CASE CollectImport
    <3>1. This.to \in Modules /\ Top.at = "next" /\ \E st : CallCollect(Waiting("imported"), This.to, st, {})
      BY <2>1 DEF CollectImport, Running
    <3> QED
      BY <1>0, <1>1, <3>1, CollectCalled
  <2>2. CASE ResolveImport /\ Here \in linked
    <3>1. Top.at = "next" /\ CallResolve(Waiting("imported"), This.to, {})
      BY <2>2 DEF ResolveImport, Statement, Resolving, Running
    <3> QED
      BY <1>0, <1>1, <3>1, ResolveCalled
  <2>3. CASE AwaitModule
    <3>1. This.to \in Modules /\ Top.at = "started" /\ CallResolve(Waiting("awaited"), This.to, {})
      BY <2>3 DEF AwaitModule, Running, NamesImport
    <3> QED
      BY <1>0, <1>1, <3>1, ResolveCalled
  <2> QED
    BY <2>1, <2>2, <2>3
<1>5. CASE stack' = Waiting(at)
  <2>1. StepResolves({}, {})
    BY DEF StepResolves
  <2>2. \A g \in {} : g \in Frames /\ g.at = "next" /\ Begins(g)
    OBVIOUS
  <2>3. Top.at \in {"next", "started"} /\ (Top.at = "next" => at = "imported")
          /\ (Top.at = "started" => at = "awaited")
    BY <1>4
  <2>4. \E calls : calls = {} /\ stack' = Waiting(at)
    BY <1>5
  <2> QED
    BY <1>0, <1>3, <1>5, <2>1, <2>2, <2>3, CallFalls
<1>6. ASSUME NEW g \in Frames, g.pass \in {"collect", "resolve"}, g.at = "next", Begins(g),
             g.pass = "resolve" => ~Begun(g.mod) /\ Len(g.todo) = Len(program[g.mod].body),
             stack' = Append(Waiting(at), g)
      PROVE  WorkFalls
  <2>1. StepResolves({}, {g})
    BY <1>6 DEF StepResolves
  <2>2. \A h \in {g} : h \in Frames /\ h.at = "next" /\ Begins(h)
    BY <1>6
  <2>3. Top.at \in {"next", "started"} /\ (Top.at = "next" => at = "imported")
          /\ (Top.at = "started" => at = "awaited")
    BY <1>4
  <2>4. \E h \in {g} : {g} = {h} /\ stack' = Append(Waiting(at), h)
    BY <1>6
  <2> QED
    BY <1>0, <1>3, <2>1, <2>2, <2>3, <2>4, CallFalls
<1> QED
  BY <1>4, <1>5, <1>6

\* A test that is put off is a statement less to come to.
LEMMA PutOffFits ==
    ASSUME Accounted, PutOffTest, NEW f \in Frames, f.mod = Top.mod, f.todo = Tail(Top.todo),
           Turns(stack', {f}, {})
    PROVE  TestsFit'
<1>0. TypeInv /\ TypeInv' /\ TestsFit /\ OwnersOnce /\ EntersOnce /\ UNCHANGED program
  BY AccountedHas
<1>1. /\ stack # <<>> /\ Top.pass = "resolve" /\ Top.at = "next" /\ Top.todo # <<>>
  BY DEF PutOffTest, Statement, Resolving, Running, IsPutOff
<1>2. Top \in Frames /\ Top.mod \in Modules
  BY <1>0, <1>1, TypeInvStack, GoodTop DEF Frames
<1>3. /\ Len(stack) \in DOMAIN stack /\ Top = stack[Len(stack)] /\ stack' \in Seq(Frames)
      /\ stack \in Seq(Frames)
  BY <1>0, <1>1, StackIs, NextStackIs
<1>4. PICK m \in Modules : m = Top.mod
  BY <1>2
<1>5. \A l \in Modules : Len(deferred[l]) \in Nat /\ Len(program[l].body) \in Nat
  BY <1>0, BodyIndices DEF TypeInv, TypeOK
<1>6. \A l \in Modules : l # m => deferred'[l] = deferred[l]
  BY <1>0, <1>4 DEF PutOffTest, TypeInv, TypeOK
<1>7. Len(deferred'[m]) <= Len(deferred[m]) + 1 /\ Len(deferred'[m]) \in Nat
  <2>1. CASE Testing
    <3>1. deferred'[m] = Append(deferred[m], Head(Top.todo))
      BY <1>0, <1>4, <2>1 DEF PutOffTest, TypeInv, TypeOK
    <3>2. deferred[m] \in Seq(Indices) /\ Head(Top.todo) \in Indices
      BY <1>0, <1>1, HereType DEF TypeInv, TypeOK
    <3>3. Len(deferred'[m]) = Len(deferred[m]) + 1
      BY <3>1, <3>2
    <3> QED
      BY <1>5, <3>3
  <2>2. CASE ~Testing
    <3>1. deferred' = deferred
      BY <2>2 DEF PutOffTest
    <3> QED
      BY <1>5, <3>1
  <2> QED
    BY <2>1, <2>2, FlagsAssumption
<1>8. PICK a, b, c, t \in Nat : /\ a = Len(deferred[m]) /\ b = Len(deferred'[m])
                                /\ c = Len(program[m].body) /\ t = Len(Top.todo)
                                /\ t > 0
  <2>1. Len(Top.todo) \in Nat /\ Len(Top.todo) > 0
    BY <1>1, <1>2 DEF Frames
  <2> QED
    BY <1>5, <1>7, <2>1
<1>9. a + t <= c
  BY <1>1, <1>3, <1>4, <1>8, <1>0 DEF TestsFit
<1>10. Len(f.todo) = t - 1
  BY <1>1, <1>2, <1>8 DEF Frames
<1>11. b <= c /\ b + (t - 1) <= c
  <2>1. a \in Nat /\ b \in Nat /\ c \in Nat /\ t \in Nat /\ t > 0 /\ b <= a + 1 /\ a + t <= c
    BY <1>7, <1>8, <1>9
  <2> QED
    BY <2>1
<1>12. \A l \in Modules : Len(deferred'[l]) <= Len(program[l].body)
  BY <1>0, <1>6, <1>8, <1>11 DEF TestsFit
<1>13. ASSUME NEW k \in DOMAIN stack', stack'[k].pass = "resolve", stack'[k].at # "draining"
       PROVE  Len(deferred'[stack'[k].mod]) + Len(stack'[k].todo) <= Len(program[stack'[k].mod].body)
  <2>1. CASE k \in DOMAIN stack /\ k < Len(stack) /\ SameFrame(stack'[k], stack[k])
    <3>1. stack[k].pass = "resolve" /\ stack[k].at # "draining"
      BY <1>13, <2>1 DEF SameFrame
    <3>2. stack[k].at # "entered"
      BY <1>0, <2>1, <3>1 DEF EntersOnce
    <3>3. stack[k].mod # m
      <4>1. SUFFICES ASSUME stack[k].mod = m PROVE FALSE
        OBVIOUS
      <4>2. Owner(stack[k]) = Owner(stack[Len(stack)])
        <5>1. Owner(stack[k]) = <<"resolve", m, 0>>
          BY <3>1, <4>1 DEF Owner
        <5>2. Owner(Top) = <<"resolve", m, 0>>
          BY <1>1, <1>4 DEF Owner
        <5> QED
          BY <1>3, <5>1, <5>2
      <4>3. k = Len(stack)
        BY <1>0, <1>1, <1>3, <2>1, <3>2, <4>2 DEF OwnersOnce
      <4>4. Len(stack) \in Nat
        BY <1>3
      <4> QED
        BY <2>1, <4>3, <4>4
    <3>4. stack[k].mod \in Modules
      <4>1. stack[k] \in Frames
        BY <1>3, <2>1
      <4> QED
        BY <4>1 DEF Frames
    <3>5. deferred'[stack[k].mod] = deferred[stack[k].mod]
      BY <1>6, <3>3, <3>4
    <3>6. Len(deferred[stack[k].mod]) + Len(stack[k].todo) <= Len(program[stack[k].mod].body)
      BY <1>0, <2>1, <3>1 DEF TestsFit
    <3>7. stack'[k].mod = stack[k].mod /\ stack'[k].todo = stack[k].todo
      BY <2>1 DEF SameFrame
    <3>8. PICK l, todo : l = stack[k].mod /\ todo = stack[k].todo
      OBVIOUS
    <3>9. Len(deferred'[l]) + Len(todo) <= Len(program[l].body)
      BY <3>5, <3>6, <3>8
    <3> QED
      BY <3>7, <3>8, <3>9
  <2>2. CASE stack'[k] = f
    BY <1>4, <1>8, <1>10, <1>11, <2>2
  <2>3. (k \in DOMAIN stack /\ k < Len(stack) /\ SameFrame(stack'[k], stack[k])) \/ stack'[k] = f
    BY <1>0, <1>3, TurnsFrom
  <2> QED
    BY <2>1, <2>2, <2>3
<1> QED
  BY <1>0, <1>12, <1>13 DEF TestsFit

LEMMA PutOffAccounted ==
    ASSUME Accounted, PutOffTest
    PROVE  WorkFalls
<1>0. TypeInv /\ stack # <<>> /\ Top.pass # "declare" /\ Top.at = "next" /\ Top.todo # <<>>
  BY AccountedHas DEF PutOffTest, Statement, Resolving, Running
<1>1. Top \in Frames
  BY <1>0, TypeInvStack, GoodTop
<1>2. PICK diags \in SUBSET Diagnostics : stack' = Advanced(diags)
  BY DEF PutOffTest
<1>3. PICK f \in Frames :
          /\ f.pass = Top.pass /\ f.mod = Top.mod /\ f.at = "next" /\ f.todo = Tail(Top.todo)
          /\ Turns(stack', {f}, {})
  BY <1>0, <1>2, TurnsAdvanced
<1>4. Left(f) <= Left(Top) - 1 /\ Len(f.todo) <= Len(Top.todo)
  BY <1>0, <1>1, <1>3, TailLeft
<1>5. AtMost(f, {}, Left(Top) - 1)
  BY <1>4 DEF AtMost, IsCalled
<1>6. StepEnters({f}, {}) /\ StepResolves({}, {})
  BY <1>0, <1>3 DEF StepEnters, StepResolves
<1>7. TestsFit'
  BY <1>3, PutOffFits
<1>8. UNCHANGED <<roots, phase, pending>>
  BY DEF PutOffTest
<1> QED
  BY <1>0, <1>3, <1>4, <1>5, <1>6, <1>7, <1>8, GoesOnAccounted

\* A pass comes to a declaration of its own file only when none is under way.
LEMMA HereIsNotUnderWay ==
    ASSUME Accounted, ~cancelled, stack # <<>>, Top.pass \in {"resolve", "tests"},
           Top.at = "next", Here \in Nodes
    PROVE  symbol[Here] # "resolving"
<1> SUFFICES ASSUME symbol[Here] = "resolving" PROVE FALSE
  OBVIOUS
<1>0. /\ TypeInv /\ StackShape /\ HalfDoneIsUnderWay /\ EntersOnce /\ OwnersBegun /\ OwnersOnce
      /\ DeclaredAtHome
  BY AccountedHas DEF ProgressInv, Progress
<1>1. /\ stack \in Seq(Frames) /\ Len(stack) \in Nat /\ DOMAIN stack = 1..Len(stack)
      /\ Len(stack) \in DOMAIN stack /\ Top = stack[Len(stack)] /\ Top \in Frames
  BY <1>0, StackIs
<1>2. PICK m \in Modules : m = Top.mod
  BY <1>1 DEF Frames
<1>3. PICK k \in DOMAIN stack : stack[k].pass = "declare" /\ stack[k].mod = m
  BY <1>0, <1>2 DEF HalfDoneIsUnderWay, SymbolsUnderWay, Declares, Here
<1>4. PICK p \in DOMAIN stack : p < k /\ stack[p].pass # "declare" /\ stack[p].at # "draining"
                                 /\ stack[p].mod = m
  BY <1>0, <1>3 DEF DeclaredAtHome, Hosts
<1>5. p # Len(stack)
  BY <1>1, <1>3, <1>4
<1>6. stack[p].at # "entered"
  BY <1>0, <1>4 DEF EntersOnce
<1>7. stack[p].pass \in {"resolve", "tests"}
  <2>1. stack[p] \in Frames
    BY <1>1
  <2>2. stack[p].pass # "collect"
    BY <1>0, <1>1 DEF StackShape
  <2> QED
    BY <1>4, <2>1, <2>2 DEF Frames
<1>8. stack[p].pass # Top.pass
  <2>1. SUFFICES ASSUME stack[p].pass = Top.pass PROVE FALSE
    OBVIOUS
  <2>2. Owner(stack[p]) = <<Top.pass, m, 0>>
    BY <1>4, <2>1 DEF Owner
  <2>3. Owner(Top) = <<Top.pass, m, 0>>
    BY <1>2 DEF Owner
  <2> QED
    BY <1>0, <1>1, <1>5, <1>6, <2>2, <2>3 DEF OwnersOnce
<1>9. Resolves(stack, m)
  BY <1>1, <1>2, <1>4, <1>7, <1>8 DEF Resolves
<1>10. <<"tests", m, 0>> \in Untouched
  BY <1>9, UntouchedTests
<1>11. CASE Top.pass = "tests"
  <2>1. Owner(Top) = <<"tests", m, 0>>
    BY <1>2, <1>11 DEF Owner
  <2> QED
    BY <1>0, <1>1, <1>10, <2>1 DEF OwnersBegun
<1>12. CASE stack[p].pass = "tests"
  <2>1. Owner(stack[p]) = <<"tests", m, 0>>
    BY <1>4, <1>12 DEF Owner
  <2> QED
    BY <1>0, <1>6, <1>10, <2>1 DEF OwnersBegun
<1> QED
  BY <1>7, <1>8, <1>11, <1>12

\* The frame of a declaration that is called.
LEMMA DeclareIs ==
    ASSUME NEW n \in Nodes
    PROVE  \E g \in Frames :
              /\ g.pass = "declare" /\ g.at = "entered" /\ Place(g) = n
              /\ \A below : Declare(below, n) = Append(below, g)
<1>1. n = <<n[1], n[2]>> /\ n[1] \in Modules /\ <<n[2]>> \in Seq(Indices) /\ Head(<<n[2]>>) = n[2]
  BY DEF Nodes
<1>2. PICK g \in Frames : g = [pass |-> "declare", mod |-> n[1], todo |-> <<n[2]>>,
                              at |-> "entered", diags |-> {}]
  BY <1>1 DEF Frames
<1>3. g.pass = "declare" /\ g.at = "entered" /\ g.mod = n[1] /\ g.todo = <<n[2]>>
  BY <1>2
<1>4. Place(g) = n
  BY <1>1, <1>3 DEF Place
<1>5. \A below : Declare(below, n) = Append(below, g)
  BY <1>2 DEF Declare
<1> QED
  BY <1>3, <1>4, <1>5

LEMMA DeclAccounted ==
    ASSUME Accounted, ResolveDecl
    PROVE  WorkFalls
<1>0. /\ TypeInv /\ ~cancelled /\ stack # <<>> /\ Top.pass \in {"resolve", "tests"} /\ Top.at = "next"
      /\ Top.todo # <<>>
  BY AccountedHas DEF ResolveDecl, Statement, Resolving, Running
<1>1. Top \in Frames
  BY <1>0, TypeInvStack, GoodTop
<1>2. PICK n \in Nodes : n = Here
  BY <1>0, HereType
<1>3. symbol[n] # "resolving"
  BY <1>0, <1>2, HereIsNotUnderWay
<1>4. PICK g \in Frames :
              /\ g.pass = "declare" /\ g.at = "entered" /\ Place(g) = n
              /\ \A below : Declare(below, n) = Append(below, g)
  BY DeclareIs
<1>5. PICK diags \in SUBSET Diagnostics : stack' = Append(Advanced(diags), g)
  BY <1>2, <1>4 DEF ResolveDecl
<1>6. PICK f \in Frames :
          /\ f.pass = Top.pass /\ f.mod = Top.mod /\ f.at = "next" /\ f.todo = Tail(Top.todo)
          /\ Turns(Advanced(diags), {f}, {})
          /\ Advanced(diags) \in Seq(Frames) /\ Len(Advanced(diags)) = Len(stack)
  BY <1>0, TurnsAdvanced
<1>7. Turns(stack', {f}, {g})
  BY <1>0, <1>5, <1>6, TurnsCall
<1>8. Left(f) <= Left(Top) - 1 /\ LeftEntering(f) <= Left(Top) - 1 /\ Len(f.todo) <= Len(Top.todo)
  BY <1>0, <1>1, <1>6, TailLeft
<1>9. AtMost(f, {g}, Left(Top) - 1)
  BY <1>8 DEF AtMost
<1>10. UNCHANGED <<roots, phase, pending, symbol>>
  BY DEF ResolveDecl
<1>11. StepEnters({f}, {g})
  BY <1>0, <1>3, <1>4, <1>6, <1>10 DEF StepEnters
<1>12. StepResolves({}, {g})
  BY <1>4 DEF StepResolves
<1>13. \A m \in Modules : Len(deferred'[m]) <= Len(deferred[m])
  BY <1>0, SameLens DEF ResolveDecl
<1> QED
  BY <1>0, <1>4, <1>6, <1>7, <1>8, <1>9, <1>10, <1>11, <1>12, <1>13, GoesOnAccounted

LEMMA TargetAccounted ==
    ASSUME Accounted, ResolveTarget
    PROVE  WorkFalls
<1>0. /\ TypeInv /\ stack # <<>> /\ Top.pass = "declare" /\ This.to \in Modules
      /\ Top.at \in {"looking", "awaited", "started"}
      /\ UNCHANGED <<roots, phase, pending, symbol>>
  BY AccountedHas DEF ResolveTarget, CanLook
<1>1. Top \in Frames /\ Len(stack) \in DOMAIN stack /\ Top = stack[Len(stack)]
      /\ DOMAIN stack = 1..Len(stack) /\ Len(stack) \in Nat
  BY <1>0, StackIs
<1>2. PICK n \in Nodes : n = Target
  BY <1>0, TargetType
<1>3. symbol[n] = "unresolved"
  BY <1>2 DEF ResolveTarget
<1>4. Aim(Top) = n
  BY <1>2 DEF Aim, Current, Target, This
<1>5. Top.at # "looking"
  <2>1. SUFFICES ASSUME Top.at = "looking" PROVE FALSE
    OBVIOUS
  <2>2. Len(stack) + 1 \in DOMAIN stack
    BY <1>1, <1>3, <1>4, <2>1, AccountedHas DEF LooksOnce
  <2> QED
    BY <1>1, <2>2
<1>6. PICK g \in Frames :
              /\ g.pass = "declare" /\ g.at = "entered" /\ Place(g) = n
              /\ \A below : Declare(below, n) = Append(below, g)
  BY DeclareIs
<1>7. PICK f \in Frames :
          /\ f.pass = Top.pass /\ f.mod = Top.mod /\ f.at = "looking" /\ f.todo = Top.todo
          /\ Turns(Waiting("looking"), {f}, {})
          /\ Waiting("looking") \in Seq(Frames) /\ Len(Waiting("looking")) = Len(stack)
  BY <1>0, TurnsWaiting
<1>8. stack' = Append(Waiting("looking"), g)
  BY <1>2, <1>6 DEF ResolveTarget
<1>9. Turns(stack', {f}, {g})
  BY <1>0, <1>7, <1>8, TurnsCall
<1>10. Left(f) = 1 /\ LeftEntering(f) = 1 /\ Left(Top) \in {2, 3}
  BY <1>0, <1>1, <1>5, <1>7, LeftIs
<1>11. AtMost(f, {g}, Left(Top) - 1)
  BY <1>10 DEF AtMost
<1>12. Aim(f) = n
  BY <1>4, <1>7 DEF Aim, Current
<1>13. StepEnters({f}, {g})
  BY <1>0, <1>3, <1>6, <1>7, <1>12 DEF StepEnters
<1>14. StepResolves({}, {g})
  BY <1>6 DEF StepResolves
<1>15. \A m \in Modules : Len(deferred'[m]) <= Len(deferred[m])
  BY <1>0, SameLens DEF ResolveTarget
<1>16. Len(f.todo) <= Len(Top.todo)
  BY <1>1, <1>7, LeftIs
<1> QED
  BY <1>0, <1>6, <1>7, <1>9, <1>11, <1>13, <1>14, <1>15, <1>16, GoesOnAccounted

LEMMA EndsAccounted ==
    ASSUME Accounted, EndCollect \/ EndTests \/ EndDraining \/ Finishing
    PROVE  WorkFalls
<1>0. TypeInv
  BY AccountedHas
<1>1. CASE EndCollect \/ EndTests \/ EndDraining
  <2>1. /\ stack # <<>> /\ Top.at \in {"next", "draining"} /\ stack' = Popped
        /\ UNCHANGED <<roots, phase, pending, deferred>>
    BY <1>1 DEF EndCollect, EndTests, EndDraining, Running
  <2>2. Turns(stack', {}, {})
    BY <1>0, <2>1, TurnsPopped
  <2> QED
    BY <2>1, <2>2, EndAccounted
<1>2. CASE Finishing
  <2>1. stack # <<>> /\ Top.at # "entered"
    BY <1>2 DEF Finishing, FinishLiteral, FinishUndeclared, FinishPoisonedAlias,
         FinishPoisonedModule, FinishReference, FinishCycle, CanLook, Running
  <2>2. PICK status \in {"resolved", "poisoned"}, diags \in SUBSET Diagnostics :
            \E others : Finish(status, others, diags)
    BY <1>0, <1>2, FinishingForm
  <2>3. stack' = Reported(Popped, diags) /\ UNCHANGED <<roots, phase, pending, deferred>>
    BY <2>2 DEF Finish
  <2>4. Turns(stack', {}, {})
    BY <1>0, <2>1, <2>3, TurnsReported
  <2> QED
    BY <2>1, <2>3, <2>4, EndAccounted
<1> QED
  BY <1>1, <1>2

\* A module is queued when its resolution ends, which is once.
LEMMA QueueGrows ==
    ASSUME Accounted, NEW m \in Modules, stack # <<>>, Top.pass = "resolve", Top.mod = m,
           Top.at = "next", NEW tops, Turns(stack', tops, {}), \A f \in tops : f.at = "draining",
           pending' = pending \/ pending' = Append(pending, m)
    PROVE  /\ QueuedOnce'
           /\ \A q \in Modules : Queued(q)' => Queued(q) \/ Resolves(stack, q)
<1>0. TypeInv /\ TypeInv' /\ Onward /\ OwnersOnce /\ EntersOnce /\ QueuedOnce
  BY AccountedHas
<1>1. /\ stack \in Seq(Frames) /\ Len(stack) \in Nat /\ stack' \in Seq(Frames)
      /\ Len(stack) \in DOMAIN stack /\ Top = stack[Len(stack)]
  BY <1>0, StackIs, NextStackIs
<1>2. pending \in Seq(Modules) /\ Len(pending) \in Nat
  BY <1>0 DEF TypeInv, TypeOK
<1>3. Resolves(stack, m) /\ Begun(m)
  <2>1. Resolves(stack, m)
    BY <1>1 DEF Resolves
  <2> QED
    BY <2>1, AccountedHas, BegunWhen
<1>4. ~Queued(m)
  BY <1>3, <1>0 DEF QueuedOnce, Queued
<1>5. ~Resolves(stack', m)
  <2>1. SUFFICES ASSUME NEW k \in DOMAIN stack', stack'[k].pass = "resolve", stack'[k].mod = m,
                        stack'[k].at # "draining"
                 PROVE  FALSE
    BY DEF Resolves
  <2>2. k \in DOMAIN stack /\ k < Len(stack) /\ SameFrame(stack'[k], stack[k])
    BY <1>0, <1>1, <2>1, TurnsFrom
  <2>3. stack[k].at # "entered"
    BY <1>0, <2>1, <2>2 DEF EntersOnce, SameFrame
  <2>4. Owner(stack[k]) = <<"resolve", m, 0>>
    BY <2>1, <2>2 DEF Owner, SameFrame
  <2>5. Owner(Top) = <<"resolve", m, 0>>
    BY DEF Owner
  <2>6. k = Len(stack)
    BY <1>0, <1>1, <2>2, <2>3, <2>4, <2>5 DEF OwnersOnce
  <2> QED
    BY <1>1, <2>2, <2>6
<1>6. ASSUME NEW q \in Modules, Queued(q) PROVE Begun(q)' /\ ~Resolves(stack', q)
  <2>1. Begun(q) /\ ~Resolves(stack, q)
    BY <1>0, <1>6 DEF Queued, QueuedOnce
  <2>2. StepResolves(tops, {})
    BY DEF StepResolves
  <2> QED
    BY <1>0, <2>1, <2>2, ResolvesFollow DEF Onward
<1>7. Begun(m)'
  BY <1>0, <1>3 DEF Onward
<1>8. \A j \in DOMAIN pending' :
        /\ pending'[j] \in Modules
        /\ (j \in DOMAIN pending /\ pending'[j] = pending[j] /\ Queued(pending'[j]))
             \/ (j = Len(pending) + 1 /\ pending'[j] = m)
  <2>1. \A j \in DOMAIN pending : pending[j] \in Modules /\ Queued(pending[j])
    BY <1>2 DEF Queued
  <2>2. CASE pending' = pending
    BY <2>1, <2>2
  <2>3. CASE pending' = Append(pending, m)
    <3>1. /\ DOMAIN pending' = 1..(Len(pending) + 1) /\ DOMAIN pending = 1..Len(pending)
          /\ \A k \in 1..Len(pending) : pending'[k] = pending[k]
          /\ pending'[Len(pending) + 1] = m
          /\ Len(pending) \in Nat
      BY <1>2, <2>3, AppendIs
    <3>2. \A j \in DOMAIN pending' : j \in DOMAIN pending \/ j = Len(pending) + 1
      BY <3>1
    <3> QED
      BY <2>1, <3>1, <3>2
  <2> QED
    BY <2>2, <2>3
<1>9. ASSUME NEW j \in DOMAIN pending' PROVE Begun(pending[j])' /\ ~Resolves(stack', pending'[j])
  <2>1. PICK q \in Modules : q = pending'[j] /\ (Queued(q) \/ q = m)
    BY <1>8
  <2>2. Begun(q)' /\ ~Resolves(stack', q)
    BY <1>5, <1>6, <1>7, <2>1
  <2> QED
    BY <2>1, <2>2 DEF Begun
<1>10. \A i, j \in DOMAIN pending' : pending'[i] = pending'[j] => i = j
  BY <1>0, <1>4, <1>8 DEF QueuedOnce
<1>11. QueuedOnce'
  BY <1>9, <1>10 DEF QueuedOnce, Resolves
<1>12. ASSUME NEW q \in Modules, Queued(q)' PROVE Queued(q) \/ Resolves(stack, q)
  <2>1. PICK j \in DOMAIN pending' : pending'[j] = q
    BY <1>12 DEF Queued
  <2> QED
    BY <1>3, <1>8, <2>1
<1> QED
  BY <1>11, <1>12

LEMMA ResolveEnds ==
    ASSUME Accounted, EndResolve
    PROVE  WorkFalls
<1>0. /\ TypeInv /\ stack # <<>> /\ Top.pass = "resolve" /\ Top.at = "next"
      /\ UNCHANGED <<roots, phase, deferred>>
  BY AccountedHas DEF EndResolve, Running
<1>1. Top \in Frames /\ Top.mod \in Modules
  BY <1>0, TypeInvStack, GoodTop DEF Frames
<1>2. PICK m \in Modules : m = Top.mod
  BY <1>1
<1>3. PICK tops :
        /\ Turns(stack', tops, {})
        /\ \A f \in tops : /\ f \in Frames /\ f.pass = Top.pass /\ f.mod = Top.mod
                           /\ f.at = "draining" /\ f.todo = Top.todo
  <2>1. CASE stack' = Waiting("draining")
    <3>1. PICK f \in Frames :
            /\ f.pass = Top.pass /\ f.mod = Top.mod /\ f.at = "draining"
            /\ f.todo = Top.todo
            /\ Turns(stack', {f}, {})
      BY <1>0, <2>1, TurnsWaiting
    <3> QED
      BY <3>1
  <2>2. CASE stack' = Popped
    <3>1. Turns(stack', {}, {})
      BY <1>0, <2>2, TurnsPopped
    <3> QED
      BY <3>1
  <2> QED
    BY <2>1, <2>2 DEF EndResolve
<1>4. pending' = pending \/ pending' = Append(pending, m)
  BY <1>2 DEF EndResolve
<1>5. /\ QueuedOnce'
      /\ \A q \in Modules : Queued(q)' => Queued(q) \/ Resolves(stack, q)
  BY <1>0, <1>2, <1>3, <1>4, QueueGrows
<1>6. StepEnters(tops, {}) /\ StepResolves(tops, {})
  BY <1>0, <1>3 DEF StepEnters, StepResolves
<1>7. \A q \in Modules : Resolves(stack', q) => Resolves(stack, q) \/ ~Begun(q)
  BY <1>3, <1>6, AccountedHas, ResolvesFollow
<1>8. Untouched' \subseteq Untouched
  BY <1>5, <1>7, AccountedHas, UntouchedFalls
<1>9. RootsLeft' <= RootsLeft
  BY <1>0, SameRoots
<1>10. \A f \in tops : AtMost(f, {}, Left(Top) - 1) /\ AtMost(f, {}, Left(Top)) /\ Owner(f) = Owner(Top)
  <2>1. SUFFICES ASSUME NEW f \in tops
                 PROVE  AtMost(f, {}, Left(Top) - 1) /\ AtMost(f, {}, Left(Top)) /\ Owner(f) = Owner(Top)
    OBVIOUS
  <2>2. PICK n \in Nat : n = Len(Top.todo)
    BY <1>1, LeftIs
  <2>3. Left(Top) = 2 * n + 2 /\ Left(f) = 1
    BY <1>0, <1>1, <1>3, <2>2, LeftIs
  <2>4. 1 <= (2 * n + 2) - 1 /\ 1 <= 2 * n + 2
    OBVIOUS
  <2>5. Owner(f) = Owner(Top)
    BY <1>0, <1>3 DEF Owner
  <2> QED
    BY <2>3, <2>4, <2>5 DEF AtMost, IsCalled
<1>11. StepCounts(tops, {})
  BY <1>0, <1>3, <1>8, <1>9, <1>10, AccountedHas DEF StepCounts
<1>12. Counted(tops, {})
  BY <1>11, AccountedHas DEF Counted
<1>13. EntersOnce' /\ LooksOnce'
  BY <1>6, <1>12, AccountedHas, EntersFollow
<1>14. OwnersBegun' /\ OwnersOnce'
  BY <1>12, OwnersFollow
<1>15. TestsFit'
  BY <1>0, <1>3, <1>6, AccountedHas, SameLens, TestsFollow
<1>16. Work' \subseteq Work /\ Work' # Work
  BY <1>12, WorkCounts
<1> QED
  BY <1>5, <1>13, <1>14, <1>15, <1>16 DEF WorkFalls, LeftInv

\* The queue without its first module.
LEMMA QueueShrinks ==
    ASSUME Accounted, NEW m \in Modules, pending # <<>>, m = Head(pending), pending' = Tail(pending),
           \A q \in Modules : Resolves(stack', q) => Resolves(stack, q) \/ ~Begun(q)
    PROVE  /\ Queued(m) /\ Begun(m) /\ ~Resolves(stack, m) /\ ~Queued(m)' /\ QueuedOnce'
           /\ \A q \in Modules : Queued(q)' => Queued(q)
<1>0. TypeInv /\ Onward /\ QueuedOnce
  BY AccountedHas
<1>1. pending \in Seq(Modules)
  BY <1>0 DEF TypeInv, TypeOK
<1>2. /\ pending[1] = m /\ 1 \in DOMAIN pending
      /\ \A j \in DOMAIN pending' : j + 1 \in DOMAIN pending /\ pending'[j] = pending[j + 1] /\ j \in Nat /\ j > 0
  <2>1. Len(pending') = Len(pending) - 1 /\ Len(pending) \in Nat /\ Len(pending) > 0
        /\ pending' \in Seq(Modules) /\ pending[1] = m
        /\ \A j \in 1..(Len(pending) - 1) : pending'[j] = pending[j + 1]
    BY <1>1
  <2>2. DOMAIN pending' = 1..(Len(pending) - 1) /\ DOMAIN pending = 1..Len(pending)
    BY <1>1, <2>1
  <2> QED
    BY <2>1, <2>2
<1>3. Queued(m)
  BY <1>2 DEF Queued
<1>4. Begun(m) /\ ~Resolves(stack, m)
  BY <1>0, <1>2 DEF QueuedOnce
<1>5. ~Queued(m)'
  <2>1. ASSUME NEW j \in DOMAIN pending', pending'[j] = m PROVE FALSE
    <3>1. pending[j + 1] = pending[1] /\ j + 1 \in DOMAIN pending /\ 1 \in DOMAIN pending
      BY <1>2, <2>1
    <3>2. j + 1 = 1
      BY <1>0, <3>1 DEF QueuedOnce
    <3> QED
      BY <1>2, <3>2
  <2> QED
    BY <2>1 DEF Queued
<1>6. \A q \in Modules : Queued(q)' => Queued(q)
  BY <1>2 DEF Queued
<1>7. \A i, j \in DOMAIN pending' : pending'[i] = pending'[j] => i = j
  <2>1. SUFFICES ASSUME NEW i \in DOMAIN pending', NEW j \in DOMAIN pending', pending'[i] = pending'[j]
                 PROVE  i = j
    OBVIOUS
  <2>2. pending[i + 1] = pending[j + 1] /\ i + 1 \in DOMAIN pending /\ j + 1 \in DOMAIN pending
        /\ i \in Nat /\ j \in Nat
    BY <1>2, <2>1
  <2>3. i + 1 = j + 1
    BY <1>0, <2>2 DEF QueuedOnce
  <2> QED
    BY <2>2, <2>3
<1>8. ASSUME NEW j \in DOMAIN pending' PROVE Begun(pending[j])' /\ ~Resolves(stack', pending'[j])
  <2>1. PICK q \in Modules : q = pending'[j] /\ Begun(q) /\ ~Resolves(stack, q)
    <3>1. pending'[j] = pending[j + 1] /\ j + 1 \in DOMAIN pending /\ pending[j + 1] \in Modules
      BY <1>1, <1>2
    <3> QED
      BY <1>0, <3>1 DEF QueuedOnce
  <2>2. Begun(q)' /\ ~Resolves(stack', q)
    BY <1>0, <2>1 DEF Onward
  <2> QED
    BY <2>1, <2>2 DEF Begun
<1>9. QueuedOnce'
  BY <1>7, <1>8 DEF QueuedOnce, Resolves
<1> QED
  BY <1>3, <1>4, <1>5, <1>6, <1>9

LEMMA TestsAccounted ==
    ASSUME Accounted, StartTests
    PROVE  WorkFalls
<1>0. /\ TypeInv /\ TypeInv' /\ stack # <<>> /\ Top.pass = "resolve" /\ Top.at = "draining" /\ pending # <<>>
      /\ UNCHANGED <<roots, phase, program>>
  BY AccountedHas DEF StartTests, Running
<1>1. Top \in Frames /\ pending \in Seq(Modules) /\ deferred \in [Modules -> Seq(Indices)]
  BY <1>0, TypeInvStack, GoodTop DEF TypeInv, TypeOK
<1>2. PICK m \in Modules : m = Head(pending)
  BY <1>0, <1>1
<1>3. PICK g \in Frames : g = [pass |-> "tests", mod |-> m, todo |-> deferred[m],
                              at |-> "next", diags |-> {}]
  BY <1>1 DEF Frames
<1>4. g.pass = "tests" /\ g.mod = m /\ g.todo = deferred[m] /\ g.at = "next" /\ stack' = Append(stack, g)
  BY <1>2, <1>3 DEF StartTests
<1>5. Turns(stack', {Top}, {g})
  <2>1. Turns(stack, {Top}, {})
    BY <1>0, StackIs DEF Turns, SameFrame
  <2>2. PICK s \in Seq(Frames) : s = stack
    BY <1>0, StackIs
  <2>3. Len(s) = Len(stack) /\ Turns(s, {Top}, {})
    BY <2>1, <2>2
  <2>4. Turns(Append(s, g), {Top}, {g})
    BY <1>0, <2>3, TurnsCall
  <2> QED
    BY <1>4, <2>2, <2>4
<1>6. StepResolves({Top}, {g}) /\ StepEnters({Top}, {g})
  BY <1>0, <1>4 DEF StepResolves, StepEnters
<1>7. \A q \in Modules : Resolves(stack', q) => Resolves(stack, q) \/ ~Begun(q)
  BY <1>5, <1>6, AccountedHas, ResolvesFollow
<1>8. /\ Queued(m) /\ Begun(m) /\ ~Resolves(stack, m) /\ ~Queued(m)' /\ QueuedOnce'
      /\ \A q \in Modules : Queued(q)' => Queued(q)
  BY <1>0, <1>2, <1>7, AccountedHas, QueueShrinks DEF StartTests
<1>9. Untouched' \subseteq Untouched
  BY <1>7, <1>8, AccountedHas, UntouchedFalls
<1>10. Owner(g) \in Untouched /\ Owner(g) \notin Untouched'
  <2>1. Owner(g) = <<"tests", m, 0>>
    BY <1>4 DEF Owner
  <2>2. Begun(m)' /\ ~Resolves(stack', m) /\ ~Queued(m)'
    BY <1>7, <1>8, AccountedHas DEF Onward
  <2>3. <<"tests", m, 0>> \notin Untouched'
    BY <1>0, <2>2, NextUntouchedForm
  <2> QED
    BY <1>8, <2>1, <2>3, UntouchedTests
<1>11. Begins(g)
  <2>1. Len(g.todo) <= Len(program[m].body)
    BY <1>4, AccountedHas DEF TestsFit
  <2>2. PICK a, b \in Nat : a = Len(g.todo) /\ b = Len(program[m].body)
    BY <1>0, BodyIndices, LeftIs
  <2>3. Left(g) = 2 * a + 2 /\ MostLeft(g.mod) = 2 * b + 4
    BY <1>4, <2>2, LeftIs DEF MostLeft
  <2>4. a \in Nat /\ b \in Nat /\ a <= b
    BY <2>1, <2>2
  <2>5. 2 * a + 2 < 2 * b + 4
    BY <2>4
  <2> QED
    BY <1>10, <2>3, <2>5 DEF Begins
<1>12. RootsLeft' <= RootsLeft
  BY <1>0, SameRoots
<1>13. AtMost(Top, {g}, Left(Top))
  <2>1. Left(Top) \in Nat
    BY <1>1, LeftIs
  <2> QED
    BY <1>4, <2>1 DEF AtMost, IsCalled
<1>14. StepCounts({Top}, {g})
  BY <1>0, <1>1, <1>5, <1>9, <1>10, <1>11, <1>12, <1>13 DEF StepCounts
<1>15. Counted({Top}, {g})
  BY <1>14, AccountedHas DEF Counted
<1>16. EntersOnce' /\ LooksOnce'
  BY <1>6, <1>15, AccountedHas, EntersFollow
<1>17. OwnersBegun' /\ OwnersOnce'
  BY <1>15, OwnersFollow
<1>18. \A l \in Modules : Len(deferred'[l]) <= Len(deferred[l])
  <2>1. \A l \in Modules : deferred'[l] = IF l = m THEN <<>> ELSE deferred[l]
    BY <1>1, <1>2 DEF StartTests
  <2>2. \A l \in Modules : Len(deferred[l]) \in Nat
    BY <1>1
  <2>3. Len(<<>>) = 0
    OBVIOUS
  <2> QED
    BY <2>1, <2>2, <2>3
<1>19. TestsFit'
  <2>1. (\A h \in {g} : h \in Frames) /\ (\A f \in {Top} : f \in Frames)
    BY <1>1
  <2> QED
    BY <1>0, <1>5, <1>6, <1>18, <2>1, AccountedHas, TestsFollow
<1>20. Work' \subseteq Work /\ Work' # Work
  BY <1>15, WorkCounts
<1> QED
  BY <1>8, <1>16, <1>17, <1>19, <1>20 DEF WorkFalls, LeftInv

\* A declaration is begun, or found done.
LEMMA EnterAccounted ==
    ASSUME Accounted, EnterDecl
    PROVE  WorkFalls
<1>0. /\ TypeInv /\ EntersOnce /\ stack # <<>> /\ Top.pass = "declare" /\ Top.at = "entered"
      /\ UNCHANGED <<roots, phase, pending, deferred, program>>
  BY AccountedHas DEF EnterDecl, Running
<1>1. /\ Top \in Frames /\ FitsProgram(program, Top) /\ Len(stack) \in DOMAIN stack
      /\ Top = stack[Len(stack)] /\ Place(Top) = Here /\ Len(stack) \in Nat
  BY <1>0, TypeInvStack, GoodTop, StackIs DEF Place, Here
<1>2. Here \in Declarations /\ Here \in Nodes /\ Top.mod \in Modules
  <2>1. Top.todo # <<>> /\ This.kind = "decl"
    BY <1>0, <1>1 DEF FitsProgram, This, Stmt
  <2> QED
    BY <1>0, <2>1, HereType DEF Declarations, Here, This, Stmt
<1>3. symbol \in [Nodes -> Statuses]
  BY <1>0 DEF TypeInv, TypeOK
<1>4. \A l \in Modules : Len(deferred'[l]) <= Len(deferred[l])
  BY <1>0, SameLens
<1>5. RootsLeft' <= RootsLeft
  BY <1>0, SameRoots
<1>6. CASE symbol[Here] \in {"resolved", "poisoned"}
  <2>1. stack' = Popped /\ symbol' = symbol
    BY <1>6 DEF EnterDecl
  <2>2. Turns(stack', {}, {})
    BY <1>0, <2>1, TurnsPopped
  <2>3. stack[Len(stack) - 1].at = "next"
    BY <1>0, <1>1, <1>6 DEF EntersOnce
  <2>4. StepResolves({}, {}) /\ StepEnters({}, {})
    BY <1>6, <2>1 DEF StepResolves, StepEnters
  <2>5. Untouched' \subseteq Untouched
    BY <1>0, <2>2, <2>4, StepFalls
  <2>6. Running({"declare"}, "entered")
    BY <1>0 DEF Running
  <2>7. StepCounts({}, {})
    BY <1>0, <1>5, <2>2, <2>3, <2>5, <2>6 DEF StepCounts
  <2> QED
    BY <1>0, <1>4, <2>4, <2>7, StepIsAccounted
<1>7. CASE symbol[Here] \notin {"resolved", "poisoned"}
  <2>1. stack' = Waiting("started") /\ symbol'[Here] = "resolving"
    BY <1>2, <1>3, <1>7 DEF EnterDecl
  <2>2. symbol[Here] = "unresolved"
    <3>1. symbol[Here] # "resolving"
      BY <1>0, <1>1 DEF EntersOnce
    <3>2. symbol[Here] \in Statuses
      BY <1>2, <1>3
    <3> QED
      BY <1>7, <3>1, <3>2 DEF Statuses
  <2>3. PICK f \in Frames :
          /\ f.pass = Top.pass /\ f.mod = Top.mod /\ f.at = "started" /\ f.todo = Top.todo
          /\ Turns(stack', {f}, {})
    BY <1>0, <2>1, TurnsWaiting
  <2>4. StepResolves({f}, {}) /\ StepEnters({f}, {})
    BY <1>0, <2>1, <2>3 DEF StepResolves, StepEnters
  <2>5. Untouched' \subseteq Untouched
    BY <1>0, <2>3, <2>4, StepFalls
  <2>6. PICK n \in Declarations : n = Here /\ n = <<Top.mod, Head(Top.todo)>>
    BY <1>2 DEF Here
  <2>7. Owner(f) = <<"declare", Top.mod, Head(Top.todo)>>
    BY <1>0, <2>3 DEF Owner
  <2>8. Owner(f) \in Untouched
    BY <2>2, <2>6, <2>7, UntouchedDeclare
  <2>9. Owner(f) \notin Untouched'
    <3>1. SUFFICES ASSUME Owner(f) \in Untouched' PROVE FALSE
      OBVIOUS
    <3>2. PICK i \in Declarations : Owner(f) = <<"declare", i[1], i[2]>> /\ symbol'[i] = "unresolved"
      BY <1>0, <2>7, <3>1, NextUntouchedForm
    <3>3. i = <<i[1], i[2]>>
      BY DEF Declarations, Nodes
    <3>4. i = Here
      BY <2>6, <2>7, <3>2, <3>3
    <3> QED
      BY <2>1, <3>2, <3>4
  <2>10. Begins(f)
    <3>1. Left(f) = 3
      BY <2>3, LeftIs
    <3>2. PICK b \in Nat : b = Len(program[Top.mod].body)
      BY <1>0, <1>2, BodyIndices
    <3>3. MostLeft(f.mod) = 2 * b + 4 /\ 3 < 2 * b + 4
      BY <2>3, <3>2 DEF MostLeft
    <3> QED
      BY <2>8, <2>9, <3>1, <3>3 DEF Begins
  <2>11. StepCounts({f}, {})
    BY <1>0, <1>5, <2>3, <2>5, <2>8, <2>9, <2>10 DEF StepCounts
  <2> QED
    BY <1>0, <1>4, <2>4, <2>11, StepIsAccounted
<1> QED
  BY <1>6, <1>7

\* Between passes a root is collected, resolved, or decided.
LEMMA RootAccounted ==
    ASSUME Accounted, stack = <<>>, RootsLeft' < RootsLeft, RootsLeft > 0,
           UNCHANGED <<pending, deferred>>,
           stack' = stack \/ \E g \in Frames :
                /\ g.pass \in {"collect", "resolve"} /\ g.at = "next" /\ Begins(g)
                /\ g.pass = "resolve" => ~Begun(g.mod) /\ Len(g.todo) = Len(program[g.mod].body)
                /\ stack' = Append(stack, g)
    PROVE  WorkFalls
<1>0. TypeInv /\ TypeInv' /\ UNCHANGED program
  BY AccountedHas
<1>1. PICK calls : /\ Turns(stack', {}, calls)
                   /\ \A g \in calls :
                        /\ g \in Frames /\ g.pass \in {"collect", "resolve"} /\ g.at = "next" /\ Begins(g)
                        /\ g.pass = "resolve" => ~Begun(g.mod) /\ Len(g.todo) = Len(program[g.mod].body)
  <2>1. CASE stack' = stack
    <3>1. Turns(stack', {}, {})
      BY <2>1, TurnsEmpty
    <3> QED
      BY <3>1
  <2>2. ASSUME NEW g \in Frames,
                g.pass \in {"collect", "resolve"}, g.at = "next", Begins(g),
                g.pass = "resolve" => ~Begun(g.mod) /\ Len(g.todo) = Len(program[g.mod].body),
                stack' = Append(stack, g)
        PROVE  \E calls : /\ Turns(stack', {}, calls)
                   /\ \A h \in calls :
                        /\ h \in Frames /\ h.pass \in {"collect", "resolve"} /\ h.at = "next" /\ Begins(h)
                        /\ h.pass = "resolve" => ~Begun(h.mod) /\ Len(h.todo) = Len(program[h.mod].body)
    <3>1. Turns(stack', {}, {g})
      BY <2>2, TurnsEmpty
    <3> QED
      BY <2>2, <3>1
  <2> QED
    BY <2>1, <2>2
<1>2. StepResolves({}, calls) /\ StepEnters({}, calls)
  BY <1>1 DEF StepResolves, StepEnters
<1>3. Untouched' \subseteq Untouched
  BY <1>1, <1>2, StepFalls
<1>4. \A l \in Modules : Len(deferred'[l]) <= Len(deferred[l])
  BY <1>0, SameLens
<1>5. RootsLeft' <= RootsLeft
  BY <1>0, RootsTyped, NextRootsTyped
<1>6. StepCounts({}, calls)
  BY <1>0, <1>1, <1>3, <1>5 DEF StepCounts
<1> QED
  BY <1>2, <1>4, <1>6, StepIsAccounted

\* The steps of a root.
LEMMA RootFalls ==
    ASSUME TypeInv, roots # <<>>, roots' = roots \/ roots' = Tail(roots),
           roots' = roots => (phase = "load" /\ phase' = "resolve") \/ (phase = "resolve" /\ phase' = "decide"),
           roots' = Tail(roots) => phase' = "load"
    PROVE  RootsLeft' < RootsLeft /\ RootsLeft > 0
<1>1. phase \in {"load", "resolve", "decide"} /\ roots \in Seq(Modules)
  BY DEF TypeInv, TypeOK
<1>2. PICK n \in Nat : n = Len(roots) /\ n > 0
  BY <1>1
<1>3. Len(Tail(roots)) = n - 1
  BY <1>1, <1>2
<1>4. PICK d \in {0, 1, 2} : /\ d = IF phase = "load" THEN 0 ELSE IF phase = "resolve" THEN 1 ELSE 2
                             /\ RootsLeft = 3 * n - d
  BY <1>2 DEF RootsLeft
<1>5. CASE roots' = Tail(roots)
  <2>1. RootsLeft' = 3 * (n - 1) - 0
    BY <1>3, <1>5 DEF RootsLeft
  <2>2. 3 * (n - 1) - 0 < 3 * n - d /\ 3 * n - d > 0
    BY <1>2
  <2> QED
    BY <1>4, <2>1, <2>2
<1>6. CASE roots' = roots
  <2>1. CASE phase = "load" /\ phase' = "resolve"
    <3>1. RootsLeft' = 3 * n - 1 /\ d = 0
      BY <1>2, <1>4, <1>6, <2>1 DEF RootsLeft
    <3>2. 3 * n - 1 < 3 * n - 0 /\ 3 * n - 0 > 0
      BY <1>2
    <3> QED
      BY <1>4, <3>1, <3>2
  <2>2. CASE phase = "resolve" /\ phase' = "decide"
    <3>1. RootsLeft' = 3 * n - 2 /\ d = 1
      BY <1>2, <1>4, <1>6, <2>2 DEF RootsLeft
    <3>2. 3 * n - 2 < 3 * n - 1 /\ 3 * n - 1 > 0
      BY <1>2
    <3> QED
      BY <1>4, <3>1, <3>2
  <2> QED
    BY <1>6, <2>1, <2>2
<1> QED
  BY <1>5, <1>6

LEMMA AnalyzingAccounted ==
    ASSUME Accounted, Analyzing
    PROVE  WorkFalls
<1>0. /\ TypeInv /\ stack = <<>> /\ roots # <<>> /\ UNCHANGED <<pending, deferred, program>>
  BY AccountedHas DEF Analyzing, RejectUnparsed, CollectRoot, ResolveRoot, ReturnCancelled, Reject,
                      RejectEmitted, Lower, At
<1>1. leftover \in SUBSET Diagnostics /\ Root \in Modules
  BY <1>0, RootType DEF TypeInv, TypeOK
<1>2. CASE CollectRoot
  <2>1. phase = "load" /\ phase' = "resolve" /\ roots' = roots
    BY <1>2 DEF CollectRoot, At
  <2>2. RootsLeft' < RootsLeft /\ RootsLeft > 0
    BY <1>0, <2>1, TailOf, RootFalls
  <2>3. \E st : CallCollect(stack, Root, st, leftover)
    BY <1>2 DEF CollectRoot
  <2>4. stack' = stack \/ \E g \in Frames : /\ g.pass = "collect" /\ g.at = "next" /\ Begins(g)
                                            /\ stack' = Append(stack, g)
    BY <1>0, <1>1, <2>3, CollectCalled
  <2> QED
    BY <1>0, <2>2, <2>4, RootAccounted
<1>3. CASE ResolveRoot
  <2>1. phase = "resolve" /\ phase' = "decide" /\ roots' = roots
    BY <1>3 DEF ResolveRoot, At
  <2>2. RootsLeft' < RootsLeft /\ RootsLeft > 0
    BY <1>0, <2>1, RootFalls
  <2>3. CallResolve(stack, Root, leftover)
    BY <1>3 DEF ResolveRoot
  <2>4. stack' = stack \/ \E g \in Frames :
            /\ g.pass = "resolve" /\ g.at = "next" /\ Begins(g)
            /\ ~Begun(g.mod) /\ Len(g.todo) = Len(program[g.mod].body)
            /\ stack' = Append(stack, g)
    BY <1>0, <1>1, <2>3, ResolveCalled
  <2> QED
    BY <1>0, <2>2, <2>4, RootAccounted
<1>4. CASE RejectUnparsed \/ ReturnCancelled \/ Reject \/ RejectEmitted \/ Lower
  <2>1. roots' = Tail(roots) /\ phase' = "load" /\ stack' = stack
    BY <1>4 DEF RejectUnparsed, ReturnCancelled, Reject, RejectEmitted, Lower, Return
  <2>2. roots' # roots
    <3>1. roots \in Seq(Modules)
      BY <1>0 DEF TypeInv, TypeOK
    <3>2. Len(Tail(roots)) = Len(roots) - 1 /\ Len(roots) \in Nat
      BY <1>0, <3>1
    <3> QED
      BY <2>1, <3>2
  <2>3. RootsLeft' < RootsLeft /\ RootsLeft > 0
    BY <1>0, <2>1, <2>2, RootFalls
  <2> QED
    BY <1>0, <2>1, <2>3, RootAccounted
<1> QED
  BY <1>2, <1>3, <1>4 DEF Analyzing

LEMMA WorkFallsNext ==
    ASSUME Accounted, Analyzer
    PROVE  WorkFalls
<1>1. CASE Collecting
  BY <1>1, CollectAdvances, CallAccounted, EndsAccounted DEF Collecting
<1>2. CASE ResolvingStep
  BY <1>2, PutOffAccounted, ResolveAdvances, CallAccounted, DeclAccounted, ResolveEnds
     DEF ResolvingStep
<1>3. CASE Tests
  BY <1>3, TestsAccounted, EndsAccounted DEF Tests
<1>4. CASE Declaring
  BY <1>4, EnterAccounted, CallAccounted, TargetAccounted, EndsAccounted DEF Declaring, Finishing
<1>5. CASE Analyzing
  BY <1>5, AnalyzingAccounted
<1> QED
  BY <1>1, <1>2, <1>3, <1>4, <1>5 DEF Analyzer

LEMMA LeftInit == Init => LeftInv
<1> SUFFICES ASSUME Init PROVE LeftInv
  OBVIOUS
<1>1. stack = <<>> /\ pending = <<>> /\ (\A m \in Modules : deferred[m] = <<>>) /\ TypeInv
  BY TypeInvInit DEF Init
<1>2. DOMAIN stack = {} /\ DOMAIN pending = {} /\ Len(<<>>) = 0
  BY <1>1
<1>3. \A m \in Modules : Len(program[m].body) \in Nat
  BY <1>1, BodyIndices
<1>4. TestsFit
  BY <1>1, <1>2, <1>3 DEF TestsFit
<1> QED
  BY <1>2, <1>4 DEF LeftInv, EntersOnce, LooksOnce, OwnersBegun, OwnersOnce, QueuedOnce

LEMMA LeftStays ==
    ASSUME LeftInv,
           UNCHANGED <<program, roots, phase, stack, state, collected, symbol, deferred, pending>>
    PROVE  LeftInv' /\ Work' = Work
<1>1. Declarations' = Declarations /\ \A m : (Begun(m)' <=> Begun(m)) /\ (Queued(m)' <=> Queued(m))
        /\ Resolves(stack, m)' = Resolves(stack, m)
  BY DEF Declarations, Stmt, Begun, Queued, Resolves
<1>2. Untouched' = Untouched
  BY <1>1 DEF Untouched
<1>3. RootsLeft' = RootsLeft
  BY DEF RootsLeft
<1>4. Work' = Work
  BY <1>2, <1>3, WorkIs, WorkIsNext
<1>5. EntersOnce' /\ LooksOnce'
  BY DEF LeftInv, EntersOnce, LooksOnce, Aim, Current, Stmt, Place
<1>6. OwnersBegun' /\ OwnersOnce'
  BY <1>2 DEF LeftInv, OwnersBegun, OwnersOnce, Owner
<1>7. QueuedOnce' /\ TestsFit'
  BY <1>1 DEF LeftInv, QueuedOnce, TestsFit, Begun, Resolves
<1> QED
  BY <1>4, <1>5, <1>6, <1>7 DEF LeftInv

LEMMA LeftNext ==
    TypeInv /\ StackShape /\ FailureInv /\ HalfDoneIsUnderWay /\ ProgressInv /\ LeftInv /\ [Next]_vars
        => /\ LeftInv' /\ Work' \subseteq Work
           /\ Analyzer => Work' # Work
<1> SUFFICES ASSUME TypeInv, StackShape, FailureInv, HalfDoneIsUnderWay, ProgressInv, LeftInv,
                    [Next]_vars
             PROVE  LeftInv' /\ Work' \subseteq Work /\ (Analyzer => Work' # Work)
  OBVIOUS
<1>1. TypeInv' /\ Onward
  BY TypeInvNext, OnwardNext DEF FailureInv
<1>2. Accounted
  BY <1>1 DEF Accounted, LeftInv, FailureInv
<1>3. CASE Analyzer
  BY <1>2, <1>3, WorkFallsNext DEF WorkFalls
<1>4. CASE ~Analyzer
  <2>1. UNCHANGED <<program, roots, phase, stack, state, collected, symbol, deferred, pending>>
    BY <1>4 DEF Next, Cancel, vars
  <2> QED
    BY <1>4, <2>1, LeftStays
<1> QED
  BY <1>3, <1>4

\* However modules import each other and declarations refer to each other, each step
\* of the analyzer uses up some of the work there was and makes none, whatever roots
\* are analyzed and whenever the flag is set.
THEOREM AnalysisUsesUpItsWork == Spec => EachStepCounts
<1> DEFINE Base == TypeInv /\ StackShape /\ FailureInv /\ HalfDoneIsUnderWay /\ ProgressInv
<1>1. Init => LeftInv
  BY LeftInit
<1>2. Base /\ LeftInv /\ [Next]_vars => LeftInv'
  BY LeftNext
<1>3. Base /\ LeftInv /\ [Next]_vars => [Analyzer => Work' \subseteq Work /\ Work' # Work]_vars
  BY LeftNext
<1>4. Spec => []Base
  BY ProgressInvariant
<1> HIDE DEF Base
<1> QED
  BY <1>1, <1>2, <1>3, <1>4, PTL DEF Spec, EachStepCounts

\* Each module and declaration has passes and steps up to a bound.
LEMMA FirstWorkIsFinite ==
    ASSUME IsFiniteSet(Modules), Init
    PROVE  IsFiniteSet(Work)
<1>0. TypeInv /\ stack = <<>> /\ DOMAIN stack = {} /\ roots = EntryPaths /\ phase = "load"
  BY TypeInvInit DEF Init
<1>1. PICK n \in Nat : n = Len(EntryPaths)
  BY EntryPathsAssumption
<1>2. RootsLeft = 3 * n
  BY <1>0, <1>1 DEF RootsLeft
<1>3. PICK b \in Nat : b = 3 * n + 2 * MaxStatements + 4
  BY SizeAssumption
<1>4. 3 * n <= b
  BY <1>3, SizeAssumption
<1> DEFINE Passes == {"analyze", "collect", "resolve", "tests", "declare"}
           Places == Modules \cup {NoFile}
           Owners == Passes \X Places \X (0..MaxStatements)
<1>5. Untouched \subseteq Owners
  <2>1. \A i : i \in 0..MaxStatements <=> i = 0 \/ i \in Indices
    BY SizeAssumption DEF Indices
  <2>2. \A m \in Modules : \A p \in Passes : <<p, m, 0>> \in Owners
    BY <2>1
  <2>3. \A d \in Declarations : <<"declare", d[1], d[2]>> \in Owners
    BY <2>1 DEF Declarations, Nodes
  <2>4. SUFFICES ASSUME NEW o \in Untouched PROVE o \in Owners
    OBVIOUS
  <2>5. \/ \E m \in Modules : \E p \in Passes : o = <<p, m, 0>>
        \/ \E d \in Declarations : o = <<"declare", d[1], d[2]>>
    <3> HIDE DEF Owners
    <3> QED
      BY UntouchedForm
  <2> HIDE DEF Owners, Passes
  <2> QED
    BY <2>2, <2>3, <2>5
<1>6. \A m \in Modules : MostLeft(m) \in Nat /\ MostLeft(m) <= b
  <2>1. SUFFICES ASSUME NEW m \in Modules PROVE MostLeft(m) \in Nat /\ MostLeft(m) <= b
    OBVIOUS
  <2>2. PICK l \in Nat : l = Len(program[m].body) /\ l <= MaxStatements
    BY <1>0, BodyIndices DEF TypeInv, TypeOK
  <2>3. MostLeft(m) = 2 * l + 4
    BY <2>2 DEF MostLeft
  <2>4. 2 * l + 4 \in Nat /\ 2 * l + 4 <= 3 * n + 2 * MaxStatements + 4
    BY <2>2, SizeAssumption
  <2> QED
    BY <1>3, <2>3, <2>4
<1>7. Work \subseteq Owners \X (1..b)
  <2>1. SUFFICES ASSUME NEW w \in Work PROVE w \in Owners \X (1..b)
    OBVIOUS
  <2>2. PICK o, j : w = <<o, j>>
    BY WorkIs, WorkPairs
  <2>3. \/ o = <<"analyze", NoFile, 0>> /\ j \in 1..RootsLeft
        \/ o \in Untouched /\ j \in 1..MostLeft(o[2])
    BY <1>0, <2>1, <2>2, WorkIsIn
  <2>4. CASE o = <<"analyze", NoFile, 0>> /\ j \in 1..RootsLeft
    <3>1. o \in Owners
      BY <2>4, SizeAssumption
    <3>2. j \in 1..b
      BY <1>2, <1>4, <2>4
    <3> QED
      BY <2>2, <3>1, <3>2
  <2>5. CASE o \in Untouched /\ j \in 1..MostLeft(o[2])
    <3>1. o \in Owners /\ o[2] \in Modules
      BY <1>5, <2>5, UntouchedModules
    <3>2. j \in 1..b
      BY <1>6, <2>5, <3>1
    <3> QED
      BY <2>2, <3>1, <3>2
  <2> QED
    BY <2>3, <2>4, <2>5
<1>8. IsFiniteSet(Owners \X (1..b))
  <2>1. IsFiniteSet(Places)
    BY FS_Singleton, FS_Union
  <2>2. IsFiniteSet(0..MaxStatements) /\ IsFiniteSet(1..b)
    BY FS_Interval, SizeAssumption
  <2>3. IsFiniteSet(Passes)
    <3>1. IsFiniteSet({"analyze"} \cup {"collect"})
      BY FS_Singleton, FS_AddElement
    <3>2. IsFiniteSet({"analyze"} \cup {"collect"} \cup {"resolve"})
      BY <3>1, FS_AddElement
    <3>3. IsFiniteSet({"analyze"} \cup {"collect"} \cup {"resolve"} \cup {"tests"})
      BY <3>2, FS_AddElement
    <3>4. IsFiniteSet({"analyze"} \cup {"collect"} \cup {"resolve"} \cup {"tests"} \cup {"declare"})
      BY <3>3, FS_AddElement
    <3>5. Passes = {"analyze"} \cup {"collect"} \cup {"resolve"} \cup {"tests"} \cup {"declare"}
      OBVIOUS
    <3> QED
      BY <3>4, <3>5
  <2>4. IsFiniteSet(Owners)
    <3> DEFINE Pairs == (Passes \X Places) \X (0..MaxStatements)
               Flat == [x \in Pairs |-> <<x[1][1], x[1][2], x[2]>>]
    <3> HIDE DEF Passes, Places
    <3>1. IsFiniteSet(Passes \X Places)
      BY <2>1, <2>3, FS_Product
    <3>2. IsFiniteSet(Pairs)
      BY <2>2, <3>1, FS_Product
    <3>3. Flat \in [Pairs -> Owners]
      <4>1. \A x \in Pairs : <<x[1][1], x[1][2], x[2]>> \in Owners
        OBVIOUS
      <4> QED
        BY <4>1
    <3>4. \A o \in Owners : \E x \in Pairs : Flat[x] = o
      <4>1. SUFFICES ASSUME NEW o \in Owners PROVE \E x \in Pairs : Flat[x] = o
        OBVIOUS
      <4>2. /\ o = <<o[1], o[2], o[3]>>
            /\ o[1] \in Passes /\ o[2] \in Places /\ o[3] \in 0..MaxStatements
        BY <4>1
      <4>3. <<<<o[1], o[2]>>, o[3]>> \in Pairs
        BY <4>2
      <4>4. Flat[<<<<o[1], o[2]>>, o[3]>>] = <<o[1], o[2], o[3]>>
        BY <4>3
      <4> QED
        BY <4>2, <4>3, <4>4
    <3>5. Flat \in Surjection(Pairs, Owners)
      BY <3>3, <3>4 DEF Surjection
    <3> QED
      BY <3>2, <3>5, FS_Surjection
  <2> QED
    BY <2>2, <2>4, FS_Product
<1> QED
  BY <1>7, <1>8, FS_Subset

\* There is only so much to do, for finitely many files: with AnalysisUsesUpItsWork,
\* the analyzer takes finitely many steps.
THEOREM WorkIsAlwaysFinite ==
    ASSUME IsFiniteSet(Modules)
    PROVE  Spec => []IsFiniteSet(Work)
<1> DEFINE Base == TypeInv /\ StackShape /\ FailureInv /\ HalfDoneIsUnderWay /\ ProgressInv
           Fin == IsFiniteSet(Work)
<1>1. Init => LeftInv /\ Fin
  BY LeftInit, FirstWorkIsFinite
<1>2. Base /\ LeftInv /\ [Next]_vars => LeftInv'
  BY LeftNext
<1>3. Base /\ LeftInv /\ Fin /\ [Next]_vars => Fin'
  BY LeftNext, FS_Subset
<1>4. Spec => []Base
  BY ProgressInvariant
<1> HIDE DEF Base
<1> QED
  BY <1>1, <1>2, <1>3, <1>4, PTL DEF Spec
==============================================================================
