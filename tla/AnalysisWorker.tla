--------------------------- MODULE AnalysisWorker ---------------------------
(* lsp::analysis_worker (worker.cc): a thread that builds analyses one at a *)
(* time of the newest inputs it was given.  A critical section of mutex_ is *)
(* one step.  The build is the sequence of points at which it reads cancel_ *)
(* (before each root, before each declaration, and once all roots are       *)
(* done); after the last of them it can no longer be stopped.               *)
EXTENDS Analysis

CONSTANT Checkpoints  \* reads of cancel_ in one build; a bound for TLC

ASSUME CheckpointsAssumption == Checkpoints \in Nat \ {0}

VARIABLES next,          \* next_
          cancel,        \* cancel_
          workerPc,      \* where the thread is in run()
          building,      \* inputs of the iteration underway
          checksLeft,    \* reads of cancel_ the build has yet to make
          stopRequested  \* the stop token of thread_

workerVars == <<next, cancel, workerPc, building, checksLeft, stopRequested>>

WorkerTypeOK ==
    /\ next \in Inputs \cup {None}
    /\ cancel \in BOOLEAN
    /\ workerPc \in {"waiting", "building", "built", "stopped"}
    /\ building \in Inputs \cup {None}
    /\ workerPc \in {"building", "built"} => building \in Inputs
    /\ checksLeft \in 0..Checkpoints
    /\ workerPc = "building" => checksLeft > 0
    /\ stopRequested \in BOOLEAN

WorkerInit ==
    /\ next = None
    /\ cancel = FALSE
    /\ workerPc = "waiting"
    /\ building = None
    /\ checksLeft = 0
    /\ stopRequested = FALSE

-----------------------------------------------------------------------------
(* Called by the owner's thread *)

\* Mutated form: what is underway goes on.
HandOverLetsRun(inputs) ==
    /\ next' = inputs
    /\ UNCHANGED <<cancel, workerPc, building, checksLeft, stopRequested>>

\* schedule(inputs), and cancel() when inputs is None: either way what is
\* underway is abandoned and next_ is overwritten.
HandOver(inputs) ==
    /\ next' = inputs
    /\ cancel' = TRUE
    /\ UNCHANGED <<workerPc, building, checksLeft, stopRequested>>

\* The destructor, first statement: cancel_ is set without taking mutex_.
DestroyCancel ==
    /\ cancel' = TRUE
    /\ UNCHANGED <<next, workerPc, building, checksLeft, stopRequested>>

\* The destructor, second statement; thread_'s own destructor then joins.
DestroyRequestStop ==
    /\ stopRequested' = TRUE
    /\ UNCHANGED <<next, cancel, workerPc, building, checksLeft>>

-----------------------------------------------------------------------------
(* The worker's thread *)

\* The wait ends with inputs to analyse.  It does so even after a stop was
\* requested: wait(lock, stop, pred) then returns pred().
Take ==
    /\ workerPc = "waiting"
    /\ next # None
    /\ building' = next
    /\ next' = None
    /\ cancel' = FALSE
    /\ checksLeft' = Checkpoints
    /\ workerPc' = "building"
    /\ UNCHANGED stopRequested

\* The wait ends without inputs, because of a stop request.
Stop ==
    /\ workerPc = "waiting"
    /\ next = None
    /\ stopRequested
    /\ workerPc' = "stopped"
    /\ UNCHANGED <<next, cancel, building, checksLeft, stopRequested>>

\* A checkpoint finds cancel_ set: build returns none.
Abandon ==
    /\ workerPc = "building"
    /\ cancel
    /\ workerPc' = "waiting"
    /\ building' = None
    /\ checksLeft' = 0
    /\ UNCHANGED <<next, cancel, stopRequested>>

\* Mutated form: one checkpoint too many.
PassCheckpointOneMore ==
    /\ workerPc = "building"
    /\ ~cancel
    /\ checksLeft' = checksLeft - 1
    /\ workerPc' = IF checksLeft = 0 THEN "built" ELSE "building"
    /\ UNCHANGED <<next, cancel, building, stopRequested>>

\* A checkpoint finds cancel_ clear; the last one commits to a snapshot.
PassCheckpoint ==
    /\ workerPc = "building"
    /\ ~cancel
    /\ checksLeft' = checksLeft - 1
    /\ workerPc' = IF checksLeft = 1 THEN "built" ELSE "building"
    /\ UNCHANGED <<next, cancel, building, stopRequested>>

\* on_finished_ is called with the snapshot (what it does is the owner's).
Deliver ==
    /\ workerPc = "built"
    /\ workerPc' = "waiting"
    /\ building' = None
    /\ UNCHANGED <<next, cancel, checksLeft, stopRequested>>
=============================================================================
