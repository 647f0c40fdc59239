------------------------------ MODULE LspServer ------------------------------
(* lsp_server (server.cc): three threads around one queue.                  *)
(*                                                                          *)
(*   reader   reads the client's messages and queues them;                  *)
(*   worker   analyses what it was handed and queues finished snapshots;    *)
(*   main     drains the queue a batch at a time and handles each event,    *)
(*            edits the store, parks queries until an analysis covers them, *)
(*            and tears everything down after `exit`.                       *)
(*                                                                          *)
(* The client is part of the model: it sends any messages, in any order,    *)
(* up to the bounds MaxEdits, MaxCancels and MaxNoise and once per request  *)
(* id.  What it sent and saw is kept in asked, textVersion, replies, shown. *)
(*                                                                          *)
(* Handling one event is one step.  The main thread meets the others only   *)
(* in the queue and in the worker's critical sections; a handler enters the *)
(* latter as cancel(), schedule(), or the first then the second, and a      *)
(* worker step between those two is one it could take before or after both. *)
EXTENDS DocumentStore, AnalysisWorker, FiniteSets, Functions

CONSTANTS QueryIds,   \* ids of requests answered from an analysis
          DirectIds,  \* ids of every other request, `shutdown` included
          Debounced,  \* debounce_interval_.count() != 0
          MaxEdits,   \* bound: edits the client sends
          MaxCancels, \* bound: requests it cancels
          MaxNoise    \* bound: messages without effect, and rejected edits

Ids == QueryIds \cup DirectIds

ASSUME IdsAssumption == None \notin Ids
ASSUME DebouncedAssumption == Debounced \in BOOLEAN
ASSUME BoundsAssumption == {MaxEdits, MaxCancels, MaxNoise} \subseteq Nat

VARIABLES events,             \* server.events
          batch,              \* what is left of the batch in handle_batch
          cancelledIds,       \* cancelled_ids of that batch
          mainPc,             \* where execute() is
          readerPc,           \* where the reader is
          parkedQueries,      \* parked_queries_
          analyzingRevision,  \* analyzing_revision_
          rebuildDue,         \* rebuild_due_ is set
          shutdownReceived    \* shutdown_received_

loopVars == <<batch, cancelledIds, mainPc>>
analysisVars == <<parkedQueries, analyzingRevision, rebuildDue>>

\* The client: what it sent, and what it was sent.
VARIABLES asked,        \* per request: textVersion when it was sent, or None
          cancelAsked,  \* the ids it sent a $/cancelRequest for
          textVersion,  \* how many times it changed the text
          noiseSent,    \* how much of MaxNoise it used
          replies,      \* per request: the replies it got, in order
          shown         \* per module: the diagnostics it shows

sentVars == <<asked, cancelAsked, textVersion, noiseSent>>
vars == <<storeVars, workerVars, events, loopVars, readerPc, analysisVars,
          shutdownReceived, sentVars, replies, shown>>

-----------------------------------------------------------------------------
Requests == [type: {"query"}, id: QueryIds]
            \cup [type: {"direct", "shutdown"}, id: DirectIds]
Cancels  == [type: {"cancel"}, id: Ids]
Edits    == [type: {"edit"}, files: Files]
\* An edit whose path cannot be overlaid; anything that changes nothing (a
\* body that is not JSON, a malformed or unknown notification, a didChange
\* without changes); and what ends the session: exit, the end of the stream
\* or a malformed frame.
Others   == [type: {"rejectedEdit", "noEffect", "last"}]

Messages == Requests \cup Cancels \cup Edits \cup Others
Finished == [type: {"finished"}, snapshot: Snapshots]
Events   == Messages \cup Finished

Parked  == [id: QueryIds, revision: Nat]
Replies == [kind: {"cancelled", "direct"}]
           \cup [kind: {"answer"}, snapshot: Snapshots,
                 shown: [Modules -> Nat \cup {None}]]

MainPcs == {"running", "joiningReader", "cancellingWorker", "stoppingWorker",
            "joiningWorker", "done"}

TypeOK ==
    /\ StoreTypeOK
    /\ WorkerTypeOK
    /\ events \in Seq(Events)
    /\ batch \in Seq(Events)
    /\ cancelledIds \in SUBSET Ids
    /\ mainPc \in MainPcs
    /\ readerPc \in {"reading", "stopped"}
    /\ parkedQueries \in SUBSET Parked
    /\ analyzingRevision \in Nat \cup {None}
    /\ rebuildDue \in BOOLEAN
    /\ shutdownReceived \in BOOLEAN
    /\ asked \in [Ids -> Nat \cup {None}]
    /\ cancelAsked \in SUBSET Ids
    /\ textVersion \in Nat
    /\ noiseSent \in Nat
    /\ replies \in [Ids -> Seq(Replies)]
    /\ shown \in [Modules -> Nat \cup {None}]

Init ==
    /\ StoreInit
    /\ WorkerInit
    /\ events = <<>>
    /\ batch = <<>>
    /\ cancelledIds = {}
    /\ mainPc = "running"
    /\ readerPc = "reading"
    /\ parkedQueries = {}
    /\ analyzingRevision = None
    /\ rebuildDue = FALSE
    /\ shutdownReceived = FALSE
    /\ asked = [i \in Ids |-> None]
    /\ cancelAsked = {}
    /\ textVersion = 0
    /\ noiseSent = 0
    /\ replies = [i \in Ids |-> <<>>]
    /\ shown = NoDiagnostics

-----------------------------------------------------------------------------
(* The client sends a message and the reader queues it.                     *)

\* Mutated form: the reader does not recognise the end.
LastMissed(m) == FALSE

\* The reader stops by itself after exit and when the stream ends.
Last(m) == m.type = "last"

Read(m) ==
    /\ readerPc = "reading"
    /\ events' = Append(events, m)
    /\ readerPc' = IF Last(m) THEN "stopped" ELSE "reading"
    /\ UNCHANGED <<storeVars, workerVars, loopVars, analysisVars,
                   shutdownReceived, replies, shown>>

SendRequest ==
    \E m \in Requests :
        /\ asked[m.id] = None
        /\ asked' = [asked EXCEPT ![m.id] = textVersion]
        /\ Read(m)
        /\ UNCHANGED <<cancelAsked, textVersion, noiseSent>>

SendCancel ==
    \E i \in Ids :
        /\ asked[i] # None
        /\ i \notin cancelAsked
        /\ Cardinality(cancelAsked) < MaxCancels
        /\ cancelAsked' = cancelAsked \cup {i}
        /\ Read([type |-> "cancel", id |-> i])
        /\ UNCHANGED <<asked, textVersion, noiseSent>>

SendEdit ==
    \E f \in Files :
        /\ textVersion < MaxEdits
        /\ textVersion' = textVersion + 1
        /\ Read([type |-> "edit", files |-> f])
        /\ UNCHANGED <<asked, cancelAsked, noiseSent>>

SendNoise ==
    \E t \in {"rejectedEdit", "noEffect"} :
        /\ noiseSent < MaxNoise
        /\ noiseSent' = noiseSent + 1
        /\ Read([type |-> t])
        /\ UNCHANGED <<asked, cancelAsked, textVersion>>

SendLast ==
    /\ Read([type |-> "last"])
    /\ UNCHANGED sentVars

Client == SendRequest \/ SendCancel \/ SendEdit \/ SendNoise \/ SendLast

-----------------------------------------------------------------------------
(* The main loop waits, or takes everything that is queued.                 *)

Running == mainPc = "running"

\* Client state, and what the client is sent, when a step sends nothing.
clientVars == <<sentVars, replies, shown>>

TakeBatch ==
    /\ Running
    /\ batch = <<>>
    /\ events # <<>>
    /\ batch' = events
    /\ events' = <<>>
    /\ cancelledIds' = {m.id : m \in {e \in Range(events) : e.type = "cancel"}}
    /\ UNCHANGED <<storeVars, workerVars, mainPc, readerPc, analysisVars,
                   shutdownReceived, clientVars>>

\* Mutated form: what was handed over is not noted.
SubmitUnnoted == HandOver(StoreInputs') /\ UNCHANGED analyzingRevision

\* Hands what the store holds after this step to the worker.
Submit ==
    /\ HandOver(StoreInputs')
    /\ analyzingRevision' = revision'

\* Is the store, as this step leaves it, neither analysed nor underway?
NeedsAnalysis(underway) == ~IsCurrent' /\ underway # revision'

StartAnalysis ==
    /\ rebuildDue' = FALSE
    /\ IF NeedsAnalysis(analyzingRevision)
       THEN Submit
       ELSE UNCHANGED <<workerVars, analyzingRevision>>

\* The debounce deadline passes with nothing queued.
RebuildTimeout ==
    /\ Running
    /\ batch = <<>>
    /\ events = <<>>
    /\ rebuildDue
    /\ UNCHANGED storeVars
    /\ StartAnalysis
    /\ UNCHANGED <<events, loopVars, readerPc, parkedQueries,
                   shutdownReceived, clientVars>>

-----------------------------------------------------------------------------
(* Handling the first event left in the batch.                              *)

\* The event at the head of the batch is of one of these types and is done.
Handling(types) ==
    /\ Running
    /\ batch # <<>>
    /\ Head(batch).type \in types
    /\ batch' = Tail(batch)
    /\ UNCHANGED <<events, cancelledIds, readerPc, sentVars>>

\* Each of these requests gets one more reply.
Reply(ids, r) ==
    replies' = [i \in Ids |-> IF i \in ids THEN Append(replies[i], r)
                                           ELSE replies[i]]

RequestTypes == {"query", "direct", "shutdown"}
CancelledInBatch == Head(batch).id \in cancelledIds

\* A request its own batch cancels is answered without being run.
HandleCancelledRequest ==
    /\ Handling(RequestTypes)
    /\ CancelledInBatch
    /\ Reply({Head(batch).id}, [kind |-> "cancelled"])
    /\ UNCHANGED <<storeVars, workerVars, mainPc, analysisVars,
                   shutdownReceived, shown>>

\* Answered at once, from the text or from nothing.
HandleDirect ==
    /\ Handling({"direct", "shutdown"})
    /\ ~CancelledInBatch
    /\ Reply({Head(batch).id}, [kind |-> "direct"])
    /\ shutdownReceived' = (shutdownReceived \/ Head(batch).type = "shutdown")
    /\ UNCHANGED <<storeVars, workerVars, mainPc, analysisVars, shown>>

Answer(s, diagnostics) ==
    [kind |-> "answer", snapshot |-> s, shown |-> diagnostics]

Answerable == snapshot # None /\ IsCurrent

HandleAnswerableQuery ==
    /\ Handling({"query"})
    /\ ~CancelledInBatch
    /\ Answerable
    /\ Reply({Head(batch).id}, Answer(snapshot, shown))
    /\ UNCHANGED <<storeVars, workerVars, mainPc, analysisVars,
                   shutdownReceived, shown>>

ParkQuery ==
    /\ Handling({"query"})
    /\ ~CancelledInBatch
    /\ ~Answerable
    /\ parkedQueries' = parkedQueries
            \cup {[id |-> Head(batch).id, revision |-> revision]}
    /\ UNCHANGED storeVars
    /\ StartAnalysis
    /\ UNCHANGED <<mainPc, shutdownReceived, replies, shown>>

\* Mutated forms of NoteEdit: it keeps analyzing_revision_; it never sets the
\* timer; it lets parked queries wait out the debounce.
NoteEditKeepsRevision ==
    LET now == parkedQueries # {} \/ ~Debounced
    IN  /\ rebuildDue' = ~now
        /\ IF now /\ NeedsAnalysis(analyzingRevision)
           THEN Submit
           ELSE HandOver(None) /\ UNCHANGED analyzingRevision

NoteEditWithoutTimer ==
    LET now == parkedQueries # {} \/ ~Debounced
    IN  /\ rebuildDue' = FALSE
        /\ IF now /\ NeedsAnalysis(None)
           THEN Submit
           ELSE HandOver(None) /\ analyzingRevision' = None

NoteEditAlwaysWaits ==
    /\ rebuildDue' = Debounced
    /\ IF ~Debounced /\ NeedsAnalysis(None)
       THEN Submit
       ELSE HandOver(None) /\ analyzingRevision' = None

\* The analysis underway is of text the editor no longer has.
NoteEdit ==
    LET now == parkedQueries # {} \/ ~Debounced
    IN  /\ rebuildDue' = ~now
        /\ IF now /\ NeedsAnalysis(None)
           THEN Submit
           ELSE HandOver(None) /\ analyzingRevision' = None

HandleEdit ==
    /\ Handling({"edit"})
    /\ Change(Head(batch).files)
    /\ NoteEdit
    /\ UNCHANGED <<mainPc, parkedQueries, shutdownReceived, replies, shown>>

\* Mutated form: the files change although the revision does not.
HandleRejectedEditUnnoticed ==
    /\ Handling({"rejectedEdit"})
    /\ files' \in Files
    /\ UNCHANGED <<revision, snapshot, pendingDiagnostics>>
    /\ NoteEdit
    /\ UNCHANGED <<mainPc, parkedQueries, shutdownReceived, replies, shown>>

\* The overlay could not be added: the store is as it was, noted all the same.
HandleRejectedEdit ==
    /\ Handling({"rejectedEdit"})
    /\ UNCHANGED storeVars
    /\ NoteEdit
    /\ UNCHANGED <<mainPc, parkedQueries, shutdownReceived, replies, shown>>

\* Mutated form: the query is cancelled and stays parked.
HandleCancelKeeps ==
    /\ Handling({"cancel"})
    /\ LET named == {q \in parkedQueries : q.id = Head(batch).id}
       IN  Reply({q.id : q \in named}, [kind |-> "cancelled"])
    /\ UNCHANGED <<storeVars, workerVars, mainPc, analysisVars,
                   shutdownReceived, shown>>

\* Requests still parked are cancelled; any other has been answered.
HandleCancel ==
    /\ Handling({"cancel"})
    /\ LET named == {q \in parkedQueries : q.id = Head(batch).id}
       IN  /\ parkedQueries' = parkedQueries \ named
           /\ Reply({q.id : q \in named}, [kind |-> "cancelled"])
    /\ UNCHANGED <<storeVars, workerVars, mainPc, analyzingRevision,
                   rebuildDue, shutdownReceived, shown>>

HandleNoEffect ==
    /\ Handling({"noEffect"})
    /\ UNCHANGED <<storeVars, workerVars, mainPc, analysisVars,
                   shutdownReceived, replies, shown>>

HandleLast ==
    /\ Handling({"last"})
    /\ mainPc' = "joiningReader"
    /\ UNCHANGED <<storeVars, workerVars, analysisVars, shutdownReceived,
                   replies, shown>>

\* Mutated form: every parked query is answered, covered or not.
CoveredAll(r) == parkedQueries

\* The parked queries a snapshot of this revision is new enough for.
Covered(r) == {q \in parkedQueries : q.revision <= r}

\* Installed, published, and the queries it covers answered, in this order.
HandleFinished ==
    /\ Handling({"finished"})
    /\ LET done == Head(batch).snapshot
       IN  /\ snapshot' = InstalledAfter(done)
           /\ shown' = Publish(QueuedAfter(done), shown)
    /\ pendingDiagnostics' = NothingPending
    /\ UNCHANGED <<files, revision>>
    /\ LET ready == Covered(snapshot'.revision)
       IN  /\ parkedQueries' = parkedQueries \ ready
           /\ Reply({q.id : q \in ready}, Answer(snapshot', shown'))
    /\ IF parkedQueries' # {}
       THEN StartAnalysis
       ELSE UNCHANGED <<workerVars, analyzingRevision, rebuildDue>>
    /\ UNCHANGED <<mainPc, shutdownReceived>>

Handle ==
    \/ HandleCancelledRequest \/ HandleDirect
    \/ HandleAnswerableQuery  \/ ParkQuery
    \/ HandleEdit \/ HandleRejectedEdit \/ HandleCancel
    \/ HandleNoEffect \/ HandleLast \/ HandleFinished

-----------------------------------------------------------------------------
(* Teardown: the reader is joined, then the members of state are destroyed  *)
(* in reverse, the worker first.                                            *)

Advance(from, to) ==
    /\ mainPc = from
    /\ mainPc' = to
    /\ UNCHANGED <<storeVars, events, batch, cancelledIds, readerPc,
                   analysisVars, shutdownReceived, clientVars>>

JoinReader ==
    /\ readerPc = "stopped"
    /\ Advance("joiningReader", "cancellingWorker")
    /\ UNCHANGED workerVars

CancelWorker ==
    /\ Advance("cancellingWorker", "stoppingWorker")
    /\ DestroyCancel

\* Mutated form: the destructor forgets to request the stop.
StopWorkerForgotten ==
    /\ Advance("stoppingWorker", "joiningWorker")
    /\ UNCHANGED workerVars

StopWorker ==
    /\ Advance("stoppingWorker", "joiningWorker")
    /\ DestroyRequestStop

JoinWorker ==
    /\ workerPc = "stopped"
    /\ Advance("joiningWorker", "done")
    /\ UNCHANGED workerVars

Teardown == JoinReader \/ CancelWorker \/ StopWorker \/ JoinWorker

-----------------------------------------------------------------------------
MainStep == TakeBatch \/ RebuildTimeout \/ Handle \/ Teardown

\* The worker's callback queues the snapshot.
DeliverSnapshot ==
    /\ Deliver
    /\ events' = Append(events, [type |-> "finished", snapshot |-> building])

WorkerStep ==
    /\ \/ (Take \/ Stop \/ Abandon \/ PassCheckpoint) /\ UNCHANGED events
       \/ DeliverSnapshot
    /\ UNCHANGED <<storeVars, loopVars, readerPc, analysisVars,
                   shutdownReceived, clientVars>>

Next == Client \/ MainStep \/ WorkerStep

Spec == Init /\ [][Next]_vars

\* The operating system runs every thread that can run; the deadline of the
\* debounce passes.  The client need not do anything.
FairSpec == Spec /\ WF_vars(MainStep) /\ WF_vars(WorkerStep)

-----------------------------------------------------------------------------
(* Properties                                                               *)

\* The finished analyses on their way to handle_finished_analysis.
FinishedInFlight ==
    {e \in Range(events) \cup Range(batch) : e.type = "finished"}

\* Is an analysis of revision r handed over, underway and not abandoned, or
\* finished and on its way?
WorkFor(r) ==
    \/ next # None /\ next.revision = r
    \/ workerPc = "building" /\ building.revision = r /\ ~cancel
    \/ workerPc = "built" /\ building.revision = r
    \/ \E e \in FinishedInFlight : e.snapshot.revision = r

\* No edit is forgotten: until the loop ends, either the installed analysis is
\* of the current revision, or the debounce timer is set, or an analysis of
\* the current revision is on its way (note_edit, start_analysis).  Otherwise
\* an idle editor would show stale diagnostics for good.
EditNeverForgotten == Running => IsCurrent \/ rebuildDue \/ WorkFor(revision)

\* start_analysis skips the worker when analyzing_revision_ is the current
\* revision: then that analysis is installed or on its way.
AnalyzingMeansWork ==
    Running /\ analyzingRevision # None =>
        /\ analyzingRevision = revision
        /\ IsCurrent \/ WorkFor(revision)

\* What waits in next_ is what the main loop believes to be underway.
NextIsWanted ==
    Running /\ next # None =>
        next.revision = revision /\ analyzingRevision = revision

\* A query is parked for as long as the installed analysis is too old for it.
ParkedAreWaiting ==
    \A q \in parkedQueries :
        /\ q.revision <= revision
        /\ snapshot # None => snapshot.revision < q.revision

\* What the main loop remembers of its analyses (analyzing_revision_, next_,
\* parked_queries_) is true of the worker, the queue and the store, however
\* edits, cancellations and late snapshots interleave.
Bookkeeping == AnalyzingMeansWork /\ NextIsWanted /\ ParkedAreWaiting

\* A query parked once there is text is never left to the debounce timer: an
\* analysis of the current revision is on its way (server.cc:446).
ParkedQueriesHurry ==
    Running /\ parkedQueries # {} /\ revision > 0 => WorkFor(revision)

\* The worker never spends a checkpoint on text the editor no longer has: a
\* build not flagged for abandonment is of the current revision and is the
\* one the main loop counts on (note_edit's cancel, Take's clearing).
ObsoleteBuildIsFlagged ==
    Running /\ workerPc = "building" /\ ~cancel =>
        building.revision = revision /\ analyzingRevision = revision

\* Equal revisions mean equal text: whatever carries the current revision,
\* wherever it is, was made from the files the store has now, so is_current
\* may compare numbers only.
NamesText(s) == /\ s.revision <= revision
                /\ s.revision = revision => s.files = files
RevisionNamesText ==
    /\ \A s \in {next, building, snapshot} \ {None} : NamesText(s)
    /\ \A e \in FinishedInFlight : NamesText(e.snapshot)

\* The client shows the diagnostics of the installed analysis and no others:
\* those of a module the analysis no longer reaches have been cleared.
ClientShowsInstalled ==
    shown = IF snapshot = None THEN NoDiagnostics ELSE DiagnosticsOf(snapshot)

\* Until it is answered, a request is in exactly one place (the queue, the
\* batch, the parked queries), and it gets at most one reply, whatever
\* cancellations, edits and finished analyses come in between.
RequestInOnePlace ==
    LET Count(q, i) == Cardinality({k \in DOMAIN q : q[k].type \in RequestTypes
                                                     /\ q[k].id = i})
    IN  \A i \in Ids :
            Count(events, i) + Count(batch, i) + Len(replies[i])
              + Cardinality({q \in parkedQueries : q.id = i})
            = IF asked[i] = None THEN 0 ELSE 1

\* The main loop gives up only once the reader has stopped by itself, so
\* joining the reader never waits for a client that sends nothing more
\* (server.cc:277).
ReaderStopsFirst == ~Running => readerPc = "stopped"

\* No thread of the server can go on without the client: the loop waits for an
\* event with no timer set, or for another thread, or is done, and the worker
\* waits for inputs or has stopped.
AtRest ==
    /\ \/ Running /\ batch = <<>> /\ events = <<>> /\ ~rebuildDue
       \/ mainPc = "joiningReader" /\ readerPc # "stopped"
       \/ mainPc = "joiningWorker" /\ workerPc # "stopped"
       \/ mainPc = "done"
    /\ \/ workerPc = "waiting" /\ next = None /\ ~stopRequested
       \/ workerPc = "stopped"

\* The server never stops short: when nothing moves, either it has ended along
\* with its threads, or the reader still listens, every edit is in the store, the
\* client shows the diagnostics of the text as it is, and every request has its
\* one reply, but for queries sent before there was any text.
RestIsSettled ==
    AtRest =>
        IF mainPc = "done"
        THEN readerPc = "stopped" /\ workerPc = "stopped"
        ELSE /\ Running /\ readerPc = "reading"
             /\ revision = textVersion
             /\ shown = IF revision = 0 THEN NoDiagnostics ELSE DiagnosticsOf(StoreInputs)
             /\ \A i \in Ids : asked[i] # None =>
                    Len(replies[i]) = 1 \/ (i \in QueryIds /\ revision = 0)

\* How many analyses may still be started: one per edit that waits, and one if
\* the store's revision is not the one being analysed.
NumberOf(q, types) == Cardinality({k \in DOMAIN q : q[k].type \in types})
EditTypes == {"edit", "rejectedEdit"}
AnalysesLeft ==
    NumberOf(events, EditTypes) + NumberOf(batch, EditTypes)
      + IF analyzingRevision = revision THEN 0 ELSE 1

\* How many steps the threads may take before another analysis is started.
MainStepsLeft ==
    IF mainPc = "done" THEN 0
    ELSE IF mainPc = "joiningWorker" THEN 1
    ELSE IF mainPc = "stoppingWorker" THEN 2
    ELSE IF mainPc = "cancellingWorker" THEN 3 ELSE 4
WorkerStepsLeft ==
    (IF workerPc = "stopped" THEN 0
     ELSE IF workerPc = "waiting" THEN 1 ELSE 5 + checksLeft)
      + IF next = None THEN 0 ELSE 5 + Checkpoints
StepsLeft ==
    3 * Len(events) + 2 * Len(batch) + MainStepsLeft + WorkerStepsLeft
      + IF rebuildDue THEN 1 ELSE 0

\* Left alone, the server comes to rest: each step of its threads leaves fewer
\* analyses to start, or as many and fewer steps to take.  In particular an
\* analysis that is abandoned or answers nobody is not started again and again
\* (start_analysis, note_edit).
LeavesLess ==
    \/ AnalysesLeft' < AnalysesLeft
    \/ (AnalysesLeft' = AnalysesLeft /\ StepsLeft' < StepsLeft)
ComesToRest == [][MainStep \/ WorkerStep => LeavesLess]_vars

\* The server implements the service it promises its client.
Service == INSTANCE QueryService WITH published <- snapshot
ImplementsService == Service!QSpec

Unanswered(i) == asked[i] # None /\ replies[i] = <<>>

\* Once there is text, every request is answered (unless the loop ends).
RequestsAnswered ==
    \A i \in Ids : Unanswered(i) /\ revision > 0 ~> ~Unanswered(i) \/ ~Running

\* Every request is answered (unless the loop ends), whatever came before it.
EveryRequestAnswered == \A i \in Ids : Unanswered(i) ~> ~Unanswered(i) \/ ~Running

\* Every edit's diagnostics reach the client with nothing sent after it.
EditsSettle == textVersion > 0 ~> IsCurrent \/ ~Running

\* After exit or the end of the stream, the server ends.
ServerEnds == readerPc = "stopped" ~> mainPc = "done"

\* After the destructor's first statement, no build passes a checkpoint: the
\* analysis underway stops at its next declaration (worker.cc:20).
TeardownAbandons ==
    mainPc \in {"stoppingWorker", "joiningWorker"} /\ workerPc = "building"
        => cancel
=============================================================================
