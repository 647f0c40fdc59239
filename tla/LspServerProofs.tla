--------------------------- MODULE LspServerProofs ---------------------------
(* Proofs about LspServer, for every number of requests, edits and modules. *)
EXTENDS LspServer, QueueLemmas, TLAPS

-----------------------------------------------------------------------------
(* Types                                                                    *)

\* What a component's variables keep when a step leaves them alone.
LEMMA StoreTypeStutters == StoreTypeOK /\ UNCHANGED storeVars => StoreTypeOK'
BY DEF StoreTypeOK, storeVars

LEMMA WorkerTypeStutters == WorkerTypeOK /\ UNCHANGED workerVars => WorkerTypeOK'
BY DEF WorkerTypeOK, workerVars

\* The variables of the loop, the threads and the client, by their types.
LoopTypeOK ==
    /\ events \in Seq(Events)
    /\ batch \in Seq(Events)
    /\ cancelledIds \in SUBSET Ids
    /\ mainPc \in MainPcs
    /\ readerPc \in {"reading", "stopped"}
    /\ shutdownReceived \in BOOLEAN

AnalysisTypeOK ==
    /\ parkedQueries \in SUBSET Parked
    /\ analyzingRevision \in Nat \cup {None}
    /\ rebuildDue \in BOOLEAN

SentTypeOK ==
    /\ asked \in [Ids -> Nat \cup {None}]
    /\ cancelAsked \in SUBSET Ids
    /\ textVersion \in Nat
    /\ noiseSent \in Nat

ReceivedTypeOK ==
    /\ replies \in [Ids -> Seq(Replies)]
    /\ shown \in [Modules -> Nat \cup {None}]

LEMMA TypeParts ==
    TypeOK <=> /\ StoreTypeOK /\ WorkerTypeOK /\ LoopTypeOK
               /\ AnalysisTypeOK /\ SentTypeOK /\ ReceivedTypeOK
BY DEF TypeOK, LoopTypeOK, AnalysisTypeOK, SentTypeOK, ReceivedTypeOK

LEMMA TypePartsNext ==
    TypeOK' <=> /\ StoreTypeOK' /\ WorkerTypeOK' /\ LoopTypeOK'
                /\ AnalysisTypeOK' /\ SentTypeOK' /\ ReceivedTypeOK'
BY DEF TypeOK, LoopTypeOK, AnalysisTypeOK, SentTypeOK, ReceivedTypeOK

LEMMA TypeInit == Init => TypeOK
<1> SUFFICES ASSUME Init PROVE TypeOK
  OBVIOUS
<1>1. StoreTypeOK
  BY DEF Init, StoreInit, StoreTypeOK, NothingPending
<1>2. WorkerTypeOK
  <2>1. 0 \in 0..Checkpoints
    BY CheckpointsAssumption
  <2> QED
    BY <2>1 DEF Init, WorkerInit, WorkerTypeOK
<1>3. LoopTypeOK /\ AnalysisTypeOK /\ SentTypeOK
  <2>1. LoopTypeOK
    <3>1. <<>> \in Seq(Events)
      OBVIOUS
    <3> QED
      BY <3>1 DEF Init, LoopTypeOK, MainPcs
  <2>2. AnalysisTypeOK
    BY DEF Init, AnalysisTypeOK
  <2>3. SentTypeOK
    BY DEF Init, SentTypeOK
  <2> QED
    BY <2>1, <2>2, <2>3
<1>4. ReceivedTypeOK
  BY DEF Init, ReceivedTypeOK, NoDiagnostics
<1> QED
  BY <1>1, <1>2, <1>3, <1>4, TypeParts

\* What a client is shown stays diagnostics, whatever is published.
LEMMA DiagnosticsType ==
    ASSUME NEW s \in Snapshots
    PROVE  DiagnosticsOf(s) \in [Modules -> Nat \cup {None}]
BY DEF DiagnosticsOf, Snapshots, Inputs

LEMMA PublishType ==
    ASSUME NEW queued, NEW before \in [Modules -> Nat \cup {None}],
           \A m \in DOMAIN queued : queued[m] \in Nat \cup {None}
    PROVE  Publish(queued, before) \in [Modules -> Nat \cup {None}]
BY DEF Publish

LEMMA QueuedType ==
    ASSUME StoreTypeOK, NEW s \in Snapshots
    PROVE  /\ DOMAIN QueuedAfter(s) \subseteq Modules
           /\ \A m \in DOMAIN QueuedAfter(s) : QueuedAfter(s)[m] \in Nat \cup {None}
<1>1. Reached[s.files] \subseteq Modules
  BY ReachedAssumption DEF Snapshots, Inputs
<1>2. ASSUME snapshot # None
      PROVE  Reached[snapshot.files] \subseteq Modules
  BY <1>2, ReachedAssumption DEF StoreTypeOK, Snapshots, Inputs
<1>3. DiagnosticsOf(s) \in [Modules -> Nat \cup {None}]
  BY DiagnosticsType
<1>4. /\ DOMAIN QueuedBy(s) \subseteq Modules
      /\ \A m \in DOMAIN QueuedBy(s) : QueuedBy(s)[m] \in Nat \cup {None}
  BY <1>1, <1>2, <1>3 DEF QueuedBy
<1> QED
  BY <1>4 DEF QueuedAfter, StoreTypeOK

\* Handing over inputs, or none, keeps the worker's types.
LEMMA HandOverType ==
    ASSUME WorkerTypeOK, NEW i \in Inputs \cup {None}, HandOver(i)
    PROVE  WorkerTypeOK'
BY DEF HandOver, WorkerTypeOK

LEMMA StartAnalysisType ==
    ASSUME WorkerTypeOK, AnalysisTypeOK, StoreTypeOK', StartAnalysis
    PROVE  /\ WorkerTypeOK'
           /\ analyzingRevision' \in Nat \cup {None}
           /\ rebuildDue' \in BOOLEAN
<1>1. StoreInputs' \in Inputs /\ revision' \in Nat
  BY DEF StoreInputs, StoreTypeOK, Inputs
<1>2. CASE NeedsAnalysis(analyzingRevision)
  BY <1>1, <1>2, HandOverType DEF StartAnalysis, Submit
<1>3. CASE ~NeedsAnalysis(analyzingRevision)
  BY <1>3, WorkerTypeStutters DEF StartAnalysis, AnalysisTypeOK
<1> QED
  BY <1>2, <1>3 DEF StartAnalysis, Submit

LEMMA NoteEditType ==
    ASSUME WorkerTypeOK, AnalysisTypeOK, StoreTypeOK', NoteEdit
    PROVE  /\ WorkerTypeOK'
           /\ analyzingRevision' \in Nat \cup {None}
           /\ rebuildDue' \in BOOLEAN
<1> DEFINE now == parkedQueries # {} \/ ~Debounced
<1>1. StoreInputs' \in Inputs /\ revision' \in Nat
  BY DEF StoreInputs, StoreTypeOK, Inputs
<1>2. CASE now /\ NeedsAnalysis(None)
  BY <1>1, <1>2, HandOverType DEF NoteEdit, Submit
<1>3. CASE ~(now /\ NeedsAnalysis(None))
  BY <1>3, HandOverType DEF NoteEdit
<1> QED
  BY <1>2, <1>3

\* A message the client sends is an event; so is a finished snapshot.
LEMMA EventTypes ==
    /\ \A m \in Requests : m \in Events
    /\ \A i \in Ids : [type |-> "cancel", id |-> i] \in Events
    /\ \A f \in Files : [type |-> "edit", files |-> f] \in Events
    /\ \A t \in {"rejectedEdit", "noEffect", "last"} : [type |-> t] \in Events
    /\ \A s \in Snapshots : [type |-> "finished", snapshot |-> s] \in Events
BY DEF Events, Messages, Requests, Cancels, Edits, Others, Finished

LEMMA ReadType ==
    ASSUME TypeOK, NEW m \in Events, Read(m), SentTypeOK'
    PROVE  TypeOK'
<1>1. StoreTypeOK' /\ WorkerTypeOK'
  BY StoreTypeStutters, WorkerTypeStutters, TypeParts DEF Read
<1>2. LoopTypeOK'
  <2>1. LoopTypeOK /\ Append(events, m) \in Seq(Events)
    BY RangeAppend, TypeParts DEF LoopTypeOK
  <2> QED
    BY <2>1 DEF Read, LoopTypeOK, loopVars
<1>3. AnalysisTypeOK' /\ ReceivedTypeOK'
  <2>1. AnalysisTypeOK'
    BY TypeParts DEF Read, AnalysisTypeOK, analysisVars
  <2>2. ReceivedTypeOK'
    BY TypeParts DEF Read, ReceivedTypeOK
  <2> QED
    BY <2>1, <2>2
<1>4. SentTypeOK'
  OBVIOUS
<1> QED
  BY <1>1, <1>2, <1>3, <1>4, TypePartsNext

\* Taking the head of the batch keeps the loop's types.
LEMMA HandlingType ==
    ASSUME TypeOK, NEW types, Handling(types)
    PROVE  /\ Head(batch) \in Events
           /\ Head(batch).type \in types
           /\ events' \in Seq(Events) /\ batch' \in Seq(Events)
           /\ cancelledIds' \in SUBSET Ids
           /\ readerPc' \in {"reading", "stopped"}
           /\ SentTypeOK'
<1>1. LoopTypeOK /\ SentTypeOK
  BY TypeParts
<1>2. batch \in Seq(Events) /\ batch # <<>>
  BY <1>1 DEF LoopTypeOK, Handling
<1>3. Head(batch) \in Events /\ Tail(batch) \in Seq(Events)
  BY <1>2, RangeTail
<1>4. SentTypeOK'
  BY <1>1 DEF SentTypeOK, Handling, sentVars
<1> QED
  BY <1>1, <1>3, <1>4 DEF LoopTypeOK, Handling

\* A reply to some requests keeps the type of replies.
LEMMA ReplyType ==
    ASSUME ReceivedTypeOK, NEW ids, NEW r \in Replies, Reply(ids, r)
    PROVE  replies' \in [Ids -> Seq(Replies)]
<1>1. \A i \in Ids : replies[i] \in Seq(Replies)
  BY DEF ReceivedTypeOK
<1>2. \A i \in Ids : Append(replies[i], r) \in Seq(Replies)
  BY <1>1, RangeAppend
<1> QED
  BY <1>1, <1>2 DEF Reply

LEMMA ReplyKinds ==
    /\ [kind |-> "cancelled"] \in Replies
    /\ [kind |-> "direct"] \in Replies
    /\ \A s \in Snapshots, d \in [Modules -> Nat \cup {None}] :
          Answer(s, d) \in Replies
BY DEF Replies, Answer

LEMMA TypeClient == TypeOK /\ Client => TypeOK'
<1> SUFFICES ASSUME TypeOK, Client PROVE TypeOK'
  OBVIOUS
<1>0. SentTypeOK
  BY TypeParts
<1>1. CASE SendRequest
  <2>1. PICK m \in Requests :
            /\ asked' = [asked EXCEPT ![m.id] = textVersion]
            /\ Read(m)
            /\ UNCHANGED <<cancelAsked, textVersion, noiseSent>>
    BY <1>1 DEF SendRequest
  <2>2. SentTypeOK'
    BY <1>0, <2>1 DEF SentTypeOK
  <2> QED
    BY <2>1, <2>2, EventTypes, ReadType
<1>2. CASE SendCancel
  <2>1. PICK i \in Ids :
            /\ cancelAsked' = cancelAsked \cup {i}
            /\ Read([type |-> "cancel", id |-> i])
            /\ UNCHANGED <<asked, textVersion, noiseSent>>
    BY <1>2 DEF SendCancel
  <2>2. SentTypeOK'
    BY <1>0, <2>1 DEF SentTypeOK
  <2> QED
    BY <2>1, <2>2, EventTypes, ReadType
<1>3. CASE SendEdit
  <2>1. PICK f \in Files :
            /\ textVersion' = textVersion + 1
            /\ Read([type |-> "edit", files |-> f])
            /\ UNCHANGED <<asked, cancelAsked, noiseSent>>
    BY <1>3 DEF SendEdit
  <2>2. SentTypeOK'
    BY <1>0, <2>1 DEF SentTypeOK
  <2> QED
    BY <2>1, <2>2, EventTypes, ReadType
<1>4. CASE SendNoise
  <2>1. PICK t \in {"rejectedEdit", "noEffect"} :
            /\ noiseSent' = noiseSent + 1
            /\ Read([type |-> t])
            /\ UNCHANGED <<asked, cancelAsked, textVersion>>
    BY <1>4 DEF SendNoise
  <2>2. SentTypeOK'
    BY <1>0, <2>1 DEF SentTypeOK
  <2> QED
    BY <2>1, <2>2, EventTypes, ReadType
<1>5. CASE SendLast
  <2>1. SentTypeOK'
    BY <1>0, <1>5 DEF SentTypeOK, SendLast, sentVars
  <2> QED
    BY <1>5, <2>1, EventTypes, ReadType DEF SendLast
<1> QED
  BY <1>1, <1>2, <1>3, <1>4, <1>5 DEF Client

\* The parts of the state most handlers leave alone.
LEMMA StutterTypes ==
    ASSUME TypeOK
    PROVE  /\ UNCHANGED storeVars => StoreTypeOK'
           /\ UNCHANGED workerVars => WorkerTypeOK'
           /\ UNCHANGED analysisVars => AnalysisTypeOK'
           /\ UNCHANGED <<replies, shown>> => ReceivedTypeOK'
           /\ UNCHANGED sentVars => SentTypeOK'
<1>1. UNCHANGED storeVars => StoreTypeOK'
  BY StoreTypeStutters, TypeParts
<1>2. UNCHANGED workerVars => WorkerTypeOK'
  BY WorkerTypeStutters, TypeParts
<1>3. UNCHANGED analysisVars => AnalysisTypeOK'
  BY TypeParts DEF AnalysisTypeOK, analysisVars
<1>4. UNCHANGED <<replies, shown>> => ReceivedTypeOK'
  BY TypeParts DEF ReceivedTypeOK
<1>5. UNCHANGED sentVars => SentTypeOK'
  BY TypeParts DEF SentTypeOK, sentVars
<1> QED
  BY <1>1, <1>2, <1>3, <1>4, <1>5

\* A handler's step types the loop's part, whatever it does to the store.
LEMMA HandledLoopType ==
    ASSUME TypeOK, NEW types, Handling(types), mainPc' \in MainPcs,
           shutdownReceived' \in BOOLEAN
    PROVE  LoopTypeOK' /\ SentTypeOK'
BY HandlingType DEF LoopTypeOK

\* The type of what the event at hand carries.
LEMMA CarriedTypes ==
    ASSUME NEW e \in Events
    PROVE  /\ e.type = "query" => e.id \in QueryIds
           /\ e.type \in RequestTypes => e.id \in Ids
           /\ e.type = "cancel" => e.id \in Ids
           /\ e.type = "edit" => e.files \in Files
           /\ e.type = "finished" => e.snapshot \in Snapshots
BY DEF Events, Messages, Requests, Cancels, Edits, Others, Finished,
       RequestTypes, Ids

LEMMA TypeHandleRequest ==
    ASSUME TypeOK,
           HandleCancelledRequest \/ HandleDirect \/ HandleAnswerableQuery
    PROVE  TypeOK'
<1>1. /\ UNCHANGED storeVars /\ UNCHANGED workerVars /\ UNCHANGED analysisVars
      /\ UNCHANGED <<mainPc, shown>>
  BY DEF HandleCancelledRequest, HandleDirect, HandleAnswerableQuery
<1>2. mainPc' \in MainPcs
  BY <1>1, TypeParts DEF LoopTypeOK
<1>3. shutdownReceived' \in BOOLEAN
  BY TypeParts
     DEF LoopTypeOK, HandleCancelledRequest, HandleDirect, HandleAnswerableQuery
<1>4. LoopTypeOK' /\ SentTypeOK'
  BY <1>2, <1>3, HandledLoopType
     DEF HandleCancelledRequest, HandleDirect, HandleAnswerableQuery
<1>5. \E ids : \E r \in Replies : Reply(ids, r)
  <2>1. CASE HandleCancelledRequest
    BY <2>1, ReplyKinds DEF HandleCancelledRequest
  <2>2. CASE HandleDirect
    BY <2>2, ReplyKinds DEF HandleDirect
  <2>3. CASE HandleAnswerableQuery
    <3>1. snapshot \in Snapshots /\ shown \in [Modules -> Nat \cup {None}]
      BY <2>3, TypeParts
         DEF HandleAnswerableQuery, Answerable, StoreTypeOK, ReceivedTypeOK
    <3> QED
      BY <2>3, <3>1, ReplyKinds DEF HandleAnswerableQuery
  <2> QED
    BY <2>1, <2>2, <2>3
<1>6. ReceivedTypeOK'
  BY <1>1, <1>5, ReplyType, TypeParts DEF ReceivedTypeOK
<1> QED
  BY <1>1, <1>4, <1>6, StutterTypes, TypePartsNext

LEMMA TypeHandleEdit ==
    ASSUME TypeOK, HandleEdit \/ HandleRejectedEdit
    PROVE  TypeOK'
<1>1. StoreTypeOK'
  <2>1. CASE HandleEdit
    <3>1. Head(batch).files \in Files
      BY <2>1, HandlingType, CarriedTypes DEF HandleEdit
    <3> QED
      BY <2>1, <3>1, TypeParts DEF HandleEdit, Change, StoreTypeOK
  <2>2. CASE HandleRejectedEdit
    BY <2>2, StutterTypes DEF HandleRejectedEdit
  <2> QED
    BY <2>1, <2>2
<1>2. /\ WorkerTypeOK'
      /\ analyzingRevision' \in Nat \cup {None}
      /\ rebuildDue' \in BOOLEAN
  BY <1>1, NoteEditType, TypeParts DEF HandleEdit, HandleRejectedEdit
<1>3. AnalysisTypeOK'
  BY <1>2, TypeParts DEF AnalysisTypeOK, HandleEdit, HandleRejectedEdit
<1>4. LoopTypeOK' /\ SentTypeOK'
  BY HandledLoopType, TypeParts DEF LoopTypeOK, HandleEdit, HandleRejectedEdit
<1>5. ReceivedTypeOK'
  BY StutterTypes DEF HandleEdit, HandleRejectedEdit
<1> QED
  BY <1>1, <1>2, <1>3, <1>4, <1>5, TypePartsNext

LEMMA TypeParkQuery ==
    ASSUME TypeOK, ParkQuery
    PROVE  TypeOK'
<1>1. StoreTypeOK'
  BY StutterTypes DEF ParkQuery
<1>2. /\ WorkerTypeOK'
      /\ analyzingRevision' \in Nat \cup {None}
      /\ rebuildDue' \in BOOLEAN
  BY <1>1, StartAnalysisType, TypeParts DEF ParkQuery
<1>3. Head(batch).id \in QueryIds /\ revision \in Nat
  <2>1. Head(batch) \in Events /\ Head(batch).type = "query"
    BY HandlingType DEF ParkQuery
  <2>2. revision \in Nat
    BY TypeParts DEF StoreTypeOK
  <2> QED
    BY <2>1, <2>2, CarriedTypes
<1>4. AnalysisTypeOK'
  BY <1>2, <1>3, TypeParts DEF AnalysisTypeOK, ParkQuery, Parked
<1>5. LoopTypeOK' /\ SentTypeOK'
  BY HandledLoopType, TypeParts DEF LoopTypeOK, ParkQuery
<1>6. ReceivedTypeOK'
  BY StutterTypes DEF ParkQuery
<1> QED
  BY <1>1, <1>2, <1>4, <1>5, <1>6, TypePartsNext

LEMMA TypeHandleCancel ==
    ASSUME TypeOK, HandleCancel
    PROVE  TypeOK'
<1>1. StoreTypeOK' /\ WorkerTypeOK'
  BY StutterTypes DEF HandleCancel
<1>2. AnalysisTypeOK'
  BY TypeParts DEF AnalysisTypeOK, HandleCancel
<1>3. LoopTypeOK' /\ SentTypeOK'
  BY HandledLoopType, TypeParts DEF LoopTypeOK, HandleCancel
<1>4. ReceivedTypeOK'
  <2>1. \E ids : Reply(ids, [kind |-> "cancelled"])
    BY DEF HandleCancel
  <2>2. replies' \in [Ids -> Seq(Replies)]
    BY <2>1, ReplyType, ReplyKinds, TypeParts
  <2> QED
    BY <2>2, TypeParts DEF ReceivedTypeOK, HandleCancel
<1> QED
  BY <1>1, <1>2, <1>3, <1>4, TypePartsNext

LEMMA TypeHandleOther ==
    ASSUME TypeOK, HandleNoEffect \/ HandleLast
    PROVE  TypeOK'
<1>1. mainPc' \in MainPcs /\ shutdownReceived' \in BOOLEAN
  BY TypeParts DEF LoopTypeOK, HandleNoEffect, HandleLast, MainPcs
<1>2. LoopTypeOK' /\ SentTypeOK'
  BY <1>1, HandledLoopType DEF HandleNoEffect, HandleLast
<1>3. StoreTypeOK' /\ WorkerTypeOK' /\ AnalysisTypeOK' /\ ReceivedTypeOK'
  BY StutterTypes DEF HandleNoEffect, HandleLast
<1> QED
  BY <1>2, <1>3, TypePartsNext

\* What handling a finished analysis installs is a snapshot.
LEMMA InstalledType ==
    ASSUME TypeOK, HandleFinished
    PROVE  /\ Head(batch) \in Events
           /\ Head(batch).type = "finished"
           /\ Head(batch).snapshot \in Snapshots
           /\ snapshot' = InstalledAfter(Head(batch).snapshot)
           /\ snapshot' \in Snapshots
<1>1. Head(batch) \in Events /\ Head(batch).type = "finished"
  BY HandlingType DEF HandleFinished
<1>2. Head(batch).snapshot \in Snapshots
  BY <1>1, CarriedTypes
<1>3. snapshot' = InstalledAfter(Head(batch).snapshot)
  BY DEF HandleFinished
<1>4. InstalledAfter(Head(batch).snapshot) \in Snapshots
  BY <1>2, TypeParts DEF InstalledAfter, Newer, StoreTypeOK
<1> QED
  BY <1>1, <1>2, <1>3, <1>4

LEMMA TypeHandleFinished ==
    ASSUME TypeOK, HandleFinished
    PROVE  TypeOK'
<1> DEFINE done == Head(batch).snapshot
<1>1. done \in Snapshots /\ snapshot' \in Snapshots
  BY InstalledType
<1>2. StoreTypeOK'
  BY <1>1, TypeParts DEF StoreTypeOK, HandleFinished, NothingPending
<1>3. shown' \in [Modules -> Nat \cup {None}]
  BY <1>1, QueuedType, PublishType, TypeParts
     DEF HandleFinished, ReceivedTypeOK
<1>4. PICK ready \in SUBSET parkedQueries :
          /\ parkedQueries' = parkedQueries \ ready
          /\ Reply({q.id : q \in ready}, Answer(snapshot', shown'))
  BY DEF HandleFinished, Covered
<1>5. ReceivedTypeOK'
  <2>1. Answer(snapshot', shown') \in Replies
    BY <1>1, <1>3, ReplyKinds
  <2>2. replies' \in [Ids -> Seq(Replies)]
    BY <1>4, <2>1, ReplyType, TypeParts
  <2> QED
    BY <1>3, <2>2 DEF ReceivedTypeOK
<1>6. /\ WorkerTypeOK'
      /\ analyzingRevision' \in Nat \cup {None}
      /\ rebuildDue' \in BOOLEAN
  <2>1. CASE parkedQueries' # {}
    BY <1>2, <2>1, StartAnalysisType, TypeParts DEF HandleFinished
  <2>2. CASE parkedQueries' = {}
    BY <2>2, StutterTypes, TypeParts DEF HandleFinished, AnalysisTypeOK
  <2> QED
    BY <2>1, <2>2
<1>7. AnalysisTypeOK'
  BY <1>4, <1>6, TypeParts DEF AnalysisTypeOK
<1>8. LoopTypeOK' /\ SentTypeOK'
  BY HandledLoopType, TypeParts DEF LoopTypeOK, HandleFinished
<1> QED
  BY <1>2, <1>5, <1>6, <1>7, <1>8, TypePartsNext

LEMMA TypeTakeBatch ==
    ASSUME TypeOK, TakeBatch
    PROVE  TypeOK'
<1>1. /\ StoreTypeOK' /\ WorkerTypeOK' /\ AnalysisTypeOK'
      /\ SentTypeOK' /\ ReceivedTypeOK'
  BY StutterTypes DEF TakeBatch, clientVars
<1>2. Range(events) \subseteq Events
  BY RangeType, TypeParts DEF LoopTypeOK
<1>3. cancelledIds' \in SUBSET Ids
  BY <1>2, CarriedTypes DEF TakeBatch
<1>4. LoopTypeOK'
  <2>1. <<>> \in Seq(Events)
    OBVIOUS
  <2> QED
    BY <1>3, <2>1, TypeParts DEF LoopTypeOK, TakeBatch
<1> QED
  BY <1>1, <1>4, TypePartsNext

LEMMA TypeRebuildTimeout ==
    ASSUME TypeOK, RebuildTimeout
    PROVE  TypeOK'
<1>1. StoreTypeOK' /\ SentTypeOK' /\ ReceivedTypeOK'
  BY StutterTypes DEF RebuildTimeout, clientVars
<1>2. /\ WorkerTypeOK'
      /\ analyzingRevision' \in Nat \cup {None}
      /\ rebuildDue' \in BOOLEAN
  BY <1>1, StartAnalysisType, TypeParts DEF RebuildTimeout
<1>3. AnalysisTypeOK'
  BY <1>2, TypeParts DEF AnalysisTypeOK, RebuildTimeout
<1>4. LoopTypeOK'
  BY TypeParts DEF LoopTypeOK, RebuildTimeout, loopVars
<1> QED
  BY <1>1, <1>2, <1>3, <1>4, TypePartsNext

LEMMA TypeTeardown ==
    ASSUME TypeOK, Teardown
    PROVE  TypeOK'
<1>1. PICK from, to \in MainPcs : Advance(from, to)
  BY DEF Teardown, JoinReader, CancelWorker, StopWorker, JoinWorker, MainPcs
<1>2. /\ StoreTypeOK' /\ AnalysisTypeOK' /\ SentTypeOK' /\ ReceivedTypeOK'
  BY <1>1, StutterTypes DEF Advance, clientVars
<1>3. LoopTypeOK'
  BY <1>1, TypeParts DEF Advance, LoopTypeOK
<1>4. WorkerTypeOK'
  <2>1. WorkerTypeOK
    BY TypeParts
  <2>2. CASE JoinReader \/ JoinWorker
    BY <2>2, StutterTypes DEF JoinReader, JoinWorker
  <2>3. CASE CancelWorker
    BY <2>1, <2>3 DEF CancelWorker, DestroyCancel, WorkerTypeOK
  <2>4. CASE StopWorker
    BY <2>1, <2>4 DEF StopWorker, DestroyRequestStop, WorkerTypeOK
  <2> QED
    BY <2>2, <2>3, <2>4 DEF Teardown
<1> QED
  BY <1>2, <1>3, <1>4, TypePartsNext

LEMMA TypeWorkerStep ==
    ASSUME TypeOK, WorkerStep
    PROVE  TypeOK'
<1>1. /\ StoreTypeOK' /\ AnalysisTypeOK' /\ SentTypeOK' /\ ReceivedTypeOK'
  BY StutterTypes DEF WorkerStep, clientVars
<1>2. WorkerTypeOK
  BY TypeParts
<1>3. WorkerTypeOK'
  <2>1. CASE Take
    <3>1. Checkpoints \in 0..Checkpoints /\ Checkpoints > 0
      BY CheckpointsAssumption
    <3> QED
      BY <1>2, <2>1, <3>1 DEF Take, WorkerTypeOK
  <2>2. CASE Stop
    BY <1>2, <2>2 DEF Stop, WorkerTypeOK
  <2>3. CASE Abandon
    <3>1. 0 \in 0..Checkpoints
      BY CheckpointsAssumption
    <3> QED
      BY <1>2, <2>3, <3>1 DEF Abandon, WorkerTypeOK
  <2>4. CASE PassCheckpoint
    <3>1. /\ checksLeft' \in 0..Checkpoints
          /\ workerPc' = "building" => checksLeft' > 0
      BY <1>2, <2>4, CheckpointsAssumption DEF PassCheckpoint, WorkerTypeOK
    <3> QED
      BY <1>2, <2>4, <3>1 DEF PassCheckpoint, WorkerTypeOK
  <2>5. CASE DeliverSnapshot
    BY <1>2, <2>5 DEF DeliverSnapshot, Deliver, WorkerTypeOK
  <2> QED
    BY <2>1, <2>2, <2>3, <2>4, <2>5 DEF WorkerStep
<1>4. LoopTypeOK'
  <2>1. events' \in Seq(Events)
    <3>1. CASE DeliverSnapshot
      <4>1. [type |-> "finished", snapshot |-> building] \in Events
        BY <1>2, <3>1, EventTypes
           DEF DeliverSnapshot, Deliver, WorkerTypeOK, Snapshots
      <4> QED
        BY <3>1, <4>1, RangeAppend, TypeParts DEF DeliverSnapshot, LoopTypeOK
    <3>2. CASE UNCHANGED events
      BY <3>2, TypeParts DEF LoopTypeOK
    <3> QED
      BY <3>1, <3>2 DEF WorkerStep
  <2> QED
    BY <2>1, TypeParts DEF LoopTypeOK, WorkerStep, loopVars
<1> QED
  BY <1>1, <1>3, <1>4, TypePartsNext

LEMMA TypeNext == TypeOK /\ [Next]_vars => TypeOK'
<1> SUFFICES ASSUME TypeOK, [Next]_vars PROVE TypeOK'
  OBVIOUS
<1>1. CASE Client
  BY <1>1, TypeClient
<1>2. CASE MainStep
  BY <1>2, TypeTakeBatch, TypeRebuildTimeout, TypeHandleRequest,
     TypeParkQuery, TypeHandleEdit, TypeHandleCancel, TypeHandleOther,
     TypeHandleFinished, TypeTeardown
     DEF MainStep, Handle
<1>3. CASE WorkerStep
  BY <1>3, TypeWorkerStep
<1>4. CASE UNCHANGED vars
  <2>1. LoopTypeOK'
    BY <1>4, TypeParts DEF LoopTypeOK, vars, loopVars
  <2> QED
    BY <1>4, <2>1, StutterTypes, TypePartsNext DEF vars
<1> QED
  BY <1>1, <1>2, <1>3, <1>4 DEF Next

\* Every variable of the server keeps its type, for any number of requests,
\* edits, modules and checkpoints.
THEOREM TypeCorrect == Spec => []TypeOK
BY TypeInit, TypeNext, PTL DEF Spec

-----------------------------------------------------------------------------
(* What happens to the finished analyses on their way                       *)

LEMMA FinishedRead ==
    ASSUME TypeOK, NEW m \in Messages, Read(m)
    PROVE  FinishedInFlight' = FinishedInFlight
<1>1. m \in Events /\ m.type # "finished"
  BY DEF Events, Messages, Requests, Cancels, Edits, Others
<1>2. Range(events') = Range(events) \cup {m}
  BY <1>1, RangeAppend, TypeParts DEF Read, LoopTypeOK
<1> QED
  BY <1>1, <1>2 DEF FinishedInFlight, Read, loopVars

LEMMA FinishedTakeBatch ==
    ASSUME TypeOK, TakeBatch
    PROVE  FinishedInFlight' = FinishedInFlight
<1>1. Range(<<>>) = {}
  BY DEF Range
<1> QED
  BY <1>1 DEF FinishedInFlight, TakeBatch

LEMMA FinishedHandling ==
    ASSUME TypeOK, NEW types, Handling(types)
    PROVE  /\ "finished" \notin types => FinishedInFlight' = FinishedInFlight
           /\ types = {"finished"} =>
                FinishedInFlight = FinishedInFlight' \cup {Head(batch)}
<1>1. batch \in Seq(Events) /\ batch # <<>>
  BY TypeParts DEF LoopTypeOK, Handling
<1>2. Range(batch) = {Head(batch)} \cup Range(batch')
  BY <1>1, RangeTail DEF Handling
<1>3. events' = events /\ Head(batch).type \in types
  BY DEF Handling
<1> QED
  BY <1>2, <1>3 DEF FinishedInFlight

LEMMA FinishedDeliver ==
    ASSUME TypeOK, DeliverSnapshot, batch' = batch
    PROVE  FinishedInFlight' = FinishedInFlight
              \cup {[type |-> "finished", snapshot |-> building]}
<1> DEFINE e == [type |-> "finished", snapshot |-> building]
<1>1. e \in Events
  BY EventTypes, TypeParts
     DEF DeliverSnapshot, Deliver, WorkerTypeOK, Snapshots
<1>2. Range(events') = Range(events) \cup {e}
  BY <1>1, RangeAppend, TypeParts DEF DeliverSnapshot, LoopTypeOK
<1> QED
  BY <1>2 DEF FinishedInFlight

LEMMA FinishedStutter ==
    UNCHANGED <<events, batch>> => FinishedInFlight' = FinishedInFlight
BY DEF FinishedInFlight

-----------------------------------------------------------------------------
(* The bookkeeping of analyses                                              *)

\* The inductive invariant: the properties together.
WorkInv ==
    /\ EditNeverForgotten
    /\ Bookkeeping
    /\ ParkedQueriesHurry
    /\ ObsoleteBuildIsFlagged
    /\ RevisionNamesText

LEMMA WorkInit == Init => WorkInv
<1> SUFFICES ASSUME Init PROVE WorkInv
  OBVIOUS
<1>1. FinishedInFlight = {}
  BY DEF Init, FinishedInFlight, Range
<1>2. /\ next = None /\ building = None /\ snapshot = None /\ revision = 0
      /\ workerPc = "waiting" /\ parkedQueries = {}
      /\ analyzingRevision = None
  BY DEF Init, WorkerInit, StoreInit
<1>3. EditNeverForgotten
  BY <1>2 DEF EditNeverForgotten, IsCurrent
<1>4. Bookkeeping
  BY <1>2 DEF Bookkeeping, AnalyzingMeansWork, NextIsWanted, ParkedAreWaiting
<1>5. ParkedQueriesHurry /\ ObsoleteBuildIsFlagged
  BY <1>2 DEF ParkedQueriesHurry, ObsoleteBuildIsFlagged
<1>6. RevisionNamesText
  BY <1>1, <1>2 DEF RevisionNamesText
<1> QED
  BY <1>3, <1>4, <1>5, <1>6 DEF WorkInv

\* A step that moves no finished analysis and touches neither the store, the
\* worker nor the bookkeeping, nor starts the loop again, preserves it all.
LEMMA WorkQuiet ==
    ASSUME WorkInv, UNCHANGED <<storeVars, workerVars, analysisVars>>,
           Running' => Running, FinishedInFlight' = FinishedInFlight
    PROVE  WorkInv'
<1> USE DEF storeVars, workerVars, analysisVars
<1>1. IsCurrent' <=> IsCurrent
  BY DEF IsCurrent
<1>2. WorkFor(revision)' <=> WorkFor(revision)
  BY DEF WorkFor
<1>3. EditNeverForgotten'
  BY <1>1, <1>2 DEF WorkInv, EditNeverForgotten
<1>4. Bookkeeping'
  BY <1>1, <1>2
     DEF WorkInv, Bookkeeping, AnalyzingMeansWork, NextIsWanted, ParkedAreWaiting
<1>5. ParkedQueriesHurry'
  BY <1>2 DEF WorkInv, ParkedQueriesHurry
<1>6. ObsoleteBuildIsFlagged'
  BY DEF WorkInv, ObsoleteBuildIsFlagged
<1>7. RevisionNamesText'
  BY DEF WorkInv, RevisionNamesText, NamesText
<1> QED
  BY <1>3, <1>4, <1>5, <1>6, <1>7 DEF WorkInv

\* How a step may change the text: not at all, or with a new revision.
TextStep == \/ revision' = revision /\ files' = files
            \/ revision' = revision + 1

\* What named the text truly before such a step still does.
LEMMA NamesKept ==
    ASSUME TypeOK, TextStep, NEW s \in Inputs, NamesText(s)
    PROVE  /\ s.revision <= revision'
           /\ s.revision = revision' => s.files = files'
<1>1. revision \in Nat /\ s.revision \in Nat
  BY TypeParts DEF StoreTypeOK, Inputs
<1> QED
  BY <1>1 DEF TextStep, NamesText

\* Handing over the store's inputs, or nothing, keeps revisions true.
LEMMA NamesHandOver ==
    ASSUME TypeOK, RevisionNamesText, TextStep, StoreTypeOK',
           HandOver(None) \/ HandOver(StoreInputs'),
           FinishedInFlight' \subseteq FinishedInFlight,
           snapshot' # None => NamesText(snapshot)'
    PROVE  RevisionNamesText'
<1>1. revision' \in Nat
  BY DEF StoreTypeOK
<1>2. next' # None => NamesText(next)'
  BY <1>1 DEF HandOver, StoreInputs, NamesText
<1>3. building' # None => NamesText(building)'
  <2>1. building' = building
    BY DEF HandOver
  <2>2. building # None => building \in Inputs /\ NamesText(building)
    BY TypeParts DEF RevisionNamesText, WorkerTypeOK
  <2> QED
    BY <2>1, <2>2, NamesKept DEF NamesText
<1>4. ASSUME NEW e \in FinishedInFlight'
      PROVE  NamesText(e.snapshot)'
  <2>1. e \in FinishedInFlight /\ NamesText(e.snapshot)
    BY <1>4 DEF RevisionNamesText
  <2>2. e \in Events
    BY <2>1, RangeType, TypeParts DEF FinishedInFlight, LoopTypeOK
  <2>3. e.snapshot \in Inputs
    BY <2>1, <2>2, CarriedTypes DEF FinishedInFlight, Snapshots
  <2>4. UNCHANGED e.snapshot
    OBVIOUS
  <2> QED
    BY <2>1, <2>3, NamesKept DEF NamesText
<1> QED
  BY <1>2, <1>3, <1>4 DEF RevisionNamesText

\* Submitting what the store holds re-establishes everything.
LEMMA WorkSubmit ==
    ASSUME StoreTypeOK', Submit, ParkedAreWaiting', RevisionNamesText'
    PROVE  WorkInv'
<1>1. /\ next' = [revision |-> revision', files |-> files']
      /\ cancel' = TRUE
      /\ analyzingRevision' = revision'
  BY DEF Submit, HandOver, StoreInputs
<1>2. next' \in Inputs
  BY <1>1 DEF StoreTypeOK, Inputs
<1>3. next' # None /\ next'.revision = revision'
  BY <1>1, <1>2, NoneAssumption
<1>4. WorkFor(revision)'
  BY <1>3 DEF WorkFor
<1>5. EditNeverForgotten' /\ ParkedQueriesHurry'
  BY <1>4 DEF EditNeverForgotten, ParkedQueriesHurry
<1>6. Bookkeeping'
  BY <1>1, <1>3, <1>4 DEF Bookkeeping, AnalyzingMeansWork, NextIsWanted
<1>7. ObsoleteBuildIsFlagged'
  BY <1>1 DEF ObsoleteBuildIsFlagged
<1> QED
  BY <1>5, <1>6, <1>7 DEF WorkInv

\* While a query is parked the installed analysis is not current, unless there
\* is no text yet.
LEMMA ParkedNotCurrent ==
    ASSUME revision' \in Nat, snapshot' \in Snapshots \cup {None},
           parkedQueries' \in SUBSET Parked, ParkedAreWaiting',
           parkedQueries' # {}, IsCurrent'
    PROVE  revision' = 0
<1>1. PICK q \in parkedQueries' : q.revision <= revision'
             /\ (snapshot' # None => snapshot'.revision < q.revision)
  BY DEF ParkedAreWaiting
<1>2. q.revision \in Nat
  BY <1>1 DEF Parked
<1>3. snapshot' # None => snapshot'.revision \in Nat
  BY DEF Snapshots, Inputs
<1> QED
  BY <1>1, <1>2, <1>3 DEF IsCurrent

LEMMA WorkNoteEdit ==
    ASSUME TypeOK, WorkInv, StoreTypeOK', TextStep, NoteEdit,
           snapshot' = snapshot, parkedQueries' = parkedQueries,
           FinishedInFlight' = FinishedInFlight
    PROVE  WorkInv'
<1>1. revision \in Nat /\ revision' \in Nat
  BY TypeParts DEF StoreTypeOK
<1>2. snapshot # None => snapshot \in Inputs /\ NamesText(snapshot)
  BY TypeParts DEF StoreTypeOK, Snapshots, WorkInv, RevisionNamesText
<1>3. ParkedAreWaiting'
  <2>1. \A q \in parkedQueries : q.revision \in Nat
    BY TypeParts DEF AnalysisTypeOK, Parked
  <2> QED
    BY <1>1, <2>1 DEF WorkInv, Bookkeeping, ParkedAreWaiting, TextStep
<1>4. RevisionNamesText'
  <2>1. snapshot # None => NamesText(snapshot)'
    BY <1>2, NamesKept DEF NamesText
  <2>2. HandOver(None) \/ HandOver(StoreInputs')
    BY DEF NoteEdit, Submit
  <2> QED
    BY <2>1, <2>2, NamesHandOver DEF WorkInv
<1>5. CASE Submit
  BY <1>3, <1>4, <1>5, WorkSubmit
<1>6. CASE ~Submit
  <2>1. /\ HandOver(None)
        /\ analyzingRevision' = None
        /\ \/ parkedQueries' = {} /\ rebuildDue'
           \/ ~NeedsAnalysis(None)
    BY <1>6 DEF NoteEdit
  <2>2. /\ next' = None /\ cancel' = TRUE
    BY <2>1 DEF HandOver
  <2>3. ~NeedsAnalysis(None) => IsCurrent'
    BY <1>1, NoneAssumption DEF NeedsAnalysis
  <2>4. EditNeverForgotten'
    BY <2>1, <2>3 DEF EditNeverForgotten
  <2>5. ParkedQueriesHurry'
    <3>1. snapshot' \in Snapshots \cup {None} /\ parkedQueries' \in SUBSET Parked
      BY TypeParts DEF StoreTypeOK, AnalysisTypeOK
    <3>2. parkedQueries' # {} /\ IsCurrent' => revision' = 0
      BY <1>1, <1>3, <3>1, ParkedNotCurrent
    <3> QED
      BY <1>1, <2>1, <2>3, <3>2 DEF ParkedQueriesHurry
  <2>6. Bookkeeping'
    BY <1>3, <2>1, <2>2 DEF Bookkeeping, AnalyzingMeansWork, NextIsWanted
  <2>7. ObsoleteBuildIsFlagged'
    BY <2>2 DEF ObsoleteBuildIsFlagged
  <2> QED
    BY <1>4, <2>4, <2>5, <2>6, <2>7 DEF WorkInv
<1> QED
  BY <1>5, <1>6

\* start_analysis, in a step after which whatever it leaves alone is true.
LEMMA WorkStart ==
    ASSUME TypeOK, TypeOK', RevisionNamesText, TextStep, StartAnalysis,
           ParkedAreWaiting',
           FinishedInFlight' \subseteq FinishedInFlight,
           snapshot' # None => NamesText(snapshot)',
           UNCHANGED <<workerVars, analyzingRevision>> =>
              /\ AnalyzingMeansWork' /\ NextIsWanted'
              /\ ObsoleteBuildIsFlagged' /\ RevisionNamesText'
    PROVE  WorkInv'
<1>1. /\ StoreTypeOK' /\ revision' \in Nat
      /\ snapshot' \in Snapshots \cup {None} /\ parkedQueries' \in SUBSET Parked
  BY TypePartsNext DEF StoreTypeOK, AnalysisTypeOK
<1>2. CASE Submit
  <2>1. HandOver(StoreInputs')
    BY <1>2 DEF Submit
  <2>2. RevisionNamesText'
    BY <1>1, <2>1, NamesHandOver
  <2> QED
    BY <1>1, <1>2, <2>2, WorkSubmit
<1>3. CASE ~Submit
  <2>1. /\ UNCHANGED workerVars /\ UNCHANGED analyzingRevision
        /\ IsCurrent' \/ analyzingRevision' = revision'
    BY <1>3 DEF StartAnalysis, NeedsAnalysis
  <2>2. /\ AnalyzingMeansWork' /\ NextIsWanted'
        /\ ObsoleteBuildIsFlagged' /\ RevisionNamesText'
    BY <2>1
  <2>3. Running' => IsCurrent' \/ WorkFor(revision)'
    BY <1>1, <2>1, <2>2, NoneAssumption DEF AnalyzingMeansWork
  <2>4. EditNeverForgotten'
    BY <2>3 DEF EditNeverForgotten
  <2>5. ParkedQueriesHurry'
    <3>1. parkedQueries' # {} /\ IsCurrent' => revision' = 0
      BY <1>1, ParkedNotCurrent
    <3> QED
      BY <1>1, <2>3, <3>1 DEF ParkedQueriesHurry
  <2> QED
    BY <2>2, <2>4, <2>5 DEF WorkInv, Bookkeeping
<1> QED
  BY <1>2, <1>3

\* Steps that change only which queries are parked, and may start an analysis.
LEMMA WorkParkOrTimeout ==
    ASSUME TypeOK, TypeOK', WorkInv, ParkQuery \/ RebuildTimeout
    PROVE  WorkInv'
<1>1. /\ UNCHANGED storeVars /\ StartAnalysis /\ UNCHANGED mainPc
  BY DEF ParkQuery, RebuildTimeout, loopVars
<1>2. FinishedInFlight' = FinishedInFlight
  BY FinishedHandling, FinishedStutter DEF ParkQuery, RebuildTimeout, loopVars
<1>3. /\ revision' = revision /\ files' = files /\ snapshot' = snapshot
      /\ revision \in Nat /\ snapshot \in Snapshots \cup {None}
  BY <1>1, TypeParts DEF storeVars, StoreTypeOK
<1>4. ParkedAreWaiting'
  <2>1. CASE ParkQuery
    <3>1. ~Answerable /\ parkedQueries' = parkedQueries
             \cup {[id |-> Head(batch).id, revision |-> revision]}
      BY <2>1 DEF ParkQuery
    <3>2. snapshot # None =>
             /\ snapshot.revision \in Nat /\ snapshot.revision <= revision
             /\ snapshot.revision # revision
      BY <1>3, <3>1
         DEF Answerable, IsCurrent, WorkInv, RevisionNamesText, NamesText,
             Snapshots, Inputs
    <3> QED
      BY <1>3, <3>1, <3>2 DEF WorkInv, Bookkeeping, ParkedAreWaiting
  <2>2. CASE RebuildTimeout
    BY <1>3, <2>2 DEF RebuildTimeout, WorkInv, Bookkeeping, ParkedAreWaiting
  <2> QED
    BY <2>1, <2>2
<1>5. ASSUME UNCHANGED <<workerVars, analyzingRevision>>
      PROVE  /\ AnalyzingMeansWork' /\ NextIsWanted'
             /\ ObsoleteBuildIsFlagged' /\ RevisionNamesText'
  <2> USE <1>1, <1>2, <1>3, <1>5 DEF workerVars
  <2>1. /\ IsCurrent' <=> IsCurrent
        /\ WorkFor(revision)' <=> WorkFor(revision)
    BY DEF IsCurrent, WorkFor
  <2>2. AnalyzingMeansWork' /\ NextIsWanted'
    BY <2>1 DEF WorkInv, Bookkeeping, AnalyzingMeansWork, NextIsWanted, Running
  <2>3. ObsoleteBuildIsFlagged'
    BY DEF WorkInv, ObsoleteBuildIsFlagged, Running
  <2>4. RevisionNamesText'
    BY DEF WorkInv, RevisionNamesText, NamesText
  <2> QED
    BY <2>2, <2>3, <2>4
<1>6. snapshot' # None => NamesText(snapshot)'
  BY <1>3 DEF WorkInv, RevisionNamesText, NamesText
<1> QED
  BY <1>1, <1>2, <1>3, <1>4, <1>5, <1>6, WorkStart DEF TextStep, WorkInv

LEMMA WorkEdit ==
    ASSUME TypeOK, TypeOK', WorkInv, HandleEdit \/ HandleRejectedEdit
    PROVE  WorkInv'
<1>1. StoreTypeOK' /\ NoteEdit /\ parkedQueries' = parkedQueries
  BY TypePartsNext DEF HandleEdit, HandleRejectedEdit
<1>2. TextStep /\ snapshot' = snapshot
  BY DEF HandleEdit, HandleRejectedEdit, Change, TextStep, storeVars
<1>3. FinishedInFlight' = FinishedInFlight
  BY FinishedHandling DEF HandleEdit, HandleRejectedEdit
<1> QED
  BY <1>1, <1>2, <1>3, WorkNoteEdit

\* Cancelling only unparks queries.
LEMMA WorkCancel ==
    ASSUME TypeOK, WorkInv, HandleCancel
    PROVE  WorkInv'
<1>1. /\ UNCHANGED <<storeVars, workerVars, mainPc, analyzingRevision, rebuildDue>>
      /\ parkedQueries' \subseteq parkedQueries
  BY DEF HandleCancel
<1>2. FinishedInFlight' = FinishedInFlight
  BY FinishedHandling DEF HandleCancel
<1> USE <1>1, <1>2 DEF storeVars, workerVars, Running
<1>3. /\ IsCurrent' <=> IsCurrent
      /\ WorkFor(revision)' <=> WorkFor(revision)
  BY DEF IsCurrent, WorkFor
<1>4. EditNeverForgotten' /\ ParkedQueriesHurry'
  BY <1>3 DEF WorkInv, EditNeverForgotten, ParkedQueriesHurry
<1>5. Bookkeeping'
  BY <1>3
     DEF WorkInv, Bookkeeping, AnalyzingMeansWork, NextIsWanted, ParkedAreWaiting
<1>6. ObsoleteBuildIsFlagged'
  BY DEF WorkInv, ObsoleteBuildIsFlagged
<1>7. RevisionNamesText'
  BY DEF WorkInv, RevisionNamesText, NamesText
<1> QED
  BY <1>4, <1>5, <1>6, <1>7 DEF WorkInv

LEMMA WorkFinished ==
    ASSUME TypeOK, TypeOK', WorkInv, HandleFinished
    PROVE  WorkInv'
<1> DEFINE done == Head(batch).snapshot
<1>1. /\ done \in Snapshots /\ snapshot' \in Snapshots
      /\ snapshot' = InstalledAfter(done)
      /\ Head(batch).type = "finished"
  BY InstalledType
<1>2. /\ revision' = revision /\ files' = files /\ mainPc' = mainPc
      /\ revision \in Nat /\ snapshot \in Snapshots \cup {None}
  BY TypeParts DEF HandleFinished, StoreTypeOK
<1>3. FinishedInFlight = FinishedInFlight' \cup {Head(batch)}
  BY FinishedHandling DEF HandleFinished
<1>4. NamesText(done) /\ (snapshot # None => NamesText(snapshot))
  BY <1>3, <1>2 DEF WorkInv, RevisionNamesText
<1>5. /\ snapshot' # None /\ NamesText(snapshot)'
      /\ done.revision <= snapshot'.revision
      /\ snapshot # None => snapshot.revision <= snapshot'.revision
  <2>1. done.revision \in Nat /\ (snapshot # None => snapshot.revision \in Nat)
    BY <1>1, <1>2 DEF Snapshots, Inputs
  <2> QED
    BY <1>1, <1>2, <1>4, <2>1, NoneAssumption
       DEF InstalledAfter, Newer, NamesText, Snapshots
<1>6. done.revision = revision => IsCurrent'
  <2>1. snapshot'.revision <= revision /\ snapshot'.revision \in Nat
    BY <1>1, <1>2, <1>5 DEF NamesText, Snapshots, Inputs
  <2> QED
    BY <1>2, <1>5, <2>1 DEF IsCurrent
<1>7. IsCurrent => IsCurrent' \/ revision = 0
  <2>1. snapshot'.revision <= revision /\ snapshot'.revision \in Nat
    BY <1>1, <1>2, <1>5 DEF NamesText, Snapshots, Inputs
  <2> QED
    BY <1>2, <1>5, <2>1 DEF IsCurrent
<1>8. revision = 0 => IsCurrent'
  <2>1. snapshot'.revision <= revision /\ snapshot'.revision \in Nat
    BY <1>1, <1>2, <1>5 DEF NamesText, Snapshots, Inputs
  <2> QED
    BY <1>2, <1>5, <2>1 DEF IsCurrent
<1>9. ParkedAreWaiting'
  <2>1. parkedQueries' = parkedQueries \ Covered(snapshot'.revision)
    BY DEF HandleFinished
  <2>2. \A q \in parkedQueries : q.revision \in Nat
    BY TypeParts DEF AnalysisTypeOK, Parked
  <2>3. snapshot'.revision \in Nat
    BY <1>1 DEF Snapshots, Inputs
  <2> QED
    BY <1>2, <2>1, <2>2, <2>3
       DEF Covered, WorkInv, Bookkeeping, ParkedAreWaiting
<1>10. ASSUME UNCHANGED <<workerVars, analyzingRevision>>
       PROVE  /\ WorkFor(revision) => IsCurrent' \/ WorkFor(revision)'
              /\ AnalyzingMeansWork' /\ NextIsWanted'
              /\ ObsoleteBuildIsFlagged' /\ RevisionNamesText'
  <2> USE <1>2, <1>10 DEF workerVars
  <2>1. WorkFor(revision) => IsCurrent' \/ WorkFor(revision)'
    BY <1>3, <1>6 DEF WorkFor
  <2>2. AnalyzingMeansWork' /\ NextIsWanted'
    BY <1>7, <1>8, <2>1
       DEF WorkInv, Bookkeeping, AnalyzingMeansWork, NextIsWanted, Running
  <2>3. ObsoleteBuildIsFlagged'
    BY DEF WorkInv, ObsoleteBuildIsFlagged, Running
  <2>4. RevisionNamesText'
    BY <1>3, <1>5 DEF WorkInv, RevisionNamesText, NamesText
  <2> QED
    BY <2>1, <2>2, <2>3, <2>4
<1>11. CASE parkedQueries' # {}
  <2>1. StartAnalysis /\ RevisionNamesText /\ TextStep
    BY <1>2, <1>11 DEF HandleFinished, WorkInv, TextStep
  <2> QED
    BY <1>3, <1>5, <1>9, <1>10, <2>1, WorkStart
<1>12. CASE parkedQueries' = {}
  <2>1. UNCHANGED <<workerVars, analyzingRevision, rebuildDue>>
    BY <1>12 DEF HandleFinished
  <2>2. EditNeverForgotten'
    BY <1>2, <1>7, <1>8, <1>10, <2>1 DEF WorkInv, EditNeverForgotten, Running
  <2>3. ParkedQueriesHurry'
    BY <1>12 DEF ParkedQueriesHurry
  <2> QED
    BY <1>9, <1>10, <2>1, <2>2, <2>3 DEF WorkInv, Bookkeeping
<1> QED
  BY <1>11, <1>12

\* Once the loop has ended, only the truth of revisions is left to keep.
LEMMA WorkEnded ==
    ASSUME WorkInv, ~Running', UNCHANGED storeVars, UNCHANGED parkedQueries,
           next' = next, building' = building,
           FinishedInFlight' = FinishedInFlight
    PROVE  WorkInv'
<1> USE DEF storeVars
<1>1. RevisionNamesText'
  BY DEF WorkInv, RevisionNamesText, NamesText
<1>2. Bookkeeping'
  BY DEF WorkInv, Bookkeeping, AnalyzingMeansWork, NextIsWanted, ParkedAreWaiting
<1>3. EditNeverForgotten' /\ ParkedQueriesHurry' /\ ObsoleteBuildIsFlagged'
  BY DEF EditNeverForgotten, ParkedQueriesHurry, ObsoleteBuildIsFlagged
<1> QED
  BY <1>1, <1>2, <1>3 DEF WorkInv

LEMMA WorkTeardown ==
    ASSUME TypeOK, WorkInv, HandleLast \/ Teardown
    PROVE  WorkInv'
<1>1. ~Running' /\ UNCHANGED storeVars /\ UNCHANGED parkedQueries
  BY DEF HandleLast, Teardown, JoinReader, CancelWorker, StopWorker, JoinWorker,
         Advance, Running, analysisVars
<1>2. next' = next /\ building' = building
  BY DEF HandleLast, Teardown, JoinReader, CancelWorker, StopWorker, JoinWorker,
         DestroyCancel, DestroyRequestStop, workerVars
<1>3. FinishedInFlight' = FinishedInFlight
  <2>1. CASE HandleLast
    BY <2>1, FinishedHandling DEF HandleLast
  <2>2. CASE Teardown
    BY <2>2, FinishedStutter
       DEF Teardown, JoinReader, CancelWorker, StopWorker, JoinWorker, Advance
  <2> QED
    BY <2>1, <2>2
<1> QED
  BY <1>1, <1>2, <1>3, WorkEnded

LEMMA WorkWorker ==
    ASSUME TypeOK, WorkInv, WorkerStep
    PROVE  WorkInv'
<1>1. /\ UNCHANGED storeVars /\ UNCHANGED analysisVars /\ UNCHANGED loopVars
  BY DEF WorkerStep
<1> USE <1>1 DEF storeVars, analysisVars, loopVars, Running
<1>2. IsCurrent' <=> IsCurrent
  BY DEF IsCurrent
<1>3. CASE Take
  <2>1. FinishedInFlight' = FinishedInFlight
    BY <1>3, FinishedStutter DEF WorkerStep, DeliverSnapshot, Deliver, Take
  <2> USE <1>3, <2>1 DEF Take
  <2>2. WorkFor(revision) => WorkFor(revision)'
    BY DEF WorkFor
  <2>3. EditNeverForgotten' /\ ParkedQueriesHurry'
    BY <1>2, <2>2 DEF WorkInv, EditNeverForgotten, ParkedQueriesHurry
  <2>4. Bookkeeping'
    BY <1>2, <2>2
       DEF WorkInv, Bookkeeping, AnalyzingMeansWork, NextIsWanted, ParkedAreWaiting
  <2>5. ObsoleteBuildIsFlagged'
    BY DEF WorkInv, ObsoleteBuildIsFlagged, Bookkeeping, NextIsWanted
  <2>6. RevisionNamesText'
    BY DEF WorkInv, RevisionNamesText, NamesText
  <2> QED
    BY <2>3, <2>4, <2>5, <2>6 DEF WorkInv
<1>4. CASE Stop \/ Abandon \/ PassCheckpoint
  <2>1. FinishedInFlight' = FinishedInFlight
    BY <1>4, FinishedStutter
       DEF WorkerStep, DeliverSnapshot, Deliver, Stop, Abandon, PassCheckpoint
  <2>2. /\ next' = next /\ cancel' = cancel
        /\ building' = building \/ (building' = None /\ cancel)
        /\ workerPc' = "building" => workerPc = "building" /\ building' = building
    BY <1>4 DEF Stop, Abandon, PassCheckpoint
  <2>3. WorkFor(revision) => WorkFor(revision)'
    BY <1>4, <2>1 DEF WorkFor, Stop, Abandon, PassCheckpoint
  <2> USE <2>1, <2>2
  <2>4. EditNeverForgotten' /\ ParkedQueriesHurry'
    BY <1>2, <2>3 DEF WorkInv, EditNeverForgotten, ParkedQueriesHurry
  <2>5. Bookkeeping'
    BY <1>2, <2>3
       DEF WorkInv, Bookkeeping, AnalyzingMeansWork, NextIsWanted, ParkedAreWaiting
  <2>6. ObsoleteBuildIsFlagged'
    BY DEF WorkInv, ObsoleteBuildIsFlagged
  <2>7. RevisionNamesText'
    BY DEF WorkInv, RevisionNamesText, NamesText
  <2> QED
    BY <2>4, <2>5, <2>6, <2>7 DEF WorkInv
<1>5. CASE DeliverSnapshot
  <2>1. FinishedInFlight' = FinishedInFlight
            \cup {[type |-> "finished", snapshot |-> building]}
    BY <1>5, FinishedDeliver
  <2>2. building \in Inputs /\ building # None
    BY <1>5, TypeParts, NoneAssumption DEF DeliverSnapshot, Deliver, WorkerTypeOK
  <2> USE <1>5, <2>1 DEF DeliverSnapshot, Deliver
  <2>3. WorkFor(revision) => WorkFor(revision)'
    BY DEF WorkFor
  <2>4. EditNeverForgotten' /\ ParkedQueriesHurry'
    BY <1>2, <2>3 DEF WorkInv, EditNeverForgotten, ParkedQueriesHurry
  <2>5. Bookkeeping'
    BY <1>2, <2>3
       DEF WorkInv, Bookkeeping, AnalyzingMeansWork, NextIsWanted, ParkedAreWaiting
  <2>6. ObsoleteBuildIsFlagged'
    BY DEF ObsoleteBuildIsFlagged
  <2>7. RevisionNamesText'
    BY <2>2 DEF WorkInv, RevisionNamesText, NamesText
  <2> QED
    BY <2>4, <2>5, <2>6, <2>7 DEF WorkInv
<1> QED
  BY <1>3, <1>4, <1>5 DEF WorkerStep

\* The client's messages change nothing but the queue.
LEMMA ClientReads ==
    ASSUME Client
    PROVE  \E m \in Messages : Read(m)
<1>1. CASE SendRequest
  BY <1>1 DEF SendRequest, Messages
<1>2. CASE SendCancel
  <2>1. PICK i \in Ids : Read([type |-> "cancel", id |-> i])
    BY <1>2 DEF SendCancel
  <2>2. [type |-> "cancel", id |-> i] \in Messages
    BY DEF Messages, Cancels
  <2> QED
    BY <2>1, <2>2
<1>3. CASE SendEdit
  <2>1. PICK f \in Files : Read([type |-> "edit", files |-> f])
    BY <1>3 DEF SendEdit
  <2>2. [type |-> "edit", files |-> f] \in Messages
    BY DEF Messages, Edits
  <2> QED
    BY <2>1, <2>2
<1>4. CASE SendNoise \/ SendLast
  <2>1. PICK t \in {"rejectedEdit", "noEffect", "last"} : Read([type |-> t])
    BY <1>4 DEF SendNoise, SendLast
  <2>2. [type |-> t] \in Messages
    BY DEF Messages, Others
  <2> QED
    BY <2>1, <2>2
<1> QED
  BY <1>1, <1>2, <1>3, <1>4 DEF Client

LEMMA WorkNext == TypeOK /\ TypeOK' /\ WorkInv /\ [Next]_vars => WorkInv'
<1> SUFFICES ASSUME TypeOK, TypeOK', WorkInv, [Next]_vars
             PROVE  WorkInv'
  OBVIOUS
<1>1. CASE Client
  <2>1. PICK m \in Messages : Read(m)
    BY <1>1, ClientReads
  <2>2. /\ FinishedInFlight' = FinishedInFlight
        /\ UNCHANGED <<storeVars, workerVars, analysisVars>>
        /\ Running' => Running
    BY <2>1, FinishedRead DEF Read, loopVars, Running
  <2> QED
    BY <2>2, WorkQuiet
<1>2. CASE TakeBatch
  <2>1. /\ FinishedInFlight' = FinishedInFlight
        /\ UNCHANGED <<storeVars, workerVars, analysisVars>>
        /\ Running' => Running
    BY <1>2, FinishedTakeBatch DEF TakeBatch
  <2> QED
    BY <2>1, WorkQuiet
<1>3. CASE \/ HandleCancelledRequest \/ HandleDirect
           \/ HandleAnswerableQuery \/ HandleNoEffect
  <2>1. /\ UNCHANGED <<storeVars, workerVars, analysisVars>>
        /\ Running' => Running
    BY <1>3 DEF HandleCancelledRequest, HandleDirect, HandleAnswerableQuery,
                HandleNoEffect, Running
  <2>2. FinishedInFlight' = FinishedInFlight
    BY <1>3, FinishedHandling
       DEF HandleCancelledRequest, HandleDirect, HandleAnswerableQuery,
           HandleNoEffect, RequestTypes
  <2> QED
    BY <2>1, <2>2, WorkQuiet
<1>4. CASE ParkQuery \/ RebuildTimeout
  BY <1>4, WorkParkOrTimeout
<1>5. CASE HandleEdit \/ HandleRejectedEdit
  BY <1>5, WorkEdit
<1>6. CASE HandleCancel
  BY <1>6, WorkCancel
<1>7. CASE HandleFinished
  BY <1>7, WorkFinished
<1>8. CASE HandleLast \/ Teardown
  BY <1>8, WorkTeardown
<1>9. CASE WorkerStep
  BY <1>9, WorkWorker
<1>10. CASE UNCHANGED vars
  <2>1. /\ FinishedInFlight' = FinishedInFlight
        /\ UNCHANGED <<storeVars, workerVars, analysisVars>>
        /\ Running' => Running
    BY <1>10, FinishedStutter DEF vars, loopVars, Running
  <2> QED
    BY <2>1, WorkQuiet
<1> QED
  BY <1>1, <1>2, <1>3, <1>4, <1>5, <1>6, <1>7, <1>8, <1>9, <1>10
     DEF Next, MainStep, Handle

\* The inductive invariant holds in every reachable state.
THEOREM WorkInvariant == Spec => []WorkInv
<1>1. Init => TypeOK /\ WorkInv
  BY TypeInit, WorkInit
<1>2. TypeOK /\ WorkInv /\ [Next]_vars => (TypeOK /\ WorkInv)'
  BY TypeNext, WorkNext
<1> QED
  BY <1>1, <1>2, PTL DEF Spec

\* No edit is forgotten (note_edit, start_analysis, the debounce timer): an
\* idle server shows the diagnostics of the current text.
THEOREM EditsAreNeverForgotten == Spec => []EditNeverForgotten
<1>1. WorkInv => EditNeverForgotten
  BY DEF WorkInv
<1> QED
  BY <1>1, WorkInvariant, PTL

\* What the main loop remembers of its analyses is true of the worker, the
\* queue and the store (start_analysis, note_edit, park).
THEOREM BookkeepingIsTrue == Spec => []Bookkeeping
<1>1. WorkInv => Bookkeeping
  BY DEF WorkInv
<1> QED
  BY <1>1, WorkInvariant, PTL

\* A parked query has an analysis of the current text on its way, whatever
\* edits, cancellations and late snapshots came since (server.cc:446).
THEOREM ParkedQueriesAlwaysHurry == Spec => []ParkedQueriesHurry
<1>1. WorkInv => ParkedQueriesHurry
  BY DEF WorkInv
<1> QED
  BY <1>1, WorkInvariant, PTL

\* The worker never goes on with a build the main loop has given up.
THEOREM ObsoleteBuildsAreFlagged == Spec => []ObsoleteBuildIsFlagged
<1>1. WorkInv => ObsoleteBuildIsFlagged
  BY DEF WorkInv
<1> QED
  BY <1>1, WorkInvariant, PTL

\* Comparing revision numbers is enough to know that a snapshot is of the
\* text the editor has now (document_store::is_current).
THEOREM RevisionsNameText == Spec => []RevisionNamesText
<1>1. WorkInv => RevisionNamesText
  BY DEF WorkInv
<1> QED
  BY <1>1, WorkInvariant, PTL

-----------------------------------------------------------------------------
(* What the client shows                                                    *)

\* Nothing stays queued between steps, so nothing queued is ever lost.
ViewInv == ClientShowsInstalled /\ pendingDiagnostics = NothingPending

\* Publishing what a newer analysis queues, over the diagnostics of the one
\* it replaces, shows the diagnostics of the newer one.
LEMMA PublishQueued ==
    ASSUME StoreTypeOK, NEW s \in Snapshots,
           NEW before, before = IF snapshot = None THEN NoDiagnostics
                                                   ELSE DiagnosticsOf(snapshot)
    PROVE  Publish(QueuedBy(s), before) = DiagnosticsOf(s)
<1> DEFINE dropped == IF snapshot = None THEN {} ELSE Reached[snapshot.files]
<1>1. DOMAIN QueuedBy(s) = Reached[s.files] \cup dropped
  BY DEF QueuedBy
<1>2. ASSUME NEW m \in Modules, m \in DOMAIN QueuedBy(s)
      PROVE  Publish(QueuedBy(s), before)[m] = DiagnosticsOf(s)[m]
  BY <1>1, <1>2 DEF Publish, QueuedBy
<1>3. ASSUME NEW m \in Modules, m \notin DOMAIN QueuedBy(s)
      PROVE  Publish(QueuedBy(s), before)[m] = DiagnosticsOf(s)[m]
  <2>1. Publish(QueuedBy(s), before)[m] = before[m]
    BY <1>3 DEF Publish
  <2>2. m \notin Reached[s.files] /\ m \notin dropped
    BY <1>1, <1>3
  <2>3. before[m] = None
    BY <2>2 DEF NoDiagnostics, DiagnosticsOf
  <2>4. DiagnosticsOf(s)[m] = None
    BY <2>2 DEF DiagnosticsOf
  <2> QED
    BY <2>1, <2>3, <2>4
<1>4. /\ Publish(QueuedBy(s), before)
            = [m \in Modules |-> Publish(QueuedBy(s), before)[m]]
      /\ DiagnosticsOf(s) = [m \in Modules |-> DiagnosticsOf(s)[m]]
  BY DEF Publish, DiagnosticsOf
<1> QED
  BY <1>2, <1>3, <1>4

LEMMA ViewFinished ==
    ASSUME TypeOK, ViewInv, HandleFinished
    PROVE  ViewInv'
<1> DEFINE done == Head(batch).snapshot
<1>1. /\ done \in Snapshots /\ StoreTypeOK
      /\ snapshot' = InstalledAfter(done)
      /\ snapshot' # None
      /\ shown' = Publish(QueuedAfter(done), shown)
      /\ pendingDiagnostics' = NothingPending
  BY InstalledType, TypeParts, NoneAssumption DEF HandleFinished, Snapshots
<1>2. CASE Newer(done)
  <2>1. snapshot' = done /\ QueuedAfter(done) = QueuedBy(done)
    BY <1>1, <1>2 DEF InstalledAfter, QueuedAfter
  <2>2. shown' = DiagnosticsOf(done)
    BY <1>1, <2>1, PublishQueued DEF ViewInv, ClientShowsInstalled
  <2> QED
    BY <1>1, <2>1, <2>2 DEF ViewInv, ClientShowsInstalled
<1>3. CASE ~Newer(done)
  <2>1. snapshot' = snapshot /\ QueuedAfter(done) = NothingPending
    BY <1>1, <1>3 DEF InstalledAfter, QueuedAfter, ViewInv
  <2>2. shown \in [Modules -> Nat \cup {None}]
    BY TypeParts DEF ReceivedTypeOK
  <2>3. shown' = shown
    BY <1>1, <2>1, <2>2 DEF Publish, NothingPending
  <2> QED
    BY <1>1, <2>1, <2>3 DEF ViewInv, ClientShowsInstalled, DiagnosticsOf
<1> QED
  BY <1>2, <1>3

LEMMA ViewNext == TypeOK /\ ViewInv /\ [Next]_vars => ViewInv'
<1> SUFFICES ASSUME TypeOK, ViewInv, [Next]_vars PROVE ViewInv'
  OBVIOUS
<1>1. CASE HandleFinished
  BY <1>1, ViewFinished
<1>2. ASSUME shown' = shown, snapshot' = snapshot,
             pendingDiagnostics' = pendingDiagnostics
      PROVE  ViewInv'
  BY <1>2 DEF ViewInv, ClientShowsInstalled, DiagnosticsOf
<1>3. CASE Client
  BY <1>2, <1>3, ClientReads DEF Read, storeVars
<1>4. CASE TakeBatch \/ RebuildTimeout \/ Teardown
  BY <1>2, <1>4
     DEF TakeBatch, RebuildTimeout, Teardown, JoinReader, CancelWorker,
         StopWorker, JoinWorker, Advance, storeVars, clientVars
<1>5. CASE \/ HandleCancelledRequest \/ HandleDirect
           \/ HandleAnswerableQuery \/ ParkQuery
  BY <1>2, <1>5
     DEF HandleCancelledRequest, HandleDirect, HandleAnswerableQuery, ParkQuery,
         storeVars
<1>6. CASE \/ HandleEdit \/ HandleRejectedEdit \/ HandleCancel
           \/ HandleNoEffect \/ HandleLast
  BY <1>2, <1>6
     DEF HandleEdit, Change, HandleRejectedEdit, HandleCancel, HandleNoEffect,
         HandleLast, storeVars
<1>7. CASE WorkerStep
  BY <1>2, <1>7 DEF WorkerStep, storeVars, clientVars
<1>8. CASE UNCHANGED vars
  BY <1>2, <1>8 DEF vars, storeVars
<1> QED
  BY <1>1, <1>3, <1>4, <1>5, <1>6, <1>7, <1>8 DEF Next, MainStep, Handle

\* The client shows the diagnostics of the installed analysis and no others:
\* install and publish_pending_diagnostics clear what is no longer reached.
THEOREM ClientAlwaysShowsInstalled == Spec => []ClientShowsInstalled
<1>1. Init => ViewInv
  BY DEF Init, StoreInit, ViewInv, ClientShowsInstalled
<1>2. ViewInv => ClientShowsInstalled
  BY DEF ViewInv
<1> QED
  BY <1>1, <1>2, TypeInit, TypeNext, ViewNext, PTL DEF Spec
=============================================================================
