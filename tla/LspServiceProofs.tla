-------------------------- MODULE LspServiceProofs --------------------------
(* What the client is promised: LspServer implements QueryService, comes to *)
(* rest when left alone, and has settled everything when it does, for any   *)
(* number of requests, edits, modules and checkpoints.                      *)
EXTENDS LspServerProofs

-----------------------------------------------------------------------------
(* The inductive invariant, in five parts                                   *)

\* How many of the events queued, or left in the batch, are in E.
Queued(E) == Hits(events, Len(events), E) + Hits(batch, Len(batch), E)

RequestsOf(i) == {e \in Events : e.type \in RequestTypes /\ e.id = i}

ParkedAs(i) == {q \in parkedQueries : q.id = i}

\* The places request i is in.
Places(i) == Queued(RequestsOf(i)) + Len(replies[i]) + Cardinality(ParkedAs(i))

OnePlace ==
    /\ IsFiniteSet(parkedQueries)
    /\ \A i \in Ids : Places(i) = IF asked[i] = None THEN 0 ELSE 1

\* The store is behind the client by the edits it has yet to handle.
TextCounted == textVersion = revision + Queued(Edits)

\* A query was asked about a text that is not newer than the one the store
\* will have when it comes to the query, and a parked one no newer than the
\* revision it is parked for.
AskedBy(i, v) == asked[i] \in Nat /\ asked[i] <= v

BatchInTime ==
    \A k \in 1..Len(batch) : batch[k].type = "query" =>
        AskedBy(batch[k].id, revision + Hits(batch, k, Edits))

EventsInTime ==
    \A k \in 1..Len(events) : events[k].type = "query" =>
        AskedBy(events[k].id, revision + Hits(batch, Len(batch), Edits)
                                       + Hits(events, k, Edits))

ParkedInTime == \A q \in parkedQueries : AskedBy(q.id, q.revision)

QueriesInTime == BatchInTime /\ EventsInTime /\ ParkedInTime

InFlight == Range(events) \cup Range(batch)

\* Only what the client asked to cancel is cancelled.
CancelsAsked ==
    /\ cancelledIds \subseteq cancelAsked
    /\ \A e \in InFlight : e.type = "cancel" => e.id \in cancelAsked

\* The reader stops no later than it queues the last message.
ReaderIsDone ==
    (~Running \/ \E e \in InFlight : e.type = "last") => readerPc = "stopped"

ServiceInv ==
    OnePlace /\ TextCounted /\ QueriesInTime /\ CancelsAsked /\ ReaderIsDone

-----------------------------------------------------------------------------
(* How many events of a kind are queued                                     *)

LEMMA QueuedNat ==
    ASSUME TypeOK, NEW E
    PROVE  /\ Hits(events, Len(events), E) \in Nat
           /\ Hits(batch, Len(batch), E) \in Nat
           /\ Queued(E) \in Nat
<1>1. Len(events) \in Nat /\ Len(batch) \in Nat
  BY TypeParts DEF LoopTypeOK
<1>2. Hits(events, Len(events), E) \in Nat /\ Hits(batch, Len(batch), E) \in Nat
  BY <1>1, HitsFinite
<1> QED
  BY <1>2 DEF Queued

LEMMA QueuedPush ==
    ASSUME TypeOK, NEW m \in Events, events' = Append(events, m), batch' = batch,
           NEW E
    PROVE  Queued(E)' = Queued(E) + IF m \in E THEN 1 ELSE 0
<1>1. Hits(events, Len(events), E)'
         = Hits(events, Len(events), E) + IF m \in E THEN 1 ELSE 0
  BY HitsAppend, TypeParts DEF LoopTypeOK
<1>2. Hits(batch, Len(batch), E)' = Hits(batch, Len(batch), E)
  OBVIOUS
<1>3. /\ Hits(events, Len(events), E) \in Nat
      /\ Hits(batch, Len(batch), E) \in Nat
  BY QueuedNat
<1> QED
  BY <1>1, <1>2, <1>3 DEF Queued

LEMMA QueuedTake ==
    ASSUME TypeOK, TakeBatch, NEW E
    PROVE  Queued(E)' = Queued(E)
<1>1. /\ Hits(batch, Len(batch), E) = 0 /\ Hits(events, Len(events), E)' = 0
      /\ Hits(batch, Len(batch), E)' = Hits(events, Len(events), E)
  BY HitsFinite DEF TakeBatch
<1>2. Hits(events, Len(events), E) \in Nat
  BY QueuedNat
<1> QED
  BY <1>1, <1>2 DEF Queued

LEMMA QueuedHandling ==
    ASSUME TypeOK, NEW types, Handling(types), NEW E
    PROVE  Queued(E) = Queued(E)' + IF Head(batch) \in E THEN 1 ELSE 0
<1>1. /\ batch \in Seq(Events) /\ batch # <<>> /\ batch' = Tail(batch)
      /\ events' = events
  BY TypeParts DEF LoopTypeOK, Handling
<1>2. Len(batch) \in 1..Len(batch) /\ Len(Tail(batch)) = Len(batch) - 1
      /\ Len(Tail(batch)) \in Nat
  BY <1>1
<1>3. Hits(batch, Len(batch), E)
         = Hits(batch, Len(batch), E)' + IF Head(batch) \in E THEN 1 ELSE 0
  BY <1>1, <1>2, HitsTail
<1>4. /\ Hits(events, Len(events), E)' = Hits(events, Len(events), E)
      /\ Hits(events, Len(events), E) \in Nat
      /\ Hits(batch, Len(batch), E) \in Nat
  BY <1>1, QueuedNat
<1>5. Hits(batch, Len(batch), E)' \in Nat
  BY <1>1, <1>2, HitsFinite
<1> QED
  BY <1>3, <1>4, <1>5 DEF Queued

LEMMA QueuedStutter ==
    ASSUME UNCHANGED <<events, batch>>, NEW E
    PROVE  Queued(E)' = Queued(E)
BY DEF Queued

LEMMA QueuedLater ==
    ASSUME batch' \in Seq(Events), events' \in Seq(Events), NEW E
    PROVE  Queued(E)' \in Nat
<1>1. Len(batch') \in Nat /\ Len(events') \in Nat
  OBVIOUS
<1>2. Hits(events', Len(events'), E) \in Nat /\ Hits(batch', Len(batch'), E) \in Nat
  BY <1>1, HitsFinite
<1> QED
  BY <1>2 DEF Queued

LEMMA QueuedKept ==
    ASSUME TypeOK, NEW types, Handling(types), NEW E, Head(batch) \notin E
    PROVE  Queued(E)' = Queued(E)
<1>1. Queued(E) = Queued(E)' + 0
  BY QueuedHandling
<1>2. Queued(E)' \in Nat
  BY HandlingType, QueuedLater
<1> QED
  BY <1>1, <1>2

\* An event handed to the handler is counted.
LEMMA HeadCounted ==
    ASSUME TypeOK, NEW types, Handling(types), NEW E, Head(batch) \in E
    PROVE  Queued(E) \in Nat /\ Queued(E) >= 1 /\ Queued(E)' = Queued(E) - 1
           /\ Queued(E)' \in Nat
<1>1. Queued(E) = Queued(E)' + 1
  BY QueuedHandling
<1>2. Queued(E) \in Nat
  BY QueuedNat
<1>3. Queued(E)' \in Nat
  BY HandlingType, QueuedLater
<1> QED
  BY <1>1, <1>2, <1>3

-----------------------------------------------------------------------------
(* What the client may send                                                 *)

\* The client sends m.
Sent(m) ==
    /\ Read(m)
    /\ \/ /\ m \in Requests
          /\ asked[m.id] = None
          /\ asked' = [asked EXCEPT ![m.id] = textVersion]
          /\ UNCHANGED <<cancelAsked, textVersion>>
       \/ /\ m \in Cancels
          /\ asked[m.id] # None
          /\ cancelAsked' = cancelAsked \cup {m.id}
          /\ UNCHANGED <<asked, textVersion>>
       \/ /\ m \in Edits
          /\ textVersion' = textVersion + 1
          /\ UNCHANGED <<asked, cancelAsked>>
       \/ m \in Others /\ UNCHANGED <<asked, cancelAsked, textVersion>>

LEMMA ClientSends ==
    ASSUME Client
    PROVE  \E m \in Messages : Sent(m)
<1>1. CASE SendRequest
  BY <1>1 DEF SendRequest, Sent, Messages
<1>2. CASE SendCancel
  <2>1. PICK i \in Ids : /\ asked[i] # None
                         /\ cancelAsked' = cancelAsked \cup {i}
                         /\ Read([type |-> "cancel", id |-> i])
                         /\ UNCHANGED <<asked, textVersion, noiseSent>>
    BY <1>2 DEF SendCancel
  <2>2. [type |-> "cancel", id |-> i] \in Cancels
    BY DEF Cancels
  <2>3. Sent([type |-> "cancel", id |-> i])
    BY <2>1, <2>2 DEF Sent
  <2> QED
    BY <2>2, <2>3 DEF Messages
<1>3. CASE SendEdit
  <2>1. PICK f \in Files : /\ textVersion' = textVersion + 1
                           /\ Read([type |-> "edit", files |-> f])
                           /\ UNCHANGED <<asked, cancelAsked, noiseSent>>
    BY <1>3 DEF SendEdit
  <2>2. [type |-> "edit", files |-> f] \in Edits
    BY DEF Edits
  <2>3. Sent([type |-> "edit", files |-> f])
    BY <2>1, <2>2 DEF Sent
  <2> QED
    BY <2>2, <2>3 DEF Messages
<1>4. CASE SendNoise \/ SendLast
  <2>1. PICK t \in {"rejectedEdit", "noEffect", "last"} :
            Read([type |-> t]) /\ UNCHANGED <<asked, cancelAsked, textVersion>>
    BY <1>4 DEF SendNoise, SendLast, sentVars
  <2>2. [type |-> t] \in Others
    BY DEF Others
  <2>3. Sent([type |-> t])
    BY <2>1, <2>2 DEF Sent
  <2> QED
    BY <2>2, <2>3 DEF Messages
<1> QED
  BY <1>1, <1>2, <1>3, <1>4 DEF Client

\* What kind of event a message is.
LEMMA MessageKinds ==
    /\ \A m \in Messages : m \in Events /\ m.type # "finished"
    /\ \A m \in Requests : m.type \in RequestTypes /\ m.id \in Ids
    /\ \A m \in Cancels : m.type = "cancel" /\ m.id \in Ids
    /\ \A m \in Edits : m.type = "edit"
    /\ \A m \in Others : m.type \in {"rejectedEdit", "noEffect", "last"}
    /\ \A e \in Events : e.type = "edit" <=> e \in Edits
BY DEF Events, Messages, Requests, Cancels, Edits, Others, Finished,
       RequestTypes, Ids

-----------------------------------------------------------------------------
(* A request is in one place                                                *)

LEMMA PlacesType ==
    ASSUME TypeOK, OnePlace, NEW i \in Ids
    PROVE  /\ Queued(RequestsOf(i)) \in Nat
           /\ Len(replies[i]) \in Nat /\ replies[i] \in Seq(Replies)
           /\ IsFiniteSet(ParkedAs(i))
           /\ Cardinality(ParkedAs(i)) \in Nat
           /\ Places(i) = IF asked[i] = None THEN 0 ELSE 1
<1>1. Queued(RequestsOf(i)) \in Nat
  BY QueuedNat
<1>2. replies[i] \in Seq(Replies)
  BY TypeParts DEF ReceivedTypeOK
<1>3. IsFiniteSet(ParkedAs(i))
  BY FS_Subset DEF OnePlace, ParkedAs
<1> QED
  BY <1>1, <1>2, <1>3, FS_CardinalityType DEF OnePlace

\* A request at the head of the batch is nowhere else.
LEMMA HeadIsAlone ==
    ASSUME TypeOK, OnePlace, NEW types, Handling(types),
           NEW i \in Ids, Head(batch) \in RequestsOf(i)
    PROVE  /\ asked[i] # None
           /\ replies[i] = <<>>
           /\ ParkedAs(i) = {}
           /\ Queued(RequestsOf(i))' = 0
           /\ \A j \in Ids \ {i} :
                 Queued(RequestsOf(j))' = Queued(RequestsOf(j))
<1> USE PlacesType
<1>1. /\ Queued(RequestsOf(i)) >= 1 /\ Queued(RequestsOf(i))' \in Nat
      /\ Queued(RequestsOf(i))' = Queued(RequestsOf(i)) - 1
  BY HeadCounted
<1>2. /\ asked[i] # None /\ Queued(RequestsOf(i)) = 1
      /\ Len(replies[i]) = 0 /\ Cardinality(ParkedAs(i)) = 0
  BY <1>1 DEF Places
<1>3. replies[i] = <<>> /\ ParkedAs(i) = {}
  BY <1>2, FS_EmptySet
<1>4. ASSUME NEW j \in Ids \ {i}
      PROVE  Queued(RequestsOf(j))' = Queued(RequestsOf(j))
  <2>1. Head(batch) \notin RequestsOf(j)
    BY DEF RequestsOf
  <2> QED
    BY <2>1, QueuedKept
<1> QED
  BY <1>1, <1>2, <1>3, <1>4

\* A parked query is parked once, and nowhere else.
LEMMA ParkedIsAlone ==
    ASSUME TypeOK, OnePlace, NEW q \in parkedQueries
    PROVE  /\ q.id \in QueryIds
           /\ asked[q.id] # None
           /\ replies[q.id] = <<>>
           /\ ParkedAs(q.id) = {q}
           /\ Queued(RequestsOf(q.id)) = 0
<1> DEFINE i == q.id
<1>1. i \in QueryIds /\ i \in Ids
  BY TypeParts DEF AnalysisTypeOK, Parked, Ids
<1>2. q \in ParkedAs(i)
  BY DEF ParkedAs
<1> HIDE DEF i
<1> USE <1>1, PlacesType
<1>3. Cardinality(ParkedAs(i)) # 0
  BY <1>2, FS_EmptySet
<1>4. /\ asked[i] # None /\ Queued(RequestsOf(i)) = 0
      /\ Len(replies[i]) = 0 /\ Cardinality(ParkedAs(i)) = 1
  BY <1>3 DEF Places
<1>5. replies[i] = <<>>
  BY <1>4
<1>6. \E x : ParkedAs(i) = {x}
  BY <1>4, FS_Singleton
<1>7. ParkedAs(i) = {q}
  BY <1>2, <1>6
<1> QED
  BY <1>1, <1>4, <1>5, <1>7 DEF i

LEMMA OnePlaceInit == Init => OnePlace
<1> SUFFICES ASSUME Init PROVE OnePlace
  OBVIOUS
<1>1. parkedQueries = {} /\ events = <<>> /\ batch = <<>>
  BY DEF Init
<1>2. IsFiniteSet(parkedQueries)
  BY <1>1, FS_EmptySet
<1>3. ASSUME NEW i \in Ids
      PROVE  Places(i) = IF asked[i] = None THEN 0 ELSE 1
  <2>1. Queued(RequestsOf(i)) = 0
    <3>1. Len(events) = 0 /\ Len(batch) = 0
      BY <1>1
    <3>2. Hits(events, 0, RequestsOf(i)) = 0 /\ Hits(batch, 0, RequestsOf(i)) = 0
      BY HitsFinite
    <3> QED
      BY <3>1, <3>2 DEF Queued
  <2>2. ParkedAs(i) = {} /\ Cardinality(ParkedAs(i)) = 0
    BY <1>1, FS_EmptySet DEF ParkedAs
  <2>3. replies[i] = <<>> /\ asked[i] = None
    BY DEF Init
  <2> QED
    BY <2>1, <2>2, <2>3 DEF Places
<1> QED
  BY <1>2, <1>3 DEF OnePlace

\* A step that moves no request.
LEMMA OnePlaceQuiet ==
    ASSUME OnePlace, UNCHANGED <<asked, replies, parkedQueries>>,
           \A i \in Ids : Queued(RequestsOf(i))' = Queued(RequestsOf(i))
    PROVE  OnePlace'
<1>1. \A i \in Ids : ParkedAs(i)' = ParkedAs(i)
  BY DEF ParkedAs
<1>2. \A i \in Ids : Places(i)' = Places(i)
  BY <1>1 DEF Places
<1> QED
  BY <1>2 DEF OnePlace

LEMMA OnePlaceClient ==
    ASSUME TypeOK, OnePlace, NEW m \in Messages, Sent(m)
    PROVE  OnePlace'
<1>1. /\ events' = Append(events, m) /\ batch' = batch
      /\ UNCHANGED <<replies, parkedQueries>> /\ m \in Events
  BY MessageKinds DEF Sent, Read, loopVars, analysisVars
<1>2. \A i \in Ids : Queued(RequestsOf(i))'
                       = Queued(RequestsOf(i)) + IF m \in RequestsOf(i) THEN 1 ELSE 0
  BY <1>1, QueuedPush
<1>3. CASE m \in Requests
  <2>1. /\ m.id \in Ids /\ m.type \in RequestTypes /\ asked[m.id] = None
        /\ asked' = [asked EXCEPT ![m.id] = textVersion]
    <3>1. m.id \in Ids /\ m.type \in RequestTypes
      BY <1>3, MessageKinds
    <3>2. m \notin Cancels /\ m \notin Edits /\ m \notin Others
      BY <3>1, MessageKinds DEF RequestTypes
    <3> QED
      BY <3>1, <3>2 DEF Sent
  <2>2. textVersion # None
    BY TypeParts, NoneAssumption DEF SentTypeOK
  <2>3. ASSUME NEW i \in Ids
        PROVE  Places(i)' = IF asked'[i] = None THEN 0 ELSE 1
    <3>1. /\ Queued(RequestsOf(i)) \in Nat /\ Len(replies[i]) \in Nat
          /\ Cardinality(ParkedAs(i)) \in Nat
          /\ Places(i) = IF asked[i] = None THEN 0 ELSE 1
      BY PlacesType
    <3>2. replies'[i] = replies[i] /\ ParkedAs(i)' = ParkedAs(i)
      BY <1>1 DEF ParkedAs
    <3>3. asked'[i] = IF i = m.id THEN textVersion ELSE asked[i]
      BY <2>1, TypeParts DEF SentTypeOK
    <3>4. m \in RequestsOf(i) <=> i = m.id
      BY <1>1, <2>1 DEF RequestsOf
    <3>5. Queued(RequestsOf(i))'
             = Queued(RequestsOf(i)) + IF i = m.id THEN 1 ELSE 0
      BY <1>2, <3>4
    <3>6. Places(i)' = Places(i) + IF i = m.id THEN 1 ELSE 0
      BY <3>1, <3>2, <3>5 DEF Places
    <3> QED
      BY <2>1, <2>2, <3>1, <3>3, <3>6
  <2> QED
    BY <1>1, <2>3 DEF OnePlace
<1>4. CASE m \notin Requests
  <2>1. asked' = asked
    BY <1>4 DEF Sent
  <2>2. m.type \notin RequestTypes
    BY <1>4 DEF Messages, Cancels, Edits, Others, RequestTypes
  <2>3. ASSUME NEW i \in Ids
        PROVE  Queued(RequestsOf(i))' = Queued(RequestsOf(i))
    <3>1. m \notin RequestsOf(i) /\ Queued(RequestsOf(i)) \in Nat
      BY <2>2, QueuedNat DEF RequestsOf
    <3> QED
      BY <1>2, <3>1
  <2> QED
    BY <1>1, <2>1, <2>3, OnePlaceQuiet
<1> QED
  BY <1>3, <1>4

\* The request at the head of the batch goes somewhere else.
LEMMA OnePlaceRequest ==
    ASSUME TypeOK, OnePlace,
           \/ HandleCancelledRequest \/ HandleDirect
           \/ HandleAnswerableQuery \/ ParkQuery
    PROVE  OnePlace'
<1>1. /\ Handling(RequestTypes) /\ asked' = asked
  BY DEF HandleCancelledRequest, HandleDirect, HandleAnswerableQuery, ParkQuery,
         RequestTypes, Handling, sentVars
<1>2. PICK i \in Ids : Head(batch) \in RequestsOf(i)
  <2>1. Head(batch) \in Events /\ Head(batch).type \in RequestTypes
    BY <1>1, HandlingType
  <2>2. Head(batch).id \in Ids
    BY <2>1, CarriedTypes
  <2> QED
    BY <2>1, <2>2 DEF RequestsOf
<1>3. Head(batch).id = i
  BY <1>2 DEF RequestsOf
<1>4. /\ asked[i] # None /\ replies[i] = <<>> /\ ParkedAs(i) = {}
      /\ Queued(RequestsOf(i))' = 0
      /\ \A j \in Ids \ {i} : Queued(RequestsOf(j))' = Queued(RequestsOf(j))
  BY <1>1, <1>2, HeadIsAlone
<1>5. CASE HandleCancelledRequest \/ HandleDirect \/ HandleAnswerableQuery
  <2>1. PICK r : Reply({i}, r)
    BY <1>3, <1>5
       DEF HandleCancelledRequest, HandleDirect, HandleAnswerableQuery
  <2>2. parkedQueries' = parkedQueries
    BY <1>5
       DEF HandleCancelledRequest, HandleDirect, HandleAnswerableQuery, analysisVars
  <2>3. Places(i)' = 1
    <3>1. replies'[i] = Append(<<>>, r)
      BY <1>4, <2>1 DEF Reply
    <3>2. Len(replies'[i]) = 1
      BY <3>1
    <3>3. Cardinality(ParkedAs(i))' = 0
      BY <1>4, <2>2, FS_EmptySet DEF ParkedAs
    <3> QED
      BY <1>4, <3>2, <3>3 DEF Places
  <2>4. ASSUME NEW j \in Ids \ {i} PROVE Places(j)' = Places(j)
    <3>1. replies'[j] = replies[j] /\ ParkedAs(j)' = ParkedAs(j)
      BY <2>1, <2>2 DEF Reply, ParkedAs
    <3> QED
      BY <1>4, <3>1 DEF Places
  <2> QED
    BY <1>1, <1>4, <2>2, <2>3, <2>4 DEF OnePlace
<1>6. CASE ParkQuery
  <2>1. /\ replies' = replies
        /\ parkedQueries' = parkedQueries \cup {[id |-> i, revision |-> revision]}
    BY <1>3, <1>6 DEF ParkQuery
  <2>2. Places(i)' = 1
    <3>1. ParkedAs(i)' = {[id |-> i, revision |-> revision]}
      BY <1>4, <2>1 DEF ParkedAs
    <3>2. Cardinality(ParkedAs(i))' = 1
      BY <3>1, FS_Singleton
    <3>3. Len(replies'[i]) = 0
      BY <1>4, <2>1
    <3> QED
      BY <1>4, <3>2, <3>3 DEF Places
  <2>3. ASSUME NEW j \in Ids \ {i} PROVE Places(j)' = Places(j)
    <3>1. replies'[j] = replies[j] /\ ParkedAs(j)' = ParkedAs(j)
      BY <2>1 DEF ParkedAs
    <3> QED
      BY <1>4, <3>1 DEF Places
  <2>4. IsFiniteSet(parkedQueries')
    BY <2>1, FS_AddElement DEF OnePlace
  <2> QED
    BY <1>1, <1>4, <2>2, <2>3, <2>4 DEF OnePlace
<1> QED
  BY <1>5, <1>6

\* Some parked queries get a reply and are parked no longer.
LEMMA OnePlaceUnpark ==
    ASSUME TypeOK, OnePlace, NEW types, Handling(types),
           types \cap RequestTypes = {},
           NEW ready \in SUBSET parkedQueries, NEW r,
           Reply({q.id : q \in ready}, r),
           parkedQueries' = parkedQueries \ ready
    PROVE  OnePlace'
<1>1. asked' = asked
  BY DEF Handling, sentVars
<1>2. IsFiniteSet(parkedQueries')
  BY FS_Subset DEF OnePlace
<1>3. ASSUME NEW i \in Ids
      PROVE  Places(i)' = Places(i)
  <2>1. Queued(RequestsOf(i))' = Queued(RequestsOf(i))
    <3>1. Head(batch) \notin RequestsOf(i)
      BY DEF RequestsOf, Handling
    <3> QED
      BY <3>1, QueuedKept
  <2>2. CASE \E q \in ready : q.id = i
    <3>1. PICK q \in ready : q.id = i
      BY <2>2
    <3>2. replies[i] = <<>> /\ ParkedAs(i) = {q}
      BY <3>1, ParkedIsAlone
    <3>3. replies'[i] = Append(<<>>, r)
      BY <3>1, <3>2 DEF Reply
    <3>4. ParkedAs(i)' = {}
      BY <3>1, <3>2 DEF ParkedAs
    <3>5. Len(replies[i]) = 0 /\ Len(replies'[i]) = 1
      BY <3>2, <3>3
    <3>6. Cardinality(ParkedAs(i)) = 1 /\ Cardinality(ParkedAs(i)') = 0
      BY <3>2, <3>4, FS_Singleton, FS_EmptySet
    <3> QED
      BY <2>1, <3>5, <3>6, QueuedNat DEF Places
  <2>3. CASE ~ \E q \in ready : q.id = i
    <3>1. replies'[i] = replies[i]
      BY <2>3 DEF Reply
    <3>2. ParkedAs(i)' = ParkedAs(i)
      BY <2>3 DEF ParkedAs
    <3> QED
      BY <2>1, <3>1, <3>2 DEF Places
  <2> QED
    BY <2>2, <2>3
<1> QED
  BY <1>1, <1>2, <1>3 DEF OnePlace

\* No request is handled.
LEMMA OnePlaceOther ==
    ASSUME TypeOK, OnePlace, NEW types, Handling(types),
           types \cap RequestTypes = {}, UNCHANGED <<replies, parkedQueries>>
    PROVE  OnePlace'
<1>1. asked' = asked
  BY DEF Handling, sentVars
<1>2. ASSUME NEW i \in Ids
      PROVE  Queued(RequestsOf(i))' = Queued(RequestsOf(i))
  <2>1. Head(batch) \notin RequestsOf(i)
    BY DEF RequestsOf, Handling
  <2> QED
    BY <2>1, QueuedKept
<1> QED
  BY <1>1, <1>2, OnePlaceQuiet

LEMMA OnePlaceNext == TypeOK /\ OnePlace /\ [Next]_vars => OnePlace'
<1> SUFFICES ASSUME TypeOK, OnePlace, [Next]_vars PROVE OnePlace'
  OBVIOUS
<1>1. CASE Client
  BY <1>1, ClientSends, OnePlaceClient
<1>2. CASE TakeBatch
  <2>1. UNCHANGED <<asked, replies, parkedQueries>>
    BY <1>2 DEF TakeBatch, clientVars, sentVars, analysisVars
  <2> QED
    BY <1>2, <2>1, QueuedTake, OnePlaceQuiet
<1>3. CASE \/ HandleCancelledRequest \/ HandleDirect
           \/ HandleAnswerableQuery \/ ParkQuery
  BY <1>3, OnePlaceRequest
<1>4. CASE \/ HandleEdit \/ HandleRejectedEdit \/ HandleNoEffect \/ HandleLast
  <2>1. PICK types : /\ Handling(types) /\ types \cap RequestTypes = {}
                     /\ UNCHANGED <<replies, parkedQueries>>
    <3>1. /\ {"edit"} \cap RequestTypes = {} /\ {"rejectedEdit"} \cap RequestTypes = {}
          /\ {"noEffect"} \cap RequestTypes = {} /\ {"last"} \cap RequestTypes = {}
      BY DEF RequestTypes
    <3> QED
      BY <1>4, <3>1
         DEF HandleEdit, HandleRejectedEdit, HandleNoEffect, HandleLast, analysisVars
  <2> QED
    BY <2>1, OnePlaceOther
<1>5. CASE HandleCancel
  <2>1. PICK ready : ready = ParkedAs(Head(batch).id)
    OBVIOUS
  <2>2. /\ Handling({"cancel"}) /\ {"cancel"} \cap RequestTypes = {}
        /\ ready \subseteq parkedQueries
        /\ parkedQueries' = parkedQueries \ ready
        /\ Reply({q.id : q \in ready}, [kind |-> "cancelled"])
    BY <1>5, <2>1 DEF HandleCancel, ParkedAs, RequestTypes
  <2> QED
    BY <2>2, OnePlaceUnpark
<1>6. CASE HandleFinished
  <2>1. PICK ready, r : ready = Covered(snapshot'.revision)
                        /\ r = Answer(snapshot', shown')
    OBVIOUS
  <2>2. /\ Handling({"finished"}) /\ {"finished"} \cap RequestTypes = {}
        /\ ready \subseteq parkedQueries
        /\ parkedQueries' = parkedQueries \ ready
        /\ Reply({q.id : q \in ready}, r)
    BY <1>6, <2>1 DEF HandleFinished, Covered, RequestTypes
  <2> QED
    BY <2>2, OnePlaceUnpark
<1>7. CASE \/ RebuildTimeout \/ Teardown \/ (WorkerStep /\ UNCHANGED events)
           \/ UNCHANGED vars
  <2>1. UNCHANGED <<events, batch, asked, replies, parkedQueries>>
    BY <1>7
       DEF RebuildTimeout, Teardown, JoinReader, CancelWorker, StopWorker,
           JoinWorker, Advance, WorkerStep, vars, loopVars, clientVars, sentVars,
           analysisVars
  <2> QED
    BY <2>1, QueuedStutter, OnePlaceQuiet
<1>8. CASE WorkerStep /\ ~UNCHANGED events
  <2>0. DeliverSnapshot
    BY <1>8 DEF WorkerStep
  <2>1. PICK e : e = [type |-> "finished", snapshot |-> building]
    OBVIOUS
  <2>2. /\ e \in Events /\ e.type \notin RequestTypes
        /\ events' = Append(events, e) /\ batch' = batch
        /\ UNCHANGED <<asked, replies, parkedQueries>>
    <3>1. building \in Snapshots
      BY <2>0, TypeParts DEF DeliverSnapshot, Deliver, WorkerTypeOK, Snapshots
    <3> QED
      BY <1>8, <2>0, <2>1, <3>1, EventTypes
         DEF DeliverSnapshot, WorkerStep, loopVars, clientVars, sentVars,
             analysisVars, RequestTypes
  <2>3. ASSUME NEW i \in Ids
        PROVE  Queued(RequestsOf(i))' = Queued(RequestsOf(i))
    <3>1. e \notin RequestsOf(i) /\ Queued(RequestsOf(i)) \in Nat
      BY <2>2, QueuedNat DEF RequestsOf
    <3> QED
      BY <2>2, <3>1, QueuedPush
  <2> QED
    BY <2>2, <2>3, OnePlaceQuiet
<1> QED
  BY <1>1, <1>2, <1>3, <1>4, <1>5, <1>6, <1>7, <1>8
     DEF Next, MainStep, Handle

-----------------------------------------------------------------------------
(* The text a query is about                                                *)

\* Handling an event takes it from the batch.
LEMMA HandleTakes ==
    ASSUME Handle
    PROVE  \E types : Handling(types)
BY DEF Handle, HandleCancelledRequest, HandleDirect, HandleAnswerableQuery,
       ParkQuery, HandleEdit, HandleRejectedEdit, HandleCancel,
       HandleNoEffect, HandleLast, HandleFinished

\* Only the client's steps change what it sent.
LEMMA SentKept ==
    ASSUME [Next]_vars, ~Client
    PROVE  UNCHANGED <<textVersion, asked, cancelAsked>>
<1>1. CASE TakeBatch \/ RebuildTimeout \/ Teardown
  BY <1>1
     DEF TakeBatch, RebuildTimeout, Teardown, JoinReader, CancelWorker,
         StopWorker, JoinWorker, Advance, clientVars, sentVars
<1>2. CASE \/ HandleCancelledRequest \/ HandleDirect
           \/ HandleAnswerableQuery \/ ParkQuery
  BY <1>2
     DEF HandleCancelledRequest, HandleDirect, HandleAnswerableQuery, ParkQuery,
         storeVars, Handling, sentVars
<1>3. CASE \/ HandleEdit \/ HandleRejectedEdit \/ HandleCancel
           \/ HandleNoEffect \/ HandleLast \/ HandleFinished
  BY <1>3
     DEF HandleEdit, HandleRejectedEdit, HandleCancel, HandleNoEffect,
         HandleLast, HandleFinished, Handling, sentVars
<1>4. CASE WorkerStep
  BY <1>4 DEF WorkerStep, clientVars, sentVars
<1>5. CASE UNCHANGED vars
  BY <1>5 DEF vars, sentVars
<1> QED
  BY <1>1, <1>2, <1>3, <1>4, <1>5 DEF Next, MainStep, Handle

\* What a step that is not the client's does to the queue and the batch.
LEMMA QueueStep ==
    ASSUME TypeOK, [Next]_vars, ~Client
    PROVE  \/ TakeBatch
           \/ Handle /\ \E types : Handling(types)
           \/ \E s \in Snapshots :
                 /\ events' = Append(events, [type |-> "finished", snapshot |-> s])
                 /\ batch' = batch
           \/ UNCHANGED <<events, batch>>
<1>1. CASE RebuildTimeout \/ Teardown \/ UNCHANGED vars
  BY <1>1
     DEF RebuildTimeout, Teardown, JoinReader, CancelWorker, StopWorker,
         JoinWorker, Advance, vars, loopVars
<1>2. CASE Handle
  BY <1>2, HandleTakes
<1>3. CASE WorkerStep
  <2>1. batch' = batch
    BY <1>3 DEF WorkerStep, loopVars
  <2>2. CASE DeliverSnapshot
    <3>1. /\ building \in Snapshots
          /\ events' = Append(events, [type |-> "finished", snapshot |-> building])
      BY <2>2, TypeParts DEF DeliverSnapshot, Deliver, WorkerTypeOK, Snapshots
    <3> QED
      BY <2>1, <3>1
  <2> QED
    BY <1>3, <2>1, <2>2 DEF WorkerStep
<1> QED
  BY <1>1, <1>2, <1>3 DEF Next, MainStep

LEMMA TextInit == Init => TextCounted
<1> SUFFICES ASSUME Init PROVE TextCounted
  OBVIOUS
<1>1. Len(events) = 0 /\ Len(batch) = 0 /\ textVersion = 0 /\ revision = 0
  BY DEF Init, StoreInit
<1>2. Hits(events, 0, Edits) = 0 /\ Hits(batch, 0, Edits) = 0
  BY HitsFinite
<1> QED
  BY <1>1, <1>2 DEF TextCounted, Queued

\* Taking the event at the head changes the revision if it is an edit.
LEMMA HandledRevision ==
    ASSUME TypeOK, [Next]_vars, Handle
    PROVE  revision' = revision + IF Head(batch) \in Edits THEN 1 ELSE 0
<1>0. PICK types : Handling(types)
  BY HandleTakes
<1>1. revision \in Nat
  BY TypeParts DEF StoreTypeOK
<1>2. Head(batch) \in Events /\ (Head(batch).type = "edit" <=> Head(batch) \in Edits)
  BY <1>0, HandlingType, MessageKinds
<1>3. CASE HandleEdit
  BY <1>2, <1>3 DEF HandleEdit, Handling, Change
<1>4. CASE \/ HandleCancelledRequest \/ HandleDirect
           \/ HandleAnswerableQuery \/ ParkQuery
  <2>1. Head(batch).type # "edit"
    BY <1>4
       DEF HandleCancelledRequest, HandleDirect, HandleAnswerableQuery, ParkQuery,
           Handling, RequestTypes
  <2>2. revision' = revision
    BY <1>4
       DEF HandleCancelledRequest, HandleDirect, HandleAnswerableQuery, ParkQuery,
           storeVars
  <2> QED
    BY <1>1, <1>2, <2>1, <2>2
<1>5. CASE \/ HandleRejectedEdit \/ HandleCancel
           \/ HandleNoEffect \/ HandleLast \/ HandleFinished
  <2>1. Head(batch).type # "edit"
    BY <1>5
       DEF HandleRejectedEdit, HandleCancel, HandleNoEffect, HandleLast,
           HandleFinished, Handling
  <2>2. revision' = revision
    BY <1>5
       DEF HandleRejectedEdit, HandleCancel, HandleNoEffect, HandleLast,
           HandleFinished, storeVars
  <2> QED
    BY <1>1, <1>2, <2>1, <2>2
<1> QED
  BY <1>3, <1>4, <1>5 DEF Handle

\* Steps that neither send nor handle anything keep text and revision.
LEMMA UnhandledRevision ==
    ASSUME TypeOK, [Next]_vars, ~Client, ~Handle
    PROVE  UNCHANGED <<textVersion, asked, revision, parkedQueries>>
<1>1. CASE TakeBatch \/ RebuildTimeout \/ Teardown
  BY <1>1
     DEF TakeBatch, RebuildTimeout, Teardown, JoinReader, CancelWorker,
         StopWorker, JoinWorker, Advance, storeVars, clientVars, sentVars,
         analysisVars
<1>2. CASE WorkerStep
  BY <1>2 DEF WorkerStep, storeVars, clientVars, sentVars, analysisVars
<1>3. CASE UNCHANGED vars
  BY <1>3 DEF vars, storeVars, sentVars, analysisVars
<1> QED
  BY <1>1, <1>2, <1>3 DEF Next, MainStep

LEMMA TextNext == TypeOK /\ TextCounted /\ [Next]_vars => TextCounted'
<1> SUFFICES ASSUME TypeOK, TextCounted, [Next]_vars PROVE TextCounted'
  OBVIOUS
<1>0. revision \in Nat /\ textVersion \in Nat /\ Queued(Edits) \in Nat
  BY QueuedNat, TypeParts DEF StoreTypeOK, SentTypeOK
<1>1. CASE Client
  <2>1. PICK m \in Messages : Sent(m)
    BY <1>1, ClientSends
  <2>2. /\ m \in Events /\ events' = Append(events, m) /\ batch' = batch
        /\ revision' = revision
    BY <2>1, MessageKinds DEF Sent, Read, loopVars, storeVars
  <2>3. Queued(Edits)' = Queued(Edits) + IF m \in Edits THEN 1 ELSE 0
    BY <2>2, QueuedPush
  <2>4. m \in Requests \cup Cancels \cup Others => m \notin Edits
    BY MessageKinds DEF RequestTypes
  <2>5. textVersion' = textVersion + IF m \in Edits THEN 1 ELSE 0
    BY <1>0, <2>1, <2>4 DEF Sent
  <2> QED
    BY <1>0, <2>2, <2>3, <2>5 DEF TextCounted
<1>2. CASE Handle /\ ~Client
  <2>1. PICK types : Handling(types)
    BY <1>2, HandleTakes
  <2>2. Queued(Edits) = Queued(Edits)' + IF Head(batch) \in Edits THEN 1 ELSE 0
    BY <2>1, QueuedHandling
  <2>3. Queued(Edits)' \in Nat
    BY <2>1, HandlingType, QueuedLater
  <2>4. revision' = revision + IF Head(batch) \in Edits THEN 1 ELSE 0
    BY <1>2, HandledRevision
  <2>5. textVersion' = textVersion
    BY <1>2, SentKept
  <2> QED
    BY <1>0, <2>2, <2>3, <2>4, <2>5 DEF TextCounted
<1>3. CASE ~Handle /\ ~Client
  <2>1. textVersion' = textVersion /\ revision' = revision
    BY <1>3, UnhandledRevision
  <2>2. Queued(Edits)' = Queued(Edits)
    <3>1. CASE TakeBatch \/ UNCHANGED <<events, batch>>
      BY <3>1, QueuedTake, QueuedStutter
    <3>2. CASE \E s \in Snapshots :
                 /\ events' = Append(events, [type |-> "finished", snapshot |-> s])
                 /\ batch' = batch
      <4>1. PICK s \in Snapshots :
                 /\ events' = Append(events, [type |-> "finished", snapshot |-> s])
                 /\ batch' = batch
        BY <3>2
      <4>2. /\ [type |-> "finished", snapshot |-> s] \in Events
            /\ [type |-> "finished", snapshot |-> s] \notin Edits
        BY EventTypes, MessageKinds
      <4> QED
        BY <1>0, <4>1, <4>2, QueuedPush
    <3> QED
      BY <1>3, <3>1, <3>2, QueueStep
  <2> QED
    BY <2>1, <2>2 DEF TextCounted
<1> QED
  BY <1>1, <1>2, <1>3

LEMMA InTimeInit == Init => QueriesInTime
BY DEF Init, QueriesInTime, BatchInTime, EventsInTime, ParkedInTime

\* An event is pushed: the client's m, or a finished analysis.
LEMMA InTimePush ==
    ASSUME TypeOK, QueriesInTime, NEW m \in Events,
           events' = Append(events, m), UNCHANGED <<batch, revision, parkedQueries>>,
           \A i \in Ids : asked[i] \in Nat => asked'[i] = asked[i],
           m.type = "query" =>
              /\ asked'[m.id] \in Nat
              /\ asked'[m.id] <= revision + Queued(Edits)
    PROVE  QueriesInTime'
<1>1. /\ events \in Seq(Events) /\ batch \in Seq(Events)
      /\ Len(events) \in Nat /\ Len(batch) \in Nat /\ revision \in Nat
  BY TypeParts DEF LoopTypeOK, StoreTypeOK
<1>4. ASSUME NEW n \in 0..Len(events)
      PROVE  Hits(events', n, Edits) = Hits(events, n, Edits)
  <2>1. Hits(Append(events, m), n, Edits) = Hits(events, n, Edits)
    BY <1>1, HitsAppend
  <2> QED
    BY <2>1
<1>5. BatchInTime'
  <2> SUFFICES ASSUME NEW k \in 1..Len(batch), batch[k].type = "query"
               PROVE  AskedBy(batch[k].id, revision + Hits(batch, k, Edits))'
    BY DEF BatchInTime
  <2>1. batch[k].id \in Ids
    BY <1>1, CarriedTypes DEF Ids
  <2>2. AskedBy(batch[k].id, revision + Hits(batch, k, Edits))
    BY DEF QueriesInTime, BatchInTime
  <2> QED
    BY <2>1, <2>2 DEF AskedBy
<1>6. EventsInTime'
  <2> SUFFICES ASSUME NEW k \in 1..Len(events'), events'[k].type = "query"
               PROVE  AskedBy(events[k].id, revision + Hits(batch, Len(batch), Edits)
                                              + Hits(events, k, Edits))'
    BY DEF EventsInTime
  <2>1. CASE k \in 1..Len(events)
    <3>1. events'[k] = events[k] /\ events[k] \in Events
      BY <1>1, <2>1
    <3>2. events[k].id \in Ids
      BY <3>1, CarriedTypes DEF Ids
    <3>3. AskedBy(events[k].id, revision + Hits(batch, Len(batch), Edits)
                                         + Hits(events, k, Edits))
      BY <2>1, <3>1 DEF QueriesInTime, EventsInTime
    <3>4. Hits(events', k, Edits) = Hits(events, k, Edits)
      BY <1>1, <1>4, <2>1
    <3> QED
      BY <3>1, <3>2, <3>3, <3>4 DEF AskedBy
  <2>2. CASE k \notin 1..Len(events)
    <3>1. k = Len(events) + 1 /\ events'[k] = m /\ Len(events') = k
      BY <1>1, <2>2
    <3>2. m \notin Edits
      BY <3>1, MessageKinds
    <3>3. Hits(events', k, Edits) = Hits(events, Len(events), Edits) + 0
      BY <1>1, <3>1, <3>2, HitsAppend
    <3>4. /\ asked'[m.id] \in Nat
          /\ asked'[m.id] <= revision + (Hits(events, Len(events), Edits)
                                          + Hits(batch, Len(batch), Edits))
      BY <3>1 DEF Queued
    <3>5. /\ Hits(events, Len(events), Edits) \in Nat
          /\ Hits(batch, Len(batch), Edits) \in Nat
      BY <1>1, HitsFinite
    <3> QED
      BY <1>1, <3>1, <3>3, <3>4, <3>5 DEF AskedBy
  <2> QED
    BY <2>1, <2>2
<1>7. ParkedInTime'
  <2>1. \A q \in parkedQueries : q.id \in Ids
    BY TypeParts DEF AnalysisTypeOK, Parked, Ids
  <2> QED
    BY <2>1 DEF QueriesInTime, ParkedInTime, AskedBy
<1> QED
  BY <1>5, <1>6, <1>7 DEF QueriesInTime

LEMMA InTimeTake ==
    ASSUME TypeOK, QueriesInTime, TakeBatch
    PROVE  QueriesInTime'
<1>1. /\ batch = <<>> /\ batch' = events /\ events' = <<>>
      /\ UNCHANGED <<asked, revision, parkedQueries>>
  BY DEF TakeBatch, storeVars, analysisVars, clientVars, sentVars
<1>2. Len(events) \in Nat /\ revision \in Nat
  BY TypeParts DEF LoopTypeOK, StoreTypeOK
<1>3. Hits(batch, Len(batch), Edits) = 0
  <2>1. Len(batch) = 0
    BY <1>1
  <2>2. Hits(batch, 0, Edits) = 0
    BY HitsFinite
  <2> QED
    BY <2>1, <2>2
<1>4. \A k \in 1..Len(events) : Hits(events, k, Edits) \in Nat
  <2>1. \A k \in 1..Len(events) : k \in Nat
    BY <1>2
  <2> QED
    BY <2>1, HitsFinite
<1>5. BatchInTime'
  BY <1>1, <1>2, <1>3, <1>4 DEF QueriesInTime, EventsInTime, BatchInTime, AskedBy
<1>6. EventsInTime'
  BY <1>1 DEF EventsInTime
<1>7. ParkedInTime'
  BY <1>1 DEF QueriesInTime, ParkedInTime, AskedBy
<1> QED
  BY <1>5, <1>6, <1>7 DEF QueriesInTime

\* The event at the head is handled: an edit of the revision becomes one
\* that is in it.
LEMMA InTimeHandling ==
    ASSUME TypeOK, QueriesInTime, NEW types, Handling(types),
           revision' = revision + IF Head(batch) \in Edits THEN 1 ELSE 0,
           \A q \in parkedQueries' : q \in parkedQueries \/ AskedBy(q.id, q.revision)
    PROVE  QueriesInTime'
<1>1. /\ batch \in Seq(Events) /\ batch # <<>> /\ batch' = Tail(batch)
      /\ events' = events /\ asked' = asked
      /\ Len(batch) \in Nat /\ Len(batch') = Len(batch) - 1
      /\ Len(events) \in Nat /\ revision \in Nat
  BY TypeParts DEF LoopTypeOK, StoreTypeOK, Handling, sentVars
<1>2. Len(batch) \in 1..Len(batch) /\ Len(batch') \in Nat
  BY <1>1
<1> DEFINE edited == IF Head(batch) \in Edits THEN 1 ELSE 0
<1>3. edited \in {0, 1} /\ revision' = revision + edited
  OBVIOUS
<1>4. \A n \in 1..Len(batch) :
         Hits(batch, n, Edits) = Hits(batch', n - 1, Edits) + edited
  BY <1>1, HitsTail
<1> HIDE DEF edited
<1>5. \A n \in 0..Len(batch') : /\ Hits(batch', n, Edits) \in Nat
                               /\ n + 1 \in 1..Len(batch)
  <2>1. \A n \in 0..Len(batch') : n \in Nat /\ n + 1 \in 1..Len(batch)
    BY <1>1, <1>2
  <2> QED
    BY <2>1, HitsFinite
<1>6. BatchInTime'
  <2> SUFFICES ASSUME NEW k \in 1..Len(batch'), batch'[k].type = "query"
               PROVE  AskedBy(batch[k].id, revision + Hits(batch, k, Edits))'
    BY DEF BatchInTime
  <2>1. k + 1 \in 1..Len(batch) /\ batch'[k] = batch[k + 1] /\ k \in 0..Len(batch')
    BY <1>1, <1>2
  <2>2. AskedBy(batch[k + 1].id, revision + Hits(batch, k + 1, Edits))
    BY <2>1 DEF QueriesInTime, BatchInTime
  <2>3. /\ Hits(batch, k + 1, Edits) = Hits(batch', k, Edits) + edited
        /\ Hits(batch', k, Edits) \in Nat
    BY <1>4, <1>5, <2>1
  <2>4. revision + Hits(batch, k + 1, Edits) = revision' + Hits(batch', k, Edits)
    BY <1>1, <1>3, <2>3
  <2> QED
    BY <1>1, <2>1, <2>2, <2>4 DEF AskedBy
<1>7. EventsInTime'
  <2> SUFFICES ASSUME NEW k \in 1..Len(events), events[k].type = "query"
               PROVE  AskedBy(events[k].id, revision + Hits(batch, Len(batch), Edits)
                                              + Hits(events, k, Edits))'
    BY <1>1 DEF EventsInTime
  <2>1. AskedBy(events[k].id, revision + Hits(batch, Len(batch), Edits)
                                       + Hits(events, k, Edits))
    BY DEF QueriesInTime, EventsInTime
  <2>2. /\ Hits(batch, Len(batch), Edits) = Hits(batch', Len(batch'), Edits) + edited
        /\ Hits(batch', Len(batch'), Edits) \in Nat
    BY <1>1, <1>2, <1>4, <1>5
  <2>3. revision + Hits(batch, Len(batch), Edits)
           = revision' + Hits(batch', Len(batch'), Edits)
    BY <1>1, <1>3, <2>2
  <2> QED
    BY <1>1, <2>1, <2>3 DEF AskedBy
<1>8. ParkedInTime'
  BY <1>1 DEF QueriesInTime, ParkedInTime, AskedBy
<1> QED
  BY <1>6, <1>7, <1>8 DEF QueriesInTime

\* The store's text is new enough for the query that is handled.
LEMMA HeadInTime ==
    ASSUME TypeOK, QueriesInTime, NEW types, Handling(types),
           Head(batch).type = "query"
    PROVE  AskedBy(Head(batch).id, revision)
<1>1. /\ batch \in Seq(Events) /\ batch # <<>> /\ Head(batch) = batch[1]
      /\ Head(batch) \in Events /\ 1 \in 1..Len(batch) /\ revision \in Nat
  BY TypeParts, HandlingType DEF Handling, LoopTypeOK, StoreTypeOK
<1>2. AskedBy(Head(batch).id, revision + Hits(batch, 1, Edits))
  BY <1>1 DEF QueriesInTime, BatchInTime
<1>3. Head(batch) \notin Edits
  BY <1>1, MessageKinds
<1>4. Hits(batch, 1, Edits) = Hits(Tail(batch), 1 - 1, Edits) + 0
  BY <1>1, <1>3, HitsTail
<1>5. Hits(Tail(batch), 0, Edits) = 0
  BY HitsFinite
<1> QED
  BY <1>1, <1>2, <1>4, <1>5

LEMMA InTimeNext ==
    TypeOK /\ TextCounted /\ QueriesInTime /\ [Next]_vars => QueriesInTime'
<1> SUFFICES ASSUME TypeOK, TextCounted, QueriesInTime, [Next]_vars
             PROVE  QueriesInTime'
  OBVIOUS
<1>1. CASE Client
  <2>1. PICK m \in Messages : Sent(m)
    BY <1>1, ClientSends
  <2>2. /\ m \in Events /\ events' = Append(events, m)
        /\ UNCHANGED <<batch, revision, parkedQueries>>
    BY <2>1, MessageKinds DEF Sent, Read, loopVars, storeVars, analysisVars
  <2>3. CASE m \in Requests
    <3>1. m.type \in RequestTypes /\ m.id \in Ids
      BY <2>3, MessageKinds
    <3>2. m \notin Cancels /\ m \notin Edits /\ m \notin Others
      BY <3>1, MessageKinds DEF RequestTypes
    <3>3. asked[m.id] = None /\ asked' = [asked EXCEPT ![m.id] = textVersion]
      BY <2>1, <3>2 DEF Sent
    <3>4. textVersion \in Nat /\ asked \in [Ids -> Nat \cup {None}]
      BY TypeParts DEF SentTypeOK
    <3>5. \A i \in Ids : asked[i] \in Nat => asked'[i] = asked[i]
      BY <3>3, <3>4, NoneAssumption
    <3>6. asked'[m.id] = revision + Queued(Edits) /\ asked'[m.id] \in Nat
      BY <3>1, <3>3, <3>4 DEF TextCounted
    <3> QED
      BY <2>2, <3>5, <3>6, InTimePush
  <2>4. CASE m \notin Requests
    <3>1. asked' = asked
      BY <2>1, <2>4 DEF Sent
    <3>2. m.type # "query"
      BY <2>4 DEF Messages, Cancels, Edits, Others
    <3> QED
      BY <2>2, <3>1, <3>2, InTimePush
  <2> QED
    BY <2>3, <2>4
<1>2. CASE Handle /\ ~Client
  <2>1. PICK types : Handling(types)
    BY <1>2, HandleTakes
  <2>2. revision' = revision + IF Head(batch) \in Edits THEN 1 ELSE 0
    BY <1>2, HandledRevision
  <2>3. ASSUME NEW q \in parkedQueries'
        PROVE  q \in parkedQueries \/ AskedBy(q.id, q.revision)
    <3>1. CASE ParkQuery
      <4>1. AskedBy(Head(batch).id, revision)
        BY <3>1, HeadInTime DEF ParkQuery, Handling
      <4> QED
        BY <2>3, <3>1, <4>1 DEF ParkQuery
    <3>2. CASE ~ParkQuery
      <4>1. CASE \/ HandleCancelledRequest \/ HandleDirect
                 \/ HandleAnswerableQuery \/ HandleNoEffect \/ HandleLast
        BY <2>3, <4>1
           DEF HandleCancelledRequest, HandleDirect, HandleAnswerableQuery,
               HandleNoEffect, HandleLast, analysisVars
      <4>2. CASE \/ HandleEdit \/ HandleRejectedEdit \/ HandleCancel
                 \/ HandleFinished
        BY <2>3, <4>2
           DEF HandleEdit, HandleRejectedEdit, HandleCancel, HandleFinished
      <4> QED
        BY <1>2, <3>2, <4>1, <4>2 DEF Handle
    <3> QED
      BY <3>1, <3>2
  <2> QED
    BY <2>1, <2>2, <2>3, InTimeHandling
<1>3. CASE ~Handle /\ ~Client
  <2>1. UNCHANGED <<textVersion, asked, revision, parkedQueries>>
    BY <1>3, UnhandledRevision
  <2>2. CASE TakeBatch
    BY <2>2, InTimeTake
  <2>3. CASE \E s \in Snapshots :
               /\ events' = Append(events, [type |-> "finished", snapshot |-> s])
               /\ batch' = batch
    <3>1. PICK s \in Snapshots :
               /\ events' = Append(events, [type |-> "finished", snapshot |-> s])
               /\ batch' = batch
      BY <2>3
    <3>2. PICK e \in Events : e = [type |-> "finished", snapshot |-> s]
      BY EventTypes
    <3>3. e.type # "query" /\ events' = Append(events, e)
      BY <3>1, <3>2
    <3> QED
      BY <2>1, <3>1, <3>3, InTimePush
  <2>4. CASE UNCHANGED <<events, batch>>
    BY <2>1, <2>4
       DEF QueriesInTime, BatchInTime, EventsInTime, ParkedInTime, AskedBy
  <2> QED
    BY <1>3, <2>2, <2>3, <2>4, QueueStep
<1> QED
  BY <1>1, <1>2, <1>3

-----------------------------------------------------------------------------
(* Cancellations, and the end                                               *)

LEMMA InFlightPush ==
    ASSUME TypeOK, NEW m \in Events, events' = Append(events, m), batch' = batch
    PROVE  InFlight' = InFlight \cup {m}
BY RangeAppend, TypeParts DEF InFlight, LoopTypeOK

LEMMA InFlightTake == TakeBatch => InFlight' = InFlight
BY DEF InFlight, TakeBatch, Range

LEMMA InFlightHandling ==
    ASSUME TypeOK, NEW types, Handling(types)
    PROVE  InFlight = {Head(batch)} \cup InFlight'
<1>1. batch \in Seq(Events) /\ batch # <<>>
  BY TypeParts DEF LoopTypeOK, Handling
<1> QED
  BY <1>1, RangeTail DEF InFlight, Handling

\* Nothing but the client's messages and finished analyses gets in flight.
LEMMA InFlightKept ==
    ASSUME TypeOK, [Next]_vars, ~Client, NEW e \in InFlight'
    PROVE  e \in InFlight \/ e.type = "finished"
<1>1. CASE TakeBatch
  BY <1>1, InFlightTake
<1>2. CASE \E types : Handling(types)
  BY <1>2, InFlightHandling
<1>3. CASE \E s \in Snapshots :
             /\ events' = Append(events, [type |-> "finished", snapshot |-> s])
             /\ batch' = batch
  <2>1. PICK s \in Snapshots :
             /\ events' = Append(events, [type |-> "finished", snapshot |-> s])
             /\ batch' = batch
    BY <1>3
  <2>2. PICK f \in Events : f = [type |-> "finished", snapshot |-> s]
    BY EventTypes
  <2>3. InFlight' = InFlight \cup {f}
    BY <2>1, <2>2, InFlightPush
  <2> QED
    BY <2>2, <2>3
<1>4. CASE UNCHANGED <<events, batch>>
  BY <1>4 DEF InFlight
<1> QED
  BY <1>1, <1>2, <1>3, <1>4, QueueStep

\* The set of cancelled ids belongs to the batch.
LEMMA CancelledKept ==
    ASSUME [Next]_vars, ~TakeBatch
    PROVE  cancelledIds' = cancelledIds
<1>1. CASE Client
  BY <1>1, ClientReads DEF Read, loopVars
<1>2. CASE Handle
  BY <1>2, HandleTakes DEF Handling
<1>3. CASE RebuildTimeout \/ Teardown \/ WorkerStep \/ UNCHANGED vars
  BY <1>3
     DEF RebuildTimeout, Teardown, JoinReader, CancelWorker, StopWorker,
         JoinWorker, Advance, WorkerStep, vars, loopVars
<1> QED
  BY <1>1, <1>2, <1>3 DEF Next, MainStep

LEMMA CancelsInit == Init => CancelsAsked
BY DEF Init, CancelsAsked, InFlight, Range

LEMMA CancelsNext == TypeOK /\ CancelsAsked /\ [Next]_vars => CancelsAsked'
<1> SUFFICES ASSUME TypeOK, CancelsAsked, [Next]_vars PROVE CancelsAsked'
  OBVIOUS
<1>1. CASE Client
  <2>1. PICK m \in Messages : Sent(m)
    BY <1>1, ClientSends
  <2>2. /\ m \in Events /\ events' = Append(events, m) /\ batch' = batch
        /\ cancelledIds' = cancelledIds
    BY <2>1, MessageKinds DEF Sent, Read, loopVars
  <2>3. InFlight' = InFlight \cup {m}
    BY <2>2, InFlightPush
  <2>4. cancelAsked \subseteq cancelAsked'
    BY <2>1 DEF Sent
  <2>5. m.type = "cancel" => m.id \in cancelAsked'
    <3>1. m.type = "cancel" => m \notin Requests /\ m \notin Edits /\ m \notin Others
      BY MessageKinds DEF RequestTypes
    <3> QED
      BY <2>1, <3>1 DEF Sent
  <2> QED
    BY <2>2, <2>3, <2>4, <2>5 DEF CancelsAsked
<1>2. CASE ~Client
  <2>1. cancelAsked' = cancelAsked
    BY <1>2, SentKept
  <2>2. \A e \in InFlight' : e.type = "cancel" => e.id \in cancelAsked'
    BY <1>2, <2>1, InFlightKept DEF CancelsAsked
  <2>3. cancelledIds' \subseteq cancelAsked'
    <3>1. CASE TakeBatch
      BY <2>1, <3>1 DEF TakeBatch, CancelsAsked, InFlight
    <3>2. CASE ~TakeBatch
      BY <2>1, <3>2, CancelledKept DEF CancelsAsked
    <3> QED
      BY <3>1, <3>2
  <2> QED
    BY <2>2, <2>3 DEF CancelsAsked
<1> QED
  BY <1>1, <1>2

\* Only the client's messages stop the reader, only the last event ends the
\* loop, and nothing starts it again.
LEMMA LoopStep ==
    ASSUME [Next]_vars, ~Client
    PROVE  /\ readerPc' = readerPc
           /\ Running' \/ ~Running \/ HandleLast
<1>1. CASE TakeBatch \/ RebuildTimeout \/ Teardown
  BY <1>1
     DEF TakeBatch, RebuildTimeout, Teardown, JoinReader, CancelWorker,
         StopWorker, JoinWorker, Advance, Running, loopVars
<1>2. CASE \/ HandleCancelledRequest \/ HandleDirect
           \/ HandleAnswerableQuery \/ ParkQuery
  BY <1>2
     DEF HandleCancelledRequest, HandleDirect, HandleAnswerableQuery, ParkQuery,
         Handling, Running
<1>3. CASE \/ HandleEdit \/ HandleRejectedEdit \/ HandleCancel
           \/ HandleNoEffect \/ HandleLast \/ HandleFinished
  BY <1>3
     DEF HandleEdit, HandleRejectedEdit, HandleCancel, HandleNoEffect,
         HandleLast, HandleFinished, Handling, Running
<1>4. CASE WorkerStep \/ UNCHANGED vars
  BY <1>4 DEF WorkerStep, vars, loopVars, Running
<1> QED
  BY <1>1, <1>2, <1>3, <1>4 DEF Next, MainStep, Handle

LEMMA ReaderInit == Init => ReaderIsDone
BY DEF Init, ReaderIsDone, InFlight, Range, Running

LEMMA ReaderNext == TypeOK /\ ReaderIsDone /\ [Next]_vars => ReaderIsDone'
<1> SUFFICES ASSUME TypeOK, ReaderIsDone, [Next]_vars PROVE ReaderIsDone'
  OBVIOUS
<1>1. CASE Client
  <2>1. PICK m \in Messages : Read(m)
    BY <1>1, ClientReads
  <2>2. /\ m \in Events /\ events' = Append(events, m) /\ batch' = batch
        /\ mainPc' = mainPc /\ readerPc = "reading"
        /\ readerPc' = IF m.type = "last" THEN "stopped" ELSE "reading"
    BY <2>1, MessageKinds DEF Read, Last, loopVars
  <2>3. InFlight' = InFlight \cup {m}
    BY <2>2, InFlightPush
  <2> QED
    BY <2>2, <2>3 DEF ReaderIsDone, Running
<1>2. CASE ~Client
  <2>1. /\ readerPc' = readerPc
        /\ Running' \/ ~Running \/ HandleLast
    BY <1>2, LoopStep
  <2>2. HandleLast => \E e \in InFlight : e.type = "last"
    BY InFlightHandling DEF HandleLast, Handling
  <2>3. (\E e \in InFlight' : e.type = "last") => \E e \in InFlight : e.type = "last"
    BY <1>2, InFlightKept
  <2> QED
    BY <2>1, <2>2, <2>3 DEF ReaderIsDone
<1> QED
  BY <1>1, <1>2

\* The inductive invariant holds in every reachable state.
THEOREM ServiceInvariant == Spec => []ServiceInv
<1>1. Init => TypeOK /\ ServiceInv
  BY TypeInit, OnePlaceInit, TextInit, InTimeInit, CancelsInit, ReaderInit
     DEF ServiceInv
<1>2. TypeOK /\ ServiceInv /\ [Next]_vars => (TypeOK /\ ServiceInv)'
  BY TypeNext, OnePlaceNext, TextNext, InTimeNext, CancelsNext, ReaderNext
     DEF ServiceInv
<1> QED
  BY <1>1, <1>2, PTL DEF Spec

\* Joining the reader never waits for a client that sends nothing more: it
\* has stopped by itself by the time the loop ends (server.cc:277).
THEOREM ReaderAlwaysStopsFirst == Spec => []ReaderStopsFirst
<1>1. ServiceInv => ReaderStopsFirst
  BY DEF ServiceInv, ReaderIsDone, ReaderStopsFirst
<1> QED
  BY <1>1, ServiceInvariant, PTL

\* Until it is answered, a request is in exactly one place, and it gets at
\* most one reply (handle_batch, handle_finished_analysis, handle_cancel).
THEOREM RequestsAreInOnePlace == Spec => []RequestInOnePlace
<1>1. TypeOK /\ ServiceInv => RequestInOnePlace
  <2> SUFFICES ASSUME TypeOK, OnePlace PROVE RequestInOnePlace
    BY DEF ServiceInv
  <2> DEFINE Count(q, i) == Cardinality({k \in DOMAIN q : q[k].type \in RequestTypes
                                                         /\ q[k].id = i})
  <2>1. ASSUME NEW q \in Seq(Events), NEW i \in Ids
        PROVE  Count(q, i) = Hits(q, Len(q), RequestsOf(i))
    <3>1. DOMAIN q = 1..Len(q) /\ \A k \in 1..Len(q) : q[k] \in Events
      OBVIOUS
    <3>2. {k \in DOMAIN q : q[k].type \in RequestTypes /\ q[k].id = i}
             = {k \in 1..Len(q) : q[k] \in RequestsOf(i)}
      BY <3>1 DEF RequestsOf
    <3> QED
      BY <3>2 DEF Hits
  <2>2. events \in Seq(Events) /\ batch \in Seq(Events)
    BY TypeParts DEF LoopTypeOK
  <2>3. ASSUME NEW i \in Ids
        PROVE  Count(events, i) + Count(batch, i) + Len(replies[i])
                  + Cardinality(ParkedAs(i))
               = IF asked[i] = None THEN 0 ELSE 1
    BY <2>1, <2>2, PlacesType DEF Places, Queued
  <2> QED
    BY <2>3 DEF RequestInOnePlace, ParkedAs
<1> QED
  BY <1>1, TypeCorrect, ServiceInvariant, PTL

-----------------------------------------------------------------------------
(* The service                                                              *)

\* The service's terms are the server's.
LEMMA ServiceTerms ==
    /\ Service!RequestIds = Ids
    /\ Service!Snapshots = Snapshots
    /\ Service!NoDiagnostics = NoDiagnostics
    /\ \A s : Service!DiagnosticsOf(s) = DiagnosticsOf(s)
BY DEF Service!RequestIds, Ids, Service!Snapshots, Snapshots, Service!Inputs,
       Inputs, Service!NoDiagnostics, NoDiagnostics, Service!DiagnosticsOf,
       DiagnosticsOf

LEMMA ServiceInit == Init => Service!QInit
BY ServiceTerms DEF Init, StoreInit, Service!QInit

\* Replying once to requests without a reply, of a kind each may get.
LEMMA ServeReply ==
    ASSUME TypeOK, UNCHANGED <<asked, cancelAsked, textVersion>>,
           \/ snapshot' = snapshot /\ shown' = shown
           \/ /\ snapshot' \in Snapshots
              /\ snapshot = None \/ snapshot.revision < snapshot'.revision
              /\ snapshot'.revision <= textVersion
              /\ shown' = DiagnosticsOf(snapshot'),
           NEW ids, NEW r, Reply(ids, r),
           \A i \in Ids : i \in ids => /\ asked[i] # None
                                     /\ replies[i] = <<>>
                                     /\ Service!Acceptable(i, r)
    PROVE  Service!Serve
<1>1. DOMAIN replies' = Ids
  BY DEF Reply
<1>2. ASSUME NEW i \in Ids, i \in ids
      PROVE  /\ asked[i] # None
             /\ replies[i] = <<>>
             /\ Len(replies'[i]) = 1
             /\ Service!Acceptable(i, replies'[i][1])
  <2>1. replies'[i] = Append(<<>>, r)
    BY <1>2 DEF Reply
  <2>2. Len(replies'[i]) = 1 /\ replies'[i][1] = r
    BY <2>1
  <2> QED
    BY <1>2, <2>2
<1>3. \A i \in Ids : i \notin ids => replies'[i] = replies[i]
  BY DEF Reply
<1> QED
  BY <1>1, <1>2, <1>3, ServiceTerms DEF Service!Serve

\* The store never runs ahead of the client.
LEMMA RevisionIsSent ==
    ASSUME TypeOK, ServiceInv
    PROVE  revision \in Nat /\ textVersion \in Nat /\ revision <= textVersion
<1>1. revision \in Nat /\ Queued(Edits) \in Nat /\ textVersion \in Nat
  BY QueuedNat, TypeParts DEF StoreTypeOK, SentTypeOK
<1> QED
  BY <1>1 DEF ServiceInv, TextCounted

LEMMA ServeRequest ==
    ASSUME TypeOK, ServiceInv, ViewInv,
           HandleCancelledRequest \/ HandleDirect \/ HandleAnswerableQuery
    PROVE  Service!Serve
<1>1. /\ Handling(RequestTypes)
      /\ UNCHANGED <<asked, cancelAsked, textVersion, snapshot, shown>>
  BY DEF HandleCancelledRequest, HandleDirect, HandleAnswerableQuery,
         RequestTypes, Handling, sentVars, storeVars
<1>2. /\ Head(batch) \in Events /\ Head(batch).type \in RequestTypes
      /\ batch \in Seq(Events) /\ batch # <<>>
  BY <1>1, HandlingType, TypeParts DEF LoopTypeOK, Handling
<1>3. PICK i \in Ids : i = Head(batch).id
  BY <1>2, CarriedTypes
<1>4. asked[i] # None /\ replies[i] = <<>>
  BY <1>1, <1>2, <1>3, HeadIsAlone DEF RequestsOf, ServiceInv
<1>5. CASE HandleCancelledRequest
  <2>1. i \in cancelAsked
    BY <1>3, <1>5
       DEF HandleCancelledRequest, CancelledInBatch, ServiceInv, CancelsAsked
  <2>2. Service!Acceptable(i, [kind |-> "cancelled"])
    BY <2>1 DEF Service!Acceptable
  <2>3. Reply({i}, [kind |-> "cancelled"])
    BY <1>3, <1>5 DEF HandleCancelledRequest
  <2> QED
    BY <1>1, <1>4, <2>2, <2>3, ServeReply
<1>6. CASE HandleDirect
  <2>1. i \in DirectIds
    BY <1>2, <1>3, <1>6
       DEF HandleDirect, Handling, Events, Messages, Requests, Cancels, Edits,
           Others, Finished
  <2>2. Service!Acceptable(i, [kind |-> "direct"])
    BY <2>1 DEF Service!Acceptable
  <2>3. Reply({i}, [kind |-> "direct"])
    BY <1>3, <1>6 DEF HandleDirect
  <2> QED
    BY <1>1, <1>4, <2>2, <2>3, ServeReply
<1>7. CASE HandleAnswerableQuery
  <2>1. /\ Head(batch).type = "query" /\ snapshot # None
        /\ snapshot.revision = revision
    BY <1>7 DEF HandleAnswerableQuery, Handling, Answerable, IsCurrent
  <2>2. i \in QueryIds
    BY <1>2, <1>3, <2>1, CarriedTypes
  <2>3. asked[i] \in Nat /\ asked[i] <= revision
    <3>1. AskedBy(Head(batch).id, revision)
      BY <1>1, <2>1, HeadInTime DEF ServiceInv
    <3> QED
      BY <1>3, <3>1 DEF AskedBy
  <2>4. PICK r : r = Answer(snapshot, shown)
    OBVIOUS
  <2>5. /\ r.kind = "answer" /\ r.snapshot = snapshot'
        /\ r.shown = DiagnosticsOf(r.snapshot)
    BY <1>1, <2>1, <2>4 DEF Answer, ViewInv, ClientShowsInstalled
  <2>6. r.snapshot.revision = revision
    BY <1>1, <2>1, <2>5
  <2>7. Service!Acceptable(i, r)
    BY <2>2, <2>3, <2>5, <2>6, RevisionIsSent, ServiceTerms DEF Service!Acceptable
  <2>8. Reply({i}, r)
    BY <1>3, <1>7, <2>4 DEF HandleAnswerableQuery
  <2> QED
    BY <1>1, <1>4, <2>7, <2>8, ServeReply
<1> QED
  BY <1>5, <1>6, <1>7

LEMMA ServeCancel ==
    ASSUME TypeOK, ServiceInv, HandleCancel
    PROVE  Service!Serve
<1>1. /\ Handling({"cancel"})
      /\ UNCHANGED <<asked, cancelAsked, textVersion, snapshot, shown>>
  BY DEF HandleCancel, Handling, sentVars, storeVars
<1>2. Head(batch).id \in cancelAsked
  BY <1>1, InFlightHandling DEF ServiceInv, CancelsAsked, Handling
<1>3. PICK ids : ids = {q.id : q \in ParkedAs(Head(batch).id)}
  OBVIOUS
<1>4. Reply(ids, [kind |-> "cancelled"])
  BY <1>3 DEF HandleCancel, ParkedAs
<1>5. ASSUME NEW i \in Ids, i \in ids
      PROVE  /\ asked[i] # None
             /\ replies[i] = <<>>
             /\ Service!Acceptable(i, [kind |-> "cancelled"])
  <2>1. PICK q \in parkedQueries : q.id = i /\ i = Head(batch).id
    BY <1>3, <1>5 DEF ParkedAs
  <2>2. asked[i] # None /\ replies[i] = <<>>
    BY <2>1, ParkedIsAlone DEF ServiceInv
  <2>3. Service!Acceptable(i, [kind |-> "cancelled"])
    BY <1>2, <2>1 DEF Service!Acceptable
  <2> QED
    BY <2>2, <2>3
<1> QED
  BY <1>1, <1>4, <1>5, ServeReply

LEMMA ServeFinished ==
    ASSUME TypeOK, WorkInv, ServiceInv, ViewInv, HandleFinished
    PROVE  Service!Serve
<1> DEFINE done == Head(batch).snapshot
<1>1. /\ Handling({"finished"})
      /\ UNCHANGED <<asked, cancelAsked, textVersion>>
  BY DEF HandleFinished, Handling, sentVars
<1>2. /\ done \in Snapshots /\ snapshot' = InstalledAfter(done)
      /\ snapshot' \in Snapshots /\ snapshot' # None
      /\ snapshot \in Snapshots \cup {None}
  BY InstalledType, TypeParts, NoneAssumption DEF HandleFinished, Snapshots, StoreTypeOK
<1>3. snapshot'.revision \in Nat /\ snapshot'.revision <= textVersion
  <2>1. Head(batch) \in FinishedInFlight
    BY <1>1, FinishedHandling
  <2>2. done.revision <= revision
    BY <2>1 DEF WorkInv, RevisionNamesText, NamesText
  <2>3. snapshot # None => snapshot.revision <= revision
    BY DEF WorkInv, RevisionNamesText, NamesText
  <2>4. snapshot'.revision <= revision
    BY <1>2, <2>2, <2>3 DEF InstalledAfter, Newer
  <2>5. snapshot'.revision \in Nat
    BY <1>2 DEF Snapshots, Inputs
  <2> QED
    BY <2>4, <2>5, RevisionIsSent
<1>4. shown' = DiagnosticsOf(snapshot')
  BY <1>2, ViewFinished DEF ViewInv, ClientShowsInstalled
<1>5. \/ snapshot' = snapshot /\ shown' = shown
      \/ snapshot = None \/ snapshot.revision < snapshot'.revision
  BY <1>2, <1>4 DEF InstalledAfter, Newer, ViewInv, ClientShowsInstalled
<1>6. PICK r, ids : /\ r = Answer(snapshot', shown')
                    /\ ids = {q.id : q \in Covered(snapshot'.revision)}
  OBVIOUS
<1>7. Reply(ids, r)
  BY <1>6 DEF HandleFinished
<1>8. ASSUME NEW i \in Ids, i \in ids
      PROVE  /\ asked[i] # None
             /\ replies[i] = <<>>
             /\ Service!Acceptable(i, r)
  <2>1. PICK q \in parkedQueries : q.id = i /\ q.revision <= snapshot'.revision
    BY <1>6, <1>8 DEF Covered
  <2>2. asked[i] # None /\ replies[i] = <<>> /\ i \in QueryIds
    BY <2>1, ParkedIsAlone DEF ServiceInv
  <2>3. asked[i] \in Nat /\ asked[i] <= q.revision /\ q.revision \in Nat
    BY <2>1, TypeParts
       DEF ServiceInv, QueriesInTime, ParkedInTime, AskedBy, AnalysisTypeOK, Parked
  <2>4. asked[i] <= snapshot'.revision
    BY <1>3, <2>1, <2>3
  <2>5. r.kind = "answer" /\ r.snapshot = snapshot' /\ r.shown = shown'
    BY <1>6 DEF Answer
  <2>6. Service!Acceptable(i, r)
    BY <1>3, <1>4, <2>2, <2>4, <2>5, ServiceTerms DEF Service!Acceptable
  <2> QED
    BY <2>2, <2>6
<1> QED
  BY <1>1, <1>2, <1>3, <1>4, <1>5, <1>7, <1>8, ServeReply

\* The client's steps are its steps in the service.
LEMMA ServiceClient ==
    ASSUME TypeOK, Client
    PROVE  [Service!QNext]_(Service!qvars)
<1>1. PICK m \in Messages : Sent(m)
  BY ClientSends
<1>2. UNCHANGED <<snapshot, shown, replies>>
  BY <1>1 DEF Sent, Read, storeVars
<1>3. CASE m \in Requests
  <2>1. m.type \in RequestTypes /\ m.id \in Ids
    BY <1>3, MessageKinds
  <2>2. m \notin Cancels /\ m \notin Edits /\ m \notin Others
    BY <2>1, MessageKinds DEF RequestTypes
  <2>3. Service!Ask(m.id)
    BY <1>1, <1>2, <2>2 DEF Sent, Service!Ask
  <2> QED
    BY <2>1, <2>3, ServiceTerms DEF Service!QNext
<1>4. CASE m \notin Requests
  <2>1. CASE m \in Cancels
    <3>1. m \notin Edits /\ m \notin Others /\ m.id \in Ids
      BY <2>1, MessageKinds
    <3>2. Service!AskCancel(m.id)
      BY <1>1, <1>2, <1>4, <3>1 DEF Sent, Service!AskCancel
    <3> QED
      BY <3>1, <3>2, ServiceTerms DEF Service!QNext
  <2>2. CASE m \in Edits
    <3>1. m \notin Cancels /\ m \notin Others
      BY <2>2, MessageKinds
    <3>2. Service!Edit
      BY <1>1, <1>2, <1>4, <3>1 DEF Sent, Service!Edit
    <3> QED
      BY <3>2 DEF Service!QNext
  <2>3. CASE m \notin Cancels /\ m \notin Edits
    <3>1. UNCHANGED <<asked, cancelAsked, textVersion>>
      BY <1>1, <1>4, <2>3 DEF Sent
    <3> QED
      BY <1>2, <3>1 DEF Service!qvars
  <2> QED
    BY <2>1, <2>2, <2>3
<1> QED
  BY <1>3, <1>4

LEMMA ServiceStep ==
    TypeOK /\ WorkInv /\ ViewInv /\ ServiceInv /\ [Next]_vars
        => [Service!QNext]_(Service!qvars)
<1> SUFFICES ASSUME TypeOK, WorkInv, ViewInv, ServiceInv, [Next]_vars
             PROVE  [Service!QNext]_(Service!qvars)
  OBVIOUS
<1>1. CASE Client
  BY <1>1, ServiceClient
<1>2. CASE HandleCancelledRequest \/ HandleDirect \/ HandleAnswerableQuery
  BY <1>2, ServeRequest DEF Service!QNext
<1>3. CASE HandleCancel
  BY <1>3, ServeCancel DEF Service!QNext
<1>4. CASE HandleFinished
  BY <1>4, ServeFinished DEF Service!QNext
<1>5. ASSUME UNCHANGED <<asked, cancelAsked, textVersion>>,
             UNCHANGED <<snapshot, shown, replies>>
      PROVE  [Service!QNext]_(Service!qvars)
  BY <1>5 DEF Service!qvars
<1>6. CASE \/ TakeBatch \/ RebuildTimeout \/ Teardown \/ WorkerStep
           \/ UNCHANGED vars
  <2>1. UNCHANGED <<snapshot, shown, replies>>
    BY <1>6
       DEF TakeBatch, RebuildTimeout, Teardown, JoinReader, CancelWorker,
           StopWorker, JoinWorker, Advance, WorkerStep, vars, storeVars, clientVars
  <2> QED
    BY <1>1, <1>5, <2>1, SentKept
<1>7. CASE \/ ParkQuery \/ HandleEdit \/ HandleRejectedEdit
           \/ HandleNoEffect \/ HandleLast
  <2>1. UNCHANGED <<snapshot, shown, replies>>
    BY <1>7
       DEF ParkQuery, HandleEdit, Change, HandleRejectedEdit, HandleNoEffect,
           HandleLast, storeVars
  <2> QED
    BY <1>1, <1>5, <2>1, SentKept
<1> QED
  BY <1>1, <1>2, <1>3, <1>4, <1>6, <1>7 DEF Next, MainStep, Handle

\* The server implements the service it promises its client: edits, requests
\* and cancellations are the client's; every other step publishes a newer
\* analysis or none and answers requests that have no answer yet, a query
\* from an analysis at least as new as the text it was asked about, whose
\* diagnostics the client already shows.
THEOREM ServerImplementsService == Spec => ImplementsService
<1>1. Init => ViewInv
  BY DEF Init, StoreInit, ViewInv, ClientShowsInstalled
<1>2. Spec => []ViewInv
  BY <1>1, TypeCorrect, TypeInit, TypeNext, ViewNext, PTL DEF Spec
<1> QED
  BY <1>2, TypeCorrect, WorkInvariant, ServiceInvariant, ServiceInit, ServiceStep,
     PTL DEF Spec, ImplementsService, Service!QSpec

-----------------------------------------------------------------------------
(* Left alone, the server comes to rest                                     *)

\* The events after which another analysis may be wanted.
ToAnalyse == {e \in Events : e.type \in EditTypes}

\* The parts of the measure.
StaleLeft == IF analyzingRevision = revision THEN 0 ELSE 1
TimerLeft == IF rebuildDue THEN 1 ELSE 0

\* The parts are natural numbers.
PartsTyped ==
    /\ Queued(ToAnalyse) \in Nat /\ StaleLeft \in {0, 1}
    /\ Len(events) \in Nat /\ Len(batch) \in Nat
    /\ MainStepsLeft \in 0..4 /\ WorkerStepsLeft \in Nat /\ TimerLeft \in {0, 1}

LEMMA NumberIsHits ==
    ASSUME NEW q \in Seq(Events)
    PROVE  NumberOf(q, EditTypes) = Hits(q, Len(q), ToAnalyse)
<1>1. DOMAIN q = 1..Len(q) /\ \A k \in 1..Len(q) : q[k] \in Events
  OBVIOUS
<1>2. {k \in DOMAIN q : q[k].type \in EditTypes}
        = {k \in 1..Len(q) : q[k] \in ToAnalyse}
  BY <1>1 DEF ToAnalyse
<1> QED
  BY <1>2 DEF NumberOf, Hits

LEMMA MeasureParts ==
    ASSUME TypeOK
    PROVE  /\ AnalysesLeft = Queued(ToAnalyse) + StaleLeft
           /\ StepsLeft = 3 * Len(events) + 2 * Len(batch) + MainStepsLeft
                            + WorkerStepsLeft + TimerLeft
<1>1. /\ NumberOf(events, EditTypes) = Hits(events, Len(events), ToAnalyse)
      /\ NumberOf(batch, EditTypes) = Hits(batch, Len(batch), ToAnalyse)
  BY NumberIsHits, TypeParts DEF LoopTypeOK
<1>2. AnalysesLeft = Queued(ToAnalyse) + StaleLeft
  BY <1>1 DEF AnalysesLeft, Queued, StaleLeft
<1> QED
  BY <1>2 DEF StepsLeft, TimerLeft

LEMMA MeasurePartsNext ==
    ASSUME TypeOK'
    PROVE  /\ AnalysesLeft' = Queued(ToAnalyse)' + StaleLeft'
           /\ StepsLeft' = 3 * Len(events') + 2 * Len(batch') + MainStepsLeft'
                            + WorkerStepsLeft' + TimerLeft'
<1>0. events' \in Seq(Events) /\ batch' \in Seq(Events)
  BY TypePartsNext DEF LoopTypeOK
<1>1. /\ NumberOf(events', EditTypes) = Hits(events', Len(events'), ToAnalyse)
      /\ NumberOf(batch', EditTypes) = Hits(batch', Len(batch'), ToAnalyse)
  BY <1>0, NumberIsHits
<1>2. AnalysesLeft' = Queued(ToAnalyse)' + StaleLeft'
  BY <1>1 DEF AnalysesLeft, Queued, StaleLeft
<1> QED
  BY <1>2 DEF StepsLeft, TimerLeft

LEMMA MeasureNat ==
    ASSUME TypeOK
    PROVE  PartsTyped
<1>1. MainStepsLeft \in 0..4
  BY DEF MainStepsLeft
<1>2. WorkerStepsLeft \in Nat
  BY TypeParts, CheckpointsAssumption DEF WorkerStepsLeft, WorkerTypeOK
<1>3. Len(events) \in Nat /\ Len(batch) \in Nat
  BY TypeParts DEF LoopTypeOK
<1>4. StaleLeft \in {0, 1} /\ TimerLeft \in {0, 1}
  BY DEF StaleLeft, TimerLeft
<1> QED
  BY <1>1, <1>2, <1>3, <1>4, QueuedNat DEF PartsTyped

LEMMA MeasureNatNext ==
    ASSUME TypeOK'
    PROVE  PartsTyped'
<1>1. MainStepsLeft' \in 0..4
  BY DEF MainStepsLeft
<1>2. WorkerStepsLeft' \in Nat
  BY TypePartsNext, CheckpointsAssumption DEF WorkerStepsLeft, WorkerTypeOK
<1>3. events' \in Seq(Events) /\ batch' \in Seq(Events)
  BY TypePartsNext DEF LoopTypeOK
<1>4. StaleLeft' \in {0, 1} /\ TimerLeft' \in {0, 1}
  BY DEF StaleLeft, TimerLeft
<1>6. Queued(ToAnalyse)' \in Nat
  BY <1>3, QueuedLater
<1> QED
  BY <1>1, <1>2, <1>3, <1>4, <1>6 DEF PartsTyped

\* A step that starts no analysis leaves as many to start and fewer steps.
LEMMA FewerSteps ==
    ASSUME TypeOK, TypeOK', Queued(ToAnalyse)' = Queued(ToAnalyse),
           StaleLeft' = StaleLeft,
           3 * Len(events') + 2 * Len(batch') + MainStepsLeft'
               + WorkerStepsLeft' + TimerLeft'
             < 3 * Len(events) + 2 * Len(batch) + MainStepsLeft
                 + WorkerStepsLeft + TimerLeft
    PROVE  LeavesLess
BY MeasureParts, MeasurePartsNext DEF LeavesLess

\* A step that starts one leaves fewer to start.
LEMMA FewerAnalyses ==
    ASSUME TypeOK, TypeOK',
           Queued(ToAnalyse)' + StaleLeft' < Queued(ToAnalyse) + StaleLeft
    PROVE  LeavesLess
BY MeasureParts, MeasurePartsNext DEF LeavesLess

\* Handling an event takes two steps off the measure.
LEMMA HandlingLeaves ==
    ASSUME TypeOK, NEW types, Handling(types)
    PROVE  /\ events' = events
           /\ Len(batch) \in Nat /\ Len(batch) >= 1 /\ Len(batch') = Len(batch) - 1
<1>1. batch \in Seq(Events) /\ batch # <<>>
  BY TypeParts DEF LoopTypeOK, Handling
<1> QED
  BY <1>1 DEF Handling

\* What a handler leaves to do when it leaves the worker as it is.
LEMMA QuietLeaves ==
    ASSUME TypeOK, TypeOK', NEW types, Handling(types), types \cap EditTypes = {},
           revision' = revision, analyzingRevision' = analyzingRevision,
           UNCHANGED workerVars, MainStepsLeft' = MainStepsLeft,
           rebuildDue' => rebuildDue
    PROVE  LeavesLess
<1>0. PartsTyped /\ PartsTyped'
  BY MeasureNat, MeasureNatNext
<1>1. Queued(ToAnalyse)' = Queued(ToAnalyse)
  <2>1. Head(batch) \notin ToAnalyse
    BY HandlingType DEF ToAnalyse
  <2> QED
    BY <2>1, QueuedKept
<1>2. StaleLeft' = StaleLeft /\ WorkerStepsLeft' = WorkerStepsLeft
  BY DEF StaleLeft, WorkerStepsLeft, workerVars
<1>3. TimerLeft' <= TimerLeft
  BY DEF TimerLeft
<1>5. events' = events /\ Len(batch') = Len(batch) - 1
  BY HandlingLeaves
<1>4. 3 * Len(events') + 2 * Len(batch') + MainStepsLeft'
               + WorkerStepsLeft' + TimerLeft'
             < 3 * Len(events) + 2 * Len(batch) + MainStepsLeft
                 + WorkerStepsLeft + TimerLeft
  BY <1>0, <1>2, <1>3, <1>5 DEF PartsTyped
<1> QED
  BY <1>1, <1>2, <1>4, FewerSteps

\* start_analysis: a submitted analysis is one less to start, otherwise the
\* timer is cleared and nothing else happens.
LEMMA StartLeaves ==
    ASSUME TypeOK, TypeOK', StartAnalysis, revision' = revision,
           Queued(ToAnalyse)' = Queued(ToAnalyse),
           MainStepsLeft' = MainStepsLeft,
           3 * Len(events') + 2 * Len(batch') + TimerLeft'
             < 3 * Len(events) + 2 * Len(batch) + TimerLeft
    PROVE  LeavesLess
<1>0. PartsTyped /\ PartsTyped'
  BY MeasureNat, MeasureNatNext
<1>1. CASE NeedsAnalysis(analyzingRevision)
  <2>1. StaleLeft = 1 /\ StaleLeft' = 0
    BY <1>1 DEF StaleLeft, StartAnalysis, Submit, NeedsAnalysis
  <2>2. Queued(ToAnalyse)' + StaleLeft' < Queued(ToAnalyse) + StaleLeft
    BY <1>0, <2>1 DEF PartsTyped
  <2> QED
    BY <2>2, FewerAnalyses
<1>2. CASE ~NeedsAnalysis(analyzingRevision)
  <2>1. StaleLeft' = StaleLeft /\ WorkerStepsLeft' = WorkerStepsLeft
    BY <1>2 DEF StaleLeft, WorkerStepsLeft, workerVars, StartAnalysis
  <2>2. 3 * Len(events') + 2 * Len(batch') + MainStepsLeft'
               + WorkerStepsLeft' + TimerLeft'
             < 3 * Len(events) + 2 * Len(batch) + MainStepsLeft
                 + WorkerStepsLeft + TimerLeft
    BY <1>0, <2>1 DEF PartsTyped
  <2> QED
    BY <2>1, <2>2, FewerSteps
<1> QED
  BY <1>1, <1>2

\* An edit is one analysis less to come; unless it starts one, the store's
\* revision is not being analysed any more.
LEMMA EditLeaves ==
    ASSUME TypeOK, TypeOK', HandleEdit \/ HandleRejectedEdit
    PROVE  LeavesLess
<1>0. PartsTyped /\ PartsTyped'
  BY MeasureNat, MeasureNatNext
<1>1. PICK types : Handling(types) /\ types \subseteq EditTypes
  BY DEF HandleEdit, HandleRejectedEdit, EditTypes
<1>2. NoteEdit /\ mainPc' = mainPc
  BY DEF HandleEdit, HandleRejectedEdit
<1>3. /\ Queued(ToAnalyse) \in Nat /\ Queued(ToAnalyse)' \in Nat
      /\ Queued(ToAnalyse)' = Queued(ToAnalyse) - 1
  <2>1. Head(batch) \in ToAnalyse
    BY <1>1, HandlingType DEF ToAnalyse
  <2> QED
    BY <1>1, <2>1, HeadCounted
<1>4. StaleLeft \in {0, 1} /\ StaleLeft' \in {0, 1}
  BY DEF StaleLeft
<1>5. CASE StaleLeft' <= StaleLeft
  BY <1>3, <1>4, <1>5, FewerAnalyses
<1>6. CASE StaleLeft' > StaleLeft
  <2>1. StaleLeft' = 1 /\ StaleLeft = 0
    BY <1>4, <1>6
  <2>2. ~Submit
    BY <2>1 DEF Submit, StaleLeft
  <2>3. HandOver(None)
    BY <1>2, <2>2 DEF NoteEdit
  <2>4. WorkerStepsLeft' <= WorkerStepsLeft
    <3>1. checksLeft \in Nat /\ Checkpoints \in Nat
      BY TypeParts, CheckpointsAssumption DEF WorkerTypeOK
    <3> QED
      BY <2>3, <3>1 DEF HandOver, WorkerStepsLeft
  <2>5. MainStepsLeft' = MainStepsLeft
    BY <1>2 DEF MainStepsLeft
  <2>6. StepsLeft' < StepsLeft
    <3>0. events' = events /\ Len(batch') = Len(batch) - 1
      BY <1>1, HandlingLeaves
    <3>1. 3 * Len(events') + 2 * Len(batch') + MainStepsLeft'
               + WorkerStepsLeft' + TimerLeft'
             < 3 * Len(events) + 2 * Len(batch) + MainStepsLeft
                 + WorkerStepsLeft + TimerLeft
      BY <1>0, <2>4, <2>5, <3>0 DEF PartsTyped
    <3> QED
      BY <3>1, MeasureParts, MeasurePartsNext
  <2>7. AnalysesLeft' = AnalysesLeft
    BY <1>3, <2>1, MeasureParts, MeasurePartsNext
  <2> QED
    BY <2>6, <2>7 DEF LeavesLess
<1> QED
  BY <1>4, <1>5, <1>6

LEMMA HandleLeaves ==
    ASSUME TypeOK, TypeOK', Handle
    PROVE  LeavesLess
<1> USE DEF EditTypes
<1>1. CASE HandleCancelledRequest \/ HandleDirect \/ HandleAnswerableQuery
  <2>1. PICK types : Handling(types) /\ types \cap EditTypes = {}
    BY <1>1 DEF HandleCancelledRequest, HandleDirect, HandleAnswerableQuery,
                RequestTypes
  <2>2. /\ UNCHANGED <<storeVars, workerVars, analysisVars>>
        /\ mainPc' = mainPc
    BY <1>1 DEF HandleCancelledRequest, HandleDirect, HandleAnswerableQuery
  <2> QED
    BY <2>1, <2>2, QuietLeaves DEF storeVars, analysisVars, MainStepsLeft
<1>2. CASE HandleCancel \/ HandleNoEffect
  <2>1. PICK types : Handling(types) /\ types \cap EditTypes = {}
    BY <1>2 DEF HandleCancel, HandleNoEffect
  <2>2. /\ UNCHANGED <<storeVars, workerVars, analyzingRevision, rebuildDue>>
        /\ mainPc' = mainPc
    BY <1>2 DEF HandleCancel, HandleNoEffect, analysisVars
  <2> QED
    BY <2>1, <2>2, QuietLeaves DEF storeVars, MainStepsLeft
<1>3. CASE HandleLast
  <2>1. PICK types : Handling(types) /\ types \cap EditTypes = {}
    BY <1>3 DEF HandleLast
  <2>2. /\ UNCHANGED <<storeVars, workerVars, analysisVars>>
        /\ MainStepsLeft' = MainStepsLeft
    BY <1>3 DEF HandleLast, Handling, Running, MainStepsLeft
  <2> QED
    BY <2>1, <2>2, QuietLeaves DEF storeVars, analysisVars
<1>4. CASE ParkQuery \/ HandleFinished
  <2>1. PICK types : Handling(types) /\ types \cap EditTypes = {}
    BY <1>4 DEF ParkQuery, HandleFinished
  <2>2. /\ revision' = revision /\ MainStepsLeft' = MainStepsLeft
        /\ StartAnalysis \/ UNCHANGED <<workerVars, analyzingRevision, rebuildDue>>
    BY <1>4 DEF ParkQuery, HandleFinished, storeVars, MainStepsLeft
  <2>3. CASE StartAnalysis
    <3>1. Queued(ToAnalyse)' = Queued(ToAnalyse)
      <4>1. Head(batch) \notin ToAnalyse
        BY <2>1, HandlingType DEF ToAnalyse
      <4> QED
        BY <2>1, <4>1, QueuedKept
    <3>2. TimerLeft' = 0 /\ TimerLeft \in {0, 1}
      BY <2>3 DEF StartAnalysis, TimerLeft
    <3>3. /\ Len(events) \in Nat /\ Len(batch) \in Nat
          /\ events' = events /\ Len(batch') = Len(batch) - 1
      BY <2>1, MeasureNat, HandlingLeaves DEF PartsTyped
    <3>4. 3 * Len(events') + 2 * Len(batch') + TimerLeft'
             < 3 * Len(events) + 2 * Len(batch) + TimerLeft
      BY <3>2, <3>3
    <3> QED
      BY <2>2, <2>3, <3>1, <3>4, StartLeaves
  <2>4. CASE UNCHANGED <<workerVars, analyzingRevision, rebuildDue>>
    BY <2>1, <2>2, <2>4, QuietLeaves
  <2> QED
    BY <2>2, <2>3, <2>4
<1> QED
  BY <1>1, <1>2, <1>3, <1>4, EditLeaves DEF Handle

LEMMA TakeBatchLeaves ==
    ASSUME TypeOK, TypeOK', TakeBatch
    PROVE  LeavesLess
<1>0. PartsTyped /\ PartsTyped'
  BY MeasureNat, MeasureNatNext
<1>1. Queued(ToAnalyse)' = Queued(ToAnalyse)
  BY QueuedTake
<1>2. /\ StaleLeft' = StaleLeft /\ TimerLeft' = TimerLeft
      /\ WorkerStepsLeft' = WorkerStepsLeft /\ MainStepsLeft' = MainStepsLeft
  BY DEF TakeBatch, storeVars, workerVars, analysisVars, StaleLeft,
         TimerLeft, WorkerStepsLeft, MainStepsLeft
<1>3. /\ Len(batch') = Len(events) /\ Len(events') = 0
      /\ Len(batch) = 0 /\ Len(events) \in Nat /\ Len(events) > 0
  BY TypeParts DEF TakeBatch, LoopTypeOK
<1>4. 3 * Len(events') + 2 * Len(batch') + MainStepsLeft'
               + WorkerStepsLeft' + TimerLeft'
             < 3 * Len(events) + 2 * Len(batch) + MainStepsLeft
                 + WorkerStepsLeft + TimerLeft
  BY <1>0, <1>2, <1>3 DEF PartsTyped
<1> QED
  BY <1>1, <1>2, <1>4, FewerSteps

LEMMA TimeoutLeaves ==
    ASSUME TypeOK, TypeOK', RebuildTimeout
    PROVE  LeavesLess
<1>1. StartAnalysis /\ revision' = revision /\ MainStepsLeft' = MainStepsLeft
      /\ events' = events /\ batch' = batch /\ TimerLeft = 1 /\ TimerLeft' = 0
  BY DEF RebuildTimeout, StartAnalysis, storeVars, loopVars, MainStepsLeft,
         TimerLeft
<1>2. Queued(ToAnalyse)' = Queued(ToAnalyse)
  BY <1>1, QueuedStutter
<1>3. 3 * Len(events') + 2 * Len(batch') + TimerLeft'
         < 3 * Len(events) + 2 * Len(batch) + TimerLeft
  BY <1>1, MeasureNat DEF PartsTyped
<1> QED
  BY <1>1, <1>2, <1>3, StartLeaves

LEMMA TeardownLeaves ==
    ASSUME TypeOK, TypeOK', Teardown
    PROVE  LeavesLess
<1>0. PartsTyped /\ PartsTyped'
  BY MeasureNat, MeasureNatNext
<1>1. UNCHANGED <<storeVars, events, batch, analysisVars, next, workerPc, checksLeft>>
  BY DEF Teardown, JoinReader, CancelWorker, StopWorker, JoinWorker, Advance,
         DestroyCancel, DestroyRequestStop, workerVars
<1>2. Queued(ToAnalyse)' = Queued(ToAnalyse)
  BY <1>1, QueuedStutter
<1>3. /\ StaleLeft' = StaleLeft /\ TimerLeft' = TimerLeft
      /\ WorkerStepsLeft' = WorkerStepsLeft
  BY <1>1 DEF storeVars, analysisVars, StaleLeft, TimerLeft,
              WorkerStepsLeft
<1>4. MainStepsLeft' < MainStepsLeft
  BY DEF Teardown, JoinReader, CancelWorker, StopWorker, JoinWorker, Advance,
         MainStepsLeft
<1>5. 3 * Len(events') + 2 * Len(batch') + MainStepsLeft'
               + WorkerStepsLeft' + TimerLeft'
             < 3 * Len(events) + 2 * Len(batch) + MainStepsLeft
                 + WorkerStepsLeft + TimerLeft
  BY <1>0, <1>1, <1>3, <1>4 DEF PartsTyped
<1> QED
  BY <1>2, <1>3, <1>5, FewerSteps

LEMMA SumFalls ==
    ASSUME NEW e \in Int, NEW b \in Int, NEW m \in Int, NEW w \in Int,
           NEW v \in Int, NEW t \in Int, v + 3 < w
    PROVE  3 * (e + 1) + 2 * b + m + v + t < 3 * e + 2 * b + m + w + t
OBVIOUS

\* The worker's steps: taking inputs pays for a whole build and a delivery.
LEMMA WorkerLeaves ==
    ASSUME TypeOK, TypeOK', WorkerStep
    PROVE  LeavesLess
<1>0. PartsTyped /\ PartsTyped'
  BY MeasureNat, MeasureNatNext
<1>1. UNCHANGED <<storeVars, batch, mainPc, analysisVars>>
  BY DEF WorkerStep, loopVars
<1>2. StaleLeft' = StaleLeft /\ TimerLeft' = TimerLeft
      /\ MainStepsLeft' = MainStepsLeft
  BY <1>1 DEF storeVars, analysisVars, StaleLeft, TimerLeft, MainStepsLeft
<1>3. CASE DeliverSnapshot
  <2>1. PICK e \in Events : e = [type |-> "finished", snapshot |-> building]
    BY <1>3, EventTypes, TypeParts
       DEF DeliverSnapshot, Deliver, WorkerTypeOK, Snapshots
  <2>2. events' = Append(events, e) /\ e \notin ToAnalyse
    BY <1>3, <2>1 DEF DeliverSnapshot, ToAnalyse, EditTypes
  <2>3. Queued(ToAnalyse)' = Queued(ToAnalyse)
    BY <1>0, <1>1, <2>2, QueuedPush DEF PartsTyped
  <2>4. Len(events') = Len(events) + 1
    BY <2>2, TypeParts DEF LoopTypeOK
  <2>5. WorkerStepsLeft' + 3 < WorkerStepsLeft
    <3>1. checksLeft \in Nat /\ Checkpoints \in Nat
      BY TypeParts, CheckpointsAssumption DEF WorkerTypeOK
    <3>2. /\ workerPc = "built" /\ workerPc' = "waiting"
          /\ next' = next /\ checksLeft' = checksLeft
      BY <1>3 DEF DeliverSnapshot, Deliver
    <3> QED
      BY <3>1, <3>2 DEF WorkerStepsLeft
  <2>6. 3 * Len(events') + 2 * Len(batch') + MainStepsLeft'
               + WorkerStepsLeft' + TimerLeft'
             < 3 * Len(events) + 2 * Len(batch) + MainStepsLeft
                 + WorkerStepsLeft + TimerLeft
    <3>1. Len(batch') = Len(batch)
      BY <1>1
    <3>2. /\ Len(events) \in Int /\ Len(batch) \in Int /\ MainStepsLeft \in Int
          /\ WorkerStepsLeft \in Int /\ WorkerStepsLeft' \in Int
          /\ TimerLeft \in Int
      BY <1>0 DEF PartsTyped
    <3> QED
      BY <1>2, <2>4, <2>5, <3>1, <3>2, SumFalls
  <2> QED
    BY <1>2, <2>3, <2>6, FewerSteps
<1>4. CASE (Take \/ Stop \/ Abandon \/ PassCheckpoint) /\ UNCHANGED events
  <2>1. Queued(ToAnalyse)' = Queued(ToAnalyse)
    BY <1>1, <1>4, QueuedStutter
  <2>2. checksLeft \in Nat /\ Checkpoints \in Nat
        /\ (workerPc = "building" => checksLeft > 0)
    BY TypeParts, CheckpointsAssumption DEF WorkerTypeOK
  <2>3. WorkerStepsLeft' < WorkerStepsLeft
    <3>1. CASE Take
      BY <2>2, <3>1 DEF Take, WorkerStepsLeft
    <3>2. CASE Stop
      BY <2>2, <3>2 DEF Stop, WorkerStepsLeft
    <3>3. CASE Abandon
      BY <2>2, <3>3 DEF Abandon, WorkerStepsLeft
    <3>4. CASE PassCheckpoint
      BY <2>2, <3>4 DEF PassCheckpoint, WorkerStepsLeft
    <3> QED
      BY <1>4, <3>1, <3>2, <3>3, <3>4
  <2>4. 3 * Len(events') + 2 * Len(batch') + MainStepsLeft'
               + WorkerStepsLeft' + TimerLeft'
             < 3 * Len(events) + 2 * Len(batch) + MainStepsLeft
                 + WorkerStepsLeft + TimerLeft
    <3>1. events' = events /\ batch' = batch
      BY <1>1, <1>4
    <3>2. /\ Len(events) \in Int /\ Len(batch) \in Int /\ MainStepsLeft \in Int
          /\ WorkerStepsLeft \in Int /\ WorkerStepsLeft' \in Int
          /\ TimerLeft \in Int
      BY <1>0 DEF PartsTyped
    <3> QED
      BY <1>2, <2>3, <3>1, <3>2
  <2> QED
    BY <1>2, <2>1, <2>4, FewerSteps
<1> QED
  BY <1>3, <1>4 DEF WorkerStep

\* Every step the server's threads take without the client leaves less to do,
\* so there are only so many of them: no analysis is started again and again.
THEOREM ServerComesToRest == Spec => ComesToRest
<1>1. TypeOK /\ [Next]_vars => [MainStep \/ WorkerStep => LeavesLess]_vars
  <2> SUFFICES ASSUME TypeOK, [Next]_vars, MainStep \/ WorkerStep
               PROVE  LeavesLess
    OBVIOUS
  <2>1. TypeOK'
    BY TypeNext
  <2> QED
    BY <2>1, TakeBatchLeaves, TimeoutLeaves, HandleLeaves, TeardownLeaves,
       WorkerLeaves
       DEF MainStep
<1> QED
  BY <1>1, TypeCorrect, PTL DEF Spec, ComesToRest

-----------------------------------------------------------------------------
(* At rest, everything is settled                                           *)

\* The end comes in order: the stop is requested before the worker is joined,
\* only a requested stop stops it, and a reader that stopped left the message
\* that ends the loop behind.
EndInv ==
    /\ stopRequested <=> mainPc \in {"joiningWorker", "done"}
    /\ workerPc = "stopped" => stopRequested
    /\ mainPc = "done" => workerPc = "stopped"
    /\ Running /\ readerPc = "stopped" => \E e \in InFlight : e.type = "last"

LEMMA EndInit == Init => EndInv
BY DEF Init, WorkerInit, EndInv

\* The main loop's steps before the teardown do not move the worker's thread.
LEMMA WorkerKept ==
    ASSUME MainStep, ~Teardown
    PROVE  UNCHANGED <<workerPc, stopRequested>>
<1>1. UNCHANGED workerVars \/ StartAnalysis \/ NoteEdit
  BY DEF MainStep, TakeBatch, RebuildTimeout, Handle, HandleCancelledRequest,
         HandleDirect, HandleAnswerableQuery, ParkQuery, HandleEdit,
         HandleRejectedEdit, HandleCancel, HandleNoEffect, HandleLast,
         HandleFinished
<1> QED
  BY <1>1 DEF workerVars, StartAnalysis, NoteEdit, Submit, HandOver

\* Until `last` is handled, the loop goes on.
LEMMA HandledMain ==
    ASSUME Handle
    PROVE  mainPc' = mainPc \/ (HandleLast /\ mainPc' = "joiningReader")
BY DEF Handle, HandleCancelledRequest, HandleDirect, HandleAnswerableQuery,
       ParkQuery, HandleEdit, HandleRejectedEdit, HandleCancel, HandleNoEffect,
       HandleLast, HandleFinished

LEMMA EndNext == TypeOK /\ EndInv /\ [Next]_vars => EndInv'
<1> SUFFICES ASSUME TypeOK, EndInv, [Next]_vars PROVE EndInv'
  OBVIOUS
<1>1. CASE Client
  <2>1. PICK m \in Messages : Read(m)
    BY <1>1, ClientReads
  <2>2. /\ m \in Events /\ events' = Append(events, m) /\ batch' = batch
        /\ mainPc' = mainPc /\ readerPc = "reading"
        /\ readerPc' = IF m.type = "last" THEN "stopped" ELSE "reading"
        /\ stopRequested' = stopRequested /\ workerPc' = workerPc
    BY <2>1, MessageKinds DEF Read, Last, loopVars, workerVars
  <2>3. InFlight' = InFlight \cup {m}
    BY <2>2, InFlightPush
  <2> QED
    BY <2>2, <2>3 DEF EndInv, Running
<1>2. CASE TakeBatch \/ RebuildTimeout
  <2>1. UNCHANGED <<mainPc, readerPc>>
    BY <1>2 DEF TakeBatch, RebuildTimeout, loopVars
  <2>2. UNCHANGED <<workerPc, stopRequested>>
    <3>1. ~Teardown
      BY <1>2 DEF TakeBatch, RebuildTimeout, Running, Teardown, JoinReader,
                  CancelWorker, StopWorker, JoinWorker, Advance
    <3> QED
      BY <1>2, <3>1, WorkerKept DEF MainStep
  <2>3. InFlight' = InFlight
    BY <1>2, InFlightTake DEF RebuildTimeout, loopVars, InFlight
  <2> QED
    BY <2>1, <2>2, <2>3 DEF EndInv, Running
<1>3. CASE Handle
  <2>1. PICK types : Handling(types)
    BY <1>3, HandleTakes
  <2>2. Running /\ readerPc' = readerPc /\ InFlight = {Head(batch)} \cup InFlight'
    BY <2>1, InFlightHandling DEF Handling
  <2>3. UNCHANGED <<workerPc, stopRequested>>
    <3>1. ~Teardown
      BY <2>2 DEF Running, Teardown, JoinReader, CancelWorker, StopWorker,
                  JoinWorker, Advance
    <3> QED
      BY <1>3, <3>1, WorkerKept DEF MainStep
  <2>4. CASE HandleLast
    BY <2>2, <2>3, <2>4 DEF HandleLast, EndInv, Running
  <2>5. CASE ~HandleLast
    <3>1. mainPc' = mainPc
      BY <1>3, <2>5, HandledMain
    <3>2. Head(batch).type # "last"
      BY <1>3, <2>5
         DEF Handle, HandleCancelledRequest, HandleDirect, HandleAnswerableQuery,
             ParkQuery, HandleEdit, HandleRejectedEdit, HandleCancel,
             HandleNoEffect, HandleFinished, Handling, RequestTypes
    <3> QED
      BY <2>2, <2>3, <3>1, <3>2 DEF EndInv, Running
  <2> QED
    BY <2>4, <2>5
<1>4. CASE Teardown
  BY <1>4
     DEF Teardown, JoinReader, CancelWorker, StopWorker, JoinWorker, Advance,
         DestroyCancel, DestroyRequestStop, workerVars, EndInv, Running
<1>5. CASE WorkerStep
  <2>1. UNCHANGED <<mainPc, readerPc, batch>>
    BY <1>5 DEF WorkerStep, loopVars
  <2>2. stopRequested' = stopRequested /\ (workerPc' = "stopped" => stopRequested)
        /\ workerPc # "stopped"
    BY <1>5 DEF WorkerStep, Take, Stop, Abandon, PassCheckpoint, DeliverSnapshot,
                Deliver
  <2>3. InFlight \subseteq InFlight'
    <3>1. CASE UNCHANGED events
      BY <2>1, <3>1 DEF InFlight
    <3>2. CASE DeliverSnapshot
      <4>1. PICK e \in Events : e = [type |-> "finished", snapshot |-> building]
        BY <3>2, EventTypes, TypeParts
           DEF DeliverSnapshot, Deliver, WorkerTypeOK, Snapshots
      <4>2. events' = Append(events, e)
        BY <3>2, <4>1 DEF DeliverSnapshot
      <4> QED
        BY <2>1, <4>2, InFlightPush
    <3> QED
      BY <1>5, <3>1, <3>2 DEF WorkerStep
  <2> QED
    BY <2>1, <2>2, <2>3 DEF EndInv, Running
<1>6. CASE UNCHANGED vars
  BY <1>6 DEF vars, loopVars, workerVars, EndInv, Running, InFlight
<1> QED
  BY <1>1, <1>2, <1>3, <1>4, <1>5, <1>6 DEF Next, MainStep

\* What is analysed has text: before the first edit there is nothing to do.
HasText(s) == s # None => s.revision > 0
TextAnalysed ==
    /\ HasText(next) /\ HasText(building) /\ HasText(snapshot)
    /\ \A e \in FinishedInFlight : HasText(e.snapshot)

LEMMA AnalysedInit == Init => TextAnalysed
<1>1. Init => FinishedInFlight = {}
  BY DEF Init, FinishedInFlight, Range
<1> QED
  BY <1>1 DEF Init, StoreInit, WorkerInit, TextAnalysed, HasText

LEMMA AnalysedStart ==
    ASSUME TypeOK', WorkInv', TextAnalysed, HasText(snapshot)',
           StartAnalysis \/ NoteEdit, FinishedInFlight' \subseteq FinishedInFlight
    PROVE  TextAnalysed'
<1>1. building' = building /\ (next' \in {next, None} \/ (Submit /\ ~IsCurrent'))
  BY DEF StartAnalysis, NoteEdit, Submit, HandOver, NeedsAnalysis, workerVars
<1>2. HasText(building)' /\ \A e \in FinishedInFlight' : HasText(e.snapshot)
  BY <1>1 DEF TextAnalysed, HasText
<1>3. ~IsCurrent' => revision' > 0
  <2>1. revision' \in Nat /\ snapshot' \in Snapshots \cup {None}
    BY TypePartsNext DEF StoreTypeOK
  <2>2. snapshot' # None => /\ snapshot'.revision > 0
                            /\ snapshot'.revision <= revision'
                            /\ snapshot'.revision \in Nat
    BY <2>1 DEF HasText, WorkInv, RevisionNamesText, NamesText, Snapshots, Inputs
  <2> QED
    BY <2>1, <2>2 DEF IsCurrent
<1>4. HasText(next)'
  <2>1. CASE next' \in {next, None}
    BY <2>1 DEF TextAnalysed, HasText
  <2>2. CASE Submit /\ ~IsCurrent'
    <3>1. next'.revision = revision'
      BY <2>2 DEF Submit, HandOver, StoreInputs
    <3> QED
      BY <1>3, <2>2, <3>1 DEF HasText
  <2> QED
    BY <1>1, <2>1, <2>2
<1> QED
  BY <1>2, <1>4 DEF TextAnalysed, HasText

LEMMA AnalysedQuiet ==
    ASSUME TextAnalysed, UNCHANGED <<next, building, snapshot>>,
           FinishedInFlight' = FinishedInFlight
    PROVE  TextAnalysed'
BY DEF TextAnalysed, HasText

LEMMA AnalysedHandled ==
    ASSUME TypeOK, TypeOK', WorkInv', TextAnalysed, Handle
    PROVE  TextAnalysed'
<1>1. CASE \/ HandleCancelledRequest \/ HandleDirect \/ HandleAnswerableQuery
           \/ HandleCancel \/ HandleNoEffect \/ HandleLast
  <2>1. UNCHANGED <<storeVars, workerVars>>
    BY <1>1 DEF HandleCancelledRequest, HandleDirect, HandleAnswerableQuery,
                HandleCancel, HandleNoEffect, HandleLast
  <2>2. FinishedInFlight' = FinishedInFlight
    BY <1>1, FinishedHandling
       DEF HandleCancelledRequest, HandleDirect, HandleAnswerableQuery,
           HandleCancel, HandleNoEffect, HandleLast, RequestTypes
  <2> QED
    BY <2>1, <2>2, AnalysedQuiet DEF storeVars, workerVars
<1>2. CASE ParkQuery \/ HandleEdit \/ HandleRejectedEdit
  <2>1. FinishedInFlight' = FinishedInFlight
    BY <1>2, FinishedHandling DEF ParkQuery, HandleEdit, HandleRejectedEdit
  <2>2. snapshot' = snapshot /\ (StartAnalysis \/ NoteEdit)
    BY <1>2 DEF ParkQuery, HandleEdit, HandleRejectedEdit, Change, storeVars
  <2> QED
    BY <2>1, <2>2, AnalysedStart DEF TextAnalysed, HasText
<1>3. CASE HandleFinished
  <2>1. FinishedInFlight = FinishedInFlight' \cup {Head(batch)}
    BY <1>3, FinishedHandling DEF HandleFinished
  <2>2. HasText(Head(batch).snapshot)
    BY <2>1 DEF TextAnalysed
  <2>3. HasText(snapshot)'
    <3>1. snapshot' \in {Head(batch).snapshot, snapshot}
      BY <1>3 DEF HandleFinished, InstalledAfter
    <3> QED
      BY <2>2, <3>1 DEF TextAnalysed, HasText
  <2>4. StartAnalysis \/ UNCHANGED workerVars
    BY <1>3 DEF HandleFinished
  <2>5. CASE UNCHANGED workerVars
    BY <2>1, <2>3, <2>5 DEF TextAnalysed, HasText, workerVars
  <2> QED
    BY <2>1, <2>3, <2>4, <2>5, AnalysedStart
<1> QED
  BY <1>1, <1>2, <1>3 DEF Handle

LEMMA AnalysedWorker ==
    ASSUME TypeOK, TextAnalysed, WorkerStep
    PROVE  TextAnalysed'
<1>1. snapshot' = snapshot /\ batch' = batch
  BY DEF WorkerStep, storeVars, loopVars
<1>2. CASE DeliverSnapshot
  <2>1. FinishedInFlight' = FinishedInFlight
            \cup {[type |-> "finished", snapshot |-> building]}
    BY <1>1, <1>2, FinishedDeliver
  <2>2. next' = next /\ building' = None
    BY <1>2 DEF DeliverSnapshot, Deliver
  <2> QED
    BY <1>1, <2>1, <2>2 DEF TextAnalysed, HasText
<1>3. CASE (Take \/ Stop \/ Abandon \/ PassCheckpoint) /\ UNCHANGED events
  <2>1. FinishedInFlight' = FinishedInFlight
    BY <1>1, <1>3, FinishedStutter
  <2>2. next' \in {next, None} /\ building' \in {building, next, None}
    BY <1>3 DEF Take, Stop, Abandon, PassCheckpoint
  <2> QED
    BY <1>1, <2>1, <2>2 DEF TextAnalysed, HasText
<1> QED
  BY <1>2, <1>3 DEF WorkerStep

LEMMA AnalysedNext ==
    TypeOK /\ TypeOK' /\ WorkInv' /\ TextAnalysed /\ [Next]_vars => TextAnalysed'
<1> SUFFICES ASSUME TypeOK, TypeOK', WorkInv', TextAnalysed, [Next]_vars
             PROVE  TextAnalysed'
  OBVIOUS
<1>1. CASE Client
  <2>1. PICK m \in Messages : Read(m)
    BY <1>1, ClientReads
  <2>2. FinishedInFlight' = FinishedInFlight /\ UNCHANGED <<storeVars, workerVars>>
    BY <2>1, FinishedRead DEF Read
  <2> QED
    BY <2>2, AnalysedQuiet DEF storeVars, workerVars
<1>2. CASE TakeBatch
  BY <1>2, FinishedTakeBatch, AnalysedQuiet DEF TakeBatch, storeVars, workerVars
<1>3. CASE RebuildTimeout
  <2>1. FinishedInFlight' = FinishedInFlight /\ snapshot' = snapshot
    BY <1>3, FinishedStutter DEF RebuildTimeout, loopVars, storeVars
  <2> QED
    BY <1>3, <2>1, AnalysedStart DEF RebuildTimeout, TextAnalysed, HasText
<1>4. CASE Teardown
  <2>1. UNCHANGED <<storeVars, next, building, events, batch>>
    BY <1>4 DEF Teardown, JoinReader, CancelWorker, StopWorker, JoinWorker,
                Advance, DestroyCancel, DestroyRequestStop, workerVars
  <2> QED
    BY <2>1, FinishedStutter, AnalysedQuiet DEF storeVars
<1>5. CASE UNCHANGED vars
  BY <1>5, FinishedStutter, AnalysedQuiet DEF vars, storeVars, workerVars, loopVars
<1> QED
  BY <1>1, <1>2, <1>3, <1>4, <1>5, AnalysedHandled, AnalysedWorker
     DEF Next, MainStep

\* Only the teardown is on its way when the loop is over, and it does not stop.
LEMMA RestsRunningOrDone ==
    ASSUME TypeOK, ReaderIsDone, EndInv, AtRest
    PROVE  mainPc = "done" \/ (Running /\ readerPc = "reading")
<1>1. CASE Running
  <2>1. InFlight = {}
    BY <1>1 DEF AtRest, Running, InFlight, Range
  <2> QED
    BY <1>1, <2>1, TypeParts DEF EndInv, LoopTypeOK
<1>2. CASE ~Running
  BY <1>2 DEF AtRest, ReaderIsDone, EndInv
<1> QED
  BY <1>1, <1>2

\* With nothing in flight and no work left, the store is up to date.
LEMMA RestIsCurrent ==
    ASSUME TypeOK, WorkInv, TextCounted, EndInv, AtRest, Running
    PROVE  /\ revision = textVersion
           /\ IsCurrent
           /\ ~WorkFor(revision)
           /\ \A E : Queued(E) = 0
<1>1. events = <<>> /\ batch = <<>> /\ ~rebuildDue
  BY DEF AtRest, Running
<1>2. \A E : Queued(E) = 0
  <2> SUFFICES ASSUME NEW E PROVE Queued(E) = 0
    OBVIOUS
  <2>1. Len(events) = 0 /\ Len(batch) = 0
    BY <1>1
  <2>2. Hits(events, Len(events), E) = 0 /\ Hits(batch, Len(batch), E) = 0
    BY <2>1, HitsFinite
  <2> QED
    BY <2>2 DEF Queued
<1>3. revision = textVersion
  BY <1>2, TypeParts DEF TextCounted, StoreTypeOK
<1>4. next = None /\ workerPc \notin {"building", "built"}
  BY DEF AtRest, EndInv, Running
<1>5. FinishedInFlight = {}
  BY <1>1 DEF FinishedInFlight, Range
<1>6. ~WorkFor(revision)
  BY <1>4, <1>5 DEF WorkFor
<1>7. IsCurrent
  BY <1>1, <1>6 DEF WorkInv, EditNeverForgotten
<1> QED
  BY <1>2, <1>3, <1>6, <1>7

\* Every request sent has its reply, but for queries about no text at all.
LEMMA RestIsAnswered ==
    ASSUME TypeOK, WorkInv, ServiceInv, EndInv, AtRest, Running
    PROVE  \A i \in Ids : asked[i] # None =>
               Len(replies[i]) = 1 \/ (i \in QueryIds /\ revision = 0)
<1> SUFFICES ASSUME NEW i \in Ids, asked[i] # None,
                    ~(i \in QueryIds /\ revision = 0)
             PROVE  Len(replies[i]) = 1
  OBVIOUS
<1>1. Queued(RequestsOf(i)) = 0
  BY RestIsCurrent DEF ServiceInv
<1>2. Places(i) = 1
  BY DEF ServiceInv, OnePlace
<1>3. replies[i] \in Seq(Replies)
  BY TypeParts DEF ReceivedTypeOK
<1>4. ParkedAs(i) = {}
  <2>1. CASE i \notin QueryIds
    BY <2>1, TypeParts DEF ParkedAs, AnalysisTypeOK, Parked
  <2>2. CASE i \in QueryIds
    <3>1. revision > 0
      BY <2>2, TypeParts DEF StoreTypeOK
    <3>2. parkedQueries = {}
      BY <3>1, RestIsCurrent DEF WorkInv, ParkedQueriesHurry, ServiceInv
    <3> QED
      BY <3>2 DEF ParkedAs
  <2> QED
    BY <2>1, <2>2
<1>5. Cardinality(ParkedAs(i)) = 0
  BY <1>4, FS_EmptySet
<1> QED
  BY <1>1, <1>2, <1>3, <1>5 DEF Places

\* When no thread can move, the server has ended along with its threads, or it
\* has settled everything the client sent (server.cc's loop and destructors).
THEOREM RestingServerIsSettled == Spec => []RestIsSettled
<1> DEFINE Inv == WorkInv /\ ServiceInv /\ ViewInv /\ EndInv /\ TextAnalysed
<1>1. Init => TypeOK /\ ViewInv /\ EndInv /\ TextAnalysed
  BY TypeInit, EndInit, AnalysedInit
     DEF Init, StoreInit, ViewInv, ClientShowsInstalled
<1>2. TypeOK /\ ViewInv /\ EndInv /\ TextAnalysed /\ WorkInv' /\ [Next]_vars
        => (TypeOK /\ ViewInv /\ EndInv /\ TextAnalysed)'
  BY TypeNext, ViewNext, EndNext, AnalysedNext
<1>3. TypeOK /\ Inv => RestIsSettled
  <2> SUFFICES ASSUME TypeOK, WorkInv, ServiceInv, ViewInv, EndInv, TextAnalysed,
                      AtRest
               PROVE  RestIsSettled
    BY DEF RestIsSettled
  <2>1. CASE mainPc = "done"
    BY <2>1 DEF RestIsSettled, EndInv, ServiceInv, ReaderIsDone, Running
  <2>2. CASE mainPc # "done"
    <3>1. Running /\ readerPc = "reading"
      BY <2>2, RestsRunningOrDone DEF ServiceInv
    <3>2. revision = textVersion /\ IsCurrent
      BY <3>1, RestIsCurrent DEF ServiceInv
    <3>3. shown = IF revision = 0 THEN NoDiagnostics ELSE DiagnosticsOf(StoreInputs)
      <4>1. CASE snapshot = None
        BY <3>2, <4>1 DEF ViewInv, ClientShowsInstalled, IsCurrent
      <4>2. CASE snapshot # None
        <5>1. /\ snapshot.revision = revision /\ snapshot.files = files
              /\ revision > 0
          BY <3>2, <4>2
             DEF IsCurrent, WorkInv, RevisionNamesText, NamesText, TextAnalysed,
                 HasText
        <5>2. shown = DiagnosticsOf(snapshot)
          BY <4>2 DEF ViewInv, ClientShowsInstalled
        <5>3. DiagnosticsOf(snapshot) = DiagnosticsOf(StoreInputs)
          BY <5>1 DEF DiagnosticsOf, StoreInputs
        <5>4. revision # 0
          BY <5>1
        <5> QED
          BY <5>2, <5>3, <5>4
      <4> QED
        BY <4>1, <4>2
    <3>4. \A i \in Ids : asked[i] # None =>
              Len(replies[i]) = 1 \/ (i \in QueryIds /\ revision = 0)
      BY <3>1, RestIsAnswered
    <3> QED
      BY <2>2, <3>1, <3>2, <3>3, <3>4 DEF RestIsSettled
  <2> QED
    BY <2>1, <2>2
<1> QED
  BY <1>1, <1>2, <1>3, WorkInvariant, ServiceInvariant, PTL DEF Spec
=============================================================================
