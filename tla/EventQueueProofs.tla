-------------------------- MODULE EventQueueProofs --------------------------
\* Proofs about EventQueue, for any number of producers and events.
EXTENDS EventQueue, SequenceTheorems, TLAPS

\* Who holds the mutex, and that a push that has begun is within the bound.
Holding == /\ \A p \in Producers : pushPc[p] = "locked" <=> mutex = p
           /\ popPc = "locked" <=> mutex = Consumer
           /\ \A p \in Producers : pushPc[p] # "idle" => pushed[p] < MaxEvents

QueueInv == TypeOK /\ Holding /\ NoLostWakeup /\ InOrder

LEMMA EventsTyped ==
    ASSUME TypeOK, Holding, NEW p \in Producers, pushPc[p] # "idle"
    PROVE  <<p, pushed[p] + 1>> \in Events
BY QueueAssumption DEF TypeOK, Holding, Events

LEMMA QueueInit == Init => QueueInv
<1> SUFFICES ASSUME Init PROVE QueueInv
  OBVIOUS
<1>1. TypeOK
  <2>1. events \in Seq(Events) /\ sent \in Seq(Events) /\ received \in Seq(Events)
    BY DEF Init
  <2>2. pushPc \in [Producers -> {"idle", "locked", "stored"}]
    BY DEF Init
  <2>3. pushed \in [Producers -> 0 .. MaxEvents]
    BY QueueAssumption DEF Init
  <2> QED BY <2>1, <2>2, <2>3 DEF Init, TypeOK, Calls
<1>2. Holding
  BY QueueAssumption DEF Init, Holding
<1>3. NoLostWakeup /\ InOrder
  BY DEF Init, NoLostWakeup, InOrder
<1> QED BY <1>1, <1>2, <1>3 DEF QueueInv

LEMMA PushLockInv ==
    ASSUME QueueInv, NEW p \in Producers, PushLock(p) PROVE QueueInv'
BY QueueAssumption DEF QueueInv, TypeOK, Holding, NoLostWakeup, InOrder, PushLock, consuming

LEMMA PushStoreInv ==
    ASSUME QueueInv, NEW p \in Producers, PushStore(p) PROVE QueueInv'
<1> DEFINE event == <<p, pushed[p] + 1>>
<1>1. event \in Events
  BY EventsTyped DEF QueueInv, PushStore
<1> HIDE DEF event
<1>2. events' = Append(events, event) /\ sent' = Append(sent, event)
  BY DEF PushStore, event
<1>3. TypeOK'
  <2>1. Append(events, event) \in Seq(Events) /\ Append(sent, event) \in Seq(Events)
    BY <1>1 DEF QueueInv, TypeOK
  <2> QED BY <1>2, <2>1 DEF QueueInv, TypeOK, PushStore, consuming
<1>4. Holding'
  BY QueueAssumption DEF QueueInv, TypeOK, Holding, PushStore, consuming
<1>5. NoLostWakeup'
  BY DEF QueueInv, TypeOK, NoLostWakeup, PushStore, consuming
<1>6. InOrder'
  <2>1. Append(received \o events, event) = received \o Append(events, event)
    <3>1. /\ received \in Seq(Events) /\ events \in Seq(Events)
          /\ received \o events \in Seq(Events) /\ <<event>> \in Seq(Events)
      BY <1>1 DEF QueueInv, TypeOK
    <3>2. /\ Append(received \o events, event) = (received \o events) \o <<event>>
          /\ Append(events, event) = events \o <<event>>
      BY <1>1, <3>1, AppendIsConcat
    <3> QED BY <3>1, <3>2, ConcatAssociative
  <2> QED BY <1>2, <2>1 DEF QueueInv, InOrder, PushStore, consuming
<1> QED BY <1>3, <1>4, <1>5, <1>6 DEF QueueInv

LEMMA PushNotifyInv ==
    ASSUME QueueInv, NEW p \in Producers, PushNotify(p) PROVE QueueInv'
<1>1. TypeOK'
  BY QueueAssumption DEF QueueInv, TypeOK, Holding, PushNotify
<1>2. Holding'
  BY QueueAssumption DEF QueueInv, TypeOK, Holding, PushNotify
<1>3. NoLostWakeup' /\ InOrder'
  BY DEF QueueInv, NoLostWakeup, InOrder, PushNotify
<1> QED BY <1>1, <1>2, <1>3 DEF QueueInv

LEMMA TakeFrontInv == ASSUME QueueInv, TakeFront PROVE QueueInv'
<1>1. /\ events \in Seq(Events) /\ events # <<>>
      /\ received \in Seq(Events)
  BY DEF QueueInv, TypeOK, TakeFront
<1>2. /\ Head(events) \in Events
      /\ Tail(events) \in Seq(Events)
      /\ Append(received, Head(events)) \in Seq(Events)
      /\ received \o events = Append(received, Head(events)) \o Tail(events)
  BY <1>1
<1>3. TypeOK'
  BY <1>2 DEF QueueInv, TypeOK, TakeFront, producing
<1>4. Holding'
  BY QueueAssumption DEF QueueInv, TypeOK, Holding, TakeFront, producing
<1>5. NoLostWakeup' /\ InOrder'
  BY <1>2 DEF QueueInv, NoLostWakeup, InOrder, TakeFront, producing
<1> QED BY <1>3, <1>4, <1>5 DEF QueueInv

\* The steps of the consumer that leave the queue alone.
LEMMA WaitingInv ==
    ASSUME QueueInv,
           \/ PopLock \/ Sleep \/ ReturnNothing \/ DeadlinePasses
           \/ TimeOut \/ WakeSpuriously \/ \E c \in Calls : Call(c)
    PROVE  QueueInv'
<1>1. TypeOK'
  BY QueueAssumption DEF QueueInv, TypeOK, PopLock, Sleep, ReturnNothing, DeadlinePasses,
                         TimeOut, WakeSpuriously, Call, producing
<1>2. Holding'
  BY QueueAssumption DEF QueueInv, TypeOK, Holding, PopLock, Sleep, ReturnNothing,
                         DeadlinePasses, TimeOut, WakeSpuriously, Call, producing
<1>3. NoLostWakeup'
  BY DEF QueueInv, NoLostWakeup, PopLock, Sleep, ReturnNothing, DeadlinePasses,
         TimeOut, WakeSpuriously, Call, producing
<1>4. InOrder'
  BY DEF QueueInv, InOrder, PopLock, Sleep, ReturnNothing, DeadlinePasses,
         TimeOut, WakeSpuriously, Call, producing
<1> QED BY <1>1, <1>2, <1>3, <1>4 DEF QueueInv

LEMMA QueueStep == QueueInv /\ [Next]_vars => QueueInv'
<1> SUFFICES ASSUME QueueInv, [Next]_vars PROVE QueueInv'
  OBVIOUS
<1>1. CASE UNCHANGED vars
  BY <1>1 DEF vars, producing, consuming, QueueInv, TypeOK, Holding, NoLostWakeup, InOrder
<1>2. CASE \E p \in Producers : PushLock(p) \/ PushStep(p)
  BY <1>2, PushLockInv, PushStoreInv, PushNotifyInv DEF PushStep
<1>3. CASE PopStep \/ DeadlinePasses \/ WakeSpuriously \/ \E c \in Calls : Call(c)
  BY <1>3, TakeFrontInv, WaitingInv DEF PopStep
<1> QED BY <1>1, <1>2, <1>3 DEF Next

LEMMA QueueInvariant == Spec => []QueueInv
BY QueueInit, QueueStep, PTL DEF Spec

\* The types of the queue, for any number of producers and events.
THEOREM QueueTypeCorrect == Spec => []TypeOK
BY QueueInvariant, PTL DEF QueueInv

\* No wake-up is lost, although push notifies without the mutex.
THEOREM WakeupsAreNeverLost == Spec => []NoLostWakeup
BY QueueInvariant, PTL DEF QueueInv

\* Nothing is lost, duplicated or reordered.
THEOREM QueueKeepsOrder == Spec => []InOrder
BY QueueInvariant, PTL DEF QueueInv
-----------------------------------------------------------------------------
LEMMA ChannelStep == QueueInv /\ [Next]_vars => [Channel!Next]_(Channel!channelVars)
<1> SUFFICES ASSUME QueueInv, [Next]_vars PROVE [Channel!Next]_(Channel!channelVars)
  OBVIOUS
<1> USE DEF Channel!Next, Channel!channelVars
<1>1. CASE UNCHANGED vars
  BY <1>1 DEF vars, consuming
<1>2. ASSUME NEW p \in Producers, PushStore(p) PROVE \E e \in Events : Channel!Send(e)
  <2>1. <<p, pushed[p] + 1>> \in Events
    BY <1>2, EventsTyped DEF QueueInv, PushStore
  <2> QED BY <1>2, <2>1 DEF PushStore, consuming, Channel!Send
<1>3. ASSUME NEW p \in Producers, PushLock(p) \/ PushNotify(p) PROVE UNCHANGED <<events, result>>
  BY <1>3 DEF PushLock, PushNotify, consuming
<1>4. CASE TakeFront
  BY <1>4 DEF TakeFront, Channel!Receive
<1>5. CASE ReturnNothing
  BY <1>5 DEF ReturnNothing, Channel!FindEmpty
<1>6. CASE \/ PopLock \/ Sleep \/ TimeOut \/ DeadlinePasses \/ WakeSpuriously
           \/ \E c \in Calls : Call(c)
  BY <1>6 DEF PopLock, Sleep, TimeOut, DeadlinePasses, WakeSpuriously, Call
<1> QED BY <1>1, <1>2, <1>3, <1>4, <1>5, <1>6 DEF Next, PushStep, PopStep

\* The queue implements a first-in first-out channel.
THEOREM QueueIsAChannel == Spec => ImplementsChannel
<1>1. Init => Channel!Init
  BY DEF Init, Channel!Init
<1> QED BY <1>1, QueueInvariant, ChannelStep, PTL DEF Spec, ImplementsChannel, Channel!Spec
=============================================================================
