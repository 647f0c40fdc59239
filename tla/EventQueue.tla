----------------------------- MODULE EventQueue -----------------------------
\* event_queue<T> of the language server: a deque under a mutex, with a
\* condition variable. A thread's step is what it does between two points at
\* which another thread can interfere: taking the mutex, one critical section,
\* the notification that follows the critical section of push.
EXTENDS Naturals, Sequences

CONSTANTS Producers, \* the reader thread and the analysis worker
          Consumer,  \* the main loop
          MaxEvents, \* bound: events pushed by one producer
          Nothing    \* stdx::none

ASSUME QueueAssumption ==
    /\ Consumer \notin Producers
    /\ MaxEvents \in Nat
    /\ Nothing \notin Producers \X Nat
    /\ Nothing \notin Producers \cup {Consumer}

VARIABLES events,   \* events_
          mutex,    \* who holds mutex_
          pushPc,   \* where each producer is in push
          pushed,   \* events each producer has pushed
          popPc,    \* where the consumer is in pop, pop_until or try_pop
          call,     \* which of the three it is in
          expired,  \* the deadline of its pop_until has passed
          result,   \* what its last call returned
          sent,     \* everything pushed, in order
          received  \* everything the consumer was given, in order

producing == <<pushPc, pushed, sent>>
consuming == <<popPc, call, expired, result, received>>
vars == <<events, mutex, producing, consuming>>

Calls == {"pop", "pop_until", "try_pop"}
Events == Producers \X (1 .. MaxEvents)

Init == /\ events = <<>>
        /\ mutex = Nothing
        /\ pushPc = [p \in Producers |-> "idle"]
        /\ pushed = [p \in Producers |-> 0]
        /\ popPc = "idle"
        /\ call = "try_pop"
        /\ expired = FALSE
        /\ result = Nothing
        /\ sent = <<>>
        /\ received = <<>>
-----------------------------------------------------------------------------
\* push

PushLock(p) == /\ pushPc[p] = "idle"
               /\ pushed[p] < MaxEvents
               /\ mutex = Nothing
               /\ mutex' = p
               /\ pushPc' = [pushPc EXCEPT ![p] = "locked"]
               /\ UNCHANGED <<events, pushed, sent, consuming>>

\* (mutant) The event is moved from before it is stored.
PushStoreMovedFrom(p) ==
    /\ pushPc[p] = "locked"
    /\ events' = Append(events, Nothing)
    /\ sent' = Append(sent, <<p, pushed[p] + 1>>)
    /\ mutex' = Nothing
    /\ pushPc' = [pushPc EXCEPT ![p] = "stored"]
    /\ UNCHANGED <<pushed, consuming>>

PushStore(p) == LET event == <<p, pushed[p] + 1>> IN
                /\ pushPc[p] = "locked"
                /\ events' = Append(events, event)
                /\ sent' = Append(sent, event)
                /\ mutex' = Nothing
                /\ pushPc' = [pushPc EXCEPT ![p] = "stored"]
                /\ UNCHANGED <<pushed, consuming>>

\* (mutant) push notifies only if it finds its event alone in the queue.
PushNotifyFirstOnly(p) ==
    /\ pushPc[p] = "stored"
    /\ pushPc' = [pushPc EXCEPT ![p] = "idle"]
    /\ pushed' = [pushed EXCEPT ![p] = @ + 1]
    /\ popPc' = IF popPc = "asleep" /\ Len(events) = 1 THEN "woken" ELSE popPc
    /\ UNCHANGED <<events, mutex, sent, call, expired, result, received>>

\* notify_one: it wakes the consumer if it waits, and is forgotten otherwise.
PushNotify(p) == /\ pushPc[p] = "stored"
                 /\ pushPc' = [pushPc EXCEPT ![p] = "idle"]
                 /\ pushed' = [pushed EXCEPT ![p] = @ + 1]
                 /\ popPc' = IF popPc = "asleep" THEN "woken" ELSE popPc
                 /\ UNCHANGED <<events, mutex, sent, call, expired, result, received>>
-----------------------------------------------------------------------------
\* pop, pop_until, try_pop

Call(c) == /\ popPc = "idle"
           /\ popPc' = "called"
           /\ call' = c
           /\ expired' = FALSE
           /\ UNCHANGED <<events, mutex, producing, result, received>>

\* The lock of the call, and the one a wait takes again when it ends.
PopLock == /\ popPc \in {"called", "woken"}
           /\ mutex = Nothing
           /\ mutex' = Consumer
           /\ popPc' = "locked"
           /\ UNCHANGED <<events, producing, call, expired, result, received>>

\* (mutant) The newest event is taken.
TakeBack == LET n == Len(events) IN
    /\ popPc = "locked"
    /\ events # <<>>
    /\ events' = SubSeq(events, 1, n - 1)
    /\ result' = events[n]
    /\ received' = Append(received, events[n])
    /\ mutex' = Nothing
    /\ popPc' = "idle"
    /\ UNCHANGED <<producing, call, expired>>

TakeFront == /\ popPc = "locked"
             /\ events # <<>>
             /\ events' = Tail(events)
             /\ result' = Head(events)
             /\ received' = Append(received, Head(events))
             /\ mutex' = Nothing
             /\ popPc' = "idle"
             /\ UNCHANGED <<producing, call, expired>>

\* (mutant) The deadline is not looked at again after a wake-up.
MayWaitAlways == call # "try_pop"

MayWait == \/ call = "pop"
           \/ call = "pop_until" /\ ~expired

\* The mutex is given up and the wait begins in one step.
Sleep == /\ popPc = "locked"
         /\ events = <<>>
         /\ MayWait
         /\ mutex' = Nothing
         /\ popPc' = "asleep"
         /\ UNCHANGED <<events, producing, call, expired, result, received>>

ReturnNothing == /\ popPc = "locked"
                 /\ events = <<>>
                 /\ ~MayWait
                 /\ result' = Nothing
                 /\ mutex' = Nothing
                 /\ popPc' = "idle"
                 /\ UNCHANGED <<events, producing, call, expired, received>>

DeadlinePasses == /\ popPc # "idle"
                  /\ call = "pop_until"
                  /\ ~expired
                  /\ expired' = TRUE
                  /\ UNCHANGED <<events, mutex, producing, popPc, call, result, received>>

\* (mutant) A wait that timed out does not look at the queue again.
TimeOutWithoutLooking ==
    /\ popPc = "asleep"
    /\ expired
    /\ result' = Nothing
    /\ popPc' = "idle"
    /\ UNCHANGED <<events, mutex, producing, call, expired, received>>

TimeOut == /\ popPc = "asleep"
           /\ expired
           /\ popPc' = "woken"
           /\ UNCHANGED <<events, mutex, producing, call, expired, result, received>>

\* A wait may end although nobody notified.
WakeSpuriously == /\ popPc = "asleep"
                  /\ popPc' = "woken"
                  /\ UNCHANGED <<events, mutex, producing, call, expired, result, received>>
-----------------------------------------------------------------------------
PushStep(p) == PushStore(p) \/ PushNotify(p)
PopStep == PopLock \/ TakeFront \/ Sleep \/ ReturnNothing \/ TimeOut

Next == \/ \E p \in Producers : PushLock(p) \/ PushStep(p)
        \/ \E c \in Calls : Call(c)
        \/ PopStep
        \/ DeadlinePasses
        \/ WakeSpuriously

Spec == Init /\ [][Next]_vars

\* Nobody has to push, but a push that has begun goes on; threads are
\* scheduled and clocks advance.
FairSpec == /\ Spec
            /\ \A p \in Producers : WF_vars(PushStep(p))
            /\ WF_vars(PopStep)
            /\ WF_vars(DeadlinePasses)
-----------------------------------------------------------------------------
\* The types.
TypeOK == /\ events \in Seq(Events)
          /\ mutex \in Producers \cup {Consumer, Nothing}
          /\ pushPc \in [Producers -> {"idle", "locked", "stored"}]
          /\ pushed \in [Producers -> 0 .. MaxEvents]
          /\ popPc \in {"idle", "called", "locked", "asleep", "woken"}
          /\ call \in Calls
          /\ expired \in BOOLEAN
          /\ result \in Events \cup {Nothing}
          /\ sent \in Seq(Events)
          /\ received \in Seq(Events)

\* No wake-up is lost although push notifies after it has released the mutex: if
\* the consumer sleeps while something is queued, a producer is yet to notify.
NoLostWakeup ==
    popPc = "asleep" /\ events # <<>> => \E p \in Producers : pushPc[p] = "stored"

\* Nothing is lost, duplicated or reordered on the way through the queue.
InOrder == sent = received \o events

\* The queue is a first-in first-out channel, and pop_until and try_pop return
\* nothing only if at that moment nothing was queued.
Channel == INSTANCE FifoChannel WITH content <- events
ImplementsChannel == Channel!Spec

\* A consumer that waits gets out once something is queued, and from pop_until
\* whether or not anything is ever pushed.
WaitsEnd ==
    popPc # "idle" /\ (events # <<>> \/ call = "pop_until") ~> popPc = "idle"
=============================================================================
