---------------------------- MODULE FifoChannel ----------------------------
\* What event_queue<T> promises its users: a first-in first-out channel from
\* many producers to one consumer, whose operations are instantaneous.
EXTENDS Sequences

CONSTANTS Events, \* what can be pushed
          Nothing \* the empty result of pop_until and try_pop

VARIABLES content, \* what is queued
          result   \* what the consumer's last call returned

channelVars == <<content, result>>

Init == /\ content = <<>>
        /\ result = Nothing

Send(e) == /\ content' = Append(content, e)
           /\ UNCHANGED result

Receive == /\ content # <<>>
           /\ content' = Tail(content)
           /\ result' = Head(content)

FindEmpty == /\ content = <<>>
             /\ result' = Nothing
             /\ UNCHANGED content

Next == Receive \/ FindEmpty \/ \E e \in Events : Send(e)

Spec == Init /\ [][Next]_channelVars
=============================================================================
