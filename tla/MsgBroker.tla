------------------------------ MODULE MsgBroker ------------------------------
(***************************************************************************)
(* Services/msg_broker: publish/subscribe through queues.  A publisher     *)
(* hands a message to the broker's input queue; the owner of the broker    *)
(* moves messages, one at a time, to a copy in the inbox of every          *)
(* subscriber of the topic; a subscriber takes copies from its own inbox.  *)
(* The input queue is the ring of CircularBuffer, in place; the inboxes,   *)
(* which are the same code, are the bounded FIFO it implements.            *)
(*                                                                         *)
(* A message is the number of its acceptance; topic_of recalls its topic.  *)
(* received and lost are history: the code keeps only their counts.        *)
(***************************************************************************)
EXTENDS CircularBuffer, FiniteSets

CONSTANTS Topics, Subscribers,
          InboxCapacity,                  \* depth of an inbox; Capacity is the
                                          \* depth of the input queue
          MaxSubscribersPerTopic,         \* MSG_BROKER_MAX_SUBSCRIBERS_PER_TOPIC
          MaxPublished                    \* bound: messages offered and accepted

ASSUME BrokerAssumption ==
  /\ InboxCapacity \in Nat \ {0} /\ Elements = 1 .. MaxPublished
  /\ MaxSubscribersPerTopic \in Nat /\ MaxPublished \in Nat
  /\ IsFiniteSet(Subscribers)

VARIABLES
  is_started,
  topics,       \* topics[t]: the subscribers in the slots of topic t
  topic_of,     \* topic_of[n]: the topic of the n-th accepted message
  inbox,        \* inbox[s]: the output queue of subscriber s
  received,     \* received[s]: what s has taken from its inbox, oldest first
  lost,         \* lost[s]: messages whose copy for s found its inbox full
  delivered_msg_count, dropped_msg_count,  \* counters of the broker
  status        \* what the last call returned

vars == <<is_started, topics, topic_of, ringVars, inbox, received, lost,
          delivered_msg_count, dropped_msg_count, status>>

\* broker.input_queue
input_queue == Contents

Statuses == {"OK", "INPUT_FULL", "IDLE", "NO_SUBSCRIBER"}

published_msg_count == Len(topic_of)

Init ==
  /\ is_started = FALSE
  /\ topics = [t \in Topics |-> {}]
  /\ topic_of = <<>> /\ RingInit
  /\ inbox = [s \in Subscribers |-> <<>>]
  /\ received = [s \in Subscribers |-> <<>>]
  /\ lost = [s \in Subscribers |-> {}]
  /\ delivered_msg_count = 0 /\ dropped_msg_count = 0
  /\ status = "OK"

\* msg_broker_init and msg_subscriber_init, as prv_init_bus calls them again
\* for each run, whatever was left in the queues.
InitBus ==
  /\ Clear
  /\ is_started' = FALSE
  /\ topics' = [t \in Topics |-> {}]
  /\ topic_of' = <<>>
  /\ inbox' = [s \in Subscribers |-> <<>>]
  /\ received' = [s \in Subscribers |-> <<>>]
  /\ lost' = [s \in Subscribers |-> {}]
  /\ delivered_msg_count' = 0 /\ dropped_msg_count' = 0
  /\ status' = "OK"

-----------------------------------------------------------------------------
\* msg_broker_subscribe asserts that s is not subscribed to t yet and that a
\* slot is free.  Subscriptions precede the start, as game.c's prv_init_bus
\* does it and msg_broker_start documents.
Subscribe(s, t) ==
  /\ ~is_started
  /\ s \notin topics[t]
  /\ Cardinality(topics[t]) < MaxSubscribersPerTopic
  /\ topics' = [topics EXCEPT ![t] = @ \cup {s}]
  /\ UNCHANGED <<is_started, topic_of, ringVars, inbox, received, lost,
                 delivered_msg_count, dropped_msg_count, status>>

Start ==
  /\ ~is_started
  /\ is_started' = TRUE
  /\ UNCHANGED <<topics, topic_of, ringVars, inbox, received, lost,
                 delivered_msg_count, dropped_msg_count, status>>

-----------------------------------------------------------------------------
PublishRefused ==
  /\ is_started
  /\ PushFull
  /\ status' = "INPUT_FULL"
  /\ UNCHANGED <<is_started, topics, topic_of, inbox, received, lost,
                 delivered_msg_count, dropped_msg_count>>

PublishAccepted(t) ==
  /\ is_started
  /\ published_msg_count < MaxPublished
  /\ PushStored(published_msg_count + 1)
  /\ topic_of' = Append(topic_of, t)
  /\ status' = "OK"
  /\ UNCHANGED <<is_started, topics, inbox, received, lost,
                 delivered_msg_count, dropped_msg_count>>

Publish(t) == PublishRefused \/ PublishAccepted(t)

-----------------------------------------------------------------------------
(* msg_broker_process: one message out of the input queue, a copy of it    *)
(* into the inbox of each subscriber of its topic that has room for it     *)
(* (prv_copy_msg_to_subscribers).                                          *)

HasRoom(s) == Len(inbox[s]) < InboxCapacity

\* A copy loop that gives up at a full inbox.
TakersUnlessFull(n) ==
  IF \A s \in topics[topic_of[n]] : HasRoom(s) THEN topics[topic_of[n]] ELSE {}
Takers(n)  == {s \in topics[topic_of[n]] : HasRoom(s)}
Missers(n) == {s \in topics[topic_of[n]] : ~HasRoom(s)}
DroppedCopies(n) == Cardinality(Missers(n))

CopyMsgToSubscribers(n) ==
  /\ inbox' = [s \in Subscribers |->
                 IF s \in Takers(n) THEN Append(inbox[s], n) ELSE inbox[s]]
  /\ lost' = [s \in Subscribers |->
                 IF s \in Missers(n) THEN lost[s] \cup {n} ELSE lost[s]]
  /\ delivered_msg_count' = delivered_msg_count + Cardinality(Takers(n))
  /\ dropped_msg_count' = dropped_msg_count + DroppedCopies(n)

\* The mutant waits for the slowest subscriber.
NextMsg == storage[read_index]
CanMoveToAll == is_started /\ Missers(NextMsg) = {}
CanMove      == is_started

ProcessMoves ==
  /\ PopTaken
  /\ CanMove
  /\ CopyMsgToSubscribers(NextMsg)
  /\ status' = IF Takers(NextMsg) = {} THEN "NO_SUBSCRIBER" ELSE "OK"
  /\ UNCHANGED <<is_started, topics, topic_of, received>>

ProcessIdle ==
  /\ is_started
  /\ PopEmpty
  /\ status' = "IDLE"
  /\ UNCHANGED <<is_started, topics, topic_of, inbox, received, lost,
                 delivered_msg_count, dropped_msg_count>>

\* msg_broker_process; msg_broker_process_all repeats it until it is idle.
Process == ProcessMoves \/ ProcessIdle

-----------------------------------------------------------------------------
\* msg_subscriber_receive, and active_object_process_one around it.
Receive(s) ==
  IF inbox[s] = <<>>
  THEN /\ status' = "IDLE"
       /\ UNCHANGED <<is_started, topics, topic_of, ringVars, inbox,
                      received, lost, delivered_msg_count, dropped_msg_count>>
  ELSE /\ inbox' = [inbox EXCEPT ![s] = Tail(@)]
       /\ received' = [received EXCEPT ![s] = Append(@, Head(inbox[s]))]
       /\ status' = "OK"
       /\ UNCHANGED <<is_started, topics, topic_of, ringVars, lost,
                      delivered_msg_count, dropped_msg_count>>

Next ==
  \/ InitBus
  \/ Start
  \/ Process
  \/ \E t \in Topics : Publish(t)
  \/ \E s \in Subscribers, t \in Topics : Subscribe(s, t)
  \/ \E s \in Subscribers : Receive(s)

\* The owner of the broker moves messages in every tick.  Nothing is assumed
\* of the subscribers: a module may stop draining its inbox for good.
Fairness == WF_vars(ProcessMoves)

Spec == Init /\ [][Next]_vars /\ Fairness

-----------------------------------------------------------------------------
Messages == 1 .. published_msg_count

Elems(q) == {q[i] : i \in 1 .. Len(q)}

TypeOK ==
  /\ is_started \in BOOLEAN
  /\ topics \in [Topics -> SUBSET Subscribers]
  /\ topic_of \in Seq(Topics)
  /\ RingInv /\ input_queue \in Seq(Messages)
  /\ inbox \in [Subscribers -> Seq(Messages)]
  /\ \A s \in Subscribers : Len(inbox[s]) <= InboxCapacity
  /\ received \in [Subscribers -> Seq(Messages)]
  /\ lost \in [Subscribers -> SUBSET Messages]
  /\ delivered_msg_count \in Nat /\ dropped_msg_count \in Nat
  /\ status \in Statuses

Increasing(q) == \A i, j \in 1 .. Len(q) : i < j => q[i] < q[j]
AllBelow(q, r) == \A i \in 1 .. Len(q), j \in 1 .. Len(r) : q[i] < r[j]

\* What a subscriber sees is in publishing order, with nothing twice: what it
\* took, then what its inbox holds, then what the input queue still holds.
InOrder ==
  /\ Increasing(input_queue)
  /\ \A s \in Subscribers :
       /\ Increasing(received[s]) /\ Increasing(inbox[s])
       /\ AllBelow(received[s], inbox[s])
       /\ AllBelow(received[s], input_queue) /\ AllBelow(inbox[s], input_queue)

\* No copy vanishes: each accepted message is, for each subscriber of its
\* topic, still in the input queue, or in that subscriber's inbox, or taken by
\* it, or counted as lost by it; and it is never both lost and delivered.
\* A subscriber of another topic never sees it.
EachCopyAccounted ==
  \A s \in Subscribers, n \in Messages :
    LET seen == Elems(inbox[s]) \cup Elems(received[s])
    IN  IF s \in topics[topic_of[n]]
        THEN /\ n \in Elems(input_queue) \cup seen \cup lost[s]
             /\ ~(n \in seen /\ n \in lost[s])
        ELSE n \notin seen \cup lost[s]

\* The broker's two counters are the copies that reached an inbox and the
\* copies that found one full, over all subscribers.
CountersAgree ==
  LET copies == Subscribers \X Messages
  IN  /\ delivered_msg_count = Cardinality({c \in copies :
            c[2] \in Elems(inbox[c[1]]) \cup Elems(received[c[1]])})
      /\ dropped_msg_count = Cardinality({c \in copies : c[2] \in lost[c[1]]})

\* Copy by copy and in number, what was accepted is accounted for.
CopiesAccounted == EachCopyAccounted /\ CountersAgree

\* One subscriber that never drains cannot stall the broker: every accepted
\* message leaves the input queue, although no subscriber is assumed to take
\* anything from its inbox (msg_broker.c:28-32, NFR-105).
BrokerNeverStalls ==
  \A n \in 1 .. MaxPublished :
    n \in Elems(input_queue) ~> n \notin Elems(input_queue)
=============================================================================
