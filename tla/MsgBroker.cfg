CONSTANTS
  Topics = {t1, t2}
  Subscribers = {s1, s2}
  Elements = {1, 2, 3, 4}
  Capacity = 2
  Nothing = Nothing
  InboxCapacity = 2
  MaxSubscribersPerTopic = 2
  MaxPublished = 4
SPECIFICATION Spec
INVARIANT InOrder
INVARIANT CopiesAccounted
PROPERTY ImplementsFifo
PROPERTY BrokerNeverStalls
