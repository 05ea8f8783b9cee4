SPECIFICATION FairSpec
CONSTANTS
  Callers = {c1, c2}
  QueueSize = 1
  SubscribersDrain = FALSE
  MaxEvents = 3
  MaxStarts = 3
INVARIANTS SomeoneServes IdleIsDone
PROPERTIES AcceptedIsServed StopReturns
CHECK_DEADLOCK FALSE
