\* Two concurrent requests, every kind of fault.
SPECIFICATION Spec
CONSTANTS
  Notices = {n1}
  NoNotice = NoNotice
  Requests = {r1, r2}
  Messages = {m1, m2}
  SendTimes = {2}
  Lives = {}
  MaxTime = 2
  MaxRetry = 1
  RetryDelay <- MCRetryDelay
  DefaultDelay = 1
  Mixes <- ConcurrentMixes
  MaxFaults = 1
CHECK_DEADLOCK FALSE
SYMMETRY Symmetry
INVARIANTS PendingHasCarrier DoneWasPushed
PROPERTY ImplementsDelivery
