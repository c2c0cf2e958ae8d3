\* One administrator request at a time; either pushes fail and failed
\* sends arrive, or messages are redelivered and requests die.
SPECIFICATION Spec
CONSTANTS
  Notices = {n1}
  NoNotice = NoNotice
  Requests = {r1}
  Messages = {m1, m2}
  SendTimes = {2}
  Lives = {1}
  MaxTime = 3
  MaxRetry = 1
  RetryDelay <- MCRetryDelay
  DefaultDelay = 1
  Mixes <- SerialMixes
  MaxFaults = 2
CHECK_DEADLOCK FALSE
INVARIANTS TypeOK OneCarrierPerFault
PROPERTIES NotBeforeDue NoPushAfterDone Settles
