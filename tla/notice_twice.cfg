\* Two publications of one notice at the same time, no fault.
SPECIFICATION Spec
CONSTANTS
  Notices = {n1}
  NoNotice = NoNotice
  Requests = {r1, r2}
  Messages = {m1, m2}
  SendTimes = {2}
  Lives = {}
  MaxTime = 3
  MaxRetry = 1
  RetryDelay <- MCRetryDelay
  DefaultDelay = 1
  Mixes = {{"create", "publish"}}
  MaxFaults = 0
CHECK_DEADLOCK FALSE
PROPERTY NeverPushedTwice
