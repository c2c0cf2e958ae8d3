\* A revoked notice comes back: one request at a time, no fault.
SPECIFICATION Spec
CONSTANTS
  Notices = {n1}
  NoNotice = NoNotice
  Requests = {r1}
  Messages = {m1}
  SendTimes = {2}
  Lives = {}
  MaxTime = 3
  MaxRetry = 1
  RetryDelay <- MCRetryDelay
  DefaultDelay = 1
  Mixes = {{"create", "publish", "revoke"}}
  MaxFaults = 0
CHECK_DEADLOCK FALSE
PROPERTY RevokedStaysRevoked
