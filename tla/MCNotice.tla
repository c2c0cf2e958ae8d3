------------------------------ MODULE MCNotice ------------------------------
(* Instances of Notice for TLC. *)
EXTENDS Notice, TLC

\* Every retry is delayed by one tick.
MCRetryDelay == [k \in 0 .. MaxRetry - 1 |-> 1]

AllOps == {"create", "update", "remove", "removeBatch", "publish", "revoke", "retry"}

\* One request at a time: failed sends arrive, while pushes fail or notices are
\* revoked; pushes fail; messages are redelivered and requests die.
SerialMixes == {
  {"create", "publish", "retry", "mq", "arrive", "push"},
  {"create", "publish", "revoke", "retry", "mq", "arrive"},
  {"create", "remove", "publish", "revoke", "retry", "mq", "push"},
  AllOps \cup {"mq", "redeliver", "abort"}}

\* Concurrent requests, every kind of fault.
ConcurrentMixes == {
  {"create", "publish", "revoke", "retry", "mq", "arrive", "push", "redeliver", "abort"}}

\* Message slots are interchangeable, and so are requests.
Symmetry == Permutations(Messages) \cup Permutations(Requests)
=============================================================================
