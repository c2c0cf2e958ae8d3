---------------------------- MODULE NoticeProofs ----------------------------
(* Proofs about Notice, for every value of its constants. *)
EXTENDS Notice, FiniteSetTheorems, TLAPS

-----------------------------------------------------------------------------
(* Type correctness. *)

LEMMA CapType == ASSUME NEW t \in Nat PROVE Cap(t) \in 0 .. MaxTime
  BY NoticeAssumption DEF Cap

\* A message sent with a valid retry count is a slot of the broker.
LEMMA MessageType ==
  ASSUME NEW n \in Notices, NEW k \in 0 .. MaxRetry, NEW t \in Nat
  PROVE  Message(n, k, t) \in Slot
  BY CapType DEF Message, Slot

\* prisma.notice.update writes a well-formed row.
LEMMA UpdateType ==
  ASSUME TypeOK, NEW n \in Notices, NEW new \in Row, Update(n, new)
  PROVE  row' \in [Notices -> Row]
  BY DEF TypeOK, Update

LEMMA StatusType ==
  ASSUME NEW old \in Row, NEW s \in {Pending, Done, Failed, Expired}
  PROVE  [old EXCEPT !.sendStatus = s] \in Row
  BY DEF Row

LEMMA GotoType ==
  ASSUME TypeOK, NEW r \in Requests, NEW q \in Request, api' = [api EXCEPT ![r] = q]
  PROVE  api' \in [Requests -> Request]
  BY DEF TypeOK

\* A message that a send put into the free slot f.
Landed(f, new) == /\ mq[f].pc = "free"
                  /\ mq'[f] = new
                  /\ \A m \in Messages \ {f} : mq'[m] = mq[m]

\* A send that fails changes nothing, or its message arrived and that is counted
\* as a fault.
LEMMA SendFailsEffect ==
  ASSUME TypeOK, NEW n \in Notices, NEW k \in 0 .. MaxRetry, NEW t \in Nat,
         SendFails(n, k, t)
  PROVE  /\ mq' \in [Messages -> Slot] /\ faults' \in 0 .. MaxFaults
         /\ \/ UNCHANGED <<mq, faults>>
            \/ /\ "arrive" \in mix /\ faults' = faults + 1
               /\ \E f \in Messages : Landed(f, Message(n, k, t))
  <1>1. CASE UNCHANGED <<mq, faults>>
    BY <1>1 DEF TypeOK
  <1>2. CASE Unanswered /\ Send(n, k, t)
    <2>1. PICK f \in Messages : mq[f].pc = "free" /\ mq' = [mq EXCEPT ![f] = Message(n, k, t)]
      BY <1>2 DEF Send
    <2>2. Message(n, k, t) \in Slot
      BY MessageType
    <2>3. mq' \in [Messages -> Slot] /\ Landed(f, Message(n, k, t))
      BY <2>1, <2>2 DEF TypeOK, Landed
    <2>. QED
      BY <1>2, <2>3, NoticeAssumption DEF Unanswered, TypeOK
  <1>. QED
    BY <1>1, <1>2 DEF SendFails

\* The same, whatever the delay is.
LEMMA SendFailsCases ==
  ASSUME TypeOK, NEW r \in Requests, NEW n \in Notices, SendFails(n, 0, SendAt(r))
  PROVE  /\ mq' \in [Messages -> Slot] /\ faults' \in 0 .. MaxFaults
         /\ \/ UNCHANGED <<mq, faults>>
            \/ /\ "arrive" \in mix /\ faults' = faults + 1
               /\ \E f \in Messages : Landed(f, Message(n, 0, SendAt(r)))
         /\ \A m \in Messages :
              \/ mq'[m] = mq[m]
              \/ mq[m].pc = "free" /\ mq'[m].pc = "queued" /\ mq'[m].notice = n
  <1>1. SendAt(r) \in Nat
    BY DEF SendAt, Later, Request, TypeOK
  <1>2. /\ mq' \in [Messages -> Slot] /\ faults' \in 0 .. MaxFaults
        /\ \/ UNCHANGED <<mq, faults>>
           \/ /\ "arrive" \in mix /\ faults' = faults + 1
              /\ \E f \in Messages : Landed(f, Message(n, 0, SendAt(r)))
    BY <1>1, SendFailsEffect, NoticeAssumption
  <1>3. ASSUME NEW m \in Messages, mq'[m] = Message(n, 0, SendAt(r))
        PROVE  mq'[m].pc = "queued" /\ mq'[m].notice = n
    BY <1>3 DEF Message
  <1>. QED
    BY <1>2, <1>3 DEF Landed

\* The next attempt of a failed message that has attempts left.
Attempt(m) == Message(mq[m].notice, mq[m].retry + 1, now + Delay(mq[m].retry))

LEMMA NextAttemptEffect ==
  ASSUME TypeOK, NEW m \in Messages, mq[m].pc = "failed", mq[m].retry < MaxRetry,
         mq[m].notice \in Notices, NEW pc \in {"ack", "giveUp"}, NextAttempt(m, pc)
  PROVE  /\ mq' \in [Messages -> Slot]
         /\ \E f \in Messages \ {m} :
              /\ mq[f].pc = "free" /\ mq'[f] = Attempt(m)
              /\ mq'[m] = [mq[m] EXCEPT !.pc = pc]
              /\ \A x \in Messages \ {m, f} : mq'[x] = mq[x]
  <1>1. PICK f \in Messages :
          /\ mq[f].pc = "free"
          /\ mq' = [mq EXCEPT ![m] = [mq[m] EXCEPT !.pc = pc], ![f] = Attempt(m)]
    BY DEF NextAttempt, Attempt
  <1>2. mq[m].retry + 1 \in 0 .. MaxRetry
    BY NoticeAssumption DEF TypeOK, Slot
  <1>3. now + Delay(mq[m].retry) \in Nat
    BY NoticeAssumption DEF Delay, TypeOK, Slot
  <1>4. Attempt(m) \in Slot
    BY <1>2, <1>3, MessageType DEF Attempt
  <1>5. [mq[m] EXCEPT !.pc = pc] \in Slot
    BY DEF TypeOK, Slot
  <1>. QED
    BY <1>1, <1>4, <1>5 DEF TypeOK

LEMMA InitType == Init => TypeOK
  BY NoticeAssumption DEF Init, TypeOK, AbsentRow, IdleRequest, FreeSlot, Row, Request, Slot,
         Draft, Pending, Immediate

\* A request's read stores a well-formed request.
LEMMA ArriveType == ASSUME TypeOK, NEW r \in Requests, Arrive(r) PROVE TypeOK'
  <1> USE NoticeAssumption DEF TypeOK, Begin
  <1>1. ASSUME NEW n \in Notices, UpdateRead(r, n) PROVE TypeOK'
    BY <1>1 DEF UpdateRead, Request
  <1>2. ASSUME NEW n \in Notices, RemoveRead(r, n) PROVE TypeOK'
    BY <1>2 DEF RemoveRead, Request
  <1>3. ASSUME NEW n \in Notices, PublishRead(r, n) PROVE TypeOK'
    BY <1>3 DEF PublishRead, Request, Row
  <1>4. ASSUME NEW n \in Notices, RevokeRead(r, n) PROVE TypeOK'
    BY <1>4 DEF RevokeRead, Request, Row
  <1>5. ASSUME NEW n \in Notices, RetryRead(r, n) PROVE TypeOK'
    BY <1>5 DEF RetryRead, Request, Row
  <1>6. ASSUME NEW ids \in SUBSET Notices, RemoveBatchRead(r, ids) PROVE TypeOK'
    BY <1>6 DEF RemoveBatchRead, Request
  <1>. QED
    BY <1>1, <1>2, <1>3, <1>4, <1>5, <1>6 DEF Arrive

\* A request's next step keeps the table, the requests and the broker well-formed.
LEMMA ProceedType == ASSUME TypeOK, NEW r \in Requests, Proceed(r) PROVE TypeOK'
  <1>0. IdleRequest \in Request
    BY NoticeAssumption DEF IdleRequest, Request, Draft
  <1>1. CASE RemoveWrite(r)
    <2>1. row' \in [Notices -> Row]
      BY <1>1 DEF RemoveWrite, TypeOK, Row
    <2>2. api' \in [Requests -> Request]
      BY <1>0, <1>1 DEF RemoveWrite, TypeOK, Return
    <2>. QED
      BY <2>1, <2>2, <1>1 DEF RemoveWrite, TypeOK
  <1>2. ASSUME NEW n \in Notices, UpdateWrite(r, n) PROVE TypeOK'
    <2>1. row' \in [Notices -> Row]
      <3>1. row[n] \in Row /\ api[r] \in Request
        BY DEF TypeOK
      <3>2. ASSUME NEW a \in {Immediate, Timed}, NEW b \in 0 .. MaxTime, NEW c \in Nat
            PROVE  [row[n] EXCEPT !.sendMode = a, !.sendTime = b, !.expireDays = c] \in Row
        BY <3>1 DEF Row
      <3>3. /\ (IF api[r].mode = 0 THEN row[n].sendMode ELSE api[r].mode) \in {Immediate, Timed}
            /\ (IF api[r].time = 0 THEN row[n].sendTime ELSE api[r].time) \in 0 .. MaxTime
            /\ (IF api[r].life = 0 THEN row[n].expireDays ELSE api[r].life) \in Nat
        BY <3>1 DEF Row, Request
      <3>. QED
        BY <1>2, <3>2, <3>3, UpdateType DEF UpdateWrite
    <2>2. api' \in [Requests -> Request]
      BY <1>0, <1>2 DEF UpdateWrite, TypeOK, Return
    <2>. QED
      BY <2>1, <2>2, <1>2 DEF UpdateWrite, TypeOK
  <1>3. ASSUME NEW n \in Notices, PublishWrite(r, n) PROVE TypeOK'
    <2>1. row' \in [Notices -> Row]
      <3>1. row[n] \in Row /\ now \in 0 .. MaxTime
        BY DEF TypeOK
      <3>2. [row[n] EXCEPT !.publishStatus = Scheduled, !.sendStatus = Pending] \in Row
        BY <3>1 DEF Row
      <3>3. [row[n] EXCEPT !.publishStatus = Published, !.publishTime = now,
                           !.sendStatus = Pending] \in Row
        BY <3>1 DEF Row
      <3>. QED
        BY <1>3, <3>2, <3>3, UpdateType DEF PublishWrite
    <2>2. api' \in [Requests -> Request]
      BY <1>3 DEF PublishWrite, TypeOK, Goto, Request
    <2>. QED
      BY <2>1, <2>2, <1>3 DEF PublishWrite, TypeOK
  <1>4. ASSUME NEW n \in Notices, NEW t \in Nat, Send(n, 0, t), Return(r),
               UNCHANGED <<row, now, shown, lastEvent, abandoned, faults, mix>>
        PROVE  TypeOK'
    <2>1. PICK m \in Messages : mq' = [mq EXCEPT ![m] = Message(n, 0, t)]
      BY <1>4 DEF Send
    <2>2. Message(n, 0, t) \in Slot
      BY <1>4, MessageType, NoticeAssumption
    <2>3. mq' \in [Messages -> Slot]
      BY <2>1, <2>2 DEF TypeOK
    <2>. QED
      BY <1>0, <1>4, <2>3 DEF Return, TypeOK
  <1>5. SendAt(r) \in Nat
    BY DEF SendAt, Later, Request, TypeOK
  <1>6. ASSUME NEW n \in Notices, PublishSend(r, n) PROVE TypeOK'
    BY <1>4, <1>5, <1>6 DEF PublishSend
  <1>7. ASSUME NEW n \in Notices, PublishSendFails(r, n) PROVE TypeOK'
    <2>1. api' \in [Requests -> Request]
      BY <1>7 DEF PublishSendFails, TypeOK, Goto, Request, PushNotice
    <2>2. mq' \in [Messages -> Slot] /\ faults' \in 0 .. MaxFaults
      BY <1>7, SendFailsCases DEF PublishSendFails
    <2>3. /\ shown' \subseteq Notices
          /\ lastEvent' \in [Notices -> {"none", "notice", "notice-revoke"}]
      BY <1>7 DEF PublishSendFails, TypeOK, PushNotice
    <2>. QED
      BY <2>1, <2>2, <2>3, <1>7 DEF PublishSendFails, TypeOK
  <1>8. ASSUME NEW n \in Notices, PublishDone(r, n) PROVE TypeOK'
    <2>1. row' \in [Notices -> Row]
      BY <1>8 DEF PublishDone, SetSendStatus, Update, TypeOK, Row
    <2>2. api' \in [Requests -> Request]
      BY <1>0, <1>8 DEF PublishDone, TypeOK, Return
    <2>. QED
      BY <2>1, <2>2, <1>8 DEF PublishDone, TypeOK
  <1>9. ASSUME NEW n \in Notices, PublishFail(r, n) PROVE TypeOK'
    <2>1. row' \in [Notices -> Row]
      BY <1>9 DEF PublishFail, SetSendStatus, Update, TypeOK, Row
    <2>2. api' \in [Requests -> Request]
      BY <1>0, <1>9 DEF PublishFail, TypeOK, Return
    <2>. QED
      BY <2>1, <2>2, <1>9 DEF PublishFail, TypeOK
  <1>10. ASSUME NEW n \in Notices, RevokeWrite(r, n) PROVE TypeOK'
    <2>1. row' \in [Notices -> Row]
      <3>1. [row[n] EXCEPT !.publishStatus = Revoked, !.revokeTime = TRUE] \in Row
        BY DEF TypeOK, Row
      <3>. QED
        BY <1>10, <3>1, UpdateType DEF RevokeWrite
    <2>2. api' \in [Requests -> Request]
      BY <1>0, <1>10 DEF RevokeWrite, TypeOK, Return, Goto, Request
    <2>. QED
      BY <2>1, <2>2, <1>10 DEF RevokeWrite, TypeOK
  <1>11. ASSUME NEW n \in Notices, RevokePush(r, n) PROVE TypeOK'
    BY <1>0, <1>11 DEF RevokePush, PushRevoke, Return, TypeOK
  <1>12. ASSUME NEW n \in Notices, RetryWrite(r, n) PROVE TypeOK'
    <2>1. row' \in [Notices -> Row]
      BY <1>12 DEF RetryWrite, SetSendStatus, Update, TypeOK, Row
    <2>2. api' \in [Requests -> Request]
      BY <1>12 DEF RetryWrite, TypeOK, Goto, Request
    <2>. QED
      BY <2>1, <2>2, <1>12 DEF RetryWrite, TypeOK
  <1>13. ASSUME NEW n \in Notices, RetrySend(r, n) PROVE TypeOK'
    BY <1>4, <1>5, <1>13 DEF RetrySend
  <1>14. ASSUME NEW n \in Notices, RetrySendFails(r, n) PROVE TypeOK'
    <2>1. api' \in [Requests -> Request]
      <3>1. [api[r] EXCEPT !.pc = "retryFail"] \in Request
        BY DEF TypeOK, Request
      <3>. QED
        BY <1>14, <3>1, GotoType DEF RetrySendFails, Goto
    <2>2. mq' \in [Messages -> Slot] /\ faults' \in 0 .. MaxFaults
      BY <1>14, SendFailsCases DEF RetrySendFails
    <2>. QED
      BY <2>1, <2>2, <1>14 DEF RetrySendFails, TypeOK
  <1>15. ASSUME NEW n \in Notices, RetryFail(r, n) PROVE TypeOK'
    <2>1. row' \in [Notices -> Row]
      BY <1>15 DEF RetryFail, SetSendStatus, Update, TypeOK, Row
    <2>2. api' \in [Requests -> Request]
      BY <1>0, <1>15 DEF RetryFail, TypeOK, Return
    <2>. QED
      BY <2>1, <2>2, <1>15 DEF RetryFail, TypeOK
  <1>. QED
    BY <1>1, <1>2, <1>3, <1>6, <1>7, <1>8, <1>9, <1>10, <1>11, <1>12, <1>13,
       <1>14, <1>15 DEF Proceed

\* A message slot that is not free holds a message about some notice, and
\* handleFailure reaches its resend only below MAX_RETRY.
Addressed   == \A m \in Messages : mq[m].pc # "free" => mq[m].notice \in Notices
RetryBudget == \A m \in Messages : mq[m].pc = "failed" => mq[m].retry < MaxRetry

\* The consumer keeps them well-formed; in particular no message carries a
\* retryCount above MAX_RETRY.
LEMMA ConsumeType ==
  ASSUME TypeOK, Addressed, RetryBudget, NEW m \in Messages, Consume(m) PROVE TypeOK'
  <1>0. mq[m].pc # "free" => mq[m].notice \in Notices
    BY DEF Addressed
  <1>1. CASE Handle(m)
    <2>1. NextStep(mq[m].notice) \in {"expire", "promote", "push", "ack"}
      BY DEF NextStep
    <2>. QED
      <3>1. mq' \in [Messages -> Slot]
        <4>1. ASSUME NEW p \in {"expire", "promote", "push", "ack"}, NEW b \in BOOLEAN
              PROVE  [mq[m] EXCEPT !.pc = p, !.scheduled = b] \in Slot
          BY DEF TypeOK, Slot
        <4>. QED
          BY <1>1, <2>1, <4>1 DEF Handle, TypeOK
      <3>. QED
        BY <1>1, <3>1 DEF Handle, TypeOK
  <1>2. CASE Expire(m)
    <2>1. row' \in [Notices -> Row]
      <3>1. row[mq[m].notice] \in Row /\ now \in 0 .. MaxTime
        BY <1>0, <1>2 DEF TypeOK, Expire
      <3>2. [row[mq[m].notice] EXCEPT !.publishStatus = Published, !.publishTime = now,
                                      !.sendStatus = Expired] \in Row
        BY <3>1 DEF Row
      <3>. QED
        BY <1>0, <1>2, <3>1, <3>2, StatusType, UpdateType DEF Expire
    <2>2. mq' \in [Messages -> Slot]
      BY <1>2 DEF Expire, TypeOK, Slot
    <2>. QED
      BY <2>1, <2>2, <1>2 DEF Expire, TypeOK
  <1>3. CASE Promote(m)
    <2>1. row' \in [Notices -> Row]
      <3>1. row[mq[m].notice] \in Row /\ now \in 0 .. MaxTime
        BY <1>0, <1>3 DEF TypeOK, Promote
      <3>2. [row[mq[m].notice] EXCEPT !.publishStatus = Published,
                                      !.publishTime = now] \in Row
        BY <3>1 DEF Row
      <3>. QED
        BY <1>0, <1>3, <3>2, UpdateType DEF Promote
    <2>2. mq' \in [Messages -> Slot]
      BY <1>3 DEF Promote, TypeOK, Slot
    <2>. QED
      BY <2>1, <2>2, <1>3 DEF Promote, TypeOK
  <1>4. CASE Push(m)
    BY <1>4 DEF Push, PushNotice, Addressed, TypeOK, Slot
  <1>5. CASE Mark(m)
    <2>1. row' \in [Notices -> Row]
      <3>1. row[mq[m].notice].sendStatus \in {Pending, Done, Failed, Expired}
        BY <1>0, <1>5 DEF TypeOK, Row, Mark
      <3>. QED
        BY <1>0, <1>5, <3>1, StatusType, UpdateType DEF Mark, SetSendStatus, TypeOK
    <2>2. mq' \in [Messages -> Slot]
      BY <1>5 DEF Mark, TypeOK, Slot
    <2>. QED
      BY <2>1, <2>2, <1>5 DEF Mark, TypeOK
  <1>6. CASE Catch(m)
    <2>1. mq' \in [Messages -> Slot]
      BY <1>6 DEF Catch, TypeOK, Slot
    <2>. QED
      BY <2>1, <1>6 DEF Catch, TypeOK
  <1>7. CASE Resend(m)
    <2>1. mq' \in [Messages -> Slot]
      BY <1>0, <1>7, NextAttemptEffect DEF Resend, RetryBudget
    <2>. QED
      BY <1>7, <2>1 DEF Resend, TypeOK
  <1>8. CASE ResendFails(m)
    <2>1. CASE mq' = [mq EXCEPT ![m].pc = "giveUp"] /\ UNCHANGED faults
      BY <1>8, <2>1 DEF ResendFails, TypeOK, Slot
    <2>2. CASE Unanswered /\ NextAttempt(m, "giveUp")
      <3>1. mq' \in [Messages -> Slot]
        BY <1>0, <1>8, <2>2, NextAttemptEffect DEF ResendFails, RetryBudget
      <3>2. faults' \in 0 .. MaxFaults
        BY <2>2, NoticeAssumption DEF Unanswered, TypeOK
      <3>. QED
        BY <1>8, <3>1, <3>2 DEF ResendFails, TypeOK
    <2>. QED
      BY <1>8, <2>1, <2>2 DEF ResendFails
  <1>9. CASE GiveUp(m)
    <2>1. row' \in [Notices -> Row]
      BY <1>0, <1>9, StatusType, UpdateType DEF GiveUp, SetSendStatus, TypeOK
    <2>2. mq' \in [Messages -> Slot]
      BY <1>9 DEF GiveUp, TypeOK, Slot
    <2>. QED
      BY <2>1, <2>2, <1>9 DEF GiveUp, TypeOK
  <1>a. FreeSlot \in Slot
    BY NoticeAssumption DEF FreeSlot, Slot
  <1>10. CASE Settle(m)
    <2>1. [mq[m] EXCEPT !.pc = "dead", !.scheduled = FALSE] \in Slot
      BY DEF TypeOK, Slot
    <2>. QED
      BY <1>a, <1>10, <2>1 DEF Settle, TypeOK
  <1>11. CASE HandleDead(m)
    BY <1>a, <1>11 DEF HandleDead, TypeOK
  <1>. QED
    BY <1>1, <1>2, <1>3, <1>4, <1>5, <1>6, <1>7, <1>8, <1>9, <1>10, <1>11 DEF Consume

LEMMA CreateType == ASSUME TypeOK, NEW n \in Notices, Create(n) PROVE TypeOK'
  <1>1. PICK mode \in {Immediate, Timed}, t \in {0} \cup SendTimes, l \in {0} \cup Lives :
          Update(n, [AbsentRow EXCEPT !.state = "live", !.sendMode = mode,
                                       !.sendTime = t, !.expireDays = l])
    BY DEF Create
  <1>2. AbsentRow \in Row
    BY NoticeAssumption DEF AbsentRow, Row
  <1>3. [AbsentRow EXCEPT !.state = "live", !.sendMode = mode, !.sendTime = t,
                          !.expireDays = l] \in Row
    <2>1. t \in 0 .. MaxTime /\ l \in Nat
      BY NoticeAssumption
    <2>. QED
      BY <1>2, <2>1 DEF Row
  <1>. QED
    BY <1>1, <1>3, UpdateType DEF Create, TypeOK

\* What happens to a failed message: it ends, and the next attempt may exist.
LEMMA ResendEffect ==
  ASSUME TypeOK, Addressed, RetryBudget, NEW m \in Messages, Resend(m) \/ ResendFails(m)
  PROVE  /\ mq[m].pc = "failed" /\ mq[m].notice \in Notices
         /\ \E pc \in {"ack", "giveUp"} : mq'[m] = [mq[m] EXCEPT !.pc = pc]
         /\ \/ /\ \A x \in Messages \ {m} : mq'[x] = mq[x]
               /\ mq'[m] = [mq[m] EXCEPT !.pc = "giveUp"] /\ faults' = faults
            \/ /\ \/ mq'[m] = [mq[m] EXCEPT !.pc = "ack"] /\ faults' = faults
                  \/ "arrive" \in mix /\ faults' = faults + 1
               /\ \E f \in Messages \ {m} :
                    /\ mq[f].pc = "free" /\ mq'[f] = Attempt(m)
                    /\ \A x \in Messages \ {m, f} : mq'[x] = mq[x]
  <1>1. mq[m].pc = "failed" /\ mq[m].notice \in Notices /\ mq[m].retry < MaxRetry
    BY DEF Resend, ResendFails, Addressed, RetryBudget
  <1>2. CASE Resend(m)
    BY <1>1, <1>2, NextAttemptEffect DEF Resend
  <1>3. CASE mq' = [mq EXCEPT ![m].pc = "giveUp"] /\ UNCHANGED faults
    BY <1>1, <1>3 DEF TypeOK
  <1>4. CASE Unanswered /\ NextAttempt(m, "giveUp")
    BY <1>1, <1>4, NextAttemptEffect DEF Unanswered
  <1>. QED
    BY <1>2, <1>3, <1>4 DEF ResendFails

\* The same, slot by slot.
LEMMA ResendSlots ==
  ASSUME TypeOK, Addressed, RetryBudget, NEW m \in Messages, Resend(m) \/ ResendFails(m)
  PROVE  /\ mq[m].pc = "failed" /\ mq[m].notice \in Notices
         /\ mq'[m].pc \in {"ack", "giveUp"} /\ mq'[m].notice = mq[m].notice
         /\ \A x \in Messages \ {m} :
              \/ mq'[x] = mq[x]
              \/ /\ mq[x].pc = "free" /\ mq'[x].pc = "queued"
                 /\ mq'[x].notice = mq[m].notice
  <1>1. mq[m] \in Slot
    BY DEF TypeOK
  <1>2. mq'[m].pc \in {"ack", "giveUp"} /\ mq'[m].notice = mq[m].notice
    BY <1>1, ResendEffect DEF Slot
  <1>3. Attempt(m).pc = "queued" /\ Attempt(m).notice = mq[m].notice
    BY DEF Attempt, Message
  <1>. QED
    BY <1>2, <1>3, ResendEffect

\* The slots stay addressed: only a send fills a free slot.
LEMMA AddressedStep ==
  ASSUME TypeOK, Addressed, RetryBudget, [Next]_vars
  PROVE  Addressed' /\ RetryBudget'
  <1> USE DEF Addressed, RetryBudget
  <1>1. ASSUME UNCHANGED mq PROVE Addressed' /\ RetryBudget'
    BY <1>1
  <1>2. ASSUME NEW n \in Notices, NEW t, Send(n, 0, t)
        PROVE  Addressed' /\ RetryBudget'
    BY <1>2 DEF Send, Message, TypeOK
  <1>3. ASSUME NEW r \in Requests, Proceed(r) PROVE Addressed' /\ RetryBudget'
    BY <1>1, <1>2, <1>3 DEF SendFails, Proceed, RemoveWrite, UpdateWrite, PublishWrite,
       PublishSend, PublishSendFails, PublishDone, PublishFail, RevokeWrite,
       RevokePush, RetryWrite, RetrySend, RetrySendFails, RetryFail
  <1>4. ASSUME NEW r \in Requests, Arrive(r) \/ Abort(r)
        PROVE  Addressed' /\ RetryBudget'
    BY <1>1, <1>4 DEF Arrive, UpdateRead, RemoveRead, PublishRead, RevokeRead,
       RetryRead, RemoveBatchRead, Begin, Abort
  <1>5. ASSUME NEW m \in Messages, Redeliver(m) PROVE Addressed' /\ RetryBudget'
    BY <1>5 DEF Redeliver, TypeOK, Slot
  <1>6. ASSUME NEW m \in Messages, Consume(m) PROVE Addressed' /\ RetryBudget'
    <2>1. CASE Handle(m)
      BY <2>1 DEF Handle, NextStep, TypeOK, Slot
    <2>2. CASE Expire(m)
      BY <2>2 DEF Expire, TypeOK, Slot
    <2>3. CASE Promote(m)
      BY <2>3 DEF Promote, TypeOK, Slot
    <2>4. CASE Push(m)
      BY <2>4 DEF Push, TypeOK, Slot
    <2>5. CASE Mark(m)
      BY <2>5 DEF Mark, TypeOK, Slot
    <2>6. CASE Catch(m)
      BY <2>6 DEF Catch, TypeOK, Slot
    <2>7. CASE Resend(m) \/ ResendFails(m)
      <3>1. /\ mq'[m].pc \in {"ack", "giveUp"} /\ mq'[m].notice \in Notices
            /\ \A x \in Messages \ {m} :
                 \/ mq'[x] = mq[x]
                 \/ mq'[x].pc = "queued" /\ mq'[x].notice = mq[m].notice
        BY <2>7, ResendSlots
      <3>2. mq[m].notice \in Notices
        BY <2>7, ResendSlots
      <3>. QED
        BY <3>1, <3>2
    <2>9. CASE GiveUp(m)
      BY <2>9 DEF GiveUp, TypeOK, Slot
    <2>10. CASE Settle(m)
      BY <2>10 DEF Settle, FreeSlot, TypeOK, Slot
    <2>11. CASE HandleDead(m)
      BY <2>11 DEF HandleDead, FreeSlot, TypeOK, Slot
    <2>. QED
      BY <1>6, <2>1, <2>2, <2>3, <2>4, <2>5, <2>6, <2>7, <2>9, <2>10, <2>11
      DEF Consume
  <1>. QED
    BY <1>1, <1>3, <1>4, <1>5, <1>6 DEF Next, Create, Tick, vars

LEMMA TypeStep ==
  ASSUME TypeOK, Addressed, RetryBudget, [Next]_vars PROVE TypeOK'
  <1>1. ASSUME NEW r \in Requests, Abort(r) PROVE TypeOK'
    <2>1. IdleRequest \in Request
      BY NoticeAssumption DEF IdleRequest, Request, Draft
    <2>2. api[r].ids \subseteq Notices
      BY DEF TypeOK, Request
    <2>. QED
      BY <1>1, <2>1, <2>2, NoticeAssumption DEF Abort, Return, TypeOK
  <1>2. ASSUME NEW m \in Messages, Redeliver(m) PROVE TypeOK'
    <2>1. [mq[m] EXCEPT !.pc = "queued", !.scheduled = FALSE] \in Slot
      BY DEF TypeOK, Slot
    <2>. QED
      BY <1>2, <2>1, NoticeAssumption DEF Redeliver, TypeOK
  <1>3. CASE Tick
    BY <1>3, NoticeAssumption DEF Tick, TypeOK
  <1>4. CASE UNCHANGED vars
    BY <1>4 DEF vars, TypeOK
  <1>. QED
    BY <1>1, <1>2, <1>3, <1>4, ArriveType, ProceedType, ConsumeType, CreateType DEF Next

\* Every reachable state is well-formed, and no message is ever sent with a
\* retryCount above MAX_RETRY, with any number of requests, messages and faults.
THEOREM TypeCorrect == Spec => [](TypeOK /\ Addressed /\ RetryBudget)
  <1>1. Init => Addressed /\ RetryBudget
    BY DEF Init, Addressed, RetryBudget, FreeSlot
  <1>2. TypeOK /\ Addressed /\ RetryBudget /\ [Next]_vars
          => (TypeOK /\ Addressed /\ RetryBudget)'
    BY TypeStep, AddressedStep
  <1>. QED
    BY <1>1, <1>2, InitType, PTL DEF Spec

-----------------------------------------------------------------------------
(* Marked as sent implies shown. *)

\* The steps after which sendStatus becomes 2: the consumer's conditional
\* update, after its push, and publish's last write, after its direct push.
ShownInv ==
  /\ DoneWasPushed
  /\ \A m \in Messages : mq[m].pc = "mark" => mq[m].notice \in shown
  /\ \A r \in Requests : api[r].pc = "publishDone" => api[r].ids \subseteq shown

LEMMA Statuses ==
  /\ Draft # Published /\ Draft # Scheduled /\ Draft # Revoked
  /\ Published # Revoked /\ Scheduled # Revoked /\ Published # Scheduled
  /\ Pending # Done /\ Pending # Failed /\ Pending # Expired
  /\ Done # Failed /\ Done # Expired /\ Failed # Expired
  BY DEF Draft, Published, Scheduled, Revoked, Pending, Done, Failed, Expired

LEMMA ShownInit == Init => ShownInv
  BY Statuses DEF Init, ShownInv, DoneWasPushed, AbsentRow, IdleRequest, FreeSlot

LEMMA ShownStep ==
  ASSUME TypeOK, Addressed, RetryBudget, ShownInv, [Next]_vars PROVE ShownInv'
  <1> USE Statuses DEF ShownInv, DoneWasPushed
  <1>1. ASSUME NEW n \in Notices, Create(n) PROVE ShownInv'
    BY <1>1 DEF Create, Update, AbsentRow, TypeOK, Row
  <1>2. ASSUME NEW r \in Requests, Arrive(r) PROVE ShownInv'
    BY <1>2 DEF Arrive, UpdateRead, RemoveRead, PublishRead, RevokeRead, RetryRead,
       RemoveBatchRead, Begin, TypeOK, Request
  <1>3. ASSUME NEW r \in Requests, Proceed(r) PROVE ShownInv'
    <2> USE DEF TypeOK
    <2>1. CASE RemoveWrite(r)
      BY <2>1 DEF RemoveWrite, Return, IdleRequest, Row, Request
    <2>2. ASSUME NEW n \in Notices, UpdateWrite(r, n) PROVE ShownInv'
      BY <2>2 DEF UpdateWrite, Update, Return, IdleRequest, Row, Request
    <2>3. ASSUME NEW n \in Notices, PublishWrite(r, n) PROVE ShownInv'
      BY <2>3 DEF PublishWrite, Update, Goto, Row, Request
    <2>4. ASSUME NEW n \in Notices, PublishSend(r, n) \/ RetrySend(r, n) PROVE ShownInv'
      <3>1. PICK m \in Messages : mq' = [mq EXCEPT ![m] = Message(n, 0, SendAt(r))]
        BY <2>4 DEF PublishSend, RetrySend, Send
      <3>2. \A x \in Messages : mq'[x] = mq[x] \/ mq'[x].pc = "queued"
        BY <3>1 DEF Message
      <3>3. UNCHANGED <<row, shown>> /\ api' = [api EXCEPT ![r] = IdleRequest]
        BY <2>4 DEF PublishSend, RetrySend, Return
      <3>. QED
        BY <3>2, <3>3 DEF IdleRequest
    <2>5. ASSUME NEW n \in Notices, PublishSendFails(r, n) PROVE ShownInv'
      <3>1. /\ shown \subseteq shown' /\ UNCHANGED row
            /\ \E p \in {"publishDone", "publishFail"} : api' = [api EXCEPT ![r].pc = p]
            /\ api'[r].pc = "publishDone" => api[r].ids = {n} /\ n \in shown'
        BY <2>5 DEF PublishSendFails, PushNotice, At, Goto, Request
      <3>2. \A m \in Messages : mq'[m] = mq[m] \/ mq'[m].pc = "queued"
        <4>1. SendFails(n, 0, SendAt(r))
          BY <2>5 DEF PublishSendFails
        <4>. QED
          BY <4>1, SendFailsCases
      <3>. QED
        BY <3>1, <3>2 DEF Request
    <2>6. ASSUME NEW n \in Notices, PublishDone(r, n) PROVE ShownInv'
      BY <2>6 DEF PublishDone, At, SetSendStatus, Update, Return, IdleRequest, Row, Request
    <2>7a. ASSUME NEW n \in Notices, PublishFail(r, n) PROVE ShownInv'
      BY <2>7a DEF PublishFail, SetSendStatus, Update, Return, IdleRequest, Row, Request
    <2>7b. ASSUME NEW n \in Notices, RetryFail(r, n) PROVE ShownInv'
      BY <2>7b DEF RetryFail, SetSendStatus, Update, Return, IdleRequest, Row, Request
    <2>8. ASSUME NEW n \in Notices, RevokeWrite(r, n) PROVE ShownInv'
      <3>1. \A k \in Notices : row'[k].sendStatus = row[k].sendStatus
        BY <2>8 DEF RevokeWrite, Update, Row
      <3>2. CASE api[r].status = Published
        BY <2>8, <3>1, <3>2 DEF RevokeWrite, Goto, Request
      <3>3. CASE api[r].status # Published
        <4>1. api' = [api EXCEPT ![r] = IdleRequest] /\ UNCHANGED <<mq, shown>>
          BY <2>8, <3>3 DEF RevokeWrite, Return
        <4>. QED
          BY <4>1, <3>1 DEF IdleRequest
      <3>. QED
        BY <3>2, <3>3
    <2>9. ASSUME NEW n \in Notices, RevokePush(r, n) PROVE ShownInv'
      BY <2>9 DEF RevokePush, PushRevoke, Return, IdleRequest, Request
    <2>10. ASSUME NEW n \in Notices, RetryWrite(r, n) PROVE ShownInv'
      BY <2>10 DEF RetryWrite, SetSendStatus, Update, Goto, Row, Request
    <2>11. ASSUME NEW n \in Notices, RetrySendFails(r, n) PROVE ShownInv'
      <3>1. \A m \in Messages : mq'[m] = mq[m] \/ mq'[m].pc = "queued"
        <4>1. SendFails(n, 0, SendAt(r))
          BY <2>11 DEF RetrySendFails
        <4>. QED
          BY <4>1, SendFailsCases
      <3>. QED
        BY <2>11, <3>1 DEF RetrySendFails, Goto, Request
    <2>. QED
      BY <1>3, <2>1, <2>2, <2>3, <2>4, <2>5, <2>6, <2>7a, <2>7b, <2>8, <2>9, <2>10,
         <2>11 DEF Proceed
  <1>4. ASSUME NEW m \in Messages, Consume(m) PROVE ShownInv'
    <2> USE DEF TypeOK, Slot, Addressed
    <2>1. CASE Handle(m)
      BY <2>1 DEF Handle, NextStep
    <2>2. CASE Expire(m)
      BY <2>2 DEF Expire, Update, Row
    <2>3. CASE Promote(m)
      BY <2>3 DEF Promote, Update, Row
    <2>4. CASE Push(m)
      BY <2>4 DEF Push, PushNotice
    <2>5. CASE Mark(m)
      BY <2>5 DEF Mark, SetSendStatus, Update, Row
    <2>6. CASE Catch(m)
      BY <2>6 DEF Catch
    <2>7. CASE Resend(m) \/ ResendFails(m)
      <3>1. \A x \in Messages : mq'[x] = mq[x] \/ mq'[x].pc \in {"queued", "ack", "giveUp"}
        BY <2>7, ResendSlots
      <3>2. UNCHANGED <<row, api, shown>>
        BY <2>7 DEF Resend, ResendFails
      <3>. QED
        BY <3>1, <3>2
    <2>9. CASE GiveUp(m)
      BY <2>9 DEF GiveUp, SetSendStatus, Update, Row
    <2>10. CASE Settle(m)
      BY <2>10 DEF Settle, FreeSlot
    <2>11. CASE HandleDead(m)
      BY <2>11 DEF HandleDead, FreeSlot
    <2>. QED
      BY <1>4, <2>1, <2>2, <2>3, <2>4, <2>5, <2>6, <2>7, <2>9, <2>10, <2>11
      DEF Consume
  <1>5. ASSUME NEW r \in Requests, Abort(r) PROVE ShownInv'
    BY <1>5 DEF Abort, Return, IdleRequest, TypeOK, Request
  <1>6. ASSUME NEW m \in Messages, Redeliver(m) PROVE ShownInv'
    BY <1>6 DEF Redeliver, TypeOK, Slot
  <1>7. CASE Tick \/ UNCHANGED vars
    BY <1>7 DEF Tick, vars
  <1>. QED
    BY <1>1, <1>2, <1>3, <1>4, <1>5, <1>6, <1>7 DEF Next

\* A notice reported as sent (sendStatus 2) was pushed to clients: neither the
\* direct push of publish nor any interleaving of consumers, retries, crashes
\* and redeliveries reports one that was not.
THEOREM SentWasShown == Spec => []DoneWasPushed
  <1>1. TypeOK /\ Addressed /\ RetryBudget /\ ShownInv /\ [Next]_vars => ShownInv'
    BY ShownStep
  <1>2. ShownInv => DoneWasPushed
    BY DEF ShownInv
  <1>. QED
    BY <1>1, <1>2, ShownInit, TypeCorrect, PTL DEF Spec

-----------------------------------------------------------------------------
(* A pending notice is being worked on. *)

\* The carrier of notice n, with its sets written out.
Carried(n) ==
  \/ n \in abandoned
  \/ \E m \in Messages : /\ mq[m].notice = n
                         /\ mq[m].pc \notin {"free", "ack", "nack", "dead"}
  \/ \E r \in Requests : /\ n \in api[r].ids
                         /\ api[r].pc \in {"publishSend", "publishDone", "publishFail",
                                           "retrySend", "retryFail"}

LEMMA CarriedDef ==
  PendingHasCarrier <=> \A n \in Notices : Found(n) /\ AwaitsDelivery(n) => Carried(n)
  BY DEF PendingHasCarrier, Carried, MessagesFor, RequestsFor

\* A step that leaves row n alone, or leaves it settled, and loses none of its
\* carriers, keeps the invariant for n.
Waits(n) == Found(n) /\ AwaitsDelivery(n)

LEMMA CarrierStep ==
  ASSUME TypeOK, Addressed, RetryBudget, [Next]_vars,
         \A n \in Notices : Waits(n) => Carried(n)
  PROVE  \A n \in Notices : Waits(n)' => Carried(n)'
  <1> USE DEF Waits, Carried, Found, AwaitsDelivery, Active
  <1>1. ASSUME NEW n \in Notices, Create(n)
        PROVE  \A k \in Notices : Waits(k)' => Carried(k)'
    BY <1>1, Statuses DEF Create, Update, AbsentRow, TypeOK, Row
  <1>2. ASSUME NEW r \in Requests, Arrive(r)
        PROVE  \A k \in Notices : Waits(k)' => Carried(k)'
    <2>1. UNCHANGED <<row, mq, abandoned>>
      BY <1>2 DEF Arrive, UpdateRead, RemoveRead, PublishRead, RevokeRead, RetryRead,
         RemoveBatchRead, Begin
    <2>2. api[r].pc = "idle" /\ \A q \in Requests \ {r} : api'[q] = api[q]
      BY <1>2 DEF Arrive, UpdateRead, RemoveRead, PublishRead, RevokeRead, RetryRead,
         RemoveBatchRead, Begin, TypeOK
    <2>. QED
      BY <2>1, <2>2
  <1>3. ASSUME NEW r \in Requests, Proceed(r)
        PROVE  \A k \in Notices : Waits(k)' => Carried(k)'
    <2> USE DEF TypeOK
    <2>1. CASE RemoveWrite(r)
      BY <2>1 DEF RemoveWrite, Return, IdleRequest, Row, Request
    <2>2. ASSUME NEW n \in Notices, UpdateWrite(r, n)
          PROVE  \A k \in Notices : Waits(k)' => Carried(k)'
      BY <2>2 DEF UpdateWrite, At, Update, Return, IdleRequest, Row, Request
    <2>3. ASSUME NEW n \in Notices, PublishWrite(r, n)
          PROVE  \A k \in Notices : Waits(k)' => Carried(k)'
      BY <2>3 DEF PublishWrite, At, Update, Goto, Request
    <2>4. ASSUME NEW n \in Notices, PublishSend(r, n) \/ RetrySend(r, n)
          PROVE  \A k \in Notices : Waits(k)' => Carried(k)'
      <3>1. PICK m \in Messages : /\ mq[m].pc = "free"
                                  /\ mq'[m].pc = "queued" /\ mq'[m].notice = n
                                  /\ \A x \in Messages \ {m} : mq'[x] = mq[x]
        BY <2>4 DEF PublishSend, RetrySend, Send, Message
      <3>2. api[r].ids = {n} /\ \A q \in Requests \ {r} : api'[q] = api[q]
        BY <2>4 DEF PublishSend, RetrySend, At, Return
      <3>3. UNCHANGED <<row, abandoned>>
        BY <2>4 DEF PublishSend, RetrySend
      <3>4. ASSUME NEW k \in Notices, Waits(k)' PROVE Carried(k)'
        <4>1. Carried(k)
          BY <3>3, <3>4
        <4>2. CASE k = n
          BY <3>1, <4>2
        <4>3. CASE k # n
          BY <3>1, <3>2, <3>3, <4>1, <4>3
        <4>. QED
          BY <4>2, <4>3
      <3>. QED
        BY <3>4
    <2>5. ASSUME NEW n \in Notices, PublishSendFails(r, n)
          PROVE  \A k \in Notices : Waits(k)' => Carried(k)'
      <3>1. \E p \in {"publishDone", "publishFail"} : api' = [api EXCEPT ![r].pc = p]
        BY <2>5 DEF PublishSendFails, Goto
      <3>2. UNCHANGED <<row, abandoned>>
        BY <2>5 DEF PublishSendFails
      <3>3. \A m \in Messages : mq'[m] = mq[m] \/ mq[m].pc = "free"
        BY <2>5, SendFailsCases DEF PublishSendFails
      <3>. QED
        BY <3>1, <3>2, <3>3 DEF Request
    <2>6. ASSUME NEW n \in Notices, PublishDone(r, n)
          PROVE  \A k \in Notices : Waits(k)' => Carried(k)'
      BY <2>6, Statuses DEF PublishDone, At, SetSendStatus, Update, Return,
         IdleRequest, Row, Request
    <2>7a. ASSUME NEW n \in Notices, PublishFail(r, n)
           PROVE  \A k \in Notices : Waits(k)' => Carried(k)'
      BY <2>7a, Statuses DEF PublishFail, At, SetSendStatus, Update, Return,
         IdleRequest, Row, Request
    <2>7b. ASSUME NEW n \in Notices, RetryFail(r, n)
           PROVE  \A k \in Notices : Waits(k)' => Carried(k)'
      BY <2>7b, Statuses DEF RetryFail, At, SetSendStatus, Update, Return,
         IdleRequest, Row, Request
    <2>8. ASSUME NEW n \in Notices, RevokeWrite(r, n)
          PROVE  \A k \in Notices : Waits(k)' => Carried(k)'
      <3>1. \A k \in Notices : Waits(k)' => Waits(k)
        BY <2>8, Statuses DEF RevokeWrite, Update, Row
      <3>2. \A q \in Requests \ {r} : api'[q] = api[q]
        BY <2>8 DEF RevokeWrite, Goto, Return
      <3>3. api[r].pc = "revoke" /\ UNCHANGED <<mq, abandoned>>
        BY <2>8 DEF RevokeWrite, At
      <3>. QED
        BY <3>1, <3>2, <3>3
    <2>9. ASSUME NEW n \in Notices, RevokePush(r, n)
          PROVE  \A k \in Notices : Waits(k)' => Carried(k)'
      BY <2>9 DEF RevokePush, At, PushRevoke, Return, IdleRequest, Request
    <2>10. ASSUME NEW n \in Notices, RetryWrite(r, n)
           PROVE  \A k \in Notices : Waits(k)' => Carried(k)'
      BY <2>10 DEF RetryWrite, At, SetSendStatus, Update, Goto, Row, Request
    <2>11. ASSUME NEW n \in Notices, RetrySendFails(r, n)
           PROVE  \A k \in Notices : Waits(k)' => Carried(k)'
      <3>1. \A m \in Messages : mq'[m] = mq[m] \/ mq[m].pc = "free"
        BY <2>11, SendFailsCases DEF RetrySendFails
      <3>. QED
        BY <2>11, <3>1 DEF RetrySendFails, At, Goto, Request
    <2>. QED
      BY <1>3, <2>1, <2>2, <2>3, <2>4, <2>5, <2>6, <2>7a, <2>7b, <2>8, <2>9, <2>10,
         <2>11 DEF Proceed
  <1>4. ASSUME NEW m \in Messages, Consume(m)
        PROVE  \A k \in Notices : Waits(k)' => Carried(k)'
    <2> USE DEF TypeOK, Slot, Addressed
    <2>1. CASE Handle(m)
      BY <2>1, Statuses DEF Handle, NextStep
    <2>2. CASE Expire(m)
      BY <2>2, Statuses DEF Expire, Update, Row
    <2>3. CASE Promote(m)
      BY <2>3 DEF Promote, Update, Row
    <2>4. CASE Push(m)
      BY <2>4 DEF Push, PushNotice
    <2>5. CASE Mark(m)
      BY <2>5, Statuses DEF Mark, SetSendStatus, Update, Row
    <2>6. CASE Catch(m)
      BY <2>6 DEF Catch
    <2>7. CASE Resend(m) \/ ResendFails(m)
      <3>1. UNCHANGED <<row, api, abandoned>>
        BY <2>7 DEF Resend, ResendFails
      <3>2. ASSUME NEW k \in Notices, NEW x \in Messages, mq[x].notice = k,
                   mq[x].pc \notin {"free", "ack", "nack", "dead"}
            PROVE  \E y \in Messages : /\ mq'[y].notice = k
                                       /\ mq'[y].pc \notin {"free", "ack", "nack", "dead"}
        <4>1. CASE x # m
          BY <2>7, <3>2, <4>1, ResendSlots
        <4>2. CASE x = m /\ mq'[m] = [mq[m] EXCEPT !.pc = "giveUp"]
          BY <3>2, <4>2
        <4>3. CASE x = m /\ \E f \in Messages : mq'[f] = Attempt(m)
          BY <3>2, <4>3 DEF Attempt, Message
        <4>4. mq'[m] = [mq[m] EXCEPT !.pc = "giveUp"] \/ \E f \in Messages : mq'[f] = Attempt(m)
          BY <2>7, ResendEffect
        <4>. QED
          BY <4>1, <4>2, <4>3, <4>4
      <3>. QED
        BY <3>1, <3>2
    <2>9. CASE GiveUp(m)
      BY <2>9, Statuses DEF GiveUp, SetSendStatus, Update, Row
    <2>10. CASE Settle(m)
      BY <2>10 DEF Settle, FreeSlot
    <2>11. CASE HandleDead(m)
      BY <2>11 DEF HandleDead, FreeSlot
    <2>. QED
      BY <1>4, <2>1, <2>2, <2>3, <2>4, <2>5, <2>6, <2>7, <2>9, <2>10, <2>11
      DEF Consume
  <1>5. ASSUME NEW r \in Requests, Abort(r)
        PROVE  \A k \in Notices : Waits(k)' => Carried(k)'
    BY <1>5 DEF Abort, Return, IdleRequest, TypeOK, Request
  <1>6. ASSUME NEW m \in Messages, Redeliver(m)
        PROVE  \A k \in Notices : Waits(k)' => Carried(k)'
    BY <1>6 DEF Redeliver, TypeOK, Slot
  <1>7. CASE Tick \/ UNCHANGED vars
    BY <1>7 DEF Tick, vars
  <1>. QED
    BY <1>1, <1>2, <1>3, <1>4, <1>5, <1>6, <1>7 DEF Next

\* No published or scheduled notice with sendStatus 0 is ever forgotten, except
\* by a request that died before sending: whoever makes a notice pending is its
\* carrier, and a carrier stops only by handing it on or by settling it.
THEOREM PendingIsCarried == Spec => []PendingHasCarrier
  <1>1. Init => PendingHasCarrier
    BY Statuses DEF Init, PendingHasCarrier, Found, AbsentRow
  <1>2. TypeOK /\ Addressed /\ RetryBudget /\ PendingHasCarrier /\ [Next]_vars
          => PendingHasCarrier'
    <2> SUFFICES ASSUME TypeOK, Addressed, RetryBudget, PendingHasCarrier, [Next]_vars
                 PROVE  PendingHasCarrier'
      OBVIOUS
    <2>1. \A n \in Notices : Waits(n) => Carried(n)
      BY CarriedDef DEF Waits
    <2>2. \A n \in Notices : Waits(n)' => Carried(n)'
      BY <2>1, CarrierStep
    <2>. QED
      BY <2>2 DEF PendingHasCarrier, Waits, Carried, MessagesFor, RequestsFor
  <1>. QED
    BY <1>1, <1>2, TypeCorrect, PTL DEF Spec

-----------------------------------------------------------------------------
(* The code implements NoticeDelivery. *)

Drafted(n)     == row[n].publishStatus = Draft
DraftedNext(n) == row'[n].publishStatus = Draft

\* Whatever is past the draft stage stays past it, and only such notices have
\* messages or requests that may still write a status.
DraftInv ==
  /\ \A n \in Notices : row[n].state = "absent" => Drafted(n)
  /\ \A m \in Messages : mq[m].pc # "free" => ~Drafted(mq[m].notice)
  /\ \A r \in Requests, n \in Notices :
       /\ n \in api[r].ids
       /\ api[r].pc \notin {"idle", "update", "remove", "publish"}
       => ~Drafted(n)
  /\ \A r \in Requests, n \in Notices :
       n \in api[r].ids /\ api[r].pc = "publish" => row[n].state # "absent"

LEMMA DraftInit == Init => DraftInv
  BY DEF Init, DraftInv, Drafted, AbsentRow, IdleRequest, FreeSlot

\* No step of the code makes a draft of a published notice.
LEMMA DraftStable ==
  ASSUME TypeOK, Addressed, DraftInv, [Next]_vars, NEW n \in Notices, ~Drafted(n)
  PROVE  ~DraftedNext(n)
  <1> USE Statuses DEF Drafted, DraftedNext, TypeOK
  <1>1. ASSUME NEW k \in Notices, Create(k) PROVE ~DraftedNext(n)
    BY <1>1 DEF Create, Update, DraftInv
  <1>2. ASSUME NEW r \in Requests, Arrive(r) PROVE ~DraftedNext(n)
    BY <1>2 DEF Arrive, UpdateRead, RemoveRead, PublishRead, RevokeRead, RetryRead,
       RemoveBatchRead, Begin
  <1>3. ASSUME NEW r \in Requests, Proceed(r) PROVE ~DraftedNext(n)
    <2>1. CASE RemoveWrite(r)
      BY <2>1 DEF RemoveWrite, Row
    <2>2. ASSUME NEW k \in Notices, UpdateWrite(r, k) PROVE ~DraftedNext(n)
      BY <2>2 DEF UpdateWrite, Update, Row
    <2>3. ASSUME NEW k \in Notices, PublishWrite(r, k) PROVE ~DraftedNext(n)
      BY <2>3 DEF PublishWrite, Update, Row
    <2>4. ASSUME NEW k \in Notices, RevokeWrite(r, k) PROVE ~DraftedNext(n)
      BY <2>4 DEF RevokeWrite, Update, Row
    <2>5. ASSUME NEW k \in Notices, NEW s, SetSendStatus(k, s) PROVE ~DraftedNext(n)
      BY <2>5 DEF SetSendStatus, Update, Row
    <2>6. ASSUME UNCHANGED row PROVE ~DraftedNext(n)
      BY <2>6
    <2>. QED
      BY <1>3, <2>1, <2>2, <2>3, <2>4, <2>5, <2>6 DEF Proceed, PublishSend,
         PublishSendFails, PublishDone, PublishFail, RevokePush, RetryWrite,
         RetrySend, RetrySendFails, RetryFail
  <1>4. ASSUME NEW m \in Messages, Consume(m) PROVE ~DraftedNext(n)
    <2>1. CASE Expire(m)
      BY <2>1 DEF Expire, Update, Row
    <2>2. CASE Promote(m)
      BY <2>2 DEF Promote, Update, Row
    <2>3. ASSUME NEW s, SetSendStatus(mq[m].notice, s) PROVE ~DraftedNext(n)
      BY <2>3 DEF SetSendStatus, Update, Row
    <2>4. ASSUME UNCHANGED row PROVE ~DraftedNext(n)
      BY <2>4
    <2>. QED
      BY <1>4, <2>1, <2>2, <2>3, <2>4 DEF Consume, Handle, Push, Mark, Catch,
         Resend, ResendFails, GiveUp, Settle, HandleDead
  <1>5. ASSUME UNCHANGED row PROVE ~DraftedNext(n)
    BY <1>5
  <1>. QED
    BY <1>1, <1>2, <1>3, <1>4, <1>5 DEF Next, Abort, Redeliver, Tick, vars

\* Notices exist once created, and only existing ones are published.
LEMMA AbsentStep ==
  ASSUME TypeOK, Addressed, DraftInv, [Next]_vars, NEW n \in Notices,
         row'[n].state = "absent"
  PROVE  DraftedNext(n)
  <1> USE DEF TypeOK, Drafted, DraftedNext, DraftInv
  <1>1. ASSUME NEW k \in Notices, Create(k) PROVE DraftedNext(n)
    BY <1>1 DEF Create, Update, AbsentRow
  <1>2. ASSUME NEW r \in Requests, Proceed(r) PROVE DraftedNext(n)
    <2>1. CASE RemoveWrite(r)
      BY <2>1 DEF RemoveWrite, Row
    <2>2. ASSUME NEW k \in Notices, UpdateWrite(r, k) PROVE DraftedNext(n)
      BY <2>2 DEF UpdateWrite, Update, Row
    <2>3. ASSUME NEW k \in Notices, PublishWrite(r, k) PROVE DraftedNext(n)
      <3>1. row[k].state # "absent" /\ row'[k].state = row[k].state
        BY <2>3 DEF PublishWrite, At, Update, Row
      <3>. QED
        BY <2>3, <3>1 DEF PublishWrite, Update
    <2>4. ASSUME NEW k \in Notices, RevokeWrite(r, k) PROVE DraftedNext(n)
      BY <2>4 DEF RevokeWrite, At, Update, Row
    <2>5. ASSUME NEW k \in Notices, NEW s, SetSendStatus(k, s) PROVE DraftedNext(n)
      BY <2>5 DEF SetSendStatus, Update, Row
    <2>6. ASSUME UNCHANGED row PROVE DraftedNext(n)
      BY <2>6
    <2>. QED
      BY <1>2, <2>1, <2>2, <2>3, <2>4, <2>5, <2>6 DEF Proceed, PublishSend,
         PublishSendFails, PublishDone, PublishFail, RevokePush, RetryWrite,
         RetrySend, RetrySendFails, RetryFail
  <1>3. ASSUME NEW m \in Messages, Consume(m) PROVE DraftedNext(n)
    <2>1. CASE Expire(m)
      BY <2>1 DEF Expire, Update, Row, Addressed
    <2>2. CASE Promote(m)
      BY <2>2 DEF Promote, Update, Row, Addressed
    <2>3. ASSUME NEW s, SetSendStatus(mq[m].notice, s) PROVE DraftedNext(n)
      BY <2>3 DEF SetSendStatus, Update, Row
    <2>4. ASSUME UNCHANGED row PROVE DraftedNext(n)
      BY <2>4
    <2>. QED
      BY <1>3, <2>1, <2>2, <2>3, <2>4 DEF Consume, Handle, Push, Mark, Catch,
         Resend, ResendFails, GiveUp, Settle, HandleDead
  <1>4. ASSUME UNCHANGED row PROVE DraftedNext(n)
    BY <1>4
  <1>. QED
    <2>1. ASSUME NEW r \in Requests, Arrive(r) PROVE UNCHANGED row
      BY <2>1 DEF Arrive, UpdateRead, RemoveRead, PublishRead, RevokeRead, RetryRead,
         RemoveBatchRead, Begin
    <2>. QED
      BY <1>1, <1>2, <1>3, <1>4, <2>1 DEF Next, Abort, Redeliver, Tick, vars

\* No step uncreates a notice.
LEMMA ExistsStable ==
  ASSUME TypeOK, Addressed, [Next]_vars, NEW n \in Notices, row[n].state # "absent"
  PROVE  row'[n].state # "absent"
  <1> USE DEF TypeOK
  <1>1. ASSUME UNCHANGED row PROVE row'[n].state # "absent"
    BY <1>1
  <1>2. ASSUME NEW k, NEW s, SetSendStatus(k, s) PROVE row'[n].state # "absent"
    BY <1>2 DEF SetSendStatus, Update, Row
  <1>3. ASSUME NEW k \in Notices, Create(k) PROVE row'[n].state # "absent"
    BY <1>3 DEF Create, Update
  <1>4. ASSUME NEW r \in Requests, Proceed(r) PROVE row'[n].state # "absent"
    <2>1. CASE RemoveWrite(r)
      BY <2>1 DEF RemoveWrite, Row
    <2>2. ASSUME NEW k \in Notices, UpdateWrite(r, k) PROVE row'[n].state # "absent"
      BY <2>2 DEF UpdateWrite, Update, Row
    <2>3. ASSUME NEW k \in Notices, PublishWrite(r, k) PROVE row'[n].state # "absent"
      BY <2>3 DEF PublishWrite, Update, Row
    <2>4. ASSUME NEW k \in Notices, RevokeWrite(r, k) PROVE row'[n].state # "absent"
      BY <2>4 DEF RevokeWrite, Update, Row
    <2>. QED
      BY <1>1, <1>2, <1>4, <2>1, <2>2, <2>3, <2>4 DEF Proceed, PublishSend,
         PublishSendFails, PublishDone, PublishFail, RevokePush, RetryWrite, RetrySend,
         RetrySendFails, RetryFail
  <1>5. ASSUME NEW m \in Messages, Consume(m) PROVE row'[n].state # "absent"
    <2>1. CASE Expire(m)
      BY <2>1 DEF Expire, Update, Row
    <2>2. CASE Promote(m)
      BY <2>2 DEF Promote, Update, Row
    <2>. QED
      BY <1>1, <1>2, <1>5, <2>1, <2>2 DEF Consume, Handle, Push, Mark, Catch, Resend,
         ResendFails, GiveUp, Settle, HandleDead
  <1>6. ASSUME NEW r \in Requests, Arrive(r) PROVE row'[n].state # "absent"
    BY <1>6 DEF Arrive, UpdateRead, RemoveRead, PublishRead, RevokeRead, RetryRead,
       RemoveBatchRead, Begin
  <1>. QED
    BY <1>1, <1>3, <1>4, <1>5, <1>6 DEF Next, Abort, Redeliver, Tick, vars

\* Messages are sent, resent and redelivered only for published notices.
LEMMA MessageStep ==
  ASSUME TypeOK, Addressed, RetryBudget, DraftInv, [Next]_vars, NEW m \in Messages,
         mq'[m].pc # "free"
  PROVE  ~DraftedNext(mq'[m].notice)
  <1>1. ASSUME mq[m].pc # "free", mq'[m].notice = mq[m].notice
        PROVE  ~DraftedNext(mq'[m].notice)
    <2>1. mq[m].notice \in Notices /\ ~Drafted(mq[m].notice)
      BY <1>1 DEF Addressed, DraftInv
    <2>2. ~DraftedNext(mq[m].notice)
      BY <2>1, DraftStable
    <2>. QED
      BY <1>1, <2>2
  <1>2. ASSUME UNCHANGED mq PROVE ~DraftedNext(mq'[m].notice)
    BY <1>1, <1>2
  <1>3. ASSUME NEW n \in Notices, NEW t, ~Drafted(n), Send(n, 0, t)
        PROVE  ~DraftedNext(mq'[m].notice)
    <2>1. PICK x \in Messages : mq' = [mq EXCEPT ![x] = Message(n, 0, t)]
      BY <1>3 DEF Send
    <2>2. CASE x = m
      BY <1>3, <2>1, <2>2, DraftStable DEF Message, TypeOK
    <2>3. CASE x # m
      BY <1>1, <2>1, <2>3 DEF TypeOK
    <2>. QED
      BY <2>2, <2>3
  <1>4. ASSUME NEW r \in Requests, Proceed(r) PROVE ~DraftedNext(mq'[m].notice)
    <2>1. ASSUME NEW n \in Notices, PublishSend(r, n) PROVE ~Drafted(n)
      BY <2>1 DEF PublishSend, At, DraftInv
    <2>2. ASSUME NEW n \in Notices, RetrySend(r, n) PROVE ~Drafted(n)
      BY <2>2 DEF RetrySend, At, DraftInv
    <2>3. ASSUME NEW n \in Notices, PublishSendFails(r, n) \/ RetrySendFails(r, n)
          PROVE  ~Drafted(n) /\ SendFails(n, 0, SendAt(r))
      BY <2>3 DEF PublishSendFails, RetrySendFails, At, DraftInv
    <2>. QED
      BY <1>2, <1>3, <1>4, <2>1, <2>2, <2>3 DEF SendFails, Proceed, RemoveWrite, UpdateWrite,
         PublishWrite, PublishSend, PublishSendFails, PublishDone, PublishFail,
         RevokeWrite, RevokePush, RetryWrite, RetrySend, RetrySendFails, RetryFail
  <1>5. ASSUME NEW x \in Messages, Consume(x) PROVE ~DraftedNext(mq'[m].notice)
    <2>1. CASE Resend(x) \/ ResendFails(x)
      <3>1. mq[x].pc # "free" /\ mq[x].notice \in Notices
        BY <2>1, ResendEffect
      <3>2. \/ mq[m].pc # "free" /\ mq'[m].notice = mq[m].notice
            \/ mq'[m].notice = mq[x].notice
        BY <2>1, <3>1, ResendSlots
      <3>3. ~Drafted(mq[x].notice) /\ ~DraftedNext(mq[x].notice)
        BY <3>1, DraftStable DEF DraftInv
      <3>. QED
        BY <1>1, <3>2, <3>3
    <2>2. CASE ~Resend(x) /\ ~ResendFails(x)
      <3>1. CASE m # x
        BY <1>1, <1>5, <2>2, <3>1 DEF Consume, Handle, Expire, Promote, Push, Mark,
           Catch, GiveUp, Settle, HandleDead, TypeOK
      <3>2. CASE m = x /\ (Settle(x) \/ HandleDead(x))
        <4>1. mq'[m].pc = "free" \/ (mq[m].pc # "free" /\ mq'[m].notice = mq[m].notice)
          <5>1. CASE Settle(x) /\ mq[x].pc = "nack"
            BY <3>2, <5>1 DEF Settle, TypeOK, Slot
          <5>2. CASE Settle(x) /\ mq[x].pc = "ack"
            BY <3>2, <5>2 DEF Settle, FreeSlot, TypeOK
          <5>3. CASE HandleDead(x)
            BY <3>2, <5>3 DEF HandleDead, FreeSlot, TypeOK
          <5>. QED
            BY <3>2, <5>1, <5>2, <5>3 DEF Settle
        <4>. QED
          BY <1>1, <4>1
      <3>3. CASE m = x /\ ~Settle(x) /\ ~HandleDead(x)
        BY <1>1, <1>5, <2>2, <3>3 DEF Consume, Handle, Expire, Promote, Push, Mark,
           Catch, GiveUp, TypeOK, Slot
      <3>. QED
        BY <3>1, <3>2, <3>3
    <2>. QED
      BY <2>1, <2>2
  <1>6. ASSUME NEW x \in Messages, Redeliver(x) PROVE ~DraftedNext(mq'[m].notice)
    BY <1>1, <1>6 DEF Redeliver, TypeOK, Slot
  <1>. QED
    <2>1. ASSUME NEW r \in Requests, Arrive(r) PROVE UNCHANGED mq
      BY <2>1 DEF Arrive, UpdateRead, RemoveRead, PublishRead, RevokeRead, RetryRead,
         RemoveBatchRead, Begin
    <2>. QED
      BY <1>2, <1>4, <1>5, <1>6, <2>1 DEF Next, Create, Abort, Tick, vars

\* Requests that are past their first write are about published notices.
LEMMA RequestStep ==
  ASSUME TypeOK, Addressed, DraftInv, [Next]_vars,
         NEW r \in Requests, NEW n \in Notices, n \in api'[r].ids
  PROVE  /\ api'[r].pc \notin {"idle", "update", "remove", "publish"} => ~DraftedNext(n)
         /\ api'[r].pc = "publish" => row'[n].state # "absent"
  <1> DEFINE Goal == /\ api'[r].pc \notin {"idle", "update", "remove", "publish"}
                         => ~DraftedNext(n)
                     /\ api'[r].pc = "publish" => row'[n].state # "absent"
  <1> SUFFICES Goal
    OBVIOUS
  <1>1. ~Drafted(n) => ~DraftedNext(n)
    BY DraftStable
  <1>2. row[n].state # "absent" => row'[n].state # "absent"
    BY ExistsStable
  <1>3. ASSUME api'[r] = api[r] PROVE Goal
    BY <1>1, <1>2, <1>3 DEF DraftInv
  <1>4. ASSUME NEW q \in Requests, Arrive(q) PROVE Goal
    <2>1. CASE q # r
      BY <1>3, <1>4, <2>1 DEF Arrive, UpdateRead, RemoveRead, PublishRead, RevokeRead,
         RetryRead, RemoveBatchRead, Begin, TypeOK
    <2>2. CASE q = r
      BY <1>1, <1>2, <1>4, <2>2, Statuses DEF Arrive, UpdateRead, RemoveRead,
         PublishRead, RevokeRead, RetryRead, RemoveBatchRead, Begin, TypeOK,
         MayPublish, MayRevoke, MayRetry, Found, Active, Drafted
    <2>. QED
      BY <2>1, <2>2
  <1>5. ASSUME NEW q \in Requests, Proceed(q) PROVE Goal
    <2>1. CASE q # r
      <3>1. api'[r] = api[r]
        BY <1>5, <2>1 DEF Proceed, RemoveWrite, UpdateWrite, PublishWrite, PublishSend,
           PublishSendFails, PublishDone, PublishFail, RevokeWrite, RevokePush,
           RetryWrite, RetrySend, RetrySendFails, RetryFail, Goto, Return, TypeOK
      <3>. QED
        BY <1>3, <3>1
    <2>2. CASE q = r /\ api'[r] = IdleRequest
      BY <2>2 DEF IdleRequest
    <2>3. CASE q = r /\ api'[r] # IdleRequest
      <3>1. ASSUME NEW p, NEW s, Goto(r, p), api[r].pc = s,
                   s \notin {"idle", "update", "remove", "publish"}, p # "publish"
            PROVE  Goal
        BY <1>1, <3>1 DEF Goto, DraftInv, TypeOK, Request
      <3>2. ASSUME NEW k \in Notices, PublishWrite(r, k) PROVE Goal
        BY <3>2, Statuses DEF PublishWrite, At, Goto, Update, TypeOK, Row, Request, DraftedNext
      <3>3. ASSUME NEW k \in Notices, PublishSendFails(r, k) PROVE Goal
        BY <3>1, <3>3 DEF PublishSendFails, At
      <3>4. ASSUME NEW k \in Notices, RevokeWrite(r, k) PROVE Goal
        BY <2>3, <3>1, <3>4 DEF RevokeWrite, At, Return, TypeOK
      <3>5. ASSUME NEW k \in Notices, RetryWrite(r, k) PROVE Goal
        BY <3>1, <3>5 DEF RetryWrite, At
      <3>6. ASSUME NEW k \in Notices, RetrySendFails(r, k) PROVE Goal
        BY <3>1, <3>6 DEF RetrySendFails, At
      <3>. QED
        BY <1>5, <2>3, <3>2, <3>3, <3>4, <3>5, <3>6 DEF Proceed, RemoveWrite,
           UpdateWrite, PublishSend, PublishDone, PublishFail, RevokePush, RetrySend,
           RetryFail, Return, TypeOK
    <2>. QED
      BY <2>1, <2>2, <2>3
  <1>6. ASSUME NEW q \in Requests, Abort(q) PROVE Goal
    BY <1>3, <1>6 DEF Abort, Return, IdleRequest, TypeOK
  <1>7. ASSUME UNCHANGED api PROVE Goal
    BY <1>3, <1>7
  <1>. QED
    BY <1>4, <1>5, <1>6, <1>7 DEF Next, Create, Consume, Handle, Expire, Promote, Push,
       Mark, Catch, Resend, ResendFails, GiveUp, Settle, HandleDead, Redeliver, Tick, vars

LEMMA DraftStep ==
  ASSUME TypeOK, Addressed, RetryBudget, DraftInv, [Next]_vars PROVE DraftInv'
  <1>1. \A n \in Notices : row'[n].state = "absent" => DraftedNext(n)
    BY AbsentStep
  <1>2. \A m \in Messages : mq'[m].pc # "free" => ~DraftedNext(mq'[m].notice)
    BY MessageStep
  <1>. QED
    BY <1>1, <1>2, RequestStep DEF DraftInv, Drafted, DraftedNext

\* How the abstract outcome follows a write of row n.
LEMMA OutcomeUpdate ==
  ASSUME NEW n \in Notices, TypeOK,
         \A k \in Notices \ {n} : row'[k] = row[k]
  PROVE  Outcome' = [Outcome EXCEPT ![n] =
                       IF DraftedNext(n) THEN "unpublished"
                       ELSE OutcomeOf(row'[n].sendStatus)]
  BY DEF Outcome, OutcomeOf, DraftedNext, TypeOK

LEMMA OutcomeSame ==
  ASSUME \A n \in Notices : /\ DraftedNext(n) <=> Drafted(n)
                            /\ row'[n].sendStatus = row[n].sendStatus
  PROVE  Outcome' = Outcome
  BY DEF Outcome, OutcomeOf, Drafted, DraftedNext

DeliveryNext == [Delivery!Next]_<<Outcome, shown, lastEvent>>

\* The three kinds of status writes are the abstract actions.
LEMMA OweStep ==
  ASSUME TypeOK, NEW n \in Notices, \A k \in Notices \ {n} : row'[k] = row[k],
         ~DraftedNext(n), row'[n].sendStatus = Pending,
         UNCHANGED <<shown, lastEvent>>
  PROVE  DeliveryNext
  BY OutcomeUpdate DEF DeliveryNext, Delivery!Next, Delivery!Owe, OutcomeOf

LEMMA ConfirmStep ==
  ASSUME TypeOK, NEW n \in Notices, \A k \in Notices \ {n} : row'[k] = row[k],
         ~DraftedNext(n), row'[n].sendStatus = Done, n \in shown,
         UNCHANGED <<shown, lastEvent>>
  PROVE  DeliveryNext
  BY OutcomeUpdate, Statuses DEF DeliveryNext, Delivery!Next, Delivery!Confirm, OutcomeOf

LEMMA GiveUpStep ==
  ASSUME TypeOK, NEW n \in Notices, \A k \in Notices \ {n} : row'[k] = row[k],
         ~Drafted(n), ~DraftedNext(n), row'[n].sendStatus \in {Failed, Expired},
         UNCHANGED <<shown, lastEvent>>
  PROVE  DeliveryNext
  <1>1. OutcomeOf(row'[n].sendStatus) \in {"failed", "expired"}
    BY Statuses DEF OutcomeOf
  <1>2. Outcome[n] # "unpublished"
    BY DEF Outcome, OutcomeOf, Drafted
  <1>. QED
    BY <1>1, <1>2, OutcomeUpdate DEF DeliveryNext, Delivery!Next, Delivery!GiveUp

LEMMA ShowStep ==
  ASSUME NEW n \in Notices, ~Drafted(n), UNCHANGED row, PushNotice(n)
  PROVE  DeliveryNext
  <1>1. Outcome' = Outcome
    BY DEF Outcome, OutcomeOf
  <1>2. Outcome[n] # "unpublished"
    BY DEF Outcome, OutcomeOf, Drafted
  <1>. QED
    BY <1>1, <1>2 DEF DeliveryNext, Delivery!Next, Delivery!Show, PushNotice

LEMMA WithdrawStep ==
  ASSUME NEW n \in Notices, ~Drafted(n), UNCHANGED row, PushRevoke(n)
  PROVE  DeliveryNext
  <1>1. Outcome' = Outcome
    BY DEF Outcome, OutcomeOf
  <1>2. Outcome[n] # "unpublished"
    BY DEF Outcome, OutcomeOf, Drafted
  <1>. QED
    BY <1>1, <1>2 DEF DeliveryNext, Delivery!Next, Delivery!Withdraw, PushRevoke

LEMMA Stutter ==
  ASSUME \A n \in Notices : /\ DraftedNext(n) <=> Drafted(n)
                            /\ row'[n].sendStatus = row[n].sendStatus,
         UNCHANGED <<shown, lastEvent>>
  PROVE  DeliveryNext
  BY OutcomeSame DEF DeliveryNext

LEMMA RefinementStep ==
  ASSUME TypeOK, Addressed, DraftInv, ShownInv, [Next]_vars
  PROVE  DeliveryNext
  <1>1. ASSUME UNCHANGED <<row, shown, lastEvent>> PROVE DeliveryNext
    BY <1>1, Stutter DEF Drafted, DraftedNext
  <1>2. ASSUME NEW n \in Notices, Create(n) PROVE DeliveryNext
    <2>1. Drafted(n)
      BY <1>2 DEF Create, DraftInv
    <2>2. /\ DraftedNext(n)
          /\ \A k \in Notices \ {n} : row'[k] = row[k]
          /\ UNCHANGED <<shown, lastEvent>>
      BY <1>2 DEF Create, Update, AbsentRow, TypeOK, DraftedNext
    <2>3. Outcome' = [Outcome EXCEPT ![n] = "unpublished"] /\ Outcome[n] = "unpublished"
      BY <2>1, <2>2, OutcomeUpdate DEF Outcome, Drafted
    <2>. QED
      BY <2>2, <2>3 DEF DeliveryNext, Outcome
  <1>3. ASSUME NEW r \in Requests, Arrive(r) PROVE DeliveryNext
    BY <1>1, <1>3 DEF Arrive, UpdateRead, RemoveRead, PublishRead, RevokeRead, RetryRead,
       RemoveBatchRead, Begin
  <1>4. ASSUME NEW r \in Requests, Proceed(r) PROVE DeliveryNext
    <2>1. CASE RemoveWrite(r)
      BY <2>1, Stutter DEF RemoveWrite, TypeOK, Row, Drafted, DraftedNext
    <2>2. ASSUME NEW n \in Notices, UpdateWrite(r, n) PROVE DeliveryNext
      <3>1. \A k \in Notices : /\ row'[k].publishStatus = row[k].publishStatus
                               /\ row'[k].sendStatus = row[k].sendStatus
        BY <2>2 DEF UpdateWrite, Update, TypeOK, Row
      <3>. QED
        BY <2>2, <3>1, Stutter DEF UpdateWrite, Drafted, DraftedNext
    <2>3. ASSUME NEW n \in Notices, PublishWrite(r, n) PROVE DeliveryNext
      <3>1. /\ \A k \in Notices \ {n} : row'[k] = row[k]
            /\ ~DraftedNext(n) /\ row'[n].sendStatus = Pending
        BY <2>3, Statuses DEF PublishWrite, Update, TypeOK, Row, DraftedNext
      <3>. QED
        BY <2>3, <3>1, OweStep DEF PublishWrite
    <2>4. ASSUME NEW n \in Notices, PublishSendFails(r, n) PROVE DeliveryNext
      <3>1. ~Drafted(n)
        BY <2>4 DEF PublishSendFails, At, DraftInv
      <3>. QED
        BY <1>1, <2>4, <3>1, ShowStep DEF PublishSendFails
    <2>5. ASSUME NEW n \in Notices, PublishDone(r, n) PROVE DeliveryNext
      <3>1. ~Drafted(n) /\ n \in shown
        BY <2>5 DEF PublishDone, At, DraftInv, ShownInv
      <3>2. /\ \A k \in Notices \ {n} : row'[k] = row[k]
            /\ ~DraftedNext(n) /\ row'[n].sendStatus = Done
        BY <2>5, <3>1 DEF PublishDone, SetSendStatus, Update, TypeOK, Row, Drafted, DraftedNext
      <3>. QED
        BY <2>5, <3>1, <3>2, ConfirmStep DEF PublishDone
    <2>6. ASSUME NEW n \in Notices, SetSendStatus(n, Failed), ~Drafted(n),
                 UNCHANGED <<shown, lastEvent>>
          PROVE  DeliveryNext
      <3>1. /\ \A k \in Notices \ {n} : row'[k] = row[k]
            /\ ~DraftedNext(n) /\ row'[n].sendStatus = Failed
        BY <2>6 DEF SetSendStatus, Update, TypeOK, Row, Drafted, DraftedNext
      <3>. QED
        BY <2>6, <3>1, GiveUpStep
    <2>7. ASSUME NEW n \in Notices, PublishFail(r, n) \/ RetryFail(r, n) PROVE DeliveryNext
      BY <2>6, <2>7 DEF PublishFail, RetryFail, At, DraftInv
    <2>8. ASSUME NEW n \in Notices, RevokeWrite(r, n) PROVE DeliveryNext
      <3>1. ~Drafted(n)
        BY <2>8 DEF RevokeWrite, At, DraftInv
      <3>2. \A k \in Notices : /\ DraftedNext(k) <=> Drafted(k)
                               /\ row'[k].sendStatus = row[k].sendStatus
        BY <2>8, <3>1, Statuses DEF RevokeWrite, Update, TypeOK, Row, Drafted, DraftedNext
      <3>. QED
        BY <2>8, <3>2, Stutter DEF RevokeWrite
    <2>9. ASSUME NEW n \in Notices, RetryWrite(r, n) PROVE DeliveryNext
      <3>1. ~Drafted(n)
        BY <2>9 DEF RetryWrite, At, DraftInv
      <3>2. /\ \A k \in Notices \ {n} : row'[k] = row[k]
            /\ ~DraftedNext(n) /\ row'[n].sendStatus = Pending
        BY <2>9, <3>1 DEF RetryWrite, SetSendStatus, Update, TypeOK, Row, Drafted, DraftedNext
      <3>. QED
        BY <2>9, <3>2, OweStep DEF RetryWrite
    <2>10. ASSUME NEW n \in Notices, RevokePush(r, n) PROVE DeliveryNext
      <3>1. ~Drafted(n)
        BY <2>10 DEF RevokePush, At, DraftInv
      <3>. QED
        BY <2>10, <3>1, WithdrawStep DEF RevokePush
    <2>. QED
      BY <1>1, <1>4, <2>1, <2>2, <2>3, <2>4, <2>5, <2>7, <2>8, <2>9, <2>10 DEF Proceed,
         PublishSend, RetrySend, RetrySendFails
  <1>5. ASSUME NEW m \in Messages, Consume(m) PROVE DeliveryNext
    <2> DEFINE n == mq[m].notice
    <2>0. ASSUME mq[m].pc # "free" PROVE n \in Notices /\ ~Drafted(n)
      BY <2>0 DEF Addressed, DraftInv
    <2>1. CASE Expire(m)
      <3>1. /\ n \in Notices /\ ~Drafted(n)
            /\ \A k \in Notices \ {n} : row'[k] = row[k]
            /\ ~DraftedNext(n) /\ row'[n].sendStatus = Expired
        BY <2>0, <2>1, Statuses DEF Expire, Update, TypeOK, Row, Drafted, DraftedNext
      <3>. QED
        BY <2>1, <3>1, GiveUpStep DEF Expire
    <2>2. CASE Promote(m)
      <3>1. \A k \in Notices : /\ DraftedNext(k) <=> Drafted(k)
                               /\ row'[k].sendStatus = row[k].sendStatus
        BY <2>0, <2>2, Statuses DEF Promote, Update, TypeOK, Row, Drafted, DraftedNext
      <3>. QED
        BY <2>2, <3>1, Stutter DEF Promote
    <2>3. CASE Push(m)
      BY <2>0, <2>3, ShowStep DEF Push
    <2>4. CASE Mark(m)
      <3>1. n \in Notices /\ ~Drafted(n) /\ n \in shown /\ UNCHANGED <<shown, lastEvent>>
        BY <2>0, <2>4 DEF Mark, ShownInv
      <3>2. CASE row[n].sendStatus = Pending
        <4>1. /\ \A k \in Notices \ {n} : row'[k] = row[k]
              /\ ~DraftedNext(n) /\ row'[n].sendStatus = Done
          BY <2>4, <3>1, <3>2 DEF Mark, SetSendStatus, Update, TypeOK, Row, Drafted,
             DraftedNext
        <4>. QED
          BY <3>1, <4>1, ConfirmStep
      <3>3. CASE row[n].sendStatus # Pending
        <4>1. \A k \in Notices : /\ row'[k].publishStatus = row[k].publishStatus
                                 /\ row'[k].sendStatus = row[k].sendStatus
          BY <2>4, <3>1, <3>3 DEF Mark, SetSendStatus, Update, TypeOK, Row
        <4>. QED
          BY <3>1, <4>1, Stutter DEF Drafted, DraftedNext
      <3>. QED
        BY <3>2, <3>3
    <2>5. CASE GiveUp(m)
      <3>1. /\ n \in Notices /\ ~Drafted(n)
            /\ \A k \in Notices \ {n} : row'[k] = row[k]
            /\ ~DraftedNext(n) /\ row'[n].sendStatus = Failed
        BY <2>0, <2>5 DEF GiveUp, SetSendStatus, Update, TypeOK, Row, Drafted, DraftedNext
      <3>. QED
        BY <2>5, <3>1, GiveUpStep DEF GiveUp
    <2>. QED
      BY <1>1, <1>5, <2>1, <2>2, <2>3, <2>4, <2>5 DEF Consume, Handle, Catch, Resend,
         ResendFails, Settle, HandleDead
  <1>. QED
    BY <1>1, <1>2, <1>3, <1>4, <1>5 DEF Next, Abort, Redeliver, Tick, vars

\* Every behaviour of the code is one NoticeDelivery allows: clients are shown,
\* and told to forget, only notices that were published, and "sent" is reported
\* only of a notice that was shown.
THEOREM DeliveryImplemented == Spec => ImplementsDelivery
  <1>1. Init => Delivery!Init
    BY DEF Init, Delivery!Init, Outcome, AbsentRow
  <1>2. TypeOK /\ Addressed /\ RetryBudget /\ DraftInv /\ [Next]_vars => DraftInv'
    BY DraftStep
  <1>3. TypeOK /\ Addressed /\ RetryBudget /\ ShownInv /\ [Next]_vars => ShownInv'
    BY ShownStep
  <1>4. TypeOK /\ Addressed /\ DraftInv /\ ShownInv /\ [Next]_vars
          => [Delivery!Next]_<<Outcome, shown, lastEvent>>
    BY RefinementStep DEF DeliveryNext
  <1>. QED
    BY <1>1, <1>2, <1>3, <1>4, DraftInit, ShownInit, TypeCorrect, PTL
    DEF Spec, ImplementsDelivery, Delivery!Spec


-----------------------------------------------------------------------------
(* When no two requests about one notice overlap, every carrier beyond the   *)
(* first is paid for by a fault.                                             *)

\* Requests about different notices may interleave step by step.
OnePerNotice == \A p, q \in Requests : p # q => api[p].ids \cap api[q].ids = {}

\* Request r has read notice n and will, or does, carry it.
Taking(r, n) ==
  /\ n \in api[r].ids
  /\ api[r].pc \in {"publish", "publishSend", "publishDone", "publishFail",
                    "retry", "retrySend", "retryFail"}

\* A request goes on: the other requests and their notices stay.
Frame(r) ==
  /\ \A q \in Requests \ {r} : api'[q] = api[q]
  /\ \A n \in Notices \ api[r].ids : row'[n] = row[n]

LEMMA ProceedFrame ==
  ASSUME TypeOK, NEW r \in Requests, Proceed(r) \/ Abort(r) PROVE Frame(r)
<1>1. row \in [Notices -> Row] /\ api \in [Requests -> Request]
  BY DEF TypeOK
<1>2. /\ Return(r) => \A q \in Requests \ {r} : api'[q] = api[q]
      /\ \A pc : Goto(r, pc) => \A q \in Requests \ {r} : api'[q] = api[q]
  BY <1>1 DEF Return, Goto
<1>3. \A n \in Notices : \A new : Update(n, new) => \A k \in Notices \ {n} : row'[k] = row[k]
  BY <1>1 DEF Update
<1>4. CASE RemoveWrite(r) \/ Abort(r)
  BY <1>2, <1>4 DEF RemoveWrite, Abort, Frame
<1>5. ASSUME NEW n \in Notices,
             UpdateWrite(r, n) \/ PublishWrite(r, n) \/ RevokeWrite(r, n)
      PROVE  Frame(r)
  BY <1>2, <1>3, <1>5 DEF UpdateWrite, PublishWrite, RevokeWrite, At, Frame
<1>6. ASSUME NEW n \in Notices,
             PublishDone(r, n) \/ PublishFail(r, n) \/ RetryWrite(r, n) \/ RetryFail(r, n)
      PROVE  Frame(r)
  BY <1>2, <1>3, <1>6
  DEF PublishDone, PublishFail, RetryWrite, RetryFail, SetSendStatus, At, Frame
<1>7. ASSUME NEW n \in Notices,
             \/ PublishSend(r, n) \/ PublishSendFails(r, n) \/ RevokePush(r, n)
             \/ RetrySend(r, n) \/ RetrySendFails(r, n)
      PROVE  Frame(r)
  BY <1>2, <1>7
  DEF PublishSend, PublishSendFails, RevokePush, RetrySend, RetrySendFails, Frame
<1> QED BY <1>4, <1>5, <1>6, <1>7 DEF Proceed

\* A notice is open when it may get a carrier: it is a draft, its sending
\* failed, or a request that found it so has not written yet.  It is in hand
\* while a request is between its write and its last step.
InHand(r, n)  == n \in api[r].ids /\ api[r].pc \in {"publishSend", "publishDone", "publishFail",
                                                    "retrySend", "retryFail"}
Handling(n)   == \E r \in Requests : InHand(r, n)
Opening(r, n) == n \in api[r].ids /\ api[r].pc \in {"publish", "retry"}
Open(n)       == \/ Drafted(n)
                 \/ row[n].sendStatus = Failed
                 \/ \E r \in Requests : Opening(r, n)

\* What stands for notice n beside its messages, as a number.
Weight(n) == (IF Handling(n) THEN 1 ELSE 0) + (IF Open(n) THEN 1 ELSE 0)

\* Messages, a request that has the notice in hand and a notice that may get a
\* carrier are one, plus what faults added.
PaidFor(n) ==
  /\ IsFiniteSet(MessagesFor(n))
  /\ Cardinality(MessagesFor(n)) + Weight(n) <= 1 + faults

PaidInv == \A n \in Notices : PaidFor(n)

\* Counting a set that a step made smaller, larger by one, or changed in one place.
LEMMA Counting ==
  ASSUME NEW S, NEW T, IsFiniteSet(S)
  PROVE  /\ Cardinality(S) \in Nat
         /\ T \subseteq S => IsFiniteSet(T) /\ Cardinality(T) \in Nat /\ Cardinality(T) <= Cardinality(S)
         /\ \A x : T \subseteq S \cup {x} =>
              IsFiniteSet(T) /\ Cardinality(T) \in Nat /\ Cardinality(T) <= Cardinality(S) + 1
         /\ \A y \in S : T \subseteq S \ {y} =>
              IsFiniteSet(T) /\ Cardinality(T) \in Nat /\ Cardinality(T) <= Cardinality(S) - 1
         /\ \A y \in S : \A x : T \subseteq (S \ {y}) \cup {x} =>
              IsFiniteSet(T) /\ Cardinality(T) \in Nat /\ Cardinality(T) <= Cardinality(S)
<1>1. ASSUME NEW A, NEW B, IsFiniteSet(A), B \subseteq A
      PROVE  IsFiniteSet(B) /\ Cardinality(B) \in Nat /\ Cardinality(B) <= Cardinality(A)
  BY <1>1, FS_Subset, FS_CardinalityType
<1>2. ASSUME NEW A, NEW x, IsFiniteSet(A)
      PROVE  /\ IsFiniteSet(A \cup {x}) /\ Cardinality(A) \in Nat
             /\ Cardinality(A \cup {x}) \in Nat /\ Cardinality(A \cup {x}) <= Cardinality(A) + 1
  <2>1. Cardinality(A) \in Nat
    BY <1>2, FS_CardinalityType
  <2>2. /\ IsFiniteSet(A \cup {x})
        /\ Cardinality(A \cup {x}) = IF x \in A THEN Cardinality(A) ELSE Cardinality(A) + 1
    BY <1>2, FS_AddElement
  <2> QED BY <2>1, <2>2
<1>3. ASSUME NEW y \in S
      PROVE  /\ IsFiniteSet(S \ {y})
             /\ Cardinality(S \ {y}) \in Nat /\ Cardinality(S \ {y}) = Cardinality(S) - 1
  BY <1>3, FS_RemoveElement, FS_CardinalityType
<1>4. Cardinality(S) \in Nat
  BY FS_CardinalityType
<1>5. ASSUME NEW x, T \subseteq S \cup {x}
      PROVE  IsFiniteSet(T) /\ Cardinality(T) \in Nat /\ Cardinality(T) <= Cardinality(S) + 1
  <2>1. /\ IsFiniteSet(S \cup {x}) /\ Cardinality(S \cup {x}) \in Nat
        /\ Cardinality(S \cup {x}) <= Cardinality(S) + 1
    BY <1>2
  <2>2. IsFiniteSet(T) /\ Cardinality(T) \in Nat /\ Cardinality(T) <= Cardinality(S \cup {x})
    BY <1>1, <1>5, <2>1
  <2> QED BY <1>4, <2>1, <2>2
<1>6. ASSUME NEW y \in S, T \subseteq S \ {y}
      PROVE  IsFiniteSet(T) /\ Cardinality(T) \in Nat /\ Cardinality(T) <= Cardinality(S) - 1
  BY <1>1, <1>3, <1>4, <1>6
<1>7. ASSUME NEW y \in S, NEW x, T \subseteq (S \ {y}) \cup {x}
      PROVE  IsFiniteSet(T) /\ Cardinality(T) \in Nat /\ Cardinality(T) <= Cardinality(S)
  <2>1. /\ IsFiniteSet(S \ {y})
        /\ Cardinality(S \ {y}) \in Nat /\ Cardinality(S \ {y}) = Cardinality(S) - 1
    BY <1>3
  <2>2. /\ IsFiniteSet((S \ {y}) \cup {x}) /\ Cardinality((S \ {y}) \cup {x}) \in Nat
        /\ Cardinality((S \ {y}) \cup {x}) <= Cardinality(S \ {y}) + 1
    BY <1>2, <2>1
  <2>3. IsFiniteSet(T) /\ Cardinality(T) \in Nat /\ Cardinality(T) <= Cardinality((S \ {y}) \cup {x})
    BY <1>1, <1>7, <2>2
  <2> QED BY <1>4, <2>1, <2>2, <2>3
<1> QED BY <1>1, <1>4, <1>5, <1>6, <1>7

\* The ways in which a step keeps notice n paid for.
Fewer(n)   == MessagesFor(n)' \subseteq MessagesFor(n)
More(n)    == \E x : MessagesFor(n)' \subseteq MessagesFor(n) \cup {x}
Drops(n)   == \E y \in MessagesFor(n) : MessagesFor(n)' \subseteq MessagesFor(n) \ {y}
Swaps(n)   == \E y \in MessagesFor(n) : \E x : MessagesFor(n)' \subseteq (MessagesFor(n) \ {y}) \cup {x}
Lighter(n) == (Handling(n)' => Handling(n)) /\ (Open(n)' => Open(n))

LEMMA Paying ==
  ASSUME NEW n \in Notices, PaidFor(n), faults \in Nat,
         \/ (Fewer(n) \/ Swaps(n)) /\ Weight(n)' <= Weight(n) /\ faults' = faults
         \/ More(n) /\ Weight(n)' <= Weight(n) /\ faults' = faults + 1
         \/ More(n) /\ Weight(n)' + 1 <= Weight(n) /\ faults' = faults
         \/ Drops(n) /\ Weight(n)' <= Weight(n) + 1 /\ faults' = faults
  PROVE  PaidFor(n)'
<1> DEFINE S == MessagesFor(n)
           T == MessagesFor(n)'
<1>1. IsFiniteSet(S) /\ Cardinality(S) + Weight(n) <= 1 + faults
  BY DEF PaidFor
<1>2. Weight(n) \in Nat /\ Weight(n)' \in Nat
  BY DEF Weight
<1>3. SUFFICES IsFiniteSet(T) /\ Cardinality(T) + Weight(n)' <= 1 + faults'
  BY DEF PaidFor
<1>4. CASE (Fewer(n) \/ Swaps(n)) /\ Weight(n)' <= Weight(n) /\ faults' = faults
  <2>1. IsFiniteSet(T) /\ Cardinality(T) \in Nat /\ Cardinality(T) <= Cardinality(S)
    BY <1>1, <1>4, Counting DEF Fewer, Swaps
  <2> HIDE DEF S, T
  <2> QED BY <1>1, <1>2, <1>4, <2>1, Counting
<1>5. CASE More(n)
  <2>1. IsFiniteSet(T) /\ Cardinality(T) \in Nat /\ Cardinality(T) <= Cardinality(S) + 1
    BY <1>1, <1>5, Counting DEF More
  <2>2. Cardinality(S) \in Nat
    BY <1>1, Counting
  <2>3. \/ Weight(n)' <= Weight(n) /\ faults' = faults + 1
        \/ Weight(n)' + 1 <= Weight(n) /\ faults' = faults
        \/ Drops(n) /\ Weight(n)' <= Weight(n) + 1 /\ faults' = faults
        \/ (Fewer(n) \/ Swaps(n)) /\ Weight(n)' <= Weight(n) /\ faults' = faults
    OBVIOUS
  <2>4. Drops(n) => Cardinality(T) <= Cardinality(S) - 1
    BY <1>1, Counting DEF Drops
  <2>5. Fewer(n) \/ Swaps(n) => Cardinality(T) <= Cardinality(S)
    BY <1>1, Counting DEF Fewer, Swaps
  <2> HIDE DEF S, T
  <2> QED BY <1>1, <1>2, <2>1, <2>2, <2>3, <2>4, <2>5
<1>6. CASE Drops(n) /\ Weight(n)' <= Weight(n) + 1 /\ faults' = faults
  <2>1. /\ IsFiniteSet(T) /\ Cardinality(T) \in Nat /\ Cardinality(T) <= Cardinality(S) - 1
        /\ Cardinality(S) \in Nat
    BY <1>1, <1>6, Counting DEF Drops
  <2> HIDE DEF S, T
  <2> QED BY <1>1, <1>2, <1>6, <2>1
<1> QED BY <1>4, <1>5, <1>6

LEMMA LighterWeight == ASSUME NEW n \in Notices, Lighter(n) PROVE Weight(n)' <= Weight(n)
  BY DEF Lighter, Weight

\* What request r does to a notice it is not about, and who else is about its own.
LEMMA OtherWeight ==
  ASSUME NEW r \in Requests, Frame(r), NEW n \in Notices \ api[r].ids,
         api'[r].pc = "idle" \/ api'[r].ids = api[r].ids
  PROVE  Lighter(n)
<1>1. row'[n] = row[n] /\ \A q \in Requests \ {r} : api'[q] = api[q]
  BY DEF Frame
<1>2. ~InHand(r, n)' /\ ~Opening(r, n)'
  BY DEF InHand, Opening
<1>3. Handling(n)' => Handling(n)
  BY <1>1, <1>2 DEF Handling, InHand
<1>4. Open(n)' => Open(n)
  BY <1>1, <1>2 DEF Open, Opening, Drafted
<1> QED BY <1>3, <1>4 DEF Lighter

LEMMA OwnWeight ==
  ASSUME OnePerNotice, NEW r \in Requests, Frame(r), NEW n \in api[r].ids
  PROVE  /\ Handling(n) <=> InHand(r, n)
         /\ Handling(n)' <=> InHand(r, n)'
         /\ Open(n)' => Drafted(n)' \/ row'[n].sendStatus = Failed \/ Opening(r, n)'
<1>1. \A q \in Requests \ {r} : api'[q] = api[q] /\ n \notin api[q].ids
  BY DEF Frame, OnePerNotice
<1>2. \A q \in Requests \ {r} : ~InHand(q, n) /\ ~InHand(q, n)' /\ ~Opening(q, n)'
  BY <1>1 DEF InHand, Opening
<1> QED BY <1>2 DEF Handling, Open

\* What a request's step may be: it has no notice in hand, it goes on with the
\* one it takes, it hands that one over to the broker, or the send fails though
\* its message arrived.
StandsBy(r) ==
  /\ mq' = mq /\ faults' = faults /\ api'[r].pc \in {"idle", "revokePush"}
  /\ \A n \in Notices : row'[n].sendStatus = row[n].sendStatus

Carries(r, n) ==
  /\ Taking(r, n) /\ api[r].ids = {n}
  /\ mq' = mq /\ faults' = faults /\ \A k \in Notices \ {n} : row'[k] = row[k]
  /\ \/ /\ Opening(r, n)
        /\ api'[r].pc \in {"publishSend", "retrySend"} /\ api'[r].ids = {n}
        /\ row'[n].sendStatus = Pending
     \/ InHand(r, n) /\ api'[r].pc = "idle"
     \/ /\ InHand(r, n) /\ row' = row
        /\ api'[r].pc \in {"publishDone", "publishFail", "retryFail"} /\ api'[r].ids = {n}

HandsOver(r, n) ==
  /\ Taking(r, n) /\ api[r].ids = {n} /\ api[r].pc \in {"publishSend", "retrySend"}
  /\ row' = row /\ faults' = faults /\ Return(r) /\ \E t \in Nat : Send(n, 0, t)

Arrives(r, n) ==
  /\ InHand(r, n) /\ api[r].ids = {n}
  /\ "arrive" \in mix /\ faults' = faults + 1 /\ row' = row
  /\ api'[r].pc \in {"publishDone", "publishFail", "retryFail"} /\ api'[r].ids = {n}
  /\ \A m \in Messages : mq'[m].notice # n => mq'[m] = mq[m]
  /\ \E f \in Messages : \A m \in Messages \ {f} : mq'[m] = mq[m]

LEMMA ProceedKinds ==
  ASSUME TypeOK, NEW r \in Requests, Proceed(r)
  PROVE  StandsBy(r) \/ \E n \in Notices : Carries(r, n) \/ HandsOver(r, n) \/ Arrives(r, n)
<1>1. row \in [Notices -> Row] /\ api \in [Requests -> Request]
  BY DEF TypeOK
<1>2. /\ Return(r) => api'[r].pc = "idle"
      /\ \A pc : Goto(r, pc) => api'[r].pc = pc /\ api'[r].ids = api[r].ids
  BY DEF Return, Goto, IdleRequest, TypeOK, Request
<1>3. CASE RemoveWrite(r)
  <2>1. \A n \in Notices : row'[n].sendStatus = row[n].sendStatus
    BY <1>1, <1>3 DEF RemoveWrite, Row
  <2> QED BY <1>2, <1>3, <2>1 DEF RemoveWrite, StandsBy
<1>4. ASSUME NEW n \in Notices, UpdateWrite(r, n)
      PROVE  StandsBy(r)
  <2>1. row'[n].sendStatus = row[n].sendStatus /\ \A k \in Notices \ {n} : row'[k] = row[k]
    BY <1>1, <1>4 DEF UpdateWrite, Update, Row
  <2> QED BY <1>2, <1>4, <2>1 DEF UpdateWrite, StandsBy
<1>5. ASSUME NEW n \in Notices, RevokeWrite(r, n)
      PROVE  StandsBy(r)
  <2>1. row'[n].sendStatus = row[n].sendStatus /\ \A k \in Notices \ {n} : row'[k] = row[k]
    BY <1>1, <1>5 DEF RevokeWrite, Update, Row
  <2> QED BY <1>2, <1>5, <2>1 DEF RevokeWrite, StandsBy
<1>6. ASSUME NEW n \in Notices, RevokePush(r, n)
      PROVE  StandsBy(r)
  BY <1>2, <1>6 DEF RevokePush, StandsBy
<1>7. ASSUME NEW n \in Notices, PublishWrite(r, n)
      PROVE  Carries(r, n)
  <2>1. Taking(r, n) /\ Opening(r, n) /\ api[r].ids = {n}
    BY <1>7 DEF PublishWrite, At, Taking, Opening
  <2>2. row'[n].sendStatus = Pending /\ \A k \in Notices \ {n} : row'[k] = row[k]
    BY <1>1, <1>7 DEF PublishWrite, Update, Row
  <2> QED BY <1>2, <1>7, <2>1, <2>2 DEF PublishWrite, Carries
<1>8. ASSUME NEW n \in Notices, RetryWrite(r, n)
      PROVE  Carries(r, n)
  <2>1. Taking(r, n) /\ Opening(r, n) /\ api[r].ids = {n}
    BY <1>8 DEF RetryWrite, At, Taking, Opening
  <2>2. row'[n].sendStatus = Pending /\ \A k \in Notices \ {n} : row'[k] = row[k]
    BY <1>1, <1>8 DEF RetryWrite, SetSendStatus, Update, Row
  <2> QED BY <1>2, <1>8, <2>1, <2>2 DEF RetryWrite, Carries
<1>9. ASSUME NEW n \in Notices, PublishSendFails(r, n) \/ RetrySendFails(r, n)
      PROVE  Carries(r, n) \/ Arrives(r, n)
  <2>1. /\ Taking(r, n) /\ InHand(r, n) /\ api[r].ids = {n}
        /\ row' = row /\ SendFails(n, 0, SendAt(r))
        /\ api'[r].pc \in {"publishDone", "publishFail", "retryFail"} /\ api'[r].ids = {n}
    BY <1>2, <1>9 DEF PublishSendFails, RetrySendFails, At, Taking, InHand
  <2>2. CASE UNCHANGED <<mq, faults>>
    BY <2>1, <2>2 DEF Carries
  <2>3. CASE /\ "arrive" \in mix /\ faults' = faults + 1
             /\ \E f \in Messages : Landed(f, Message(n, 0, SendAt(r)))
    <3>1. PICK f \in Messages : Landed(f, Message(n, 0, SendAt(r)))
      BY <2>3
    <3>2. mq'[f].notice = n /\ \A m \in Messages \ {f} : mq'[m] = mq[m]
      BY <3>1 DEF Landed, Message
    <3> QED BY <2>1, <2>3, <3>2 DEF Arrives
  <2> QED BY <2>1, <2>2, <2>3, SendFailsCases
<1>10. ASSUME NEW n \in Notices, PublishDone(r, n) \/ PublishFail(r, n) \/ RetryFail(r, n)
       PROVE  Carries(r, n)
  <2>1. Taking(r, n) /\ InHand(r, n) /\ api[r].ids = {n}
    BY <1>10 DEF PublishDone, PublishFail, RetryFail, At, Taking, InHand
  <2>2. \A k \in Notices \ {n} : row'[k] = row[k]
    BY <1>10 DEF PublishDone, PublishFail, RetryFail, SetSendStatus, Update, TypeOK
  <2>3. mq' = mq /\ faults' = faults /\ api'[r].pc = "idle"
    BY <1>2, <1>10 DEF PublishDone, PublishFail, RetryFail
  <2> QED BY <2>1, <2>2, <2>3 DEF Carries
<1>11. ASSUME NEW n \in Notices, PublishSend(r, n) \/ RetrySend(r, n)
       PROVE  HandsOver(r, n)
  <2>1. /\ Taking(r, n) /\ Send(n, 0, SendAt(r)) /\ Return(r) /\ row' = row /\ faults' = faults
        /\ api[r].pc \in {"publishSend", "retrySend"} /\ api[r].ids = {n}
    BY <1>11 DEF PublishSend, RetrySend, At, Taking
  <2>2. SendAt(r) \in Nat
    BY DEF SendAt, Later, Request, TypeOK
  <2> QED BY <2>1, <2>2 DEF HandsOver
<1> QED BY <1>3, <1>4, <1>5, <1>6, <1>7, <1>8, <1>9, <1>10, <1>11 DEF Proceed

\* The request in hand moves the notice on: from open to in hand, from in hand to
\* a message or to settled, which may be open again.
LEMMA ProceedPays ==
  ASSUME OnePerNotice, TypeOK, Addressed, RetryBudget, DraftInv, PaidInv,
         NEW r \in Requests, Proceed(r), NEW n \in Notices
  PROVE  PaidFor(n)'
<1>1. [Next]_vars /\ Frame(r) /\ PaidFor(n) /\ faults \in Nat
  BY ProceedFrame, NoticeAssumption DEF Next, PaidInv, TypeOK
<1>2. Drafted(n)' => Drafted(n)
  BY <1>1, DraftStable DEF Drafted, DraftedNext
<1>3. DraftInv'
  BY <1>1, DraftStep
<1>4. mq' = mq => Fewer(n)
  BY DEF Fewer, MessagesFor
<1>5. CASE StandsBy(r)
  <2>1. \A q \in Requests : /\ InHand(q, n)' => InHand(q, n)
                            /\ Opening(q, n)' => Opening(q, n)
    BY <1>1, <1>5 DEF StandsBy, Frame, InHand, Opening
  <2>2. Lighter(n)
    BY <1>2, <1>5, <2>1 DEF Lighter, Handling, Open, StandsBy
  <2> QED BY <1>1, <1>4, <1>5, <2>2, LighterWeight, Paying DEF StandsBy
<1>6. ASSUME NEW k \in Notices, Carries(r, k)
      PROVE  PaidFor(n)'
  <2>1. mq' = mq /\ faults' = faults /\ api[r].ids = {k}
    BY <1>6 DEF Carries
  <2>2. CASE n # k
    <3>1. api'[r].pc = "idle" \/ api'[r].ids = api[r].ids
      BY <1>6 DEF Carries
    <3> QED BY <1>1, <1>4, <2>1, <2>2, <3>1, OtherWeight, LighterWeight, Paying
  <2>3. CASE n = k
    <3>1. /\ Handling(n) <=> InHand(r, n)
          /\ Handling(n)' <=> InHand(r, n)'
          /\ Open(n)' => Drafted(n)' \/ row'[n].sendStatus = Failed \/ Opening(r, n)'
      BY <1>1, <2>1, <2>3, OwnWeight
    <3>2. CASE Opening(r, n) /\ api'[r].pc \in {"publishSend", "retrySend"}
      <4>1. row'[n].sendStatus = Pending /\ n \in api'[r].ids
        BY <1>6, <2>3, <3>2 DEF Carries, Opening, InHand
      <4>2. ~Drafted(n)'
        BY <1>3, <3>2, <4>1 DEF DraftInv
      <4>3. ~Open(n)' /\ Open(n) /\ ~Handling(n)
        BY <3>1, <3>2, <4>1, <4>2, Statuses DEF Opening, InHand, Open
      <4>4. Weight(n)' <= Weight(n)
        BY <4>3 DEF Weight
      <4> QED BY <1>1, <1>4, <2>1, <4>4, Paying
    <3>3. CASE InHand(r, n) /\ api'[r].pc = "idle"
      <4>1. Handling(n) /\ ~Handling(n)'
        BY <3>1, <3>3 DEF InHand
      <4>2. Weight(n)' <= Weight(n)
        BY <4>1 DEF Weight
      <4> QED BY <1>1, <1>4, <2>1, <4>2, Paying
    <3>4. CASE /\ InHand(r, n) /\ row' = row
               /\ api'[r].pc \in {"publishDone", "publishFail", "retryFail"}
      <4>1. Lighter(n)
        BY <3>1, <3>4 DEF Lighter, Open, Opening, Drafted
      <4> QED BY <1>1, <1>4, <2>1, <4>1, LighterWeight, Paying
    <3> QED BY <1>6, <2>3, <3>2, <3>3, <3>4 DEF Carries
  <2> QED BY <2>2, <2>3
<1>7. ASSUME NEW k \in Notices, HandsOver(r, k)
      PROVE  PaidFor(n)'
  <2>1. api[r].ids = {k} /\ row' = row /\ faults' = faults /\ api'[r].pc = "idle"
    BY <1>7 DEF HandsOver, Return, IdleRequest, TypeOK
  <2>2. PICK t \in Nat : Send(k, 0, t)
    BY <1>7 DEF HandsOver
  <2>3. PICK x \in Messages : mq' = [mq EXCEPT ![x] = Message(k, 0, t)]
    BY <2>2 DEF Send
  <2>4. mq'[x].notice = k /\ \A m \in Messages \ {x} : mq'[m] = mq[m]
    BY <2>3 DEF Message, TypeOK
  <2>5. CASE n # k
    <3>1. Fewer(n)
      BY <2>4, <2>5 DEF Fewer, MessagesFor
    <3> QED BY <1>1, <2>1, <2>5, <3>1, OtherWeight, LighterWeight, Paying
  <2>6. CASE n = k
    <3>1. /\ Handling(n) <=> InHand(r, n)
          /\ Handling(n)' <=> InHand(r, n)'
          /\ Open(n)' => Drafted(n)' \/ row'[n].sendStatus = Failed \/ Opening(r, n)'
      BY <1>1, <2>1, <2>6, OwnWeight
    <3>2. Handling(n) /\ ~Handling(n)' /\ (Open(n)' => Open(n))
      BY <1>7, <2>1, <2>6, <3>1 DEF HandsOver, InHand, Opening, Open, Drafted
    <3>3. Weight(n)' + 1 <= Weight(n)
      BY <3>2 DEF Weight
    <3>4. More(n)
      BY <2>4 DEF More, MessagesFor
    <3> QED BY <1>1, <2>1, <3>3, <3>4, Paying
  <2> QED BY <2>5, <2>6
<1>8. ASSUME NEW k \in Notices, Arrives(r, k)
      PROVE  PaidFor(n)'
  <2>1. /\ api[r].ids = {k} /\ api'[r].ids = {k} /\ row' = row /\ faults' = faults + 1
        /\ api'[r].pc \in {"publishDone", "publishFail", "retryFail"}
    BY <1>8 DEF Arrives
  <2>2. More(n)
    BY <1>8 DEF Arrives, More, MessagesFor
  <2>3. Lighter(n)
    <3>1. CASE n # k
      BY <1>1, <2>1, <3>1, OtherWeight
    <3>2. CASE n = k
      <4>1. /\ Handling(n) <=> InHand(r, n)
            /\ Open(n)' => Drafted(n)' \/ row'[n].sendStatus = Failed \/ Opening(r, n)'
        BY <1>1, <2>1, <3>2, OwnWeight
      <4> QED BY <1>8, <2>1, <3>2, <4>1 DEF Arrives, Lighter, Open, Opening, Drafted
    <3> QED BY <3>1, <3>2
  <2> QED BY <1>1, <2>1, <2>2, <2>3, LighterWeight, Paying
<1> QED BY <1>5, <1>6, <1>7, <1>8, ProceedKinds

\* A consumer ends the message it handles, and what it then writes opens the
\* notice at most once; the next attempt takes the message's place.
LEMMA ConsumePays ==
  ASSUME TypeOK, Addressed, RetryBudget, DraftInv, PaidInv,
         NEW m \in Messages, Consume(m), NEW n \in Notices
  PROVE  PaidFor(n)'
<1>1. [Next]_vars /\ PaidFor(n) /\ faults \in Nat /\ mq[m] \in Slot /\ row \in [Notices -> Row]
  BY NoticeAssumption DEF Next, PaidInv, TypeOK
<1>2. Drafted(n)' => Drafted(n)
  BY <1>1, DraftStable DEF Drafted, DraftedNext
<1>3. ASSUME api' = api, row'[n].sendStatus = Failed => row[n].sendStatus = Failed
      PROVE  Lighter(n)
  BY <1>2, <1>3 DEF Lighter, Handling, Open, InHand, Opening
<1>4. ASSUME \A x \in Messages \ {m} : mq'[x] = mq[x],
             mq'[m].pc \notin {"free", "ack", "nack", "dead"} =>
               /\ mq'[m].notice = mq[m].notice
               /\ mq[m].pc \notin {"free", "ack", "nack", "dead"}
      PROVE  Fewer(n)
  BY <1>4 DEF Fewer, MessagesFor
<1>5. ASSUME Fewer(n), Lighter(n), faults' = faults PROVE PaidFor(n)'
  BY <1>1, <1>5, LighterWeight, Paying
<1>6. CASE Handle(m)
  <2>1. /\ api' = api /\ row' = row /\ faults' = faults /\ \A x \in Messages \ {m} : mq'[x] = mq[x]
        /\ mq'[m].notice = mq[m].notice /\ mq[m].pc = "queued"
    BY <1>1, <1>6 DEF Handle, TypeOK, Slot
  <2> QED BY <1>3, <1>4, <1>5, <2>1
<1>7. CASE Push(m) \/ Catch(m)
  <2>1. /\ api' = api /\ row' = row /\ faults' = faults /\ \A x \in Messages \ {m} : mq'[x] = mq[x]
        /\ mq'[m].notice = mq[m].notice /\ mq[m].pc \in {"push", "mark"}
    BY <1>1, <1>7 DEF Push, Catch, TypeOK, Slot
  <2> QED BY <1>3, <1>4, <1>5, <2>1
<1>8. CASE Promote(m)
  <2>1. /\ api' = api /\ faults' = faults /\ \A x \in Messages \ {m} : mq'[x] = mq[x]
        /\ mq'[m].notice = mq[m].notice /\ mq[m].pc = "promote"
    BY <1>1, <1>8 DEF Promote, TypeOK, Slot
  <2>2. row'[n].sendStatus = row[n].sendStatus
    BY <1>1, <1>8 DEF Promote, Update, Row
  <2> QED BY <1>3, <1>4, <1>5, <2>1, <2>2
<1>9. CASE Expire(m) \/ Mark(m)
  <2>1. /\ api' = api /\ faults' = faults /\ \A x \in Messages \ {m} : mq'[x] = mq[x]
        /\ mq'[m].pc = "ack"
    BY <1>1, <1>9 DEF Expire, Mark, TypeOK, Slot
  <2>2. row'[n].sendStatus \in {row[n].sendStatus, Expired, Done}
    <3>1. CASE n # mq[m].notice
      BY <1>1, <1>9, <3>1 DEF Expire, Mark, SetSendStatus, Update
    <3>2. CASE n = mq[m].notice /\ Expire(m)
      BY <1>1, <3>2 DEF Expire, Update, Row
    <3>3. CASE n = mq[m].notice /\ Mark(m)
      BY <1>1, <3>3 DEF Mark, SetSendStatus, Update, Row
    <3> QED BY <1>9, <3>1, <3>2, <3>3
  <2> QED BY <1>3, <1>4, <1>5, <2>1, <2>2, Statuses
<1>10. CASE GiveUp(m)
  <2>1. /\ api' = api /\ faults' = faults /\ \A x \in Messages \ {m} : mq'[x] = mq[x]
        /\ mq'[m].pc = "nack" /\ mq[m].pc = "giveUp"
    BY <1>1, <1>10 DEF GiveUp, TypeOK, Slot
  <2>2. CASE mq[m].notice # n
    <3>1. row'[n] = row[n]
      BY <1>1, <1>10, <2>2 DEF GiveUp, SetSendStatus, Update
    <3> QED BY <1>3, <1>4, <1>5, <2>1, <3>1
  <2>3. CASE mq[m].notice = n
    <3>1. Drops(n)
      BY <2>1, <2>3 DEF Drops, MessagesFor
    <3>2. Handling(n)' <=> Handling(n)
      BY <2>1 DEF Handling, InHand
    <3>3. Weight(n)' <= Weight(n) + 1
      BY <3>2 DEF Weight
    <3> QED BY <1>1, <2>1, <3>1, <3>3, Paying
  <2> QED BY <2>2, <2>3
<1>11. CASE Resend(m) \/ ResendFails(m)
  <2>1. UNCHANGED <<row, api>>
    BY <1>11 DEF Resend, ResendFails
  <2>2. Lighter(n)
    BY <1>3, <2>1
  <2>3. /\ mq[m].pc = "failed" /\ mq'[m].pc \in {"ack", "giveUp"} /\ mq'[m].notice = mq[m].notice
    BY <1>11, ResendSlots
  <2>4. CASE (\A x \in Messages \ {m} : mq'[x] = mq[x]) /\ faults' = faults
    BY <1>4, <1>5, <2>2, <2>3, <2>4
  <2>5. CASE /\ \/ mq'[m] = [mq[m] EXCEPT !.pc = "ack"] /\ faults' = faults
                \/ "arrive" \in mix /\ faults' = faults + 1
             /\ \E f \in Messages \ {m} :
                  /\ mq[f].pc = "free" /\ mq'[f] = Attempt(m)
                  /\ \A x \in Messages \ {m, f} : mq'[x] = mq[x]
    <3>1. PICK f \in Messages \ {m} : /\ mq'[f] = Attempt(m)
                                      /\ \A x \in Messages \ {m, f} : mq'[x] = mq[x]
      BY <2>5
    <3>2. mq'[f].notice = mq[m].notice
      BY <3>1 DEF Attempt, Message
    <3>3. More(n)
      BY <2>3, <3>1 DEF More, MessagesFor
    <3>4. mq'[m].pc = "ack" => Fewer(n) \/ Swaps(n)
      <4>1. CASE mq[m].notice = n /\ mq'[m].pc = "ack"
        BY <2>3, <3>1, <4>1 DEF Swaps, MessagesFor
      <4>2. CASE mq[m].notice # n /\ mq'[m].pc = "ack"
        BY <2>3, <3>1, <3>2, <4>2 DEF Fewer, MessagesFor
      <4> QED BY <4>1, <4>2
    <3>5. faults' = faults + 1 \/ (mq'[m].pc = "ack" /\ faults' = faults)
      <4>1. mq'[m] = [mq[m] EXCEPT !.pc = "ack"] => mq'[m].pc = "ack"
        BY <1>1 DEF Slot
      <4> QED BY <2>5, <4>1
    <3> QED BY <1>1, <2>2, <3>3, <3>4, <3>5, LighterWeight, Paying
  <2> QED BY <1>11, <2>4, <2>5, ResendEffect
<1>12. CASE Settle(m) \/ HandleDead(m)
  <2>1. /\ api' = api /\ row' = row /\ faults' = faults /\ \A x \in Messages \ {m} : mq'[x] = mq[x]
        /\ mq'[m].pc \in {"free", "dead"}
    <3>1. CASE Settle(m)
      BY <1>1, <3>1 DEF Settle, FreeSlot, TypeOK, Slot
    <3>2. CASE HandleDead(m)
      BY <1>1, <3>2 DEF HandleDead, FreeSlot, TypeOK, Slot
    <3> QED BY <1>12, <3>1, <3>2
  <2> QED BY <1>3, <1>4, <1>5, <2>1
<1> QED BY <1>6, <1>7, <1>8, <1>9, <1>10, <1>11, <1>12 DEF Consume

LEMMA PaidStep ==
  ASSUME OnePerNotice, TypeOK, Addressed, RetryBudget, DraftInv, PaidInv, [Next]_vars,
         NEW n \in Notices
  PROVE  PaidFor(n)'
<1>1. PaidFor(n) /\ faults \in Nat
  BY NoticeAssumption DEF PaidInv, TypeOK
<1>2. mq' = mq => Fewer(n) /\ More(n)
  BY DEF Fewer, More, MessagesFor
<1>3. ASSUME row' = row, api' = api
      PROVE  Lighter(n)
  BY <1>3 DEF Lighter, Handling, Open, InHand, Opening, Drafted
<1>4. ASSUME NEW k \in Notices, Create(k) PROVE PaidFor(n)'
  <2>1. /\ mq' = mq /\ api' = api /\ faults' = faults
        /\ Drafted(k) /\ \A x \in Notices \ {k} : row'[x] = row[x]
    BY <1>4 DEF Create, Update, DraftInv, TypeOK
  <2>2. Lighter(n)
    BY <2>1 DEF Lighter, Handling, Open, InHand, Opening, Drafted
  <2> QED BY <1>1, <1>2, <2>1, <2>2, LighterWeight, Paying
<1>5. ASSUME NEW r \in Requests, Arrive(r) PROVE PaidFor(n)'
  <2>1. UNCHANGED <<mq, row, faults>> /\ \A q \in Requests \ {r} : api'[q] = api[q]
    BY <1>5 DEF Arrive, UpdateRead, RemoveRead, PublishRead, RevokeRead, RetryRead,
       RemoveBatchRead, Begin, TypeOK
  <2>2. api'[r].pc \in {"update", "remove", "publish", "revoke", "retry"}
    BY <1>5 DEF Arrive, UpdateRead, RemoveRead, PublishRead, RevokeRead, RetryRead,
       RemoveBatchRead, Begin, TypeOK
  <2>3. ASSUME Opening(r, n)' PROVE Drafted(n) \/ row[n].sendStatus = Failed
    <3>1. ASSUME NEW k \in Notices, PublishRead(r, k) PROVE Drafted(k) /\ api'[r].ids = {k}
      BY <3>1 DEF PublishRead, MayPublish, Begin, Drafted, TypeOK, Row
    <3>2. ASSUME NEW k \in Notices, RetryRead(r, k)
          PROVE  row[k].sendStatus = Failed /\ api'[r].ids = {k}
      BY <3>2 DEF RetryRead, MayRetry, Begin, TypeOK
    <3>3. CASE \/ \E k \in Notices : UpdateRead(r, k) \/ RemoveRead(r, k) \/ RevokeRead(r, k)
               \/ \E ids \in SUBSET Notices : RemoveBatchRead(r, ids)
      <4>1. api'[r].pc \in {"update", "remove", "revoke"}
        BY <3>3 DEF UpdateRead, RemoveRead, RevokeRead, RemoveBatchRead, Begin, TypeOK
      <4> QED BY <2>3, <4>1 DEF Opening
    <3> QED BY <1>5, <2>3, <3>1, <3>2, <3>3 DEF Arrive, Opening
  <2>4. Lighter(n)
    BY <2>1, <2>2, <2>3 DEF Lighter, Handling, Open, InHand, Opening, Drafted
  <2> QED BY <1>1, <1>2, <2>1, <2>4, LighterWeight, Paying
<1>6. ASSUME NEW r \in Requests, Abort(r) PROVE PaidFor(n)'
  <2>1. /\ mq' = mq /\ row' = row /\ faults' = faults + 1 /\ api'[r].pc = "idle"
        /\ \A q \in Requests \ {r} : api'[q] = api[q]
    BY <1>6 DEF Abort, Return, IdleRequest, TypeOK
  <2>2. Lighter(n)
    BY <2>1 DEF Lighter, Handling, Open, InHand, Opening, Drafted
  <2> QED BY <1>1, <1>2, <2>1, <2>2, LighterWeight, Paying
<1>7. ASSUME NEW m \in Messages, Redeliver(m) PROVE PaidFor(n)'
  <2>1. /\ row' = row /\ api' = api /\ faults' = faults + 1
        /\ \A x \in Messages \ {m} : mq'[x] = mq[x]
    BY <1>7 DEF Redeliver, TypeOK
  <2>2. More(n)
    BY <2>1 DEF More, MessagesFor
  <2> QED BY <1>1, <1>3, <2>1, <2>2, LighterWeight, Paying
<1>8. CASE Tick \/ UNCHANGED vars
  <2>1. mq' = mq /\ row' = row /\ api' = api /\ faults' = faults
    BY <1>8 DEF Tick, vars
  <2> QED BY <1>1, <1>2, <1>3, <2>1, LighterWeight, Paying
<1> QED BY <1>4, <1>5, <1>6, <1>7, <1>8, ProceedPays, ConsumePays DEF Next

\* Of a notice at most one request is in hand.
LEMMA PaidCounts ==
  ASSUME OnePerNotice, NEW n \in Notices, PaidFor(n), faults \in Nat
  PROVE  Cardinality(MessagesFor(n)) + Cardinality(RequestsFor(n)) <= 1 + faults
<1>1. \A p, q \in RequestsFor(n) : p = q
  BY DEF RequestsFor, OnePerNotice
<1>2. CASE RequestsFor(n) = {}
  <2>1. Cardinality(RequestsFor(n)) = 0
    BY <1>2, FS_EmptySet
  <2> QED BY <2>1, Counting DEF PaidFor, Weight
<1>3. CASE RequestsFor(n) # {}
  <2>1. PICK r : r \in RequestsFor(n)
    BY <1>3
  <2>2. RequestsFor(n) = {r}
    BY <1>1, <2>1
  <2>3. Cardinality({r}) = 1
    BY FS_Singleton
  <2>4. Cardinality(RequestsFor(n)) = 1
    BY <2>2, <2>3, Zenon
  <2>5. Handling(n)
    BY <2>1 DEF Handling, InHand, RequestsFor
  <2> QED BY <2>4, <2>5, Counting DEF PaidFor, Weight
<1> QED BY <1>2, <1>3

\* While no two requests about one notice overlap, a notice has at most as many
\* carriers as one and the faults so far, for any number of notices, requests,
\* messages and faults, any failures of pushes and sends, and whatever requests
\* and consumers do to other notices in between: publish, retry, the fallback
\* and the consumer's resend hand a notice over and never duplicate it.
THEOREM CarriersArePaidFor == Spec /\ []OnePerNotice => []OneCarrierPerFault
<1>1. Init => PaidInv
  <2> SUFFICES ASSUME Init, NEW n \in Notices PROVE PaidFor(n)
    BY DEF PaidInv
  <2>1. MessagesFor(n) = {} /\ ~Handling(n) /\ faults = 0
    BY DEF Init, MessagesFor, Handling, InHand, FreeSlot, IdleRequest
  <2>2. IsFiniteSet({}) /\ Cardinality({}) = 0
    BY FS_EmptySet
  <2> QED BY <2>1, <2>2 DEF PaidFor, Weight
<1>2. OnePerNotice /\ TypeOK /\ Addressed /\ RetryBudget /\ DraftInv /\ PaidInv /\ [Next]_vars
        => DraftInv' /\ PaidInv'
  BY PaidStep, DraftStep DEF PaidInv
<1>3. OnePerNotice /\ TypeOK /\ PaidInv => OneCarrierPerFault
  BY PaidCounts, NoticeAssumption DEF PaidInv, OneCarrierPerFault, TypeOK
<1> QED BY <1>1, <1>2, <1>3, DraftInit, TypeCorrect, PTL DEF Spec

-----------------------------------------------------------------------------
(* A timed notice is not early.                                             *)

\* Notice n has a send time that counts.
Waiting(n) == row[n].sendMode = Timed /\ ~row[n].revokeTime

\* The message in slot m is not due before that time; one that was delivered
\* is due.
Dated(m) ==
  mq[m].pc # "free" =>
    /\ Waiting(mq[m].notice) => row[mq[m].notice].sendTime <= mq[m].due
    /\ mq[m].pc # "queued" => mq[m].due <= now

\* What request r read of notice n still holds.
Snapshot(r, n) ==
  n \in api[r].ids =>
    /\ api[r].pc \in {"publish", "publishSend", "retry", "retrySend"} =>
         api[r].mode = row[n].sendMode /\ api[r].time = row[n].sendTime
    /\ api[r].pc = "update" => row[n].revokeTime \/ row[n].publishStatus = Draft

TimedInv ==
  /\ \A n \in Notices : row[n].publishStatus = Revoked => row[n].revokeTime
  /\ \A m \in Messages : Dated(m)
  /\ \A r \in Requests, n \in Notices : Snapshot(r, n)

\* A step leaves the schedule of notice n, or nobody depends on it.
KeepsSchedule(n) ==
  /\ row'[n].sendMode = row[n].sendMode
  /\ row'[n].sendTime = row[n].sendTime
  /\ row[n].revokeTime => row'[n].revokeTime
  /\ row'[n].publishStatus = Revoked => row[n].publishStatus = Revoked \/ row'[n].revokeTime

SetsSchedule(n) ==
  /\ row'[n].publishStatus = Revoked => row'[n].revokeTime
  /\ row'[n].revokeTime \/ \A m \in Messages : mq'[m].pc # "free" => mq'[m].notice # n

\* A step leaves the date of slot m, and delivers only what is due.
KeepsDate(m) ==
  mq'[m].pc # "free" =>
    /\ mq[m].pc # "free"
    /\ mq'[m].notice = mq[m].notice
    /\ mq'[m].due = mq[m].due
    /\ mq'[m].pc # "queued" => mq[m].pc # "queued" \/ mq[m].due <= now

LEMMA TimedFrame ==
  ASSUME TypeOK, Addressed, TimedInv, now' \in Nat, now <= now',
         \A n \in Notices : KeepsSchedule(n) \/ SetsSchedule(n),
         \A m \in Messages : KeepsDate(m) \/ Dated(m)',
         \A r \in Requests, n \in Notices : Snapshot(r, n)'
  PROVE  TimedInv'
<1>1. \A n \in Notices : row'[n].publishStatus = Revoked => row'[n].revokeTime
  BY DEF TimedInv, KeepsSchedule, SetsSchedule
<1>2. ASSUME NEW m \in Messages PROVE Dated(m)'
  <2> SUFFICES ASSUME KeepsDate(m), mq'[m].pc # "free" PROVE Dated(m)'
    BY DEF Dated
  <2> DEFINE n == mq[m].notice
  <2>1. /\ mq[m].pc # "free" /\ mq'[m].notice = n /\ mq'[m].due = mq[m].due
        /\ mq'[m].pc # "queued" => mq[m].pc # "queued" \/ mq[m].due <= now
    BY DEF KeepsDate
  <2>2. n \in Notices /\ mq[m].due \in Nat /\ now \in Nat
    BY <2>1, NoticeAssumption DEF Addressed, TypeOK, Slot
  <2>3. Dated(m)
    BY DEF TimedInv
  <2>4. mq'[m].pc # "queued" => mq'[m].due <= now'
    BY <2>1, <2>2, <2>3 DEF Dated
  <2>5. Waiting(n)' => row'[n].sendTime <= mq'[m].due
    <3>1. CASE KeepsSchedule(n)
      BY <2>1, <2>3, <3>1 DEF Dated, Waiting, KeepsSchedule
    <3>2. CASE SetsSchedule(n)
      BY <2>1, <3>2 DEF Waiting, SetsSchedule
    <3> QED BY <2>2, <3>1, <3>2
  <2> QED BY <2>1, <2>4, <2>5 DEF Dated, Waiting
<1> QED BY <1>1, <1>2 DEF TimedInv

\* Nothing has a message for a draft, which is where a schedule is set.
LEMMA TimedCreate ==
  ASSUME TypeOK, Addressed, DraftInv, TimedInv, NEW n \in Notices, Create(n)
  PROVE  TimedInv'
<1>1. /\ row[n].publishStatus = Draft /\ row'[n].publishStatus = Draft
      /\ \A k \in Notices \ {n} : row'[k] = row[k]
      /\ UNCHANGED <<mq, api, now>>
  BY DEF Create, Update, AbsentRow, DraftInv, Drafted, TypeOK
<1>2. SetsSchedule(n)
  BY <1>1, Statuses DEF SetsSchedule, DraftInv, Drafted
<1>3. \A k \in Notices \ {n} : KeepsSchedule(k)
  BY <1>1 DEF KeepsSchedule
<1>4. \A m \in Messages : KeepsDate(m)
  BY <1>1 DEF KeepsDate
<1>5. \A r \in Requests : n \in api[r].ids =>
        api[r].pc \notin {"publish", "publishSend", "retry", "retrySend"}
  BY <1>1 DEF DraftInv, Drafted, Create
<1>6. \A r \in Requests, k \in Notices : Snapshot(r, k)'
  BY <1>1, <1>5 DEF TimedInv, Snapshot
<1> QED BY <1>1, <1>2, <1>3, <1>4, <1>6, TimedFrame DEF TypeOK

LEMMA TimedArrive ==
  ASSUME TypeOK, Addressed, TimedInv, NEW r \in Requests, Arrive(r)
  PROVE  TimedInv'
<1>1. /\ UNCHANGED <<mq, row, now>>
      /\ \A q \in Requests \ {r} : api'[q] = api[q]
  BY DEF Arrive, UpdateRead, RemoveRead, PublishRead, RevokeRead, RetryRead, RemoveBatchRead,
     Begin, TypeOK
<1>2. ASSUME NEW n \in Notices PROVE Snapshot(r, n)'
  <2>1. CASE \E k \in Notices : PublishRead(r, k) \/ RetryRead(r, k)
    <3>1. PICK k \in Notices : PublishRead(r, k) \/ RetryRead(r, k)
      BY <2>1
    <3>2. /\ api'[r].pc \in {"publish", "retry"} /\ api'[r].ids = {k}
          /\ api'[r].mode = row[k].sendMode /\ api'[r].time = row[k].sendTime
      BY <3>1 DEF PublishRead, RetryRead, Begin, TypeOK
    <3> QED BY <1>1, <3>2 DEF Snapshot
  <2>2. CASE \E k \in Notices : UpdateRead(r, k)
    <3>1. PICK k \in Notices : UpdateRead(r, k)
      BY <2>2
    <3>2. api'[r].pc = "update" /\ api'[r].ids = {k} /\ MayEdit(k)
      BY <3>1 DEF UpdateRead, Begin, TypeOK
    <3>3. row[k].publishStatus \in {Draft, Revoked}
      BY <3>2 DEF MayEdit, Active, TypeOK, Row
    <3>4. row[k].revokeTime \/ row[k].publishStatus = Draft
      BY <3>3 DEF TimedInv
    <3> QED BY <1>1, <3>2, <3>4 DEF Snapshot
  <2>3. CASE \/ \E k \in Notices : RemoveRead(r, k) \/ RevokeRead(r, k)
             \/ \E ids \in SUBSET Notices : RemoveBatchRead(r, ids)
    <3>1. api'[r].pc \in {"remove", "revoke"}
      BY <2>3 DEF RemoveRead, RevokeRead, RemoveBatchRead, Begin, TypeOK
    <3> QED BY <3>1 DEF Snapshot
  <2> QED BY <2>1, <2>2, <2>3 DEF Arrive
<1>3. \A q \in Requests \ {r}, n \in Notices : Snapshot(q, n)'
  BY <1>1 DEF Snapshot, TimedInv
<1>4. \A n \in Notices : KeepsSchedule(n)
  BY <1>1 DEF KeepsSchedule
<1>5. \A m \in Messages : KeepsDate(m)
  BY <1>1 DEF KeepsDate
<1> QED BY <1>1, <1>2, <1>3, <1>4, <1>5, TimedFrame, NoticeAssumption DEF TypeOK

\* A request's write: it has forgotten what it read, or the schedule is as it
\* was then.
LEMMA TimedRequest ==
  ASSUME OnePerNotice, TypeOK, Addressed, TimedInv, NEW r \in Requests, now' = now, Frame(r),
         \A n \in Notices : KeepsSchedule(n) \/ SetsSchedule(n),
         \A m \in Messages : KeepsDate(m) \/ Dated(m)',
         \/ api'[r].pc \notin {"publish", "publishSend", "retry", "retrySend", "update"}
         \/ /\ api[r].pc \in {"publish", "retry"} /\ api'[r].pc # "update"
            /\ api'[r].ids = api[r].ids /\ api'[r].mode = api[r].mode
            /\ api'[r].time = api[r].time
            /\ \A n \in Notices : KeepsSchedule(n)
  PROVE  TimedInv'
<1>1. \A q \in Requests \ {r}, n \in Notices : Snapshot(q, n)'
  <2> SUFFICES ASSUME NEW q \in Requests \ {r}, NEW n \in Notices, n \in api[q].ids
               PROVE  Snapshot(q, n)'
    BY DEF Snapshot, Frame
  <2>1. api'[q] = api[q] /\ row'[n] = row[n]
    BY DEF OnePerNotice, Frame
  <2> QED BY <2>1 DEF Snapshot, TimedInv
<1>2. \A n \in Notices : Snapshot(r, n)'
  BY DEF Snapshot, TimedInv, KeepsSchedule
<1> QED BY <1>1, <1>2, TimedFrame, NoticeAssumption DEF TypeOK

\* The message a request sends is due when the row it read says, whether or not
\* the send is answered.
LEMMA SentDated ==
  ASSUME TypeOK, TimedInv, NEW r \in Requests, NEW n \in Notices,
         api[r].pc \in {"publishSend", "retrySend"}, api[r].ids = {n}, row' = row, now' = now,
         NEW x \in Messages, Landed(x, Message(n, 0, SendAt(r)))
  PROVE  \A m \in Messages : KeepsDate(m) \/ Dated(m)'
<1>0. row \in [Notices -> Row] /\ mq \in [Messages -> Slot]
  BY DEF TypeOK
<1>1. api[r].mode = row[n].sendMode /\ api[r].time = row[n].sendTime
  BY DEF TimedInv, Snapshot
<1>2. row[n].sendTime \in 0 .. MaxTime /\ now \in Nat /\ MaxTime \in Nat
  BY <1>0, NoticeAssumption DEF TypeOK, Row
<1>3. Waiting(n) => row[n].sendTime <= Cap(SendAt(r))
  BY <1>1, <1>2 DEF Waiting, SendAt, Later, Cap
<1>4. Dated(x)'
  BY <1>0, <1>3 DEF Landed, Dated, Waiting, Message
<1>5. \A k \in Messages \ {x} : KeepsDate(k)
  BY <1>0 DEF Landed, KeepsDate
<1> QED BY <1>4, <1>5

LEMMA TimedProceed ==
  ASSUME OnePerNotice, TypeOK, Addressed, DraftInv, TimedInv, NEW r \in Requests, Proceed(r)
  PROVE  TimedInv'
<1> Frame(r)
  BY ProceedFrame
<1>0. row \in [Notices -> Row] /\ api \in [Requests -> Request] /\ mq \in [Messages -> Slot]
  BY DEF TypeOK
<1>1. /\ Return(r) => api'[r].pc = "idle"
      /\ \A pc : Goto(r, pc) => /\ api'[r].pc = pc /\ api'[r].ids = api[r].ids
                                /\ api'[r].mode = api[r].mode /\ api'[r].time = api[r].time
  BY <1>0 DEF Return, Goto, IdleRequest, Request
<1>2. mq' = mq => \A m \in Messages : KeepsDate(m)
  BY DEF KeepsDate
<1>3. row' = row => \A n \in Notices : KeepsSchedule(n)
  BY DEF KeepsSchedule
<1>4. ASSUME NEW n \in Notices, NEW s, SetSendStatus(n, s)
      PROVE  \A k \in Notices : KeepsSchedule(k)
  <2>1. \A k \in Notices \ {n} : row'[k] = row[k]
    BY <1>0, <1>4 DEF SetSendStatus, Update
  <2>2. KeepsSchedule(n)
    BY <1>0, <1>4 DEF SetSendStatus, Update, KeepsSchedule, Row
  <2> QED BY <2>1, <2>2 DEF KeepsSchedule
<1>5. CASE RemoveWrite(r)
  <2>1. \A n \in Notices : KeepsSchedule(n)
    BY <1>0, <1>5 DEF RemoveWrite, KeepsSchedule, Row
  <2>2. api'[r].pc = "idle" /\ mq' = mq /\ now' = now
    BY <1>1, <1>5 DEF RemoveWrite
  <2> QED BY <1>2, <2>1, <2>2, TimedRequest
<1>6. ASSUME NEW n \in Notices, UpdateWrite(r, n) PROVE TimedInv'
  <2>1. /\ \A k \in Notices \ {n} : row'[k] = row[k]
        /\ row'[n].revokeTime = row[n].revokeTime
        /\ row'[n].publishStatus = row[n].publishStatus
    BY <1>0, <1>6 DEF UpdateWrite, Update, Row
  <2>2. api'[r].pc = "idle" /\ mq' = mq /\ now' = now
    BY <1>1, <1>6 DEF UpdateWrite
  <2>3. row[n].revokeTime \/ row[n].publishStatus = Draft
    BY <1>6 DEF UpdateWrite, At, TimedInv, Snapshot
  <2>4. row[n].publishStatus = Draft => \A m \in Messages : mq[m].pc # "free" => mq[m].notice # n
    BY DEF DraftInv, Drafted
  <2>5. SetsSchedule(n)
    BY <2>1, <2>2, <2>3, <2>4 DEF SetsSchedule, TimedInv
  <2>6. \A k \in Notices \ {n} : KeepsSchedule(k)
    BY <2>1 DEF KeepsSchedule
  <2> QED BY <1>2, <2>2, <2>5, <2>6, TimedRequest
<1>7. ASSUME NEW n \in Notices, PublishWrite(r, n) PROVE TimedInv'
  <2>1. \A k \in Notices \ {n} : row'[k] = row[k]
    BY <1>0, <1>7 DEF PublishWrite, Update
  <2>2. KeepsSchedule(n)
    BY <1>0, <1>7, Statuses DEF PublishWrite, Update, Row, KeepsSchedule
  <2>3. \A k \in Notices : KeepsSchedule(k)
    BY <2>1, <2>2 DEF KeepsSchedule
  <2>4. Goto(r, "publishSend") /\ api[r].pc = "publish" /\ mq' = mq /\ now' = now
    BY <1>7 DEF PublishWrite, At
  <2> QED BY <1>1, <1>2, <2>3, <2>4, TimedRequest
<1>8. ASSUME NEW n \in Notices, PublishSend(r, n) \/ RetrySend(r, n) PROVE TimedInv'
  <2>1. /\ api[r].pc \in {"publishSend", "retrySend"} /\ api[r].ids = {n}
        /\ row' = row /\ now' = now /\ Send(n, 0, SendAt(r)) /\ Return(r)
    BY <1>8 DEF PublishSend, RetrySend, At
  <2>2. PICK x \in Messages : mq[x].pc = "free" /\ mq' = [mq EXCEPT ![x] = Message(n, 0, SendAt(r))]
    BY <2>1 DEF Send
  <2>3. Landed(x, Message(n, 0, SendAt(r)))
    BY <1>0, <2>2 DEF Landed
  <2>4. \A m \in Messages : KeepsDate(m) \/ Dated(m)'
    BY <2>1, <2>3, SentDated
  <2> QED BY <1>1, <1>3, <2>1, <2>4, TimedRequest
<1>9. ASSUME NEW n \in Notices, PublishSendFails(r, n) \/ RetrySendFails(r, n) PROVE TimedInv'
  <2>1. /\ api[r].pc \in {"publishSend", "retrySend"} /\ api[r].ids = {n}
        /\ row' = row /\ now' = now /\ SendFails(n, 0, SendAt(r))
    BY <1>9 DEF PublishSendFails, RetrySendFails, At
  <2>2. api'[r].pc \in {"publishDone", "publishFail", "retryFail"}
    BY <1>1, <1>9 DEF PublishSendFails, RetrySendFails
  <2>3. mq' = mq \/ \E x \in Messages : Landed(x, Message(n, 0, SendAt(r)))
    BY <2>1, SendFailsCases
  <2>4. \A m \in Messages : KeepsDate(m) \/ Dated(m)'
    BY <1>2, <2>1, <2>3, SentDated
  <2> QED BY <1>3, <2>1, <2>2, <2>4, TimedRequest
<1>10. ASSUME NEW n \in Notices, PublishDone(r, n) \/ PublishFail(r, n) \/ RetryFail(r, n)
       PROVE  TimedInv'
  <2>1. api'[r].pc = "idle" /\ mq' = mq /\ now' = now
    BY <1>1, <1>10 DEF PublishDone, PublishFail, RetryFail
  <2>2. \A k \in Notices : KeepsSchedule(k)
    BY <1>4, <1>10 DEF PublishDone, PublishFail, RetryFail
  <2> QED BY <1>2, <2>1, <2>2, TimedRequest
<1>11. ASSUME NEW n \in Notices, RevokeWrite(r, n) PROVE TimedInv'
  <2>1. \A k \in Notices \ {n} : row'[k] = row[k]
    BY <1>0, <1>11 DEF RevokeWrite, Update
  <2>2. KeepsSchedule(n)
    BY <1>0, <1>11 DEF RevokeWrite, Update, Row, KeepsSchedule
  <2>3. \A k \in Notices : KeepsSchedule(k)
    BY <2>1, <2>2 DEF KeepsSchedule
  <2>4. api'[r].pc \in {"idle", "revokePush"} /\ mq' = mq /\ now' = now
    BY <1>1, <1>11 DEF RevokeWrite
  <2> QED BY <1>2, <2>3, <2>4, TimedRequest
<1>12. ASSUME NEW n \in Notices, RevokePush(r, n) PROVE TimedInv'
  <2>1. api'[r].pc = "idle" /\ mq' = mq /\ now' = now /\ row' = row
    BY <1>1, <1>12 DEF RevokePush
  <2> QED BY <1>2, <1>3, <2>1, TimedRequest
<1>13. ASSUME NEW n \in Notices, RetryWrite(r, n) PROVE TimedInv'
  <2>1. \A k \in Notices : KeepsSchedule(k)
    BY <1>4, <1>13 DEF RetryWrite
  <2>2. Goto(r, "retrySend") /\ api[r].pc = "retry" /\ mq' = mq /\ now' = now
    BY <1>13 DEF RetryWrite, At
  <2> QED BY <1>1, <1>2, <2>1, <2>2, TimedRequest
<1> QED BY <1>5, <1>6, <1>7, <1>8, <1>9, <1>10, <1>11, <1>12, <1>13 DEF Proceed

\* A step of a consumer: it changes neither schedules nor drafts.
LEMMA TimedMessage ==
  ASSUME TypeOK, Addressed, DraftInv, TimedInv, NEW m \in Messages, api' = api, now' = now,
         \A k \in Messages \ {m} : mq'[k] = mq[k],
         KeepsDate(m),
         \A n \in Notices : KeepsSchedule(n),
         \A n \in Notices : row'[n].publishStatus # row[n].publishStatus => ~Drafted(n)
  PROVE  TimedInv'
<1>1. \A k \in Messages \ {m} : KeepsDate(k)
  BY DEF KeepsDate
<1>2. \A r \in Requests, n \in Notices : Snapshot(r, n)'
  BY DEF Snapshot, TimedInv, KeepsSchedule, Drafted
<1> QED BY <1>1, <1>2, TimedFrame, NoticeAssumption DEF TypeOK

LEMMA TimedConsume ==
  ASSUME TypeOK, Addressed, RetryBudget, DraftInv, TimedInv, NEW m \in Messages, Consume(m)
  PROVE  TimedInv'
<1> DEFINE n == mq[m].notice
<1>0. row \in [Notices -> Row] /\ mq \in [Messages -> Slot] /\ now \in Nat
  BY NoticeAssumption DEF TypeOK
<1>1. /\ mq[m].pc # "free" => n \in Notices /\ ~Drafted(n)
      /\ mq[m].pc \notin {"free", "queued"} => mq[m].due <= now
  BY DEF Addressed, DraftInv, TimedInv, Dated
<1>2. row' = row => \A k \in Notices : /\ KeepsSchedule(k)
                                       /\ row'[k].publishStatus = row[k].publishStatus
  BY DEF KeepsSchedule
<1>3. ASSUME api' = api, now' = now, \A k \in Messages \ {m} : mq'[k] = mq[k],
             mq[m].pc \notin {"free", "queued"},
             mq'[m].notice = n, mq'[m].due = mq[m].due,
             \A k \in Notices \ {n} : row'[k] = row[k],
             KeepsSchedule(n)
      PROVE  TimedInv'
  <2>1. KeepsDate(m)
    BY <1>1, <1>3 DEF KeepsDate
  <2>2. \A k \in Notices \ {n} : KeepsSchedule(k)
    BY <1>3 DEF KeepsSchedule
  <2>3. \A k \in Notices : row'[k].publishStatus # row[k].publishStatus => ~Drafted(k)
    BY <1>1, <1>3
  <2> QED BY <1>3, <2>1, <2>2, <2>3, TimedMessage
<1>4. CASE Handle(m)
  <2>1. /\ api' = api /\ now' = now /\ row' = row /\ \A k \in Messages \ {m} : mq'[k] = mq[k]
        /\ mq'[m].notice = n /\ mq'[m].due = mq[m].due /\ mq[m].pc = "queued" /\ mq[m].due <= now
    BY <1>0, <1>4 DEF Handle, Slot
  <2>2. KeepsDate(m)
    BY <2>1 DEF KeepsDate
  <2> QED BY <1>2, <2>1, <2>2, TimedMessage
<1>5. CASE Push(m) \/ Catch(m)
  <2>1. CASE Push(m)
    <3>1. /\ api' = api /\ now' = now /\ row' = row /\ \A k \in Messages \ {m} : mq'[k] = mq[k]
          /\ mq'[m].notice = n /\ mq'[m].due = mq[m].due /\ mq[m].pc = "push"
      BY <1>0, <2>1 DEF Push, Slot
    <3> QED BY <1>1, <1>2, <1>3, <3>1
  <2>2. CASE Catch(m)
    <3>1. /\ api' = api /\ now' = now /\ row' = row /\ \A k \in Messages \ {m} : mq'[k] = mq[k]
          /\ mq'[m].notice = n /\ mq'[m].due = mq[m].due /\ mq[m].pc \in {"push", "mark"}
      BY <1>0, <2>2 DEF Catch, Slot
    <3> QED BY <1>1, <1>2, <1>3, <3>1
  <2> QED BY <1>5, <2>1, <2>2
<1>6. ASSUME mq[m].pc \notin {"free", "queued"}, NEW pc, api' = api, now' = now,
             mq' = [mq EXCEPT ![m].pc = pc], NEW new, Update(n, new),
             new.sendMode = row[n].sendMode, new.sendTime = row[n].sendTime,
             new.revokeTime = row[n].revokeTime,
             new.publishStatus \in {row[n].publishStatus, Published}
      PROVE  TimedInv'
  <2>1. /\ \A k \in Messages \ {m} : mq'[k] = mq[k]
        /\ mq'[m].notice = n /\ mq'[m].due = mq[m].due
    BY <1>0, <1>6 DEF Slot
  <2>2. row'[n] = new /\ \A k \in Notices \ {n} : row'[k] = row[k]
    BY <1>0, <1>1, <1>6 DEF Update
  <2>3. KeepsSchedule(n)
    BY <1>6, <2>2, Statuses DEF KeepsSchedule
  <2> QED BY <1>3, <1>6, <2>1, <2>2, <2>3
<1>7. CASE Expire(m)
  <2> DEFINE new == IF mq[m].scheduled
                    THEN [row[n] EXCEPT !.publishStatus = Published, !.publishTime = now,
                                        !.sendStatus = Expired]
                    ELSE [row[n] EXCEPT !.sendStatus = Expired]
  <2>1. /\ mq[m].pc = "expire" /\ mq' = [mq EXCEPT ![m].pc = "ack"]
        /\ api' = api /\ now' = now /\ Update(n, new)
    BY <1>7 DEF Expire
  <2>2. /\ new.sendMode = row[n].sendMode /\ new.sendTime = row[n].sendTime
        /\ new.revokeTime = row[n].revokeTime
        /\ new.publishStatus \in {row[n].publishStatus, Published}
    BY <1>0, <1>1, <2>1 DEF Row
  <2> HIDE DEF new
  <2> QED BY <1>6, <2>1, <2>2
<1>8. CASE Promote(m)
  <2> DEFINE new == [row[n] EXCEPT !.publishStatus = Published, !.publishTime = now]
  <2>1. /\ mq[m].pc = "promote" /\ mq' = [mq EXCEPT ![m].pc = "push"]
        /\ api' = api /\ now' = now /\ Update(n, new)
    BY <1>8 DEF Promote
  <2>2. /\ new.sendMode = row[n].sendMode /\ new.sendTime = row[n].sendTime
        /\ new.revokeTime = row[n].revokeTime
        /\ new.publishStatus \in {row[n].publishStatus, Published}
    BY <1>0, <1>1, <2>1 DEF Row
  <2> HIDE DEF new
  <2> QED BY <1>6, <2>1, <2>2
<1>9. CASE Mark(m)
  <2> DEFINE new == [row[n] EXCEPT !.sendStatus =
                      IF row[n].sendStatus = Pending THEN Done ELSE row[n].sendStatus]
  <2>1. /\ mq[m].pc = "mark" /\ mq' = [mq EXCEPT ![m].pc = "ack"]
        /\ api' = api /\ now' = now /\ Update(n, new)
    BY <1>9 DEF Mark, SetSendStatus
  <2>2. /\ new.sendMode = row[n].sendMode /\ new.sendTime = row[n].sendTime
        /\ new.revokeTime = row[n].revokeTime
        /\ new.publishStatus \in {row[n].publishStatus, Published}
    BY <1>0, <1>1, <2>1 DEF Row
  <2> HIDE DEF new
  <2> QED BY <1>6, <2>1, <2>2
<1>10. CASE GiveUp(m)
  <2> DEFINE new == [row[n] EXCEPT !.sendStatus = Failed]
  <2>1. /\ mq[m].pc = "giveUp" /\ mq' = [mq EXCEPT ![m].pc = "nack"]
        /\ api' = api /\ now' = now /\ Update(n, new)
    BY <1>10 DEF GiveUp, SetSendStatus
  <2>2. /\ new.sendMode = row[n].sendMode /\ new.sendTime = row[n].sendTime
        /\ new.revokeTime = row[n].revokeTime
        /\ new.publishStatus \in {row[n].publishStatus, Published}
    BY <1>0, <1>1, <2>1 DEF Row
  <2> HIDE DEF new
  <2> QED BY <1>6, <2>1, <2>2
<1>11. CASE Resend(m) \/ ResendFails(m)
  <2>1. mq[m].pc = "failed" /\ mq[m] \in Slot /\ UNCHANGED <<row, api, now>>
    BY <1>0, <1>11 DEF Resend, ResendFails
  <2>2. mq'[m].pc \in {"ack", "giveUp"} /\ mq'[m].notice = n /\ mq'[m].due = mq[m].due
    <3>1. PICK pc \in {"ack", "giveUp"} : mq'[m] = [mq[m] EXCEPT !.pc = pc]
      BY <1>11, ResendEffect
    <3> QED BY <2>1, <3>1 DEF Slot
  <2>3. \A x \in Messages \ {m} : mq'[x] = mq[x] \/ mq'[x] = Attempt(m)
    BY <1>11, ResendEffect
  <2>4. Waiting(n) => row[n].sendTime <= now
    BY <1>0, <1>1, <2>1 DEF TimedInv, Dated, Slot, Row
  <2>5. Delay(mq[m].retry) \in Nat
    BY <2>1, NoticeAssumption DEF Delay, Slot
  <2>6. Waiting(n) => row[n].sendTime <= Cap(now + Delay(mq[m].retry))
    BY <1>0, <1>1, <2>1, <2>4, <2>5, NoticeAssumption DEF Cap, Row
  <2>7. ASSUME NEW x \in Messages, mq'[x] = Attempt(m) PROVE Dated(x)'
    BY <2>1, <2>6, <2>7 DEF Dated, Waiting, Attempt, Message
  <2>8. KeepsDate(m)
    BY <1>1, <2>1, <2>2 DEF KeepsDate
  <2>9. \A x \in Messages : KeepsDate(x) \/ Dated(x)'
    BY <2>3, <2>7, <2>8 DEF KeepsDate
  <2>10. \A r \in Requests, k \in Notices : Snapshot(r, k)'
    BY <2>1 DEF TimedInv, Snapshot
  <2> QED BY <1>0, <1>2, <2>1, <2>9, <2>10, TimedFrame
<1>12. CASE Settle(m)
  <2>1. /\ api' = api /\ now' = now /\ row' = row /\ \A k \in Messages \ {m} : mq'[k] = mq[k]
        /\ mq[m].pc \notin {"free", "queued"}
        /\ mq'[m].pc # "free" => mq'[m].notice = n /\ mq'[m].due = mq[m].due
    BY <1>0, <1>12 DEF Settle, FreeSlot, Slot
  <2>2. KeepsDate(m)
    BY <1>1, <2>1 DEF KeepsDate
  <2> QED BY <1>2, <2>1, <2>2, TimedMessage
<1>13. CASE HandleDead(m)
  <2>1. /\ api' = api /\ now' = now /\ row' = row /\ \A k \in Messages \ {m} : mq'[k] = mq[k]
        /\ mq'[m].pc = "free"
    BY <1>0, <1>13 DEF HandleDead, FreeSlot
  <2>2. KeepsDate(m)
    BY <2>1 DEF KeepsDate
  <2> QED BY <1>2, <2>1, <2>2, TimedMessage
<1> QED
  BY <1>4, <1>5, <1>7, <1>8, <1>9, <1>10, <1>11, <1>12, <1>13 DEF Consume

LEMMA TimedStep ==
  ASSUME OnePerNotice, TypeOK, Addressed, RetryBudget, DraftInv, TimedInv, [Next]_vars
  PROVE  TimedInv'
<1>1. ASSUME NEW r \in Requests, Abort(r) PROVE TimedInv'
  <2>1. row' = row /\ mq' = mq /\ now' = now /\ api'[r].pc = "idle"
    BY <1>1 DEF Abort, Return, IdleRequest, TypeOK
  <2>2. (\A n \in Notices : KeepsSchedule(n)) /\ (\A m \in Messages : KeepsDate(m))
    BY <2>1 DEF KeepsSchedule, KeepsDate
  <2> QED BY <1>1, <2>1, <2>2, TimedRequest, ProceedFrame
<1>2. ASSUME NEW m \in Messages, Redeliver(m) PROVE TimedInv'
  <2>1. /\ api' = api /\ now' = now /\ row' = row /\ \A k \in Messages \ {m} : mq'[k] = mq[k]
        /\ mq'[m].notice = mq[m].notice /\ mq'[m].due = mq[m].due
        /\ mq'[m].pc = "queued" /\ mq[m].pc # "free"
    BY <1>2 DEF Redeliver, TypeOK, Slot
  <2>2. KeepsDate(m) /\ \A n \in Notices : KeepsSchedule(n)
    BY <2>1 DEF KeepsDate, KeepsSchedule
  <2> QED BY <2>1, <2>2, TimedMessage
<1>3. CASE Tick \/ UNCHANGED vars
  <2>1. UNCHANGED <<row, api, mq>> /\ now' \in Nat /\ now <= now'
    BY <1>3, NoticeAssumption DEF Tick, vars, TypeOK
  <2>2. (\A n \in Notices : KeepsSchedule(n)) /\ (\A m \in Messages : KeepsDate(m))
    BY <2>1 DEF KeepsSchedule, KeepsDate
  <2>3. \A r \in Requests, n \in Notices : Snapshot(r, n)'
    BY <2>1 DEF TimedInv, Snapshot
  <2> QED BY <2>1, <2>2, <2>3, TimedFrame
<1> QED
  BY <1>1, <1>2, <1>3, TimedCreate, TimedArrive, TimedProceed, TimedConsume DEF Next

\* While no two requests about one notice overlap, no timed notice is pushed
\* before its send time (unless it was revoked), for any delays, retries,
\* redeliveries and failures and whatever happens to other notices in between:
\* the message of every attempt is due no earlier.
THEOREM NeverEarly == Spec /\ []OnePerNotice => NotBeforeDue
<1>1. Init => TimedInv
  BY Statuses DEF Init, TimedInv, Dated, Snapshot, FreeSlot, IdleRequest, AbsentRow
<1>2. OnePerNotice /\ TypeOK /\ Addressed /\ RetryBudget /\ DraftInv /\ TimedInv /\ [Next]_vars
        => DraftInv' /\ TimedInv'
  BY TimedStep, DraftStep
<1>3. TypeOK /\ Addressed /\ TimedInv =>
        [\A m \in Messages : Pushes(m) =>
           LET n == mq[m].notice
           IN  row[n].sendMode = Timed /\ ~row[n].revokeTime => now >= row[n].sendTime]_vars
  <2> SUFFICES ASSUME TypeOK, Addressed, TimedInv, NEW m \in Messages, Pushes(m),
                      Waiting(mq[m].notice)
               PROVE  now >= row[mq[m].notice].sendTime
    BY DEF Waiting
  <2>1. mq[m].pc = "push" /\ mq[m].notice \in Notices /\ Dated(m)
    BY DEF Pushes, Addressed, TimedInv
  <2>2. row[mq[m].notice].sendTime \in Nat /\ mq[m].due \in Nat /\ now \in Nat
    BY <2>1, NoticeAssumption DEF TypeOK, Row, Slot
  <2> QED BY <2>1, <2>2 DEF Dated
<1> QED BY <1>1, <1>2, <1>3, DraftInit, TypeCorrect, PTL DEF Spec, NotBeforeDue

-----------------------------------------------------------------------------
(* The consumer does not push what is marked as sent.                       *)

Held(m) == mq[m].pc # "free"

\* While pushes succeed, message m is on its way to be acked, and nobody else
\* has settled its notice.
Clear(m) ==
  /\ mq[m].pc \notin {"failed", "giveUp", "nack", "dead"}
  /\ row[mq[m].notice].sendStatus # Failed
  /\ mq[m].pc \in {"promote", "push"} => row[mq[m].notice].sendStatus # Done

\* A notice has one message, whatever is redelivered: only a failed notice is
\* retried, and without failing pushes, and without failed sends that arrive, one
\* that has a message in the broker never fails.
Lone ==
  /\ \A m, k \in Messages : Held(m) /\ Held(k) /\ mq[m].notice = mq[k].notice => m = k
  /\ \A m \in Messages : Held(m) => Clear(m)
  /\ \A m \in Messages, r \in Requests : Held(m) => ~Taking(r, mq[m].notice)
  /\ \A r \in Requests : api[r].pc \in {"publishSend", "retrySend"} =>
       \A n \in api[r].ids : row[n].sendStatus = Pending

LoneInv == {"push", "arrive"} \cap mix = {} => Lone

\* Sets written out.
LEMMA LoneNext ==
  Lone' <=>
    /\ \A m, k \in Messages :
         Held(m)' /\ Held(k)' /\ mq'[m].notice = mq'[k].notice => m = k
    /\ \A m \in Messages : Held(m)' => Clear(m)'
    /\ \A m \in Messages, r \in Requests : Held(m)' => ~Taking(r, mq[m].notice)'
    /\ \A r \in Requests : api'[r].pc \in {"publishSend", "retrySend"} =>
         \A n \in api'[r].ids : row'[n].sendStatus = Pending
  BY DEF Lone, Held, Clear, Taking

LEMMA TakerLone ==
  ASSUME OnePerNotice, TypeOK, Lone, NEW r \in Requests, NEW n \in Notices, Taking(r, n),
         mq' = mq, \A k \in Notices \ {n} : row'[k] = row[k], Addressed, Frame(r),
         api'[r].pc = "idle" \/ api'[r].ids = {n},
         api'[r].pc \in {"publishSend", "retrySend"} => row'[n].sendStatus = Pending
  PROVE  Lone'
<1>1. \A m \in Messages : /\ Held(m)' <=> Held(m)
                          /\ Held(m) => mq[m].notice \in Notices \ {n}
  BY DEF Lone, Held, Addressed
<1>2. \A q \in Requests \ {r} : api'[q] = api[q] /\ api[q].ids \subseteq Notices \ {n}
  BY DEF OnePerNotice, Taking, Frame, TypeOK, Request
<1>3. \A q \in Requests : \A k : Taking(q, k)' => k = n \/ Taking(q, k)
  BY <1>2 DEF Taking
<1>4. \A m \in Messages : Held(m) => Clear(m)'
  BY <1>1 DEF Lone, Clear
<1>5. \A m \in Messages, q \in Requests : Held(m)' => ~Taking(q, mq[m].notice)'
  BY <1>1, <1>3 DEF Lone
<1>6. ASSUME NEW q \in Requests, api'[q].pc \in {"publishSend", "retrySend"}, NEW k \in api'[q].ids
      PROVE  row'[k].sendStatus = Pending
  BY <1>2, <1>6 DEF Lone
<1> QED BY <1>1, <1>4, <1>5, <1>6, LoneNext DEF Lone

LEMMA OtherLone ==
  ASSUME Lone, Addressed, TypeOK, mq' = mq,
         \A n \in Notices : row'[n].sendStatus \in {row[n].sendStatus, Pending},
         \A r \in Requests, n \in Notices : Taking(r, n)' =>
           \/ Taking(r, n) /\ api'[r] = api[r]
           \/ /\ api'[r].pc \notin {"publishSend", "retrySend"}
              /\ \A m \in Messages : Held(m) => mq[m].notice # n,
         api' \in [Requests -> Request]
  PROVE  Lone'
<1>1. \A m \in Messages : /\ Held(m)' <=> Held(m)
                          /\ Held(m) => mq[m].notice \in Notices
  BY DEF Held, Addressed
<1>2. \A m \in Messages : Held(m) => Clear(m)'
  BY <1>1, Statuses DEF Lone, Clear
<1>3. \A m \in Messages, r \in Requests : Held(m) => ~Taking(r, mq[m].notice)'
  BY <1>1 DEF Lone
<1>4. ASSUME NEW r \in Requests, api'[r].pc \in {"publishSend", "retrySend"},
             NEW n \in api'[r].ids
      PROVE  row'[n].sendStatus = Pending
  <2>1. n \in Notices /\ Taking(r, n)'
    BY <1>4 DEF Request, Taking
  <2>2. api'[r] = api[r]
    BY <1>4, <2>1
  <2>3. row[n].sendStatus = Pending
    BY <1>4, <2>2 DEF Lone
  <2> QED BY <2>1, <2>3
<1> QED BY <1>1, <1>2, <1>3, <1>4, LoneNext DEF Lone

\* The consumer of m writes the row of its own notice only.
LEMMA ConsumerLone ==
  ASSUME Lone, Addressed, TypeOK, NEW m \in Messages, api' = api, Held(m),
         \A k \in Messages \ {m} : mq'[k] = mq[k],
         Held(m)' => mq'[m].notice = mq[m].notice /\ Clear(m)',
         \A n \in Notices \ {mq[m].notice} : row'[n] = row[n]
  PROVE  Lone'
<1>1. \A k \in Messages : Held(k)' =>
        Held(k) /\ mq'[k].notice = mq[k].notice /\ mq[k].notice \in Notices
  BY DEF Held, Addressed
<1>2. ASSUME NEW k \in Messages, Held(k)' PROVE Clear(k)'
  <2>1. CASE k = m
    BY <1>2, <2>1
  <2>2. CASE k # m
    <3>1. mq[k].notice \in Notices \ {mq[m].notice} /\ Clear(k) /\ mq'[k] = mq[k]
      BY <1>1, <1>2, <2>2 DEF Lone
    <3> QED BY <3>1 DEF Clear
  <2> QED BY <2>1, <2>2
<1>3. ASSUME NEW r \in Requests, api[r].pc \in {"publishSend", "retrySend"},
             NEW n \in api[r].ids
      PROVE  row'[n].sendStatus = Pending
  <2>1. n \in Notices /\ Taking(r, n) /\ row[n].sendStatus = Pending
    BY <1>3 DEF TypeOK, Request, Taking, Lone
  <2>2. n # mq[m].notice
    BY <2>1 DEF Lone
  <2> QED BY <2>1, <2>2
<1>4. \A r \in Requests : \A n : Taking(r, n)' <=> Taking(r, n)
  BY DEF Taking
<1> QED BY <1>1, <1>2, <1>3, <1>4, LoneNext DEF Lone

LEMMA SendLone ==
  ASSUME OnePerNotice, Lone, Addressed, TypeOK, NEW r \in Requests, NEW n \in Notices,
         NEW t, Taking(r, n), row[n].sendStatus = Pending, Send(n, 0, t), Return(r),
         row' = row
  PROVE  Lone'
<1>1. PICK x \in Messages : mq' = [mq EXCEPT ![x] = Message(n, 0, t)]
  BY DEF Send
<1>2. /\ \A k \in Messages \ {x} : mq'[k] = mq[k]
      /\ mq'[x].pc = "queued" /\ mq'[x].notice = n
  BY <1>1 DEF TypeOK, Message
<1>3. api'[r].pc = "idle" /\ \A q \in Requests \ {r} : api'[q] = api[q] /\ n \notin api[q].ids
  BY DEF OnePerNotice, Taking, Return, IdleRequest, TypeOK
<1>4. \A q \in Requests : \A k : Taking(q, k)' => Taking(q, k) /\ k # n
  BY <1>3 DEF Taking
<1>5. \A k \in Messages \ {x} : Held(k)' =>
        Held(k) /\ mq'[k].notice # n /\ mq'[k].notice = mq[k].notice /\ Clear(k)'
  BY <1>2 DEF Held, Lone, Clear
<1>6. Clear(x)'
  BY <1>2, Statuses DEF Clear
<1>7. \A m \in Messages, q \in Requests : Held(m)' => ~Taking(q, mq[m].notice)'
  <2> SUFFICES ASSUME NEW m \in Messages, NEW q \in Requests, Held(m)', Taking(q, mq[m].notice)'
               PROVE  FALSE
    OBVIOUS
  <2>1. Taking(q, mq'[m].notice) /\ mq'[m].notice # n
    BY <1>4
  <2> QED BY <1>2, <1>5, <2>1 DEF Lone
<1>8. \A q \in Requests : api'[q].pc \in {"publishSend", "retrySend"} =>
        \A k \in api'[q].ids : row'[k].sendStatus = Pending
  BY <1>3 DEF Lone
<1> QED BY <1>2, <1>5, <1>6, <1>7, <1>8, LoneNext DEF Lone

LEMMA ArriveLone ==
  ASSUME Lone, Addressed, TypeOK, DraftInv, NEW r \in Requests, Arrive(r)
  PROVE  Lone'
<1>1. api' \in [Requests -> Request]
  BY ArriveType DEF TypeOK
<1>2. /\ UNCHANGED <<mq, row>>
      /\ \A q \in Requests \ {r} : api'[q] = api[q]
  BY DEF Arrive, UpdateRead, RemoveRead, PublishRead, RevokeRead, RetryRead, RemoveBatchRead,
     Begin, TypeOK
<1>3. ASSUME NEW n \in Notices, Taking(r, n)'
      PROVE  /\ api'[r].pc \in {"publish", "retry"}
             /\ \A m \in Messages : Held(m) => mq[m].notice # n
  <2>1. CASE \E k \in Notices : PublishRead(r, k)
    <3>1. PICK k \in Notices : PublishRead(r, k)
      BY <2>1
    <3>2. api'[r].pc = "publish" /\ api'[r].ids = {k} /\ row[k].publishStatus = Draft
      BY <3>1 DEF PublishRead, MayPublish, Begin, TypeOK, Row
    <3>3. \A m \in Messages : Held(m) => mq[m].notice # k
      BY <3>2 DEF DraftInv, Drafted, Held
    <3> QED BY <1>3, <3>2, <3>3 DEF Taking
  <2>2. CASE \E k \in Notices : RetryRead(r, k)
    <3>1. PICK k \in Notices : RetryRead(r, k)
      BY <2>2
    <3>2. api'[r].pc = "retry" /\ api'[r].ids = {k} /\ row[k].sendStatus = Failed
      BY <3>1 DEF RetryRead, MayRetry, Begin, TypeOK
    <3>3. \A m \in Messages : Held(m) => mq[m].notice # k
      BY <3>2 DEF Lone, Clear
    <3> QED BY <1>3, <3>2, <3>3 DEF Taking
  <2>3. CASE \/ \E k \in Notices : UpdateRead(r, k) \/ RemoveRead(r, k) \/ RevokeRead(r, k)
             \/ \E ids \in SUBSET Notices : RemoveBatchRead(r, ids)
    <3>1. api'[r].pc \in {"update", "remove", "revoke"}
      BY <2>3 DEF UpdateRead, RemoveRead, RevokeRead, RemoveBatchRead, Begin, TypeOK
    <3> QED BY <1>3, <3>1 DEF Taking
  <2> QED BY <2>1, <2>2, <2>3 DEF Arrive
<1>4. \A q \in Requests \ {r}, n \in Notices : Taking(q, n)' => Taking(q, n)
  BY <1>2 DEF Taking
<1> QED BY <1>1, <1>2, <1>3, <1>4, OtherLone

LEMMA ProceedLone ==
  ASSUME OnePerNotice, Lone, Addressed, TypeOK, NEW r \in Requests, Proceed(r),
         "arrive" \notin mix
  PROVE  Lone'
<1>1. api' \in [Requests -> Request] /\ Frame(r)
  BY ProceedType, ProceedFrame DEF TypeOK
<1>2. CASE StandsBy(r)
  <2>1. \A q \in Requests : \A n : Taking(q, n)' => Taking(q, n) /\ api'[q] = api[q]
    BY <1>1, <1>2 DEF StandsBy, Taking, Frame
  <2> QED BY <1>1, <1>2, <2>1, OtherLone DEF StandsBy
<1>3. ASSUME NEW n \in Notices, Carries(r, n)
      PROVE  Lone'
  <2>1. /\ Taking(r, n) /\ mq' = mq /\ \A k \in Notices \ {n} : row'[k] = row[k]
        /\ api'[r].pc = "idle" \/ api'[r].ids = {n}
        /\ api'[r].pc \in {"publishSend", "retrySend"} => row'[n].sendStatus = Pending
    BY <1>3 DEF Carries
  <2> QED BY <1>1, <2>1, TakerLone
<1>4. ASSUME NEW n \in Notices, HandsOver(r, n)
      PROVE  Lone'
  <2>1. row[n].sendStatus = Pending
    BY <1>4 DEF HandsOver, Lone
  <2> QED BY <1>4, <2>1, SendLone DEF HandsOver
<1>5. \A n \in Notices : ~Arrives(r, n)
  BY DEF Arrives
<1> QED BY <1>2, <1>3, <1>4, <1>5, ProceedKinds

LEMMA ConsumeLone ==
  ASSUME Lone, Addressed, TypeOK, NEW m \in Messages, Consume(m), "push" \notin mix
  PROVE  Lone'
<1> DEFINE n == mq[m].notice
<1>0. row \in [Notices -> Row] /\ mq \in [Messages -> Slot]
  BY DEF TypeOK
<1>1. Held(m) => Clear(m) /\ n \in Notices
  BY DEF Lone, Addressed, Held
<1>2. CASE Handle(m)
  <2>1. /\ api' = api /\ row' = row /\ \A k \in Messages \ {m} : mq'[k] = mq[k]
        /\ mq'[m].notice = n /\ mq'[m].pc = NextStep(n) /\ Held(m)
    BY <1>0, <1>2 DEF Handle, Slot, Held
  <2>2. NextStep(n) \in {"ack", "expire", "promote", "push"}
    BY DEF NextStep
  <2>3. NextStep(n) \in {"promote", "push"} => row[n].sendStatus # Done
    BY DEF NextStep
  <2>4. Clear(m)'
    BY <1>1, <2>1, <2>2, <2>3 DEF Clear
  <2> QED BY <2>1, <2>4, ConsumerLone
<1>3. CASE Expire(m)
  <2>1. /\ api' = api /\ \A k \in Messages \ {m} : mq'[k] = mq[k]
        /\ mq'[m].notice = n /\ mq'[m].pc = "ack" /\ Held(m)
    BY <1>0, <1>3 DEF Expire, Slot, Held
  <2>2. row'[n].sendStatus = Expired /\ \A k \in Notices \ {n} : row'[k] = row[k]
    BY <1>0, <1>1, <1>3, <2>1 DEF Expire, Update, Row
  <2>3. Clear(m)'
    BY <2>1, <2>2, Statuses DEF Clear
  <2> QED BY <2>1, <2>2, <2>3, ConsumerLone
<1>4. CASE Promote(m)
  <2>1. /\ api' = api /\ \A k \in Messages \ {m} : mq'[k] = mq[k]
        /\ mq'[m].notice = n /\ mq'[m].pc = "push" /\ mq[m].pc = "promote" /\ Held(m)
    BY <1>0, <1>4 DEF Promote, Slot, Held
  <2>2. row'[n].sendStatus = row[n].sendStatus /\ \A k \in Notices \ {n} : row'[k] = row[k]
    BY <1>0, <1>1, <1>4, <2>1 DEF Promote, Update, Row
  <2>3. Clear(m)'
    BY <1>1, <2>1, <2>2 DEF Clear
  <2> QED BY <2>1, <2>2, <2>3, ConsumerLone
<1>5. CASE Push(m)
  <2>1. /\ api' = api /\ row' = row /\ \A k \in Messages \ {m} : mq'[k] = mq[k]
        /\ mq'[m].notice = n /\ mq'[m].pc = "mark" /\ Held(m)
    BY <1>0, <1>5 DEF Push, Slot, Held
  <2>2. Clear(m)'
    BY <1>1, <2>1 DEF Clear
  <2> QED BY <2>1, <2>2, ConsumerLone
<1>6. CASE Mark(m)
  <2>1. /\ api' = api /\ \A k \in Messages \ {m} : mq'[k] = mq[k]
        /\ mq'[m].notice = n /\ mq'[m].pc = "ack" /\ Held(m)
    BY <1>0, <1>6 DEF Mark, Slot, Held
  <2>2. /\ row'[n].sendStatus \in {row[n].sendStatus, Done}
        /\ \A k \in Notices \ {n} : row'[k] = row[k]
    BY <1>0, <1>1, <1>6, <2>1 DEF Mark, SetSendStatus, Update, Row
  <2>3. Clear(m)'
    BY <1>1, <2>1, <2>2, Statuses DEF Clear
  <2> QED BY <2>1, <2>2, <2>3, ConsumerLone
<1>7. ~Catch(m)
  BY DEF Catch
<1>8. ~Resend(m) /\ ~ResendFails(m) /\ ~GiveUp(m) /\ ~HandleDead(m)
  BY <1>1 DEF Resend, ResendFails, GiveUp, HandleDead, Held, Clear
<1>9. CASE Settle(m)
  <2>1. mq[m].pc = "ack" /\ Held(m)
    BY <1>1, <1>9 DEF Settle, Held, Clear
  <2>2. /\ api' = api /\ row' = row /\ \A k \in Messages \ {m} : mq'[k] = mq[k]
        /\ ~Held(m)'
    BY <1>0, <1>9, <2>1 DEF Settle, FreeSlot, Held
  <2> QED BY <2>1, <2>2, ConsumerLone
<1> QED BY <1>2, <1>3, <1>4, <1>5, <1>6, <1>7, <1>8, <1>9 DEF Consume

LEMMA LoneStep ==
  ASSUME OnePerNotice, TypeOK, Addressed, DraftInv, Lone, [Next]_vars,
         {"push", "arrive"} \cap mix = {}
  PROVE  Lone'
<1>1. ASSUME mq' = mq, api' = api,
             \A n \in Notices : row'[n].sendStatus \in {row[n].sendStatus, Pending}
      PROVE  Lone'
  <2>1. api' \in [Requests -> Request]
    BY <1>1 DEF TypeOK
  <2>2. \A r \in Requests, n \in Notices : Taking(r, n)' => Taking(r, n) /\ api'[r] = api[r]
    BY <1>1 DEF Taking
  <2> QED BY <1>1, <2>1, <2>2, OtherLone
<1>2. ASSUME NEW n \in Notices, Create(n) PROVE Lone'
  <2>1. \A k \in Notices : row'[k].sendStatus \in {row[k].sendStatus, Pending}
    BY <1>2 DEF Create, Update, AbsentRow, TypeOK
  <2> QED BY <1>1, <1>2, <2>1 DEF Create
<1>3. ASSUME NEW r \in Requests, Abort(r) PROVE Lone'
  <2>1. row' = row /\ mq' = mq /\ Return(r)
    BY <1>3 DEF Abort
  <2>2. /\ api' \in [Requests -> Request] /\ api'[r].pc = "idle"
        /\ \A q \in Requests \ {r} : api'[q] = api[q]
    BY <2>1, NoticeAssumption DEF Return, IdleRequest, TypeOK, Request, Draft
  <2>3. \A q \in Requests : \A n : Taking(q, n)' => Taking(q, n) /\ api'[q] = api[q]
    BY <2>2 DEF Taking
  <2> QED BY <2>1, <2>2, <2>3, OtherLone
<1>4. ASSUME NEW m \in Messages, Redeliver(m) PROVE Lone'
  <2>1. /\ api' = api /\ row' = row /\ \A k \in Messages \ {m} : mq'[k] = mq[k]
        /\ mq'[m].notice = mq[m].notice /\ mq'[m].pc = "queued" /\ Held(m)
    BY <1>4 DEF Redeliver, TypeOK, Slot, Held
  <2>2. Clear(m)'
    BY <2>1 DEF Lone, Clear
  <2> QED BY <2>1, <2>2, ConsumerLone
<1>5. CASE Tick \/ UNCHANGED vars
  BY <1>1, <1>5 DEF Tick, vars
<1>6. "push" \notin mix /\ "arrive" \notin mix
  OBVIOUS
<1> QED BY <1>2, <1>3, <1>4, <1>5, <1>6, ArriveLone, ProceedLone, ConsumeLone DEF Next

\* The kinds of faults do not change in a behaviour.
LEMMA MixStays == [Next]_vars => mix' = mix
<1> SUFFICES ASSUME [Next]_vars PROVE mix' = mix
  OBVIOUS
<1>1. ASSUME NEW r \in Requests, Arrive(r) PROVE mix' = mix
  BY <1>1 DEF Arrive, UpdateRead, RemoveRead, PublishRead, RevokeRead, RetryRead,
     RemoveBatchRead, Begin
<1>2. ASSUME NEW r \in Requests, Proceed(r) PROVE mix' = mix
  <2>1. RemoveWrite(r) => mix' = mix
    BY DEF RemoveWrite
  <2>2. ASSUME NEW n \in Notices
        PROVE  /\ UpdateWrite(r, n) \/ PublishWrite(r, n) => mix' = mix
               /\ PublishSend(r, n) \/ PublishSendFails(r, n) => mix' = mix
               /\ PublishDone(r, n) \/ PublishFail(r, n) => mix' = mix
               /\ RevokeWrite(r, n) \/ RevokePush(r, n) => mix' = mix
               /\ RetryWrite(r, n) \/ RetrySend(r, n) => mix' = mix
               /\ RetrySendFails(r, n) \/ RetryFail(r, n) => mix' = mix
    BY DEF UpdateWrite, PublishWrite, PublishSend, PublishSendFails, PublishDone, PublishFail,
       RevokeWrite, RevokePush, RetryWrite, RetrySend, RetrySendFails, RetryFail
  <2> QED BY <1>2, <2>1, <2>2 DEF Proceed
<1>3. ASSUME NEW m \in Messages, Consume(m) PROVE mix' = mix
  BY <1>3 DEF Consume, Handle, Expire, Promote, Push, Mark, Catch, Resend, ResendFails, GiveUp,
     Settle, HandleDead
<1> QED BY <1>1, <1>2, <1>3 DEF Next, Create, Abort, Redeliver, Tick, vars

\* While no two requests about one notice overlap, and unless pushes fail or a
\* failed send arrives, the consumer pushes no notice that is marked as sent, for
\* any redeliveries, dying requests and sends that fail and whatever happens to
\* other notices in between: a redelivered message finds the mark.
THEOREM NeverPushedAgain == Spec /\ []OnePerNotice => NoPushAfterDone
<1>1. Init => LoneInv
  BY DEF Init, LoneInv, Lone, Held, Taking, FreeSlot, IdleRequest
<1>2. OnePerNotice /\ TypeOK /\ Addressed /\ RetryBudget /\ DraftInv /\ LoneInv /\ [Next]_vars
        => DraftInv' /\ LoneInv'
  BY LoneStep, MixStays, DraftStep DEF LoneInv
<1>3. LoneInv =>
        [\A m \in Messages :
           Pushes(m) /\ {"push", "arrive"} \cap mix = {} => row[mq[m].notice].sendStatus # Done]_vars
  BY DEF LoneInv, Lone, Held, Clear, Pushes
<1> QED BY <1>1, <1>2, <1>3, DraftInit, TypeCorrect, PTL DEF Spec, NoPushAfterDone
=============================================================================
