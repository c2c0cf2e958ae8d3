------------------------------- MODULE Notice -------------------------------
(***************************************************************************)
(* The notice module: NoticeService (create, update, remove, removeBatch,  *)
(* publish, revoke, retry), NoticeProducer and NoticeConsumer.             *)
(*                                                                         *)
(* A handler of the code runs atomically between two awaits, so each       *)
(* action below is the part of a handler from one await to the next.  All  *)
(* handlers share one shape: read the row, check the snapshot, then write  *)
(* with an unconditional update; whatever other handlers and consumers did *)
(* in between is overwritten.  Only the consumer's last write is           *)
(* conditional.                                                            *)
(*                                                                         *)
(* Time is a clock in ticks; a null date is 0.  RabbitMQ is a finite set   *)
(* of message slots: a slot is queued (possibly delayed), being handled by *)
(* some consumer, or dead-lettered.  Broker and socket are external.       *)
(***************************************************************************)
EXTENDS Naturals, Integers, FiniteSets

CONSTANTS
  Notices,      \* ids of notices
  NoNotice,     \* the notice of a free message slot
  Requests,     \* administrator requests that can be in progress at once
  Messages,     \* slots of the broker (bound on messages in flight)
  SendTimes,    \* the values of dto.sendTime
  Lives,        \* the values of dto.expireDays, in ticks
  MaxTime,      \* bound of the clock
  MaxRetry,     \* MAX_RETRY
  RetryDelay,   \* RETRY_DELAYS, in ticks
  DefaultDelay, \* the delay of an attempt RETRY_DELAYS does not list
  Mixes,        \* sets of operations and faults; a behaviour has those of one of them
  MaxFaults     \* bound on redeliveries, aborted requests and failed sends that arrived

OpKinds    == {"create", "update", "remove", "removeBatch", "publish", "revoke", "retry"}
FaultKinds == {"mq", "arrive", "push", "redeliver", "abort"}

ASSUME NoticeAssumption ==
  /\ NoNotice \notin Notices
  /\ MaxTime \in Nat \ {0}
  /\ MaxRetry \in Nat
  /\ MaxFaults \in Nat
  /\ SendTimes \subseteq 1 .. MaxTime
  /\ Lives \subseteq Nat \ {0}
  /\ RetryDelay \in [0 .. MaxRetry - 1 -> Nat]
  /\ DefaultDelay \in Nat
  /\ Mixes \subseteq SUBSET (OpKinds \cup FaultKinds)

VARIABLES
  row,       \* the notices table
  api,       \* the administrator requests in progress
  mq,        \* the message slots of the notice queue
  now,       \* the clock
  shown,     \* notices whose 'notice' event was emitted at least once
  lastEvent, \* the last WebSocket event emitted about a notice
  abandoned, \* notices whose publish or retry died before it had sent
  faults,    \* redeliveries, aborted requests and failed sends that arrived, so far
  mix        \* the operations and faults of this behaviour

vars == <<row, api, mq, now, shown, lastEvent, abandoned, faults, mix>>

-----------------------------------------------------------------------------
\* publishStatus
Draft     == 0
Published == 1
Scheduled == 2
Revoked   == -1

\* sendStatus
Pending == 0
Done    == 2
Failed  == -1
Expired == -2

\* sendMode
Immediate == 1
Timed     == 2

Row == [state         : {"absent", "live", "deleted"},
        publishStatus : {Draft, Published, Scheduled, Revoked},
        sendStatus    : {Pending, Done, Failed, Expired},
        sendMode      : {Immediate, Timed},
        sendTime      : 0 .. MaxTime,
        publishTime   : 0 .. MaxTime,
        revokeTime    : BOOLEAN,     \* whether it is set
        expireDays    : Nat]

AbsentRow == [state |-> "absent", publishStatus |-> Draft, sendStatus |-> Pending,
              sendMode |-> Immediate, sendTime |-> 0, publishTime |-> 0,
              revokeTime |-> FALSE, expireDays |-> 0]

\* A request: where it is, the notices it is about and what it remembers of
\* the snapshot it read (or, for update, of the DTO: 0 is an omitted field).
Request == [pc     : {"idle", "update", "remove", "publish", "publishSend",
                      "publishDone", "publishFail", "revoke", "revokePush",
                      "retry", "retrySend", "retryFail"},
            ids    : SUBSET Notices,
            status : {Draft, Published, Scheduled, Revoked},
            mode   : {0, Immediate, Timed},
            time   : 0 .. MaxTime,
            life   : Nat]

IdleRequest == [pc |-> "idle", ids |-> {}, status |-> Draft, mode |-> 0,
                time |-> 0, life |-> 0]

\* A message slot; from "expire" to "nack" the message is in the consumer's
\* handler; at "expire", scheduled remembers that it read publishStatus 2.
Slot == [pc        : {"free", "queued", "expire", "promote", "push", "mark",
                      "failed", "giveUp", "ack", "nack", "dead"},
         notice    : Notices \cup {NoNotice},
         retry     : 0 .. MaxRetry,
         due       : 0 .. MaxTime,
         scheduled : BOOLEAN]

FreeSlot == [pc |-> "free", notice |-> NoNotice, retry |-> 0, due |-> 0,
             scheduled |-> FALSE]

TypeOK ==
  /\ row \in [Notices -> Row]
  /\ api \in [Requests -> Request]
  /\ mq \in [Messages -> Slot]
  /\ now \in 1 .. MaxTime
  /\ shown \subseteq Notices
  /\ lastEvent \in [Notices -> {"none", "notice", "notice-revoke"}]
  /\ abandoned \subseteq Notices
  /\ faults \in 0 .. MaxFaults
  /\ mix \in Mixes

-----------------------------------------------------------------------------
\* Helpers.

Found(n)     == row[n].state = "live"
Active(s)    == s \in {Published, Scheduled}

Cap(t)       == IF t < MaxTime THEN t ELSE MaxTime
Later(s, t)  == IF s < t THEN t ELSE s

\* prisma.notice.update of row n, and of its sendStatus only.
Update(n, new)      == row' = [row EXCEPT ![n] = new]
SetSendStatus(n, s) == Update(n, [row[n] EXCEPT !.sendStatus = s])

\* The message send(payload, delayMs) publishes, delivered from time t on.
Message(n, k, t) == [pc |-> "queued", notice |-> n, retry |-> k, due |-> Cap(t),
                     scheduled |-> FALSE]

Send(n, k, t) == \E m \in Messages :
                   /\ mq[m].pc = "free"
                   /\ mq' = [mq EXCEPT ![m] = Message(n, k, t)]

\* amqpConnection.publish throws.  The broker may have the message all the same:
\* its answer is lost.
Unanswered   == "arrive" \in mix /\ faults < MaxFaults /\ faults' = faults + 1

SendFails(n, k, t) ==
  /\ "mq" \in mix
  /\ \/ UNCHANGED <<mq, faults>>
     \/ Unanswered /\ Send(n, k, t)

PushNotice(n) == /\ shown' = shown \cup {n}
                 /\ lastEvent' = [lastEvent EXCEPT ![n] = "notice"]

PushRevoke(n) == /\ lastEvent' = [lastEvent EXCEPT ![n] = "notice-revoke"]
                 /\ UNCHANGED shown

\* expireDays set, and base (sendTime, else publishTime) set and passed.
IsExpired(n) ==
  LET base == IF row[n].sendTime # 0 THEN row[n].sendTime ELSE row[n].publishTime
  IN  /\ row[n].expireDays # 0
      /\ base # 0
      /\ now > base + row[n].expireDays

\* Request r goes to step pc; a finished one forgets everything.
Goto(r, pc) == api' = [api EXCEPT ![r].pc = pc]
Return(r)   == api' = [api EXCEPT ![r] = IdleRequest]

Begin(r, pc, ids, status, mode, time, life) ==
  /\ api[r].pc = "idle"
  /\ api' = [api EXCEPT ![r] = [pc |-> pc, ids |-> ids, status |-> status,
                                mode |-> mode, time |-> time, life |-> life]]
  /\ UNCHANGED <<row, mq, now, shown, lastEvent, abandoned, faults, mix>>

\* The checks each operation makes on the row it read.
MayEdit(n)          == Found(n) /\ ~Active(row[n].publishStatus)
MayPublish(n)       == /\ Found(n)
                       /\ row[n].publishStatus \notin {Published, Scheduled, Revoked}
                       /\ row[n].sendMode = Timed
                            => row[n].sendTime # 0 /\ row[n].sendTime > now
MayRevoke(n)        == Found(n) /\ Active(row[n].publishStatus)
MayRetryAnytime(n)  == Found(n) /\ Active(row[n].publishStatus)
MayRetry(n)         == /\ Found(n)
                       /\ Active(row[n].publishStatus)
                       /\ row[n].sendStatus = Failed

\* When a message sent by request r is to be delivered: the delay is what is
\* left to the send time of the row the request read.
RightAway(r) == now
SendAt(r)    == IF api[r].mode = Timed THEN Later(now, api[r].time) ELSE now

At(r, pc, n) == api[r].pc = pc /\ api[r].ids = {n}

-----------------------------------------------------------------------------
\* NoticeService.create: one insert.
Create(n) ==
  /\ "create" \in mix
  /\ row[n].state = "absent"
  /\ \E mode \in {Immediate, Timed}, t \in {0} \cup SendTimes, l \in {0} \cup Lives :
       /\ mode = Timed => t # 0
       /\ Update(n, [AbsentRow EXCEPT !.state = "live", !.sendMode = mode,
                                        !.sendTime = t, !.expireDays = l])
  /\ UNCHANGED <<api, mq, now, shown, lastEvent, abandoned, faults, mix>>

\* NoticeService.update: read and checks.
UpdateRead(r, n) ==
  /\ "update" \in mix
  /\ MayEdit(n)
  /\ \E mode \in {0, Immediate, Timed}, t \in {0} \cup SendTimes, l \in {0} \cup Lives :
       /\ (IF mode = 0 THEN row[n].sendMode ELSE mode) = Timed
            => t # 0 \/ row[n].sendTime # 0
       /\ Begin(r, "update", {n}, Draft, mode, t, l)

\* ... and the write of the fields the DTO has.
UpdateWrite(r, n) ==
  LET dto == api[r]
  IN  /\ At(r, "update", n)
      /\ Update(n, [row[n] EXCEPT
                       !.sendMode   = IF dto.mode = 0 THEN @ ELSE dto.mode,
                       !.sendTime   = IF dto.time = 0 THEN @ ELSE dto.time,
                       !.expireDays = IF dto.life = 0 THEN @ ELSE dto.life])
      /\ Return(r)
      /\ UNCHANGED <<mq, now, shown, lastEvent, abandoned, faults, mix>>

\* NoticeService.remove: read and checks.
RemoveRead(r, n) ==
  /\ "remove" \in mix
  /\ MayEdit(n)
  /\ Begin(r, "remove", {n}, Draft, 0, 0, 0)

\* NoticeService.removeBatch: one published notice blocks the whole batch.
RemoveBatchRead(r, ids) ==
  /\ "removeBatch" \in mix
  /\ \A n \in ids : Found(n) => MayEdit(n)
  /\ Begin(r, "remove", ids, Draft, 0, 0, 0)

\* The soft delete that ends both: rows that exist get a deletedAt.
RemoveWrite(r) ==
  /\ api[r].pc = "remove"
  /\ row' = [n \in Notices |->
               IF n \in api[r].ids /\ row[n].state = "live"
               THEN [row[n] EXCEPT !.state = "deleted"] ELSE row[n]]
  /\ Return(r)
  /\ UNCHANGED <<mq, now, shown, lastEvent, abandoned, faults, mix>>

\* NoticeService.publish: read and checks; only a draft passes.
PublishRead(r, n) ==
  /\ "publish" \in mix
  /\ MayPublish(n)
  /\ Begin(r, "publish", {n}, row[n].publishStatus, row[n].sendMode,
           row[n].sendTime, 0)

\* publishStatus by the snapshot's mode, sendStatus back to pending.
PublishWrite(r, n) ==
  /\ At(r, "publish", n)
  /\ Update(n, IF api[r].mode = Timed
               THEN [row[n] EXCEPT !.publishStatus = Scheduled, !.sendStatus = Pending]
               ELSE [row[n] EXCEPT !.publishStatus = Published, !.publishTime = now,
                                   !.sendStatus = Pending])
  /\ Goto(r, "publishSend")
  /\ UNCHANGED <<mq, now, shown, lastEvent, abandoned, faults, mix>>

PublishSend(r, n) ==
  /\ At(r, "publishSend", n)
  /\ Send(n, 0, SendAt(r))
  /\ Return(r)
  /\ UNCHANGED <<row, now, shown, lastEvent, abandoned, faults, mix>>

\* MQ unavailable: an immediate notice is pushed directly, a timed one fails.
PublishSendFails(r, n) ==
  /\ At(r, "publishSend", n)
  /\ SendFails(n, 0, SendAt(r))
  /\ IF api[r].mode = Immediate
     THEN PushNotice(n) /\ Goto(r, "publishDone")
     ELSE Goto(r, "publishFail") /\ UNCHANGED <<shown, lastEvent>>
  /\ UNCHANGED <<row, now, abandoned, mix>>

PublishDone(r, n) ==
  /\ At(r, "publishDone", n)
  /\ SetSendStatus(n, Done)
  /\ Return(r)
  /\ UNCHANGED <<mq, now, shown, lastEvent, abandoned, faults, mix>>

PublishFail(r, n) ==
  /\ At(r, "publishFail", n)
  /\ SetSendStatus(n, Failed)
  /\ Return(r)
  /\ UNCHANGED <<mq, now, shown, lastEvent, abandoned, faults, mix>>

\* NoticeService.revoke.
RevokeRead(r, n) ==
  /\ "revoke" \in mix
  /\ MayRevoke(n)
  /\ Begin(r, "revoke", {n}, row[n].publishStatus, 0, 0, 0)

RevokeWrite(r, n) ==
  /\ At(r, "revoke", n)
  /\ Update(n, [row[n] EXCEPT !.publishStatus = Revoked, !.revokeTime = TRUE])
  /\ IF api[r].status = Published THEN Goto(r, "revokePush") ELSE Return(r)
  /\ UNCHANGED <<mq, now, shown, lastEvent, abandoned, faults, mix>>

RevokePush(r, n) ==
  /\ At(r, "revokePush", n)
  /\ PushRevoke(n)
  /\ Return(r)
  /\ UNCHANGED <<row, mq, now, abandoned, faults, mix>>

\* NoticeService.retry.
RetryRead(r, n) ==
  /\ "retry" \in mix
  /\ MayRetry(n)
  /\ Begin(r, "retry", {n}, row[n].publishStatus, row[n].sendMode,
           row[n].sendTime, 0)

RetryWrite(r, n) ==
  /\ At(r, "retry", n)
  /\ SetSendStatus(n, Pending)
  /\ Goto(r, "retrySend")
  /\ UNCHANGED <<mq, now, shown, lastEvent, abandoned, faults, mix>>

RetrySend(r, n) ==
  /\ At(r, "retrySend", n)
  /\ Send(n, 0, SendAt(r))
  /\ Return(r)
  /\ UNCHANGED <<row, now, shown, lastEvent, abandoned, faults, mix>>

RetrySendFails(r, n) ==
  /\ At(r, "retrySend", n)
  /\ SendFails(n, 0, SendAt(r))
  /\ Goto(r, "retryFail")
  /\ UNCHANGED <<row, now, shown, lastEvent, abandoned, mix>>

RetryFail(r, n) ==
  /\ At(r, "retryFail", n)
  /\ SetSendStatus(n, Failed)
  /\ Return(r)
  /\ UNCHANGED <<mq, now, shown, lastEvent, abandoned, faults, mix>>

\* A request dies between two awaits: the process crashes or its next
\* database call throws.  abandoned records the ones that had made the notice
\* pending and had not yet handed it to the broker or settled it.
Abort(r) ==
  /\ "abort" \in mix
  /\ faults < MaxFaults
  /\ api[r].pc # "idle"
  /\ abandoned' = IF api[r].pc \in {"publishSend", "publishDone", "publishFail",
                                     "retrySend", "retryFail"}
                  THEN abandoned \cup api[r].ids ELSE abandoned
  /\ faults' = faults + 1
  /\ Return(r)
  /\ UNCHANGED <<row, mq, now, shown, lastEvent, mix>>

-----------------------------------------------------------------------------
\* NoticeConsumer.  The step the handler takes after its read.
NextStepForgetsDone(n) ==
  IF ~Found(n) \/ ~Active(row[n].publishStatus) THEN "ack"
  ELSE IF IsExpired(n) THEN "expire"
  ELSE IF row[n].publishStatus = Scheduled THEN "promote"
  ELSE "push"

NextStep(n) ==
  IF ~Found(n) \/ ~Active(row[n].publishStatus) \/ row[n].sendStatus = Done THEN "ack"
  ELSE IF IsExpired(n) THEN "expire"
  ELSE IF row[n].publishStatus = Scheduled THEN "promote"
  ELSE "push"

\* A due message is delivered and the handler reads the row.
Handle(m) ==
  /\ mq[m].pc = "queued"
  /\ mq[m].due <= now
  /\ LET n == mq[m].notice
     IN  mq' = [mq EXCEPT ![m] =
                   [@ EXCEPT !.pc = NextStep(n),
                             !.scheduled = /\ NextStep(n) = "expire"
                                           /\ row[n].publishStatus = Scheduled]]
  /\ UNCHANGED <<row, api, now, shown, lastEvent, abandoned, faults, mix>>

Expire(m) ==
  /\ mq[m].pc = "expire"
  /\ LET n == mq[m].notice
     IN  Update(n, IF mq[m].scheduled
                   THEN [row[n] EXCEPT !.publishStatus = Published, !.publishTime = now,
                                       !.sendStatus = Expired]
                   ELSE [row[n] EXCEPT !.sendStatus = Expired])
  /\ mq' = [mq EXCEPT ![m].pc = "ack"]
  /\ UNCHANGED <<api, now, shown, lastEvent, abandoned, faults, mix>>

\* The scheduled notice is due: published, whatever became of it meanwhile.
Promote(m) ==
  /\ mq[m].pc = "promote"
  /\ LET n == mq[m].notice
     IN  Update(n, [row[n] EXCEPT !.publishStatus = Published, !.publishTime = now])
  /\ mq' = [mq EXCEPT ![m].pc = "push"]
  /\ UNCHANGED <<api, now, shown, lastEvent, abandoned, faults, mix>>

Push(m) ==
  /\ mq[m].pc = "push"
  /\ PushNotice(mq[m].notice)
  /\ mq' = [mq EXCEPT ![m].pc = "mark"]
  /\ UNCHANGED <<row, api, now, abandoned, faults, mix>>

\* updateMany where sendStatus = 0.
Mark(m) ==
  /\ mq[m].pc = "mark"
  /\ LET n == mq[m].notice
     IN  SetSendStatus(n, IF row[n].sendStatus = Pending THEN Done ELSE row[n].sendStatus)
  /\ mq' = [mq EXCEPT ![m].pc = "ack"]
  /\ UNCHANGED <<api, now, shown, lastEvent, abandoned, faults, mix>>

CatchSwallows(m) ==
  /\ "push" \in mix
  /\ mq[m].pc \in {"push", "mark"}
  /\ mq' = [mq EXCEPT ![m].pc = "mark"]
  /\ UNCHANGED <<row, api, now, shown, lastEvent, abandoned, faults, mix>>

CatchOffByOne(m) ==
  /\ "push" \in mix
  /\ mq[m].pc \in {"push", "mark"}
  /\ mq' = [mq EXCEPT ![m].pc = IF mq[m].retry <= MaxRetry THEN "failed" ELSE "giveUp"]
  /\ UNCHANGED <<row, api, now, shown, lastEvent, abandoned, faults, mix>>

\* The push or the conditional update throws: the catch block.
Catch(m) ==
  /\ "push" \in mix
  /\ mq[m].pc \in {"push", "mark"}
  /\ mq' = [mq EXCEPT ![m].pc = IF mq[m].retry < MaxRetry THEN "failed" ELSE "giveUp"]
  /\ UNCHANGED <<row, api, now, shown, lastEvent, abandoned, faults, mix>>

Delay(k) == IF k \in DOMAIN RetryDelay THEN RetryDelay[k] ELSE DefaultDelay

ResendForgets(m) ==
  /\ mq[m].pc = "failed"
  /\ mq' = [mq EXCEPT ![m].pc = "ack"]
  /\ UNCHANGED <<row, api, now, shown, lastEvent, abandoned, faults, mix>>

\* The next attempt of message m is in the broker, and m's handler goes to pc.
NextAttempt(m, pc) ==
  \E f \in Messages :
    /\ mq[f].pc = "free"
    /\ mq' = [mq EXCEPT ![m].pc = pc,
                        ![f] = Message(mq[m].notice, mq[m].retry + 1,
                                       now + Delay(mq[m].retry))]

\* handleFailure sends the next attempt, then returns: the old one is acked.
Resend(m) ==
  /\ mq[m].pc = "failed"
  /\ NextAttempt(m, "ack")
  /\ UNCHANGED <<row, api, now, shown, lastEvent, abandoned, faults, mix>>

\* The send throws, the next attempt may be in the broker all the same.
ResendFails(m) ==
  /\ "mq" \in mix
  /\ mq[m].pc = "failed"
  /\ \/ mq' = [mq EXCEPT ![m].pc = "giveUp"] /\ UNCHANGED faults
     \/ Unanswered /\ NextAttempt(m, "giveUp")
  /\ UNCHANGED <<row, api, now, shown, lastEvent, abandoned, mix>>

\* sendStatus -1 and Nack(false).
GiveUp(m) ==
  /\ mq[m].pc = "giveUp"
  /\ SetSendStatus(mq[m].notice, Failed)
  /\ mq' = [mq EXCEPT ![m].pc = "nack"]
  /\ UNCHANGED <<api, now, shown, lastEvent, abandoned, faults, mix>>

\* The broker forgets an acked message and dead-letters a rejected one.
Settle(m) ==
  /\ mq[m].pc \in {"ack", "nack"}
  /\ mq' = [mq EXCEPT ![m] = IF mq[m].pc = "ack" THEN FreeSlot
                              ELSE [@ EXCEPT !.pc = "dead", !.scheduled = FALSE]]
  /\ UNCHANGED <<row, api, now, shown, lastEvent, abandoned, faults, mix>>

\* handleDead logs the message and acks it.
HandleDead(m) ==
  /\ mq[m].pc = "dead"
  /\ mq' = [mq EXCEPT ![m] = FreeSlot]
  /\ UNCHANGED <<row, api, now, shown, lastEvent, abandoned, faults, mix>>

\* The consumer crashes, or a database call outside the try throws: the
\* message goes back to the queue.
Redeliver(m) ==
  /\ "redeliver" \in mix
  /\ faults < MaxFaults
  /\ mq[m].pc \notin {"free", "queued", "dead"}
  /\ mq' = [mq EXCEPT ![m] = [@ EXCEPT !.pc = "queued", !.scheduled = FALSE]]
  /\ faults' = faults + 1
  /\ UNCHANGED <<row, api, now, shown, lastEvent, abandoned, mix>>

Tick ==
  /\ now < MaxTime
  /\ now' = now + 1
  /\ UNCHANGED <<row, api, mq, shown, lastEvent, abandoned, faults, mix>>

-----------------------------------------------------------------------------
Init ==
  /\ row = [n \in Notices |-> AbsentRow]
  /\ api = [r \in Requests |-> IdleRequest]
  /\ mq = [m \in Messages |-> FreeSlot]
  /\ now = 1
  /\ shown = {}
  /\ lastEvent = [n \in Notices |-> "none"]
  /\ abandoned = {}
  /\ faults = 0
  /\ mix \in Mixes

\* A request arrives and does its read.
Arrive(r) ==
  \/ \E n \in Notices : \/ UpdateRead(r, n)
                        \/ RemoveRead(r, n)
                        \/ PublishRead(r, n)
                        \/ RevokeRead(r, n)
                        \/ RetryRead(r, n)
  \/ \E ids \in SUBSET Notices : RemoveBatchRead(r, ids)

\* A request in progress takes its next step.
Proceed(r) ==
  \/ RemoveWrite(r)
  \/ \E n \in Notices :
       \/ UpdateWrite(r, n)
       \/ PublishWrite(r, n)
       \/ PublishSend(r, n)
       \/ PublishSendFails(r, n)
       \/ PublishDone(r, n)
       \/ PublishFail(r, n)
       \/ RevokeWrite(r, n)
       \/ RevokePush(r, n)
       \/ RetryWrite(r, n)
       \/ RetrySend(r, n)
       \/ RetrySendFails(r, n)
       \/ RetryFail(r, n)

\* The consumer's handling of message m goes on.
Consume(m) ==
  \/ Handle(m)
  \/ Expire(m)
  \/ Promote(m)
  \/ Push(m)
  \/ Mark(m)
  \/ Catch(m)
  \/ Resend(m)
  \/ ResendFails(m)
  \/ GiveUp(m)
  \/ Settle(m)
  \/ HandleDead(m)

Next ==
  \/ \E n \in Notices : Create(n)
  \/ \E r \in Requests : Arrive(r) \/ Proceed(r) \/ Abort(r)
  \/ \E m \in Messages : Consume(m) \/ Redeliver(m)
  \/ Tick

\* Requests in progress and delivered messages are worked on, time passes;
\* nobody is obliged to issue a request, and faults need not happen.
Fairness ==
  /\ WF_vars(Tick)
  /\ \A r \in Requests : WF_vars(Proceed(r))
  /\ \A m \in Messages : WF_vars(Consume(m))

Spec == Init /\ [][Next]_vars /\ Fairness

-----------------------------------------------------------------------------
(***************************************************************************)
(* Properties.                                                             *)
(***************************************************************************)

\* Who will still move notice n on: a message to be delivered or being
\* handled, a request between making the notice pending and its last write.
MessagesFor(n) == {m \in Messages : /\ mq[m].notice = n
                                    /\ mq[m].pc \notin {"free", "ack", "nack", "dead"}}
RequestsFor(n) == {r \in Requests :
                     /\ n \in api[r].ids
                     /\ api[r].pc \in {"publishSend", "publishDone", "publishFail",
                                       "retrySend", "retryFail"}}

AwaitsDelivery(n) == Active(row[n].publishStatus) /\ row[n].sendStatus = Pending

\* A notice that is published or scheduled with sendStatus 0 is being worked
\* on: a message exists for it or a request has not returned, however requests
\* and consumers interleave, and whatever is redelivered.  The only exception
\* is a request that died before sending; retry refuses such a notice, because
\* it demands sendStatus -1.
PendingHasCarrier ==
  \A n \in Notices : Found(n) /\ AwaitsDelivery(n) =>
     n \in abandoned \/ MessagesFor(n) # {} \/ RequestsFor(n) # {}

\* sendStatus 2 means that the notice was pushed: no interleaving of the direct
\* push, retries, redeliveries and the conditional update marks as sent what no
\* client was ever sent.
DoneWasPushed == \A n \in Notices : row[n].sendStatus = Done => n \in shown

\* With one administrator request at a time, a notice has one carrier, and every
\* carrier beyond it was paid for by a fault: a redelivery, a request that died or
\* a send that failed though its message arrived.  Retry, resend, fallback and
\* dead-lettering hand over; they duplicate nothing, not even the duplicates.
OneCarrierPerFault ==
  \A n \in Notices :
    Cardinality(MessagesFor(n)) + Cardinality(RequestsFor(n)) <= 1 + faults

Pushes(m) == mq[m].pc = "push" /\ mq'[m].pc = "mark"

\* With one administrator request at a time, no failing push and no failed send
\* that arrives (each makes a second message), the consumer pushes no notice that
\* is already marked as sent, whatever is redelivered and whichever request dies.
NoPushAfterDone ==
  [][\A m \in Messages :
       Pushes(m) /\ {"push", "arrive"} \cap mix = {}
         => row[mq[m].notice].sendStatus # Done]_vars

\* What README.md:420 and notice.consumer.ts:87 promise: the conditional update
\* keeps a notice from being pushed again, when consumers are at it concurrently
\* too.  (The push comes before the update.)
NeverPushedTwice ==
  [][\A m \in Messages : Pushes(m) => row[mq[m].notice].sendStatus # Done]_vars

\* A timed notice is not pushed before its send time, through retries of failed
\* sends and resends too (unless it was revoked, after which it may be edited
\* while its old message is still being handled).
NotBeforeDue ==
  [][\A m \in Messages : Pushes(m) =>
       LET n == mq[m].notice
       IN  row[n].sendMode = Timed /\ ~row[n].revokeTime => now >= row[n].sendTime]_vars

\* A revoked notice stays revoked (notice.consumer.ts:50 skips revoked ones).
RevokedStaysRevoked ==
  [][\A n \in Notices :
       row[n].publishStatus = Revoked => row'[n].publishStatus = Revoked]_vars

\* The code implements NoticeDelivery: a notice's outcome is its sendStatus,
\* once it has left the draft state.
OutcomeOf(s) == IF s = Pending THEN "owed"
                ELSE IF s = Done THEN "sent"
                ELSE IF s = Failed THEN "failed" ELSE "expired"

Outcome == [n \in Notices |-> IF row[n].publishStatus = Draft THEN "unpublished"
                              ELSE OutcomeOf(row[n].sendStatus)]

Delivery == INSTANCE NoticeDelivery WITH outcome <- Outcome

\* Drafts are never shown, nor revoked on clients' screens, and nothing unshown
\* is reported as sent, in any interleaving.
ImplementsDelivery == Delivery!Spec

\* A notice with a message in the broker is eventually settled: sent, failed,
\* expired, revoked or deleted.
Settles ==
  \A n \in Notices :
     Found(n) /\ AwaitsDelivery(n) /\ MessagesFor(n) # {}
       ~> ~Found(n) \/ ~AwaitsDelivery(n)

=============================================================================
