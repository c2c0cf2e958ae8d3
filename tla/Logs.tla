-------------------------------- MODULE Logs --------------------------------
(***************************************************************************)
(* Login logs and operation logs: OperationLogInterceptor, LoginLogListener *)
(* and LoginLogProducer, which publish a record after the answer to the    *)
(* request is on its way, the two consumers, and LoginLogService and       *)
(* OperationLogService, which write the rows and clean them.               *)
(*                                                                         *)
(* An entry is what one request or login has to log.  Requests that log    *)
(* nothing (reads without @LogAction, @SkipOperationLog, and what a guard  *)
(* refuses before the interceptor) take no step here.  Nobody waits for an *)
(* entry: no failure reaches the request.  The services swallow the error  *)
(* of an insert, so a consumer acknowledges every message and nothing is   *)
(* ever dead-lettered.  A message is lost neither by the broker nor on the *)
(* way.  A tick is a day.                                                  *)
(***************************************************************************)
EXTENDS Naturals, FiniteSets

CONSTANTS
  Entries,
  MaxTime,  \* a number: bounds the days
  MaxFaults \* a number: bounds the faults, failures of broker and database, crashes

VARIABLES
  now,
  entry,  \* where each entry is in the process that logs it
  msg,    \* its message in the queue of its kind
  rows,   \* login_logs and operation_logs: entries and when they were written
  lost,   \* entries dropped: an insert failed, or a process died with it
  faults

vars == <<now, entry, msg, rows, lost, faults>>

-----------------------------------------------------------------------------
Kinds == {"operation", "login"}

\* getUser: the interceptor looks for the user's name.
Entry   == [pc : {"none", "getUser", "publish", "record", "done"}, kind : Kinds]
NoEntry == [pc |-> "none", kind |-> "operation"]

\* delivered: the consumer has it; recorded: it is about to acknowledge it.
MsgStates == {"none", "queued", "delivered", "recorded", "acked"}

\* nth tells the rows of an entry that were written on one day apart, as their
\* ids do; no clean-up takes rows of today, so that it is new for every row.
Row == [entry : Entries, createdAt : 0 .. MaxTime, nth : Nat]

TypeOK ==
  /\ now \in 0 .. MaxTime
  /\ entry \in [Entries -> Entry]
  /\ msg \in [Entries -> MsgStates]
  /\ rows \subseteq Row /\ IsFiniteSet(rows)
  /\ lost \subseteq Entries
  /\ faults \in 0 .. MaxFaults

Goto(e, pc) == entry' = [entry EXCEPT ![e].pc = pc]
Fault       == faults < MaxFaults /\ faults' = faults + 1

-----------------------------------------------------------------------------
\* The process that logs.

\* The handler has returned or thrown, or the event auth.login was emitted.
Finish(e, k) ==
  /\ entry[e].pc = "none"
  /\ entry' = [entry EXCEPT ![e] = [pc |-> IF k = "operation" THEN "getUser" ELSE "publish",
                                    kind |-> k]]
  /\ UNCHANGED <<now, msg, rows, lost, faults>>

\* A failure is ignored, the name stays empty.
GetUser(e) ==
  /\ entry[e].pc = "getUser"
  /\ Goto(e, "publish")
  /\ UNCHANGED <<now, msg, rows, lost, faults>>

\* Mutant: the fallback runs after every publish.
PublishAndRecord(e) ==
  /\ entry[e].pc = "publish"
  /\ Goto(e, "record")
  /\ msg' = [msg EXCEPT ![e] = "queued"]
  /\ UNCHANGED <<now, rows, lost, faults>>

Publish(e) ==
  /\ entry[e].pc = "publish"
  /\ Goto(e, "done")
  /\ msg' = [msg EXCEPT ![e] = "queued"]
  /\ UNCHANGED <<now, rows, lost, faults>>

\* Mutant: there is no fallback.
PublishGivesUp(e, arrived) ==
  /\ entry[e].pc = "publish" /\ Fault
  /\ Goto(e, "done")
  /\ msg' = [msg EXCEPT ![e] = IF arrived THEN "queued" ELSE @]
  /\ UNCHANGED <<now, rows, lost>>

\* The broker may have the message all the same: the entry is logged twice.
PublishFails(e, arrived) ==
  /\ entry[e].pc = "publish" /\ Fault
  /\ Goto(e, "record")
  /\ msg' = [msg EXCEPT ![e] = IF arrived THEN "queued" ELSE @]
  /\ UNCHANGED <<now, rows, lost>>

\* LoginLogService.record and OperationLogService.record
Today(e)   == {w \in rows : w.entry = e /\ w.createdAt = now}
Insert(e)  == /\ rows' = rows \cup {[entry |-> e, createdAt |-> now,
                                    nth |-> Cardinality(Today(e))]}
              /\ UNCHANGED <<lost, faults>>
Swallow(e) == /\ Fault
              /\ lost' = lost \cup {e}
              /\ UNCHANGED rows

RecordNow(e) ==
  /\ entry[e].pc = "record"
  /\ Insert(e) \/ Swallow(e)
  /\ Goto(e, "done")
  /\ UNCHANGED <<now, msg>>

\* What was not published is in the memory of the process only.
ProcessDies(e) ==
  /\ entry[e].pc \in {"getUser", "publish", "record"} /\ Fault
  /\ Goto(e, "done")
  /\ lost' = lost \cup {e}
  /\ UNCHANGED <<now, msg, rows>>

-----------------------------------------------------------------------------
\* The broker and the consumers.

Move(e, from, to) == msg[e] = from /\ msg' = [msg EXCEPT ![e] = to]

Deliver(e) ==
  /\ Move(e, "queued", "delivered")
  /\ UNCHANGED <<now, entry, rows, lost, faults>>

Consume(e) ==
  /\ Move(e, "delivered", "recorded")
  /\ Insert(e) \/ Swallow(e)
  /\ UNCHANGED <<now, entry>>

Ack(e) ==
  /\ Move(e, "recorded", "acked")
  /\ UNCHANGED <<now, entry, rows, lost, faults>>

\* What was not acknowledged is delivered again, a row that was written too.
ConsumerDies(e) ==
  /\ Move(e, "delivered", "queued") \/ Move(e, "recorded", "queued")
  /\ Fault
  /\ UNCHANGED <<now, entry, rows, lost>>

-----------------------------------------------------------------------------
Clean(k, keepDays) ==
  /\ rows' = {w \in rows : entry[w.entry].kind = k => w.createdAt + keepDays >= now}
  /\ rows' # rows
  /\ UNCHANGED <<now, entry, msg, lost, faults>>

Tick == now < MaxTime /\ now' = now + 1 /\ UNCHANGED <<entry, msg, rows, lost, faults>>

Init ==
  /\ now = 0
  /\ entry = [e \in Entries |-> NoEntry]
  /\ msg = [e \in Entries |-> "none"]
  /\ rows = {}
  /\ lost = {}
  /\ faults = 0

Log(e)     == GetUser(e) \/ Publish(e) \/ RecordNow(e)
              \/ \E arrived \in BOOLEAN : PublishFails(e, arrived)
Process(e) == Deliver(e) \/ Consume(e) \/ Ack(e)

Next ==
  \/ \E e \in Entries :
       \/ \E k \in Kinds : Finish(e, k)
       \/ Log(e) \/ ProcessDies(e) \/ Process(e) \/ ConsumerDies(e)
  \/ \E k \in Kinds, keepDays \in 1 .. MaxTime : Clean(k, keepDays)
  \/ Tick

\* A promise that has started goes on; the broker delivers what is queued, and
\* the consumer is there to take it.
Spec == Init /\ [][Next]_vars /\ \A e \in Entries : WF_vars(Log(e)) /\ WF_vars(Process(e))

-----------------------------------------------------------------------------
\* operation-log.interceptor.ts:225: the fallback keeps entries from being
\* lost.  Every entry is written in the end, whatever happens to the broker
\* and the consumers, unless an insert failed or its process died.
EveryRequestIsLogged ==
  \A e \in Entries :
    entry[e].pc \in {"getUser", "publish", "record"}
      ~> e \in lost \/ \E w \in rows : w.entry = e

\* What that needs of a single step: an entry is on its way in its process or
\* in the queue until it is written or lost, and is not left in between.
OnItsWay(e) == \/ entry[e].pc \in {"getUser", "publish", "record"}
               \/ msg[e] \in {"queued", "delivered"}
NoEntryIsDropped ==
  [][\A e \in Entries :
       OnItsWay(e) /\ ~OnItsWay(e)' => (e \in lost \/ \E w \in rows : w.entry = e)']_vars

\* An entry has one row, and every row beyond it was paid for by a fault: a
\* publish that failed though the message arrived, or a consumer that died
\* between the row and its acknowledgement.
RowsOf(e) == {w \in rows : w.entry = e}
WrittenOncePerFault == \A e \in Entries : Cardinality(RowsOf(e)) <= 1 + faults
=============================================================================
