--------------------------- MODULE NoticeDelivery ---------------------------
(***************************************************************************)
(* What the notice module promises, without broker, requests or clock: a   *)
(* notice is owed once an administrator publishes it, clients are shown,   *)
(* and told to forget, only notices that were published, and the outcome   *)
(* "sent" is reported only of a notice that was shown.  Publishing and     *)
(* retrying owe it again; which other outcome a notice gets, and how       *)
(* often, is left open.                                                    *)
(***************************************************************************)
CONSTANT Notices

VARIABLES
  outcome,  \* per notice, what the administrator is told
  shown,    \* notices that were shown to clients
  lastEvent \* per notice, the event clients were sent last

Outcomes == {"unpublished", "owed", "sent", "failed", "expired"}

Init ==
  /\ outcome = [n \in Notices |-> "unpublished"]
  /\ shown = {}
  /\ lastEvent = [n \in Notices |-> "none"]

Owe(n) ==
  /\ outcome' = [outcome EXCEPT ![n] = "owed"]
  /\ UNCHANGED <<shown, lastEvent>>

Show(n) ==
  /\ outcome[n] # "unpublished"
  /\ shown' = shown \cup {n}
  /\ lastEvent' = [lastEvent EXCEPT ![n] = "notice"]
  /\ UNCHANGED outcome

Withdraw(n) ==
  /\ outcome[n] # "unpublished"
  /\ lastEvent' = [lastEvent EXCEPT ![n] = "notice-revoke"]
  /\ UNCHANGED <<outcome, shown>>

Confirm(n) ==
  /\ n \in shown
  /\ outcome' = [outcome EXCEPT ![n] = "sent"]
  /\ UNCHANGED <<shown, lastEvent>>

GiveUp(n) ==
  /\ outcome[n] # "unpublished"
  /\ \E o \in {"failed", "expired"} : outcome' = [outcome EXCEPT ![n] = o]
  /\ UNCHANGED <<shown, lastEvent>>

Next == \E n \in Notices : Owe(n) \/ Show(n) \/ Withdraw(n) \/ Confirm(n) \/ GiveUp(n)

Spec == Init /\ [][Next]_<<outcome, shown, lastEvent>>
=============================================================================
