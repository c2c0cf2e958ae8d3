------------------------------ MODULE MCStores ------------------------------
(***************************************************************************)
(* Files and Logs in one run.  They share nothing, so a behaviour of the    *)
(* run is one of either: part says of which, and the other stands still.    *)
(***************************************************************************)
EXTENDS Files

CONSTANTS Entries, MaxTime, MaxLogFaults
ASSUME LogBounds == MaxTime \in Nat /\ MaxLogFaults \in Nat

VARIABLES part, now, entry, msg, rows, lost, logFaults

logsVars == <<now, entry, msg, rows, lost, logFaults>>

Logs == INSTANCE Logs WITH MaxFaults <- MaxLogFaults, faults <- logFaults

StoresInit == part \in {"files", "logs"} /\ Init /\ Logs!Init
StoresNext == \/ part = "files" /\ Next /\ UNCHANGED logsVars /\ UNCHANGED part
              \/ part = "logs" /\ Logs!Next /\ UNCHANGED vars /\ UNCHANGED part

\* The fairness of Logs: what has started to be logged goes on, what is queued
\* is delivered.
StoresSpec ==
  /\ StoresInit /\ [][StoresNext]_<<part, vars, logsVars>>
  /\ \A e \in Entries : WF_(logsVars)(Logs!Log(e)) /\ WF_(logsVars)(Logs!Process(e))

\* Every row of an entry beyond its first was paid for by a fault: Logs.tla.
WrittenOncePerFault == Logs!WrittenOncePerFault

\* The fallback keeps entries from being lost (operation-log.interceptor.ts:225):
\* Logs.tla.
EveryRequestIsLogged == Logs!EveryRequestIsLogged
=============================================================================
