----------------------------- MODULE ScanLedger -----------------------------
(***************************************************************************)
(* What scan ingestion promises, without Kafka, workers or failures: a     *)
(* scan is first recorded (its row in scan_events), then either counted    *)
(* (its ride is in the visitor's Redis set of the day) or owed (a row of   *)
(* scan_events_outbox), and a debt is only struck off once the ride has    *)
(* been counted.  ScanPipeline implements it.                              *)
(***************************************************************************)

CONSTANT Traces         \* the scans, each known by its trace_id

VARIABLES
  recorded,             \* scans with a durable row
  counted,              \* scans whose ride is in the daily set
  owed                  \* scans whose aggregation is parked

vars == <<recorded, counted, owed>>

Init ==
  /\ recorded = {}
  /\ counted = {}
  /\ owed = {}

Record(t) ==
  /\ recorded' = recorded \cup {t}
  /\ UNCHANGED <<counted, owed>>

Count(t) ==
  /\ t \in recorded
  /\ counted' = counted \cup {t}
  /\ UNCHANGED <<recorded, owed>>

Owe(t) ==
  /\ t \in recorded
  /\ owed' = owed \cup {t}
  /\ UNCHANGED <<recorded, counted>>

StrikeOff(t) ==
  /\ t \in owed \cap counted
  /\ owed' = owed \ {t}
  /\ UNCHANGED <<recorded, counted>>

Next == \E t \in Traces : Record(t) \/ Count(t) \/ Owe(t) \/ StrikeOff(t)

Spec == Init /\ [][Next]_vars

-----------------------------------------------------------------------------
(* What the ledger's steps add up to *)

\* A ride is counted or owed only for a scan with a durable row.
OnlyRecorded == counted \cup owed \subseteq recorded

\* Once recorded a scan stays so, once counted a ride stays so, and a debt that is
\* no longer there has been paid.
Keeps ==
  /\ recorded \subseteq recorded' /\ counted \subseteq counted'
  /\ owed \subseteq owed' \cup counted'

NothingIsLost == [][Keeps]_vars
=============================================================================
