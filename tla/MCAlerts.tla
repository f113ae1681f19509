------------------------------ MODULE MCAlerts ------------------------------
(* Small instances of Alerts for TLC. *)
EXTENDS Alerts

CONSTANTS j1, j2

MCComparator == [r \in Rules |-> "GTE"]
MCSource == [r \in Rules |-> IF r = 1 THEN Snapshots ELSE Risk]
=============================================================================
