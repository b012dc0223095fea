-------------------------- MODULE MCMonitorFleet --------------------------
(* The instances of MonitorFleet TLC checks: see the .cfg files. *)
EXTENDS MonitorFleet, TLC
=============================================================================
