------------------------------ MODULE MCAlerts ------------------------------
(* Instances of Alerts for TLC; the errors and details are model values of   *)
(* the .cfg files. *)
EXTENDS Alerts
=============================================================================
