----------------------------- MODULE MCMonitoring -----------------------------
(* Instances of Monitoring for TLC. *)
EXTENDS Monitoring, TLC

===============================================================================
