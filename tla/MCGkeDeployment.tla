---------------------------- MODULE MCGkeDeployment ----------------------------
(* Instances of GkeDeployment for TLC. *)
EXTENDS GkeDeployment, TLC

===============================================================================
