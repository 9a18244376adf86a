------------------------------ MODULE MCCollector ------------------------------
(* An instance of Collector for TLC. *)
EXTENDS Collector, TLC

===============================================================================
