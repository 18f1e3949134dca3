------------------------------ MODULE MCCollector ------------------------------
(* A page whose globals change and change back. *)
EXTENDS Collector
MCGlobals == <<"none", "booted">>
================================================================================
