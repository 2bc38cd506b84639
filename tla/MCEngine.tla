------------------------------ MODULE MCEngine ------------------------------
(* Instances of Engine for TLC: every configuration gives the constants.   *)
EXTENDS EngineService
=============================================================================
