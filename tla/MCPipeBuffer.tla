---------------------------- MODULE MCPipeBuffer ----------------------------
(* The instance of PipeBuffer for TLC.                                     *)
EXTENDS PipeBuffer
=============================================================================
