----------------------------- MODULE MCConnTLS -----------------------------
(* The instance of ConnTLS for TLC.                                        *)
EXTENDS ConnTLS
=============================================================================
