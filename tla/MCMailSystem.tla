---------------------------- MODULE MCMailSystem ---------------------------
(* The instance of MailSystem for TLC.                                     *)
EXTENDS MailSystem, TLC
Symmetry == Permutations(Sessions) \cup Permutations(Users)
=============================================================================
