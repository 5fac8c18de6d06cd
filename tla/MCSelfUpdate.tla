----------------------------- MODULE MCSelfUpdate -----------------------------
(* TLC instances of SelfUpdate.                                              *)
EXTENDS SelfUpdate

=============================================================================
