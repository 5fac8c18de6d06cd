-------------------------- MODULE MCRelayConnection --------------------------
(* TLC instance of RelayConnection: the run checks liveness, so the sockets  *)
(* are not permuted.                                                         *)
EXTENDS RelayConnection

=============================================================================
