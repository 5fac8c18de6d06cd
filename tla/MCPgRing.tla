------------------------------- MODULE MCPgRing -------------------------------
(* TLC instances of PgRing; the node's sockets may be permuted.              *)
EXTENDS PgRing, TLC

Symmetry == Permutations(Sockets)

=============================================================================
