---------------------------- MODULE MCSessionLease ----------------------------
(* TLC instances of SessionLease; the nodes may be permuted where no         *)
(* liveness property is checked.                                             *)
EXTENDS SessionLease, TLC

Symmetry == Permutations(Nodes)

=============================================================================
