------------------------------ MODULE MCNodeLock ------------------------------
(* TLC instances of NodeLock; the processes may be permuted where no         *)
(* liveness property is checked.                                             *)
EXTENDS NodeLock, TLC

Symmetry == Permutations(Procs)

=============================================================================
