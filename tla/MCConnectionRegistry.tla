------------------------- MODULE MCConnectionRegistry -------------------------
(* TLC instances of ConnectionRegistry: the sockets are interchangeable. *)
EXTENDS ConnectionRegistry, TLC

Symmetry == Permutations(Sockets) \cup Permutations(Devices)

=============================================================================
