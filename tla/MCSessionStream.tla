--------------------------- MODULE MCSessionStream ---------------------------
(* TLC instances of SessionStream. *)
EXTENDS SessionStream

=============================================================================
