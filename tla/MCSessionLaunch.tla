--------------------------- MODULE MCSessionLaunch ---------------------------
(* TLC instance of SessionLaunch: sessions are model values.                 *)
EXTENDS SessionLaunch

=============================================================================
