------------------------------ MODULE MCOutbox ------------------------------
(* TLC instance of Outbox: sessions or terminals are model values.           *)
EXTENDS Outbox

=============================================================================
