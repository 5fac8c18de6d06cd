---------------------------- MODULE MCPromptQueue -----------------------------
(* TLC instances of PromptQueue.                                             *)
EXTENDS PromptQueue

=============================================================================
