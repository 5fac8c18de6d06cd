--------------------------- MODULE MCCiAutoIterate ---------------------------
(* TLC instance of CiAutoIterate: commits are model values.                  *)
EXTENDS CiAutoIterate

==============================================================================
