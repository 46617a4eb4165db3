--------------------------- MODULE MCSessionTurns ---------------------------
(* TLC instance of SessionTurns.                                           *)
EXTENDS SessionTurns
=============================================================================
