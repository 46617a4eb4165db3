-------------------------- MODULE MCSessionTurnLock -------------------------
(* TLC instance of SessionTurnLock.                                        *)
EXTENDS SessionTurnLock
=============================================================================
