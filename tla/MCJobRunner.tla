---------------------------- MODULE MCJobRunner -----------------------------
(* TLC instances of JobRunner.                                             *)
EXTENDS JobRunner

MCWorkers == 1..MaxBoots
=============================================================================
