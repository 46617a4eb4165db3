----------------------------- MODULE MCJobQueue -----------------------------
(* TLC instance of JobQueue: most general client, two jobs, two workers.   *)
EXTENDS JobQueue, TLC

\* A caller may ask for 0 attempts and gets 1.
MCMaxAttempts == {0, 2}

MCSymmetry == Permutations(Workers)
=============================================================================
