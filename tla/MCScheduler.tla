----------------------------- MODULE MCScheduler ----------------------------
EXTENDS Scheduler, TLC

CONSTANTS once, cron, s1

MCSessionOf == (once :> s1) @@ (cron :> s1)
=============================================================================
