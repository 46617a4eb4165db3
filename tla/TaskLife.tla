------------------------------ MODULE TaskLife ------------------------------
(***************************************************************************)
(* What the scheduler promises whoever reads the table of scheduled tasks, *)
(* without saying how: the life of a row.  A task is scheduled once,       *)
(* started, and its start succeeds, fails for another attempt, or fails    *)
(* for good; it can be cancelled while it is live, and a restart makes     *)
(* everything that was running pending again.  There are no runs, slots,   *)
(* locks, timeouts or crashes here.                                        *)
(***************************************************************************)
EXTENDS Integers

CONSTANTS Tasks, Cron, MaxAttempts

VARIABLE row    \* [Tasks -> [status, attempts]]

Entry(status, attempts) == [status |-> status, attempts |-> attempts]

Becomes(t, status, attempts) == row' = [row EXCEPT ![t] = Entry(status, attempts)]

Enter(t) ==
  /\ row[t] = Entry("absent", 0)
  /\ Becomes(t, "pending", 0)

\* Several due tasks are started by one pass.
StartAll(S) ==
  /\ \A t \in S : row[t].status = "pending"
  /\ row' = [t \in Tasks |-> IF t \in S THEN Entry("running", row[t].attempts) ELSE row[t]]

Succeed(t) ==
  /\ row[t].status = "running"
  /\ IF t \in Cron THEN Becomes(t, "pending", 0)
                   ELSE Becomes(t, "completed", row[t].attempts)

Fail(t) ==
  LET n == row[t].attempts + 1
  IN  /\ row[t].status = "running"
      /\ IF n < MaxAttempts THEN Becomes(t, "pending", n)
                            ELSE Becomes(t, "dead_letter", n)

Withdraw(t) ==
  /\ row[t].status \in {"pending", "running"}
  /\ Becomes(t, "cancelled", row[t].attempts)

\* A restart: what was running is pending again, the attempt is not counted.
Restart ==
  row' = [t \in Tasks |-> IF row[t].status = "running"
                            THEN Entry("pending", row[t].attempts) ELSE row[t]]

LifeInit == row = [t \in Tasks |-> Entry("absent", 0)]

LifeNext ==
  \/ \E t \in Tasks : Enter(t) \/ Succeed(t) \/ Fail(t) \/ Withdraw(t)
  \/ \E S \in SUBSET Tasks : StartAll(S)
  \/ Restart

LifeSpec == LifeInit /\ [][LifeNext]_row
=============================================================================
