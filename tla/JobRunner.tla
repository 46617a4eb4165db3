------------------------------ MODULE JobRunner -----------------------------
(***************************************************************************)
(* PersistentJobRunner (packages/core/src/persistent-job-runner.ts) on top *)
(* of the queue of JobQueue: one runner per process, the operator's HTTP   *)
(* routes (enqueue, cancel, retry), and crashes of the process.            *)
(*                                                                         *)
(* Node runs one callback at a time.  tick() is synchronous from its first *)
(* to its last claim; ticking is TRUE while it runs, and no other callback *)
(* runs then.  A handler is awaited, so everything else interleaves with   *)
(* it.  The registered handler ignores its abort signal                    *)
(* (packages/core/src/api/index.ts), so an aborted execution returns when  *)
(* it returns, like any other.                                             *)
(*                                                                         *)
(* The worker identity is worker-<pid>: every boot has its own.            *)
(* UpdateProgress and Checkpoint touch no field the runner reads; they are *)
(* checked with JobQueue alone.                                            *)
(***************************************************************************)
EXTENDS JobQueue

CONSTANTS
  MaxConcurrent, \* maxConcurrent of the runner
  HandledTypes,  \* job types with a registered handler
  MaxExecs,      \* bound: handlers in flight at the same time
  MaxBoots       \* bound: processes started one after the other

ASSUME JobRunnerAssumption ==
  /\ MaxConcurrent \in Nat \ {0}
  /\ HandledTypes \subseteq Types
  /\ MaxExecs \in Nat
  /\ MaxBoots \in Nat \ {0}
  /\ Workers = 1..MaxBoots
  /\ NoWorker = 0

VARIABLES
  boot,        \* the current process; also its workerId
  polling,     \* the poll timer is set (status.running)
  ticking,     \* the ticking flag
  execs,       \* one slot per execute() call in flight: its job, 0 when free
  controllers, \* the controllers Map: job id -> execution, 0 when no entry
  aborted      \* the executions whose AbortController was aborted

rvars == <<boot, polling, ticking, execs, controllers, aborted>>
vars == <<jobs, boot, polling, ticking, execs, controllers, aborted>>

ExecIds == 1..MaxExecs

InFlight == {e \in ExecIds : execs[e] # 0}

ControlledJobs == {i \in JobIds : controllers[i] # 0}

LowestFreeExec(e) == execs[e] = 0 /\ \A f \in ExecIds : f < e => execs[f] # 0

-----------------------------------------------------------------------------
(* tick() *)

CanClaimOffByOne == Cardinality(ControlledJobs) <= MaxConcurrent

\* controllers.size < maxConcurrent
CanClaim == Cardinality(ControlledJobs) < MaxConcurrent

\* The poll timer fires.  A poll that finds tick() running, no capacity or no
\* eligible job changes nothing and is no step.
PollTimer ==
  /\ polling /\ ~ticking
  /\ CanClaim /\ ~NothingEligible
  /\ ticking' = TRUE
  /\ UNCHANGED <<jobs, boot, polling, execs, controllers, aborted>>

\* One turn of the while loop: claim a job and start its handler.  The Map is
\* keyed by job id, so an entry of an older execution is overwritten.
TickClaim ==
  /\ ticking /\ CanClaim
  /\ \E i \in JobIds, e \in ExecIds :
       /\ jobs[i].type \in HandledTypes
       /\ LowestFreeExec(e)
       /\ DequeueJob(i, boot)
       /\ execs' = [execs EXCEPT ![e] = i]
       /\ controllers' = [controllers EXCEPT ![i] = e]
       /\ aborted' = aborted \ {e}
  /\ UNCHANGED <<boot, polling, ticking>>

\* One turn of the while loop for a type without handler: claim, then fail
\* with no delay, in the same turn.
TickNoHandler ==
  /\ ticking /\ CanClaim
  /\ \E i \in JobIds :
       /\ jobs[i].type \notin HandledTypes
       /\ IsNextJob(i)
       /\ jobs[i].attempts < AttemptBound
       /\ jobs' = [jobs EXCEPT ![i] = Failed(Claimed(@, boot), 0)]
  /\ UNCHANGED <<boot, polling, ticking, execs, controllers, aborted>>

\* The loop ends: no capacity left, or dequeue returned null.
TickEnd ==
  /\ ticking
  /\ ~CanClaim \/ NothingEligible
  /\ ticking' = FALSE
  /\ UNCHANGED <<jobs, boot, polling, execs, controllers, aborted>>

-----------------------------------------------------------------------------
(* execute() *)

\* The heartbeat interval of an execution: renew the lease, or abort.
HeartbeatTimer(e) ==
  LET i == execs[e] IN
  /\ ~ticking /\ i # 0
  /\ \/ /\ Heartbeat(i, boot)
        /\ UNCHANGED aborted
     \/ /\ ~(jobs[i].status = "running" /\ jobs[i].leaseOwner = boot)
        /\ aborted' = aborted \cup {e}
        /\ UNCHANGED jobs
  /\ UNCHANGED <<boot, polling, ticking, execs, controllers>>

FinallyKeepsController(e) ==
  /\ execs' = [execs EXCEPT ![e] = 0]
  /\ aborted' = aborted \ {e}
  /\ ticking' = TRUE
  /\ UNCHANGED <<boot, polling, controllers>>

\* The finally block: the slot is gone, the Map entry of the JOB is deleted
\* (whichever execution it belongs to), and tick() is called.
Finally(e) ==
  /\ execs' = [execs EXCEPT ![e] = 0]
  /\ controllers' = [controllers EXCEPT ![execs[e]] = 0]
  /\ aborted' = aborted \ {e}
  /\ ticking' = TRUE
  /\ UNCHANGED <<boot, polling>>

\* The handler resolved: complete(); when that returns null the thrown error
\* reaches the catch block, whose fail() returns null as well.
HandlerResolves(e) ==
  LET i == execs[e] IN
  /\ ~ticking /\ i # 0
  /\ \/ Complete(i, boot)
     \/ ~OwnsLease(jobs[i], boot) /\ UNCHANGED jobs
  /\ Finally(e)

\* A rejection that is only logged.
RejectionDropped(e) ==
  LET i == execs[e] IN
  /\ ~ticking /\ i # 0
  /\ UNCHANGED jobs
  /\ Finally(e)

\* The handler rejected: fail() with a retry delay of 60 s.
HandlerRejects(e) ==
  LET i == execs[e] IN
  /\ ~ticking /\ i # 0
  /\ \/ \E d \in Delays : Fail(i, boot, d)
     \/ ~OwnsLease(jobs[i], boot) /\ UNCHANGED jobs
  /\ Finally(e)

-----------------------------------------------------------------------------
(* Operator, shutdown, crash, time *)

OperatorEnqueue ==
  \E t \in Types, p \in Priorities, m \in MaxAttemptsOptions, d \in Delays,
     k \in Keys \cup {NoKey} : Enqueue(t, p, m, d, k)

\* The route's approval test only decides whether a retry comes at all.
OperatorRetry == \E i \in JobIds, d \in Delays : Retry(i, d)

OperatorCancel == \E i \in JobIds : Cancel(i)

\* The HTTP routes on the queue the runner works on.
OperatorStep ==
  /\ ~ticking
  /\ OperatorEnqueue \/ OperatorRetry \/ OperatorCancel
  /\ UNCHANGED rvars

StopAbortsAllJobs ==
  /\ polling /\ ~ticking
  /\ polling' = FALSE
  /\ aborted' = aborted \cup {controllers[i] : i \in JobIds}
  /\ UNCHANGED <<jobs, boot, ticking, execs, controllers>>

\* stop(): clears the timer and aborts every controller in the Map; it then
\* only waits.  tick() itself does not look at the flag.
Stop ==
  /\ polling /\ ~ticking
  /\ polling' = FALSE
  /\ aborted' = aborted \cup {controllers[i] : i \in ControlledJobs}
  /\ UNCHANGED <<jobs, boot, ticking, execs, controllers>>

\* A new process: its runner has no executions and starts to poll.
Boot ==
  /\ boot < MaxBoots
  /\ boot' = boot + 1
  /\ polling' = TRUE /\ ticking' = FALSE
  /\ execs' = [e \in ExecIds |-> 0]
  /\ controllers' = [i \in JobIds |-> 0]
  /\ aborted' = {}

\* The process dies with every handler in flight; the next one loads the file.
Restart == Load /\ Boot

\* The process dies inside tick(), when dequeue() has written a claim and
\* neither the handler has started nor, without handler, fail() has written.
CrashInClaim ==
  /\ ticking /\ CanClaim
  /\ \E i \in JobIds :
       /\ IsNextJob(i)
       /\ jobs[i].attempts < AttemptBound
       /\ jobs' = [h \in JobIds |-> Recovered(IF h = i THEN Claimed(jobs[h], boot) ELSE jobs[h])]
  /\ Boot

\* Date.now() moves on between callbacks; nothing bounds how long one of them
\* keeps the event loop, so a lease may expire before its heartbeat fires.
ClockAdvances == ~ticking /\ TimePasses /\ UNCHANGED rvars

-----------------------------------------------------------------------------
RunnerInit ==
  /\ Init
  /\ boot = 1
  /\ polling = TRUE /\ ticking = FALSE
  /\ execs = [e \in ExecIds |-> 0]
  /\ controllers = [i \in JobIds |-> 0]
  /\ aborted = {}

RunnerNext ==
  \/ PollTimer \/ TickClaim \/ TickNoHandler \/ TickEnd
  \/ \E e \in ExecIds : HeartbeatTimer(e) \/ HandlerResolves(e) \/ HandlerRejects(e)
  \/ OperatorStep \/ Stop \/ Restart \/ CrashInClaim \/ ClockAdvances

RunnerSpec == RunnerInit /\ [][RunnerNext]_vars

\* Timers fire, callbacks run to their end and time passes; a handler returns
\* in the end.  Operators, crashes and shutdown are never owed.
RunnerFairness ==
  /\ WF_vars(PollTimer) /\ WF_vars(TickClaim) /\ WF_vars(TickNoHandler) /\ WF_vars(TickEnd)
  /\ WF_vars(ClockAdvances)
  /\ \A e \in ExecIds : WF_vars(HandlerResolves(e) \/ HandlerRejects(e))

FairRunnerSpec == RunnerSpec /\ RunnerFairness

-----------------------------------------------------------------------------
(* Properties *)

\* The runner's own state: the flags, the execution slots and the Map.
RunnerTypeOK ==
  /\ TypeOK
  /\ boot \in 1..MaxBoots
  /\ polling \in BOOLEAN /\ ticking \in BOOLEAN
  /\ execs \in [ExecIds -> JobIds \cup {0}]
  /\ controllers \in [JobIds -> ExecIds \cup {0}]
  /\ aborted \subseteq ExecIds

\* A job this process holds the lease of is being executed by it: no path
\* through tick(), execute(), cancel, retry or restart leaves a job "running"
\* under the live worker with no handler that will ever report it.
NoOrphanLease ==
  \A i \in JobIds :
    jobs[i].status = "running" /\ jobs[i].leaseOwner = boot
      => \E e \in InFlight : execs[e] = i

\* Every entry of the controllers Map belongs to a handler in flight on that
\* job, so stop() waits for nothing that has already ended.
ControllersInFlight ==
  \A i \in ControlledJobs : \E e \in InFlight : execs[e] = i

\* With maxConcurrent = 1 (the default) never two handlers run at once, even
\* when jobs are cancelled and retried, or leases expire, under a handler.
OneHandlerAtATime ==
  MaxConcurrent = 1 => \A e, f \in InFlight : e = f

\* The class comment: the runner works "with bounded concurrency".
BoundedConcurrency == Cardinality(InFlight) <= MaxConcurrent

\* persistent-job-queue.test.ts: the queue "requires the current worker lease to
\* complete": a job becomes completed only while this worker holds its lease.
LeaseRequiredToComplete ==
  [][\A i \in JobIds :
       jobs[i].status # "completed" /\ jobs'[i].status = "completed"
         => jobs[i].leaseOwner = boot]_vars

\* persistent-job-queue.test.ts: the queue "deduplicates active jobs by
\* idempotency key": work submitted twice under one key is never carried by two
\* jobs that are both still active.
UniqueActiveKey ==
  \A i, k \in JobIds :
    jobs[i].key = jobs[k].key /\ jobs[i].key # NoKey /\ Active(jobs[i]) /\ Active(jobs[k])
      => i = k

\* stop() returns.  It asks every 10 ms whether ticking || controllers.size > 0
\* (line 93), while every execution that ends calls tick(), which claims what is
\* queued; so in a process that has been told to stop and does not die there
\* must come a moment from which on the Map is empty and no tick() runs.
StopEventuallyDrains == <>[]~polling => <>[](ControlledJobs = {} /\ ~ticking)

\* While the runner polls, a queued job does not stay queued for ever: delays
\* run out, handlers return and leases of dead workers expire.
QueuedEventuallyLeaves ==
  \A i \in JobIds :
    (jobs[i].status = "queued" /\ polling) ~> (jobs[i].status # "queued" \/ ~polling)

\* A job whose worker died is claimed again, or otherwise settled.
OrphanEventuallyReclaimed ==
  \A i \in JobIds :
    (jobs[i].status = "running" /\ jobs[i].leaseOwner # boot /\ polling)
      ~> (jobs[i].status # "running" \/ jobs[i].leaseOwner = boot \/ ~polling)

=============================================================================
