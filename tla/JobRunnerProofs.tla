--------------------------- MODULE JobRunnerProofs --------------------------
(***************************************************************************)
(* Theorems about JobRunner, for every number of jobs, boots, execution    *)
(* slots and every maxConcurrent.                                          *)
(***************************************************************************)
EXTENDS JobRunner, JobQueueProofs, FiniteSetTheorems

-----------------------------------------------------------------------------
(* The queue under the runner *)

\* A claim and the immediate failure of tick() for a type without handler.
ClaimThenFail(i) == jobs' = [jobs EXCEPT ![i] = Failed(Claimed(jobs[i], boot), 0)]

\* A claim that only the next process sees.
ClaimThenLoad(i) ==
  jobs' = [h \in JobIds |-> Recovered(IF h = i THEN Claimed(jobs[h], boot) ELSE jobs[h])]

\* Every step of the runner is a step of the queue, but for these pairs.
LEMMA RunnerOtherSteps ==
  ASSUME RunnerTypeOK, RunnerNext, ~TickNoHandler, ~CrashInClaim
  PROVE  [Next]_jobs
<1>0. boot \in Workers /\ \A e \in ExecIds : execs[e] \in JobIds \cup {0}
  BY JobRunnerAssumption DEF JobRunnerAssumption, RunnerTypeOK
<1>1. CASE PollTimer \/ TickEnd \/ Stop
  BY <1>1 DEF PollTimer, TickEnd, Stop
<1>2. CASE TickClaim
  BY <1>0, <1>2 DEF TickClaim, Next, Dequeue
<1>3. ASSUME NEW e \in ExecIds,
             HeartbeatTimer(e) \/ HandlerResolves(e) \/ HandlerRejects(e)
      PROVE  [Next]_jobs
  BY <1>0, <1>3 DEF HeartbeatTimer, HandlerResolves, HandlerRejects, Next
<1>4. CASE OperatorStep
  BY <1>4 DEF OperatorStep, OperatorEnqueue, OperatorRetry, OperatorCancel, Next
<1>5. CASE Restart
  BY <1>5 DEF Restart, Next
<1>6. CASE ClockAdvances
  BY <1>6 DEF ClockAdvances, Next
<1>7. QED
  BY <1>1, <1>2, <1>3, <1>4, <1>5, <1>6 DEF RunnerNext

\* The pairs included.
LEMMA RunnerStepsQueue ==
  ASSUME RunnerTypeOK, RunnerNext
  PROVE  [Next]_jobs \/ \E i \in JobIds : ClaimThenFail(i) \/ ClaimThenLoad(i)
<1>1. CASE TickNoHandler
  BY <1>1 DEF TickNoHandler, ClaimThenFail
<1>2. CASE CrashInClaim
  BY <1>2 DEF CrashInClaim, ClaimThenLoad
<1>3. QED
  BY <1>1, <1>2, RunnerOtherSteps

\* A claim keeps a record well-formed and its invariant.
LEMMA ClaimedInv ==
  ASSUME NEW j \in Job, JobInv(j), NEW w \in Workers
  PROVE  Claimed(j, w) \in Job /\ JobInv(Claimed(j, w))
<1>1. Claimed(j, w) \in Job
  BY ClaimedType
<1>2. /\ Claimed(j, w).leaseOwner = w /\ Claimed(j, w).leaseLeft = LeaseMs
      /\ Claimed(j, w).status = "running"
  BY DEF Claimed, LeaseDeadline, Job
<1>3. LeaseMs \in Nat \ {0} /\ NoWorker \notin Workers
  BY JobQueueAssumption DEF JobQueueAssumption
<1>4. QED
  BY <1>1, <1>2, <1>3 DEF JobInv

\* The jobs stay well-formed, and each keeps its record invariant.
LEMMA RunnerJobs ==
  ASSUME RunnerTypeOK, QueueInv, RunnerNext
  PROVE  TypeOK' /\ QueueInv'
<1>a. TypeOK /\ boot \in Workers
  BY JobRunnerAssumption DEF JobRunnerAssumption, RunnerTypeOK
<1>b. \A i \in JobIds : jobs[i] \in Job /\ JobInv(jobs[i])
  BY <1>a DEF TypeOK, QueueInv
<1>1. CASE [Next]_jobs
  <2>1. \A i \in JobIds : JobStep(jobs[i], jobs'[i])
    BY <1>a, <1>1, StepIsJobStep
  <2>2. \A i \in JobIds : jobs'[i] \in Job /\ JobInv(jobs'[i])
    BY <1>b, <2>1, JobStepType, JobStepInv
  <2>3. jobs' = [i \in JobIds |-> jobs'[i]]
    BY <1>a, <1>1, StepIsJobStep
  <2>4. TypeOK'
    BY <2>2, <2>3 DEF TypeOK
  <2>5. QueueInv'
    BY <2>2 DEF QueueInv, JobInv
  <2>6. QED
    BY <2>4, <2>5
<1>2. ASSUME NEW i \in JobIds, ClaimThenFail(i)
      PROVE  TypeOK' /\ QueueInv'
  <2> DEFINE c == Claimed(jobs[i], boot)
             k == Failed(c, 0)
  <2>1. c \in Job /\ JobInv(c)
    BY <1>a, <1>b, ClaimedInv
  <2>2. k \in Job /\ JobInv(k)
    <3>1. JobStep(c, k)
      BY DEF JobStep
    <3>2. QED
      BY <2>1, <3>1, JobStepType, JobStepInv
  <2>3. jobs' = [jobs EXCEPT ![i] = k]
    BY <1>2 DEF ClaimThenFail
  <2> HIDE DEF k, c
  <2>4. TypeOK'
    BY <1>a, <2>2, <2>3 DEF TypeOK
  <2>5. \A h \in JobIds : jobs'[h] = IF h = i THEN k ELSE jobs[h]
    BY <1>a, <2>3 DEF TypeOK
  <2>6. \A h \in JobIds : JobInv(jobs'[h])
    BY <1>b, <2>2, <2>5
  <2>7. QueueInv'
    BY <2>6 DEF QueueInv, JobInv
  <2>8. QED
    BY <2>4, <2>7
<1>3. ASSUME NEW i \in JobIds, ClaimThenLoad(i)
      PROVE  TypeOK' /\ QueueInv'
  <2> DEFINE c(h) == IF h = i THEN Claimed(jobs[h], boot) ELSE jobs[h]
  <2>1. \A h \in JobIds : c(h) \in Job /\ JobInv(c(h))
    BY <1>a, <1>b, ClaimedInv
  <2>2. jobs' = [h \in JobIds |-> Recovered(c(h))]
    BY <1>3 DEF ClaimThenLoad
  <2> HIDE DEF c
  <2>3. \A h \in JobIds : JobStep(c(h), Recovered(c(h)))
    BY DEF JobStep
  <2>4. \A h \in JobIds : Recovered(c(h)) \in Job /\ JobInv(Recovered(c(h)))
    BY <2>1, <2>3, JobStepType, JobStepInv
  <2>5. TypeOK'
    BY <2>2, <2>4 DEF TypeOK
  <2>6. \A h \in JobIds : JobInv(jobs'[h])
    BY <2>2, <2>4
  <2>7. QueueInv'
    BY <2>6 DEF QueueInv, JobInv
  <2>8. QED
    BY <2>5, <2>7
<1>4. QED
  BY <1>1, <1>2, <1>3, RunnerStepsQueue

-----------------------------------------------------------------------------
(* Who may own a lease after a step *)

\* A step that gives no job a new owner: each owner stays or is dropped.
QuietOwners == \A i \in JobIds : jobs'[i].leaseOwner \in {NoWorker, jobs[i].leaseOwner}

\* Steps on one job with a record that has no new owner are quiet.
LEMMA QuietUpdate ==
  ASSUME TypeOK, NEW i \in JobIds, NEW r, jobs' = [jobs EXCEPT ![i] = r],
         r.leaseOwner \in {NoWorker, jobs[i].leaseOwner}
  PROVE  QuietOwners
<1>1. \A h \in JobIds : jobs'[h] = IF h = i THEN r ELSE jobs[h]
  BY DEF TypeOK
<1>2. QED
  BY <1>1 DEF QuietOwners

\* What the operations other than dequeue leave in the owner field.
LEMMA QuietRecords ==
  ASSUME NEW j \in Job
  PROVE  /\ Completed(j).leaseOwner = NoWorker
         /\ Cancelled(j).leaseOwner = NoWorker
         /\ \A d \in Int : Failed(j, d).leaseOwner = NoWorker
         /\ \A d \in Int : Retried(j, d).leaseOwner = NoWorker
         /\ Renewed(j).leaseOwner = j.leaseOwner
         /\ Aged(j).leaseOwner = j.leaseOwner
         /\ Recovered(j).leaseOwner \in {NoWorker, j.leaseOwner}
<1>1. Released(j) \in Job /\ Released(j).leaseOwner = NoWorker
  BY ReleasedType, ReleasedFields
<1>2. /\ Completed(j).leaseOwner = NoWorker
      /\ Cancelled(j).leaseOwner = NoWorker
  BY <1>1 DEF Completed, Cancelled, Job
<1>3. \A d \in Int : Failed(j, d).leaseOwner = NoWorker
  BY <1>1 DEF Failed, Job
<1>4. \A d \in Int : Retried(j, d).leaseOwner = NoWorker
  BY <1>1 DEF Retried, Job
<1>5. Renewed(j).leaseOwner = j.leaseOwner /\ Aged(j).leaseOwner = j.leaseOwner
  BY DEF Renewed, Aged, Job
<1>6. Recovered(j).leaseOwner \in {NoWorker, j.leaseOwner}
  BY <1>1 DEF Recovered, Job
<1>7. QED
  BY <1>2, <1>3, <1>4, <1>5, <1>6

\* No step of the runner other than a claim gives a job a new owner; the job of a
\* type without handler is claimed and released in one step.
LEMMA RunnerQuiet ==
  ASSUME RunnerTypeOK, RunnerNext, ~TickClaim, ~CrashInClaim
  PROVE  QuietOwners
<1>a. /\ TypeOK /\ boot \in Workers
      /\ \A e \in ExecIds : execs[e] # 0 => execs[e] \in JobIds
  BY JobRunnerAssumption DEF JobRunnerAssumption, RunnerTypeOK
<1>b. \A i \in JobIds : jobs[i] \in Job
  BY <1>a DEF TypeOK
<1>c. Delays \subseteq Int
  BY JobQueueAssumption DEF JobQueueAssumption
<1>1. CASE UNCHANGED jobs
  BY <1>1 DEF QuietOwners
<1>2. ASSUME NEW i \in JobIds, Complete(i, boot)
      PROVE  QuietOwners
  BY <1>2, <1>a, <1>b, QuietRecords, QuietUpdate DEF Complete
<1>3. ASSUME NEW i \in JobIds, NEW d \in Delays, Fail(i, boot, d)
      PROVE  QuietOwners
  BY <1>3, <1>a, <1>b, <1>c, QuietRecords, QuietUpdate DEF Fail
<1>4. ASSUME NEW i \in JobIds, Heartbeat(i, boot)
      PROVE  QuietOwners
  BY <1>4, <1>a, <1>b, QuietRecords, QuietUpdate DEF Heartbeat
<1>5. ASSUME NEW i \in JobIds, Cancel(i)
      PROVE  QuietOwners
  BY <1>5, <1>a, <1>b, QuietRecords, QuietUpdate DEF Cancel
<1>6. ASSUME NEW i \in JobIds, NEW d \in Delays, Retry(i, d)
      PROVE  QuietOwners
  BY <1>6, <1>a, <1>b, <1>c, QuietRecords, QuietUpdate DEF Retry
<1>7. ASSUME NEW t, NEW p, NEW m, NEW d, NEW k, Enqueue(t, p, m, d, k)
      PROVE  QuietOwners
  <2>1. PICK i \in JobIds : jobs' = [jobs EXCEPT ![i] = NewJob(t, p, m, d, k)]
    BY <1>7 DEF Enqueue
  <2>2. NewJob(t, p, m, d, k).leaseOwner = NoWorker
    BY DEF NewJob, NoJob
  <2>3. QED
    BY <1>a, <2>1, <2>2, QuietUpdate
<1>8. CASE Load
  BY <1>8, <1>b, QuietRecords DEF Load, QuietOwners
<1>9. CASE TimePasses
  BY <1>9, <1>b, QuietRecords DEF TimePasses, QuietOwners
<1>10. CASE TickNoHandler
  <2>1. PICK i \in JobIds : jobs' = [jobs EXCEPT ![i] = Failed(Claimed(jobs[i], boot), 0)]
    BY <1>10 DEF TickNoHandler
  <2>2. Failed(Claimed(jobs[i], boot), 0).leaseOwner = NoWorker
    BY <1>a, <1>b, ClaimedType, QuietRecords
  <2>3. QED
    BY <1>a, <2>1, <2>2, QuietUpdate
<1>11. CASE PollTimer \/ TickEnd \/ Stop
  BY <1>1, <1>11 DEF PollTimer, TickEnd, Stop
<1>12. ASSUME NEW e \in ExecIds,
              HeartbeatTimer(e) \/ HandlerResolves(e) \/ HandlerRejects(e)
       PROVE  QuietOwners
  BY <1>a, <1>1, <1>2, <1>3, <1>4, <1>12 DEF HeartbeatTimer, HandlerResolves, HandlerRejects
<1>13. CASE OperatorStep
  BY <1>5, <1>6, <1>7, <1>13 DEF OperatorStep, OperatorEnqueue, OperatorRetry, OperatorCancel
<1>14. CASE Restart
  BY <1>8, <1>14 DEF Restart
<1>15. CASE ClockAdvances
  BY <1>9, <1>15 DEF ClockAdvances
<1>16. QED
  BY <1>10, <1>11, <1>12, <1>13, <1>14, <1>15 DEF RunnerNext

-----------------------------------------------------------------------------
(* The inductive invariant *)

\* Leases are owned by this process or an earlier one, so that a new process
\* owns nothing when it starts.
OwnersBooted == \A i \in JobIds : jobs[i].leaseOwner <= boot

\* NoOrphanLease without the status, which QueueInv supplies.
OwnedInFlight ==
  \A i \in JobIds : jobs[i].leaseOwner = boot => \E e \in ExecIds : execs[e] = i

EntriesInFlight ==
  \A i \in JobIds : controllers[i] # 0 => \E e \in ExecIds : execs[e] = i

\* With maxConcurrent = 1 the only handler in flight has its entry in the Map:
\* this is what makes controllers.size a true count of the handlers.
SoleHandler ==
  MaxConcurrent = 1 =>
    \A e, f \in ExecIds :
      execs[e] # 0 /\ execs[f] # 0 => e = f /\ controllers[execs[e]] # 0

RunnerInv == OwnersBooted /\ OwnedInFlight /\ EntriesInFlight /\ SoleHandler

\* The runner's variables keep their types under every step.
LEMMA RunnerTypeStep ==
  ASSUME RunnerTypeOK, TypeOK', RunnerNext
  PROVE  RunnerTypeOK'
<1>a. MaxBoots \in Nat /\ 0 \notin JobIds /\ 0 \notin ExecIds
  BY JobRunnerAssumption DEF JobRunnerAssumption, JobIds, ExecIds
<1>1. CASE PollTimer \/ TickEnd
  BY <1>1 DEF RunnerTypeOK, PollTimer, TickEnd
<1>2. CASE TickClaim
  BY <1>2 DEF RunnerTypeOK, TickClaim
<1>3. CASE TickNoHandler
  BY <1>3 DEF RunnerTypeOK, TickNoHandler
<1>4. ASSUME NEW e \in ExecIds, HeartbeatTimer(e)
      PROVE  RunnerTypeOK'
  BY <1>4 DEF RunnerTypeOK, HeartbeatTimer
<1>5. ASSUME NEW e \in ExecIds, HandlerResolves(e) \/ HandlerRejects(e)
      PROVE  RunnerTypeOK'
  <2>1. Finally(e)
    BY <1>5 DEF HandlerResolves, HandlerRejects
  <2>2. QED
    BY <2>1 DEF RunnerTypeOK, Finally
<1>6. CASE OperatorStep \/ ClockAdvances
  BY <1>6 DEF RunnerTypeOK, OperatorStep, ClockAdvances, rvars
<1>7. CASE Stop
  <2>1. \A i \in ControlledJobs : controllers[i] \in ExecIds
    BY DEF ControlledJobs, RunnerTypeOK
  <2>2. QED
    BY <1>7, <2>1 DEF RunnerTypeOK, Stop
<1>8. CASE Restart \/ CrashInClaim
  <2>1. boot' \in 1..MaxBoots
    BY <1>8, <1>a DEF RunnerTypeOK, Restart, CrashInClaim, Boot
  <2>2. /\ polling' \in BOOLEAN /\ ticking' \in BOOLEAN /\ aborted' \subseteq ExecIds
        /\ execs' \in [ExecIds -> JobIds \cup {0}]
        /\ controllers' \in [JobIds -> ExecIds \cup {0}]
    BY <1>8 DEF Restart, CrashInClaim, Boot
  <2>3. QED
    BY <2>1, <2>2 DEF RunnerTypeOK
<1>9. QED
  BY <1>1, <1>2, <1>3, <1>4, <1>5, <1>6, <1>7, <1>8 DEF RunnerNext

\* Steps that leave the process, its slots and its Map alone keep the invariant
\* as long as they give no job a new owner.
LEMMA QuietKeepsInv ==
  ASSUME RunnerTypeOK, RunnerInv, QuietOwners, UNCHANGED <<boot, execs, controllers>>
  PROVE  RunnerInv'
<1>1. boot \in 1..MaxBoots /\ NoWorker = 0
  BY JobRunnerAssumption DEF JobRunnerAssumption, RunnerTypeOK
<1>2. OwnersBooted' /\ OwnedInFlight'
  BY <1>1 DEF RunnerInv, OwnersBooted, OwnedInFlight, QuietOwners
<1>3. EntriesInFlight' /\ SoleHandler'
  BY DEF RunnerInv, EntriesInFlight, SoleHandler
<1>4. QED
  BY <1>2, <1>3 DEF RunnerInv

\* tick() claims within the bound: with maxConcurrent = 1 the Map is empty
\* then, hence no handler is in flight.
LEMMA ClaimWhenIdle ==
  ASSUME RunnerTypeOK, RunnerInv, CanClaim, MaxConcurrent = 1, NEW e \in ExecIds
  PROVE  execs[e] = 0
<1>1. IsFiniteSet(ControlledJobs)
  <2>1. MaxJobs \in Nat
    BY JobQueueAssumption DEF JobQueueAssumption
  <2>2. IsFiniteSet(1..MaxJobs)
    BY <2>1, FS_Interval
  <2>3. ControlledJobs \subseteq 1..MaxJobs
    BY DEF ControlledJobs, JobIds
  <2>4. QED
    BY <2>2, <2>3, FS_Subset
<1>2. Cardinality(ControlledJobs) = 0
  BY <1>1, FS_CardinalityType DEF CanClaim
<1>3. ControlledJobs = {}
  BY <1>1, <1>2, FS_EmptySet
<1>4. execs[e] \in JobIds \cup {0}
  BY DEF RunnerTypeOK
<1>5. QED
  BY <1>3, <1>4 DEF ControlledJobs, RunnerInv, SoleHandler

\* A claim registers its handler in the same step.
LEMMA ClaimKeepsInv ==
  ASSUME RunnerTypeOK, RunnerInv, TickClaim
  PROVE  RunnerInv'
<1>1. PICK i \in JobIds, e \in ExecIds :
        /\ LowestFreeExec(e) /\ DequeueJob(i, boot)
        /\ execs' = [execs EXCEPT ![e] = i]
        /\ controllers' = [controllers EXCEPT ![i] = e]
  BY DEF TickClaim
<1>2. /\ boot' = boot /\ CanClaim /\ boot \in 1..MaxBoots
      /\ 0 \notin JobIds /\ 0 \notin ExecIds
  BY DEF TickClaim, RunnerTypeOK, JobIds, ExecIds
<1>3. execs[e] = 0
  BY <1>1 DEF LowestFreeExec
<1>4. \A h \in JobIds : jobs'[h].leaseOwner = IF h = i THEN boot ELSE jobs[h].leaseOwner
  <2>1. jobs' = [jobs EXCEPT ![i] = Claimed(jobs[i], boot)]
    BY <1>1 DEF DequeueJob
  <2>2. Claimed(jobs[i], boot).leaseOwner = boot
    BY DEF Claimed, RunnerTypeOK, TypeOK, Job
  <2>3. QED
    BY <2>1, <2>2 DEF RunnerTypeOK, TypeOK
<1>5. /\ \A f \in ExecIds : execs'[f] = IF f = e THEN i ELSE execs[f]
      /\ \A h \in JobIds : controllers'[h] = IF h = i THEN e ELSE controllers[h]
  BY <1>1 DEF RunnerTypeOK
<1>6. \A h \in JobIds : (\E f \in ExecIds : execs[f] = h) \/ h = i
        => \E f \in ExecIds : execs'[f] = h
  BY <1>2, <1>3, <1>5
<1>7. OwnersBooted'
  BY <1>2, <1>4 DEF RunnerInv, OwnersBooted
<1>8. OwnedInFlight'
  BY <1>2, <1>4, <1>6 DEF RunnerInv, OwnedInFlight
<1>9. EntriesInFlight'
  BY <1>5, <1>6 DEF RunnerInv, EntriesInFlight
<1>10. SoleHandler'
  <2>1. MaxConcurrent = 1 => \A f \in ExecIds : execs[f] = 0
    BY <1>2, ClaimWhenIdle
  <2>2. controllers'[i] # 0
    BY <1>2, <1>5
  <2>3. MaxConcurrent = 1 => \A f \in ExecIds : execs'[f] # 0 => f = e
    BY <1>5, <2>1
  <2>4. QED
    BY <1>5, <2>2, <2>3 DEF SoleHandler
<1>11. QED
  BY <1>7, <1>8, <1>9, <1>10 DEF RunnerInv

\* A handler's end settles its job first, or the job was no longer this
\* process's, and only then gives up the slot and the Map entry.
LEMMA FinallyKeepsInv ==
  ASSUME RunnerTypeOK, RunnerInv, QuietOwners, NEW e \in ExecIds, execs[e] # 0,
         Finally(e), jobs'[execs[e]].leaseOwner # boot
  PROVE  RunnerInv'
<1> DEFINE i == execs[e]
<1>1. i \in JobIds /\ boot \in 1..MaxBoots /\ NoWorker = 0 /\ boot' = boot
  BY JobRunnerAssumption DEF JobRunnerAssumption, RunnerTypeOK, Finally
<1>2. /\ \A f \in ExecIds : execs'[f] = IF f = e THEN 0 ELSE execs[f]
      /\ \A h \in JobIds : controllers'[h] = IF h = i THEN 0 ELSE controllers[h]
  BY DEF RunnerTypeOK, Finally
<1>3. \A h \in JobIds : h # i /\ (\E f \in ExecIds : execs[f] = h)
        => \E f \in ExecIds : execs'[f] = h
  BY <1>2
<1>4. OwnersBooted'
  BY <1>1 DEF RunnerInv, OwnersBooted, QuietOwners
<1>5. OwnedInFlight'
  BY <1>1, <1>3 DEF RunnerInv, OwnedInFlight, QuietOwners
<1>6. EntriesInFlight'
  BY <1>2, <1>3 DEF RunnerInv, EntriesInFlight
<1>7. SoleHandler'
  BY <1>2 DEF RunnerInv, SoleHandler
<1>8. QED
  BY <1>4, <1>5, <1>6, <1>7 DEF RunnerInv

\* The invariant survives every step of the runner.
LEMMA RunnerInvStep ==
  ASSUME RunnerTypeOK, RunnerInv, RunnerNext
  PROVE  RunnerInv'
<1>a. ~TickClaim /\ ~CrashInClaim => QuietOwners
  BY RunnerQuiet
<1>b. /\ boot \in 1..MaxBoots /\ NoWorker = 0 /\ TypeOK
      /\ \A e \in ExecIds : execs[e] # 0 => execs[e] \in JobIds
  BY JobRunnerAssumption DEF JobRunnerAssumption, RunnerTypeOK
<1>1. CASE TickClaim
  BY <1>1, ClaimKeepsInv
<1>2. CASE /\ ~TickClaim /\ ~CrashInClaim
           /\ PollTimer \/ TickNoHandler \/ TickEnd \/ OperatorStep \/ Stop \/ ClockAdvances
  <2>1. UNCHANGED <<boot, execs, controllers>>
    BY <1>2 DEF PollTimer, TickNoHandler, TickEnd, OperatorStep, Stop, ClockAdvances, rvars
  <2>2. QED
    BY <1>a, <1>2, <2>1, QuietKeepsInv
<1>3. ASSUME ~TickClaim, ~CrashInClaim, NEW e \in ExecIds, HeartbeatTimer(e)
      PROVE  RunnerInv'
  <2>1. UNCHANGED <<boot, execs, controllers>>
    BY <1>3 DEF HeartbeatTimer
  <2>2. QED
    BY <1>a, <1>3, <2>1, QuietKeepsInv
<1>4. ASSUME ~TickClaim, ~CrashInClaim, NEW e \in ExecIds,
             HandlerResolves(e) \/ HandlerRejects(e)
      PROVE  RunnerInv'
  <2> DEFINE i == execs[e]
  <2>1. i # 0 /\ i \in JobIds /\ Finally(e)
    BY <1>b, <1>4 DEF HandlerResolves, HandlerRejects
  <2>2. jobs[i] \in Job /\ Delays \subseteq Int
    BY <1>b, <2>1, JobQueueAssumption DEF JobQueueAssumption, TypeOK
  <2>3. jobs'[i].leaseOwner # boot
    <3>1. CASE Complete(i, boot)
      <4>1. jobs' = [jobs EXCEPT ![i] = Completed(jobs[i])]
        BY <3>1 DEF Complete
      <4>2. jobs'[i] = Completed(jobs[i])
        BY <1>b, <2>1, <4>1 DEF TypeOK
      <4>3. QED
        BY <1>b, <2>2, <4>2, QuietRecords
    <3>2. ASSUME NEW d \in Delays, Fail(i, boot, d)
          PROVE  jobs'[i].leaseOwner # boot
      <4>1. jobs' = [jobs EXCEPT ![i] = Failed(jobs[i], d)]
        BY <3>2 DEF Fail
      <4>2. jobs'[i] = Failed(jobs[i], d)
        BY <1>b, <2>1, <4>1 DEF TypeOK
      <4>3. QED
        BY <1>b, <2>2, <4>2, QuietRecords
    <3>3. CASE ~OwnsLease(jobs[i], boot) /\ UNCHANGED jobs
      BY <3>3 DEF OwnsLease
    <3>4. QED
      BY <1>4, <3>1, <3>2, <3>3 DEF HandlerResolves, HandlerRejects
  <2>4. QED
    BY <1>a, <1>4, <2>1, <2>3, FinallyKeepsInv
<1>5. CASE CrashInClaim \/ (~TickClaim /\ ~CrashInClaim /\ Restart)
  <2>1. /\ boot' = boot + 1
        /\ execs' = [e \in ExecIds |-> 0]
        /\ controllers' = [i \in JobIds |-> 0]
    BY <1>5 DEF Restart, CrashInClaim, Boot
  <2>2. \A i \in JobIds : jobs'[i].leaseOwner \in 0..boot
    <3>1. \A i \in JobIds : jobs[i].leaseOwner \in 0..boot
      <4>1. \A i \in JobIds : jobs[i].leaseOwner \in Workers \cup {NoWorker}
        BY <1>b DEF TypeOK, Job
      <4>2. Workers \cup {NoWorker} \subseteq Nat
        BY JobRunnerAssumption DEF JobRunnerAssumption
      <4>3. QED
        BY <1>b, <4>1, <4>2 DEF RunnerInv, OwnersBooted
    <3>2. CASE Restart /\ ~TickClaim /\ ~CrashInClaim
      BY <1>a, <1>b, <3>1, <3>2 DEF QuietOwners
    <3>3. CASE CrashInClaim
      <4>1. PICK i \in JobIds : ClaimThenLoad(i)
        BY <3>3 DEF CrashInClaim, ClaimThenLoad
      <4> DEFINE c(h) == IF h = i THEN Claimed(jobs[h], boot) ELSE jobs[h]
      <4>2. boot \in Workers
        BY <1>b, JobRunnerAssumption DEF JobRunnerAssumption
      <4>3. \A h \in JobIds : c(h) \in Job /\ c(h).leaseOwner \in 0..boot
        <5>1. \A h \in JobIds : jobs[h] \in Job
          BY <1>b DEF TypeOK
        <5>2. Claimed(jobs[i], boot) \in Job
          BY <4>2, <5>1, ClaimedType
        <5>3. Claimed(jobs[i], boot).leaseOwner = boot
          BY <5>1 DEF Claimed, Job
        <5>4. QED
          BY <1>b, <3>1, <5>1, <5>2, <5>3
      <4>4. \A h \in JobIds : jobs'[h] = Recovered(c(h))
        BY <4>1 DEF ClaimThenLoad
      <4> HIDE DEF c
      <4>5. \A h \in JobIds : Recovered(c(h)).leaseOwner \in {NoWorker, c(h).leaseOwner}
        BY <4>3, QuietRecords
      <4>6. QED
        BY <1>b, <4>3, <4>4, <4>5
    <3>4. QED
      BY <1>5, <3>2, <3>3
  <2>3. OwnersBooted' /\ OwnedInFlight'
    BY <1>b, <2>1, <2>2 DEF OwnersBooted, OwnedInFlight
  <2>4. EntriesInFlight' /\ SoleHandler'
    BY <2>1 DEF EntriesInFlight, SoleHandler
  <2>5. QED
    BY <2>3, <2>4 DEF RunnerInv
<1>6. QED
  BY <1>1, <1>2, <1>3, <1>4, <1>5 DEF RunnerNext

-----------------------------------------------------------------------------
(* Theorems *)

AllInv == RunnerTypeOK /\ QueueInv /\ RunnerInv

\* The inductive invariant: types, the record invariant of the queue and the
\* agreement between leases, handlers in flight and the controllers Map of
\* packages/core/src/persistent-job-runner.ts.
THEOREM RunnerInvariant == RunnerSpec => []AllInv
<1>a. /\ NoWorker = 0 /\ MaxBoots \in Nat \ {0} /\ LeaseMs \in Nat \ {0}
      /\ 0 \notin JobIds
  BY JobQueueAssumption, JobRunnerAssumption
     DEF JobQueueAssumption, JobRunnerAssumption, JobIds
<1>1. RunnerInit => AllInv
  <2> SUFFICES ASSUME RunnerInit
               PROVE  AllInv
    OBVIOUS
  <2>1. TypeOK
    <3>1. PICK t \in Types : TRUE
      BY JobQueueAssumption DEF JobQueueAssumption
    <3>2. NoJob \in Job
      BY NewJobType
    <3>3. QED
      BY <3>2 DEF RunnerInit, Init, TypeOK
  <2>2. QueueInv
    BY <1>a DEF RunnerInit, Init, QueueInv, JobInv, NoJob
  <2>3. RunnerTypeOK
    <3>1. boot \in 1..MaxBoots
      BY <1>a DEF RunnerInit
    <3>2. /\ polling \in BOOLEAN /\ ticking \in BOOLEAN /\ aborted \subseteq ExecIds
          /\ execs \in [ExecIds -> JobIds \cup {0}]
          /\ controllers \in [JobIds -> ExecIds \cup {0}]
      BY DEF RunnerInit
    <3>3. QED
      BY <2>1, <3>1, <3>2 DEF RunnerTypeOK
  <2>4. \A i \in JobIds : jobs[i].leaseOwner = 0 /\ controllers[i] = 0
    BY <1>a DEF RunnerInit, Init, NoJob
  <2>5. RunnerInv
    BY <1>a, <2>4
       DEF RunnerInit, RunnerInv, OwnersBooted, OwnedInFlight, EntriesInFlight, SoleHandler
  <2>6. QED
    BY <2>2, <2>3, <2>5 DEF AllInv
<1>2. AllInv /\ [RunnerNext]_vars => AllInv'
  <2>1. AllInv /\ RunnerNext => AllInv'
    BY RunnerJobs, RunnerTypeStep, RunnerInvStep DEF AllInv
  <2>2. AllInv /\ UNCHANGED vars => AllInv'
    <3> SUFFICES ASSUME AllInv, UNCHANGED vars
                 PROVE  AllInv'
      OBVIOUS
    <3>1. RunnerTypeOK'
      BY DEF AllInv, vars, RunnerTypeOK, TypeOK
    <3>2. QueueInv'
      BY DEF AllInv, vars, QueueInv, JobInv
    <3>3. RunnerInv'
      BY DEF AllInv, vars, RunnerInv, OwnersBooted, OwnedInFlight, EntriesInFlight, SoleHandler
    <3>4. QED
      BY <3>1, <3>2, <3>3 DEF AllInv
  <2>3. QED
    BY <2>1, <2>2
<1>3. QED
  BY <1>1, <1>2, PTL DEF RunnerSpec

\* The flags, slots and Map entries of the runner keep their types.
THEOREM RunnerTypeCorrect == RunnerSpec => []RunnerTypeOK
<1>1. AllInv => RunnerTypeOK
  BY DEF AllInv
<1>2. QED
  BY <1>1, RunnerInvariant, PTL

\* tick() and execute() never leave a job leased to the live process without a
\* handler in flight that will report it, whatever is cancelled, retried,
\* restarted or lost meanwhile.
THEOREM LeasesNotOrphaned == RunnerSpec => []NoOrphanLease
<1>1. AllInv => NoOrphanLease
  <2>1. 0 \notin JobIds
    BY DEF JobIds
  <2>2. QED
    BY <2>1 DEF AllInv, RunnerInv, OwnedInFlight, NoOrphanLease, InFlight
<1>2. QED
  BY <1>1, RunnerInvariant, PTL

\* The Map stop() waits on holds only jobs with a handler in flight.
THEOREM MapEntriesInFlight == RunnerSpec => []ControllersInFlight
<1>1. AllInv => ControllersInFlight
  <2>1. 0 \notin JobIds
    BY DEF JobIds
  <2>2. QED
    BY <2>1 DEF AllInv, RunnerInv, EntriesInFlight, ControllersInFlight, ControlledJobs, InFlight
<1>2. QED
  BY <1>1, RunnerInvariant, PTL

\* With the default maxConcurrent = 1 tick() never starts a second handler.
THEOREM SingleHandler == RunnerSpec => []OneHandlerAtATime
<1>1. AllInv => OneHandlerAtATime
  BY DEF AllInv, RunnerInv, SoleHandler, OneHandlerAtATime, InFlight
<1>2. QED
  BY <1>1, RunnerInvariant, PTL

-----------------------------------------------------------------------------
(* What the queue guarantees, with the runner as its caller *)

\* Whatever the runner, the operator and restarts do, also a crash inside
\* tick() between the write of a claim and the start of the handler: leases
\* belong to running work and end within leaseDurationMs, and dead letters have
\* used up their attempts.
THEOREM QueueSafeUnderRunner ==
  RunnerSpec => [](LeaseOnlyWhileRunning /\ LeaseWithinDuration /\ DeadLetterExhausted)
<1>1. AllInv => LeaseOnlyWhileRunning /\ LeaseWithinDuration /\ DeadLetterExhausted
  BY DEF AllInv, QueueInv, JobInv, LeaseOnlyWhileRunning, LeaseWithinDuration,
         DeadLetterExhausted
<1>2. QED
  BY <1>1, RunnerInvariant, PTL

\* A new process takes over no job whose lease from an earlier one has not
\* expired: neither load(), nor the claims of tick(), nor a crash inside tick()
\* passes a live lease on.
THEOREM RunnerStealsNoLease == RunnerSpec => NoLeaseTheft
<1> DEFINE Handover(i) == /\ jobs[i].leaseOwner # NoWorker
                          /\ jobs'[i].leaseOwner \notin {NoWorker, jobs[i].leaseOwner}
<1>1. ASSUME AllInv, [RunnerNext]_vars, NEW i \in JobIds, Handover(i)
      PROVE  LeaseExpired(jobs[i])
  <2>a. /\ TypeOK /\ QueueInv /\ boot \in Workers
        /\ \A h \in JobIds : jobs[h] \in Job /\ JobInv(jobs[h])
    BY <1>1, JobRunnerAssumption
       DEF JobRunnerAssumption, AllInv, RunnerTypeOK, TypeOK, QueueInv
  <2>1. CASE [Next]_jobs
    BY <1>1, <2>a, <2>1, HandoverExpired
  <2>2. CASE TickNoHandler
    <3>1. PICK h \in JobIds : ClaimThenFail(h)
      BY <2>2 DEF TickNoHandler, ClaimThenFail
    <3> DEFINE c == Claimed(jobs[h], boot)
    <3>2. c \in Job
      BY <2>a, ClaimedType
    <3>3. Failed(c, 0).leaseOwner = NoWorker
      BY <3>2, QuietRecords
    <3>4. jobs'[i] = IF i = h THEN Failed(c, 0) ELSE jobs[i]
      BY <2>a, <3>1 DEF ClaimThenFail, TypeOK
    <3>5. QED
      BY <1>1, <3>3, <3>4
  <2>3. CASE CrashInClaim
    <3>1. PICK h \in JobIds : IsNextJob(h) /\ ClaimThenLoad(h)
      BY <2>3 DEF CrashInClaim, ClaimThenLoad
    <3>2. CASE i = h
      <4>1. Eligible(jobs[i]) /\ jobs[i].status = "running"
        BY <1>1, <2>a, <3>1, <3>2 DEF IsNextJob, JobInv
      <4>2. QED
        BY <4>1 DEF Eligible
    <3>3. CASE i # h
      <4>1. jobs'[i] = Recovered(jobs[i])
        BY <3>1, <3>3 DEF ClaimThenLoad
      <4>2. QED
        BY <1>1, <2>a, <4>1, QuietRecords
    <3>4. QED
      BY <3>2, <3>3
  <2>4. CASE UNCHANGED vars
    BY <1>1, <2>4 DEF vars
  <2>5. CASE RunnerNext /\ ~TickNoHandler /\ ~CrashInClaim
    <3>1. [Next]_jobs
      BY <1>1, <2>5, RunnerOtherSteps DEF AllInv
    <3>2. QED
      BY <2>1, <3>1
  <2>6. QED
    BY <1>1, <2>2, <2>3, <2>4, <2>5
<1>2. AllInv /\ [RunnerNext]_vars
        => [\A i \in JobIds : Handover(i) => LeaseExpired(jobs[i])]_jobs
  BY <1>1
<1>3. QED
  BY <1>2, RunnerInvariant, PTL DEF RunnerSpec, NoLeaseTheft
=============================================================================
