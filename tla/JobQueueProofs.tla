--------------------------- MODULE JobQueueProofs ---------------------------
(***************************************************************************)
(* Theorems about JobQueue for every number of jobs and workers, every     *)
(* lease duration and every option a caller may pass.                      *)
(*                                                                         *)
(* A step of the queue changes each job record in one of a few ways        *)
(* (JobStep).  What holds of a record (Job, JobInv) is shown to survive    *)
(* each of these ways, and the theorems about the whole queue follow.      *)
(***************************************************************************)
EXTENDS JobQueue, TLAPS

-----------------------------------------------------------------------------
(* Well-formed records *)

\* The normalizers bring any integer a caller passes into range.
LEMMA NormalizeTypes ==
  ASSUME NEW v \in Int
  PROVE  /\ NormalizeNonNegativeInt(v) \in Int
         /\ NormalizePositiveInt(v) \in Nat \ {0}
         /\ ClampProgress(v) \in 0..100
  BY DEF NormalizeNonNegativeInt, NormalizePositiveInt, ClampProgress

\* The statuses the operations assign are declared ones.
LEMMA StatusNames ==
  {"queued", "running", "completed", "cancelled", "dead_letter", "absent"}
    \subseteq Statuses \cup {"absent"}
  BY DEF Statuses

\* enqueue stores a well-formed record, whatever options it is given.
LEMMA NewJobType ==
  ASSUME NEW t \in Types, NEW p \in Int, NEW m \in Int, NEW d \in Int, NEW k \in Keys \cup {NoKey}
  PROVE  NoJob \in Job /\ NewJob(t, p, m, d, k) \in Job
<1>1. (CHOOSE u \in Types : TRUE) \in Types
  OBVIOUS
<1>2. NoJob \in Job
  BY <1>1, StatusNames DEF NoJob, Job
<1>3. NewJob(t, p, m, d, k) \in Job
  BY <1>2, NormalizeTypes, StatusNames DEF NewJob, Job
<1>4. QED
  BY <1>2, <1>3

\* Dropping a lease keeps a record well-formed.
LEMMA ReleasedType ==
  ASSUME NEW j \in Job
  PROVE  Released(j) \in Job
  BY DEF Released, Job

\* dequeue and heartbeat keep a record well-formed.
LEMMA ClaimedType ==
  ASSUME NEW j \in Job, NEW w \in Workers
  PROVE  Claimed(j, w) \in Job /\ Renewed(j) \in Job
<1>1. j.attempts + 1 \in Nat
  BY DEF Job
<1>2. LeaseMs \in Nat
  BY JobQueueAssumption DEF JobQueueAssumption
<1>3. Claimed(j, w) \in Job
  BY <1>1, <1>2, StatusNames DEF Claimed, LeaseDeadline, Job
<1>4. Renewed(j) \in Job
  BY <1>2 DEF Renewed, LeaseDeadline, Job
<1>5. QED
  BY <1>3, <1>4

\* complete and cancel keep a record well-formed.
LEMMA CompletedType ==
  ASSUME NEW j \in Job
  PROVE  Completed(j) \in Job /\ Cancelled(j) \in Job
<1>1. 100 \in 0..100
  OBVIOUS
<1>2. Completed(j) \in Job
  <2> DEFINE r == Released(j)
  <2>1. r \in Job /\ Completed(j) = [r EXCEPT !.status = "completed", !.progress = 100]
    BY ReleasedType DEF Completed
  <2> HIDE DEF r
  <2>2. [r EXCEPT !.status = "completed", !.progress = 100] \in Job
    BY <1>1, <2>1, StatusNames DEF Job
  <2>3. QED
    BY <2>1, <2>2
<1>3. Cancelled(j) \in Job
  BY ReleasedType, StatusNames DEF Cancelled, Job
<1>4. QED
  BY <1>2, <1>3

\* fail and retry keep a record well-formed.
LEMMA FailedType ==
  ASSUME NEW j \in Job, NEW d \in Int
  PROVE  Failed(j, d) \in Job /\ Retried(j, d) \in Job
<1> DEFINE r == Released(j)
           n == NormalizeNonNegativeInt(d)
           s == IF Exhausted(j) THEN "dead_letter" ELSE "queued"
<1>1. r \in Job /\ n \in Int /\ s \in Statuses \cup {"absent"}
  BY ReleasedType, NormalizeTypes, StatusNames
<1>2. /\ Failed(j, d) = [r EXCEPT !.status = s, !.dueIn = n]
      /\ Retried(j, d) = [r EXCEPT !.status = "queued", !.attempts = 0, !.progress = 0,
                                   !.dueIn = n, !.retryCount = @ + 1]
  BY DEF Failed, Retried
<1> HIDE DEF r, n, s
<1>3. [r EXCEPT !.status = s, !.dueIn = n] \in Job
  BY <1>1 DEF Job
<1>4. [r EXCEPT !.status = "queued", !.attempts = 0, !.progress = 0,
                !.dueIn = n, !.retryCount = @ + 1] \in Job
  <2>1. "queued" \in Statuses \cup {"absent"} /\ 0 \in 0..100 /\ r.retryCount + 1 \in Nat
    BY <1>1, StatusNames DEF Job
  <2>2. QED
    BY <1>1, <2>1 DEF Job
<1>5. QED
  BY <1>2, <1>3, <1>4

\* load and the passing of time keep a record well-formed.
LEMMA RecoveredType ==
  ASSUME NEW j \in Job
  PROVE  Recovered(j) \in Job /\ Aged(j) \in Job
<1>3. Recovered(j) \in Job
  BY ReleasedType, StatusNames DEF Recovered, Job
<1>4. Aged(j) \in Job
  <2>1. OneLater(j.dueIn) \in Int /\ OneCloser(j.leaseLeft) \in Nat
    <3>1. j.dueIn \in Int /\ j.leaseLeft \in Nat /\ MaxOverdue \in Nat
      BY JobQueueAssumption DEF JobQueueAssumption, Job
    <3>2. QED
      BY <3>1 DEF OneLater, OneCloser
  <2>2. QED
    BY <2>1 DEF Aged, Job
<1>5. QED
  BY <1>3, <1>4

-----------------------------------------------------------------------------
(* The ways a step changes one job *)

JobStep(j, k) ==
  \/ k = j
  \/ \E t \in Types, p \in Int, m \in Int, d \in Int, key \in Keys \cup {NoKey} :
        j.status = "absent" /\ k = NewJob(t, p, m, d, key)
  \/ \E w \in Workers : Eligible(j) /\ k = Claimed(j, w)
  \/ k = Completed(j)
  \/ \E d \in Int : k = Failed(j, d)
  \/ j.status = "running" /\ j.leaseOwner # NoWorker /\ k = Renewed(j)
  \/ \E c \in Checkpoints : k = Checkpointed(j, c)
  \/ \E d \in Int : k = Retried(j, d)
  \/ k = Cancelled(j)
  \/ \E p \in Int : k = Progressed(j, p)
  \/ k = Recovered(j)
  \/ k = Aged(j)

\* Every step of the queue changes every job in one of the ways of JobStep.
LEMMA StepIsJobStep ==
  ASSUME TypeOK, [Next]_jobs
  PROVE  /\ jobs' \in [JobIds -> {jobs'[i] : i \in JobIds}]
         /\ \A i \in JobIds : JobStep(jobs[i], jobs'[i])
<1>a. jobs = [i \in JobIds |-> jobs[i]]
  BY DEF TypeOK
<1>b. Priorities \subseteq Int /\ MaxAttemptsOptions \subseteq Int /\ Delays \subseteq Int
      /\ ProgressValues \subseteq Int /\ NoWorker \notin Workers
  BY JobQueueAssumption DEF JobQueueAssumption
<1>1. ASSUME NEW i \in JobIds, NEW r, JobStep(jobs[i], r), jobs' = [jobs EXCEPT ![i] = r]
      PROVE  /\ jobs' \in [JobIds -> {jobs'[h] : h \in JobIds}]
             /\ \A h \in JobIds : JobStep(jobs[h], jobs'[h])
  <2>1. \A h \in JobIds : jobs'[h] = IF h = i THEN r ELSE jobs[h]
    BY <1>a, <1>1
  <2>2. \A h \in JobIds : JobStep(jobs[h], jobs'[h])
    BY <2>1, <1>1 DEF JobStep
  <2>3. jobs' = [h \in JobIds |-> jobs'[h]]
    BY <1>a, <1>1
  <2>4. QED
    BY <2>2, <2>3
<1>2. CASE \E t \in Types, p \in Priorities, m \in MaxAttemptsOptions, d \in Delays,
             k \in Keys \cup {NoKey} : Enqueue(t, p, m, d, k)
  <2>1. PICK t \in Types, p \in Int, m \in Int, d \in Int, k \in Keys \cup {NoKey} :
               Enqueue(t, p, m, d, k)
    BY <1>2, <1>b
  <2>2. PICK i \in JobIds : jobs[i].status = "absent" /\ jobs' = [jobs EXCEPT ![i] = NewJob(t, p, m, d, k)]
    BY <2>1 DEF Enqueue, Exists
  <2>3. JobStep(jobs[i], NewJob(t, p, m, d, k))
    BY <2>2 DEF JobStep
  <2>4. QED
    BY <1>1, <2>2, <2>3
<1>3. CASE \E w \in Workers : Dequeue(w)
  <2>1. PICK w \in Workers, i \in JobIds :
               Eligible(jobs[i]) /\ jobs' = [jobs EXCEPT ![i] = Claimed(jobs[i], w)]
    BY <1>3 DEF Dequeue, DequeueJob, IsNextJob
  <2>2. JobStep(jobs[i], Claimed(jobs[i], w))
    BY <2>1 DEF JobStep
  <2>3. QED
    BY <1>1, <2>1, <2>2
<1>4. CASE \E i \in JobIds, w \in Workers : Complete(i, w)
  <2>1. PICK i \in JobIds : jobs' = [jobs EXCEPT ![i] = Completed(jobs[i])]
    BY <1>4 DEF Complete
  <2>2. JobStep(jobs[i], Completed(jobs[i]))
    BY DEF JobStep
  <2>3. QED
    BY <1>1, <2>1, <2>2
<1>5. CASE \E i \in JobIds, w \in Workers, d \in Delays : Fail(i, w, d)
  <2>1. PICK i \in JobIds, d \in Int : jobs' = [jobs EXCEPT ![i] = Failed(jobs[i], d)]
    BY <1>5, <1>b DEF Fail
  <2>2. JobStep(jobs[i], Failed(jobs[i], d))
    BY DEF JobStep
  <2>3. QED
    BY <1>1, <2>1, <2>2
<1>6. CASE \E i \in JobIds, w \in Workers : Heartbeat(i, w)
  <2>1. PICK i \in JobIds : /\ jobs[i].status = "running" /\ jobs[i].leaseOwner # NoWorker
                            /\ jobs' = [jobs EXCEPT ![i] = Renewed(jobs[i])]
    BY <1>6, <1>b DEF Heartbeat
  <2>2. JobStep(jobs[i], Renewed(jobs[i]))
    BY <2>1 DEF JobStep
  <2>3. QED
    BY <1>1, <2>1, <2>2
<1>7. CASE \E i \in JobIds, c \in Checkpoints, w \in Workers \cup {NoWorker} : Checkpoint(i, c, w)
  <2>1. PICK i \in JobIds, c \in Checkpoints : jobs' = [jobs EXCEPT ![i] = Checkpointed(jobs[i], c)]
    BY <1>7 DEF Checkpoint
  <2>2. JobStep(jobs[i], Checkpointed(jobs[i], c))
    BY DEF JobStep
  <2>3. QED
    BY <1>1, <2>1, <2>2
<1>8. CASE \E i \in JobIds, d \in Delays : Retry(i, d)
  <2>1. PICK i \in JobIds, d \in Int : jobs' = [jobs EXCEPT ![i] = Retried(jobs[i], d)]
    BY <1>8, <1>b DEF Retry
  <2>2. JobStep(jobs[i], Retried(jobs[i], d))
    BY DEF JobStep
  <2>3. QED
    BY <1>1, <2>1, <2>2
<1>9. CASE \E i \in JobIds : Cancel(i)
  <2>1. PICK i \in JobIds : jobs' = [jobs EXCEPT ![i] = Cancelled(jobs[i])]
    BY <1>9 DEF Cancel
  <2>2. JobStep(jobs[i], Cancelled(jobs[i]))
    BY DEF JobStep
  <2>3. QED
    BY <1>1, <2>1, <2>2
<1>10. CASE \E i \in JobIds, p \in ProgressValues : UpdateProgress(i, p)
  <2>1. PICK i \in JobIds, p \in Int : jobs' = [jobs EXCEPT ![i] = Progressed(jobs[i], p)]
    BY <1>10, <1>b DEF UpdateProgress
  <2>2. JobStep(jobs[i], Progressed(jobs[i], p))
    BY DEF JobStep
  <2>3. QED
    BY <1>1, <2>1, <2>2
<1>11. CASE Load
  BY <1>11 DEF Load, JobStep
<1>12. CASE TimePasses
  BY <1>12 DEF TimePasses, JobStep
<1>13. CASE UNCHANGED jobs
  BY <1>a, <1>13 DEF JobStep
<1>14. QED
  BY <1>2, <1>3, <1>4, <1>5, <1>6, <1>7, <1>8, <1>9, <1>10, <1>11, <1>12, <1>13 DEF Next

-----------------------------------------------------------------------------
(* What holds of every job record *)

\* The inductive invariant, job by job: LeaseOnlyWhileRunning,
\* LeaseWithinDuration and DeadLetterExhausted together.
JobInv(j) ==
  /\ j.leaseOwner # NoWorker => j.status = "running"
  /\ j.leaseLeft # 0 => j.leaseOwner # NoWorker
  /\ j.leaseLeft <= LeaseMs
  /\ j.status = "dead_letter" => j.attempts >= j.maxAttempts

QueueInv == \A i \in JobIds : JobInv(jobs[i])

\* A well-formed record stays well-formed in every way a step may change it.
LEMMA JobStepType ==
  ASSUME NEW j \in Job, NEW k, JobStep(j, k)
  PROVE  k \in Job
<1>1. ASSUME NEW t \in Types, NEW p \in Int, NEW m \in Int, NEW d \in Int,
             NEW key \in Keys \cup {NoKey}
      PROVE  NewJob(t, p, m, d, key) \in Job
  BY NewJobType
<1>2. \A w \in Workers : Claimed(j, w) \in Job
  BY ClaimedType
<1>3. j.leaseOwner # NoWorker => Renewed(j) \in Job
  BY ClaimedType DEF Job
<1>4. Completed(j) \in Job /\ Cancelled(j) \in Job
  BY CompletedType
<1>5. \A d \in Int : Failed(j, d) \in Job /\ Retried(j, d) \in Job
  BY FailedType
<1>6. \A p \in Int : Progressed(j, p) \in Job
  BY NormalizeTypes DEF Progressed, Job
<1>7. \A c \in Checkpoints : Checkpointed(j, c) \in Job
  BY DEF Checkpointed, Job
<1>8. Recovered(j) \in Job /\ Aged(j) \in Job
  BY RecoveredType
<1>9. QED
  BY <1>1, <1>2, <1>3, <1>4, <1>5, <1>6, <1>7, <1>8 DEF JobStep

\* A dropped lease leaves no owner and no deadline behind.
LEMMA ReleasedFields ==
  ASSUME NEW j \in Job
  PROVE  /\ Released(j).leaseOwner = NoWorker /\ Released(j).leaseLeft = 0
         /\ Released(j).status = j.status /\ Released(j).attempts = j.attempts
         /\ Released(j).maxAttempts = j.maxAttempts
  BY DEF Released, Job

\* The record invariant survives every way a step may change a job.
LEMMA JobStepInv ==
  ASSUME NEW j \in Job, JobInv(j), NEW k, JobStep(j, k)
  PROVE  JobInv(k)
<1>a. LeaseMs \in Nat \ {0} /\ NoWorker \notin Workers /\ MaxOverdue \in Nat
  BY JobQueueAssumption DEF JobQueueAssumption
<1>b. /\ j.leaseLeft \in Nat /\ j.attempts \in Nat /\ j.maxAttempts \in Nat
      /\ Released(j) \in Job
  BY ReleasedType DEF Job
<1>1. CASE k = j
  BY <1>1
<1>2. ASSUME NEW t \in Types, NEW p \in Int, NEW m \in Int, NEW d \in Int,
             NEW key \in Keys \cup {NoKey}, k = NewJob(t, p, m, d, key)
      PROVE  JobInv(k)
  <2>1. k.leaseOwner = NoWorker /\ k.leaseLeft = 0 /\ k.status = "queued"
    BY <1>2 DEF NewJob, NoJob
  <2>2. QED
    BY <2>1, <1>a DEF JobInv
<1>3. ASSUME NEW w \in Workers, k = Claimed(j, w)
      PROVE  JobInv(k)
  <2>1. k.leaseOwner = w /\ k.leaseLeft = LeaseMs /\ k.status = "running"
    BY <1>3 DEF Claimed, LeaseDeadline, Job
  <2>2. QED
    BY <2>1, <1>a DEF JobInv
<1>4. CASE k = Completed(j)
  <2>1. k.leaseOwner = NoWorker /\ k.leaseLeft = 0 /\ k.status = "completed"
    BY <1>4, <1>b, ReleasedFields DEF Completed, Job
  <2>2. QED
    BY <2>1, <1>a DEF JobInv
<1>5. ASSUME NEW d \in Int, k = Failed(j, d)
      PROVE  JobInv(k)
  <2>1. /\ k.leaseOwner = NoWorker /\ k.leaseLeft = 0
        /\ k.attempts = j.attempts /\ k.maxAttempts = j.maxAttempts
        /\ k.status = IF Exhausted(j) THEN "dead_letter" ELSE "queued"
    BY <1>5, <1>b, ReleasedFields DEF Failed, Job
  <2>2. QED
    BY <2>1, <1>a DEF JobInv, Exhausted
<1>6. CASE j.status = "running" /\ j.leaseOwner # NoWorker /\ k = Renewed(j)
  <2>1. k.leaseOwner = j.leaseOwner /\ k.leaseLeft = LeaseMs /\ k.status = "running"
    BY <1>6 DEF Renewed, LeaseDeadline, Job
  <2>2. QED
    BY <2>1, <1>6, <1>a DEF JobInv
<1>7. ASSUME NEW c \in Checkpoints, k = Checkpointed(j, c)
      PROVE  JobInv(k)
  <2>1. /\ k.leaseOwner = j.leaseOwner /\ k.leaseLeft = j.leaseLeft /\ k.status = j.status
        /\ k.attempts = j.attempts /\ k.maxAttempts = j.maxAttempts
    BY <1>7 DEF Checkpointed, Job
  <2>2. QED
    BY <2>1 DEF JobInv
<1>8. ASSUME NEW d \in Int, k = Retried(j, d)
      PROVE  JobInv(k)
  <2>1. k.leaseOwner = NoWorker /\ k.leaseLeft = 0 /\ k.status = "queued"
    BY <1>8, <1>b, ReleasedFields DEF Retried, Job
  <2>2. QED
    BY <2>1, <1>a DEF JobInv
<1>9. CASE k = Cancelled(j)
  <2>1. k.leaseOwner = NoWorker /\ k.leaseLeft = 0 /\ k.status = "cancelled"
    BY <1>9, <1>b, ReleasedFields DEF Cancelled, Job
  <2>2. QED
    BY <2>1, <1>a DEF JobInv
<1>10. ASSUME NEW p \in Int, k = Progressed(j, p)
       PROVE  JobInv(k)
  <2>1. /\ k.leaseOwner = j.leaseOwner /\ k.leaseLeft = j.leaseLeft /\ k.status = j.status
        /\ k.attempts = j.attempts /\ k.maxAttempts = j.maxAttempts
    BY <1>10 DEF Progressed, Job
  <2>2. QED
    BY <2>1 DEF JobInv
<1>11. CASE k = Recovered(j)
  <2>1. \/ k = j
        \/ k.leaseOwner = NoWorker /\ k.leaseLeft = 0 /\ k.status = "queued"
    BY <1>11, <1>b, ReleasedFields DEF Recovered, Job
  <2>2. QED
    BY <2>1, <1>a DEF JobInv
<1>12. CASE k = Aged(j)
  <2>1. \/ k = j
        \/ /\ k.leaseOwner = j.leaseOwner /\ k.leaseLeft = OneCloser(j.leaseLeft)
           /\ k.status = j.status
           /\ k.attempts = j.attempts /\ k.maxAttempts = j.maxAttempts
    BY <1>12 DEF Aged, Job
  <2>2. QED
    BY <2>1, <1>a, <1>b DEF JobInv, OneCloser
<1>13. QED
  BY <1>1, <1>2, <1>3, <1>4, <1>5, <1>6, <1>7, <1>8, <1>9, <1>10, <1>11, <1>12 DEF JobStep

-----------------------------------------------------------------------------
(* Theorems *)

\* Whatever callers ask for and in whatever order they call, the stored jobs
\* keep the shape the class declares (packages/core/src/persistent-job-queue.ts).
THEOREM QueueTypeCorrect == Spec => []TypeOK
<1>1. Init => TypeOK
  <2>1. NoJob \in Job
    <3>1. PICK t \in Types : TRUE
      BY JobQueueAssumption DEF JobQueueAssumption
    <3>2. QED
      BY NewJobType
  <2>2. QED
    BY <2>1 DEF Init, TypeOK
<1>2. TypeOK /\ [Next]_jobs => TypeOK'
  <2> SUFFICES ASSUME TypeOK, [Next]_jobs
               PROVE  TypeOK'
    OBVIOUS
  <2>1. \A i \in JobIds : jobs[i] \in Job
    BY DEF TypeOK
  <2>2. \A i \in JobIds : jobs'[i] \in Job
    BY <2>1, StepIsJobStep, JobStepType
  <2>3. jobs' = [i \in JobIds |-> jobs'[i]]
    BY StepIsJobStep
  <2>4. QED
    BY <2>2, <2>3 DEF TypeOK
<1>3. QED
  BY <1>1, <1>2, PTL DEF Spec

\* The record invariant holds of every job in every reachable state.
THEOREM QueueInvariant == Spec => []QueueInv
<1>1. Init => QueueInv
  BY JobQueueAssumption DEF JobQueueAssumption, Init, QueueInv, JobInv, NoJob
<1>2. TypeOK /\ QueueInv /\ [Next]_jobs => QueueInv'
  <2> SUFFICES ASSUME TypeOK, QueueInv, [Next]_jobs, NEW i \in JobIds
               PROVE  JobInv(jobs'[i])
    BY DEF QueueInv, JobInv
  <2>1. jobs[i] \in Job /\ JobInv(jobs[i])
    BY DEF TypeOK, QueueInv
  <2>2. JobStep(jobs[i], jobs'[i])
    BY StepIsJobStep
  <2>3. QED
    BY <2>1, <2>2, JobStepInv
<1>3. QED
  BY <1>1, <1>2, QueueTypeCorrect, PTL DEF Spec

\* complete, fail, retry, cancel and load leave no lease behind, and no lease
\* is without a deadline.
THEOREM LeasesOnlyWhileRunning == Spec => []LeaseOnlyWhileRunning
<1>1. QueueInv => LeaseOnlyWhileRunning
  BY DEF QueueInv, JobInv, LeaseOnlyWhileRunning
<1>2. QED
  BY <1>1, QueueInvariant, PTL

\* dequeue and heartbeat never reserve a job for longer than one lease duration.
THEOREM LeasesWithinDuration == Spec => []LeaseWithinDuration
<1>1. QueueInv => LeaseWithinDuration
  BY DEF QueueInv, JobInv, LeaseWithinDuration
<1>2. QED
  BY <1>1, QueueInvariant, PTL

\* fail moves a job to the dead letters only when its attempts are used up, and
\* nothing later makes a dead letter look under-attempted.
THEOREM DeadLettersExhausted == Spec => []DeadLetterExhausted
<1>1. QueueInv => DeadLetterExhausted
  BY DEF QueueInv, JobInv, DeadLetterExhausted
<1>2. QED
  BY <1>1, QueueInvariant, PTL

\* The step behind LeasesNotStolen: only a claim changes the owner of a leased
\* job to another worker, and dequeue() claims a running job only when its lease
\* has expired.
LEMMA HandoverExpired ==
  ASSUME TypeOK, QueueInv, [Next]_jobs, NEW i \in JobIds,
         jobs[i].leaseOwner # NoWorker,
         jobs'[i].leaseOwner \notin {NoWorker, jobs[i].leaseOwner}
  PROVE  LeaseExpired(jobs[i])
<1> DEFINE j == jobs[i]
           k == jobs'[i]
<1>1. j \in Job /\ JobInv(j) /\ JobStep(j, k)
  BY StepIsJobStep DEF TypeOK, QueueInv
<1>2. Released(j) \in Job /\ Released(j).leaseOwner = NoWorker
  BY <1>1, ReleasedType, ReleasedFields
<1>3. j.leaseOwner # NoWorker /\ k.leaseOwner # NoWorker /\ k.leaseOwner # j.leaseOwner
  OBVIOUS
<1> HIDE DEF j, k
<1>4. j.status = "running"
  BY <1>1, <1>3 DEF JobInv
<1>5. /\ k # Completed(j) /\ k # Cancelled(j)
      /\ \A d \in Int : k # Failed(j, d)
      /\ \A d \in Int : k # Retried(j, d)
  BY <1>2, <1>3 DEF Completed, Cancelled, Failed, Retried, Job
<1>6. /\ k # Renewed(j) /\ k # Aged(j) /\ k # Recovered(j)
      /\ \A c \in Checkpoints : k # Checkpointed(j, c)
      /\ \A p \in Int : k # Progressed(j, p)
  BY <1>1, <1>2, <1>3 DEF Renewed, Aged, Recovered, Checkpointed, Progressed, Job
<1>7. Eligible(j)
  BY <1>1, <1>3, <1>4, <1>5, <1>6 DEF JobStep
<1>8. LeaseExpired(j)
  BY <1>4, <1>7 DEF Eligible
<1>9. QED
  BY <1>8 DEF j

\* A claim takes a lease over from another worker only after it has expired,
\* and no heartbeat, report, retry, cancel or restart hands it over at all.
THEOREM LeasesNotStolen == Spec => NoLeaseTheft
<1> DEFINE Handover(i) == /\ jobs[i].leaseOwner # NoWorker
                          /\ jobs'[i].leaseOwner \notin {NoWorker, jobs[i].leaseOwner}
<1>1. TypeOK /\ QueueInv /\ [Next]_jobs
        => [\A i \in JobIds : Handover(i) => LeaseExpired(jobs[i])]_jobs
  BY HandoverExpired
<1>2. QED
  BY <1>1, QueueTypeCorrect, QueueInvariant, PTL DEF Spec, NoLeaseTheft
=============================================================================
