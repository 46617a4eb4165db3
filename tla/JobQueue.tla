------------------------------ MODULE JobQueue ------------------------------
(***************************************************************************)
(* PersistentJobQueue (packages/core/src/persistent-job-queue.ts): the     *)
(* durable queue behind the job runner, the persistent timers and the      *)
(* /runtime/jobs routes.                                                   *)
(*                                                                         *)
(* Every operation of the class mutates the in-memory Map and then writes  *)
(* the whole file (temporary file + rename) before it returns, so the file *)
(* and the Map agree between two operations and one variable stands for    *)
(* both.  An operation that returns null or false changes nothing and is   *)
(* no step here.  Payload, result, error text and timestamps are carried   *)
(* data no operation branches on; they are left out.                       *)
(*                                                                         *)
(* Date.now() is not a variable.  The two deadlines of a job are kept      *)
(* relative to it: dueIn is runAfter - now, leaseLeft is leaseUntil - now  *)
(* as long as that is positive.  TimePasses moves every deadline closer,   *)
(* so the clock needs no bound.                                            *)
(*                                                                         *)
(* Next lets any worker call any operation on any job at any time: the     *)
(* most general client.  JobRunner restricts it to the real caller.        *)
(***************************************************************************)
EXTENDS Integers, FiniteSets

CONSTANTS
  MaxJobs,       \* bound: how many jobs are ever enqueued
  Workers,       \* workerId values
  NoWorker,      \* leaseOwner / workerId undefined
  Keys,          \* idempotency keys
  NoKey,         \* idempotencyKey undefined
  Types,         \* job types
  Priorities,    \* priorities a caller asks for
  MaxAttemptsOptions, \* maxAttempts a caller asks for, before normalisation
  Delays,        \* delayMs / retryDelayMs a caller asks for, before normalisation
  ProgressValues,\* progress values a caller reports, before clamping
  Checkpoints,   \* checkpoint values
  NoCheckpoint,  \* checkpoint undefined
  LeaseMs,       \* leaseDurationMs of every worker
  MaxOverdue,    \* bound: how long past its due time a job's age is told apart
  AttemptBound,  \* bound: claims of one job since its last retry
  RetryBound     \* bound: operator retries of one job

ASSUME JobQueueAssumption ==
  /\ MaxJobs \in Nat
  /\ NoWorker \notin Workers
  /\ NoKey \notin Keys
  /\ NoCheckpoint \notin Checkpoints
  /\ Types # {}
  /\ Priorities \subseteq Int
  /\ MaxAttemptsOptions \subseteq Int
  /\ Delays \subseteq Int
  /\ ProgressValues \subseteq Int
  /\ LeaseMs \in Nat \ {0}
  /\ MaxOverdue \in Nat
  /\ AttemptBound \in Nat
  /\ RetryBound \in Nat

VARIABLE jobs    \* the Map; an identifier is the job's insertion position

JobIds == 1..MaxJobs

\* "failed" is a declared status that no operation ever assigns.
Statuses == {"queued", "running", "completed", "failed", "cancelled", "dead_letter"}

\* leaseLeft = 0 stands for a leaseUntil that has passed or is undefined: both
\* readers of the field treat the two alike ((leaseUntil ?? 0) <= now,
\* !leaseUntil || leaseUntil <= now).
Job == [type : Types, priority : Int, status : Statuses \cup {"absent"},
        attempts : Nat, maxAttempts : Nat \ {0}, dueIn : Int,
        progress : 0..100, key : Keys \cup {NoKey},
        leaseOwner : Workers \cup {NoWorker}, leaseLeft : Nat,
        checkpoint : Checkpoints \cup {NoCheckpoint}, retryCount : Nat]

\* An identifier not in the Map.
NoJob == [type |-> CHOOSE t \in Types : TRUE, priority |-> 0, status |-> "absent",
          attempts |-> 0, maxAttempts |-> 1, dueIn |-> 0,
          progress |-> 0, key |-> NoKey,
          leaseOwner |-> NoWorker, leaseLeft |-> 0,
          checkpoint |-> NoCheckpoint, retryCount |-> 0]

Exists(i) == jobs[i].status # "absent"

-----------------------------------------------------------------------------
(* Argument normalisation *)

UnnormalizedInt(v) == v

NormalizePositiveInt(v) == IF v < 1 THEN 1 ELSE v

NormalizeNonNegativeInt(v) == IF v < 0 THEN 0 ELSE v

ClampProgress(v) == IF v < 0 THEN 0 ELSE IF v > 100 THEN 100 ELSE v

-----------------------------------------------------------------------------
(* Leases *)

RenewFromOldDeadline(j) == j.leaseLeft + LeaseMs

\* now + leaseDurationMs, for a claim and for a heartbeat.
LeaseDeadline(j) == LeaseMs

KeepsLease(j) == j

Released(j) == [j EXCEPT !.leaseOwner = NoWorker, !.leaseLeft = 0]

\* ownsLease: a caller without an identity, and a job without an owner, pass.
OwnsLease(j, w) == w = NoWorker \/ j.leaseOwner = NoWorker \/ j.leaseOwner = w

LeaseExpired(j) == j.leaseLeft = 0

-----------------------------------------------------------------------------
(* What each operation makes of one job record *)

ExhaustedEarly(j) == j.attempts + 1 >= j.maxAttempts

Exhausted(j) == j.attempts >= j.maxAttempts

\* enqueue
NewJob(t, p, m, d, k) ==
  [NoJob EXCEPT !.type = t, !.priority = p, !.status = "queued",
                !.maxAttempts = NormalizePositiveInt(m),
                !.dueIn = NormalizeNonNegativeInt(d), !.key = k]

Claimed(j, w) ==
  [j EXCEPT !.status = "running", !.attempts = @ + 1,
            !.leaseOwner = w, !.leaseLeft = LeaseDeadline(j)]

Renewed(j) == [j EXCEPT !.leaseLeft = LeaseDeadline(j)]

Completed(j) == [Released(j) EXCEPT !.status = "completed", !.progress = 100]

Failed(j, delay) ==
  [Released(j) EXCEPT !.status = IF Exhausted(j) THEN "dead_letter" ELSE "queued",
                      !.dueIn = NormalizeNonNegativeInt(delay)]

Retried(j, delay) ==
  [Released(j) EXCEPT !.status = "queued", !.attempts = 0, !.progress = 0,
                      !.dueIn = NormalizeNonNegativeInt(delay), !.retryCount = @ + 1]

Cancelled(j) == [Released(j) EXCEPT !.status = "cancelled"]

Checkpointed(j, c) == [j EXCEPT !.checkpoint = c]

Progressed(j, p) == [j EXCEPT !.progress = ClampProgress(p)]

\* load(): what a job read back from the file becomes.
Recovered(j) ==
  IF j.status = "running" /\ LeaseExpired(j)
  THEN [Released(j) EXCEPT !.status = "queued"]
  ELSE j

OneCloser(t) == IF t > 0 THEN t - 1 ELSE 0

OneLater(t) == IF t > -MaxOverdue THEN t - 1 ELSE t

Aged(j) ==
  IF j.status = "absent" THEN j
  ELSE [j EXCEPT !.dueIn = OneLater(@), !.leaseLeft = OneCloser(@)]

-----------------------------------------------------------------------------
(* The choice dequeue makes *)

EligibleQueuedOnly(j) == j.status = "queued" /\ j.dueIn <= 0

EligibleIgnoringLease(j) ==
  \/ j.status = "queued" /\ j.dueIn <= 0
  \/ j.status = "running"

Eligible(j) ==
  \/ j.status = "queued" /\ j.dueIn <= 0
  \/ j.status = "running" /\ LeaseExpired(j)

\* priority descending, then runAfter ascending; the sort is stable over
\* insertion order.  Jobs overdue for MaxOverdue or longer are not told apart
\* by age, so neither is sure to come first.
Precedes(i, k) ==
  \/ jobs[i].priority > jobs[k].priority
  \/ /\ jobs[i].priority = jobs[k].priority
     /\ \/ jobs[i].dueIn < jobs[k].dueIn
        \/ jobs[i].dueIn = jobs[k].dueIn /\ i < k /\ jobs[i].dueIn > -MaxOverdue

IsNextJob(i) ==
  /\ Eligible(jobs[i])
  /\ \A k \in JobIds : Eligible(jobs[k]) => ~Precedes(k, i)

NothingEligible == \A i \in JobIds : ~Eligible(jobs[i])

-----------------------------------------------------------------------------
(* Operations *)

\* The status test of the duplicate search.
Active(j) == j.status \notin {"absent", "dead_letter", "cancelled"}

\* enqueue; returning the existing job of the key changes nothing.
Enqueue(t, p, m, d, k) ==
  \E i \in JobIds :
    /\ ~Exists(i) /\ \A h \in JobIds : h < i => Exists(h)
    /\ k # NoKey => \A h \in JobIds : jobs[h].key = k => ~Active(jobs[h])
    /\ jobs' = [jobs EXCEPT ![i] = NewJob(t, p, m, d, k)]

DequeueJob(i, w) ==
  /\ IsNextJob(i)
  /\ jobs[i].attempts < AttemptBound
  /\ jobs' = [jobs EXCEPT ![i] = Claimed(@, w)]

Dequeue(w) == \E i \in JobIds : DequeueJob(i, w)

Complete(i, w) ==
  /\ Exists(i) /\ OwnsLease(jobs[i], w)
  /\ jobs' = [jobs EXCEPT ![i] = Completed(@)]

Fail(i, w, d) ==
  /\ Exists(i) /\ OwnsLease(jobs[i], w)
  /\ jobs' = [jobs EXCEPT ![i] = Failed(@, d)]

Heartbeat(i, w) ==
  /\ jobs[i].status = "running" /\ jobs[i].leaseOwner = w
  /\ jobs' = [jobs EXCEPT ![i] = Renewed(@)]

Checkpoint(i, c, w) ==
  /\ Exists(i) /\ OwnsLease(jobs[i], w)
  /\ jobs' = [jobs EXCEPT ![i] = Checkpointed(@, c)]

Retry(i, d) ==
  /\ jobs[i].status \in {"failed", "cancelled", "dead_letter"}
  /\ jobs[i].retryCount < RetryBound
  /\ jobs' = [jobs EXCEPT ![i] = Retried(@, d)]

Cancel(i) ==
  /\ Exists(i) /\ jobs[i].status \notin {"completed", "dead_letter"}
  /\ jobs' = [jobs EXCEPT ![i] = Cancelled(@)]

UpdateProgress(i, p) ==
  /\ Exists(i)
  /\ jobs' = [jobs EXCEPT ![i] = Progressed(@, p)]

\* A new PersistentJobQueue on the same file, after the process has died.
Load ==
  /\ jobs' = [i \in JobIds |-> Recovered(jobs[i])]

\* Date.now() moves on by one unit.
TimePasses == jobs' = [i \in JobIds |-> Aged(jobs[i])]

-----------------------------------------------------------------------------
Init == jobs = [i \in JobIds |-> NoJob]

Next ==
  \/ \E t \in Types, p \in Priorities, m \in MaxAttemptsOptions, d \in Delays,
        k \in Keys \cup {NoKey} : Enqueue(t, p, m, d, k)
  \/ \E w \in Workers : Dequeue(w)
  \/ \E i \in JobIds, w \in Workers : Complete(i, w)
  \/ \E i \in JobIds, w \in Workers, d \in Delays : Fail(i, w, d)
  \/ \E i \in JobIds, w \in Workers : Heartbeat(i, w)
  \/ \E i \in JobIds, c \in Checkpoints, w \in Workers \cup {NoWorker} : Checkpoint(i, c, w)
  \/ \E i \in JobIds, d \in Delays : Retry(i, d)
  \/ \E i \in JobIds : Cancel(i)
  \/ \E i \in JobIds, p \in ProgressValues : UpdateProgress(i, p)
  \/ Load
  \/ TimePasses

Spec == Init /\ [][Next]_jobs

-----------------------------------------------------------------------------
(* Properties *)

\* Every stored job has the shape of the PersistentJob interface after
\* normalisation: in particular maxAttempts is at least 1 and progress stays
\* within 0..100 whatever a caller passes.
TypeOK == jobs \in [JobIds -> Job]

\* A lease belongs to running work only: after complete, fail, retry, cancel
\* and recovery no owner or deadline is left behind, and an owner always comes
\* with a deadline, so that a lease whose worker died can expire.
LeaseOnlyWhileRunning ==
  \A i \in JobIds :
    /\ jobs[i].leaseOwner # NoWorker => jobs[i].status = "running"
    /\ jobs[i].leaseLeft # 0 => jobs[i].leaseOwner # NoWorker

\* Nobody holds a lease that ends later than one lease duration from now,
\* however often it was renewed: work of a dead worker is claimable again at
\* most leaseDurationMs after its last heartbeat.
LeaseWithinDuration ==
  \A i \in JobIds : jobs[i].leaseLeft <= LeaseMs

\* Dead letters have used up the attempts they were given, whatever mixture of
\* failures, lost leases, restarts and late reports brought them there.
DeadLetterExhausted ==
  \A i \in JobIds : jobs[i].status = "dead_letter" => jobs[i].attempts >= jobs[i].maxAttempts

\* One worker's lease passes to another only after it has expired; until then
\* no claim, heartbeat, report or restart hands the job over.
NoLeaseTheft ==
  [][\A i \in JobIds :
       /\ jobs[i].leaseOwner # NoWorker
       /\ jobs'[i].leaseOwner \notin {NoWorker, jobs[i].leaseOwner}
       => LeaseExpired(jobs[i])]_jobs

=============================================================================
