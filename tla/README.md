# Miki: TLA+ models, model checking and proofs

Miki is a local assistant: a gateway process supervises a core process (Node.js), and the
core runs an agent loop for chat channels, HTTP and WebSocket clients, scheduled tasks,
persistent timers and durable jobs. For local models the core starts a native inference
server (C++, threads), kept under `llm/local/`. This directory models the parts of the core
and of that server in which order, failure and time decide whether the program is right.
Paths below are relative to `packages/core/src/` unless they start with `packages/`; the
native server's are relative to `llm/local/miki-native-runtime (...)/tools/server/`.

## Inventory

| Part | State | Operations | What makes it correct |
|---|---|---|---|
| Job queue `persistent-job-queue.ts` | Map of jobs, mirrored in one JSON file | enqueue, dequeue, complete, fail, heartbeat, checkpoint, retry, cancel, updateProgress, load | a lease is exclusive until it expires, belongs to running work only and never outlives its worker by more than its duration; dead letters used all attempts; one active job per idempotency key |
| Job runner `persistent-job-runner.ts` | poll timer, `ticking`, `controllers` Map, workerId | start, tick, execute (heartbeat, complete, fail, finally), stop | no job of the live worker without a handler, bounded concurrency, every job moves on, stop returns |
| Session turn lock `session-turn-lock.ts` | `_locked` Set, `_queues` Map | acquire, withLock, _release | mutual exclusion per session, no lost hand-over, first come first served |
| Turn entry points `api/index.ts`, `channels/agent-response.ts`, `scheduler.ts` | turns in progress | channel message, scheduled task, queued task, job handler, chat routes | turns of one session do not overlap |
| Scheduler `scheduler.ts`, `scheduled-task-store.ts` | tasks in memory, rows in SQLite | schedule, cancel, poll, run with timeout, retry, recover | no task lost over a restart, terminal rows stay terminal, every due task runs |
| Task queue and slots `task-queue.ts`, `concurrent-manager.ts` | pending/running tasks, active count, waiters | enqueue, dequeue, complete, fail, cancel, acquire, release | running tasks within the limit, no waiter forgotten |
| Timers and automations `timer-scheduler.ts`, `automation.ts` | timers in a file, automations in SQLite | create, tick, persist; create, update, pause, resume, cancel | one job per occurrence over a crash, one scheduled task per automation |
| Delivery and approvals `delivery-queue.ts`, `approval-delivery.ts`, `security/approval-inbox.ts` | receipts, approval requests | enqueue, claim, settle, replay; request, approve, deny, revoke, consume, expire | an approval is used once, what was sent is not sent again |
| Tool locks `tool-call-parallelism.ts` | shared/exclusive lock per resource, waiters | acquire with timeout and abort, release, drain; batching of calls | no conflict, no deadlock, no lost wake-up |
| Message bus, blackboard, resource pool, watchers, agent runs | small in-memory tables | request/reply; versioned write; acquire/release; tick; step graph | see `hazards` in PROJECT.json |
| Native task queue and slots `server-queue.cpp`, `server-context.cpp` | three task lists under one mutex and one condition variable, slots, flags of the yield worker and of sleep | post, cancel, defer, pop_deferred_task, main loop, yield_to_queue, worker loop, sleep, wake, terminate | no task lost or doubled between the lists, threads and slots; main and worker exclude each other; order kept; both threads end |
| Native responses `server-queue.cpp` | waiting ids, vector of results, condition variable | add/remove waiting ids, send, recv_with_timeout, reader post/next/stop | no result left behind, no reader that waits for nothing, no lost wake-up, one final result |
| Gateway `packages/gateway/src/index.ts` | core process, restart timer, failure count | start, health check, kill, restart with backoff, shutdown | one core at a time, an unhealthy core is replaced |

How they interact: timers enqueue `agent.message` jobs; the HTTP routes of
`api/enhancement-router.ts` enqueue, cancel and retry jobs; the runner claims them and its
handler starts a turn of the agent on a session. Channel messages and scheduled tasks
start turns under the session turn lock. Everything in the core shares one event loop:
code between two `await`s is atomic, and what is hard is the interleaving at the awaits
(handlers, locks, timeouts), the crash of the process, and time (leases, heartbeats).
Scheduled tasks and interactive turns compete for the slots of the concurrency manager. In
the native server HTTP threads post tasks and read results, the main thread decodes, and a
worker thread serves the queue during a decode; there every section between two locks may
interleave. PROJECT.json lists each hazard at its line.

Hazards of parts that have no model yet and are not in that list: resuming an active
automation schedules a second task and forgets the first (`automation.ts:558`); a crash
between claim and result leaves a receipt `sending`, which the next claim sends again
(`delivery-queue.ts:171`), and a replay may overwrite a receipt that was already sent
(`:244`); an approval given in time never expires before it is used
(`security/approval-inbox.ts:419`); only the order of sorted keys keeps two tool calls from
waiting for each other (`tool-call-parallelism.ts:345`); a request that times out leaves its
listener (`agent-message-bus.ts:157`); versions restart at 1 after a deletion or expiry
(`agent-blackboard.ts:107`); the pool's limit is read before the factory is awaited
(`tools/resource-pool.ts:54`); overlapping watcher ticks report one change twice
(`watcher-registry.ts:69`); steps behind a skipped step stay pending (`agent-run.ts:273`);
health checks overlap, and a late failure counts after a success has reset the counter
(`packages/gateway/src/index.ts:334`); shutdown closes the session history before it stops
the job runner (`api/index.ts:3689`).

## Plan

1. `JobQueue`, `JobRunner` with proofs. Done.
2. `SessionTurnLock`, its abstract specification `TurnOrder`, `SessionTurns`, with proofs. Done.
3. `Scheduler` with the session lock, the slots and recovery, and its abstract specification
   `TaskLife`, with proofs. Done.
4. `ServerQueue` and `ServerResponse`, the native server's queue, threads and readers, with
   proofs. Done.
5. `TimerScheduler` on `JobQueue` (crash between enqueue and persist); automations on
   `Scheduler`: one job per occurrence, one scheduled task per automation.
6. `ToolLocks`: shared/exclusive locks with timeout and abort. Theorem: no two conflicting
   holders. The batching of tool calls as operators against a reference definition.
7. `Delivery` with `ApprovalInbox`: an approval is consumed once, also over crashes.
8. `Gateway`: supervision of the core process; shutdown order.
9. Queue writes that fail, a restart that keeps its worker identity, then blackboard, message
   bus, resource pool, watchers, agent-run graph.

## Modules

### JobQueue

`jobs` maps an identifier (the insertion position) to a record with the fields of
`PersistentJob` that some operation reads. Every operation of the class is an action; the
part that computes the new record is an operator of its own (`Claimed`, `Failed`,
`Released`, ...). An operation changes the Map and rewrites the file (temporary file and
rename) before it returns, so one variable stands for both; `Load` is the constructor of the
next process. An operation that returns null or false is no step.

Time: `Date.now()` is not kept. A job carries `dueIn` (runAfter minus now) and `leaseLeft`
(leaseUntil minus now while positive, otherwise 0), and `TimePasses` moves all deadlines at
once. `MaxOverdue` is the age beyond which two overdue jobs are not told apart; `Precedes`
then lets either come first, which includes what the code does.

`Next` is the most general client: any worker may call any operation on any job at any
time. Calls of dequeue, complete and fail without workerId occur only in unit tests and are
left out; checkpoint without workerId is the HTTP route and is in.

### JobRunner

Extends `JobQueue` and restricts the callers to the real ones: one runner per process, the
operator's routes, shutdown and crashes. `execs` has a slot per `execute()` call in flight,
`controllers` is the Map (job id to execution), `polling` is the poll timer, `ticking` the
flag. `tick()` is synchronous, so while `ticking` holds only `TickClaim`, `TickNoHandler`
and `TickEnd` happen. `HandlerResolves` and `HandlerRejects` are the two ends of a handler
together with the finally block: the slot and the Map entry of the job disappear and `tick()`
is called. The registered handler does not read its abort signal, so abortion is recorded
(`aborted`) and has no other effect. `Stop` is what `shutdown()` calls. `Restart` is a crash
between two writes of the file and the start of the next process, `CrashInClaim` a crash inside
the claiming loop after dequeue() has written. The approval test of the retry route is abstracted: a
retry may or may not come. The worker identity is taken to be fresh for every boot
(`worker-<pid>`); a pinned MIKI_WORKER_ID is not modelled yet.

### TurnOrder, SessionTurnLock, SessionTurns

`TurnOrder` is the promise: per session a line of callers, one asks at the end, the first
leaves. `SessionTurnLock` has the Set, the Map and for each caller where it is: `idle`,
`waiting` (its promise is pending), `granted` (the promise is resolved and the caller has not
resumed), `running`. `EndTurn` is the finally block of `withLock` and of the scheduler's
runs: release, and resolve the first waiter. The mapping `Line` puts the holder in front of
the queue. `SessionTurns` adds the turns that start without the lock.

### TaskLife, Scheduler

`mem` is the scheduler's Map, `db` the SQLite table; a row is a status and the number of
attempts. A run is one call of `_runScheduledTask()`: it enters the session's line (`line`,
whose first member holds the turn lock; `SessionTurnLock` is shown to implement such a line),
then `Begin` starts the executor, which asks the concurrency manager for a slot
(`active`, `limit`, `waiting`) or ends before it gets there. `Settle` is the end of the
executor together with everything up to the end of `_runScheduledTask()`: slot and lock are
released, and, unless the timeout came first or the task left the map, the success or the
failure is recorded. Both outcomes are possible for every executor, since its own error
handling may throw. `Timeout` records a failure and leaves the executor alone: it keeps the
lock and the slot until it ends, or for ever when it hangs (`Hang`). `Tick` is one pass over
the due tasks. `Cancel`, `Stop`, `Start` with the recovery, and `Crash` are the rest of the
class; `SetMaxConcurrent` is the heartbeat's call, `TurnBegin` and `TurnEnd` an interactive
turn that takes a slot. Time is abstract: a pending task may become due at any moment.
`starts` and `lost` count executors for the properties and are not in the code.

`TaskLife` is what a reader of the table may rely on, without runs, locks, slots, timeouts or
crashes: a task is entered once, started, and a start ends in success (pending again for a
recurring task), in another attempt or in a dead letter; it can be withdrawn while it is live,
and a restart makes what was running pending again without counting the attempt. The mapping
is the table itself (`row <- db`).

### ServerQueue

One action is one section under `mutex_tasks` or one callback. `main` and `worker` say where
the two threads are, `inHand` and `wInHand` what each has popped. `condition_tasks` is the
set of blocked threads: `notify_one` wakes an arbitrary one, and any thread may wake without
being notified. `UpdateBusy` posts NEXT_RESPONSE and starts a decode, `YieldStart` to
`YieldJoin` are `yield_to_queue()`, `FinishSlot` ends a generation, releases the slot and
requeues one deferred task; it stands for every release of `update_slots()`, the ones after an
error included (`server-context.cpp:2860`, 3097-3145, 3429-3433, 3642-3650). `HandleRun` is
`process_single_task()`: `AnswerRead`, `Launch`, `AnswerAtOnce` or a deferral. A slot is
idle or has a task; tokens, prompt caches and batches are left out. `Leavers` are the requests whose client may disconnect. Sleeping is modelled although
Miki starts the server without the idle option; Miki starts it with one slot.

### ServerResponse

The other half of the same file: readers register ids, post, receive and stop, each section
under `mutex_results` an action; the server side of a task is reduced to queued, taken,
running, ended. The vector of results is a set of numbered entries, so that "first in the
vector" is the smallest number.

### SequenceFacts

Lemmas on the members of a sequence (`In`, `Once`) under append, tail, concatenation and
removal, for the proofs of `ServerQueue` and `Scheduler`. What these proofs need of the order
of two members (`Before`) stands in `ServerQueueProofs`.

## Runs

| Run | Instance | Shows |
|---|---|---|
| job_queue | 2 jobs, 2 workers, 1 key, lease of one time unit, 2 claims per job, 1 retry; 770,673 states | the queue's invariants, and that a lease passes on only when expired |
| job_runner | 2 jobs, a handled and an unhandled type, 2 priorities, 2 processes, maxConcurrent 1; 215,124 states | no orphaned lease, Map entries have handlers, one handler at a time; queued and orphaned jobs move on, and once polling has ended for good the state that stop() polls for is reached and stays |
| turn_lock | 4 callers, 2 sessions; 785 states | exclusion, hand-over, queue contents, refinement of `TurnOrder`, every waiter runs |
| scheduler | a one-shot and a recurring task of one session, 2 attempts, limit 1 or 2, 1 interactive turn, 2 stops or crashes; 217,728 states | map and table agree, one watcher per running task, one executor per session, attempts and slots counted exactly, refinement of `TaskLife` (ended tasks stay ended), one-shot tasks end unless something hangs |
| server_queue | 3 requests (one metrics request, one bound to its slot, one that may leave), 1 slot, 2 naps; 224,084 states | every request in one place, main and worker exclusive, neither waiting nor sleeping in the middle of a request, notifications reach the thread they are for (with one exception, below), order kept, both threads stop, queued tasks are handled |
| server_response | 2 readers, 3 tasks, 1 partial result each for two of them; 182,982 states | no leaked result, no wait for nothing, no lost wake-up, the final result is the last, answered readers end |
| job_concurrency | maxConcurrent 2, 2 jobs, 3 slots | violation: a third handler starts after cancel and retry under a running handler |
| job_lease | as job_runner | violation: a late report completes a cancelled job |
| job_keys | 1 key | violation: retry revives a second active job under one key |
| turn_entry_points | 1 channel turn, 1 job handler, 1 session | violation: the job's turn overlaps the locked one |
| server_defer | 3 requests, 1 slot | violation: a deferred task stays deferred while every slot is idle |
| server_cancel | 2 requests, 1 slot | violation: a task popped before its cancellation is deferred after the clean-up |

The six violations are listed under `findings` with the lines that disagree.

Bounds. Two jobs are enough for the order of dequeue and for one job to be claimed while
another is cancelled or retried; two workers (or two boots) for a lease to pass on. One
time unit of lease and of delay distinguishes "before", "at" and "after" a deadline;
`leaseLeft` 0 with status running is the expired lease. `maxAttempts` is asked as 0
(normalised to 1) and 2, so both the first and a later failure are the last. `AttemptBound`
(claims since the last retry) cuts only the case of leases lost again and again in
job_queue; in job_runner 9 is never reached. `MaxExecs` leaves one slot more than
`maxConcurrent` allows, so a further handler would be seen. Four callers on two sessions let
two wait behind a holder while the other session is busy. In scheduler two attempts give a
retry and a dead letter, two halts a crash after a recovery, and the two tasks of one session
wait for each other's abandoned executors; two names per task are enough for its runs, because
a task that is started again waits behind its abandoned run. In server_queue three requests on one slot
give one in the slot, one deferred and one queued, and two naps the client of an earlier nap; the server's own start arguments have one
slot. In server_response one reader has two tasks, so an error of one leaves results of the
other. Two workers are interchangeable in
job_queue (symmetry); runs with liveness properties use none.

Deadlock. job_runner may stop when the last process has stopped polling and nothing is left
to do, so deadlock is not checked there. In job_queue time always passes; in turn_lock a
caller can always act; scheduler is checked for deadlock. server_queue ends when the server was
told to stop, server_response when every request was served, so it is not checked there.

Fairness. Weak fairness of the poll timer, of the steps of the claiming loop, of the clock
and of the end of every handler: Node fires its timers, runs a callback to its end, and the
agent loop ends its runs. Weak fairness of `StartTurn` and `EndTurn` for the lock:
microtasks run and turns end. No fairness for operators, heartbeats, crashes, shutdown or
new turns. Scheduler: weak fairness of the interval, of timers, of granted locks, of executors
that do not hang, and of the gateway's restart; none for hung executors, cancellations,
crashes, stops, changes of the limit. ServerQueue: both threads and the requests' threads are
scheduled (weak), a batch has finitely many views and a generation ends (strong: the loop
passes these points again and again, and `n_predict` bounds the generation). ServerResponse:
only the readers' threads are scheduled; the server owes nothing. StopEventuallyDrains
relies on handlers that return by themselves, since the abort signal is ignored. Its goal is the
loop of stop() itself, no tick() running and an empty Map, and that this lasts: the Map is also
empty for a moment inside the callback whose tick() claims again, which stop() cannot see.
QueuedEventuallyLeaves holds for finitely many jobs and retries: with jobs of higher priority
enqueued for ever, a job of lower priority would starve. StopsWhenTold speaks of the main thread
and the worker, not of the HTTP threads.

## Proofs

TLAPS proves the following for all values of the constants that satisfy the named
assumptions (`JobQueueAssumption`, `JobRunnerAssumption`, `SessionTurnLockAssumption`,
`ServerQueueAssumption`, `ServerResponseAssumption`, and the six of `Scheduler`).

- `JobQueueProofs`. `StepIsJobStep` reduces every step of `Next` to what it does to a single
  record (`JobStep`); `JobStepType` and `JobStepInv` treat each way once. `QueueInv` (per job:
  an owner means running, a deadline means an owner, the deadline is within the duration,
  dead letters are exhausted) is inductive with `TypeOK`. From it: `QueueTypeCorrect`,
  `LeasesOnlyWhileRunning`, `LeasesWithinDuration`, `DeadLettersExhausted`, and the action
  property `LeasesNotStolen`.
- `JobRunnerProofs`. Every runner step is a queue step, or a claim with the failure or the
  reload that follows it (`RunnerStepsQueue`), so `QueueInv` carries over. The runner's invariants are not inductive
  alone: NoOrphanLease needs that owners are this boot or an earlier one (`OwnersBooted`: a
  fresh process owns nothing), and it survives the end of a handler because complete() or
  fail() then releases whatever lease this worker holds on the job, also when the job has
  two executions (`FinallyKeepsInv`). OneHandlerAtATime needs `SoleHandler`: with
  `maxConcurrent` 1 the only handler in flight has its entry in the Map, which is what makes
  the size of the Map a true count. For larger values that fails, see job_concurrency.
  `QueueSafeUnderRunner` and `RunnerStealsNoLease` carry the queue's invariants and its action
  property over to the real caller. They do not follow from the theorems on `JobQueue`, because
  two steps of the runner are pairs of queue steps: the claim and failure of a job without
  handler, and the claim that only the next process sees.
- `SessionTurnLockProofs`. `LockInv` joins the checked invariants with `IdleIffNoSession` and
  `WaitBehindHolder` (nobody waits for an unlocked session). `MutualExclusion`, `LockTyped`,
  `NoLostHandOver` and `WaitersQueuedOnce` follow; `ImplementsLine` shows that each action of the lock is an `Ask`, a
  `Leave` or a stutter of `TurnOrder` under `Line`.
- `SessionTurnsProofs`. The other side of the violation turn_entry_points:
  `DirectTurnsLeaveLock` shows that a behaviour with direct turns is a behaviour of the lock, so
  `OrderBesideDirectTurns` holds, and `OverlapNeedsDirectTurn` that turns of a session overlap
  only when a direct turn works on that session.
- `SchedulerProofs`. The inductive invariant joins the types, what a row may be (`RowInv`), that
  a run stands in its session's line exactly while it is not free, in front once it has begun
  (`LineInv`), that nobody waits twice for a slot (`SlotInv`), that there are no runs before the
  recovery (`LifeInv`), and per task `TaskInv`: map and table agree, at most one run watches the
  task, and its starts are the attempts recorded, those lost in crashes and the one going on.
  The last part needs the case of a cancelled task whose run still waits in the line and will
  start once more. From it: `SchedulerTyped`, `MapAndTableAgree`, `RunningTasksWatched`,
  `ExecutorsExclude`, `AttemptsAddUp`, and the action property `TerminalStays`.
  `SlotsCounted` adds the count: a release or a change of the limit grants a prefix of the
  waiting line, whose members are distinct and hold no slot, so the holders grow by its length
  (`GrantCounts`, from `FirstCount`). `SchedulerImplementsTaskLife` shows that every step is a
  step of `TaskLife` on the table or leaves it alone; that a late executor or timeout records
  nothing on a row that has ended, or that belongs to a later run, is where `TaskInv` is needed.
- `ServerQueueProofs`. `Control` says which thread may hold what, `NextPosted` that
  NEXT_RESPONSE is pending from the start of a decode with a busy slot until the main thread
  looks at the queue again, `Placed` where each request is, `CancelGone` that only the requests
  of clients that left are cancelled. From them: `QueueTyped`, `YieldIsExclusive`,
  `NeverSleepsWhileBusy`, `RequestsPlacedOnce`, for any number of requests and slots.
  `OrderIsKept` needs that a pending task is pending once (`Singles`), for NEXT_RESPONSE too:
  it is posted again only after the main thread has popped it (`NextFresh`). Every step is then
  one of the moves of `PendingMove` (a new task at an end, the worker's pop, a decline, the
  put-back, a removal), and none brings a task ahead of one it was not ahead of.
  `WakeupsReach`: the main thread, the worker and the clients wait on `condition_tasks` with
  different predicates while post() uses notify_one(). The notification reaches the one that
  needs it because a thread that waits for tasks is alone (`BlockedAlone`): the worker waits only
  while main decodes, main only while nothing is yielded, and clients only while main sleeps.
  For a main thread that sleeps, `NapInv` says that in the first nap no client is inside
  wait_until_no_sleep() before one has asked main to wake, so main alone is blocked when the
  notification of that request is given.
- `ServerResponseProofs`. The invariant adds where a reader stands while its ids are registered,
  while it may have results and while its tasks can be cancelled. From it: `ResponseTyped`,
  `NoResultIsLeaked`, `NoReaderWaitsForNothing`, `NoLostWakeup`, `FinalResultIsLast`.

Every invariant and every action property of the passing runs is proved. Only model-checked:
the liveness properties (fairness and ENABLED are outside the prover's reach), which are
`QueuedEventuallyLeaves`, `StopEventuallyDrains`, `OrphanEventuallyReclaimed`,
`WaiterEventuallyRuns`, `TaskEventuallyEnds`, `StopsWhenTold`, `QueuedIsHandled` and
`AnsweredReaderEnds`; and the six violations.

`NoLostWakeup` has one exception, for a sleeping main thread. wait_until_no_sleep() calls
notify_one() (`server-queue.cpp:123`, "only main thread is waiting on this"), but clients wait
on the same condition variable. A client of an earlier nap that is scheduled only after main has
fallen asleep again finds `sleeping` set, waits again, and may take the notification meant for
main, which then sleeps on although it was asked to wake. The property says that this takes a
second nap and two clients in wait_until_no_sleep(); TLC reaches it with exactly these. Miki
starts the server without the idle option.

## Not modelled

Failing writes of the queue file; damaged or hand-edited files (`isPersistentJob`
filters them); a second process on the same file at the same time; status counters, audit
records and response formats; what happens inside a turn. In the scheduler: queued tasks
(`_runQueuedTask()`, reached only when a client enqueues a task and does not run it itself),
failing SQLite writes, and `runAt = 0`, which is accepted and then never due
(`scheduler.ts:273`). In the native server: parent and child tasks, CONTROL and LORA tasks,
exceptions thrown by worker callbacks, prompt caches, `broadcast()`, `recv()` without timeout and
`terminate()` of the response queue (the router mode Miki does not start), and everything that
is decoded. llama.cpp and ggml, vendored below `llm/local/`, are nearly all of the repository's
C and C++ lines: numeric kernels, tokenizers and file formats, about which neither TLC nor
these proofs could say anything; the share of that code the models cover is therefore tiny and
will stay so. The components with status
`not_modelled` in PROJECT.json are either in the plan above or named there with the reason:
network clients, terminal and web interfaces, text heuristics and plain storage.
