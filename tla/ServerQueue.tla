----------------------------- MODULE ServerQueue ----------------------------
(***************************************************************************)
(* server_queue (tools/server/server-queue.cpp of the native runtime that  *)
(* local-runtime.ts starts) with the slot scheduling that its callbacks do *)
(* (process_single_task and update_slots of server-context.cpp).           *)
(*                                                                         *)
(* Threads: the main thread in start_loop(), the worker thread that serves *)
(* the queue while the main thread decodes (yield_to_queue), one HTTP      *)
(* thread per request, and the thread that calls terminate().  mutex_tasks *)
(* guards the queue, so one action is one section under the mutex, or one  *)
(* callback; only one of main and worker touches the slots at a time.      *)
(*                                                                         *)
(* condition_tasks is the set "waiting" of the threads blocked on it.      *)
(* notify_one() removes any one of them, notify_all() all of them, and a   *)
(* thread that was removed evaluates its predicate again under the mutex.  *)
(*                                                                         *)
(* Time is abstracted: the idle timer may expire whenever the main thread  *)
(* is about to wait.                                                       *)
(***************************************************************************)
EXTENDS Naturals, Sequences, FiniteSets, SequencesExt

CONSTANTS
  Tasks,       \* requests; each is posted by an HTTP thread of its own
  Reads,       \* the requests that only read the server state (METRICS)
  Slots,       \* the slots (--parallel)
  IdSlot,      \* task.id_slot
  AnySlot,     \* task.id_slot = -1
  NoTask,
  Leavers,     \* bound: the requests whose client may give up
  MaxNaps      \* bound on how often the main thread enters the sleeping state

ASSUME ServerQueueAssumption ==
  /\ Reads \subseteq Tasks
  /\ IdSlot \in [Tasks -> Slots \cup {AnySlot}]
  /\ AnySlot \notin Slots /\ NoTask \notin Tasks
  /\ Tasks \cap {"main", "worker"} = {}
  /\ Leavers \subseteq Tasks /\ MaxNaps \in Nat

VARIABLES
  queue,       \* queue_tasks
  deferred,    \* queue_tasks_deferred
  unhandled,   \* queue_tasks_unhandled
  slot,        \* the task of each slot; NoTask is SLOT_STATE_IDLE
  main,        \* where the main thread is
  inHand,      \* what process_new_tasks() popped on the main thread
  worker,      \* where the worker thread is
  wInHand,     \* what process_new_tasks() popped on the worker thread
  busy,        \* worker.busy
  yielding,    \* worker.yielding
  wStop,       \* worker.stop
  client,      \* where each HTTP thread is
  running,     \* running
  sleeping,    \* sleeping
  wakeReq,     \* req_stop_sleeping
  waiting,     \* the threads blocked on condition_tasks
  naps         \* sleeping states entered so far

qVars      == <<queue, deferred, unhandled>>
workerVars == <<worker, wInHand>>
yieldVars  == <<busy, yielding, wStop>>
sleepVars  == <<sleeping, wakeReq, naps>>
vars == <<qVars, slot, main, inHand, workerVars, yieldVars, client, running,
          sleepVars, waiting>>

\* server_response::send() of the final result or error of t: it is kept for a
\* reader that still waits and dropped otherwise.
SendResult(t) == client' = IF client[t] = "posted" THEN [client EXCEPT ![t] = "answered"] ELSE client

Run(t)       == [op |-> "run", id |-> t]
Cancel(t)    == [op |-> "cancel", id |-> t]
NextResponse == [op |-> "next", id |-> NoTask]
NoItem       == [op |-> "none", id |-> NoTask]
Items == {Run(t) : t \in Tasks} \cup {Cancel(t) : t \in Tasks} \cup {NextResponse}

IdleSlots == {s \in Slots : slot[s] = NoTask}

\* condition_tasks.notify_one() with the threads W blocked: what is left.
NotifyOne(W) == IF W = {} THEN {W} ELSE {W \ {w} : w \in W}

-----------------------------------------------------------------------------
(* HTTP threads.                                                           *)

\* server_res_generator: wait_until_no_sleep(); the metrics route bypasses it
\* and answers from its cache while the server sleeps.
Arrive(t) ==
  /\ client[t] = "new"
  /\ \/ /\ ~sleeping
        /\ client' = [client EXCEPT ![t] = "ready"]
        /\ UNCHANGED <<wakeReq, waiting>>
     \/ /\ sleeping /\ t \in Reads
        /\ client' = [client EXCEPT ![t] = "gone"]
        /\ UNCHANGED <<wakeReq, waiting>>
     \/ /\ sleeping /\ t \notin Reads
        /\ wakeReq' = TRUE
        /\ \E W \in IF wakeReq THEN {waiting} ELSE NotifyOne(waiting) :
              waiting' = W \cup {t}
        /\ client' = [client EXCEPT ![t] = "nosleep"]
  /\ UNCHANGED <<qVars, slot, main, inHand, workerVars, yieldVars, running,
                 sleeping, naps>>

\* wait_until_no_sleep() evaluates its predicate again.
Rewait(t) ==
  /\ client[t] = "nosleep" /\ t \notin waiting
  /\ IF sleeping
     THEN waiting' = waiting \cup {t} /\ UNCHANGED client
     ELSE client' = [client EXCEPT ![t] = "ready"] /\ UNCHANGED waiting
  /\ UNCHANGED <<qVars, slot, main, inHand, workerVars, yieldVars, running, sleepVars>>

\* post(task): metrics tasks go to the front.
Post(t) ==
  /\ client[t] = "ready"
  /\ queue' = IF t \in Reads THEN <<Run(t)>> \o queue ELSE Append(queue, Run(t))
  /\ client' = [client EXCEPT ![t] = "posted"]
  /\ waiting' \in NotifyOne(waiting)
  /\ UNCHANGED <<deferred, unhandled, slot, main, inHand, workerVars, yieldVars,
                 running, sleepVars>>

\* cleanup_pending_task(), then the cancel task goes to the front.  An id is in
\* the queues at most once (PlacedOnce), so removing the first is removing all.
CleanupPendingTask(t) ==
  /\ queue' = <<Cancel(t)>> \o RemoveFirst(queue, Run(t))
  /\ deferred' = RemoveFirst(deferred, Run(t))
  /\ unhandled' = RemoveFirst(unhandled, Run(t))

\* server_response_reader::stop() before the final result was received; it may
\* have been sent by then.
PostCancel(t) ==
  /\ t \in Leavers /\ client[t] \in {"posted", "answered"}
  /\ CleanupPendingTask(t)
  /\ client' = [client EXCEPT ![t] = "gone"]
  /\ waiting' \in NotifyOne(waiting)
  /\ UNCHANGED <<slot, main, inHand, workerVars, yieldVars, running, sleepVars>>

\* terminate()
Terminate ==
  /\ running
  /\ running' = FALSE
  /\ waiting' = {}
  /\ UNCHANGED <<qVars, slot, main, inHand, workerVars, yieldVars, client, sleepVars>>

-----------------------------------------------------------------------------
(* The main thread: start_loop().                                          *)

\* process_new_tasks(false), the section under the mutex.
MainPop ==
  /\ main = "process"
  /\ \/ /\ ~running
        /\ main' = "stop"
        /\ UNCHANGED <<queue, inHand>>
     \/ /\ running /\ queue = <<>>
        /\ main' = "update"
        /\ UNCHANGED <<queue, inHand>>
     \/ /\ running /\ queue # <<>>
        /\ inHand' = Head(queue)
        /\ queue' = Tail(queue)
        /\ main' = "handle"
  /\ UNCHANGED <<deferred, unhandled, slot, workerVars, yieldVars, client, running,
                 sleepVars, waiting>>

\* The first deferred task that asked for slot s, or the first of all.
DeferredFor(s) ==
  LET asking == {i \in DOMAIN deferred : IdSlot[deferred[i].id] = s}
  IN  IF asking = {} THEN 1 ELSE CHOOSE i \in asking : \A j \in asking : i <= j

PopWithoutRequeue(s) ==
  /\ deferred' = IF deferred = <<>> THEN deferred ELSE RemoveAt(deferred, DeferredFor(s))
  /\ UNCHANGED queue

\* pop_deferred_task(s): one deferred task goes to the front of the queue.
PopDeferredTask(s) ==
  IF deferred = <<>>
  THEN UNCHANGED <<queue, deferred>>
  ELSE /\ queue' = <<deferred[DeferredFor(s)]>> \o queue
       /\ deferred' = RemoveAt(deferred, DeferredFor(s))

\* server_slot::release() of a slot that is processing.
Release(s) ==
  /\ slot' = [slot EXCEPT ![s] = NoTask]
  /\ PopDeferredTask(s)
  /\ waiting' \in NotifyOne(waiting)

\* queue_tasks.defer(task)
Defer(t) ==
  /\ deferred' = Append(deferred, Run(t))
  /\ waiting' \in NotifyOne(waiting)
  /\ UNCHANGED <<queue, slot, client>>

DeferUnknownCancel(t) ==
  /\ inHand = Cancel(t)
  /\ \/ \E s \in Slots : slot[s] = t /\ Release(s)
     \/ /\ \A s \in Slots : slot[s] # t
        /\ deferred' = Append(deferred, inHand)
        /\ UNCHANGED <<queue, slot, waiting>>
  /\ UNCHANGED client

\* process_single_task() of a CANCEL task.
HandleCancel(t) ==
  /\ inHand = Cancel(t)
  /\ \/ \E s \in Slots : slot[s] = t /\ Release(s)
     \/ /\ \A s \in Slots : slot[s] # t
        /\ UNCHANGED <<queue, deferred, slot, waiting>>
  /\ UNCHANGED client

\* The slots in which t can start now: any idle one, or only the slot it asks
\* for (which get_available_slot() also returns while it is processing; the
\* caller then defers the task as if there were none).
AvailableSlots(t) == IF IdSlot[t] = AnySlot THEN IdleSlots ELSE {IdSlot[t]} \cap IdleSlots

\* METRICS or SLOT_GET: answered at once, whatever the slots do.
AnswerRead(t) ==
  /\ t \in Reads
  /\ SendResult(t)
  /\ UNCHANGED <<queue, deferred, slot, waiting>>

\* A task that finds its slot idle and ends in the same call: SLOT_SAVE,
\* SLOT_RESTORE and SLOT_ERASE, and the error of a launch that fails.
AnswerAtOnce(t) ==
  /\ t \notin Reads /\ AvailableSlots(t) # {}
  /\ SendResult(t)
  /\ UNCHANGED <<queue, deferred, slot, waiting>>

\* A COMPLETION, INFILL, EMBEDDING or RERANK: launched in an available slot.
Launch(t) ==
  /\ t \notin Reads
  /\ \E s \in AvailableSlots(t) : slot' = [slot EXCEPT ![s] = t]
  /\ UNCHANGED <<queue, deferred, client, waiting>>

\* process_single_task() of a request; one that finds no slot is deferred.
HandleRun(t) ==
  /\ inHand = Run(t)
  /\ \/ AnswerRead(t)
     \/ t \notin Reads /\ AvailableSlots(t) = {} /\ Defer(t)
     \/ Launch(t)
     \/ AnswerAtOnce(t)

\* callback_new_task(task, false)
MainHandle ==
  /\ main = "handle"
  /\ \/ \E t \in Tasks : HandleRun(t) \/ HandleCancel(t)
     \/ /\ inHand = NextResponse
        /\ UNCHANGED <<queue, deferred, slot, client, waiting>>
  /\ inHand' = NoItem
  /\ main' = "process"
  /\ UNCHANGED <<unhandled, workerVars, yieldVars, running, sleepVars>>

\* update_slots() when every slot is idle.
UpdateIdle ==
  /\ main = "update"
  /\ IdleSlots = Slots
  /\ main' = "idle"
  /\ UNCHANGED <<qVars, slot, inHand, workerVars, yieldVars, client, running,
                 sleepVars, waiting>>

UpdateNoNext ==
  /\ main = "update"
  /\ IdleSlots # Slots
  /\ main' \in {"decode", "decoded"}
  /\ UNCHANGED <<qVars, slot, inHand, workerVars, yieldVars, client, running,
                 sleepVars, waiting>>

\* update_slots() with a slot at work: post NEXT_RESPONSE, then pre_decode();
\* nothing is decoded when it fails or leaves the batch empty.
UpdateBusy ==
  /\ main = "update"
  /\ IdleSlots # Slots
  /\ queue' = Append(queue, NextResponse)
  /\ waiting' \in NotifyOne(waiting)
  /\ main' \in {"decode", "decoded"}
  /\ UNCHANGED <<deferred, unhandled, slot, inHand, workerVars, yieldVars, client,
                 running, sleepVars>>

\* yield_to_queue(): set busy and yielding under the mutex ...
YieldStart ==
  /\ main = "decode"
  /\ busy' = TRUE
  /\ yielding' = TRUE
  /\ main' = "notify"
  /\ UNCHANGED <<qVars, slot, inHand, workerVars, wStop, client, running,
                 sleepVars, waiting>>

\* ... worker.cv.notify_one() outside of it, then work().
YieldNotify ==
  /\ main = "notify"
  /\ worker' = IF worker = "parked" THEN "park" ELSE worker
  /\ main' = "work"
  /\ UNCHANGED <<qVars, slot, inHand, wInHand, yieldVars, client, running,
                 sleepVars, waiting>>

PutBackReversed ==
  /\ queue' = Reverse(unhandled) \o queue
  /\ unhandled' = <<>>

\* The declined tasks go back to the front of the queue, in their order.
PutBack ==
  /\ queue' = unhandled \o queue
  /\ unhandled' = <<>>

YieldEndNoWait ==
  /\ main = "work"
  /\ yielding' = FALSE
  /\ PutBack
  /\ main' = "decoded"
  /\ waiting' = {}
  /\ UNCHANGED <<deferred, slot, inHand, workerVars, busy, wStop, client, running,
                 sleepVars>>

\* work() is done: the yield is over, wait until the worker is not busy.
YieldEnd ==
  /\ main = "work"
  /\ yielding' = FALSE
  /\ IF busy
     THEN main' = "join" /\ waiting' = {"main"} /\ UNCHANGED <<queue, unhandled>>
     ELSE main' = "decoded" /\ waiting' = {} /\ PutBack
  /\ UNCHANGED <<deferred, slot, inHand, workerVars, busy, wStop, client, running,
                 sleepVars>>

\* The wait for the worker evaluates its predicate again.
YieldJoin ==
  /\ main = "join" /\ "main" \notin waiting
  /\ IF busy
     THEN waiting' = waiting \cup {"main"} /\ UNCHANGED <<main, queue, unhandled>>
     ELSE main' = "decoded" /\ PutBack /\ UNCHANGED waiting
  /\ UNCHANGED <<deferred, slot, inHand, workerVars, yieldVars, client, running,
                 sleepVars>>

\* A slot reached its end or an error before or after the decode: its final
\* result is sent and the slot released.  post_decode() does so for a stop
\* condition, an embedding and a rerank; an error does so in the context shift
\* (server-context.cpp:2860), in the checks of the prompt (3097-3145), for a
\* multimodal chunk (3429-3433) and, slot by slot, after a failed decode
\* (3642-3650).
FinishSlot(s) ==
  /\ main \in {"decode", "decoded"} /\ slot[s] # NoTask
  /\ SendResult(slot[s])
  /\ Release(s)
  /\ UNCHANGED <<unhandled, main, inHand, workerVars, yieldVars, running, sleepVars>>

\* One update_slots() yields several times: for the prompt of a slot, for each
\* view of the batch, for the sampling.
NextYield ==
  /\ main = "decoded"
  /\ main' = "decode"
  /\ UNCHANGED <<qVars, slot, inHand, workerVars, yieldVars, client, running,
                 sleepVars, waiting>>

\* update_slots() returns.
UpdateDone ==
  /\ main = "decoded"
  /\ main' = "idle"
  /\ UNCHANGED <<qVars, slot, inHand, workerVars, yieldVars, client, running,
                 sleepVars, waiting>>

\* The inner loop of start_loop(): back to the tasks, wait, or sleep.
MainIdle ==
  /\ main = "idle"
  /\ \/ /\ ~running \/ queue # <<>>
        /\ main' = "process"
        /\ UNCHANGED <<sleepVars, waiting>>
     \/ /\ running /\ queue = <<>>
        /\ main' = "wait"
        /\ waiting' = waiting \cup {"main"}
        /\ UNCHANGED sleepVars
     \/ /\ running /\ queue = <<>> /\ naps < MaxNaps
        /\ main' = "asleep"
        /\ sleeping' = TRUE
        /\ wakeReq' = FALSE
        /\ naps' = naps + 1
        /\ waiting' = waiting \cup {"main"}
  /\ UNCHANGED <<qVars, slot, inHand, workerVars, yieldVars, client, running>>

\* wait_for(1 s): the predicate again after a notification, or the timeout.
MainWait ==
  /\ main = "wait"
  /\ \/ /\ "main" \in waiting
        /\ waiting' = waiting \ {"main"}
        /\ main' = "idle"
     \/ /\ "main" \notin waiting
        /\ IF ~running \/ queue # <<>>
           THEN main' = "process" /\ UNCHANGED waiting
           ELSE waiting' = waiting \cup {"main"} /\ UNCHANGED main
  /\ UNCHANGED <<qVars, slot, inHand, workerVars, yieldVars, client, running, sleepVars>>

\* The sleeping main thread evaluates its predicate.
MainAsleep ==
  /\ main = "asleep" /\ "main" \notin waiting
  /\ \/ /\ ~running
        /\ main' = "process"
        /\ UNCHANGED <<sleepVars, waiting>>
     \/ /\ running /\ wakeReq
        /\ sleeping' = FALSE
        /\ wakeReq' = FALSE
        /\ waiting' = {}
        /\ main' = "process"
        /\ UNCHANGED naps
     \/ /\ running /\ ~wakeReq
        /\ waiting' = waiting \cup {"main"}
        /\ UNCHANGED <<main, sleepVars>>
  /\ UNCHANGED <<qVars, slot, inHand, workerVars, yieldVars, client, running>>

\* worker_stop(): set the flag under the mutex ...
StopWorker ==
  /\ main = "stop"
  /\ wStop' = TRUE
  /\ main' = "stopNotify"
  /\ UNCHANGED <<qVars, slot, inHand, workerVars, busy, yielding, client, running,
                 sleepVars, waiting>>

\* ... notify both condition variables outside of it ...
StopNotify ==
  /\ main = "stopNotify"
  /\ worker' = IF worker = "parked" THEN "park" ELSE worker
  /\ waiting' = {}
  /\ main' = "joinWorker"
  /\ UNCHANGED <<qVars, slot, inHand, wInHand, yieldVars, client, running, sleepVars>>

\* ... and join the worker thread.
JoinWorker ==
  /\ main = "joinWorker" /\ worker = "ended"
  /\ main' = "ended"
  /\ UNCHANGED <<qVars, slot, inHand, workerVars, yieldVars, client, running,
                 sleepVars, waiting>>

-----------------------------------------------------------------------------
(* The worker thread: worker_loop().                                       *)

\* worker.cv.wait(): stop, serve the yield, or block.
WorkerPark ==
  /\ worker = "park"
  /\ worker' = IF wStop THEN "ended" ELSE IF busy THEN "process" ELSE "parked"
  /\ UNCHANGED <<qVars, slot, main, inHand, wInHand, yieldVars, client, running,
                 sleepVars, waiting>>

\* process_new_tasks(true), the section under the mutex.
WorkerPop ==
  /\ worker = "process"
  /\ \/ /\ ~running
        /\ worker' = "end"
        /\ UNCHANGED <<queue, wInHand>>
     \/ /\ running /\ queue = <<>>
        /\ worker' = "check"
        /\ UNCHANGED <<queue, wInHand>>
     \/ /\ running /\ queue # <<>>
        /\ wInHand' = Head(queue)
        /\ queue' = Tail(queue)
        /\ worker' = "handle"
  /\ UNCHANGED <<deferred, unhandled, slot, main, inHand, yieldVars, client, running,
                 sleepVars, waiting>>

DeclineToQueue ==
  /\ worker = "handle"
  /\ IF wInHand \in {Run(t) : t \in Reads}
     THEN SendResult(wInHand.id) /\ worker' = "process" /\ UNCHANGED queue
     ELSE queue' = Append(queue, wInHand) /\ worker' = "process" /\ UNCHANGED client
  /\ wInHand' = NoItem
  /\ UNCHANGED <<deferred, unhandled, slot, main, inHand, yieldVars, running, sleepVars,
                 waiting>>

\* callback_new_task(task, true): a read is answered; any other task is declined
\* and, under the mutex again, set aside.
WorkerHandle ==
  /\ worker = "handle"
  /\ IF wInHand \in {Run(t) : t \in Reads}
     THEN SendResult(wInHand.id) /\ UNCHANGED unhandled
     ELSE unhandled' = Append(unhandled, wInHand) /\ UNCHANGED client
  /\ wInHand' = NoItem
  /\ worker' = "process"
  /\ UNCHANGED <<queue, deferred, slot, main, inHand, yieldVars, running, sleepVars, waiting>>

\* The queue was empty: leave, go on, or wait for a task or the yield's end.
WorkerCheck ==
  /\ worker = "check"
  /\ \/ /\ wStop \/ ~yielding
        /\ worker' = "end"
        /\ UNCHANGED waiting
     \/ /\ ~wStop /\ yielding /\ (queue # <<>> \/ ~running)
        /\ worker' = "process"
        /\ UNCHANGED waiting
     \/ /\ ~wStop /\ yielding /\ queue = <<>> /\ running
        /\ worker' = "wait"
        /\ waiting' = waiting \cup {"worker"}
  /\ UNCHANGED <<qVars, slot, main, inHand, wInHand, yieldVars, client, running,
                 sleepVars>>

WorkerWait ==
  /\ worker = "wait" /\ "worker" \notin waiting
  /\ IF wStop \/ ~running \/ ~yielding \/ queue # <<>>
     THEN worker' = "process" /\ UNCHANGED waiting
     ELSE waiting' = waiting \cup {"worker"} /\ UNCHANGED worker
  /\ UNCHANGED <<qVars, slot, main, inHand, wInHand, yieldVars, client, running,
                 sleepVars>>

\* No more tasks will be processed: clear busy under the mutex ...
WorkerEnd ==
  /\ worker = "end"
  /\ busy' = FALSE
  /\ worker' = "signal"
  /\ UNCHANGED <<qVars, slot, main, inHand, wInHand, yielding, wStop, client, running,
                 sleepVars, waiting>>

SignalNobody ==
  /\ worker = "signal"
  /\ worker' = "park"
  /\ UNCHANGED <<qVars, slot, main, inHand, wInHand, yieldVars, client, running,
                 sleepVars, waiting>>

\* ... and condition_tasks.notify_all() outside of it.
WorkerSignal ==
  /\ worker = "signal"
  /\ waiting' = {}
  /\ worker' = "park"
  /\ UNCHANGED <<qVars, slot, main, inHand, wInHand, yieldVars, client, running,
                 sleepVars>>

\* A condition variable may wake a thread without a notification.
SpuriousWakeup ==
  /\ \E w \in waiting : waiting' = waiting \ {w}
  /\ UNCHANGED <<qVars, slot, main, inHand, workerVars, yieldVars, client, running,
                 sleepVars>>

-----------------------------------------------------------------------------
Init ==
  /\ queue = <<>> /\ deferred = <<>> /\ unhandled = <<>>
  /\ slot = [s \in Slots |-> NoTask]
  /\ main = "process" /\ inHand = NoItem
  /\ worker = "park" /\ wInHand = NoItem
  /\ busy = FALSE /\ yielding = FALSE /\ wStop = FALSE
  /\ client = [t \in Tasks |-> "new"]
  /\ running = TRUE
  /\ sleeping = FALSE /\ wakeReq = FALSE
  /\ waiting = {}
  /\ naps = 0

MainStep ==
  \/ MainPop \/ MainHandle \/ UpdateIdle \/ UpdateBusy
  \/ YieldStart \/ YieldNotify \/ YieldEnd \/ YieldJoin
  \/ (\E s \in Slots : FinishSlot(s)) \/ NextYield \/ UpdateDone
  \/ MainIdle \/ MainWait \/ MainAsleep
  \/ StopWorker \/ StopNotify \/ JoinWorker

WorkerStep ==
  \/ WorkerPark \/ WorkerPop \/ WorkerHandle
  \/ WorkerCheck \/ WorkerWait \/ WorkerEnd \/ WorkerSignal

ClientStep(t) == Arrive(t) \/ Rewait(t) \/ Post(t) \/ PostCancel(t)

Next ==
  \/ MainStep \/ WorkerStep \/ Terminate \/ SpuriousWakeup
  \/ \E t \in Tasks : ClientStep(t)

Spec == Init /\ [][Next]_vars

\* Every thread is scheduled; a batch has finitely many views, and a generation
\* ends (n_predict bounds it).
Fairness ==
  /\ WF_vars(MainStep)
  /\ SF_vars(UpdateDone)
  /\ WF_vars(WorkerStep)
  /\ \A t \in Tasks : WF_vars(Rewait(t) \/ Post(t))
  /\ \A s \in Slots : SF_vars(FinishSlot(s))

FairSpec == Spec /\ Fairness

-----------------------------------------------------------------------------
(* Properties.                                                             *)

MainStates == {"process", "handle", "update", "decode", "notify", "work", "join", "decoded",
               "idle", "wait", "asleep", "stop", "stopNotify", "joinWorker", "ended"}
WorkerStates == {"park", "parked", "process", "handle", "check", "wait", "end",
                 "signal", "ended"}

\* Type invariant: queues of tasks, a task or nothing in each slot, the threads
\* that can block on condition_tasks.
TypeOK ==
  /\ queue \in Seq(Items) /\ unhandled \in Seq(Items)
  /\ deferred \in Seq({Run(t) : t \in Tasks})
  /\ slot \in [Slots -> Tasks \cup {NoTask}]
  /\ main \in MainStates /\ inHand \in Items \cup {NoItem}
  /\ worker \in WorkerStates /\ wInHand \in Items \cup {NoItem}
  /\ busy \in BOOLEAN /\ yielding \in BOOLEAN /\ wStop \in BOOLEAN
  /\ client \in [Tasks -> {"new", "nosleep", "ready", "posted", "answered", "gone"}]
  /\ running \in BOOLEAN /\ sleeping \in BOOLEAN /\ wakeReq \in BOOLEAN
  /\ waiting \subseteq {"main", "worker"} \cup Tasks
  /\ naps \in 0..MaxNaps

Holding(item) == IF item = NoItem THEN <<>> ELSE <<item>>

\* Everywhere a request can be between post() and its final result.
Places(t) ==
  [queued    |-> {i \in DOMAIN queue : queue[i] = Run(t)},
   deferred  |-> {i \in DOMAIN deferred : deferred[i] = Run(t)},
   unhandled |-> {i \in DOMAIN unhandled : unhandled[i] = Run(t)},
   inHand    |-> {w \in {"main"} : inHand = Run(t)} \cup {w \in {"worker"} : wInHand = Run(t)},
   slots     |-> {s \in Slots : slot[s] = t}]

PlaceCount(t) ==
  LET p == Places(t)
  IN  Cardinality(p.queued) + Cardinality(p.deferred) + Cardinality(p.unhandled)
        + Cardinality(p.inHand) + Cardinality(p.slots)

\* A request whose client still waits is in exactly one place until its final
\* result is sent, and in none after that; a cancelled one is never in two.  No
\* hand-over between post(), the two process_new_tasks() loops, defer(),
\* pop_deferred_task(), the slots and the put-back at the end of a yield loses
\* or doubles a task (server-queue.cpp:26-161, 253-257).
PlacedOnce ==
  \A t \in Tasks :
     PlaceCount(t) \in CASE client[t] = "posted" -> {1}
                         [] client[t] = "gone" -> {0, 1}
                         [] OTHER -> {0}

\* Outside of yield_to_queue() the worker holds no task and no declined task is
\* left over, so the slots are never changed by two threads and no task is
\* forgotten when the yield returns (server-queue.cpp:243-257).
YieldExclusive ==
  main \notin {"notify", "work", "join"} =>
     /\ ~busy /\ ~yielding
     /\ worker \in {"park", "parked", "signal", "ended"}
     /\ wInHand = NoItem /\ unhandled = <<>>

\* The main loop neither waits for tasks nor unloads the model while a slot is
\* at work or a task is in hand: NEXT_RESPONSE, posted before the decode and
\* declined during it, is back in the queue when the main thread looks for a
\* reason not to (server-queue.cpp:322-358, server-context.cpp:2755-2761).
NoSleepWhileBusy ==
  main \in {"wait", "asleep"} \/ sleeping
    => IdleSlots = Slots /\ inHand = NoItem /\ wInHand = NoItem

\* The clients inside wait_until_no_sleep().
Wakers == {t \in Tasks : client[t] = "nosleep"}

\* A sleeping main thread has not been asked to wake; or the request may have
\* gone to a client of an earlier nap instead.
MaySleepOn == wakeReq => naps > 1 /\ \E t, u \in Wakers : t # u

\* Which notifications reach their thread, although posting, the end of a yield,
\* the request to wake and the stop each notify one of two condition variables
\* that threads with different predicates wait on.  A thread is blocked only
\* while its predicate is false or the one that made it true has yet to notify
\* (worker_loop() on worker.cv and condition_tasks, yield_to_queue(),
\* start_loop(), wait_until_no_sleep(); server-queue.cpp:112, 126, 168, 195,
\* 205, 217, 233, 249, 336, 354), with one exception: from the second nap on, and
\* with two clients in wait_until_no_sleep(), the main thread may sleep on
\* although it was asked to wake (server-queue.cpp:123).
NoLostWakeup ==
  /\ "main" \in waiting =>
        \/ main = "wait" /\ running /\ queue = <<>>
        \/ main = "join" /\ (busy \/ worker = "signal")
        \/ main = "asleep" /\ running /\ MaySleepOn
  /\ "worker" \in waiting =>
        worker = "wait" /\ ~wStop /\ running /\ yielding /\ queue = <<>>
  /\ worker = "parked" => /\ wStop => main = "stopNotify"
                          /\ busy => main = "notify"
  /\ \A t \in waiting \cap Tasks : sleeping /\ client[t] = "nosleep"

\* The order in which the main thread will see what is pending.
Pending == unhandled \o Holding(wInHand) \o queue

Before(q, a, b) == \E i, j \in DOMAIN q : i < j /\ q[i] = a /\ q[j] = b

\* No step changes the order of two pending tasks: in particular the worker's
\* declining and the put-back do not ("put the declined tasks back, keeping
\* their order", server-queue.cpp:253).
OrderKept ==
  [][\A a, b \in ToSet(Pending) \cap ToSet(Pending') :
        Before(Pending, a, b) => ~Before(Pending', b, a)]_vars

\* After terminate() the main loop ends and the worker thread is joined, from
\* any state: processing, yielding, waiting or asleep.
StopsWhenTold == ~running ~> (main = "ended" /\ worker = "ended")

\* A pending task of a server that is awake is taken out of the queue: no
\* notification is lost between post(), the worker and the main thread.
QueuedIsHandled ==
  \A t \in Tasks :
     (Run(t) \in ToSet(Pending) /\ ~sleeping) ~> (Run(t) \notin ToSet(Pending) \/ ~running)

\* What the comment on defer() says ("Add a new task, but defer until one slot
\* is available", server-queue.h:58): a deferred request does not stay deferred
\* while every slot is idle.
DeferredUntilSlotAvailable ==
  \A t \in Tasks :
     (Run(t) \in ToSet(deferred) /\ IdleSlots = Slots)
        ~> (Run(t) \notin ToSet(deferred) \/ IdleSlots # Slots \/ ~running)

\* What the comment in post() says ("if this is cancel task make sure to clean
\* up pending tasks", server-queue.cpp:31): once the cancel task of a request
\* has been handled the request is neither pending nor running.
CancelledIsCleanedUp ==
  \A t \in Tasks :
     (client[t] = "gone" /\ inHand # Cancel(t)
        /\ Cancel(t) \notin ToSet(Pending)) => PlaceCount(t) = 0
=============================================================================
