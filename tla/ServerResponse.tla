--------------------------- MODULE ServerResponse ---------------------------
(***************************************************************************)
(* server_response and server_response_reader of the native runtime        *)
(* (tools/server/server-queue.cpp): how the results of the tasks reach the *)
(* HTTP thread that posted them.                                           *)
(*                                                                         *)
(* A reader registers the ids of its tasks, posts them in one call and     *)
(* receives results until each task sent its final one, one sent an error, *)
(* or the client left; then it stops and cancels what is left.  One action *)
(* is one section under mutex_results, or one under the mutex of the task  *)
(* queue.  The task queue is module ServerQueue; here a task is queued     *)
(* (pending or deferred), taken (in process_single_task), running in a     *)
(* slot, or ended.                                                         *)
(*                                                                         *)
(* The vector queue_results is a set of entries numbered in the order of   *)
(* their arrival: "first in the vector" is "smallest number".              *)
(***************************************************************************)
EXTENDS Naturals

CONSTANTS
  Readers,      \* one reader per request
  Tasks,        \* the tasks of all readers
  Owner,        \* the reader that posted each task
  MaxPartial    \* bound on the partial results of each task

ASSUME ServerResponseAssumption ==
  /\ Owner \in [Tasks -> Readers]
  /\ MaxPartial \in [Tasks -> Nat]

VARIABLES
  reader,       \* where each reader's thread is
  toClean,      \* stop(): the ids not yet passed to remove_waiting_task_id()
  received,     \* the tasks whose final result next() returned
  waitingIds,   \* waiting_task_ids
  results,      \* queue_results
  arrivals,     \* entries ever pushed to queue_results
  task,         \* where each task is
  cancels,      \* the targets of the CANCEL tasks in the task queue
  partials      \* partial results sent for each task

readerVars == <<reader, toClean, received>>
resultVars == <<waitingIds, results, arrivals>>
taskVars   == <<task, cancels, partials>>
vars == <<readerVars, resultVars, taskVars>>

Own(r) == {t \in Tasks : Owner[t] = r}

ResultsOf(T) == {e \in results : e.id \in T}

\* has_next() of a reader that was not cancelled.  received_count counts what is
\* a set here; FinalIsLast shows that no task is counted twice.
HasNext(r) == ~(Own(r) \subseteq received)

-----------------------------------------------------------------------------
(* The HTTP thread: server_response_reader.                                *)

RegisterFirst(r) ==
  /\ reader[r] = "new"
  /\ \E t \in Own(r) : waitingIds' = waitingIds \cup {t}
  /\ reader' = [reader EXCEPT ![r] = "registered"]
  /\ UNCHANGED <<toClean, received, results, arrivals, taskVars>>

\* post_tasks(): add_waiting_task_ids() ...
Register(r) ==
  /\ reader[r] = "new"
  /\ waitingIds' = waitingIds \cup Own(r)
  /\ reader' = [reader EXCEPT ![r] = "registered"]
  /\ UNCHANGED <<toClean, received, results, arrivals, taskVars>>

\* ... and queue_tasks.post() of all of them.
PostTasks(r) ==
  /\ reader[r] = "registered"
  /\ task' = [t \in Tasks |-> IF Owner[t] = r THEN "queued" ELSE task[t]]
  /\ reader' = [reader EXCEPT ![r] = "idle"]
  /\ UNCHANGED <<toClean, received, resultVars, cancels, partials>>

IsLast(e, r) == e \in ResultsOf(Own(r)) /\ \A f \in ResultsOf(Own(r)) : f.nr <= e.nr

\* The first entry of the vector that belongs to reader r.
IsFirst(e, r) == e \in ResultsOf(Own(r)) /\ \A f \in ResultsOf(Own(r)) : e.nr <= f.nr

ReadOn(kind) == "idle"

\* next() stops the reader when the result is an error.
AfterResult(kind) == IF kind = "error" THEN "stop" ELSE "idle"

\* next() up to the wait of recv_with_timeout(): take the first own result
\* or block.
Receive(r) ==
  /\ reader[r] \in {"idle", "woken"} /\ HasNext(r)
  /\ \/ \E e \in results :
          /\ IsFirst(e, r)
          /\ results' = results \ {e}
          /\ received' = IF e.kind = "final" THEN received \cup {e.id} ELSE received
          /\ reader' = [reader EXCEPT ![r] = AfterResult(e.kind)]
     \/ /\ ResultsOf(Own(r)) = {}
        /\ reader' = [reader EXCEPT ![r] = "blocked"]
        /\ UNCHANGED <<received, results>>
  /\ UNCHANGED <<toClean, waitingIds, arrivals, taskVars>>

\* wait_for() times out: next() asks should_stop() and waits again or returns.
\* A notification, or a spurious wakeup, only makes it look again.
Unblock(r) ==
  /\ reader[r] = "blocked"
  /\ reader' \in {[reader EXCEPT ![r] = "woken"], [reader EXCEPT ![r] = "stop"]}
  /\ UNCHANGED <<toClean, received, resultVars, taskVars>>

\* Between two calls of next(): every final result is there, or the client has
\* left and the reader is destroyed.
Leave(r) ==
  /\ reader[r] = "idle"
  /\ reader' = [reader EXCEPT ![r] = "stop"]
  /\ UNCHANGED <<toClean, received, resultVars, taskVars>>

\* remove_waiting_task_ids(T): the results already stored stay.
RemoveWaitingTaskIds(T) == waitingIds' = waitingIds \ T

\* stop(): remove_waiting_task_ids(); without a result to come that is all.  A
\* second stop(), by the destructor, finds the reader cancelled and does nothing.
Stop(r) ==
  /\ reader[r] = "stop"
  /\ RemoveWaitingTaskIds(Own(r))
  /\ IF HasNext(r)
     THEN reader' = [reader EXCEPT ![r] = "clean"] /\ toClean' = [toClean EXCEPT ![r] = Own(r)]
     ELSE reader' = [reader EXCEPT ![r] = "done"] /\ UNCHANGED toClean
  /\ UNCHANGED <<received, results, arrivals, taskVars>>

ForgetId(t) ==
  /\ waitingIds' = waitingIds \ {t}
  /\ UNCHANGED results

\* remove_waiting_task_id(t)
RemoveWaitingTaskId(t) ==
  /\ waitingIds' = waitingIds \ {t}
  /\ results' = results \ ResultsOf({t})

\* One turn of the loop in stop().
Clean(r) ==
  /\ reader[r] = "clean"
  /\ \E t \in toClean[r] :
       /\ RemoveWaitingTaskId(t)
       /\ toClean' = [toClean EXCEPT ![r] = @ \ {t}]
  /\ UNCHANGED <<reader, received, arrivals, taskVars>>

PostCancelInLoop(r) ==
  /\ reader[r] = "clean"
  /\ task' = [t \in Tasks |->
                IF Owner[t] = r /\ task[t] = "queued" THEN "ended" ELSE task[t]]
  /\ cancels' = cancels \cup Own(r)
  /\ reader' = [reader EXCEPT ![r] = "done"]
  /\ UNCHANGED <<toClean, received, resultVars, partials>>

\* queue_tasks.post(cancel_tasks): what is still queued is removed.
PostCancel(r) ==
  /\ reader[r] = "clean" /\ toClean[r] = {}
  /\ task' = [t \in Tasks |->
                IF Owner[t] = r /\ task[t] = "queued" THEN "ended" ELSE task[t]]
  /\ cancels' = cancels \cup Own(r)
  /\ reader' = [reader EXCEPT ![r] = "done"]
  /\ UNCHANGED <<toClean, received, resultVars, partials>>

-----------------------------------------------------------------------------
(* The server: what process_single_task() and update_slots() send.         *)

\* Nothing is in the hands of process_single_task().
NoneTaken == \A t \in Tasks : task[t] # "taken"

Entry(t, kind) == [id |-> t, kind |-> kind, nr |-> arrivals]

SendSilently(t, kind) ==
  /\ IF t \in waitingIds
     THEN results' = results \cup {Entry(t, kind)} /\ arrivals' = arrivals + 1
     ELSE UNCHANGED <<results, arrivals>>
  /\ UNCHANGED <<readerVars, waitingIds>>

\* server_response::send(): a result nobody waits for is dropped; otherwise
\* every blocked reader is notified.
Send(t, kind) ==
  /\ IF t \in waitingIds
     THEN /\ results' = results \cup {Entry(t, kind)}
          /\ arrivals' = arrivals + 1
          /\ reader' = [r \in Readers |->
                          IF reader[r] = "blocked" THEN "woken" ELSE reader[r]]
     ELSE UNCHANGED <<results, arrivals, reader>>
  /\ UNCHANGED <<toClean, received, waitingIds>>

\* process_new_tasks() pops t.
Take(t) ==
  /\ task[t] = "queued" /\ NoneTaken
  /\ task' = [task EXCEPT ![t] = "taken"]
  /\ UNCHANGED <<readerVars, resultVars, cancels, partials>>

\* process_single_task(t): it is launched in a slot, or deferred.
LaunchOrDefer(t) ==
  /\ task[t] = "taken"
  /\ task' \in {[task EXCEPT ![t] = "running"], [task EXCEPT ![t] = "queued"]}
  /\ UNCHANGED <<readerVars, resultVars, cancels, partials>>

\* send_partial_response() while t runs in its slot.
SendPartial(t) ==
  /\ task[t] = "running" /\ NoneTaken
  /\ partials[t] < MaxPartial[t]
  /\ partials' = [partials EXCEPT ![t] = @ + 1]
  /\ Send(t, "partial")
  /\ UNCHANGED <<task, cancels>>

\* The final result or an error, when t is taken (it is answered at once, or the
\* launch fails) or running (the slot is released).
SendLast(t) ==
  /\ task[t] \in {"taken", "running"}
  /\ (task[t] = "running" => NoneTaken)
  /\ task' = [task EXCEPT ![t] = "ended"]
  /\ \E kind \in {"final", "error"} : Send(t, kind)
  /\ UNCHANGED <<cancels, partials>>

\* The CANCEL task of t: a slot that runs t is released without a result.
HandleCancel(t) ==
  /\ t \in cancels /\ NoneTaken
  /\ cancels' = cancels \ {t}
  /\ task' = IF task[t] = "running" THEN [task EXCEPT ![t] = "ended"] ELSE task
  /\ UNCHANGED <<readerVars, resultVars, partials>>

-----------------------------------------------------------------------------
Init ==
  /\ reader = [r \in Readers |-> "new"]
  /\ toClean = [r \in Readers |-> {}]
  /\ received = {}
  /\ waitingIds = {} /\ results = {} /\ arrivals = 0
  /\ task = [t \in Tasks |-> "unposted"]
  /\ cancels = {}
  /\ partials = [t \in Tasks |-> 0]

\* What a reader's thread does by itself: neither the timeout nor the client's
\* leaving is among it.
ReaderStep(r) ==
  \/ Receive(r) \/ Stop(r) \/ Clean(r) \/ PostCancel(r)
  \/ (~HasNext(r) /\ Leave(r))

Next ==
  \/ \E r \in Readers : Register(r) \/ PostTasks(r) \/ ReaderStep(r) \/ Unblock(r) \/ Leave(r)
  \/ \E t \in Tasks :
       \/ Take(t) \/ LaunchOrDefer(t) \/ SendPartial(t) \/ SendLast(t) \/ HandleCancel(t)

Spec == Init /\ [][Next]_vars

\* The thread of every request is scheduled.
FairSpec == Spec /\ \A r \in Readers : WF_vars(ReaderStep(r))

-----------------------------------------------------------------------------
(* Properties.                                                             *)

ReaderStates == {"new", "registered", "idle", "woken", "blocked", "stop", "clean", "done"}
TaskStates   == {"unposted", "queued", "taken", "running", "ended"}
Kinds        == {"partial", "final", "error"}

\* Type invariant: queue_results holds numbered results of tasks, no two entries
\* have the same place, and a reader has ids left to clean only inside the loop of
\* stop() (server-queue.cpp:602-617).
TypeOK ==
  /\ reader \in [Readers -> ReaderStates]
  /\ toClean \in [Readers -> SUBSET Tasks]
  /\ \A r \in Readers : reader[r] # "clean" => toClean[r] = {}
  /\ received \subseteq Tasks /\ waitingIds \subseteq Tasks /\ cancels \subseteq Tasks
  /\ arrivals \in Nat
  /\ results \subseteq [id : Tasks, kind : Kinds, nr : 0 .. (arrivals - 1)]
  /\ \A e, f \in results : e.nr = f.nr => e = f
  /\ task \in [Tasks -> TaskStates]
  /\ partials \in [Tasks -> Nat]

Reading(r) == reader[r] \in {"idle", "woken", "blocked"}

\* Once a reader is done no result of its tasks is kept and none will be: stop()
\* removes the ids before it erases results, so a result sent meanwhile is
\* dropped (server-queue.cpp:405-425, 602-617).
NoLeakedResult ==
  \A r \in Readers : reader[r] = "done" =>
     ResultsOf(Own(r)) = {} /\ Own(r) \cap waitingIds = {}

\* A reader never waits for a result that cannot come any more: each task it has
\* no final result of is still with the server, or its final result or error is
\* in queue_results (server-queue.cpp:480-493, 515-543).
NoWaitForNothing ==
  \A t \in Tasks : (Reading(Owner[t]) /\ t \notin received) =>
     \/ task[t] \in {"queued", "taken", "running"}
     \/ \E e \in results : e.id = t /\ e.kind # "partial"

\* A blocked reader has nothing to take: the scan of recv_with_timeout() and its
\* wait are one section under the mutex and send() notifies all, so no wakeup is
\* lost (server-queue.cpp:450-473, 480-493).
BlockedHasNothing ==
  \A r \in Readers : reader[r] = "blocked" => ResultsOf(Own(r)) = {}

\* Nothing of a task comes after its final result or error, neither in
\* queue_results nor after next() returned the final result ("duplicate result
\* received", server-queue.cpp:596).
FinalIsLast ==
  /\ \A e, f \in results : (e.id = f.id /\ e.kind # "partial") => f.nr <= e.nr
  /\ \A e \in results : e.id \notin received

\* A reader whose tasks have all ended, or that has an error to read, comes to
\* its end without waiting for a timeout.
AnsweredReaderEnds ==
  \A r \in Readers :
     (Reading(r) /\ (\/ \A t \in Own(r) : task[t] = "ended"
                     \/ \E e \in ResultsOf(Own(r)) : e.kind = "error"))
        ~> reader[r] = "done"
=============================================================================
