------------------------ MODULE ServerResponseProofs ------------------------
(***************************************************************************)
(* The safety invariants of ServerResponse for any number of readers and   *)
(* tasks.  The inductive invariant adds to the checked invariants where a  *)
(* reader stands when its ids are registered, when it may have results and *)
(* when its tasks can be cancelled.                                        *)
(***************************************************************************)
EXTENDS ServerResponse, TLAPS

Registered(r) == reader[r] \in {"registered", "idle", "woken", "blocked", "stop"}

\* The ids of a reader are registered from add_waiting_task_ids() to stop().
IdsRegistered == \A t \in Tasks : t \in waitingIds <=> Registered(Owner[t])

\* Tasks are posted after their ids were registered.
PostedLater ==
  \A t \in Tasks : reader[Owner[t]] \in {"new", "registered"} <=> task[t] = "unposted"

\* A kept result belongs to a reader that will still read or erase it, and the
\* last result of a task is sent when the task ends.
ResultsKept ==
  \A e \in results :
     /\ \/ reader[Owner[e.id]] \in {"idle", "woken", "blocked", "stop"}
        \/ reader[Owner[e.id]] = "clean" /\ e.id \in toClean[Owner[e.id]]
     /\ e.kind # "partial" => task[e.id] = "ended"

ReceivedEnded == \A t \in received : task[t] = "ended"

CleansOwn == \A r \in Readers : toClean[r] \subseteq Own(r)

\* Only the tasks of a reader that is done are cancelled.
CancelledDone == \A t \in cancels : reader[Owner[t]] = "done"

IInv ==
  /\ TypeOK /\ NoLeakedResult /\ NoWaitForNothing /\ BlockedHasNothing /\ FinalIsLast
  /\ IdsRegistered /\ PostedLater /\ ResultsKept /\ ReceivedEnded /\ CleansOwn
  /\ CancelledDone

USE ServerResponseAssumption

-----------------------------------------------------------------------------
\* The initial states satisfy the inductive invariant.
LEMMA InitIInv == Init => IInv
  <1> SUFFICES ASSUME Init PROVE IInv  OBVIOUS
  <1>1. TypeOK  BY DEF Init, TypeOK, ReaderStates, TaskStates
  <1>2. NoLeakedResult /\ NoWaitForNothing /\ BlockedHasNothing /\ FinalIsLast
    BY DEF Init, NoLeakedResult, NoWaitForNothing, BlockedHasNothing, FinalIsLast,
           Reading, ResultsOf, Own
  <1>3. IdsRegistered /\ PostedLater /\ ResultsKept /\ ReceivedEnded /\ CleansOwn
          /\ CancelledDone
    BY DEF Init, IdsRegistered, PostedLater, ResultsKept, ReceivedEnded, CleansOwn,
           CancelledDone, Registered
  <1> QED  BY <1>1, <1>2, <1>3 DEF IInv

-----------------------------------------------------------------------------
\* post_tasks() registers the ids (add_waiting_task_ids).
LEMMA RegisterStep == \A r \in Readers : IInv /\ Register(r) => IInv'
  <1> SUFFICES ASSUME NEW r \in Readers, IInv, Register(r) PROVE IInv'  OBVIOUS
  <1> USE DEF IInv, Register, readerVars, resultVars, taskVars
  <1>1. TypeOK'  BY DEF TypeOK, ReaderStates, Own
  <1>2. NoLeakedResult' /\ BlockedHasNothing'
    BY DEF TypeOK, NoLeakedResult, BlockedHasNothing, ResultsOf, Own, ReaderStates
  <1>3. NoWaitForNothing'  BY DEF TypeOK, NoWaitForNothing, Reading
  <1>4. FinalIsLast'  BY DEF FinalIsLast
  <1>5. IdsRegistered'  BY DEF TypeOK, IdsRegistered, Registered, Own
  <1>6. PostedLater'  BY DEF TypeOK, PostedLater
  <1>7. ResultsKept'  BY DEF TypeOK, ResultsKept
  <1>8. ReceivedEnded' /\ CleansOwn'  BY DEF ReceivedEnded, CleansOwn, Own
  <1>9. CancelledDone'  BY DEF TypeOK, CancelledDone
  <1> QED  BY <1>1, <1>2, <1>3, <1>4, <1>5, <1>6, <1>7, <1>8, <1>9

\* post_tasks() posts them.
LEMMA PostTasksStep == \A r \in Readers : IInv /\ PostTasks(r) => IInv'
  <1> SUFFICES ASSUME NEW r \in Readers, IInv, PostTasks(r) PROVE IInv'  OBVIOUS
  <1> USE DEF IInv, PostTasks, readerVars, resultVars, taskVars
  <1>1. TypeOK'  BY DEF TypeOK, ReaderStates, TaskStates
  <1>2. NoLeakedResult' /\ BlockedHasNothing'
    BY DEF TypeOK, NoLeakedResult, BlockedHasNothing, ResultsOf, Own, ReaderStates
  <1>3. NoWaitForNothing'  BY DEF TypeOK, NoWaitForNothing, Reading
  <1>4. FinalIsLast'  BY DEF FinalIsLast
  <1>5. IdsRegistered'  BY DEF TypeOK, IdsRegistered, Registered
  <1>6. PostedLater'  BY DEF TypeOK, PostedLater
  <1>7. ResultsKept'  BY DEF TypeOK, ResultsKept
  <1>8. ReceivedEnded'  BY DEF TypeOK, ReceivedEnded, PostedLater
  <1>9. CleansOwn' /\ CancelledDone'  BY DEF TypeOK, CleansOwn, CancelledDone, Own
  <1> QED  BY <1>1, <1>2, <1>3, <1>4, <1>5, <1>6, <1>7, <1>8, <1>9

\* next() takes the first own result: only its reader loses something, and a
\* reader that took its last result does not wait for that task any more.
LEMMA ReceiveStep == \A r \in Readers : IInv /\ Receive(r) => IInv'
  <1> SUFFICES ASSUME NEW r \in Readers, IInv, Receive(r) PROVE IInv'  OBVIOUS
  <1> USE DEF IInv, readerVars, resultVars, taskVars
  <1>1. CASE \E e \in results :
               /\ IsFirst(e, r)
               /\ results' = results \ {e}
               /\ received' = IF e.kind = "final" THEN received \cup {e.id} ELSE received
               /\ reader' = [reader EXCEPT ![r] = AfterResult(e.kind)]
    <2> PICK e \in results :
               /\ IsFirst(e, r)
               /\ results' = results \ {e}
               /\ received' = IF e.kind = "final" THEN received \cup {e.id} ELSE received
               /\ reader' = [reader EXCEPT ![r] = AfterResult(e.kind)]
      BY <1>1
    <2>0. /\ e.id \in Tasks /\ Owner[e.id] = r /\ e.kind \in Kinds
          /\ \A f \in results : f.id = e.id => e.nr <= f.nr
          /\ reader[r] \in {"idle", "woken"} /\ AfterResult(e.kind) \in {"idle", "stop"}
          /\ e.kind = "error" => AfterResult(e.kind) = "stop"
          /\ UNCHANGED <<toClean, waitingIds, arrivals, task, cancels, partials>>
      BY DEF Receive, IsFirst, ResultsOf, Own, TypeOK, AfterResult
    <2>1. TypeOK'  BY <2>0 DEF TypeOK, ReaderStates
    <2>2. NoLeakedResult' /\ BlockedHasNothing'
      BY <2>0 DEF TypeOK, NoLeakedResult, BlockedHasNothing, ResultsOf, Own
    <2>3. NoWaitForNothing'
      BY <2>0 DEF TypeOK, NoWaitForNothing, Reading, Kinds
    <2>4. FinalIsLast'
      <3>1. ASSUME NEW f \in results, f # e, e.kind = "final" PROVE f.id # e.id
        <4>1. f.id = e.id => f.nr <= e.nr /\ e.nr <= f.nr
          BY <3>1, <2>0 DEF FinalIsLast
        <4>2. f.nr = e.nr => f = e  BY DEF TypeOK
        <4>3. f.nr \in Nat /\ e.nr \in Nat  BY DEF TypeOK
        <4> QED  BY <4>1, <4>2, <4>3, <3>1
      <3> QED  BY <3>1 DEF FinalIsLast
    <2>5. IdsRegistered'  BY <2>0 DEF TypeOK, IdsRegistered, Registered
    <2>6. PostedLater'  BY <2>0 DEF TypeOK, PostedLater
    <2>7. ResultsKept'  BY <2>0 DEF TypeOK, ResultsKept
    <2>8. ReceivedEnded'  BY <2>0 DEF TypeOK, ReceivedEnded, ResultsKept
    <2>9. CleansOwn' /\ CancelledDone'  BY <2>0 DEF TypeOK, CleansOwn, CancelledDone, Own
    <2> QED  BY <2>1, <2>2, <2>3, <2>4, <2>5, <2>6, <2>7, <2>8, <2>9
  <1>2. CASE /\ ResultsOf(Own(r)) = {}
             /\ reader' = [reader EXCEPT ![r] = "blocked"]
             /\ UNCHANGED <<received, results>>
    <2>0. /\ reader[r] \in {"idle", "woken"}
          /\ UNCHANGED <<toClean, waitingIds, arrivals, task, cancels, partials>>
      BY DEF Receive
    <2>1. TypeOK'  BY <1>2, <2>0 DEF TypeOK, ReaderStates
    <2>2. NoLeakedResult' /\ BlockedHasNothing'
      BY <1>2, <2>0 DEF TypeOK, NoLeakedResult, BlockedHasNothing, ResultsOf, Own
    <2>3. NoWaitForNothing'  BY <1>2, <2>0 DEF TypeOK, NoWaitForNothing, Reading
    <2>4. FinalIsLast' /\ ReceivedEnded' /\ CleansOwn'
      BY <1>2, <2>0 DEF FinalIsLast, ReceivedEnded, CleansOwn, Own
    <2>5. IdsRegistered' /\ PostedLater'
      BY <1>2, <2>0 DEF TypeOK, IdsRegistered, Registered, PostedLater
    <2>6. ResultsKept' /\ CancelledDone'
      BY <1>2, <2>0 DEF TypeOK, ResultsKept, CancelledDone
    <2> QED  BY <2>1, <2>2, <2>3, <2>4, <2>5, <2>6
  <1> QED  BY <1>1, <1>2 DEF Receive

\* A timeout, a wakeup or the end of the reading moves one reader between
\* states in which its ids are registered.
LEMMA MoveStep ==
  \A r \in Readers : IInv /\ (Unblock(r) \/ Leave(r)) => IInv'
  <1> SUFFICES ASSUME NEW r \in Readers, IInv, Unblock(r) \/ Leave(r) PROVE IInv'  OBVIOUS
  <1> USE DEF IInv
  <1>0. PICK s \in {"woken", "stop"} :
          /\ reader[r] \in {"blocked", "idle"} /\ reader' = [reader EXCEPT ![r] = s]
          /\ UNCHANGED <<toClean, received, waitingIds, results, arrivals>>
          /\ UNCHANGED <<task, cancels, partials>>
    BY DEF Unblock, Leave, resultVars, taskVars
  <1>1. TypeOK'  BY <1>0 DEF TypeOK, ReaderStates
  <1>2. NoLeakedResult' /\ BlockedHasNothing'
    BY <1>0 DEF TypeOK, NoLeakedResult, BlockedHasNothing, ResultsOf, Own
  <1>3. NoWaitForNothing'  BY <1>0 DEF TypeOK, NoWaitForNothing, Reading
  <1>4. FinalIsLast' /\ ReceivedEnded' /\ CleansOwn'
    BY <1>0 DEF FinalIsLast, ReceivedEnded, CleansOwn, Own
  <1>5. IdsRegistered' /\ PostedLater'
    BY <1>0 DEF TypeOK, IdsRegistered, Registered, PostedLater
  <1>6. ResultsKept' /\ CancelledDone'  BY <1>0 DEF TypeOK, ResultsKept, CancelledDone
  <1> QED  BY <1>1, <1>2, <1>3, <1>4, <1>5, <1>6

\* stop() withdraws the ids; a reader that has every final result has none left
\* to erase.
LEMMA StopStep == \A r \in Readers : IInv /\ Stop(r) => IInv'
  <1> SUFFICES ASSUME NEW r \in Readers, IInv, Stop(r) PROVE IInv'  OBVIOUS
  <1> USE DEF IInv, Stop, RemoveWaitingTaskIds, taskVars
  <1>1. TypeOK'  BY DEF TypeOK, ReaderStates, Own
  <1>2. NoLeakedResult'
    BY DEF TypeOK, NoLeakedResult, ResultsOf, Own, HasNext, FinalIsLast
  <1>3. BlockedHasNothing' /\ NoWaitForNothing'
    BY DEF TypeOK, BlockedHasNothing, ResultsOf, Own, NoWaitForNothing, Reading
  <1>4. FinalIsLast' /\ ReceivedEnded'  BY DEF FinalIsLast, ReceivedEnded
  <1>5. IdsRegistered' /\ PostedLater'
    BY DEF TypeOK, IdsRegistered, Registered, PostedLater, Own
  <1>6. ResultsKept'
    BY DEF TypeOK, ResultsKept, Own, HasNext, FinalIsLast
  <1>7. CleansOwn' /\ CancelledDone'  BY DEF TypeOK, CleansOwn, CancelledDone, Own
  <1> QED  BY <1>1, <1>2, <1>3, <1>4, <1>5, <1>6, <1>7

\* remove_waiting_task_id() erases the results of one task of its reader.
LEMMA CleanStep == \A r \in Readers : IInv /\ Clean(r) => IInv'
  <1> SUFFICES ASSUME NEW r \in Readers, IInv, Clean(r) PROVE IInv'  OBVIOUS
  <1> USE DEF IInv, taskVars
  <1> PICK t \in toClean[r] :
        /\ RemoveWaitingTaskId(t)
        /\ toClean' = [toClean EXCEPT ![r] = @ \ {t}]
    BY DEF Clean
  <1>0. /\ t \in Tasks /\ Owner[t] = r /\ reader[r] = "clean"
        /\ waitingIds' = waitingIds \ {t}
        /\ results' = {e \in results : e.id # t}
        /\ UNCHANGED <<reader, received, arrivals, task, cancels, partials>>
    BY DEF Clean, RemoveWaitingTaskId, ResultsOf, CleansOwn, Own, TypeOK
  <1>1. TypeOK'  BY <1>0 DEF TypeOK
  <1>2. NoLeakedResult' /\ BlockedHasNothing'
    BY <1>0 DEF NoLeakedResult, BlockedHasNothing, ResultsOf, Own
  <1>3. NoWaitForNothing'  BY <1>0 DEF TypeOK, NoWaitForNothing, Reading
  <1>4. FinalIsLast' /\ ReceivedEnded'  BY <1>0 DEF FinalIsLast, ReceivedEnded
  <1>5. IdsRegistered' /\ PostedLater'
    BY <1>0 DEF TypeOK, IdsRegistered, Registered, PostedLater
  <1>6. ResultsKept'  BY <1>0 DEF TypeOK, ResultsKept
  <1>7. CleansOwn' /\ CancelledDone'  BY <1>0 DEF TypeOK, CleansOwn, CancelledDone, Own
  <1> QED  BY <1>1, <1>2, <1>3, <1>4, <1>5, <1>6, <1>7

\* The cancel tasks are posted when every id of the reader has been cleaned.
LEMMA PostCancelStep == \A r \in Readers : IInv /\ PostCancel(r) => IInv'
  <1> SUFFICES ASSUME NEW r \in Readers, IInv, PostCancel(r) PROVE IInv'  OBVIOUS
  <1> USE DEF IInv, PostCancel, resultVars
  <1>1. TypeOK'  BY DEF TypeOK, ReaderStates, TaskStates, Own
  <1>2. NoLeakedResult'
    BY DEF TypeOK, NoLeakedResult, ResultsOf, Own, ResultsKept, IdsRegistered, Registered
  <1>3. BlockedHasNothing' /\ NoWaitForNothing'
    BY DEF TypeOK, BlockedHasNothing, ResultsOf, Own, NoWaitForNothing, Reading
  <1>4. FinalIsLast' /\ ReceivedEnded'  BY DEF TypeOK, FinalIsLast, ReceivedEnded
  <1>5. IdsRegistered' /\ PostedLater'
    BY DEF TypeOK, IdsRegistered, Registered, PostedLater
  <1>6. ResultsKept'  BY DEF TypeOK, ResultsKept
  <1>7. CleansOwn' /\ CancelledDone'  BY DEF TypeOK, CleansOwn, CancelledDone, Own
  <1> QED  BY <1>1, <1>2, <1>3, <1>4, <1>5, <1>6, <1>7

-----------------------------------------------------------------------------
\* process_new_tasks() and process_single_task() move a task of the queue.
LEMMA TakeStep ==
  \A t \in Tasks : IInv /\ (Take(t) \/ LaunchOrDefer(t)) => IInv'
  <1> SUFFICES ASSUME NEW t \in Tasks, IInv, Take(t) \/ LaunchOrDefer(t) PROVE IInv'  OBVIOUS
  <1> USE DEF IInv
  <1>0. PICK s \in {"queued", "taken", "running"} :
          /\ task[t] \in {"queued", "taken"} /\ task' = [task EXCEPT ![t] = s]
          /\ UNCHANGED <<reader, toClean, received, waitingIds, results, arrivals>>
          /\ UNCHANGED <<cancels, partials>>
    BY DEF Take, LaunchOrDefer, readerVars, resultVars
  <1>1. TypeOK'  BY <1>0 DEF TypeOK, TaskStates
  <1>2. NoLeakedResult' /\ BlockedHasNothing' /\ FinalIsLast' /\ CleansOwn' /\ CancelledDone'
    BY <1>0 DEF NoLeakedResult, BlockedHasNothing, ResultsOf, Own, FinalIsLast, CleansOwn,
                CancelledDone
  <1>3. NoWaitForNothing'  BY <1>0 DEF TypeOK, NoWaitForNothing, Reading
  <1>4. IdsRegistered' /\ PostedLater'
    BY <1>0 DEF TypeOK, IdsRegistered, Registered, PostedLater
  <1>5. ResultsKept' /\ ReceivedEnded'  BY <1>0 DEF TypeOK, ResultsKept, ReceivedEnded
  <1> QED  BY <1>1, <1>2, <1>3, <1>4, <1>5

\* What send() does, whatever it sends: the new entry comes last, its reader is
\* registered and nobody stays blocked.
LEMMA SendEffect ==
  ASSUME NEW t \in Tasks, NEW kind \in Kinds, IInv, Send(t, kind)
  PROVE  /\ UNCHANGED <<toClean, received, waitingIds>>
         /\ \/ /\ t \in waitingIds
               /\ results' = results \cup {[id |-> t, kind |-> kind, nr |-> arrivals]}
               /\ arrivals' = arrivals + 1
               /\ reader' = [r \in Readers |->
                               IF reader[r] = "blocked" THEN "woken" ELSE reader[r]]
            \/ /\ t \notin waitingIds
               /\ UNCHANGED <<results, arrivals, reader>>
  BY DEF Send, Entry

\* A result is sent while its task runs, and the task ends with its last one:
\* the step that all send actions have in common.
LEMMA SendStep ==
  ASSUME NEW t \in Tasks, NEW kind \in Kinds, IInv, Send(t, kind),
         task[t] \in {"taken", "running"}, UNCHANGED cancels,
         IF kind = "partial" THEN UNCHANGED task ELSE task' = [task EXCEPT ![t] = "ended"],
         partials' \in [Tasks -> Nat]
  PROVE  IInv'
  <1> USE DEF IInv
  <1> DEFINE new == [id |-> t, kind |-> kind, nr |-> arrivals]
  <1>0. /\ UNCHANGED <<toClean, received, waitingIds>>
        /\ \/ /\ t \in waitingIds
              /\ results' = results \cup {new}
              /\ arrivals' = arrivals + 1
              /\ reader' = [r \in Readers |->
                              IF reader[r] = "blocked" THEN "woken" ELSE reader[r]]
           \/ /\ t \notin waitingIds
              /\ UNCHANGED <<results, arrivals, reader>>
    BY SendEffect
  <1>a. new.id = t /\ new.kind = kind /\ new.nr = arrivals  OBVIOUS
  <1>b. \A e \in results : e.id \in Tasks /\ e.kind \in Kinds /\ e.nr \in Nat /\ e.nr < arrivals
    BY DEF TypeOK
  <1>c. /\ arrivals \in Nat /\ task \in [Tasks -> TaskStates]
        /\ reader \in [Readers -> ReaderStates] /\ t \notin received
        /\ \A e \in results : e.id = t => e.kind = "partial"
    BY DEF TypeOK, ReceivedEnded, ResultsKept
  <1>d. t \in waitingIds => Registered(Owner[t])  BY DEF IdsRegistered
  <1>1. TypeOK'
    <2>1. CASE t \in waitingIds
      <3>1. new \in [id : Tasks, kind : Kinds, nr : 0 .. arrivals]  BY <1>c
      <3>2. results \subseteq [id : Tasks, kind : Kinds, nr : 0 .. arrivals]
        BY <1>c DEF TypeOK
      <3>3. results' \subseteq [id : Tasks, kind : Kinds, nr : 0 .. (arrivals' - 1)]
        BY <2>1, <1>0, <1>c, <3>1, <3>2
      <3>4. \A e, f \in results' : e.nr = f.nr => e = f
        BY <2>1, <1>0, <1>a, <1>b, <1>c DEF TypeOK
      <3> HIDE DEF new
      <3> QED  BY <2>1, <1>0, <1>c, <3>3, <3>4 DEF TypeOK, ReaderStates, TaskStates
    <2>2. CASE t \notin waitingIds
      BY <2>2, <1>0, <1>c DEF TypeOK, TaskStates
    <2> QED  BY <2>1, <2>2
  <1> HIDE DEF new
  <1>2. NoLeakedResult'
    BY <1>0, <1>a, <1>c, <1>d DEF NoLeakedResult, ResultsOf, Own, Registered
  <1>3. BlockedHasNothing'  BY <1>0, <1>c DEF BlockedHasNothing, ResultsOf, Own
  <1>4. NoWaitForNothing'
    <2> SUFFICES ASSUME NEW u \in Tasks, Reading(Owner[u])', u \notin received'
                 PROVE  \/ task'[u] \in {"queued", "taken", "running"}
                        \/ \E e \in results' : e.id = u /\ e.kind # "partial"
      BY DEF NoWaitForNothing
    <2>0. Reading(Owner[u])  BY <1>0, <1>c DEF Reading
    <2>1. CASE u = t
      <3>1. t \in waitingIds  BY <2>0, <2>1 DEF IdsRegistered, Registered, Reading
      <3> QED  BY <2>1, <3>1, <1>0, <1>a, <1>c
    <2>2. CASE u # t  BY <2>2, <2>0, <1>0, <1>c DEF NoWaitForNothing
    <2> QED  BY <2>1, <2>2
  <1>5. FinalIsLast'  BY <1>0, <1>a, <1>b, <1>c DEF FinalIsLast
  <1>6. IdsRegistered' /\ PostedLater' /\ CancelledDone'
    BY <1>0, <1>c DEF TypeOK, IdsRegistered, Registered, PostedLater, CancelledDone
  <1>7. ResultsKept'
    <2>1. t \in waitingIds => reader[Owner[t]] \in {"idle", "woken", "blocked", "stop"}
      BY <1>d, <1>c DEF PostedLater, Registered
    <2> QED  BY <2>1, <1>0, <1>a, <1>b, <1>c DEF ResultsKept
  <1>8. ReceivedEnded' /\ CleansOwn'  BY <1>0, <1>c DEF TypeOK, ReceivedEnded, CleansOwn, Own
  <1> QED  BY <1>1, <1>2, <1>3, <1>4, <1>5, <1>6, <1>7, <1>8

\* send_partial_response()
LEMMA SendPartialStep == \A t \in Tasks : IInv /\ SendPartial(t) => IInv'
  <1> SUFFICES ASSUME NEW t \in Tasks, IInv, SendPartial(t) PROVE IInv'  OBVIOUS
  <1>1. partials' \in [Tasks -> Nat]  BY DEF SendPartial, IInv, TypeOK
  <1> QED  BY <1>1, SendStep DEF SendPartial, Kinds

\* send_final_response(), send_error()
LEMMA SendLastStep == \A t \in Tasks : IInv /\ SendLast(t) => IInv'
  <1> SUFFICES ASSUME NEW t \in Tasks, IInv, SendLast(t) PROVE IInv'  OBVIOUS
  <1> PICK kind \in {"final", "error"} : Send(t, kind)  BY DEF SendLast
  <1>1. partials' \in [Tasks -> Nat]  BY DEF SendLast, IInv, TypeOK
  <1> QED  BY <1>1, SendStep DEF SendLast, Kinds

\* A cancelled task ends without a result; its reader is done.
LEMMA HandleCancelStep == \A t \in Tasks : IInv /\ HandleCancel(t) => IInv'
  <1> SUFFICES ASSUME NEW t \in Tasks, IInv, HandleCancel(t) PROVE IInv'  OBVIOUS
  <1> USE DEF IInv, HandleCancel, readerVars, resultVars
  <1>1. TypeOK'  BY DEF TypeOK, TaskStates
  <1>2. NoLeakedResult' /\ BlockedHasNothing' /\ FinalIsLast' /\ CleansOwn' /\ CancelledDone'
    BY DEF NoLeakedResult, BlockedHasNothing, ResultsOf, Own, FinalIsLast, CleansOwn,
           CancelledDone
  <1>3. NoWaitForNothing'  BY DEF TypeOK, NoWaitForNothing, Reading, CancelledDone
  <1>4. IdsRegistered' /\ PostedLater'
    BY DEF TypeOK, IdsRegistered, Registered, PostedLater
  <1>5. ResultsKept' /\ ReceivedEnded'  BY DEF TypeOK, ResultsKept, ReceivedEnded
  <1> QED  BY <1>1, <1>2, <1>3, <1>4, <1>5

-----------------------------------------------------------------------------
\* Every step preserves the inductive invariant.
LEMMA NextIInv == IInv /\ [Next]_vars => IInv'
  <1> SUFFICES ASSUME IInv, [Next]_vars PROVE IInv'  OBVIOUS
  <1>1. CASE \E r \in Readers :
               Register(r) \/ PostTasks(r) \/ ReaderStep(r) \/ Unblock(r) \/ Leave(r)
    BY <1>1, RegisterStep, PostTasksStep, ReceiveStep, MoveStep, StopStep, CleanStep,
       PostCancelStep DEF ReaderStep
  <1>2. CASE \E t \in Tasks :
               Take(t) \/ LaunchOrDefer(t) \/ SendPartial(t) \/ SendLast(t) \/ HandleCancel(t)
    BY <1>2, TakeStep, SendPartialStep, SendLastStep, HandleCancelStep
  <1>3. CASE UNCHANGED vars
    <2> USE <1>3 DEF vars, readerVars, resultVars, taskVars, IInv
    <2>1. TypeOK' /\ FinalIsLast' /\ NoWaitForNothing' /\ NoLeakedResult' /\ BlockedHasNothing'
      BY DEF TypeOK, FinalIsLast, NoWaitForNothing, Reading, NoLeakedResult,
             BlockedHasNothing, ResultsOf
    <2>2. /\ IdsRegistered' /\ PostedLater' /\ ResultsKept' /\ ReceivedEnded'
          /\ CleansOwn' /\ CancelledDone'
      BY DEF IdsRegistered, Registered, PostedLater, ResultsKept, ReceivedEnded,
             CleansOwn, CancelledDone
    <2> QED  BY <2>1, <2>2
  <1> QED  BY <1>1, <1>2, <1>3 DEF Next

\* The inductive invariant holds in every reachable state.
LEMMA SpecIInv == Spec => []IInv
  BY InitIInv, NextIInv, PTL DEF Spec

\* Type correctness of server_response and its readers, for any requests.
THEOREM ResponseTyped == Spec => []TypeOK
  <1>1. IInv => TypeOK  BY DEF IInv
  <1> QED  BY <1>1, SpecIInv, PTL

\* stop() leaves no result behind and none can be added: whatever the requests,
\* queue_results does not grow by requests that are over.
THEOREM NoResultIsLeaked == Spec => []NoLeakedResult
  <1>1. IInv => NoLeakedResult  BY DEF IInv
  <1> QED  BY <1>1, SpecIInv, PTL

\* A reader in next() can always still get what it waits for.
THEOREM NoReaderWaitsForNothing == Spec => []NoWaitForNothing
  <1>1. IInv => NoWaitForNothing  BY DEF IInv
  <1> QED  BY <1>1, SpecIInv, PTL

\* No wakeup of recv_with_timeout() is lost.
THEOREM NoLostWakeup == Spec => []BlockedHasNothing
  <1>1. IInv => BlockedHasNothing  BY DEF IInv
  <1> QED  BY <1>1, SpecIInv, PTL

\* The final result or error of a task is the last of it that a reader sees.
THEOREM FinalResultIsLast == Spec => []FinalIsLast
  <1>1. IInv => FinalIsLast  BY DEF IInv
  <1> QED  BY <1>1, SpecIInv, PTL
=============================================================================
