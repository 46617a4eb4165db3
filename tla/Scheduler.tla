----------------------------- MODULE Scheduler ------------------------------
(***************************************************************************)
(* Scheduled tasks (packages/core/src/scheduler.ts), the table that keeps  *)
(* them over a restart (scheduled-task-store.ts) and the concurrency slots *)
(* their executions share with interactive turns (concurrent-manager.ts).  *)
(*                                                                         *)
(* A run is one call of _runScheduledTask.  It waits in the line of its    *)
(* session's turn lock, whose first member holds the lock; then the        *)
(* executor (agent.ts, runAgentLoopWithTask) takes a slot and works.  A    *)
(* run that exceeds the execution timeout is abandoned: the task goes on   *)
(* without it, and the run keeps the lock and the slot until it ends.      *)
(*                                                                         *)
(* Time is abstract: a pending task becomes due at some moment.  A run of  *)
(* the periodic tick, and everything up to the next await, is one step.    *)
(***************************************************************************)
EXTENDS Integers, Sequences, FiniteSets, Functions

CONSTANTS
  Tasks,          \* ids of scheduled tasks, each scheduled once
  Cron,           \* those with a cron expression
  Sessions,
  SessionOf,      \* [Tasks -> Sessions]
  MaxAttempts,    \* maxAttempts of every task
  Limits,         \* the values the heartbeat gives maxConcurrent
  Interactive,    \* the turn that takes a slot without the scheduler
  MaxTurns,       \* bound: interactive turns
  MaxHalts        \* bound: stops of the scheduler and crashes

ASSUME TasksAssumption == IsFiniteSet(Tasks) /\ Cron \subseteq Tasks
ASSUME SessionsAssumption == SessionOf \in [Tasks -> Sessions]
ASSUME AttemptsAssumption == MaxAttempts \in Nat \ {0}
ASSUME LimitsAssumption == Limits # {} /\ Limits \subseteq Nat \ {0}
ASSUME BoundsAssumption == MaxTurns \in Nat /\ MaxHalts \in Nat

\* A task waits for at most one abandoned run of its own, so that two names
\* are enough for the runs of one task.
Runs == Tasks \X {1, 2}

ASSUME InteractiveAssumption == Interactive \notin Runs

\* Who can hold a slot.
Users == Runs \cup {Interactive}

VARIABLES
  mem,        \* _scheduledTasks: the row of each task, or Absent
  db,         \* agent_scheduled_tasks: the row of each task, or Absent
  due,        \* runAt has passed, for a pending task
  ticking,    \* the interval is set
  recovered,  \* _recoveredPersistedTasks
  phase,      \* where each run, and the interactive turn, is
  timedOut,   \* the timeout of the run has fired
  line,       \* the turn lock: holder and waiters of each session
  active,     \* _active of the concurrency manager
  limit,      \* its _maxConcurrent
  waiting,    \* its _waiting
  starts,     \* executors started for the task since its last success
  lost,       \* of those, the ones a crash interrupted
  turns, halts

lockVars == <<phase, timedOut, line>>
slotVars == <<active, limit, waiting>>
taskVars == <<mem, db, due>>
ghostVars == <<starts, lost>>
lifeVars == <<ticking, recovered, turns, halts>>
vars == <<mem, db, due, ticking, recovered, phase, timedOut, line, active,
          limit, waiting, starts, lost, turns, halts>>

Row(status, attempts) == [status |-> status, attempts |-> attempts]
Absent == Row("absent", 0)
Live == {"pending", "running"}
Terminal == {"completed", "cancelled", "dead_letter"}

TaskOf(r) == r[1]
Line(r) == line[SessionOf[TaskOf(r)]]

\* The executor of the run was started and has not settled.
Begun(r) == phase[r] \notin {"free", "line"}

\* The runs of t that will still record the end of the task.
Watchers(t) ==
  {r \in Runs : TaskOf(r) = t /\ phase[r] # "free" /\ ~timedOut[r]}

-----------------------------------------------------------------------------
(* The map and the table                                                   *)

\* upsertTask() of a task that stays in the map.
Save(t, row) ==
  /\ mem' = [mem EXCEPT ![t] = row]
  /\ db' = [db EXCEPT ![t] = row]
  /\ due' = [due EXCEPT ![t] = FALSE]

\* Without the delete().
FinishInMap(t, row) == Save(t, row)

\* upsertTask() of a task that is over, and delete() from the map.
Finish(t, row) ==
  /\ mem' = [mem EXCEPT ![t] = Absent]
  /\ db' = [db EXCEPT ![t] = row]
  /\ due' = [due EXCEPT ![t] = FALSE]

\* schedule()
Schedule(t) ==
  /\ db[t] = Absent
  /\ Save(t, Row("pending", 0))
  /\ UNCHANGED <<lockVars, slotVars, ghostVars, lifeVars>>

\* runAt <= Date.now()
Elapse(t) ==
  /\ mem[t].status = "pending" /\ ~due[t]
  /\ due' = [due EXCEPT ![t] = TRUE]
  /\ UNCHANGED <<mem, db, lockVars, slotVars, ghostVars, lifeVars>>

\* cancelScheduled() asks the map and, before the recovery, the table.  It
\* tells nobody: the run of the task, if there is one, goes on.
Cancel(t) ==
  LET row == IF mem[t] # Absent THEN mem[t] ELSE db[t]
  IN  /\ row.status \in Live
      /\ Finish(t, [row EXCEPT !.status = "cancelled"])
      /\ UNCHANGED <<lockVars, slotVars, ghostVars, lifeVars>>

\* _markScheduledSuccess()
MarkScheduledSuccess(t) ==
  IF t \in Cron
    THEN /\ Save(t, Row("pending", 0))
         /\ starts' = [starts EXCEPT ![t] = 0]
         /\ lost' = [lost EXCEPT ![t] = 0]
    ELSE /\ Finish(t, [mem[t] EXCEPT !.status = "completed"])
         /\ UNCHANGED ghostVars

\* An attempt too many.
MarkOneMore(t) ==
  LET n == mem[t].attempts + 1
  IN  /\ IF n <= MaxAttempts THEN Save(t, Row("pending", n))
                             ELSE Finish(t, Row("dead_letter", n))
      /\ UNCHANGED ghostVars

\* _markScheduledFailure()
MarkScheduledFailure(t) ==
  LET n == mem[t].attempts + 1
  IN  /\ IF n < MaxAttempts THEN Save(t, Row("pending", n))
                            ELSE Finish(t, Row("dead_letter", n))
      /\ UNCHANGED ghostVars
-----------------------------------------------------------------------------
(* The concurrency manager                                                 *)

\* The queue is not looked at.
GrantNobody(free) == 0

\* _tryFulfillWaiting() with this many slots free: how many waiters get one.
Grants(free) ==
  IF free <= 0 THEN 0 ELSE IF free <= Len(waiting) THEN free ELSE Len(waiting)

\* `used` slots are taken before _tryFulfillWaiting() looks at the queue under
\* the limit `max`; `moved` is the phase function apart from the waiters.
TryFulfillWaiting(used, max, moved) ==
  LET n == Grants(max - used)
  IN  /\ active' = used + n
      /\ limit' = max
      /\ waiting' = SubSeq(waiting, n + 1, Len(waiting))
      /\ phase' = [u \in Users |->
                     IF \E k \in 1..n : waiting[k] = u THEN "working" ELSE moved[u]]

\* acquire()
Acquire(u) ==
  \/ /\ active < limit
     /\ active' = active + 1
     /\ phase' = [phase EXCEPT ![u] = "working"]
     /\ UNCHANGED <<limit, waiting>>
  \/ /\ active >= limit
     /\ waiting' = Append(waiting, u)
     /\ phase' = [phase EXCEPT ![u] = "slot"]
     /\ UNCHANGED <<limit, active>>

\* release()
Release(u) ==
  TryFulfillWaiting(IF active > 0 THEN active - 1 ELSE 0, limit,
                    [phase EXCEPT ![u] = "free"])

\* setMaxConcurrent(), called by the heartbeat.  Only a higher limit looks at
\* the queue.
SetMaxConcurrent(n) ==
  /\ n # limit
  /\ IF n > limit THEN TryFulfillWaiting(active, n, phase)
                  ELSE limit' = n /\ UNCHANGED <<active, waiting, phase>>
  /\ UNCHANGED <<taskVars, timedOut, line, ghostVars, lifeVars>>

\* A turn over the WebSocket calls runAgentLoopWithTask() itself.
TurnBegin ==
  /\ phase[Interactive] = "free"
  /\ turns < MaxTurns
  /\ turns' = turns + 1
  /\ Acquire(Interactive)
  /\ UNCHANGED <<taskVars, timedOut, line, ghostVars, ticking, recovered, halts>>

TurnEnd ==
  /\ phase[Interactive] = "working"
  /\ Release(Interactive)
  /\ UNCHANGED <<taskVars, timedOut, line, ghostVars, lifeVars>>
-----------------------------------------------------------------------------
(* The runs                                                                *)

\* The name of the next run of t.
Fresh(t) == IF phase[<<t, 1>>] = "free" THEN <<t, 1>> ELSE <<t, 2>>

\* The orders in which the runs S may enter the lock's line: the pass follows
\* the order of the map.
Orders(S) == Bijection(1..Cardinality(S), S)

\* _processPendingTasks(), the loop over the scheduled tasks.  No slot is taken
\* before an await, so isAtCapacity() is the same in the whole pass; each due
\* task is marked running, saved, and starts waiting for the lock.
Tick ==
  LET ready == {t \in Tasks : mem[t].status = "pending" /\ due[t]}
      new == {Fresh(t) : t \in ready}
      Running(row) == [row EXCEPT !.status = "running"]
  IN  /\ ticking
      /\ active < limit
      /\ ready # {}
      /\ mem' = [t \in Tasks |-> IF t \in ready THEN Running(mem[t]) ELSE mem[t]]
      /\ db' = [t \in Tasks |-> IF t \in ready THEN Running(mem[t]) ELSE db[t]]
      /\ due' = [t \in Tasks |-> due[t] /\ t \notin ready]
      /\ phase' = [u \in Users |-> IF u \in new THEN "line" ELSE phase[u]]
      /\ \E order \in [Sessions -> UNION {Orders(S) : S \in SUBSET new}] :
           /\ \A s \in Sessions :
                order[s] \in Orders({r \in new : SessionOf[TaskOf(r)] = s})
           /\ line' = [s \in Sessions |-> line[s] \o order[s]]
      /\ UNCHANGED <<timedOut, slotVars, ghostVars, lifeVars>>

\* The lock is granted: the executor starts, whatever became of the task in
\* the meantime.  It asks for a slot, unless it ends before: the task queue is
\* full (agent.ts:2503), or preparing an automation throws.
Begin(r) ==
  /\ phase[r] = "line" /\ Line(r)[1] = r
  /\ starts' = [starts EXCEPT ![TaskOf(r)] = @ + 1]
  /\ \/ Acquire(r)
     \/ phase' = [phase EXCEPT ![r] = "refused"] /\ UNCHANGED slotVars
  /\ UNCHANGED <<taskVars, timedOut, line, lost, lifeVars>>

\* An executor waits for an answer that will not come.
Hang(u) ==
  /\ phase[u] = "working"
  /\ phase' = [phase EXCEPT ![u] = "hung"]
  /\ UNCHANGED <<taskVars, timedOut, line, slotVars, ghostVars, lifeVars>>

\* _release() of the turn lock, whoever calls it.
Unlock(s) == line' = [line EXCEPT ![s] = IF @ = <<>> THEN @ ELSE Tail(@)]

\* `consume` settles: the slot and the lock are released.
LeaveLock(r) ==
  /\ \/ phase[r] = "working" /\ Release(r)
     \/ /\ phase[r] = "refused"
        /\ phase' = [phase EXCEPT ![r] = "free"]
        /\ UNCHANGED slotVars
  /\ Unlock(SessionOf[TaskOf(r)])
  /\ timedOut' = [timedOut EXCEPT ![r] = FALSE]

OwnerWithoutMapTest(r) == ~timedOut[r]
OwnerWithoutTimeoutTest(r) == mem[TaskOf(r)] # Absent

\* The rest of _runScheduledTask() looks whether it still has to record the end
\* of the run: not after a timeout, and not when the task left the map.
StillOwner(r) == ~timedOut[r] /\ mem[TaskOf(r)] # Absent

Settle(r) ==
  /\ LeaveLock(r)
  /\ IF StillOwner(r)
       THEN MarkScheduledSuccess(TaskOf(r)) \/ MarkScheduledFailure(TaskOf(r))
       ELSE UNCHANGED <<taskVars, ghostVars>>
  /\ UNCHANGED lifeVars

\* A release() as soon as nobody waits for the executor any more.
TimeoutReleases(r) ==
  /\ phase[r] \in {"slot", "working", "hung"} /\ ~timedOut[r]
  /\ timedOut' = [timedOut EXCEPT ![r] = TRUE]
  /\ Unlock(SessionOf[TaskOf(r)])
  /\ IF mem[TaskOf(r)] # Absent THEN MarkScheduledFailure(TaskOf(r))
                                ELSE UNCHANGED <<taskVars, ghostVars>>
  /\ UNCHANGED <<phase, slotVars, lifeVars>>

\* The timeout wins the race: the failure is recorded and the run abandoned.
Timeout(r) ==
  /\ phase[r] \in {"slot", "working", "hung"} /\ ~timedOut[r]
  /\ timedOut' = [timedOut EXCEPT ![r] = TRUE]
  /\ IF mem[TaskOf(r)] # Absent THEN MarkScheduledFailure(TaskOf(r))
                                ELSE UNCHANGED <<taskVars, ghostVars>>
  /\ UNCHANGED <<phase, line, slotVars, lifeVars>>
-----------------------------------------------------------------------------
(* The process                                                             *)

\* Only pending rows are read back.
RecoverPending ==
  /\ recovered' = TRUE
  /\ mem' = [t \in Tasks |-> IF db[t].status = "pending" THEN db[t] ELSE mem[t]]
  /\ UNCHANGED <<db, due>>

\* recoverPersistedTasks(): what ran when the process died is pending again,
\* and every live row is put in the map.
RecoverPersistedTasks ==
  /\ recovered' = TRUE
  /\ db' = [t \in Tasks |-> IF db[t].status = "running"
                              THEN [db[t] EXCEPT !.status = "pending"] ELSE db[t]]
  /\ mem' = [t \in Tasks |-> IF db[t].status \in Live THEN db'[t] ELSE mem[t]]
  /\ UNCHANGED due

\* start()
Start ==
  /\ ~ticking
  /\ ticking' = TRUE
  /\ IF recovered THEN UNCHANGED <<mem, db, due, recovered>>
                  ELSE RecoverPersistedTasks
  /\ UNCHANGED <<lockVars, slotVars, ghostVars, turns, halts>>

\* stop()
Stop ==
  /\ ticking
  /\ halts < MaxHalts
  /\ halts' = halts + 1
  /\ ticking' = FALSE
  /\ UNCHANGED <<taskVars, recovered, lockVars, slotVars, ghostVars, turns>>

\* The process dies and a new one is constructed: the table is what is left.
Crash ==
  /\ halts < MaxHalts
  /\ halts' = halts + 1
  /\ mem' = [t \in Tasks |-> Absent]
  /\ lost' = [t \in Tasks |->
                IF \E r \in Watchers(t) : Begun(r) THEN lost[t] + 1 ELSE lost[t]]
  /\ ticking' = FALSE /\ recovered' = FALSE
  /\ phase' = [u \in Users |-> "free"]
  /\ timedOut' = [r \in Runs |-> FALSE]
  /\ line' = [s \in Sessions |-> <<>>]
  /\ active' = 0 /\ waiting' = <<>> /\ limit' \in Limits
  /\ UNCHANGED <<db, due, starts, turns>>

Init ==
  /\ mem = [t \in Tasks |-> Absent] /\ db = [t \in Tasks |-> Absent]
  /\ due = [t \in Tasks |-> FALSE]
  /\ ticking = FALSE /\ recovered = FALSE
  /\ phase = [u \in Users |-> "free"]
  /\ timedOut = [r \in Runs |-> FALSE]
  /\ line = [s \in Sessions |-> <<>>]
  /\ active = 0 /\ waiting = <<>> /\ limit \in Limits
  /\ starts = [t \in Tasks |-> 0] /\ lost = [t \in Tasks |-> 0]
  /\ turns = 0 /\ halts = 0

Next ==
  \/ \E t \in Tasks : Schedule(t) \/ Elapse(t) \/ Cancel(t)
  \/ Tick
  \/ \E r \in Runs : Begin(r) \/ Settle(r) \/ Timeout(r)
  \/ \E u \in Users : Hang(u)
  \/ TurnBegin \/ TurnEnd
  \/ \E n \in Limits : SetMaxConcurrent(n)
  \/ Start \/ Stop \/ Crash

Spec == Init /\ [][Next]_vars

\* Time passes, the interval and the timeouts fire, an executor that is not
\* hung ends, and the gateway starts the process again.
Fairness ==
  /\ WF_vars(Tick) /\ WF_vars(Start) /\ WF_vars(TurnEnd)
  /\ \A t \in Tasks : WF_vars(Elapse(t))
  /\ \A r \in Runs : WF_vars(Begin(r)) /\ WF_vars(Settle(r)) /\ WF_vars(Timeout(r))

FairSpec == Spec /\ Fairness
-----------------------------------------------------------------------------
(* Properties                                                              *)

Phases == {"free", "line", "slot", "working", "hung", "refused"}
Statuses == {"absent"} \cup Live \cup Terminal
Rows == [status : Statuses, attempts : 0..MaxAttempts]

\* Every variable has the type of the field it models; the map holds live
\* tasks only.
TypeOK ==
  /\ mem \in [Tasks -> {Absent} \cup [status : Live, attempts : 0..(MaxAttempts - 1)]]
  /\ db \in [Tasks -> Rows]
  /\ due \in [Tasks -> BOOLEAN]
  /\ ticking \in BOOLEAN /\ recovered \in BOOLEAN
  /\ phase \in [Users -> Phases]
  /\ timedOut \in [Runs -> BOOLEAN]
  /\ line \in [Sessions -> Seq(Runs)]
  /\ active \in Nat /\ limit \in Limits
  /\ waiting \in Seq(Users)
  /\ starts \in [Tasks -> Nat] /\ lost \in [Tasks -> Nat]
  /\ turns \in 0..MaxTurns /\ halts \in 0..MaxHalts

\* What a restart would find is what the process knows: every task in the map
\* has the same row in the table, and once recovered no live row is missing
\* from the map, where nothing would ever run it.
StoreAgrees ==
  \A t \in Tasks :
    /\ mem[t] # Absent => mem[t] = db[t]
    /\ recovered /\ db[t].status \in Live => mem[t] # Absent

\* A task the map calls running has exactly one run that will record its end,
\* through timeouts, retries and abandoned runs; a pending one has none, so no
\* second run can start beside it.
RunningIsWatched ==
  \A t \in Tasks :
    /\ mem[t].status = "running" => Cardinality(Watchers(t)) = 1
    /\ mem[t].status = "pending" => Watchers(t) = {}

\* scheduler.ts:300-306: another scheduled task of the session "can never start
\* a turn while this one is in-flight", the abandoned executor of a timed-out
\* run included.
OneExecutorPerSession ==
  \A s \in Sessions :
    Cardinality({r \in Runs : SessionOf[TaskOf(r)] = s /\ Begun(r)}) <= 1

\* The executor starts at most maxAttempts times, not counting the starts a
\* crash interrupted, and a task is dead only after all of them.
AttemptsExact ==
  \A t \in Tasks :
    /\ starts[t] <= MaxAttempts + lost[t]
    /\ db[t].status = "dead_letter" => starts[t] = MaxAttempts + lost[t]

\* The counter of the concurrency manager is the number of turns that hold a
\* slot, and nobody waits while a slot is free, after any mix of releases,
\* abandoned runs and changes of the limit.
SlotsExact ==
  /\ active = Cardinality({u \in Users : phase[u] \in {"working", "hung"}})
  /\ waiting # <<>> => active >= limit

\* A completed, cancelled or dead task stays so: no late executor, timeout,
\* cancellation or recovery writes over its row.
TerminalForever ==
  [][\A t \in Tasks : db[t].status \in Terminal => db'[t] = db[t]]_vars

Life == INSTANCE TaskLife WITH row <- db

\* Through ticks, timeouts, abandoned runs, cancellations, crashes and
\* recoveries the table only shows the life of TaskLife: a task succeeds, fails
\* or is retried from "running" alone and once for each start, an attempt is
\* counted once, and a row that is over is not written again.  A late executor
\* of an abandoned run (scheduler.ts:327) adds nothing to it.
RowsLiveAsPromised == Life!LifeSpec

Hung == {u \in Users : phase[u] = "hung"}

\* A task that is not recurring ends, through ticks, timeouts and retries of
\* _markScheduledFailure(), unless an executor that hangs keeps its session
\* locked, or hung executors keep every slot.
TaskEventuallyEnds ==
  \A t \in Tasks \ Cron :
    db[t].status \in Live ~>
      \/ db[t].status \in Terminal
      \/ \E r \in Hung \cap Runs : SessionOf[TaskOf(r)] = SessionOf[t]
      \/ Cardinality(Hung) >= limit
=============================================================================
